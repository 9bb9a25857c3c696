----------------------------- MODULE MCArchives -----------------------------
(* TLC instances of Archives. *)
EXTENDS Archives, TLC

CONSTANTS c1, c2, f1, f2, a1, t1, t2, h1, h2

TwoCollections == {c1, c2}
TwoFields      == {f1, f2}
OneField       == {f1}
OneArchive     == {a1}
TwoTypes       == {t1, t2}
OneHandler     == {h1}
TwoHandlers    == {h1, h2}
AnyConnection  == BOOLEAN
TwoKinds       == {[default |-> TRUE, required |-> FALSE], [default |-> FALSE, required |-> TRUE]}
Symmetric      == Permutations(TwoCollections) \cup Permutations(Fields)
                    \cup Permutations(TwoTypes) \cup Permutations(TwoHandlers)
=============================================================================
