--------------------------- MODULE MCAttachments ---------------------------
(* TLC instance of Attachments: workspaces, attachments and imports are model *)
(* values, and the three sets are symmetric.                                  *)
EXTENDS Attachments, TLC

CONSTANTS w1, w2, x1, x2, x3, i1, i2

TwoWorkspaces == {w1, w2}
ThreeItems    == {x1, x2, x3}
TwoImports    == {i1, i2}
Symmetric     == Permutations(TwoWorkspaces) \cup Permutations(ThreeItems)
                   \cup Permutations(TwoImports)
=============================================================================
