--------------------------- MODULE MCPageEditing ---------------------------
(* Small instances of PageEditing for TLC.                                  *)
EXTENDS PageEditing

CONSTANTS t1, rec

Budget(e, s, f, c) == [edits |-> e, sent |-> s, failures |-> f, clicks |-> c]

\* Two mutations on one screen, or a walk through the page with a draft, or a
\* mutation, a step of the walk and a failure.
MCBudgets == {Budget(1, 2, 0, 0), Budget(1, 0, 0, 3), Budget(1, 1, 1, 1)}
=============================================================================
