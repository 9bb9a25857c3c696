----------------------------- MODULE MCBackups -----------------------------
(* TLC instances of Backups.  A behaviour has one of two scopes, chosen at its *)
(* start: three backups of one workspace under a clock that may go back, or    *)
(* two backups, restores and attachments in two workspaces with one directory. *)
EXTENDS Backups

CONSTANTS w1, w2, x1, i1, d1, d2

TwoWorkspaces == {w1, w2}
OneItem       == {x1}
OneImport     == {i1}
OneDir        == {d1}
TwoDirs       == {d1, d2}

VARIABLE scope

ScopedInit == Init /\ scope \in {"retention", "restore"}

RetentionNext == BackupStep \/ Stop \/ Tick \/ Open(w1)

RestoreNext ==
  \/ BackupStep /\ taken' < MaxRuns /\ dir'[w1] # d2 /\ dir'[w2] # d2
  \/ RestoreStep \/ AttachmentStep \/ Stop
  \/ \E w \in Workspaces : Open(w) \/ Elsewhere(w)

ScopedNext ==
  /\ \/ scope = "retention" /\ RetentionNext
     \/ scope = "restore" /\ RestoreNext
  /\ UNCHANGED scope

ScopedSpec == ScopedInit /\ [][ScopedNext]_<<vars, scope>>
=============================================================================
