---------------------------- MODULE MCJobManager ----------------------------
(* TLC instances of JobManager: connections and job types are model values. *)
EXTENDS JobManager, TLC

CONSTANTS s1, s2, backup, rebuild

NoStreams  == {}
OneStream  == {s1}
TwoStreams == {s1, s2}
BackupOnly == {backup}
BothKinds  == {backup, rebuild}
=============================================================================
