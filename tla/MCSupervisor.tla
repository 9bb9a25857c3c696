---------------------------- MODULE MCSupervisor ----------------------------
(* TLC instances of Supervisor. *)
EXTENDS Supervisor

CONSTANT w1

OneWorkspace == {w1}
=============================================================================
