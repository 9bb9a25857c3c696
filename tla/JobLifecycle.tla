---------------------------- MODULE JobLifecycle ----------------------------
(***************************************************************************)
(* What the workbench promises about a background job, seen through the    *)
(* only state that outlives the process: its row in background_jobs.  A    *)
(* row is written once as queued, moves forward, and once it carries a     *)
(* terminal state it never changes again.  A restart turns every row that  *)
(* is still active into a failed one, all of them in one statement.        *)
(***************************************************************************)
CONSTANT Jobs

VARIABLE row

ActiveStates   == {"queued", "running"}
TerminalStates == {"succeeded", "failed", "cancelled"}
RowStates      == {"absent"} \cup ActiveStates \cup TerminalStates

Init == row = [j \in Jobs |-> "absent"]

\* A started job is durable before anything else can see it.
Enqueue(j) == /\ row[j] = "absent"
              /\ row' = [row EXCEPT ![j] = "queued"]

Run(j) == /\ row[j] = "queued"
          /\ row' = [row EXCEPT ![j] = "running"]

\* A queued row may end directly: the write of "running" is allowed to fail.
End(j) == /\ row[j] \in ActiveStates
          /\ \E outcome \in TerminalStates : row' = [row EXCEPT ![j] = outcome]

\* The next process ends every job that the last one left behind.
InterruptAll ==
    row' = [j \in Jobs |-> IF row[j] \in ActiveStates THEN "failed" ELSE row[j]]

Next == \/ \E j \in Jobs : Enqueue(j) \/ Run(j) \/ End(j)
        \/ InterruptAll

Spec == Init /\ [][Next]_row
=============================================================================
