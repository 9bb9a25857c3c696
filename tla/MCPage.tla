------------------------------- MODULE MCPage -------------------------------
(* The page: its editors over the query cache, or its connection to the     *)
(* backend, of which every behaviour runs one.                              *)
EXTENDS MCPageEditing, PageSession

VARIABLE part   \* the one that runs

\* Two processes with a command and a token that is refused; three with one of these.
Limit(p, c, x) == [processes |-> p - 1, commands |-> c, collisions |-> x]
MCLimits == {Limit(2, 1, 1), Limit(3, 1, 0), Limit(3, 0, 1)}

PageInit ==
  /\ part \in {"editing", "session"}
  /\ Init /\ SessionInit
  /\ part # "editing" => /\ left = Budget(1, 2, 0, 0) /\ screen = "tasks"
                         /\ \A i \in Items : row[i].live
                         /\ selection = Nothing
  /\ part # "session" => host.state = "ready" /\ limit = Limit(2, 1, 1)

PageNext ==
  \/ part = "editing" /\ Next /\ UNCHANGED <<part, sessionVars>>
  \/ part = "session" /\ SessionNext /\ UNCHANGED <<part, vars>>

PageSpec == PageInit /\ [][PageNext]_<<part, vars, sessionVars>>
=============================================================================
