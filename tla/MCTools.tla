------------------------------ MODULE MCTools ------------------------------
(* The command-line tools of the repository for TLC.  They share nothing,   *)
(* so every behaviour runs one of them and the others rest in an initial    *)
(* state, where their properties hold.                                      *)
EXTENDS Tools, TLC

CONSTANTS u1, u2, z1, z2, l1, l2

VARIABLE tool   \* the one that runs

\* One run that sees every commit order, or two that overlap, with a mishap.
Limit(t, n, c, x) == [tools |-> t, commits |-> n, commands |-> c, mishaps |-> x]
SmallLimit == Limit({u1, u2}, 3, 3, 1)
MCLimits == {SmallLimit, Limit({u1}, 5, 4, 0), Limit({u1}, 4, 3, 2)}

\* Sizes below, on and above the marker 4; one run, or two on one output.
Option(force, dry, all, empty, store) ==
  [force |-> force, dryRun |-> dry, allFiles |-> all, allowEmpty |-> empty, store |-> store]
MCOptions == {Option(FALSE, FALSE, FALSE, FALSE, FALSE), Option(TRUE, FALSE, TRUE, TRUE, TRUE),
              Option(FALSE, TRUE, FALSE, FALSE, FALSE)}
SmallPlan == [zips |-> {z1, z2}, sizes |-> {0}, edits |-> 0]
MCPlans == {SmallPlan, [zips |-> {z1}, sizes |-> {0, 3, 5}, edits |-> 1]}
Unread == [kind |-> "file", size |-> 0]

Scene(a, b, windows, late) ==
  [kind |-> l1 :> a @@ l2 :> b, windows |-> windows, late |-> late]
SmallScene == Scene("dev", "dev", TRUE, FALSE)
MCScenes == {Scene("dev", "dev", w, FALSE) : w \in BOOLEAN} \cup {Scene("dev", "dev", TRUE, TRUE)}
              \cup {Scene("e2e", "smoke", w, t) : w, t \in BOOLEAN}
              \cup {Scene("dev", "e2e", TRUE, FALSE)}

MCNames == <<"code", "notes">>
MCTargets == <<"html", "css">>

Init ==
  /\ tool \in {"upstream", "zip", "stack", "issue", "prototype"}
  /\ UpstreamInit /\ ZipInit /\ StackInit /\ TransportInit /\ PrototypeInit
  /\ tool # "upstream" => limit = SmallLimit
  /\ tool # "zip" => /\ plan = SmallPlan /\ output = None
                     /\ files = [n \in Path |-> Unread]
  /\ tool # "stack" => scene = SmallScene
  /\ tool # "prototype" => document = [t \in Target |-> 1]

vars == <<tool, upstreamVars, zipVars, stackVars, transportVars, prototypeVars>>

UpstreamRuns ==
  /\ tool = "upstream" /\ UpstreamNext
  /\ UNCHANGED <<tool, zipVars, stackVars, transportVars, prototypeVars>>

ZipRuns ==
  /\ tool = "zip" /\ ZipNext
  /\ UNCHANGED <<tool, upstreamVars, stackVars, transportVars, prototypeVars>>

StackRuns ==
  /\ tool = "stack" /\ StackNext
  /\ UNCHANGED <<tool, upstreamVars, zipVars, transportVars, prototypeVars>>

IssueRuns ==
  /\ tool = "issue" /\ TransportNext
  /\ UNCHANGED <<tool, upstreamVars, zipVars, stackVars, prototypeVars>>

PrototypeRuns ==
  /\ tool = "prototype" /\ PrototypeNext
  /\ UNCHANGED <<tool, upstreamVars, zipVars, stackVars, transportVars>>

Next == UpstreamRuns \/ ZipRuns \/ StackRuns \/ IssueRuns \/ PrototypeRuns

\* DevStack's fairness: the steps are guarded by the tool that has them.
Goes(A) ==
  /\ tool = "stack" /\ A
  /\ UNCHANGED <<tool, upstreamVars, zipVars, transportVars, prototypeVars>>

Fairness ==
  \A l \in Launchers :
    /\ WF_vars(Goes(ChildEnded(l) /\ Stops(l)))
    /\ WF_vars(Goes(Asked(l))) /\ WF_vars(Goes(Cleans(l)))
    /\ WF_vars(Goes(~scene.late /\ backend[l] = "closing" /\ BackendExits(l)))
    /\ WF_vars(Goes(SmokeWaits(l))) /\ WF_vars(Goes(SmokeRemoves(l)))

Spec == Init /\ [][Next]_vars /\ Fairness

=============================================================================
