----------------------------- MODULE MCDesktop -----------------------------
(* The parts of the desktop application that have a few requests or files   *)
(* each: the page's connection, its jobs, its preferences, the screen of    *)
(* the collections, and the host's list of workspaces.  They share nothing  *)
(* here, so every behaviour runs one of them and the others rest in an      *)
(* initial state, where their properties hold.                              *)
EXTENDS Desktop, TLC

VARIABLE part   \* the one that runs

\* A legacy theme alone, the default with a recent search, a theme with a key that
\* does not parse, and recent searches that the service refuses.
Legacy(layout, recent, invalid) == [layout |-> layout, recent |-> recent, invalid |-> invalid]
MCLegacies == {Legacy("theme" :> 1, NoValue, FALSE), Legacy("theme" :> 0, <<"b">>, FALSE),
               Legacy("theme" :> 1, NoValue, TRUE), Legacy([f \in {} |-> 0], <<"x">>, FALSE)}

\* Two changes, or two of a change, a failure and a restart.
Budget(c, f, v) == [changes |-> c, failures |-> f, visits |-> v]
MCBudgets == {Budget(2, 0, 0), Budget(1, 1, 0), Budget(1, 0, 1), Budget(0, 1, 1)}

\* Two processes with a command, or three with a token that is refused.
Limit(p, c, x) == [processes |-> p - 1, commands |-> c, collisions |-> x]
MCLimits == {Limit(2, 1, 0), Limit(3, 0, 1)}

\* The jobs of search and of attachments show alike.
Case(s, f) == [screen |-> s, failures |-> f]
MCCases == {Case("backup", 1), Case("search", 2)}

\* Two collections, one with a field and one with archives: four acts on the
\* settings, three on the fields, or fewer with a failure.
Settings(n, o) == [name |-> n, order |-> o]
MCSchema == [rows |-> "a" :> Settings(1, 0) @@ "b" :> Settings(2, 1) @@ "c" :> Nothing,
             fields |-> "f" :> [owner |-> "a", key |-> 1] @@ "g" :> Nothing]
Left(a, f, x) == [schema |-> MCSchema, kept |-> {"b"},
                  left |-> [acts |-> a, fieldActs |-> f, failures |-> x]]
MCScenes == {Left(4, 0, 0), Left(2, 0, 1), Left(1, 3, 0)}

Init ==
  /\ part \in {"session", "job", "preferences", "schema", "registry"}
  /\ SessionInit /\ ViewInit /\ PreferencesInit /\ SchemaInit /\ RegistryInit
  /\ part # "session" => host.state = "ready" /\ limit = Limit(2, 1, 0)
  /\ part # "job" => screen = "backup"
  /\ server.layout["width"] = Default
  /\ part # "preferences" => /\ server.layout = Factory /\ legacy = NoValue
                             /\ budget = Budget(2, 0, 0)
  /\ part # "schema" => left = Left(4, 0, 0).left

vars == <<part, sessionVars, viewVars, preferenceVars, schemaVars, registryVars>>

SessionRuns ==
  /\ part = "session" /\ SessionNext
  /\ UNCHANGED <<part, viewVars, preferenceVars, schemaVars, registryVars>>

JobRuns ==
  /\ part = "job" /\ ViewNext
  /\ UNCHANGED <<part, sessionVars, preferenceVars, schemaVars, registryVars>>

PreferencesRun ==
  /\ part = "preferences" /\ PreferencesNext
  /\ UNCHANGED <<part, sessionVars, viewVars, schemaVars, registryVars>>

SchemaRuns ==
  /\ part = "schema" /\ SchemaNext
  /\ UNCHANGED <<part, sessionVars, viewVars, preferenceVars, registryVars>>

RegistryRuns ==
  /\ part = "registry" /\ RegistryNext
  /\ UNCHANGED <<part, sessionVars, viewVars, preferenceVars, schemaVars>>

Next == SessionRuns \/ JobRuns \/ PreferencesRun \/ SchemaRuns \/ RegistryRuns

\* The host answers and delivers, the service answers, and the page handles what
\* it gets; nothing obliges a user, a crash, a recovery, a command or a stream.
SessionDoes(A) ==
  /\ part = "session" /\ A
  /\ UNCHANGED <<part, viewVars, preferenceVars, schemaVars, registryVars>>

JobDoes(A) ==
  /\ part = "job" /\ A
  /\ UNCHANGED <<part, sessionVars, preferenceVars, schemaVars, registryVars>>

Fairness ==
  /\ WF_vars(SessionDoes(EventArrives \/ InfoArrives \/ RecoverReturns \/ OpenReturns))
  /\ WF_vars(SessionDoes(\E g \in Generations : HostAnswers(g) \/ MetaArrives(g)))
  /\ WF_vars(JobDoes(PollTick \/ PollAnswered \/ PollArrives))
  /\ WF_vars(JobDoes(CancelAnswered \/ CancelArrives)) /\ WF_vars(JobDoes(EventRead))

Spec == Init /\ [][Next]_vars /\ Fairness

-----------------------------------------------------------------------------
\* The gate's spinner ends (BackendContext), and so does a job on the screen that
\* watches it (useJob).
WaitsEnd == (part = "session" => GateOpens) /\ EndedJobsShow

=============================================================================
