------------------------------ MODULE DevStack ------------------------------
(* The scripts that start a sidecar beside a development server, on a       *)
(* workspace made for the run: dev-web.mjs, e2e-server.mjs with Playwright's *)
(* global-teardown.ts, and smoke-sidecar.mjs, which starts it twice.  What   *)
(* must not happen is that a process or a workspace stays behind, or that a *)
(* workspace in use is removed.  Node runs one handler at a time, so the    *)
(* steps below are handlers and the stretches between awaits; launchers,    *)
(* sidecars and the teardown run beside each other.                         *)
EXTENDS Naturals, FiniteSets

CONSTANTS
  Launchers,   \* runs of the scripts
  Scenes,      \* kind: of each run, "dev", "e2e" or "smoke"; windows: a directory with
               \* files in use cannot be removed, and TEMP is set; late: a sidecar may
               \* take longer to end than the 3 s or 5 s a script waits
  Nobody       \* no launcher, no workspace

\* One Playwright run: it starts one server, and its teardown is the only one.
ASSUME ScenesAreScenes ==
  /\ Nobody \notin Launchers
  /\ \A s \in Scenes :
       /\ s.kind \in [Launchers -> {"dev", "e2e", "smoke"}]
       /\ s.windows \in BOOLEAN /\ s.late \in BOOLEAN
       /\ \A l, m \in Launchers : s.kind[l] = "e2e" /\ s.kind[m] = "e2e" => l = m

VARIABLES
  scene,      \* of this behaviour
  pc,         \* of each launcher
  todo,       \* the workspaces its loop has still to look at
  target,     \* the workspace a launcher is about to reclaim
  seen,       \* history: the workspaces abandoned when it began to reclaim
  url,        \* backendUrl, or the handle's: it has read the ready line
  stopping,   \* the stop flag
  vite,       \* its development server
  backend,    \* its sidecar
  line,       \* the ready line: "none", "sent" or "read"
  raced,      \* history: its ready line was read when it was stopping
  rounds,     \* sidecars the smoke test has started
  lingers,    \* of the smoke test: its first sidecar is still closing
  dirs,       \* the workspaces that exist, by the launcher that made them
  markers,    \* the workspaces with a .dev-web.pid
  stateFile,  \* test-results/.e2e-server.json: whose
  teardown    \* globalTeardown: "idle", then where it is and whose state it has read

stackVars == <<scene, pc, todo, target, seen, url, stopping, vite, backend, line, raced, rounds,
               lingers, dirs, markers, stateFile, teardown>>

Gone(l) == backend[l] \in {"none", "gone"}
Exited(l) == pc[l] \in {"exited", "killed"}
NoSidecar(l) == Gone(l) /\ ~lingers[l]
Abandoned(l) == Exited(l) /\ NoSidecar(l)
Serves(l) == backend[l] = "listening"

\* rm -r of a workspace: on Windows the files a sidecar holds stay.
Removable(l) == ~scene.windows \/ NoSidecar(l)

\* The deadline of a wait: only a late sidecar is still closing then.
DeadlinePasses(l) == backend[l] = "closing" => scene.late

ScriptsStay == UNCHANGED <<scene, raced, lingers, todo, target, seen, url, stopping, vite, backend,
                           line, rounds>>

-----------------------------------------------------------------------------
\* dev-web.mjs, on its way in.

\* Look at one workspace with the private prefix: it is kept when the process
\* of its marker runs, and reclaimed when it has no marker.  Another process
\* that has taken the number of a launcher would keep it too; it has no state.
ReclaimLooks(l) ==
  /\ pc[l] = "reclaim" /\ target[l] = Nobody
  /\ \E m \in todo[l] :
       /\ todo' = [todo EXCEPT ![l] = @ \ {m}]
       /\ target' = [target EXCEPT ![l] = IF m \in markers /\ ~Exited(m) THEN Nobody ELSE m]
  /\ UNCHANGED <<scene, raced, lingers, pc, seen, url, stopping, vite, backend, line, rounds, dirs,
                 markers, stateFile, teardown>>

ReclaimRemoves(l) ==
  /\ pc[l] = "reclaim" /\ target[l] # Nobody
  /\ IF Removable(target[l])
     THEN dirs' = dirs \ {target[l]} /\ markers' = markers \ {target[l]}
     ELSE UNCHANGED <<dirs, markers>>
  /\ target' = [target EXCEPT ![l] = Nobody]
  /\ UNCHANGED <<scene, raced, lingers, todo, pc, seen, url, stopping, vite, backend, line, rounds,
                 stateFile, teardown>>

\* The loop runs over what readdir listed.
Launch(l) ==
  /\ pc[l] = "new"
  /\ pc' = [pc EXCEPT ![l] = IF scene.kind[l] = "dev" THEN "reclaim" ELSE "make"]
  /\ todo' = [todo EXCEPT ![l] = {m \in dirs : scene.kind[m] = "dev"}]
  /\ seen' = [seen EXCEPT ![l] = {m \in dirs : scene.kind[m] = "dev" /\ Abandoned(m)}]
  /\ UNCHANGED <<scene, raced, lingers, target, url, stopping, vite, backend, line, rounds, dirs,
                 markers, stateFile, teardown>>

MakesWorkspace(l) ==
  /\ \/ pc[l] = "make"
     \/ pc[l] = "reclaim" /\ target[l] = Nobody /\ todo[l] = {}
  /\ pc' = [pc EXCEPT ![l] = IF scene.kind[l] = "dev" THEN "mark" ELSE "spawn"]
  /\ dirs' = dirs \cup {l}
  /\ ScriptsStay /\ UNCHANGED <<markers, stateFile, teardown>>

\* The write throws when the workspace has been reclaimed meanwhile.
WritesMarker(l) ==
  /\ pc[l] = "mark"
  /\ IF l \in dirs
     THEN pc' = [pc EXCEPT ![l] = "spawn"] /\ markers' = markers \cup {l}
     ELSE pc' = [pc EXCEPT ![l] = "exited"] /\ UNCHANGED markers
  /\ ScriptsStay /\ UNCHANGED <<dirs, stateFile, teardown>>

Spawns(l) ==
  /\ pc[l] = "spawn"
  /\ pc' = [pc EXCEPT ![l] = "running"]
  /\ backend' = [backend EXCEPT ![l] = "starting"]
  /\ line' = [line EXCEPT ![l] = "none"]
  /\ url' = [url EXCEPT ![l] = FALSE]
  /\ rounds' = [rounds EXCEPT ![l] = @ + 1]
  /\ UNCHANGED <<scene, raced, lingers, todo, target, seen, stopping, vite, dirs, markers,
                 stateFile, teardown>>

-----------------------------------------------------------------------------
\* External: the sidecar and the development server.

\* It opens the workspace it is given and takes its lock, or exits.
BackendListens(l) ==
  /\ backend[l] = "starting" /\ l \in dirs /\ ~lingers[l]
  /\ backend' = [backend EXCEPT ![l] = "listening"]
  /\ line' = [line EXCEPT ![l] = "sent"]
  /\ UNCHANGED <<scene, raced, lingers, todo, pc, target, seen, url, stopping, vite, rounds, dirs,
                 markers, stateFile, teardown>>

BackendExits(l) ==
  /\ ~Gone(l)
  /\ backend' = [backend EXCEPT ![l] = "gone"]
  /\ UNCHANGED <<scene, raced, lingers, todo, pc, target, seen, url, stopping, vite, line, rounds,
                 dirs, markers, stateFile, teardown>>

LingererExits(l) ==
  /\ lingers[l]
  /\ lingers' = [lingers EXCEPT ![l] = FALSE]
  /\ UNCHANGED <<scene, raced, todo, pc, target, seen, url, stopping, vite, backend, line, rounds,
                 dirs, markers, stateFile, teardown>>

ViteExits(l) ==
  /\ vite[l] = "alive"
  /\ vite' = [vite EXCEPT ![l] = "gone"]
  /\ UNCHANGED <<scene, raced, lingers, todo, pc, target, seen, url, stopping, backend, line,
                 rounds, dirs, markers, stateFile, teardown>>

\* SIGTERM: a sidecar that has no handler yet dies, another one shuts down.
Terminated(l) ==
  CASE Gone(l) -> backend[l]
    [] backend[l] = "starting" -> "gone"
    [] OTHER -> "closing"

-----------------------------------------------------------------------------
\* The handlers of dev-web.mjs and e2e-server.mjs.

Serving(l) == scene.kind[l] # "smoke" /\ pc[l] \in {"running", "asking", "waiting"}

\* stop(): asks a sidecar whose address is known, kills another one.
Stop(l) ==
  /\ stopping' = [stopping EXCEPT ![l] = TRUE]
  /\ IF url[l]
     THEN pc' = [pc EXCEPT ![l] = "asking"] /\ UNCHANGED <<backend, vite>>
     ELSE /\ pc' = [pc EXCEPT ![l] = "waiting"]
          /\ backend' = [backend EXCEPT ![l] = Terminated(l)]
          /\ vite' = [vite EXCEPT ![l] = IF @ = "alive" THEN "gone" ELSE @]

\* Mutant: the state file is not written.
ReadsLine_NoState(l) ==
  /\ Serving(l) /\ line[l] = "sent"
  /\ line' = [line EXCEPT ![l] = "read"]
  /\ url' = [url EXCEPT ![l] = TRUE]
  /\ vite' = [vite EXCEPT ![l] = "alive"]
  /\ raced' = [raced EXCEPT ![l] = stopping[l]]
  /\ UNCHANGED <<scene, lingers, todo, pc, target, seen, stopping, backend, rounds, dirs, markers,
                 stateFile, teardown>>

\* The ready line starts the development server, also during a stop that
\* began before it; an unexpected line stops.
ReadsLine(l) ==
  /\ Serving(l) /\ line[l] = "sent"
  /\ line' = [line EXCEPT ![l] = "read"]
  /\ url' = [url EXCEPT ![l] = TRUE]
  /\ vite' = [vite EXCEPT ![l] = "alive"]
  /\ raced' = [raced EXCEPT ![l] = stopping[l]]
  /\ stateFile' = IF scene.kind[l] = "e2e" THEN l ELSE stateFile
  /\ UNCHANGED <<scene, lingers, todo, pc, target, seen, stopping, backend, rounds, dirs, markers,
                 teardown>>

ReadsBadLine(l) ==
  /\ Serving(l) /\ line[l] = "sent" /\ ~stopping[l]
  /\ line' = [line EXCEPT ![l] = "read"]
  /\ Stop(l)
  /\ UNCHANGED <<scene, raced, lingers, todo, target, seen, url, rounds, dirs, markers, stateFile,
                 teardown>>

\* SIGINT or SIGTERM; the exit of the sidecar or of the development server.
Stops(l) ==
  /\ Serving(l) /\ ~stopping[l]
  /\ Stop(l)
  /\ UNCHANGED <<scene, raced, lingers, todo, target, seen, url, line, rounds, dirs, markers,
                 stateFile, teardown>>

ChildEnded(l) == Gone(l) \/ vite[l] = "gone"

\* After /internal/shutdown, or the kill when it failed, the server is killed.
Asked(l) ==
  /\ pc[l] = "asking"
  /\ backend' = [backend EXCEPT ![l] =
       IF Serves(l) THEN "closing" ELSE Terminated(l)]
  /\ vite' = [vite EXCEPT ![l] = IF @ = "alive" THEN "gone" ELSE @]
  /\ pc' = [pc EXCEPT ![l] = "waiting"]
  /\ UNCHANGED <<scene, raced, lingers, todo, target, seen, url, stopping, line, rounds, dirs,
                 markers, stateFile, teardown>>

\* Mutant: the wait has no deadline.
Cleans_NoDeadline(l) ==
  /\ Serving(l) /\ pc[l] = "waiting" /\ Gone(l)
  /\ pc' = [pc EXCEPT ![l] = "exited"]
  /\ IF Removable(l)
     THEN /\ dirs' = dirs \ {l} /\ markers' = markers \ {l}
          /\ stateFile' = IF scene.kind[l] = "e2e" THEN Nobody ELSE stateFile
     ELSE UNCHANGED <<dirs, markers, stateFile>>
  /\ ScriptsStay /\ UNCHANGED teardown

\* The sidecar has exited or three seconds have passed.  A removal that fails
\* is reported by dev-web and ends e2e-server, which keeps its state file.
Cleans(l) ==
  /\ Serving(l) /\ pc[l] = "waiting" /\ DeadlinePasses(l)
  /\ pc' = [pc EXCEPT ![l] = "exited"]
  /\ IF Removable(l)
     THEN /\ dirs' = dirs \ {l} /\ markers' = markers \ {l}
          /\ stateFile' = IF scene.kind[l] = "e2e" THEN Nobody ELSE stateFile
     ELSE UNCHANGED <<dirs, markers, stateFile>>
  /\ ScriptsStay /\ UNCHANGED teardown

LauncherKilled(l) ==
  /\ pc[l] \notin {"new", "exited", "killed"}
  /\ pc' = [pc EXCEPT ![l] = "killed"]
  /\ ScriptsStay /\ UNCHANGED <<dirs, markers, stateFile, teardown>>

-----------------------------------------------------------------------------
\* smoke-sidecar.mjs.

Smoking(l, at) == scene.kind[l] = "smoke" /\ pc[l] = at

\* startSidecar: the ready line, or the exit of the sidecar before it, which
\* kills it and fails the test.
SmokeStarts(l) ==
  /\ Smoking(l, "running") /\ ~url[l]
  /\ \/ /\ line[l] = "sent"
        /\ line' = [line EXCEPT ![l] = "read"]
        /\ url' = [url EXCEPT ![l] = TRUE]
        /\ UNCHANGED <<pc, backend>>
     \/ /\ Gone(l) \/ line[l] = "sent"
        /\ backend' = [backend EXCEPT ![l] = Terminated(l)]
        /\ pc' = [pc EXCEPT ![l] = "remove"]
        /\ UNCHANGED <<line, url>>
  /\ UNCHANGED <<scene, raced, lingers, todo, target, seen, stopping, vite, rounds, dirs, markers,
                 stateFile, teardown>>

\* The requests of a round pass or one fails; either way the sidecar is asked
\* to shut down, and a failure is remembered by the stop flag.
SmokeAsks(l) ==
  /\ Smoking(l, "running") /\ url[l]
  /\ \E passed \in BOOLEAN :
       /\ passed => Serves(l)
       /\ stopping' = [stopping EXCEPT ![l] = ~passed]
  /\ backend' = [backend EXCEPT ![l] = IF Serves(l) THEN "closing" ELSE @]
  /\ pc' = [pc EXCEPT ![l] = "waiting"]
  /\ UNCHANGED <<scene, raced, lingers, todo, target, seen, url, vite, line, rounds, dirs, markers,
                 stateFile, teardown>>

\* stopSidecar waits up to five seconds, kills without waiting again and drops
\* the handle; the second round starts beside a sidecar that lingers, or the
\* test ends.
SmokeWaits(l) ==
  /\ Smoking(l, "waiting") /\ DeadlinePasses(l)
  /\ IF stopping[l] \/ rounds[l] = 2
     THEN /\ pc' = [pc EXCEPT ![l] = "remove"]
          /\ backend' = [backend EXCEPT ![l] = Terminated(l)]
          /\ UNCHANGED lingers
     ELSE /\ pc' = [pc EXCEPT ![l] = "spawn"]
          /\ backend' = [backend EXCEPT ![l] = "gone"]
          /\ lingers' = [lingers EXCEPT ![l] = Terminated(l) # "gone"]
  /\ UNCHANGED <<scene, raced, todo, target, seen, url, stopping, vite, line, rounds, dirs,
                 markers, stateFile, teardown>>

SmokeRemoves(l) ==
  /\ Smoking(l, "remove")
  /\ pc' = [pc EXCEPT ![l] = "exited"]
  /\ dirs' = IF Removable(l) THEN dirs \ {l} ELSE dirs
  /\ ScriptsStay /\ UNCHANGED <<markers, stateFile, teardown>>

-----------------------------------------------------------------------------
\* globalTeardown, after Playwright has ended the web server in its own way.

TeardownReads ==
  /\ teardown = [pc |-> "idle"]
  /\ \E l \in Launchers : scene.kind[l] = "e2e" /\ Exited(l)
  /\ teardown' = IF stateFile = Nobody THEN [pc |-> "done"]
                 ELSE [pc |-> "ask", of |-> stateFile]
  /\ UNCHANGED <<pc, dirs, markers, stateFile>> /\ ScriptsStay

TeardownAsks ==
  /\ teardown.pc = "ask"
  /\ backend' = [backend EXCEPT ![teardown.of] = IF @ = "listening" THEN "closing" ELSE @]
  /\ teardown' = [teardown EXCEPT !.pc = "remove"]
  /\ UNCHANGED <<scene, raced, lingers, todo, pc, target, seen, url, stopping, vite, line, rounds,
                 dirs, markers, stateFile>>

\* Twenty attempts, and only under the TEMP that Windows sets.
TeardownRemoves ==
  /\ teardown.pc = "remove"
  /\ \/ scene.windows /\ Removable(teardown.of) /\ dirs' = dirs \ {teardown.of}
     \/ scene.windows /\ ~Removable(teardown.of) /\ scene.late /\ dirs' = dirs
     \/ ~scene.windows /\ dirs' = dirs
  /\ stateFile' = Nobody
  /\ teardown' = [teardown EXCEPT !.pc = "done"]
  /\ UNCHANGED <<pc, markers>> /\ ScriptsStay

-----------------------------------------------------------------------------

StackInit ==
  /\ scene \in Scenes
  /\ pc = [l \in Launchers |-> "new"]
  /\ todo = [l \in Launchers |-> {}]
  /\ target = [l \in Launchers |-> Nobody]
  /\ seen = [l \in Launchers |-> {}]
  /\ url = [l \in Launchers |-> FALSE]
  /\ stopping = [l \in Launchers |-> FALSE]
  /\ vite = [l \in Launchers |-> "none"]
  /\ backend = [l \in Launchers |-> "none"]
  /\ line = [l \in Launchers |-> "none"]
  /\ raced = [l \in Launchers |-> FALSE]
  /\ rounds = [l \in Launchers |-> 0]
  /\ lingers = [l \in Launchers |-> FALSE]
  /\ dirs = {} /\ markers = {}
  /\ stateFile = Nobody
  /\ teardown = [pc |-> "idle"]

StackNext ==
  \/ \E l \in Launchers :
       \/ Launch(l) \/ ReclaimLooks(l) \/ ReclaimRemoves(l)
       \/ MakesWorkspace(l) \/ WritesMarker(l) \/ Spawns(l)
       \/ BackendListens(l) \/ BackendExits(l) \/ LingererExits(l) \/ ViteExits(l)
       \/ ReadsLine(l) \/ ReadsBadLine(l) \/ Stops(l) \/ Asked(l) \/ Cleans(l)
       \/ LauncherKilled(l)
       \/ SmokeStarts(l) \/ SmokeAsks(l) \/ SmokeWaits(l) \/ SmokeRemoves(l)
  \/ TeardownReads \/ TeardownAsks \/ TeardownRemoves

\* The event loop runs the handler of a child's exit, and what follows an
\* await; a sidecar told to close ends, though a late one may take for ever.
StackFairness ==
  \A l \in Launchers :
    /\ WF_stackVars(ChildEnded(l) /\ Stops(l))
    /\ WF_stackVars(Asked(l)) /\ WF_stackVars(Cleans(l))
    /\ WF_stackVars(~scene.late /\ backend[l] = "closing" /\ BackendExits(l))
    /\ WF_stackVars(SmokeWaits(l)) /\ WF_stackVars(SmokeRemoves(l))

StackSpec == StackInit /\ [][StackNext]_stackVars
StackFairSpec == StackSpec /\ StackFairness

-----------------------------------------------------------------------------
\* Properties.

\* A script that ends by itself has told its sidecar to end, even one that was
\* still starting, never answered, or had stopped listening.
EndedScriptsStopSidecars ==
  \A l \in Launchers : pc[l] = "exited" => Gone(l) \/ backend[l] = "closing"

\* A launch reclaims the workspaces that were abandoned when it began: those of
\* killed launchers too, once their sidecars are gone.
AbandonedAreReclaimed ==
  \A l \in Launchers :
    scene.kind[l] = "dev" /\ pc[l] \in {"mark", "spawn", "running"} => seen[l] \cap dirs = {}

\* When the teardown is over on Windows, an end-to-end run leaves neither its
\* state file nor, once its sidecar is gone, its workspace: the server or the
\* teardown removed it, whichever came first, and a killed server's too.
TeardownLeavesNothing ==
  \A l \in Launchers :
    /\ scene.windows /\ ~scene.late /\ scene.kind[l] = "e2e" /\ Exited(l) /\ teardown.pc = "done"
    /\ Gone(l) /\ url[l]
    => l \notin dirs /\ stateFile # l

\* No development server outlives a script that ends by itself, but one that a
\* ready line started in the middle of the stop.
EndedScriptsStopServers ==
  \A l \in Launchers : pc[l] = "exited" /\ vite[l] = "alive" => raced[l]

\* Neither sidecars, servers nor workspaces stay behind the scripts (dev-web.mjs,
\* e2e-server.mjs, global-teardown.ts, smoke-sidecar.mjs).
NothingIsLeft ==
  TeardownLeavesNothing /\ AbandonedAreReclaimed /\ EndedScriptsStopSidecars
    /\ EndedScriptsStopServers

\* Whatever it waits for, a script that has begun to stop ends.
StopsEnd == \A l \in Launchers : stopping[l] ~> Exited(l)

=============================================================================
