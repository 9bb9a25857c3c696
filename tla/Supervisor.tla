----------------------------- MODULE Supervisor -----------------------------
(***************************************************************************)
(* The desktop host's supervision of the workbenchd sidecar: the state     *)
(* guarded by SidecarManager's mutex, every thread that runs start, stop,  *)
(* retry or recover, the event task of each spawned process, and as much   *)
(* of the processes themselves as the host can tell apart.                 *)
(*                                                                         *)
(* Threads are setup (start_backend), ui (one native command at a time),   *)
(* quit (the shutdown thread of lib.rs) and, for each process p, the       *)
(* thread that runs SidecarManager::recover after p has terminated.  A     *)
(* step ends where the code releases the mutex, awaits, or acts on the     *)
(* outside; a kill or a flag is one step with the mutex section next to it *)
(* where no other thread can tell the two apart.  Sleeps and time limits   *)
(* are steps that may come at any time.                                    *)
(***************************************************************************)
EXTENDS Naturals, FiniteSets

CONSTANTS
  Workspaces,  \* workspace directories
  NoWorkspace,
  setup, ui, quit,
  RestartLimit, \* automatic restarts after one start (2 in the code)
  MaxSpawns,   \* bound on processes
  MaxCrashes,  \* bound on sidecars that die unasked
  MaxCommands  \* bound on commands of the page

ASSUME SupervisorAssumption ==
  /\ NoWorkspace \notin Workspaces
  /\ RestartLimit \in Nat
  /\ MaxSpawns \in Nat /\ MaxCrashes \in Nat /\ MaxCommands \in Nat
  /\ {setup, ui, quit} \cap Nat = {}
  /\ setup # ui /\ setup # quit /\ ui # quit

Procs   == 1..MaxSpawns
Callers == {setup, ui, quit}
Threads == Callers \cup Procs

VARIABLES
  app,       \* the desktop application runs
  inner,     \* the fields of Inner; 0 stands for None in child, conn, term, token
  th,        \* the local state of each thread
  proc,      \* the sidecar processes
  mailbox,   \* the ready channel of start_once: unborn, empty, ready, error
  flagged,   \* processes whose terminated flag is set
  cancelled, \* processes whose start token is set
  asked,     \* processes that got POST /internal/shutdown
  marker,    \* workspaces holding .operation-active
  current,   \* the registry's first entry
  spawned, crashes, commands

vars == <<app, inner, th, proc, mailbox, flagged, cancelled, asked, marker, current,
          spawned, crashes, commands>>
procVars  == <<mailbox, flagged, asked>>
countVars == <<spawned, crashes, commands>>

Halted == {"stopping", "stopped"}

NoThread == [at |-> "idle", goal |-> "none", ws |-> NoWorkspace, prev |-> NoWorkspace,
             attempt |-> 0, proc |-> 0, child |-> 0, conn |-> 0, flag |-> 0, tok |-> 0]
NoProc == [life |-> "none", ws |-> NoWorkspace, line |-> FALSE]

Init ==
  /\ app = TRUE
  /\ inner = [state |-> "stopped", child |-> 0, conn |-> 0, boot |-> NoWorkspace,
              restarts |-> 0, term |-> 0, token |-> 0]
  /\ current \in Workspaces
  /\ th = [t \in Threads |-> IF t = setup
             THEN [NoThread EXCEPT !.at = "start", !.goal = "setup", !.ws = current]
             ELSE NoThread]
  /\ proc = [p \in Procs |-> NoProc]
  /\ mailbox = [p \in Procs |-> "unborn"]
  /\ flagged = {} /\ cancelled = {} /\ asked = {}
  /\ marker \in SUBSET Workspaces
  /\ spawned = 0 /\ crashes = 0 /\ commands = 0

Live(p)     == proc[p].life \in {"booting", "serving"}
Serving(p)  == proc[p].life = "serving"
Kill(p)     == [proc EXCEPT ![p].life = "dead"]
At(t, place) == th[t].at = place
Goto(t, place) == th' = [th EXCEPT ![t].at = place]
\* A thread that has returned keeps none of its locals.
Returned(t)  == [th EXCEPT ![t] = [NoThread EXCEPT !.at = "done"]]
Continue(t, goal, w) ==
  [th EXCEPT ![t] = [NoThread EXCEPT !.at = "start", !.goal = goal, !.ws = w,
                                     !.prev = th[t].prev]]

\* The connection lives in PublicState::Ready: it goes when the state changes.
SetState(name) == [inner EXCEPT !.state = name, !.conn = 0]

-----------------------------------------------------------------------------
(* start and start_once.                                                   *)

StartBegin(t) ==
  /\ At(t, "start")
  /\ inner' = [inner EXCEPT !.boot = th[t].ws, !.restarts = 0]
  /\ th' = [th EXCEPT ![t].at = "enter", ![t].attempt = 1]
  /\ UNCHANGED <<app, proc, procVars, cancelled, marker, current, countVars>>

\* Mutant: a recovery that fails to start returns without marking the failure.
AfterFailure_Unmarked(t) ==
  IF t \notin Procs /\ th[t].attempt = 1
  THEN [th EXCEPT ![t].at = "enter", ![t].attempt = 2]
  ELSE IF t \in Procs THEN Returned(t) ELSE [th EXCEPT ![t].at = "mark"]

\* What an Err of start_once leads to: recover marks the failure and loops,
\* start tries a second time and then marks it.
AfterFailure(t) ==
  IF t \notin Procs /\ th[t].attempt = 1
  THEN [th EXCEPT ![t].at = "enter", ![t].attempt = 2]
  ELSE [th EXCEPT ![t].at = "mark"]

\* Only a recovery looks at the state before it starts.
Enter(t) ==
  /\ At(t, "enter")
  /\ IF t \in Procs /\ inner.state \in Halted
     THEN th' = AfterFailure(t) /\ UNCHANGED inner
     ELSE inner' = SetState("starting") /\ Goto(t, "spawn")
  /\ UNCHANGED <<app, proc, procVars, cancelled, marker, current, countVars>>

Spawn(t) ==
  /\ At(t, "spawn")
  /\ spawned < MaxSpawns
  /\ spawned' = spawned + 1
  /\ proc' = [proc EXCEPT ![spawned'] =
                [life |-> "booting", ws |-> th[t].ws, line |-> FALSE]]
  /\ th' = [th EXCEPT ![t].at = "token", ![t].proc = spawned']
  /\ UNCHANGED <<app, inner, procVars, cancelled, marker, current, crashes, commands>>

\* The log cannot be opened, or the process not be created.
SpawnFails(t) ==
  /\ At(t, "spawn")
  /\ th' = AfterFailure(t)
  /\ UNCHANGED <<app, inner, proc, procVars, cancelled, marker, current, countVars>>

\* The token is registered after the process exists, over any other start's.
RegisterToken(t) ==
  /\ At(t, "token")
  /\ inner' = [inner EXCEPT !.token = th[t].proc]
  /\ mailbox' = [mailbox EXCEPT ![th[t].proc] = "empty"]
  /\ Goto(t, "await")
  /\ UNCHANGED <<app, proc, flagged, cancelled, asked, marker, current, countVars>>

ClearToken(p) == [inner EXCEPT !.token = IF @ = p THEN 0 ELSE @]

StartupCancelled(p) == p \in cancelled \/ inner.state \in Halted

\* No ready line in time, an invalid one, an early exit, or a ready line that
\* carries another pid or version than the host expects.
AwaitFails(t) ==
  LET p == th[t].proc IN
  /\ At(t, "await")
  /\ mailbox[p] = "ready" => ~StartupCancelled(p)
  /\ cancelled' = cancelled \cup {p}
  /\ proc' = Kill(p)
  /\ inner' = ClearToken(p)
  /\ th' = AfterFailure(t)
  /\ UNCHANGED <<app, procVars, marker, current, countVars>>

AwaitCancelled(t) ==
  LET p == th[t].proc IN
  /\ At(t, "await")
  /\ mailbox[p] = "ready"
  /\ StartupCancelled(p)
  /\ proc' = Kill(p)
  /\ inner' = ClearToken(p)
  /\ th' = AfterFailure(t)
  /\ UNCHANGED <<app, procVars, cancelled, marker, current, countVars>>

\* Mutant: a successful handshake forgets the restarts that led to it.
BecomeReady_ResetsRestarts(t) ==
  LET p == th[t].proc IN
  /\ At(t, "await")
  /\ mailbox[p] = "ready"
  /\ ~StartupCancelled(p)
  /\ inner' = [inner EXCEPT !.state = "ready", !.conn = p, !.child = p,
                            !.term = p, !.token = 0, !.restarts = 0]
  /\ th' = IF th[t].goal \in {"setup", "open"}
           THEN [th EXCEPT ![t].at = "record"] ELSE Returned(t)
  /\ UNCHANGED <<app, proc, procVars, cancelled, marker, current, countVars>>

\* The ready line is accepted: the connection, the child handle and its
\* terminated flag are published together.
BecomeReady(t) ==
  LET p == th[t].proc IN
  /\ At(t, "await")
  /\ mailbox[p] = "ready"
  /\ ~StartupCancelled(p)
  /\ inner' = [inner EXCEPT !.state = "ready", !.conn = p, !.child = p,
                            !.term = p, !.token = 0]
  /\ th' = IF th[t].goal \in {"setup", "open"}
           THEN [th EXCEPT ![t].at = "record"] ELSE Returned(t)
  /\ UNCHANGED <<app, proc, procVars, cancelled, marker, current, countVars>>

\* mark_failed.  start_backend and retry call it again on start's error; a
\* failed open goes back to the previous workspace; a recovery loops.
MarkFailed(t) ==
  /\ th[t].at \in {"mark", "markAgain"}
  /\ inner' = SetState("failed")
  /\ th' = CASE t \in Procs -> [th EXCEPT ![t].at = "recover"]
             [] At(t, "mark") /\ th[t].goal \in {"setup", "retry"} ->
                  [th EXCEPT ![t].at = "markAgain"]
             [] th[t].goal = "open" -> Continue(t, "rollback", th[t].prev)
             [] OTHER -> Returned(t)
  /\ UNCHANGED <<app, proc, procVars, cancelled, marker, current, countVars>>

-----------------------------------------------------------------------------
(* stop.                                                                   *)

\* Mutant: stop takes the handles and changes the state only at its end.
StopTake_LateState(t) ==
  /\ At(t, "stop")
  /\ inner' = [inner EXCEPT !.child = 0, !.term = 0, !.token = 0]
  /\ th' = [th EXCEPT ![t].at = "signal", ![t].conn = inner.conn,
                      ![t].child = inner.child, ![t].flag = inner.term,
                      ![t].tok = inner.token]
  /\ UNCHANGED <<app, proc, procVars, cancelled, marker, current, countVars>>

StopTake(t) ==
  /\ At(t, "stop")
  /\ inner' = [SetState("stopping") EXCEPT !.child = 0, !.term = 0, !.token = 0]
  /\ th' = [th EXCEPT ![t].at = "signal", ![t].conn = inner.conn,
                      ![t].child = inner.child, ![t].flag = inner.term,
                      ![t].tok = inner.token]
  /\ UNCHANGED <<app, proc, procVars, cancelled, marker, current, countVars>>

\* Set the token of a start in progress and ask a connected sidecar to exit.
StopSignal(t) ==
  /\ At(t, "signal")
  /\ cancelled' = cancelled \cup ({th[t].tok} \ {0})
  /\ asked' = asked \cup ({th[t].conn} \ {0})
  /\ Goto(t, "kill")
  /\ UNCHANGED <<app, inner, proc, mailbox, flagged, marker, current, countVars>>

\* Mutant: a sidecar that was asked to exit is trusted to do so.
StopKill_TrustsTheRequest(t) ==
  /\ At(t, "kill")
  /\ proc' = IF th[t].child # 0 /\ th[t].conn = 0 /\ th[t].flag \notin flagged
             THEN Kill(th[t].child) ELSE proc
  /\ Goto(t, "stopped")
  /\ UNCHANGED <<app, inner, procVars, cancelled, marker, current, countVars>>

\* After the sidecar's exit or the time limits: kill what has not been seen to end.
StopKill(t) ==
  /\ At(t, "kill")
  /\ proc' = IF th[t].child # 0 /\ th[t].flag \notin flagged
             THEN Kill(th[t].child) ELSE proc
  /\ Goto(t, "stopped")
  /\ UNCHANGED <<app, inner, procVars, cancelled, marker, current, countVars>>

StopEnd(t) ==
  /\ At(t, "stopped")
  /\ inner' = SetState("stopped")
  /\ th' = CASE th[t].goal \in {"retry", "open"} -> Continue(t, th[t].goal, th[t].ws)
             [] th[t].goal = "rollback" -> Continue(t, "rollback", th[t].prev)
             [] OTHER -> Returned(t)
  /\ UNCHANGED <<app, proc, procVars, cancelled, marker, current, countVars>>

-----------------------------------------------------------------------------
(* recover, on a thread of its own for each terminated process.            *)

\* Mutant: the restarts are not counted.
Recover_Uncounted(t) ==
  /\ t \in Procs
  /\ At(t, "recover")
  /\ IF inner.state \in Halted
     THEN /\ inner' = [inner EXCEPT !.child = 0]
          /\ th' = Returned(t)
     ELSE IF inner.boot \in marker \/ inner.restarts >= RestartLimit
     THEN /\ inner' = [SetState("failed") EXCEPT !.child = 0]
          /\ th' = Returned(t)
     ELSE /\ inner' = [SetState("starting") EXCEPT !.child = 0]
          /\ th' = [th EXCEPT ![t].at = "enter", ![t].goal = "recover",
                              ![t].ws = inner.boot]
  /\ UNCHANGED <<app, proc, procVars, cancelled, marker, current, countVars>>

Recover(t) ==
  /\ t \in Procs
  /\ At(t, "recover")
  /\ IF inner.state \in Halted
     THEN /\ inner' = [inner EXCEPT !.child = 0]
          /\ th' = Returned(t)
     ELSE IF inner.boot \in marker \/ inner.restarts >= RestartLimit
     THEN /\ inner' = [SetState("failed") EXCEPT !.child = 0]
          /\ th' = Returned(t)
     ELSE /\ inner' = [SetState("starting") EXCEPT !.child = 0, !.restarts = @ + 1]
          /\ th' = [th EXCEPT ![t].at = "enter", ![t].goal = "recover",
                              ![t].ws = inner.boot]
  /\ UNCHANGED <<app, proc, procVars, cancelled, marker, current, countVars>>

-----------------------------------------------------------------------------
(* The callers: start_backend, the commands of the page, quitting.         *)

\* A failure to record the workspace, or to show the window after recording it,
\* stops the sidecar again; open_workspace then returns to the previous one.
Record(t) ==
  /\ At(t, "record")
  /\ \/ current' = th[t].ws /\ th' = Returned(t)
     \/ /\ current' \in IF t = setup THEN {current, th[t].ws} ELSE {current}
        /\ th' = [th EXCEPT ![t].at = "stop",
                            ![t].goal = IF t = setup THEN "abandon" ELSE "rollback"]
  /\ UNCHANGED <<app, inner, proc, procVars, cancelled, marker, countVars>>

\* The event loop, and with it every command and the close request, runs only
\* once the setup hook has returned.
LoopRuns == app /\ At(setup, "done")

Command(goal, w) ==
  /\ LoopRuns
  /\ th[ui].at \in {"idle", "done"}
  /\ commands < MaxCommands
  /\ commands' = commands + 1
  /\ th' = [th EXCEPT ![ui] = [NoThread EXCEPT !.at = "stop", !.goal = goal,
                                               !.ws = w, !.prev = current]]
  /\ UNCHANGED <<app, inner, proc, procVars, cancelled, marker, current,
                 spawned, crashes>>

Retry == inner.boot # NoWorkspace /\ Command("retry", inner.boot)

Open(w) == Command("open", w)

\* The exiting flag lets the first close or exit request through, once.
Quit ==
  /\ LoopRuns
  /\ At(quit, "idle")
  /\ th' = [th EXCEPT ![quit].at = "stop", ![quit].goal = "quit"]
  /\ UNCHANGED <<app, inner, proc, procVars, cancelled, marker, current, countVars>>

\* handle.exit(0), or the bounded fallback after it: every thread is gone.
AppExits ==
  /\ app
  /\ At(quit, "done")
  /\ app' = FALSE
  /\ th' = [t \in Threads |-> [NoThread EXCEPT !.at = "gone"]]
  /\ UNCHANGED <<inner, proc, procVars, cancelled, marker, current, countVars>>

-----------------------------------------------------------------------------
(* The sidecar, as far as the host can tell, and its event task.           *)

\* main: check the parent, lock the workspace, forget the marker (backup.New),
\* write the ready line.
Boot(p) ==
  /\ app
  /\ proc[p].life = "booting"
  /\ \A q \in Procs : Serving(q) => proc[q].ws # proc[p].ws
  /\ proc' = [proc EXCEPT ![p].life = "serving", ![p].line = TRUE]
  /\ marker' = marker \ {proc[p].ws}
  /\ UNCHANGED <<app, inner, th, procVars, cancelled, current, countVars>>

\* The workspace is in use, its schema unknown, the parent gone.
BootFails(p) ==
  /\ proc[p].life = "booting"
  /\ proc' = Kill(p)
  /\ UNCHANGED <<app, inner, th, procVars, cancelled, marker, current, countVars>>

Crash(p) ==
  /\ Serving(p)
  /\ crashes < MaxCrashes
  /\ crashes' = crashes + 1
  /\ proc' = Kill(p)
  /\ UNCHANGED <<app, inner, th, procVars, cancelled, marker, current, spawned,
                 commands>>

ObeyShutdown(p) ==
  /\ Serving(p)
  /\ p \in asked
  /\ proc' = Kill(p)
  /\ UNCHANGED <<app, inner, th, procVars, cancelled, marker, current, countVars>>

\* markOperation and clearOperation around a backup or restore.
ToggleOperation(p) ==
  /\ Serving(p)
  /\ marker' = IF proc[p].ws \in marker THEN marker \ {proc[p].ws}
               ELSE marker \cup {proc[p].ws}
  /\ UNCHANGED <<app, inner, th, proc, procVars, cancelled, current, countVars>>

DeliverReady(p) ==
  /\ app
  /\ proc[p].line
  /\ mailbox[p] = "empty"
  /\ mailbox' = [mailbox EXCEPT ![p] = "ready"]
  /\ UNCHANGED <<app, inner, th, proc, flagged, cancelled, asked, marker, current,
                 countVars>>

\* Terminated comes after all output.  It sets the flag, and then either answers
\* the start that still waits or, after a handshake, starts a recover thread.
Terminated(p) ==
  /\ app
  /\ proc[p].life = "dead"
  /\ p \notin flagged
  /\ mailbox[p] # "unborn"
  /\ proc[p].line => mailbox[p] = "ready"
  /\ flagged' = flagged \cup {p}
  /\ IF mailbox[p] = "ready"
     THEN Goto(p, "recover") /\ UNCHANGED mailbox
     ELSE mailbox' = [mailbox EXCEPT ![p] = "error"] /\ UNCHANGED th
  /\ UNCHANGED <<app, inner, proc, cancelled, asked, marker, current, countVars>>

-----------------------------------------------------------------------------
ThreadStep(t) ==
  \/ StartBegin(t) \/ Enter(t) \/ Spawn(t) \/ SpawnFails(t) \/ RegisterToken(t)
  \/ AwaitFails(t) \/ AwaitCancelled(t) \/ BecomeReady(t) \/ MarkFailed(t)
  \/ StopTake(t) \/ StopSignal(t) \/ StopKill(t) \/ StopEnd(t)
  \/ Recover(t) \/ Record(t)

EventStep(p) == DeliverReady(p) \/ Terminated(p)

ProcStep(p) ==
  \/ Boot(p) \/ BootFails(p) \/ Crash(p) \/ ObeyShutdown(p) \/ ToggleOperation(p)

Next ==
  \/ \E t \in Threads : ThreadStep(t)
  \/ \E p \in Procs : EventStep(p) \/ ProcStep(p)
  \/ \E w \in Workspaces : Open(w)
  \/ Retry \/ Quit \/ AppExits

Spec == Init /\ [][Next]_vars

\* Threads and event tasks are scheduled.  Nothing is asked of the sidecar:
\* every wait for it has a time limit.
Fairness == /\ \A t \in Threads : WF_vars(ThreadStep(t))
            /\ \A p \in Procs : WF_vars(EventStep(p))

FairSpec == Spec /\ Fairness
-----------------------------------------------------------------------------
(* Properties.                                                             *)

Places == {"idle", "start", "enter", "spawn", "token", "await", "mark", "markAgain",
           "record", "stop", "signal", "kill", "stopped", "recover", "done", "gone"}
Goals  == {"none", "setup", "retry", "open", "rollback", "abandon", "quit", "recover"}
ProcId == Procs \cup {0}
Place  == Workspaces \cup {NoWorkspace}
InnerType == [state : {"stopped", "starting", "ready", "stopping", "failed"},
              child : ProcId, conn : ProcId, boot : Place, restarts : 0..RestartLimit,
              term : ProcId, token : ProcId]
ThreadType == [at : Places, goal : Goals, ws : Place, prev : Place, attempt : 0..2,
               proc : ProcId, child : ProcId, conn : ProcId, flag : ProcId, tok : ProcId]
ProcType == [life : {"none", "booting", "serving", "dead"}, ws : Place, line : BOOLEAN]

\* Type correctness of every variable.
TypeOK ==
  /\ app \in BOOLEAN
  /\ inner \in InnerType
  /\ th \in [Threads -> ThreadType]
  /\ proc \in [Procs -> ProcType]
  /\ mailbox \in [Procs -> {"unborn", "empty", "ready", "error"}]
  /\ flagged \subseteq Procs /\ cancelled \subseteq Procs /\ asked \subseteq Procs
  /\ marker \subseteq Workspaces /\ current \in Workspaces
  /\ spawned \in 0..MaxSpawns /\ crashes \in 0..MaxCrashes
  /\ commands \in 0..MaxCommands

\* A connection handed to the page always belongs to the process whose handle
\* and terminated flag stop will use: start_once publishes the three together
\* and stop and recover never take one of them away while the state is ready.
ReadyOwnsItsProcess ==
  inner.state = "ready" =>
    inner.conn # 0 /\ inner.child = inner.conn /\ inner.term = inner.conn

\* stop returns only after the process it found published is gone.
StopEndsItsProcess ==
  \A t \in Threads : At(t, "stopped") /\ th[t].child # 0 => ~Live(th[t].child)

\* A sidecar that keeps dying is not restarted for ever.  Without a command of
\* the page at most two attempts of the start and RestartLimit restarts are
\* spawned, however many recoveries and attempts overlap.
SpawnsAreBounded == commands = 0 => spawned <= 2 + RestartLimit

\* Every start, stop, command and recovery returns: time limits and the restart
\* limit bound each of them whatever the sidecars do.
ThreadsReturn ==
  \A t \in Threads : th[t].at \notin {"idle", "done", "gone"} ~> th[t].at \in {"done", "gone"}

\* The page is never left with a host that says "starting" for ever.
StartingEnds == inner.state = "starting" ~> inner.state # "starting" \/ ~app

=============================================================================
