---------------------------- MODULE PageSession ----------------------------
(***************************************************************************)
(* The page's connection to the backend: BackendContext, the API client    *)
(* and the places that ask the host for another process.                   *)
(*                                                                         *)
(* The host, SidecarManager, is seen through what it tells the page: the   *)
(* answer of backend_connection_info, the end of retry_backend and         *)
(* open_workspace, and the events backend-restarted and backend-lost, all  *)
(* delivered in the order in which they were sent.  Processes are numbered *)
(* as they are published, and so are the connections to them; each that    *)
(* ends has a thread of its own in recover, beside the others and beside   *)
(* the command of the page that is under way: a command ends none of them, *)
(* and they overwrite each other's state.  Why an attempt to start fails   *)
(* is left open, and so is how often a recovery tries (Supervisor has the  *)
(* counter and the handles).  A generation of the page is one key of its   *)
(* connection query; the query function of an older generation runs on     *)
(* after it has been replaced, and configures the client when its answer   *)
(* comes.  One command of the page is under way at a time.                 *)
(***************************************************************************)
EXTENDS Naturals, Sequences

CONSTANTS
  MaxProcesses,  \* bound on the processes of the host
  MaxGeneration, \* bound on the generations of the page
  Limits         \* bounds of a behaviour: [processes, commands, collisions], of
                 \* the host's processes, of retry_backend and open_workspace, and
                 \* of answers from a process that took an old one's port

ASSUME SessionAssumption == MaxGeneration \in Nat /\ MaxProcesses \in Nat \ {0}

Generations == 0..MaxGeneration
Processes == 1..MaxProcesses

VARIABLES
  host,       \* [state, process]: PublicState ("stopped" is Stopping too), and the
              \* last process that was published
  life,       \* of each process, and of the recovery after its end: none, serving,
              \* head of the loop, asleep, starting, telling, over
  wire,       \* what the host has sent and the page has not handled
  listening,  \* the page's listeners are registered
  generation,
  gate,       \* what BackendBootstrap shows: pending, error or open
  load,       \* the query function of each generation
  api,        \* the connection the client is configured with, 0 for none
  call,       \* the command of the page that is under way
  untold,     \* history: no message makes the page look for the last process:
              \* its event came before the listeners, or a command failed
  limit       \* what is left of the bounds

hostVars == <<host, life, listening, limit>>
pageVars == <<generation, gate, load, api, call>>
sessionVars == <<hostVars, wire, pageVars, untold>>

NoLoad == [at |-> "idle", from |-> 0, again |-> FALSE]
NoCall == [kind |-> "none", at |-> "none", from |-> "none", ok |-> TRUE]
Loading(again) == [at |-> "asking", from |-> 0, again |-> again]

SessionInit ==
  /\ host \in {[state |-> "ready", process |-> 1], [state |-> "failed", process |-> 0]}
  /\ life = [p \in Processes |-> IF p = host.process THEN "serving" ELSE "none"]
  /\ wire = <<>>
  /\ listening = FALSE
  /\ generation = 0
  /\ gate = "pending"
  /\ load = [g \in Generations |-> IF g = 0 THEN Loading(FALSE) ELSE NoLoad]
  /\ api = 0
  /\ call = NoCall
  /\ untold = FALSE
  /\ limit \in Limits

-----------------------------------------------------------------------------
(* The host *)

SpendLimit(what) == limit[what] > 0 /\ limit' = [limit EXCEPT ![what] = @ - 1]

Told(message) == wire' = Append(wire, message)

\* An event reaches the page if it listens; one that comes earlier is lost.
Emit ==
  IF listening THEN Told([kind |-> "event"]) /\ UNCHANGED untold
               ELSE untold' = TRUE /\ UNCHANGED wire

\* start_once has its ready line: the process is published.
Publishes ==
  /\ host.process < MaxProcesses
  /\ SpendLimit("processes")
  /\ host' = [state |-> "ready", process |-> host.process + 1]

\* A published process ends, by itself or because stop ends it: its event task
\* starts a thread that recovers.
ProcessEnds(p) ==
  /\ life[p] = "serving"
  /\ life' = [life EXCEPT ![p] = "head"]
  /\ UNCHANGED <<host, wire, listening, limit, pageVars, untold>>

\* The head of the loop: cancelled by a stop, given up, or asleep before the next
\* attempt.  A process that another start has published meanwhile is not looked at.
RecoverLooks(p) ==
  /\ life[p] = "head"
  /\ \/ host.state = "stopped" /\ life' = [life EXCEPT ![p] = "over"] /\ UNCHANGED host
     \/ /\ host.state # "stopped"
        /\ \E to \in {[state |-> "failed", life |-> "telling"],
                      [state |-> "starting", life |-> "asleep"]} :
             /\ host' = [host EXCEPT !.state = to.state]
             /\ life' = [life EXCEPT ![p] = to.life]
  /\ UNCHANGED <<wire, listening, limit, pageVars, untold>>

\* It wakes: start_once refuses after a stop, and recover then marks the failure.
RecoverWakes(p) ==
  /\ life[p] = "asleep"
  /\ \E to \in IF host.state = "stopped" THEN {[state |-> "failed", life |-> "head"]}
                                          ELSE {[state |-> "starting", life |-> "starting"]} :
       /\ host' = [host EXCEPT !.state = to.state]
       /\ life' = [life EXCEPT ![p] = to.life]
  /\ UNCHANGED <<wire, listening, limit, pageVars, untold>>

\* Its process is ready, unless a stop has come, or does not start.
RecoverStarts(p) ==
  /\ life[p] = "starting"
  /\ \/ /\ host.state # "stopped"
        /\ Publishes
        /\ life' = [life EXCEPT ![p] = "telling", ![host'.process] = "serving"]
     \/ /\ host' = [host EXCEPT !.state = "failed"]
        /\ life' = [life EXCEPT ![p] = "head"]
        /\ UNCHANGED limit
  /\ UNCHANGED <<wire, listening, pageVars, untold>>

\* The event is sent with no lock held, after whatever came since.
RecoverTells(p) ==
  /\ life[p] = "telling"
  /\ life' = [life EXCEPT ![p] = "over"]
  /\ Emit
  /\ UNCHANGED <<host, listening, limit, pageVars>>

Recovers(p) ==
  RecoverLooks(p) \/ RecoverWakes(p) \/ RecoverStarts(p) \/ RecoverTells(p)

CommandGoes(from, to) ==
  /\ call.at = from
  /\ call' = [call EXCEPT !.at = to]
  /\ UNCHANGED <<wire, listening, generation, gate, load, api, untold>>

\* open_workspace fails on its directory, or there is nothing to try again: before
\* anything is stopped.
CommandRefused ==
  /\ call.at = "sent" /\ (call.kind = "open" \/ host.process = 0)
  /\ Told([kind |-> "done", ok |-> FALSE])
  /\ call' = [call EXCEPT !.at = "ended"]
  /\ UNCHANGED <<hostVars, generation, gate, load, api, untold>>

\* stop: the state at its begin and at its end; the process it has taken ends in
\* between or later.
CommandStops ==
  /\ CommandGoes("sent", "stopping")
  /\ host' = [host EXCEPT !.state = "stopped"]
  /\ UNCHANGED <<life, limit>>
CommandStopped ==
  /\ CommandGoes("stopping", "stopped")
  /\ host' = [host EXCEPT !.state = "stopped"]
  /\ UNCHANGED <<life, limit>>

\* start: two attempts, each of which sets the state first.
CommandTries ==
  /\ \E step \in {<<"stopped", "trying">>, <<"trying", "again">>} : CommandGoes(step[1], step[2])
  /\ host' = [host EXCEPT !.state = "starting"]
  /\ UNCHANGED <<life, limit>>
CommandStarts ==
  /\ \E from \in {"trying", "again"} : CommandGoes(from, "ready")
  /\ Publishes
  /\ life' = [life EXCEPT ![host'.process] = "serving"]
\* Both have failed; retry marks it once more.
CommandFails ==
  /\ \/ CommandGoes("again", "failed")
     \/ call.kind = "retry" /\ CommandGoes("failed", "failed")
  /\ host' = [host EXCEPT !.state = "failed"]
  /\ UNCHANGED <<life, limit>>

\* open_workspace whose list of workspaces cannot be saved stops its process, and
\* one that has started none goes on to the workspace it left, if there is one; its
\* answer is an error whatever comes of that.
CommandRollsBack ==
  /\ call.kind = "open" /\ call.ok
  /\ \/ /\ call.at = "ready"
        /\ call' = [call EXCEPT !.at = "stopping", !.ok = FALSE]
        /\ host' = [host EXCEPT !.state = "stopped"]
     \/ /\ call.at = "failed"
        /\ call' = [call EXCEPT !.at = "stopped", !.ok = FALSE]
        /\ UNCHANGED host
  /\ UNCHANGED <<life, wire, listening, limit, generation, gate, load, api, untold>>

CommandEnds ==
  /\ \/ call.at \in {"ready", "failed"}
     \/ call.at = "stopped" /\ ~call.ok
  /\ LET ok == call.at = "ready" /\ call.ok IN
       /\ Told([kind |-> "done", ok |-> ok])
       /\ untold' = (untold \/ ~ok)
  /\ call' = [call EXCEPT !.at = "ended"]
  /\ UNCHANGED <<hostVars, generation, gate, load, api>>

CommandRuns ==
  \/ CommandRefused \/ CommandStops \/ CommandStopped \/ CommandTries
  \/ CommandStarts \/ CommandFails \/ CommandRollsBack \/ CommandEnds

\* backend_connection_info: the connection if the host is ready.
HostAnswers(g) ==
  /\ load[g].at = "asking"
  /\ Told([kind |-> "info", to |-> g,
           process |-> IF host.state = "ready" THEN host.process ELSE 0])
  /\ load' = [load EXCEPT ![g].at = "asked"]
  /\ untold' = (untold /\ g # generation)
  /\ UNCHANGED <<hostVars, generation, gate, api, call>>

ListenersRegister ==
  /\ ~listening
  /\ listening' = TRUE
  /\ UNCHANGED <<host, life, wire, limit, pageVars, untold>>

-----------------------------------------------------------------------------
(* The page *)

\* The key of the query changes, and its new query function begins.
NextGeneration(from) ==
  /\ generation < MaxGeneration
  /\ generation' = generation + 1
  /\ gate' = "pending"
  /\ load' = [from EXCEPT ![generation'] = Loading(FALSE)]

\* Mutant: the listener does not look for a new connection while it has one.
Reconnect_WhenClosed ==
  IF gate = "open" THEN UNCHANGED <<api, generation, gate, load>>
                   ELSE api' = 0 /\ NextGeneration(load)

\* The caches and the client are cleared and the connection is read again.
Reconnect == api' = 0 /\ NextGeneration(load)

Handle(message) == wire # <<>> /\ Head(wire) = message /\ wire' = Tail(wire)

EventArrives ==
  /\ Handle([kind |-> "event"])
  /\ Reconnect
  /\ UNCHANGED <<hostVars, call, untold>>

\* Mutant: a query function that fails twice leaves its query pending.
Failed_Forgotten(g) ==
  IF g = generation /\ ~load[g].again
  THEN load' = [load EXCEPT ![g] = Loading(TRUE)] /\ UNCHANGED gate
  ELSE load' = [load EXCEPT ![g] = NoLoad] /\ UNCHANGED gate

\* The query is tried once more, unless it is no longer observed.
Failed(g) ==
  IF g = generation /\ ~load[g].again
  THEN load' = [load EXCEPT ![g] = Loading(TRUE)] /\ UNCHANGED gate
  ELSE /\ load' = [load EXCEPT ![g] = NoLoad]
       /\ gate' = IF g = generation THEN "error" ELSE gate

\* connectionInfo is answered: the client is configured, whichever generation
\* asked, and getMeta is sent.
InfoArrives ==
  \E g \in Generations, p \in 0..MaxProcesses :
    /\ Handle([kind |-> "info", to |-> g, process |-> p])
    /\ IF p = 0
       THEN Failed(g) /\ UNCHANGED api
       ELSE /\ api' = p
            /\ load' = [load EXCEPT ![g] = [at |-> "meta", from |-> p, again |-> @.again]]
            /\ UNCHANGED gate
    /\ UNCHANGED <<hostVars, generation, call, untold>>

Alive(p) == p \in Processes /\ life[p] = "serving"

MetaArrives(g) ==
  /\ load[g].at = "meta"
  /\ IF Alive(load[g].from)
     THEN /\ load' = [load EXCEPT ![g] = NoLoad]
          /\ gate' = IF g = generation THEN "open" ELSE gate
     ELSE Failed(g)
  /\ UNCHANGED <<hostVars, wire, generation, api, call, untold>>

\* The port of a process that has ended belongs to another one, which does not
\* know the token: a request of the page, or getMeta itself, is answered 401.
Unauthorized ==
  /\ \E p \in Processes : Alive(p)
  /\ SpendLimit("collisions")
  /\ \/ /\ gate = "open" /\ api # 0 /\ ~Alive(api)
        /\ NextGeneration(load)
     \/ \E g \in Generations :
          /\ load[g].at = "meta" /\ ~Alive(load[g].from)
          /\ NextGeneration([load EXCEPT ![g] = NoLoad])
  /\ UNCHANGED <<host, life, listening, wire, api, call, untold>>

\* The two buttons of the error screen, and the settings' list of workspaces.
Command(kind, from) ==
  /\ call = NoCall
  /\ SpendLimit("commands")
  /\ call' = [kind |-> kind, at |-> "sent", from |-> from, ok |-> TRUE]
  /\ UNCHANGED <<host, life, listening, wire, generation, gate, load, api, untold>>

Recover == gate = "error" /\ \E kind \in {"retry", "open"} : Command(kind, "gate")
OpenWorkspace == gate = "open" /\ Command("open", "settings")

\* recover's command has ended: the connection is read again, or the error shown.
RecoverReturns ==
  /\ call.at = "ended" /\ call.from = "gate"
  /\ \/ /\ Handle([kind |-> "done", ok |-> TRUE])
        /\ Reconnect
     \/ /\ Handle([kind |-> "done", ok |-> FALSE])
        /\ UNCHANGED <<generation, gate, load, api>>
  /\ call' = NoCall
  /\ UNCHANGED <<hostVars, untold>>

\* The settings reload the page, with its listeners and what it was to be told, or
\* show their message.
OpenReturns ==
  /\ call.at = "ended" /\ call.from = "settings"
  /\ call' = NoCall
  /\ \/ /\ wire # <<>> /\ Head(wire) = [kind |-> "done", ok |-> TRUE]
        /\ wire' = <<>>
        /\ listening' = FALSE
        /\ generation' = 0
        /\ gate' = "pending"
        /\ load' = [g \in Generations |-> IF g = 0 THEN Loading(FALSE) ELSE NoLoad]
        /\ api' = 0
        /\ UNCHANGED <<host, life, limit, untold>>
     \/ /\ Handle([kind |-> "done", ok |-> FALSE])
        /\ UNCHANGED <<hostVars, generation, gate, load, api, untold>>

HostStep ==
  \/ CommandRuns \/ ListenersRegister
  \/ \E p \in Processes : ProcessEnds(p) \/ Recovers(p)
  \/ \E g \in Generations : HostAnswers(g)
PageStep ==
  \/ EventArrives \/ InfoArrives \/ Unauthorized \/ Recover \/ OpenWorkspace
  \/ RecoverReturns \/ OpenReturns
  \/ \E g \in Generations : MetaArrives(g)
SessionNext == HostStep \/ PageStep
SessionSpec == SessionInit /\ [][SessionNext]_sessionVars

-----------------------------------------------------------------------------
(* Properties *)

\* Nothing is under way between the host and the page, and no recovery goes on.
Recovering == {"head", "asleep", "starting", "telling"}
WireIsQuiet ==
  /\ wire = <<>> /\ call = NoCall
  /\ \A p \in Processes : life[p] \notin Recovering
  /\ \A g \in Generations : load[g] = NoLoad

\* When nothing is under way the page shows the workbench exactly if the host is
\* ready, and its client then talks to the process the host has published last,
\* which runs: whatever processes ended, whichever recoveries and commands of the
\* page overwrote each other's state, and whatever tokens were refused and query
\* functions of older generations ran before.  The host has to have told the page
\* of what it did last: an event that comes before the listeners, and a command
\* that fails, leave the page the client it had.
QuietGateAgrees ==
  WireIsQuiet /\ ~untold =>
    IF host.state = "ready" THEN gate = "open" /\ api = host.process /\ Alive(api)
                            ELSE gate = "error"

\* The spinner of the gate ends.
GateOpens == gate = "pending" ~> gate # "pending"
=============================================================================
