----------------------------- MODULE JobManager -----------------------------
(***************************************************************************)
(* Background jobs of workbenchd: job.Manager together with the            *)
(* backup/restore reservation of app.Service and the SSE streams that read *)
(* a job through job.Manager.Subscribe.                                    *)
(*                                                                         *)
(* A job is first the HTTP handler that starts it, then a goroutine; pc[j] *)
(* says where that thread of control is.  Every mutex section, every       *)
(* channel operation and every database write of the code is a step of its *)
(* own, so the steps of jobs, streams, cancellation and shutdown           *)
(* interleave as they do in the process.  A crash may fall between any two *)
(* of them; the table background_jobs is what survives.                    *)
(***************************************************************************)
EXTENDS Naturals, FiniteSets

CONSTANTS
  MaxJobs,       \* jobs are numbered in the order they are started
  Subs,          \* SSE connections, each opened at most once
  Kinds,         \* job types
  DataKinds,     \* those that reserve the data operation: backup, restore
  NoKind,        \* the kind of a job number not used yet
  NoSub,         \* no connection
  MaxProgress,   \* the progress the code writes as 100
  LoadLimit,     \* rows a new process reads back (200 in the code)
  WritesMayFail, \* TRUE: a write of the manager to SQLite may return an error
  MaxRestarts    \* bound on process restarts

ASSUME JobManagerAssumption ==
  /\ MaxJobs \in Nat
  /\ DataKinds \subseteq Kinds
  /\ NoKind \notin Kinds
  /\ NoSub \notin Subs
  /\ MaxProgress \in Nat \ {0}
  /\ LoadLimit \in Nat \ {0}
  /\ WritesMayFail \in BOOLEAN
  /\ MaxRestarts \in Nat

Jobs == 1..MaxJobs

ActiveStates   == {"queued", "running"}
TerminalStates == {"succeeded", "failed", "cancelled"}
Outcomes       == TerminalStates

\* A job as it is stored, published and written: state, and progress standing
\* for the pair of progress and stage.  "absent" is the missing map entry or row.
Values == [state : {"absent"} \cup ActiveStates \cup TerminalStates,
           progress : 0..MaxProgress]
Absent == [state |-> "absent", progress |-> 0]
Queued == [state |-> "queued", progress |-> 0]

Terminal(value) == value.state \in TerminalStates
Active(value)   == value.state \in ActiveStates

VARIABLES
  up,        \* the process runs
  restarts,  \* number of restarts so far
  gate,      \* Service.dataOperationActive
  kind,      \* the type of each job
  pc,        \* where the handler, then the goroutine, of each job is
  memory,    \* Manager.jobs
  cancels,   \* the keys of Manager.cancels
  cancelled, \* jobs whose context has been cancelled
  wg,        \* jobs counted by Manager.wg
  rows,      \* the table background_jobs
  work,      \* the value a goroutine is delivering, or its operation's outcome
  pending,   \* listeners that update still has to serve
  target,    \* the listener whose full channel is being replaced
  topic,     \* the job a connection watches
  phase,     \* state of a connection: idle, open, closed
  chan,      \* its channel of capacity one; Absent when empty
  seen,      \* the last event it wrote to its client
  shutdown   \* progress of Manager.Shutdown

jobVars     == <<kind, pc, memory, cancels, wg, work, pending, target>>
streamVars  == <<topic, phase, chan, seen>>
processVars == <<up, restarts, shutdown>>
vars == <<up, restarts, gate, kind, pc, memory, cancels, cancelled, wg, rows, work,
          pending, target, topic, phase, chan, seen, shutdown>>

Starting   == {"persisting", "registering", "adding", "starting"}
Delivering == {"writing", "notifying", "draining", "resending"}
Resting    == {"unused", "done"}
Places     == Starting \cup Delivering \cup Resting
                \cup {"operating", "finishing", "unregistering"}

Init ==
  /\ up = TRUE
  /\ restarts = 0
  /\ gate = FALSE
  /\ kind = [j \in Jobs |-> NoKind]
  /\ pc = [j \in Jobs |-> "unused"]
  /\ memory = [j \in Jobs |-> Absent]
  /\ cancels = {}
  /\ cancelled = {}
  /\ wg = {}
  /\ rows = [j \in Jobs |-> Absent]
  /\ work = [j \in Jobs |-> Absent]
  /\ pending = [j \in Jobs |-> {}]
  /\ target = [j \in Jobs |-> NoSub]
  /\ topic = [s \in Subs |-> 0]
  /\ phase = [s \in Subs |-> "idle"]
  /\ chan = [s \in Subs |-> Absent]
  /\ seen = [s \in Subs |-> Absent]
  /\ shutdown = "no"

Goto(j, place) == pc' = [pc EXCEPT ![j] = place]

-----------------------------------------------------------------------------
(* Starting a job: the handler's steps, up to the go statement.            *)

\* Mutant: the reservation is taken without looking whether it is free.
Reserve_Unchecked(k) == IF k \in DataKinds THEN gate' = TRUE ELSE UNCHANGED gate

\* StartBackup and StartRestore reserve the data operation first and give up
\* when it is taken; the other kinds go straight to Manager.Start.
Reserve(k) ==
  IF k \in DataKinds THEN gate = FALSE /\ gate' = TRUE ELSE UNCHANGED gate

Request(j, k) ==
  /\ up
  /\ pc[j] = "unused"
  /\ \A i \in Jobs : i < j => pc[i] # "unused"
  /\ Reserve(k)
  /\ kind' = [kind EXCEPT ![j] = k]
  /\ Goto(j, "persisting")
  /\ UNCHANGED <<memory, cancels, cancelled, wg, rows, work, pending, target,
                 streamVars, processVars>>

\* The row is written before the job is visible to anyone.
PersistQueued(j) ==
  /\ pc[j] = "persisting"
  /\ rows' = [rows EXCEPT ![j] = Queued]
  /\ Goto(j, "registering")
  /\ UNCHANGED <<gate, kind, memory, cancels, cancelled, wg, work, pending, target,
                 streamVars, processVars>>

\* Mutant: a failed Start keeps the reservation.
StartFails_KeepsReservation(j) ==
  /\ WritesMayFail
  /\ pc[j] = "persisting"
  /\ Goto(j, "done")
  /\ UNCHANGED <<gate, kind, memory, cancels, cancelled, wg, rows, work, pending,
                 target, streamVars, processVars>>

\* Start returns the error and the service gives the reservation back.
StartFails(j) ==
  /\ WritesMayFail
  /\ pc[j] = "persisting"
  /\ gate' = IF kind[j] \in DataKinds THEN FALSE ELSE gate
  /\ Goto(j, "done")
  /\ UNCHANGED <<kind, memory, cancels, cancelled, wg, rows, work, pending, target,
                 streamVars, processVars>>

Register(j) ==
  /\ pc[j] = "registering"
  /\ memory' = [memory EXCEPT ![j] = Queued]
  /\ cancels' = cancels \cup {j}
  /\ Goto(j, "adding")
  /\ UNCHANGED <<gate, kind, cancelled, wg, rows, work, pending, target,
                 streamVars, processVars>>

\* wg.Add comes after the mutex is released: Shutdown may run in between.
Spawn(j) ==
  /\ pc[j] = "adding"
  /\ wg' = wg \cup {j}
  /\ Goto(j, "starting")
  /\ UNCHANGED <<gate, kind, memory, cancels, cancelled, rows, work, pending, target,
                 streamVars, processVars>>

-----------------------------------------------------------------------------
(* Manager.update: change the map under the lock and snapshot the          *)
(* listeners; then, outside the lock, write the row and serve each         *)
(* listener, replacing what its channel still holds.                       *)

Listeners(j) == {s \in Subs : phase[s] = "open" /\ topic[s] = j}

Publish(j, value) ==
  /\ memory' = [memory EXCEPT ![j] = value]
  /\ work' = [work EXCEPT ![j] = value]
  /\ pending' = [pending EXCEPT ![j] = Listeners(j)]
  /\ Goto(j, "writing")
  /\ UNCHANGED <<kind, cancels, cancelled, wg, rows, target, streamVars, processVars>>

\* Where the goroutine goes on once the listeners in left are all it still owes.
Resume(j, left) ==
  Goto(j, CASE left # {} -> "notifying"
            [] left = {} /\ Terminal(work[j]) -> "unregistering"
            [] OTHER -> "operating")

\* The error of persist is dropped: after a failure the row keeps its old value.
WriteRow(j) ==
  /\ pc[j] = "writing"
  /\ \/ rows' = [rows EXCEPT ![j] = work[j]]
     \/ WritesMayFail /\ UNCHANGED rows
  /\ Resume(j, pending[j])
  /\ UNCHANGED <<gate, kind, memory, cancels, cancelled, wg, work, pending, target,
                 streamVars, processVars>>

\* What remains after listener s has been served.
Served(j, s) ==
  /\ pending' = [pending EXCEPT ![j] = @ \ {s}]
  /\ target' = [target EXCEPT ![j] = NoSub]
  /\ Resume(j, pending[j] \ {s})

\* Mutant: when the channel is full the new value is dropped, not the old one.
Send_DropsNew(j, s) ==
  /\ pc[j] = "notifying"
  /\ s \in pending[j]
  /\ chan' = [chan EXCEPT ![s] = IF @ = Absent THEN work[j] ELSE @]
  /\ Served(j, s)
  /\ UNCHANGED <<gate, kind, memory, cancels, cancelled, wg, rows, work,
                 topic, phase, seen, processVars>>

\* The first, non-blocking send.
Send(j, s) ==
  /\ pc[j] = "notifying"
  /\ s \in pending[j]
  /\ IF chan[s] = Absent
     THEN chan' = [chan EXCEPT ![s] = work[j]] /\ Served(j, s)
     ELSE /\ target' = [target EXCEPT ![j] = s]
          /\ Goto(j, "draining")
          /\ UNCHANGED <<chan, pending>>
  /\ UNCHANGED <<gate, kind, memory, cancels, cancelled, wg, rows, work,
                 topic, phase, seen, processVars>>

\* The channel was full: take out what is there, if the reader has not.
Drain(j) ==
  /\ pc[j] = "draining"
  /\ chan' = [chan EXCEPT ![target[j]] = Absent]
  /\ Goto(j, "resending")
  /\ UNCHANGED <<gate, kind, memory, cancels, cancelled, wg, rows, work, pending,
                 target, topic, phase, seen, processVars>>

\* The second send gives up when the channel is full again.
Resend(j) ==
  /\ pc[j] = "resending"
  /\ chan' = [chan EXCEPT ![target[j]] = IF @ = Absent THEN work[j] ELSE @]
  /\ Served(j, target[j])
  /\ UNCHANGED <<gate, kind, memory, cancels, cancelled, wg, rows, work,
                 topic, phase, seen, processVars>>

-----------------------------------------------------------------------------
(* The job's goroutine.                                                    *)

\* Mutant: a job cancelled before it begins is skipped, and so never ended.
Begin_SkipsCancelled(j) ==
  /\ pc[j] = "starting"
  /\ j \notin cancelled
  /\ Publish(j, [memory[j] EXCEPT !.state = "running"])
  /\ UNCHANGED gate

Begin(j) ==
  /\ pc[j] = "starting"
  /\ Publish(j, [memory[j] EXCEPT !.state = "running"])
  /\ UNCHANGED gate

\* Every operation of the service reports growing progress.
Report(j) ==
  /\ pc[j] = "operating"
  /\ \E p \in memory[j].progress + 1 .. MaxProgress :
       Publish(j, [memory[j] EXCEPT !.progress = p])
  /\ UNCHANGED gate

\* The operation returns; its deferred release of the reservation runs here,
\* before the job gets its terminal state.  It returns context.Canceled only
\* when its context has been cancelled, and may well finish all the same.
Return(j, outcome) ==
  /\ pc[j] = "operating"
  /\ outcome = "cancelled" => j \in cancelled
  /\ gate' = IF kind[j] \in DataKinds THEN FALSE ELSE gate
  /\ work' = [work EXCEPT ![j].state = outcome]
  /\ Goto(j, "finishing")
  /\ UNCHANGED <<kind, memory, cancels, cancelled, wg, rows, pending, target,
                 streamVars, processVars>>

\* Mutant: a job that did not succeed ends with its progress reset.
FinalValue_Resets(j) ==
  [state |-> work[j].state,
   progress |-> IF work[j].state = "succeeded" THEN MaxProgress ELSE 0]

FinalValue(j) ==
  [state |-> work[j].state,
   progress |-> IF work[j].state = "succeeded" THEN MaxProgress
                ELSE memory[j].progress]

Finish(j) ==
  /\ pc[j] = "finishing"
  /\ Publish(j, FinalValue(j))
  /\ UNCHANGED gate

\* delete(m.cancels, id), then the deferred wg.Done; the goroutine's locals die.
Unregister(j) ==
  /\ pc[j] = "unregistering"
  /\ cancels' = cancels \ {j}
  /\ wg' = wg \ {j}
  /\ work' = [work EXCEPT ![j] = Absent]
  /\ Goto(j, "done")
  /\ UNCHANGED <<gate, kind, memory, cancelled, rows, pending, target,
                 streamVars, processVars>>

-----------------------------------------------------------------------------
(* Cancel, Subscribe and the SSE handler.                                  *)

\* Only an active job that still has a cancel function is cancelled; every
\* other call changes nothing.
Cancel(j) ==
  /\ up
  /\ Active(memory[j])
  /\ j \in cancels
  /\ cancelled' = cancelled \cup {j}
  /\ UNCHANGED <<gate, jobVars, rows, streamVars, processVars>>

\* Mutant: the channel starts empty.
Subscribe_Empty(s, j) ==
  /\ up
  /\ phase[s] = "idle"
  /\ memory[j] # Absent
  /\ topic' = [topic EXCEPT ![s] = j]
  /\ phase' = [phase EXCEPT ![s] = "open"]
  /\ UNCHANGED <<chan, seen, gate, cancelled, jobVars, rows, processVars>>

\* The channel starts with the job as it is, put in under the same lock.
Subscribe(s, j) ==
  /\ up
  /\ phase[s] = "idle"
  /\ memory[j] # Absent
  /\ topic' = [topic EXCEPT ![s] = j]
  /\ phase' = [phase EXCEPT ![s] = "open"]
  /\ chan' = [chan EXCEPT ![s] = memory[j]]
  /\ UNCHANGED <<seen, gate, cancelled, jobVars, rows, processVars>>

\* jobEvents writes one event and returns, unsubscribing, on a terminal one.
\* Nothing reads the channel after that, so the two belong to one step.
Receive(s) ==
  /\ phase[s] = "open"
  /\ chan[s] # Absent
  /\ seen' = [seen EXCEPT ![s] = chan[s]]
  /\ chan' = [chan EXCEPT ![s] = Absent]
  /\ phase' = IF Terminal(chan[s]) THEN [phase EXCEPT ![s] = "closed"] ELSE phase
  /\ UNCHANGED <<topic, gate, cancelled, jobVars, rows, processVars>>

\* The client goes away; a goroutine may still push into the dead channel.
Disconnect(s) ==
  /\ phase[s] = "open"
  /\ phase' = [phase EXCEPT ![s] = "closed"]
  /\ UNCHANGED <<topic, chan, seen, gate, cancelled, jobVars, rows, processVars>>

-----------------------------------------------------------------------------
(* Manager.Shutdown, the end of the process, and the next one.             *)

\* The cancel functions are copied under the lock and called after it.
ShutdownBegins ==
  /\ up
  /\ shutdown = "no"
  /\ cancelled' = cancelled \cup cancels
  /\ shutdown' = "waiting"
  /\ UNCHANGED <<up, restarts, gate, jobVars, rows, streamVars>>

\* Shutdown returns nil when the wait group is empty, or the context's error.
ShutdownReturns ==
  /\ shutdown = "waiting"
  /\ shutdown' \in {"expired"} \cup (IF wg = {} THEN {"drained"} ELSE {})
  /\ UNCHANGED <<up, restarts, gate, cancelled, jobVars, rows, streamVars>>

\* Exit or crash: nothing but the table is left.
ProcessEnds ==
  /\ up
  /\ up' = FALSE
  /\ gate' = FALSE
  /\ pc' = [j \in Jobs |-> IF pc[j] = "unused" THEN "unused" ELSE "done"]
  /\ memory' = [j \in Jobs |-> Absent]
  /\ cancels' = {}
  /\ cancelled' = {}
  /\ wg' = {}
  /\ work' = [j \in Jobs |-> Absent]
  /\ pending' = [j \in Jobs |-> {}]
  /\ target' = [j \in Jobs |-> NoSub]
  /\ phase' = [s \in Subs |-> IF phase[s] = "open" THEN "closed" ELSE phase[s]]
  /\ chan' = [s \in Subs |-> Absent]
  /\ shutdown' = "no"
  /\ UNCHANGED <<restarts, kind, rows, topic, seen>>

\* load: fail what the last process left active, then read the newest rows.
\* Mutant: load fails every row.
Interrupted_Always(value) ==
  IF value # Absent THEN [value EXCEPT !.state = "failed"] ELSE value

Interrupted(value) == IF Active(value) THEN [value EXCEPT !.state = "failed"] ELSE value

Recent(table, j) ==
  Cardinality({i \in Jobs : i > j /\ table[i] # Absent}) < LoadLimit

Load ==
  /\ ~up
  /\ restarts < MaxRestarts
  /\ up' = TRUE
  /\ restarts' = restarts + 1
  /\ \/ rows' = [j \in Jobs |-> Interrupted(rows[j])]
     \/ WritesMayFail /\ UNCHANGED rows
  /\ memory' = [j \in Jobs |-> IF Recent(rows', j) THEN rows'[j] ELSE Absent]
  /\ UNCHANGED <<gate, kind, pc, cancels, cancelled, wg, work, pending, target,
                 streamVars, shutdown>>

-----------------------------------------------------------------------------
JobStep(j) ==
  \/ PersistQueued(j) \/ StartFails(j) \/ Register(j) \/ Spawn(j)
  \/ Begin(j) \/ Report(j) \/ Finish(j) \/ Unregister(j)
  \/ \E outcome \in Outcomes : Return(j, outcome)
  \/ WriteRow(j) \/ Drain(j) \/ Resend(j)
  \/ \E s \in Subs : Send(j, s)

Next ==
  \/ \E j \in Jobs, k \in Kinds : Request(j, k)
  \/ \E j \in Jobs : JobStep(j) \/ Cancel(j)
  \/ \E s \in Subs, j \in Jobs : Subscribe(s, j)
  \/ \E s \in Subs : Receive(s) \/ Disconnect(s)
  \/ ShutdownBegins \/ ShutdownReturns \/ ProcessEnds \/ Load

Spec == Init /\ [][Next]_vars

\* A goroutine that can go on does, every operation of the service returns
\* (each is a loop over finitely many files or rows), and a stream whose
\* channel holds an event writes it.  Nobody has to cancel or disconnect.
Fairness == /\ \A j \in Jobs : WF_vars(JobStep(j))
            /\ \A s \in Subs : WF_vars(Receive(s))

FairSpec == Spec /\ Fairness

-----------------------------------------------------------------------------
(* Properties.                                                             *)

\* Type correctness of every variable.
TypeOK ==
  /\ up \in BOOLEAN
  /\ restarts \in 0..MaxRestarts
  /\ gate \in BOOLEAN
  /\ kind \in [Jobs -> Kinds \cup {NoKind}]
  /\ pc \in [Jobs -> Places]
  /\ memory \in [Jobs -> Values]
  /\ cancels \subseteq Jobs
  /\ cancelled \subseteq Jobs
  /\ wg \subseteq Jobs
  /\ rows \in [Jobs -> Values]
  /\ work \in [Jobs -> Values]
  /\ pending \in [Jobs -> SUBSET Subs]
  /\ target \in [Jobs -> Subs \cup {NoSub}]
  /\ topic \in [Subs -> Jobs \cup {0}]
  /\ phase \in [Subs -> {"idle", "open", "closed"}]
  /\ chan \in [Subs -> Values]
  /\ seen \in [Subs -> Values]
  /\ shutdown \in {"no", "waiting", "drained", "expired"}

\* From its reservation until its operation returns, a backup or a restore is
\* entitled to be the only one.
HoldsReservation(j) ==
  /\ kind[j] \in DataKinds
  /\ \/ pc[j] \in Starting \cup {"operating"}
     \/ pc[j] \in Delivering /\ ~Terminal(work[j])

\* Two backups or restores never overlap, although the reservation is released
\* by the goroutine before the job is terminal and by the handler when Start
\* fails (service.go, StartBackup and StartRestore).
OneDataOperation ==
  \A i, j \in Jobs : HoldsReservation(i) /\ HoldsReservation(j) => i = j

\* The reservation is taken exactly while some job is entitled to it: no path
\* leaks it, which would refuse every later backup until the restart, and none
\* gives away a reservation that another job has taken since.
ReservationMatchesHolder == gate <=> \E j \in Jobs : HoldsReservation(j)

\* A job that clients see as active has a thread that will end it: after a
\* restart nothing is left queued or running, unless the repairing UPDATE of
\* load failed.  Otherwise the page would poll a job for ever.
ActiveJobsRun ==
  \A j \in Jobs : Active(memory[j]) => pc[j] \notin Resting \/ WritesMayFail

\* No update is lost on its way to a stream.  Whatever the interleaving of
\* Subscribe, update and the reader, an open stream has seen the job as it is,
\* or has it in its channel, or is still to be served by the job's goroutine.
StreamIsCurrent ==
  \A s \in Subs : phase[s] = "open" =>
    LET value == memory[topic[s]] IN
      \/ chan[s] = value
      \/ chan[s] = Absent /\ seen[s] = value
      \/ s \in pending[topic[s]]

\* When the goroutine is not in the middle of an update, the table agrees with
\* the map: a restart then reads back what clients were told (no failed write).
RowsMatchAtRest ==
  \A j \in Jobs :
    pc[j] \in {"operating", "finishing", "unregistering", "done"} /\ memory[j] # Absent
      => rows[j] = memory[j] \/ WritesMayFail

\* Once a process has shown a job as ended, it never shows it otherwise: not
\* through a late progress report, a late cancel or a second ending.
TerminalIsFinal ==
  [][\A j \in Jobs : Terminal(memory[j]) /\ up' => memory'[j] = memory[j]]_vars

Rank(value) == CASE value.state = "absent" -> 0
                 [] value.state = "queued" -> 1
                 [] value.state = "running" -> 2
                 [] OTHER -> 3

\* The events of one stream never go back: neither to an earlier state nor to
\* a smaller progress, although update replaces unread events outside the lock.
StreamMovesForward ==
  [][\A s \in Subs : /\ Rank(seen[s]) <= Rank(seen'[s])
                     /\ seen[s].progress <= seen'[s].progress]_vars

\* The table follows the life of a job that JobLifecycle describes, through
\* failed writes, crashes and restarts.
RowStates == [j \in Jobs |-> rows[j].state]
Lifecycle == INSTANCE JobLifecycle WITH row <- RowStates
RowsFollowLifecycle == Lifecycle!Spec

\* Every job that has a row ends, or its process does.
JobsEnd == \A j \in Jobs : Active(rows[j]) ~> Terminal(rows[j]) \/ ~up

\* Every stream ends by itself, so the handler of jobEvents returns.
StreamsEnd == \A s \in Subs : phase[s] = "open" ~> phase[s] = "closed"

\* An ending that a stream has announced is in the table.  The code breaks it:
\* a connection that subscribes between the map's change and the row's write is
\* given the ending by Subscribe itself.
AnnouncedEndIsDurable ==
  \A s \in Subs : Terminal(seen[s]) => rows[topic[s]].state = seen[s].state

=============================================================================
