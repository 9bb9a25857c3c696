-------------------------- MODULE JobManagerProofs --------------------------
(***************************************************************************)
(* Proofs about JobManager, for any number of jobs, connections, job kinds *)
(* and restarts, whether or not writes to the table may fail.              *)
(***************************************************************************)
EXTENDS JobManager, TLAPS

-----------------------------------------------------------------------------
(* Types.                                                                  *)

\* The values that the steps write are values.
LEMMA ConstantValues == Absent \in Values /\ Queued \in Values
BY JobManagerAssumption DEF Values, Absent, Queued, ActiveStates

\* What Resume does to pc: the goroutine stays at a place of the table.
LEMMA ResumeType ==
  ASSUME pc \in [Jobs -> Places], NEW j \in Jobs, NEW left, Resume(j, left)
  PROVE  /\ pc' \in [Jobs -> Places]
         /\ pc' = [pc EXCEPT ![j] = pc'[j]]
         /\ pc'[j] \in {"notifying", "unregistering", "operating"}
BY DEF Resume, Goto, Places, Delivering

\* Publishing a value of the right type keeps every type.
LEMMA PublishType ==
  ASSUME TypeOK, NEW j \in Jobs, NEW value \in Values, Publish(j, value),
         UNCHANGED gate
  PROVE  TypeOK'
<1>1. Listeners(j) \in SUBSET Subs
  BY DEF Listeners
<1>2. /\ memory' \in [Jobs -> Values]
      /\ work' \in [Jobs -> Values]
      /\ pending' \in [Jobs -> SUBSET Subs]
  BY <1>1 DEF TypeOK, Publish
<1>3. pc' \in [Jobs -> Places]
  BY DEF TypeOK, Publish, Goto, Places, Delivering
<1> QED
  BY <1>2, <1>3 DEF TypeOK, Publish, streamVars, processVars

LEMMA InitType == Init => TypeOK
<1> SUFFICES ASSUME Init PROVE TypeOK
  OBVIOUS
<1>1. /\ memory \in [Jobs -> Values] /\ rows \in [Jobs -> Values]
      /\ work \in [Jobs -> Values]
      /\ chan \in [Subs -> Values] /\ seen \in [Subs -> Values]
  BY ConstantValues DEF Init
<1>2. /\ pc \in [Jobs -> Places]
      /\ restarts \in 0..MaxRestarts
  BY JobManagerAssumption DEF Init, Places, Resting
<1> QED
  BY <1>1, <1>2 DEF Init, TypeOK

\* Every step of a job's handler or goroutine keeps the types.
LEMMA JobStepType ==
  ASSUME TypeOK, NEW j \in Jobs, JobStep(j)
  PROVE  TypeOK'
<1> USE DEF streamVars, processVars
<1>1. CASE PersistQueued(j)
  BY <1>1, ConstantValues DEF TypeOK, PersistQueued, Goto, Places, Starting
<1>2. CASE StartFails(j)
  BY <1>2 DEF TypeOK, StartFails, Goto, Places, Resting
<1>3. CASE Register(j)
  BY <1>3, ConstantValues DEF TypeOK, Register, Goto, Places, Starting
<1>4. CASE Spawn(j)
  BY <1>4 DEF TypeOK, Spawn, Goto, Places, Starting
<1>5. CASE Begin(j)
  <2>1. memory[j] \in Values
    BY DEF TypeOK
  <2>2. [memory[j] EXCEPT !.state = "running"] \in Values
    BY <2>1 DEF Values, ActiveStates
  <2> QED
    BY <1>5, <2>2, PublishType DEF Begin
<1>6. CASE Report(j)
  <2>1. PICK p \in memory[j].progress + 1 .. MaxProgress :
          Publish(j, [memory[j] EXCEPT !.progress = p])
    BY <1>6 DEF Report
  <2>2. memory[j] \in Values
    BY DEF TypeOK
  <2>3. p \in 0..MaxProgress
    BY <2>1, <2>2, JobManagerAssumption DEF Values
  <2>4. [memory[j] EXCEPT !.progress = p] \in Values
    BY <2>2, <2>3 DEF Values
  <2> QED
    BY <1>6, <2>1, <2>4, PublishType DEF Report
<1>7. CASE Finish(j)
  <2>1. memory[j] \in Values /\ work[j] \in Values
    BY DEF TypeOK
  <2>2. FinalValue(j) \in Values
    BY <2>1, JobManagerAssumption DEF Values, FinalValue
  <2> QED
    BY <1>7, <2>2, PublishType DEF Finish
<1>8. CASE Unregister(j)
  BY <1>8, ConstantValues DEF TypeOK, Unregister, Goto, Places, Resting
<1>9. CASE \E outcome \in Outcomes : Return(j, outcome)
  <2>1. PICK outcome \in Outcomes : Return(j, outcome)
    BY <1>9
  <2>2. work[j] \in Values
    BY DEF TypeOK
  <2>3. [work[j] EXCEPT !.state = outcome] \in Values
    BY <2>2 DEF Outcomes, Values
  <2>4. work' = [work EXCEPT ![j] = [work[j] EXCEPT !.state = outcome]]
    BY <2>1 DEF Return
  <2> QED
    BY <2>1, <2>3, <2>4 DEF TypeOK, Return, Goto, Places
<1>10. CASE WriteRow(j)
  <2>1. rows' \in [Jobs -> Values]
    BY <1>10 DEF TypeOK, WriteRow
  <2> QED
    BY <1>10, <2>1, ResumeType DEF TypeOK, WriteRow
<1>11. CASE Drain(j)
  BY <1>11, ConstantValues DEF TypeOK, Drain, Goto, Places, Delivering
<1>12. CASE Resend(j)
  BY <1>12, ResumeType DEF TypeOK, Resend, Served
<1>13. CASE \E s \in Subs : Send(j, s)
  <2>1. PICK s \in Subs : Send(j, s)
    BY <1>13
  <2>2. CASE chan[s] = Absent
    BY <2>1, <2>2, ResumeType DEF TypeOK, Send, Served
  <2>3. CASE chan[s] # Absent
    BY <2>1, <2>3 DEF TypeOK, Send, Goto, Places, Delivering
  <2> QED
    BY <2>2, <2>3
<1> QED
  BY <1>1, <1>2, <1>3, <1>4, <1>5, <1>6, <1>7, <1>8, <1>9, <1>10, <1>11, <1>12,
     <1>13 DEF JobStep

\* The table that load leaves behind has rows of the right type.
LEMMA LoadType ==
  ASSUME TypeOK, Load
  PROVE  TypeOK'
<1>1. \A j \in Jobs : Interrupted(rows[j]) \in Values
  <2>1. \A value \in Values : Interrupted(value) \in Values
    BY DEF Values, Interrupted, TerminalStates
  <2> QED
    BY <2>1 DEF TypeOK
<1>2. rows' \in [Jobs -> Values]
  BY <1>1 DEF TypeOK, Load
<1>3. memory' \in [Jobs -> Values]
  BY <1>2, ConstantValues DEF TypeOK, Load
<1> QED
  BY <1>2, <1>3, JobManagerAssumption DEF TypeOK, Load, streamVars

LEMMA NextType == TypeOK /\ [Next]_vars => TypeOK'
<1> SUFFICES ASSUME TypeOK, [Next]_vars
             PROVE  TypeOK'
  OBVIOUS
<1> USE DEF streamVars, processVars, jobVars
<1>1. CASE \E j \in Jobs, k \in Kinds : Request(j, k)
  <2>1. PICK j \in Jobs, k \in Kinds : Request(j, k)
    BY <1>1
  <2>2. gate' \in BOOLEAN
    BY <2>1 DEF TypeOK, Request, Reserve
  <2> QED
    BY <2>1, <2>2 DEF TypeOK, Request, Goto, Places, Starting
<1>2. CASE \E j \in Jobs : JobStep(j)
  BY <1>2, JobStepType
<1>3. CASE \E j \in Jobs : Cancel(j)
  BY <1>3 DEF TypeOK, Cancel
<1>4. CASE \E s \in Subs, j \in Jobs : Subscribe(s, j)
  BY <1>4 DEF TypeOK, Subscribe
<1>5. CASE \E s \in Subs : Receive(s)
  BY <1>5, ConstantValues DEF TypeOK, Receive
<1>6. CASE \E s \in Subs : Disconnect(s)
  BY <1>6 DEF TypeOK, Disconnect
<1>7. CASE ShutdownBegins
  BY <1>7 DEF TypeOK, ShutdownBegins
<1>8. CASE ShutdownReturns
  BY <1>8 DEF TypeOK, ShutdownReturns
<1>9. CASE ProcessEnds
  <2>1. /\ pc' \in [Jobs -> Places]
        /\ phase' \in [Subs -> {"idle", "open", "closed"}]
    BY <1>9 DEF TypeOK, ProcessEnds, Places, Resting
  <2> QED
    BY <1>9, <2>1, ConstantValues DEF TypeOK, ProcessEnds
<1>10. CASE Load
  BY <1>10, LoadType
<1>11. CASE UNCHANGED vars
  BY <1>11 DEF TypeOK, vars
<1> QED
  BY <1>1, <1>2, <1>3, <1>4, <1>5, <1>6, <1>7, <1>8, <1>9, <1>10, <1>11 DEF Next

\* Every variable keeps its type, whatever the interleaving and the faults.
THEOREM TypeCorrect == Spec => []TypeOK
BY InitType, NextType, PTL DEF Spec
-----------------------------------------------------------------------------
(* The inductive invariant of a job.  It ties the place of a job's thread  *)
(* of control to what the map, the table and its local value then hold:    *)
(* none of the invariants below is inductive without it, since a step of   *)
(* the goroutine is only harmless because of what the place implies.       *)

\* The map and the goroutine's value at each place.
MapAtPlace(j) ==
  /\ pc[j] \in {"unused", "persisting", "registering"} => memory[j] = Absent
  /\ pc[j] \in {"adding", "starting"} => memory[j] = Queued
  /\ pc[j] \in {"operating", "finishing"} => memory[j].state = "running"
  /\ pc[j] = "finishing" => Terminal(work[j])
  /\ pc[j] \in Delivering =>
       /\ memory[j] = work[j]
       /\ work[j].state = "running" \/ Terminal(work[j])
  /\ pc[j] = "unregistering" => Terminal(memory[j])
  /\ pc[j] = "done" /\ ~WritesMayFail => ~Active(memory[j])
  /\ ~up => pc[j] \in Resting /\ memory[j] = Absent

\* The row at each place: active until the ending is written, and equal to the
\* map's value behind every write when writes do not fail.
RowAtPlace(j) ==
  /\ pc[j] \in {"unused", "persisting"} => rows[j] = Absent
  /\ pc[j] \in {"registering", "adding", "starting", "writing", "operating",
                "finishing"} => Active(rows[j])
  /\ pc[j] \in Delivering /\ ~Terminal(work[j]) => Active(rows[j])
  /\ pc[j] \in {"notifying", "draining", "resending", "operating", "finishing",
                "unregistering"} => rows[j] = memory[j] \/ WritesMayFail
  /\ pc[j] = "done" /\ memory[j] # Absent => rows[j] = memory[j] \/ WritesMayFail

JobInv(j) == MapAtPlace(j) /\ RowAtPlace(j)

JobsInv == TypeOK /\ \A j \in Jobs : JobInv(j)

\* What a step of job i does to its own part of the state, and that it leaves
\* the part of every other job alone.
LEMMA OthersKept ==
  ASSUME TypeOK, NEW i \in Jobs, JobStep(i), NEW j \in Jobs, j # i
  PROVE  /\ pc'[j] = pc[j] /\ memory'[j] = memory[j] /\ rows'[j] = rows[j]
         /\ work'[j] = work[j] /\ kind'[j] = kind[j] /\ up' = up
<1> USE DEF Goto, processVars
<1>1. ASSUME NEW value, Publish(i, value)
      PROVE  /\ pc'[j] = pc[j] /\ memory'[j] = memory[j] /\ rows'[j] = rows[j]
             /\ work'[j] = work[j] /\ kind'[j] = kind[j] /\ up' = up
  BY <1>1 DEF Publish, TypeOK
<1>2. CASE PersistQueued(i) \/ StartFails(i) \/ Register(i) \/ Spawn(i)
  BY <1>2 DEF PersistQueued, StartFails, Register, Spawn, TypeOK
<1>3. CASE Begin(i) \/ Report(i) \/ Finish(i)
  BY <1>1, <1>3 DEF Begin, Report, Finish
<1>4. CASE Unregister(i) \/ \E outcome \in Outcomes : Return(i, outcome)
  BY <1>4 DEF Unregister, Return, TypeOK
<1>5. CASE WriteRow(i) \/ Drain(i) \/ Resend(i) \/ \E s \in Subs : Send(i, s)
  BY <1>5 DEF WriteRow, Drain, Resend, Send, Served, Resume, TypeOK
<1> QED
  BY <1>2, <1>3, <1>4, <1>5 DEF JobStep

\* The invariant of a job speaks of nothing else than that part.
LEMMA JobInvFrame ==
  ASSUME NEW j \in Jobs, JobInv(j), pc'[j] = pc[j], memory'[j] = memory[j],
         rows'[j] = rows[j], work'[j] = work[j], up' = up
  PROVE  JobInv(j)'
BY DEF JobInv, MapAtPlace, RowAtPlace

LEMMA PublishKeepsJob ==
  ASSUME TypeOK, NEW j \in Jobs, NEW value, Publish(j, value)
  PROVE  /\ pc'[j] = "writing" /\ memory'[j] = value /\ work'[j] = value
         /\ rows'[j] = rows[j] /\ up' = up
BY DEF Publish, Goto, TypeOK, processVars

LEMMA ResumePlace ==
  ASSUME TypeOK, NEW j \in Jobs, NEW left, Resume(j, left)
  PROVE  \/ pc'[j] = "notifying" /\ left # {}
         \/ pc'[j] = "unregistering" /\ left = {} /\ Terminal(work[j])
         \/ pc'[j] = "operating" /\ left = {} /\ ~Terminal(work[j])
BY DEF Resume, Goto, TypeOK

\* A step of job j keeps its invariant.
LEMMA JobStepKeepsJob ==
  ASSUME TypeOK, NEW j \in Jobs, JobInv(j), JobStep(j)
  PROVE  JobInv(j)'
<1> USE DEF JobInv, MapAtPlace, RowAtPlace, Delivering, Resting, Terminal, Active,
            TerminalStates, ActiveStates
<1>0. /\ memory[j] \in Values /\ work[j] \in Values /\ rows[j] \in Values
      /\ WritesMayFail \in BOOLEAN
  BY JobManagerAssumption DEF TypeOK
<1>1. CASE PersistQueued(j)
  BY <1>1 DEF TypeOK, PersistQueued, Goto, Queued, processVars
<1>2. CASE StartFails(j)
  BY <1>2 DEF TypeOK, StartFails, Goto, Absent, processVars
<1>3. CASE Register(j)
  BY <1>3 DEF TypeOK, Register, Goto, processVars
<1>4. CASE Spawn(j)
  BY <1>4 DEF TypeOK, Spawn, Goto, processVars
<1>5. CASE Begin(j)
  <2>1. [memory[j] EXCEPT !.state = "running"].state = "running"
    BY <1>0 DEF Values
  <2> QED
    BY <1>5, <2>1, PublishKeepsJob DEF Begin
<1>6. CASE Report(j)
  <2>1. PICK p \in memory[j].progress + 1 .. MaxProgress :
          Publish(j, [memory[j] EXCEPT !.progress = p])
    BY <1>6 DEF Report
  <2>2. [memory[j] EXCEPT !.progress = p].state = memory[j].state
    BY <1>0 DEF Values
  <2> QED
    BY <1>6, <2>1, <2>2, PublishKeepsJob DEF Report
<1>7. CASE Finish(j)
  <2>1. FinalValue(j).state = work[j].state
    BY DEF FinalValue
  <2> QED
    BY <1>7, <2>1, PublishKeepsJob DEF Finish
<1>8. CASE Unregister(j)
  BY <1>8 DEF TypeOK, Unregister, Goto, processVars
<1>9. CASE \E outcome \in Outcomes : Return(j, outcome)
  <2>1. PICK outcome \in Outcomes : Return(j, outcome)
    BY <1>9
  <2>2. work'[j].state = outcome
    BY <1>0, <2>1 DEF TypeOK, Return, Values
  <2> QED
    BY <2>1, <2>2 DEF TypeOK, Return, Goto, Outcomes, processVars
<1>10. CASE WriteRow(j)
  <2>1. /\ memory'[j] = memory[j] /\ work'[j] = work[j] /\ up' = up
        /\ rows'[j] = work[j] \/ (WritesMayFail /\ rows'[j] = rows[j])
    BY <1>10 DEF TypeOK, WriteRow, processVars
  <2>2. pc[j] = "writing" /\ Resume(j, pending[j])
    BY <1>10 DEF WriteRow
  <2> QED
    BY <1>0, <2>1, <2>2, ResumePlace
<1>11. CASE Drain(j)
  BY <1>11 DEF TypeOK, Drain, Goto, processVars
<1>12. CASE Resend(j)
  <2>1. /\ memory' = memory /\ work' = work /\ up' = up /\ rows' = rows
        /\ pc[j] = "resending"
        /\ Resume(j, pending[j] \ {target[j]})
    BY <1>12 DEF Resend, Served, processVars
  <2> QED
    BY <1>0, <2>1, ResumePlace
<1>13. CASE \E s \in Subs : Send(j, s)
  <2>1. PICK s \in Subs : Send(j, s)
    BY <1>13
  <2>2. /\ memory' = memory /\ work' = work /\ up' = up /\ rows' = rows
        /\ pc[j] = "notifying"
        /\ \/ Resume(j, pending[j] \ {s})
           \/ Goto(j, "draining")
    BY <2>1 DEF Send, Served, processVars
  <2> QED
    BY <1>0, <2>2, ResumePlace DEF TypeOK, Goto
<1> QED
  BY <1>1, <1>2, <1>3, <1>4, <1>5, <1>6, <1>7, <1>8, <1>9, <1>10, <1>11, <1>12,
     <1>13 DEF JobStep

LEMMA InitJobs == Init => JobsInv
<1> SUFFICES ASSUME Init PROVE \A j \in Jobs : JobInv(j)
  BY InitType DEF JobsInv
<1> QED
  BY DEF Init, JobInv, MapAtPlace, RowAtPlace, Delivering

\* Every step keeps the invariant of every job.
LEMMA NextJobs == JobsInv /\ [Next]_vars => JobsInv'
<1> SUFFICES ASSUME JobsInv, [Next]_vars, NEW j \in Jobs
             PROVE  JobInv(j)'
  BY NextType DEF JobsInv
<1> USE DEF JobsInv
<1>0. TypeOK /\ JobInv(j)
  OBVIOUS
<1>1. CASE \E i \in Jobs, k \in Kinds : Request(i, k)
  <2>1. PICK i \in Jobs, k \in Kinds : Request(i, k)
    BY <1>1
  <2>2. /\ memory' = memory /\ rows' = rows /\ work' = work /\ up' = up /\ up
        /\ pc[i] = "unused"
        /\ pc'[j] = IF j = i THEN "persisting" ELSE pc[j]
    BY <2>1 DEF Request, Goto, processVars, TypeOK
  <2>3. CASE j = i
    BY <1>0, <2>2, <2>3 DEF JobInv, MapAtPlace, RowAtPlace, Delivering
  <2>4. CASE j # i
    BY <1>0, <2>2, <2>4, JobInvFrame
  <2> QED
    BY <2>3, <2>4
<1>2. CASE \E i \in Jobs : JobStep(i)
  <2>1. PICK i \in Jobs : JobStep(i)
    BY <1>2
  <2>2. CASE j = i
    BY <1>0, <2>1, <2>2, JobStepKeepsJob
  <2>3. CASE j # i
    BY <1>0, <2>1, <2>3, OthersKept, JobInvFrame
  <2> QED
    BY <2>2, <2>3
<1>3. CASE \E i \in Jobs : Cancel(i)
  BY <1>0, <1>3, JobInvFrame DEF Cancel, jobVars, processVars
<1>4. CASE \E s \in Subs : (\E i \in Jobs : Subscribe(s, i)) \/ Receive(s) \/ Disconnect(s)
  BY <1>0, <1>4, JobInvFrame DEF Subscribe, Receive, Disconnect, jobVars, processVars
<1>5. CASE ShutdownBegins \/ ShutdownReturns
  BY <1>0, <1>5, JobInvFrame DEF ShutdownBegins, ShutdownReturns, jobVars
<1>6. CASE ProcessEnds
  <2>1. /\ pc'[j] = (IF pc[j] = "unused" THEN "unused" ELSE "done")
        /\ memory'[j] = Absent /\ rows'[j] = rows[j] /\ ~up'
    BY <1>6 DEF ProcessEnds
  <2> QED
    BY <1>0, <2>1 DEF JobInv, MapAtPlace, RowAtPlace, Delivering, Resting, Active,
                      ActiveStates, Absent
<1>7. CASE Load
  <2>1. /\ pc' = pc /\ work' = work /\ pc[j] \in Resting /\ up'
        /\ rows'[j] = Interrupted(rows[j]) \/ (WritesMayFail /\ rows'[j] = rows[j])
        /\ memory'[j] \in {rows'[j], Absent}
    BY <1>0, <1>7 DEF Load, JobInv, MapAtPlace
  <2>2. Interrupted(Absent) = Absent
    BY DEF Interrupted, Active, ActiveStates, Absent
  <2>3. rows[j] \in Values => ~Active(Interrupted(rows[j]))
    BY DEF Interrupted, Active, ActiveStates, Values
  <2>4. rows[j] \in Values /\ WritesMayFail \in BOOLEAN /\ ~Active(Absent)
    BY <1>0, JobManagerAssumption DEF TypeOK, Active, ActiveStates, Absent
  <2> QED
    BY <1>0, <2>1, <2>2, <2>3, <2>4
       DEF JobInv, MapAtPlace, RowAtPlace, Delivering, Resting
<1>8. CASE UNCHANGED vars
  BY <1>0, <1>8, JobInvFrame DEF vars
<1> QED
  BY <1>1, <1>2, <1>3, <1>4, <1>5, <1>6, <1>7, <1>8 DEF Next

LEMMA JobsInvariant == Spec => []JobsInv
BY InitJobs, NextJobs, PTL DEF Spec

\* A job that clients see as active has a thread that will end it.
THEOREM ActiveJobsAlwaysRun == Spec => []ActiveJobsRun
<1>1. JobsInv => ActiveJobsRun
  BY JobManagerAssumption
     DEF JobsInv, JobInv, MapAtPlace, ActiveJobsRun, Resting, Active, ActiveStates, Absent
<1> QED
  BY <1>1, JobsInvariant, PTL

\* Between two updates of a job the table agrees with the map.
THEOREM RowsAlwaysMatchAtRest == Spec => []RowsMatchAtRest
<1>1. JobsInv => RowsMatchAtRest
  BY DEF JobsInv, JobInv, RowAtPlace, RowsMatchAtRest
<1> QED
  BY <1>1, JobsInvariant, PTL

-----------------------------------------------------------------------------
(* The reservation.  Its invariant is the two properties themselves, on    *)
(* top of the invariant of the jobs: a job that gives the reservation back *)
(* is entitled to it, and then it is the only one.                         *)

ReservationInv == JobsInv /\ ReservationMatchesHolder /\ OneDataOperation

\* A step that changes neither the gate nor who is entitled keeps the invariant.
LEMMA ReservationFrame ==
  ASSUME ReservationMatchesHolder, OneDataOperation, gate' = gate,
         \A j \in Jobs : HoldsReservation(j)' <=> HoldsReservation(j)
  PROVE  ReservationMatchesHolder' /\ OneDataOperation'
BY DEF ReservationMatchesHolder, OneDataOperation

\* A step with which job i gives the reservation back, if it has it.
LEMMA ReservationReleased ==
  ASSUME ReservationMatchesHolder, OneDataOperation, NEW i \in Jobs,
         gate' = (IF HoldsReservation(i) THEN FALSE ELSE gate),
         gate \in BOOLEAN,
         ~HoldsReservation(i)',
         \A j \in Jobs \ {i} : HoldsReservation(j)' <=> HoldsReservation(j)
  PROVE  ReservationMatchesHolder' /\ OneDataOperation'
BY DEF ReservationMatchesHolder, OneDataOperation

\* Whether a job is entitled depends on its own part of the state alone.
LEMMA OthersKeepReservation ==
  ASSUME TypeOK, NEW i \in Jobs, JobStep(i), NEW j \in Jobs, j # i
  PROVE  HoldsReservation(j)' <=> HoldsReservation(j)
BY OthersKept DEF HoldsReservation

LEMMA JobStepReservation ==
  ASSUME ReservationInv, NEW i \in Jobs, JobStep(i)
  PROVE  ReservationMatchesHolder' /\ OneDataOperation'
<1> USE DEF ReservationInv, JobsInv
<1>0. /\ TypeOK /\ JobInv(i)
      /\ \A j \in Jobs \ {i} : HoldsReservation(j)' <=> HoldsReservation(j)
  BY OthersKeepReservation
<1>1. ASSUME gate' = gate, HoldsReservation(i)' <=> HoldsReservation(i)
      PROVE  ReservationMatchesHolder' /\ OneDataOperation'
  BY <1>0, <1>1, ReservationFrame
<1>2. ASSUME gate' = (IF HoldsReservation(i) THEN FALSE ELSE gate), ~HoldsReservation(i)'
      PROVE  ReservationMatchesHolder' /\ OneDataOperation'
  BY <1>0, <1>2, ReservationReleased DEF TypeOK
<1> USE DEF HoldsReservation, Starting, Delivering
<1>3. CASE PersistQueued(i) \/ Register(i) \/ Spawn(i)
  BY <1>0, <1>1, <1>3 DEF PersistQueued, Register, Spawn, Goto, TypeOK
<1>4. CASE StartFails(i)
  BY <1>0, <1>2, <1>4 DEF StartFails, Goto, TypeOK
<1>5. CASE Begin(i)
  <2>1. [memory[i] EXCEPT !.state = "running"].state = "running"
    BY <1>0 DEF TypeOK, Values
  <2>2. pc'[i] = "writing" /\ ~Terminal(work'[i]) /\ kind' = kind
    BY <1>0, <1>5, <2>1, PublishKeepsJob DEF Begin, Publish, Terminal, TerminalStates
  <2> QED
    BY <1>1, <1>5, <2>2 DEF Begin
<1>6. CASE Report(i)
  <2>1. PICK p \in memory[i].progress + 1 .. MaxProgress :
          Publish(i, [memory[i] EXCEPT !.progress = p])
    BY <1>6 DEF Report
  <2>2. [memory[i] EXCEPT !.progress = p].state = "running"
    BY <1>0, <1>6 DEF TypeOK, Values, Report, JobInv, MapAtPlace
  <2>3. pc'[i] = "writing" /\ ~Terminal(work'[i]) /\ kind' = kind
    BY <1>0, <2>1, <2>2, PublishKeepsJob DEF Publish, Terminal, TerminalStates
  <2> QED
    BY <1>1, <1>6, <2>3 DEF Report
<1>7. CASE Finish(i)
  <2>1. FinalValue(i).state = work[i].state
    BY DEF FinalValue
  <2>2. pc'[i] = "writing" /\ Terminal(work'[i])
    BY <1>0, <1>7, <2>1, PublishKeepsJob DEF Finish, JobInv, MapAtPlace, Terminal
  <2> QED
    BY <1>1, <1>7, <2>2 DEF Finish
<1>8. CASE Unregister(i)
  BY <1>0, <1>1, <1>8 DEF Unregister, Goto, TypeOK
<1>9. CASE \E outcome \in Outcomes : Return(i, outcome)
  BY <1>0, <1>2, <1>9 DEF Return, Goto, TypeOK
<1>10. CASE WriteRow(i) \/ Resend(i) \/ Drain(i) \/ \E s \in Subs : Send(i, s)
  <2>1. /\ work' = work /\ kind' = kind /\ gate' = gate /\ pc[i] \in Delivering
        /\ pc'[i] \in Delivering \/ \E left : Resume(i, left)
    BY <1>0, <1>10 DEF WriteRow, Resend, Drain, Send, Served, Goto, TypeOK
  <2> QED
    BY <1>0, <1>1, <2>1, ResumePlace
<1> QED
  BY <1>3, <1>4, <1>5, <1>6, <1>7, <1>8, <1>9, <1>10 DEF JobStep

LEMMA NextReservation == ReservationInv /\ [Next]_vars => ReservationInv'
<1> SUFFICES ASSUME ReservationInv, [Next]_vars
             PROVE  ReservationMatchesHolder' /\ OneDataOperation'
  BY NextJobs DEF ReservationInv
<1>0. /\ ReservationMatchesHolder /\ OneDataOperation /\ TypeOK
      /\ \A j \in Jobs : JobInv(j)
  BY DEF ReservationInv, JobsInv
<1>1. ASSUME gate' = gate, \A j \in Jobs : HoldsReservation(j)' <=> HoldsReservation(j)
      PROVE  ReservationMatchesHolder' /\ OneDataOperation'
  BY <1>0, <1>1, ReservationFrame
<1>2. CASE \E i \in Jobs, k \in Kinds : Request(i, k)
  <2>1. PICK i \in Jobs, k \in Kinds : Request(i, k)
    BY <1>2
  <2>2. /\ \A j \in Jobs \ {i} : HoldsReservation(j)' <=> HoldsReservation(j)
        /\ ~HoldsReservation(i)
        /\ HoldsReservation(i)' <=> k \in DataKinds
    BY <1>0, <2>1 DEF HoldsReservation, Request, Goto, Starting, Delivering, TypeOK
  <2>3. CASE k \in DataKinds
    <3>1. ~gate /\ gate'
      BY <2>1, <2>3 DEF Request, Reserve
    <3>2. \A j \in Jobs : HoldsReservation(j)' <=> j = i
      BY <1>0, <2>2, <2>3, <3>1 DEF ReservationMatchesHolder
    <3> QED
      BY <3>1, <3>2 DEF ReservationMatchesHolder, OneDataOperation
  <2>4. CASE k \notin DataKinds
    BY <1>1, <2>1, <2>2, <2>4 DEF Request, Reserve
  <2> QED
    BY <2>3, <2>4
<1>3. CASE \E i \in Jobs : JobStep(i)
  BY <1>3, JobStepReservation
<1>4. CASE \/ \E i \in Jobs : Cancel(i) \/ \E s \in Subs : Subscribe(s, i)
           \/ \E s \in Subs : Receive(s) \/ Disconnect(s)
           \/ ShutdownBegins \/ ShutdownReturns
  BY <1>1, <1>4 DEF Cancel, Subscribe, Receive, Disconnect, ShutdownBegins,
                    ShutdownReturns, jobVars, processVars, HoldsReservation
<1>5. CASE ProcessEnds
  <2>1. gate' = FALSE /\ \A j \in Jobs : pc'[j] \in Resting
    BY <1>5 DEF ProcessEnds, Resting
  <2> QED
    BY <2>1 DEF ReservationMatchesHolder, OneDataOperation, HoldsReservation,
                Starting, Delivering, Resting
<1>6. CASE Load
  BY <1>1, <1>6 DEF Load, HoldsReservation
<1>7. CASE UNCHANGED vars
  BY <1>1, <1>7 DEF vars, HoldsReservation
<1> QED
  BY <1>2, <1>3, <1>4, <1>5, <1>6, <1>7 DEF Next

LEMMA InitReservation == Init => ReservationInv
BY InitJobs DEF Init, ReservationInv, ReservationMatchesHolder, OneDataOperation,
                HoldsReservation, Starting, Delivering

\* Two backups or restores never overlap, for any number of jobs and restarts
\* and through every failed write.
THEOREM OneDataOperationAlways == Spec => []OneDataOperation
BY InitReservation, NextReservation, PTL DEF Spec, ReservationInv

\* The reservation is neither leaked nor given away.
THEOREM ReservationAlwaysMatchesHolder == Spec => []ReservationMatchesHolder
BY InitReservation, NextReservation, PTL DEF Spec, ReservationInv

-----------------------------------------------------------------------------
(* Endings.                                                                *)

\* No step changes a job that has ended, while the process lives.
LEMMA TerminalStep ==
  ASSUME JobsInv, [Next]_vars, NEW j \in Jobs, Terminal(memory[j]), up'
  PROVE  memory'[j] = memory[j]
<1> USE DEF JobsInv
<1>0. TypeOK /\ JobInv(j)
  OBVIOUS
<1>1. /\ pc[j] \in Delivering \cup {"unregistering", "done"}
      /\ up
  BY <1>0 DEF TypeOK, Places, Starting, Delivering, Resting, JobInv, MapAtPlace,
              Terminal, TerminalStates, Absent, Queued
<1>2. CASE \E i \in Jobs : JobStep(i)
  <2>1. PICK i \in Jobs : JobStep(i)
    BY <1>2
  <2>2. CASE i # j
    BY <1>0, <2>1, <2>2, OthersKept
  <2>3. CASE i = j
    <3>1. \/ WriteRow(j) \/ Drain(j) \/ Resend(j) \/ Unregister(j)
          \/ \E s \in Subs : Send(j, s)
      BY <1>1, <2>1, <2>3 DEF JobStep, PersistQueued, StartFails, Register, Spawn,
                              Begin, Report, Finish, Return, Delivering
    <3> QED
      BY <3>1 DEF WriteRow, Drain, Resend, Unregister, Send, processVars
  <2> QED
    BY <2>2, <2>3
<1>3. CASE \/ \E i \in Jobs : \/ Cancel(i) \/ \E s \in Subs : Subscribe(s, i)
                              \/ \E k \in Kinds : Request(i, k)
           \/ \E s \in Subs : Receive(s) \/ Disconnect(s)
           \/ ShutdownBegins \/ ShutdownReturns
  BY <1>3 DEF Cancel, Subscribe, Request, Receive, Disconnect, ShutdownBegins,
              ShutdownReturns, jobVars
<1>4. CASE ProcessEnds \/ Load \/ UNCHANGED vars
  BY <1>1, <1>4 DEF ProcessEnds, Load, vars
<1> QED
  BY <1>2, <1>3, <1>4 DEF Next

\* Once shown as ended a job is never shown otherwise.
THEOREM TerminalStaysFinal == Spec => TerminalIsFinal
<1>1. JobsInv /\ [Next]_vars =>
        [\A j \in Jobs : Terminal(memory[j]) /\ up' => memory'[j] = memory[j]]_vars
  BY TerminalStep
<1> QED
  BY <1>1, JobsInvariant, PTL DEF Spec, TerminalIsFinal

-----------------------------------------------------------------------------
(* The table implements JobLifecycle.                                      *)

\* What one row's change is in the abstract specification.
LEMMA RowStep ==
  ASSUME TypeOK, NEW j \in Jobs, NEW value,
         rows' = [rows EXCEPT ![j] = value],
         \/ rows[j].state = "absent" /\ value.state = "queued"
         \/ rows[j].state = "queued" /\ value.state = "running"
         \/ rows[j].state = value.state
         \/ Active(rows[j]) /\ Terminal(value)
  PROVE  [Lifecycle!Next]_RowStates
<1>1. RowStates' = [RowStates EXCEPT ![j] = value.state]
  BY DEF TypeOK, RowStates
<1>2. RowStates[j] = rows[j].state
  BY DEF RowStates
<1>3. CASE rows[j].state = value.state
  <2>1. RowStates' = RowStates
    BY <1>1, <1>2, <1>3 DEF RowStates
  <2> QED
    BY <2>1
<1>4. CASE rows[j].state = "absent" /\ value.state = "queued"
  BY <1>1, <1>2, <1>4 DEF Lifecycle!Next, Lifecycle!Enqueue
<1>5. CASE rows[j].state = "queued" /\ value.state = "running"
  BY <1>1, <1>2, <1>5 DEF Lifecycle!Next, Lifecycle!Run
<1>6. CASE Active(rows[j]) /\ Terminal(value)
  BY <1>1, <1>2, <1>6 DEF Lifecycle!Next, Lifecycle!End, Lifecycle!ActiveStates,
       Lifecycle!TerminalStates, Active, Terminal, ActiveStates, TerminalStates
<1> QED
  BY <1>3, <1>4, <1>5, <1>6

\* Every write of the table is a step of the abstract specification.
LEMMA LifecycleStep ==
  JobsInv /\ [Next]_vars => [Lifecycle!Next]_RowStates
<1> SUFFICES ASSUME JobsInv, [Next]_vars
             PROVE  [Lifecycle!Next]_RowStates
  OBVIOUS
<1> USE DEF JobsInv
<1>1. CASE rows' = rows
  BY <1>1 DEF RowStates
<1>2. CASE \E j \in Jobs : PersistQueued(j)
  <2>1. PICK j \in Jobs : PersistQueued(j)
    BY <1>2
  <2>2. rows[j].state = "absent"
    BY <2>1 DEF PersistQueued, JobInv, RowAtPlace, Absent
  <2> QED
    BY <2>1, <2>2, RowStep DEF PersistQueued, Queued
<1>3. CASE \E j \in Jobs : WriteRow(j)
  <2>1. PICK j \in Jobs : WriteRow(j)
    BY <1>3
  <2>2. /\ Active(rows[j])
        /\ work[j].state = "running" \/ Terminal(work[j])
    BY <2>1 DEF WriteRow, JobInv, RowAtPlace, MapAtPlace, Delivering
  <2>3. CASE rows' = [rows EXCEPT ![j] = work[j]]
    BY <2>2, <2>3, RowStep DEF Active, ActiveStates
  <2> QED
    BY <1>1, <2>1, <2>3 DEF WriteRow
<1>4. CASE Load
  <2>1. CASE rows' = [j \in Jobs |-> Interrupted(rows[j])]
    <3>1. \A j \in Jobs : rows'[j].state =
            IF Active(rows[j]) THEN "failed" ELSE rows[j].state
      BY <2>1 DEF Interrupted, TypeOK, Values
    <3> QED
      BY <3>1 DEF Lifecycle!Next, Lifecycle!InterruptAll, Lifecycle!ActiveStates,
                  Active, ActiveStates, RowStates
  <2> QED
    BY <1>1, <1>4, <2>1 DEF Load
<1>5. ASSUME NEW j \in Jobs, JobStep(j), ~PersistQueued(j), ~WriteRow(j)
      PROVE  rows' = rows
  BY <1>5 DEF JobStep, StartFails, Register, Spawn, Begin, Report, Finish, Publish,
              Unregister, Return, Drain, Resend, Send
<1>6. CASE \/ \E i \in Jobs : \/ Cancel(i) \/ \E s \in Subs : Subscribe(s, i)
                              \/ \E k \in Kinds : Request(i, k)
           \/ \E s \in Subs : Receive(s) \/ Disconnect(s)
           \/ ShutdownBegins \/ ShutdownReturns \/ ProcessEnds \/ UNCHANGED vars
  BY <1>1, <1>6 DEF Cancel, Subscribe, Request, Receive, Disconnect, ShutdownBegins,
                    ShutdownReturns, ProcessEnds, vars
<1> QED
  BY <1>1, <1>2, <1>3, <1>4, <1>5, <1>6 DEF Next

\* background_jobs lives as JobLifecycle says, for any number of jobs, through
\* failed writes, crashes and restarts.
THEOREM RowsImplementLifecycle == Spec => RowsFollowLifecycle
<1>1. Init => Lifecycle!Init
  BY DEF Init, Lifecycle!Init, Absent, RowStates
<1> QED
  BY <1>1, LifecycleStep, JobsInvariant, PTL DEF Spec, RowsFollowLifecycle, Lifecycle!Spec

-----------------------------------------------------------------------------
(* Streams.  The invariant says which listeners a goroutine still owes an  *)
(* event, and that the channel it has just emptied is still empty when it  *)
(* sends again: no other job writes to it, and Subscribe only opens new    *)
(* connections.                                                            *)

StreamInv(s) ==
  /\ phase[s] = "open" => up /\ topic[s] \in Jobs /\ memory[topic[s]] # Absent
  /\ \A j \in Jobs : s \in pending[j] => topic[s] = j /\ phase[s] # "idle"

ListenerInv(j) ==
  /\ pc[j] \notin Delivering => pending[j] = {}
  /\ pc[j] \in {"draining", "resending"} => target[j] \in pending[j]
  /\ pc[j] = "resending" => chan[target[j]] = Absent

StreamsInv == /\ JobsInv
              /\ \A s \in Subs : StreamInv(s)
              /\ \A j \in Jobs : ListenerInv(j)
              /\ StreamIsCurrent

LEMMA InitStreams == Init => StreamsInv
BY InitJobs DEF Init, StreamsInv, StreamInv, ListenerInv, StreamIsCurrent, Delivering

StreamPart == \A s \in Subs : StreamInv(s)
ListenerPart == \A j \in Jobs : ListenerInv(j)

\* Steps that touch neither the map nor a stream, and that do not move a job
\* into or within its deliveries.
LEMMA QuietStep ==
  ASSUME StreamsInv, memory' = memory, pending' = pending, target' = target,
         UNCHANGED streamVars, up => up',
         \A j \in Jobs : pc'[j] = pc[j] \/ {pc[j], pc'[j]} \cap Delivering = {}
  PROVE  StreamPart' /\ ListenerPart' /\ StreamIsCurrent'
BY DEF StreamsInv, StreamPart, ListenerPart, StreamInv, ListenerInv, StreamIsCurrent,
       streamVars, Delivering

\* A published value is owed to every stream of the job that is open.
LEMMA PublishStreams ==
  ASSUME StreamsInv, NEW i \in Jobs, NEW value, Publish(i, value), value # Absent,
         pc[i] \notin Delivering
  PROVE  StreamPart' /\ ListenerPart' /\ StreamIsCurrent'
<1> USE DEF StreamsInv, JobsInv
<1>1. /\ memory' = [memory EXCEPT ![i] = value]
      /\ pending' = [pending EXCEPT ![i] = Listeners(i)]
      /\ pc' = [pc EXCEPT ![i] = "writing"]
      /\ target' = target /\ UNCHANGED streamVars /\ up' = up
  BY DEF Publish, Goto, processVars
<1>2. StreamPart'
  BY <1>1 DEF StreamPart, StreamInv, Listeners, streamVars, TypeOK
<1>3. ListenerPart'
  BY <1>1 DEF ListenerPart, ListenerInv, Delivering, streamVars, TypeOK
<1>4. StreamIsCurrent'
  BY <1>1 DEF StreamIsCurrent, StreamInv, Listeners, streamVars, TypeOK
<1> QED
  BY <1>2, <1>3, <1>4

\* Once a listener has the goroutine's value, or room was found for it.
LEMMA ServedStreams ==
  ASSUME StreamsInv, NEW i \in Jobs, NEW s \in Subs, Served(i, s),
         s \in pending[i], pc[i] \in Delivering, chan[s] = Absent,
         chan' = [chan EXCEPT ![s] = work[i]],
         memory' = memory, topic' = topic, phase' = phase, seen' = seen, up' = up
  PROVE  StreamPart' /\ ListenerPart' /\ StreamIsCurrent'
<1> USE DEF StreamsInv, JobsInv
<1>1. /\ pending' = [pending EXCEPT ![i] = @ \ {s}]
      /\ target' = [target EXCEPT ![i] = NoSub]
      /\ Resume(i, pending[i] \ {s})
      /\ work[i] = memory[i] /\ topic[s] = i
  BY DEF Served, JobInv, MapAtPlace, StreamInv
<1>2. /\ pc'[i] \in {"notifying", "unregistering", "operating"}
      /\ pc'[i] # "notifying" => pending[i] \ {s} = {}
      /\ \A j \in Jobs \ {i} : pc'[j] = pc[j]
  <2>1. TypeOK
    OBVIOUS
  <2>2. \A j \in Jobs \ {i} : pc'[j] = pc[j]
    BY <1>1, <2>1 DEF Resume, Goto, TypeOK
  <2>3. \/ pc'[i] = "notifying"
        \/ pc'[i] \in {"unregistering", "operating"} /\ pending[i] \ {s} = {}
    BY <1>1, <2>1, ResumePlace
  <2> QED
    BY <2>2, <2>3
<1>3. StreamPart'
  BY <1>1 DEF StreamPart, StreamInv, TypeOK
<1>4. ListenerPart'
  <2>1. ListenerInv(i)'
    BY <1>1, <1>2 DEF ListenerInv, Delivering, TypeOK
  <2>2. ASSUME NEW j \in Jobs \ {i} PROVE ListenerInv(j)'
    <3>1. pending'[j] = pending[j] /\ target'[j] = target[j] /\ pc'[j] = pc[j]
      BY <1>1, <1>2 DEF TypeOK
    <3>2. pc[j] = "resending" => target[j] \in Subs /\ topic[target[j]] = j
      BY DEF ListenerInv, StreamInv, TypeOK
    <3>3. pc[j] = "resending" => chan'[target[j]] = Absent
      BY <1>1, <3>2 DEF ListenerInv, TypeOK
    <3> QED
      BY <3>1, <3>3 DEF ListenerInv
  <2> QED
    BY <2>1, <2>2 DEF ListenerPart
<1>5. StreamIsCurrent'
  BY <1>1 DEF StreamIsCurrent, StreamInv, TypeOK
<1> QED
  BY <1>3, <1>4, <1>5

LEMMA JobStepStreams ==
  ASSUME StreamsInv, NEW i \in Jobs, JobStep(i)
  PROVE  StreamPart' /\ ListenerPart' /\ StreamIsCurrent'
<1> USE DEF StreamsInv, JobsInv
<1>0. TypeOK /\ JobInv(i) /\ ListenerInv(i)
  OBVIOUS
<1>1. CASE \/ PersistQueued(i) \/ StartFails(i) \/ Spawn(i) \/ Unregister(i)
           \/ \E outcome \in Outcomes : Return(i, outcome)
  BY <1>0, <1>1, QuietStep DEF PersistQueued, StartFails, Spawn, Unregister, Return,
       Goto, Delivering, processVars, TypeOK
<1>2. CASE Register(i)
  <2>1. /\ memory[i] = Absent /\ pc[i] = "registering"
        /\ memory' = [memory EXCEPT ![i] = Queued]
        /\ pc' = [pc EXCEPT ![i] = "adding"]
        /\ pending' = pending /\ target' = target /\ UNCHANGED streamVars /\ up' = up
    BY <1>0, <1>2 DEF Register, Goto, processVars, JobInv, MapAtPlace
  <2>2. \A s \in Subs : phase[s] = "open" => topic[s] # i
    BY <2>1 DEF StreamInv
  <2> QED
    BY <2>1, <2>2 DEF StreamPart, StreamInv, ListenerPart, ListenerInv, StreamIsCurrent,
                      streamVars, Delivering, TypeOK
<1>3. CASE Begin(i)
  <2>1. [memory[i] EXCEPT !.state = "running"] # Absent
    BY <1>0 DEF TypeOK, Values, Absent
  <2> QED
    BY <1>3, <2>1, PublishStreams DEF Begin, Delivering
<1>4. CASE Report(i)
  <2>1. PICK p \in memory[i].progress + 1 .. MaxProgress :
          Publish(i, [memory[i] EXCEPT !.progress = p])
    BY <1>4 DEF Report
  <2>2. [memory[i] EXCEPT !.progress = p].state = "running"
    BY <1>0, <1>4 DEF TypeOK, Values, Report, JobInv, MapAtPlace
  <2> QED
    BY <1>4, <2>1, <2>2, PublishStreams DEF Report, Delivering, Absent
<1>5. CASE Finish(i)
  <2>1. FinalValue(i).state = work[i].state /\ Terminal(work[i])
    BY <1>0, <1>5 DEF FinalValue, Finish, JobInv, MapAtPlace
  <2> QED
    BY <1>5, <2>1, PublishStreams
       DEF Finish, Delivering, Absent, Terminal, TerminalStates
<1>6. CASE WriteRow(i)
  <2>1. /\ pc[i] = "writing" /\ Resume(i, pending[i])
        /\ memory' = memory /\ pending' = pending /\ target' = target
        /\ UNCHANGED streamVars /\ up' = up
    BY <1>6 DEF WriteRow, processVars
  <2>2. /\ pc'[i] \in {"notifying", "unregistering", "operating"}
        /\ pc'[i] # "notifying" => pending[i] = {}
        /\ \A j \in Jobs \ {i} : pc'[j] = pc[j]
    BY <1>0, <2>1, ResumePlace DEF Resume, Goto, TypeOK
  <2> QED
    BY <2>1, <2>2 DEF StreamPart, StreamInv, ListenerPart, ListenerInv, StreamIsCurrent,
                      streamVars, Delivering
<1>7. CASE Drain(i)
  <2>1. /\ pc[i] = "draining" /\ target[i] \in pending[i]
        /\ chan' = [chan EXCEPT ![target[i]] = Absent]
        /\ pc' = [pc EXCEPT ![i] = "resending"]
        /\ memory' = memory /\ pending' = pending /\ target' = target
        /\ topic' = topic /\ phase' = phase /\ seen' = seen /\ up' = up
    BY <1>0, <1>7 DEF Drain, Goto, processVars, ListenerInv
  <2>2. target[i] \in Subs /\ topic[target[i]] = i
    BY <2>1 DEF StreamInv, TypeOK
  <2>3. StreamPart'
    BY <2>1 DEF StreamPart, StreamInv
  <2>4. ListenerPart'
    BY <2>1, <2>2 DEF ListenerPart, ListenerInv, Delivering, TypeOK
  <2>5. StreamIsCurrent'
    BY <2>1, <2>2 DEF StreamIsCurrent, TypeOK
  <2> QED
    BY <2>3, <2>4, <2>5
<1>8. CASE Resend(i)
  <2>1. /\ pc[i] = "resending" /\ target[i] \in pending[i] /\ target[i] \in Subs
        /\ chan[target[i]] = Absent
    BY <1>0, <1>8 DEF Resend, ListenerInv, TypeOK
  <2>2. chan' = [chan EXCEPT ![target[i]] = work[i]]
    BY <1>0, <1>8, <2>1 DEF Resend, TypeOK
  <2> QED
    BY <1>8, <2>1, <2>2, ServedStreams DEF Resend, Delivering, processVars
<1>9. CASE \E s \in Subs : Send(i, s)
  <2>1. PICK s \in Subs : Send(i, s)
    BY <1>9
  <2>2. CASE chan[s] = Absent
    BY <2>1, <2>2, ServedStreams DEF Send, Delivering, processVars
  <2>3. CASE chan[s] # Absent
    <3>1. /\ pc[i] = "notifying" /\ s \in pending[i]
          /\ target' = [target EXCEPT ![i] = s]
          /\ pc' = [pc EXCEPT ![i] = "draining"]
          /\ memory' = memory /\ pending' = pending /\ UNCHANGED streamVars /\ up' = up
      BY <2>1, <2>3 DEF Send, Goto, processVars, streamVars
    <3> QED
      BY <3>1 DEF StreamPart, StreamInv, ListenerPart, ListenerInv, StreamIsCurrent,
                  streamVars, Delivering, TypeOK
  <2> QED
    BY <2>2, <2>3
<1> QED
  BY <1>1, <1>2, <1>3, <1>4, <1>5, <1>6, <1>7, <1>8, <1>9 DEF JobStep

LEMMA NextStreams == StreamsInv /\ [Next]_vars => StreamsInv'
<1> SUFFICES ASSUME StreamsInv, [Next]_vars
             PROVE  StreamPart' /\ ListenerPart' /\ StreamIsCurrent'
  BY NextJobs DEF StreamsInv, StreamPart, ListenerPart
<1> USE DEF StreamsInv, JobsInv
<1>1. CASE \E i \in Jobs, k \in Kinds : Request(i, k)
  BY <1>1, QuietStep DEF Request, Goto, Delivering, processVars, TypeOK
<1>2. CASE \E i \in Jobs : JobStep(i)
  BY <1>2, JobStepStreams
<1>3. CASE \E i \in Jobs : Cancel(i)
  BY <1>3, QuietStep DEF Cancel, jobVars, processVars
<1>4. CASE \E s \in Subs, i \in Jobs : Subscribe(s, i)
  <2>1. PICK s \in Subs, i \in Jobs : Subscribe(s, i)
    BY <1>4
  <2>2. /\ up /\ up' /\ phase[s] = "idle" /\ memory[i] # Absent
        /\ topic' = [topic EXCEPT ![s] = i]
        /\ phase' = [phase EXCEPT ![s] = "open"]
        /\ chan' = [chan EXCEPT ![s] = memory[i]]
        /\ seen' = seen /\ memory' = memory /\ pending' = pending /\ target' = target
        /\ pc' = pc
    BY <2>1 DEF Subscribe, jobVars, processVars
  <2>3. \A j \in Jobs : s \notin pending[j]
    BY <2>2 DEF StreamInv
  <2>4. StreamPart'
    BY <2>2, <2>3 DEF StreamPart, StreamInv, TypeOK
  <2>5. ListenerPart'
    BY <2>2, <2>3 DEF ListenerPart, ListenerInv, TypeOK
  <2>6. StreamIsCurrent'
    BY <2>2 DEF StreamIsCurrent, TypeOK
  <2> QED
    BY <2>4, <2>5, <2>6
<1>5. CASE \E s \in Subs : Receive(s)
  <2>1. PICK s \in Subs : Receive(s)
    BY <1>5
  <2>2. /\ phase[s] = "open" /\ chan[s] # Absent
        /\ seen' = [seen EXCEPT ![s] = chan[s]]
        /\ chan' = [chan EXCEPT ![s] = Absent]
        /\ phase' = [phase EXCEPT ![s] = "closed"] \/ phase' = phase
        /\ topic' = topic /\ memory' = memory /\ pending' = pending /\ target' = target
        /\ pc' = pc /\ up' = up
    BY <2>1 DEF Receive, jobVars, processVars
  <2>3. StreamPart'
    BY <2>2 DEF StreamPart, StreamInv, TypeOK
  <2>4. ListenerPart'
    BY <2>2 DEF ListenerPart, ListenerInv, TypeOK
  <2>5. StreamIsCurrent'
    BY <2>2 DEF StreamIsCurrent, TypeOK
  <2> QED
    BY <2>3, <2>4, <2>5
<1>6. CASE \E s \in Subs : Disconnect(s)
  BY <1>6 DEF Disconnect, jobVars, processVars, StreamPart, StreamInv, ListenerPart,
              ListenerInv, StreamIsCurrent, TypeOK
<1>7. CASE ShutdownBegins \/ ShutdownReturns
  BY <1>7, QuietStep DEF ShutdownBegins, ShutdownReturns, jobVars
<1>8. CASE ProcessEnds
  <2>1. /\ \A s \in Subs : phase'[s] # "open"
        /\ \A j \in Jobs : pending'[j] = {} /\ pc'[j] \notin Delivering
    BY <1>8 DEF ProcessEnds, Delivering, TypeOK
  <2> QED
    BY <2>1 DEF StreamPart, StreamInv, ListenerPart, ListenerInv, StreamIsCurrent,
                Delivering
<1>9. CASE Load
  <2>1. \A s \in Subs : phase[s] # "open"
    BY <1>9 DEF Load, StreamInv
  <2> QED
    BY <1>9, <2>1 DEF Load, streamVars, StreamPart, StreamInv, ListenerPart,
                      ListenerInv, StreamIsCurrent
<1>10. CASE UNCHANGED vars
  BY <1>10, QuietStep DEF vars, streamVars
<1> QED
  BY <1>1, <1>2, <1>3, <1>4, <1>5, <1>6, <1>7, <1>8, <1>9, <1>10 DEF Next

\* No update is lost on its way to a stream, for any number of connections to
\* any number of jobs.
THEOREM StreamsAlwaysCurrent == Spec => []StreamIsCurrent
BY InitStreams, NextStreams, PTL DEF Spec, StreamsInv

-----------------------------------------------------------------------------
(* The order of a stream's events: what its client has seen is not ahead   *)
(* of its channel, and its channel not ahead of the map.                   *)

Before(a, b) == Rank(a) <= Rank(b) /\ a.progress <= b.progress

OrderInv(s) ==
  /\ phase[s] = "idle" => seen[s] = Absent
  /\ phase[s] = "open" =>
       /\ Before(seen[s], memory[topic[s]])
       /\ chan[s] # Absent => Before(seen[s], chan[s]) /\ Before(chan[s], memory[topic[s]])

OrderPart == \A s \in Subs : OrderInv(s)

LEMMA BeforeOrders ==
  /\ \A a \in Values : Before(a, a) /\ Before(Absent, a)
  /\ \A a, b, c \in Values : Before(a, b) /\ Before(b, c) => Before(a, c)
<1>1. \A a \in Values : a.progress \in Nat /\ Rank(a) \in Nat
  BY JobManagerAssumption DEF Values, Rank
<1>2. Rank(Absent) = 0 /\ Absent.progress = 0
  BY DEF Rank, Absent
<1> QED BY <1>1, <1>2 DEF Before

\* What the map says of a job only moves forward while the process lives.
LEMMA MapMovesForward ==
  ASSUME JobsInv, NEW i \in Jobs, JobStep(i), NEW j \in Jobs, memory[j] # Absent
  PROVE  Before(memory[j], memory'[j])
<1> USE DEF JobsInv
<1>0. TypeOK /\ JobInv(i) /\ memory[j] \in Values /\ memory[i] \in Values
  BY DEF TypeOK
<1>1. CASE memory'[j] = memory[j]
  BY <1>0, <1>1, BeforeOrders
<1>2. CASE j # i
  BY <1>0, <1>1, <1>2, OthersKept
<1>3. CASE j = i /\ Begin(i)
  <2>1. memory'[i] = [memory[i] EXCEPT !.state = "running"] /\ memory[i] = Queued
    BY <1>0, <1>3, PublishKeepsJob DEF Begin, JobInv, MapAtPlace
  <2> QED BY <1>3, <2>1 DEF Before, Rank, Queued
<1>4. CASE j = i /\ Report(i)
  <2>1. PICK p \in memory[i].progress + 1 .. MaxProgress :
          Publish(i, [memory[i] EXCEPT !.progress = p])
    BY <1>4 DEF Report
  <2>2. memory'[i] = [memory[i] EXCEPT !.progress = p]
    BY <1>0, <2>1, PublishKeepsJob
  <2>3. memory'[i].state = memory[i].state /\ memory'[i].progress = p
    BY <1>0, <2>2 DEF Values
  <2>4. memory[i].progress \in Nat /\ p \in Nat /\ memory[i].progress <= p
    BY <1>0, <2>1, JobManagerAssumption DEF Values
  <2>5. Rank(memory'[i]) = Rank(memory[i]) /\ Rank(memory[i]) \in Nat
    BY <2>3 DEF Rank
  <2> QED BY <1>4, <2>3, <2>4, <2>5 DEF Before
<1>5. CASE j = i /\ Finish(i)
  <2>1. /\ memory'[i] = FinalValue(i) /\ memory[i].state = "running"
        /\ Terminal(work[i])
    BY <1>0, <1>5, PublishKeepsJob DEF Finish, JobInv, MapAtPlace
  <2>2. Rank(memory[i]) = 2 /\ Rank(FinalValue(i)) = 3
    BY <2>1 DEF FinalValue, Rank, Terminal, TerminalStates
  <2>3. memory[i].progress \in 0..MaxProgress
    BY <1>0 DEF Values
  <2>4. memory[i].progress <= FinalValue(i).progress
    BY <2>3, JobManagerAssumption DEF FinalValue
  <2> QED BY <1>5, <2>1, <2>2, <2>4 DEF Before
<1>6. CASE j = i /\ Register(i)
  BY <1>0, <1>6 DEF Register, JobInv, MapAtPlace
<1> QED
  BY <1>1, <1>2, <1>3, <1>4, <1>5, <1>6 DEF JobStep, PersistQueued, StartFails, Spawn,
     Unregister, Return, WriteRow, Drain, Resend, Send

\* The streams stay, and so does every job they watch, or it moves forward.
LEMMA OrderKept ==
  ASSUME StreamsInv, OrderPart, UNCHANGED streamVars, memory' \in [Jobs -> Values],
         \A j \in Jobs : memory[j] # Absent => Before(memory[j], memory'[j])
  PROVE  OrderPart'
<1> SUFFICES ASSUME NEW s \in Subs PROVE OrderInv(s)'
  BY DEF OrderPart
<1>1. UNCHANGED <<topic, phase, chan, seen>> /\ OrderInv(s)
  BY DEF streamVars, OrderPart
<1>2. CASE phase[s] # "open"
  BY <1>1, <1>2 DEF OrderInv
<1>3. CASE phase[s] = "open"
  <2>1. topic[s] \in Jobs /\ memory[topic[s]] # Absent
    BY <1>3 DEF StreamsInv, StreamInv
  <2>2. /\ memory[topic[s]] \in Values /\ memory'[topic[s]] \in Values
        /\ seen[s] \in Values /\ chan[s] \in Values
        /\ Before(memory[topic[s]], memory'[topic[s]])
    BY <2>1 DEF StreamsInv, JobsInv, TypeOK
  <2>3. /\ Before(seen[s], memory[topic[s]])
        /\ chan[s] # Absent => Before(seen[s], chan[s]) /\ Before(chan[s], memory[topic[s]])
    BY <1>1, <1>3 DEF OrderInv
  <2>4. /\ Before(seen[s], memory'[topic[s]])
        /\ chan[s] # Absent => Before(chan[s], memory'[topic[s]])
    BY <2>2, <2>3, BeforeOrders
  <2> QED BY <1>1, <1>3, <2>3, <2>4 DEF OrderInv
<1> QED BY <1>2, <1>3

\* A channel is emptied, or gets what the map says of the job.
LEMMA OrderDelivered ==
  ASSUME StreamsInv, OrderPart, NEW i \in Jobs, NEW s \in Subs, topic[s] = i,
         UNCHANGED <<memory, topic, phase, seen>>,
         \E value \in {Absent, memory[i]} : chan' = [chan EXCEPT ![s] = value]
  PROVE  OrderPart'
<1> SUFFICES ASSUME NEW u \in Subs PROVE OrderInv(u)'
  BY DEF OrderPart
<1>0. TypeOK /\ OrderInv(u)
  BY DEF StreamsInv, JobsInv, OrderPart
<1>1. CASE u # s
  BY <1>0, <1>1 DEF OrderInv, TypeOK
<1>2. CASE u = s
  <2>1. chan'[s] \in {Absent, memory[i]} /\ memory[i] \in Values
    BY <1>0 DEF TypeOK
  <2> QED BY <1>0, <1>2, <2>1, BeforeOrders DEF OrderInv
<1> QED BY <1>1, <1>2

LEMMA JobStepOrder ==
  ASSUME StreamsInv, OrderPart, NEW i \in Jobs, JobStep(i)
  PROVE  OrderPart'
<1> USE DEF StreamsInv, JobsInv
<1>0. TypeOK /\ JobInv(i) /\ ListenerInv(i)
  OBVIOUS
<1>1. CASE UNCHANGED streamVars
  <2>1. memory' \in [Jobs -> Values]
    BY NextType DEF Next, TypeOK
  <2> QED BY <1>1, <2>1, MapMovesForward, OrderKept
<1>2. CASE Drain(i)
  <2>1. target[i] \in Subs /\ topic[target[i]] = i
    BY <1>0, <1>2 DEF Drain, ListenerInv, StreamInv, TypeOK
  <2>2. chan' = [chan EXCEPT ![target[i]] = Absent] /\ UNCHANGED <<memory, topic, phase, seen>>
    BY <1>2 DEF Drain
  <2> QED BY <2>1, <2>2, OrderDelivered
<1>3. CASE Resend(i)
  <2>1. /\ target[i] \in Subs /\ topic[target[i]] = i /\ chan[target[i]] = Absent
        /\ work[i] = memory[i]
    BY <1>0, <1>3 DEF Resend, ListenerInv, StreamInv, TypeOK, JobInv, MapAtPlace, Delivering
  <2>2. chan' = [chan EXCEPT ![target[i]] = work[i]] /\ UNCHANGED <<memory, topic, phase, seen>>
    BY <1>0, <1>3, <2>1 DEF Resend, TypeOK
  <2> QED BY <2>1, <2>2, OrderDelivered
<1>4. ASSUME NEW s \in Subs, Send(i, s), chan[s] = Absent PROVE OrderPart'
  <2>1. topic[s] = i /\ work[i] = memory[i]
    BY <1>0, <1>4 DEF Send, StreamInv, JobInv, MapAtPlace, Delivering
  <2>2. chan' = [chan EXCEPT ![s] = work[i]] /\ UNCHANGED <<memory, topic, phase, seen>>
    BY <1>4 DEF Send
  <2> QED BY <2>1, <2>2, OrderDelivered
<1>5. ASSUME NEW s \in Subs, Send(i, s), chan[s] # Absent PROVE UNCHANGED streamVars
  BY <1>5 DEF Send, streamVars
<1>6. CASE \E s \in Subs : Send(i, s)
  BY <1>1, <1>4, <1>5, <1>6
<1>7. ASSUME ~ Drain(i), ~ Resend(i), ~ \E s \in Subs : Send(i, s)
      PROVE  UNCHANGED streamVars
  BY <1>7 DEF JobStep, PersistQueued, StartFails, Register, Spawn, Begin, Report, Finish,
     Publish, Unregister, Return, WriteRow
<1> QED BY <1>1, <1>2, <1>3, <1>6, <1>7

LEMMA NextOrder == StreamsInv /\ OrderPart /\ [Next]_vars => OrderPart'
<1> SUFFICES ASSUME StreamsInv, OrderPart, [Next]_vars PROVE OrderPart'
  OBVIOUS
<1>0. TypeOK
  BY DEF StreamsInv, JobsInv
<1>1. CASE \E i \in Jobs : JobStep(i)
  BY <1>1, JobStepOrder
<1>2. CASE UNCHANGED <<memory, streamVars>>
  BY <1>2 DEF OrderPart, OrderInv, streamVars
<1>3. CASE \E s \in Subs, j \in Jobs : Subscribe(s, j)
  <2>1. PICK s \in Subs, j \in Jobs : Subscribe(s, j)
    BY <1>3
  <2>2. /\ phase[s] = "idle" /\ memory' = memory /\ seen' = seen /\ memory[j] \in Values
        /\ topic' = [topic EXCEPT ![s] = j] /\ phase' = [phase EXCEPT ![s] = "open"]
        /\ chan' = [chan EXCEPT ![s] = memory[j]]
    BY <1>0, <2>1 DEF Subscribe, jobVars, TypeOK
  <2>3. seen[s] = Absent
    BY <2>2 DEF OrderPart, OrderInv
  <2>4. OrderInv(s)'
    BY <1>0, <2>2, <2>3, BeforeOrders DEF OrderInv, TypeOK
  <2>5. ASSUME NEW u \in Subs, u # s PROVE OrderInv(u)'
    BY <1>0, <2>2, <2>5 DEF OrderPart, OrderInv, TypeOK
  <2> QED BY <2>4, <2>5 DEF OrderPart
<1>4. CASE \E s \in Subs : Receive(s)
  <2>1. PICK s \in Subs : Receive(s)
    BY <1>4
  <2>2. /\ phase[s] = "open" /\ chan[s] # Absent
        /\ seen' = [seen EXCEPT ![s] = chan[s]] /\ chan' = [chan EXCEPT ![s] = Absent]
        /\ phase' = [phase EXCEPT ![s] = "closed"] \/ phase' = phase
        /\ topic' = topic /\ memory' = memory
    BY <2>1 DEF Receive, jobVars
  <2>3. OrderInv(s)'
    BY <1>0, <2>2 DEF OrderPart, OrderInv, TypeOK
  <2>4. ASSUME NEW u \in Subs, u # s PROVE OrderInv(u)'
    BY <1>0, <2>2, <2>4 DEF OrderPart, OrderInv, TypeOK
  <2> QED BY <2>3, <2>4 DEF OrderPart
<1>5. CASE \E s \in Subs : Disconnect(s)
  BY <1>0, <1>5 DEF Disconnect, jobVars, OrderPart, OrderInv, TypeOK
<1>6. CASE ProcessEnds
  <2>1. /\ \A s \in Subs : phase'[s] # "open" /\ (phase'[s] = "idle" => phase[s] = "idle")
        /\ seen' = seen
    BY <1>0, <1>6 DEF ProcessEnds, TypeOK
  <2> QED BY <2>1 DEF OrderPart, OrderInv
<1>7. CASE Load
  <2>1. \A s \in Subs : phase[s] # "open"
    BY <1>7 DEF Load, StreamsInv, StreamInv
  <2> QED BY <1>7, <2>1 DEF Load, streamVars, OrderPart, OrderInv
<1>8. CASE \/ \E i \in Jobs : Cancel(i) \/ \E k \in Kinds : Request(i, k)
           \/ ShutdownBegins \/ ShutdownReturns \/ UNCHANGED vars
  BY <1>2, <1>8 DEF Cancel, Request, ShutdownBegins, ShutdownReturns, vars, jobVars, streamVars
<1> QED BY <1>1, <1>3, <1>4, <1>5, <1>6, <1>7, <1>8 DEF Next

\* What a client is told next is not behind what it was told.
LEMMA SeenStep ==
  ASSUME StreamsInv, OrderPart, [Next]_vars, NEW s \in Subs
  PROVE  Before(seen[s], seen'[s])
<1>0. TypeOK /\ OrderInv(s) /\ seen[s] \in Values
  BY DEF StreamsInv, JobsInv, OrderPart, TypeOK
<1>1. CASE Receive(s)
  <2>1. phase[s] = "open" /\ chan[s] # Absent /\ seen'[s] = chan[s]
    BY <1>0, <1>1 DEF Receive, TypeOK
  <2> QED BY <1>0, <2>1 DEF OrderInv
<1>2. ASSUME NEW u \in Subs, u # s, Receive(u) PROVE seen'[s] = seen[s]
  BY <1>0, <1>2 DEF Receive, TypeOK
<1>3. ASSUME NEW j \in Jobs, JobStep(j) PROVE seen' = seen
  BY <1>3 DEF JobStep, PersistQueued, StartFails, Register, Spawn, Begin, Report, Finish,
     Publish, Unregister, Return, WriteRow, Drain, Resend, Send, streamVars
<1>4. CASE ~ \E u \in Subs : Receive(u)
  <2>1. seen' = seen
    BY <1>3, <1>4 DEF Next, Request, Cancel, Subscribe, Disconnect, ShutdownBegins,
       ShutdownReturns, ProcessEnds, Load, vars, streamVars
  <2> QED BY <1>0, <2>1, BeforeOrders
<1> QED BY <1>0, <1>1, <1>2, <1>4, BeforeOrders

\* The events of one stream never go back, to an earlier state or to a smaller
\* progress, although update replaces unread events outside the lock.
THEOREM StreamsMoveForward == Spec => StreamMovesForward
<1>1. Init => OrderPart
  BY DEF Init, OrderPart, OrderInv
<1>2. StreamsInv /\ OrderPart /\ [Next]_vars =>
        /\ (StreamsInv /\ OrderPart)'
        /\ [\A s \in Subs : /\ Rank(seen[s]) <= Rank(seen'[s])
                            /\ seen[s].progress <= seen'[s].progress]_vars
  BY NextStreams, NextOrder, SeenStep DEF Before
<1> QED
  BY <1>1, <1>2, InitStreams, PTL DEF Spec, StreamMovesForward

=============================================================================
