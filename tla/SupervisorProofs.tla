-------------------------- MODULE SupervisorProofs --------------------------
(***************************************************************************)
(* Proofs about Supervisor, for any number of workspaces, processes,       *)
(* crashes, commands and restarts.                                         *)
(***************************************************************************)
EXTENDS Supervisor, FiniteSetTheorems, TLAPS

-----------------------------------------------------------------------------
(* The inductive invariant.                                                *)

Starting == {"start", "enter", "spawn", "token", "await", "mark", "markAgain", "record"}
Stopping == {"stop", "signal", "kill", "stopped"}

\* What the locals r of thread t say when n processes have been spawned.
Sound(t, r, n) ==
  /\ r.at \in {"token", "await"} => r.proc \in 1..n
  /\ r.at \in Starting => r.ws \in Workspaces
  /\ r.at \in Stopping /\ r.goal \in {"retry", "open"} => r.ws \in Workspaces
  /\ r.goal \in {"open", "rollback"} => r.prev \in Workspaces
  /\ r.goal = "setup" => t = setup
  /\ r.at = "record" => r.goal \in {"setup", "open"}
  /\ r.at \in {"signal", "kill", "stopped"} /\ r.child # 0 =>
       r.flag = r.child /\ r.child \in 1..n

ThreadsSound == \A t \in Threads : Sound(t, th[t], spawned)

\* A process that a finished stop took is gone for good.
StopsAreDone ==
  \A t \in Threads : At(t, "stopped") /\ th[t].child # 0 => proc[th[t].child].life = "dead"

HandleSound(i, n) ==
  /\ i.child # 0 => i.term = i.child /\ i.child \in 1..n
  /\ i.state = "ready" => i.conn # 0 /\ i.child = i.conn /\ i.term = i.conn

\* What is known of one process.
ProcSound(p) ==
  /\ p <= spawned <=> proc[p].life # "none"
  /\ p <= spawned => proc[p].ws \in Workspaces
  /\ p \in flagged => proc[p].life = "dead"

ProcsSound == \A p \in Procs : ProcSound(p)

\* There is a workspace to restart as soon as anything has happened.
BootKnown ==
  \/ inner.boot \in Workspaces
  \/ spawned = 0 /\ \A t \in Threads : th[t].at = IF t = setup THEN "start" ELSE "idle"

IInv == /\ TypeOK /\ ThreadsSound /\ StopsAreDone /\ HandleSound(inner, spawned)
        /\ ProcsSound /\ BootKnown

LEMMA InitInv == Init => IInv
<1> SUFFICES ASSUME Init PROVE IInv
  OBVIOUS
<1> DEFINE first == [NoThread EXCEPT !.at = "start", !.goal = "setup", !.ws = current]
<1>1. /\ NoThread \in ThreadType /\ first \in ThreadType
      /\ NoThread.at = "idle" /\ first.at = "start"
      /\ \A n : Sound(setup, first, n) /\ \A t : Sound(t, NoThread, n)
  <2>1. NoThread \in ThreadType
    BY DEF NoThread, ThreadType, Places, Goals, Place, ProcId
  <2>2. current \in Place /\ current \in Workspaces
    BY DEF Init, Place
  <2>3. first \in ThreadType
    BY <2>1, <2>2 DEF ThreadType, Places, Goals
  <2>4. first.at = "start" /\ first.goal = "setup" /\ first.ws = current
    BY DEF NoThread
  <2>5. \A n : Sound(setup, first, n)
    BY <2>2, <2>4 DEF Sound, Starting, Stopping
  <2>6. \A n, t : Sound(t, NoThread, n) /\ NoThread.at = "idle"
    BY DEF NoThread, Sound, Starting, Stopping
  <2> QED BY <2>1, <2>3, <2>4, <2>5, <2>6
<1>2. th = [t \in Threads |-> IF t = setup THEN first ELSE NoThread]
  BY DEF Init
<1> HIDE DEF first
<1>3. th \in [Threads -> ThreadType] /\ ThreadsSound /\ StopsAreDone /\ BootKnown
  BY <1>1, <1>2 DEF Init, ThreadsSound, StopsAreDone, BootKnown, At
<1>4. inner \in InnerType /\ HandleSound(inner, spawned)
  BY SupervisorAssumption DEF Init, InnerType, Place, ProcId, HandleSound
<1>5. proc \in [Procs -> ProcType] /\ \A p \in Procs : proc[p].life = "none"
  BY DEF Init, NoProc, ProcType, Place
<1>6. ProcsSound
  BY <1>5, SupervisorAssumption
     DEF Init, ProcsSound, ProcSound, Procs
<1>7. TypeOK
  BY <1>3, <1>4, <1>5, SupervisorAssumption DEF Init, TypeOK
<1> QED BY <1>3, <1>4, <1>6, <1>7 DEF IInv

-----------------------------------------------------------------------------
(* How one part of the state may change.                                   *)

\* One thread's locals are replaced by sound ones.
LEMMA ThreadMoves ==
  ASSUME IInv, NEW t \in Threads, NEW r \in ThreadType,
         th' = [th EXCEPT ![t] = r],
         spawned' \in Nat, spawned <= spawned', Sound(t, r, spawned'),
         \A p \in Procs : proc[p].life = "dead" => proc'[p].life = "dead",
         r.at = "stopped" /\ r.child # 0 => proc'[r.child].life = "dead"
  PROVE  th' \in [Threads -> ThreadType] /\ ThreadsSound' /\ StopsAreDone'
<1>1. th \in [Threads -> ThreadType] /\ spawned \in Nat
  BY SupervisorAssumption DEF IInv, TypeOK
<1>2. /\ th' \in [Threads -> ThreadType] /\ th'[t] = r
      /\ \A u \in Threads : u # t => th'[u] = th[u]
  BY <1>1
<1>3. \A s : \A u \in Threads : Sound(u, s, spawned) => Sound(u, s, spawned')
  BY <1>1 DEF Sound
<1>4. ThreadsSound'
  BY <1>2, <1>3 DEF IInv, ThreadsSound
<1>5. ASSUME NEW u \in Threads, th'[u].at = "stopped", th'[u].child # 0
      PROVE  proc'[th'[u].child].life = "dead"
  <2>1. CASE u = t
    BY <1>2, <1>5, <2>1
  <2>2. CASE u # t
    <3>1. th[u].child \in Procs
      BY <1>1, <1>2, <1>5, <2>2 DEF ThreadType, ProcId
    <3> QED BY <1>2, <1>5, <2>2, <3>1 DEF IInv, StopsAreDone, At
  <2> QED BY <2>1, <2>2
<1> QED BY <1>2, <1>4, <1>5 DEF StopsAreDone, At

\* A known process is killed, or was already dead.
LEMMA ProcDies ==
  ASSUME IInv, NEW p \in 1..spawned, proc' = Kill(p), UNCHANGED <<flagged, spawned>>
  PROVE  /\ proc' \in [Procs -> ProcType] /\ ProcsSound'
         /\ \A q \in Procs : proc[q].life = "dead" => proc'[q].life = "dead"
         /\ p \in Procs /\ proc'[p].life = "dead"
<1>1. proc \in [Procs -> ProcType] /\ p \in Procs /\ spawned \in 0..MaxSpawns
  BY SupervisorAssumption DEF IInv, TypeOK, Procs
<1> DEFINE r == [proc[p] EXCEPT !.life = "dead"]
<1>2. r \in ProcType /\ r.life = "dead" /\ r.ws = proc[p].ws
  BY <1>1 DEF ProcType
<1>3. proc' = [proc EXCEPT ![p] = r]
  BY <1>1 DEF Kill
<1> HIDE DEF r
<1>4. /\ proc' \in [Procs -> ProcType] /\ proc'[p] = r
      /\ \A q \in Procs : q # p => proc'[q] = proc[q]
  BY <1>1, <1>2, <1>3
<1>5. ProcsSound'
  BY <1>1, <1>2, <1>4 DEF IInv, ProcsSound, ProcSound
<1> QED BY <1>1, <1>2, <1>4, <1>5

\* The processes are left alone.
LEMMA ProcsStay ==
  ASSUME IInv, UNCHANGED <<proc, flagged, spawned>>
  PROVE  /\ proc' \in [Procs -> ProcType] /\ ProcsSound'
         /\ \A q \in Procs : proc[q].life = "dead" => proc'[q].life = "dead"
BY DEF IInv, TypeOK, ProcsSound, ProcSound

\* A thread under way shows that there is a workspace to restart.
LEMMA BootStays ==
  ASSUME IInv, NEW t \in Threads, th[t].at \notin {"start", "idle"}
  PROVE  inner.boot \in Workspaces
BY DEF IInv, BootKnown

\* What is left to check of a step once these lemmas have been applied.
LEMMA Together ==
  ASSUME th' \in [Threads -> ThreadType], ThreadsSound', StopsAreDone',
         proc' \in [Procs -> ProcType], ProcsSound',
         inner' \in InnerType, HandleSound(inner', spawned'), inner'.boot \in Workspaces,
         app' \in BOOLEAN, mailbox' \in [Procs -> {"unborn", "empty", "ready", "error"}],
         flagged' \subseteq Procs, cancelled' \subseteq Procs, asked' \subseteq Procs,
         marker' \subseteq Workspaces, current' \in Workspaces,
         spawned' \in 0..MaxSpawns, crashes' \in 0..MaxCrashes, commands' \in 0..MaxCommands
  PROVE  IInv'
BY DEF IInv, TypeOK, BootKnown

-----------------------------------------------------------------------------
(* The ways a thread goes on.                                              *)

LEMMA ThreadFacts ==
  ASSUME IInv, NEW t \in Threads
  PROVE  /\ th[t] \in ThreadType /\ Sound(t, th[t], spawned) /\ inner \in InnerType
         /\ spawned \in Nat /\ spawned <= MaxSpawns /\ HandleSound(inner, spawned)
BY SupervisorAssumption DEF IInv, TypeOK, ThreadsSound

\* f is the table of threads after t went on to somewhere sound.
Onward(t, f) ==
  \E r \in ThreadType :
    f = [th EXCEPT ![t] = r] /\ Sound(t, r, spawned) /\ r.at # "stopped"

LEMMA OnwardMoves ==
  ASSUME IInv, NEW t \in Threads, Onward(t, th'), spawned' = spawned,
         \A p \in Procs : proc[p].life = "dead" => proc'[p].life = "dead"
  PROVE  th' \in [Threads -> ThreadType] /\ ThreadsSound' /\ StopsAreDone'
<1>1. PICK r \in ThreadType :
        th' = [th EXCEPT ![t] = r] /\ Sound(t, r, spawned) /\ r.at # "stopped"
  BY DEF Onward
<1>2. spawned' \in Nat /\ spawned <= spawned'
  BY ThreadFacts
<1> QED BY <1>1, <1>2, ThreadMoves

LEMMA RetargetOnward ==
  ASSUME IInv, NEW t \in Threads, NEW place \in Places \ {"stopped"},
         Sound(t, [th[t] EXCEPT !.at = place], spawned)
  PROVE  Onward(t, [th EXCEPT ![t].at = place])
<1> DEFINE r == [th[t] EXCEPT !.at = place]
<1>1. r \in ThreadType /\ r.at = place
  BY ThreadFacts DEF ThreadType
<1>2. [th EXCEPT ![t].at = place] = [th EXCEPT ![t] = r]
  BY DEF IInv, TypeOK
<1> QED BY <1>1, <1>2 DEF Onward

LEMMA FailureOnward ==
  ASSUME IInv, NEW t \in Threads, th[t].at \in {"enter", "spawn", "await"}
  PROVE  Onward(t, AfterFailure(t))
<1> DEFINE r == [th[t] EXCEPT !.at = "enter", !.attempt = 2]
           s == [th[t] EXCEPT !.at = "mark"]
<1>0. th[t] \in ThreadType /\ Sound(t, th[t], spawned)
  BY ThreadFacts
<1>1. r \in ThreadType /\ s \in ThreadType
  <2>1. "enter" \in Places /\ "mark" \in Places /\ 2 \in 0..2
    BY DEF Places
  <2>2. r \in ThreadType
    BY <1>0, <2>1 DEF ThreadType
  <2>3. s \in ThreadType
    BY <1>0, <2>1 DEF ThreadType
  <2> QED BY <2>2, <2>3
<1>2. Sound(t, r, spawned) /\ Sound(t, s, spawned) /\ r.at # "stopped" /\ s.at # "stopped"
  BY <1>0 DEF ThreadType, Sound, Starting, Stopping
<1>3. AfterFailure(t) = [th EXCEPT ![t] = r] \/ AfterFailure(t) = [th EXCEPT ![t] = s]
  BY DEF AfterFailure, IInv, TypeOK
<1> QED BY <1>1, <1>2, <1>3 DEF Onward

LEMMA ReturnOnward ==
  ASSUME IInv, NEW t \in Threads
  PROVE  Onward(t, Returned(t))
<1> DEFINE r == [NoThread EXCEPT !.at = "done"]
<1>1. r \in ThreadType
  BY DEF NoThread, ThreadType, Places, Goals, Place, ProcId
<1>2. Sound(t, r, spawned) /\ r.at # "stopped"
  BY DEF NoThread, Sound, Starting, Stopping
<1> QED BY <1>1, <1>2 DEF Onward, Returned

LEMMA ContinueOnward ==
  ASSUME IInv, NEW t \in Threads, NEW goal \in {"retry", "open", "rollback"},
         NEW w \in Workspaces, goal # "retry" => th[t].prev \in Workspaces
  PROVE  Onward(t, Continue(t, goal, w))
<1> DEFINE r == [NoThread EXCEPT !.at = "start", !.goal = goal, !.ws = w, !.prev = th[t].prev]
<1>0. th[t].prev \in Place /\ w \in Place
  BY ThreadFacts DEF ThreadType, Place
<1>1. r.at = "start" /\ r.goal = goal /\ r.ws = w /\ r.prev = th[t].prev
  BY DEF NoThread
<1>2. r \in ThreadType
  <2>1. NoThread \in ThreadType
    BY DEF NoThread, ThreadType, Places, Goals, Place, ProcId
  <2>2. "start" \in Places /\ goal \in Goals
    BY DEF Places, Goals
  <2> QED BY <1>0, <2>1, <2>2 DEF ThreadType
<1>3. Sound(t, r, spawned) /\ r.at # "stopped"
  BY <1>1 DEF Sound, Starting, Stopping
<1> QED BY <1>2, <1>3 DEF Onward, Continue

\* Leaving the state for one that is not ready drops the connection with it.
LEMMA StateLeft ==
  ASSUME IInv, NEW name \in {"stopped", "starting", "stopping", "failed"}
  PROVE  /\ SetState(name) \in InnerType /\ HandleSound(SetState(name), spawned)
         /\ SetState(name).boot = inner.boot
<1>1. inner \in InnerType /\ HandleSound(inner, spawned)
  BY DEF IInv, TypeOK
<1> QED BY <1>1 DEF SetState, InnerType, ProcId, HandleSound

LEMMA TokenCleared ==
  ASSUME IInv, NEW p
  PROVE  /\ ClearToken(p) \in InnerType /\ HandleSound(ClearToken(p), spawned)
         /\ ClearToken(p).boot = inner.boot
<1>1. inner \in InnerType /\ HandleSound(inner, spawned)
  BY DEF IInv, TypeOK
<1> QED BY <1>1 DEF ClearToken, InnerType, ProcId, HandleSound

-----------------------------------------------------------------------------
(* Every step of a thread keeps the invariant.                             *)

\* A step that leaves the processes, the mailboxes and the page's state alone.
LEMMA QuietStep ==
  ASSUME IInv, NEW t \in Threads, Onward(t, th'), inner' \in InnerType,
         HandleSound(inner', spawned), inner'.boot \in Workspaces,
         UNCHANGED <<app, proc, procVars, cancelled, marker, current, countVars>>
  PROVE  IInv'
<1>1. spawned' = spawned /\ flagged' = flagged /\ proc' = proc
  BY DEF procVars, countVars
<1>2. th' \in [Threads -> ThreadType] /\ ThreadsSound' /\ StopsAreDone'
  BY <1>1, OnwardMoves
<1>3. proc' \in [Procs -> ProcType] /\ ProcsSound'
  BY <1>1, ProcsStay
<1> QED BY <1>1, <1>2, <1>3, Together DEF IInv, TypeOK, procVars, countVars

LEMMA StartBeginInv ==
  ASSUME IInv, NEW t \in Threads, StartBegin(t)
  PROVE  IInv'
<1> DEFINE r == [th[t] EXCEPT !.at = "enter", !.attempt = 1]
<1>0. th[t] \in ThreadType /\ Sound(t, th[t], spawned) /\ inner \in InnerType
  BY ThreadFacts
<1>1. "enter" \in Places /\ 1 \in 0..2 /\ 0 \in 0..RestartLimit
  BY SupervisorAssumption DEF Places
<1>2. r \in ThreadType
  BY <1>0, <1>1 DEF ThreadType
<1>3. th[t].ws \in Workspaces /\ th[t].ws \in Place
  BY <1>0 DEF StartBegin, At, Sound, Starting, Place
<1>4. Sound(t, r, spawned) /\ r.at # "stopped"
  BY <1>0, <1>3 DEF StartBegin, At, ThreadType, Sound, Starting, Stopping
<1>5. th' = [th EXCEPT ![t] = r]
  BY DEF StartBegin, IInv, TypeOK
<1>6. Onward(t, th')
  BY <1>2, <1>4, <1>5 DEF Onward
<1>7. inner' = [inner EXCEPT !.boot = th[t].ws, !.restarts = 0]
  BY DEF StartBegin
<1>8. inner' \in InnerType /\ inner'.boot \in Workspaces
  BY <1>0, <1>1, <1>3, <1>7 DEF InnerType
<1>9. HandleSound(inner', spawned)
  BY <1>0, <1>7, ThreadFacts DEF InnerType, HandleSound
<1> QED BY <1>6, <1>8, <1>9, QuietStep DEF StartBegin

LEMMA EnterInv ==
  ASSUME IInv, NEW t \in Threads, Enter(t)
  PROVE  IInv'
<1>1. th[t].at = "enter" /\ inner.boot \in Workspaces
  BY BootStays DEF Enter, At
<1>2. CASE inner' = inner /\ th' = AfterFailure(t)
  <2>1. Onward(t, th')
    BY <1>1, <1>2, FailureOnward
  <2> QED BY <1>1, <1>2, <2>1, ThreadFacts, QuietStep DEF Enter
<1>3. CASE inner' = SetState("starting") /\ Goto(t, "spawn")
  <2>1. Sound(t, [th[t] EXCEPT !.at = "spawn"], spawned) /\ "spawn" \in Places \ {"stopped"}
    BY <1>1, ThreadFacts DEF ThreadType, Sound, Starting, Stopping, Places
  <2>2. Onward(t, th')
    BY <1>3, <2>1, RetargetOnward DEF Goto
  <2> QED BY <1>1, <1>3, <2>2, StateLeft, QuietStep DEF Enter
<1> QED BY <1>2, <1>3 DEF Enter

LEMMA SpawnInv ==
  ASSUME IInv, NEW t \in Threads, Spawn(t)
  PROVE  IInv'
<1> DEFINE n == spawned + 1
           r == [th[t] EXCEPT !.at = "token", !.proc = n]
           new == [life |-> "booting", ws |-> th[t].ws, line |-> FALSE]
<1>0. /\ th[t] \in ThreadType /\ Sound(t, th[t], spawned) /\ spawned \in Nat
      /\ th[t].at = "spawn" /\ inner.boot \in Workspaces
      /\ proc \in [Procs -> ProcType] /\ inner \in InnerType /\ HandleSound(inner, spawned)
  BY ThreadFacts, BootStays DEF Spawn, At, IInv, TypeOK
<1>1. n \in Procs /\ n \in 0..MaxSpawns /\ spawned' = n /\ spawned <= n /\ n \in Nat
  BY <1>0, SupervisorAssumption DEF Spawn, Procs
<1>2. th[t].ws \in Workspaces /\ th[t].ws \in Place
  BY <1>0 DEF Sound, Starting, Place
<1>3. new \in ProcType /\ new.life = "booting" /\ new.ws \in Workspaces
  BY <1>2 DEF ProcType
<1>4. proc' = [proc EXCEPT ![n] = new]
  BY <1>1 DEF Spawn
<1>5. r \in ThreadType
  <2>1. "token" \in Places /\ n \in ProcId
    BY <1>1 DEF Places, ProcId
  <2> QED BY <1>0, <2>1 DEF ThreadType
<1>6. r.at = "token" /\ r.proc = n /\ r.ws = th[t].ws /\ r.goal = th[t].goal /\ r.prev = th[t].prev
  BY <1>0 DEF ThreadType
<1>7. Sound(t, r, n)
  BY <1>0, <1>1, <1>2, <1>6 DEF Sound, Starting, Stopping
<1>8. th' = [th EXCEPT ![t] = r]
  BY <1>1 DEF Spawn, IInv, TypeOK
<1> HIDE DEF r, new
<1>9. /\ proc' \in [Procs -> ProcType] /\ proc'[n] = new
      /\ \A q \in Procs : q # n => proc'[q] = proc[q]
  BY <1>0, <1>1, <1>3, <1>4
<1>10. proc[n].life = "none"
  BY <1>0, <1>1 DEF IInv, ProcsSound, ProcSound
<1>11. \A q \in Procs : proc[q].life = "dead" => proc'[q].life = "dead"
  BY <1>9, <1>10
<1>12. th' \in [Threads -> ThreadType] /\ ThreadsSound' /\ StopsAreDone'
  BY <1>1, <1>5, <1>6, <1>7, <1>8, <1>11, ThreadMoves
<1>13. ProcsSound'
  BY <1>0, <1>1, <1>3, <1>9, <1>10 DEF IInv, ProcsSound, ProcSound, Spawn, procVars, Procs
<1>14. HandleSound(inner', spawned')
  BY <1>0, <1>1 DEF HandleSound, Spawn
<1> QED BY <1>0, <1>1, <1>9, <1>12, <1>13, <1>14, Together
        DEF Spawn, IInv, TypeOK, procVars, countVars

LEMMA SpawnFailsInv ==
  ASSUME IInv, NEW t \in Threads, SpawnFails(t)
  PROVE  IInv'
<1>1. th[t].at = "spawn" /\ inner.boot \in Workspaces
  BY BootStays DEF SpawnFails, At
<1>2. Onward(t, th')
  BY <1>1, FailureOnward DEF SpawnFails
<1> QED BY <1>1, <1>2, ThreadFacts, QuietStep DEF SpawnFails

LEMMA RegisterTokenInv ==
  ASSUME IInv, NEW t \in Threads, RegisterToken(t)
  PROVE  IInv'
<1>0. /\ th[t] \in ThreadType /\ Sound(t, th[t], spawned) /\ inner \in InnerType
      /\ th[t].at = "token" /\ inner.boot \in Workspaces /\ HandleSound(inner, spawned)
  BY ThreadFacts, BootStays DEF RegisterToken, At
<1>1. Sound(t, [th[t] EXCEPT !.at = "await"], spawned) /\ "await" \in Places \ {"stopped"}
  BY <1>0 DEF ThreadType, Sound, Starting, Stopping, Places
<1>2. Onward(t, th')
  BY <1>1, RetargetOnward DEF RegisterToken, Goto
<1>3. proc' = proc /\ flagged' = flagged /\ spawned' = spawned
  BY DEF RegisterToken, countVars
<1>4. th' \in [Threads -> ThreadType] /\ ThreadsSound' /\ StopsAreDone'
  BY <1>2, <1>3, OnwardMoves
<1>5. proc' \in [Procs -> ProcType] /\ ProcsSound'
  BY <1>3, ProcsStay
<1>6. inner' = [inner EXCEPT !.token = th[t].proc] /\ th[t].proc \in ProcId
  BY <1>0 DEF RegisterToken, ThreadType
<1>7. inner' \in InnerType /\ inner'.boot \in Workspaces
  BY <1>0, <1>6 DEF InnerType
<1>8. HandleSound(inner', spawned')
  BY <1>0, <1>3, <1>6 DEF InnerType, HandleSound
<1> QED BY <1>3, <1>4, <1>5, <1>7, <1>8, Together
        DEF RegisterToken, IInv, TypeOK, countVars

\* Both ways a start that waits can fail kill its process.
LEMMA AwaitInv ==
  ASSUME IInv, NEW t \in Threads, AwaitFails(t) \/ AwaitCancelled(t)
  PROVE  IInv'
<1> DEFINE p == th[t].proc
<1>0. th[t].at = "await" /\ inner.boot \in Workspaces /\ p \in 1..spawned
  BY ThreadFacts, BootStays DEF AwaitFails, AwaitCancelled, At, Sound
<1>1. /\ proc' = Kill(p) /\ flagged' = flagged /\ spawned' = spawned
      /\ inner' = ClearToken(p) /\ th' = AfterFailure(t)
  BY DEF AwaitFails, AwaitCancelled, procVars, countVars
<1> HIDE DEF p
<1>2. /\ proc' \in [Procs -> ProcType] /\ ProcsSound'
      /\ \A q \in Procs : proc[q].life = "dead" => proc'[q].life = "dead"
      /\ p \in Procs
  BY <1>0, <1>1, ProcDies
<1>3. Onward(t, th')
  BY <1>0, <1>1, FailureOnward
<1>4. th' \in [Threads -> ThreadType] /\ ThreadsSound' /\ StopsAreDone'
  BY <1>1, <1>2, <1>3, OnwardMoves
<1>5. inner' \in InnerType /\ HandleSound(inner', spawned') /\ inner'.boot \in Workspaces
  BY <1>0, <1>1, TokenCleared
<1>6. cancelled' \subseteq Procs
  BY <1>2 DEF p, AwaitFails, AwaitCancelled, IInv, TypeOK
<1>7. UNCHANGED <<app, procVars, marker, current, countVars>>
  BY DEF AwaitFails, AwaitCancelled
<1> QED BY <1>2, <1>4, <1>5, <1>6, <1>7, Together DEF IInv, TypeOK, procVars, countVars

LEMMA BecomeReadyInv ==
  ASSUME IInv, NEW t \in Threads, BecomeReady(t)
  PROVE  IInv'
<1> DEFINE p == th[t].proc
<1>0. /\ th[t] \in ThreadType /\ Sound(t, th[t], spawned) /\ inner \in InnerType
      /\ th[t].at = "await" /\ inner.boot \in Workspaces /\ p \in 1..spawned
      /\ p \in ProcId /\ p # 0
  BY ThreadFacts, BootStays DEF BecomeReady, At, Sound, ThreadType
<1>1. Onward(t, th')
  <2>1. CASE th[t].goal \in {"setup", "open"}
    <3>1. Sound(t, [th[t] EXCEPT !.at = "record"], spawned) /\ "record" \in Places \ {"stopped"}
      BY <1>0, <2>1 DEF ThreadType, Sound, Starting, Stopping, Places
    <3> QED BY <2>1, <3>1, RetargetOnward DEF BecomeReady
  <2>2. CASE th[t].goal \notin {"setup", "open"}
    BY <2>2, ReturnOnward DEF BecomeReady
  <2> QED BY <2>1, <2>2
<1>2. inner' = [inner EXCEPT !.state = "ready", !.conn = p, !.child = p, !.term = p, !.token = 0]
  BY DEF BecomeReady
<1> HIDE DEF p
<1>3. inner' \in InnerType /\ inner'.boot \in Workspaces
  BY <1>0, <1>2 DEF InnerType, ProcId
<1>4. HandleSound(inner', spawned)
  BY <1>0, <1>2 DEF InnerType, HandleSound
<1> QED BY <1>1, <1>3, <1>4, QuietStep DEF BecomeReady

LEMMA MarkFailedInv ==
  ASSUME IInv, NEW t \in Threads, MarkFailed(t)
  PROVE  IInv'
<1>0. /\ th[t] \in ThreadType /\ Sound(t, th[t], spawned)
      /\ th[t].at \in {"mark", "markAgain"} /\ inner.boot \in Workspaces
  BY ThreadFacts, BootStays DEF MarkFailed
<1>1. \A place \in {"recover", "markAgain"} : Onward(t, [th EXCEPT ![t].at = place])
  <2> TAKE place \in {"recover", "markAgain"}
  <2>1. Sound(t, [th[t] EXCEPT !.at = place], spawned) /\ place \in Places \ {"stopped"}
    BY <1>0 DEF ThreadType, Sound, Starting, Stopping, Places
  <2> QED BY <2>1, RetargetOnward
<1>2. th[t].goal = "open" => Onward(t, Continue(t, "rollback", th[t].prev))
  BY <1>0, ContinueOnward DEF Sound
<1>3. \/ \E place \in {"recover", "markAgain"} : th' = [th EXCEPT ![t].at = place]
      \/ th[t].goal = "open" /\ th' = Continue(t, "rollback", th[t].prev)
      \/ th' = Returned(t)
  BY DEF MarkFailed
<1>4. Onward(t, th')
  BY <1>1, <1>2, <1>3, ReturnOnward
<1> QED BY <1>0, <1>4, StateLeft, QuietStep DEF MarkFailed

LEMMA StopTakeInv ==
  ASSUME IInv, NEW t \in Threads, StopTake(t)
  PROVE  IInv'
<1> DEFINE r == [th[t] EXCEPT !.at = "signal", !.conn = inner.conn, !.child = inner.child,
                              !.flag = inner.term, !.tok = inner.token]
<1>0. /\ th[t] \in ThreadType /\ Sound(t, th[t], spawned) /\ inner \in InnerType
      /\ th[t].at = "stop" /\ inner.boot \in Workspaces /\ HandleSound(inner, spawned)
  BY ThreadFacts, BootStays DEF StopTake, At
<1>1. r \in ThreadType
  <2>1. /\ "signal" \in Places /\ inner.conn \in ProcId /\ inner.child \in ProcId
        /\ inner.term \in ProcId /\ inner.token \in ProcId
    BY <1>0 DEF InnerType, Places
  <2> QED BY <1>0, <2>1 DEF ThreadType
<1>2. /\ r.at = "signal" /\ r.child = inner.child /\ r.flag = inner.term
      /\ r.goal = th[t].goal /\ r.ws = th[t].ws /\ r.prev = th[t].prev
  BY <1>0 DEF ThreadType
<1>3. th' = [th EXCEPT ![t] = r]
  BY DEF StopTake, IInv, TypeOK
<1> HIDE DEF r
<1>4. Sound(t, r, spawned)
  BY <1>0, <1>2 DEF Sound, Starting, Stopping, HandleSound
<1>5. Onward(t, th')
  BY <1>1, <1>2, <1>3, <1>4 DEF Onward
<1> DEFINE i == SetState("stopping")
<1>6. inner' = [i EXCEPT !.child = 0, !.term = 0, !.token = 0]
  BY DEF StopTake
<1>7. i \in InnerType /\ i.boot = inner.boot /\ i.state = "stopping"
  BY <1>0, StateLeft DEF SetState, InnerType
<1> HIDE DEF i
<1>8. inner' \in InnerType /\ inner'.boot \in Workspaces /\ HandleSound(inner', spawned)
  BY <1>0, <1>6, <1>7 DEF InnerType, ProcId, HandleSound
<1> QED BY <1>5, <1>8, QuietStep DEF StopTake

LEMMA StopSignalInv ==
  ASSUME IInv, NEW t \in Threads, StopSignal(t)
  PROVE  IInv'
<1>0. /\ th[t] \in ThreadType /\ Sound(t, th[t], spawned) /\ inner \in InnerType
      /\ th[t].at = "signal" /\ inner.boot \in Workspaces /\ HandleSound(inner, spawned)
  BY ThreadFacts, BootStays DEF StopSignal, At
<1>1. Sound(t, [th[t] EXCEPT !.at = "kill"], spawned) /\ "kill" \in Places \ {"stopped"}
  BY <1>0 DEF ThreadType, Sound, Starting, Stopping, Places
<1>2. Onward(t, th')
  BY <1>1, RetargetOnward DEF StopSignal, Goto
<1>3. proc' = proc /\ flagged' = flagged /\ spawned' = spawned /\ inner' = inner
  BY DEF StopSignal, countVars
<1>4. th' \in [Threads -> ThreadType] /\ ThreadsSound' /\ StopsAreDone'
  BY <1>2, <1>3, OnwardMoves
<1>5. proc' \in [Procs -> ProcType] /\ ProcsSound'
  BY <1>3, ProcsStay
<1>6. {th[t].tok} \ {0} \subseteq Procs /\ {th[t].conn} \ {0} \subseteq Procs
  BY <1>0 DEF ThreadType, ProcId
<1>7. cancelled' \subseteq Procs /\ asked' \subseteq Procs
  BY <1>6 DEF StopSignal, IInv, TypeOK
<1> QED BY <1>0, <1>3, <1>4, <1>5, <1>7, Together DEF StopSignal, IInv, TypeOK, countVars

\* Whatever the flag says, the process is dead after the kill: a flag is set
\* only for a dead process.
LEMMA StopKillInv ==
  ASSUME IInv, NEW t \in Threads, StopKill(t)
  PROVE  IInv'
<1> DEFINE c == th[t].child
           r == [th[t] EXCEPT !.at = "stopped"]
<1>0. /\ th[t] \in ThreadType /\ Sound(t, th[t], spawned) /\ inner \in InnerType
      /\ th[t].at = "kill" /\ inner.boot \in Workspaces /\ HandleSound(inner, spawned)
      /\ spawned \in Nat /\ spawned <= MaxSpawns
  BY ThreadFacts, BootStays DEF StopKill, At
<1>1. c # 0 => th[t].flag = c /\ c \in 1..spawned /\ c \in Procs
  BY <1>0, SupervisorAssumption DEF Sound, Procs
<1>2. "stopped" \in Places
  BY DEF Places
<1>3. r \in ThreadType /\ r.at = "stopped" /\ r.child = c /\ Sound(t, r, spawned)
  BY <1>0, <1>2 DEF ThreadType, Sound, Starting, Stopping
<1>4. th' = [th EXCEPT ![t] = r]
  BY DEF StopKill, Goto, IInv, TypeOK
<1> HIDE DEF r
<1>5. flagged' = flagged /\ spawned' = spawned /\ spawned' \in Nat /\ spawned <= spawned'
  BY <1>0 DEF StopKill, procVars, countVars
<1>6. /\ proc' \in [Procs -> ProcType] /\ ProcsSound'
      /\ \A q \in Procs : proc[q].life = "dead" => proc'[q].life = "dead"
      /\ c # 0 => proc'[c].life = "dead"
  <2>1. CASE c # 0 /\ th[t].flag \notin flagged
    <3>1. proc' = Kill(c)
      BY <2>1 DEF StopKill
    <3> QED BY <1>1, <1>5, <2>1, <3>1, ProcDies
  <2>2. CASE ~ (c # 0 /\ th[t].flag \notin flagged)
    <3>1. proc' = proc
      BY <2>2 DEF StopKill
    <3>2. c # 0 => proc[c].life = "dead"
      BY <1>1, <2>2 DEF IInv, ProcsSound, ProcSound
    <3> QED BY <1>5, <3>1, <3>2, ProcsStay
  <2> QED BY <2>1, <2>2
<1>7. th' \in [Threads -> ThreadType] /\ ThreadsSound' /\ StopsAreDone'
  BY <1>3, <1>4, <1>5, <1>6, ThreadMoves
<1> QED BY <1>0, <1>5, <1>6, <1>7, Together DEF StopKill, IInv, TypeOK, procVars, countVars

LEMMA StopEndInv ==
  ASSUME IInv, NEW t \in Threads, StopEnd(t)
  PROVE  IInv'
<1>0. /\ th[t] \in ThreadType /\ Sound(t, th[t], spawned)
      /\ th[t].at = "stopped" /\ inner.boot \in Workspaces
  BY ThreadFacts, BootStays DEF StopEnd, At
<1>1. th[t].goal \in {"retry", "open"} => Onward(t, Continue(t, th[t].goal, th[t].ws))
  BY <1>0, ContinueOnward DEF Sound, Stopping
<1>2. th[t].goal = "rollback" => Onward(t, Continue(t, "rollback", th[t].prev))
  BY <1>0, ContinueOnward DEF Sound
<1>3. \/ th[t].goal \in {"retry", "open"} /\ th' = Continue(t, th[t].goal, th[t].ws)
      \/ th[t].goal = "rollback" /\ th' = Continue(t, "rollback", th[t].prev)
      \/ th' = Returned(t)
  BY DEF StopEnd
<1>4. Onward(t, th')
  BY <1>1, <1>2, <1>3, ReturnOnward
<1> QED BY <1>0, <1>4, StateLeft, QuietStep DEF StopEnd

LEMMA RecoverInv ==
  ASSUME IInv, NEW t \in Threads, Recover(t)
  PROVE  IInv'
<1> DEFINE r == [th[t] EXCEPT !.at = "enter", !.goal = "recover", !.ws = inner.boot]
           f == SetState("failed")
           s == SetState("starting")
<1>0. /\ th[t] \in ThreadType /\ Sound(t, th[t], spawned) /\ inner \in InnerType
      /\ th[t].at = "recover" /\ inner.boot \in Workspaces /\ HandleSound(inner, spawned)
  BY ThreadFacts, BootStays DEF Recover, At
<1>1. f \in InnerType /\ s \in InnerType /\ f.boot = inner.boot /\ s.boot = inner.boot
  BY StateLeft
<1>2. f.state = "failed" /\ s.state = "starting" /\ s.restarts = inner.restarts
  BY <1>0 DEF SetState, InnerType
<1>3. /\ "enter" \in Places /\ "recover" \in Goals /\ inner.boot \in Place
  BY <1>0 DEF Places, Goals, Place
<1>4. r \in ThreadType /\ r.at = "enter" /\ r.goal = "recover" /\ r.ws = inner.boot
  BY <1>0, <1>3 DEF ThreadType
<1>5. Sound(t, r, spawned)
  BY <1>0, <1>4 DEF Sound, Starting, Stopping
<1>6. [th EXCEPT ![t].at = "enter", ![t].goal = "recover", ![t].ws = inner.boot]
        = [th EXCEPT ![t] = r]
  BY DEF IInv, TypeOK
<1> HIDE DEF r, f, s
<1>7. CASE inner.state \in Halted
  <2>1. inner' = [inner EXCEPT !.child = 0] /\ th' = Returned(t)
    BY <1>7 DEF Recover
  <2>2. inner' \in InnerType /\ inner'.boot \in Workspaces /\ HandleSound(inner', spawned)
    BY <1>0, <1>7, <2>1 DEF InnerType, ProcId, HandleSound, Halted
  <2> QED BY <2>1, <2>2, ReturnOnward, QuietStep DEF Recover
<1>8. CASE inner.state \notin Halted /\ (inner.boot \in marker \/ inner.restarts >= RestartLimit)
  <2>1. inner' = [f EXCEPT !.child = 0] /\ th' = Returned(t)
    BY <1>8 DEF Recover, f
  <2>2. inner' \in InnerType /\ inner'.boot \in Workspaces /\ HandleSound(inner', spawned)
    BY <1>0, <1>1, <1>2, <2>1 DEF InnerType, ProcId, HandleSound
  <2> QED BY <2>1, <2>2, ReturnOnward, QuietStep DEF Recover
<1>9. CASE inner.state \notin Halted /\ ~ (inner.boot \in marker \/ inner.restarts >= RestartLimit)
  <2>1. /\ inner' = [s EXCEPT !.child = 0, !.restarts = s.restarts + 1]
        /\ th' = [th EXCEPT ![t] = r]
    BY <1>6, <1>9 DEF Recover, s
  <2>2. s.restarts + 1 \in 0..RestartLimit
    BY <1>0, <1>2, <1>9, SupervisorAssumption DEF InnerType
  <2>3. inner' \in InnerType /\ inner'.boot \in Workspaces /\ HandleSound(inner', spawned)
    BY <1>0, <1>1, <1>2, <2>1, <2>2 DEF InnerType, ProcId, HandleSound
  <2>4. Onward(t, th')
    BY <1>4, <1>5, <2>1 DEF Onward
  <2> QED BY <2>3, <2>4, QuietStep DEF Recover
<1> QED BY <1>7, <1>8, <1>9

LEMMA RecordInv ==
  ASSUME IInv, NEW t \in Threads, Record(t)
  PROVE  IInv'
<1> DEFINE g == IF t = setup THEN "abandon" ELSE "rollback"
           r == [th[t] EXCEPT !.at = "stop", !.goal = g]
<1>0. /\ th[t] \in ThreadType /\ Sound(t, th[t], spawned) /\ inner \in InnerType
      /\ th[t].at = "record" /\ inner.boot \in Workspaces /\ HandleSound(inner, spawned)
  BY ThreadFacts, BootStays DEF Record, At
<1>1. th[t].ws \in Workspaces
  BY <1>0 DEF Sound, Starting
<1>2. "stop" \in Places /\ g \in Goals
  BY DEF Places, Goals
<1>3. r \in ThreadType /\ r.at = "stop" /\ r.goal = g /\ r.prev = th[t].prev
  BY <1>0, <1>2 DEF ThreadType
<1>4. Sound(t, r, spawned)
  BY <1>0, <1>3 DEF Sound, Starting, Stopping
<1>5. th' = Returned(t) \/ th' = [th EXCEPT ![t] = r]
  BY DEF Record, IInv, TypeOK
<1> HIDE DEF r
<1>6. Onward(t, th')
  BY <1>3, <1>4, <1>5, ReturnOnward DEF Onward
<1>7. proc' = proc /\ flagged' = flagged /\ spawned' = spawned /\ inner' = inner
  BY DEF Record, procVars, countVars
<1>8. th' \in [Threads -> ThreadType] /\ ThreadsSound' /\ StopsAreDone'
  BY <1>6, <1>7, OnwardMoves
<1>9. proc' \in [Procs -> ProcType] /\ ProcsSound'
  BY <1>7, ProcsStay
<1>10. current' \in Workspaces
  BY <1>1 DEF Record, IInv, TypeOK
<1> QED BY <1>0, <1>7, <1>8, <1>9, <1>10, Together DEF Record, IInv, TypeOK, procVars, countVars

-----------------------------------------------------------------------------
(* The page's commands, quitting, the sidecar and its events.              *)

LEMMA CommandInv ==
  ASSUME IInv, NEW goal \in {"retry", "open"}, NEW w \in Workspaces, Command(goal, w)
  PROVE  IInv'
<1> DEFINE r == [NoThread EXCEPT !.at = "stop", !.goal = goal, !.ws = w, !.prev = current]
<1>0. ui \in Threads /\ setup \in Threads /\ current \in Workspaces
  BY DEF Threads, Callers, IInv, TypeOK
<1>1. inner.boot \in Workspaces /\ inner \in InnerType /\ HandleSound(inner, spawned)
  BY <1>0, BootStays, ThreadFacts DEF Command, LoopRuns, At
<1>2. NoThread \in ThreadType
  BY DEF NoThread, ThreadType, Places, Goals, Place, ProcId
<1>3. "stop" \in Places /\ goal \in Goals /\ w \in Place /\ current \in Place
  BY <1>0 DEF Places, Goals, Place
<1>4. r \in ThreadType
  BY <1>2, <1>3 DEF ThreadType
<1>5. r.at = "stop" /\ r.goal = goal /\ r.ws = w /\ r.prev = current
  BY DEF NoThread
<1>6. Sound(ui, r, spawned)
  BY <1>0, <1>5 DEF Sound, Starting, Stopping
<1>7. th' = [th EXCEPT ![ui] = r]
  BY DEF Command
<1> HIDE DEF r
<1>8. Onward(ui, th')
  BY <1>4, <1>5, <1>6, <1>7 DEF Onward
<1>9. proc' = proc /\ flagged' = flagged /\ spawned' = spawned /\ inner' = inner
  BY DEF Command, procVars
<1>10. th' \in [Threads -> ThreadType] /\ ThreadsSound' /\ StopsAreDone'
  BY <1>0, <1>8, <1>9, OnwardMoves
<1>11. proc' \in [Procs -> ProcType] /\ ProcsSound'
  BY <1>9, ProcsStay
<1>12. commands' \in 0..MaxCommands
  BY SupervisorAssumption DEF Command, IInv, TypeOK
<1> QED BY <1>1, <1>9, <1>10, <1>11, <1>12, Together DEF Command, IInv, TypeOK, procVars

LEMMA QuitInv ==
  ASSUME IInv, Quit
  PROVE  IInv'
<1> DEFINE r == [th[quit] EXCEPT !.at = "stop", !.goal = "quit"]
<1>0. quit \in Threads /\ setup \in Threads
  BY DEF Threads, Callers
<1>1. /\ inner.boot \in Workspaces /\ inner \in InnerType /\ HandleSound(inner, spawned)
      /\ th[quit] \in ThreadType
  BY <1>0, BootStays, ThreadFacts DEF Quit, LoopRuns, At
<1>2. "stop" \in Places /\ "quit" \in Goals
  BY DEF Places, Goals
<1>3. r \in ThreadType /\ r.at = "stop" /\ r.goal = "quit"
  BY <1>1, <1>2 DEF ThreadType
<1>4. Sound(quit, r, spawned)
  BY <1>3 DEF Sound, Starting, Stopping
<1>5. th' = [th EXCEPT ![quit] = r]
  BY <1>0 DEF Quit, IInv, TypeOK
<1> HIDE DEF r
<1>6. Onward(quit, th')
  BY <1>3, <1>4, <1>5 DEF Onward
<1> QED BY <1>0, <1>1, <1>6, QuietStep DEF Quit

LEMMA AppExitsInv ==
  ASSUME IInv, AppExits
  PROVE  IInv'
<1> DEFINE r == [NoThread EXCEPT !.at = "gone"]
<1>0. quit \in Threads
  BY DEF Threads, Callers
<1>1. inner.boot \in Workspaces /\ inner \in InnerType /\ HandleSound(inner, spawned)
  BY <1>0, BootStays, ThreadFacts, SupervisorAssumption DEF AppExits, At
<1>2. r \in ThreadType
  BY DEF NoThread, ThreadType, Places, Goals, Place, ProcId
<1>3. \A t : Sound(t, r, spawned) /\ r.at = "gone"
  BY DEF NoThread, Sound, Starting, Stopping
<1>4. th' = [t \in Threads |-> r] /\ spawned' = spawned /\ proc' = proc /\ flagged' = flagged
  BY DEF AppExits, procVars, countVars
<1> HIDE DEF r
<1>5. th' \in [Threads -> ThreadType] /\ ThreadsSound' /\ StopsAreDone'
  BY <1>2, <1>3, <1>4 DEF ThreadsSound, StopsAreDone, At
<1>6. proc' \in [Procs -> ProcType] /\ ProcsSound'
  BY <1>4, ProcsStay
<1>7. inner' = inner /\ app' \in BOOLEAN
  BY DEF AppExits
<1> QED BY <1>1, <1>4, <1>5, <1>6, <1>7, Together DEF AppExits, IInv, TypeOK, procVars, countVars

\* A step of one process, to which no thread or handle of the host reacts yet.
LEMMA OutsideStep ==
  ASSUME IInv, NEW p \in Procs, proc[p].life # "none",
         UNCHANGED <<app, inner, th, flagged, cancelled, asked, current, spawned, commands>>,
         proc' \in [Procs -> ProcType], ProcsSound',
         \A q \in Procs : proc[q].life = "dead" => proc'[q].life = "dead",
         mailbox' \in [Procs -> {"unborn", "empty", "ready", "error"}],
         marker' \subseteq Workspaces, crashes' \in 0..MaxCrashes
  PROVE  IInv'
<1>1. th \in [Threads -> ThreadType] /\ inner \in InnerType /\ spawned \in Nat
  BY SupervisorAssumption DEF IInv, TypeOK
<1>2. p <= spawned /\ p \in Nat /\ p > 0
  BY DEF IInv, ProcsSound, ProcSound, Procs
<1>3. inner.boot \in Workspaces
  BY <1>1, <1>2 DEF IInv, BootKnown
<1>4. ThreadsSound'
  BY DEF IInv, ThreadsSound
<1>5. ASSUME NEW t \in Threads, th[t].at = "stopped", th[t].child # 0
      PROVE  proc'[th[t].child].life = "dead"
  <2>1. th[t].child \in Procs
    BY <1>1, <1>5 DEF ThreadType, ProcId
  <2> QED BY <1>5, <2>1 DEF IInv, StopsAreDone, At
<1>6. StopsAreDone'
  BY <1>5 DEF StopsAreDone, At
<1> QED BY <1>1, <1>3, <1>4, <1>6, Together DEF IInv, TypeOK

LEMMA BootInv ==
  ASSUME IInv, NEW p \in Procs, Boot(p)
  PROVE  IInv'
<1> DEFINE r == [proc[p] EXCEPT !.life = "serving", !.line = TRUE]
<1>1. proc \in [Procs -> ProcType] /\ proc[p].life = "booting"
  BY DEF IInv, TypeOK, Boot
<1>2. r \in ProcType /\ r.life = "serving" /\ r.ws = proc[p].ws
  BY <1>1 DEF ProcType
<1>3. proc' = [proc EXCEPT ![p] = r] /\ spawned' = spawned /\ flagged' = flagged
  BY <1>1 DEF Boot, procVars, countVars
<1> HIDE DEF r
<1>4. /\ proc' \in [Procs -> ProcType] /\ proc'[p] = r
      /\ \A q \in Procs : q # p => proc'[q] = proc[q]
  BY <1>1, <1>2, <1>3
<1>5. ProcsSound'
  BY <1>1, <1>2, <1>3, <1>4 DEF IInv, ProcsSound, ProcSound
<1>6. \A q \in Procs : proc[q].life = "dead" => proc'[q].life = "dead"
  BY <1>1, <1>4
<1> QED BY <1>1, <1>4, <1>5, <1>6, OutsideStep DEF Boot, IInv, TypeOK, procVars, countVars

LEMMA DeathInv ==
  ASSUME IInv, NEW p \in Procs, BootFails(p) \/ Crash(p) \/ ObeyShutdown(p)
  PROVE  IInv'
<1>1. /\ proc[p].life # "none" /\ proc' = Kill(p) /\ flagged' = flagged /\ spawned' = spawned
      /\ spawned \in Nat
  BY SupervisorAssumption
     DEF BootFails, Crash, ObeyShutdown, Serving, procVars, countVars, IInv, TypeOK
<1>2. p \in 1..spawned
  BY <1>1 DEF IInv, ProcsSound, ProcSound, Procs
<1>3. /\ proc' \in [Procs -> ProcType] /\ ProcsSound'
      /\ \A q \in Procs : proc[q].life = "dead" => proc'[q].life = "dead"
  BY <1>1, <1>2, ProcDies
<1>4. crashes' \in 0..MaxCrashes
  BY SupervisorAssumption DEF BootFails, Crash, ObeyShutdown, countVars, IInv, TypeOK
<1>5. UNCHANGED <<app, inner, th, mailbox, flagged, cancelled, asked, marker, current,
                  spawned, commands>>
  BY DEF BootFails, Crash, ObeyShutdown, procVars, countVars
<1> QED BY <1>1, <1>3, <1>4, <1>5, OutsideStep DEF IInv, TypeOK

LEMMA ToggleInv ==
  ASSUME IInv, NEW p \in Procs, ToggleOperation(p)
  PROVE  IInv'
<1>1. proc[p].life = "serving" /\ proc' = proc /\ flagged' = flagged /\ spawned' = spawned
  BY DEF ToggleOperation, Serving, procVars, countVars
<1>2. proc[p].ws \in Workspaces
  BY <1>1 DEF IInv, ProcsSound, ProcSound
<1>3. marker' \subseteq Workspaces
  BY <1>2 DEF ToggleOperation, IInv, TypeOK
<1> QED BY <1>1, <1>3, ProcsStay, OutsideStep
        DEF ToggleOperation, IInv, TypeOK, procVars, countVars

LEMMA DeliverReadyInv ==
  ASSUME IInv, NEW p \in Procs, DeliverReady(p)
  PROVE  IInv'
<1>1. proc' = proc /\ flagged' = flagged /\ spawned' = spawned
  BY DEF DeliverReady, countVars
<1>2. proc' \in [Procs -> ProcType] /\ ProcsSound'
  BY <1>1, ProcsStay
<1>3. /\ ThreadsSound' /\ StopsAreDone' /\ HandleSound(inner, spawned)' /\ BootKnown'
  BY DEF DeliverReady, countVars, IInv, ThreadsSound, StopsAreDone, At, HandleSound, BootKnown
<1>4. TypeOK'
  BY DEF DeliverReady, countVars, IInv, TypeOK
<1> QED BY <1>2, <1>3, <1>4 DEF IInv

LEMMA TerminatedInv ==
  ASSUME IInv, NEW p \in Procs, Terminated(p)
  PROVE  IInv'
<1>0. proc[p].life = "dead" /\ p \in Threads /\ proc' = proc /\ spawned' = spawned
  BY DEF Terminated, Threads, countVars
<1>1. th[p] \in ThreadType /\ Sound(p, th[p], spawned) /\ spawned \in Nat
  BY <1>0, ThreadFacts
<1>2. p <= spawned /\ p # 0
  BY <1>0 DEF IInv, ProcsSound, ProcSound, Procs
<1>3. inner.boot \in Workspaces /\ inner \in InnerType /\ HandleSound(inner, spawned)
  BY <1>1, <1>2 DEF IInv, BootKnown, Procs, TypeOK
<1>4. Sound(p, [th[p] EXCEPT !.at = "recover"], spawned) /\ "recover" \in Places \ {"stopped"}
  BY <1>1 DEF ThreadType, Sound, Starting, Stopping, Places
<1>5. Onward(p, [th EXCEPT ![p].at = "recover"])
  BY <1>0, <1>4, RetargetOnward
<1>6. th' = th \/ th' = [th EXCEPT ![p].at = "recover"]
  BY DEF Terminated, Goto
<1>7. th' \in [Threads -> ThreadType] /\ ThreadsSound' /\ StopsAreDone'
  <2>1. CASE th' = th
    BY <1>0, <2>1 DEF IInv, TypeOK, ThreadsSound, StopsAreDone, At
  <2>2. CASE th' = [th EXCEPT ![p].at = "recover"]
    BY <1>0, <1>5, <2>2, OnwardMoves
  <2> QED BY <1>6, <2>1, <2>2
<1>8. flagged' = flagged \cup {p} /\ flagged' \subseteq Procs
  BY DEF Terminated, IInv, TypeOK
<1>9. /\ proc' \in [Procs -> ProcType] /\ ProcsSound'
  BY <1>0, <1>8 DEF IInv, TypeOK, ProcsSound, ProcSound
<1>10. mailbox' \in [Procs -> {"unborn", "empty", "ready", "error"}]
  BY DEF Terminated, IInv, TypeOK
<1>11. inner' = inner
  BY DEF Terminated
<1> QED BY <1>0, <1>3, <1>7, <1>8, <1>9, <1>10, <1>11, Together
        DEF Terminated, IInv, TypeOK, countVars

LEMMA StutterInv == ASSUME IInv, UNCHANGED vars PROVE IInv'
<1>1. ProcsSound'
  BY ProcsStay DEF vars, countVars, procVars
<1>2. TypeOK'
  BY DEF IInv, TypeOK, vars, countVars, procVars
<1> QED BY <1>1, <1>2
        DEF vars, countVars, IInv, ThreadsSound, StopsAreDone, At, HandleSound, BootKnown

LEMMA NextInv == IInv /\ [Next]_vars => IInv'
<1> SUFFICES ASSUME IInv, [Next]_vars PROVE IInv'
  OBVIOUS
<1>1. ASSUME NEW t \in Threads, ThreadStep(t) PROVE IInv'
  BY <1>1, StartBeginInv, EnterInv, SpawnInv, SpawnFailsInv, RegisterTokenInv, AwaitInv,
     BecomeReadyInv, MarkFailedInv, StopTakeInv, StopSignalInv, StopKillInv, StopEndInv,
     RecoverInv, RecordInv DEF ThreadStep
<1>2. ASSUME NEW p \in Procs, EventStep(p) \/ ProcStep(p) PROVE IInv'
  BY <1>2, DeliverReadyInv, TerminatedInv, BootInv, DeathInv, ToggleInv DEF EventStep, ProcStep
<1>3. ASSUME NEW w \in Workspaces, Open(w) PROVE IInv'
  BY <1>3, CommandInv DEF Open
<1>4. ASSUME Retry PROVE IInv'
  <2>1. inner.boot \in Workspaces
    BY <1>4 DEF Retry, IInv, TypeOK, InnerType, Place
  <2> QED BY <1>4, <2>1, CommandInv DEF Retry
<1> QED BY <1>1, <1>2, <1>3, <1>4, QuitInv, AppExitsInv, StutterInv DEF Next

LEMMA IInvHolds == Spec => []IInv
BY InitInv, NextInv, PTL DEF Spec

-----------------------------------------------------------------------------
(* Without a command of the page: what may still be spawned is paid for.   *)

\* Nothing has been tried yet.
FirstStart ==
  spawned = 0 /\ \A t \in Threads : th[t].at = IF t = setup THEN "start" ELSE "idle"

\* Restarts that are counted and whose process is not spawned yet.
Owing == {p \in Procs : th[p].at \in {"enter", "spawn"}}

\* Processes that the start with locals r may still spawn.
Credit(r) == IF r.at \in {"enter", "spawn"} THEN 3 - r.attempt
             ELSE IF r.at \in {"token", "await"} THEN 2 - r.attempt
             ELSE 0

Budget ==
  commands = 0 =>
    /\ \A t \in Threads : th[t].goal \notin {"retry", "open", "rollback"}
    /\ \A t \in {ui, quit} : th[t].at \notin Starting
    /\ \A t \in Threads : th[t].at = "start" => FirstStart
    /\ spawned + Cardinality(Owing) + Credit(th[setup]) <= inner.restarts + 2

\* Processes that thread t with locals r may still spawn.
Cost(t, r) == IF t \in Procs THEN IF r.at \in {"enter", "spawn"} THEN 1 ELSE 0
              ELSE IF t = setup THEN Credit(r) ELSE 0

LEMMA CallersApart == setup \notin Procs /\ ui \notin Procs /\ quit \notin Procs
BY SupervisorAssumption DEF Procs

LEMMA CostTypes == ASSUME NEW t, NEW r \in ThreadType PROVE Credit(r) \in Nat /\ Cost(t, r) \in Nat
BY DEF Credit, Cost, ThreadType

LEMMA OwingFinite ==
  ASSUME NEW S \in SUBSET Procs
  PROVE  IsFiniteSet(S) /\ Cardinality(S) \in Nat
<1>1. IsFiniteSet(Procs)
  BY SupervisorAssumption, FS_Interval DEF Procs
<1> QED BY <1>1, FS_Subset, FS_CardinalityType

\* One thread's locals are replaced: the account changes by what it costs.
LEMMA CostMoves ==
  ASSUME th \in [Threads -> ThreadType], NEW t \in Threads, NEW r \in ThreadType,
         th' = [th EXCEPT ![t] = r]
  PROVE  Cardinality(Owing') + Credit(th'[setup]) + Cost(t, th[t])
           = Cardinality(Owing) + Credit(th[setup]) + Cost(t, r)
<1>1. /\ th'[t] = r /\ \A u \in Threads : u # t => th'[u] = th[u]
      /\ \A p \in Procs : p \in Threads /\ p # setup
      /\ setup \in Threads /\ th[t] \in ThreadType
  BY CallersApart DEF Threads, Callers
<1>2. /\ Credit(th[setup]) \in Nat /\ Credit(th'[setup]) \in Nat
      /\ Credit(th[t]) \in Nat /\ Credit(r) \in Nat
  BY <1>1, CostTypes
<1>3. IsFiniteSet(Owing) /\ Cardinality(Owing) \in Nat
  BY OwingFinite DEF Owing
<1>4. CASE t \notin Procs
  <2>1. Owing' = Owing
    BY <1>1, <1>4 DEF Owing
  <2>2. CASE t = setup
    BY <1>1, <1>2, <1>3, <1>4, <2>1, <2>2 DEF Cost
  <2>3. CASE t # setup
    BY <1>1, <1>2, <1>3, <1>4, <2>1, <2>3 DEF Cost
  <2> QED BY <2>2, <2>3
<1>5. CASE t \in Procs
  <2>1. th'[setup] = th[setup]
    BY <1>1, <1>5
  <2>2. CASE r.at \in {"enter", "spawn"} /\ t \notin Owing
    <3>1. Owing' = Owing \cup {t}
      BY <1>1, <1>5, <2>2 DEF Owing
    <3>2. Cardinality(Owing') = Cardinality(Owing) + 1
      BY <1>3, <2>2, <3>1, FS_AddElement
    <3>3. Cost(t, th[t]) = 0 /\ Cost(t, r) = 1
      BY <1>5, <2>2 DEF Cost, Owing
    <3> QED BY <1>2, <1>3, <2>1, <3>2, <3>3
  <2>3. CASE r.at \notin {"enter", "spawn"} /\ t \in Owing
    <3>1. Owing' = Owing \ {t}
      BY <1>1, <1>5, <2>3 DEF Owing
    <3>2. Cardinality(Owing') = Cardinality(Owing) - 1
      BY <1>3, <2>3, <3>1, FS_RemoveElement
    <3>3. Cost(t, th[t]) = 1 /\ Cost(t, r) = 0
      BY <1>5, <2>3 DEF Cost, Owing
    <3> QED BY <1>2, <1>3, <2>1, <3>2, <3>3
  <2>4. CASE r.at \in {"enter", "spawn"} <=> t \in Owing
    <3>1. Owing' = Owing
      BY <1>1, <1>5, <2>4 DEF Owing
    <3>2. Cost(t, th[t]) = Cost(t, r) /\ Cost(t, r) \in Nat
      BY <1>5, <2>4 DEF Cost, Owing
    <3> QED BY <1>2, <1>3, <2>1, <3>1, <3>2
  <2> QED BY <2>2, <2>3, <2>4
<1> QED BY <1>4, <1>5

\* f is the table of threads after t went on without trying again or returning to
\* an earlier workspace: what it spawned and may still spawn was its own or is
\* counted now.
Within(t, f, counted, made) ==
  \E r \in ThreadType :
    /\ f = [th EXCEPT ![t] = r]
    /\ r.goal \notin {"retry", "open", "rollback"}
    /\ t \in {ui, quit} => r.at \notin Starting
    /\ r.at # "start"
    /\ Cost(t, r) + made <= Cost(t, th[t]) + counted

LEMMA BudgetMoves ==
  ASSUME IInv, Budget, ~ FirstStart, NEW t \in Threads, NEW counted \in Nat, NEW made \in Nat,
         commands = 0 => Within(t, th', counted, made),
         spawned' = spawned + made, inner'.restarts = inner.restarts + counted,
         commands' = commands
  PROVE  Budget'
<1> SUFFICES ASSUME commands = 0
             PROVE  /\ \A u \in Threads : th'[u].goal \notin {"retry", "open", "rollback"}
                    /\ \A u \in {ui, quit} : th'[u].at \notin Starting
                    /\ \A u \in Threads : th'[u].at # "start"
                    /\ spawned' + Cardinality(Owing') + Credit(th'[setup]) <= inner'.restarts + 2
  BY DEF Budget
<1>1. PICK r \in ThreadType :
        /\ th' = [th EXCEPT ![t] = r]
        /\ r.goal \notin {"retry", "open", "rollback"}
        /\ t \in {ui, quit} => r.at \notin Starting
        /\ r.at # "start"
        /\ Cost(t, r) + made <= Cost(t, th[t]) + counted
  BY DEF Within
<1>2. /\ th \in [Threads -> ThreadType] /\ spawned \in Nat /\ inner.restarts \in Nat
      /\ {setup, ui, quit} \subseteq Threads
  BY SupervisorAssumption DEF IInv, TypeOK, InnerType, Threads, Callers
<1>3. th'[t] = r /\ \A u \in Threads : u # t => th'[u] = th[u]
  BY <1>1, <1>2
<1>4. Cardinality(Owing') + Credit(th'[setup]) + Cost(t, th[t])
        = Cardinality(Owing) + Credit(th[setup]) + Cost(t, r)
  BY <1>1, <1>2, CostMoves
<1>5. /\ Cost(t, th[t]) \in Nat /\ Cost(t, r) \in Nat
      /\ Credit(th[setup]) \in Nat /\ Credit(th'[setup]) \in Nat
  BY <1>1, <1>2, <1>3, CostTypes
<1>6. Cardinality(Owing) \in Nat
  BY OwingFinite DEF Owing
<1>7. Cardinality(Owing') \in Nat
  BY OwingFinite DEF Owing, Procs
<1>8. spawned + Cardinality(Owing) + Credit(th[setup]) <= inner.restarts + 2
  BY DEF Budget
<1>9. spawned' + Cardinality(Owing') + Credit(th'[setup]) <= inner'.restarts + 2
  BY <1>1, <1>2, <1>4, <1>5, <1>6, <1>7, <1>8
<1> QED BY <1>1, <1>2, <1>3, <1>9 DEF Budget

LEMMA QuietFacts ==
  ASSUME IInv, Budget, ~ FirstStart, commands = 0, NEW t \in Threads
  PROVE  /\ th \in [Threads -> ThreadType] /\ th[t] \in ThreadType /\ Sound(t, th[t], spawned)
         /\ th[t].goal \notin {"retry", "open", "rollback"}
         /\ t \in {ui, quit} => th[t].at \notin Starting
         /\ th[t].at # "start"
BY DEF IInv, TypeOK, ThreadsSound, Budget

LEMMA ReturnWithin ==
  ASSUME IInv, NEW t \in Threads, NEW counted \in Nat
  PROVE  Within(t, Returned(t), counted, 0)
<1> DEFINE r == [NoThread EXCEPT !.at = "done"]
<1>1. r \in ThreadType /\ r.at = "done" /\ r.goal = "none"
  BY DEF NoThread, ThreadType, Places, Goals, Place, ProcId
<1>2. th[t] \in ThreadType
  BY DEF IInv, TypeOK
<1> HIDE DEF r
<1>3. Cost(t, r) = 0 /\ Cost(t, th[t]) \in Nat
  BY <1>1, <1>2, CostTypes DEF Cost, Credit
<1>4. Returned(t) = [th EXCEPT ![t] = r]
  BY DEF Returned, r
<1>5. Cost(t, r) + 0 <= Cost(t, th[t]) + counted
  BY <1>3
<1>6. r.at \notin Starting /\ r.at # "start" /\ r.goal \notin {"retry", "open", "rollback"}
  BY <1>1 DEF Starting
<1> QED BY <1>1, <1>4, <1>5, <1>6 DEF Within

\* A thread that goes to another place keeps its goal; what it costs there is
\* the question.
LEMMA RetargetWithin ==
  ASSUME IInv, Budget, ~ FirstStart, commands = 0, NEW t \in Threads,
         NEW place \in Places \ {"start"}, t \in {ui, quit} => place \notin Starting,
         NEW made \in Nat, Cost(t, [th[t] EXCEPT !.at = place]) + made <= Cost(t, th[t])
  PROVE  Within(t, [th EXCEPT ![t].at = place], 0, made)
<1> DEFINE r == [th[t] EXCEPT !.at = place]
<1>1. /\ th \in [Threads -> ThreadType] /\ th[t] \in ThreadType
      /\ th[t].goal \notin {"retry", "open", "rollback"}
  BY QuietFacts
<1>2. r \in ThreadType /\ r.at = place /\ r.goal = th[t].goal
  BY <1>1 DEF ThreadType
<1>3. [th EXCEPT ![t].at = place] = [th EXCEPT ![t] = r]
  BY <1>1
<1>4. Cost(t, th[t]) \in Nat /\ Cost(t, r) \in Nat
  BY <1>1, <1>2, CostTypes
<1>5. Cost(t, r) + made <= Cost(t, th[t]) + 0
  BY <1>4
<1> HIDE DEF r
<1> QED BY <1>1, <1>2, <1>3, <1>5 DEF Within

\* A place at which a thread costs nothing.
LEMMA LeaveWithin ==
  ASSUME IInv, Budget, ~ FirstStart, commands = 0, NEW t \in Threads,
         NEW place \in Places \ {"start", "enter", "spawn", "token", "await"},
         t \in {ui, quit} => place \notin Starting
  PROVE  Within(t, [th EXCEPT ![t].at = place], 0, 0)
<1>1. th[t] \in ThreadType
  BY QuietFacts
<1>2. Cost(t, [th[t] EXCEPT !.at = place]) = 0 /\ Cost(t, th[t]) \in Nat
  BY <1>1, CostTypes DEF Cost, Credit, ThreadType
<1> QED BY <1>2, RetargetWithin

\* A second attempt costs at most what the first one still did.
LEMMA FailureWithin ==
  ASSUME IInv, Budget, ~ FirstStart, commands = 0, NEW t \in Threads,
         th[t].at \in {"enter", "spawn", "await"}
  PROVE  Within(t, AfterFailure(t), 0, 0)
<1>0. /\ th \in [Threads -> ThreadType] /\ th[t] \in ThreadType
      /\ th[t].goal \notin {"retry", "open", "rollback"} /\ t \notin {ui, quit}
  BY QuietFacts DEF Starting
<1>1. CASE t \notin Procs /\ th[t].attempt = 1
  <2> DEFINE r == [th[t] EXCEPT !.at = "enter", !.attempt = 2]
  <2>1. "enter" \in Places /\ 2 \in 0..2
    BY DEF Places
  <2>2. r \in ThreadType /\ r.at = "enter" /\ r.goal = th[t].goal /\ r.attempt = 2
    BY <1>0, <2>1 DEF ThreadType
  <2>3. AfterFailure(t) = [th EXCEPT ![t] = r]
    BY <1>0, <1>1 DEF AfterFailure
  <2> HIDE DEF r
  <2>4. Cost(t, r) + 0 <= Cost(t, th[t]) + 0
    BY <1>0, <1>1, <2>2 DEF Cost, Credit, ThreadType
  <2>5. r.at # "start" /\ r.goal \notin {"retry", "open", "rollback"}
    BY <1>0, <2>2
  <2> QED BY <1>0, <2>2, <2>3, <2>4, <2>5 DEF Within
<1>2. CASE ~ (t \notin Procs /\ th[t].attempt = 1)
  <2>1. AfterFailure(t) = [th EXCEPT ![t].at = "mark"]
    BY <1>2 DEF AfterFailure
  <2>2. "mark" \in Places \ {"start", "enter", "spawn", "token", "await"}
    BY DEF Places
  <2>3. Within(t, [th EXCEPT ![t].at = "mark"], 0, 0)
    BY <1>0, <2>2, LeaveWithin
  <2> QED BY <2>1, <2>3
<1> QED BY <1>1, <1>2

\* A step of a thread that spawns nothing and counts no restart.
LEMMA FreeBudget ==
  ASSUME IInv, Budget, ~ FirstStart, NEW t \in Threads,
         commands = 0 => Within(t, th', 0, 0),
         spawned' = spawned, inner'.restarts = inner.restarts, commands' = commands
  PROVE  Budget'
<1>1. spawned \in Nat /\ inner.restarts \in Nat
  BY SupervisorAssumption DEF IInv, TypeOK, InnerType
<1>2. spawned' = spawned + 0 /\ inner'.restarts = inner.restarts + 0
  BY <1>1
<1> QED BY <1>2, BudgetMoves

LEMMA StateKeepsRestarts ==
  ASSUME IInv
  PROVE  /\ \A name : SetState(name).restarts = inner.restarts
         /\ \A p : ClearToken(p).restarts = inner.restarts
BY DEF IInv, TypeOK, InnerType, SetState, ClearToken

\* Only the first start of the host finds the restarts to be forgotten.
LEMMA StartBeginBudget ==
  ASSUME IInv, Budget, NEW t \in Threads, StartBegin(t)
  PROVE  Budget'
<1> SUFFICES ASSUME commands = 0 PROVE Budget'
  BY DEF Budget, StartBegin, countVars
<1> DEFINE r == [th[t] EXCEPT !.at = "enter", !.attempt = 1]
<1>1. /\ th \in [Threads -> ThreadType] /\ th[t] \in ThreadType /\ inner \in InnerType
      /\ {setup, ui, quit} \subseteq Threads /\ Procs \subseteq Threads
  BY DEF IInv, TypeOK, Threads, Callers
<1>2. FirstStart /\ t = setup
  BY DEF Budget, StartBegin, At, FirstStart
<1>3. th' = [th EXCEPT ![t] = r]
  BY <1>1 DEF StartBegin
<1>4. r.at = "enter" /\ r.attempt = 1 /\ r.goal = th[t].goal
  BY <1>1 DEF ThreadType
<1> HIDE DEF r
<1>5. th'[setup] = r /\ \A u \in Threads : u # setup => th'[u] = th[u] /\ th[u].at = "idle"
  BY <1>1, <1>2, <1>3 DEF FirstStart
<1>6. Owing' = {}
  BY <1>1, <1>5, CallersApart DEF Owing
<1>7. Cardinality(Owing') = 0
  BY <1>6, FS_EmptySet
<1>8. spawned' = 0 /\ inner'.restarts = 0 /\ Credit(th'[setup]) = 2
  BY <1>1, <1>2, <1>4, <1>5 DEF StartBegin, countVars, FirstStart, InnerType, Credit
<1>9. spawned' + Cardinality(Owing') + Credit(th'[setup]) <= inner'.restarts + 2
  BY <1>7, <1>8
<1>10. \A u \in Threads : th'[u].goal \notin {"retry", "open", "rollback"}
  BY <1>2, <1>4, <1>5 DEF Budget
<1>11. \A u \in {ui, quit} : th'[u].at \notin Starting
  BY <1>1, <1>5, SupervisorAssumption DEF Starting
<1>12. \A u \in Threads : th'[u].at # "start"
  BY <1>4, <1>5
<1> QED BY <1>9, <1>10, <1>11, <1>12 DEF Budget

LEMMA SpawnBudget ==
  ASSUME IInv, Budget, ~ FirstStart, NEW t \in Threads, Spawn(t)
  PROVE  Budget'
<1>1. spawned' = spawned + 1 /\ inner' = inner /\ commands' = commands
  BY DEF Spawn
<1>2. ASSUME commands = 0 PROVE Within(t, th', 0, 1)
  <2> DEFINE r == [th[t] EXCEPT !.at = "token", !.proc = spawned']
  <2>1. /\ th \in [Threads -> ThreadType] /\ th[t] \in ThreadType
        /\ th[t].goal \notin {"retry", "open", "rollback"}
        /\ t \notin {ui, quit} /\ th[t].at = "spawn"
    BY <1>2, QuietFacts DEF Spawn, At, Starting
  <2>2. "token" \in Places /\ spawned' \in ProcId
    BY <1>1, SupervisorAssumption DEF Spawn, IInv, TypeOK, ProcId, Procs, Places
  <2>3. /\ r \in ThreadType /\ r.at = "token" /\ r.goal = th[t].goal
        /\ r.attempt = th[t].attempt
    BY <2>1, <2>2 DEF ThreadType
  <2>4. th' = [th EXCEPT ![t] = r]
    BY <2>1 DEF Spawn
  <2> HIDE DEF r
  <2>5. t \in Procs \/ t = setup
    BY <2>1 DEF Threads, Callers
  <2>6. Cost(t, r) + 1 <= Cost(t, th[t]) + 0
    BY <2>1, <2>3, <2>5 DEF Cost, Credit, ThreadType
  <2>7. r.at # "start" /\ r.goal \notin {"retry", "open", "rollback"}
    BY <2>1, <2>3
  <2> QED BY <2>1, <2>3, <2>4, <2>6, <2>7 DEF Within
<1>3. inner'.restarts = inner.restarts + 0
  BY <1>1, SupervisorAssumption DEF IInv, TypeOK, InnerType
<1> QED BY <1>1, <1>2, <1>3, BudgetMoves

LEMMA RecoverBudget ==
  ASSUME IInv, Budget, ~ FirstStart, NEW t \in Threads, Recover(t)
  PROVE  Budget'
<1>0. /\ inner \in InnerType /\ inner.restarts \in Nat /\ spawned \in Nat
      /\ t \in Procs /\ th[t].at = "recover"
      /\ spawned' = spawned /\ commands' = commands
  BY SupervisorAssumption DEF IInv, TypeOK, InnerType, Recover, At, countVars
<1>1. CASE th' = Returned(t) /\ inner'.restarts = inner.restarts
  BY <1>0, <1>1, ReturnWithin, FreeBudget
<1>2. CASE /\ inner' = [SetState("starting") EXCEPT !.child = 0, !.restarts = @ + 1]
           /\ th' = [th EXCEPT ![t].at = "enter", ![t].goal = "recover", ![t].ws = inner.boot]
  <2>1. inner'.restarts = inner.restarts + 1
    BY <1>0, <1>2 DEF SetState, InnerType
  <2>2. ASSUME commands = 0 PROVE Within(t, th', 1, 0)
    <3> DEFINE r == [th[t] EXCEPT !.at = "enter", !.goal = "recover", !.ws = inner.boot]
    <3>1. /\ th \in [Threads -> ThreadType] /\ th[t] \in ThreadType
          /\ "enter" \in Places /\ "recover" \in Goals /\ inner.boot \in Place
      BY <1>0 DEF IInv, TypeOK, InnerType, Places, Goals
    <3>2. r \in ThreadType /\ r.at = "enter" /\ r.goal = "recover"
      BY <3>1 DEF ThreadType
    <3>3. th' = [th EXCEPT ![t] = r]
      BY <1>2, <3>1
    <3> HIDE DEF r
    <3>4. Cost(t, r) = 1 /\ Cost(t, th[t]) = 0
      BY <1>0, <3>2 DEF Cost
    <3>5. Cost(t, r) + 0 <= Cost(t, th[t]) + 1 /\ t \notin {ui, quit}
      BY <1>0, <3>4, CallersApart
    <3> QED BY <3>2, <3>3, <3>5 DEF Within
  <2>3. spawned' = spawned + 0
    BY <1>0
  <2> QED BY <1>0, <2>1, <2>2, <2>3, BudgetMoves
<1>3. [inner EXCEPT !.child = 0].restarts = inner.restarts
  BY <1>0 DEF InnerType
<1>4. [SetState("failed") EXCEPT !.child = 0].restarts = inner.restarts
  BY <1>0 DEF SetState, InnerType
<1> QED BY <1>1, <1>2, <1>3, <1>4 DEF Recover

\* Every step of a thread stays within the account.
LEMMA ThreadBudget ==
  ASSUME IInv, Budget, NEW t \in Threads, ThreadStep(t)
  PROVE  Budget'
<1>1. CASE FirstStart
  <2>1. th[t].at \in {"start", "idle"}
    BY <1>1 DEF FirstStart
  <2>2. StartBegin(t)
    BY <2>1 DEF ThreadStep, StartBegin, Enter, Spawn, SpawnFails, RegisterToken, AwaitFails,
         AwaitCancelled, BecomeReady, MarkFailed, StopTake, StopSignal, StopKill, StopEnd,
         Recover, Record, At
  <2> QED BY <2>2, StartBeginBudget
<1>2. CASE ~ FirstStart
  <2> USE <1>2
  <2>0. inner \in InnerType /\ th[t] \in ThreadType /\ spawned \in Nat
    BY ThreadFacts
  <2>1. CASE Enter(t)
    <3>1. commands = 0 => Within(t, th', 0, 0)
      <4> SUFFICES ASSUME commands = 0 PROVE Within(t, th', 0, 0)
        OBVIOUS
      <4>1. th[t].at = "enter"
        BY <2>1 DEF Enter, At
      <4>2. t \notin {ui, quit}
        BY <4>1, QuietFacts DEF Starting
      <4>3. Cost(t, [th[t] EXCEPT !.at = "spawn"]) + 0 <= Cost(t, th[t])
        BY <2>0, <4>1 DEF Cost, Credit, ThreadType
      <4>4. Within(t, [th EXCEPT ![t].at = "spawn"], 0, 0)
        BY <4>2, <4>3, RetargetWithin DEF Places
      <4> QED BY <2>1, <4>1, <4>4, FailureWithin DEF Enter, Goto
    <3>2. inner'.restarts = inner.restarts /\ spawned' = spawned /\ commands' = commands
      BY <2>1, StateKeepsRestarts DEF Enter, countVars
    <3> QED BY <3>1, <3>2, FreeBudget
  <2>2. CASE SpawnFails(t)
    <3>1. commands = 0 => Within(t, th', 0, 0)
      BY <2>2, FailureWithin DEF SpawnFails, At
    <3> QED BY <2>2, <3>1, FreeBudget DEF SpawnFails, countVars
  <2>3. CASE RegisterToken(t)
    <3>1. commands = 0 => Within(t, th', 0, 0)
      <4> SUFFICES ASSUME commands = 0 PROVE Within(t, th', 0, 0)
        OBVIOUS
      <4>1. th[t].at = "token" /\ t \notin {ui, quit}
        BY <2>3, QuietFacts DEF RegisterToken, At, Starting
      <4>2. Cost(t, [th[t] EXCEPT !.at = "await"]) + 0 <= Cost(t, th[t])
        BY <2>0, <4>1 DEF Cost, Credit, ThreadType
      <4> QED BY <2>3, <4>1, <4>2, RetargetWithin DEF RegisterToken, Goto, Places
    <3>2. inner'.restarts = inner.restarts
      BY <2>0, <2>3 DEF RegisterToken, InnerType
    <3> QED BY <2>3, <3>1, <3>2, FreeBudget DEF RegisterToken, countVars
  <2>4. CASE AwaitFails(t) \/ AwaitCancelled(t)
    <3>1. commands = 0 => Within(t, th', 0, 0)
      BY <2>4, FailureWithin DEF AwaitFails, AwaitCancelled, At
    <3>2. inner'.restarts = inner.restarts
      BY <2>4, StateKeepsRestarts DEF AwaitFails, AwaitCancelled
    <3> QED BY <2>4, <3>1, <3>2, FreeBudget DEF AwaitFails, AwaitCancelled, countVars
  <2>5. CASE BecomeReady(t)
    <3>1. commands = 0 => Within(t, th', 0, 0)
      <4> SUFFICES ASSUME commands = 0 PROVE Within(t, th', 0, 0)
        OBVIOUS
      <4>1. t \notin {ui, quit}
        BY <2>5, QuietFacts DEF BecomeReady, At, Starting
      <4>2. Within(t, [th EXCEPT ![t].at = "record"], 0, 0)
        BY <4>1, LeaveWithin DEF Places
      <4> QED BY <2>5, <4>2, ReturnWithin DEF BecomeReady
    <3>2. inner'.restarts = inner.restarts
      BY <2>0, <2>5 DEF BecomeReady, InnerType
    <3> QED BY <2>5, <3>1, <3>2, FreeBudget DEF BecomeReady, countVars
  <2>6. CASE MarkFailed(t)
    <3>1. commands = 0 => Within(t, th', 0, 0)
      <4> SUFFICES ASSUME commands = 0 PROVE Within(t, th', 0, 0)
        OBVIOUS
      <4>1. t \notin {ui, quit} /\ th[t].goal # "open"
        BY <2>6, QuietFacts DEF MarkFailed, Starting
      <4>2. /\ Within(t, [th EXCEPT ![t].at = "recover"], 0, 0)
            /\ Within(t, [th EXCEPT ![t].at = "markAgain"], 0, 0)
        BY <4>1, LeaveWithin DEF Places
      <4>3. Within(t, Returned(t), 0, 0)
        BY ReturnWithin
      <4>4. th' \in {[th EXCEPT ![t].at = "recover"], [th EXCEPT ![t].at = "markAgain"],
                     Returned(t)}
        BY <2>6, <4>1 DEF MarkFailed
      <4> QED BY <4>2, <4>3, <4>4
    <3>2. inner'.restarts = inner.restarts
      BY <2>6, StateKeepsRestarts DEF MarkFailed
    <3> QED BY <2>6, <3>1, <3>2, FreeBudget DEF MarkFailed, countVars
  <2>7. CASE StopTake(t)
    <3>1. commands = 0 => Within(t, th', 0, 0)
      <4> SUFFICES ASSUME commands = 0 PROVE Within(t, th', 0, 0)
        OBVIOUS
      <4> DEFINE r == [th[t] EXCEPT !.at = "signal", !.conn = inner.conn, !.child = inner.child,
                                    !.flag = inner.term, !.tok = inner.token]
      <4>1. th \in [Threads -> ThreadType] /\ th[t].goal \notin {"retry", "open", "rollback"}
        BY QuietFacts
      <4>2. /\ "signal" \in Places /\ inner.conn \in ProcId /\ inner.child \in ProcId
            /\ inner.term \in ProcId /\ inner.token \in ProcId
        BY <2>0 DEF InnerType, Places
      <4>3. r \in ThreadType /\ r.at = "signal" /\ r.goal = th[t].goal
        BY <2>0, <4>2 DEF ThreadType
      <4>4. th' = [th EXCEPT ![t] = r]
        BY <2>7, <4>1 DEF StopTake
      <4> HIDE DEF r
      <4>5. Cost(t, r) = 0 /\ Cost(t, th[t]) \in Nat
        BY <2>0, <4>3, CostTypes DEF Cost, Credit
      <4>6. Cost(t, r) + 0 <= Cost(t, th[t]) + 0
        BY <4>5
      <4>7. r.at \notin Starting /\ r.at # "start"
        BY <4>3 DEF Starting
      <4> QED BY <4>1, <4>3, <4>4, <4>6, <4>7 DEF Within
    <3>2. inner'.restarts = inner.restarts
      BY <2>0, <2>7 DEF StopTake, SetState, InnerType
    <3> QED BY <2>7, <3>1, <3>2, FreeBudget DEF StopTake, countVars
  <2>8. CASE StopSignal(t) \/ StopKill(t)
    <3>1. commands = 0 => Within(t, th', 0, 0)
      <4>1. \A place \in {"kill", "stopped"} :
              place \in Places \ {"start", "enter", "spawn", "token", "await"}
              /\ place \notin Starting
        BY DEF Places, Starting
      <4> QED BY <2>8, <4>1, LeaveWithin DEF StopSignal, StopKill, Goto
    <3> QED BY <2>8, <3>1, FreeBudget DEF StopSignal, StopKill, countVars
  <2>9. CASE StopEnd(t)
    <3>1. commands = 0 => Within(t, th', 0, 0)
      <4> SUFFICES ASSUME commands = 0 PROVE Within(t, th', 0, 0)
        OBVIOUS
      <4>1. th[t].goal \notin {"retry", "open", "rollback"}
        BY QuietFacts
      <4>2. th' = Returned(t)
        BY <2>9, <4>1 DEF StopEnd
      <4> QED BY <4>2, ReturnWithin
    <3>2. inner'.restarts = inner.restarts
      BY <2>9, StateKeepsRestarts DEF StopEnd
    <3> QED BY <2>9, <3>1, <3>2, FreeBudget DEF StopEnd, countVars
  <2>10. CASE Record(t)
    <3>1. commands = 0 => Within(t, th', 0, 0)
      <4> SUFFICES ASSUME commands = 0 PROVE Within(t, th', 0, 0)
        OBVIOUS
      <4>1. t = setup /\ th[t].goal = "setup"
        BY <2>10, QuietFacts DEF Record, At, Sound
      <4> DEFINE r == [th[t] EXCEPT !.at = "stop", !.goal = "abandon"]
      <4>2. th \in [Threads -> ThreadType] /\ "stop" \in Places /\ "abandon" \in Goals
        BY QuietFacts DEF Places, Goals
      <4>3. r \in ThreadType /\ r.at = "stop" /\ r.goal = "abandon"
        BY <2>0, <4>2 DEF ThreadType
      <4>4. th' = Returned(t) \/ th' = [th EXCEPT ![t] = r]
        BY <2>10, <4>1, <4>2 DEF Record
      <4> HIDE DEF r
      <4>5. Cost(t, r) = 0 /\ Cost(t, th[t]) \in Nat
        BY <2>0, <4>3, CostTypes DEF Cost, Credit
      <4>6. Cost(t, r) + 0 <= Cost(t, th[t]) + 0
        BY <4>5
      <4>7. r.at \notin Starting /\ r.at # "start"
        BY <4>3 DEF Starting
      <4>8. Within(t, [th EXCEPT ![t] = r], 0, 0)
        BY <4>3, <4>6, <4>7 DEF Within
      <4> QED BY <4>4, <4>8, ReturnWithin
    <3> QED BY <2>10, <3>1, FreeBudget DEF Record, countVars
  <2>11. CASE StartBegin(t)
    BY <2>11, StartBeginBudget
  <2> QED BY <2>1, <2>2, <2>3, <2>4, <2>5, <2>6, <2>7, <2>8, <2>9, <2>10, <2>11,
             SpawnBudget, RecoverBudget DEF ThreadStep
<1> QED BY <1>1, <1>2

\* A step that moves no thread.
LEMMA StillBudget ==
  ASSUME Budget, UNCHANGED <<inner, th, spawned, commands>>
  PROVE  Budget'
BY DEF Budget, FirstStart, Owing

LEMMA TerminatedBudget ==
  ASSUME IInv, Budget, NEW p \in Procs, Terminated(p)
  PROVE  Budget'
<1>1. p \in Threads /\ UNCHANGED <<inner, spawned, commands>> /\ proc[p].life = "dead"
  BY DEF Terminated, Threads, countVars
<1>2. ~ FirstStart
  BY <1>1 DEF IInv, ProcsSound, ProcSound, Procs, FirstStart
<1>3. commands = 0 => Within(p, [th EXCEPT ![p].at = "recover"], 0, 0)
  BY <1>1, <1>2, LeaveWithin, CallersApart DEF Places
<1>4. CASE th' = th
  BY <1>1, <1>4, StillBudget
<1>5. CASE th' = [th EXCEPT ![p].at = "recover"]
  BY <1>1, <1>2, <1>3, <1>5, FreeBudget
<1> QED BY <1>4, <1>5 DEF Terminated, Goto

LEMMA QuitBudget ==
  ASSUME IInv, Budget, Quit
  PROVE  Budget'
<1>1. quit \in Threads /\ setup \in Threads /\ UNCHANGED <<inner, spawned, commands>>
  BY DEF Threads, Callers, Quit, countVars
<1>2. ~ FirstStart
  BY <1>1 DEF Quit, LoopRuns, At, FirstStart
<1>3. ASSUME commands = 0 PROVE Within(quit, th', 0, 0)
  <2> DEFINE r == [th[quit] EXCEPT !.at = "stop", !.goal = "quit"]
  <2>1. /\ th \in [Threads -> ThreadType] /\ th[quit] \in ThreadType
        /\ "stop" \in Places /\ "quit" \in Goals
    BY <1>1, <1>2, <1>3, QuietFacts DEF Places, Goals
  <2>2. r \in ThreadType /\ r.at = "stop" /\ r.goal = "quit"
    BY <2>1 DEF ThreadType
  <2>3. th' = [th EXCEPT ![quit] = r]
    BY <2>1 DEF Quit
  <2> HIDE DEF r
  <2>4. Cost(quit, r) = 0 /\ Cost(quit, th[quit]) \in Nat
    BY <2>1, <2>2, CostTypes DEF Cost, Credit
  <2>5. Cost(quit, r) + 0 <= Cost(quit, th[quit]) + 0
    BY <2>4
  <2>6. r.at \notin Starting /\ r.at # "start"
    BY <2>2 DEF Starting
  <2> QED BY <2>2, <2>3, <2>5, <2>6 DEF Within
<1> QED BY <1>1, <1>2, <1>3, FreeBudget

LEMMA AppExitsBudget ==
  ASSUME IInv, Budget, AppExits
  PROVE  Budget'
<1>1. UNCHANGED <<inner, spawned, commands>> /\ {setup, ui, quit} \subseteq Threads
  BY DEF AppExits, countVars, Threads, Callers
<1> DEFINE r == [NoThread EXCEPT !.at = "gone"]
<1>2. r.at = "gone" /\ r.goal = "none"
  BY DEF NoThread
<1>3. th' = [t \in Threads |-> r]
  BY DEF AppExits
<1> HIDE DEF r
<1>4. \A t \in Threads : th'[t] = r
  BY <1>3
<1>5. Owing' = {} /\ Credit(th'[setup]) = 0
  BY <1>1, <1>2, <1>4 DEF Owing, Credit, Threads
<1>6. Cardinality(Owing') = 0
  BY <1>5, FS_EmptySet
<1>7. /\ Cardinality(Owing) \in Nat /\ spawned \in Nat /\ inner.restarts \in Nat
      /\ Credit(th[setup]) \in Nat
  BY <1>1, OwingFinite, CostTypes, SupervisorAssumption DEF Owing, IInv, TypeOK, InnerType
<1>8. commands = 0 => spawned' + Cardinality(Owing') + Credit(th'[setup]) <= inner'.restarts + 2
  BY <1>1, <1>5, <1>6, <1>7 DEF Budget
<1> QED BY <1>1, <1>2, <1>4, <1>8 DEF Budget, Starting

LEMMA InitBudget == Init => Budget
<1> SUFFICES ASSUME Init PROVE Budget
  OBVIOUS
<1>1. {setup, ui, quit} \subseteq Threads /\ Procs \subseteq Threads
  BY DEF Threads, Callers
<1>2. \A t \in Threads : IF t = setup THEN th[t].at = "start" /\ th[t].goal = "setup"
                         ELSE th[t].at = "idle" /\ th[t].goal = "none"
  BY DEF Init, NoThread
<1>3. FirstStart
  BY <1>2 DEF FirstStart, Init
<1>4. Owing = {}
  BY <1>1, <1>2, CallersApart DEF Owing
<1>5. Cardinality(Owing) = 0 /\ spawned = 0 /\ inner.restarts = 0 /\ Credit(th[setup]) = 0
  BY <1>1, <1>2, <1>4, FS_EmptySet DEF Init, Credit
<1>6. spawned + Cardinality(Owing) + Credit(th[setup]) <= inner.restarts + 2
  BY <1>5
<1>7. \A t \in {ui, quit} : th[t].at \notin Starting
  BY <1>1, <1>2, SupervisorAssumption DEF Starting
<1> QED BY <1>2, <1>3, <1>6, <1>7 DEF Budget

LEMMA NextBudget == IInv /\ Budget /\ [Next]_vars => Budget'
<1> SUFFICES ASSUME IInv, Budget, [Next]_vars PROVE Budget'
  OBVIOUS
<1>1. ASSUME NEW p \in Procs, EventStep(p) \/ ProcStep(p) PROVE Budget'
  <2>1. CASE Terminated(p)
    BY <2>1, TerminatedBudget
  <2>2. CASE ~ Terminated(p)
    <3>1. UNCHANGED <<inner, th, spawned, commands>>
      BY <1>1, <2>2 DEF EventStep, ProcStep, DeliverReady, Boot, BootFails, Crash,
           ObeyShutdown, ToggleOperation, countVars
    <3> QED BY <3>1, StillBudget
  <2> QED BY <2>1, <2>2
<1>2. ASSUME NEW goal, NEW w, Command(goal, w) PROVE Budget'
  <2>1. commands' # 0
    BY <1>2, SupervisorAssumption DEF Command, IInv, TypeOK
  <2> QED BY <2>1 DEF Budget
<1>3. CASE UNCHANGED vars
  BY <1>3, StillBudget DEF vars, countVars
<1> QED BY <1>1, <1>2, <1>3, ThreadBudget, QuitBudget, AppExitsBudget DEF Next, Open, Retry

-----------------------------------------------------------------------------
(* The theorems.                                                           *)

\* Every variable keeps its type.
THEOREM SupervisorTypes == Spec => []TypeOK
<1>1. IInv => TypeOK
  BY DEF IInv
<1> QED BY <1>1, IInvHolds, PTL

\* A connection in the hands of the page is the one whose handle and flag stop
\* takes.
THEOREM ReadyAlwaysOwnsItsProcess == Spec => []ReadyOwnsItsProcess
<1>1. IInv => ReadyOwnsItsProcess
  BY DEF IInv, HandleSound, ReadyOwnsItsProcess
<1> QED BY <1>1, IInvHolds, PTL

\* stop returns only after the process it took is gone, and that process stays
\* gone: the flag it trusts is set for dead processes only.
THEOREM StopAlwaysEndsItsProcess == Spec => []StopEndsItsProcess
<1>1. IInv => StopEndsItsProcess
  BY DEF IInv, StopsAreDone, StopEndsItsProcess, Live
<1> QED BY <1>1, IInvHolds, PTL

\* Until the page gives a command, a sidecar that keeps dying costs at most two
\* attempts of the start and RestartLimit restarts, however many recoveries and
\* attempts overlap.
THEOREM SpawnsAlwaysBounded == Spec => []SpawnsAreBounded
<1>1. IInv /\ Budget => SpawnsAreBounded
  <2> SUFFICES ASSUME IInv, Budget, commands = 0 PROVE spawned <= 2 + RestartLimit
    BY DEF SpawnsAreBounded
  <2>1. /\ inner.restarts \in 0..RestartLimit /\ spawned \in Nat /\ RestartLimit \in Nat
        /\ th[setup] \in ThreadType
    BY SupervisorAssumption DEF IInv, TypeOK, InnerType, Threads, Callers
  <2>2. Cardinality(Owing) \in Nat /\ Credit(th[setup]) \in Nat
    BY <2>1, OwingFinite, CostTypes DEF Owing
  <2>3. spawned + Cardinality(Owing) + Credit(th[setup]) <= inner.restarts + 2
    BY DEF Budget
  <2> QED BY <2>1, <2>2, <2>3
<1>2. IInv /\ Budget /\ [Next]_vars => (IInv /\ Budget)'
  BY NextInv, NextBudget
<1> QED BY <1>1, <1>2, InitInv, InitBudget, PTL DEF Spec
=============================================================================
