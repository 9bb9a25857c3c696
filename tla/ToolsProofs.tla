----------------------------- MODULE ToolsProofs -----------------------------
(* Theorems about the command-line tools, for any number of runs, commits,  *)
(* commands, files and mishaps: IssueTransport, PrototypeFiles,             *)
(* UpstreamSync, SourceZip and DevStack.  The tools share nothing, and each *)
(* theorem is about the specification of one of them.                       *)
EXTENDS Tools, FiniteSetTheorems, SequenceTheorems, WellFoundedInduction, TLAPS

-----------------------------------------------------------------------------
(* Issues: the marker of the comment.                                       *)

AgentStates == {Resting}
               \cup [pc: {"comment"}, marked: BOOLEAN, open: BOOLEAN]
               \cup [pc: {"close"}, open: BOOLEAN]
               \cup [pc: {"verify"}]

\* Until two closing commands have run beside each other, the one that is under
\* way is alone, and what it read of the marker is still so.
TransportInv ==
  /\ comments \in Nat
  /\ open \in BOOLEAN
  /\ agent \in [Agents -> AgentStates]
  /\ ~overlapped =>
       /\ comments <= 1
       /\ \A a, b \in Agents : Closing(a) /\ Closing(b) => a = b
       /\ \A a \in Agents : agent[a].pc = "comment" /\ ~agent[a].marked => comments = 0

LEMMA RestingIsNotClosing ==
  ASSUME NEW a \in Agents
  PROVE  agent[a] = Resting => ~Closing(a)
BY DEF Resting, Closing

\* Where a run goes: its next state, and nobody else moves.
LEMMA AgentMoves ==
  ASSUME TransportInv, NEW a \in Agents, NEW to \in AgentStates,
         agent' = [agent EXCEPT ![a] = to]
  PROVE  /\ agent' \in [Agents -> AgentStates]
         /\ agent'[a] = to
         /\ \A b \in Agents \ {a} : agent'[b] = agent[b]
BY DEF TransportInv

LEMMA TransportStep == TransportInv /\ [TransportNext]_transportVars => TransportInv'
<1> SUFFICES ASSUME TransportInv, [TransportNext]_transportVars
             PROVE  TransportInv'
  OBVIOUS
<1>1. ASSUME NEW a \in Agents, IssueCreate(a)
      PROVE  TransportInv'
  <2>1. agent' = agent
    BY <1>1 DEF IssueCreate, Begins, TransportInv
  <2> QED
    BY <1>1, <2>1 DEF IssueCreate, TransportInv, Closing
<1>2. ASSUME NEW a \in Agents, ReadIssue(a)
      PROVE  TransportInv'
  <2>1. PICK apply \in BOOLEAN :
           Begins(a, IF apply
                     THEN [pc |-> "comment", marked |-> comments > 0, open |-> open]
                     ELSE Resting)
    BY <1>2 DEF ReadIssue
  <2> DEFINE to == IF apply
                   THEN [pc |-> "comment", marked |-> comments > 0, open |-> open]
                   ELSE Resting
  <2>2. to \in AgentStates
    BY DEF AgentStates, TransportInv
  <2>3. agent' = [agent EXCEPT ![a] = to] /\ agent[a] = Resting
    BY <2>1 DEF Begins
  <2> HIDE DEF to
  <2>4. /\ agent' \in [Agents -> AgentStates]
        /\ agent'[a] = to
        /\ \A b \in Agents \ {a} : agent'[b] = agent[b]
    BY <2>2, <2>3, AgentMoves
  <2>5. UNCHANGED <<comments, open>>
    BY <1>2 DEF ReadIssue
  <2>6. ASSUME ~overlapped'
        PROVE  /\ comments' <= 1
               /\ \A b, c \in Agents : Closing(b)' /\ Closing(c)' => b = c
               /\ \A b \in Agents : agent'[b].pc = "comment" /\ ~agent'[b].marked => comments' = 0
    <3>1. ~overlapped /\ (agent'[a] = Resting \/ \A b \in Agents \ {a} : ~Closing(b))
      BY <1>2, <2>6 DEF ReadIssue
    <3>2. CASE agent'[a] = Resting
      BY <2>4, <2>5, <3>1, <3>2 DEF TransportInv, Closing, Resting
    <3>3. CASE agent'[a] # Resting
      <4>1. apply /\ to = [pc |-> "comment", marked |-> comments > 0, open |-> open]
        BY <2>4, <3>3 DEF to
      <4>2. \A b \in Agents \ {a} : ~Closing(b)'
        BY <2>4, <3>1, <3>3 DEF Closing
      <4>3. agent'[a].marked = (comments > 0)
        BY <2>4, <4>1
      <4>4. ~agent'[a].marked => comments' = 0
        <5>1. comments > 0 \/ comments' = 0
          BY <2>5 DEF TransportInv
        <5>2. comments > 0 => agent'[a].marked
          BY <4>3, Zenon
        <5> QED
          BY <5>1, <5>2
      <4>5. \A b \in Agents : Closing(b)' => b = a
        BY <4>2
      <4>6. comments' <= 1
        BY <2>5, <3>1 DEF TransportInv
      <4>7. \A b \in Agents : agent'[b].pc = "comment" => Closing(b)'
        BY DEF Closing
      <4> QED
        BY <4>4, <4>5, <4>6, <4>7
    <3> QED
      BY <3>2, <3>3
  <2> QED
    BY <2>4, <2>5, <2>6 DEF TransportInv
<1>3. ASSUME NEW a \in Agents, Comment(a)
      PROVE  TransportInv'
  <2>1. PICK reached, answered \in BOOLEAN :
          /\ answered => reached
          /\ comments' = IF reached /\ ~agent[a].marked THEN comments + 1 ELSE comments
          /\ Moves(a, IF answered \/ agent[a].marked
                      THEN [pc |-> "close", open |-> agent[a].open] ELSE Resting)
    BY <1>3 DEF Comment
  <2> DEFINE to == IF answered \/ agent[a].marked
                   THEN [pc |-> "close", open |-> agent[a].open] ELSE Resting
  <2>2. agent[a].pc = "comment" /\ agent[a] \in AgentStates
    BY <1>3 DEF Comment, TransportInv
  <2>3. agent[a].open \in BOOLEAN /\ agent[a].marked \in BOOLEAN
    BY <2>2 DEF AgentStates, Resting
  <2>4. to \in AgentStates /\ to.pc # "comment"
    BY <2>3 DEF AgentStates, Resting
  <2>5. agent' = [agent EXCEPT ![a] = to]
    BY <2>1 DEF Moves
  <2> HIDE DEF to
  <2>6. /\ agent' \in [Agents -> AgentStates]
        /\ agent'[a] = to
        /\ \A b \in Agents \ {a} : agent'[b] = agent[b]
    BY <2>4, <2>5, AgentMoves
  <2>7. UNCHANGED <<open, overlapped>>
    BY <1>3 DEF Comment
  <2>8. Closing(a)
    BY <2>2 DEF Closing
  <2>9. comments' \in Nat
    BY <2>1 DEF TransportInv
  <2>10. ASSUME ~overlapped
         PROVE  /\ comments' <= 1
                /\ \A b, c \in Agents : Closing(b)' /\ Closing(c)' => b = c
                /\ \A b \in Agents : agent'[b].pc = "comment" /\ ~agent'[b].marked => comments' = 0
    <3>1. \A b \in Agents \ {a} : ~Closing(b)
      BY <2>8, <2>10 DEF TransportInv
    <3>2. \A b \in Agents \ {a} : ~Closing(b)' /\ agent'[b].pc # "comment"
      BY <2>6, <3>1 DEF Closing
    <3>3. comments' <= 1
      BY <2>1, <2>2, <2>10 DEF TransportInv
    <3> QED
      BY <2>4, <2>6, <3>2, <3>3
  <2> QED
    BY <2>6, <2>7, <2>9, <2>10 DEF TransportInv
<1>4. ASSUME NEW a \in Agents, Close(a)
      PROVE  TransportInv'
  <2>1. PICK reached, answered \in BOOLEAN :
          /\ open' = (open /\ ~(reached /\ agent[a].open))
          /\ Moves(a, IF answered \/ ~agent[a].open THEN [pc |-> "verify"] ELSE Resting)
    BY <1>4 DEF Close
  <2> DEFINE to == IF answered \/ ~agent[a].open THEN [pc |-> "verify"] ELSE Resting
  <2>2. to \in AgentStates /\ to.pc # "comment"
    BY DEF AgentStates, Resting
  <2>3. agent' = [agent EXCEPT ![a] = to]
    BY <2>1 DEF Moves
  <2> HIDE DEF to
  <2>4. /\ agent' \in [Agents -> AgentStates]
        /\ agent'[a] = to
        /\ \A b \in Agents \ {a} : agent'[b] = agent[b]
    BY <2>2, <2>3, AgentMoves
  <2>5. UNCHANGED <<comments, overlapped>> /\ Closing(a) /\ open' \in BOOLEAN
    BY <1>4, <2>1 DEF Close, Closing, TransportInv
  <2>6. \A b \in Agents : Closing(b)' => Closing(b)
    BY <2>4, <2>5 DEF Closing
  <2> QED
    BY <2>2, <2>4, <2>5, <2>6 DEF TransportInv
<1>5. ASSUME NEW a \in Agents, Verify(a)
      PROVE  TransportInv'
  <2>1. agent' = [agent EXCEPT ![a] = Resting] /\ Resting \in AgentStates
    BY <1>5 DEF Verify, Moves, AgentStates
  <2>2. /\ agent' \in [Agents -> AgentStates]
        /\ agent'[a] = Resting
        /\ \A b \in Agents \ {a} : agent'[b] = agent[b]
    BY <2>1, AgentMoves
  <2>3. UNCHANGED <<comments, open, overlapped>>
    BY <1>5 DEF Verify
  <2> QED
    BY <2>2, <2>3 DEF TransportInv, Closing, Resting
<1>6. CASE Reopen
  BY <1>6 DEF Reopen, TransportInv, Closing
<1>7. CASE UNCHANGED transportVars
  BY <1>7 DEF transportVars, TransportInv, Closing
<1> QED
  BY <1>1, <1>2, <1>3, <1>4, <1>5, <1>6, <1>7 DEF TransportNext

\* A closing command that is given again, after an error, a lost answer or a
\* reopening, does not comment a second time, however many agents and commands
\* there are, unless two of them ran beside each other (issueCommentClose).
THEOREM RetriesNeverRepeat == TransportSpec => []RetriesDoNotRepeat
<1>1. TransportInit => TransportInv
  BY DEF TransportInit, TransportInv, AgentStates, Closing, Resting
<1>2. TransportInv => RetriesDoNotRepeat
  BY DEF TransportInv, RetriesDoNotRepeat
<1> QED
  BY <1>1, <1>2, TransportStep, PTL DEF TransportSpec

-----------------------------------------------------------------------------
(* Prototypes: what a run has written or compared.                          *)

Contents == Versions \cup {Missing}
FileStates == [pc: {"file"}, check: BOOLEAN, sources: [Target -> Contents],
               next: Nat \ {0}, same: BOOLEAN]
MakerStates == {New} \cup [pc: {"over"}, result: {"ok", "error"}] \cup FileStates

\* Of a run that nobody has disturbed, the document is the one it read, and the
\* files before the next are as in it, unless a difference has been found.
FilesDone(m) ==
  maker[m].pc = "file" /\ ~disturbed[m] =>
    /\ maker[m].sources = document
    /\ maker[m].same =>
         \A i \in 1..Len(Targets) :
           i < maker[m].next => disk[Targets[i]] = document[Targets[i]]

PrototypeInv ==
  /\ document \in [Target -> Contents]
  /\ disk \in [Target -> Contents]
  /\ maker \in [Makers -> MakerStates]
  /\ disturbed \in [Makers -> BOOLEAN]
  /\ \A m \in Makers : FilesDone(m)
  /\ SuccessMeansCurrent

\* Every other run is disturbed by a write.
LEMMA Disturbs ==
  ASSUME PrototypeInv, NEW others \in SUBSET Makers, Disturb(others)
  PROVE  /\ disturbed' \in [Makers -> BOOLEAN]
         /\ \A m \in others : disturbed'[m]
         /\ \A m \in Makers \ others : disturbed'[m] = disturbed[m]
<1>1. disturbed' = [m \in Makers |-> disturbed[m] \/ m \in others]
  BY DEF Disturb
<1>2. ASSUME NEW m \in Makers \ others
      PROVE  disturbed'[m] = disturbed[m]
  <2>1. disturbed'[m] = (disturbed[m] \/ m \in others) /\ m \notin others
    BY <1>1
  <2>2. disturbed[m] \in BOOLEAN
    BY DEF PrototypeInv
  <2> QED
    BY <2>1, <2>2
<1> QED
  BY <1>1, <1>2

\* What holds of a run that a step leaves alone.
LEMMA MakerKept ==
  ASSUME NEW m \in Makers, FilesDone(m),
         maker[m] = Over("ok") /\ ~disturbed[m] => disk = document,
         maker'[m] = maker[m],
         disturbed'[m] \/ (disturbed'[m] = disturbed[m] /\ UNCHANGED <<document, disk>>)
  PROVE  /\ FilesDone(m)'
         /\ maker'[m] = Over("ok") /\ ~disturbed'[m] => disk' = document'
BY DEF FilesDone, Over

LEMMA FileStateFields ==
  ASSUME PrototypeInv, NEW m \in Makers, maker[m].pc = "file"
  PROVE  maker[m] \in FileStates
BY DEF PrototypeInv, MakerStates, New

LEMMA OversAreStates ==
  ASSUME NEW result \in {"ok", "error"}
  PROVE  Over(result) \in MakerStates /\ Over(result).pc = "over"
BY DEF Over, MakerStates

LEMMA AllFiles ==
  ASSUME Targets \in Seq(Target), PrototypeInv, NEW n \in Nat, n > Len(Targets),
         \A i \in 1..Len(Targets) : i < n => disk[Targets[i]] = document[Targets[i]]
  PROVE  disk = document
<1>1. Len(Targets) \in Nat /\ DOMAIN Targets = 1..Len(Targets)
  OBVIOUS
<1>2. \A i \in 1..Len(Targets) : i < n
  BY <1>1
<1>3. \A t \in Target : disk[t] = document[t]
  BY <1>1, <1>2 DEF Target
<1>4. disk \in [Target -> Contents] /\ document \in [Target -> Contents]
  BY DEF PrototypeInv
<1> QED
  BY <1>3, <1>4

LEMMA PrototypeStep ==
  ASSUME Targets \in Seq(Target), PrototypeInv, [PrototypeNext]_prototypeVars
  PROVE  PrototypeInv'
<1> DEFINE Reported(m) == maker[m] = Over("ok") /\ ~disturbed[m] => disk = document
<1>0. \A m \in Makers : FilesDone(m) /\ Reported(m)
  BY DEF PrototypeInv, SuccessMeansCurrent
<1>1. CASE EditDocument \/ EditFileByHand
  <2>1. Disturb(Makers) /\ maker' = maker
    BY <1>1 DEF EditDocument, EditFileByHand
  <2>2. document' \in [Target -> Contents] /\ disk' \in [Target -> Contents]
    BY <1>1 DEF EditDocument, EditFileByHand, PrototypeInv, Contents
  <2>3. disturbed' \in [Makers -> BOOLEAN] /\ \A m \in Makers : disturbed'[m]
    BY <2>1, Disturbs
  <2>4. \A m \in Makers : FilesDone(m)' /\ Reported(m)'
    BY <1>0, <2>1, <2>3, MakerKept
  <2> QED
    BY <2>1, <2>2, <2>3, <2>4 DEF PrototypeInv, SuccessMeansCurrent
<1>2. ASSUME NEW m \in Makers, Extract(m)
      PROVE  PrototypeInv'
  <2>1. PICK check \in BOOLEAN :
          maker' = [maker EXCEPT ![m] =
            IF Complete
            THEN [pc |-> "file", check |-> check, sources |-> document, next |-> 1, same |-> TRUE]
            ELSE Over("error")]
    BY <1>2 DEF Extract
  <2>2. UNCHANGED <<document, disk>> /\ disturbed' = [disturbed EXCEPT ![m] = FALSE]
    BY <1>2 DEF Extract
  <2> DEFINE file == [pc |-> "file", check |-> check, sources |-> document, next |-> 1,
                      same |-> TRUE]
  <2>3. file \in FileStates
    BY DEF FileStates, PrototypeInv
  <2>4. /\ maker' \in [Makers -> MakerStates]
        /\ maker'[m] \in {file, Over("error")}
        /\ \A l \in Makers \ {m} : maker'[l] = maker[l]
    BY <2>1, <2>3, OversAreStates DEF PrototypeInv, MakerStates
  <2>5. disturbed' \in [Makers -> BOOLEAN] /\ \A l \in Makers \ {m} : disturbed'[l] = disturbed[l]
    BY <2>2 DEF PrototypeInv
  <2>6. \A l \in Makers \ {m} : FilesDone(l)' /\ Reported(l)'
    BY <1>0, <2>2, <2>4, <2>5, MakerKept
  <2>7. FilesDone(m)'
    <3>1. CASE maker'[m] = file
      <4>1. maker'[m].sources = document' /\ maker'[m].next = 1
        BY <2>2, <3>1
      <4>2. \A i \in 1..Len(Targets) : ~(i < 1)
        OBVIOUS
      <4> QED
        BY <4>1, <4>2 DEF FilesDone
    <3>2. CASE maker'[m] = Over("error")
      BY <3>2 DEF FilesDone, Over
    <3> QED
      BY <2>4, <3>1, <3>2
  <2>8. Reported(m)'
    BY <2>4 DEF Over
  <2> QED
    BY <2>2, <2>4, <2>5, <2>6, <2>7, <2>8 DEF PrototypeInv, SuccessMeansCurrent
<1>3. ASSUME NEW m \in Makers, WriteFile(m)
      PROVE  PrototypeInv'
  <2> DEFINE r == maker[m]
             t == Here(m)
  <2>1. r \in FileStates /\ r.next <= Len(Targets) /\ Disturb(Makers \ {m})
    BY <1>3, FileStateFields DEF WriteFile, Under
  <2>2. /\ disk' = [disk EXCEPT ![t] = r.sources[t]]
        /\ maker' = [maker EXCEPT ![m].next = r.next + 1]
        /\ document' = document
    BY <1>3 DEF WriteFile
  <2>3. r.next \in 1..Len(Targets) /\ t = Targets[r.next] /\ t \in Target
    BY <2>1 DEF FileStates, Here, Target
  <2>4. /\ maker' \in [Makers -> MakerStates]
        /\ maker'[m] = [r EXCEPT !.next = r.next + 1]
        /\ \A l \in Makers \ {m} : maker'[l] = maker[l]
    <3>1. [r EXCEPT !.next = r.next + 1] \in FileStates
      BY <2>1 DEF FileStates
    <3> QED
      BY <2>2, <3>1 DEF PrototypeInv, MakerStates
  <2>5. disk' \in [Target -> Contents]
    BY <2>1, <2>2, <2>3 DEF FileStates, PrototypeInv
  <2>6. /\ disturbed' \in [Makers -> BOOLEAN]
        /\ \A l \in Makers \ {m} : disturbed'[l]
        /\ disturbed'[m] = disturbed[m]
    BY <2>1, Disturbs
  <2>7. \A l \in Makers \ {m} : FilesDone(l)' /\ Reported(l)'
    BY <1>0, <2>4, <2>6, MakerKept
  <2>8. /\ maker'[m].pc = "file" /\ maker'[m].sources = r.sources
        /\ maker'[m].same = r.same /\ maker'[m].next = r.next + 1
    BY <2>1, <2>4 DEF FileStates
  <2>9. FilesDone(m)'
    <3> SUFFICES ASSUME ~disturbed[m]
                 PROVE  /\ maker'[m].sources = document'
                        /\ maker'[m].same =>
                             \A i \in 1..Len(Targets) :
                               i < maker'[m].next => disk'[Targets[i]] = document'[Targets[i]]
      BY <2>6 DEF FilesDone
    <3>1. /\ r.sources = document
          /\ r.same => \A i \in 1..Len(Targets) :
                         i < r.next => disk[Targets[i]] = document[Targets[i]]
      BY <1>0, <1>3 DEF FilesDone, WriteFile, Under
    <3>2. ASSUME r.same, NEW i \in 1..Len(Targets), i < r.next + 1
          PROVE  disk'[Targets[i]] = document[Targets[i]]
      <4>1. i < r.next \/ i = r.next
        BY <2>3, <3>2
      <4>2. disk[Targets[i]] = document[Targets[i]] \/ Targets[i] = t
        BY <2>3, <3>1, <3>2, <4>1
      <4>3. Targets[i] \in Target /\ disk \in [Target -> Contents]
        BY DEF Target, PrototypeInv
      <4> QED
        BY <2>2, <3>1, <4>2, <4>3
    <3> QED
      BY <2>2, <2>8, <3>1, <3>2
  <2>10. Reported(m)'
    BY <2>8 DEF Over
  <2> QED
    BY <2>2, <2>4, <2>5, <2>6, <2>7, <2>9, <2>10 DEF PrototypeInv, SuccessMeansCurrent
<1>4. ASSUME NEW m \in Makers, CompareFile(m)
      PROVE  PrototypeInv'
  <2> DEFINE r == maker[m]
             t == Here(m)
             same == r.same /\ disk[t] = r.sources[t]
  <2>1. r \in FileStates /\ r.next <= Len(Targets) /\ UNCHANGED <<document, disk, disturbed>>
    BY <1>4, FileStateFields DEF CompareFile, Under
  <2>2. maker' = [maker EXCEPT ![m] = [[r EXCEPT !.next = r.next + 1] EXCEPT !.same = same]]
    BY <1>4 DEF CompareFile
  <2>3. r.next \in 1..Len(Targets) /\ t = Targets[r.next] /\ t \in Target
    BY <2>1 DEF FileStates, Here, Target
  <2>4. /\ maker' \in [Makers -> MakerStates]
        /\ maker'[m] = [[r EXCEPT !.next = r.next + 1] EXCEPT !.same = same]
        /\ \A l \in Makers \ {m} : maker'[l] = maker[l]
    <3>1. same \in BOOLEAN
      <4>1. CASE same
        BY <4>1
      <4>2. CASE ~same
        BY <4>2
      <4> QED
        BY <4>1, <4>2
    <3>2. \A s \in BOOLEAN : [[r EXCEPT !.next = r.next + 1] EXCEPT !.same = s] \in FileStates
      <4>1. [r EXCEPT !.next = r.next + 1] \in FileStates
        BY <2>1 DEF FileStates
      <4>2. \A f \in FileStates, s \in BOOLEAN : [f EXCEPT !.same = s] \in FileStates
        BY DEF FileStates
      <4> QED
        BY <4>1, <4>2
    <3>3. [[r EXCEPT !.next = r.next + 1] EXCEPT !.same = same] \in FileStates
      BY <3>1, <3>2
    <3> QED
      BY <2>2, <3>3 DEF PrototypeInv, MakerStates
  <2>5. \A l \in Makers \ {m} : FilesDone(l)' /\ Reported(l)'
    BY <1>0, <2>1, <2>4, MakerKept
  <2>6. /\ maker'[m].pc = "file" /\ maker'[m].sources = r.sources
        /\ maker'[m].same = same /\ maker'[m].next = r.next + 1
    BY <2>1, <2>4 DEF FileStates
  <2>7. FilesDone(m)'
    <3> SUFFICES ASSUME ~disturbed[m]
                 PROVE  /\ maker'[m].sources = document'
                        /\ maker'[m].same =>
                             \A i \in 1..Len(Targets) :
                               i < maker'[m].next => disk'[Targets[i]] = document'[Targets[i]]
      BY <2>1 DEF FilesDone
    <3>1. /\ r.sources = document
          /\ r.same => \A i \in 1..Len(Targets) :
                         i < r.next => disk[Targets[i]] = document[Targets[i]]
      BY <1>0, <1>4 DEF FilesDone, CompareFile, Under
    <3>2. ASSUME same, NEW i \in 1..Len(Targets), i < r.next + 1
          PROVE  disk[Targets[i]] = document[Targets[i]]
      <4>1. i < r.next \/ i = r.next
        BY <2>3, <3>2
      <4> QED
        BY <2>3, <3>1, <3>2, <4>1
    <3> QED
      BY <2>1, <2>6, <3>1, <3>2
  <2>8. Reported(m)'
    BY <2>6 DEF Over
  <2> QED
    BY <2>1, <2>4, <2>5, <2>7, <2>8 DEF PrototypeInv, SuccessMeansCurrent
<1>5. ASSUME NEW m \in Makers, Finish(m) \/ Breaks(m)
      PROVE  PrototypeInv'
  <2> DEFINE r == maker[m]
  <2>1. r \in FileStates /\ UNCHANGED <<document, disk, disturbed>>
    BY <1>5, FileStateFields DEF Finish, Breaks
  <2>2. PICK result \in {"ok", "error"} :
          /\ maker' = [maker EXCEPT ![m] = Over(result)]
          /\ result = "ok" => r.same /\ r.next > Len(Targets)
    BY <1>5 DEF Finish, Breaks
  <2>3. /\ maker' \in [Makers -> MakerStates]
        /\ maker'[m] = Over(result)
        /\ \A l \in Makers \ {m} : maker'[l] = maker[l]
    BY <2>2, OversAreStates DEF PrototypeInv
  <2>4. \A l \in Makers \ {m} : FilesDone(l)' /\ Reported(l)'
    BY <1>0, <2>1, <2>3, MakerKept
  <2>5. FilesDone(m)'
    BY <2>3, OversAreStates DEF FilesDone
  <2>6. Reported(m)'
    <3> SUFFICES ASSUME result = "ok", ~disturbed[m]
                 PROVE  disk = document
      BY <2>1, <2>3 DEF Over
    <3>1. \A i \in 1..Len(Targets) : i < r.next => disk[Targets[i]] = document[Targets[i]]
      BY <1>0, <2>1, <2>2 DEF FilesDone, FileStates
    <3>2. r.next \in Nat
      BY <2>1 DEF FileStates
    <3> QED
      BY <2>2, <3>1, <3>2, AllFiles
  <2> QED
    BY <2>1, <2>3, <2>4, <2>5, <2>6 DEF PrototypeInv, SuccessMeansCurrent
<1>6. CASE UNCHANGED prototypeVars
  BY <1>6 DEF prototypeVars, PrototypeInv, FilesDone, SuccessMeansCurrent, Over
<1> QED
  BY <1>1, <1>2, <1>3, <1>4, <1>5, <1>6 DEF PrototypeNext

\* A run that reports success has left, or has compared, every file as the
\* document has it, for any number of files, runs and versions, unless somebody
\* else wrote while it ran (materialize).
THEOREM SuccessAlwaysMeansCurrent == PrototypeSpec => []SuccessMeansCurrent
<1>1. PrototypeInit => PrototypeInv
  BY DEF PrototypeInit, PrototypeInv, Contents, MakerStates, FilesDone, SuccessMeansCurrent,
         New, Over
<1>2. PrototypeInv /\ [PrototypeNext]_prototypeVars => PrototypeInv'
  BY PrototypeStep, TargetsAssumption
<1>3. PrototypeInv => SuccessMeansCurrent
  BY DEF PrototypeInv
<1> QED
  BY <1>1, <1>2, <1>3, PTL DEF PrototypeSpec

-----------------------------------------------------------------------------
(* Upstream: the commit graph.                                              *)

CommitRecords == [parents: Seq(Nat), history: SUBSET Nat, line: SUBSET Nat]

\* The graph is closed under parents, histories and lines, and ancestry is
\* transitive.
GraphInv ==
  /\ graph \in Seq(CommitRecords)
  /\ \A c \in Commits :
       /\ c \in graph[c].history
       /\ graph[c].history \subseteq Commits
       /\ graph[c].line \subseteq Commits
       /\ MergeParents(c) \subseteq Commits
       /\ graph[c].parents # <<>> => graph[c].parents[1] \in Commits
       /\ \A d \in graph[c].history : graph[d].history \subseteq graph[c].history

RefsInv ==
  refs \in [Repositories -> [product: Commits, upstream: Commits, mirror: Commits,
                             baseline: Commits, remote: Commits]]

\* Commits are only added.
Grows == \A c \in Commits : c \in Commits' /\ graph'[c] = graph[c]

LEMMA GraphShape ==
  ASSUME GraphInv
  PROVE  /\ Len(graph) \in Nat
         /\ Commits = 1..Len(graph)
         /\ \A c \in Commits : graph[c] \in CommitRecords
BY DEF GraphInv, Commits

LEMMA AncestryIsTransitive ==
  ASSUME GraphInv, NEW a, NEW b, NEW c \in Commits, IsAncestor(a, b), IsAncestor(b, c)
  PROVE  IsAncestor(a, c)
BY DEF GraphInv, IsAncestor

LEMMA Appended ==
  ASSUME GraphInv, NEW parents \in Seq(Commits), graph' = Append(graph, NewCommit(parents))
  PROVE  /\ Grows
         /\ Len(graph) + 1 \in Commits'
         /\ GraphInv'
<1> DEFINE new == Len(graph) + 1
           fresh == NewCommit(parents)
           olds == {parents[i] : i \in DOMAIN parents}
           past == UNION {graph[c].history : c \in olds}
<1>1. /\ Len(graph) \in Nat /\ Commits = 1..Len(graph)
      /\ \A c \in Commits : graph[c] \in CommitRecords
  BY GraphShape
<1>2. olds \subseteq Commits
  OBVIOUS
<1>3. past \subseteq Commits
  BY <1>2 DEF GraphInv
<1>4. /\ fresh.parents = parents
      /\ fresh.history = {new} \cup past
      /\ fresh.line = {new} \cup IF parents = <<>> THEN {} ELSE graph[parents[1]].line
  BY DEF NewCommit
<1>5. fresh.line \subseteq {new} \cup Commits
  <2>1. parents # <<>> => parents[1] \in Commits
    OBVIOUS
  <2> QED
    BY <1>4, <2>1 DEF GraphInv
<1>6. fresh \in CommitRecords
  <2>1. Commits \subseteq Nat /\ new \in Nat
    BY <1>1
  <2>2. parents \in Seq(Nat) /\ fresh.history \in SUBSET Nat /\ fresh.line \in SUBSET Nat
    BY <1>3, <1>4, <1>5, <2>1, SeqMonotonic
  <2>3. fresh = [parents |-> fresh.parents, history |-> fresh.history, line |-> fresh.line]
    BY DEF NewCommit
  <2> QED
    BY <1>4, <2>2, <2>3 DEF CommitRecords
<1> HIDE DEF fresh
<1>7. /\ graph' \in Seq(CommitRecords)
      /\ Commits' = 1..new
      /\ graph'[new] = fresh
      /\ \A c \in Commits : graph'[c] = graph[c]
  <2>1. graph \in Seq(CommitRecords) /\ graph' = Append(graph, fresh)
    BY DEF GraphInv, fresh
  <2>2. /\ Append(graph, fresh) \in Seq(CommitRecords)
        /\ Len(Append(graph, fresh)) = new
        /\ Append(graph, fresh)[new] = fresh
        /\ \A c \in 1..Len(graph) : Append(graph, fresh)[c] = graph[c]
    BY <1>6, <2>1
  <2> QED
    BY <1>1, <2>1, <2>2 DEF Commits
<1>8. Grows /\ new \in Commits' /\ Commits \subseteq Commits'
  BY <1>1, <1>7 DEF Grows
<1>9. ASSUME NEW c \in Commits
      PROVE  /\ c \in graph'[c].history
             /\ graph'[c].history \subseteq Commits'
             /\ graph'[c].line \subseteq Commits'
             /\ MergeParents(c)' \subseteq Commits'
             /\ graph'[c].parents # <<>> => graph'[c].parents[1] \in Commits'
             /\ \A d \in graph'[c].history : graph'[d].history \subseteq graph'[c].history
  <2>1. MergeParents(c)' = MergeParents(c)
    BY <1>7 DEF MergeParents
  <2>2. /\ c \in graph[c].history /\ graph[c].history \subseteq Commits
        /\ graph[c].line \subseteq Commits /\ MergeParents(c) \subseteq Commits
        /\ graph[c].parents # <<>> => graph[c].parents[1] \in Commits
        /\ \A d \in graph[c].history : graph[d].history \subseteq graph[c].history
    BY DEF GraphInv
  <2> QED
    BY <1>7, <1>8, <2>1, <2>2
<1>10. ASSUME NEW c, c = new
       PROVE  /\ c \in graph'[c].history
              /\ graph'[c].history \subseteq Commits'
              /\ graph'[c].line \subseteq Commits'
              /\ MergeParents(c)' \subseteq Commits'
              /\ graph'[c].parents # <<>> => graph'[c].parents[1] \in Commits'
              /\ \A d \in graph'[c].history : graph'[d].history \subseteq graph'[c].history
  <2>1. MergeParents(c)' \subseteq Commits
    <3>1. graph'[c].parents = parents
      BY <1>4, <1>7, <1>10
    <3>2. \A i \in 2..Len(parents) : parents[i] \in Commits
      OBVIOUS
    <3> QED
      BY <3>1, <3>2 DEF MergeParents
  <2>2. ASSUME NEW d \in past
        PROVE  graph[d].history \subseteq past
    <3>1. PICK e \in olds : d \in graph[e].history
      OBVIOUS
    <3>2. graph[d].history \subseteq graph[e].history
      BY <1>2, <3>1 DEF GraphInv
    <3> QED
      BY <3>1, <3>2
  <2>3. ASSUME NEW d \in {new} \cup past
        PROVE  graph'[d].history \subseteq {new} \cup past
    <3>1. CASE d = new
      BY <1>4, <1>7, <3>1
    <3>2. CASE d \in past
      BY <1>3, <1>7, <2>2, <3>2
    <3> QED
      BY <3>1, <3>2
  <2>4. /\ graph'[c].history = {new} \cup past
        /\ graph'[c].line \subseteq {new} \cup Commits
        /\ {new} \cup Commits \subseteq Commits'
        /\ graph'[c].parents = parents
    BY <1>4, <1>5, <1>7, <1>8, <1>10
  <2>5. parents # <<>> => parents[1] \in Commits
    OBVIOUS
  <2> HIDE DEF past, new
  <2> QED
    BY <1>3, <1>10, <2>1, <2>3, <2>4, <2>5
<1>11. \A c \in Commits' : c \in Commits \/ c = new
  BY <1>1, <1>7
<1> QED
  <2>1. \A c \in Commits' :
          /\ c \in graph'[c].history
          /\ graph'[c].history \subseteq Commits'
          /\ graph'[c].line \subseteq Commits'
          /\ MergeParents(c)' \subseteq Commits'
          /\ graph'[c].parents # <<>> => graph'[c].parents[1] \in Commits'
          /\ \A d \in graph'[c].history : graph'[d].history \subseteq graph'[c].history
    BY <1>9, <1>10, <1>11
  <2> QED
    BY <1>7, <1>8, <2>1 DEF GraphInv

\* A finite set of numbers has a greatest one.
LEMMA MaxOfSet ==
  ASSUME NEW S \in SUBSET Nat, IsFiniteSet(S), NEW e \in S
  PROVE  Max(S) \in S
<1> DEFINE above(x) == {y \in S : y > x}
           T == {above(x) : x \in S}
<1>1. T \subseteq FiniteSubsetsOf(S)
  BY FS_Subset DEF FiniteSubsetsOf
<1>2. IsWellFoundedOn(StrictSubsetOrdering(S), FiniteSubsetsOf(S))
  BY FS_StrictSubsetOrderingWellFounded
<1>3. T # {}
  OBVIOUS
<1>4. PICK U \in T : \A V \in T : ~(<<V, U>> \in StrictSubsetOrdering(S))
  BY <1>1, <1>2, <1>3, WFMin
<1>5. PICK x \in S : U = above(x)
  OBVIOUS
<1>6. ASSUME NEW y \in S, y > x
      PROVE  FALSE
  <2>1. above(y) \subseteq above(x) /\ y \in above(x) /\ y \notin above(y)
    <3>1. \A z \in S : z > y => z > x
      BY <1>6
    <3>2. ~(y > y)
      OBVIOUS
    <3> QED
      BY <1>6, <3>1, <3>2
  <2>2. above(y) \in T /\ above(y) \subseteq S /\ above(x) \subseteq S
    OBVIOUS
  <2>3. <<above(y), above(x)>> \in StrictSubsetOrdering(S)
    BY <2>1, <2>2 DEF StrictSubsetOrdering
  <2> QED
    BY <1>4, <1>5, <2>2, <2>3
<1>7. \A y \in S : x >= y
  BY <1>6
<1> QED
  BY <1>7 DEF Max

-----------------------------------------------------------------------------
(* Upstream: what the files and the runs hold.                              *)

Checkpoints == [integrated: Commits, merge: Commits \cup {Null}, observed: Commits]
Entries == [target: Commits, integrated: Commits, merge: Commits \cup {Null}]

Backed(at) == at.merge # Null => at.integrated \in MergeParents(at.merge)

\* A root state, saved or about to be.
StateOK(s) ==
  /\ s = [current |-> s.current, repositories |-> s.repositories]
  /\ \E R \in SUBSET Repositories : s.repositories \in [R -> Checkpoints]
  /\ \A repo \in DOMAIN s.repositories : Backed(s.repositories[repo])
  /\ s.current # Null => s.current \in DOMAIN changes

\* The state of a change.
ChangeOK(ch) ==
  /\ ch = [map |-> ch.map, pending |-> ch.pending]
  /\ \E R \in SUBSET Repositories : ch.pending \in [R -> Entries]

SameFrozen(ch, old) ==
  /\ DOMAIN ch.pending = DOMAIN old.pending
  /\ \A repo \in DOMAIN old.pending : ch.pending[repo].target = old.pending[repo].target

ChangesOK ==
  /\ changes = [n \in DOMAIN changes |-> changes[n]]
  /\ \A n \in DOMAIN changes : ChangeOK(changes[n])

AtGraph(r) ==
  /\ r = [pc |-> r.pc, root |-> r.root]
  /\ r.pc \in {"fetch", "collect"}
  /\ StateOK(r.root)

AtPublish(r) ==
  /\ r = [pc |-> r.pc, name |-> r.name, next |-> r.next]
  /\ r.pc \in {"publish", "root"}
  /\ r.next \in [Repositories -> Checkpoints]
  /\ \A repo \in Repositories : Backed(r.next[repo])
  /\ r.pc = "root" => r.name \in DOMAIN changes

AtRecord(r) ==
  /\ r = [pc |-> r.pc, name |-> r.name, change |-> r.change, root |-> r.root]
  /\ r.pc \in {"change", "checkpoint"}
  /\ StateOK(r.root)
  /\ ChangeOK(r.change)
  /\ r.name \in DOMAIN changes
  /\ SameFrozen(r.change, changes[r.name])

RunOK(r) == r = Idle \/ AtGraph(r) \/ AtPublish(r) \/ AtRecord(r)

SyncBase ==
  /\ GraphInv
  /\ RefsInv
  /\ ChangesOK
  /\ StateOK(root)
  /\ run = [t \in Tools |-> run[t]]
  /\ \A t \in Tools : RunOK(run[t])
  /\ untroubled \in BOOLEAN

\* Changes are only added, and what they froze stays.
Frozen == \A n \in DOMAIN changes : n \in DOMAIN changes' /\ SameFrozen(changes'[n], changes[n])

LEMMA RunKinds ==
  ASSUME NEW r, RunOK(r)
  PROVE  /\ r.pc = "idle" <=> r = Idle
         /\ r.pc \in {"fetch", "collect"} => AtGraph(r)
         /\ r.pc \in {"publish", "root"} => AtPublish(r)
         /\ r.pc \in {"change", "checkpoint"} => AtRecord(r)
         /\ r.pc \in {"idle", "fetch", "collect", "publish", "root", "change", "checkpoint"}
BY DEF RunOK, Idle, AtGraph, AtPublish, AtRecord

LEMMA CommitsGrow ==
  ASSUME Grows
  PROVE  Commits \subseteq Commits'
BY DEF Grows

LEMMA BackedKept ==
  ASSUME Grows, NEW at \in Checkpoints, Backed(at)
  PROVE  at \in Checkpoints' /\ Backed(at)'
<1>1. at \in Checkpoints'
  <2>1. /\ at = [integrated |-> at.integrated, merge |-> at.merge, observed |-> at.observed]
        /\ at.integrated \in Commits /\ at.merge \in Commits \cup {Null} /\ at.observed \in Commits
    BY DEF Checkpoints
  <2> QED
    BY <2>1, CommitsGrow DEF Checkpoints
<1>2. at.merge \in Commits => MergeParents(at.merge)' = MergeParents(at.merge)
  BY DEF Grows, MergeParents
<1>3. at.merge \in Commits \cup {Null}
  BY DEF Checkpoints
<1> QED
  BY <1>1, <1>2, <1>3 DEF Backed

LEMMA StateKept ==
  ASSUME Grows, DOMAIN changes \subseteq DOMAIN changes', NEW s, StateOK(s)
  PROVE  StateOK(s)'
<1>1. PICK R \in SUBSET Repositories : s.repositories \in [R -> Checkpoints]
  BY DEF StateOK
<1>2. \A repo \in R : /\ s.repositories[repo] \in Checkpoints'
                      /\ Backed(s.repositories[repo])'
  BY <1>1, BackedKept DEF StateOK
<1>3. s.repositories \in [R -> Checkpoints']
  BY <1>1, <1>2
<1> QED
  BY <1>1, <1>2, <1>3 DEF StateOK

LEMMA ChangeKept ==
  ASSUME Grows, NEW ch, ChangeOK(ch)
  PROVE  ChangeOK(ch)'
<1>1. PICK R \in SUBSET Repositories : ch.pending \in [R -> Entries]
  BY DEF ChangeOK
<1>2. Entries \subseteq Entries'
  BY CommitsGrow DEF Entries
<1>3. ch.pending \in [R -> Entries']
  BY <1>1, <1>2
<1> QED
  BY <1>1, <1>3 DEF ChangeOK

LEMMA RunKept ==
  ASSUME Grows, Frozen, NEW r, RunOK(r)
  PROVE  RunOK(r)'
<1>1. DOMAIN changes \subseteq DOMAIN changes'
  BY DEF Frozen
<1>2. CASE r = Idle
  BY <1>2 DEF RunOK, Idle
<1>3. CASE AtGraph(r)
  BY <1>1, <1>3, StateKept DEF RunOK, AtGraph
<1>4. CASE AtPublish(r)
  <2>1. \A repo \in Repositories : /\ r.next[repo] \in Checkpoints'
                                   /\ Backed(r.next[repo])'
    BY <1>4, BackedKept DEF AtPublish
  <2>2. r.next \in [Repositories -> Checkpoints']
    BY <1>4, <2>1 DEF AtPublish
  <2> QED
    BY <1>1, <1>4, <2>1, <2>2 DEF RunOK, AtPublish
<1>5. CASE AtRecord(r)
  <2>1. StateOK(r.root)' /\ ChangeOK(r.change)'
    BY <1>1, <1>5, StateKept, ChangeKept DEF AtRecord
  <2>2. SameFrozen(r.change, changes'[r.name])
    BY <1>5 DEF AtRecord, Frozen, SameFrozen
  <2> QED
    BY <1>1, <1>5, <2>1, <2>2 DEF RunOK, AtRecord, SameFrozen
<1> QED
  BY <1>2, <1>3, <1>4, <1>5 DEF RunOK

\* A run moves and the others stay.
LEMMA RunMoves ==
  ASSUME SyncBase, NEW t \in Tools, NEW v, run' = [run EXCEPT ![t] = v]
  PROVE  /\ run' = [u \in Tools |-> run'[u]]
         /\ run'[t] = v
         /\ \A u \in Tools \ {t} : run'[u] = run[u]
BY DEF SyncBase

LEMMA BaseMoves ==
  ASSUME SyncBase, NEW t \in Tools, NEW v, run' = [run EXCEPT ![t] = v],
         Grows, Frozen, GraphInv', RefsInv', ChangesOK', StateOK(root)', RunOK(v)',
         untroubled' \in BOOLEAN
  PROVE  SyncBase'
<1>1. /\ run' = [u \in Tools |-> run'[u]]
      /\ run'[t] = v
      /\ \A u \in Tools \ {t} : run'[u] = run[u]
  BY RunMoves
<1>2. \A u \in Tools : RunOK(run[u])'
  BY RunKept DEF SyncBase
<1> QED
  BY <1>1, <1>2 DEF SyncBase

\* What collectRepository makes of a checkpoint, or of none: every field is a
\* commit of the graph, a merge backs what it says, and a saved checkpoint stays.
LEMMA BootstrapBacked ==
  ASSUME GraphInv, NEW product \in Commits, NEW upstream \in Commits, NEW baseline \in Commits,
         Cardinality(MergeBases(product, upstream)) = 1
  PROVE  LET at == Bootstrap(product, upstream, baseline)
         IN  /\ at.integrated \in Commits
             /\ at.merge \in Commits \cup {Null}
             /\ Backed(at)
<1> DEFINE merges == {c \in graph[product].line \ graph[baseline].history :
                        \E p \in MergeParents(c) : IsAncestor(p, upstream)}
           newest == Max(merges)
           at == Bootstrap(product, upstream, baseline)
<1>1. Len(graph) \in Nat /\ Commits = 1..Len(graph)
  BY GraphShape
<1>2. IsFiniteSet(Commits) /\ Commits \subseteq Nat
  <2>1. Len(graph) \in Int /\ 1 \in Int
    BY <1>1
  <2>2. IsFiniteSet(1..Len(graph))
    BY <2>1, FS_Interval
  <2> QED
    BY <1>1, <2>2
<1>3. CASE merges # {}
  <2>1. merges \subseteq Commits
    BY DEF GraphInv
  <2>2. newest \in merges
    BY <1>2, <1>3, <2>1, FS_Subset, MaxOfSet
  <2>3. PICK p \in MergeParents(newest) : IsAncestor(p, upstream)
    BY <2>2
  <2>4. /\ at.integrated = CHOOSE q \in MergeParents(newest) : IsAncestor(q, upstream)
        /\ at.merge = newest
    BY <1>3 DEF Bootstrap
  <2>5. at.integrated \in MergeParents(newest)
    BY <2>3, <2>4
  <2>6. MergeParents(newest) \subseteq Commits
    BY <2>1, <2>2 DEF GraphInv
  <2> QED
    BY <2>1, <2>2, <2>4, <2>5, <2>6 DEF Backed
<1>4. CASE merges = {}
  <2> DEFINE bases == MergeBases(product, upstream)
  <2>1. bases \subseteq Commits
    BY DEF MergeBases, GraphInv
  <2>2. PICK c : bases = {c}
    BY <1>2, <2>1, FS_Subset, FS_Singleton
  <2>3. at.integrated = (CHOOSE b \in bases : TRUE) /\ at.merge = Null
    BY <1>4 DEF Bootstrap
  <2>4. at.integrated \in bases
    BY <2>2, <2>3
  <2> QED
    BY <2>1, <2>3, <2>4 DEF Backed
<1> QED
  BY <1>3, <1>4

LEMMA SavedIsCheckpoint ==
  ASSUME NEW s, StateOK(s), NEW repo \in Repositories, SavedEntry(s, repo) # Null
  PROVE  /\ repo \in DOMAIN s.repositories
         /\ SavedEntry(s, repo) = s.repositories[repo]
         /\ s.repositories[repo] \in Checkpoints
         /\ Backed(s.repositories[repo])
BY DEF SavedEntry, StateOK

LEMMA CollectedIsBacked ==
  ASSUME GraphInv, RefsInv, NEW s, StateOK(s), NEW repo \in Repositories,
         ~Refused(repo, SavedEntry(s, repo))
  PROVE  LET saved == SavedEntry(s, repo)
             next == Collected(repo, saved)
         IN  /\ next \in Checkpoints
             /\ Backed(next)
             /\ saved # Null => next.integrated = s.repositories[repo].integrated
<1> DEFINE saved == SavedEntry(s, repo)
           next == Collected(repo, saved)
           r == refs[repo]
           at == IF saved # Null THEN saved ELSE Bootstrap(r.product, r.upstream, r.baseline)
<1>1. r.product \in Commits /\ r.upstream \in Commits /\ r.baseline \in Commits
  BY DEF RefsInv
<1>2. Cardinality(MergeBases(r.product, r.upstream)) = 1
  BY DEF Refused
<1>3. at.integrated \in Commits /\ at.merge \in Commits \cup {Null} /\ Backed(at)
  <2>1. CASE saved # Null
    BY <2>1, SavedIsCheckpoint DEF Checkpoints
  <2>2. CASE saved = Null
    BY <1>1, <1>2, <2>2, BootstrapBacked
  <2> QED
    BY <2>1, <2>2
<1>4. next = [integrated |-> at.integrated, merge |-> at.merge, observed |-> r.upstream]
  BY DEF Collected
<1>5. saved # Null => at = s.repositories[repo]
  BY SavedIsCheckpoint
<1> HIDE DEF at, next, saved
<1> QED
  BY <1>1, <1>3, <1>4, <1>5 DEF Checkpoints, Backed, next, saved

LEMMA FrozenChangeOK ==
  ASSUME RefsInv, NEW next \in [Repositories -> Checkpoints]
  PROVE  /\ ChangeOK(FrozenChange(next))
         /\ \A repo \in DOMAIN FrozenChange(next).pending :
              FrozenChange(next).pending[repo].merge = Null
<1> DEFINE pending == {repo \in Repositories : next[repo].integrated # next[repo].observed}
           entries == [repo \in pending |->
                         [target |-> next[repo].observed, integrated |-> next[repo].integrated,
                          merge |-> Null]]
<1>1. FrozenChange(next) = [map |-> map, pending |-> entries]
  BY DEF FrozenChange
<1>2. entries \in [pending -> Entries]
  BY DEF Checkpoints, Entries
<1>3. pending \in SUBSET Repositories
  OBVIOUS
<1> QED
  BY <1>1, <1>2, <1>3 DEF ChangeOK

-----------------------------------------------------------------------------
(* Upstream: while runs neither die nor overlap.                            *)

\* A state whose checkpoint of a repository contains a commit.
Reach(s, repo, c) ==
  repo \in DOMAIN s.repositories /\ IsAncestor(c, s.repositories[repo].integrated)

Ahead(old, s) ==
  \A repo \in DOMAIN old.repositories : Reach(s, repo, old.repositories[repo].integrated)

\* The merges recorded in a change are in a state.
Recorded(ch, s) ==
  \A repo \in DOMAIN ch.pending :
    ch.pending[repo].merge # Null => Reach(s, repo, ch.pending[repo].target)

\* What a run has read is still so, and what it is about to write is ahead of it.
Current(r) ==
  /\ r.pc \in {"fetch", "collect"} => r.root = root
  /\ r.pc \in {"publish", "root"} =>
       \A repo \in DOMAIN root.repositories :
         r.next[repo].integrated = root.repositories[repo].integrated
  /\ r.pc \in {"change", "checkpoint"} => Ahead(root, r.root)
  /\ r.pc = "change" => Recorded(r.change, r.root)
  /\ r.pc = "checkpoint" => \A n \in DOMAIN changes : Recorded(changes[n], r.root)

AllRecorded ==
  (\A t \in Tools : run[t].pc # "checkpoint") => \A n \in DOMAIN changes : Recorded(changes[n], root)

CalmInv ==
  untroubled =>
    /\ \A t, u \in Tools : run[t].pc # "idle" /\ run[u].pc # "idle" => t = u
    /\ \A t \in Tools : Current(run[t])
    /\ AllRecorded

LEMMA ReachKept ==
  ASSUME Grows, NEW s, StateOK(s), NEW repo, NEW c, Reach(s, repo, c)
  PROVE  Reach(s, repo, c)'
<1>1. s.repositories[repo].integrated \in Commits
  BY DEF StateOK, Reach, Checkpoints
<1> QED
  BY <1>1 DEF Grows, Reach, IsAncestor

LEMMA RecordedKept ==
  ASSUME Grows, NEW s, StateOK(s), NEW ch, Recorded(ch, s)
  PROVE  Recorded(ch, s)'
BY ReachKept DEF Recorded

LEMMA AheadKept ==
  ASSUME Grows, NEW s, StateOK(s), NEW old, Ahead(old, s)
  PROVE  Ahead(old, s)'
BY ReachKept DEF Ahead

LEMMA RecordedAhead ==
  ASSUME GraphInv, NEW old, NEW s, StateOK(s), Ahead(old, s), NEW ch, Recorded(ch, old)
  PROVE  Recorded(ch, s)
<1>1. ASSUME NEW repo \in DOMAIN ch.pending, ch.pending[repo].merge # Null
      PROVE  Reach(s, repo, ch.pending[repo].target)
  <2>1. Reach(old, repo, ch.pending[repo].target)
    BY <1>1 DEF Recorded
  <2>2. Reach(s, repo, old.repositories[repo].integrated)
    BY <2>1 DEF Reach, Ahead
  <2>3. s.repositories[repo].integrated \in Commits
    BY <2>2 DEF StateOK, Reach, Checkpoints
  <2> QED
    BY <2>1, <2>2, <2>3, AncestryIsTransitive DEF Reach
<1> QED
  BY <1>1 DEF Recorded

LEMMA AheadOfItself ==
  ASSUME GraphInv, NEW s, StateOK(s)
  PROVE  Ahead(s, s)
BY DEF Ahead, Reach, IsAncestor, GraphInv, StateOK, Checkpoints

LEMMA OthersIdle ==
  ASSUME CalmInv, untroubled, NEW t \in Tools, run[t].pc # "idle"
  PROVE  \A u \in Tools \ {t} : run[u].pc = "idle"
BY DEF CalmInv

LEMMA CalmMoves ==
  ASSUME SyncBase, NEW t \in Tools, NEW v, run' = [run EXCEPT ![t] = v],
         untroubled' => \A u \in Tools \ {t} : run[u].pc = "idle",
         untroubled' => Current(v)',
         untroubled' /\ v.pc # "checkpoint"
           => (\A n \in DOMAIN changes : Recorded(changes[n], root))'
  PROVE  CalmInv'
<1>1. run'[t] = v /\ \A u \in Tools \ {t} : run'[u] = run[u]
  BY RunMoves
<1> SUFFICES ASSUME untroubled'
             PROVE  /\ \A u, w \in Tools : run'[u].pc # "idle" /\ run'[w].pc # "idle" => u = w
                    /\ \A u \in Tools : Current(run[u])'
                    /\ AllRecorded'
  BY DEF CalmInv
<1>2. \A u \in Tools \ {t} : run'[u].pc = "idle"
  BY <1>1
<1>3. \A u \in Tools \ {t} : Current(run[u])'
  BY <1>2 DEF Current
<1>4. Current(run[t])'
  BY <1>1
<1>5. AllRecorded'
  BY <1>1 DEF AllRecorded
<1> QED
  BY <1>2, <1>3, <1>4, <1>5

SyncInv == SyncBase /\ CalmInv

\* What a step promises besides the invariant.
StepFacts == Frozen /\ (untroubled => Ahead(root, root'))

LEMMA UnchangedIsFrozen ==
  ASSUME changes' = changes
  PROVE  Frozen
BY DEF Frozen, SameFrozen

LEMMA RootStays ==
  ASSUME SyncBase, root' = root
  PROVE  Ahead(root, root')
BY AheadOfItself DEF SyncBase

\* Steps of the world around the tool.
LEMMA OutsideKeeps ==
  ASSUME SyncInv, Grows, GraphInv', RefsInv', UNCHANGED <<root, changes, run, untroubled>>
  PROVE  SyncInv' /\ StepFacts
<1>1. Frozen /\ StepFacts
  BY UnchangedIsFrozen, RootStays DEF StepFacts, SyncInv
<1>2. ChangesOK'
  BY ChangeKept DEF SyncInv, SyncBase, ChangesOK
<1>3. StateOK(root)'
  BY StateKept DEF SyncInv, SyncBase
<1>4. \A t \in Tools : RunOK(run[t])'
  BY <1>1, RunKept DEF SyncInv, SyncBase
<1>5. SyncBase'
  BY <1>2, <1>3, <1>4 DEF SyncInv, SyncBase
<1>6. CalmInv'
  <2> SUFFICES ASSUME untroubled
               PROVE  CalmInv'
    BY DEF CalmInv
  <2>1. ASSUME NEW t \in Tools
        PROVE  Current(run[t])'
    <3>1. RunOK(run[t]) /\ Current(run[t])
      BY DEF SyncInv, SyncBase, CalmInv
    <3>2. run[t].pc \in {"change", "checkpoint"} => StateOK(run[t].root)
      BY <3>1, RunKinds DEF AtRecord
    <3>3. run[t].pc \in {"change", "checkpoint"} => Ahead(root, run[t].root)'
      BY <3>1, <3>2, AheadKept DEF Current
    <3>4. run[t].pc = "change" => Recorded(run[t].change, run[t].root)'
      BY <3>1, <3>2, RecordedKept DEF Current
    <3>5. run[t].pc = "checkpoint" =>
            \A n \in DOMAIN changes : Recorded(changes[n], run[t].root)'
      BY <3>1, <3>2, RecordedKept DEF Current
    <3> QED
      BY <3>1, <3>3, <3>4, <3>5 DEF Current
  <2>2. AllRecorded'
    BY RecordedKept DEF SyncInv, SyncBase, CalmInv, AllRecorded
  <2> QED
    BY <2>1, <2>2 DEF SyncInv, CalmInv
<1> QED
  BY <1>1, <1>5, <1>6 DEF SyncInv

LEMMA CommitKeeps ==
  ASSUME SyncInv, NEW repo \in Repositories, NEW ref \in {"remote", "product"},
         NEW parents \in Seq(Commits), Commit(repo, ref, parents)
  PROVE  SyncInv' /\ StepFacts
<1>1. Grows /\ Len(graph) + 1 \in Commits' /\ GraphInv'
  BY Appended DEF SyncInv, SyncBase, Commit
<1>2. RefsInv'
  <2>1. Commits \subseteq Commits'
    BY <1>1, CommitsGrow
  <2>2. /\ refs \in [Repositories -> [product: Commits', upstream: Commits', mirror: Commits',
                                      baseline: Commits', remote: Commits']]
    BY <2>1 DEF SyncInv, SyncBase, RefsInv
  <2>3. refs' = [refs EXCEPT ![repo][ref] = Len(graph) + 1]
    BY DEF Commit
  <2> QED
    BY <1>1, <2>2, <2>3 DEF RefsInv
<1> QED
  BY <1>1, <1>2, OutsideKeeps DEF Commit

LEMMA RefMovesKeeps ==
  ASSUME SyncInv, NEW repo \in Repositories, NEW ref \in {"product", "mirror"},
         NEW c \in Commits, RefMoves(repo, ref, c)
  PROVE  SyncInv' /\ StepFacts
<1>1. Grows /\ GraphInv'
  BY DEF RefMoves, Grows, Commits, SyncInv, SyncBase, GraphInv, MergeParents
<1>2. RefsInv'
  BY DEF RefMoves, RefsInv, Commits, SyncInv, SyncBase
<1> QED
  BY <1>1, <1>2, OutsideKeeps DEF RefMoves

LEMMA OutsideStep ==
  ASSUME SyncInv,
         \/ \E repo \in Repositories :
              \/ UpstreamCommits(repo) \/ UpstreamRewrites(repo)
              \/ ProductMerges(repo) \/ ProductResets(repo) \/ MirrorMoves(repo)
         \/ EditMap
         \/ UNCHANGED upstreamVars
  PROVE  SyncInv' /\ StepFacts
<1> DEFINE Post == SyncInv' /\ StepFacts
<1>1. ASSUME NEW repo \in Repositories
      PROVE  /\ refs[repo].remote \in Commits /\ refs[repo].product \in Commits
             /\ refs[repo].upstream \in Commits
             /\ \A c \in Commits : graph[c].history \subseteq Commits
  BY DEF SyncInv, SyncBase, RefsInv, GraphInv
<1>2. ASSUME NEW repo \in Repositories, UpstreamCommits(repo)
      PROVE  Post
  <2>1. <<refs[repo].remote>> \in Seq(Commits)
    BY <1>1
  <2> QED
    BY <1>2, <2>1, CommitKeeps DEF UpstreamCommits
<1>3. ASSUME NEW repo \in Repositories, UpstreamRewrites(repo)
      PROVE  Post
  <2>1. PICK parents \in {<<>>} \cup {<<c>> : c \in graph[refs[repo].remote].history \ {refs[repo].remote}} :
          Commit(repo, "remote", parents)
    BY <1>3 DEF UpstreamRewrites
  <2>2. \A c \in graph[refs[repo].remote].history : <<c>> \in Seq(Commits)
    BY <1>1
  <2>3. parents \in Seq(Commits)
    BY <2>2, EmptySeq
  <2> QED
    BY <2>1, <2>3, CommitKeeps
<1>4. ASSUME NEW repo \in Repositories, ProductMerges(repo)
      PROVE  Post
  <2>1. PICK c \in graph[refs[repo].upstream].history \ graph[refs[repo].product].history :
          Commit(repo, "product", <<refs[repo].product, c>>)
    BY <1>4 DEF ProductMerges
  <2>2. <<refs[repo].product, c>> \in Seq(Commits)
    BY <1>1
  <2> QED
    BY <2>1, <2>2, CommitKeeps
<1>5. ASSUME NEW repo \in Repositories, ProductResets(repo)
      PROVE  Post
  <2>1. graph[refs[repo].product].parents[1] \in Commits
    BY <1>1, <1>5 DEF ProductResets, SyncInv, SyncBase, GraphInv
  <2> QED
    BY <1>5, <2>1, RefMovesKeeps DEF ProductResets
<1>6. ASSUME NEW repo \in Repositories, MirrorMoves(repo)
      PROVE  Post
  BY <1>1, <1>6, RefMovesKeeps DEF MirrorMoves
<1>7. ASSUME EditMap \/ UNCHANGED upstreamVars
      PROVE  Post
  <2>1. UNCHANGED <<graph, refs, root, changes, run, untroubled>>
    BY <1>7 DEF EditMap, upstreamVars
  <2>2. Grows /\ GraphInv' /\ RefsInv'
    BY <2>1 DEF Grows, Commits, SyncInv, SyncBase, GraphInv, MergeParents, RefsInv
  <2> QED
    BY <2>1, <2>2, OutsideKeeps
<1> QED
  BY <1>2, <1>3, <1>4, <1>5, <1>6, <1>7

\* The graph does not move with a run.
LEMMA GraphStays ==
  ASSUME SyncBase, graph' = graph
  PROVE  /\ Grows /\ GraphInv'
         /\ refs' = refs => RefsInv'
         /\ \A s : StateOK(s) /\ changes' = changes => StateOK(s)'
         /\ \A ch, s : Recorded(ch, s) => Recorded(ch, s)'
         /\ \A old, s : Ahead(old, s) => Ahead(old, s)'
<1>1. Grows
  BY DEF Grows, Commits
<1>2. \A s : StateOK(s) /\ changes' = changes => StateOK(s)'
  BY <1>1, StateKept
<1>3. \A repo, c, s : Reach(s, repo, c) => Reach(s, repo, c)'
  BY DEF Reach, IsAncestor
<1> QED
  BY <1>1, <1>2, <1>3 DEF SyncBase, GraphInv, Commits, MergeParents, RefsInv, Recorded, Ahead

\* Nothing is written: a run reads, computes, refuses or dies.
LEMMA ReadKeeps ==
  ASSUME SyncInv, UNCHANGED <<graph, root, changes>>, RefsInv',
         NEW t \in Tools, NEW v, run' = [run EXCEPT ![t] = v], RunOK(v),
         untroubled' \in BOOLEAN, untroubled' => untroubled,
         untroubled' => \A u \in Tools \ {t} : run[u].pc = "idle",
         untroubled' => Current(v), v.pc # "checkpoint",
         untroubled' => \A n \in DOMAIN changes : Recorded(changes[n], root)
  PROVE  SyncInv' /\ StepFacts
<1>1. Grows /\ GraphInv' /\ StateOK(root)'
  BY GraphStays DEF SyncInv, SyncBase
<1>2. Frozen /\ StepFacts
  BY UnchangedIsFrozen, RootStays DEF StepFacts, SyncInv
<1>3. ChangesOK'
  BY <1>1, ChangeKept DEF SyncInv, SyncBase, ChangesOK
<1>4. RunOK(v)'
  BY <1>1, <1>2, RunKept
<1>5. SyncBase'
  BY <1>1, <1>2, <1>3, <1>4, BaseMoves DEF SyncInv
<1>6. untroubled' => Current(v)'
  <2>1. \A ch, s : Recorded(ch, s) => Recorded(ch, s)'
    BY GraphStays DEF SyncInv
  <2>2. \A old, s : Ahead(old, s) => Ahead(old, s)'
    BY GraphStays DEF SyncInv
  <2> QED
    BY <2>1, <2>2 DEF Current
<1>7. untroubled' => (\A n \in DOMAIN changes : Recorded(changes[n], root))'
  BY GraphStays DEF SyncInv
<1>8. CalmInv'
  BY <1>6, <1>7, CalmMoves DEF SyncInv
<1> QED
  BY <1>2, <1>5, <1>8 DEF SyncInv

\* While nothing troubles, all is recorded unless a run is about to write.
LEMMA RecordedWhile ==
  ASSUME CalmInv, untroubled, NEW t \in Tools, run[t].pc # "checkpoint",
         \A u \in Tools \ {t} : run[u].pc = "idle"
  PROVE  \A n \in DOMAIN changes : Recorded(changes[n], root)
BY DEF CalmInv, AllRecorded

LEMMA IdleRun ==
  RunOK(Idle) /\ Idle.pc = "idle" /\ Current(Idle)
BY DEF RunOK, Idle, Current

LEMMA StartIsAlone ==
  ASSUME NEW t \in Tools, NEW v, Start(t, v), untroubled'
  PROVE  untroubled /\ \A u \in Tools : run[u].pc = "idle"
BY DEF Start, Running

LEMMA BeginsStep ==
  ASSUME SyncInv, NEW t \in Tools, AssessBegins(t)
  PROVE  SyncInv' /\ StepFacts
<1>1. PICK fetch \in BOOLEAN :
        Start(t, [pc |-> IF fetch THEN "fetch" ELSE "collect", root |-> root])
  BY DEF AssessBegins
<1>2. PICK v : v = [pc |-> IF fetch THEN "fetch" ELSE "collect", root |-> root]
  OBVIOUS
<1>3. UNCHANGED <<graph, refs, root, changes>> /\ Start(t, v)
  BY <1>1, <1>2 DEF AssessBegins
<1>4. run' = [run EXCEPT ![t] = v] /\ run[t] = Idle
  BY <1>3 DEF Start
<1>5. untroubled' \in BOOLEAN /\ (untroubled' => untroubled)
  BY <1>3 DEF Start, SyncInv, SyncBase
<1>6. RunOK(v) /\ Current(v) /\ v.pc # "checkpoint"
  BY <1>2 DEF RunOK, AtGraph, Current, SyncInv, SyncBase
<1>7. untroubled' => \A u \in Tools \ {t} : run[u].pc = "idle"
  BY <1>3, StartIsAlone
<1>8. untroubled' => \A n \in DOMAIN changes : Recorded(changes[n], root)
  BY <1>4, <1>5, <1>7, RecordedWhile, IdleRun DEF SyncInv
<1>9. RefsInv'
  BY <1>3, GraphStays DEF SyncInv, SyncBase
<1> QED
  BY <1>3, <1>4, <1>5, <1>6, <1>7, <1>8, <1>9, ReadKeeps

\* A step of a run that was under way and writes nothing.
LEMMA UnderWayKeeps ==
  ASSUME SyncInv, UNCHANGED <<graph, root, changes>>, RefsInv',
         NEW t \in Tools, run[t].pc \notin {"idle", "checkpoint"},
         NEW v, run' = [run EXCEPT ![t] = v], RunOK(v), v.pc # "checkpoint",
         untroubled' \in BOOLEAN, untroubled' => untroubled,
         untroubled => Current(v)
  PROVE  SyncInv' /\ StepFacts
<1>1. untroubled => \A u \in Tools \ {t} : run[u].pc = "idle"
  BY OthersIdle DEF SyncInv
<1>2. untroubled => \A n \in DOMAIN changes : Recorded(changes[n], root)
  BY <1>1, RecordedWhile DEF SyncInv
<1> QED
  BY <1>1, <1>2, ReadKeeps

LEMMA FetchesStep ==
  ASSUME SyncInv, NEW t \in Tools, AssessFetches(t)
  PROVE  SyncInv' /\ StepFacts
<1>1. PICK v : v = [run[t] EXCEPT !.pc = "collect"]
  OBVIOUS
<1>2. /\ UNCHANGED <<graph, root, changes, untroubled>>
      /\ run[t].pc = "fetch" /\ run' = [run EXCEPT ![t] = v]
  BY <1>1 DEF AssessFetches
<1>3. AtGraph(run[t])
  BY <1>2, RunKinds DEF SyncInv, SyncBase
<1>4. v = [pc |-> "collect", root |-> run[t].root]
  BY <1>1, <1>3 DEF AtGraph
<1>5. RunOK(v)
  BY <1>3, <1>4 DEF AtGraph, RunOK
<1>6. untroubled => Current(v)
  BY <1>2, <1>4 DEF SyncInv, CalmInv, Current
<1>7. RefsInv'
  <2>1. PICK fetched \in SUBSET Repositories :
          refs' = [repo \in Repositories |->
                     IF repo \in fetched THEN [refs[repo] EXCEPT !.upstream = refs[repo].remote]
                     ELSE refs[repo]]
    BY DEF AssessFetches
  <2> QED
    BY <1>2, <2>1 DEF SyncInv, SyncBase, RefsInv, Commits
<1>8. untroubled \in BOOLEAN
  BY DEF SyncInv, SyncBase
<1> QED
  BY <1>2, <1>4, <1>5, <1>6, <1>7, <1>8, UnderWayKeeps

\* A run ends, or dies, without having written in this step.
LEMMA EndKeeps ==
  ASSUME SyncInv, UNCHANGED <<graph, refs, root, changes>>,
         NEW t \in Tools, run[t].pc # "idle", Ends(t),
         untroubled' = FALSE \/ (untroubled' = untroubled /\ run[t].pc # "checkpoint")
  PROVE  SyncInv' /\ StepFacts
<1>1. PICK v : v = Idle
  OBVIOUS
<1>2. run' = [run EXCEPT ![t] = v]
  BY <1>1 DEF Ends
<1>3. untroubled' \in BOOLEAN /\ (untroubled' => untroubled)
  <2>1. untroubled \in BOOLEAN
    BY DEF SyncInv, SyncBase
  <2>2. CASE untroubled' = FALSE
    BY <2>2
  <2>3. CASE untroubled' = untroubled
    BY <2>1, <2>3
  <2> QED
    BY <2>2, <2>3
<1>4. RefsInv'
  BY GraphStays DEF SyncInv, SyncBase
<1>5. untroubled' => \A u \in Tools \ {t} : run[u].pc = "idle"
  BY <1>3, OthersIdle DEF SyncInv
<1>6. untroubled' => \A n \in DOMAIN changes : Recorded(changes[n], root)
  BY <1>3, <1>5, RecordedWhile DEF SyncInv
<1>7. RunOK(v) /\ Current(v) /\ v.pc # "checkpoint"
  BY <1>1, IdleRun
<1> QED
  BY <1>2, <1>3, <1>4, <1>5, <1>6, <1>7, ReadKeeps

LEMMA CollectsStep ==
  ASSUME NullIsNoCheckpoint, SyncInv, NEW t \in Tools, AssessCollects(t)
  PROVE  SyncInv' /\ StepFacts
<1> DEFINE s == run[t].root
           next == [repo \in Repositories |-> Collected(repo, SavedEntry(s, repo))]
<1>1. /\ UNCHANGED <<graph, refs, root, changes, untroubled>>
      /\ run[t].pc = "collect"
  BY DEF AssessCollects
<1>2. StateOK(s)
  BY <1>1, RunKinds DEF SyncInv, SyncBase, AtGraph
<1>3. CASE Ends(t)
  BY <1>1, <1>3, EndKeeps
<1>4. CASE /\ \A repo \in Repositories : ~Refused(repo, SavedEntry(s, repo))
           /\ run' = [run EXCEPT ![t] = [pc |-> "publish", name |-> UnusedName, next |-> next]]
  <2>1. PICK v : v = [pc |-> "publish", name |-> UnusedName, next |-> next]
    OBVIOUS
  <2>2. ASSUME NEW repo \in Repositories
        PROVE  /\ next[repo] \in Checkpoints
               /\ Backed(next[repo])
               /\ SavedEntry(s, repo) # Null =>
                    next[repo].integrated = s.repositories[repo].integrated
    <3>1. next[repo] = Collected(repo, SavedEntry(s, repo))
      OBVIOUS
    <3>2. GraphInv /\ RefsInv /\ ~Refused(repo, SavedEntry(s, repo))
      BY <1>4 DEF SyncInv, SyncBase
    <3> QED
      BY <1>2, <3>1, <3>2, CollectedIsBacked
  <2>3. next \in [Repositories -> Checkpoints]
    BY <2>2
  <2>4. /\ v = [pc |-> v.pc, name |-> v.name, next |-> v.next]
        /\ v.pc = "publish" /\ v.next = next
    BY <2>1
  <2>5. RunOK(v)
    BY <2>2, <2>3, <2>4 DEF RunOK, AtPublish
  <2>6. untroubled => Current(v)
    <3> SUFFICES ASSUME untroubled, NEW repo \in DOMAIN root.repositories
                 PROVE  next[repo].integrated = root.repositories[repo].integrated
      BY <2>4 DEF Current
    <3>1. s = root
      BY <1>1 DEF SyncInv, CalmInv, Current
    <3>2. root.repositories[repo] \in Checkpoints /\ repo \in Repositories
      BY DEF SyncInv, SyncBase, StateOK
    <3>3. root.repositories[repo] # Null
      <4>1. Commits \subseteq Nat
        BY DEF SyncInv, SyncBase, GraphInv, Commits
      <4> QED
        BY <3>2, <4>1 DEF NullIsNoCheckpoint, Checkpoints
    <3>4. SavedEntry(s, repo) # Null
      BY <3>1, <3>3 DEF SavedEntry
    <3> QED
      BY <2>2, <3>1, <3>2, <3>4
  <2>7. RefsInv' /\ untroubled' \in BOOLEAN
    BY <1>1, GraphStays DEF SyncInv, SyncBase
  <2>8. run' = [run EXCEPT ![t] = v] /\ v.pc # "checkpoint"
    BY <1>4, <2>1, <2>4
  <2> QED
    BY <1>1, <2>5, <2>6, <2>7, <2>8, UnderWayKeeps
<1> QED
  BY <1>3, <1>4 DEF AssessCollects

\* A run that proves an integration has read a state that will only move forward.
LEMMA ProvesStep ==
  ASSUME SyncInv, NEW t \in Tools, RecordProves(t)
  PROVE  SyncInv' /\ StepFacts
<1>1. PICK name \in DOMAIN changes, repo \in Repositories, merge, upstream \in Commits :
        LET change == changes[name]
            saved == SavedEntry(root, repo)
        IN /\ repo \in DOMAIN change.pending
           /\ saved # Null
           /\ Provable(repo, merge, upstream, change.pending[repo], saved)
           /\ Start(t, [pc |-> "change", name |-> name,
                change |-> [change EXCEPT !.pending[repo].merge = merge],
                root |-> [root EXCEPT !.repositories[repo] =
                            [@ EXCEPT !.integrated = upstream, !.merge = merge]]])
  BY DEF RecordProves
<1> DEFINE old == changes[name]
           ch == [old EXCEPT !.pending[repo].merge = merge]
           s == [root EXCEPT !.repositories[repo] =
                   [@ EXCEPT !.integrated = upstream, !.merge = merge]]
<1>2. merge \in Commits
  BY <1>1
<1>3. PICK v : v = [pc |-> "change", name |-> name, change |-> ch, root |-> s]
  OBVIOUS
<1>4. /\ UNCHANGED <<graph, refs, root, changes>>
      /\ Start(t, v)
      /\ repo \in DOMAIN old.pending
      /\ Provable(repo, merge, upstream, old.pending[repo], SavedEntry(root, repo))
  BY <1>1, <1>3 DEF RecordProves
<1>5. /\ repo \in DOMAIN root.repositories
      /\ SavedEntry(root, repo) = root.repositories[repo]
      /\ root.repositories[repo] \in Checkpoints
  BY <1>1, SavedIsCheckpoint DEF SyncInv, SyncBase
<1>6. /\ upstream \in MergeParents(merge)
      /\ old.pending[repo].target = upstream
      /\ IsAncestor(root.repositories[repo].integrated, upstream)
  BY <1>4, <1>5 DEF Provable
<1>7. /\ s = [current |-> root.current, repositories |-> s.repositories]
      /\ DOMAIN s.repositories = DOMAIN root.repositories
      /\ s.repositories[repo].integrated = upstream /\ s.repositories[repo].merge = merge
      /\ s.repositories[repo] \in Checkpoints
      /\ \A other \in DOMAIN root.repositories \ {repo} :
           s.repositories[other] = root.repositories[other]
  <2>1. root = [current |-> root.current, repositories |-> root.repositories]
    BY DEF SyncInv, SyncBase, StateOK
  <2> DEFINE at == [root.repositories[repo] EXCEPT !.integrated = upstream, !.merge = merge]
  <2>2. at \in Checkpoints /\ at.integrated = upstream /\ at.merge = merge
    BY <1>2, <1>5 DEF Checkpoints
  <2>3. PICK R \in SUBSET Repositories : root.repositories \in [R -> Checkpoints]
    BY DEF SyncInv, SyncBase, StateOK
  <2>4. s.repositories = [root.repositories EXCEPT ![repo] = at]
    BY <1>5, <2>1, <2>3
  <2> HIDE DEF at
  <2>5. s = [current |-> root.current, repositories |-> s.repositories]
    BY <2>1
  <2> QED
    BY <1>5, <2>2, <2>3, <2>4, <2>5
<1>8. StateOK(s)
  <2>1. PICK R \in SUBSET Repositories : root.repositories \in [R -> Checkpoints]
    BY DEF SyncInv, SyncBase, StateOK
  <2>2. s.repositories \in [R -> Checkpoints]
    <3>1. \A other \in R : s.repositories[other] \in Checkpoints
      BY <1>7, <2>1
    <3>2. s.repositories = [other \in DOMAIN s.repositories |-> s.repositories[other]]
      BY <1>7, <2>1
    <3> QED
      BY <1>7, <2>1, <3>1, <3>2
  <2>3. \A other \in DOMAIN s.repositories : Backed(s.repositories[other])
    BY <1>6, <1>7 DEF SyncInv, SyncBase, StateOK, Backed
  <2>4. root.current # Null => root.current \in DOMAIN changes
    BY DEF SyncInv, SyncBase, StateOK
  <2>5. s.current = root.current
    BY <1>7
  <2> HIDE DEF s
  <2> QED
    BY <1>7, <2>2, <2>3, <2>4, <2>5 DEF StateOK
<1>9. /\ ChangeOK(ch)
      /\ DOMAIN ch.pending = DOMAIN old.pending
      /\ \A other \in DOMAIN old.pending : ch.pending[other].target = old.pending[other].target
      /\ \A other \in DOMAIN old.pending \ {repo} : ch.pending[other] = old.pending[other]
  <2>1. old = [map |-> old.map, pending |-> old.pending]
    BY DEF SyncInv, SyncBase, ChangesOK, ChangeOK
  <2>2. PICK R \in SUBSET Repositories : old.pending \in [R -> Entries]
    BY DEF SyncInv, SyncBase, ChangesOK, ChangeOK
  <2> DEFINE entry == [old.pending[repo] EXCEPT !.merge = merge]
  <2>3. repo \in R /\ entry \in Entries /\ entry.target = old.pending[repo].target
    BY <1>2, <1>4, <2>2 DEF Entries
  <2>4. ch = [map |-> old.map, pending |-> [old.pending EXCEPT ![repo] = entry]]
    BY <2>1
  <2> HIDE DEF entry, ch
  <2> QED
    BY <2>2, <2>3, <2>4 DEF ChangeOK
<1> HIDE DEF s, ch
<1>10. /\ v = [pc |-> v.pc, name |-> v.name, change |-> v.change, root |-> v.root]
       /\ v.pc = "change" /\ v.name = name /\ v.change = ch /\ v.root = s
  BY <1>3
<1>11. RunOK(v)
  BY <1>8, <1>9, <1>10 DEF RunOK, AtRecord, SameFrozen
<1>12. run' = [run EXCEPT ![t] = v] /\ run[t] = Idle
  BY <1>4 DEF Start
<1>13. untroubled' \in BOOLEAN /\ (untroubled' => untroubled)
  BY <1>4 DEF Start, SyncInv, SyncBase
<1>14. untroubled' => \A u \in Tools \ {t} : run[u].pc = "idle"
  BY <1>4, StartIsAlone
<1>15. untroubled' => \A n \in DOMAIN changes : Recorded(changes[n], root)
  BY <1>12, <1>13, <1>14, RecordedWhile, IdleRun DEF SyncInv
<1>16. Ahead(root, s)
  <2>1. Ahead(root, root)
    BY AheadOfItself DEF SyncInv, SyncBase
  <2> QED
    BY <1>6, <1>7, <2>1 DEF Ahead, Reach
<1>17. untroubled' => Recorded(ch, s)
  <2> SUFFICES ASSUME untroubled'
               PROVE  Recorded(ch, s)
    OBVIOUS
  <2>1. Recorded(old, s)
    BY <1>8, <1>15, <1>16, RecordedAhead DEF SyncInv, SyncBase
  <2>2. Reach(s, repo, upstream)
    BY <1>5, <1>7 DEF Reach, IsAncestor, SyncInv, SyncBase, GraphInv
  <2> QED
    BY <1>6, <1>9, <2>1, <2>2 DEF Recorded
<1>18. untroubled' => Current(v)
  BY <1>10, <1>16, <1>17 DEF Current
<1>19. RefsInv'
  BY <1>4, GraphStays DEF SyncInv, SyncBase
<1> QED
  BY <1>4, <1>10, <1>11, <1>12, <1>13, <1>14, <1>15, <1>18, <1>19, ReadKeeps

\* A change is added or rewritten; the graph, the references and the root stay.
LEMMA ChangeWrites ==
  ASSUME SyncInv, UNCHANGED <<graph, refs, root, untroubled>>,
         NEW n, NEW ch, ChangeOK(ch),
         changes' = [m \in DOMAIN changes \cup {n} |-> IF m = n THEN ch ELSE changes[m]],
         n \in DOMAIN changes => SameFrozen(ch, changes[n]),
         NEW t \in Tools, run[t].pc # "idle", NEW v, run' = [run EXCEPT ![t] = v], RunOK(v)',
         untroubled => Current(v)',
         untroubled /\ v.pc # "checkpoint"
           => (\A m \in DOMAIN changes : Recorded(changes[m], root))'
  PROVE  SyncInv' /\ StepFacts
<1>1. Grows /\ GraphInv' /\ RefsInv'
  BY GraphStays DEF SyncInv, SyncBase
<1>2. DOMAIN changes' = DOMAIN changes \cup {n} /\ changes'[n] = ch
      /\ \A m \in DOMAIN changes \ {n} : changes'[m] = changes[m]
  OBVIOUS
<1>3. Frozen
  BY <1>2 DEF Frozen, SameFrozen
<1>4. ChangesOK'
  <2>1. \A m \in DOMAIN changes' : ChangeOK(changes'[m])
    BY <1>2 DEF SyncInv, SyncBase, ChangesOK
  <2>2. \A m \in DOMAIN changes' : ChangeOK(changes[m])'
    BY <1>1, <2>1, ChangeKept
  <2>3. changes' = [m \in DOMAIN changes' |-> changes'[m]]
    BY <1>2
  <2> QED
    BY <2>2, <2>3 DEF ChangesOK
<1>5. StateOK(root)'
  BY <1>1, <1>2, StateKept DEF SyncInv, SyncBase
<1>6. SyncBase'
  BY <1>1, <1>3, <1>4, <1>5, BaseMoves DEF SyncInv, SyncBase
<1>7. CalmInv'
  BY OthersIdle, CalmMoves DEF SyncInv
<1>8. StepFacts
  BY <1>3, RootStays DEF StepFacts, SyncInv
<1> QED
  BY <1>6, <1>7, <1>8 DEF SyncInv

LEMMA PublishesStep ==
  ASSUME SyncInv, NEW t \in Tools, AssessPublishes(t)
  PROVE  SyncInv' /\ StepFacts
<1>1. UNCHANGED <<graph, refs, root, untroubled>> /\ run[t].pc = "publish"
  BY DEF AssessPublishes
<1>2. AtPublish(run[t])
  BY <1>1, RunKinds DEF SyncInv, SyncBase
<1>3. CASE run[t].name \in DOMAIN changes
  BY <1>1, <1>3, EndKeeps DEF AssessPublishes
<1>4. CASE run[t].name \notin DOMAIN changes
  <2>1. PICK n, ch, v : /\ n = run[t].name /\ ch = FrozenChange(run[t].next)
                        /\ v = [run[t] EXCEPT !.pc = "root"]
    OBVIOUS
  <2>2. /\ changes' = [m \in DOMAIN changes \cup {n} |-> IF m = n THEN ch ELSE changes[m]]
        /\ run' = [run EXCEPT ![t] = v]
    BY <1>4, <2>1 DEF AssessPublishes
  <2>3. ChangeOK(ch) /\ \A repo \in DOMAIN ch.pending : ch.pending[repo].merge = Null
    BY <1>2, <2>1, FrozenChangeOK DEF AtPublish, SyncInv, SyncBase
  <2>4. v = [pc |-> "root", name |-> n, next |-> run[t].next]
    BY <1>2, <2>1 DEF AtPublish
  <2>5. n \notin DOMAIN changes /\ DOMAIN changes' = DOMAIN changes \cup {n} /\ changes'[n] = ch
        /\ \A m \in DOMAIN changes : changes'[m] = changes[m]
    BY <1>4, <2>1, <2>2
  <2>6. Grows /\ Frozen
    BY <1>1, <2>5, GraphStays DEF Frozen, SameFrozen, SyncInv
  <2>7. RunOK(v)'
    <3>1. PICK w : w = run[t]
      OBVIOUS
    <3>2. RunOK(w)'
      BY <2>6, <3>1, RunKept DEF SyncInv, SyncBase
    <3>3. w.pc = "publish" /\ AtPublish(w)'
      BY <1>1, <3>1, <3>2 DEF RunOK, Idle, AtGraph, AtPublish, AtRecord
    <3> QED
      BY <2>4, <2>5, <3>1, <3>3 DEF AtPublish, RunOK
  <2>8. untroubled => Current(v)'
    <3> SUFFICES ASSUME untroubled, NEW repo \in DOMAIN root.repositories
                 PROVE  v.next[repo].integrated = root.repositories[repo].integrated
      BY <1>1, <2>4 DEF Current
    <3> QED
      BY <1>1, <2>4 DEF SyncInv, CalmInv, Current
  <2>9. untroubled => (\A m \in DOMAIN changes : Recorded(changes[m], root))'
    <3> SUFFICES ASSUME untroubled
                 PROVE  (\A m \in DOMAIN changes : Recorded(changes[m], root))'
      OBVIOUS
    <3>1. \A m \in DOMAIN changes : Recorded(changes[m], root)
      BY <1>1, OthersIdle, RecordedWhile DEF SyncInv
    <3>2. Recorded(ch, root)
      BY <2>3 DEF Recorded
    <3>3. \A m \in DOMAIN changes' : Recorded(changes'[m], root)
      BY <2>5, <3>1, <3>2
    <3> QED
      BY <1>1, <3>3 DEF Recorded, Reach, IsAncestor
  <2> QED
    BY <1>1, <1>2, <2>2, <2>3, <2>5, <2>7, <2>8, <2>9, ChangeWrites
<1> QED
  BY <1>3, <1>4

LEMMA WritesChangeStep ==
  ASSUME SyncInv, NEW t \in Tools, RecordWritesChange(t)
  PROVE  SyncInv' /\ StepFacts
<1>1. UNCHANGED <<graph, refs, root, untroubled>> /\ run[t].pc = "change"
  BY DEF RecordWritesChange
<1>2. AtRecord(run[t])
  BY <1>1, RunKinds DEF SyncInv, SyncBase
<1>3. PICK n, ch, v, s : /\ n = run[t].name /\ ch = run[t].change /\ s = run[t].root
                         /\ v = [run[t] EXCEPT !.pc = "checkpoint"]
  OBVIOUS
<1>4. v = [pc |-> "checkpoint", name |-> n, change |-> ch, root |-> s]
  BY <1>2, <1>3 DEF AtRecord
<1>5. n \in DOMAIN changes /\ ChangeOK(ch) /\ SameFrozen(ch, changes[n]) /\ StateOK(s)
  BY <1>2, <1>3 DEF AtRecord
<1>6. /\ changes' = [m \in DOMAIN changes \cup {n} |-> IF m = n THEN ch ELSE changes[m]]
      /\ run' = [run EXCEPT ![t] = v]
  <2>1. changes = [m \in DOMAIN changes |-> changes[m]]
    BY DEF SyncInv, SyncBase, ChangesOK
  <2>2. changes' = [changes EXCEPT ![n] = ch] /\ run' = [run EXCEPT ![t] = v]
    BY <1>3 DEF RecordWritesChange
  <2>3. DOMAIN changes \cup {n} = DOMAIN changes
    BY <1>5
  <2> QED
    BY <2>1, <2>2, <2>3
<1>7. /\ DOMAIN changes' = DOMAIN changes /\ changes'[n] = ch
      /\ \A m \in DOMAIN changes \ {n} : changes'[m] = changes[m]
  BY <1>5, <1>6
<1>8. Grows /\ Frozen
  BY <1>1, <1>5, <1>7, GraphStays DEF Frozen, SameFrozen, SyncInv
<1>9. RunOK(v)'
  <2>1. StateOK(s)' /\ ChangeOK(ch)'
    BY <1>5, <1>7, <1>8, StateKept, ChangeKept
  <2>2. SameFrozen(ch, changes'[n])
    BY <1>7 DEF SameFrozen
  <2> QED
    BY <1>4, <1>5, <1>7, <2>1, <2>2 DEF RunOK, AtRecord, SameFrozen
<1>10. untroubled => Current(v)'
  <2> SUFFICES ASSUME untroubled
               PROVE  Current(v)'
    OBVIOUS
  <2>1. Ahead(root, s) /\ Recorded(ch, s)
    BY <1>1, <1>3 DEF SyncInv, CalmInv, Current
  <2>2. \A m \in DOMAIN changes : Recorded(changes[m], root)
    BY <1>1, OthersIdle, RecordedWhile DEF SyncInv
  <2>3. \A m \in DOMAIN changes : Recorded(changes[m], s)
    BY <1>5, <2>1, <2>2, RecordedAhead DEF SyncInv, SyncBase
  <2>4. \A m \in DOMAIN changes' : Recorded(changes'[m], s)
    BY <1>7, <2>1, <2>3
  <2>5. (\A m \in DOMAIN changes : Recorded(changes[m], s))'
    BY <1>1, <2>4 DEF Recorded, Reach, IsAncestor
  <2>6. Ahead(root, s)'
    BY <1>1, <2>1, GraphStays DEF SyncInv
  <2> QED
    BY <1>4, <2>5, <2>6 DEF Current
<1> QED
  BY <1>1, <1>4, <1>5, <1>6, <1>9, <1>10, ChangeWrites

\* A run that was under way writes the root and ends.
LEMMA RootWrites ==
  ASSUME SyncInv, UNCHANGED <<graph, refs, changes, untroubled>>,
         NEW t \in Tools, run[t].pc # "idle", Ends(t),
         NEW s, root' = s, StateOK(s),
         untroubled => /\ Ahead(root, s)
                       /\ \A n \in DOMAIN changes : Recorded(changes[n], s)
  PROVE  SyncInv' /\ StepFacts
<1>1. Grows /\ GraphInv' /\ RefsInv' /\ StateOK(s)'
  BY GraphStays DEF SyncInv, SyncBase
<1>2. Frozen /\ StepFacts
  BY UnchangedIsFrozen DEF StepFacts
<1>3. ChangesOK'
  BY <1>1, ChangeKept DEF SyncInv, SyncBase, ChangesOK
<1>4. PICK v : v = Idle
  OBVIOUS
<1>5. run' = [run EXCEPT ![t] = v]
  BY <1>4 DEF Ends
<1>6. RunOK(v)' /\ Current(v)' /\ v.pc = "idle"
  BY <1>4 DEF RunOK, Idle, Current
<1>7. StateOK(root)'
  BY <1>1 DEF StateOK
<1>8. SyncBase'
  BY <1>1, <1>2, <1>3, <1>5, <1>6, <1>7, BaseMoves DEF SyncInv, SyncBase
<1>9. untroubled => (\A n \in DOMAIN changes : Recorded(changes[n], root))'
  <2> SUFFICES ASSUME untroubled
               PROVE  \A n \in DOMAIN changes : Recorded(changes[n], s)'
    BY DEF Recorded, Reach
  <2> QED
    BY GraphStays DEF SyncInv
<1>10. CalmInv'
  BY <1>5, <1>6, <1>9, OthersIdle, CalmMoves DEF SyncInv
<1> QED
  BY <1>2, <1>8, <1>10 DEF SyncInv

LEMMA WritesRootStep ==
  ASSUME SyncInv, NEW t \in Tools, AssessWritesRoot(t)
  PROVE  SyncInv' /\ StepFacts
<1>1. UNCHANGED <<graph, refs, changes, untroubled>> /\ run[t].pc = "root" /\ Ends(t)
  BY DEF AssessWritesRoot
<1>2. AtPublish(run[t])
  BY <1>1, RunKinds DEF SyncInv, SyncBase
<1>3. PICK s : s = [current |-> run[t].name, repositories |-> run[t].next]
  OBVIOUS
<1>4. root' = s
  BY <1>3 DEF AssessWritesRoot
<1>5. s.current = run[t].name /\ s.repositories = run[t].next
  BY <1>3
<1>6. StateOK(s)
  BY <1>1, <1>2, <1>3, <1>5 DEF AtPublish, StateOK
<1>7. untroubled => Ahead(root, s)
  <2> SUFFICES ASSUME untroubled
               PROVE  Ahead(root, s)
    OBVIOUS
  <2>1. Ahead(root, root)
    BY AheadOfItself DEF SyncInv, SyncBase
  <2>2. \A repo \in DOMAIN root.repositories :
           run[t].next[repo].integrated = root.repositories[repo].integrated
    BY <1>1 DEF SyncInv, CalmInv, Current
  <2>3. DOMAIN root.repositories \subseteq DOMAIN s.repositories
    BY <1>2, <1>5 DEF SyncInv, SyncBase, StateOK, AtPublish
  <2> QED
    BY <1>5, <2>1, <2>2, <2>3 DEF Ahead, Reach
<1>8. untroubled => \A n \in DOMAIN changes : Recorded(changes[n], s)
  <2> SUFFICES ASSUME untroubled
               PROVE  \A n \in DOMAIN changes : Recorded(changes[n], s)
    OBVIOUS
  <2>1. \A n \in DOMAIN changes : Recorded(changes[n], root)
    BY <1>1, OthersIdle, RecordedWhile DEF SyncInv
  <2> QED
    BY <1>6, <1>7, <2>1, RecordedAhead DEF SyncInv, SyncBase
<1> QED
  BY <1>1, <1>4, <1>6, <1>7, <1>8, RootWrites

LEMMA RecordsRootStep ==
  ASSUME SyncInv, NEW t \in Tools, RecordWritesRoot(t)
  PROVE  SyncInv' /\ StepFacts
<1>1. UNCHANGED <<graph, refs, changes, untroubled>> /\ run[t].pc = "checkpoint" /\ Ends(t)
  BY DEF RecordWritesRoot
<1>2. PICK s : s = run[t].root
  OBVIOUS
<1>3. root' = s /\ StateOK(s)
  BY <1>1, <1>2, RunKinds DEF RecordWritesRoot, SyncInv, SyncBase, AtRecord
<1>4. untroubled => /\ Ahead(root, s)
                    /\ \A n \in DOMAIN changes : Recorded(changes[n], s)
  BY <1>1, <1>2 DEF SyncInv, CalmInv, Current
<1> QED
  BY <1>1, <1>3, <1>4, RootWrites

LEMMA DiesStep ==
  ASSUME SyncInv, NEW t \in Tools, Dies(t)
  PROVE  SyncInv' /\ StepFacts
<1>1. run[t].pc # "idle"
  BY RunKinds DEF Dies, SyncInv, SyncBase
<1> QED
  BY <1>1, EndKeeps DEF Dies

LEMMA SyncStep ==
  ASSUME NullIsNoCheckpoint, SyncInv, [UpstreamNext]_upstreamVars
  PROVE  SyncInv' /\ StepFacts
BY OutsideStep, BeginsStep, FetchesStep, CollectsStep, PublishesStep, WritesRootStep,
   ProvesStep, WritesChangeStep, RecordsRootStep, DiesStep DEF UpstreamNext

LEMMA SyncStart ==
  ASSUME UpstreamInit
  PROVE  SyncInv
<1>1. /\ graph = <<[parents |-> <<>>, history |-> {1}, line |-> {1}]>>
      /\ root = [current |-> Null, repositories |-> << >>]
      /\ changes = << >>
      /\ run = [t \in Tools |-> Idle] /\ untroubled = TRUE
  BY DEF UpstreamInit
<1>2. Commits = {1} /\ graph[1] = [parents |-> <<>>, history |-> {1}, line |-> {1}]
  BY <1>1 DEF Commits
<1>3. GraphInv
  <2>1. graph \in Seq(CommitRecords)
    BY <1>1 DEF CommitRecords
  <2>2. MergeParents(1) \subseteq Commits
    BY <1>2 DEF MergeParents
  <2> QED
    BY <1>2, <2>1, <2>2 DEF GraphInv
<1>4. RefsInv
  BY <1>2 DEF UpstreamInit, RefsInv
<1>5. DOMAIN changes = {} /\ DOMAIN root.repositories = {}
  BY <1>1
<1>6. ChangesOK
  BY <1>1, <1>5 DEF ChangesOK
<1>7. StateOK(root)
  <2>1. root.repositories \in [{} -> Checkpoints]
    BY <1>1
  <2> QED
    BY <1>1, <1>5, <2>1 DEF StateOK
<1>8. SyncBase
  BY <1>1, <1>3, <1>4, <1>6, <1>7, IdleRun DEF SyncBase
<1>9. CalmInv
  BY <1>1, <1>5, IdleRun DEF CalmInv, AllRecorded
<1> QED
  BY <1>8, <1>9 DEF SyncInv

LEMMA SyncTruth ==
  ASSUME SyncInv
  PROVE  CheckpointIsTrue
<1>1. RootIsBacked
  BY DEF SyncInv, SyncBase, StateOK, Backed, RootIsBacked
<1>2. RecordsReachTheRoot
  BY DEF SyncInv, CalmInv, AllRecorded, Recorded, Reach, Running, RecordsReachTheRoot
<1> QED
  BY <1>1, <1>2 DEF CheckpointIsTrue

\* Whatever runs of the tool overlap or die and however the history is rewritten,
\* the root state names a published change, a checkpoint with a merge is a commit
\* that this merge brought in, and, until runs have overlapped or died, every
\* recorded merge is in the checkpoint once its run has ended (assess,
\* recordIntegration).
THEOREM CheckpointsAreAlwaysTrue == UpstreamSpec => []CheckpointIsTrue
<1>1. SyncInv /\ [UpstreamNext]_upstreamVars => SyncInv'
  BY SyncStep, NullIsNoCheckpoint
<1> QED
  BY <1>1, SyncStart, SyncTruth, PTL DEF UpstreamSpec

\* A published change and the targets it froze stay for ever, and, until runs have
\* overlapped or died, a checkpoint only moves along upstream's history.
THEOREM CheckpointsMoveForward == UpstreamSpec => CheckpointMovesForward
<1>1. SyncInv /\ [UpstreamNext]_upstreamVars => SyncInv'
  BY SyncStep, NullIsNoCheckpoint
<1>2. ASSUME SyncInv, [UpstreamNext]_upstreamVars, untroubled
      PROVE  \A repo \in DOMAIN root.repositories :
               /\ repo \in DOMAIN root'.repositories
               /\ root.repositories[repo].integrated \in
                    graph[root'.repositories[repo].integrated].history
  BY <1>2, SyncStep, NullIsNoCheckpoint DEF StepFacts, Ahead, Reach, IsAncestor
<1>3. ASSUME SyncInv, [UpstreamNext]_upstreamVars
      PROVE  \A name \in DOMAIN changes :
               /\ name \in DOMAIN changes'
               /\ DOMAIN changes'[name].pending = DOMAIN changes[name].pending
               /\ \A repo \in DOMAIN changes[name].pending :
                    changes'[name].pending[repo].target = changes[name].pending[repo].target
  BY <1>3, SyncStep, NullIsNoCheckpoint DEF StepFacts, Frozen, SameFrozen
<1> QED
  BY <1>1, <1>2, <1>3, SyncStart, PTL DEF UpstreamSpec, CheckpointMovesForward,
     CheckpointKeepsHistory, FrozenTargetsStay

-----------------------------------------------------------------------------
(* Archives: what a run has read, and whose the file at the output path is. *)

Files == [kind : {"file", "link", "gone"}, size : Nat]
OpenEntry == [path : Path, offset : Nat, zip64 : BOOLEAN]
WholeEntry == [path : Path, offset : Nat, zip64 : BOOLEAN, size : Nat, compressed : Nat,
               kind : {"file"}]

Scanning == [pc : {"scan"}, options : Options, next : Nat \ {0}, candidates : Seq(Path)]

Between(r) ==
  /\ r.pc = "entry"
  /\ r = [pc |-> r.pc, options |-> r.options, candidates |-> r.candidates,
          entries |-> r.entries, position |-> r.position, opened |-> r.opened]
  /\ r.options \in Options /\ r.candidates \in Seq(Path) /\ r.position \in Nat
  /\ r.entries \in Seq(WholeEntry)

Inside(r) ==
  /\ r.pc \in {"open", "stream"}
  /\ r = [pc |-> r.pc, options |-> r.options, candidates |-> r.candidates,
          entries |-> r.entries, position |-> r.position, opened |-> r.opened]
  /\ r.options \in Options /\ r.candidates \in Seq(Path) /\ r.position \in Nat
  /\ r.candidates # <<>>
  /\ r.entries \in Seq(OpenEntry \cup WholeEntry) /\ r.entries # <<>>
  /\ r.entries[Len(r.entries)] \in OpenEntry
  /\ \A i \in 1..Len(r.entries) - 1 : r.entries[i] \in WholeEntry
  /\ r.pc = "stream" => r.opened \in Files /\ r.opened.kind = "file"

\* An archive a run has closed: its headers are those of its entries.
Closed(z, whole, a) ==
  /\ a.by = z /\ a.whole = whole
  /\ a = [by |-> a.by, whole |-> a.whole, entries |-> a.entries, content |-> a.content]
  /\ a.entries \in Seq(WholeEntry)
  /\ a.content.headers = [i \in DOMAIN a.entries |-> CentralHeader(a.entries[i])]
  /\ ReadCount(a.content.end) = Len(a.entries)

Replacing == {"rename", "unlink", "renameAgain"}
Adding == {"link", "unlinkTemp", "copy", "copying", "unlinkCopied"}

Installing(z, r) ==
  /\ r.pc \in Replacing \cup Adding
  /\ r = [pc |-> r.pc, options |-> r.options, archive |-> r.archive]
  /\ r.options \in Options /\ (r.pc \in Replacing => r.options.force)
  /\ Closed(z, TRUE, r.archive)

ZipRunOK(z, r) ==
  \/ r = NotStarted
  \/ \E how \in {"failed", "done", "cancelled", "killed"} : r = Ended(how)
  \/ r \in Scanning \/ Between(r) \/ Inside(r) \/ Installing(z, r)

\* Unfinished at the output path is only what its run still copies, or was
\* killed copying.
OutputOK ==
  \/ output = None
  \/ output = [by |-> None, whole |-> TRUE]
  \/ \E z \in Zips : Closed(z, TRUE, output)
  \/ \E z \in Zips : /\ Closed(z, FALSE, output)
                     /\ zip[z].pc = "copying" \/ zip[z] = Ended("killed")

ZipInv ==
  /\ plan \in Plans
  /\ files \in [Path -> Files]
  /\ zip = [z \in Zips |-> zip[z]]
  /\ \A z \in Zips : ZipRunOK(z, zip[z])
  /\ OutputOK

-----------------------------------------------------------------------------

LEMMA ZipStarts == ASSUME ArchiveInputs PROVE ZipInit => ZipInv
<1> SUFFICES ASSUME ZipInit
             PROVE  ZipInv
  OBVIOUS
<1>1. plan.sizes \subseteq Nat /\ plan \in Plans
  BY DEF ArchiveInputs, ZipInit
<1>2. files \in [Path -> Files]
  BY <1>1 DEF ZipInit, Files
<1>3. \A z \in Zips : ZipRunOK(z, zip[z])
  BY DEF ZipInit, ZipRunOK
<1>4. OutputOK
  BY DEF ZipInit, OutputOK
<1> QED
  BY <1>1, <1>2, <1>3, <1>4 DEF ZipInit, ZipInv

\* A run moves; what it leaves at the output path is as it should be.
LEMMA ZipMoves ==
  ASSUME ZipInv, NEW z \in Zips, NEW r, ZipRunOK(z, r), zip' = [zip EXCEPT ![z] = r],
         UNCHANGED <<plan, files>>, OutputOK'
  PROVE  ZipInv'
<1>1. zip' = [y \in Zips |-> IF y = z THEN r ELSE zip[y]]
  BY DEF ZipInv
<1>2. zip' = [y \in Zips |-> zip'[y]]
  BY <1>1
<1>3. \A y \in Zips : ZipRunOK(y, zip'[y])
  BY <1>1 DEF ZipInv
<1>4. \A y \in Zips : ZipRunOK(y, zip[y])'
  BY <1>3 DEF ZipRunOK, Between, Inside, Installing, Closed
<1> QED
  BY <1>2, <1>4 DEF ZipInv

\* A run that is not copying moves, or one that is gets killed, and the output
\* stays.
LEMMA ZipLeaves ==
  ASSUME ZipInv, NEW z \in Zips, NEW r, ZipRunOK(z, r), zip' = [zip EXCEPT ![z] = r],
         UNCHANGED <<plan, files, output>>, zip[z].pc # "ended",
         zip[z].pc = "copying" => r = Ended("killed")
  PROVE  ZipInv'
<1>1. /\ zip'[z] = r
      /\ \A y \in Zips \ {z} : zip'[y] = zip[y]
  BY DEF ZipInv
<1>2. ASSUME NEW y \in Zips, zip[y].pc = "copying" \/ zip[y] = Ended("killed")
      PROVE  zip'[y].pc = "copying" \/ zip'[y] = Ended("killed")
  <2>1. CASE y = z
    <3>1. zip[z] # Ended("killed")
      BY DEF Ended
    <3> QED
      BY <1>1, <1>2, <2>1, <3>1
  <2> QED
    BY <1>1, <1>2, <2>1
<1>3. OutputOK'
  BY <1>2 DEF ZipInv, OutputOK, Closed
<1> QED
  BY <1>3, ZipMoves

LEMMA EndedIsOK ==
  ASSUME NEW z, NEW how \in {"failed", "done", "cancelled", "killed"}
  PROVE  ZipRunOK(z, Ended(how))
BY DEF ZipRunOK

LEMMA ZipFails ==
  ASSUME ZipInv, NEW z \in Zips, Fails(z), UNCHANGED <<plan, files, output>>,
         zip[z].pc \notin {"ended", "copying"}
  PROVE  ZipInv'
BY EndedIsOK, ZipLeaves DEF Fails

-----------------------------------------------------------------------------

\* What a run is at each place.
LEMMA ZipShapes ==
  ASSUME ZipInv, NEW z \in Zips
  PROVE  /\ zip[z].pc = "scan" => zip[z] \in Scanning
         /\ zip[z].pc = "entry" => Between(zip[z])
         /\ zip[z].pc \in {"open", "stream"} => Inside(zip[z])
         /\ zip[z].pc \in Replacing \cup Adding => Installing(z, zip[z])
<1>1. ZipRunOK(z, zip[z])
  BY DEF ZipInv
<1>2. CASE zip[z] = NotStarted \/ zip[z].pc = "ended"
  BY <1>2 DEF NotStarted, Replacing, Adding
<1>3. CASE zip[z] \in Scanning
  BY <1>3 DEF Scanning, Replacing, Adding
<1>4. CASE Between(zip[z]) \/ Inside(zip[z]) \/ Installing(z, zip[z])
  BY <1>4 DEF Between, Inside, Installing, Replacing, Adding
<1> QED
  BY <1>1, <1>2, <1>3, <1>4 DEF ZipRunOK, Ended

LEMMA PathsAreListed ==
  ASSUME ArchiveInputs, NEW i \in 1..Len(Names)
  PROVE  Names[i] \in Path
BY DEF ArchiveInputs

LEMMA BeginStep ==
  ASSUME ZipInv, NEW z \in Zips, Begin(z)
  PROVE  ZipInv'
<1>1. PICK o \in Options : zip' = [zip EXCEPT ![z] =
         IF output # None /\ ~o.force /\ ~o.dryRun THEN Ended("failed")
         ELSE [pc |-> "scan", options |-> o, next |-> 1, candidates |-> <<>>]]
  BY DEF Begin
<1>2. PICK r : r = IF output # None /\ ~o.force /\ ~o.dryRun THEN Ended("failed")
                   ELSE [pc |-> "scan", options |-> o, next |-> 1, candidates |-> <<>>]
  OBVIOUS
<1>3. ZipRunOK(z, r)
  BY <1>2, EndedIsOK DEF ZipRunOK, Scanning
<1>4. zip[z].pc = "new"
  BY DEF Begin, NotStarted
<1> QED
  BY <1>1, <1>2, <1>3, <1>4, ZipLeaves DEF Begin

LEMMA ScanPathStep ==
  ASSUME ArchiveInputs, ZipInv, NEW z \in Zips, ScanPath(z)
  PROVE  ZipInv'
<1>1. zip[z] \in Scanning /\ zip[z].pc = "scan"
  BY ZipShapes DEF ScanPath
<1>2. PICK path, r : /\ path = Names[zip[z].next]
                     /\ r = [zip[z] EXCEPT !.next = @ + 1,
                               !.candidates = IF Wanted(path, zip[z].options)
                                              THEN Append(@, path) ELSE @]
  OBVIOUS
<1>3. path \in Path
  BY <1>1, <1>2, PathsAreListed DEF ScanPath, Scanning
<1>4. r \in Scanning
  <2>1. PICK n, c : /\ n = zip[z].next + 1
                    /\ c = IF Wanted(path, zip[z].options) THEN Append(zip[z].candidates, path)
                           ELSE zip[z].candidates
    OBVIOUS
  <2>2. n \in Nat \ {0} /\ c \in Seq(Path)
    <3>1. zip[z].next \in Nat \ {0} /\ zip[z].candidates \in Seq(Path)
      BY <1>1 DEF Scanning
    <3>2. Append(zip[z].candidates, path) \in Seq(Path)
      BY <1>3, <3>1, AppendProperties
    <3> QED
      BY <2>1, <3>1, <3>2
  <2>3. zip[z] = [pc |-> "scan", options |-> zip[z].options, next |-> zip[z].next,
                  candidates |-> zip[z].candidates]
    BY <1>1 DEF Scanning
  <2>4. r = [zip[z] EXCEPT !.next = n, !.candidates = c]
    BY <1>2, <2>1
  <2>5. r = [pc |-> "scan", options |-> zip[z].options, next |-> n, candidates |-> c]
    BY <1>1, <2>4 DEF Scanning
  <2> QED
    BY <1>1, <2>2, <2>5 DEF Scanning
<1>5. zip' = [zip EXCEPT ![z] = r]
  BY <1>2 DEF ScanPath, ZipInv
<1> QED
  BY <1>1, <1>4, <1>5, ZipLeaves DEF ScanPath, ZipRunOK

LEMMA ScanEndsStep ==
  ASSUME ZipInv, NEW z \in Zips, ScanEnds(z)
  PROVE  ZipInv'
<1>1. zip[z] \in Scanning /\ zip[z].pc = "scan"
  BY ZipShapes DEF ScanEnds
<1>2. CASE Fails(z)
  BY <1>1, <1>2, ZipFails DEF ScanEnds
<1>3. CASE zip' = [zip EXCEPT ![z] = Ended("done")]
  BY <1>1, <1>3, EndedIsOK, ZipLeaves DEF ScanEnds
<1>4. CASE zip' = [zip EXCEPT ![z] = [pc |-> "entry", options |-> zip[z].options,
                     candidates |-> zip[z].candidates, entries |-> <<>>, position |-> 0,
                     opened |-> None]]
  <2>1. PICK r : r = [pc |-> "entry", options |-> zip[z].options,
                      candidates |-> zip[z].candidates, entries |-> <<>>, position |-> 0,
                      opened |-> None]
    OBVIOUS
  <2>2. Between(r)
    BY <1>1, <2>1 DEF Between, Scanning
  <2> QED
    BY <1>1, <1>4, <2>1, <2>2, ZipLeaves DEF ScanEnds, ZipRunOK
<1> QED
  BY <1>2, <1>3, <1>4 DEF ScanEnds

LEMMA EntryStartsStep ==
  ASSUME ZipInv, NEW z \in Zips, EntryStarts(z)
  PROVE  ZipInv'
<1>1. Between(zip[z]) /\ zip[z].pc = "entry"
  BY ZipShapes DEF EntryStarts
<1>2. CASE Fails(z)
  BY <1>1, <1>2, ZipFails DEF EntryStarts
<1>3. CASE ~Fails(z)
  <2>1. PICK path, entry, p, list, r :
           /\ path = Head(zip[z].candidates) /\ p = zip[z].position + 1
           /\ entry = [path |-> path, offset |-> zip[z].position,
                       zip64 |-> UsesZip64(files[path].size, zip[z].options.store)]
           /\ list = Append(zip[z].entries, entry)
           /\ r = [zip[z] EXCEPT !.pc = "open", !.position = p, !.entries = list]
    OBVIOUS
  <2>2. zip' = [zip EXCEPT ![z] = r]
    BY <1>3, <2>1 DEF EntryStarts
  <2>3. path \in Path /\ p \in Nat /\ zip[z].candidates # <<>>
    BY <1>1, <2>1 DEF Between, EntryStarts
  <2>4. entry \in OpenEntry
    BY <1>1, <2>1, <2>3 DEF OpenEntry, Between, UsesZip64
  <2>5. /\ list \in Seq(OpenEntry \cup WholeEntry) /\ list # <<>>
        /\ list[Len(list)] = entry
        /\ \A i \in 1..Len(list) - 1 : list[i] \in WholeEntry
    <3>1. zip[z].entries \in Seq(WholeEntry) /\ zip[z].entries \in Seq(OpenEntry \cup WholeEntry)
      BY <1>1 DEF Between
    <3>2. /\ Len(list) = Len(zip[z].entries) + 1
          /\ list \in Seq(OpenEntry \cup WholeEntry)
          /\ list[Len(list)] = entry
          /\ \A i \in 1..Len(zip[z].entries) : list[i] = zip[z].entries[i]
      BY <2>1, <2>4, <3>1, AppendProperties
    <3> QED
      BY <3>1, <3>2
  <2>6. r = [pc |-> "open", options |-> zip[z].options, candidates |-> zip[z].candidates,
             entries |-> list, position |-> p, opened |-> zip[z].opened]
    BY <1>1, <2>1 DEF Between
  <2>7. Inside(r)
    BY <1>1, <2>3, <2>4, <2>5, <2>6 DEF Inside, Between
  <2> QED
    BY <1>1, <2>2, <2>7, ZipLeaves DEF EntryStarts, ZipRunOK
<1> QED
  BY <1>2, <1>3

LEMMA EntryOpensStep ==
  ASSUME ZipInv, NEW z \in Zips, EntryOpens(z)
  PROVE  ZipInv'
<1>1. Inside(zip[z]) /\ zip[z].pc = "open"
  BY ZipShapes DEF EntryOpens
<1>2. CASE Fails(z)
  BY <1>1, <1>2, ZipFails DEF EntryOpens
<1>3. CASE ~Fails(z)
  <2>1. PICK file, r : /\ file = files[Head(zip[z].candidates)]
                       /\ r = [zip[z] EXCEPT !.pc = "stream", !.opened = file]
    OBVIOUS
  <2>2. zip' = [zip EXCEPT ![z] = r] /\ file.kind = "file"
    BY <1>3, <2>1 DEF EntryOpens
  <2>3. Head(zip[z].candidates) \in Path
    BY <1>1 DEF Inside
  <2>4. file \in Files
    BY <2>1, <2>3 DEF ZipInv
  <2>5. r = [pc |-> "stream", options |-> zip[z].options, candidates |-> zip[z].candidates,
             entries |-> zip[z].entries, position |-> zip[z].position, opened |-> file]
    BY <1>1, <2>1 DEF Inside
  <2>6. Inside(r)
    BY <1>1, <2>2, <2>4, <2>5 DEF Inside
  <2> QED
    BY <1>1, <2>2, <2>6, ZipLeaves DEF EntryOpens, ZipRunOK
<1> QED
  BY <1>2, <1>3

LEMMA EntryStreamsStep ==
  ASSUME ZipInv, NEW z \in Zips, EntryStreams(z)
  PROVE  ZipInv'
<1>1. Inside(zip[z]) /\ zip[z].pc = "stream"
  BY ZipShapes DEF EntryStreams
<1>2. CASE Fails(z)
  BY <1>1, <1>2, ZipFails DEF EntryStreams
<1>3. CASE ~Fails(z)
  <2>1. PICK entries, entry : entries = zip[z].entries /\ entry = entries[Len(entries)]
    OBVIOUS
  <2>2. PICK size \in ReadSizes(z) : \E compressed \in Compressed(size, zip[z].options.store) :
           zip' = [zip EXCEPT ![z] =
                    [zip[z] EXCEPT !.pc = "entry", !.candidates = Tail(@),
                       !.position = @ + compressed + 1,
                       !.entries = [entries EXCEPT ![Len(entries)] =
                          [path |-> entry.path, offset |-> entry.offset, zip64 |-> entry.zip64,
                           size |-> size, compressed |-> compressed,
                           kind |-> zip[z].opened.kind]]]]
    BY <1>3, <2>1 DEF EntryStreams
  <2>12. PICK compressed \in Compressed(size, zip[z].options.store) :
           zip' = [zip EXCEPT ![z] =
                    [zip[z] EXCEPT !.pc = "entry", !.candidates = Tail(@),
                       !.position = @ + compressed + 1,
                       !.entries = [entries EXCEPT ![Len(entries)] =
                          [path |-> entry.path, offset |-> entry.offset, zip64 |-> entry.zip64,
                           size |-> size, compressed |-> compressed,
                           kind |-> zip[z].opened.kind]]]]
    BY <2>2
  <2>3. PICK rest, p, whole, list, r :
           /\ rest = Tail(zip[z].candidates) /\ p = zip[z].position + compressed + 1
           /\ whole = [path |-> entry.path, offset |-> entry.offset, zip64 |-> entry.zip64,
                       size |-> size, compressed |-> compressed, kind |-> zip[z].opened.kind]
           /\ list = [entries EXCEPT ![Len(entries)] = whole]
           /\ r = [zip[z] EXCEPT !.pc = "entry", !.candidates = rest, !.position = p,
                                 !.entries = list]
    OBVIOUS
  <2>4. zip' = [zip EXCEPT ![z] = r]
    BY <2>12, <2>3
  <2>5. size \in Nat
    <3>1. Head(zip[z].candidates) \in Path /\ zip[z].opened \in Files
      BY <1>1 DEF Inside
    <3> QED
      BY <2>2, <3>1 DEF ReadSizes, ZipInv, Files
  <2>6. compressed \in Nat
    BY <2>12, <2>5 DEF Compressed, DeflateBound
  <2>7. rest \in Seq(Path) /\ p \in Nat
    BY <1>1, <2>3, <2>6 DEF Inside
  <2>8. whole \in WholeEntry
    BY <1>1, <2>1, <2>3, <2>5, <2>6 DEF Inside, OpenEntry, WholeEntry
  <2>9. list \in Seq(WholeEntry)
    <3>1. /\ entries \in Seq(OpenEntry \cup WholeEntry)
          /\ \A i \in 1..Len(entries) - 1 : entries[i] \in WholeEntry
      BY <1>1, <2>1 DEF Inside
    <3>2. /\ Len(entries) \in Nat /\ DOMAIN list = 1..Len(entries)
          /\ \A i \in 1..Len(entries) :
               list[i] = IF i = Len(entries) THEN whole ELSE entries[i]
      BY <2>3, <3>1
    <3>3. \A i \in 1..Len(entries) : list[i] \in WholeEntry
      BY <2>8, <3>1, <3>2
    <3>4. list = [i \in 1..Len(entries) |-> list[i]]
      BY <2>3, <3>2
    <3> QED
      BY <3>2, <3>3, <3>4
  <2>10. r = [pc |-> "entry", options |-> zip[z].options, candidates |-> rest,
              entries |-> list, position |-> p, opened |-> zip[z].opened]
    BY <1>1, <2>3 DEF Inside
  <2>11. Between(r)
    BY <1>1, <2>7, <2>9, <2>10 DEF Between, Inside
  <2> QED
    BY <1>1, <2>4, <2>11, ZipLeaves DEF EntryStreams, ZipRunOK
<1> QED
  BY <1>2, <1>3

\* The end records tell how many entries there are.
LEMMA CountsDecode ==
  ASSUME NoneIsNoRecord, NEW entries \in Seq(WholeEntry), NEW offset \in Nat
  PROVE  ReadCount(EndRecords(entries, offset)) = Len(entries)
BY DEF NoneIsNoRecord, ReadCount, EndRecords

LEMMA ClosesStep ==
  ASSUME NoneIsNoRecord, ZipInv, NEW z \in Zips, Closes(z)
  PROVE  ZipInv'
<1>1. Between(zip[z]) /\ zip[z].pc = "entry"
  BY ZipShapes DEF Closes
<1>2. PICK at, a, r : /\ at = IF zip[z].options.force THEN "rename" ELSE "link"
                      /\ a = [by |-> z, whole |-> TRUE, entries |-> zip[z].entries,
                              content |-> Archive(zip[z].entries, zip[z].position)]
                      /\ r = [pc |-> at, options |-> zip[z].options, archive |-> a]
  OBVIOUS
<1>3. zip' = [zip EXCEPT ![z] = r]
  BY <1>2 DEF Closes
<1>4. Closed(z, TRUE, a)
  <2>1. zip[z].entries \in Seq(WholeEntry) /\ zip[z].position \in Nat
    BY <1>1 DEF Between
  <2> QED
    BY <1>1, <1>2, <2>1, CountsDecode DEF Closed, Between, Archive
<1>5. Installing(z, r)
  BY <1>1, <1>2, <1>4 DEF Installing, Between, Replacing, Adding
<1> QED
  BY <1>1, <1>3, <1>5, ZipLeaves DEF Closes, ZipRunOK

\* A closed archive goes through the installation, and only its own run makes it
\* unfinished or removes it.
LEMMA InstallShapes ==
  ASSUME ZipInv, NEW z \in Zips, zip[z].pc \in Replacing \cup Adding
  PROVE  /\ Installing(z, zip[z])
         /\ zip[z].archive.by = z
         /\ \A to \in Adding : ZipRunOK(z, [zip[z] EXCEPT !.pc = to])
         /\ \A to \in Replacing : zip[z].pc \in Replacing => ZipRunOK(z, [zip[z] EXCEPT !.pc = to])
<1>1. Installing(z, zip[z])
  BY ZipShapes
<1>2. \A to : [zip[z] EXCEPT !.pc = to]
               = [pc |-> to, options |-> zip[z].options, archive |-> zip[z].archive]
  BY <1>1 DEF Installing
<1>3. ASSUME NEW to \in Replacing \cup Adding, to \in Replacing => zip[z].pc \in Replacing
      PROVE  ZipRunOK(z, [zip[z] EXCEPT !.pc = to])
  BY <1>1, <1>2, <1>3 DEF Installing, ZipRunOK
<1>4. \A to \in Adding : to \notin Replacing
  BY DEF Adding, Replacing
<1> QED
  BY <1>1, <1>3, <1>4 DEF Installing, Closed

\* A finished archive, or none, at the output path is as it should be.
LEMMA FinishedOutputs ==
  ASSUME ZipInv, NEW z \in Zips
  PROVE  /\ output' = None => OutputOK'
         /\ Installing(z, zip[z]) /\ output' = zip[z].archive => OutputOK'
<1>1. \A a : Closed(z, TRUE, a) /\ output' = a => OutputOK'
  BY DEF OutputOK, Closed
<1> QED
  BY <1>1 DEF OutputOK, Installing

LEMMA InstalledMoves ==
  ASSUME ZipInv, NEW z \in Zips, Installed(z), UNCHANGED <<plan, files>>, OutputOK'
  PROVE  ZipInv'
BY EndedIsOK, ZipMoves DEF Installed

LEMMA ForceStep ==
  ASSUME ZipInv, NEW z \in Zips, ForceInstalls(z)
  PROVE  /\ ZipInv'
         /\ Installing(z, zip[z]) /\ zip[z].options.force
<1>1. UNCHANGED <<plan, files>> /\ zip[z].pc \in Replacing
  BY DEF ForceInstalls, Step, Replacing
<1>2. Installing(z, zip[z]) /\ zip[z].options.force
  BY <1>1, InstallShapes DEF Installing
<1>3. zip[z].pc \notin {"ended", "copying"}
  BY <1>1 DEF Replacing
<1>4. CASE output' = zip[z].archive /\ Installed(z)
  BY <1>1, <1>2, <1>4, FinishedOutputs, InstalledMoves
<1>5. CASE output' = output /\ Fails(z)
  BY <1>1, <1>2, <1>3, <1>5, ZipFails
<1>6. CASE Step(z, "rename", "unlink") /\ UNCHANGED <<output, temps>>
  <2>1. PICK r : r = [zip[z] EXCEPT !.pc = "unlink"]
    OBVIOUS
  <2>2. zip' = [zip EXCEPT ![z] = r]
    BY <1>6, <2>1 DEF Step
  <2>3. ZipRunOK(z, r)
    BY <1>1, <2>1, InstallShapes DEF Replacing
  <2> QED
    BY <1>1, <1>2, <1>3, <1>6, <2>2, <2>3, ZipLeaves
<1>7. CASE Step(z, "unlink", "renameAgain") /\ output' = None
  <2>1. PICK r : r = [zip[z] EXCEPT !.pc = "renameAgain"]
    OBVIOUS
  <2>2. zip' = [zip EXCEPT ![z] = r]
    BY <1>7, <2>1 DEF Step
  <2>3. ZipRunOK(z, r)
    BY <1>1, <2>1, InstallShapes DEF Replacing
  <2> QED
    BY <1>1, <1>2, <1>7, <2>2, <2>3, FinishedOutputs, ZipMoves
<1>8. ZipInv'
  BY <1>4, <1>5, <1>6, <1>7 DEF ForceInstalls
<1> QED
  BY <1>2, <1>8

\* A run goes on with its installation and leaves the output.
LEMMA GoesOn ==
  ASSUME ZipInv, NEW z \in Zips, NEW from, from # "copying", from \in Replacing \cup Adding,
         NEW to \in Adding, Step(z, from, to), UNCHANGED <<plan, files, output>>
  PROVE  ZipInv'
<1>1. PICK r : r = [zip[z] EXCEPT !.pc = to]
  OBVIOUS
<1>2. zip' = [zip EXCEPT ![z] = r] /\ zip[z].pc = from
  BY <1>1 DEF Step
<1>3. ZipRunOK(z, r)
  BY <1>1, <1>2, InstallShapes
<1>4. from # "ended"
  BY DEF Replacing, Adding
<1> QED
  BY <1>2, <1>3, <1>4, ZipLeaves

LEMMA LinkStep ==
  ASSUME ZipInv, NEW z \in Zips, LinkInstalls(z)
  PROVE  ZipInv' /\ (output # None => output' = output)
<1>1. UNCHANGED <<plan, files>> /\ zip[z].pc = "link" /\ zip[z].pc \in Adding
  BY DEF LinkInstalls, Adding
<1>2. CASE output = None /\ output' = zip[z].archive /\ Step(z, "link", "unlinkTemp")
  <2>1. PICK r : r = [zip[z] EXCEPT !.pc = "unlinkTemp"]
    OBVIOUS
  <2>2. zip' = [zip EXCEPT ![z] = r]
    BY <1>2, <2>1 DEF Step
  <2>3. ZipRunOK(z, r) /\ Installing(z, zip[z])
    BY <1>1, <2>1, InstallShapes DEF Adding
  <2> QED
    BY <1>1, <1>2, <2>2, <2>3, FinishedOutputs, ZipMoves
<1>3. CASE Step(z, "link", "copy") /\ UNCHANGED <<output, temps>>
  BY <1>1, <1>3, GoesOn DEF Adding
<1>4. CASE output' = output /\ Fails(z)
  BY <1>1, <1>4, ZipFails
<1> QED
  BY <1>2, <1>3, <1>4 DEF LinkInstalls

LEMMA TempStep ==
  ASSUME ZipInv, NEW z \in Zips, TempRemoved(z)
  PROVE  ZipInv' /\ output' = output
<1>1. UNCHANGED <<plan, files, output>> /\ zip[z].pc \in {"unlinkTemp", "unlinkCopied"}
  BY DEF TempRemoved
<1>2. CASE Installed(z)
  BY <1>1, <1>2, EndedIsOK, ZipLeaves DEF Installed
<1>3. CASE Step(z, "unlinkTemp", "copy")
  BY <1>1, <1>3, GoesOn DEF Adding
<1>4. CASE Fails(z)
  BY <1>1, <1>4, ZipFails
<1> QED
  BY <1>1, <1>2, <1>3, <1>4 DEF TempRemoved

LEMMA CopyStartsStep ==
  ASSUME ZipInv, NEW z \in Zips, CopyStarts(z)
  PROVE  ZipInv' /\ (output # None => output' = output)
<1>1. UNCHANGED <<plan, files>> /\ zip[z].pc = "copy" /\ zip[z].pc \in Adding
  BY DEF CopyStarts, Adding
<1>2. CASE Fails(z) /\ output' = output
  BY <1>1, <1>2, ZipFails
<1>3. CASE /\ output = None /\ output' = [zip[z].archive EXCEPT !.whole = FALSE]
           /\ Step(z, "copy", "copying")
  <2>1. PICK r : r = [zip[z] EXCEPT !.pc = "copying"]
    OBVIOUS
  <2>2. zip' = [zip EXCEPT ![z] = r]
    BY <1>3, <2>1 DEF Step
  <2>3. ZipRunOK(z, r) /\ Installing(z, zip[z])
    BY <1>1, <2>1, InstallShapes DEF Adding
  <2>4. zip'[z].pc = "copying"
    BY <2>1, <2>2, <2>3 DEF ZipInv, Installing
  <2>5. PICK a : a = [zip[z].archive EXCEPT !.whole = FALSE]
    OBVIOUS
  <2>6. Closed(z, FALSE, a)
    BY <2>3, <2>5 DEF Installing, Closed
  <2>7. OutputOK'
    <3>1. output' = a
      BY <1>3, <2>5
    <3>2. Closed(z, FALSE, output)'
      BY <2>6, <3>1 DEF Closed
    <3> QED
      BY <2>4, <3>2 DEF OutputOK
  <2> QED
    BY <1>1, <1>3, <2>2, <2>3, <2>7, ZipMoves
<1> QED
  BY <1>2, <1>3 DEF CopyStarts

LEMMA CopyEndsStep ==
  ASSUME ZipInv, NEW z \in Zips, CopyEnds(z)
  PROVE  ZipInv' /\ (output # None /\ output.by # z => output' = output)
<1>1. UNCHANGED <<plan, files>> /\ zip[z].pc = "copying" /\ zip[z].pc \in Adding
  BY DEF CopyEnds, Adding
<1>2. Installing(z, zip[z])
  BY <1>1, InstallShapes
\* The output of another run is finished, or that run still copies it.
<1>3. ASSUME NEW r, zip' = [zip EXCEPT ![z] = r], output' = output,
             ~(output # None /\ output.by = z)
      PROVE  OutputOK'
  <2>1. \A y \in Zips \ {z} : zip'[y] = zip[y]
    BY <1>3 DEF ZipInv
  <2> QED
    BY <1>3, <2>1 DEF ZipInv, OutputOK, Closed
<1>4. CASE output # None /\ output.by = z
  <2>1. output' = zip[z].archive \/ output' = None
    BY <1>4 DEF CopyEnds
  <2>2. OutputOK'
    BY <1>2, <2>1, FinishedOutputs
  <2>3. CASE Step(z, "copying", "unlinkCopied")
    <3>1. PICK r : r = [zip[z] EXCEPT !.pc = "unlinkCopied"]
      OBVIOUS
    <3>2. zip' = [zip EXCEPT ![z] = r]
      BY <2>3, <3>1 DEF Step
    <3>3. ZipRunOK(z, r)
      BY <1>1, <3>1, InstallShapes DEF Adding
    <3> QED
      BY <1>1, <1>4, <2>2, <3>2, <3>3, ZipMoves
  <2>4. CASE Fails(z)
    BY <1>1, <1>4, <2>2, <2>4, EndedIsOK, ZipMoves DEF Fails
  <2> QED
    BY <2>3, <2>4 DEF CopyEnds
<1>5. CASE ~(output # None /\ output.by = z)
  <2>1. output' = output
    BY <1>5 DEF CopyEnds
  <2>2. CASE Step(z, "copying", "unlinkCopied")
    <3>1. PICK r : r = [zip[z] EXCEPT !.pc = "unlinkCopied"]
      OBVIOUS
    <3>2. zip' = [zip EXCEPT ![z] = r]
      BY <2>2, <3>1 DEF Step
    <3>3. ZipRunOK(z, r)
      BY <1>1, <3>1, InstallShapes DEF Adding
    <3> QED
      BY <1>1, <1>3, <1>5, <2>1, <3>2, <3>3, ZipMoves
  <2>3. CASE Fails(z)
    <3>1. PICK r : r = Ended("failed")
      OBVIOUS
    <3>2. zip' = [zip EXCEPT ![z] = r] /\ ZipRunOK(z, r)
      BY <2>3, <3>1, EndedIsOK DEF Fails
    <3> QED
      BY <1>1, <1>3, <1>5, <2>1, <3>2, ZipMoves
  <2> QED
    BY <2>1, <2>2, <2>3 DEF CopyEnds
<1> QED
  BY <1>4, <1>5

LEMMA InterruptedStep ==
  ASSUME ZipInv, NEW z \in Zips, Signal(z) \/ Killed(z)
  PROVE  ZipInv'
<1>1. CASE Signal(z)
  BY <1>1, EndedIsOK, ZipLeaves DEF Signal
<1>2. CASE Killed(z)
  BY <1>2, EndedIsOK, ZipLeaves DEF Killed
<1> QED
  BY <1>1, <1>2

LEMMA EditStep ==
  ASSUME ArchiveInputs, ZipInv, EditFile
  PROVE  ZipInv'
<1>1. PICK path \in Path, kind \in {"file", "link", "gone"}, size \in plan.sizes :
         files' = [files EXCEPT ![path] = [kind |-> kind, size |-> size]]
  BY DEF EditFile
<1>2. size \in Nat
  BY DEF ArchiveInputs, ZipInv
<1>3. [kind |-> kind, size |-> size] \in Files
  BY <1>2 DEF Files
<1>4. files' \in [Path -> Files]
  BY <1>1, <1>3 DEF ZipInv
<1>5. OutputOK'
  BY DEF EditFile, ZipInv, OutputOK, Closed
<1> QED
  BY <1>4, <1>5 DEF EditFile, ZipInv

\* Every run of the program keeps the invariant.
LEMMA ZipRunStep ==
  ASSUME ArchiveInputs, NoneIsNoRecord, ZipInv, NEW z \in Zips,
         \/ Begin(z) \/ ScanPath(z) \/ ScanFails(z) \/ ScanEnds(z)
         \/ EntryStarts(z) \/ EntryOpens(z) \/ EntryStreams(z) \/ ReadFails(z) \/ Closes(z)
         \/ ForceInstalls(z) \/ LinkInstalls(z) \/ TempRemoved(z)
         \/ CopyStarts(z) \/ CopyEnds(z)
         \/ Signal(z) \/ Killed(z)
  PROVE  ZipInv'
<1>1. CASE ScanFails(z)
  BY <1>1, ZipFails DEF ScanFails
<1>2. CASE ReadFails(z)
  BY <1>2, ZipFails DEF ReadFails
<1> QED
  BY <1>1, <1>2, BeginStep, ScanPathStep, ScanEndsStep, EntryStartsStep, EntryOpensStep,
     EntryStreamsStep, ClosesStep, ForceStep, LinkStep, TempStep, CopyStartsStep, CopyEndsStep,
     InterruptedStep

LEMMA ZipStep ==
  ASSUME ArchiveInputs, NoneIsNoRecord, ZipInv, [ZipNext]_zipVars
  PROVE  ZipInv'
<1>1. CASE UNCHANGED zipVars
  <2>1. plan' = plan /\ files' = files /\ zip' = zip /\ output' = output
    BY <1>1 DEF zipVars
  <2>2. OutputOK'
    BY <2>1 DEF ZipInv, OutputOK, Closed
  <2>3. \A z \in Zips : ZipRunOK(z, zip[z])'
    BY <2>1 DEF ZipInv
  <2> QED
    BY <2>1, <2>2, <2>3 DEF ZipInv
<1>2. CASE EditFile
  BY <1>2, EditStep
<1> QED
  BY <1>1, <1>2, ZipRunStep DEF ZipNext

LEMMA ZipSafe == ZipSpec => []ZipInv
<1>1. ZipInit => ZipInv
  BY ZipStarts, ArchiveInputs
<1>2. ZipInv /\ [ZipNext]_zipVars => ZipInv'
  BY ZipStep, ArchiveInputs, NoneIsNoRecord
<1> QED
  BY <1>1, <1>2, PTL DEF ZipSpec

-----------------------------------------------------------------------------

\* What a header says of an entry is what a reader makes of it.
LEMMA HeadersDecode ==
  ASSUME NEW entry, ~OnTheMarker(entry)
  PROVE  Reader(CentralHeader(entry)) =
           [size |-> entry.size, compressed |-> entry.compressed, offset |-> entry.offset]
<1> DEFINE header == CentralHeader(entry)
           sizes == entry.zip64 \/ entry.compressed > MaxUint32 \/ entry.size > MaxUint32
           far == entry.offset > MaxUint32
           fields == <<"size", "compressed", "offset">>
           escaped(n) == header.extra # <<>> /\ header[fields[n]] = MaxUint32
           place(n) == Cardinality({m \in 1..n : escaped(m)})
           value(n) == IF ~escaped(n) THEN header[fields[n]]
                       ELSE IF place(n) <= Len(header.extra) THEN header.extra[place(n)] ELSE None
<1>1. Reader(header) = [size |-> value(1), compressed |-> value(2), offset |-> value(3)]
  BY DEF Reader
<1>2. /\ header.size = IF sizes THEN MaxUint32 ELSE entry.size
      /\ header.compressed = IF sizes THEN MaxUint32 ELSE entry.compressed
      /\ header.offset = IF far THEN MaxUint32 ELSE entry.offset
      /\ header.extra = (IF sizes THEN <<entry.size, entry.compressed>> ELSE <<>>)
                          \o (IF far THEN <<entry.offset>> ELSE <<>>)
  BY DEF CentralHeader
<1>3. header.extra = IF sizes
                     THEN IF far THEN <<entry.size, entry.compressed, entry.offset>>
                          ELSE <<entry.size, entry.compressed>>
                     ELSE IF far THEN <<entry.offset>> ELSE <<>>
  <2>1. PICK S : S = {entry.size, entry.compressed, entry.offset}
    OBVIOUS
  <2>2. PICK two, one, three : /\ two = <<entry.size, entry.compressed>> /\ one = <<entry.offset>>
                               /\ three = <<entry.size, entry.compressed, entry.offset>>
    OBVIOUS
  <2>3. two \in Seq(S) /\ one \in Seq(S) /\ three \in Seq(S) /\ <<>> \in Seq(S)
    BY <2>1, <2>2
  <2>4. two \o one = three
    <3>1. /\ two \o one \in Seq(S) /\ Len(two \o one) = Len(two) + Len(one)
          /\ \A i \in 1..Len(two) + Len(one) :
               (two \o one)[i] = IF i <= Len(two) THEN two[i] ELSE one[i - Len(two)]
      BY <2>3, ConcatProperties
    <3>2. Len(two) = 2 /\ Len(one) = 1 /\ Len(three) = 3
      BY <2>2
    <3>3. /\ two[1] = three[1] /\ two[2] = three[2] /\ one[1] = three[3]
      BY <2>2
    <3>4. \A i \in 1..Len(two \o one) : (two \o one)[i] = three[i]
      BY <3>1, <3>2, <3>3
    <3> QED
      BY <2>3, <3>1, <3>2, <3>4, SeqEqual
  <2>5. two \o <<>> = two /\ <<>> \o one = one /\ <<>> \o <<>> = <<>>
    BY <2>3, ConcatEmptySeq
  <2> HIDE DEF header, sizes, far
  <2> QED
    BY <1>2, <2>2, <2>4, <2>5
<1>4. /\ escaped(1) <=> sizes
      /\ escaped(2) <=> sizes
      /\ escaped(3) <=> far
  <2>1. /\ ~sizes => entry.size # MaxUint32 /\ entry.compressed # MaxUint32
        /\ entry.offset # MaxUint32
    BY DEF OnTheMarker
  <2>2. (sizes \/ far) <=> header.extra # <<>>
    <3> HIDE DEF header, sizes, far
    <3> QED
      BY <1>3
  <2> HIDE DEF header, sizes, far
  <2> QED
    BY <1>2, <2>1, <2>2
<1> HIDE DEF header, sizes, far
<1>5. \A n \in 1..3 : {m \in 1..n : escaped(m)} \subseteq 1..3
  OBVIOUS
<1>6. /\ sizes => place(1) = 1
      /\ sizes => place(2) = 2
      /\ far => place(3) = IF sizes THEN 3 ELSE 1
  <2>1. {m \in 1..1 : escaped(m)} = IF sizes THEN {1} ELSE {}
    BY <1>4
  <2>2. {m \in 1..2 : escaped(m)} = IF sizes THEN {1, 2} ELSE {}
    BY <1>4
  <2>3. far => {m \in 1..3 : escaped(m)} = IF sizes THEN {1, 2, 3} ELSE {3}
    BY <1>4
  <2>4. /\ Cardinality({1}) = 1 /\ Cardinality({3}) = 1
        /\ Cardinality({1, 2}) = 2 /\ Cardinality({1, 2, 3}) = 3
    <3>1. /\ Cardinality({1}) = 1 /\ IsFiniteSet({1})
          /\ Cardinality({3}) = 1
      BY FS_Singleton
    <3>2. {1, 2} = {1} \cup {2} /\ {1, 2, 3} = {1, 2} \cup {3} /\ 2 \notin {1} /\ 3 \notin {1, 2}
      OBVIOUS
    <3>3. IsFiniteSet({1, 2}) /\ Cardinality({1, 2}) = 2
      BY <3>1, <3>2, FS_AddElement
    <3>4. Cardinality({1, 2, 3}) = 3
      BY <3>2, <3>3, FS_AddElement
    <3> QED
      BY <3>1, <3>3, <3>4
  <2> HIDE DEF escaped
  <2> QED
    BY <2>1, <2>2, <2>3, <2>4
<1> HIDE DEF place
<1>7. value(1) = entry.size /\ value(2) = entry.compressed /\ value(3) = entry.offset
  <2>1. fields[1] = "size" /\ fields[2] = "compressed" /\ fields[3] = "offset"
    OBVIOUS
  <2> HIDE DEF escaped, fields
  <2>2. CASE sizes /\ far
    BY <1>2, <1>3, <1>4, <1>6, <2>1, <2>2
  <2>3. CASE sizes /\ ~far
    BY <1>2, <1>3, <1>4, <1>6, <2>1, <2>3
  <2>4. CASE ~sizes
    BY <1>2, <1>3, <1>4, <1>6, <2>1, <2>4
  <2> QED
    BY <2>2, <2>3, <2>4
<1> HIDE DEF value
<1> QED
  BY <1>1, <1>7 DEF header

\* Readers find every entry of an installed archive where it is and with the
\* sizes that were streamed, for any limits of the format, any sizes and any
\* changes to the files (zip_source_code.js, makeCentralHeader and after).
THEOREM EntriesAlwaysDecode == ZipSpec => []EntriesDecode
<1>1. ZipInv => EntriesDecode
  <2> SUFFICES ASSUME ZipInv, output # None, output.by # None, output.whole
               PROVE  /\ ReadCount(output.content.end) = Len(output.entries)
                      /\ \A i \in DOMAIN output.entries :
                           LET entry == output.entries[i]
                           IN ~OnTheMarker(entry) =>
                                Reader(output.content.headers[i]) =
                                  [size |-> entry.size, compressed |-> entry.compressed,
                                   offset |-> entry.offset]
    BY DEF EntriesDecode
  <2>1. output # [by |-> None, whole |-> TRUE]
    OBVIOUS
  <2>2. PICK z \in Zips : Closed(z, TRUE, output) \/ Closed(z, FALSE, output)
    BY <2>1 DEF ZipInv, OutputOK
  <2> QED
    BY <2>2, HeadersDecode DEF Closed
<1> QED
  BY <1>1, ZipSafe, PTL

\* At the output path is the old file or a finished archive, but for a copy that
\* is being made or was killed; and no link's target is in it, however many runs
\* share the path and whatever fails.
THEOREM OutputsAreAlwaysWhole ==
  ZipSpec /\ PrototypeSpec => []OutputIsWhole
<1>1. ZipInv => OnlyCopiesAreUnfinished
  <2> SUFFICES ASSUME ZipInv, output # None, ~output.whole
               PROVE  zip[output.by].pc = "copying" \/ zip[output.by] = Ended("killed")
    BY DEF OnlyCopiesAreUnfinished
  <2>1. output # [by |-> None, whole |-> TRUE]
    <3>1. [by |-> None, whole |-> TRUE].whole = TRUE
      OBVIOUS
    <3> QED
      BY <3>1, Zenon
  <2>2. ASSUME NEW z \in Zips
        PROVE  ~Closed(z, TRUE, output)
    BY DEF Closed
  <2>3. PICK z \in Zips : /\ Closed(z, FALSE, output)
                          /\ zip[z].pc = "copying" \/ zip[z] = Ended("killed")
    BY <2>1, <2>2 DEF ZipInv, OutputOK
  <2> QED
    BY <2>3 DEF Closed
<1>2. ZipInv => LinksStayOut
  <2> SUFFICES ASSUME ZipInv, output # None, output.by # None, NEW i \in DOMAIN output.entries
               PROVE  output.entries[i].kind = "file"
    BY DEF LinksStayOut
  <2>0. output # [by |-> None, whole |-> TRUE]
    OBVIOUS
  <2>1. output.entries \in Seq(WholeEntry)
    BY <2>0 DEF ZipInv, OutputOK, Closed
  <2>2. output.entries[i] \in WholeEntry
    BY <2>1
  <2> QED
    BY <2>2 DEF WholeEntry
<1> QED
  BY <1>1, <1>2, ZipSafe, SuccessAlwaysMeansCurrent, PTL DEF OutputIsWhole

\* A run without --force never replaces or removes a file it did not create,
\* however many runs install at once (installTempOutput).
THEOREM UnforcedRunsNeverReplace == ZipSpec => UnforcedNeverReplaces
<1>1. ASSUME ZipInv, ZipNext, NEW z \in Zips, zip'[z] # zip[z], "options" \in DOMAIN zip[z],
             ~zip[z].options.force, output # None, output.by # z
      PROVE  output' = output
  <2>1. \A y \in Zips : \A r : zip' = [zip EXCEPT ![y] = r] => y = z
    BY <1>1 DEF ZipInv
  <2>2. ~EditFile
    BY <1>1 DEF EditFile
  <2>3. PICK y \in Zips :
           \/ Begin(y) \/ ScanPath(y) \/ ScanFails(y) \/ ScanEnds(y)
           \/ EntryStarts(y) \/ EntryOpens(y) \/ EntryStreams(y) \/ ReadFails(y) \/ Closes(y)
           \/ ForceInstalls(y) \/ LinkInstalls(y) \/ TempRemoved(y)
           \/ CopyStarts(y) \/ CopyEnds(y)
           \/ Signal(y) \/ Killed(y)
    BY <1>1, <2>2 DEF ZipNext
  <2>4. CASE ForceInstalls(y)
    <3>1. y = z
      BY <2>1, <2>4 DEF ForceInstalls, Installed, Fails, Step
    <3> QED
      BY <1>1, <2>4, <3>1, ForceStep
  <2>5. CASE LinkInstalls(y) \/ TempRemoved(y) \/ CopyStarts(y)
    BY <1>1, <2>5, LinkStep, TempStep, CopyStartsStep
  <2>6. CASE CopyEnds(y)
    <3>1. y = z
      BY <2>1, <2>6 DEF CopyEnds, Fails, Step
    <3> QED
      BY <1>1, <2>6, <3>1, CopyEndsStep
  <2>7. CASE ~(ForceInstalls(y) \/ LinkInstalls(y) \/ TempRemoved(y) \/ CopyStarts(y) \/ CopyEnds(y))
    BY <2>3, <2>7 DEF Begin, ScanPath, ScanFails, ScanEnds, EntryStarts, EntryOpens,
                      EntryStreams, ReadFails, Closes, Signal, Killed
  <2> QED
    BY <2>4, <2>5, <2>6, <2>7
<1>2. ASSUME ZipInv, [ZipNext]_zipVars
      PROVE  [\A z \in Zips :
                /\ zip'[z] # zip[z] /\ "options" \in DOMAIN zip[z] /\ ~zip[z].options.force
                /\ output # None /\ output.by # z
                => output' = output]_zipVars
  BY <1>1, <1>2 DEF zipVars
<1> QED
  BY <1>2, ZipSafe, PTL DEF ZipSpec, UnforcedNeverReplaces

-----------------------------------------------------------------------------
(* Scripts: a launcher, its sidecar and its workspace.                      *)

Sidecars == {"none", "starting", "listening", "closing", "gone"}

StackTypes ==
  /\ scene \in Scenes
  /\ pc \in [Launchers -> {"new", "reclaim", "make", "mark", "spawn", "running", "asking",
                          "waiting", "remove", "exited", "killed"}]
  /\ todo \in [Launchers -> SUBSET Launchers]
  /\ target \in [Launchers -> Launchers \cup {Nobody}]
  /\ seen \in [Launchers -> SUBSET Launchers]
  /\ url \in [Launchers -> BOOLEAN]
  /\ stopping \in [Launchers -> BOOLEAN]
  /\ raced \in [Launchers -> BOOLEAN]
  /\ vite \in [Launchers -> {"none", "alive", "gone"}]
  /\ backend \in [Launchers -> Sidecars]
  /\ lingers \in [Launchers -> BOOLEAN]
  /\ dirs \subseteq Launchers
  /\ stateFile \in Launchers \cup {Nobody}
  /\ \/ teardown.pc \in {"idle", "done"}
     \/ teardown.pc \in {"ask", "remove"} /\ teardown.of \in Launchers

Told(l) == Gone(l) \/ backend[l] = "closing"

\* A script stops its sidecar before it ends, and has none before it spawns one.
SidecarsFollow ==
  \A l \in Launchers :
    /\ pc[l] \in {"new", "reclaim", "make", "mark", "spawn"} => Gone(l)
    /\ pc[l] = "waiting" /\ scene.kind[l] # "smoke" => Told(l)
    /\ pc[l] \in {"remove", "exited"} => Told(l)
    /\ lingers[l] => scene.kind[l] = "smoke"

\* A stop kills the development server, and what runs later was read later.
ServersFollow ==
  \A l \in Launchers :
    /\ vite[l] = "alive" =>
         /\ scene.kind[l] # "smoke"
         /\ pc[l] \in {"running", "asking", "waiting", "exited", "killed"}
    /\ vite[l] = "alive" /\ pc[l] \in {"waiting", "exited"} => raced[l]
    /\ pc[l] \in {"asking", "waiting"} /\ scene.kind[l] # "smoke" => stopping[l]

\* What was abandoned stays so, and is still to be looked at or about to go.
ReclaimGoesOn ==
  \A l \in Launchers :
    /\ \A m \in seen[l] : Abandoned(m)
    /\ scene.kind[l] = "dev" => pc[l] # "make"
    /\ scene.kind[l] = "dev" /\ pc[l] = "reclaim" => seen[l] \cap dirs \subseteq todo[l] \cup {target[l]}
    /\ scene.kind[l] = "dev" /\ pc[l] \in {"mark", "spawn", "running"} => seen[l] \cap dirs = {}

\* The state file names the server until the server or the teardown has removed
\* the workspace.
StateFileHolds ==
  /\ teardown.pc # "idle" => \E l \in Launchers : scene.kind[l] = "e2e" /\ Exited(l)
  /\ \A l \in Launchers :
       scene.kind[l] = "e2e" /\ url[l] =>
         /\ ~Exited(l) => stateFile = l
         /\ Exited(l) /\ scene.windows /\ ~scene.late =>
              \/ /\ stateFile = l
                 /\ teardown.pc \in {"ask", "remove"} => teardown.of = l
                 /\ teardown.pc # "done"
              \/ stateFile = Nobody /\ l \notin dirs /\ teardown.pc \in {"idle", "done"}

StackInv ==
  StackTypes /\ SidecarsFollow /\ ServersFollow /\ ReclaimGoesOn /\ StateFileHolds

-----------------------------------------------------------------------------

LEMMA ScenesHold ==
  ASSUME ScenesAreScenes, scene \in Scenes
  PROVE  /\ scene.kind \in [Launchers -> {"dev", "e2e", "smoke"}]
         /\ \A l, m \in Launchers : scene.kind[l] = "e2e" /\ scene.kind[m] = "e2e" => l = m
BY DEF ScenesAreScenes

LEMMA StackStarts == ASSUME ScenesAreScenes PROVE StackInit => StackInv
<1> SUFFICES ASSUME StackInit
             PROVE  StackInv
  OBVIOUS
<1>1. StackTypes
  BY DEF StackInit, StackTypes, Sidecars
<1>2. SidecarsFollow
  BY DEF StackInit, SidecarsFollow, Gone
<1>3. ReclaimGoesOn
  BY DEF StackInit, ReclaimGoesOn
<1>4. StateFileHolds
  BY DEF StackInit, StateFileHolds
<1>5. ServersFollow
  BY ScenesHold DEF StackInit, ServersFollow
<1> QED
  BY <1>1, <1>2, <1>3, <1>4, <1>5 DEF StackInv

LEMMA LaunchStep ==
  ASSUME ScenesAreScenes, StackInv, NEW l \in Launchers, Launch(l)
  PROVE  StackInv'
<1> USE DEF StackInv
<1>1. StackTypes'
  BY DEF StackTypes, Sidecars, Launch, Abandoned
<1>2. SidecarsFollow'
  BY ScenesHold DEF StackTypes, SidecarsFollow, Told, Gone, Launch, Abandoned
<1>3. ReclaimGoesOn'
  BY ScenesHold DEF StackTypes, ReclaimGoesOn, Abandoned, NoSidecar, Gone, Exited, Launch
<1>4. StateFileHolds'
  BY ScenesHold DEF StackTypes, StateFileHolds, Exited, Launch, Abandoned
<1>5. ServersFollow'
  BY ScenesHold DEF StackTypes, ServersFollow, Launch, Abandoned
<1> QED
  BY <1>1, <1>2, <1>3, <1>4, <1>5

LEMMA ReclaimLooksStep ==
  ASSUME ScenesAreScenes, StackInv, NEW l \in Launchers, ReclaimLooks(l)
  PROVE  StackInv'
<1> USE DEF StackInv
<1>1. StackTypes'
  BY DEF StackTypes, Sidecars, ReclaimLooks
<1>2. SidecarsFollow'
  BY ScenesHold DEF StackTypes, SidecarsFollow, Told, Gone, ReclaimLooks
<1>3. ReclaimGoesOn'
  <2>1. PICK m \in todo[l] :
           /\ todo' = [todo EXCEPT ![l] = @ \ {m}]
           /\ target' = [target EXCEPT ![l] = IF m \in markers /\ ~Exited(m) THEN Nobody ELSE m]
    BY DEF ReclaimLooks
  <2>2. UNCHANGED <<scene, pc, seen, backend, lingers, dirs>> /\ target[l] = Nobody
    BY DEF ReclaimLooks
  <2>3. m \in seen[l] => target'[l] = m
    BY <2>1 DEF StackTypes, ReclaimGoesOn, Abandoned
  <2>4. \A k \in Launchers \ {l} : todo'[k] = todo[k] /\ target'[k] = target[k]
    BY <2>1 DEF StackTypes
  <2>5. todo'[l] = todo[l] \ {m}
    BY <2>1 DEF StackTypes
  <2>6. Nobody \notin seen[l]
    BY DEF StackTypes, ScenesAreScenes
  <2>7. seen[l] \cap dirs \subseteq todo[l] \cup {target[l]}
          => seen[l] \cap dirs \subseteq todo'[l] \cup {target'[l]}
    BY <2>2, <2>3, <2>5, <2>6
  <2>8. \A k \in Launchers : \A n \in seen[k] : Abandoned(n)'
    BY <2>2 DEF ReclaimGoesOn, Abandoned, Exited, NoSidecar, Gone
  <2> QED
    BY <2>2, <2>4, <2>7, <2>8 DEF ReclaimGoesOn
<1>4. StateFileHolds'
  BY ScenesHold DEF StackTypes, StateFileHolds, Exited, ReclaimLooks
<1>5. ServersFollow'
  BY ScenesHold DEF StackTypes, ServersFollow, ReclaimLooks
<1> QED
  BY <1>1, <1>2, <1>3, <1>4, <1>5

LEMMA ReclaimRemovesStep ==
  ASSUME ScenesAreScenes, StackInv, NEW l \in Launchers, ReclaimRemoves(l)
  PROVE  StackInv'
<1> USE DEF StackInv
<1>1. StackTypes'
  BY DEF StackTypes, Sidecars, ReclaimRemoves, Removable, NoSidecar
<1>2. SidecarsFollow'
  BY ScenesHold DEF StackTypes, SidecarsFollow, Told, Gone, ReclaimRemoves, Removable, NoSidecar
<1>3. ReclaimGoesOn'
  BY ScenesHold DEF StackTypes, ReclaimGoesOn, Abandoned, NoSidecar, Gone, Exited, ReclaimRemoves,
                    Removable
<1>4. StateFileHolds'
  BY ScenesHold DEF StackTypes, StateFileHolds, Exited, ReclaimRemoves, Removable, NoSidecar
<1>5. ServersFollow'
  BY ScenesHold DEF StackTypes, ServersFollow, ReclaimRemoves, Removable, NoSidecar
<1> QED
  BY <1>1, <1>2, <1>3, <1>4, <1>5

LEMMA MakesWorkspaceStep ==
  ASSUME ScenesAreScenes, StackInv, NEW l \in Launchers, MakesWorkspace(l)
  PROVE  StackInv'
<1> USE DEF StackInv
<1>1. StackTypes'
  BY DEF StackTypes, Sidecars, MakesWorkspace, ScriptsStay
<1>2. SidecarsFollow'
  BY ScenesHold DEF StackTypes, SidecarsFollow, Told, Gone, MakesWorkspace, ScriptsStay
<1>3. ReclaimGoesOn'
  <2>1. UNCHANGED <<scene, todo, target, seen, backend, lingers>> /\ dirs' = dirs \cup {l}
    BY DEF MakesWorkspace, ScriptsStay
  <2>2. /\ pc'[l] = IF scene.kind[l] = "dev" THEN "mark" ELSE "spawn"
        /\ \A k \in Launchers \ {l} : pc'[k] = pc[k]
    BY DEF MakesWorkspace, StackTypes
  <2>3. pc[l] \in {"make", "reclaim"}
    BY DEF MakesWorkspace
  <2>4. \A k \in Launchers : l \notin seen[k]
    BY <2>3 DEF ReclaimGoesOn, Abandoned, Exited
  <2>5. \A k \in Launchers : seen'[k] \cap dirs' = seen[k] \cap dirs
    BY <2>1, <2>4
  <2>6. scene.kind[l] = "dev" => seen[l] \cap dirs = {}
    <3> SUFFICES ASSUME scene.kind[l] = "dev"
                 PROVE  seen[l] \cap dirs = {}
      OBVIOUS
    <3>1. target[l] = Nobody /\ todo[l] = {} /\ pc[l] = "reclaim"
      BY <2>3 DEF ReclaimGoesOn, MakesWorkspace
    <3>2. Nobody \notin seen[l]
      BY DEF StackTypes, ScenesAreScenes
    <3> QED
      BY <3>1, <3>2 DEF ReclaimGoesOn
  <2>7. \A k \in Launchers : \A n \in seen'[k] : Abandoned(n)'
    <3>1. ASSUME NEW k \in Launchers, NEW n \in seen[k]
          PROVE  Abandoned(n)'
      <4>1. n # l /\ n \in Launchers /\ Abandoned(n)
        BY <2>4 DEF ReclaimGoesOn, StackTypes
      <4> QED
        BY <2>1, <2>2, <4>1 DEF Abandoned, Exited, NoSidecar, Gone
    <3> QED
      BY <2>1, <3>1
  <2>8. ASSUME NEW k \in Launchers
        PROVE  /\ scene'.kind[k] = "dev" => pc'[k] # "make"
               /\ scene'.kind[k] = "dev" /\ pc'[k] = "reclaim"
                    => seen'[k] \cap dirs' \subseteq todo'[k] \cup {target'[k]}
               /\ scene'.kind[k] = "dev" /\ pc'[k] \in {"mark", "spawn", "running"}
                    => seen'[k] \cap dirs' = {}
    <3>1. CASE k = l
      BY <2>1, <2>2, <2>5, <2>6, <3>1
    <3>2. CASE k # l
      BY <2>1, <2>2, <2>5, <3>2 DEF ReclaimGoesOn
    <3> QED
      BY <3>1, <3>2
  <2> QED
    BY <2>7, <2>8 DEF ReclaimGoesOn
<1>4. StateFileHolds'
  BY ScenesHold DEF StackTypes, StateFileHolds, Exited, MakesWorkspace, ScriptsStay
<1>5. ServersFollow'
  BY ScenesHold DEF StackTypes, ServersFollow, MakesWorkspace, ScriptsStay
<1> QED
  BY <1>1, <1>2, <1>3, <1>4, <1>5

LEMMA WritesMarkerStep ==
  ASSUME ScenesAreScenes, StackInv, NEW l \in Launchers, WritesMarker(l)
  PROVE  StackInv'
<1> USE DEF StackInv
<1>1. StackTypes'
  BY DEF StackTypes, Sidecars, WritesMarker, ScriptsStay
<1>2. SidecarsFollow'
  BY ScenesHold DEF StackTypes, SidecarsFollow, Told, Gone, WritesMarker, ScriptsStay
<1>3. ReclaimGoesOn'
  BY ScenesHold DEF StackTypes, ReclaimGoesOn, Abandoned, NoSidecar, Gone, Exited, WritesMarker,
                    ScriptsStay
<1>4. StateFileHolds'
  BY ScenesHold DEF StackTypes, StateFileHolds, Exited, WritesMarker, ScriptsStay
<1>5. ServersFollow'
  BY ScenesHold DEF StackTypes, ServersFollow, WritesMarker, ScriptsStay
<1> QED
  BY <1>1, <1>2, <1>3, <1>4, <1>5

LEMMA SpawnsStep ==
  ASSUME ScenesAreScenes, StackInv, NEW l \in Launchers, Spawns(l)
  PROVE  StackInv'
<1> USE DEF StackInv
<1>1. StackTypes'
  BY DEF StackTypes, Sidecars, Spawns
<1>2. SidecarsFollow'
  BY ScenesHold DEF StackTypes, SidecarsFollow, Told, Gone, Spawns
<1>3. ReclaimGoesOn'
  BY ScenesHold DEF StackTypes, ReclaimGoesOn, Abandoned, NoSidecar, Gone, Exited, Spawns
<1>4. StateFileHolds'
  BY ScenesHold DEF StackTypes, StateFileHolds, Exited, Spawns
<1>5. ServersFollow'
  BY ScenesHold DEF StackTypes, ServersFollow, Spawns
<1> QED
  BY <1>1, <1>2, <1>3, <1>4, <1>5

LEMMA BackendListensStep ==
  ASSUME ScenesAreScenes, StackInv, NEW l \in Launchers, BackendListens(l)
  PROVE  StackInv'
<1> USE DEF StackInv
<1>1. StackTypes'
  BY DEF StackTypes, Sidecars, BackendListens
<1>2. SidecarsFollow'
  BY ScenesHold DEF StackTypes, SidecarsFollow, Told, Gone, BackendListens
<1>3. ReclaimGoesOn'
  BY ScenesHold DEF StackTypes, ReclaimGoesOn, Abandoned, NoSidecar, Gone, Exited, BackendListens
<1>4. StateFileHolds'
  BY ScenesHold DEF StackTypes, StateFileHolds, Exited, BackendListens
<1>5. ServersFollow'
  BY ScenesHold DEF StackTypes, ServersFollow, BackendListens
<1> QED
  BY <1>1, <1>2, <1>3, <1>4, <1>5

LEMMA BackendExitsStep ==
  ASSUME ScenesAreScenes, StackInv, NEW l \in Launchers, BackendExits(l)
  PROVE  StackInv'
<1> USE DEF StackInv
<1>1. StackTypes'
  BY DEF StackTypes, Sidecars, BackendExits
<1>2. SidecarsFollow'
  BY ScenesHold DEF StackTypes, SidecarsFollow, Told, Gone, BackendExits
<1>3. ReclaimGoesOn'
  BY ScenesHold DEF StackTypes, ReclaimGoesOn, Abandoned, NoSidecar, Gone, Exited, BackendExits
<1>4. StateFileHolds'
  BY ScenesHold DEF StackTypes, StateFileHolds, Exited, BackendExits
<1>5. ServersFollow'
  BY ScenesHold DEF StackTypes, ServersFollow, BackendExits
<1> QED
  BY <1>1, <1>2, <1>3, <1>4, <1>5

LEMMA LingererExitsStep ==
  ASSUME ScenesAreScenes, StackInv, NEW l \in Launchers, LingererExits(l)
  PROVE  StackInv'
<1> USE DEF StackInv
<1>1. StackTypes'
  BY DEF StackTypes, Sidecars, LingererExits
<1>2. SidecarsFollow'
  BY ScenesHold DEF StackTypes, SidecarsFollow, Told, Gone, LingererExits
<1>3. ReclaimGoesOn'
  BY ScenesHold DEF StackTypes, ReclaimGoesOn, Abandoned, NoSidecar, Gone, Exited, LingererExits
<1>4. StateFileHolds'
  BY ScenesHold DEF StackTypes, StateFileHolds, Exited, LingererExits
<1>5. ServersFollow'
  BY ScenesHold DEF StackTypes, ServersFollow, LingererExits
<1> QED
  BY <1>1, <1>2, <1>3, <1>4, <1>5

LEMMA ViteExitsStep ==
  ASSUME ScenesAreScenes, StackInv, NEW l \in Launchers, ViteExits(l)
  PROVE  StackInv'
<1> USE DEF StackInv
<1>1. StackTypes'
  BY DEF StackTypes, Sidecars, ViteExits
<1>2. SidecarsFollow'
  BY ScenesHold DEF StackTypes, SidecarsFollow, Told, Gone, ViteExits
<1>3. ReclaimGoesOn'
  BY ScenesHold DEF StackTypes, ReclaimGoesOn, Abandoned, NoSidecar, Gone, Exited, ViteExits
<1>4. StateFileHolds'
  BY ScenesHold DEF StackTypes, StateFileHolds, Exited, ViteExits
<1>5. ServersFollow'
  BY ScenesHold DEF StackTypes, ServersFollow, ViteExits
<1> QED
  BY <1>1, <1>2, <1>3, <1>4, <1>5

LEMMA ReadsLineStep ==
  ASSUME ScenesAreScenes, StackInv, NEW l \in Launchers, ReadsLine(l)
  PROVE  StackInv'
<1> USE DEF StackInv
<1>1. StackTypes'
  BY DEF StackTypes, Sidecars, ReadsLine, Serving
<1>2. SidecarsFollow'
  BY ScenesHold DEF StackTypes, SidecarsFollow, Told, Gone, ReadsLine, Serving
<1>3. ReclaimGoesOn'
  BY ScenesHold DEF StackTypes, ReclaimGoesOn, Abandoned, NoSidecar, Gone, Exited, ReadsLine,
                    Serving
<1>4. StateFileHolds'
  BY ScenesHold DEF StackTypes, StateFileHolds, Exited, ReadsLine, Serving
<1>5. ServersFollow'
  BY ScenesHold DEF StackTypes, ServersFollow, ReadsLine, Serving
<1> QED
  BY <1>1, <1>2, <1>3, <1>4, <1>5

LEMMA ReadsBadLineStep ==
  ASSUME ScenesAreScenes, StackInv, NEW l \in Launchers, ReadsBadLine(l)
  PROVE  StackInv'
<1> USE DEF StackInv
<1>1. StackTypes'
  BY DEF StackTypes, Sidecars, ReadsBadLine, Stop, Terminated, Serving
<1>2. SidecarsFollow'
  BY ScenesHold DEF StackTypes, SidecarsFollow, Told, Gone, ReadsBadLine, Stop, Terminated, Serving
<1>3. ReclaimGoesOn'
  BY ScenesHold DEF StackTypes, ReclaimGoesOn, Abandoned, NoSidecar, Gone, Exited, ReadsBadLine,
                    Stop, Terminated, Serving
<1>4. StateFileHolds'
  BY ScenesHold DEF StackTypes, StateFileHolds, Exited, ReadsBadLine, Stop, Terminated, Serving
<1>5. ServersFollow'
  BY ScenesHold DEF StackTypes, ServersFollow, ReadsBadLine, Stop, Terminated, Serving
<1> QED
  BY <1>1, <1>2, <1>3, <1>4, <1>5

LEMMA StopsStep ==
  ASSUME ScenesAreScenes, StackInv, NEW l \in Launchers, Stops(l)
  PROVE  StackInv'
<1> USE DEF StackInv
<1>1. StackTypes'
  BY DEF StackTypes, Sidecars, Stops, Stop, Terminated, Serving
<1>2. SidecarsFollow'
  BY ScenesHold DEF StackTypes, SidecarsFollow, Told, Gone, Stops, Stop, Terminated, Serving
<1>3. ReclaimGoesOn'
  BY ScenesHold DEF StackTypes, ReclaimGoesOn, Abandoned, NoSidecar, Gone, Exited, Stops, Stop,
                    Terminated, Serving
<1>4. StateFileHolds'
  BY ScenesHold DEF StackTypes, StateFileHolds, Exited, Stops, Stop, Terminated, Serving
<1>5. ServersFollow'
  BY ScenesHold DEF StackTypes, ServersFollow, Stops, Stop, Terminated, Serving
<1> QED
  BY <1>1, <1>2, <1>3, <1>4, <1>5

LEMMA AskedStep ==
  ASSUME ScenesAreScenes, StackInv, NEW l \in Launchers, Asked(l)
  PROVE  StackInv'
<1> USE DEF StackInv
<1>1. StackTypes'
  BY DEF StackTypes, Sidecars, Asked, Terminated, Serves
<1>2. SidecarsFollow'
  BY ScenesHold DEF StackTypes, SidecarsFollow, Told, Gone, Asked, Terminated, Serves
<1>3. ReclaimGoesOn'
  BY ScenesHold DEF StackTypes, ReclaimGoesOn, Abandoned, NoSidecar, Gone, Exited, Asked,
                    Terminated, Serves
<1>4. StateFileHolds'
  BY ScenesHold DEF StackTypes, StateFileHolds, Exited, Asked, Terminated, Serves
<1>5. ServersFollow'
  <2>1. /\ UNCHANGED <<scene, stopping, raced>>
        /\ pc[l] = "asking" /\ pc' = [pc EXCEPT ![l] = "waiting"]
        /\ vite' = [vite EXCEPT ![l] = IF @ = "alive" THEN "gone" ELSE @]
    BY DEF Asked
  <2>2. vite'[l] # "alive" /\ pc'[l] = "waiting"
    BY <2>1 DEF StackTypes
  <2>3. \A k \in Launchers \ {l} : vite'[k] = vite[k] /\ pc'[k] = pc[k]
    BY <2>1 DEF StackTypes
  <2>4. scene.kind[l] # "smoke" => stopping[l]
    BY <2>1 DEF ServersFollow
  <2> QED
    BY <2>1, <2>2, <2>3, <2>4 DEF ServersFollow
<1> QED
  BY <1>1, <1>2, <1>3, <1>4, <1>5

LEMMA CleansStep ==
  ASSUME ScenesAreScenes, StackInv, NEW l \in Launchers, Cleans(l)
  PROVE  StackInv'
<1> USE DEF StackInv
<1>1. StackTypes'
  BY DEF StackTypes, Sidecars, Cleans, DeadlinePasses, ScriptsStay, Removable, NoSidecar, Serving
<1>2. SidecarsFollow'
  BY ScenesHold DEF StackTypes, SidecarsFollow, Told, Gone, Cleans, DeadlinePasses, ScriptsStay,
                    Removable, NoSidecar, Serving
<1>3. ReclaimGoesOn'
  BY ScenesHold DEF StackTypes, ReclaimGoesOn, Abandoned, NoSidecar, Gone, Exited, Cleans,
                    DeadlinePasses, ScriptsStay, Removable, NoSidecar, Serving
<1>4. StateFileHolds'
  BY ScenesHold DEF StackTypes, StateFileHolds, Exited, Cleans, DeadlinePasses, ScriptsStay,
                    Removable, NoSidecar, Serving
<1>5. ServersFollow'
  BY ScenesHold DEF StackTypes, ServersFollow, Cleans, DeadlinePasses, ScriptsStay, Removable,
                    NoSidecar, Serving
<1> QED
  BY <1>1, <1>2, <1>3, <1>4, <1>5

LEMMA LauncherKilledStep ==
  ASSUME ScenesAreScenes, StackInv, NEW l \in Launchers, LauncherKilled(l)
  PROVE  StackInv'
<1> USE DEF StackInv
<1>1. StackTypes'
  BY DEF StackTypes, Sidecars, LauncherKilled, ScriptsStay
<1>2. SidecarsFollow'
  BY ScenesHold DEF StackTypes, SidecarsFollow, Told, Gone, LauncherKilled, ScriptsStay
<1>3. ReclaimGoesOn'
  BY ScenesHold DEF StackTypes, ReclaimGoesOn, Abandoned, NoSidecar, Gone, Exited, LauncherKilled,
                    ScriptsStay
<1>4. StateFileHolds'
  BY ScenesHold DEF StackTypes, StateFileHolds, Exited, LauncherKilled, ScriptsStay
<1>5. ServersFollow'
  BY ScenesHold DEF StackTypes, ServersFollow, LauncherKilled, ScriptsStay
<1> QED
  BY <1>1, <1>2, <1>3, <1>4, <1>5

LEMMA SmokeStartsStep ==
  ASSUME ScenesAreScenes, StackInv, NEW l \in Launchers, SmokeStarts(l)
  PROVE  StackInv'
<1> USE DEF StackInv
<1>1. StackTypes'
  <2>1. Terminated(l) \in Sidecars
    BY DEF Terminated, Gone, Sidecars, StackTypes
  <2>2. /\ backend \in [Launchers -> Sidecars] /\ url \in [Launchers -> BOOLEAN]
        /\ backend' = backend \/ backend' = [backend EXCEPT ![l] = Terminated(l)]
        /\ url' = url \/ url' = [url EXCEPT ![l] = TRUE]
    BY DEF StackTypes, SmokeStarts
  <2>3. backend' \in [Launchers -> Sidecars]
    BY <2>1, <2>2
  <2>4. url' \in [Launchers -> BOOLEAN]
    BY <2>2
  <2>5. pc' \in [Launchers -> {"new", "reclaim", "make", "mark", "spawn", "running", "asking",
                               "waiting", "remove", "exited", "killed"}]
    BY DEF StackTypes, SmokeStarts
  <2>6. /\ scene' = scene /\ todo' = todo /\ target' = target /\ seen' = seen
        /\ stopping' = stopping /\ raced' = raced /\ vite' = vite /\ lingers' = lingers
        /\ dirs' = dirs /\ stateFile' = stateFile /\ teardown' = teardown
    BY DEF SmokeStarts
  <2>7. /\ scene' \in Scenes /\ todo' \in [Launchers -> SUBSET Launchers]
        /\ target' \in [Launchers -> Launchers \cup {Nobody}]
        /\ seen' \in [Launchers -> SUBSET Launchers]
        /\ stopping' \in [Launchers -> BOOLEAN] /\ raced' \in [Launchers -> BOOLEAN]
        /\ vite' \in [Launchers -> {"none", "alive", "gone"}]
        /\ lingers' \in [Launchers -> BOOLEAN]
    BY <2>6 DEF StackTypes
  <2>8. /\ dirs' \subseteq Launchers /\ stateFile' \in Launchers \cup {Nobody}
        /\ \/ teardown'.pc \in {"idle", "done"}
           \/ teardown'.pc \in {"ask", "remove"} /\ teardown'.of \in Launchers
    BY <2>6 DEF StackTypes
  <2> QED
    BY <2>3, <2>4, <2>5, <2>7, <2>8 DEF StackTypes
<1>2. SidecarsFollow'
  BY ScenesHold DEF StackTypes, SidecarsFollow, Told, Gone, SmokeStarts, Terminated, Smoking
<1>3. ReclaimGoesOn'
  BY ScenesHold DEF StackTypes, ReclaimGoesOn, Abandoned, NoSidecar, Gone, Exited, SmokeStarts,
                    Terminated, Smoking
<1>4. StateFileHolds'
  BY ScenesHold DEF StackTypes, StateFileHolds, Exited, SmokeStarts, Terminated, Smoking
<1>5. ServersFollow'
  BY ScenesHold DEF StackTypes, ServersFollow, SmokeStarts, Terminated, Smoking
<1> QED
  BY <1>1, <1>2, <1>3, <1>4, <1>5

LEMMA SmokeAsksStep ==
  ASSUME ScenesAreScenes, StackInv, NEW l \in Launchers, SmokeAsks(l)
  PROVE  StackInv'
<1> USE DEF StackInv
<1>1. StackTypes'
  BY DEF StackTypes, Sidecars, SmokeAsks, Serves, Smoking
<1>2. SidecarsFollow'
  BY ScenesHold DEF StackTypes, SidecarsFollow, Told, Gone, SmokeAsks, Serves, Smoking
<1>3. ReclaimGoesOn'
  BY ScenesHold DEF StackTypes, ReclaimGoesOn, Abandoned, NoSidecar, Gone, Exited, SmokeAsks,
                    Serves, Smoking
<1>4. StateFileHolds'
  BY ScenesHold DEF StackTypes, StateFileHolds, Exited, SmokeAsks, Serves, Smoking
<1>5. ServersFollow'
  BY ScenesHold DEF StackTypes, ServersFollow, SmokeAsks, Serves, Smoking
<1> QED
  BY <1>1, <1>2, <1>3, <1>4, <1>5

LEMMA SmokeWaitsStep ==
  ASSUME ScenesAreScenes, StackInv, NEW l \in Launchers, SmokeWaits(l)
  PROVE  StackInv'
<1> USE DEF StackInv
<1>1. StackTypes'
  BY DEF StackTypes, Sidecars, SmokeWaits, DeadlinePasses, Terminated, Smoking
<1>2. SidecarsFollow'
  BY ScenesHold DEF StackTypes, SidecarsFollow, Told, Gone, SmokeWaits, DeadlinePasses,
                    Terminated, Smoking
<1>3. ReclaimGoesOn'
  BY ScenesHold DEF StackTypes, ReclaimGoesOn, Abandoned, NoSidecar, Gone, Exited, SmokeWaits,
                    DeadlinePasses, Terminated, Smoking
<1>4. StateFileHolds'
  BY ScenesHold DEF StackTypes, StateFileHolds, Exited, SmokeWaits, DeadlinePasses, Terminated,
                    Smoking
<1>5. ServersFollow'
  BY ScenesHold DEF StackTypes, ServersFollow, SmokeWaits, DeadlinePasses, Terminated, Smoking
<1> QED
  BY <1>1, <1>2, <1>3, <1>4, <1>5

LEMMA SmokeRemovesStep ==
  ASSUME ScenesAreScenes, StackInv, NEW l \in Launchers, SmokeRemoves(l)
  PROVE  StackInv'
<1> USE DEF StackInv
<1>1. StackTypes'
  BY DEF StackTypes, Sidecars, SmokeRemoves, ScriptsStay, Removable, NoSidecar, Smoking
<1>2. SidecarsFollow'
  BY ScenesHold DEF StackTypes, SidecarsFollow, Told, Gone, SmokeRemoves, ScriptsStay, Removable,
                    NoSidecar, Smoking
<1>3. ReclaimGoesOn'
  BY ScenesHold DEF StackTypes, ReclaimGoesOn, Abandoned, NoSidecar, Gone, Exited, SmokeRemoves,
                    ScriptsStay, Removable, NoSidecar, Smoking
<1>4. StateFileHolds'
  BY ScenesHold DEF StackTypes, StateFileHolds, Exited, SmokeRemoves, ScriptsStay, Removable,
                    NoSidecar, Smoking
<1>5. ServersFollow'
  BY ScenesHold DEF StackTypes, ServersFollow, SmokeRemoves, ScriptsStay, Removable, NoSidecar,
                    Smoking
<1> QED
  BY <1>1, <1>2, <1>3, <1>4, <1>5

\* The teardown, after the end-to-end server has ended.
LEMMA TeardownStep ==
  ASSUME ScenesAreScenes, StackInv, TeardownReads \/ TeardownAsks \/ TeardownRemoves
  PROVE  StackInv'
<1> USE DEF StackInv
<1>1. CASE TeardownReads
  <2>1. StackTypes'
    <3>1. UNCHANGED <<scene, todo, target, seen, url, stopping, vite, raced, backend, lingers, pc,
                      dirs, stateFile>>
      BY <1>1 DEF TeardownReads, ScriptsStay
    <3>2. \/ teardown' = [pc |-> "done"]
          \/ teardown' = [pc |-> "ask", of |-> stateFile] /\ stateFile # Nobody
      BY <1>1 DEF TeardownReads
    <3>3. \/ teardown'.pc = "done"
          \/ teardown'.pc = "ask" /\ teardown'.of \in Launchers
      <4>1. CASE teardown' = [pc |-> "done"]
        BY <4>1
      <4>2. CASE teardown' = [pc |-> "ask", of |-> stateFile] /\ stateFile # Nobody
        BY <4>2 DEF StackTypes
      <4> QED
        BY <3>2, <4>1, <4>2
    <3> QED
      BY <3>1, <3>3 DEF StackTypes
  <2>2. SidecarsFollow' /\ ServersFollow' /\ ReclaimGoesOn'
    BY <1>1 DEF SidecarsFollow, ServersFollow, ReclaimGoesOn, Told, Abandoned, NoSidecar, Gone,
                Exited, TeardownReads, ScriptsStay
  <2>3. StateFileHolds'
    <3>1. UNCHANGED <<scene, url, pc, dirs, stateFile>> /\ teardown.pc = "idle"
      BY <1>1 DEF TeardownReads, ScriptsStay
    <3>2. PICK e \in Launchers : scene.kind[e] = "e2e" /\ Exited(e)
      BY <1>1 DEF TeardownReads
    <3>3. \A l \in Launchers : scene.kind[l] = "e2e" => l = e
      BY <3>2, ScenesHold DEF StackTypes
    <3>4. CASE stateFile = Nobody /\ teardown' = [pc |-> "done"]
      <4>1. teardown'.pc = "done" /\ Nobody \notin Launchers
        BY <3>4 DEF ScenesAreScenes
      <4> QED
        BY <3>1, <3>2, <3>3, <3>4, <4>1 DEF StateFileHolds, Exited
    <3>5. CASE stateFile # Nobody /\ teardown' = [pc |-> "ask", of |-> stateFile]
      <4>1. teardown'.pc = "ask" /\ teardown'.of = stateFile
        BY <3>5
      <4> QED
        BY <3>1, <3>2, <3>3, <3>5, <4>1 DEF StateFileHolds, Exited
    <3> QED
      BY <1>1, <3>4, <3>5 DEF TeardownReads
  <2> QED
    BY <2>1, <2>2, <2>3
<1>2. CASE TeardownAsks
  <2>1. StackTypes'
    BY <1>2 DEF StackTypes, Sidecars, TeardownAsks
  <2>2. teardown.of \in Launchers
    BY <1>2 DEF StackTypes, TeardownAsks
  <2>3. SidecarsFollow' /\ ServersFollow' /\ ReclaimGoesOn'
    BY <1>2, <2>2 DEF StackTypes, SidecarsFollow, ServersFollow, ReclaimGoesOn, Told, Abandoned,
                      NoSidecar, Gone, Exited, TeardownAsks
  <2>4. StateFileHolds'
    BY <1>2, ScenesHold DEF StackTypes, StateFileHolds, Exited, TeardownAsks
  <2> QED
    BY <2>1, <2>3, <2>4
<1>3. CASE TeardownRemoves
  <2>1. StackTypes'
    BY <1>3 DEF StackTypes, TeardownRemoves, ScriptsStay
  <2>2. SidecarsFollow' /\ ServersFollow' /\ ReclaimGoesOn'
    BY <1>3 DEF SidecarsFollow, ServersFollow, ReclaimGoesOn, Told, Abandoned, NoSidecar, Gone,
                Exited, TeardownRemoves, ScriptsStay
  <2>3. StateFileHolds'
    BY <1>3, ScenesHold DEF StackTypes, StateFileHolds, Exited, TeardownRemoves, ScriptsStay
  <2> QED
    BY <2>1, <2>2, <2>3
<1> QED
  BY <1>1, <1>2, <1>3

LEMMA StackStep ==
  ASSUME ScenesAreScenes, StackInv, [StackNext]_stackVars
  PROVE  StackInv'
<1>1. CASE UNCHANGED stackVars
  BY <1>1 DEF stackVars, StackInv, StackTypes, SidecarsFollow, ServersFollow, ReclaimGoesOn,
              StateFileHolds, Told, Abandoned, NoSidecar, Gone, Exited
<1> QED
  BY <1>1, TeardownStep, LaunchStep, ReclaimLooksStep, ReclaimRemovesStep, MakesWorkspaceStep,
     WritesMarkerStep, SpawnsStep, BackendListensStep, BackendExitsStep, LingererExitsStep,
     ViteExitsStep,
     ReadsLineStep, ReadsBadLineStep, StopsStep, AskedStep, CleansStep, LauncherKilledStep,
     SmokeStartsStep, SmokeAsksStep, SmokeWaitsStep, SmokeRemovesStep
     DEF StackNext

\* However many launchers run, are killed and find the workspaces of others:
\* a script that ends has told its sidecar to end, a launch reclaims what was
\* abandoned, and an end-to-end run leaves neither workspace nor state file
\* (dev-web.mjs, e2e-server.mjs, global-teardown.ts, smoke-sidecar.mjs).
THEOREM NothingIsEverLeft == StackSpec => []NothingIsLeft
<1>1. StackInv => EndedScriptsStopSidecars
  BY DEF StackInv, SidecarsFollow, EndedScriptsStopSidecars, Told
<1>2. StackInv => AbandonedAreReclaimed
  BY DEF StackInv, ReclaimGoesOn, AbandonedAreReclaimed
<1>3. StackInv => TeardownLeavesNothing
  BY ScenesAreScenes DEF StackInv, StateFileHolds, TeardownLeavesNothing, ScenesAreScenes
<1>4. StackInv => EndedScriptsStopServers
  BY DEF StackInv, ServersFollow, EndedScriptsStopServers
<1>5. StackInit => StackInv
  BY StackStarts, ScenesAreScenes
<1>6. StackInv /\ [StackNext]_stackVars => StackInv'
  BY StackStep, ScenesAreScenes
<1> QED
  BY <1>1, <1>2, <1>3, <1>4, <1>5, <1>6, PTL DEF StackSpec, NothingIsLeft

==============================================================================
