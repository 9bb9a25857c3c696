---------------------------- MODULE BackupsProofs ----------------------------
(***************************************************************************)
(* Proofs about Backups, for any number of workspaces, attachments,        *)
(* imports, directories and backups, and any number of archives to keep.   *)
(*                                                                         *)
(* What is known of the attachments of the open workspace comes from the   *)
(* proofs about Attachments: its steps are steps of that module, and the   *)
(* restored workspaces it knows nothing of are not open.                   *)
(***************************************************************************)
EXTENDS Backups, FiniteSetTheorems, TLAPS

AP == INSTANCE AttachmentsProofs

-----------------------------------------------------------------------------
(* Attachments, here and in its proofs.                                    *)

LEMMA FilesAssumption == AP!AttachmentsAssumption
BY BackupsAssumption DEF AP!AttachmentsAssumption

LEMMA SameTypes == Files!TypeOK <=> AP!TypeOK
BY DEF Files!TypeOK, AP!TypeOK, Files!TaskType, AP!TaskType, Files!Phases, AP!Phases

LEMMA SameTypesNext == Files!TypeOK' <=> AP!TypeOK'
BY DEF Files!TypeOK, AP!TypeOK, Files!TaskType, AP!TaskType, Files!Phases, AP!Phases

LEMMA SameRows == \A w : Files!Recorded(w) = AP!Recorded(w)
BY DEF Files!Recorded, AP!Recorded

LEMMA SameRowsNext == \A w \in Workspaces : Files!Recorded(w)' = AP!Recorded(w)'
BY DEF Files!Recorded, AP!Recorded

LEMMA SameSteps ==
  /\ Files!Init => AP!Init
  /\ Files!Step => AP!Next
  /\ Files!Stop => AP!Next
  /\ \A w \in Workspaces : Files!Open(w) => AP!Next
<1>1. Files!Init => AP!Init
  BY DEF Files!Init, AP!Init, Files!Idle, AP!Idle
<1>2. Files!Step => AP!Step
  BY DEF Files!Step, Files!ImportStep, Files!Begin, Files!CopyBegin, Files!CopyDone,
     Files!CopyFails, Files!Record, Files!RecordFails, Files!CleanOne, Files!CleanDone,
     Files!Delete, Files!RestoreTrash, Files!Fresh, Files!Idle,
     AP!Step, AP!ImportStep, AP!Begin, AP!CopyBegin, AP!CopyDone, AP!CopyFails, AP!Record,
     AP!RecordFails, AP!CleanOne, AP!CleanDone, AP!Delete, AP!RestoreTrash, AP!Fresh, AP!Idle
<1>3. Files!Stop => AP!Stop
  BY DEF Files!Stop, AP!Stop, Files!Idle, AP!Idle
<1>4. \A w : Files!Open(w) => AP!Open(w)
  BY DEF Files!Open, AP!Open, Files!Recorded, AP!Recorded
<1> QED BY <1>1, <1>2, <1>3, <1>4 DEF AP!Next

\* A step takes no row and no recorded payload, and other workspaces are left alone.
LEMMA FilesStep ==
  ASSUME AP!OwnInv, Files!Step \/ Files!Stop \/ \E w \in Workspaces : Files!Open(w)
  PROVE  AP!OwnInv' /\ AP!NothingLost
<1>1. AP!Next
  BY SameSteps
<1> QED BY <1>1, FilesAssumption, AP!NextOwn

LEMMA OnlyCurrent ==
  ASSUME AP!TypeOK, Files!Step
  PROVE  /\ current' = current /\ issued \subseteq issued'
         /\ \A w \in Workspaces \ {current} : status'[w] = status[w] /\ files'[w] = files[w]
<1>1. ASSUME NEW i \in Imports, Files!ImportStep(i)
      PROVE  /\ current' = current /\ issued \subseteq issued'
             /\ status' = status \/ \E v : status' = [status EXCEPT ![current] = v]
             /\ files' = files \/ \E v : files' = [files EXCEPT ![current] = v]
  BY <1>1 DEF Files!ImportStep, Files!Begin, Files!CopyBegin, Files!CopyDone,
     Files!CopyFails, Files!Record, Files!RecordFails, Files!CleanOne, Files!CleanDone
<1>2. ASSUME NEW x \in Items, Files!Delete(x) \/ Files!RestoreTrash(x)
      PROVE  /\ current' = current /\ issued \subseteq issued' /\ files' = files
             /\ \E v : status' = [status EXCEPT ![current] = v]
  BY <1>2 DEF Files!Delete, Files!RestoreTrash
<1> QED BY <1>1, <1>2 DEF Files!Step, AP!TypeOK

-----------------------------------------------------------------------------
(* The part of the invariant that is about attachments.                    *)

SnapRecorded(snap) == {x \in Items : snap.status[x] # "none"}

\* An archive holds every live payload of its snapshot, and names no identifier
\* that may still be issued.
ContentSound ==
  /\ \A r \in Runs : content[r] # NoContent =>
       /\ r <= taken
       /\ content[r].files = SnapLive(content[r].snap)
       /\ SnapRecorded(content[r].snap) \subseteq issued
  /\ \A d \in Dirs : \A r \in zips[d] : content[r] # NoContent
  /\ \A w \in Workspaces : origin[w] # 0 => content[origin[w]] # NoContent

\* What a backup or restore under way may rely on.
OpSound ==
  /\ op.phase # "idle" => current \in Workspaces
  /\ op.phase \in {"copying", "collecting", "published", "failing", "pruning"} =>
       op.run \in 1..taken
  /\ op.phase \in {"copying", "collecting"} => content[op.run] = NoContent
  /\ op.phase = "collecting" => SnapRecorded(op.snap) \subseteq Files!Recorded(current)
  /\ op.phase \in {"extracting", "placing"} =>
       /\ op.run \in Runs /\ content[op.run] # NoContent
       /\ op.target \in Workspaces \ {current}
  /\ op.phase # "pruning" => op.doomed = {} /\ op.removing = 0

RowStates == {"none", "running", "succeeded", "failed"}

BInv == TypeOK /\ AP!OwnInv /\ ContentSound /\ OpSound /\ OnlyTrashIsLost

LEMMA InitBInv == Init => BInv
<1> SUFFICES ASSUME Init PROVE BInv
  OBVIOUS
<1> USE BackupsAssumption DEF Init
<1>1. AP!FilesInv
  BY SameSteps, FilesAssumption, AP!InitFiles
<1>2. AP!OwnInv /\ Files!TypeOK
  BY <1>1, SameTypes DEF AP!FilesInv, AP!OwnInv
<1>3. NoSnap \in SnapType
  BY DEF NoSnap, SnapType
<1>4. NoOp \in OpType /\ NoOp.phase = "idle" /\ NoOp.doomed = {} /\ NoOp.removing = 0
  BY <1>3 DEF NoOp, OpType
<1>5. NoSnap.runs = [r \in Runs |-> "none"]
  BY DEF NoSnap
<1>6. TypeOK
  BY <1>2, <1>4, <1>5 DEF TypeOK
<1>7. ContentSound
  BY DEF ContentSound
<1>8. OpSound
  BY <1>4 DEF OpSound
<1>9. OnlyTrashIsLost
  BY DEF OnlyTrashIsLost, Files!Recorded, Files!Init
<1> QED BY <1>2, <1>6, <1>7, <1>8, <1>9 DEF BInv

LEMMA Known ==
  ASSUME BInv
  PROVE  /\ op \in OpType /\ runs \in [Workspaces -> [Runs -> RowStates]]
         /\ dir \in [Workspaces -> Dirs \cup {NoDir}] /\ taken \in 0..MaxRuns /\ taken \in Nat
         /\ zips \in [Dirs -> SUBSET Runs] /\ content \in [Runs -> ArchiveType \cup {NoContent}]
         /\ Files!TypeOK /\ AP!TypeOK /\ Runs = 1..MaxRuns /\ MaxRuns \in Nat
         /\ (op.phase # "idle" => op.dest \in Dirs)
BY SameTypes, BackupsAssumption DEF BInv, TypeOK, Runs, RowStates

\* A step that leaves the attachments and the archives' contents alone.
LEMMA FilesStay ==
  ASSUME BInv, UNCHANGED <<attachmentVars, origin, content>>,
         taken' \in Nat, taken <= taken', \A d \in Dirs : zips'[d] \subseteq zips[d]
  PROVE  AP!OwnInv' /\ Files!TypeOK' /\ ContentSound' /\ OnlyTrashIsLost'
         /\ Files!Recorded(current)' = Files!Recorded(current)
<1>0. taken \in Nat /\ Runs \subseteq Nat
  BY Known
<1>1. AP!OwnInv' /\ Files!TypeOK'
  BY SameTypesNext DEF attachmentVars, BInv, AP!OwnInv, AP!TypeOK, AP!Recorded, AP!Owns, AP!Apart
<1>2. ContentSound'
  BY <1>0 DEF attachmentVars, BInv, ContentSound
<1>3. OnlyTrashIsLost' /\ Files!Recorded(current)' = Files!Recorded(current)
  BY DEF attachmentVars, BInv, OnlyTrashIsLost, Files!Recorded
<1> QED BY <1>1, <1>2, <1>3

LEMMA BackupMoves ==
  ASSUME BInv, op' \in OpType, op'.phase # "idle" => op'.dest \in Dirs, OpSound',
         runs' \in [Workspaces -> [Runs -> RowStates]],
         dir' \in [Workspaces -> Dirs \cup {NoDir}],
         home' \in [Workspaces -> {"absent", "empty", "occupied"}],
         clock' \in 0..MaxTime, taken' \in 0..MaxRuns, taken <= taken',
         stamp' \in [Runs -> 0..MaxTime], zips' \in [Dirs -> SUBSET Runs],
         \A d \in Dirs : zips'[d] \subseteq zips[d],
         UNCHANGED <<attachmentVars, origin, content, place>>
  PROVE  BInv'
<1>1. taken' \in Nat
  BY BackupsAssumption
<1>2. AP!OwnInv' /\ Files!TypeOK' /\ ContentSound' /\ OnlyTrashIsLost'
  BY <1>1, FilesStay
<1>3. TypeOK'
  BY <1>2 DEF BInv, TypeOK, RowStates
<1> QED BY <1>2, <1>3 DEF BInv

\* The steps that change nothing but op.
LEMMA OpMoves ==
  ASSUME BInv, op' \in OpType, op'.phase # "idle" => op'.dest \in Dirs, OpSound',
         UNCHANGED <<attachmentVars, home, origin, runs, dir, clock, archiveVars>>
  PROVE  BInv'
<1>1. taken' = taken /\ taken <= taken'
  BY Known DEF archiveVars
<1> QED BY <1>1, BackupMoves DEF BInv, TypeOK, archiveVars, RowStates

LEMMA NoOpType ==
  /\ NoOp \in OpType /\ NoOp.phase = "idle" /\ NoOp.doomed = {} /\ NoOp.removing = 0
  /\ NoOp.run = 0
<1>1. NoSnap \in SnapType
  BY DEF NoSnap, SnapType
<1> QED BY <1>1 DEF NoOp, OpType

\* Whatever was under way is over.
LEMMA OpEnds ==
  ASSUME BInv, op' = NoOp,
         UNCHANGED <<attachmentVars, home, origin, runs, dir, clock, archiveVars>>
  PROVE  BInv'
BY NoOpType, OpMoves DEF OpSound

LEMMA RowType ==
  ASSUME BInv, current \in Workspaces, NEW r, NEW state \in RowStates,
         runs' = [runs EXCEPT ![current][r] = state] \/ UNCHANGED runs
  PROVE  runs' \in [Workspaces -> [Runs -> RowStates]]
<1> DEFINE row == [runs[current] EXCEPT ![r] = state]
<1>1. runs \in [Workspaces -> [Runs -> RowStates]]
  BY Known DEF RowStates
<1>2. row \in [Runs -> RowStates]
  BY <1>1
<1>3. runs' = [runs EXCEPT ![current] = row] \/ runs' = runs
  OBVIOUS
<1> HIDE DEF row
<1> QED BY <1>1, <1>2, <1>3

LEMMA ConfigureInv == BInv /\ Configure => BInv'
<1> SUFFICES ASSUME BInv, Configure PROVE BInv'
  OBVIOUS
<1>1. dir' \in [Workspaces -> Dirs \cup {NoDir}]
  BY Known DEF Configure
<1>2. taken' = taken /\ taken <= taken' /\ op' = op
  BY Known DEF Configure, archiveVars
<1>3. OpSound'
  BY DEF Configure, archiveVars, attachmentVars, BInv, OpSound, Files!Recorded
<1> QED BY <1>1, <1>2, <1>3, BackupMoves DEF Configure, archiveVars, BInv, TypeOK, RowStates

LEMMA RequestBackupInv == BInv /\ RequestBackup => BInv'
<1> SUFFICES ASSUME BInv, RequestBackup PROVE BInv'
  OBVIOUS
<1>1. op' = [NoOp EXCEPT !.phase = "requested", !.dest = dir[current]]
  BY DEF RequestBackup
<1>2. current \in Workspaces /\ dir[current] \in Dirs /\ dir[current] # NoDir
  BY Known DEF RequestBackup, AP!TypeOK
<1>3. /\ op' \in OpType /\ op'.phase = "requested" /\ op'.dest = dir[current]
      /\ op'.doomed = {} /\ op'.removing = 0
  BY <1>1, <1>2, NoOpType DEF OpType
<1>4. current' = current
  BY DEF RequestBackup, attachmentVars
<1>5. OpSound'
  BY <1>2, <1>3, <1>4 DEF OpSound
<1> QED BY <1>2, <1>3, <1>5, OpMoves DEF RequestBackup

LEMMA InsertRunInv == BInv /\ InsertRun => BInv'
<1> SUFFICES ASSUME BInv, InsertRun PROVE BInv'
  OBVIOUS
<1>0. /\ taken \in Nat /\ taken' = taken + 1 /\ taken' \in 0..MaxRuns /\ taken <= taken'
      /\ taken' \in Runs /\ taken' \in 1..taken'
  BY Known DEF InsertRun
<1>1. op' = [op EXCEPT !.phase = "copying", !.run = taken'] /\ op.phase = "requested"
  BY DEF InsertRun
<1>2. /\ op' \in OpType /\ op'.phase = "copying" /\ op'.run = taken' /\ op'.dest = op.dest
      /\ op'.doomed = op.doomed /\ op'.removing = op.removing
  BY <1>0, <1>1, Known DEF OpType
<1>3. current' = current /\ content' = content
  BY DEF InsertRun, attachmentVars
<1>4. content[taken'] = NoContent
  BY <1>0 DEF BInv, ContentSound
<1>5. OpSound'
  BY <1>0, <1>1, <1>2, <1>3, <1>4 DEF BInv, OpSound
<1>6. runs' \in [Workspaces -> [Runs -> RowStates]]
  <2>1. current \in Workspaces
    BY <1>1 DEF BInv, OpSound
  <2> QED BY <2>1, RowType DEF InsertRun, RowStates
<1> QED BY <1>0, <1>1, <1>2, <1>5, <1>6, Known, BackupMoves DEF InsertRun, BInv, TypeOK, RowStates

LEMMA TakeSnapshotInv == BInv /\ TakeSnapshot => BInv'
<1> SUFFICES ASSUME BInv, TakeSnapshot PROVE BInv'
  OBVIOUS
<1> DEFINE snap == [status |-> status[current], runs |-> runs[current], dir |-> dir[current]]
<1>1. op' = [op EXCEPT !.phase = "collecting", !.snap = snap] /\ op.phase = "copying"
  BY DEF TakeSnapshot
<1>2. current \in Workspaces
  BY <1>1 DEF BInv, OpSound
<1>3. snap \in SnapType /\ snap.status = status[current]
  BY <1>2, Known DEF SnapType, AP!TypeOK, RowStates
<1> HIDE DEF snap
<1>4. /\ op' \in OpType /\ op'.phase = "collecting" /\ op'.run = op.run /\ op'.dest = op.dest
      /\ op'.doomed = op.doomed /\ op'.removing = op.removing /\ op'.snap = snap
  BY <1>1, <1>3, Known DEF OpType
<1>5. current' = current /\ content' = content /\ taken' = taken /\ status' = status
  BY DEF TakeSnapshot, attachmentVars, archiveVars
<1>6. SnapRecorded(snap) = Files!Recorded(current)'
  BY <1>3, <1>5 DEF SnapRecorded, Files!Recorded
<1>7. OpSound'
  BY <1>1, <1>4, <1>5, <1>6 DEF BInv, OpSound
<1> QED BY <1>1, <1>4, <1>7, Known, OpMoves DEF TakeSnapshot

LEMMA CollectInv == BInv /\ Collect => BInv'
<1> SUFFICES ASSUME BInv, Collect PROVE BInv'
  OBVIOUS
<1>1. PICK x \in Items : op' = [op EXCEPT !.files = op.files \cup {x}]
  BY DEF Collect, SnapLive
<1>2. /\ op' \in OpType /\ op'.phase = op.phase /\ op'.run = op.run /\ op'.dest = op.dest
      /\ op'.doomed = op.doomed /\ op'.removing = op.removing /\ op'.snap = op.snap
      /\ op'.target = op.target
  BY <1>1, Known DEF OpType
<1>3. OpSound'
  BY <1>2 DEF Collect, attachmentVars, archiveVars, BInv, OpSound, Files!Recorded
<1> QED BY <1>2, <1>3, Known, OpMoves DEF Collect

LEMMA FailBackupInv == BInv /\ FailBackup => BInv'
<1> SUFFICES ASSUME BInv, FailBackup PROVE BInv'
  OBVIOUS
<1>1. CASE op' = NoOp
  BY <1>1, OpEnds DEF FailBackup
<1>2. CASE op' = [op EXCEPT !.phase = "failing"] /\ op.phase # "requested"
  <2>1. op.phase \in {"copying", "collecting", "published"}
    BY <1>2 DEF FailBackup
  <2>2. /\ op' \in OpType /\ op'.phase = "failing" /\ op'.run = op.run /\ op'.dest = op.dest
        /\ op'.doomed = op.doomed /\ op'.removing = op.removing
    BY <1>2, Known DEF OpType
  <2>3. OpSound'
    BY <2>1, <2>2 DEF FailBackup, attachmentVars, archiveVars, BInv, OpSound
  <2> QED BY <2>1, <2>2, <2>3, Known, OpMoves DEF FailBackup
<1> QED BY <1>1, <1>2 DEF FailBackup

LEMMA SucceedInv == BInv /\ Succeed => BInv'
<1> SUFFICES ASSUME BInv, Succeed PROVE BInv'
  OBVIOUS
<1> DEFINE doomed == Beyond(runs'[current], stamp', op.dest)
<1>1. op' = [op EXCEPT !.phase = "pruning", !.doomed = doomed] /\ op.phase = "published"
  BY DEF Succeed
<1>2. doomed \subseteq Runs
  BY DEF Beyond
<1> HIDE DEF doomed
<1>3. /\ op' \in OpType /\ op'.phase = "pruning" /\ op'.run = op.run /\ op'.dest = op.dest
  BY <1>1, <1>2, Known DEF OpType
<1>4. OpSound'
  BY <1>1, <1>3 DEF Succeed, attachmentVars, archiveVars, BInv, OpSound
<1>5. runs' \in [Workspaces -> [Runs -> RowStates]]
  <2>1. current \in Workspaces
    BY <1>1 DEF BInv, OpSound
  <2> QED BY <2>1, RowType DEF Succeed, UpdateRow, RowStates
<1>6. stamp' \in [Runs -> 0..MaxTime]
  BY DEF Succeed, BInv, TypeOK
<1>7. taken' = taken /\ taken <= taken'
  BY Known DEF Succeed
<1> QED BY <1>1, <1>3, <1>4, <1>5, <1>6, <1>7, Known, BackupMoves DEF Succeed, BInv, TypeOK

LEMMA FailInv == BInv /\ Fail => BInv'
<1> SUFFICES ASSUME BInv, Fail PROVE BInv'
  OBVIOUS
<1>1. runs' \in [Workspaces -> [Runs -> RowStates]]
  <2>1. current \in Workspaces
    BY DEF Fail, BInv, OpSound
  <2> QED BY <2>1, RowType DEF Fail, UpdateRow, RowStates
<1>2. op' = NoOp /\ OpSound'
  BY NoOpType DEF Fail, OpSound
<1>3. taken' = taken /\ taken <= taken'
  BY Known DEF Fail, archiveVars
<1> QED BY <1>1, <1>2, <1>3, NoOpType, Known, BackupMoves DEF Fail, archiveVars, BInv, TypeOK

\* A removal takes one archive out of the doomed, and perhaps out of its directory.
LEMMA RemoveZipStep ==
  ASSUME BInv, RemoveZip
  PROVE  \E r \in op.doomed :
           /\ op.phase = "pruning" /\ op.removing = 0 /\ r \in Runs
           /\ op' \in OpType /\ op'.phase = "pruning" /\ op'.run = op.run /\ op'.dest = op.dest
           /\ op'.doomed = op.doomed \ {r}
           /\ \/ zips' = zips /\ op'.removing = 0
              \/ zips' = [zips EXCEPT ![place[r]] = @ \ {r}] /\ op'.removing = r
<1>1. PICK r \in op.doomed :
        \/ /\ zips' = [zips EXCEPT ![place[r]] = @ \ {r}]
           /\ op' = [op EXCEPT !.doomed = op.doomed \ {r}, !.removing = r]
        \/ zips' = zips /\ op' = [op EXCEPT !.doomed = op.doomed \ {r}]
  BY DEF RemoveZip
<1>2. op.doomed \subseteq Runs /\ op.phase = "pruning" /\ op.removing = 0
  BY Known DEF OpType, RemoveZip
<1>3. r \in Runs
  BY <1>2
<1> QED BY <1>1, <1>2, <1>3, Known DEF OpType

LEMMA RemoveZipInv == BInv /\ RemoveZip => BInv'
<1> SUFFICES ASSUME BInv, RemoveZip PROVE BInv'
  OBVIOUS
<1>0. PICK r \in op.doomed :
        /\ op' \in OpType /\ op'.phase = "pruning" /\ op'.run = op.run /\ op'.dest = op.dest
        /\ op.phase = "pruning"
        /\ zips' = zips \/ zips' = [zips EXCEPT ![place[r]] = zips[place[r]] \ {r}]
  BY RemoveZipStep
<1>1. /\ op' \in OpType /\ op'.phase = "pruning" /\ op'.run = op.run /\ op'.dest = op.dest
      /\ op.phase = "pruning"
      /\ zips' \in [Dirs -> SUBSET Runs] /\ \A d \in Dirs : zips'[d] \subseteq zips[d]
  <2>1. zips \in [Dirs -> SUBSET Runs]
    BY Known
  <2> QED BY <1>0, <2>1
<1>2. OpSound'
  BY <1>1 DEF RemoveZip, attachmentVars, archiveVars, BInv, OpSound
<1>3. taken' = taken /\ taken <= taken'
  BY Known DEF RemoveZip
<1> QED BY <1>1, <1>2, <1>3, Known, BackupMoves DEF RemoveZip, BInv, TypeOK, RowStates

LEMMA DeleteRowInv == BInv /\ DeleteRow => BInv'
<1> SUFFICES ASSUME BInv, DeleteRow PROVE BInv'
  OBVIOUS
<1>1. op' = [op EXCEPT !.removing = 0] /\ op.phase = "pruning"
  BY DEF DeleteRow, BInv, OpSound
<1>2. op' \in OpType /\ op'.phase = "pruning" /\ op'.run = op.run /\ op'.dest = op.dest
  BY <1>1, Known DEF OpType
<1>3. OpSound'
  BY <1>1, <1>2 DEF DeleteRow, attachmentVars, archiveVars, BInv, OpSound
<1>4. runs' \in [Workspaces -> [Runs -> RowStates]]
  <2>1. current \in Workspaces
    BY <1>1 DEF BInv, OpSound
  <2> QED BY <2>1, RowType DEF DeleteRow, RowStates
<1>5. taken' = taken /\ taken <= taken'
  BY Known DEF DeleteRow, archiveVars
<1> QED BY <1>1, <1>2, <1>3, <1>4, <1>5, Known, BackupMoves
        DEF DeleteRow, archiveVars, BInv, TypeOK

LEMMA EndBackupInv == BInv /\ EndBackup => BInv'
BY OpEnds DEF EndBackup

LEMMA PublishInv == BInv /\ Publish => BInv'
<1> SUFFICES ASSUME BInv, Publish PROVE BInv'
  OBVIOUS
<1> DEFINE archive == [snap |-> op.snap, files |-> op.files]
<1>1. /\ op.phase = "collecting" /\ op.files = SnapLive(op.snap)
      /\ content' = [content EXCEPT ![op.run] = archive]
      /\ op' = [op EXCEPT !.phase = "published", !.snap = NoSnap, !.files = {}]
      /\ zips' = [zips EXCEPT ![op.dest] = zips[op.dest] \cup {op.run}]
      /\ place' = [place EXCEPT ![op.run] = op.dest]
  BY DEF Publish
<1>2. /\ current \in Workspaces /\ op.run \in 1..taken /\ op.run \in Runs /\ op.dest \in Dirs
      /\ content[op.run] = NoContent
  BY <1>1, Known DEF BInv, OpSound
<1>3. archive \in ArchiveType /\ archive.snap = op.snap /\ archive.files = op.files
  BY Known DEF OpType, ArchiveType
<1> HIDE DEF archive
<1>4. content'[op.run] = archive /\ \A r \in Runs \ {op.run} : content'[r] = content[r]
  BY <1>1, <1>2, Known
<1>5. /\ content' \in [Runs -> ArchiveType \cup {NoContent}] /\ zips' \in [Dirs -> SUBSET Runs]
      /\ place' \in [Runs -> Dirs \cup {NoDir}]
      /\ \A d \in Dirs : zips'[d] \subseteq zips[d] \cup {op.run}
  BY <1>1, <1>2, <1>3, Known DEF BInv, TypeOK
<1>6. archive # NoContent
  BY <1>3, ArchiveAssumption
<1>7. NoSnap \in SnapType
  BY DEF NoSnap, SnapType
<1>8. /\ op' \in OpType /\ op'.phase = "published" /\ op'.run = op.run /\ op'.dest = op.dest
      /\ op'.doomed = op.doomed /\ op'.removing = op.removing
  BY <1>1, <1>7, Known DEF OpType
<1>9. UNCHANGED <<attachmentVars, home, origin, runs, dir, clock, taken, stamp>>
  BY DEF Publish
<1>10. AP!OwnInv' /\ Files!TypeOK'
  BY <1>9, SameTypesNext, Known
     DEF attachmentVars, BInv, AP!OwnInv, AP!TypeOK, AP!Recorded, AP!Owns, AP!Apart
<1>11. ContentSound'
  <2>1. SnapRecorded(op.snap) \subseteq issued
    BY <1>1, <1>2, SameRows DEF BInv, OpSound, AP!OwnInv
  <2>2. taken' = taken /\ issued' = issued /\ origin' = origin /\ op.run <= taken
    BY <1>2, <1>9 DEF attachmentVars
  <2>3. ASSUME NEW r \in Runs, content'[r] # NoContent
        PROVE  /\ r <= taken' /\ content'[r].files = SnapLive(content'[r].snap)
               /\ SnapRecorded(content'[r].snap) \subseteq issued'
    <3>1. CASE r = op.run
      BY <1>1, <1>3, <1>4, <2>1, <2>2, <3>1
    <3>2. CASE r # op.run
      BY <1>4, <2>2, <2>3, <3>2 DEF BInv, ContentSound
    <3> QED BY <3>1, <3>2
  <2>4. ASSUME NEW r \in Runs, content[r] # NoContent PROVE content'[r] # NoContent
    BY <1>4, <1>6, <2>4
  <2>5. \A d \in Dirs : \A r \in zips'[d] : content'[r] # NoContent
    BY <1>4, <1>5, <1>6, <2>4, Known DEF BInv, ContentSound
  <2>6. \A w \in Workspaces : origin[w] # 0 => content'[origin[w]] # NoContent
    BY <2>4 DEF BInv, ContentSound, TypeOK
  <2> QED BY <2>2, <2>3, <2>5, <2>6 DEF ContentSound
<1>12. OpSound'
  BY <1>2, <1>8, <1>9, <1>1 DEF attachmentVars, BInv, OpSound
<1>13. OnlyTrashIsLost'
  <2>1. \A w \in Workspaces : origin[w] # 0 => content'[origin[w]] = content[origin[w]]
    BY <1>2, <1>4 DEF BInv, ContentSound, TypeOK
  <2> QED BY <1>9, <2>1 DEF attachmentVars, BInv, OnlyTrashIsLost, Files!Recorded
<1>14. TypeOK'
  BY <1>5, <1>8, <1>9, <1>10, <1>2 DEF BInv, TypeOK
<1> QED BY <1>10, <1>11, <1>12, <1>13, <1>14 DEF BInv

-----------------------------------------------------------------------------
(* Restores *)

LEMMA RequestRestoreInv == BInv /\ RequestRestore => BInv'
<1> SUFFICES ASSUME BInv, RequestRestore PROVE BInv'
  OBVIOUS
<1>1. PICK d \in Dirs, w \in Workspaces \ {current} : \E r \in zips[d] :
        op' = [NoOp EXCEPT !.phase = "extracting", !.run = r, !.dest = d, !.target = w]
  BY DEF RequestRestore
<1>2. PICK r \in zips[d] :
        op' = [NoOp EXCEPT !.phase = "extracting", !.run = r, !.dest = d, !.target = w]
  BY <1>1
<1>3. r \in Runs /\ content[r] # NoContent
  BY Known DEF BInv, ContentSound
<1>4. /\ op' \in OpType /\ op'.phase = "extracting" /\ op'.dest = d /\ op'.run = r
      /\ op'.target = w /\ op'.doomed = {} /\ op'.removing = 0
  BY <1>2, <1>3, NoOpType DEF OpType
<1>5. current \in Workspaces
  BY Known DEF RequestRestore, AP!TypeOK
<1>6. OpSound'
  BY <1>3, <1>4, <1>5 DEF RequestRestore, attachmentVars, archiveVars, OpSound
<1> QED BY <1>4, <1>6, OpMoves DEF RequestRestore

LEMMA ClearTargetInv == BInv /\ ClearTarget => BInv'
<1> SUFFICES ASSUME BInv, ClearTarget PROVE BInv'
  OBVIOUS
<1>1. op' = [op EXCEPT !.phase = "placing"] /\ op.phase = "extracting"
  BY DEF ClearTarget
<1>2. /\ op' \in OpType /\ op'.phase = "placing" /\ op'.run = op.run /\ op'.dest = op.dest
      /\ op'.doomed = op.doomed /\ op'.removing = op.removing /\ op'.target = op.target
  BY <1>1, Known DEF OpType
<1>3. OpSound'
  BY <1>1, <1>2 DEF ClearTarget, attachmentVars, archiveVars, BInv, OpSound
<1>4. home' \in [Workspaces -> {"absent", "empty", "occupied"}]
  BY DEF ClearTarget, BInv, TypeOK
<1>5. taken' = taken /\ taken <= taken'
  BY Known DEF ClearTarget, archiveVars
<1> QED BY <1>1, <1>2, <1>3, <1>4, <1>5, Known, BackupMoves
        DEF ClearTarget, archiveVars, BInv, TypeOK, RowStates

LEMMA FailRestoreInv == BInv /\ FailRestore => BInv'
BY OpEnds DEF FailRestore

\* The new workspace is not the open one, and starts with what its archive holds.
LEMMA PlaceTargetInv == BInv /\ PlaceTarget => BInv'
<1> SUFFICES ASSUME BInv, PlaceTarget PROVE BInv'
  OBVIOUS
<1> DEFINE archive == content[op.run]
           w == op.target
<1>1. /\ op.phase = "placing"
      /\ home' = [home EXCEPT ![w] = "occupied"]
      /\ origin' = [origin EXCEPT ![w] = op.run]
      /\ status' = [status EXCEPT ![w] = archive.snap.status]
      /\ runs' = [runs EXCEPT ![w] = archive.snap.runs]
      /\ dir' = [dir EXCEPT ![w] = archive.snap.dir]
      /\ files' = [files EXCEPT ![w] = archive.files]
      /\ op' = NoOp
      /\ UNCHANGED <<current, temps, inherited, issued, task, clock, archiveVars>>
  BY DEF PlaceTarget
<1>2. /\ op.run \in Runs /\ w \in Workspaces \ {current} /\ archive # NoContent
      /\ archive \in ArchiveType
  BY <1>1, Known DEF BInv, OpSound
<1>3. /\ archive.snap.status \in [Items -> {"none", "live", "trashed"}]
      /\ archive.snap.runs \in [Runs -> {"none", "running", "succeeded", "failed"}]
      /\ archive.snap.dir \in Dirs \cup {NoDir} /\ archive.files \subseteq Items
  BY <1>2 DEF ArchiveType, SnapType
<1>4. archive.files = SnapLive(archive.snap) /\ SnapRecorded(archive.snap) \subseteq issued
  BY <1>2 DEF BInv, ContentSound
<1> HIDE DEF archive, w
<1>5. /\ content' = content /\ zips' = zips /\ taken' = taken /\ stamp' = stamp /\ place' = place
      /\ current' = current /\ issued' = issued
  BY <1>1 DEF archiveVars
<1>6. /\ status' \in [Workspaces -> [Items -> {"none", "live", "trashed"}]]
      /\ files' \in [Workspaces -> SUBSET Items]
      /\ origin' \in [Workspaces -> Runs \cup {0}]
      /\ status'[w] = archive.snap.status /\ files'[w] = archive.files /\ origin'[w] = op.run
      /\ \A v \in Workspaces \ {w} : /\ status'[v] = status[v] /\ files'[v] = files[v]
                                     /\ origin'[v] = origin[v]
  BY <1>1, <1>2, <1>3, Known DEF AP!TypeOK, BInv, TypeOK
<1>7. Files!TypeOK' /\ AP!TypeOK'
  BY <1>1, <1>6, Known, SameTypesNext DEF AP!TypeOK
<1>8. \A v \in Workspaces : AP!Recorded(v)' =
        IF v = w THEN SnapRecorded(archive.snap) ELSE AP!Recorded(v)
  BY <1>2, <1>6 DEF AP!Recorded, SnapRecorded
<1>9. AP!OwnInv'
  <2>1. \A v \in Workspaces : AP!Recorded(v)' \subseteq issued'
    BY <1>4, <1>5, <1>8 DEF BInv, AP!OwnInv
  <2>2. ASSUME NEW i \in Imports PROVE AP!Owns(i)'
    <3>1. current # NoWorkspace => /\ current \in Workspaces \ {w}
                                   /\ files'[current] = files[current]
                                   /\ AP!Recorded(current)' = AP!Recorded(current)
      BY <1>2, <1>5, <1>6, <1>8, Known DEF AP!TypeOK
    <3>2. AP!Owns(i)
      BY DEF BInv, AP!OwnInv
    <3>3. task' = task /\ issued' = issued /\ current' = current
      BY <1>1
    <3> QED BY <3>1, <3>2, <3>3 DEF AP!Owns
  <2>3. \A i, j \in Imports : i # j => AP!Apart(i, j)'
    BY <1>1 DEF BInv, AP!OwnInv, AP!Apart
  <2> QED BY <1>7, <2>1, <2>2, <2>3 DEF AP!OwnInv
<1>10. ContentSound'
  BY <1>2, <1>5, <1>6 DEF archive, BInv, ContentSound
<1>11. OpSound' /\ op' \in OpType /\ op'.phase = "idle"
  BY <1>1, NoOpType DEF OpSound
<1>12. OnlyTrashIsLost'
  <2>1. ASSUME NEW v \in Workspaces, NEW x \in Files!Recorded(v)' \ files'[v]
        PROVE  origin'[v] # 0 /\ content'[origin'[v]].snap.status[x] = "trashed"
    <3>1. CASE v = w
      <4>1. x \in Items /\ archive.snap.status[x] # "none" /\ x \notin archive.files
        BY <1>6, <2>1, <3>1 DEF Files!Recorded
      <4>2. archive.snap.status[x] = "trashed"
        BY <1>3, <1>4, <4>1 DEF SnapLive
      <4>3. op.run # 0
        BY <1>2 DEF Runs
      <4> QED BY <1>5, <1>6, <3>1, <4>2, <4>3 DEF archive
    <3>2. CASE v # w
      <4>1. x \in Files!Recorded(v) \ files[v]
        BY <1>6, <2>1, <3>2 DEF Files!Recorded
      <4> QED BY <1>5, <1>6, <3>2, <4>1 DEF BInv, OnlyTrashIsLost
    <3> QED BY <3>1, <3>2
  <2> QED BY <2>1 DEF OnlyTrashIsLost
<1>13. TypeOK'
  <2>1. runs' \in [Workspaces -> [Runs -> {"none", "running", "succeeded", "failed"}]]
    BY <1>1, <1>3, Known DEF RowStates
  <2>2. dir' \in [Workspaces -> Dirs \cup {NoDir}]
    BY <1>1, <1>3, Known
  <2>3. home' \in [Workspaces -> {"absent", "empty", "occupied"}] /\ clock' = clock
    BY <1>1 DEF BInv, TypeOK
  <2> QED BY <1>5, <1>6, <1>7, <1>11, <2>1, <2>2, <2>3 DEF BInv, TypeOK
<1> QED BY <1>9, <1>10, <1>11, <1>12, <1>13 DEF BInv

-----------------------------------------------------------------------------
(* The process and its surroundings *)

\* What the attachments' own steps keep here: no row and no payload goes, and the
\* archives are left alone.
LEMMA FilesGrow ==
  ASSUME BInv, AP!OwnInv', AP!NothingLost, issued \subseteq issued',
         UNCHANGED <<origin, archiveVars>>
  PROVE  ContentSound' /\ OnlyTrashIsLost'
<1>1. ContentSound'
  BY DEF archiveVars, BInv, ContentSound
<1>2. \A v \in Workspaces : Files!Recorded(v)' \ files'[v] \subseteq Files!Recorded(v) \ files[v]
  BY SameRows, SameRowsNext DEF AP!NothingLost
<1>3. OnlyTrashIsLost'
  BY <1>2 DEF archiveVars, BInv, OnlyTrashIsLost
<1> QED BY <1>1, <1>3

LEMMA AttachmentStepInv == BInv /\ AttachmentStep => BInv'
<1> SUFFICES ASSUME BInv, AttachmentStep PROVE BInv'
  OBVIOUS
<1>1. AP!OwnInv' /\ AP!NothingLost /\ current' = current /\ issued \subseteq issued'
  BY FilesStep, OnlyCurrent, Known DEF AttachmentStep, BInv
<1>2. UNCHANGED <<home, origin, runs, dir, clock, archiveVars, op>>
  BY DEF AttachmentStep
<1>3. ContentSound' /\ OnlyTrashIsLost'
  BY <1>1, <1>2, FilesGrow
<1>4. OpSound'
  <2>1. op.phase = "collecting" => Files!Recorded(current) \subseteq Files!Recorded(current)'
    BY <1>1, SameRows, SameRowsNext DEF AP!NothingLost, BInv, OpSound
  <2> QED BY <1>1, <1>2, <2>1 DEF archiveVars, BInv, OpSound
<1>5. TypeOK'
  BY <1>1, <1>2, SameTypesNext DEF archiveVars, BInv, TypeOK, AP!OwnInv
<1> QED BY <1>1, <1>3, <1>4, <1>5 DEF BInv

LEMMA StopInv == BInv /\ Stop => BInv'
<1> SUFFICES ASSUME BInv, Stop PROVE BInv'
  OBVIOUS
<1>1. AP!OwnInv' /\ AP!NothingLost
  BY FilesStep DEF Stop, BInv
<1>2. UNCHANGED <<home, origin, runs, dir, clock, archiveVars>> /\ op' = NoOp /\ issued' = issued
  BY DEF Stop, Files!Stop
<1>3. ContentSound' /\ OnlyTrashIsLost'
  BY <1>1, <1>2, FilesGrow
<1>4. OpSound' /\ op' \in OpType /\ op'.phase = "idle"
  BY <1>2, NoOpType DEF OpSound
<1>5. TypeOK'
  BY <1>1, <1>2, <1>4, SameTypesNext DEF archiveVars, BInv, TypeOK, AP!OwnInv
<1> QED BY <1>1, <1>3, <1>4, <1>5 DEF BInv

LEMMA OpenInv == \A w \in Workspaces : BInv /\ Open(w) => BInv'
<1> SUFFICES ASSUME BInv, NEW w \in Workspaces, Open(w) PROVE BInv'
  OBVIOUS
<1>1. AP!OwnInv' /\ AP!NothingLost
  BY FilesStep DEF Open, BInv
<1>2. /\ UNCHANGED <<origin, runs, dir, clock, archiveVars, op>> /\ issued' = issued
      /\ home' = [home EXCEPT ![w] = "occupied"] /\ current = NoWorkspace
  BY DEF Open, Files!Open
<1>3. ContentSound' /\ OnlyTrashIsLost'
  BY <1>1, <1>2, FilesGrow
<1>4. op.phase = "idle" /\ op.doomed = {} /\ op.removing = 0
  BY <1>2, BackupsAssumption DEF BInv, OpSound
<1>5. OpSound'
  BY <1>2, <1>4 DEF OpSound
<1>6. TypeOK'
  BY <1>1, <1>2, SameTypesNext DEF archiveVars, BInv, TypeOK, AP!OwnInv
<1> QED BY <1>1, <1>3, <1>5, <1>6 DEF BInv

LEMMA SurroundingsInv ==
  ASSUME BInv, Tick \/ \E w \in Workspaces : Elsewhere(w)
  PROVE  BInv'
<1>1. UNCHANGED <<attachmentVars, origin, runs, dir, archiveVars, op>>
  BY DEF Tick, Elsewhere
<1>2. home' \in [Workspaces -> {"absent", "empty", "occupied"}] /\ clock' \in 0..MaxTime
  BY BackupsAssumption DEF Tick, Elsewhere, BInv, TypeOK
<1>3. OpSound'
  BY <1>1 DEF attachmentVars, archiveVars, BInv, OpSound, Files!Recorded
<1>4. taken' = taken /\ taken <= taken'
  BY <1>1, Known DEF archiveVars
<1> QED BY <1>1, <1>2, <1>3, <1>4, Known, BackupMoves DEF archiveVars, BInv, TypeOK, RowStates

LEMMA StutterInv == BInv /\ UNCHANGED vars => BInv'
<1> SUFFICES ASSUME BInv, UNCHANGED vars PROVE BInv'
  OBVIOUS
<1>1. OpSound'
  BY DEF vars, attachmentVars, archiveVars, BInv, OpSound, Files!Recorded
<1> QED BY <1>1, Known, OpMoves DEF vars

LEMMA NextBInv == BInv /\ [Next]_vars => BInv'
<1> SUFFICES ASSUME BInv, [Next]_vars PROVE BInv'
  OBVIOUS
<1>1. CASE BackupStep
  BY <1>1, ConfigureInv, RequestBackupInv, InsertRunInv, TakeSnapshotInv, CollectInv, PublishInv,
     FailBackupInv, SucceedInv, FailInv, RemoveZipInv, DeleteRowInv, EndBackupInv DEF BackupStep
<1>2. CASE RestoreStep
  BY <1>2, RequestRestoreInv, ClearTargetInv, PlaceTargetInv, FailRestoreInv DEF RestoreStep
<1>3. CASE AttachmentStep \/ Stop
  BY <1>3, AttachmentStepInv, StopInv
<1>4. CASE Tick \/ \E w \in Workspaces : Open(w) \/ Elsewhere(w)
  BY <1>4, OpenInv, SurroundingsInv
<1>5. CASE UNCHANGED vars
  BY <1>5, StutterInv
<1> QED BY <1>1, <1>2, <1>3, <1>4, <1>5 DEF Next

LEMMA BInvHolds == Spec => []BInv
BY InitBInv, NextBInv, PTL DEF Spec

-----------------------------------------------------------------------------
(* Theorems *)

\* TypeOK is an invariant: every variable of Backups keeps its type, and a backup
\* or restore under way has a directory.
THEOREM BackupTypes == Spec => []TypeOK
<1>1. BInv => TypeOK
  BY DEF BInv
<1> QED BY <1>1, BInvHolds, PTL

\* OnlyTrashIsLost is an invariant: what a workspace misses was in the trash when
\* the archive it comes from was made (backup.Manager collects live payloads only).
THEOREM OnlyTrashIsEverLost == Spec => []OnlyTrashIsLost
<1>1. BInv => OnlyTrashIsLost
  BY DEF BInv
<1> QED BY <1>1, BInvHolds, PTL

\* SnapshotStaysCollectable is an invariant: while backup.Manager collects, no
\* cleanup or deletion takes a payload that its snapshot names.
THEOREM SnapshotsStayCollectable == Spec => []SnapshotStaysCollectable
<1>1. BInv => SnapshotStaysCollectable
  <2> SUFFICES ASSUME BInv, op.phase = "collecting", origin[current] = 0
               PROVE  SnapLive(op.snap) \subseteq files[current]
    BY DEF SnapshotStaysCollectable
  <2>1. current \in Workspaces /\ SnapRecorded(op.snap) \subseteq Files!Recorded(current)
    BY DEF BInv, OpSound
  <2>2. Files!Recorded(current) \subseteq files[current]
    BY <2>1 DEF BInv, OnlyTrashIsLost
  <2>3. SnapLive(op.snap) \subseteq SnapRecorded(op.snap)
    BY DEF SnapLive, SnapRecorded
  <2> QED BY <2>1, <2>2, <2>3
<1> QED BY <1>1, BInvHolds, PTL

\* RestoreOverwritesNothing holds of every step: whatever else goes on, a restore
\* (RestoreToNewWorkspace) only ever fills a directory that is absent or empty.
THEOREM RestoresOverwriteNothing == Spec => RestoreOverwritesNothing
<1> DEFINE Untouched == \A w \in Workspaces : w # current /\ home[w] = "occupied" =>
             /\ home'[w] = "occupied"
             /\ UNCHANGED <<status[w], files[w], runs[w], dir[w]>>
<1>1. ASSUME BInv, Next PROVE Untouched
  <2>0. /\ home \in [Workspaces -> {"absent", "empty", "occupied"}]
        /\ runs \in [Workspaces -> [Runs -> {"none", "running", "succeeded", "failed"}]]
        /\ dir \in [Workspaces -> Dirs \cup {NoDir}]
        /\ status \in [Workspaces -> [Items -> {"none", "live", "trashed"}]]
        /\ files \in [Workspaces -> SUBSET Items]
    BY <1>1, Known DEF BInv, TypeOK, AP!TypeOK
  <2>1. CASE BackupStep
    <3>1. UNCHANGED <<status, files, home>>
      BY <2>1 DEF BackupStep, attachmentVars, Configure, RequestBackup, InsertRun, TakeSnapshot,
         Collect, Publish, FailBackup, Succeed, Fail, RemoveZip, DeleteRow, EndBackup
    <3>2. /\ dir' = dir \/ \E v : dir' = [dir EXCEPT ![current] = v]
          /\ runs' = runs \/ \E v : runs' = [runs EXCEPT ![current] = v]
      BY <2>1 DEF BackupStep, Configure, RequestBackup, InsertRun, TakeSnapshot,
         Collect, Publish, FailBackup, Succeed, Fail, RemoveZip, DeleteRow, EndBackup, UpdateRow
    <3> QED BY <2>0, <3>1, <3>2
  <2>2. CASE RequestRestore \/ FailRestore
    BY <2>2 DEF RequestRestore, FailRestore, attachmentVars
  <2>3. CASE ClearTarget
    BY <2>0, <2>3 DEF ClearTarget, attachmentVars
  <2>4. CASE PlaceTarget
    BY <2>0, <2>4 DEF PlaceTarget
  <2>5. CASE AttachmentStep
    BY <1>1, <2>5, OnlyCurrent, Known DEF AttachmentStep
  <2>6. CASE Stop
    BY <2>6 DEF Stop, Files!Stop
  <2>7. CASE Tick
    BY <2>7 DEF Tick, attachmentVars
  <2>8. ASSUME NEW w \in Workspaces, Open(w) \/ Elsewhere(w) PROVE Untouched
    BY <2>0, <2>8 DEF Open, Files!Open, Elsewhere, attachmentVars
  <2> QED BY <1>1, <2>1, <2>2, <2>3, <2>4, <2>5, <2>6, <2>7, <2>8 DEF Next, RestoreStep
<1>2. BInv /\ [Next]_vars => [Untouched]_vars
  BY <1>1
<1> QED BY <1>2, BInvHolds, PTL DEF Spec, RestoreOverwritesNothing

-----------------------------------------------------------------------------
(* Ranks.  The archives above r in a set are the newer ones.  What has        *)
(* enough of them keeps enough when one that itself has enough is taken out.  *)

Above(S, at, r) == {s \in S : Newer(at, s, r)}
Enough(S) == Cardinality(S) >= Keep

LEMMA NewerOrder ==
  ASSUME NEW at \in [Runs -> Nat], NEW r \in Runs, NEW s \in Runs, NEW t \in Runs
  PROVE  /\ ~Newer(at, r, r)
         /\ Newer(at, r, s) /\ Newer(at, s, t) => Newer(at, r, t)
<1>1. r \in Nat /\ s \in Nat /\ t \in Nat
  BY BackupsAssumption DEF Runs
<1>2. at[r] \in Nat /\ at[s] \in Nat /\ at[t] \in Nat
  OBVIOUS
<1> QED BY <1>1, <1>2 DEF Newer

LEMMA EnoughGrows ==
  ASSUME NEW S \in SUBSET Runs, NEW T \in SUBSET S, Enough(T)
  PROVE  Enough(S)
<1>1. IsFiniteSet(Runs)
  BY FS_Interval, BackupsAssumption DEF Runs
<1>2. IsFiniteSet(S) /\ IsFiniteSet(T) /\ Cardinality(T) <= Cardinality(S)
  BY <1>1, FS_Subset
<1>3. Cardinality(S) \in Nat /\ Cardinality(T) \in Nat
  BY <1>2, FS_CardinalityType
<1> QED BY <1>2, <1>3, BackupsAssumption DEF Enough

\* What is below something with enough above has enough.
LEMMA EnoughBelow ==
  ASSUME NEW at \in [Runs -> Nat], NEW S \in SUBSET Runs, NEW r \in Runs, NEW q \in Runs,
         Newer(at, q, r), Enough(Above(S, at, q))
  PROVE  Enough(Above(S \ {q}, at, r))
<1>1. Above(S, at, q) \subseteq Above(S \ {q}, at, r)
  BY NewerOrder DEF Above
<1>2. Above(S \ {q}, at, r) \subseteq Runs
  BY DEF Above
<1> QED BY <1>1, <1>2, EnoughGrows

LEMMA EnoughWithout ==
  ASSUME NEW at \in [Runs -> Nat], NEW S \in SUBSET Runs, NEW r \in Runs, NEW q \in Runs,
         Enough(Above(S, at, q)), Enough(Above(S, at, r))
  PROVE  Enough(Above(S \ {q}, at, r))
<1>1. CASE Newer(at, q, r)
  BY <1>1, EnoughBelow
<1>2. CASE ~Newer(at, q, r)
  <2>1. Above(S \ {q}, at, r) = Above(S, at, r)
    BY <1>2 DEF Above
  <2> QED BY <2>1
<1> QED BY <1>1, <1>2

-----------------------------------------------------------------------------
(* Directories.  An archive that was put into a directory is still there, or   *)
(* has enough newer ones there: removals start from the oldest of those that   *)
(* were ever put there, whichever workspace's rows they come from.             *)

Placed(d) == {s \in Runs : place[s] = d}

Kept ==
  \A d \in Dirs : \A r \in Placed(d) : r \in zips[d] \/ Enough(Above(zips[d], stamp, r))

Written == {"copying", "collecting", "published"}

KeptOp ==
  /\ op.phase \in Written => stamp[op.run] = 0
  /\ op.phase = "published" => op.run \in Placed(op.dest) /\ op.run \in zips[op.dest]
  /\ \A r \in op.doomed : r \in Placed(op.dest) /\ Enough(Above(Placed(op.dest), stamp, r))

KInv ==
  /\ Kept
  /\ \A r \in Runs : place[r] # NoDir => content[r] # NoContent
  /\ \A r \in Runs : r > taken => stamp[r] = 0
  /\ KeptOp

LEMMA InitKInv == Init => KInv
<1> SUFFICES ASSUME Init PROVE KInv
  OBVIOUS
<1>1. \A d \in Dirs : Placed(d) = {}
  BY BackupsAssumption DEF Init, Placed
<1> QED BY <1>1, NoOpType DEF Init, KInv, Kept, KeptOp, Written

LEMMA Stamps == ASSUME BInv PROVE stamp \in [Runs -> Nat]
BY BackupsAssumption DEF BInv, TypeOK

\* Steps that move no archive and begin nothing.
LEMMA KeepsMoves ==
  ASSUME BInv, KInv, UNCHANGED archiveVars,
         \A r \in op'.doomed : r \in op.doomed /\ op'.dest = op.dest,
         op'.phase \in Written =>
           op.phase \in Written /\ op'.run = op.run /\ op'.dest = op.dest,
         op'.phase = "published" => op.phase = "published"
  PROVE  KInv'
<1>1. Placed(op.dest)' = Placed(op'.dest)
  BY DEF Placed, archiveVars
<1>2. KeptOp'
  BY <1>1 DEF archiveVars, KInv, KeptOp, Written, Placed
<1> QED BY <1>2 DEF archiveVars, KInv, Kept, Placed

LEMMA KeepsRest ==
  ASSUME BInv, KInv, UNCHANGED archiveVars, op' = op \/ op' = NoOp
  PROVE  KInv'
<1>1. CASE op' = op
  BY <1>1, KeepsMoves
<1>2. CASE op' = NoOp
  <2>1. op'.doomed = {} /\ op'.phase = "idle"
    BY <1>2, NoOpType
  <2>2. op'.phase \notin Written /\ op'.phase # "published"
    BY <2>1 DEF Written
  <2> QED BY <2>1, <2>2, KeepsMoves
<1> QED BY <1>1, <1>2

\* Every step but four is such a step.
LEMMA KeepsMost ==
  ASSUME BInv, KInv, [Next]_vars, ~InsertRun, ~Publish, ~Succeed, ~RemoveZip
  PROVE  KInv'
<1>0. op \in OpType
  BY Known
<1>1. CASE Configure \/ Fail \/ EndBackup \/ PlaceTarget \/ FailRestore \/ AttachmentStep \/ Stop
           \/ Tick \/ (\E w \in Workspaces : Open(w) \/ Elsewhere(w)) \/ UNCHANGED vars
  <2>1. UNCHANGED archiveVars /\ (op' = op \/ op' = NoOp)
    BY <1>1 DEF Configure, Fail, EndBackup, PlaceTarget, FailRestore, AttachmentStep, Stop, Tick,
       Open, Elsewhere, vars
  <2> QED BY <2>1, KeepsRest
<1>2. CASE RequestBackup \/ RequestRestore
  <2>1. UNCHANGED archiveVars
    BY <1>2 DEF RequestBackup, RequestRestore
  <2>2. \/ \E d : op' = [NoOp EXCEPT !.phase = "requested", !.dest = d]
        \/ \E d, w, r : op' = [NoOp EXCEPT !.phase = "extracting", !.run = r, !.dest = d,
                                          !.target = w]
    BY <1>2 DEF RequestBackup, RequestRestore
  <2>3. op'.doomed = {} /\ op'.phase \in {"requested", "extracting"}
    BY <2>2, NoOpType DEF OpType
  <2>4. op'.phase \notin Written /\ op'.phase # "published"
    BY <2>3 DEF Written
  <2> QED BY <2>1, <2>3, <2>4, KeepsMoves
<1>3. CASE TakeSnapshot \/ Collect \/ ClearTarget \/ DeleteRow
  <2>1. UNCHANGED archiveVars
    BY <1>3 DEF TakeSnapshot, Collect, ClearTarget, DeleteRow
  <2>2. \/ \E v : op.phase = "copying" /\ op' = [op EXCEPT !.phase = "collecting", !.snap = v]
        \/ \E v : op' = [op EXCEPT !.files = v]
        \/ op' = [op EXCEPT !.phase = "placing"]
        \/ op' = [op EXCEPT !.removing = 0]
    BY <1>3 DEF TakeSnapshot, Collect, ClearTarget, DeleteRow
  <2>3. /\ op'.doomed = op.doomed /\ op'.dest = op.dest /\ op'.run = op.run
        /\ \/ op'.phase = op.phase
           \/ op.phase = "copying" /\ op'.phase = "collecting"
           \/ op'.phase = "placing"
    BY <1>0, <2>2 DEF OpType
  <2> QED BY <2>1, <2>3, KeepsMoves DEF Written
<1>4. CASE FailBackup
  <2>1. UNCHANGED archiveVars
    BY <1>4 DEF FailBackup
  <2>2. CASE op' = NoOp
    BY <2>1, <2>2, KeepsRest
  <2>3. CASE op' = [op EXCEPT !.phase = "failing"]
    <3>1. op'.doomed = op.doomed /\ op'.dest = op.dest /\ op'.phase = "failing"
      BY <1>0, <2>3 DEF OpType
    <3> QED BY <2>1, <3>1, KeepsMoves DEF Written
  <2> QED BY <1>4, <2>2, <2>3 DEF FailBackup
<1> QED BY <1>1, <1>2, <1>3, <1>4 DEF Next, BackupStep, RestoreStep

LEMMA InsertRunKeeps == BInv /\ KInv /\ InsertRun => KInv'
<1> SUFFICES ASSUME BInv, KInv, InsertRun PROVE KInv'
  OBVIOUS
<1>1. /\ op' = [op EXCEPT !.phase = "copying", !.run = taken'] /\ op.phase = "requested"
      /\ taken' = taken + 1 /\ taken < MaxRuns /\ taken \in Nat /\ taken' \in Runs
      /\ UNCHANGED <<stamp, place, zips, content>>
  BY Known DEF InsertRun
<1>2. op'.phase = "copying" /\ op'.run = taken' /\ op'.doomed = {}
  BY <1>1, Known DEF OpType, BInv, OpSound
<1>3. stamp[taken'] = 0
  BY <1>1 DEF KInv
<1>4. \A r \in Runs : r > taken' => stamp[r] = 0
  BY <1>1, Known DEF KInv
<1> QED BY <1>1, <1>2, <1>3, <1>4 DEF KInv, Kept, KeptOp, Written, Placed

LEMMA PublishKeeps == BInv /\ KInv /\ Publish => KInv'
<1> SUFFICES ASSUME BInv, KInv, Publish PROVE KInv'
  OBVIOUS
<1> DEFINE archive == [snap |-> op.snap, files |-> op.files]
           run == op.run
           d == op.dest
<1>1. /\ op.phase = "collecting"
      /\ zips' = [zips EXCEPT ![d] = zips[d] \cup {run}]
      /\ content' = [content EXCEPT ![run] = archive]
      /\ place' = [place EXCEPT ![run] = d]
      /\ op' = [op EXCEPT !.phase = "published", !.snap = NoSnap, !.files = {}]
      /\ stamp' = stamp /\ taken' = taken
  BY DEF Publish
<1>2. /\ run \in Runs /\ d \in Dirs /\ content[run] = NoContent
      /\ zips \in [Dirs -> SUBSET Runs] /\ place \in [Runs -> Dirs \cup {NoDir}]
      /\ content \in [Runs -> ArchiveType \cup {NoContent}]
  BY <1>1, Known DEF BInv, OpSound, TypeOK
<1>3. archive \in ArchiveType
  BY Known DEF OpType, ArchiveType
<1>4. /\ op'.phase = "published" /\ op'.run = run /\ op'.dest = d /\ op'.doomed = {}
  BY <1>1, Known DEF OpType, BInv, OpSound
<1> HIDE DEF archive, run, d
<1>5. archive # NoContent
  BY <1>3, ArchiveAssumption
<1>6. \A r \in Runs : place'[r] # NoDir => content'[r] # NoContent
  BY <1>1, <1>2, <1>5 DEF KInv
<1>7. \A e \in Dirs : zips[e] \subseteq zips'[e] /\ zips'[e] \subseteq Runs
  BY <1>1, <1>2
<1>8. Kept'
  <2> SUFFICES ASSUME NEW e \in Dirs, NEW r \in Runs, place'[r] = e,
                      ~(r \in zips'[e])
               PROVE  Enough(Above(zips'[e], stamp', r))
    BY DEF Kept, Placed
  <2>1. r # run
    BY <1>1, <1>2
  <2>2. place[r] = e /\ r \notin zips[e]
    BY <1>1, <1>2, <1>7, <2>1
  <2>3. Enough(Above(zips[e], stamp, r))
    BY <2>2 DEF KInv, Kept, Placed
  <2>4. Above(zips[e], stamp, r) \subseteq Above(zips'[e], stamp', r)
        /\ Above(zips'[e], stamp', r) \subseteq Runs
    BY <1>1, <1>7 DEF Above
  <2> QED BY <2>3, <2>4, EnoughGrows
<1>9. KeptOp'
  <2>1. stamp'[run] = 0
    BY <1>1 DEF run, KInv, KeptOp, Written
  <2>2. place'[run] = d /\ run \in zips'[d]
    BY <1>1, <1>2
  <2> QED BY <1>2, <1>4, <2>1, <2>2 DEF KeptOp, Placed, Written
<1>10. \A r \in Runs : r > taken' => stamp'[r] = 0
  BY <1>1 DEF KInv
<1> QED BY <1>6, <1>8, <1>9, <1>10 DEF KInv

\* The run that succeeds is stamped for the first time, which no other loses by.
LEMMA StampMoves ==
  ASSUME BInv, NEW run \in Runs, stamp[run] = 0, stamp' = [stamp EXCEPT ![run] = clock]
  PROVE  \A r \in Runs \ {run}, s \in Runs : Newer(stamp, s, r) => Newer(stamp', s, r)
<1> SUFFICES ASSUME NEW r \in Runs \ {run}, NEW s \in Runs, Newer(stamp, s, r)
             PROVE  Newer(stamp', s, r)
  OBVIOUS
<1>1. stamp \in [Runs -> Nat] /\ clock \in Nat
  BY Stamps, BackupsAssumption DEF BInv, TypeOK
<1>2. stamp[s] \in Nat /\ stamp[r] \in Nat /\ stamp'[r] = stamp[r]
  BY <1>1
<1>3. stamp'[s] \in Nat /\ stamp'[s] >= stamp[s] /\ (s # run => stamp'[s] = stamp[s])
  BY <1>1, <1>2
<1>4. r \in Nat /\ s \in Nat
  BY Known
<1> QED BY <1>2, <1>3, <1>4 DEF Newer

LEMMA SucceedKeeps == BInv /\ KInv /\ Succeed => KInv'
<1> SUFFICES ASSUME BInv, KInv, Succeed PROVE KInv'
  OBVIOUS
<1> DEFINE run == op.run
           d == op.dest
           doomed == Beyond(runs'[current], stamp', d)
<1>1. /\ op.phase = "published" /\ stamp' = [stamp EXCEPT ![run] = clock]
      /\ op' = [op EXCEPT !.phase = "pruning", !.doomed = doomed]
      /\ taken' = taken /\ place' = place /\ zips' = zips /\ content' = content
  BY DEF Succeed
<1>2. /\ run \in Runs /\ run <= taken /\ d \in Dirs /\ stamp[run] = 0 /\ clock \in Nat
      /\ place[run] = d /\ run \in zips[d] /\ zips \in [Dirs -> SUBSET Runs]
  BY <1>1, Known, BackupsAssumption DEF BInv, TypeOK, OpSound, KInv, KeptOp, Written, Placed
<1>3. stamp \in [Runs -> Nat] /\ stamp' \in [Runs -> Nat]
  BY <1>1, <1>2, Stamps
<1>4. \A r \in Runs \ {run}, s \in Runs : Newer(stamp, s, r) => Newer(stamp', s, r)
  BY <1>1, <1>2, StampMoves
<1>5. Kept'
  <2> SUFFICES ASSUME NEW e \in Dirs, NEW r \in Runs, place[r] = e, r \notin zips[e]
               PROVE  Enough(Above(zips[e], stamp', r))
    BY <1>1 DEF Kept, Placed
  <2>1. Enough(Above(zips[e], stamp, r)) /\ r # run
    BY <1>2 DEF KInv, Kept, Placed
  <2>2. Above(zips[e], stamp, r) \subseteq Above(zips[e], stamp', r)
        /\ Above(zips[e], stamp', r) \subseteq Runs
    BY <1>2, <1>4, <2>1 DEF Above
  <2> QED BY <2>1, <2>2, EnoughGrows
<1>6. doomed \subseteq Runs /\ \A r \in doomed : place[r] = d /\ Enough(Above(Placed(d), stamp', r))
  <2> SUFFICES ASSUME NEW r \in doomed
               PROVE  r \in Runs /\ place[r] = d /\ Enough(Above(Placed(d), stamp', r))
    OBVIOUS
  <2> DEFINE candidates == {x \in Runs : runs'[current][x] = "succeeded" /\ place[x] = d}
  <2>1. r \in candidates /\ Enough({s \in candidates : Newer(stamp', s, r)})
    BY DEF Beyond, Enough
  <2>2. {s \in candidates : Newer(stamp', s, r)} \subseteq Above(Placed(d), stamp', r)
        /\ Above(Placed(d), stamp', r) \subseteq Runs
    BY DEF Above, Placed
  <2> QED BY <2>1, <2>2, EnoughGrows
<1> HIDE DEF doomed
<1>7. op'.phase = "pruning" /\ op'.dest = d /\ op'.doomed = doomed
  BY <1>1, <1>6, Known DEF OpType
<1>8. KeptOp'
  BY <1>1, <1>6, <1>7 DEF KeptOp, Written, Placed
<1>9. \A r \in Runs : r > taken' => stamp'[r] = 0
  BY <1>1, <1>2, Known DEF KInv
<1> QED BY <1>1, <1>5, <1>8, <1>9 DEF KInv

\* What a removal leaves in its directory.
LEMMA RemovalLeaves ==
  ASSUME BInv, KInv, NEW q \in op.doomed
  PROVE  /\ q \in Runs /\ place[q] = op.dest
         /\ Enough(Above(zips[op.dest] \ {q}, stamp, q))
<1> DEFINE d == op.dest
           present == zips[d]
<1>1. q \in Runs /\ place[q] = d /\ Enough(Above(Placed(d), stamp, q))
  BY Known DEF OpType, KInv, KeptOp, Placed
<1>2. d \in Dirs /\ present \subseteq Runs /\ stamp \in [Runs -> Nat]
  BY Known, Stamps DEF BInv, OpSound
<1>3. Enough(Above(present, stamp, q))
  <2>1. CASE Above(Placed(d), stamp, q) \subseteq present
    <3>1. Above(Placed(d), stamp, q) \subseteq Above(present, stamp, q)
          /\ Above(present, stamp, q) \subseteq Runs
      BY <1>2, <2>1 DEF Above
    <3> QED BY <1>1, <3>1, EnoughGrows
  <2>2. ASSUME NEW s \in Above(Placed(d), stamp, q), s \notin present
        PROVE  Enough(Above(present, stamp, q))
    <3>1. s \in Runs /\ s \in Placed(d) /\ Newer(stamp, s, q)
      BY DEF Above, Placed
    <3>2. Enough(Above(present, stamp, s))
      BY <1>2, <2>2, <3>1 DEF KInv, Kept
    <3>3. Enough(Above(present \ {s}, stamp, q))
      BY <1>1, <1>2, <3>1, <3>2, EnoughBelow
    <3>4. present \ {s} = present
      BY <2>2
    <3> QED BY <3>3, <3>4
  <2> QED BY <2>1, <2>2
<1>4. Enough(Above(present \ {q}, stamp, q))
  BY <1>1, <1>2, <1>3, EnoughWithout
<1> QED BY <1>1, <1>4

LEMMA RemoveZipKeeps == BInv /\ KInv /\ RemoveZip => KInv'
<1> SUFFICES ASSUME BInv, KInv, RemoveZip PROVE KInv'
  OBVIOUS
<1> DEFINE d == op.dest
<1>1. PICK q \in op.doomed :
        /\ op'.phase = "pruning" /\ op'.dest = d /\ op'.doomed = op.doomed \ {q}
        /\ op.phase = "pruning"
        /\ zips' = zips \/ zips' = [zips EXCEPT ![place[q]] = zips[place[q]] \ {q}]
  BY RemoveZipStep
<1>2. UNCHANGED <<taken, stamp, place, content>>
  BY DEF RemoveZip
<1>3. q \in Runs /\ place[q] = d /\ Enough(Above(zips[d] \ {q}, stamp, q))
  BY RemovalLeaves
<1>4. d \in Dirs /\ zips \in [Dirs -> SUBSET Runs] /\ stamp \in [Runs -> Nat]
  BY <1>1, Known, Stamps
<1>5. KeptOp'
  BY <1>1, <1>2 DEF KInv, KeptOp, Written, Placed
<1>6. Kept'
  <2>1. CASE zips' = zips
    BY <1>2, <2>1 DEF KInv, Kept, Placed
  <2>2. CASE zips' = [zips EXCEPT ![d] = zips[d] \ {q}]
    <3> SUFFICES ASSUME NEW e \in Dirs, NEW r \in Runs, place[r] = e, r \notin zips'[e]
                 PROVE  Enough(Above(zips'[e], stamp, r))
      BY <1>2 DEF Kept, Placed
    <3>1. CASE e # d
      <4>1. zips'[e] = zips[e]
        BY <1>4, <2>2, <3>1
      <4> QED BY <4>1 DEF KInv, Kept, Placed
    <3>2. CASE e = d
      <4>1. zips'[d] = zips[d] \ {q} /\ zips[d] \subseteq Runs
        BY <1>4, <2>2
      <4>2. CASE r = q
        BY <1>3, <3>2, <4>1, <4>2
      <4>3. CASE r # q
        <5>1. Enough(Above(zips[d], stamp, r))
          BY <3>2, <4>1, <4>3 DEF KInv, Kept, Placed
        <5>2. Above(zips[d] \ {q}, stamp, q) = Above(zips[d], stamp, q)
          BY <1>3, <1>4, <4>1, NewerOrder DEF Above
        <5> QED BY <1>3, <1>4, <3>2, <4>1, <5>1, <5>2, EnoughWithout
      <4> QED BY <4>2, <4>3
    <3> QED BY <3>1, <3>2
  <2> QED BY <1>1, <1>3, <2>1, <2>2
<1> QED BY <1>2, <1>5, <1>6 DEF KInv

LEMMA NextKInv == BInv /\ KInv /\ [Next]_vars => KInv'
BY KeepsMost, InsertRunKeeps, PublishKeeps, SucceedKeeps, RemoveZipKeeps

\* RemovalLeavesEnough holds of every step: pruneSuccessful takes an archive only
\* out of a directory with Keep newer ones, however many workspaces list it.
THEOREM RemovalAlwaysLeavesEnough == Spec => RemovalLeavesEnough
<1> DEFINE Leaves == \A d \in Dirs : zips[d] \subseteq zips'[d] \/ Cardinality(zips'[d]) >= Keep
<1>1. ASSUME BInv, KInv, Next PROVE Leaves
  <2>0. zips \in [Dirs -> SUBSET Runs]
    BY <1>1, Known
  <2>1. CASE RemoveZip
    <3>1. PICK q \in op.doomed :
            zips' = zips \/ zips' = [zips EXCEPT ![place[q]] = zips[place[q]] \ {q}]
      BY <1>1, <2>1, RemoveZipStep
    <3>2. place[q] = op.dest /\ Enough(Above(zips[op.dest] \ {q}, stamp, q))
      BY <1>1, RemovalLeaves
    <3>3. op.dest \in Dirs
      BY <1>1, <2>1, Known DEF RemoveZip
    <3>4. Above(zips[op.dest] \ {q}, stamp, q) \subseteq zips[op.dest] \ {q}
          /\ zips[op.dest] \ {q} \subseteq Runs
      BY <2>0, <3>3 DEF Above
    <3>5. Enough(zips[op.dest] \ {q})
      BY <3>2, <3>4, EnoughGrows
    <3> QED BY <2>0, <3>1, <3>2, <3>3, <3>5 DEF Enough
  <2>2. CASE Publish
    BY <2>0, <2>2 DEF Publish
  <2>3. CASE ~RemoveZip /\ ~Publish
    <3>1. zips' = zips
      BY <1>1, <2>3 DEF Next, BackupStep, RestoreStep, Configure, RequestBackup, InsertRun,
         TakeSnapshot, Collect, FailBackup, Succeed, Fail, DeleteRow, EndBackup, RequestRestore,
         ClearTarget, PlaceTarget, FailRestore, AttachmentStep, Stop, Tick, Open, Elsewhere,
         archiveVars
    <3> QED BY <3>1
  <2> QED BY <2>1, <2>2, <2>3
<1>2. BInv /\ KInv /\ [Next]_vars => [Leaves]_vars
  BY <1>1
<1> QED BY <1>2, BInvHolds, InitKInv, NextKInv, PTL DEF Spec, RemovalLeavesEnough

-----------------------------------------------------------------------------
(* Rows.  Pruning works from the rows of the open workspace: those it is about *)
(* to delete have enough newer ones, which nobody else deletes meanwhile.      *)

Mine(w, d) == {r \in Runs : runs[w][r] = "succeeded" /\ place[r] = d}
Unfinished == {"copying", "collecting", "published", "failing"}
Condemned(o) == o.doomed \cup ({o.removing} \ {0})

\* A row, in a workspace or in a snapshot, is that of a run that was begun.
IssuedRows ==
  /\ \A w \in Workspaces, r \in Runs : runs[w][r] = "succeeded" => r <= taken
  /\ \A c \in Runs : content[c] # NoContent =>
       \A r \in Runs : content[c].snap.runs[r] = "succeeded" => r <= taken
  /\ op.phase = "collecting" => \A r \in Runs : op.snap.runs[r] = "succeeded" => r <= taken

RowsOp ==
  /\ op.phase \in Unfinished \cup {"pruning"} => op.run = taken
  /\ op.phase \in Unfinished => \A w \in Workspaces : runs[w][op.run] # "succeeded"
  /\ \A r \in Condemned(op) :
       r \in Mine(current, op.dest) /\ Enough(Above(Mine(current, op.dest), stamp, r))
  /\ op.removing \notin op.doomed
  /\ op.phase = "pruning" =>
       op.run \in zips[op.dest] \/ Enough(Above(Mine(current, op.dest), stamp, op.run))

PInv == IssuedRows /\ RowsOp

LEMMA InitPInv == Init => PInv
<1> SUFFICES ASSUME Init PROVE PInv
  OBVIOUS
<1>1. \A w \in Workspaces, r \in Runs : runs[w][r] = "none"
  BY DEF Init, NoSnap
<1>2. op.phase = "idle" /\ op.doomed = {} /\ op.removing = 0
  BY NoOpType DEF Init
<1>3. \A c \in Runs : content[c] = NoContent
  BY DEF Init
<1> QED BY <1>1, <1>2, <1>3 DEF PInv, IssuedRows, RowsOp, Condemned, Mine, Unfinished

\* Steps after which the same runs have succeeded, where they were.
LEMMA PruneMoves ==
  ASSUME BInv, PInv, stamp' = stamp, taken' \in Nat, taken <= taken',
         \A d \in Dirs : zips[d] \subseteq zips'[d],
         \A w \in Workspaces, r \in Runs :
           /\ runs'[w][r] = "succeeded" <=> runs[w][r] = "succeeded"
           /\ runs[w][r] = "succeeded" => place'[r] = place[r],
         \A c \in Runs : content'[c] = content[c] \/
           \A r \in Runs : content'[c].snap.runs[r] = "succeeded" => r <= taken,
         op'.phase = "collecting" =>
           \A r \in Runs : op'.snap.runs[r] = "succeeded" => r <= taken,
         op'.phase \in Unfinished =>
           /\ op'.run = taken' /\ op'.run \in Runs
           /\ \A w \in Workspaces : runs[w][op'.run] # "succeeded",
         \/ op'.phase # "pruning" /\ op'.doomed = {} /\ op'.removing = 0
         \/ /\ Condemned(op') \subseteq Condemned(op) /\ op'.removing \notin op'.doomed
            /\ op'.run = op.run /\ op'.dest = op.dest
            /\ op.phase = "pruning" /\ current' = current /\ taken' = taken
  PROVE  PInv'
<1>1. taken \in Nat /\ Runs \subseteq Nat
  BY Known
<1>2. IssuedRows'
  <2>1. \A w \in Workspaces, r \in Runs : runs'[w][r] = "succeeded" => r <= taken'
    BY <1>1 DEF PInv, IssuedRows
  <2>2. \A c \in Runs : content'[c] # NoContent =>
          \A r \in Runs : content'[c].snap.runs[r] = "succeeded" => r <= taken'
    BY <1>1 DEF PInv, IssuedRows
  <2>3. op'.phase = "collecting" =>
          \A r \in Runs : op'.snap.runs[r] = "succeeded" => r <= taken'
    BY <1>1
  <2> QED BY <2>1, <2>2, <2>3 DEF IssuedRows
<1>3. RowsOp'
  <2>1. CASE op'.phase # "pruning" /\ op'.doomed = {} /\ op'.removing = 0
    <3>1. Condemned(op') = {}
      BY <2>1 DEF Condemned
    <3> QED BY <2>1, <3>1 DEF RowsOp
  <2>2. CASE /\ Condemned(op') \subseteq Condemned(op) /\ op'.removing \notin op'.doomed
             /\ op'.run = op.run /\ op'.dest = op.dest
             /\ op.phase = "pruning" /\ current' = current /\ taken' = taken
    <3> DEFINE mine == Mine(current, op.dest)
    <3>1. current \in Workspaces /\ op.dest \in Dirs
      BY <2>2, Known DEF BInv, OpSound
    <3>2. Mine(current, op.dest)' = mine
      BY <2>2, <3>1 DEF Mine
    <3>3. \A r \in Condemned(op') : r \in mine /\ Enough(Above(mine, stamp, r))
      BY <2>2 DEF PInv, RowsOp
    <3>4. op'.run = taken' /\ (op.run \in zips'[op.dest] \/ Enough(Above(mine, stamp, op.run)))
      BY <2>2, <3>1 DEF PInv, RowsOp
    <3> HIDE DEF mine
    <3> QED BY <2>2, <3>2, <3>3, <3>4 DEF RowsOp
  <2> QED BY <2>1, <2>2
<1> QED BY <1>2, <1>3 DEF PInv

\* Steps that touch no row and no archive.
LEMMA PruneStays ==
  ASSUME BInv, PInv, UNCHANGED <<runs, taken, stamp, place, zips, content>>,
         op'.phase \in Unfinished => op.phase \in Unfinished /\ op'.run = op.run,
         op'.phase = "collecting" =>
           \/ op.phase = "collecting" /\ op'.snap.runs = op.snap.runs
           \/ op'.snap.runs = runs[current] /\ current \in Workspaces,
         \/ op'.phase # "pruning" /\ op'.doomed = {} /\ op'.removing = 0
         \/ /\ op'.doomed = op.doomed /\ op'.removing = op.removing
            /\ op'.run = op.run /\ op'.dest = op.dest
            /\ op.phase = "pruning" /\ current' = current
  PROVE  PInv'
<1>1. taken' \in Nat /\ taken <= taken' /\ taken' = taken
  BY Known
<1>2. op'.phase = "collecting" => \A r \in Runs : op'.snap.runs[r] = "succeeded" => r <= taken
  BY DEF PInv, IssuedRows
<1>3. op'.phase \in Unfinished => /\ op'.run = taken' /\ op'.run \in Runs
                                  /\ \A w \in Workspaces : runs[w][op'.run] # "succeeded"
  <2> SUFFICES ASSUME op'.phase \in Unfinished
               PROVE  /\ op'.run = taken' /\ op'.run \in Runs
                      /\ \A w \in Workspaces : runs[w][op'.run] # "succeeded"
    OBVIOUS
  <2>1. op.run \in Runs
    BY Known DEF BInv, OpSound, Unfinished
  <2> QED BY <1>1, <2>1 DEF PInv, RowsOp
<1>4. \/ op'.phase # "pruning" /\ op'.doomed = {} /\ op'.removing = 0
      \/ /\ Condemned(op') \subseteq Condemned(op) /\ op'.removing \notin op'.doomed
         /\ op'.run = op.run /\ op'.dest = op.dest
         /\ op.phase = "pruning" /\ current' = current /\ taken' = taken
  BY <1>1 DEF PInv, RowsOp, Condemned
<1> QED BY <1>1, <1>2, <1>3, <1>4, PruneMoves

LEMMA PruneMost ==
  ASSUME BInv, PInv, [Next]_vars, ~InsertRun, ~Publish, ~Succeed, ~Fail, ~RemoveZip, ~DeleteRow,
         ~PlaceTarget
  PROVE  PInv'
<1>0. op \in OpType
  BY Known
<1>1. UNCHANGED <<runs, taken, stamp, place, zips, content>>
  BY DEF Next, BackupStep, RestoreStep, Configure, RequestBackup, TakeSnapshot, Collect, FailBackup,
     EndBackup, RequestRestore, ClearTarget, FailRestore, AttachmentStep, Stop, Tick, Open, Elsewhere,
     archiveVars, vars
<1>2. op.phase # "pruning" => op.doomed = {} /\ op.removing = 0
  BY DEF BInv, OpSound
<1>3. CASE op' = NoOp
  <2>1. op'.phase = "idle" /\ op'.doomed = {} /\ op'.removing = 0
    BY <1>3, NoOpType
  <2> QED BY <1>1, <2>1, PruneStays DEF Unfinished
<1>4. CASE op' = op /\ current' = current
  BY <1>1, <1>2, <1>4, PruneStays
<1>5. CASE \E w \in Workspaces : Open(w)
  <2>1. op' = op /\ current = NoWorkspace
    BY <1>5 DEF Open, Files!Open
  <2>2. op.phase = "idle"
    BY <2>1, BackupsAssumption DEF BInv, OpSound
  <2> QED BY <1>1, <1>2, <2>1, <2>2, PruneStays DEF Unfinished
<1>6. CASE RequestBackup \/ RequestRestore
  <2>1. \/ \E d : op' = [NoOp EXCEPT !.phase = "requested", !.dest = d]
        \/ \E d, w, r : op' = [NoOp EXCEPT !.phase = "extracting", !.run = r, !.dest = d,
                                          !.target = w]
    BY <1>6 DEF RequestBackup, RequestRestore
  <2>2. op'.doomed = {} /\ op'.removing = 0 /\ op'.phase \in {"requested", "extracting"}
    BY <2>1, NoOpType DEF OpType
  <2> QED BY <1>1, <2>2, PruneStays DEF Unfinished
<1>7. CASE TakeSnapshot
  <2>1. /\ op.phase = "copying" /\ current \in Workspaces
        /\ op' = [op EXCEPT !.phase = "collecting",
                            !.snap = [status |-> status[current], runs |-> runs[current],
                                      dir |-> dir[current]]]
    BY <1>7 DEF TakeSnapshot, BInv, OpSound
  <2>2. /\ op'.doomed = {} /\ op'.removing = 0 /\ op'.run = op.run /\ op'.phase = "collecting"
        /\ op'.snap.runs = runs[current]
    BY <1>0, <1>2, <2>1 DEF OpType
  <2> QED BY <1>1, <2>1, <2>2, PruneStays DEF Unfinished
<1>8. CASE Collect \/ ClearTarget \/ (FailBackup /\ op' # NoOp)
  <2>1. \/ \E v : op.phase = "collecting" /\ op' = [op EXCEPT !.files = v]
        \/ op.phase = "extracting" /\ op' = [op EXCEPT !.phase = "placing"]
        \/ /\ op.phase \in {"copying", "collecting", "published"}
           /\ op' = [op EXCEPT !.phase = "failing"]
    BY <1>8 DEF Collect, ClearTarget, FailBackup
  <2>2. op'.doomed = {} /\ op'.removing = 0 /\ op'.run = op.run /\ op'.snap = op.snap
    BY <1>0, <1>2, <2>1 DEF OpType
  <2>3. /\ op'.phase \in Unfinished => op.phase \in Unfinished
        /\ op'.phase = "collecting" => op.phase = "collecting"
        /\ op'.phase # "pruning"
    BY <1>0, <2>1 DEF OpType, Unfinished
  <2> QED BY <1>1, <2>2, <2>3, PruneStays
<1>9. CASE Configure \/ EndBackup \/ FailRestore \/ AttachmentStep \/ Stop \/ Tick
           \/ (\E w \in Workspaces : Elsewhere(w)) \/ UNCHANGED vars
  <2>1. op' = NoOp \/ (op' = op /\ current' = current)
    <3>1. AttachmentStep => op' = op /\ current' = current
      BY OnlyCurrent, Known DEF AttachmentStep
    <3> QED BY <1>9, <3>1
        DEF Configure, EndBackup, FailRestore, Stop, Tick, Elsewhere, vars, attachmentVars
  <2> QED BY <1>3, <1>4, <2>1
<1> QED BY <1>3, <1>5, <1>6, <1>7, <1>8, <1>9 DEF Next, BackupStep, RestoreStep

LEMMA InsertRunPrune == BInv /\ PInv /\ InsertRun => PInv'
<1> SUFFICES ASSUME BInv, PInv, InsertRun PROVE PInv'
  OBVIOUS
<1>1. /\ op' = [op EXCEPT !.phase = "copying", !.run = taken'] /\ op.phase = "requested"
      /\ taken' = taken + 1 /\ taken < MaxRuns /\ taken \in Nat /\ taken' \in Runs
      /\ runs' = [runs EXCEPT ![current][taken'] = "running"]
      /\ UNCHANGED <<stamp, place, zips, content>> /\ current \in Workspaces
  BY Known DEF InsertRun, BInv, OpSound
<1>2. op'.phase = "copying" /\ op'.run = taken' /\ op'.doomed = {} /\ op'.removing = 0
  BY <1>1, Known DEF OpType, BInv, OpSound
<1>3. \A w \in Workspaces : runs[w][taken'] # "succeeded"
  BY <1>1, Known DEF PInv, IssuedRows
<1>4. \A w \in Workspaces, r \in Runs : runs'[w][r] = "succeeded" <=> runs[w][r] = "succeeded"
  BY <1>1, <1>3, Known
<1>5. taken' \in Nat /\ taken <= taken'
  BY <1>1
<1> QED BY <1>1, <1>2, <1>3, <1>4, <1>5, PruneMoves

LEMMA PublishPrune == BInv /\ PInv /\ Publish => PInv'
<1> SUFFICES ASSUME BInv, PInv, Publish PROVE PInv'
  OBVIOUS
<1>1. /\ op' = [op EXCEPT !.phase = "published", !.snap = NoSnap, !.files = {}]
      /\ op.phase = "collecting" /\ UNCHANGED <<runs, taken, stamp>>
      /\ place' = [place EXCEPT ![op.run] = op.dest]
      /\ zips' = [zips EXCEPT ![op.dest] = zips[op.dest] \cup {op.run}]
      /\ content' = [content EXCEPT ![op.run] = [snap |-> op.snap, files |-> op.files]]
  BY DEF Publish
<1>2. /\ op'.phase = "published" /\ op'.run = op.run /\ op'.doomed = {} /\ op'.removing = 0
      /\ op.run \in Runs
  BY <1>1, Known DEF OpType, BInv, OpSound
<1>3. op.run = taken /\ \A w \in Workspaces : runs[w][op.run] # "succeeded"
  BY <1>1 DEF PInv, RowsOp, Unfinished
<1>4. place \in [Runs -> Dirs \cup {NoDir}] /\ zips \in [Dirs -> SUBSET Runs]
  BY DEF BInv, TypeOK
<1>5. \A w \in Workspaces, r \in Runs : runs[w][r] = "succeeded" => place'[r] = place[r]
  BY <1>1, <1>3, <1>4
<1>6. \A d \in Dirs : zips[d] \subseteq zips'[d]
  BY <1>1, <1>4
<1>7. taken' \in Nat /\ taken <= taken'
  BY <1>1, Known
<1>8. \A c \in Runs : content'[c] = content[c] \/
        \A r \in Runs : content'[c].snap.runs[r] = "succeeded" => r <= taken
  BY <1>1, Known DEF PInv, IssuedRows
<1> QED BY <1>1, <1>2, <1>3, <1>5, <1>6, <1>7, <1>8, PruneMoves

LEMMA FailPrune == BInv /\ PInv /\ Fail => PInv'
<1> SUFFICES ASSUME BInv, PInv, Fail PROVE PInv'
  OBVIOUS
<1>1. /\ op.phase = "failing" /\ op' = NoOp /\ UNCHANGED <<taken, stamp, place, zips, content>>
      /\ runs' = [runs EXCEPT ![current][op.run] = "failed"] \/ runs' = runs
  BY DEF Fail, UpdateRow, archiveVars
<1>2. \A w \in Workspaces : runs[w][op.run] # "succeeded"
  BY <1>1 DEF PInv, RowsOp, Unfinished
<1>3. current \in Workspaces /\ op.run \in Runs
  BY <1>1, Known DEF BInv, OpSound
<1>4. \A w \in Workspaces, r \in Runs : runs'[w][r] = "succeeded" <=> runs[w][r] = "succeeded"
  <2>1. runs \in [Workspaces -> [Runs -> RowStates]]
    BY Known
  <2> QED BY <1>1, <1>2, <1>3, <2>1
<1>5. op'.phase = "idle" /\ op'.doomed = {} /\ op'.removing = 0
  BY <1>1, NoOpType
<1>6. taken' \in Nat /\ taken <= taken'
  BY <1>1, Known
<1> QED BY <1>1, <1>4, <1>5, <1>6, PruneMoves DEF Unfinished

LEMMA PlaceTargetPrune == BInv /\ PInv /\ PlaceTarget => PInv'
<1> SUFFICES ASSUME BInv, PInv, PlaceTarget PROVE PInv'
  OBVIOUS
<1>1. /\ op' = NoOp /\ UNCHANGED <<taken, content>>
      /\ runs' = [runs EXCEPT ![op.target] = content[op.run].snap.runs]
      /\ op.run \in Runs /\ content[op.run] # NoContent
  BY DEF PlaceTarget, archiveVars, BInv, OpSound
<1>2. op'.phase = "idle" /\ op'.doomed = {} /\ op'.removing = 0
  BY <1>1, NoOpType
<1>3. \A w \in Workspaces, r \in Runs : runs'[w][r] = "succeeded" => r <= taken
  BY <1>1, Known DEF PInv, IssuedRows
<1>4. IssuedRows'
  BY <1>1, <1>2, <1>3 DEF PInv, IssuedRows
<1>5. RowsOp'
  BY <1>2 DEF RowsOp, Condemned, Unfinished
<1> QED BY <1>4, <1>5 DEF PInv

\* The rows change, the snapshots do not.
LEMMA RowsIssued ==
  ASSUME BInv, PInv, UNCHANGED <<taken, content>>, op'.phase = "pruning",
         \A w \in Workspaces, r \in Runs :
           runs'[w][r] = "succeeded" => runs[w][r] = "succeeded" \/ r <= taken
  PROVE  IssuedRows'
BY DEF PInv, IssuedRows

LEMMA SucceedPrune == BInv /\ KInv /\ PInv /\ Succeed => PInv'
<1> SUFFICES ASSUME BInv, KInv, PInv, Succeed PROVE PInv'
  OBVIOUS
<1> DEFINE run == op.run
           d == op.dest
           doomed == Beyond(runs'[current], stamp', d)
           mine == {r \in Runs : runs'[current][r] = "succeeded" /\ place[r] = d}
<1>1. /\ op.phase = "published"
      /\ op' = [op EXCEPT !.phase = "pruning", !.doomed = doomed]
      /\ UNCHANGED <<current, taken, place, zips, content>>
      /\ runs' = [runs EXCEPT ![current][run] = "succeeded"] \/ runs' = runs
  BY DEF Succeed, UpdateRow, attachmentVars
<1>2. run \in Runs /\ run <= taken /\ run = taken /\ d \in Dirs /\ run \in zips[d]
  BY <1>1, Known DEF BInv, OpSound, KInv, KeptOp, PInv, RowsOp, Unfinished
<1>3. \A r \in doomed : r \in mine /\ Enough(Above(mine, stamp', r))
  BY DEF Beyond, Enough, Above
<1>4. doomed \subseteq Runs
  BY DEF Beyond
<1> HIDE DEF doomed
<1>5. /\ op'.phase = "pruning" /\ op'.dest = d /\ op'.doomed = doomed /\ op'.removing = 0
      /\ op'.run = run
  BY <1>1, <1>4, Known DEF OpType, BInv, OpSound
<1>6. IssuedRows'
  <2> HIDE DEF mine
  <2>0. runs \in [Workspaces -> [Runs -> RowStates]]
    BY Known
  <2>1. \A w \in Workspaces, r \in Runs :
          runs'[w][r] = "succeeded" => runs[w][r] = "succeeded" \/ r <= taken
    BY <1>1, <1>2, <2>0
  <2> QED BY <1>1, <1>5, <2>1, RowsIssued
<1>7. RowsOp'
  <2>1. 0 \notin doomed
    BY <1>4 DEF Runs
  <2>2. Mine(current, op.dest)' = mine
    BY <1>1, <1>5 DEF Mine
  <2>3. op'.run \in zips'[op'.dest] /\ op'.run = taken'
    BY <1>1, <1>2, <1>5
  <2> HIDE DEF mine
  <2> QED BY <1>3, <1>5, <2>1, <2>2, <2>3 DEF RowsOp, Condemned, Unfinished
<1> QED BY <1>6, <1>7 DEF PInv

LEMMA RemoveZipPrune == BInv /\ PInv /\ RemoveZip => PInv'
<1> SUFFICES ASSUME BInv, PInv, RemoveZip PROVE PInv'
  OBVIOUS
<1> DEFINE d == op.dest
           mine == Mine(current, d)
<1>1. PICK q \in op.doomed :
        /\ op.phase = "pruning" /\ op.removing = 0 /\ q \in Runs
        /\ op' \in OpType /\ op'.phase = "pruning" /\ op'.run = op.run /\ op'.dest = d
        /\ op'.doomed = op.doomed \ {q}
        /\ \/ zips' = zips /\ op'.removing = 0
           \/ zips' = [zips EXCEPT ![place[q]] = zips[place[q]] \ {q}] /\ op'.removing = q
  BY RemoveZipStep
<1>2. /\ UNCHANGED <<current, runs, taken, stamp, place, content>>
      /\ d \in Dirs /\ op.doomed \subseteq Runs /\ 0 \notin Runs
      /\ zips \in [Dirs -> SUBSET Runs]
  BY <1>1, Known DEF RemoveZip, attachmentVars, BInv, OpType, Runs
<1>3. \A r \in Condemned(op) : r \in mine /\ Enough(Above(mine, stamp, r))
  BY DEF PInv, RowsOp
<1>4. Mine(current, op.dest)' = mine
  BY <1>1, <1>2 DEF Mine
<1>5. \A r \in Condemned(op') : r \in Condemned(op)
  BY <1>1 DEF Condemned
<1>6. op'.removing \notin op'.doomed
  BY <1>1, <1>2
<1>7. op.run \in zips'[d] \/ Enough(Above(mine, stamp, op.run))
  <2>1. CASE op.run \notin zips[d]
    BY <1>1, <2>1 DEF PInv, RowsOp
  <2>2. CASE op.run \in zips[d] /\ op.run \notin zips'[d]
    <3>1. op.run = q
      BY <1>1, <1>2, <2>2
    <3> QED BY <1>3, <3>1 DEF Condemned
  <2> QED BY <2>1, <2>2
<1>8. op.run = taken
  BY <1>1 DEF PInv, RowsOp
<1>9. IssuedRows'
  BY <1>1, <1>2, RowsIssued
<1> HIDE DEF mine
<1> QED BY <1>1, <1>2, <1>3, <1>4, <1>5, <1>6, <1>7, <1>8, <1>9 DEF PInv, RowsOp, Unfinished

\* What deleting a row that has enough newer ones leaves.
LEMMA DeleteRowPrune == BInv /\ PInv /\ DeleteRow => PInv'
<1> SUFFICES ASSUME BInv, PInv, DeleteRow PROVE PInv'
  OBVIOUS
<1> DEFINE q == op.removing
           d == op.dest
           mine == Mine(current, d)
<1>1. /\ q # 0 /\ op' = [op EXCEPT !.removing = 0]
      /\ UNCHANGED <<current, taken, stamp, place, zips, content>>
      /\ runs' = [runs EXCEPT ![current][q] = "none"] \/ runs' = runs
  BY DEF DeleteRow, archiveVars, attachmentVars
<1>2. /\ op.phase = "pruning" /\ current \in Workspaces /\ q \in Runs /\ op.run \in Runs
      /\ op'.phase = "pruning" /\ op'.dest = d /\ op'.doomed = op.doomed /\ op'.removing = 0
      /\ op'.run = op.run /\ op.doomed \subseteq Runs /\ 0 \notin Runs /\ mine \subseteq Runs
  BY <1>1, Known DEF OpType, BInv, OpSound, Runs, Mine
<1>3. runs \in [Workspaces -> [Runs -> RowStates]] /\ stamp \in [Runs -> Nat]
  BY Known, Stamps
<1>4. /\ q \in mine /\ Enough(Above(mine, stamp, q)) /\ q \notin op.doomed
      /\ \A r \in op.doomed : r \in mine /\ Enough(Above(mine, stamp, r))
      /\ op.run \in zips[d] \/ Enough(Above(mine, stamp, op.run))
      /\ op.run = taken
  BY <1>1, <1>2 DEF PInv, RowsOp, Condemned
<1>5. IssuedRows'
  <2>1. \A w \in Workspaces, r \in Runs : runs'[w][r] = "succeeded" => runs[w][r] = "succeeded"
    BY <1>1, <1>2, <1>3
  <2> QED BY <1>1, <1>2, <2>1, RowsIssued
<1>6. Mine(current, op.dest)' \in {mine, mine \ {q}}
  BY <1>1, <1>2, <1>3 DEF Mine
<1>7. \A r \in Runs : Enough(Above(mine, stamp, r)) => Enough(Above(mine \ {q}, stamp, r))
  BY <1>2, <1>3, <1>4, EnoughWithout
<1>8. Condemned(op') = op.doomed
  BY <1>2 DEF Condemned
<1> HIDE DEF mine
<1>9. RowsOp'
  <2> DEFINE left == Mine(current, op.dest)'
  <2>1. \A r \in Condemned(op') : r \in left /\ Enough(Above(left, stamp, r))
    BY <1>2, <1>4, <1>6, <1>7, <1>8
  <2>2. op.run \in zips[d] \/ Enough(Above(left, stamp, op.run))
    BY <1>2, <1>4, <1>6, <1>7
  <2> HIDE DEF left
  <2>3. left = Mine(current, op.dest)'
    BY DEF left
  <2> QED BY <1>1, <1>2, <1>4, <2>1, <2>2, <2>3 DEF RowsOp, Unfinished
<1> QED BY <1>5, <1>9 DEF PInv

LEMMA NextPInv == BInv /\ KInv /\ PInv /\ [Next]_vars => PInv'
BY PruneMost, InsertRunPrune, PublishPrune, SucceedPrune, FailPrune, RemoveZipPrune, DeleteRowPrune,
   PlaceTargetPrune

\* NewBackupSurvives at any number of backups and retained ones: a new backup is
\* removed by its own pruning only when enough others rank before it, and the
\* latest by the clock, begun after them all, ranks before them.
THEOREM NewBackupsSurvive == Spec => []NewBackupSurvives
<1>1. BInv /\ PInv => NewBackupSurvives
  <2> SUFFICES ASSUME BInv, PInv, op.phase = "pruning",
                      \A r \in Mine(current, op.dest) : stamp[r] <= stamp[op.run],
                      op.run \notin zips[op.dest]
               PROVE  FALSE
    BY DEF NewBackupSurvives, Mine
  <2> DEFINE newer == Above(Mine(current, op.dest), stamp, op.run)
  <2>1. Enough(newer) /\ op.run = taken /\ op.run \in Runs /\ current \in Workspaces
    BY Known DEF PInv, RowsOp, BInv, OpSound
  <2>2. \A r \in newer : r \in Runs /\ r <= op.run /\ stamp[r] <= stamp[op.run]
                         /\ Newer(stamp, r, op.run)
    BY <2>1 DEF Above, Mine, PInv, IssuedRows
  <2>3. \A r \in newer : FALSE
    BY <2>1, <2>2, Known, Stamps DEF Newer
  <2>4. newer = {}
    BY <2>3
  <2> QED BY <2>1, <2>4, FS_EmptySet, BackupsAssumption DEF Enough
<1> QED BY <1>1, BInvHolds, InitKInv, NextKInv, InitPInv, NextPInv, PTL DEF Spec

-----------------------------------------------------------------------------
(* Workspaces.  Until one is restored, each has its own backups: an archive    *)
(* that its rows name is there or has enough newer ones among them.            *)

Original == \A w \in Workspaces : origin[w] = 0

MineKept ==
  \A w \in Workspaces, d \in Dirs : \A r \in Mine(w, d) :
    r \in zips[d] \/ Enough(Above(Mine(w, d), stamp, r))

OwnRuns ==
  \A w \in Workspaces, v \in Workspaces, r \in Runs :
    runs[w][r] = "succeeded" /\ runs[v][r] = "succeeded" => w = v

RInv == Original => MineKept /\ OwnRuns

LEMMA InitRInv == Init => RInv
<1> SUFFICES ASSUME Init PROVE RInv
  OBVIOUS
<1>1. \A w \in Workspaces, r \in Runs : runs[w][r] = "none"
  BY DEF Init, NoSnap
<1> QED BY <1>1 DEF RInv, MineKept, OwnRuns, Mine

\* Steps after which the same runs have succeeded, where they were.
LEMMA RowsMove ==
  ASSUME RInv, UNCHANGED <<origin, stamp>>,
         \A d \in Dirs : zips[d] \subseteq zips'[d],
         \A w \in Workspaces, r \in Runs :
           /\ runs'[w][r] = "succeeded" <=> runs[w][r] = "succeeded"
           /\ runs[w][r] = "succeeded" => place'[r] = place[r]
  PROVE  RInv'
<1> SUFFICES ASSUME Original PROVE (MineKept /\ OwnRuns)'
  BY DEF RInv, Original
<1>1. \A w \in Workspaces : \A d : Mine(w, d)' = Mine(w, d)
  BY DEF Mine
<1>2. MineKept'
  BY <1>1 DEF RInv, MineKept
<1>3. OwnRuns'
  BY DEF RInv, OwnRuns
<1> QED BY <1>2, <1>3

LEMMA RowsMost ==
  ASSUME BInv, PInv, RInv, [Next]_vars, ~Succeed, ~RemoveZip, ~DeleteRow, ~PlaceTarget
  PROVE  RInv'
<1>1. CASE InsertRun
  <2>1. /\ runs' = [runs EXCEPT ![current][taken'] = "running"] /\ taken' > taken
        /\ taken' \in Runs /\ UNCHANGED <<origin, stamp, place, zips>>
    BY <1>1, Known DEF InsertRun
  <2>2. \A w \in Workspaces : runs[w][taken'] # "succeeded"
    BY <2>1, Known DEF PInv, IssuedRows
  <2>3. \A w \in Workspaces, r \in Runs : runs'[w][r] = "succeeded" <=> runs[w][r] = "succeeded"
    BY <2>1, <2>2, Known
  <2> QED BY <2>1, <2>3, RowsMove
<1>2. CASE Fail
  <2>1. /\ runs' = [runs EXCEPT ![current][op.run] = "failed"] \/ runs' = runs
        /\ op.phase = "failing" /\ UNCHANGED <<origin, stamp, place, zips>>
    BY <1>2 DEF Fail, UpdateRow, archiveVars
  <2>2. \A w \in Workspaces : runs[w][op.run] # "succeeded"
    BY <2>1 DEF PInv, RowsOp, Unfinished
  <2>3. \A w \in Workspaces, r \in Runs : runs'[w][r] = "succeeded" <=> runs[w][r] = "succeeded"
    BY <2>1, <2>2, Known
  <2> QED BY <2>1, <2>3, RowsMove
<1>3. CASE Publish
  <2>1. /\ place' = [place EXCEPT ![op.run] = op.dest] /\ UNCHANGED <<origin, runs, stamp>>
        /\ zips' = [zips EXCEPT ![op.dest] = zips[op.dest] \cup {op.run}]
        /\ op.phase = "collecting"
    BY <1>3 DEF Publish
  <2>2. \A w \in Workspaces : runs[w][op.run] # "succeeded"
    BY <2>1 DEF PInv, RowsOp, Unfinished
  <2>3. place \in [Runs -> Dirs \cup {NoDir}] /\ zips \in [Dirs -> SUBSET Runs]
    BY DEF BInv, TypeOK
  <2>4. \A w \in Workspaces, r \in Runs : runs[w][r] = "succeeded" => place'[r] = place[r]
    BY <2>1, <2>2, <2>3
  <2>5. \A d \in Dirs : zips[d] \subseteq zips'[d]
    BY <2>1, <2>3
  <2> QED BY <2>1, <2>4, <2>5, RowsMove
<1>4. CASE ~InsertRun /\ ~Fail /\ ~Publish
  <2>1. UNCHANGED <<origin, runs, stamp, place, zips>>
    BY <1>4 DEF Next, BackupStep, RestoreStep, Configure, RequestBackup, TakeSnapshot, Collect,
       FailBackup, EndBackup, RequestRestore, ClearTarget, FailRestore, AttachmentStep, Stop, Tick,
       Open, Elsewhere, archiveVars, vars
  <2> QED BY <2>1, RowsMove
<1> QED BY <1>1, <1>2, <1>3, <1>4

\* The first restore ends what the theorem says.
LEMMA PlaceTargetRows == BInv /\ PlaceTarget => RInv'
<1> SUFFICES ASSUME BInv, PlaceTarget PROVE ~Original'
  BY DEF RInv
<1>1. op.target \in Workspaces /\ op.run \in Runs /\ 0 \notin Runs
  BY DEF PlaceTarget, BInv, OpSound, Runs
<1>2. origin' = [origin EXCEPT ![op.target] = op.run] /\ origin \in [Workspaces -> Runs \cup {0}]
  BY DEF PlaceTarget, BInv, TypeOK
<1> QED BY <1>1, <1>2 DEF Original

LEMMA SucceedRows == BInv /\ KInv /\ PInv /\ RInv /\ Succeed => RInv'
<1> SUFFICES ASSUME BInv, KInv, PInv, RInv, Succeed, Original PROVE RInv'
  BY DEF Succeed, RInv, Original
<1> DEFINE run == op.run
           d == op.dest
<1>1. /\ op.phase = "published" /\ stamp' = [stamp EXCEPT ![run] = clock]
      /\ UNCHANGED <<current, origin, taken, place, zips>>
      /\ runs' = [runs EXCEPT ![current][run] = "succeeded"] \/ runs' = runs
  BY DEF Succeed, UpdateRow, attachmentVars
<1>2. /\ run \in Runs /\ d \in Dirs /\ stamp[run] = 0
      /\ place[run] = d /\ run \in zips[d] /\ current \in Workspaces
      /\ runs \in [Workspaces -> [Runs -> RowStates]]
  BY <1>1, Known DEF BInv, OpSound, KInv, KeptOp, Written, Placed
<1>3. \A w \in Workspaces : runs[w][run] # "succeeded"
  BY <1>1 DEF PInv, RowsOp, Unfinished
<1>4. \A w \in Workspaces, r \in Runs :
        /\ runs[w][r] = "succeeded" => runs'[w][r] = "succeeded"
        /\ runs'[w][r] = "succeeded" => runs[w][r] = "succeeded" \/ (w = current /\ r = run)
  BY <1>1, <1>2
<1>5. MineKept'
  <2> SUFFICES ASSUME NEW w \in Workspaces, NEW e \in Dirs, NEW r \in Mine(w, e)', r \notin zips[e]
               PROVE  Enough(Above(Mine(w, e)', stamp', r))
    BY <1>1 DEF MineKept
  <2>1. r \in Runs /\ r # run /\ r \in Mine(w, e)
    BY <1>1, <1>2, <1>4 DEF Mine
  <2>2. Enough(Above(Mine(w, e), stamp, r))
    BY <2>1 DEF RInv, MineKept
  <2>3. Mine(w, e) \subseteq Mine(w, e)' /\ Mine(w, e)' \subseteq Runs
    BY <1>1, <1>4 DEF Mine
  <2>4. \A s \in Runs : Newer(stamp, s, r) => Newer(stamp', s, r)
    BY <1>1, <1>2, <2>1, StampMoves
  <2>5. Above(Mine(w, e), stamp, r) \subseteq Above(Mine(w, e)', stamp', r)
        /\ Above(Mine(w, e)', stamp', r) \subseteq Runs
    BY <2>3, <2>4 DEF Above
  <2> QED BY <2>2, <2>5, EnoughGrows
<1>6. OwnRuns'
  BY <1>1, <1>2, <1>3, <1>4 DEF RInv, OwnRuns
<1> QED BY <1>5, <1>6 DEF RInv

LEMMA RemoveZipRows == BInv /\ PInv /\ RInv /\ RemoveZip => RInv'
<1> SUFFICES ASSUME BInv, PInv, RInv, RemoveZip, Original PROVE RInv'
  BY DEF RemoveZip, RInv, Original, archiveVars
<1> DEFINE d == op.dest
           mine == Mine(current, d)
<1>1. PICK q \in op.doomed :
        /\ op.phase = "pruning" /\ q \in Runs
        /\ zips' = zips \/ zips' = [zips EXCEPT ![place[q]] = zips[place[q]] \ {q}]
  BY RemoveZipStep
<1>2. /\ UNCHANGED <<current, origin, runs, stamp, place>>
      /\ current \in Workspaces /\ d \in Dirs /\ zips \in [Dirs -> SUBSET Runs]
  BY <1>1, Known DEF RemoveZip, attachmentVars, BInv, OpSound
<1>3. q \in mine /\ Enough(Above(mine, stamp, q)) /\ place[q] = d
  BY DEF PInv, RowsOp, Condemned, Mine
<1>4. \A w, e : Mine(w, e)' = Mine(w, e)
  BY <1>2 DEF Mine
<1>5. MineKept'
  <2> SUFFICES ASSUME NEW w \in Workspaces, NEW e \in Dirs, NEW r \in Mine(w, e), r \notin zips'[e]
               PROVE  Enough(Above(Mine(w, e), stamp, r))
    BY <1>2, <1>4 DEF MineKept
  <2>1. CASE r \notin zips[e]
    BY <2>1 DEF RInv, MineKept
  <2>2. CASE r \in zips[e]
    <3>1. r = q /\ e = d
      BY <1>1, <1>2, <1>3, <2>2
    <3>2. w = current
      BY <1>2, <1>3, <3>1 DEF RInv, OwnRuns, Mine
    <3> QED BY <1>3, <3>1, <3>2
  <2> QED BY <2>1, <2>2
<1>6. OwnRuns'
  BY <1>2 DEF RInv, OwnRuns
<1> QED BY <1>5, <1>6 DEF RInv

LEMMA DeleteRowRows == BInv /\ PInv /\ RInv /\ DeleteRow => RInv'
<1> SUFFICES ASSUME BInv, PInv, RInv, DeleteRow, Original PROVE RInv'
  BY DEF DeleteRow, RInv, Original, archiveVars
<1> DEFINE q == op.removing
           d == op.dest
           mine == Mine(current, d)
<1>1. /\ q # 0 /\ UNCHANGED <<current, origin, stamp, place, zips>>
      /\ runs' = [runs EXCEPT ![current][q] = "none"] \/ runs' = runs
  BY DEF DeleteRow, archiveVars, attachmentVars
<1>2. current \in Workspaces /\ q \in Runs /\ d \in Dirs /\ mine \subseteq Runs
  BY <1>1, Known DEF OpType, BInv, OpSound, Mine
<1>3. q \in mine /\ Enough(Above(mine, stamp, q))
  BY <1>1 DEF PInv, RowsOp, Condemned
<1>4. runs \in [Workspaces -> [Runs -> RowStates]] /\ stamp \in [Runs -> Nat]
  BY Known, Stamps
<1>5. CASE runs' = runs
  BY <1>1, <1>5, RowsMove
<1>6. CASE runs' = [runs EXCEPT ![current][q] = "none"]
  <2>1. \A w \in Workspaces, r \in Runs :
          runs'[w][r] = "succeeded" <=> runs[w][r] = "succeeded" /\ ~(w = current /\ r = q)
    BY <1>2, <1>4, <1>6
  <2>2. \A w \in Workspaces : \A e :
          Mine(w, e)' = Mine(w, e) \ (IF w = current /\ e = d THEN {q} ELSE {})
    BY <1>1, <1>3, <2>1 DEF Mine
  <2>3. MineKept'
    <3> SUFFICES ASSUME NEW w \in Workspaces, NEW e \in Dirs, NEW r \in Mine(w, e)'
                 PROVE  r \in zips[e] \/ Enough(Above(Mine(w, e)', stamp, r))
      BY <1>1 DEF MineKept
    <3>1. CASE w = current /\ e = d
      <4>1. Mine(w, e)' = mine \ {q} /\ Mine(w, e) = mine /\ r \in mine /\ r \in Runs
        BY <1>2, <2>2, <3>1
      <4>2. r \in zips[e] \/ Enough(Above(mine, stamp, r))
        BY <4>1 DEF RInv, MineKept
      <4>3. Enough(Above(mine, stamp, r)) => Enough(Above(mine \ {q}, stamp, r))
        BY <1>2, <1>3, <1>4, <4>1, EnoughWithout
      <4> QED BY <4>1, <4>2, <4>3
    <3>2. CASE ~(w = current /\ e = d)
      <4>1. Mine(w, e)' = Mine(w, e)
        BY <2>2, <3>2
      <4> QED BY <4>1 DEF RInv, MineKept
    <3> QED BY <3>1, <3>2
  <2>4. OwnRuns'
    BY <2>1 DEF RInv, OwnRuns
  <2> QED BY <2>3, <2>4 DEF RInv
<1> QED BY <1>1, <1>5, <1>6

LEMMA NextRInv == BInv /\ KInv /\ PInv /\ RInv /\ [Next]_vars => RInv'
BY RowsMost, SucceedRows, RemoveZipRows, DeleteRowRows, PlaceTargetRows

\* RetainedBackupsExist for any number of workspaces, directories and backups, any
\* clock and any Keep: until a workspace is restored, a row that names an archive
\* which is gone has Keep newer ones beside it.
THEOREM RetainedBackupsAlwaysExist == Spec => []RetainedBackupsExist
<1>1. BInv /\ RInv => RetainedBackupsExist
  <2> SUFFICES ASSUME BInv, RInv, Original, NEW w \in Workspaces, NEW d \in Dirs,
                      NEW r \in Mine(w, d), Cardinality(Above(Mine(w, d), stamp, r)) < Keep
               PROVE  r \in zips[d]
    BY DEF RetainedBackupsExist, Original, Mine, Above
  <2>1. IsFiniteSet(Runs) /\ Above(Mine(w, d), stamp, r) \subseteq Runs
    BY FS_Interval, BackupsAssumption DEF Runs, Above, Mine
  <2>2. Cardinality(Above(Mine(w, d), stamp, r)) \in Nat
    BY <2>1, FS_Subset, FS_CardinalityType
  <2> QED BY <2>2, BackupsAssumption DEF RInv, MineKept, Enough
<1> QED BY <1>1, BInvHolds, InitKInv, NextKInv, InitPInv, NextPInv, InitRInv, NextRInv,
       PTL DEF Spec
=============================================================================
