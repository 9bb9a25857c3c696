------------------------------ MODULE Backups ------------------------------
(***************************************************************************)
(* Backup, retention and restore: backup.Manager over the attachments of   *)
(* module Attachments.                                                     *)
(*                                                                         *)
(* Service's reservation and the manager's mutex leave one backup or       *)
(* restore at a time, op; attachments are imported, removed and brought    *)
(* back meanwhile.  A backup is a row of backup_runs, a snapshot of the    *)
(* database, the files the snapshot names, a rename that publishes the     *)
(* archive, the row's last update and the removal of old archives, each a  *)
(* step that the end of the process may cut off.  Archives live in         *)
(* directories outside the workspaces.  A restored workspace starts from   *)
(* the snapshot of an archive, with its backup_runs and its settings.      *)
(* Cancellation and I/O errors are failures that may come at any step.     *)
(***************************************************************************)
EXTENDS Naturals, FiniteSets

CONSTANTS
  Workspaces, NoWorkspace, Items, NoItem, Imports, BatchLimit,
  Dirs,          \* backup directories
  NoDir,         \* the empty setting
  NoContent,     \* an archive that was never published
  Keep,          \* successful backups that are retained (10 in the code)
  MaxRuns,       \* bound on backups
  MaxTime,       \* bound on the clock
  ClockMayGoBack \* TRUE: the wall clock may be set back

ASSUME BackupsAssumption ==
  /\ NoWorkspace \notin Workspaces /\ NoItem \notin Items /\ NoDir \notin Dirs
  /\ BatchLimit \in Nat \ {0}
  /\ Keep \in Nat \ {0}
  /\ MaxRuns \in Nat /\ MaxTime \in Nat
  /\ ClockMayGoBack \in BOOLEAN

Runs == 1..MaxRuns

VARIABLES
  current, status, files, temps, inherited, issued, task, \* see Attachments
  home,     \* each workspace's directory: absent, empty, occupied
  origin,   \* the archive a workspace was restored from, 0 for none
  runs,     \* the state of each row of a workspace's backup_runs
  dir,      \* its setting backup_directory
  clock,    \* the wall clock
  taken,    \* run identifiers given out so far
  stamp,    \* finished_at of a succeeded run's row
  place,    \* the directory in its path
  zips,     \* the archives in each directory
  content,  \* what an archive holds
  op        \* the backup or restore of the process

attachmentVars == <<current, status, files, temps, inherited, issued, task>>
archiveVars    == <<taken, stamp, place, zips, content>>
vars == <<attachmentVars, home, origin, runs, dir, clock, archiveVars, op>>

Files == INSTANCE Attachments

NoSnap == [status |-> [x \in Items |-> "none"], runs |-> [r \in Runs |-> "none"], dir |-> NoDir]
NoOp   == [phase |-> "idle", run |-> 0, dest |-> NoDir, snap |-> NoSnap, files |-> {},
           doomed |-> {}, removing |-> 0, target |-> NoWorkspace]

SnapLive(snap) == {x \in Items : snap.status[x] = "live"}

Init ==
  /\ Files!Init
  /\ home = [w \in Workspaces |-> "absent"]
  /\ origin = [w \in Workspaces |-> 0]
  /\ runs = [w \in Workspaces |-> NoSnap.runs]
  /\ dir = [w \in Workspaces |-> NoDir]
  /\ clock = 0
  /\ taken = 0
  /\ stamp = [r \in Runs |-> 0]
  /\ place = [r \in Runs |-> NoDir]
  /\ zips = [d \in Dirs |-> {}]
  /\ content = [r \in Runs |-> NoContent]
  /\ op = NoOp

-----------------------------------------------------------------------------
(* Create *)

\* Configure changes the setting, also under a running backup.
Configure ==
  /\ current # NoWorkspace
  /\ \E d \in Dirs \cup {NoDir} : dir' = [dir EXCEPT ![current] = d]
  /\ UNCHANGED <<attachmentVars, home, origin, runs, clock, archiveVars, op>>

\* A job starts Create, which reads the setting before it takes the mutex; with
\* no directory it fails before it has written anything.
RequestBackup ==
  /\ current # NoWorkspace
  /\ op.phase = "idle"
  /\ dir[current] # NoDir
  /\ op' = [NoOp EXCEPT !.phase = "requested", !.dest = dir[current]]
  /\ UNCHANGED <<attachmentVars, home, origin, runs, dir, clock, archiveVars>>

\* The row of the run is inserted as running.
InsertRun ==
  /\ op.phase = "requested"
  /\ taken < MaxRuns
  /\ taken' = taken + 1
  /\ runs' = [runs EXCEPT ![current][taken'] = "running"]
  /\ op' = [op EXCEPT !.phase = "copying", !.run = taken']
  /\ UNCHANGED <<attachmentVars, home, origin, dir, clock, stamp, place, zips, content>>

\* The last step of the online backup: the snapshot is the database of this moment.
TakeSnapshot ==
  /\ op.phase = "copying"
  /\ op' = [op EXCEPT !.phase = "collecting",
                      !.snap = [status |-> status[current], runs |-> runs[current],
                                dir |-> dir[current]]]
  /\ UNCHANGED <<attachmentVars, home, origin, runs, dir, clock, archiveVars>>

\* A live attachment of the snapshot is found and its digest agrees.
Collect ==
  /\ op.phase = "collecting"
  /\ \E x \in (SnapLive(op.snap) \ op.files) \cap files[current] :
       op' = [op EXCEPT !.files = @ \cup {x}]
  /\ UNCHANGED <<attachmentVars, home, origin, runs, dir, clock, archiveVars>>

\* Mutant: the archive is published with the files that were found.
Publish_Partial ==
  /\ op.phase = "collecting"
  /\ zips' = [zips EXCEPT ![op.dest] = @ \cup {op.run}]
  /\ content' = [content EXCEPT ![op.run] = [snap |-> op.snap, files |-> op.files]]
  /\ place' = [place EXCEPT ![op.run] = op.dest]
  /\ op' = [op EXCEPT !.phase = "published", !.snap = NoSnap, !.files = {}]
  /\ UNCHANGED <<attachmentVars, home, origin, runs, dir, clock, taken, stamp>>

\* The archive, written and verified under a temporary name, is renamed.
Publish ==
  /\ op.phase = "collecting"
  /\ op.files = SnapLive(op.snap)
  /\ zips' = [zips EXCEPT ![op.dest] = @ \cup {op.run}]
  /\ content' = [content EXCEPT ![op.run] = [snap |-> op.snap, files |-> op.files]]
  /\ place' = [place EXCEPT ![op.run] = op.dest]
  /\ op' = [op EXCEPT !.phase = "published", !.snap = NoSnap, !.files = {}]
  /\ UNCHANGED <<attachmentVars, home, origin, runs, dir, clock, taken, stamp>>

\* Any step before the end may fail: a missing file or a digest that differs
\* (Collect is then disabled), a cancelled context, I/O, the insert of the row,
\* or the Stat that follows the rename.
FailBackup ==
  /\ op.phase \in {"requested", "copying", "collecting", "published"}
  /\ op' = IF op.phase = "requested" THEN NoOp ELSE [op EXCEPT !.phase = "failing"]
  /\ UNCHANGED <<attachmentVars, home, origin, runs, dir, clock, archiveVars>>

\* The order of pruneSuccessful: by finished_at, then by rowid.
Newer(at, r, s) == at[r] > at[s] \/ (at[r] = at[s] /\ r > s)

\* Mutant: one backup too few is retained.
Beyond_OffByOne(table, at, d) ==
  LET candidates == {r \in Runs : table[r] = "succeeded" /\ place[r] = d}
  IN {r \in candidates : Cardinality({s \in candidates : Newer(at, s, r)}) >= Keep - 1}

\* Mutant: the backups of every directory are counted together.
Beyond_AnyDirectory(table, at, d) ==
  LET candidates == {r \in Runs : table[r] = "succeeded"}
  IN {r \in candidates : Cardinality({s \in candidates : Newer(at, s, r)}) >= Keep}

\* The successful backups in a directory that have Keep newer ones there.
Beyond(table, at, d) ==
  LET candidates == {r \in Runs : table[r] = "succeeded" /\ place[r] = d}
  IN {r \in candidates : Cardinality({s \in candidates : Newer(at, s, r)}) >= Keep}

\* The deferred UPDATE, whose error is dropped.
UpdateRow(state) ==
  \/ runs' = [runs EXCEPT ![current][op.run] = state]
  \/ UNCHANGED runs

\* A published backup becomes succeeded, and pruning looks for old ones.
Succeed ==
  /\ op.phase = "published"
  /\ stamp' = [stamp EXCEPT ![op.run] = clock]
  /\ UpdateRow("succeeded")
  /\ op' = [op EXCEPT !.phase = "pruning", !.doomed = Beyond(runs'[current], stamp', op.dest)]
  /\ UNCHANGED <<attachmentVars, home, origin, dir, clock, taken, place, zips, content>>

\* A backup that failed becomes failed; it prunes nothing.
Fail ==
  /\ op.phase = "failing"
  /\ UpdateRow("failed")
  /\ op' = NoOp
  /\ UNCHANGED <<attachmentVars, home, origin, dir, clock, archiveVars>>

\* pruneSuccessful removes an archive, the newest doomed one first; when the
\* removal fails the row stays and the loop goes on.
RemoveZip ==
  /\ op.phase = "pruning" /\ op.removing = 0
  /\ \E r \in op.doomed :
       /\ \A s \in op.doomed \ {r} : Newer(stamp, r, s)
       /\ \/ /\ zips' = [zips EXCEPT ![place[r]] = @ \ {r}]
             /\ op' = [op EXCEPT !.doomed = @ \ {r}, !.removing = r]
          \/ /\ UNCHANGED zips
             /\ op' = [op EXCEPT !.doomed = @ \ {r}]
  /\ UNCHANGED <<attachmentVars, home, origin, runs, dir, clock, taken, stamp, place, content>>

\* The row of the removed archive is deleted; the error is dropped.
DeleteRow ==
  /\ op.removing # 0
  /\ \/ runs' = [runs EXCEPT ![current][op.removing] = "none"]
     \/ UNCHANGED runs
  /\ op' = [op EXCEPT !.removing = 0]
  /\ UNCHANGED <<attachmentVars, home, origin, dir, clock, archiveVars>>

EndBackup ==
  /\ op.phase = "pruning" /\ op.doomed = {} /\ op.removing = 0
  /\ op' = NoOp
  /\ UNCHANGED <<attachmentVars, home, origin, runs, dir, clock, archiveVars>>

BackupStep ==
  \/ Configure \/ RequestBackup \/ InsertRun \/ TakeSnapshot \/ Collect \/ Publish
  \/ FailBackup \/ Succeed \/ Fail \/ RemoveZip \/ DeleteRow \/ EndBackup

-----------------------------------------------------------------------------
(* RestoreToNewWorkspace *)

\* The archive validates and the destination is neither the open workspace nor
\* a directory with something in it.
RequestRestore ==
  /\ current # NoWorkspace
  /\ op.phase = "idle"
  /\ \E d \in Dirs, w \in Workspaces \ {current} : \E r \in zips[d] :
       /\ home[w] # "occupied"
       /\ op' = [NoOp EXCEPT !.phase = "extracting", !.run = r, !.dest = d, !.target = w]
  /\ UNCHANGED <<attachmentVars, home, origin, runs, dir, clock, archiveVars>>

\* Mutant: the destination is cleared with RemoveAll instead of Remove.
ClearTarget_RemovesAll ==
  /\ op.phase = "extracting"
  /\ home' = [home EXCEPT ![op.target] = "absent"]
  /\ op' = [op EXCEPT !.phase = "placing"]
  /\ UNCHANGED <<attachmentVars, origin, runs, dir, clock, archiveVars>>

\* Everything is extracted beside the destination, which is removed if it is
\* there; Remove fails on a directory that has been filled meanwhile.  The
\* destination is a directory or nothing: a regular file that takes its name,
\* which Remove would delete, has no state.
ClearTarget ==
  /\ op.phase = "extracting"
  /\ home[op.target] # "occupied"
  /\ home' = [home EXCEPT ![op.target] = "absent"]
  /\ op' = [op EXCEPT !.phase = "placing"]
  /\ UNCHANGED <<attachmentVars, origin, runs, dir, clock, archiveVars>>

\* The rename that makes the new workspace; it fails on a filled directory.
PlaceTarget ==
  LET archive == content[op.run] IN
  /\ op.phase = "placing"
  /\ home[op.target] # "occupied"
  /\ home' = [home EXCEPT ![op.target] = "occupied"]
  /\ origin' = [origin EXCEPT ![op.target] = op.run]
  /\ status' = [status EXCEPT ![op.target] = archive.snap.status]
  /\ runs' = [runs EXCEPT ![op.target] = archive.snap.runs]
  /\ dir' = [dir EXCEPT ![op.target] = archive.snap.dir]
  /\ files' = [files EXCEPT ![op.target] = archive.files]
  /\ op' = NoOp
  /\ UNCHANGED <<current, temps, inherited, issued, task, clock, archiveVars>>

\* A step of the restore fails; its deferred RemoveAll takes the extracted files.
FailRestore ==
  /\ op.phase \in {"extracting", "placing"}
  /\ op' = NoOp
  /\ UNCHANGED <<attachmentVars, home, origin, runs, dir, clock, archiveVars>>

RestoreStep == RequestRestore \/ ClearTarget \/ PlaceTarget \/ FailRestore

-----------------------------------------------------------------------------
(* The process and its surroundings *)

AttachmentStep ==
  /\ Files!Step
  /\ UNCHANGED <<home, origin, runs, dir, clock, archiveVars, op>>

\* The process ends wherever its backup or restore is.
Stop ==
  /\ Files!Stop
  /\ op' = NoOp
  /\ UNCHANGED <<home, origin, runs, dir, clock, archiveVars>>

\* A process opens a workspace and makes it if it is not there; rows left
\* running are not looked at.
Open(w) ==
  /\ Files!Open(w)
  /\ home' = [home EXCEPT ![w] = "occupied"]
  /\ UNCHANGED <<origin, runs, dir, clock, archiveVars, op>>

\* Another program makes the destination, or puts a workspace's files there.
Elsewhere(w) ==
  /\ w # current
  /\ home[w] # "occupied"
  /\ \E h \in {"empty", "occupied"} : home' = [home EXCEPT ![w] = h]
  /\ UNCHANGED <<attachmentVars, origin, runs, dir, clock, archiveVars, op>>

\* The wall clock goes on or, if it may, is set back.
Tick ==
  /\ \/ clock < MaxTime /\ clock' = clock + 1
     \/ ClockMayGoBack /\ clock > 0 /\ clock' = clock - 1
  /\ UNCHANGED <<attachmentVars, home, origin, runs, dir, archiveVars, op>>

Next ==
  \/ BackupStep \/ RestoreStep \/ AttachmentStep \/ Stop \/ Tick
  \/ \E w \in Workspaces : Open(w) \/ Elsewhere(w)

Spec == Init /\ [][Next]_vars

-----------------------------------------------------------------------------
(* Properties *)

SnapType == [status : [Items -> {"none", "live", "trashed"}],
             runs : [Runs -> {"none", "running", "succeeded", "failed"}],
             dir : Dirs \cup {NoDir}]
ArchiveType == [snap : SnapType, files : SUBSET Items]
OpType ==
  [phase : {"idle", "requested", "copying", "collecting", "published", "failing", "pruning",
            "extracting", "placing"},
   run : Runs \cup {0}, dest : Dirs \cup {NoDir}, snap : SnapType, files : SUBSET Items,
   doomed : SUBSET Runs, removing : Runs \cup {0}, target : Workspaces \cup {NoWorkspace}]

ASSUME ArchiveAssumption == NoContent \notin ArchiveType

\* Every variable keeps its type; a backup has a directory to write to.
TypeOK ==
  /\ Files!TypeOK
  /\ home \in [Workspaces -> {"absent", "empty", "occupied"}]
  /\ origin \in [Workspaces -> Runs \cup {0}]
  /\ runs \in [Workspaces -> [Runs -> {"none", "running", "succeeded", "failed"}]]
  /\ dir \in [Workspaces -> Dirs \cup {NoDir}]
  /\ clock \in 0..MaxTime
  /\ taken \in 0..MaxRuns
  /\ stamp \in [Runs -> 0..MaxTime]
  /\ place \in [Runs -> Dirs \cup {NoDir}]
  /\ zips \in [Dirs -> SUBSET Runs]
  /\ content \in [Runs -> ArchiveType \cup {NoContent}]
  /\ op \in OpType
  /\ op.phase # "idle" => op.dest \in Dirs

\* A payload that is missing was in the trash when its workspace was backed up,
\* and is missing only in a workspace restored from that backup: no interleaving
\* of imports, deletions, backups, restores and crashes loses another one.
OnlyTrashIsLost ==
  \A w \in Workspaces : \A x \in Files!Recorded(w) \ files[w] :
    origin[w] # 0 /\ content[origin[w]].snap.status[x] = "trashed"

\* What a backup's snapshot names stays on the disk until it has been collected,
\* with imports, deletions and failed batches going on: in a workspace no restore
\* has made, a backup only fails for reasons outside the workspace.
SnapshotStaysCollectable ==
  op.phase = "collecting" /\ origin[current] = 0 => SnapLive(op.snap) \subseteq files[current]

\* The Keep newest successful backups of a workspace in a directory are there,
\* with crashes between an archive's removal and its row's, failed backups and
\* changes of the directory; "成功备份保留最近 10 份" (README.md).  It holds until a
\* workspace is restored: original and copy then list the same archives, and
\* what one of them prunes the other still lists.
RetainedBackupsExist ==
  (\A w \in Workspaces : origin[w] = 0) => \A w \in Workspaces, d \in Dirs :
    LET mine == {r \in Runs : runs[w][r] = "succeeded" /\ place[r] = d}
    IN \A r \in mine : Cardinality({s \in mine : Newer(stamp, s, r)}) < Keep => r \in zips[d]

\* While a backup removes older ones its own archive is in place, so a backup
\* that is reported as succeeded has not removed itself, and one that failed
\* removes nothing (ADR-008: failed backups never participate in retention).
\* It needs the new backup to be the latest by the wall clock, by which
\* pruneSuccessful ranks: once the clock has been set back behind Keep others,
\* a new backup does remove itself.
NewBackupSurvives ==
  /\ op.phase = "pruning"
  /\ \A r \in Runs : runs[current][r] = "succeeded" /\ place[r] = op.dest
                       => stamp[r] <= stamp[op.run]
  => op.run \in zips[op.dest]

\* An archive only disappears from a directory in which at least Keep others
\* remain, however many workspaces, crashes and failures there were.
RemovalLeavesEnough ==
  [][\A d \in Dirs : zips[d] \subseteq zips'[d] \/ Cardinality(zips'[d]) >= Keep]_vars

\* No restore touches the contents of a directory that has any: neither an
\* existing workspace nor files that appear while the archive is extracted.
RestoreOverwritesNothing ==
  [][\A w \in Workspaces : w # current /\ home[w] = "occupied" =>
       /\ home'[w] = "occupied"
       /\ UNCHANGED <<status[w], files[w], runs[w], dir[w]>>]_vars

\* An attachment in the trash can be brought back: what is live can be opened.
LiveAttachmentsHaveFiles == \A w \in Workspaces : Files!Live(w) \subseteq files[w]
=============================================================================
