----------------------------- MODULE Attachments -----------------------------
(***************************************************************************)
(* Managed attachments: attachment.Manager, and the part of RestoreTrash   *)
(* that brings an attachment back.                                         *)
(*                                                                         *)
(* An import copies each source to a temporary file, renames it to its     *)
(* final name, and records the whole batch in one transaction at the end;  *)
(* an error removes the files of the batch one by one.  Files and rows are *)
(* two stores without a common transaction, so every change of a file and  *)
(* every transaction is a step.  A cancelled context and an I/O error have *)
(* the same effect, a failure, which may come at any step.  The process    *)
(* may end between any two steps; it never looks for what it left behind.  *)
(***************************************************************************)
EXTENDS Naturals

CONSTANTS
  Workspaces,   \* workspace directories
  NoWorkspace,
  Items,        \* attachment identifiers, each issued once
  NoItem,
  Imports,      \* threads of control that import: handlers and jobs
  BatchLimit    \* sources in one import (20 in the code)

ASSUME AttachmentsAssumption ==
  /\ NoWorkspace \notin Workspaces
  /\ NoItem \notin Items
  /\ BatchLimit \in Nat \ {0}

VARIABLES
  current,   \* the workspace the process has open
  status,    \* each workspace's attachment rows: live, in the trash, or none
  files,     \* its files under attachments/, at their final names
  temps,     \* its payload.tmp files
  inherited, \* what earlier processes left in the open workspace without a row
  issued,    \* identifiers NewID has returned
  task       \* the local state of each import

vars == <<current, status, files, temps, inherited, issued, task>>

Idle     == [phase |-> "idle", left |-> 0, item |-> NoItem, targets |-> {}]
Fresh(n) == [phase |-> "copying", left |-> n, item |-> NoItem, targets |-> {}]

Phases == {"idle", "copying", "writing", "recording", "cleaning"}
TaskType == [phase : Phases, left : 0..BatchLimit, item : Items \cup {NoItem},
             targets : SUBSET Items]

Recorded(w) == {x \in Items : status[w][x] # "none"}
Live(w)     == {x \in Items : status[w][x] = "live"}

Init ==
  /\ current = NoWorkspace
  /\ status = [w \in Workspaces |-> [x \in Items |-> "none"]]
  /\ files = [w \in Workspaces |-> {}]
  /\ temps = [w \in Workspaces |-> {}]
  /\ inherited = {}
  /\ issued = {}
  /\ task = [i \in Imports |-> Idle]

-----------------------------------------------------------------------------
(* ImportWithProgress *)

\* An import is asked for; empty batches and batches over the limit are refused.
Begin(i) ==
  /\ current # NoWorkspace
  /\ task[i].phase = "idle"
  /\ \E n \in 1..BatchLimit : task' = [task EXCEPT ![i] = Fresh(n)]
  /\ UNCHANGED <<current, status, files, temps, inherited, issued>>

\* copyOne opens the source, takes an identifier and creates the temporary file.
CopyBegin(i) ==
  /\ task[i].phase = "copying" /\ task[i].left > 0
  /\ \E x \in Items \ issued :
       /\ issued' = issued \cup {x}
       /\ temps' = [temps EXCEPT ![current] = @ \cup {x}]
       /\ task' = [task EXCEPT ![i].phase = "writing", ![i].item = x]
  /\ UNCHANGED <<current, status, files, inherited>>

\* The copy is complete and synced: it is renamed and joins the targets.
CopyDone(i) ==
  LET x == task[i].item IN
  /\ task[i].phase = "writing"
  /\ temps' = [temps EXCEPT ![current] = @ \ {x}]
  /\ files' = [files EXCEPT ![current] = @ \cup {x}]
  /\ task' = [task EXCEPT ![i] = [phase |-> IF @.left = 1 THEN "recording" ELSE "copying",
                                  left |-> @.left - 1, item |-> NoItem,
                                  targets |-> @.targets \cup {x}]]
  /\ UNCHANGED <<current, status, inherited, issued>>

\* Mutant: a source that cannot be copied ends the import without cleanupTargets.
CopyFails_KeepsEarlier(i) ==
  /\ task[i].phase \in {"copying", "writing"}
  /\ temps' = [temps EXCEPT ![current] = @ \ {task[i].item}]
  /\ task' = [task EXCEPT ![i] = Idle]
  /\ UNCHANGED <<current, status, files, inherited, issued>>

\* The context is done, the source is unusable, or the copy fails: the temporary
\* file goes by copyOne's defer, the earlier targets by cleanupTargets.
CopyFails(i) ==
  /\ task[i].phase \in {"copying", "writing"}
  /\ temps' = [temps EXCEPT ![current] = @ \ {task[i].item}]
  /\ task' = [task EXCEPT ![i].phase = "cleaning", ![i].item = NoItem]
  /\ UNCHANGED <<current, status, files, inherited, issued>>

\* The transaction that inserts every row of the batch commits.
Record(i) ==
  /\ task[i].phase = "recording"
  /\ status' = [status EXCEPT ![current] =
                  [x \in Items |-> IF x \in task[i].targets THEN "live" ELSE @[x]]]
  /\ task' = [task EXCEPT ![i] = Idle]
  /\ UNCHANGED <<current, files, temps, inherited, issued>>

\* BeginTx, an insert or Commit returns an error: nothing is recorded.
RecordFails(i) ==
  /\ task[i].phase = "recording"
  /\ task' = [task EXCEPT ![i].phase = "cleaning"]
  /\ UNCHANGED <<current, status, files, temps, inherited, issued>>

\* cleanupTargets removes one file.
CleanOne(i) ==
  /\ task[i].phase = "cleaning"
  /\ \E x \in task[i].targets :
       /\ files' = [files EXCEPT ![current] = @ \ {x}]
       /\ task' = [task EXCEPT ![i].targets = @ \ {x}]
  /\ UNCHANGED <<current, status, temps, inherited, issued>>

\* Every target is gone and the import returns its error.
CleanDone(i) ==
  /\ task[i].phase = "cleaning" /\ task[i].targets = {}
  /\ task' = [task EXCEPT ![i] = Idle]
  /\ UNCHANGED <<current, status, files, temps, inherited, issued>>

-----------------------------------------------------------------------------
(* The trash *)

\* Mutant: Delete removes the payload together with the live row.
Delete_RemovesFile(x) ==
  /\ current # NoWorkspace
  /\ status[current][x] = "live"
  /\ status' = [status EXCEPT ![current][x] = "trashed"]
  /\ files' = [files EXCEPT ![current] = @ \ {x}]
  /\ UNCHANGED <<current, temps, inherited, issued, task>>

\* Delete marks the live row and adds the trash entry; the file stays.
Delete(x) ==
  /\ current # NoWorkspace
  /\ status[current][x] = "live"
  /\ status' = [status EXCEPT ![current][x] = "trashed"]
  /\ UNCHANGED <<current, files, temps, inherited, issued, task>>

\* RestoreTrash clears deleted_at and removes the entry, without a look at the file.
RestoreTrash(x) ==
  /\ current # NoWorkspace
  /\ status[current][x] = "trashed"
  /\ status' = [status EXCEPT ![current][x] = "live"]
  /\ UNCHANGED <<current, files, temps, inherited, issued, task>>

-----------------------------------------------------------------------------
(* The process *)

\* The process ends, by an exit or a crash, wherever its imports are.
Stop ==
  /\ current # NoWorkspace
  /\ current' = NoWorkspace
  /\ inherited' = {}
  /\ task' = [i \in Imports |-> Idle]
  /\ UNCHANGED <<status, files, temps, issued>>

\* The next process opens a workspace; nothing looks for orphaned files.
Open(w) ==
  /\ current = NoWorkspace
  /\ current' = w
  /\ inherited' = (files[w] \cup temps[w]) \ Recorded(w)
  /\ UNCHANGED <<status, files, temps, issued, task>>

ImportStep(i) ==
  \/ Begin(i) \/ CopyBegin(i) \/ CopyDone(i) \/ CopyFails(i)
  \/ Record(i) \/ RecordFails(i) \/ CleanOne(i) \/ CleanDone(i)

Step ==
  \/ \E i \in Imports : ImportStep(i)
  \/ \E x \in Items : Delete(x) \/ RestoreTrash(x)

Next == Step \/ Stop \/ \E w \in Workspaces : Open(w)

Spec == Init /\ [][Next]_vars

-----------------------------------------------------------------------------
(* Properties *)

\* Every variable keeps its type.
TypeOK ==
  /\ current \in Workspaces \cup {NoWorkspace}
  /\ status \in [Workspaces -> [Items -> {"none", "live", "trashed"}]]
  /\ files \in [Workspaces -> SUBSET Items]
  /\ temps \in [Workspaces -> SUBSET Items]
  /\ inherited \subseteq Items
  /\ issued \subseteq Items
  /\ task \in [Imports -> TaskType]

\* A row, live or in the trash, always has its payload at its final name: the
\* files of a batch are in place before its transaction and no cleanup, however
\* it interleaves with other imports and with deletions, reaches a recorded one.
\* OpenTarget and the backups rely on it.
RecordsHaveFiles == \A w \in Workspaces : Recorded(w) \subseteq files[w]

\* What a process leaves on the disk without a row belongs to an import that is
\* still running; a failed batch takes all its files with it
\* (TestManagedAttachmentBatchFailureRemovesEarlierFilesAndRows).  Only the end
\* of a process leaves orphans.
FailuresLeaveNothing ==
  current # NoWorkspace =>
    (files[current] \cup temps[current]) \ Recorded(current)
      \subseteq inherited \cup UNION {task[i].targets \cup {task[i].item} : i \in Imports}
=============================================================================
