-------------------------- MODULE WorkspaceRegistry --------------------------
(***************************************************************************)
(* The host's list of recent workspaces (WorkspaceRegistry), the most      *)
(* recent first, and the three files that replace_file moves it through.   *)
(*                                                                         *)
(* record writes the new list to a temporary file, moves the old file      *)
(* aside and the new one in.  The host may be killed between any two of    *)
(* these and reads the file, or else the backup, when it starts again.     *)
(***************************************************************************)
EXTENDS Naturals, Sequences

CONSTANTS
  Workspaces,  \* directories
  MaxEntries,  \* ten in the code
  MaxRecords, MaxMishaps \* bounds

ASSUME RegistryAssumption == MaxEntries \in Nat \ {0}

VARIABLES
  entries,     \* the list in memory
  file, backup, temporary, \* workspaces.json, .json.bak and .json.tmp: the set of
                           \* the list in it, empty when there is no such file
  at,          \* what the host does: see Steps
  target,      \* the list that record writes
  saved,       \* the list as the last record, or the last start, left it
  mishaps,     \* kills and failures since then
  records      \* calls of record so far

files == <<file, backup, temporary>>
registryVars == <<entries, files, at, target, saved, mishaps, records>>

\* down; up and idle; record before the temporary file is written, before the
\* old backup goes, before the file is moved aside (old), before the new one is
\* moved in with the old one aside (aside) or without one (bare), and before
\* the backup goes.
Steps == {"down", "idle", "write", "clear", "old", "aside", "bare", "done"}

\* What initialize reads.
OnDisk ==
  LET read == IF file # {} THEN file ELSE backup
  IN  IF read = {} THEN <<>> ELSE CHOOSE list \in read : TRUE

Newest(list, n) == SubSeq(list, 1, IF Len(list) < n THEN Len(list) ELSE n)

\* Directories that are away are left out, of memory only.
Initialize ==
  /\ at = "down"
  /\ \E there \in SUBSET Workspaces :
       entries' = Newest(SelectSeq(OnDisk, LAMBDA w : w \in there), MaxEntries)
  /\ at' = "idle"
  /\ saved' = OnDisk
  /\ UNCHANGED <<files, target, mishaps, records>>

RegistryInit ==
  /\ entries = <<>> /\ saved = <<>> /\ target = <<>>
  /\ file = {} /\ backup = {} /\ temporary = {}
  /\ at = "down"
  /\ mishaps = 0 /\ records = 0

Recorded(w) == Newest(<<w>> \o SelectSeq(entries, LAMBDA v : v # w), MaxEntries)

Record ==
  /\ at = "idle" /\ records < MaxRecords
  /\ \E w \in Workspaces : target' = Recorded(w)
  /\ at' = "write"
  /\ records' = records + 1
  /\ UNCHANGED <<entries, files, saved, mishaps>>

Write ==
  /\ at = "write" /\ at' = "clear"
  /\ temporary' = {target}
  /\ UNCHANGED <<entries, file, backup, target, saved, mishaps, records>>

\* Removals of the backup may fail unnoticed.
ClearBackup ==
  /\ at = "clear" /\ at' = IF file # {} THEN "old" ELSE "bare"
  /\ backup' \in {{}, backup}
  /\ UNCHANGED <<entries, file, temporary, target, saved, mishaps, records>>

MoveAside ==
  /\ at = "old" /\ at' = "aside"
  /\ backup' = file /\ file' = {}
  /\ UNCHANGED <<entries, temporary, target, saved, mishaps, records>>

\* Mutant: the new file stays where it was written.
MoveIn_Unmoved ==
  /\ at \in {"aside", "bare"} /\ at' = "done"
  /\ temporary' = {}
  /\ UNCHANGED <<entries, file, backup, target, saved, mishaps, records>>

MoveIn ==
  /\ at \in {"aside", "bare"} /\ at' = "done"
  /\ file' = temporary /\ temporary' = {}
  /\ UNCHANGED <<entries, backup, target, saved, mishaps, records>>

\* The list in memory follows the file.
Finish ==
  /\ at = "done" /\ at' = "idle"
  /\ backup' \in {{}, backup}
  /\ entries' = target /\ saved' = target
  /\ mishaps' = 0
  /\ UNCHANGED <<file, temporary, target, records>>

Mishap == mishaps < MaxMishaps /\ mishaps' = mishaps + 1

\* A file cannot be written or moved: the one that was moved aside is moved back,
\* if it can be, and record fails.
RecordFails ==
  /\ at \in {"write", "old", "aside", "bare"} /\ at' = "idle"
  /\ \/ /\ at = "aside" /\ file' = backup /\ backup' = {}
     \/ UNCHANGED <<file, backup>>
  /\ Mishap
  /\ UNCHANGED <<entries, temporary, target, saved, records>>

Killed ==
  /\ at # "down" /\ at' = "down"
  /\ entries' = <<>>
  /\ Mishap
  /\ UNCHANGED <<files, target, saved, records>>

RegistryNext ==
  \/ Initialize \/ Record \/ Write \/ ClearBackup \/ MoveAside \/ MoveIn \/ Finish
  \/ RecordFails \/ Killed

RegistrySpec == RegistryInit /\ [][RegistryNext]_registryVars

-----------------------------------------------------------------------------
(* Properties *)

RegistryTypeOK ==
  /\ {entries, target, saved} \subseteq Seq(Workspaces)
  /\ \A kept \in {file, backup, temporary} : kept = {} \/ \E list \in Seq(Workspaces) : kept = {list}
  /\ at \in Steps
  /\ mishaps \in Nat /\ records \in Nat

\* Between two calls of record, and after one kill or one failure at any point of
\* it, the files hold the list as it was or as it was to be: replace_file never
\* has the only copy in a place that initialize does not read.
RecentWorkspacesSurvive ==
  at \in {"down", "idle"} /\ mishaps <= 1 => OnDisk \in {saved, target}

=============================================================================
