-------------------------- MODULE AttachmentsProofs --------------------------
(***************************************************************************)
(* Proofs about Attachments, for any number of workspaces, attachments,    *)
(* imports and sources in a batch.                                         *)
(*                                                                         *)
(* RecordsHaveFiles is not inductive: a cleanup removes files, and nothing *)
(* in it says that they have no row.  OwnInv says that the targets of an   *)
(* import are on the disk, are without a row, and belong to it alone; that *)
(* in turn rests on identifiers being issued once.  Under OwnInv no step   *)
(* takes a row, or the file of a row, so that what is missing in a         *)
(* workspace was missing when it came into being.                          *)
(***************************************************************************)
EXTENDS Attachments, TLAPS

(* What one import owns. *)
Owns(i) ==
  /\ task[i].targets \subseteq issued
  /\ task[i].item # NoItem => task[i].item \in issued
  /\ task[i].phase # "idle" => current # NoWorkspace
  /\ task[i].phase \in {"idle"} => task[i].targets = {} /\ task[i].item = NoItem
  /\ task[i].phase = "writing" <=> task[i].item # NoItem
  /\ task[i].phase = "writing" => task[i].left > 0
  /\ current # NoWorkspace =>
       /\ task[i].targets \subseteq files[current] \ Recorded(current)
       /\ task[i].item \notin Recorded(current)

(* Two imports have nothing in common. *)
Apart(i, j) ==
  /\ task[i].targets \cap task[j].targets = {}
  /\ task[i].item \notin task[j].targets
  /\ task[i].item = task[j].item => task[i].item = NoItem

OwnInv ==
  /\ TypeOK
  /\ \A w \in Workspaces : Recorded(w) \subseteq issued
  /\ \A i \in Imports : Owns(i)
  /\ \A i, j \in Imports : i # j => Apart(i, j)

FilesInv == OwnInv /\ RecordsHaveFiles

(* A step takes no row, and makes no row whose payload is missing.            *)
NothingLost ==
  \A w \in Workspaces :
    /\ Recorded(w) \subseteq Recorded(w)'
    /\ Recorded(w)' \ files'[w] \subseteq Recorded(w) \ files[w]

-----------------------------------------------------------------------------
(* Types *)

LEMMA InitTypes == Init => TypeOK
BY AttachmentsAssumption DEF Init, TypeOK, Idle, TaskType, Phases

LEMMA IdleType == Idle \in TaskType
BY AttachmentsAssumption DEF Idle, TaskType, Phases

\* What a step writes to an import's local state has its type.
LEMMA ImportTypes ==
  ASSUME TypeOK, \A i \in Imports : Owns(i), NEW i \in Imports, ImportStep(i)
  PROVE  TypeOK'
<1> DEFINE t == task[i]
<1>0. /\ t \in TaskType
      /\ task \in [Imports -> TaskType]
      /\ t.phase \in Phases /\ t.left \in 0..BatchLimit
      /\ t.item \in Items \cup {NoItem} /\ t.targets \in SUBSET Items
  BY DEF TypeOK, TaskType
<1>a. ASSUME NEW v \in TaskType, task' = [task EXCEPT ![i] = v]
      PROVE  task' \in [Imports -> TaskType]
  BY <1>0, <1>a
<1>b. ASSUME t.phase \in {"writing"} PROVE t.left > 0 /\ t.item \in Items /\ current \in Workspaces
  BY <1>b, <1>0 DEF Owns, TypeOK
<1>1. CASE Begin(i)
  <2>1. PICK n \in 1..BatchLimit :
          task' = [task EXCEPT ![i] = Fresh(n)]
    BY <1>1 DEF Begin
  <2>2. n \in 0..BatchLimit
    BY AttachmentsAssumption
  <2>3. Fresh(n) \in TaskType
    BY <2>2 DEF Fresh, TaskType, Phases
  <2>4. QED BY <1>1, <1>a, <2>1, <2>3 DEF TypeOK, Begin
<1>2. CASE CopyBegin(i)
  <2>1. PICK x \in Items :
          /\ issued' = issued \cup {x}
          /\ temps' = [temps EXCEPT ![current] = @ \cup {x}]
          /\ task' = [task EXCEPT ![i] = [t EXCEPT !.phase = "writing", !.item = x]]
    BY <1>2, <1>0 DEF CopyBegin
  <2>2. [t EXCEPT !.phase = "writing", !.item = x] \in TaskType
    BY <1>0 DEF TaskType, Phases
  <2>3. QED BY <1>2, <1>a, <2>1, <2>2 DEF TypeOK, CopyBegin
<1>3. CASE CopyDone(i)
  <2> DEFINE v == [phase |-> IF t.left = 1 THEN "recording" ELSE "copying",
                   left |-> t.left - 1, item |-> NoItem, targets |-> t.targets \cup {t.item}]
  <2>1. task' = [task EXCEPT ![i] = v]
    BY <1>3, <1>0 DEF CopyDone
  <2>2. t.left - 1 \in 0..BatchLimit /\ t.targets \cup {t.item} \in SUBSET Items
    BY <1>3, <1>0, <1>b, AttachmentsAssumption DEF CopyDone
  <2>3. v \in TaskType
    BY <2>2 DEF TaskType, Phases
  <2>4. task' \in [Imports -> TaskType]
    BY <2>1, <2>3, <1>a
  <2>5. temps' \in [Workspaces -> SUBSET Items] /\ files' \in [Workspaces -> SUBSET Items]
    BY <1>3, <1>b DEF CopyDone, TypeOK
  <2>6. QED BY <1>3, <2>4, <2>5 DEF TypeOK, CopyDone
<1>4. CASE CopyFails(i)
  <2>1. task' = [task EXCEPT ![i] = [t EXCEPT !.phase = "cleaning", !.item = NoItem]]
    BY <1>4, <1>0 DEF CopyFails
  <2>2. [t EXCEPT !.phase = "cleaning", !.item = NoItem] \in TaskType
    BY <1>0 DEF TaskType, Phases
  <2>3. QED BY <1>4, <1>a, <2>1, <2>2 DEF TypeOK, CopyFails
<1>5. CASE Record(i)
  BY <1>5, <1>a, IdleType DEF TypeOK, Record
<1>6. CASE RecordFails(i)
  <2>1. task' = [task EXCEPT ![i] = [t EXCEPT !.phase = "cleaning"]]
    BY <1>6, <1>0 DEF RecordFails
  <2>2. [t EXCEPT !.phase = "cleaning"] \in TaskType
    BY <1>0 DEF TaskType, Phases
  <2>3. QED BY <1>6, <1>a, <2>1, <2>2 DEF TypeOK, RecordFails
<1>7. CASE CleanOne(i)
  <2>1. PICK x \in t.targets :
          /\ files' = [files EXCEPT ![current] = @ \ {x}]
          /\ task' = [task EXCEPT ![i] = [t EXCEPT !.targets = @ \ {x}]]
    BY <1>7, <1>0 DEF CleanOne
  <2>2. [t EXCEPT !.targets = @ \ {x}] \in TaskType
    BY <1>0 DEF TaskType
  <2>3. QED BY <1>7, <1>a, <2>1, <2>2 DEF TypeOK, CleanOne
<1>8. CASE CleanDone(i)
  BY <1>8, <1>a, IdleType DEF TypeOK, CleanDone
<1>9. QED BY <1>1, <1>2, <1>3, <1>4, <1>5, <1>6, <1>7, <1>8 DEF ImportStep

LEMMA NextTypes ==
  ASSUME TypeOK, \A i \in Imports : Owns(i), [Next]_vars
  PROVE  TypeOK'
<1> USE AttachmentsAssumption
<1>1. CASE \E i \in Imports : ImportStep(i)
  BY <1>1, ImportTypes
<1>2. CASE \E x \in Items : Delete(x) \/ RestoreTrash(x)
  <2>1. PICK x \in Items : Delete(x) \/ RestoreTrash(x)
    BY <1>2
  <2>2. \/ status' = [status EXCEPT ![current][x] = "trashed"]
        \/ status' = [status EXCEPT ![current][x] = "live"]
    BY <2>1 DEF Delete, RestoreTrash
  <2>3. status' \in [Workspaces -> [Items -> {"none", "live", "trashed"}]]
    BY <2>2 DEF TypeOK
  <2>4. QED BY <2>1, <2>3 DEF TypeOK, Delete, RestoreTrash
<1>3. CASE Stop
  BY <1>3 DEF TypeOK, Stop, Idle, TaskType, Phases
<1>4. CASE \E w \in Workspaces : Open(w)
  BY <1>4 DEF TypeOK, Open
<1>5. CASE UNCHANGED vars
  BY <1>5 DEF TypeOK, vars
<1>6. QED BY <1>1, <1>2, <1>3, <1>4, <1>5 DEF Next, Step

-----------------------------------------------------------------------------
(* Files and rows *)

LEMMA InitFiles == Init => FilesInv
BY InitTypes DEF Init, FilesInv, OwnInv, RecordsHaveFiles, Recorded, Owns, Apart, Idle

\* A step of one import keeps every import's files its own.
LEMMA ImportFiles ==
  ASSUME OwnInv, NEW i \in Imports, ImportStep(i)
  PROVE  OwnInv' /\ NothingLost
<1> DEFINE t == task[i]
<1>0. /\ TypeOK' /\ current' = current
      /\ \A j \in Imports : Owns(j)
      /\ \A j, k \in Imports : j # k => Apart(j, k)
      /\ \A w \in Workspaces : Recorded(w) \subseteq issued
  BY ImportTypes DEF OwnInv, ImportStep, Begin, CopyBegin, CopyDone, CopyFails, Record,
     RecordFails, CleanOne, CleanDone
<1>t. /\ task \in [Imports -> TaskType] /\ t \in TaskType
      /\ \A j \in Imports : task[j].targets \subseteq Items /\ task[j].item \in Items \cup {NoItem}
  BY DEF OwnInv, TypeOK, TaskType
<1>c. current \in Workspaces
  BY DEF OwnInv, TypeOK, ImportStep, Begin, CopyBegin, CopyDone, CopyFails, Record,
     RecordFails, CleanOne, CleanDone, Owns
<1>d. /\ status \in [Workspaces -> [Items -> {"none", "live", "trashed"}]]
      /\ files \in [Workspaces -> SUBSET Items]
  BY DEF OwnInv, TypeOK
<1>n. NoItem \notin Items
  BY AttachmentsAssumption
\* A step that leaves rows and files alone and takes nothing new.
<1>s. ASSUME UNCHANGED <<status, files>>, issued \subseteq issued',
             NEW v, task' = [task EXCEPT ![i] = v],
             v.targets \subseteq t.targets,
             v.item \in {t.item, NoItem} \cup (Items \ issued),
             v.item # NoItem => v.item \in issued',
             v.phase = "idle" => v.targets = {} /\ v.item = NoItem,
             v.phase = "writing" <=> v.item # NoItem,
             v.phase = "writing" => v.left > 0
      PROVE  OwnInv' /\ NothingLost
  <2>1. \A w \in Workspaces : Recorded(w)' = Recorded(w)
    BY <1>s DEF Recorded
  <2>2. task'[i] = v /\ \A j \in Imports \ {i} : task'[j] = task[j]
    BY <1>s, <1>t
  <2>3. Owns(i)'
    <3>1. /\ t.targets \subseteq issued /\ t.targets \subseteq files[current] \ Recorded(current)
          /\ t.item # NoItem => t.item \in issued
          /\ t.item \notin Recorded(current) /\ NoItem \notin Recorded(current)
          /\ Recorded(current) \subseteq issued /\ current # NoWorkspace
      BY <1>0, <1>c, <1>n, AttachmentsAssumption DEF Owns, Recorded
    <3>2. v.targets \subseteq issued' /\ v.targets \subseteq files'[current'] \ Recorded(current)
      BY <1>s, <3>1, <1>0
    <3>3. v.item \notin Recorded(current)
      BY <1>s, <3>1
    <3>4. Recorded(current)' = Recorded(current)
      BY <1>0, <1>c, <2>1
    <3>5. QED BY <1>0, <1>s, <2>2, <3>1, <3>2, <3>3, <3>4 DEF Owns
  <2>4. \A j \in Imports \ {i} : Owns(j)'
    BY <1>0, <1>c, <1>s, <2>1, <2>2 DEF Owns
  <2>5. \A j \in Imports \ {i} : Apart(i, j)' /\ Apart(j, i)'
    <3> TAKE j \in Imports \ {i}
    <3>1. /\ Apart(i, j) /\ Apart(j, i)
          /\ task[j].targets \subseteq issued
          /\ task[j].item # NoItem => task[j].item \in issued
          /\ NoItem \notin t.targets /\ NoItem \notin task[j].targets
          /\ t.targets \subseteq issued
      BY <1>0, <1>t, <1>n DEF Owns
    <3>2. QED BY <1>s, <2>2, <3>1 DEF Apart
  <2>6. \A j, k \in Imports \ {i} : j # k => Apart(j, k)'
    BY <1>0, <2>2 DEF Apart
  <2>7. NothingLost /\ \A w \in Workspaces : Recorded(w)' \subseteq issued'
    BY <1>0, <1>s, <2>1 DEF NothingLost
  <2>8. QED BY <1>0, <2>3, <2>4, <2>5, <2>6, <2>7 DEF OwnInv
<1>1. CASE Begin(i)
  <2>1. PICK n \in 1..BatchLimit :
          task' = [task EXCEPT ![i] = Fresh(n)]
    BY <1>1 DEF Begin
  <2>2. QED BY <1>1, <1>s, <2>1 DEF Begin, Fresh
<1>2. CASE CopyBegin(i)
  <2>1. PICK x \in Items \ issued :
          /\ issued' = issued \cup {x}
          /\ task' = [task EXCEPT ![i] = [t EXCEPT !.phase = "writing", !.item = x]]
    BY <1>2, <1>t DEF CopyBegin
  <2> DEFINE v == [t EXCEPT !.phase = "writing", !.item = x]
  <2>2. v.targets = t.targets /\ v.item = x /\ v.phase = "writing" /\ v.left = t.left
    BY <1>t DEF TaskType
  <2>3. task' = [task EXCEPT ![i] = v]
    BY <2>1
  <2> HIDE DEF v
  <2>4. UNCHANGED <<status, files>> /\ t.left > 0
    BY <1>2 DEF CopyBegin
  <2>5. issued \subseteq issued' /\ x \in issued' /\ x # NoItem
    BY <1>n, <2>1
  <2>6. QED BY <1>s, <2>2, <2>3, <2>4, <2>5
<1>3. CASE CopyDone(i)
  <2> DEFINE x == t.item
             v == [phase |-> IF t.left = 1 THEN "recording" ELSE "copying",
                   left |-> t.left - 1, item |-> NoItem, targets |-> t.targets \cup {x}]
  <2>1. /\ task' = [task EXCEPT ![i] = v] /\ UNCHANGED <<status, issued>>
        /\ files' = [files EXCEPT ![current] = @ \cup {x}]
    BY <1>3, <1>t DEF CopyDone
  <2>2. x \in Items /\ x \in issued /\ x \notin Recorded(current) /\ x # NoItem
    BY <1>0, <1>3, <1>c, <1>t DEF CopyDone, Owns, OwnInv, TypeOK
  <2>3. \A w \in Workspaces : Recorded(w)' = Recorded(w)
    BY <2>1 DEF Recorded
  <2>4. /\ task'[i].targets = t.targets \cup {x} /\ task'[i].item = NoItem
        /\ task'[i].phase \in {"recording", "copying"}
        /\ \A k \in Imports \ {i} : task'[k] = task[k]
    BY <2>1, <1>t
  <2> HIDE DEF x
  <2>5. Owns(i)'
    <3>1. /\ t.targets \subseteq issued /\ t.targets \subseteq files[current] \ Recorded(current)
          /\ current # NoWorkspace /\ NoItem \notin Recorded(current)
      BY <1>0, <1>c, <1>n, AttachmentsAssumption DEF Owns, Recorded
    <3>2. files'[current] = files[current] \cup {x}
      BY <1>c, <1>d, <2>1
    <3>3. Recorded(current)' = Recorded(current)
      BY <1>0, <1>c, <2>3
    <3>4. QED BY <1>0, <2>1, <2>2, <2>4, <3>1, <3>2, <3>3 DEF Owns
  <2>6. \A k \in Imports \ {i} : Owns(k)'
    BY <1>0, <1>c, <1>d, <2>1, <2>3, <2>4 DEF Owns
  <2>7. \A k \in Imports \ {i} : Apart(i, k)' /\ Apart(k, i)'
    BY <1>0, <1>t, <1>n, <2>2, <2>4 DEF Apart, x
  <2>8. \A k, m \in Imports \ {i} : k # m => Apart(k, m)'
    BY <1>0, <2>4 DEF Apart
  <2>9. NothingLost /\ \A w \in Workspaces : Recorded(w)' \subseteq issued'
    BY <1>0, <1>d, <2>1, <2>3 DEF NothingLost
  <2>10. QED BY <1>0, <2>5, <2>6, <2>7, <2>8, <2>9 DEF OwnInv
<1>4. CASE CopyFails(i)
  <2> DEFINE v == [t EXCEPT !.phase = "cleaning", !.item = NoItem]
  <2>1. task' = [task EXCEPT ![i] = v] /\ UNCHANGED <<status, files, issued>>
    BY <1>4, <1>t DEF CopyFails
  <2>2. v.targets = t.targets /\ v.item = NoItem /\ v.phase = "cleaning"
    BY <1>t DEF TaskType
  <2> HIDE DEF v
  <2>3. QED BY <1>s, <2>1, <2>2
<1>5. CASE Record(i)
  <2>1. /\ task' = [task EXCEPT ![i] = Idle] /\ UNCHANGED <<files, issued>>
        /\ status' = [status EXCEPT ![current] =
             [x \in Items |-> IF x \in t.targets THEN "live" ELSE @[x]]]
    BY <1>5 DEF Record
  <2>2. /\ Recorded(current)' = Recorded(current) \cup t.targets
        /\ \A w \in Workspaces \ {current} : Recorded(w)' = Recorded(w)
    <3>1. current' = current
      BY <1>0
    <3>2. \A y \in Items : status'[current][y] = IF y \in t.targets THEN "live" ELSE status[current][y]
      BY <1>c, <1>d, <2>1
    <3>3. \A w \in Workspaces \ {current} : status'[w] = status[w]
      BY <1>c, <1>d, <2>1
    <3>4. QED BY <1>t, <3>1, <3>2, <3>3 DEF Recorded
  <2>3. task'[i] = Idle /\ \A k \in Imports \ {i} : task'[k] = task[k]
    BY <2>1, <1>t
  <2>4. t.targets \subseteq files[current] /\ t.targets \subseteq issued
    BY <1>0, <1>c, AttachmentsAssumption DEF Owns
  <2>5. NoItem \notin Recorded(current)'
    BY <1>n, <1>t, <2>2 DEF Recorded
  <2>6. Owns(i)'
    BY <1>0, <2>3, <2>5 DEF Owns, Idle
  <2>7. \A k \in Imports \ {i} : Owns(k)'
    BY <1>0, <1>c, <2>1, <2>2, <2>3 DEF Owns, Apart
  <2>8. \A k \in Imports \ {i} : Apart(i, k)' /\ Apart(k, i)'
    BY <1>n, <1>t, <2>3 DEF Apart, Idle
  <2>9. \A k, m \in Imports \ {i} : k # m => Apart(k, m)'
    BY <1>0, <2>3 DEF Apart
  <2>10. NothingLost /\ \A w \in Workspaces : Recorded(w)' \subseteq issued'
    BY <1>0, <1>c, <2>1, <2>2, <2>4 DEF NothingLost
  <2>11. QED BY <1>0, <2>6, <2>7, <2>8, <2>9, <2>10 DEF OwnInv
<1>6. CASE RecordFails(i)
  <2> DEFINE v == [t EXCEPT !.phase = "cleaning"]
  <2>1. task' = [task EXCEPT ![i] = v] /\ UNCHANGED <<status, files, issued>> /\ t.item = NoItem
    BY <1>6, <1>0, <1>t DEF RecordFails, Owns
  <2>2. v.targets = t.targets /\ v.item = NoItem /\ v.phase = "cleaning"
    BY <1>t, <2>1 DEF TaskType
  <2> HIDE DEF v
  <2>3. QED BY <1>s, <2>1, <2>2
<1>7. CASE CleanOne(i)
  <2>1. PICK x \in t.targets :
          /\ files' = [files EXCEPT ![current] = @ \ {x}]
          /\ task' = [task EXCEPT ![i] = [t EXCEPT !.targets = @ \ {x}]]
    BY <1>7, <1>t DEF CleanOne
  <2>2. UNCHANGED <<status, issued>> /\ t.phase = "cleaning"
    BY <1>7 DEF CleanOne
  <2>3. \A w \in Workspaces : Recorded(w)' = Recorded(w)
    BY <2>2 DEF Recorded
  <2>4. /\ task'[i].targets = t.targets \ {x} /\ task'[i].item = t.item /\ task'[i].phase = t.phase
        /\ \A k \in Imports \ {i} : task'[k] = task[k]
    BY <2>1, <1>t DEF TaskType
  <2>5. x \notin Recorded(current) /\ \A k \in Imports \ {i} : x \notin task[k].targets
    BY <1>0, <1>c, AttachmentsAssumption DEF Owns, Apart
  <2>6. Owns(i)'
    BY <1>0, <1>c, <1>d, <2>1, <2>2, <2>3, <2>4 DEF Owns
  <2>7. \A k \in Imports \ {i} : Owns(k)'
    BY <1>0, <1>c, <1>d, <2>1, <2>2, <2>3, <2>4, <2>5 DEF Owns
  <2>8. \A k, m \in Imports : k # m => Apart(k, m)'
    BY <1>0, <2>4 DEF Apart
  <2>9. NothingLost /\ \A w \in Workspaces : Recorded(w)' \subseteq issued'
    BY <1>0, <1>c, <1>d, <2>1, <2>2, <2>3, <2>5 DEF NothingLost
  <2>10. QED BY <1>0, <2>6, <2>7, <2>8, <2>9 DEF OwnInv
<1>8. CASE CleanDone(i)
  BY <1>8, <1>s DEF CleanDone, Idle
<1>9. QED BY <1>1, <1>2, <1>3, <1>4, <1>5, <1>6, <1>7, <1>8 DEF ImportStep

LEMMA NextOwn ==
  ASSUME OwnInv, [Next]_vars
  PROVE  OwnInv' /\ NothingLost
<1>0. TypeOK'
  BY NextTypes DEF OwnInv
<1>1. CASE \E i \in Imports : ImportStep(i)
  BY <1>1, ImportFiles
<1>2. CASE \E x \in Items : Delete(x) \/ RestoreTrash(x)
  <2>1. PICK x \in Items : Delete(x) \/ RestoreTrash(x)
    BY <1>2
  <2>2. \A w \in Workspaces : Recorded(w)' = Recorded(w)
    <3>1. PICK v \in {"live", "trashed"} : status' = [status EXCEPT ![current][x] = v]
      BY <2>1 DEF Delete, RestoreTrash
    <3>2. status[current][x] # "none"
      BY <2>1 DEF Delete, RestoreTrash
    <3>3. \A w \in Workspaces, y \in Items : status'[w][y] # "none" <=> status[w][y] # "none"
      BY <3>1, <3>2 DEF OwnInv, TypeOK
    <3>4. QED BY <3>3 DEF Recorded
  <2>3. UNCHANGED <<current, files, temps, issued, task>>
    BY <2>1 DEF Delete, RestoreTrash
  <2>4. current \in Workspaces
    BY <2>1 DEF OwnInv, TypeOK, Delete, RestoreTrash
  <2>5. QED BY <1>0, <2>2, <2>3, <2>4 DEF OwnInv, NothingLost, Owns, Apart
<1>3. CASE Stop
  <2>1. \A w \in Workspaces : Recorded(w)' = Recorded(w)
    BY <1>3 DEF Stop, Recorded
  <2>2. QED BY <1>0, <1>3, <2>1 DEF OwnInv, NothingLost, Owns, Apart, Stop, Idle
<1>4. CASE \E w \in Workspaces : Open(w)
  <2>1. \A w \in Workspaces : Recorded(w)' = Recorded(w)
    BY <1>4 DEF Open, Recorded
  <2>2. \A i \in Imports : task[i].phase = "idle"
    BY <1>4 DEF Open, OwnInv, Owns
  <2>3. \A w \in Workspaces : NoItem \notin Recorded(w)
    BY AttachmentsAssumption DEF Recorded
  <2>4. QED BY <1>0, <1>4, <2>1, <2>2, <2>3 DEF OwnInv, NothingLost, Owns, Apart, Open
<1>5. CASE UNCHANGED vars
  BY <1>5 DEF OwnInv, TypeOK, NothingLost, Recorded, Owns, Apart, vars
<1>6. QED BY <1>1, <1>2, <1>3, <1>4, <1>5 DEF Next, Step

LEMMA NextFiles ==
  ASSUME FilesInv, [Next]_vars
  PROVE  FilesInv'
BY NextOwn DEF FilesInv, NothingLost, RecordsHaveFiles

\* TypeOK is an invariant: every variable of Attachments keeps its type.
THEOREM AttachmentTypes == Spec => []TypeOK
<1>1. FilesInv => TypeOK
  BY DEF FilesInv, OwnInv
<1>2. QED BY InitFiles, NextFiles, <1>1, PTL DEF Spec

\* RecordsHaveFiles is an invariant: attachment.Manager never leaves a row
\* without its payload, for any number of concurrent imports.
THEOREM RecordsAlwaysHaveFiles == Spec => []RecordsHaveFiles
<1>1. FilesInv => RecordsHaveFiles
  BY DEF FilesInv, OwnInv
<1>2. QED BY InitFiles, NextFiles, <1>1, PTL DEF Spec
-----------------------------------------------------------------------------
(* What failures leave *)

(* A payload is under its temporary name while it is copied and under its     *)
(* final one once it is a target, never under both.                           *)
Placed(i) ==
  current # NoWorkspace =>
    /\ task[i].item \notin files[current]
    /\ task[i].targets \cap temps[current] = {}

LeftoverInv ==
  /\ FilesInv
  /\ \A w \in Workspaces : files[w] \cup temps[w] \subseteq issued
  /\ \A i \in Imports : Placed(i)
  /\ FailuresLeaveNothing

LEMMA InitLeftovers == Init => LeftoverInv
BY InitFiles DEF Init, LeftoverInv, Placed, FailuresLeaveNothing

\* FailuresLeaveNothing, said of one payload at a time.
LEMMA Leftovers ==
  FailuresLeaveNothing <=>
    (current # NoWorkspace =>
       \A x \in (files[current] \cup temps[current]) \ Recorded(current) :
         x \in inherited \/ \E i \in Imports : x \in task[i].targets \/ x = task[i].item)
BY DEF FailuresLeaveNothing

LEMMA ImportLeftovers ==
  ASSUME LeftoverInv, NEW i \in Imports, ImportStep(i), FilesInv'
  PROVE  LeftoverInv'
<1> DEFINE t == task[i]
           Kept(x) == x \in inherited \/ \E k \in Imports : x \in task[k].targets \/ x = task[k].item
<1>0. /\ current' = current /\ inherited' = inherited
      /\ \A k \in Imports : Owns(k) /\ Placed(k)
      /\ \A k, m \in Imports : k # m => Apart(k, m)
      /\ \A w \in Workspaces : files[w] \cup temps[w] \subseteq issued
  BY DEF LeftoverInv, FilesInv, OwnInv, ImportStep, Begin, CopyBegin, CopyDone, CopyFails, Record,
     RecordFails, CleanOne, CleanDone
<1>t. /\ task \in [Imports -> TaskType] /\ t \in TaskType
      /\ \A k \in Imports : task[k].targets \subseteq Items /\ task[k].item \in Items \cup {NoItem}
      /\ files \in [Workspaces -> SUBSET Items] /\ temps \in [Workspaces -> SUBSET Items]
      /\ issued \subseteq Items
  BY DEF LeftoverInv, FilesInv, OwnInv, TypeOK, TaskType
<1>c. current \in Workspaces /\ current # NoWorkspace
  BY AttachmentsAssumption DEF LeftoverInv, FilesInv, OwnInv, TypeOK, ImportStep, Begin, CopyBegin,
     CopyDone, CopyFails, Record, RecordFails, CleanOne, CleanDone, Owns
<1>n. NoItem \notin Items
  BY AttachmentsAssumption
<1>k. \A x \in (files[current] \cup temps[current]) \ Recorded(current) : Kept(x)
  BY <1>c, Leftovers DEF LeftoverInv
<1> HIDE DEF Kept
<1>m. ASSUME NEW x, Kept(x), \A k \in Imports \ {i} : task'[k] = task[k],
             x \in t.targets \/ x = t.item => x \in task'[i].targets \/ x = task'[i].item
      PROVE  Kept(x)'
  BY <1>0, <1>m DEF Kept
<1>q. ASSUME \A w \in Workspaces : files'[w] \cup temps'[w] \subseteq issued',
             \A k \in Imports : Placed(k)',
             \A x \in (files'[current] \cup temps'[current]) \ Recorded(current)' : Kept(x)'
      PROVE  LeftoverInv'
  BY <1>0, <1>q, Leftovers DEF LeftoverInv, FailuresLeaveNothing, Kept
<1>r. ASSUME UNCHANGED status PROVE Recorded(current)' = Recorded(current)
  BY <1>0, <1>r DEF Recorded
\* A step that leaves the disk and the rows alone and gives nothing up.
<1>s. ASSUME UNCHANGED <<status, files, temps, issued>>,
             \A k \in Imports \ {i} : task'[k] = task[k],
             task'[i].targets = t.targets, task'[i].item = t.item
      PROVE  LeftoverInv'
  <2>1. \A k \in Imports : Placed(k)'
    BY <1>0, <1>s DEF Placed
  <2>2. QED BY <1>0, <1>k, <1>m, <1>q, <1>r, <1>s, <2>1
<1>1. CASE Begin(i)
  <2>1. t.targets = {} /\ t.item = NoItem
    BY <1>0, <1>1 DEF Begin, Owns
  <2>2. PICK n \in 1..BatchLimit : task' = [task EXCEPT ![i] = Fresh(n)]
    BY <1>1 DEF Begin
  <2>3. task'[i] = Fresh(n) /\ \A k \in Imports \ {i} : task'[k] = task[k]
    BY <1>t, <2>2
  <2>4. QED BY <1>1, <1>s, <2>1, <2>3 DEF Begin, Fresh
<1>2. CASE CopyBegin(i)
  <2>1. PICK x \in Items \ issued :
          /\ issued' = issued \cup {x}
          /\ temps' = [temps EXCEPT ![current] = @ \cup {x}]
          /\ task' = [task EXCEPT ![i] = [t EXCEPT !.phase = "writing", !.item = x]]
    BY <1>2, <1>t DEF CopyBegin
  <2>2. UNCHANGED <<status, files>> /\ t.item = NoItem
    BY <1>0, <1>2 DEF CopyBegin, Owns
  <2>3. /\ task'[i].targets = t.targets /\ task'[i].item = x
        /\ \A k \in Imports \ {i} : task'[k] = task[k]
    BY <1>t, <2>1 DEF TaskType
  <2>4. temps'[current] = temps[current] \cup {x}
        /\ \A w \in Workspaces \ {current} : temps'[w] = temps[w]
    BY <1>c, <1>t, <2>1
  <2>5. \A k \in Imports : Placed(k)'
    BY <1>0, <1>c, <2>1, <2>2, <2>3, <2>4 DEF Owns, Placed
  <2>6. \A w \in Workspaces : files'[w] \cup temps'[w] \subseteq issued'
    BY <1>0, <2>1, <2>2, <2>4
  <2>7. \A y \in (files'[current] \cup temps'[current]) \ Recorded(current)' : Kept(y)'
    <3> TAKE y \in (files'[current] \cup temps'[current]) \ Recorded(current)'
    <3>1. CASE y = x
      BY <2>3, <3>1 DEF Kept
    <3>2. CASE y # x
      <4>1. Kept(y) /\ y # NoItem
        BY <1>c, <1>k, <1>n, <1>r, <1>t, <2>2, <2>4, <3>2
      <4>2. QED BY <1>m, <2>2, <2>3, <4>1
    <3>3. QED BY <3>1, <3>2
  <2>8. QED BY <1>q, <2>5, <2>6, <2>7
<1>3. CASE CopyDone(i)
  <2> DEFINE x == t.item
  <2>1. /\ task'[i].targets = t.targets \cup {x} /\ task'[i].item = NoItem
        /\ \A k \in Imports \ {i} : task'[k] = task[k]
    BY <1>3, <1>t DEF CopyDone
  <2>2. UNCHANGED <<status, issued>> /\ x # NoItem /\ x \in issued
    BY <1>0, <1>3 DEF CopyDone, Owns
  <2>3. /\ files'[current] = files[current] \cup {x} /\ temps'[current] = temps[current] \ {x}
        /\ \A w \in Workspaces \ {current} : files'[w] = files[w] /\ temps'[w] = temps[w]
    BY <1>3, <1>c, <1>t DEF CopyDone
  <2> HIDE DEF x
  <2>4. Placed(i)'
    BY <1>0, <1>c, <1>n, <1>t, <2>1, <2>2, <2>3 DEF Placed
  <2>5. \A k \in Imports \ {i} : Placed(k)'
    BY <1>0, <1>c, <2>1, <2>2, <2>3 DEF Placed, Apart, x
  <2>6. \A w \in Workspaces : files'[w] \cup temps'[w] \subseteq issued'
    BY <1>0, <2>2, <2>3
  <2>7. \A y \in (files'[current] \cup temps'[current]) \ Recorded(current)' : Kept(y)'
    <3> TAKE y \in (files'[current] \cup temps'[current]) \ Recorded(current)'
    <3>1. CASE y = x
      BY <2>1, <3>1 DEF Kept
    <3>2. CASE y # x
      <4>1. Kept(y)
        BY <1>k, <1>r, <2>2, <2>3, <3>2
      <4>2. QED BY <1>m, <2>1, <3>2, <4>1 DEF x
    <3>3. QED BY <3>1, <3>2
  <2>8. QED BY <1>q, <2>4, <2>5, <2>6, <2>7
<1>4. CASE CopyFails(i)
  <2> DEFINE x == t.item
  <2>1. task' = [task EXCEPT ![i] = [t EXCEPT !.phase = "cleaning", !.item = NoItem]]
    BY <1>4, <1>t DEF CopyFails
  <2>2. /\ task'[i].targets = t.targets /\ task'[i].item = NoItem
        /\ \A k \in Imports \ {i} : task'[k] = task[k]
    BY <1>t, <2>1 DEF TaskType
  <2>3. /\ UNCHANGED <<status, files, issued>> /\ temps'[current] = temps[current] \ {x}
        /\ \A w \in Workspaces \ {current} : temps'[w] = temps[w]
    BY <1>4, <1>c, <1>t DEF CopyFails
  <2>4. x \notin files[current]
    BY <1>0, <1>c DEF Placed
  <2> HIDE DEF x
  <2>5. \A k \in Imports : Placed(k)'
    BY <1>0, <1>c, <1>n, <1>t, <2>2, <2>3 DEF Placed
  <2>6. \A w \in Workspaces : files'[w] \cup temps'[w] \subseteq issued'
    BY <1>0, <2>3
  <2>7. \A y \in (files'[current] \cup temps'[current]) \ Recorded(current)' : Kept(y)'
    <3> TAKE y \in (files'[current] \cup temps'[current]) \ Recorded(current)'
    <3>1. Kept(y) /\ y # x
      BY <1>k, <1>r, <2>3, <2>4
    <3>2. QED BY <1>m, <2>2, <3>1 DEF x
  <2>8. QED BY <1>q, <2>5, <2>6, <2>7
<1>5. CASE Record(i)
  <2>1. /\ task' = [task EXCEPT ![i] = Idle] /\ UNCHANGED <<files, temps, issued>>
        /\ status' = [status EXCEPT ![current] =
             [x \in Items |-> IF x \in t.targets THEN "live" ELSE @[x]]]
        /\ t.item = NoItem
    BY <1>0, <1>5 DEF Record, Owns
  <2>2. task'[i] = Idle /\ \A k \in Imports \ {i} : task'[k] = task[k]
    BY <1>t, <2>1
  <2>3. Recorded(current)' = Recorded(current) \cup t.targets
    <3>1. \A y \in Items : status'[current][y] = IF y \in t.targets THEN "live" ELSE status[current][y]
      BY <1>c, <2>1 DEF LeftoverInv, FilesInv, OwnInv, TypeOK
    <3>2. QED BY <1>0, <1>t, <3>1 DEF Recorded
  <2>4. \A k \in Imports : Placed(k)'
    BY <1>0, <1>c, <1>n, <1>t, <2>1, <2>2 DEF Placed, Idle
  <2>5. \A y \in (files'[current] \cup temps'[current]) \ Recorded(current)' : Kept(y)'
    <3> TAKE y \in (files'[current] \cup temps'[current]) \ Recorded(current)'
    <3>1. Kept(y) /\ y \notin t.targets /\ y # NoItem
      BY <1>c, <1>k, <1>n, <1>t, <2>1, <2>3
    <3>2. QED BY <1>m, <2>1, <2>2, <3>1
  <2>6. QED BY <1>0, <1>q, <2>1, <2>4, <2>5
<1>6. CASE RecordFails(i)
  <2>1. task' = [task EXCEPT ![i] = [t EXCEPT !.phase = "cleaning"]]
    BY <1>6, <1>t DEF RecordFails
  <2>2. /\ task'[i].targets = t.targets /\ task'[i].item = t.item
        /\ \A k \in Imports \ {i} : task'[k] = task[k]
    BY <1>t, <2>1 DEF TaskType
  <2>3. QED BY <1>6, <1>s, <2>2 DEF RecordFails
<1>7. CASE CleanOne(i)
  <2>1. PICK x \in t.targets :
          /\ files' = [files EXCEPT ![current] = @ \ {x}]
          /\ task' = [task EXCEPT ![i] = [t EXCEPT !.targets = @ \ {x}]]
    BY <1>7, <1>t DEF CleanOne
  <2>2. /\ task'[i].targets = t.targets \ {x} /\ task'[i].item = t.item
        /\ \A k \in Imports \ {i} : task'[k] = task[k]
    BY <1>t, <2>1 DEF TaskType
  <2>3. /\ UNCHANGED <<status, temps, issued>> /\ files'[current] = files[current] \ {x}
        /\ \A w \in Workspaces \ {current} : files'[w] = files[w]
    BY <1>7, <1>c, <1>t, <2>1 DEF CleanOne
  <2>4. x \notin temps[current]
    BY <1>0, <1>c DEF Placed
  <2>5. \A k \in Imports : Placed(k)'
    BY <1>0, <1>c, <2>2, <2>3 DEF Placed
  <2>6. \A w \in Workspaces : files'[w] \cup temps'[w] \subseteq issued'
    BY <1>0, <2>3
  <2>7. \A y \in (files'[current] \cup temps'[current]) \ Recorded(current)' : Kept(y)'
    <3> TAKE y \in (files'[current] \cup temps'[current]) \ Recorded(current)'
    <3>1. Kept(y) /\ y # x
      BY <1>k, <1>r, <2>3, <2>4
    <3>2. QED BY <1>m, <2>2, <3>1
  <2>8. QED BY <1>q, <2>5, <2>6, <2>7
<1>8. CASE CleanDone(i)
  <2>1. t.targets = {} /\ t.item = NoItem
    BY <1>0, <1>8 DEF CleanDone, Owns
  <2>2. task'[i] = Idle /\ \A k \in Imports \ {i} : task'[k] = task[k]
    BY <1>8, <1>t DEF CleanDone
  <2>3. QED BY <1>8, <1>s, <2>1, <2>2 DEF CleanDone, Idle
<1>9. QED BY <1>1, <1>2, <1>3, <1>4, <1>5, <1>6, <1>7, <1>8 DEF ImportStep

LEMMA NextLeftovers ==
  ASSUME LeftoverInv, [Next]_vars
  PROVE  LeftoverInv'
<1>0. FilesInv'
  BY NextFiles DEF LeftoverInv
<1>1. CASE \E i \in Imports : ImportStep(i)
  BY <1>0, <1>1, ImportLeftovers
<1>2. CASE \E x \in Items : Delete(x) \/ RestoreTrash(x)
  <2>1. PICK x \in Items : Delete(x) \/ RestoreTrash(x)
    BY <1>2
  <2>2. Recorded(current)' = Recorded(current)
    <3>1. PICK v \in {"live", "trashed"} : status' = [status EXCEPT ![current][x] = v]
      BY <2>1 DEF Delete, RestoreTrash
    <3>2. status[current][x] # "none" /\ current' = current /\ current \in Workspaces
      BY <2>1 DEF Delete, RestoreTrash, LeftoverInv, FilesInv, OwnInv, TypeOK
    <3>3. \A y \in Items : status'[current][y] # "none" <=> status[current][y] # "none"
      BY <3>1, <3>2 DEF LeftoverInv, FilesInv, OwnInv, TypeOK
    <3>4. QED BY <3>2, <3>3 DEF Recorded
  <2>3. UNCHANGED <<current, files, temps, inherited, issued, task>>
    BY <2>1 DEF Delete, RestoreTrash
  <2>4. QED BY <1>0, <2>2, <2>3 DEF LeftoverInv, Placed, FailuresLeaveNothing
<1>3. CASE Stop
  BY <1>0, <1>3 DEF LeftoverInv, Placed, FailuresLeaveNothing, Stop
<1>4. CASE \E w \in Workspaces : Open(w)
  <2>1. \A i \in Imports : task[i].targets = {} /\ task[i].item = NoItem
    BY <1>4 DEF Open, LeftoverInv, FilesInv, OwnInv, Owns
  <2>2. \A w \in Workspaces : NoItem \notin files[w]
    BY AttachmentsAssumption DEF LeftoverInv, FilesInv, OwnInv, TypeOK
  <2>3. \A w \in Workspaces : Recorded(w)' = Recorded(w)
    BY <1>4 DEF Open, Recorded
  <2>4. FailuresLeaveNothing'
    BY <1>4, <2>3 DEF FailuresLeaveNothing, Open
  <2>5. QED BY <1>0, <1>4, <2>1, <2>2, <2>4 DEF LeftoverInv, Placed, Open
<1>5. CASE UNCHANGED vars
  BY <1>0, <1>5 DEF LeftoverInv, Placed, FailuresLeaveNothing, Recorded, vars
<1>6. QED BY <1>1, <1>2, <1>3, <1>4, <1>5 DEF Next, Step

\* FailuresLeaveNothing is an invariant: whatever fails and however imports
\* interleave, only the end of a process leaves files that no row names.
THEOREM FailuresAlwaysLeaveNothing == Spec => []FailuresLeaveNothing
<1>1. LeftoverInv => FailuresLeaveNothing
  BY DEF LeftoverInv
<1>2. QED BY InitLeftovers, NextLeftovers, <1>1, PTL DEF Spec
=============================================================================
