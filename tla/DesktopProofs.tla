---------------------------- MODULE DesktopProofs ----------------------------
(* Theorems about the parts of Desktop.  For any directories and calls, any *)
(* limit of the list and any number of kills and failures, the list of      *)
(* recent workspaces survives (WorkspaceRegistry).  For any collections,    *)
(* fields and settings, an edit lands (SchemaPage).  For any number of      *)
(* processes, commands and lost events, of jobs' updates, of changes,       *)
(* requests, failures and mounts, a page that is quiet agrees with the host,*)
(* the job and the database (PageSession, JobView, PagePreferences), and    *)
(* legacy preferences migrate faithfully (PagePreferences).                 *)
EXTENDS Desktop, SequenceTheorems, TLAPS

-----------------------------------------------------------------------------
(* The list of recent workspaces.                                           *)

\* Before the first mishap since a finished record, the place of the saved list
\* follows from where record is.
Whole ==
  mishaps = 0 =>
    /\ at \in {"down", "idle", "write", "clear"} =>
         file = {saved} \/ (file = {} /\ backup = {} /\ saved = <<>>)
    /\ at = "old" => file = {saved}
    /\ at = "aside" => file = {} /\ backup = {saved}
    /\ at = "bare" => file = {} /\ backup = {} /\ saved = <<>>

\* What is on its way in is the new list, and what has been moved in is too.
Written ==
  /\ at \in {"clear", "old", "aside", "bare"} => temporary = {target}
  /\ at = "old" => file # {}
  /\ at \in {"aside", "bare"} => file = {}
  /\ at = "done" => file = {target}

RegistryInv ==
  /\ at \in Steps
  /\ mishaps \in Nat
  /\ Whole
  /\ Written
  /\ RecentWorkspacesSurvive

-----------------------------------------------------------------------------
(* Where a next start finds a list. *)

LEMMA OnDiskFile ==
  ASSUME NEW recent, file = {recent}
  PROVE  OnDisk = recent
BY DEF OnDisk

LEMMA OnDiskBackup ==
  ASSUME NEW recent, file = {}, backup = {recent}
  PROVE  OnDisk = recent
BY DEF OnDisk

LEMMA OnDiskNowhere ==
  ASSUME file = {}, backup = {}
  PROVE  OnDisk = <<>>
BY DEF OnDisk

\* Without a mishap the files hold the old list or the new one at every step.
LEMMA WholeSurvives ==
  ASSUME at \in Steps, mishaps = 0, Whole, Written
  PROVE  OnDisk \in {saved, target}
<1>1. CASE at = "done"
  BY <1>1, OnDiskFile DEF Written
<1>2. CASE at = "aside"
  BY <1>2, OnDiskBackup DEF Whole
<1>3. CASE at = "bare"
  BY <1>3, OnDiskNowhere DEF Whole
<1>4. CASE at \in {"down", "idle", "write", "clear", "old"}
  <2>1. CASE file = {saved}
    BY <2>1, OnDiskFile
  <2>2. CASE file = {} /\ backup = {} /\ saved = <<>>
    BY <2>2, OnDiskNowhere
  <2> QED BY <1>4, <2>1, <2>2 DEF Whole
<1> QED BY <1>1, <1>2, <1>3, <1>4 DEF Steps

-----------------------------------------------------------------------------

LEMMA RegistryInvInit == RegistryInit => RegistryInv
<1> SUFFICES ASSUME RegistryInit PROVE RegistryInv
  OBVIOUS
<1>1. OnDisk = <<>>
  BY OnDiskNowhere DEF RegistryInit
<1> QED BY <1>1 DEF RegistryInit, RegistryInv, Steps, Whole, Written, RecentWorkspacesSurvive

LEMMA RegistryInvStep == RegistryInv /\ [RegistryNext]_registryVars => RegistryInv'
<1> SUFFICES ASSUME RegistryInv, [RegistryNext]_registryVars PROVE RegistryInv'
  OBVIOUS
<1> USE DEF RegistryInv, Steps
<1>1. CASE Initialize
  <2>1. OnDisk' = OnDisk
    BY <1>1 DEF Initialize, files, OnDisk
  <2>2. ASSUME mishaps = 0 PROVE OnDisk = saved
    BY <1>1, <2>2, OnDiskFile, OnDiskNowhere DEF Initialize, Whole
  <2> QED BY <1>1, <2>1, <2>2 DEF Initialize, files, Whole, Written, RecentWorkspacesSurvive
<1>2. CASE Record
  BY <1>2 DEF Record, files, Whole, Written, RecentWorkspacesSurvive
<1>3. CASE Write
  BY <1>3 DEF Write, Whole, Written, RecentWorkspacesSurvive
<1>4. CASE ClearBackup
  BY <1>4 DEF ClearBackup, Whole, Written, RecentWorkspacesSurvive
<1>5. CASE MoveAside
  BY <1>5 DEF MoveAside, Whole, Written, RecentWorkspacesSurvive
<1>6. CASE MoveIn
  BY <1>6 DEF MoveIn, Whole, Written, RecentWorkspacesSurvive
<1>7. CASE Finish
  <2>1. file' = {saved'}
    BY <1>7 DEF Finish, Written
  <2>2. OnDisk' = saved'
    BY <2>1 DEF OnDisk
  <2> QED BY <1>7, <2>1, <2>2 DEF Finish, Whole, Written, RecentWorkspacesSurvive
<1>8. CASE RecordFails
  <2>1. ASSUME mishaps = 0 PROVE OnDisk' = saved'
    <3>1. saved' = saved /\ at \in {"write", "old", "aside", "bare"}
      BY <1>8 DEF RecordFails
    <3>2. CASE at = "aside"
      <4>1. (file' = {saved'}) \/ (file' = {} /\ backup' = {saved'})
        BY <1>8, <2>1, <3>1, <3>2 DEF RecordFails, Whole
      <4> QED BY <4>1 DEF OnDisk
    <3>3. CASE at # "aside"
      <4>1. (file' = {saved'}) \/ (file' = {} /\ backup' = {} /\ saved' = <<>>)
        BY <1>8, <2>1, <3>1, <3>3 DEF RecordFails, Whole
      <4> QED BY <4>1 DEF OnDisk
    <3> QED BY <3>2, <3>3
  <2> QED BY <1>8, <2>1 DEF RecordFails, Mishap, Whole, Written, RecentWorkspacesSurvive
<1>9. CASE Killed
  <2>1. OnDisk' = OnDisk /\ saved' = saved /\ target' = target
    BY <1>9 DEF Killed, files, OnDisk
  <2>2. ASSUME mishaps = 0 PROVE OnDisk \in {saved, target}
    BY <2>2, WholeSurvives
  <2> QED BY <1>9, <2>1, <2>2 DEF Killed, Mishap, files, Whole, Written, RecentWorkspacesSurvive
<1>10. CASE UNCHANGED registryVars
  <2>1. OnDisk' = OnDisk
    BY <1>10 DEF registryVars, files, OnDisk
  <2> QED BY <1>10, <2>1 DEF registryVars, files, Whole, Written, RecentWorkspacesSurvive
<1> QED BY <1>1, <1>2, <1>3, <1>4, <1>5, <1>6, <1>7, <1>8, <1>9, <1>10 DEF RegistryNext

\* One kill or one failure, wherever it falls in record, leaves the old list of
\* recent workspaces or the new one where the next start reads it.
THEOREM RecentWorkspacesAlwaysSurvive == RegistrySpec => []RecentWorkspacesSurvive
<1>1. RegistryInv => RecentWorkspacesSurvive
  BY DEF RegistryInv
<1> QED BY <1>1, RegistryInvInit, RegistryInvStep, PTL DEF RegistrySpec

-----------------------------------------------------------------------------
(* The screen of collections and fields.                                    *)

\* A draft is never under a collection that it was not made for, as long as the
\* user has not been hurried: it belongs to the collection that was chosen, or to
\* the one that is about to be chosen because it was created.
DraftBelongs ==
  ~hurried /\ typeDraft # Nothing =>
    typeDraft.of = IF CreationShows THEN op["createType"].target ELSE selectedId

DraftIsChosen == ~hurried /\ ~CreationShows /\ typeDraft # Nothing => selectedId # Nothing

CreatedIsCollection ==
  op["createType"].at \in {"answered", "refreshing", "resumed"} => op["createType"].target \in Collections

\* The cached list, or the answer on its way to it, is current, or some success
\* handler has still to ask for another.
Unhandled == \E o \in Ops : op[o].at = "answered"
ListFollows ==
  /\ reading.at = "answered" => reading.answer = schema \/ Unhandled
  /\ reading = NoReading /\ ~unread => types = schema \/ Unhandled

OpsAreRequests == op = [o \in Ops |-> op[o]]

SchemaInv ==
  /\ OpsAreRequests
  /\ DraftBelongs
  /\ DraftIsChosen
  /\ CreatedIsCollection
  /\ SavesLand
  /\ ListFollows

-----------------------------------------------------------------------------
(* What the helpers do to the requests. *)

LEMMA SendsWrites ==
  ASSUME OpsAreRequests, NEW o \in Ops, NEW goal, NEW body, Sends(o, goal, body)
  PROVE  /\ op[o] = AtRest
         /\ op' = [p \in Ops |-> IF p = o THEN Op("sent", goal, body) ELSE op[p]]
BY DEF Sends, OpsAreRequests

LEMMA AnsweredWrites ==
  ASSUME OpsAreRequests, NEW o \in Ops, NEW status, NEW goal, Answered(o, status, goal)
  PROVE  op' = [p \in Ops |-> IF p = o THEN Op(status, goal, op[o].body) ELSE op[p]]
BY DEF Answered, OpsAreRequests

LEMMA RefreshesWrites ==
  ASSUME OpsAreRequests, NEW o \in Ops, Refreshes(o)
  PROVE  /\ reading' = Reading
         /\ op' = [p \in Ops |->
              IF p = o THEN Op("refreshing", op[o].target, op[o].body)
              ELSE IF op[p].at = "refreshing" THEN Op("resumed", op[p].target, op[p].body)
              ELSE op[p]]
BY DEF Refreshes, Released, OpsAreRequests

LEMMA RestWrites ==
  ASSUME OpsAreRequests, NEW o \in Ops, op' = [op EXCEPT ![o] = AtRest]
  PROVE  op' = [p \in Ops |-> IF p = o THEN AtRest ELSE op[p]]
BY DEF OpsAreRequests

-----------------------------------------------------------------------------

LEMMA SchemaInvInit == SchemaInit => SchemaInv
BY DEF SchemaInit, SchemaInv, OpsAreRequests, DraftBelongs, DraftIsChosen, CreatedIsCollection,
       SavesLand, ListFollows, AtRest, Op, Ops, NoReading

\* The service's answers leave the screen alone.
LEMMA ServesKeeps ==
  ASSUME SchemaInv, Serves
  PROVE  SchemaInv'
<1> USE DEF SchemaInv
<1>0. UNCHANGED <<types, unread, reading, screenState, hurried>>
  BY DEF Serves
<1>1. ASSUME NEW o \in Ops, NEW status, NEW goal,
             op[o].at = "sent", Answered(o, status, goal),
             status \in {"answered", "refused"},
             status = "refused" => schema' = schema,
             o = "createType" /\ status = "answered" => goal \in Collections,
             o = "saveType" => goal = op[o].target
      PROVE  SchemaInv'
  <2>1. op' = [p \in Ops |-> IF p = o THEN Op(status, goal, op[o].body) ELSE op[p]]
    BY <1>1, AnsweredWrites
  <2>2. OpsAreRequests'
    BY <2>1 DEF OpsAreRequests
  <2>3. CreationShows' = CreationShows /\ (CreationShows => op'["createType"] = op["createType"])
    BY <1>1, <2>1 DEF CreationShows, Ops, Op
  <2>4. DraftBelongs' /\ DraftIsChosen'
    BY <1>0, <2>3 DEF DraftBelongs, DraftIsChosen, screenState
  <2>5. CreatedIsCollection'
    BY <1>1, <2>1 DEF CreatedIsCollection, Ops, Op
  <2>6. SavesLand'
    BY <1>0, <1>1, <2>1 DEF SavesLand, Ops, Op
  <2>7. status = "answered" => Unhandled'
    BY <1>1, <2>1 DEF Unhandled, Op
  <2>8. Unhandled => Unhandled'
    BY <1>1, <2>1 DEF Unhandled, Op
  <2>9. ListFollows'
    BY <1>0, <1>1, <2>7, <2>8 DEF ListFollows
  <2> QED BY <2>2, <2>4, <2>5, <2>6, <2>9
<1>2. ASSUME NEW o \in Ops, op[o].at = "sent", Refuses(o) PROVE SchemaInv'
  BY <1>2, <1>1 DEF Refuses
<1>3. CASE CreateCollection
  <2>1. op["createType"].at = "sent" /\ "createType" \in Ops
    BY <1>3 DEF CreateCollection, Ops
  <2>2. CASE Refuses("createType")
    BY <2>1, <2>2, <1>2
  <2>3. ASSUME NEW c \in Collections, NEW s, Writes("createType", c, s) PROVE SchemaInv'
    BY <2>1, <2>3, <1>1 DEF Writes
  <2> QED BY <1>3, <2>2, <2>3 DEF CreateCollection
<1>4. CASE UpdateCollection
  <2>1. op["saveType"].at = "sent" /\ "saveType" \in Ops
    BY <1>4 DEF UpdateCollection, Ops
  <2>2. CASE Refuses("saveType")
    BY <2>1, <2>2, <1>2
  <2>3. ASSUME NEW s, Writes("saveType", op["saveType"].target, s) PROVE SchemaInv'
    BY <2>1, <2>3, <1>1 DEF Writes
  <2> QED BY <1>4, <2>2, <2>3 DEF UpdateCollection
<1>5. CASE DeleteCollection
  <2>1. op["removeType"].at = "sent" /\ "removeType" \in Ops
    BY <1>5 DEF DeleteCollection, Ops
  <2>2. CASE Refuses("removeType")
    BY <2>1, <2>2, <1>2
  <2>3. ASSUME Answered("removeType", "answered", op["removeType"].target) PROVE SchemaInv'
    BY <2>1, <2>3, <1>1
  <2> QED BY <1>5, <2>2, <2>3 DEF DeleteCollection
<1>6. CASE SaveField
  <2>1. op["saveField"].at = "sent" /\ "saveField" \in Ops
    BY <1>6 DEF SaveField, Ops
  <2>2. CASE Refuses("saveField")
    BY <2>1, <2>2, <1>2
  <2>3. ASSUME NEW f, NEW r, WritesField("saveField", f, r) PROVE SchemaInv'
    BY <2>1, <2>3, <1>1 DEF WritesField
  <2> QED BY <1>6, <2>2, <2>3 DEF SaveField
<1>7. CASE DeleteField
  <2>1. op["removeField"].at = "sent" /\ "removeField" \in Ops
    BY <1>7 DEF DeleteField, Ops
  <2>2. CASE Refuses("removeField")
    BY <2>1, <2>2, <1>2
  <2>3. ASSUME NEW f, NEW r, WritesField("removeField", f, r) PROVE SchemaInv'
    BY <2>1, <2>3, <1>1 DEF WritesField
  <2> QED BY <1>7, <2>2, <2>3 DEF DeleteField
<1>8. CASE Lost
  BY <1>8, <1>2 DEF Lost
<1> QED BY <1>3, <1>4, <1>5, <1>6, <1>7, <1>8 DEF Serves

LEMMA ReadsKeep ==
  ASSUME SchemaInv, ReadAnswered \/ ReadFails \/ ReadArrives \/ Retry
  PROVE  SchemaInv'
<1> USE DEF SchemaInv
<1>1. CASE ReadAnswered
  <2>1. UNCHANGED <<schema, types, unread, op, typeDraft, selectedId, hurried>>
    BY <1>1 DEF ReadAnswered, service, screenState
  <2>2. ListFollows'
    BY <1>1 DEF ReadAnswered, ListFollows, NoReading, service
  <2> QED BY <2>1, <2>2 DEF OpsAreRequests, DraftBelongs, DraftIsChosen, CreatedIsCollection, SavesLand, CreationShows
<1>2. CASE ReadFails
  <2>1. UNCHANGED <<schema, types, unread, op, typeDraft, selectedId, hurried>>
    BY <1>2 DEF ReadFails, service, screenState
  <2>2. reading'.at = "failed" \/ reading' = reading
    BY <1>2 DEF ReadFails
  <2>3. ListFollows'
    BY <2>1, <2>2 DEF ListFollows, NoReading, Unhandled
  <2> QED BY <2>1, <2>3 DEF OpsAreRequests, DraftBelongs, DraftIsChosen, CreatedIsCollection, SavesLand, CreationShows
<1>3. CASE ReadArrives
  <2>1. UNCHANGED <<schema, typeDraft, selectedId, hurried>> /\ reading' = NoReading
    BY <1>3 DEF ReadArrives, service, screenState
  <2>2. op' = [p \in Ops |-> IF op[p].at = "refreshing" THEN Op("resumed", op[p].target, op[p].body)
                            ELSE op[p]]
    BY <1>3 DEF ReadArrives, Released
  <2>3. Unhandled' <=> Unhandled
    BY <2>2 DEF Unhandled, Op
  <2>4. OpsAreRequests'
    BY <2>2 DEF OpsAreRequests
  <2>5. (CreationShows' <=> CreationShows) /\ op'["createType"].target = op["createType"].target
    BY <2>2 DEF CreationShows, Ops, Op
  <2>6. CreatedIsCollection' /\ SavesLand'
    BY <2>1, <2>2 DEF CreatedIsCollection, SavesLand, Ops, Op
  <2>7. ListFollows'
    BY <1>3, <2>1, <2>3 DEF ReadArrives, ListFollows, NoReading
  <2> QED BY <2>1, <2>4, <2>5, <2>6, <2>7 DEF DraftBelongs, DraftIsChosen
<1>4. CASE Retry
  <2>1. UNCHANGED <<schema, types, unread, op, typeDraft, selectedId, hurried>> /\ reading' = Reading
    BY <1>4 DEF Retry, service, screenState
  <2>2. ListFollows'
    BY <2>1 DEF ListFollows, NoReading, Reading
  <2> QED BY <2>1, <2>2 DEF OpsAreRequests, DraftBelongs, DraftIsChosen, CreatedIsCollection, SavesLand, CreationShows
<1> QED BY <1>1, <1>2, <1>3, <1>4

\* The two halves of what follows a success, and a failure.
LEMMA HandlersKeep ==
  ASSUME SchemaInv, NEW o \in Ops, Succeeds(o) \/ Resumes(o) \/ RequestRefused(o)
  PROVE  SchemaInv'
<1> USE DEF SchemaInv
<1>1. CASE Succeeds(o)
  <2>1. /\ op[o].at = "answered" /\ hurried' = hurried /\ reading' = Reading
        /\ op' = [p \in Ops |->
              IF p = o THEN Op("refreshing", op[o].target, op[o].body)
              ELSE IF op[p].at = "refreshing" THEN Op("resumed", op[p].target, op[p].body)
              ELSE op[p]]
    BY <1>1, RefreshesWrites DEF Succeeds
  <2>2. OpsAreRequests' /\ ListFollows'
    BY <2>1 DEF OpsAreRequests, ListFollows, NoReading, Reading
  <2>3. CreatedIsCollection' /\ SavesLand'
    BY <2>1 DEF CreatedIsCollection, SavesLand, Ops, Op
  <2>4. CASE o = "createType"
    <3>1. /\ typeDraft' = Draft(op[o].body, op[o].target) /\ CreationShows'
          /\ op'["createType"].target = op[o].target
      BY <1>1, <2>1, <2>4 DEF Succeeds, CreationShows, Ops, Op
    <3> QED BY <2>2, <2>3, <3>1 DEF DraftBelongs, DraftIsChosen, Draft
  <2>5. CASE o = "removeType"
    <3>1. typeDraft' = Nothing
      BY <1>1, <2>5 DEF Succeeds
    <3> QED BY <2>2, <2>3, <3>1 DEF DraftBelongs, DraftIsChosen
  <2>6. CASE o \notin {"createType", "removeType"}
    <3>1. typeDraft' = typeDraft /\ selectedId' = selectedId
      BY <1>1, <2>6 DEF Succeeds
    <3>2. (CreationShows' <=> CreationShows) /\ op'["createType"].target = op["createType"].target
      BY <2>1, <2>6 DEF CreationShows, Ops, Op
    <3> QED BY <2>1, <2>2, <2>3, <3>1, <3>2 DEF DraftBelongs, DraftIsChosen
  <2> QED BY <2>4, <2>5, <2>6
<1>2. CASE Resumes(o)
  <2>1. /\ op[o].at = "resumed" /\ op' = [op EXCEPT ![o] = AtRest]
        /\ UNCHANGED <<schema, types, unread, reading, typeDraft, hurried>>
    BY <1>2 DEF Resumes, service
  <2>2. op' = [p \in Ops |-> IF p = o THEN AtRest ELSE op[p]]
    BY <2>1, RestWrites
  <2>3. OpsAreRequests' /\ (Unhandled' <=> Unhandled)
    BY <2>1, <2>2 DEF OpsAreRequests, Unhandled, AtRest, Op
  <2>4. ListFollows'
    BY <2>1, <2>3 DEF ListFollows
  <2>5. CreatedIsCollection' /\ SavesLand'
    BY <2>1, <2>2 DEF CreatedIsCollection, SavesLand, AtRest, Ops, Op
  <2>6. CASE o = "createType"
    <3>1. selectedId' = op[o].target /\ op[o].target \in Collections /\ ~CreationShows' /\ CreationShows
      BY <1>2, <2>1, <2>2, <2>6 DEF Resumes, CreatedIsCollection, CreationShows, AtRest, Ops, Op
    <3> QED BY <2>1, <2>3, <2>4, <2>5, <2>6, <3>1, SchemaAssumption DEF DraftBelongs, DraftIsChosen
  <2>7. CASE o # "createType"
    <3>1. selectedId' = selectedId /\ op'["createType"] = op["createType"]
      BY <1>2, <2>2, <2>7 DEF Resumes, Ops
    <3> QED BY <2>1, <2>3, <2>4, <2>5, <3>1 DEF DraftBelongs, DraftIsChosen, CreationShows
  <2> QED BY <2>6, <2>7
<1>3. CASE RequestRefused(o)
  <2>1. /\ op[o].at = "refused" /\ op' = [op EXCEPT ![o] = AtRest]
        /\ UNCHANGED <<schema, types, unread, reading, typeDraft, selectedId, hurried>>
    BY <1>3 DEF RequestRefused, service, screenState
  <2>2. op' = [p \in Ops |-> IF p = o THEN AtRest ELSE op[p]]
    BY <2>1, RestWrites
  <2>3. OpsAreRequests' /\ (Unhandled' <=> Unhandled)
    BY <2>1, <2>2 DEF OpsAreRequests, Unhandled, AtRest, Op
  <2>4. ListFollows'
    BY <2>1, <2>3 DEF ListFollows
  <2>5. CreatedIsCollection' /\ SavesLand'
    BY <2>1, <2>2 DEF CreatedIsCollection, SavesLand, AtRest, Ops, Op
  <2>6. (CreationShows' <=> CreationShows) /\ (CreationShows => op'["createType"] = op["createType"])
    BY <2>1, <2>2 DEF CreationShows, AtRest, Ops, Op
  <2> QED BY <2>1, <2>3, <2>4, <2>5, <2>6 DEF DraftBelongs, DraftIsChosen
<1> QED BY <1>1, <1>2, <1>3

LEMMA EditsKeep ==
  ASSUME SchemaInv, UserEdits
  PROVE  SchemaInv'
<1> USE DEF SchemaInv
<1>1. UNCHANGED <<schema, types, unread, reading, op>>
  BY DEF UserEdits, Choose, TypeSettings, EditField, TypeField, ClearField, service
<1>2. OpsAreRequests' /\ CreatedIsCollection' /\ ListFollows' /\ (CreationShows' <=> CreationShows)
  BY <1>1 DEF OpsAreRequests, CreatedIsCollection, ListFollows, Unhandled, CreationShows
<1>3. hurried => hurried'
  BY DEF UserEdits, Choose, TypeSettings, EditField, TypeField, ClearField
<1>4. SavesLand'
  BY <1>1, <1>3 DEF SavesLand
<1>5. CASE Choose
  <2>1. PICK c \in Listed(types) : selectedId' = c /\ typeDraft' = Draft(types.rows[c], c)
    BY <1>5 DEF Choose
  <2>2. c # Nothing
    BY SchemaAssumption DEF Listed
  <2>3. hurried' = (hurried \/ CreationShows)
    BY <1>5 DEF Choose
  <2> QED BY <1>2, <1>4, <2>1, <2>2, <2>3 DEF DraftBelongs, DraftIsChosen, Draft
<1>6. CASE TypeSettings
  <2>1. typeDraft' = Nothing \/ \E settings : typeDraft' = Draft(settings, effectiveTypeDraft.of)
    BY <1>6 DEF TypeSettings
  <2>2. hurried' = (hurried \/ CreationShows \/ selectedId = Nothing) /\ selectedId' = selectedId
    BY <1>6 DEF TypeSettings
  <2>3. ASSUME ~hurried' PROVE effectiveTypeDraft.of = selectedId
    BY <2>2, <2>3 DEF effectiveTypeDraft, activeSelectedId, DraftBelongs, Draft
  <2>4. ASSUME ~hurried' PROVE ~CreationShows' /\ selectedId' # Nothing
    BY <1>2, <2>2, <2>4
  <2>5. ASSUME ~hurried', typeDraft' # Nothing PROVE typeDraft'.of = selectedId'
    BY <2>1, <2>2, <2>3, <2>5 DEF Draft
  <2>6. DraftBelongs' /\ DraftIsChosen'
    BY <2>4, <2>5 DEF DraftBelongs, DraftIsChosen
  <2> QED BY <1>2, <1>4, <2>6
<1>7. CASE EditField \/ TypeField \/ ClearField
  <2>1. UNCHANGED <<selectedId, typeDraft, hurried>>
    BY <1>7 DEF EditField, TypeField, ClearField
  <2> QED BY <1>1, <1>2, <1>4, <2>1 DEF DraftBelongs, DraftIsChosen
<1> QED BY <1>5, <1>6, <1>7 DEF UserEdits

LEMMA SendsKeep ==
  ASSUME SchemaInv, UserSends
  PROVE  SchemaInv'
<1> USE DEF SchemaInv
<1>1. UNCHANGED <<schema, types, unread, reading, selectedId, typeDraft>> /\ (hurried => hurried')
  <2>1. CASE SaveType
    BY <2>1 DEF SaveType, service, screenState
  <2>2. CASE CreateType \/ RemoveType \/ SubmitField \/ RemoveField
    BY <2>2 DEF CreateType, RemoveType, SubmitField, RemoveField, service, screenState
  <2> QED BY <2>1, <2>2 DEF UserSends
<1>2. ASSUME NEW o \in Ops, NEW goal, NEW body, Sends(o, goal, body),
             o = "saveType" /\ ~hurried' => goal = body.of
      PROVE  SchemaInv'
  <2>1. /\ op[o] = AtRest
        /\ op' = [p \in Ops |-> IF p = o THEN Op("sent", goal, body) ELSE op[p]]
    BY <1>2, SendsWrites
  <2>2. OpsAreRequests' /\ (Unhandled' <=> Unhandled)
    BY <2>1 DEF OpsAreRequests, Unhandled, AtRest, Op
  <2>3. ListFollows'
    BY <1>1, <2>2 DEF ListFollows
  <2>4. (CreationShows' <=> CreationShows) /\ (CreationShows => op'["createType"] = op["createType"])
    BY <2>1 DEF CreationShows, AtRest, Ops, Op
  <2>5. CreatedIsCollection'
    BY <2>1 DEF CreatedIsCollection, Ops, Op
  <2>6. SavesLand'
    BY <1>1, <1>2, <2>1 DEF SavesLand, Ops, Op
  <2> QED BY <1>1, <2>2, <2>3, <2>4, <2>5, <2>6 DEF DraftBelongs, DraftIsChosen
<1>3. CASE SaveType
  <2>1. Sends("saveType", activeSelectedId, effectiveTypeDraft) /\ hurried' = (hurried \/ CreationShows)
    BY <1>3 DEF SaveType
  <2>2. ~hurried' => activeSelectedId = effectiveTypeDraft.of
    BY <2>1 DEF activeSelectedId, effectiveTypeDraft, DraftBelongs, DraftIsChosen, Draft
  <2> QED BY <2>1, <2>2, <1>2 DEF Ops
<1>4. CASE CreateType
  <2>1. PICK n \in Names :
          Sends("createType", Nothing, [name |-> n, order |-> Cardinality(Listed(types))])
    BY <1>4 DEF CreateType
  <2> QED BY <2>1, <1>2 DEF Ops
<1>5. CASE RemoveType
  BY <1>5, <1>2 DEF RemoveType, Ops
<1>6. CASE SubmitField
  BY <1>6, <1>2 DEF SubmitField, Ops
<1>7. CASE RemoveField
  BY <1>7, <1>2 DEF RemoveField, Ops
<1> QED BY <1>3, <1>4, <1>5, <1>6, <1>7 DEF UserSends

LEMMA SchemaInvStep == SchemaInv /\ [SchemaNext]_schemaVars => SchemaInv'
<1> SUFFICES ASSUME SchemaInv, [SchemaNext]_schemaVars PROVE SchemaInv'
  OBVIOUS
<1>1. CASE Serves
  BY <1>1, ServesKeeps
<1>2. CASE ReadAnswered \/ ReadFails
  BY <1>2, ReadsKeep
<1>3. CASE ScreenStep
  BY <1>3, ReadsKeep, HandlersKeep DEF ScreenStep
<1>4. CASE UserEdits
  BY <1>4, EditsKeep
<1>5. CASE UserSends
  BY <1>5, SendsKeep
<1>6. CASE UNCHANGED schemaVars
  BY <1>6 DEF schemaVars, service, screenState, SchemaInv, OpsAreRequests, DraftBelongs, DraftIsChosen,
       CreatedIsCollection, SavesLand, ListFollows, Unhandled, CreationShows
<1> QED BY <1>1, <1>2, <1>3, <1>4, <1>5, <1>6 DEF SchemaNext

\* Settings are saved to the collection they were edited for, and the settled
\* screen shows what the service holds, for any number of overlapping requests,
\* failures and refetches.
THEOREM SchemaEditsAlwaysLand == SchemaSpec => []SchemaEditsLand
<1>1. SchemaInv => SchemaEditsLand
  <2> SUFFICES ASSUME SchemaInv PROVE SchemaEditsLand
    OBVIOUS
  <2>1. (\A o \in Ops : op[o] = AtRest) => ~Unhandled
    BY DEF Unhandled, AtRest, Op
  <2> QED BY <2>1 DEF SchemaInv, SchemaEditsLand, ListFollows, SettledSchemaIsCurrent
<1> QED BY <1>1, SchemaInvInit, SchemaInvStep, PTL DEF SchemaSpec

-----------------------------------------------------------------------------
(* The page's connection: what is not so yet will be told.                 *)

Messages == [kind: {"event"}] \cup [kind: {"done"}, ok: BOOLEAN]
            \cup [kind: {"info"}, to: Generations, process: Nat]

\* A state that says ready was left by the publication of the last process, which no
\* recovery has looked for since.
HostTypes ==
  /\ host.state \in {"ready", "failed", "starting", "stopped"} /\ host.process \in 0..MaxProcesses
  /\ host = [state |-> host.state, process |-> host.process]
  /\ life \in [Processes -> {"none", "serving", "over"} \cup Recovering]
  /\ \A p \in Processes : life[p] # "none" => p <= host.process
  /\ host.state = "ready" => /\ host.process \in Processes
                             /\ life[host.process] \in {"serving", "head"}

SessionTypes ==
  /\ HostTypes
  /\ wire \in Seq(Messages)
  /\ generation \in Generations
  /\ load \in [Generations -> [at: {"idle", "asking", "asked", "meta"}, from: Nat,
                               again: BOOLEAN]]
  /\ api \in Nat

\* What a query function is told now.
Current == IF host.state = "ready" THEN host.process ELSE 0

\* Messages after which the page reads the connection again.
IsReset(m) == m.kind = "event" \/ (m.kind = "done" /\ m.ok)
IsInfo(m) == m.kind = "info"

\* A query function that asks has one answer under way, and the generations to
\* come have none.
AnswersAwaited ==
  /\ \A g \in Generations : g > generation => load[g].at = "idle"
  /\ \A i \in 1..Len(wire) : IsInfo(wire[i]) => load[wire[i].to].at = "asked"
  /\ \A i, j \in 1..Len(wire) :
       IsInfo(wire[i]) /\ IsInfo(wire[j]) /\ wire[i].to = wire[j].to => i = j

\* From message i on the page is told what is so.
TrueFrom(i) == \A j \in i..Len(wire) : IsInfo(wire[j]) => wire[j].process = Current

ToldAt(i) == IsInfo(wire[i]) /\ wire[i].to = generation /\ TrueFrom(i)

Standing ==
  /\ TrueFrom(1)
  /\ host.state = "ready" => api = host.process
  /\ load[generation].at = "meta" => /\ host.state = "ready"
                                      /\ load[generation].from = host.process
  /\ load[generation].at = "idle" => gate = IF host.state = "ready" THEN "open" ELSE "error"

\* A command, or a recovery that no stop has cancelled: it may change the host, and
\* has yet to tell the page.
Unsettled(p) ==
  life[p] \in {"asleep", "starting", "telling"} \/ (life[p] = "head" /\ host.state # "stopped")
Busy == (\E p \in Processes : Unsettled(p)) \/ call.at \notin {"none", "sent", "ended"}

\* Unless the host has told nobody, or will tell, the page is as the host is, or is
\* being told how it is, or will ask.
Follows ==
  ~untold /\ ~Busy =>
    \/ \E i \in 1..Len(wire) : IsReset(wire[i])
    \/ load[generation].at = "asking"
    \/ load[generation].at = "asked" /\ \E i \in 1..Len(wire) : ToldAt(i)
    \/ load[generation].at \in {"idle", "meta"} /\ Standing

SessionInv == SessionTypes /\ AnswersAwaited /\ Follows

LEMMA LoadsAreUpTo ==
  ASSUME SessionInv
  PROVE  /\ generation \in Nat
         /\ \A g \in Generations : /\ g \in Nat
                                   /\ load[g].at # "idle" => g <= generation
                                   /\ g > generation => load[g].at = "idle"
<1>1. generation \in Nat /\ \A g \in Generations : g \in Nat
  BY SessionAssumption DEF SessionInv, SessionTypes, Generations
<1>2. \A g \in Generations : g > generation => load[g].at = "idle"
  BY DEF SessionInv, AnswersAwaited
<1> QED
  BY <1>1, <1>2

LEMMA MessageKinds ==
  /\ \A m \in Messages : m.kind \in {"event", "done", "info"}
  /\ \A m \in Messages : IsInfo(m) => m.to \in Generations /\ m.process \in Nat
  /\ [kind |-> "event"] \in Messages /\ [kind |-> "event"].kind = "event"
  /\ \A ok \in BOOLEAN : /\ [kind |-> "done", ok |-> ok] \in Messages
                         /\ [kind |-> "done", ok |-> ok].kind = "done"
  /\ \A g \in Generations, p \in Nat :
       [kind |-> "info", to |-> g, process |-> p] \in Messages
BY DEF Messages, IsInfo

LEMMA SessionStarts == SessionInit => SessionInv
<1> SUFFICES ASSUME SessionInit
             PROVE  SessionInv
  OBVIOUS
<1>1. 0 \in Generations
  BY SessionAssumption DEF Generations
<1>2. HostTypes
  BY SessionAssumption DEF SessionInit, HostTypes, Processes, Recovering
<1>5. SessionTypes
  BY <1>1, <1>2 DEF SessionInit, SessionTypes, Loading, NoLoad
<1>3. AnswersAwaited
  BY <1>1 DEF SessionInit, AnswersAwaited, Loading, NoLoad, Generations
<1>4. Follows
  BY <1>1 DEF SessionInit, Follows, Loading
<1> QED
  BY <1>3, <1>4, <1>5 DEF SessionInv

\* The page asks anew.
LEMMA PageAsks ==
  ASSUME SessionInv, SessionTypes', AnswersAwaited', load'[generation'].at = "asking"
  PROVE  SessionInv'
BY DEF SessionInv, Follows

LEMMA NextAsks ==
  ASSUME SessionInv, NEW from \in [Generations -> [at: {"idle", "asking", "asked", "meta"},
                                                   from: Nat, again: BOOLEAN]],
         \A g \in Generations : from[g] = load[g] \/ (load[g].at = "meta" /\ from[g] = NoLoad),
         NextGeneration(from)
  PROVE  /\ generation' \in Generations
         /\ load' \in [Generations -> [at: {"idle", "asking", "asked", "meta"},
                                       from: Nat, again: BOOLEAN]]
         /\ load'[generation'].at = "asking"
         /\ \A g \in Generations : g > generation' => load'[g].at = "idle"
         /\ \A g \in Generations : load[g].at = "asked" => load'[g].at = "asked"
<1>1. generation' \in Generations /\ generation' = generation + 1
  BY SessionAssumption DEF SessionInv, SessionTypes, NextGeneration, Generations
<1>2. load' = [from EXCEPT ![generation'] = Loading(FALSE)]
  BY DEF NextGeneration
<1>3. Loading(FALSE) \in [at: {"idle", "asking", "asked", "meta"}, from: Nat, again: BOOLEAN]
      /\ Loading(FALSE).at = "asking"
  BY DEF Loading
<1>4. load'[generation'] = Loading(FALSE)
  BY <1>1, <1>2
<1>5. \A g \in Generations : g # generation' => load'[g] = from[g]
  BY <1>2
<1>6. \A g \in Generations : g >= generation' => load[g].at = "idle"
  BY <1>1, SessionAssumption DEF SessionInv, AnswersAwaited, Generations, SessionTypes
<1>7. ASSUME NEW g \in Generations, g > generation'
      PROVE  load'[g].at = "idle"
  <2>1. g # generation' /\ load[g].at = "idle"
    BY <1>7, <1>6, <1>1, SessionAssumption DEF Generations
  <2> QED
    BY <2>1, <1>5
<1>8. ASSUME NEW g \in Generations, load[g].at = "asked"
      PROVE  load'[g].at = "asked"
  <2>1. g # generation'
    BY <1>8, <1>6, <1>1, SessionAssumption DEF Generations
  <2> QED
    BY <1>8, <2>1, <1>5
<1>9. load' \in [Generations -> [at: {"idle", "asking", "asked", "meta"}, from: Nat,
                                 again: BOOLEAN]]
  BY <1>2, <1>3
<1> QED
  BY <1>1, <1>3, <1>4, <1>7, <1>8, <1>9

LEMMA WireGrows ==
  ASSUME SessionTypes, NEW m \in Messages, wire' = Append(wire, m)
  PROVE  /\ wire' \in Seq(Messages) /\ Len(wire) \in Nat /\ Len(wire') = Len(wire) + 1
         /\ \A i \in 1..Len(wire) : wire'[i] = wire[i]
         /\ wire'[Len(wire) + 1] = m
BY DEF SessionTypes

LEMMA WireShrinks ==
  ASSUME SessionTypes, NEW m, Handle(m)
  PROVE  /\ wire' \in Seq(Messages) /\ Len(wire) \in Nat \ {0} /\ Len(wire') = Len(wire) - 1
         /\ \A i \in 1..Len(wire') : wire'[i] = wire[i + 1]
         /\ wire[1] = m /\ m \in Messages
BY DEF SessionTypes, Handle

\* Messages that go leave the others awaited.
LEMMA AwaitedShrink ==
  ASSUME SessionInv, NEW m, Handle(m), ~IsInfo(m), UNCHANGED <<generation, load>>
  PROVE  AnswersAwaited'
<1>1. /\ Len(wire) \in Nat \ {0} /\ Len(wire') = Len(wire) - 1
      /\ \A i \in 1..Len(wire') : i + 1 \in 1..Len(wire) /\ wire'[i] = wire[i + 1]
  BY WireShrinks DEF SessionInv
<1>2. \A i \in 1..Len(wire') : IsInfo(wire'[i]) => load[wire'[i].to].at = "asked"
  BY <1>1 DEF SessionInv, AnswersAwaited
<1>3. ASSUME NEW i \in 1..Len(wire'), NEW j \in 1..Len(wire'),
             IsInfo(wire'[i]), IsInfo(wire'[j]), wire'[i].to = wire'[j].to
      PROVE  i = j
  <2>1. i + 1 = j + 1
    BY <1>1, <1>3 DEF SessionInv, AnswersAwaited
  <2> QED
    BY <2>1, <1>1
<1> QED
  BY <1>2, <1>3 DEF SessionInv, AnswersAwaited

\* The host tells something that is not an answer.
LEMMA AwaitedGrow ==
  ASSUME SessionInv, NEW m \in Messages, ~IsInfo(m), wire' = Append(wire, m),
         UNCHANGED <<generation, load>>
  PROVE  AnswersAwaited'
<1>1. /\ Len(wire) \in Nat /\ Len(wire') = Len(wire) + 1
      /\ \A i \in 1..Len(wire) : wire'[i] = wire[i]
      /\ wire'[Len(wire) + 1] = m
  BY WireGrows DEF SessionInv
<1>2. \A i \in 1..Len(wire') : IsInfo(wire'[i]) => i \in 1..Len(wire) /\ wire'[i] = wire[i]
  BY <1>1
<1> QED
  BY <1>2 DEF SessionInv, AnswersAwaited

\* Where a command is.
CallTypes ==
  call \in [kind: {"none", "retry", "open"}, from: {"none", "gate", "settings"}, ok: BOOLEAN,
            at: {"none", "sent", "stopping", "stopped", "trying", "again", "ready", "failed", "ended"}]

LEMMA CallPlaces ==
  ASSUME CallTypes, NEW place
  PROVE  /\ [call EXCEPT !.at = place].at = place
         /\ [call EXCEPT !.at = place, !.ok = FALSE].at = place
BY DEF CallTypes

LEMMA CallStarts == SessionInit => CallTypes
BY DEF SessionInit, CallTypes, NoCall

LEMMA CallStep == CallTypes /\ [SessionNext]_sessionVars => CallTypes'
<1> SUFFICES ASSUME CallTypes, [SessionNext]_sessionVars
             PROVE  CallTypes'
  OBVIOUS
<1>1. CASE UNCHANGED call
  BY <1>1 DEF CallTypes
<1>2. CASE \E place \in {"stopping", "stopped", "trying", "again", "ready", "failed", "ended"} :
             call' = [call EXCEPT !.at = place] \/ call' = [call EXCEPT !.at = place, !.ok = FALSE]
  BY <1>2 DEF CallTypes
<1>3. CASE call' = NoCall
  BY <1>3 DEF CallTypes, NoCall
<1>4. CASE Recover \/ OpenWorkspace
  <2>1. PICK ok \in BOOLEAN : ok = TRUE
    OBVIOUS
  <2>2. PICK kind \in {"retry", "open"}, from \in {"gate", "settings"} : Command(kind, from)
    BY <1>4 DEF Recover, OpenWorkspace
  <2>3. call' = [kind |-> kind, at |-> "sent", from |-> from, ok |-> ok]
    BY <2>1, <2>2 DEF Command
  <2> QED
    BY <2>3 DEF CallTypes
<1>5. CASE CommandRuns
  BY <1>2, <1>5 DEF CommandRuns, CommandRefused, CommandStops, CommandStopped, CommandTries,
                    CommandStarts, CommandFails, CommandRollsBack, CommandEnds, CommandGoes
<1>6. CASE ListenersRegister \/ EventArrives \/ InfoArrives \/ Unauthorized
  BY <1>1, <1>6 DEF ListenersRegister, EventArrives, InfoArrives, Unauthorized, pageVars
<1>7. CASE \E p \in Processes : ProcessEnds(p) \/ Recovers(p)
  BY <1>1, <1>7 DEF ProcessEnds, Recovers, RecoverLooks, RecoverWakes, RecoverStarts, RecoverTells,
                    pageVars
<1>8. CASE \E g \in Generations : HostAnswers(g) \/ MetaArrives(g)
  BY <1>1, <1>8 DEF HostAnswers, MetaArrives
<1>9. CASE RecoverReturns \/ OpenReturns
  BY <1>3, <1>9 DEF RecoverReturns, OpenReturns
<1> QED
  BY <1>1, <1>4, <1>5, <1>6, <1>7, <1>8, <1>9 DEF SessionNext, HostStep, PageStep, sessionVars,
                                                  pageVars

\* Nothing that matters has changed.
LEMMA SessionStays ==
  ASSUME SessionInv, HostTypes', Busy' <=> Busy, host' = host,
         UNCHANGED <<wire, generation, gate, load, api, untold>>
  PROVE  SessionInv'
BY DEF SessionInv, SessionTypes, AnswersAwaited, Follows, ToldAt, TrueFrom, Standing, Current

LEMMA HostRests ==
  ASSUME SessionInv, UNCHANGED <<host, life>>
  PROVE  /\ HostTypes'
         /\ call.at = call'.at => (Busy' <=> Busy)
         /\ {call.at, call'.at} \subseteq {"none", "sent", "ended"} => (Busy' <=> Busy)
<1>1. HostTypes'
  BY DEF SessionInv, SessionTypes, HostTypes
<1>2. (\E p \in Processes : Unsettled(p)) <=> (\E p \in Processes : Unsettled(p)')
  BY DEF Unsettled
<1> QED
  BY <1>1, <1>2 DEF Busy

\* The host does something that will be told.
LEMMA HostWorks ==
  ASSUME SessionInv, HostTypes', Busy', UNCHANGED <<wire, generation, gate, load, api>>
  PROVE  SessionInv'
BY DEF SessionInv, SessionTypes, AnswersAwaited, Follows

\* A start publishes its process.
LEMMA PublishedServes ==
  ASSUME HostTypes, Publishes, NEW rest \in [Processes -> {"none", "serving", "over"} \cup Recovering],
         \A p \in Processes : rest[p] # "none" => p <= host.process,
         life' = [rest EXCEPT ![host'.process] = "serving"]
  PROVE  HostTypes'
<1>1. /\ host' = [state |-> "ready", process |-> host.process + 1]
      /\ host.process + 1 \in Processes /\ host.process \in Nat
  BY SessionAssumption DEF Publishes, HostTypes, Processes
<1>2. PICK q \in Processes : q = host.process + 1
  BY <1>1
<1>3. host'.process = q /\ host'.state = "ready" /\ q \in 0..MaxProcesses
      /\ host' = [state |-> host'.state, process |-> host'.process]
  BY <1>1, <1>2, SessionAssumption DEF Processes
<1>4. /\ life' \in [Processes -> {"none", "serving", "over"} \cup Recovering]
      /\ life'[q] = "serving"
      /\ \A p \in Processes : p # q => life'[p] = rest[p]
  BY <1>2, <1>3
<1>5. ASSUME NEW p \in Processes, life'[p] # "none"
      PROVE  p <= q
  BY <1>1, <1>2, <1>4, <1>5, SessionAssumption DEF Processes
<1> QED
  BY <1>2, <1>3, <1>4, <1>5 DEF HostTypes

\* What happens to one process and its recovery, with the state that is left.
LEMMA OneMoves ==
  ASSUME HostTypes, NEW p \in Processes, life[p] # "none",
         NEW to \in {"serving", "over"} \cup Recovering, life' = [life EXCEPT ![p] = to],
         NEW s \in {"ready", "failed", "starting", "stopped"}, host' = [host EXCEPT !.state = s],
         s = "ready" => host.state = "ready" /\ (p = host.process => to \in {"serving", "head"})
  PROVE  /\ HostTypes' /\ life'[p] = to /\ host'.state = s
         /\ \A q \in Processes : q # p => life'[q] = life[q]
<1>1. /\ host'.state = s /\ host'.process = host.process
      /\ host' = [state |-> host'.state, process |-> host'.process]
  BY DEF HostTypes
<1>2. /\ life' \in [Processes -> {"none", "serving", "over"} \cup Recovering]
      /\ life'[p] = to /\ \A q \in Processes : q # p => life'[q] = life[q]
  BY DEF HostTypes
<1> QED
  BY <1>1, <1>2 DEF HostTypes

LEMMA HostLoses ==
  ASSUME SessionInv, NEW p \in Processes, ProcessEnds(p)
  PROVE  SessionInv'
<1>1. /\ life[p] = "serving" /\ life' = [life EXCEPT ![p] = "head"] /\ host' = host
      /\ UNCHANGED <<wire, generation, gate, load, api, untold, call>>
  BY DEF ProcessEnds, pageVars
<1>2. PICK s \in {"ready", "failed", "starting", "stopped"} : s = host.state
  BY DEF SessionInv, SessionTypes, HostTypes
<1>3. host' = [host EXCEPT !.state = s]
  BY <1>1, <1>2 DEF SessionInv, SessionTypes, HostTypes
<1>4. /\ HostTypes' /\ life'[p] = "head"
      /\ \A q \in Processes : q # p => life'[q] = life[q]
  BY <1>1, <1>2, <1>3, OneMoves DEF SessionInv, SessionTypes, Recovering
<1>5. CASE host.state # "stopped"
  <2>1. Busy'
    BY <1>1, <1>4, <1>5 DEF Busy, Unsettled
  <2> QED
    BY <1>1, <1>4, <2>1, HostWorks
<1>6. CASE host.state = "stopped"
  <2>1. \A q \in Processes : Unsettled(q)' <=> Unsettled(q)
    BY <1>1, <1>4, <1>6 DEF Unsettled
  <2>2. Busy' <=> Busy
    BY <1>1, <2>1 DEF Busy
  <2> QED
    BY <1>1, <1>4, <2>2, SessionStays
<1> QED
  BY <1>5, <1>6

LEMMA RecoveryGoesOn ==
  ASSUME SessionInv, NEW p \in Processes, RecoverLooks(p) \/ RecoverWakes(p) \/ RecoverStarts(p)
  PROVE  SessionInv'
<1>1. /\ UNCHANGED <<wire, generation, gate, load, api, untold, call>>
      /\ life[p] \in {"head", "asleep", "starting"} /\ HostTypes
  BY DEF RecoverLooks, RecoverWakes, RecoverStarts, pageVars, SessionInv, SessionTypes
<1>2. CASE RecoverLooks(p) /\ host.state = "stopped"
  <2>1. life[p] = "head" /\ life' = [life EXCEPT ![p] = "over"] /\ host' = host
    BY <1>2 DEF RecoverLooks
  <2>2. host' = [host EXCEPT !.state = "stopped"]
    BY <1>1, <1>2, <2>1 DEF HostTypes
  <2>3. /\ HostTypes' /\ life'[p] = "over"
        /\ \A q \in Processes : q # p => life'[q] = life[q]
    BY <1>1, <2>1, <2>2, OneMoves
  <2>4. \A q \in Processes : Unsettled(q)' <=> Unsettled(q)
    BY <1>2, <2>1, <2>3 DEF Unsettled
  <2>5. Busy' <=> Busy
    BY <1>1, <2>4 DEF Busy
  <2> QED
    BY <1>1, <2>1, <2>3, <2>5, SessionStays
<1>3. CASE /\ \E s \in {"failed", "starting"}, to \in {"head", "asleep", "starting", "telling"} :
                /\ host' = [host EXCEPT !.state = s]
                /\ life' = [life EXCEPT ![p] = to]
  <2>1. PICK s \in {"failed", "starting"}, to \in {"head", "asleep", "starting", "telling"} :
          host' = [host EXCEPT !.state = s] /\ life' = [life EXCEPT ![p] = to]
    BY <1>3
  <2>2. HostTypes' /\ life'[p] = to /\ host'.state = s
    BY <1>1, <2>1, OneMoves DEF Recovering
  <2>3. Busy'
    BY <2>2 DEF Busy, Unsettled
  <2> QED
    BY <1>1, <2>2, <2>3, HostWorks
<1>4. CASE /\ Publishes
           /\ life[p] = "starting"
           /\ life' = [life EXCEPT ![p] = "telling", ![host'.process] = "serving"]
  <2>1. PICK rest \in [Processes -> {"none", "serving", "over"} \cup Recovering] :
          rest = [life EXCEPT ![p] = "telling"]
    BY <1>1 DEF HostTypes, Recovering
  <2>2. life' = [rest EXCEPT ![host'.process] = "serving"]
    BY <1>4, <2>1
  <2>3. \A q \in Processes : rest[q] # "none" => q <= host.process
    BY <1>1, <1>4, <2>1 DEF HostTypes
  <2>4. HostTypes'
    BY <1>1, <1>4, <2>2, <2>3, PublishedServes
  <2>5. p # host'.process
    BY <1>1, <1>4, SessionAssumption DEF HostTypes, Publishes, Processes
  <2>6. life'[p] = "telling"
    BY <1>1, <2>1, <2>2, <2>5 DEF HostTypes
  <2>7. Busy'
    BY <2>6 DEF Busy, Unsettled
  <2> QED
    BY <1>1, <2>4, <2>7, HostWorks
<1> QED
  BY <1>2, <1>3, <1>4 DEF RecoverLooks, RecoverWakes, RecoverStarts

LEMMA RecoveryTells ==
  ASSUME SessionInv, NEW p \in Processes, RecoverTells(p)
  PROVE  SessionInv'
<1>1. /\ life[p] = "telling" /\ life' = [life EXCEPT ![p] = "over"] /\ host' = host
      /\ UNCHANGED <<generation, gate, load, api>> /\ HostTypes
      /\ IF listening THEN wire' = Append(wire, [kind |-> "event"]) /\ untold' = untold
                      ELSE untold' = TRUE /\ wire' = wire
  BY DEF SessionInv, SessionTypes, RecoverTells, Emit, Told, pageVars
<1>2. PICK s \in {"ready", "failed", "starting", "stopped"} : s = host.state
  BY <1>1 DEF HostTypes
<1>3. host' = [host EXCEPT !.state = s]
  BY <1>1, <1>2 DEF HostTypes
<1>4. s = "ready" => p # host.process
  BY <1>1, <1>2 DEF HostTypes
<1>5. HostTypes'
  BY <1>1, <1>2, <1>3, <1>4, OneMoves
<1>6. CASE ~listening
  BY <1>1, <1>5, <1>6 DEF SessionInv, SessionTypes, AnswersAwaited, Follows
<1>7. CASE listening
  <2>1. wire' = Append(wire, [kind |-> "event"]) /\ ~IsInfo([kind |-> "event"])
    BY <1>1, <1>7 DEF IsInfo
  <2>2. wire' \in Seq(Messages) /\ wire'[Len(wire) + 1] = [kind |-> "event"]
        /\ Len(wire) + 1 \in 1..Len(wire')
    BY <1>1, <2>1, WireGrows, MessageKinds DEF SessionInv
  <2>3. AnswersAwaited'
    BY <1>1, <2>1, AwaitedGrow, MessageKinds
  <2>4. SessionTypes'
    BY <1>1, <1>5, <2>2 DEF SessionInv, SessionTypes
  <2>5. IsReset(wire'[Len(wire) + 1])
    BY <2>2 DEF IsReset
  <2> QED
    BY <2>2, <2>3, <2>4, <2>5 DEF SessionInv, Follows
<1> QED
  BY <1>6, <1>7

\* The steps of stop and start for a command.
LEMMA CommandWorks ==
  ASSUME SessionInv, CallTypes,
         CommandStops \/ CommandStopped \/ CommandTries \/ CommandStarts \/ CommandFails
           \/ CommandRollsBack
  PROVE  SessionInv'
<1>1. HostTypes
  BY DEF SessionInv, SessionTypes
<1>2. UNCHANGED <<wire, generation, gate, load, api>>
  BY DEF CommandStops, CommandStopped, CommandTries, CommandStarts, CommandFails, CommandRollsBack,
         CommandGoes
<1>3. call'.at \in {"stopping", "stopped", "trying", "again", "ready", "failed"}
  <2>1. CASE \E from, place : CommandGoes(from, place) /\
               place \in {"stopping", "stopped", "trying", "again", "ready", "failed"}
    BY <2>1, CallPlaces DEF CommandGoes
  <2>2. CASE CommandRollsBack
    BY <2>2, CallPlaces DEF CommandRollsBack
  <2>3. CASE CommandTries \/ CommandStarts
    BY <2>1, <2>3 DEF CommandTries, CommandStarts
  <2> QED
    BY <2>1, <2>2, <2>3 DEF CommandStops, CommandStopped, CommandFails
<1>4. Busy'
  BY <1>3 DEF Busy
<1>5. HostTypes'
  <2>1. CASE life' = life /\ (host' = host \/ \E s \in {"failed", "starting", "stopped"} :
                                               host' = [host EXCEPT !.state = s])
    BY <1>1, <2>1 DEF HostTypes
  <2>2. CASE CommandStarts
    BY <1>1, <2>2, PublishedServes DEF CommandStarts, HostTypes
  <2> QED
    BY <2>1, <2>2 DEF CommandStops, CommandStopped, CommandTries, CommandFails, CommandRollsBack,
                      hostVars
<1> QED
  BY <1>2, <1>4, <1>5, HostWorks

LEMMA HostRefuses ==
  ASSUME SessionInv, CallTypes, CommandRefused
  PROVE  SessionInv'
<1> DEFINE m == [kind |-> "done", ok |-> FALSE]
<1>1. wire' = Append(wire, m) /\ UNCHANGED <<host, life, generation, gate, load, api, untold>>
  BY DEF CommandRefused, Told, hostVars
<1>11. HostTypes' /\ (Busy' <=> Busy)
  BY <1>1, HostRests, CallPlaces DEF CommandRefused
<1>2. m \in Messages /\ ~IsInfo(m)
  BY MessageKinds DEF IsInfo
<1> HIDE DEF m
<1>3. /\ Len(wire) \in Nat /\ Len(wire') = Len(wire) + 1 /\ wire' \in Seq(Messages)
      /\ \A i \in 1..Len(wire) : wire'[i] = wire[i]
      /\ wire'[Len(wire) + 1] = m
  BY <1>1, <1>2, WireGrows DEF SessionInv
<1>4. SessionTypes'
  BY <1>1, <1>3, <1>11 DEF SessionInv, SessionTypes
<1>5. AnswersAwaited'
  BY <1>1, <1>2, AwaitedGrow
<1>6. \A i \in 1..Len(wire) : i \in 1..Len(wire')
  BY <1>3
<1>7. \A i \in 1..Len(wire) + 1 : TrueFrom(i) => TrueFrom(i)'
  BY <1>1, <1>2, <1>3 DEF TrueFrom, Current
<1>8. \A i \in 1..Len(wire) : ToldAt(i) => ToldAt(i)'
  BY <1>1, <1>3, <1>7 DEF ToldAt
<1>9. Standing => Standing'
  BY <1>1, <1>3, <1>7 DEF Standing
<1>10. Follows'
  BY <1>1, <1>3, <1>6, <1>8, <1>9, <1>11 DEF SessionInv, Follows
<1> QED
  BY <1>4, <1>5, <1>10 DEF SessionInv

LEMMA CommandIsTold ==
  ASSUME SessionInv, CallTypes, CommandEnds
  PROVE  SessionInv'
<1>1. PICK ok \in BOOLEAN :
        /\ wire' = Append(wire, [kind |-> "done", ok |-> ok])
        /\ untold' = (untold \/ ~ok)
  <2>1. PICK ok \in BOOLEAN : ok <=> (call.at = "ready" /\ call.ok)
    OBVIOUS
  <2>2. (call.at = "ready" /\ call.ok) \in BOOLEAN
    BY DEF CallTypes
  <2> QED
    BY <2>1, <2>2 DEF CommandEnds, Told
<1> DEFINE m == [kind |-> "done", ok |-> ok]
<1>2. UNCHANGED <<host, life, generation, gate, load, api>>
  BY DEF CommandEnds, hostVars
<1>3. m \in Messages /\ ~IsInfo(m) /\ (ok => IsReset(m)) /\ wire' = Append(wire, m)
  BY <1>1, MessageKinds DEF IsInfo, IsReset
<1> HIDE DEF m
<1>4. HostTypes'
  BY <1>2, HostRests
<1>5. /\ Len(wire) + 1 \in 1..Len(wire') /\ wire' \in Seq(Messages)
      /\ wire'[Len(wire) + 1] = m
  BY <1>3, WireGrows DEF SessionInv
<1>6. SessionTypes'
  BY <1>2, <1>4, <1>5 DEF SessionInv, SessionTypes
<1>7. AnswersAwaited'
  BY <1>2, <1>3, AwaitedGrow
<1>8. Follows'
  BY <1>1, <1>3, <1>5 DEF Follows
<1> QED
  BY <1>6, <1>7, <1>8 DEF SessionInv

LEMMA HostTells ==
  ASSUME SessionInv, NEW g \in Generations, HostAnswers(g)
  PROVE  SessionInv'
<1> DEFINE m == [kind |-> "info", to |-> g, process |-> Current]
<1>1. /\ load[g].at = "asking" /\ wire' = Append(wire, m)
      /\ load' = [load EXCEPT ![g].at = "asked"]
      /\ untold' = (untold /\ g # generation)
      /\ UNCHANGED <<host, life, call, generation, gate, api>>
  BY DEF HostAnswers, Told, hostVars, Current
<1>11. HostTypes' /\ (Busy' <=> Busy)
  BY <1>1, HostRests
<1>2. Current \in Nat /\ m \in Messages /\ IsInfo(m) /\ m.to = g /\ m.process = Current
  BY MessageKinds DEF SessionInv, SessionTypes, HostTypes, Current, IsInfo
<1> HIDE DEF m
<1>3. /\ Len(wire) \in Nat /\ Len(wire') = Len(wire) + 1 /\ wire' \in Seq(Messages)
      /\ \A i \in 1..Len(wire) : wire'[i] = wire[i]
      /\ wire'[Len(wire) + 1] = m
  BY <1>1, <1>2, WireGrows DEF SessionInv
<1>4. /\ load' \in [Generations -> [at: {"idle", "asking", "asked", "meta"}, from: Nat,
                                    again: BOOLEAN]]
      /\ load'[g].at = "asked"
      /\ \A h \in Generations : h # g => load'[h] = load[h]
  BY <1>1 DEF SessionInv, SessionTypes
<1>5. SessionTypes'
  BY <1>1, <1>3, <1>4, <1>11 DEF SessionInv, SessionTypes
<1>6. \A i \in 1..Len(wire) : IsInfo(wire[i]) => wire[i].to \in Generations /\ wire[i].to # g
  <2>1. \A i \in 1..Len(wire) : wire[i] \in Messages
    BY DEF SessionInv, SessionTypes
  <2> QED
    BY <2>1, <1>1, MessageKinds DEF SessionInv, AnswersAwaited
<1>7. \A i \in 1..Len(wire') : i \in 1..Len(wire) \/ i = Len(wire) + 1
  BY <1>3
<1>8. AnswersAwaited'
  <2>1. \A h \in Generations : h > generation => load[h].at = "idle"
    BY DEF SessionInv, AnswersAwaited
  <2>2. \A h \in Generations : h > generation' => load'[h].at = "idle"
    BY <1>1, <1>4, <2>1
  <2>3. ASSUME NEW i \in 1..Len(wire'), IsInfo(wire'[i])
        PROVE  load'[wire'[i].to].at = "asked"
    <3>1. CASE i \in 1..Len(wire)
      BY <1>3, <1>4, <1>6, <2>3, <3>1 DEF SessionInv, AnswersAwaited, IsInfo
    <3>2. CASE i = Len(wire) + 1
      BY <1>2, <1>3, <1>4, <3>2 DEF IsInfo
    <3> QED
      BY <1>7, <3>1, <3>2
  <2>4. ASSUME NEW i \in 1..Len(wire'), NEW j \in 1..Len(wire'),
               IsInfo(wire'[i]), IsInfo(wire'[j]), wire'[i].to = wire'[j].to
        PROVE  i = j
    <3>1. CASE i \in 1..Len(wire) /\ j \in 1..Len(wire)
      BY <1>3, <2>4, <3>1 DEF SessionInv, AnswersAwaited
    <3>2. CASE ~(i \in 1..Len(wire) /\ j \in 1..Len(wire))
      BY <1>2, <1>3, <1>6, <1>7, <2>4, <3>2
    <3> QED
      BY <3>1, <3>2
  <2> QED
    BY <2>2, <2>3, <2>4 DEF AnswersAwaited
<1>9. \A i \in 1..Len(wire) + 1 : TrueFrom(i) => TrueFrom(i)'
  BY <1>1, <1>2, <1>3 DEF TrueFrom, Current
<1>10. Follows'
  <2>1. CASE g = generation
    <3>1. PICK n \in Nat : n = Len(wire) + 1
      BY <1>3
    <3>2. n..Len(wire') = {n} /\ wire'[n] = m
      BY <1>3, <3>1
    <3>3. TrueFrom(n)'
      BY <1>1, <1>2, <3>2 DEF TrueFrom, Current
    <3>4. ToldAt(n)'
      BY <1>1, <1>2, <3>2, <3>3, <2>1 DEF ToldAt, IsInfo
    <3>5. n \in 1..Len(wire') /\ load'[generation'].at = "asked"
      BY <1>1, <1>3, <1>4, <2>1, <3>1
    <3> QED
      BY <3>4, <3>5 DEF Follows
  <2>2. CASE g # generation
    <3>1. load'[generation'] = load[generation] /\ (~untold' => ~untold)
      BY <1>1, <1>4, <2>2 DEF SessionInv, SessionTypes
    <3>2. \A i \in 1..Len(wire) : i \in 1..Len(wire')
      BY <1>3
    <3>3. \A i \in 1..Len(wire) : ToldAt(i) => ToldAt(i)'
      BY <1>1, <1>3, <1>9 DEF ToldAt
    <3>4. Standing => Standing'
      BY <1>1, <1>3, <1>9, <3>1 DEF Standing
    <3> QED
      BY <1>1, <1>3, <1>11, <3>1, <3>2, <3>3, <3>4 DEF SessionInv, Follows
  <2> QED
    BY <2>1, <2>2
<1> QED
  BY <1>5, <1>8, <1>10 DEF SessionInv

\* A message that makes the page read the connection again.
LEMMA PageReconnects ==
  ASSUME SessionInv, NEW m, Handle(m), ~IsInfo(m), Reconnect, UNCHANGED <<host, life>>
  PROVE  SessionInv'
<1>1. api' = 0 /\ NextGeneration(load)
  BY DEF Reconnect
<1>2. load \in [Generations -> [at: {"idle", "asking", "asked", "meta"}, from: Nat,
                                again: BOOLEAN]]
  BY DEF SessionInv, SessionTypes
<1>3. /\ generation' \in Generations
      /\ load' \in [Generations -> [at: {"idle", "asking", "asked", "meta"}, from: Nat,
                                    again: BOOLEAN]]
      /\ load'[generation'].at = "asking"
      /\ \A g \in Generations : g > generation' => load'[g].at = "idle"
      /\ \A g \in Generations : load[g].at = "asked" => load'[g].at = "asked"
  BY <1>1, <1>2, NextAsks
<1>4. /\ Len(wire) \in Nat \ {0} /\ Len(wire') = Len(wire) - 1 /\ wire' \in Seq(Messages)
      /\ \A i \in 1..Len(wire') : i + 1 \in 1..Len(wire) /\ wire'[i] = wire[i + 1]
  BY WireShrinks DEF SessionInv
<1>7. HostTypes'
  BY HostRests
<1>5. SessionTypes'
  BY <1>1, <1>3, <1>4, <1>7 DEF SessionInv, SessionTypes
<1>6. AnswersAwaited'
  <2>1. ASSUME NEW i \in 1..Len(wire'), IsInfo(wire'[i])
        PROVE  load'[wire'[i].to].at = "asked"
    <3>1. i + 1 \in 1..Len(wire) /\ wire'[i] = wire[i + 1] /\ wire[i + 1] \in Messages
      BY <1>4 DEF SessionInv, SessionTypes
    <3>2. wire[i + 1].to \in Generations /\ load[wire[i + 1].to].at = "asked"
      BY <2>1, <3>1, MessageKinds DEF SessionInv, AnswersAwaited
    <3> QED
      BY <1>3, <3>1, <3>2
  <2>2. ASSUME NEW i \in 1..Len(wire'), NEW j \in 1..Len(wire'),
               IsInfo(wire'[i]), IsInfo(wire'[j]), wire'[i].to = wire'[j].to
        PROVE  i = j
    <3>1. /\ i + 1 \in 1..Len(wire) /\ wire'[i] = wire[i + 1]
          /\ j + 1 \in 1..Len(wire) /\ wire'[j] = wire[j + 1]
      BY <1>4
    <3>2. /\ IsInfo(wire[i + 1]) /\ IsInfo(wire[j + 1])
          /\ wire[i + 1].to = wire[j + 1].to
      BY <2>2, <3>1 DEF IsInfo
    <3>3. i + 1 = j + 1
      BY <3>1, <3>2 DEF SessionInv, AnswersAwaited
    <3> QED
      BY <3>3
  <2> QED
    BY <1>3, <2>1, <2>2 DEF AnswersAwaited
<1> QED
  BY <1>3, <1>5, <1>6, PageAsks

\* A query function fails.
LEMMA FailureShapes ==
  ASSUME SessionTypes, NEW g \in Generations, Failed(g)
  PROVE  /\ load' \in [Generations -> [at: {"idle", "asking", "asked", "meta"}, from: Nat,
                                       again: BOOLEAN]]
         /\ \A h \in Generations : h # g => load'[h] = load[h]
         /\ load'[g].at \in {"idle", "asking"}
         /\ g # generation => load'[g].at = "idle" /\ gate' = gate
         /\ g = generation /\ load'[g].at = "idle" => gate' = "error"
<1>1. Loading(TRUE) \in [at: {"idle", "asking", "asked", "meta"}, from: Nat, again: BOOLEAN]
      /\ Loading(TRUE).at = "asking"
  BY DEF Loading
<1>2. NoLoad \in [at: {"idle", "asking", "asked", "meta"}, from: Nat, again: BOOLEAN]
      /\ NoLoad.at = "idle"
  BY DEF NoLoad
<1>3. CASE g = generation /\ ~load[g].again
  BY <1>1, <1>3 DEF Failed, SessionTypes
<1>4. CASE ~(g = generation /\ ~load[g].again)
  BY <1>2, <1>4 DEF Failed, SessionTypes
<1> QED
  BY <1>3, <1>4

\* The answer of the host arrives.
LEMMA PageIsTold ==
  ASSUME SessionInv, NEW g \in Generations, NEW p \in 0..MaxProcesses,
         Handle([kind |-> "info", to |-> g, process |-> p]),
         IF p = 0 THEN Failed(g) /\ UNCHANGED api
         ELSE /\ api' = p
              /\ load' = [load EXCEPT ![g] = [at |-> "meta", from |-> p, again |-> @.again]]
              /\ UNCHANGED gate,
         UNCHANGED <<host, life, call, generation, untold>>
  PROVE  SessionInv'
<1> DEFINE m == [kind |-> "info", to |-> g, process |-> p]
<1>1. IsInfo(m) /\ m.to = g /\ m.process = p /\ p \in Nat
  BY DEF IsInfo
<1>2. Handle(m)
  OBVIOUS
<1>11. HostTypes' /\ (Busy' <=> Busy)
  BY HostRests
<1> HIDE DEF m
<1>3. /\ Len(wire) \in Nat \ {0} /\ Len(wire') = Len(wire) - 1 /\ wire' \in Seq(Messages)
      /\ \A i \in 1..Len(wire') : i + 1 \in 1..Len(wire) /\ wire'[i] = wire[i + 1]
      /\ wire[1] = m /\ 1 \in 1..Len(wire)
  BY <1>2, WireShrinks DEF SessionInv
<1>4. load[g].at = "asked"
  BY <1>1, <1>3 DEF SessionInv, AnswersAwaited
<1>5. g <= generation
  BY <1>4, LoadsAreUpTo
<1>6. /\ load' \in [Generations -> [at: {"idle", "asking", "asked", "meta"}, from: Nat,
                                    again: BOOLEAN]]
      /\ \A h \in Generations : h # g => load'[h] = load[h]
      /\ p # 0 => load'[g].at = "meta" /\ load'[g].from = p
  <2>1. CASE p = 0
    BY <2>1, FailureShapes DEF SessionInv
  <2>2. CASE p # 0
    <3>1. PICK l : l = [at |-> "meta", from |-> p, again |-> load[g].again]
      OBVIOUS
    <3>2. load[g].again \in BOOLEAN
      BY DEF SessionInv, SessionTypes
    <3>3. /\ l \in [at: {"idle", "asking", "asked", "meta"}, from: Nat, again: BOOLEAN]
          /\ l.at = "meta" /\ l.from = p
      BY <1>1, <3>1, <3>2
    <3>4. load' = [load EXCEPT ![g] = l]
      BY <2>2, <3>1
    <3> QED
      BY <3>3, <3>4 DEF SessionInv, SessionTypes
  <2> QED
    BY <2>1, <2>2
<1>7. SessionTypes'
  BY <1>1, <1>3, <1>6, <1>11 DEF SessionInv, SessionTypes
<1>8. ASSUME NEW i \in 1..Len(wire'), IsInfo(wire'[i])
      PROVE  wire'[i].to \in Generations /\ wire'[i].to # g
  <2>1. i + 1 \in 1..Len(wire) /\ wire'[i] = wire[i + 1] /\ wire[i + 1] \in Messages
    BY <1>3 DEF SessionInv, SessionTypes
  <2>2. wire[i + 1].to # g
    BY <1>1, <1>3, <1>8, <2>1 DEF SessionInv, AnswersAwaited, IsInfo
  <2> QED
    BY <1>8, <2>1, <2>2, MessageKinds
<1>9. AnswersAwaited'
  <2>1. ASSUME NEW h \in Generations, h > generation
        PROVE  load'[h].at = "idle"
    <3>1. h # g
      BY <1>5, <2>1, LoadsAreUpTo
    <3> QED
      BY <1>6, <2>1, <3>1, LoadsAreUpTo
  <2>2. ASSUME NEW i \in 1..Len(wire'), IsInfo(wire'[i])
        PROVE  load'[wire'[i].to].at = "asked"
    <3>1. load[wire'[i].to].at = "asked"
      BY <1>3, <2>2 DEF SessionInv, AnswersAwaited, IsInfo
    <3> QED
      BY <1>6, <1>8, <2>2, <3>1
  <2>3. ASSUME NEW i \in 1..Len(wire'), NEW j \in 1..Len(wire'),
               IsInfo(wire'[i]), IsInfo(wire'[j]), wire'[i].to = wire'[j].to
        PROVE  i = j
    <3>1. i + 1 = j + 1
      BY <1>3, <2>3 DEF SessionInv, AnswersAwaited, IsInfo
    <3> QED
      BY <3>1, <1>3
  <2> QED
    BY <2>1, <2>2, <2>3 DEF AnswersAwaited
<1>10. Follows'
  <2> SUFFICES ASSUME ~untold, ~Busy,
                      load'[generation].at # "asking",
                      ~\E i \in 1..Len(wire) : IsReset(wire[i])
               PROVE  \/ load'[generation].at = "asked" /\ \E i \in 1..Len(wire') : ToldAt(i)'
                      \/ load'[generation].at \in {"idle", "meta"} /\ Standing'
    <3>1. ~IsReset(m)
      BY <1>1 DEF IsReset, IsInfo
    <3>2. ASSUME NEW i \in 1..Len(wire), IsReset(wire[i])
          PROVE  \E k \in 1..Len(wire') : IsReset(wire'[k])
      <4>1. i # 1 /\ i - 1 \in 1..Len(wire') /\ (i - 1) + 1 = i
        BY <1>3, <3>1, <3>2
      <4>2. PICK k \in 1..Len(wire') : k = i - 1
        BY <4>1
      <4>3. wire'[k] = wire[i]
        BY <1>3, <4>1, <4>2
      <4> QED
        BY <3>2, <4>3
    <3> QED
      BY <1>11, <3>2 DEF Follows
  <2>1. CASE g = generation
    <3>1. PICK i \in 1..Len(wire) : ToldAt(i)
      BY <1>4, <2>1 DEF SessionInv, Follows
    <3>2. i = 1
      BY <1>1, <1>3, <2>1, <3>1 DEF SessionInv, AnswersAwaited, ToldAt
    <3>3. TrueFrom(1) /\ p = Current
      BY <1>1, <1>3, <3>1, <3>2 DEF ToldAt, TrueFrom
    <3>4. TrueFrom(1)'
      BY <1>3, <3>3 DEF TrueFrom, Current, IsInfo
    <3>5. CASE p = 0
      <4>1. host.state # "ready"
        BY <3>3, <3>5 DEF Current, SessionInv, SessionTypes, HostTypes, Processes
      <4>2. load'[generation].at = "idle" /\ gate' = "error"
        BY <2>1, <3>5, FailureShapes DEF SessionInv
      <4> QED
        BY <3>4, <4>1, <4>2 DEF Standing
    <3>6. CASE p # 0
      <4>1. host.state = "ready" /\ host.process = p
        BY <3>3, <3>6 DEF Current
      <4> QED
        BY <1>6, <2>1, <3>4, <3>6, <4>1 DEF Standing
    <3> QED
      BY <3>5, <3>6
  <2>2. CASE g # generation
    <3>1. load'[generation] = load[generation] /\ gate' = gate
      BY <1>6, <2>2, FailureShapes DEF SessionInv, SessionTypes
    <3>2. ASSUME NEW i \in 1..Len(wire), ToldAt(i)
          PROVE  \E k \in 1..Len(wire') : ToldAt(k)'
      <4>1. i # 1 /\ i - 1 \in 1..Len(wire') /\ (i - 1) + 1 = i
        BY <1>1, <1>3, <2>2, <3>2 DEF ToldAt
      <4>2. PICK k \in 1..Len(wire') : k = i - 1
        BY <4>1
      <4>3. wire'[k] = wire[i]
        BY <1>3, <4>1, <4>2
      <4>4. \A j \in k..Len(wire') : j + 1 \in i..Len(wire) /\ wire'[j] = wire[j + 1]
        BY <1>3, <4>1, <4>2
      <4>5. TrueFrom(k)'
        BY <3>2, <4>4 DEF ToldAt, TrueFrom, Current, IsInfo
      <4> QED
        BY <3>2, <4>3, <4>5 DEF ToldAt, IsInfo
    <3>3. Standing => Standing'
      <4> SUFFICES ASSUME Standing
                   PROVE  Standing'
        OBVIOUS
      <4>1. TrueFrom(1)' /\ p = Current
        BY <1>1, <1>3 DEF Standing, TrueFrom, Current, IsInfo
      <4>2. host.state = "ready" => p # 0 /\ api' = host.process
        BY <4>1 DEF Current, SessionInv, SessionTypes, HostTypes, Processes
      <4> QED
        BY <3>1, <4>1, <4>2 DEF Standing
    <3> QED
      BY <3>1, <3>2, <3>3 DEF SessionInv, Follows
  <2> QED
    BY <2>1, <2>2
<1> QED
  BY <1>7, <1>9, <1>10 DEF SessionInv

LEMMA MetaIsAnswered ==
  ASSUME SessionInv, NEW g \in Generations, MetaArrives(g)
  PROVE  SessionInv'
<1>1. /\ load[g].at = "meta"
      /\ UNCHANGED <<host, life, call, wire, generation, api, untold>>
      /\ IF Alive(load[g].from)
         THEN load' = [load EXCEPT ![g] = NoLoad] /\ gate' = IF g = generation THEN "open" ELSE gate
         ELSE Failed(g)
  BY DEF MetaArrives, hostVars
<1>11. HostTypes' /\ (Busy' <=> Busy)
  BY <1>1, HostRests
<1>2. g <= generation
  BY <1>1, LoadsAreUpTo
<1>3. /\ load' \in [Generations -> [at: {"idle", "asking", "asked", "meta"}, from: Nat,
                                    again: BOOLEAN]]
      /\ \A h \in Generations : h # g => load'[h] = load[h]
      /\ load'[g].at \in {"idle", "asking"}
  <2>1. NoLoad \in [at: {"idle", "asking", "asked", "meta"}, from: Nat, again: BOOLEAN]
        /\ NoLoad.at = "idle"
    BY DEF NoLoad
  <2>2. CASE Alive(load[g].from)
    BY <1>1, <2>1, <2>2 DEF SessionInv, SessionTypes
  <2>3. CASE ~Alive(load[g].from)
    BY <1>1, <2>3, FailureShapes DEF SessionInv
  <2> QED
    BY <2>2, <2>3
<1>4. SessionTypes'
  BY <1>1, <1>3, <1>11 DEF SessionInv, SessionTypes
<1>5. AnswersAwaited'
  <2>1. ASSUME NEW h \in Generations, h > generation
        PROVE  load'[h].at = "idle"
    <3>1. h # g
      BY <1>2, <2>1, LoadsAreUpTo
    <3> QED
      BY <1>3, <2>1, <3>1, LoadsAreUpTo
  <2>2. ASSUME NEW i \in 1..Len(wire), IsInfo(wire[i])
        PROVE  load'[wire[i].to].at = "asked"
    <3>1. load[wire[i].to].at = "asked" /\ wire[i].to \in Generations
      BY <2>2, MessageKinds DEF SessionInv, AnswersAwaited, SessionTypes
    <3> QED
      BY <1>1, <1>3, <3>1
  <2> QED
    BY <1>1, <2>1, <2>2 DEF SessionInv, AnswersAwaited
<1>6. \A i \in 1..Len(wire) : TrueFrom(i) => TrueFrom(i)'
  BY <1>1 DEF TrueFrom, Current
<1>7. Follows'
  <2>1. CASE g # generation
    <3>1. load'[generation] = load[generation]
      BY <1>3, <2>1 DEF SessionInv, SessionTypes
    <3>2. gate' = gate
      BY <1>1, <2>1, FailureShapes DEF SessionInv
    <3>3. \A i \in 1..Len(wire) : ToldAt(i) => ToldAt(i)'
      BY <1>1 DEF ToldAt, TrueFrom, Current
    <3>4. Standing => Standing'
      BY <1>1, <3>1, <3>2 DEF Standing, TrueFrom, Current
    <3> QED
      BY <1>1, <1>11, <3>1, <3>3, <3>4 DEF SessionInv, Follows
  <2>2. CASE g = generation
    <3> SUFFICES ASSUME ~untold, ~Busy, load'[generation].at = "idle",
                        ~\E i \in 1..Len(wire) : IsReset(wire[i])
                 PROVE  Standing'
      BY <1>1, <1>3, <1>11, <2>2 DEF Follows
    <3>1. Standing
      BY <1>1, <2>2 DEF SessionInv, Follows
    <3>2. host.state = "ready" /\ load[g].from = host.process
      BY <1>1, <2>2, <3>1 DEF Standing
    <3>3. life[host.process] = "serving"
      BY <3>2 DEF Busy, Unsettled, SessionInv, SessionTypes, HostTypes
    <3>4. Alive(load[g].from)
      BY <3>2, <3>3 DEF Alive, SessionInv, SessionTypes, HostTypes
    <3>5. gate' = "open"
      BY <1>1, <2>2, <3>4
    <3> QED
      BY <1>1, <3>1, <3>2, <3>5 DEF Standing, TrueFrom, Current
  <2> QED
    BY <2>1, <2>2
<1> QED
  BY <1>4, <1>5, <1>7 DEF SessionInv

LEMMA TokenIsRefused ==
  ASSUME SessionInv, Unauthorized
  PROVE  SessionInv'
<1>1. PICK from : /\ NextGeneration(from)
                  /\ \/ from = load
                     \/ \E g \in Generations :
                          load[g].at = "meta" /\ from = [load EXCEPT ![g] = NoLoad]
  BY DEF Unauthorized
<1>2. UNCHANGED <<host, life, wire, api>> /\ HostTypes'
  BY HostRests DEF Unauthorized
<1>3. /\ from \in [Generations -> [at: {"idle", "asking", "asked", "meta"}, from: Nat,
                                   again: BOOLEAN]]
      /\ \A g \in Generations : from[g] = load[g] \/ (load[g].at = "meta" /\ from[g] = NoLoad)
  <2>1. NoLoad \in [at: {"idle", "asking", "asked", "meta"}, from: Nat, again: BOOLEAN]
    BY DEF NoLoad
  <2> QED
    BY <1>1, <2>1 DEF SessionInv, SessionTypes
<1>4. /\ generation' \in Generations
      /\ load' \in [Generations -> [at: {"idle", "asking", "asked", "meta"}, from: Nat,
                                    again: BOOLEAN]]
      /\ load'[generation'].at = "asking"
      /\ \A g \in Generations : g > generation' => load'[g].at = "idle"
      /\ \A g \in Generations : load[g].at = "asked" => load'[g].at = "asked"
  BY <1>1, <1>3, NextAsks
<1>5. SessionTypes'
  BY <1>2, <1>4 DEF SessionInv, SessionTypes
<1>6. ASSUME NEW i \in 1..Len(wire), IsInfo(wire[i])
      PROVE  load'[wire[i].to].at = "asked"
  <2>1. load[wire[i].to].at = "asked" /\ wire[i].to \in Generations
    BY <1>6, MessageKinds DEF SessionInv, AnswersAwaited, SessionTypes
  <2> QED
    BY <1>4, <2>1
<1>7. AnswersAwaited'
  BY <1>2, <1>4, <1>6 DEF SessionInv, AnswersAwaited
<1> QED
  BY <1>4, <1>5, <1>7, PageAsks

LEMMA CommandsReturn ==
  ASSUME SessionInv, RecoverReturns \/ OpenReturns
  PROVE  SessionInv'
<1> DEFINE refused == [kind |-> "done", ok |-> FALSE]
<1>1. /\ refused \in Messages /\ ~IsInfo(refused) /\ ~IsReset(refused)
      /\ ~IsInfo([kind |-> "done", ok |-> TRUE])
  BY MessageKinds DEF IsInfo, IsReset
<1>5. HostTypes' /\ (Busy' <=> Busy) /\ UNCHANGED <<host, life>>
  <2>1. UNCHANGED <<host, life>>
    BY DEF RecoverReturns, OpenReturns, hostVars
  <2>2. call.at = "ended" /\ call' = NoCall
    BY DEF RecoverReturns, OpenReturns
  <2>3. call'.at = "none"
    BY <2>2 DEF NoCall
  <2> QED
    BY <2>1, <2>2, <2>3, HostRests
<1>2. CASE Handle(refused) /\ UNCHANGED <<host, generation, gate, load, api, untold>>
  <2> HIDE DEF refused
  <2>1. /\ Len(wire) \in Nat \ {0} /\ Len(wire') = Len(wire) - 1 /\ wire' \in Seq(Messages)
        /\ \A i \in 1..Len(wire') : i + 1 \in 1..Len(wire) /\ wire'[i] = wire[i + 1]
        /\ wire[1] = refused
    BY <1>2, WireShrinks DEF SessionInv
  <2>2. SessionTypes'
    BY <1>2, <1>5, <2>1 DEF SessionInv, SessionTypes
  <2>3. AnswersAwaited'
    BY <1>1, <1>2, AwaitedShrink
  <2>4. ASSUME NEW i \in 1..Len(wire), wire[i] # refused
        PROVE  \E k \in 1..Len(wire') : wire'[k] = wire[i] /\ (TrueFrom(i) => TrueFrom(k)')
    <3>1. i # 1 /\ i - 1 \in 1..Len(wire') /\ (i - 1) + 1 = i
      BY <2>1, <2>4
    <3>2. PICK k \in 1..Len(wire') : k = i - 1
      BY <3>1
    <3>3. wire'[k] = wire[i]
      BY <2>1, <3>1, <3>2
    <3>4. \A j \in k..Len(wire') : j + 1 \in i..Len(wire) /\ wire'[j] = wire[j + 1]
      BY <2>1, <3>1, <3>2
    <3>5. TrueFrom(i) => TrueFrom(k)'
      BY <1>2, <3>4 DEF TrueFrom, Current, IsInfo
    <3> QED
      BY <3>3, <3>5
  <2>5. ASSUME NEW i \in 1..Len(wire), IsReset(wire[i])
        PROVE  \E k \in 1..Len(wire') : IsReset(wire'[k])
    <3>1. wire[i] # refused
      BY <1>1, <2>5
    <3>2. PICK k \in 1..Len(wire') : wire'[k] = wire[i]
      BY <2>4, <3>1
    <3> QED
      BY <2>5, <3>2
  <2>6. ASSUME NEW i \in 1..Len(wire), ToldAt(i)
        PROVE  \E k \in 1..Len(wire') : ToldAt(k)'
    <3>1. wire[i] # refused
      BY <1>1, <2>6 DEF ToldAt
    <3>2. PICK k \in 1..Len(wire') : wire'[k] = wire[i] /\ (TrueFrom(i) => TrueFrom(k)')
      BY <2>4, <3>1
    <3> QED
      BY <1>2, <2>6, <3>2 DEF ToldAt, IsInfo
  <2>7. TrueFrom(1) => TrueFrom(1)'
    BY <1>2, <2>1 DEF TrueFrom, Current, IsInfo
  <2>8. Standing => Standing'
    BY <1>2, <2>7 DEF Standing
  <2>9. Follows'
    BY <1>2, <1>5, <2>5, <2>6, <2>8 DEF SessionInv, Follows
  <2> QED
    BY <2>2, <2>3, <2>9 DEF SessionInv
<1>3. CASE Handle([kind |-> "done", ok |-> TRUE]) /\ Reconnect /\ UNCHANGED host
  BY <1>1, <1>3, <1>5, PageReconnects
<1>4. CASE /\ wire' = <<>> /\ generation' = 0 /\ api' = 0 /\ UNCHANGED host
           /\ load' = [g \in Generations |-> IF g = 0 THEN Loading(FALSE) ELSE NoLoad]
  <2>1. 0 \in Generations
    BY SessionAssumption DEF Generations
  <2>2. SessionTypes'
    BY <1>4, <1>5, <2>1 DEF SessionInv, SessionTypes, Loading, NoLoad
  <2>3. AnswersAwaited'
    BY <1>4, <2>1 DEF AnswersAwaited, Loading, NoLoad, Generations
  <2>4. load'[generation'].at = "asking"
    BY <1>4, <2>1 DEF Loading
  <2> QED
    BY <2>2, <2>3, <2>4, PageAsks
<1> QED
  BY <1>2, <1>3, <1>4 DEF RecoverReturns, OpenReturns, hostVars

LEMMA SessionStep == SessionInv /\ CallTypes /\ [SessionNext]_sessionVars => SessionInv'
<1> SUFFICES ASSUME SessionInv, CallTypes, [SessionNext]_sessionVars
             PROVE  SessionInv'
  OBVIOUS
<1>1. CASE UNCHANGED sessionVars
  BY <1>1, HostRests, SessionStays DEF sessionVars, hostVars, pageVars
<1>2. CASE ListenersRegister \/ Recover \/ OpenWorkspace
  <2>1. /\ UNCHANGED <<host, life, wire, generation, gate, load, api, untold>>
        /\ call'.at = call.at \/ (call.at = "none" /\ call'.at = "sent")
    BY <1>2 DEF ListenersRegister, Recover, OpenWorkspace, Command, pageVars, NoCall
  <2> QED
    BY <2>1, HostRests, SessionStays
<1>3. CASE EventArrives
  BY <1>3, PageReconnects DEF EventArrives, hostVars, IsInfo
<1>4. CASE InfoArrives
  BY <1>4, PageIsTold DEF InfoArrives, hostVars
<1>5. CASE \E g \in Generations : HostAnswers(g) \/ MetaArrives(g)
  BY <1>5, HostTells, MetaIsAnswered
<1>6. CASE \E p \in Processes : ProcessEnds(p) \/ Recovers(p)
  BY <1>6, HostLoses, RecoveryGoesOn, RecoveryTells DEF Recovers
<1>7. CASE CommandRuns
  BY <1>7, HostRefuses, CommandWorks, CommandIsTold DEF CommandRuns
<1> QED
  BY <1>1, <1>2, <1>3, <1>4, <1>5, <1>6, <1>7, TokenIsRefused, CommandsReturn
     DEF SessionNext, HostStep, PageStep

\* When nothing is under way the gate and the client follow the host, for any
\* number of processes, recoveries beside commands, generations, refused tokens and
\* lost events (BackendContext, sidecar_manager.rs).
THEOREM QuietGateAlwaysAgrees == SessionSpec => []QuietGateAgrees
<1>1. SessionInv => QuietGateAgrees
  <2> SUFFICES ASSUME SessionInv, WireIsQuiet, ~untold
               PROVE  IF host.state = "ready" THEN gate = "open" /\ api = host.process /\ Alive(api)
                                              ELSE gate = "error"
    BY DEF QuietGateAgrees
  <2>1. Len(wire) = 0 /\ load[generation].at = "idle"
    BY DEF WireIsQuiet, SessionInv, SessionTypes, NoLoad
  <2>2. ~Busy
    BY DEF WireIsQuiet, Busy, Unsettled, Recovering, NoCall
  <2>3. Standing
    BY <2>1, <2>2 DEF SessionInv, Follows
  <2>4. host.state = "ready" => Alive(host.process)
    BY DEF Alive, WireIsQuiet, Recovering, SessionInv, SessionTypes, HostTypes
  <2> QED
    BY <2>1, <2>3, <2>4 DEF Standing
<1>2. SessionInv /\ CallTypes /\ [SessionNext]_sessionVars => (SessionInv /\ CallTypes)'
  BY SessionStep, CallStep
<1> QED
  BY <1>1, <1>2, SessionStarts, CallStarts, PTL DEF SessionSpec

-----------------------------------------------------------------------------
(* The page's jobs: what the page holds of a job is what the job was.      *)

AllJobs == [state: {"queued", "running"} \cup Ends, step: Nat]

\* What the service answered at some time: an end, if it is one, is the job's.
Was(item) == item = NoJob \/ (item \in AllJobs /\ (HasEnded(item) => item = job))

ViewTypes ==
  /\ job \in AllJobs
  /\ effect \in BOOLEAN /\ list \in BOOLEAN
  /\ poll = [at |-> poll.at, item |-> poll.item, again |-> poll.again]
  /\ poll.at = "answered" => poll.item # NoJob
  /\ cancel = [at |-> cancel.at, item |-> cancel.item]
  /\ cancel.at = "answered" => cancel.item # NoJob
  /\ stream = [at |-> stream.at, sent |-> stream.sent, events |-> stream.events]
  /\ stream.events \in Seq(AllJobs)
  /\ listPoll = [at |-> listPoll.at, effect |-> listPoll.effect]
  /\ listPoll.effect \in BOOLEAN

Copies ==
  /\ Was(shown) /\ Was(poll.item) /\ Was(cancel.item)
  /\ \A i \in 1..Len(stream.events) : Was(stream.events[i])

\* The work of a job shows when the job has ended and not before.
EffectIsOfEnd == effect <=> HasEnded(job) /\ Changes(job.state)

\* An end that is shown, and that the screen reads its list after, is in the
\* list, or is in an answer under way, or will be asked for.
ListFollowsJob ==
  /\ list => effect
  /\ listPoll.effect => effect
  /\ HasEnded(shown) /\ Reloads(shown.state) =>
       \/ listPoll.at = "sent"
       \/ listPoll.at = "answered" /\ listPoll.effect = effect
       \/ listPoll.at = "idle" /\ list = effect

ViewInv == ViewTypes /\ Copies /\ EffectIsOfEnd /\ ListFollowsJob

LEMMA JobKinds ==
  /\ NoJob \notin AllJobs
  /\ \A item \in AllJobs : item # NoJob /\ (IsActive(item) <=> ~HasEnded(item))
                           /\ (HasEnded(item) <=> item.state \in Ends)
BY ViewAssumption DEF AllJobs, IsActive, HasEnded, Ends

LEMMA ViewStarts == ViewInit => ViewInv
<1> SUFFICES ASSUME ViewInit
             PROVE  ViewInv
  OBVIOUS
<1>1. job \in AllJobs /\ ~HasEnded(job)
  BY DEF ViewInit, AllJobs, Job, HasEnded, Ends
<1>2. ~HasEnded(NoJob)
  BY DEF HasEnded
<1>3. poll = [at |-> "sent", item |-> NoJob, again |-> FALSE]
  BY DEF ViewInit, Asked
<1>4. stream = [at |-> "connecting", sent |-> NoJob, events |-> <<>>]
  BY DEF ViewInit, NoStream
<1>5. /\ shown = NoJob /\ effect = FALSE /\ list = FALSE
      /\ cancel = [at |-> "idle", item |-> NoJob] /\ listPoll = [at |-> "idle", effect |-> FALSE]
  BY DEF ViewInit, NoCancel, NoList
<1>6. ViewTypes
  <2>1. /\ poll = [at |-> poll.at, item |-> poll.item, again |-> poll.again]
        /\ poll.at = "answered" => poll.item # NoJob
    BY <1>3
  <2>2. /\ stream = [at |-> stream.at, sent |-> stream.sent, events |-> stream.events]
        /\ stream.events \in Seq(AllJobs)
    BY <1>4
  <2>3. /\ cancel = [at |-> cancel.at, item |-> cancel.item]
        /\ cancel.at = "answered" => cancel.item # NoJob
    BY <1>5
  <2>4. listPoll = [at |-> listPoll.at, effect |-> listPoll.effect] /\ listPoll.effect \in BOOLEAN
    BY <1>5
  <2> QED
    BY <1>1, <1>5, <2>1, <2>2, <2>3, <2>4 DEF ViewTypes
<1>7. Copies
  BY <1>3, <1>4, <1>5 DEF Copies, Was
<1>8. EffectIsOfEnd /\ ListFollowsJob
  BY <1>1, <1>2, <1>5 DEF EffectIsOfEnd, ListFollowsJob
<1> QED
  BY <1>6, <1>7, <1>8 DEF ViewInv

\* The job moves on: no copy of it says that it has ended.
LEMMA JobMoves ==
  ASSUME ViewInv, Advance \/ End
  PROVE  ViewInv'
<1>1. /\ IsActive(job) /\ ~HasEnded(job)
      /\ UNCHANGED <<screen, watching, shown, poll, stream, cancel, list, listPoll>>
  BY JobKinds DEF Advance, End, ViewInv, ViewTypes, pageSide
<1>2. ~HasEnded(shown) /\ ~HasEnded(poll.item) /\ ~HasEnded(cancel.item)
      /\ \A i \in 1..Len(stream.events) : ~HasEnded(stream.events[i])
  BY <1>1 DEF ViewInv, Copies, Was, HasEnded
<1>3. ~effect /\ ~list /\ ~listPoll.effect
  BY <1>1 DEF ViewInv, EffectIsOfEnd, ListFollowsJob
<1>4. job' \in AllJobs /\ effect' \in BOOLEAN /\ EffectIsOfEnd'
  <2>1. CASE Advance
    <3>1. job' = [state |-> "running", step |-> job.step + 1] /\ effect' = effect
      BY <2>1 DEF Advance, Job
    <3>2. job' \in AllJobs /\ job'.state = "running"
      BY <3>1 DEF AllJobs, ViewInv, ViewTypes
    <3>3. ~HasEnded(job)'
      BY <3>2 DEF HasEnded, Ends
    <3> QED
      BY <1>3, <3>1, <3>2, <3>3 DEF EffectIsOfEnd, ViewInv, ViewTypes
  <2>2. CASE End
    <3>1. PICK s \in Ends : /\ job' = [state |-> s, step |-> job.step + 1]
                            /\ effect' = (effect \/ Changes(s))
      BY <2>2 DEF End, Job
    <3>2. job' \in AllJobs /\ job'.state = s
      BY <3>1 DEF AllJobs, ViewInv, ViewTypes
    <3>3. HasEnded(job)'
      BY <3>2, JobKinds DEF HasEnded
    <3>4. Changes(s) \in BOOLEAN /\ Changes(job.state)' = Changes(s)
      BY <1>1, <3>2 DEF Changes
    <3> QED
      BY <1>3, <3>1, <3>2, <3>3, <3>4 DEF EffectIsOfEnd
  <2> QED
    BY <2>1, <2>2
<1>5. ViewTypes'
  BY <1>1, <1>4 DEF ViewInv, ViewTypes
<1>6. Copies'
  BY <1>1, <1>2 DEF ViewInv, Copies, Was, HasEnded
<1>7. ListFollowsJob'
  BY <1>1, <1>2, <1>3 DEF ListFollowsJob, HasEnded
<1> QED
  BY <1>4, <1>5, <1>6, <1>7 DEF ViewInv

\* The page shows a copy that it holds.
LEMMA ShowKeeps ==
  ASSUME ViewInv, NEW item, Was(item), item # NoJob, Show(item),
         UNCHANGED <<screen, job, effect, list>>
  PROVE  /\ ListFollowsJob' /\ Was(shown)'
         /\ listPoll' = [at |-> listPoll'.at, effect |-> listPoll'.effect]
         /\ listPoll'.effect \in BOOLEAN
<1>1. item \in AllJobs /\ shown' = item
  BY DEF Was, Show
<1>2. Was(shown)'
  BY <1>1 DEF Was, HasEnded
<1>3. CASE ~(shown # NoJob /\ shown.state = item.state) /\ Reloads(item.state)
  <2>1. listPoll' = [at |-> "sent", effect |-> FALSE]
    BY <1>3 DEF Show
  <2> QED
    BY <1>2, <2>1 DEF ViewInv, ListFollowsJob
<1>4. CASE shown # NoJob /\ shown.state = item.state
  <2>1. listPoll' = listPoll
    BY <1>4 DEF Show
  <2>2. shown \in AllJobs
    BY <1>4 DEF ViewInv, Copies, Was
  <2>3. HasEnded(item) => HasEnded(shown)
    BY <1>1, <1>4, <2>2, JobKinds
  <2>4. HasEnded(shown)' => HasEnded(item)
    BY <1>1 DEF HasEnded
  <2>5. Reloads(shown.state)' => Reloads(shown.state)
    BY <1>1, <1>4 DEF Reloads
  <2> QED
    BY <1>2, <2>1, <2>3, <2>4, <2>5 DEF ViewInv, ViewTypes, ListFollowsJob
<1>5. CASE ~Reloads(item.state)
  <2>1. listPoll' = listPoll
    BY <1>5 DEF Show
  <2>2. ~Reloads(shown.state)'
    BY <1>1, <1>5 DEF Reloads
  <2> QED
    BY <1>2, <2>1, <2>2 DEF ViewInv, ViewTypes, ListFollowsJob
<1> QED
  BY <1>3, <1>4, <1>5

\* The service answers with the job as it is.
LEMMA ServiceMoves ==
  ASSUME ViewInv, ServiceAnswers \/ StreamSends \/ StreamBreaks
  PROVE  ViewInv'
<1>1. /\ UNCHANGED <<screen, job, effect, watching, shown, list>>
      /\ job # NoJob /\ Was(job)
  BY JobKinds DEF ServiceAnswers, PollAnswered, ListAnswered, CancelAnswered, StreamSends,
                  StreamBreaks, ViewInv, ViewTypes, Was
<1>2. EffectIsOfEnd' /\ Was(shown)'
  BY <1>1 DEF ViewInv, Copies, EffectIsOfEnd, HasEnded, Changes, Was
<1>3. CASE PollAnswered
  <2>1. UNCHANGED <<stream, cancel, listPoll>>
    BY <1>3 DEF PollAnswered
  <2>2. \/ poll' = [at |-> "answered", item |-> job, again |-> poll.again]
        \/ poll' = [poll EXCEPT !.at = "failed"]
    BY <1>3 DEF PollAnswered
  <2>3. /\ poll' = [at |-> poll'.at, item |-> poll'.item, again |-> poll'.again]
        /\ poll'.at = "answered" => poll'.item # NoJob
        /\ poll'.item \in {job, poll.item}
    BY <1>1, <2>2 DEF ViewInv, ViewTypes
  <2>4. ViewTypes'
    BY <1>1, <2>1, <2>3 DEF ViewInv, ViewTypes
  <2>5. Copies'
    BY <1>1, <2>1, <2>3 DEF ViewInv, Copies, Was, HasEnded
  <2>6. ListFollowsJob'
    BY <1>1, <2>1 DEF ViewInv, ListFollowsJob, HasEnded, Reloads
  <2> QED
    BY <1>2, <2>4, <2>5, <2>6 DEF ViewInv
<1>4. CASE ListAnswered
  <2>1. /\ UNCHANGED <<stream, cancel, poll>>
        /\ listPoll.at = "sent"
        /\ listPoll' = [at |-> "answered", effect |-> effect]
    BY <1>4 DEF ListAnswered
  <2>2. ViewTypes'
    BY <1>1, <2>1 DEF ViewInv, ViewTypes
  <2>3. Copies'
    BY <1>1, <2>1 DEF ViewInv, Copies, Was, HasEnded
  <2>4. ListFollowsJob'
    BY <1>1, <2>1 DEF ViewInv, ListFollowsJob
  <2> QED
    BY <1>2, <2>2, <2>3, <2>4 DEF ViewInv
<1>5. CASE CancelAnswered
  <2>1. UNCHANGED <<stream, poll, listPoll>>
    BY <1>5 DEF CancelAnswered
  <2>2. \/ cancel' = [at |-> "answered", item |-> job]
        \/ cancel' = [at |-> "idle", item |-> NoJob]
    BY <1>5 DEF CancelAnswered, NoCancel
  <2>3. /\ cancel' = [at |-> cancel'.at, item |-> cancel'.item]
        /\ cancel'.at = "answered" => cancel'.item # NoJob
        /\ cancel'.item \in {job, NoJob}
    BY <1>1, <2>2
  <2>4. ViewTypes'
    BY <1>1, <2>1, <2>3 DEF ViewInv, ViewTypes
  <2>5. Copies'
    BY <1>1, <2>1, <2>3 DEF ViewInv, Copies, Was, HasEnded
  <2>6. ListFollowsJob'
    BY <1>1, <2>1 DEF ViewInv, ListFollowsJob, HasEnded, Reloads
  <2> QED
    BY <1>2, <2>4, <2>5, <2>6 DEF ViewInv
<1>6. CASE StreamSends
  <2>1. /\ UNCHANGED <<poll, cancel, listPoll>>
        /\ stream' = [at |-> "open", sent |-> job, events |-> Append(stream.events, job)]
    BY <1>6 DEF StreamSends
  <2>2. PICK old \in Seq(AllJobs) : old = stream.events
    BY DEF ViewInv, ViewTypes
  <2>3. job \in AllJobs
    BY DEF ViewInv, ViewTypes
  <2>4. PICK new : new = Append(old, job)
    OBVIOUS
  <2>5. /\ new \in Seq(AllJobs) /\ Len(new) = Len(old) + 1
        /\ \A i \in 1..Len(new) : new[i] = IF i = Len(old) + 1 THEN job ELSE old[i]
    BY <2>2, <2>3, <2>4
  <2>6. \A i \in 1..Len(new) : Was(new[i])
    BY <1>1, <2>2, <2>5 DEF ViewInv, Copies
  <2>7. stream' = [at |-> "open", sent |-> job, events |-> new]
    BY <2>1, <2>2, <2>4
  <2>8. ViewTypes'
    BY <1>1, <2>1, <2>5, <2>7 DEF ViewInv, ViewTypes
  <2>9. Copies'
    BY <1>1, <2>1, <2>6, <2>7 DEF ViewInv, Copies, Was, HasEnded
  <2>10. ListFollowsJob'
    BY <1>1, <2>1 DEF ViewInv, ListFollowsJob, HasEnded, Reloads
  <2> QED
    BY <1>2, <2>8, <2>9, <2>10 DEF ViewInv
<1>7. CASE StreamBreaks
  <2>1. /\ UNCHANGED <<poll, cancel, listPoll>>
        /\ stream' = [stream EXCEPT !.at = "broken"]
    BY <1>7 DEF StreamBreaks
  <2>2. stream' = [at |-> "broken", sent |-> stream.sent, events |-> stream.events]
    BY <2>1 DEF ViewInv, ViewTypes
  <2>3. ViewTypes'
    BY <1>1, <2>1, <2>2 DEF ViewInv, ViewTypes
  <2>4. Copies'
    BY <1>1, <2>1, <2>2 DEF ViewInv, Copies, Was, HasEnded
  <2>5. ListFollowsJob'
    BY <1>1, <2>1 DEF ViewInv, ListFollowsJob, HasEnded, Reloads
  <2> QED
    BY <1>2, <2>3, <2>4, <2>5 DEF ViewInv
<1> QED
  BY <1>3, <1>4, <1>5, <1>6, <1>7 DEF ServiceAnswers

\* The requests of the page, and what the page does with an answer.
LEMMA PageMoves ==
  ASSUME ViewInv, PollTick \/ PollArrives \/ CancelClicked \/ CancelArrives
  PROVE  ViewInv'
<1>1. UNCHANGED <<screen, job, effect, stream, list>>
  BY DEF PollTick, PollArrives, CancelClicked, CancelArrives
<1>2. EffectIsOfEnd'
  BY <1>1 DEF ViewInv, EffectIsOfEnd, HasEnded, Changes
<1>3. ASSUME NEW item, Was(item), item # NoJob, Show(item)
      PROVE  /\ ListFollowsJob' /\ Was(shown)'
             /\ listPoll' = [at |-> listPoll'.at, effect |-> listPoll'.effect]
             /\ listPoll'.effect \in BOOLEAN
  BY <1>1, <1>3, ShowKeeps
<1>4. ASSUME UNCHANGED <<shown, listPoll>>
      PROVE  /\ ListFollowsJob' /\ Was(shown)'
             /\ listPoll' = [at |-> listPoll'.at, effect |-> listPoll'.effect]
             /\ listPoll'.effect \in BOOLEAN
  BY <1>1, <1>4 DEF ViewInv, ViewTypes, Copies, ListFollowsJob, Was, HasEnded, Reloads
<1>5. ASSUME /\ ListFollowsJob' /\ Was(shown)'
             /\ listPoll' = [at |-> listPoll'.at, effect |-> listPoll'.effect]
             /\ listPoll'.effect \in BOOLEAN,
             poll' = poll \/ poll'.item = NoJob,
             poll' = [at |-> poll'.at, item |-> poll'.item, again |-> poll'.again],
             poll'.at = "answered" => poll'.item # NoJob,
             cancel' = cancel \/ cancel'.item = NoJob,
             cancel' = [at |-> cancel'.at, item |-> cancel'.item],
             cancel'.at = "answered" => cancel'.item # NoJob
      PROVE  ViewInv'
  <2>1. ViewTypes'
    BY <1>1, <1>5 DEF ViewInv, ViewTypes
  <2>2. Copies'
    BY <1>1, <1>5 DEF ViewInv, Copies, Was, HasEnded
  <2> QED
    BY <1>2, <1>5, <2>1, <2>2 DEF ViewInv
<1>6. /\ poll = [at |-> poll.at, item |-> poll.item, again |-> poll.again]
      /\ poll.at = "answered" => poll.item # NoJob /\ Was(poll.item)
      /\ cancel = [at |-> cancel.at, item |-> cancel.item]
      /\ cancel.at = "answered" => cancel.item # NoJob /\ Was(cancel.item)
  BY DEF ViewInv, ViewTypes, Copies
<1>7. CASE PollTick
  <2>1. UNCHANGED <<shown, listPoll, cancel>>
        /\ poll' = [at |-> "sent", item |-> NoJob, again |-> FALSE]
    BY <1>7 DEF PollTick, Asked
  <2> QED
    BY <1>4, <1>5, <1>6, <2>1
<1>8. CASE PollArrives
  <2>1. cancel' = cancel
    BY <1>8 DEF PollArrives
  <2>2. CASE poll.at = "answered" /\ Show(poll.item) /\ poll' = NoPoll
    <3>1. poll' = [at |-> "idle", item |-> NoJob, again |-> FALSE]
      BY <2>2 DEF NoPoll
    <3>2. /\ ListFollowsJob' /\ Was(shown)'
          /\ listPoll' = [at |-> listPoll'.at, effect |-> listPoll'.effect]
          /\ listPoll'.effect \in BOOLEAN
      BY <1>3, <1>6, <2>2
    <3> QED
      BY <1>5, <1>6, <2>1, <3>1, <3>2
  <2>3. CASE UNCHANGED <<shown, listPoll>> /\ poll' = IF poll.again THEN NoPoll ELSE Asked(TRUE)
    <3>1. \/ poll' = [at |-> "idle", item |-> NoJob, again |-> FALSE]
          \/ poll' = [at |-> "sent", item |-> NoJob, again |-> TRUE]
      BY <2>3 DEF NoPoll, Asked
    <3>2. /\ poll' = [at |-> poll'.at, item |-> poll'.item, again |-> poll'.again]
          /\ poll'.item = NoJob /\ poll'.at # "answered"
      BY <3>1
    <3>3. /\ ListFollowsJob' /\ Was(shown)'
          /\ listPoll' = [at |-> listPoll'.at, effect |-> listPoll'.effect]
          /\ listPoll'.effect \in BOOLEAN
      BY <1>4, <2>3
    <3> QED
      BY <1>5, <1>6, <2>1, <3>2, <3>3
  <2> QED
    BY <1>8, <2>2, <2>3 DEF PollArrives
<1>9. CASE CancelClicked
  <2>1. UNCHANGED <<shown, listPoll, poll>> /\ cancel' = [at |-> "sent", item |-> NoJob]
    BY <1>9 DEF CancelClicked
  <2> QED
    BY <1>4, <1>5, <1>6, <2>1
<1>10. CASE CancelArrives
  <2>1. cancel.at = "answered" /\ Show(cancel.item) /\ poll' = poll
        /\ cancel' = [at |-> "idle", item |-> NoJob]
    BY <1>10 DEF CancelArrives, NoCancel
  <2>2. /\ ListFollowsJob' /\ Was(shown)'
        /\ listPoll' = [at |-> listPoll'.at, effect |-> listPoll'.effect]
        /\ listPoll'.effect \in BOOLEAN
    BY <1>3, <1>6, <2>1
  <2> QED
    BY <1>5, <1>6, <2>1, <2>2
<1> QED
  BY <1>7, <1>8, <1>9, <1>10

\* The list is answered.
LEMMA ListMoves ==
  ASSUME ViewInv, ListArrives
  PROVE  ViewInv'
<1>1. /\ UNCHANGED <<screen, job, effect, stream, shown, poll, cancel>>
      /\ listPoll.at = "answered" /\ list' = listPoll.effect
      /\ listPoll' = [at |-> "idle", effect |-> FALSE]
  BY DEF ListArrives, NoList
<1>2. ViewTypes'
  BY <1>1 DEF ViewInv, ViewTypes
<1>3. Copies'
  BY <1>1 DEF ViewInv, Copies, Was, HasEnded
<1>4. EffectIsOfEnd'
  BY <1>1 DEF ViewInv, EffectIsOfEnd, HasEnded, Changes
<1>5. listPoll.effect => effect
  BY DEF ViewInv, ListFollowsJob
<1>6. HasEnded(shown) /\ Reloads(shown.state) => listPoll.effect = effect
  BY <1>1 DEF ViewInv, ListFollowsJob
<1>7. (HasEnded(shown) /\ Reloads(shown.state))' => HasEnded(shown) /\ Reloads(shown.state)
  BY <1>1 DEF HasEnded, Reloads
<1>8. ListFollowsJob'
  BY <1>1, <1>5, <1>6, <1>7 DEF ListFollowsJob
<1> QED
  BY <1>2, <1>3, <1>4, <1>8 DEF ViewInv

LEMMA NoEvents ==
  \E events \in Seq(AllJobs) : events = <<>> /\ \A i \in 1..Len(events) : Was(events[i])
<1>1. <<>> \in Seq(AllJobs)
  OBVIOUS
<1>2. \A i \in 1..Len(<<>>) : Was(<<>>[i])
  OBVIOUS
<1> QED
  BY <1>1, <1>2

\* The page reads an event of the stream, or ends it.
LEMMA EventsMove ==
  ASSUME ViewInv, EventRead \/ StreamGivesUp
  PROVE  ViewInv'
<1>1. UNCHANGED <<screen, job, effect, poll, cancel, list>>
  BY DEF EventRead, StreamGivesUp
<1>2. EffectIsOfEnd'
  BY <1>1 DEF ViewInv, EffectIsOfEnd, HasEnded, Changes
<1>3. PICK old \in Seq(AllJobs) : old = stream.events
  BY DEF ViewInv, ViewTypes
<1>4. \A i \in 1..Len(old) : Was(old[i])
  BY <1>3 DEF ViewInv, Copies
<1>5. ASSUME NEW new \in Seq(AllJobs), \A i \in 1..Len(new) : Was(new[i]),
             stream' = [at |-> stream'.at, sent |-> stream'.sent, events |-> new],
             ListFollowsJob', Was(shown)',
             listPoll' = [at |-> listPoll'.at, effect |-> listPoll'.effect],
             listPoll'.effect \in BOOLEAN
      PROVE  ViewInv'
  <2>1. stream'.events = new
    BY <1>5
  <2>2. ViewTypes'
    BY <1>1, <1>5, <2>1 DEF ViewInv, ViewTypes
  <2>3. Copies'
    BY <1>1, <1>5, <2>1 DEF ViewInv, Copies, Was, HasEnded
  <2> QED
    BY <1>2, <1>5, <2>2, <2>3 DEF ViewInv
<1>6. CASE EventRead
  <2>1. old # <<>> /\ Show(Head(old))
    BY <1>3, <1>6 DEF EventRead
  <2>2. PICK item : item = Head(old) /\ item \in AllJobs /\ Was(item)
    BY <1>4, <2>1
  <2>3. item # NoJob
    BY <2>2, JobKinds
  <2>4. /\ ListFollowsJob' /\ Was(shown)'
        /\ listPoll' = [at |-> listPoll'.at, effect |-> listPoll'.effect]
        /\ listPoll'.effect \in BOOLEAN
    BY <1>1, <2>1, <2>2, <2>3, ShowKeeps
  <2>5. CASE stream' = [stream EXCEPT !.events = Tail(@)]
    <3>1. PICK new : new = Tail(old)
      OBVIOUS
    <3>2. new \in Seq(AllJobs) /\ Len(new) = Len(old) - 1
          /\ \A i \in 1..Len(new) : new[i] = old[i + 1] /\ i + 1 \in 1..Len(old)
      BY <2>1, <3>1
    <3>3. \A i \in 1..Len(new) : Was(new[i])
      BY <1>4, <3>2
    <3>4. stream' = [at |-> stream.at, sent |-> stream.sent, events |-> new]
      BY <1>3, <2>5, <3>1 DEF ViewInv, ViewTypes
    <3> QED
      BY <1>5, <2>4, <3>2, <3>3, <3>4
  <2>6. CASE stream' = [NoStream EXCEPT !.at = "done"]
    <3>1. stream' = [at |-> "done", sent |-> NoJob, events |-> <<>>]
      BY <2>6 DEF NoStream
    <3>2. PICK new \in Seq(AllJobs) : new = <<>> /\ \A i \in 1..Len(new) : Was(new[i])
      BY NoEvents
    <3>3. stream' = [at |-> stream'.at, sent |-> stream'.sent, events |-> new]
      BY <3>1, <3>2
    <3> QED
      BY <1>5, <2>4, <3>2, <3>3
  <2> QED
    BY <1>6, <2>5, <2>6 DEF EventRead
<1>7. CASE StreamGivesUp
  <2>1. UNCHANGED <<shown, listPoll>>
        /\ stream' = [at |-> "done", sent |-> NoJob, events |-> <<>>]
    BY <1>7 DEF StreamGivesUp, NoStream
  <2>2. /\ ListFollowsJob' /\ Was(shown)'
        /\ listPoll' = [at |-> listPoll'.at, effect |-> listPoll'.effect]
        /\ listPoll'.effect \in BOOLEAN
    BY <1>1, <2>1 DEF ViewInv, ViewTypes, Copies, ListFollowsJob, Was, HasEnded, Reloads
  <2>3. PICK new \in Seq(AllJobs) : new = <<>> /\ \A i \in 1..Len(new) : Was(new[i])
    BY NoEvents
  <2>4. stream' = [at |-> stream'.at, sent |-> stream'.sent, events |-> new]
    BY <2>1, <2>3
  <2> QED
    BY <1>5, <2>2, <2>3, <2>4
<1> QED
  BY <1>6, <1>7

\* Nothing is held of the job once the screen is left.
LEMMA ScreenIsLeft ==
  ASSUME ViewInv, LeaveScreen
  PROVE  ViewInv'
<1>1. /\ UNCHANGED <<screen, job, effect>>
      /\ shown' = NoJob /\ list' = FALSE
      /\ poll' = [at |-> "idle", item |-> NoJob, again |-> FALSE]
      /\ stream' = [at |-> "off", sent |-> NoJob, events |-> <<>>]
      /\ cancel' = [at |-> "idle", item |-> NoJob]
      /\ listPoll' = [at |-> "idle", effect |-> FALSE]
  BY DEF LeaveScreen, NoPoll, NoStream, NoCancel, NoList
<1>2. ViewTypes'
  <2>1. /\ poll' = [at |-> poll'.at, item |-> poll'.item, again |-> poll'.again]
        /\ poll'.at # "answered"
    BY <1>1
  <2>2. /\ stream' = [at |-> stream'.at, sent |-> stream'.sent, events |-> stream'.events]
        /\ stream'.events \in Seq(AllJobs)
    BY <1>1
  <2>3. cancel' = [at |-> cancel'.at, item |-> cancel'.item] /\ cancel'.at # "answered"
    BY <1>1
  <2>4. /\ listPoll' = [at |-> listPoll'.at, effect |-> listPoll'.effect]
        /\ listPoll'.effect \in BOOLEAN
    BY <1>1
  <2> QED
    BY <1>1, <2>1, <2>2, <2>3, <2>4 DEF ViewInv, ViewTypes
<1>3. Copies'
  BY <1>1 DEF Copies, Was
<1>4. EffectIsOfEnd'
  BY <1>1 DEF ViewInv, EffectIsOfEnd, HasEnded, Changes
<1>5. ~HasEnded(NoJob)
  BY DEF HasEnded
<1>6. ~HasEnded(shown)'
  BY <1>1, <1>5 DEF HasEnded
<1>7. ListFollowsJob'
  BY <1>1, <1>6 DEF ListFollowsJob
<1> QED
  BY <1>2, <1>3, <1>4, <1>7 DEF ViewInv

LEMMA ViewStep == ViewInv /\ [ViewNext]_viewVars => ViewInv'
<1> SUFFICES ASSUME ViewInv, [ViewNext]_viewVars
             PROVE  ViewInv'
  OBVIOUS
<1>1. CASE UNCHANGED viewVars
  <2>1. UNCHANGED <<screen, job, effect, shown, poll, stream, cancel, list, listPoll>>
    BY <1>1 DEF viewVars
  <2>2. ViewTypes' /\ EffectIsOfEnd'
    BY <2>1 DEF ViewInv, ViewTypes, EffectIsOfEnd, HasEnded, Changes
  <2>3. Copies'
    BY <2>1 DEF ViewInv, Copies, Was, HasEnded
  <2>4. ListFollowsJob'
    BY <2>1 DEF ViewInv, ListFollowsJob, HasEnded, Reloads
  <2> QED
    BY <2>2, <2>3, <2>4 DEF ViewInv
<1>2. CASE ViewNext
  BY <1>2, JobMoves, ServiceMoves, PageMoves, ListMoves, EventsMove, ScreenIsLeft
     DEF ViewNext, PageDelivers
<1> QED
  BY <1>1, <1>2

\* When nothing is under way and the job is shown as ended, it is the job as it
\* ended, and the list shows what it did (useJob, jobs-client.ts).
THEOREM EndedJobsAlwaysListed == ViewSpec => []EndedJobsAreListed
<1>1. ViewInv => EndedJobsAreListed
  <2> SUFFICES ASSUME ViewInv, HasEnded(shown), listPoll = NoList,
                      ~(screen = "backup" /\ shown.state = "cancelled")
               PROVE  shown = job /\ list = effect
    BY DEF EndedJobsAreListed
  <2>1. shown = job
    BY DEF ViewInv, Copies, Was, HasEnded
  <2>2. listPoll.at = "idle"
    BY DEF NoList
  <2>3. CASE Reloads(shown.state)
    BY <2>1, <2>2, <2>3 DEF ViewInv, ListFollowsJob
  <2>4. CASE ~Reloads(shown.state)
    <3>1. shown.state \in {"succeeded", "failed", "cancelled"}
      BY DEF HasEnded, Ends
    <3>2. ~Changes(shown.state)
      BY <2>4, <3>1 DEF Reloads, Changes
    <3>3. ~effect /\ ~list
      BY <2>1, <3>2 DEF ViewInv, EffectIsOfEnd, ListFollowsJob
    <3>4. effect \in BOOLEAN /\ list \in BOOLEAN
      BY DEF ViewInv, ViewTypes
    <3> QED
      BY <2>1, <3>3, <3>4
  <2> QED
    BY <2>3, <2>4
<1> QED
  BY <1>1, ViewStarts, ViewStep, PTL DEF ViewSpec

-----------------------------------------------------------------------------
(* The page's layout: what a request that saves may replace, and what is   *)
(* still to come.                                                          *)

\* What the service answered at some time: recents do not become none again.
WasRead(values) ==
  /\ values = [layout |-> values.layout, recent |-> values.recent]
  /\ values.layout \in Layouts
  /\ values.recent # <<>> => server.recent # <<>>

IsSave(save) ==
  /\ save = [layout |-> save.layout, recent |-> save.recent, at |-> save.at, clears |-> save.clears]
  /\ IsPartial(save.layout)
  /\ save.recent = NoValue \/ save.recent # <<>>
  /\ save.at \in {"sent", "applied", "ended"}
  /\ save.clears \in BOOLEAN
  /\ save.clears => save.at # "ended"

AreSaves ==
  /\ saves \in Seq({saves[i] : i \in DOMAIN saves})
  /\ \A i \in DOMAIN saves : IsSave(saves[i])

PreferenceTypes ==
  /\ server = [layout |-> server.layout, recent |-> server.recent] /\ server.layout \in Layouts
  /\ store \in Layouts
  /\ legacy \in Legacies \cup {NoValue}
  /\ timer # NoValue => ready /\ timer = store
  /\ ready => mounted
  /\ mounted /\ ~ready => cached = NoValue
  /\ touched \in [LayoutFields -> BOOLEAN]
  /\ {disturbed, mounted, ready, early} \subseteq BOOLEAN
  /\ cached # NoValue => WasRead(cached)
  /\ fetch = [at |-> fetch.at, value |-> fetch.value, again |-> fetch.again]
  /\ fetch.at = "answered" => WasRead(fetch.value)
  /\ fetch.at \in {"idle", "sent", "answered"} /\ fetch.again \in BOOLEAN
  /\ fetch.at = "idle" => fetch = NoFetch
  /\ AreSaves

\* A field that the user has not set has what the page read or migrated.
FieldIsRead(f) == touched[f] \/ server.layout[f] \in {Default, store[f]}

SavesAreFaithful ==
  \A i \in Pending : \A f \in DOMAIN saves[i].layout :
    touched[f] \/ (saves[i].layout[f] = store[f] /\ FieldIsRead(f))

\* A legacy value is in the database, or superseded, or in the request.
FieldMigrates(f, save) ==
  \/ touched[f] \/ server.layout[f] # Default \/ legacy.layout[f] = Default
  \/ save.at = "sent" /\ f \in DOMAIN save.layout /\ save.layout[f] # Default
RecentMigrates(save) ==
  \/ legacy.recent \in {NoValue, <<>>} \/ server.recent # <<>>
  \/ save.at = "sent" /\ save.recent # NoValue
ClearsAreFaithful ==
  legacy # NoValue => \A i \in DOMAIN saves : saves[i].clears =>
    RecentMigrates(saves[i]) /\ \A f \in DOMAIN legacy.layout : FieldMigrates(f, saves[i])

LayoutIsRead == ready => \A f \in LayoutFields : FieldIsRead(f)

\* The request completes what the database has to the layout of the page.
Completes(save) ==
  \A f \in LayoutFields :
    store[f] = IF save.at = "sent" /\ f \in DOMAIN save.layout THEN save.layout[f]
                                                               ELSE server.layout[f]

LayoutFollows ==
  ~disturbed =>
    /\ \A i, j \in LayoutPending : i = j
    /\ ready /\ timer = NoValue =>
         /\ \A i \in LayoutPending : Completes(saves[i])
         /\ LayoutPending = {} => server.layout = store

PageKnows ==
  ~disturbed /\ Pending = {} =>
    /\ fetch.at = "answered" /\ (ready \/ cached # NoValue) => fetch.value = server
    /\ mounted /\ fetch.at = "idle" => cached = server

PreferenceInv ==
  /\ PreferenceTypes /\ SavesAreFaithful /\ ClearsAreFaithful /\ LayoutIsRead
  /\ LayoutFollows /\ PageKnows

-----------------------------------------------------------------------------
(* The list of requests *)

\* A list that has one element more.
LEMMA Adds ==
  ASSUME NEW S, NEW old \in Seq(S), NEW save
  PROVE  /\ Append(old, save) \in Seq(S \cup {save})
         /\ DOMAIN Append(old, save) = 1..(Len(old) + 1)
         /\ Len(old) + 1 \notin DOMAIN old
         /\ \A j \in DOMAIN old : Append(old, save)[j] = old[j]
         /\ Append(old, save)[Len(old) + 1] = save
<1>1. old \in Seq(S \cup {save})
  OBVIOUS
<1> QED
  BY <1>1

LEMMA IsSequence ==
  ASSUME NEW n \in Nat, NEW some, DOMAIN some = 1..n, some = [j \in 1..n |-> some[j]]
  PROVE  some \in Seq({some[j] : j \in DOMAIN some}) /\ Len(some) = n
<1>1. some \in [1..n -> {some[j] : j \in DOMAIN some}]
  OBVIOUS
<1> QED
  BY <1>1, SeqDef

\* The request j is as it was, but may have been told not to clear the keys.
Stays(j) ==
  /\ saves'[j] = [layout |-> saves[j].layout, recent |-> saves[j].recent, at |-> saves[j].at,
                  clears |-> saves'[j].clears]
  /\ saves'[j].clears \in BOOLEAN
  /\ saves'[j].clears => saves[j].clears

LEMMA OneChanges ==
  ASSUME AreSaves, NEW i \in DOMAIN saves, NEW save, IsSave(save),
         saves' = [saves EXCEPT ![i] = save]
  PROVE  /\ AreSaves' /\ DOMAIN saves' = DOMAIN saves
         /\ saves'[i] = save
         /\ \A j \in DOMAIN saves \ {i} : saves'[j] = saves[j]
<1>1. PICK n \in Nat : DOMAIN saves = 1..n /\ saves = [j \in 1..n |-> saves[j]]
  BY DEF AreSaves
<1>2. /\ DOMAIN saves' = 1..n /\ saves' = [j \in 1..n |-> saves'[j]]
      /\ saves'[i] = save
      /\ \A j \in DOMAIN saves \ {i} : saves'[j] = saves[j]
  BY <1>1
<1>3. saves' \in Seq({saves'[j] : j \in DOMAIN saves'})
  <2>1. PICK new : new = saves'
    OBVIOUS
  <2>2. DOMAIN new = 1..n
    BY <1>2, <2>1
  <2>3. new = [j \in 1..n |-> new[j]]
    BY <1>2, <2>1
  <2>4. new \in Seq({new[j] : j \in DOMAIN new})
    BY <2>2, <2>3, IsSequence
  <2> QED
    BY <2>1, <2>4
<1>4. \A j \in DOMAIN saves' : IsSave(saves'[j])
  BY <1>1, <1>2 DEF AreSaves
<1> QED
  BY <1>1, <1>2, <1>3, <1>4 DEF AreSaves

\* Every request is told not to clear the keys.
LEMMA NoneClears ==
  ASSUME AreSaves, NEW others,
         DOMAIN others = DOMAIN saves, others = [i \in DOMAIN saves |-> others[i]],
         \A i \in DOMAIN saves : others[i] = [saves[i] EXCEPT !.clears = FALSE]
  PROVE  /\ others \in Seq({others[i] : i \in DOMAIN others})
         /\ DOMAIN others = DOMAIN saves
         /\ Len(others) = Len(saves)
         /\ \A i \in DOMAIN saves :
              /\ others[i] = [layout |-> saves[i].layout, recent |-> saves[i].recent,
                            at |-> saves[i].at, clears |-> FALSE]
              /\ IsSave(others[i])
<1>1. PICK n \in Nat : DOMAIN saves = 1..n /\ n = Len(saves)
  BY DEF AreSaves
<1>2. DOMAIN others = 1..n /\ others = [i \in 1..n |-> others[i]]
  BY <1>1
<1>3. others \in Seq({others[i] : i \in DOMAIN others}) /\ Len(others) = n
  BY <1>2, IsSequence
<1>4. ASSUME NEW i \in DOMAIN saves
      PROVE  /\ others[i] = [layout |-> saves[i].layout, recent |-> saves[i].recent,
                           at |-> saves[i].at, clears |-> FALSE]
             /\ IsSave(others[i])
  <2>1. IsSave(saves[i])
    BY DEF AreSaves
  <2>2. others[i] = [saves[i] EXCEPT !.clears = FALSE]
    OBVIOUS
  <2>3. others[i] = [layout |-> saves[i].layout, recent |-> saves[i].recent,
                   at |-> saves[i].at, clears |-> FALSE]
    BY <2>1, <2>2 DEF IsSave
  <2> QED
    BY <2>1, <2>3 DEF IsSave
<1> QED
  BY <1>1, <1>2, <1>3, <1>4

\* A request is added; the others stay.
LEMMA OneIsAdded ==
  ASSUME AreSaves, NEW others,
         others \in Seq({others[i] : i \in DOMAIN others}), DOMAIN others = DOMAIN saves,
         \A i \in DOMAIN saves :
           /\ others[i] = [layout |-> saves[i].layout, recent |-> saves[i].recent,
                         at |-> saves[i].at, clears |-> others[i].clears]
           /\ others[i].clears \in BOOLEAN
           /\ others[i].clears => saves[i].clears,
         NEW save, IsSave(save), saves' = Append(others, save)
  PROVE  /\ AreSaves'
         /\ \A i \in DOMAIN saves : Stays(i)
         /\ \E new : /\ new \notin DOMAIN saves /\ DOMAIN saves' = DOMAIN saves \cup {new}
                     /\ saves'[new] = save
<1>1. PICK n \in Nat : n = Len(others) /\ DOMAIN others = 1..n
  OBVIOUS
<1>2. PICK m \in Nat : m = n + 1
  BY <1>1
<1>3. PICK new : new = Append(others, save)
  OBVIOUS
<1>4. /\ DOMAIN new = 1..m
      /\ \A j \in DOMAIN saves : new[j] = others[j]
      /\ new[m] = save
      /\ \E S : new \in Seq(S)
  <2>1. PICK S : others \in Seq(S)
    OBVIOUS
  <2>2. /\ Append(others, save) \in Seq(S \cup {save})
        /\ DOMAIN Append(others, save) = 1..(Len(others) + 1)
        /\ \A j \in DOMAIN others : Append(others, save)[j] = others[j]
        /\ Append(others, save)[Len(others) + 1] = save
    BY <2>1, Adds
  <2>3. /\ DOMAIN new = 1..m
        /\ \A j \in DOMAIN saves : new[j] = others[j]
        /\ new[m] = save
    BY <1>1, <1>2, <1>3, <2>2
  <2>4. new \in Seq(S \cup {save})
    BY <1>3, <2>2
  <2> QED
    BY <2>3, <2>4
<1>5. /\ DOMAIN new = DOMAIN saves \cup {m} /\ m \notin DOMAIN saves
      /\ new \in Seq({new[j] : j \in DOMAIN new})
      /\ saves' = new
  <2>1. DOMAIN new = 1..m
    BY <1>4
  <2>2. new = [j \in 1..m |-> new[j]]
    BY <1>4
  <2>3. new \in Seq({new[j] : j \in DOMAIN new})
    <3>1. PICK k \in Nat : k = m
      BY <1>2
    <3>2. DOMAIN new = 1..k
      BY <2>1, <3>1
    <3>3. new = [j \in 1..k |-> new[j]]
      BY <2>2, <3>1
    <3> QED
      BY <3>2, <3>3, IsSequence, SMTT(30)
  <2>4. DOMAIN new = DOMAIN saves \cup {m} /\ m \notin DOMAIN saves
    BY <1>1, <1>2, <2>1
  <2> QED
    BY <1>3, <2>3, <2>4
<1>6. \A i \in DOMAIN saves : Stays(i)
  BY <1>4, <1>5 DEF Stays
<1>7. ASSUME NEW i \in DOMAIN saves
      PROVE  IsSave(saves'[i])
  <2>1. IsSave(saves[i])
    BY DEF AreSaves
  <2> QED
    BY <1>6, <2>1 DEF Stays, IsSave
<1>8. AreSaves'
  <2>1. saves' \in Seq({saves'[i] : i \in DOMAIN saves'})
    BY <1>5
  <2>2. saves'[m] = save /\ DOMAIN saves' = DOMAIN saves \cup {m}
    BY <1>4, <1>5
  <2>3. \A i \in DOMAIN saves' : IsSave(saves'[i])
    BY <1>7, <2>2
  <2> QED
    BY <2>1, <2>3 DEF AreSaves
<1> QED
  BY <1>4, <1>5, <1>6, <1>8

-----------------------------------------------------------------------------
(* Hydration *)

\* What is migrated: defaults are replaced by what is not the default, and a value
\* of the keys that is not migrated is not needed.
LEMMA WhatMigrates ==
  ASSUME PreferenceTypes, NEW values, WasRead(values), NEW moved, moved = Migrated(values)
  PROVE  /\ moved = [layout |-> moved.layout, recent |-> moved.recent]
         /\ IsPartial(moved.layout)
         /\ early => DOMAIN moved.layout = {}
         /\ moved.recent = NoValue \/ moved.recent # <<>>
         /\ \A f \in DOMAIN moved.layout : values.layout[f] = Default /\ moved.layout[f] # Default
         /\ legacy # NoValue => /\ \/ legacy.recent \in {NoValue, <<>>} \/ values.recent # <<>>
                                   \/ moved.recent # NoValue
                                /\ \A f \in DOMAIN legacy.layout :
                                     \/ early \/ f \in DOMAIN moved.layout
                                     \/ values.layout[f] # Default \/ legacy.layout[f] = Default
<1>1. CASE legacy = NoValue \/ IsEmpty(legacy)
  <2>1. moved = [layout |-> NoFields, recent |-> NoValue]
    BY <1>1 DEF Migrated, ReadLegacy, Update
  <2>2. DOMAIN NoFields = {}
    BY DEF NoFields
  <2>3. DOMAIN moved.layout = {} /\ moved.recent = NoValue
    BY <2>1, <2>2
  <2>4. legacy # NoValue => DOMAIN legacy.layout = {} /\ legacy.recent = NoValue
    BY <1>1 DEF IsEmpty
  <2> QED
    BY <2>1, <2>3, <2>4 DEF IsPartial
<1>2. CASE legacy # NoValue /\ ~IsEmpty(legacy)
  <2>1. PICK old : old = [layout |-> legacy.layout, recent |-> legacy.recent]
    OBVIOUS
  <2>2. old # NoValue /\ IsPartial(legacy.layout)
    BY <1>2, <2>1, PreferencesAssumption DEF PreferenceTypes
  <2>3. moved = MergeLegacy(values, old, early)
    BY <1>2, <2>1, <2>2 DEF Migrated, ReadLegacy, Update
  <2>4. moved = [layout |-> IF early THEN NoFields
                                     ELSE [f \in Mergeable(values, old) |-> old.layout[f]],
                 recent |-> IF values.recent = <<>> /\ old.recent \notin {NoValue, <<>>}
                            THEN old.recent ELSE NoValue]
    BY <2>3 DEF MergeLegacy, Update
  <2>5. moved = [layout |-> moved.layout, recent |-> moved.recent]
        /\ moved.recent = (IF values.recent = <<>> /\ legacy.recent \notin {NoValue, <<>>}
                           THEN legacy.recent ELSE NoValue)
    BY <2>1, <2>4
  <2>6. /\ moved.recent = NoValue \/ moved.recent # <<>>
        /\ \/ legacy.recent \in {NoValue, <<>>} \/ values.recent # <<>>
           \/ moved.recent # NoValue
    BY <2>5
  <2>7. CASE early
    <3>1. DOMAIN moved.layout = {}
      BY <2>4, <2>7 DEF NoFields
    <3> QED
      BY <1>2, <2>5, <2>6, <2>7, <3>1 DEF IsPartial
  <2>8. CASE ~early
    <3>1. moved.layout = [f \in Mergeable(values, old) |-> old.layout[f]]
      BY <2>4, <2>8
    <3>2. \A f : f \in Mergeable(values, old) <=> /\ f \in DOMAIN legacy.layout
                                                  /\ values.layout[f] = Default
                                                  /\ legacy.layout[f] # Default
      BY <2>1 DEF Mergeable
    <3>3. /\ \A f : f \in DOMAIN moved.layout <=> /\ f \in DOMAIN legacy.layout
                                                  /\ values.layout[f] = Default
                                                  /\ legacy.layout[f] # Default
          /\ \A f \in DOMAIN moved.layout : moved.layout[f] = legacy.layout[f]
      BY <2>1, <3>1, <3>2
    <3>4. IsPartial(moved.layout)
      BY <2>2, <3>3 DEF IsPartial
    <3> QED
      BY <1>2, <2>5, <2>6, <2>8, <3>3, <3>4
  <2> QED
    BY <2>7, <2>8
<1> QED
  BY <1>1, <1>2

\* What the request of hydration carries.
LEMMA WhatIsSaved ==
  ASSUME PreferenceTypes, NEW values, WasRead(values), NEW moved, moved = Migrated(values),
         NEW request, request = Saved(values)
  PROVE  /\ request = [layout |-> request.layout, recent |-> moved.recent]
         /\ request.recent = moved.recent
         /\ IsPartial(request.layout)
         /\ ~early => request.layout = moved.layout
         /\ early => \/ request.layout = store
                     \/ DOMAIN request.layout = {} /\ store = values.layout
<1>1. CASE ~early
  <2>1. request = moved
    BY <1>1 DEF Saved
  <2> QED
    BY <1>1, <2>1, WhatMigrates
<1>2. CASE early
  <2>1. request = [layout |-> IF store = values.layout THEN NoFields ELSE store,
                  recent |-> moved.recent]
    BY <1>2 DEF Saved, Update
  <2>2. DOMAIN NoFields = {}
    BY DEF NoFields
  <2>3. IsPartial(store)
    BY DEF PreferenceTypes, Layouts, IsPartial
  <2>4. IsPartial(NoFields)
    BY <2>2 DEF IsPartial
  <2> QED
    BY <1>2, <2>1, <2>2, <2>3, <2>4
<1> QED
  BY <1>1, <1>2

\* The keys may go: each of their values is in the database or superseded.
LegacyIsSafe ==
  legacy # NoValue /\ legacy' = NoValue =>
    /\ \A f \in DOMAIN legacy.layout : Superseded(f)
    /\ legacy.recent \in {NoValue, <<>>} \/ server'.recent # <<>>

LEMMA HydrateKeeps ==
  ASSUME PreferenceInv, NEW values, WasRead(values), Hydrate(values), ~ready,
         UNCHANGED <<server, timer>>
  PROVE  /\ store' \in Layouts /\ legacy' \in {legacy, NoValue} /\ timer = NoValue
         /\ touched' \in [LayoutFields -> BOOLEAN] /\ {disturbed', ready', early'} \subseteq BOOLEAN
         /\ AreSaves' /\ SavesAreFaithful' /\ ClearsAreFaithful' /\ LayoutIsRead' /\ LayoutFollows'
         /\ ~disturbed' => ~disturbed /\ values = server
         /\ Pending' = {} => Pending = {}
         /\ LegacyIsSafe
<1> DEFINE stale == LayoutPending # {} \/ values # server
           calm == ~early /\ ~stale
<1>1. PICK moved, request : moved = Migrated(values) /\ request = Saved(values)
  OBVIOUS
<1>2. /\ PreferenceTypes
      /\ ready' = TRUE /\ early' = FALSE /\ timer = NoValue /\ server' = server
      /\ disturbed' = (disturbed \/ stale)
      /\ touched' = IF early \/ stale THEN [f \in LayoutFields |-> TRUE] ELSE touched
      /\ store' = IF early THEN store ELSE Merged(values, moved).layout
  BY <1>1 DEF Hydrate, PreferenceInv, PreferenceTypes
<1>3. /\ IsPartial(moved.layout)
      /\ early => DOMAIN moved.layout = {}
      /\ moved.recent = NoValue \/ moved.recent # <<>>
      /\ \A f \in DOMAIN moved.layout : values.layout[f] = Default /\ moved.layout[f] # Default
      /\ legacy # NoValue => /\ \/ legacy.recent \in {NoValue, <<>>} \/ values.recent # <<>>
                                \/ moved.recent # NoValue
                             /\ \A f \in DOMAIN legacy.layout :
                                  \/ early \/ f \in DOMAIN moved.layout
                                  \/ values.layout[f] # Default \/ legacy.layout[f] = Default
  BY <1>1, <1>2, WhatMigrates
<1>4. /\ request = [layout |-> request.layout, recent |-> moved.recent]
      /\ request.recent = moved.recent
      /\ IsPartial(request.layout)
      /\ ~early => request.layout = moved.layout
      /\ early => \/ request.layout = store
                  \/ DOMAIN request.layout = {} /\ store = values.layout
  BY <1>1, <1>2, WhatIsSaved
<1>5. /\ store' \in Layouts
      /\ ~early => \A f \in LayoutFields :
           store'[f] = IF f \in DOMAIN moved.layout THEN moved.layout[f] ELSE values.layout[f]
      /\ values.layout \in Layouts /\ store \in Layouts /\ server.layout \in Layouts
  <2>1. values.layout \in Layouts /\ store \in Layouts /\ server.layout \in Layouts
    BY <1>2 DEF WasRead, PreferenceTypes
  <2>2. CASE early
    BY <1>2, <2>1, <2>2
  <2>3. CASE ~early
    <3>1. store' = [f \in LayoutFields |-> IF f \in DOMAIN moved.layout THEN moved.layout[f]
                                                                         ELSE values.layout[f]]
      BY <1>2, <2>3 DEF Merged
    <3>2. \A f \in LayoutFields : store'[f] \in Values
      BY <1>3, <2>1, <3>1 DEF IsPartial, Layouts
    <3> QED
      BY <2>1, <3>1, <3>2 DEF Layouts
  <2> QED
    BY <2>2, <2>3
<1>6. /\ ~calm => \A f \in LayoutFields : touched'[f]
      /\ calm => touched' = touched
      /\ touched \in [LayoutFields -> BOOLEAN] /\ touched' \in [LayoutFields -> BOOLEAN]
      /\ \A f \in LayoutFields : touched[f] => touched'[f]
  BY <1>2 DEF PreferenceTypes
<1>7. calm => \A f \in LayoutFields : server.layout[f] \in {Default, store'[f]}
  BY <1>3, <1>5
<1>8. \A f \in LayoutFields : FieldIsRead(f)'
  BY <1>2, <1>6, <1>7 DEF FieldIsRead
<1>9. PICK sent : sent = [layout |-> request.layout, recent |-> request.recent, at |-> "sent",
                          clears |-> TRUE]
  OBVIOUS
<1>10. IsSave(sent)
  <2>1. sent.layout = request.layout /\ sent.recent = moved.recent /\ sent.at = "sent"
        /\ sent.clears
    BY <1>4, <1>9
  <2>2. sent = [layout |-> sent.layout, recent |-> sent.recent, at |-> sent.at,
                clears |-> sent.clears]
    BY <1>9
  <2> QED
    BY <1>3, <1>4, <1>9, <2>1, <2>2 DEF IsSave
<1>11. /\ AreSaves' /\ \A i \in DOMAIN saves : Stays(i)
       /\ \E new : /\ new \notin DOMAIN saves
                   /\ \/ DOMAIN saves' = DOMAIN saves /\ IsEmpty(request)
                      \/ /\ DOMAIN saves' = DOMAIN saves \cup {new} /\ saves'[new] = sent
                         /\ legacy' = legacy
  <2>1. CASE IsEmpty(request)
    <3>1. saves' = saves
      BY <1>1, <2>1 DEF Hydrate
    <3>2. AreSaves'
      BY <1>2, <3>1 DEF PreferenceTypes, AreSaves
    <3>3. \A i \in DOMAIN saves : IsSave(saves[i])
      BY <1>2 DEF PreferenceTypes, AreSaves
    <3>4. \A i \in DOMAIN saves : Stays(i)
      BY <3>1, <3>3 DEF Stays, IsSave
    <3>5. \E new : new \notin DOMAIN saves
      <4>1. DOMAIN saves = 1..Len(saves) /\ Len(saves) \in Nat
        BY <1>2 DEF PreferenceTypes, AreSaves
      <4>2. 0 \notin DOMAIN saves
        BY <4>1
      <4> QED
        BY <4>2
    <3> QED
      BY <2>1, <3>1, <3>2, <3>4, <3>5
  <2>2. CASE ~IsEmpty(request)
    <3>1. PICK others : others = [i \in DOMAIN saves |-> [saves[i] EXCEPT !.clears = FALSE]]
      OBVIOUS
    <3>2. saves' = Append(others, sent) /\ legacy' = legacy
      BY <1>1, <1>9, <2>2, <3>1 DEF Hydrate, Shell
    <3>3. AreSaves
      BY <1>2 DEF PreferenceTypes
    <3>4. /\ others \in Seq({others[i] : i \in DOMAIN others})
          /\ DOMAIN others = DOMAIN saves
          /\ Len(others) = Len(saves)
          /\ \A i \in DOMAIN saves :
               /\ others[i] = [layout |-> saves[i].layout, recent |-> saves[i].recent,
                             at |-> saves[i].at, clears |-> FALSE]
               /\ IsSave(others[i])
      <4>1. /\ DOMAIN others = DOMAIN saves /\ others = [i \in DOMAIN saves |-> others[i]]
            /\ \A i \in DOMAIN saves : others[i] = [saves[i] EXCEPT !.clears = FALSE]
        BY <3>1
      <4> QED
        BY <3>3, <4>1, NoneClears
    <3>5. \A i \in DOMAIN saves :
            /\ others[i] = [layout |-> saves[i].layout, recent |-> saves[i].recent,
                          at |-> saves[i].at, clears |-> others[i].clears]
            /\ others[i].clears \in BOOLEAN
            /\ others[i].clears => saves[i].clears
      <4> TAKE i \in DOMAIN saves
      <4>1. others[i] = [layout |-> saves[i].layout, recent |-> saves[i].recent,
                       at |-> saves[i].at, clears |-> FALSE]
        BY <3>4
      <4>2. others[i].clears = FALSE
        BY <4>1
      <4> QED
        BY <4>1, <4>2
    <3>6. /\ AreSaves'
          /\ \A i \in DOMAIN saves : Stays(i)
          /\ \E new : /\ new \notin DOMAIN saves /\ DOMAIN saves' = DOMAIN saves \cup {new}
                      /\ saves'[new] = sent
      BY <1>10, <3>2, <3>3, <3>4, <3>5, OneIsAdded
    <3> QED
      BY <3>2, <3>6
  <2> QED
    BY <2>1, <2>2
<1>12. PICK new : /\ new \notin DOMAIN saves
                  /\ \/ DOMAIN saves' = DOMAIN saves /\ IsEmpty(request)
                     \/ /\ DOMAIN saves' = DOMAIN saves \cup {new} /\ saves'[new] = sent
                        /\ legacy' = legacy
  BY <1>11
<1>13. /\ \A i \in DOMAIN saves : /\ i \in DOMAIN saves' /\ saves'[i].layout = saves[i].layout
                                  /\ saves'[i].recent = saves[i].recent
                                  /\ saves'[i].at = saves[i].at
                                  /\ saves'[i].clears => saves[i].clears
       /\ sent.layout = request.layout /\ sent.recent = moved.recent /\ sent.at = "sent"
       /\ IsEmpty(request) <=> DOMAIN request.layout = {} /\ moved.recent = NoValue
  <2>1. \A i \in DOMAIN saves : i \in DOMAIN saves'
    BY <1>12
  <2>2. \A i \in DOMAIN saves : /\ saves'[i].layout = saves[i].layout
                                /\ saves'[i].recent = saves[i].recent
                                /\ saves'[i].at = saves[i].at
                                /\ saves'[i].clears => saves[i].clears
    <3> TAKE i \in DOMAIN saves
    <3>1. Stays(i)
      BY <1>11
    <3>2. saves'[i].clears => saves[i].clears
      BY <3>1 DEF Stays
    <3>3. saves'[i] = [layout |-> saves[i].layout, recent |-> saves[i].recent, at |-> saves[i].at,
                       clears |-> saves'[i].clears]
      BY <3>1 DEF Stays
    <3> QED
      BY <3>2, <3>3
  <2>3. sent.layout = request.layout /\ sent.recent = moved.recent /\ sent.at = "sent"
    BY <1>4, <1>9
  <2>4. IsEmpty(request) <=> DOMAIN request.layout = {} /\ moved.recent = NoValue
    BY <1>4 DEF IsEmpty
  <2> QED
    BY <2>1, <2>2, <2>3, <2>4
<1>14. calm => \A i \in Pending : DOMAIN saves[i].layout = {}
  BY DEF LayoutPending
<1>15. SavesAreFaithful'
  <2> SUFFICES ASSUME NEW i \in DOMAIN saves', saves'[i].at # "ended",
                      NEW f \in DOMAIN saves'[i].layout, ~touched'[f]
               PROVE  saves'[i].layout[f] = store'[f]
    <3>1. \A i \in DOMAIN saves' : DOMAIN saves'[i].layout \subseteq LayoutFields
      BY <1>11 DEF AreSaves, IsSave, IsPartial
    <3> QED
      BY <1>8, <3>1 DEF SavesAreFaithful, Pending
  <2>1. f \in LayoutFields
    BY <1>11 DEF AreSaves, IsSave, IsPartial
  <2>2. calm
    BY <1>6, <2>1
  <2>3. i \notin DOMAIN saves
    BY <1>13, <1>14, <2>2 DEF Pending
  <2>4. saves'[i].layout = request.layout
    BY <1>12, <1>13, <2>3
  <2> QED
    BY <1>4, <1>5, <2>1, <2>2, <2>4
<1>16. LayoutIsRead'
  BY <1>8 DEF LayoutIsRead
<1>17. values.recent # <<>> => server.recent # <<>>
  BY DEF WasRead
<1>18. legacy' \in {legacy, NoValue}
  BY <1>1 DEF Hydrate
<1>19. ClearsAreFaithful'
  <2> SUFFICES ASSUME legacy' # NoValue, NEW i \in DOMAIN saves', saves'[i].clears
               PROVE  /\ RecentMigrates(saves[i])'
                      /\ \A f \in DOMAIN legacy'.layout : FieldMigrates(f, saves[i])'
    BY DEF ClearsAreFaithful
  <2>1. legacy' = legacy /\ legacy # NoValue
    BY <1>18
  <2>2. \A f \in DOMAIN legacy.layout : f \in LayoutFields
    BY <1>2, <2>1, PreferencesAssumption DEF PreferenceTypes, IsPartial
  <2>3. CASE i \in DOMAIN saves
    <3>1. /\ saves[i].clears /\ saves'[i].layout = saves[i].layout
          /\ saves'[i].recent = saves[i].recent /\ saves'[i].at = saves[i].at
      BY <1>13, <2>3
    <3>2. RecentMigrates(saves[i]) /\ \A f \in DOMAIN legacy.layout : FieldMigrates(f, saves[i])
      BY <2>1, <2>3, <3>1 DEF PreferenceInv, ClearsAreFaithful
    <3>3. RecentMigrates(saves[i])'
      BY <1>2, <2>1, <3>1, <3>2 DEF RecentMigrates
    <3>4. ASSUME NEW f \in DOMAIN legacy.layout
          PROVE  FieldMigrates(f, saves[i])'
      BY <1>2, <1>6, <2>1, <2>2, <3>1, <3>2 DEF FieldMigrates
    <3> QED
      BY <2>1, <3>3, <3>4
  <2>4. CASE i \notin DOMAIN saves
    <3>1. /\ saves'[i].layout = request.layout /\ saves'[i].recent = moved.recent
          /\ saves'[i].at = "sent"
      BY <1>12, <1>13, <2>4
    <3>2. RecentMigrates(saves[i])'
      BY <1>2, <1>3, <1>17, <2>1, <3>1 DEF RecentMigrates
    <3>3. ASSUME NEW f \in DOMAIN legacy.layout, ~touched'[f]
          PROVE  FieldMigrates(f, saves[i])'
      <4>1. calm
        BY <1>6, <2>2, <3>3
      <4>2. \/ f \in DOMAIN moved.layout /\ moved.layout[f] # Default
            \/ server.layout[f] # Default \/ legacy.layout[f] = Default
        BY <1>3, <2>1, <3>3, <4>1
      <4> QED
        BY <1>2, <1>4, <2>1, <3>1, <4>1, <4>2 DEF FieldMigrates
    <3>4. ASSUME NEW f \in DOMAIN legacy.layout, touched'[f]
          PROVE  FieldMigrates(f, saves[i])'
      BY <3>4 DEF FieldMigrates
    <3> QED
      BY <2>1, <3>2, <3>3, <3>4
  <2> QED
    BY <2>3, <2>4
<1>20. ~disturbed' => ~disturbed /\ ~stale
  BY <1>2
<1>21. LayoutFollows'
  <2> SUFFICES ASSUME ~stale
               PROVE  /\ \A i, j \in LayoutPending' : i = j
                      /\ \A i \in LayoutPending' : Completes(saves[i])'
                      /\ LayoutPending' = {} => server'.layout = store'
    BY <1>20 DEF LayoutFollows
  <2>1. values = server /\ \A i \in Pending : DOMAIN saves[i].layout = {}
    BY DEF LayoutPending
  <2>2. \A i \in LayoutPending' : /\ i = new /\ DOMAIN request.layout # {}
                                  /\ saves'[i].layout = request.layout /\ saves'[i].at = "sent"
    <3> TAKE i \in LayoutPending'
    <3>1. i \in DOMAIN saves' /\ saves'[i].at # "ended" /\ DOMAIN saves'[i].layout # {}
      BY DEF LayoutPending, Pending
    <3>2. i \notin DOMAIN saves
      BY <1>13, <2>1, <3>1 DEF Pending
    <3> QED
      BY <1>12, <1>13, <3>1, <3>2
  <2>3. \A f \in LayoutFields :
          store'[f] = IF f \in DOMAIN request.layout THEN request.layout[f] ELSE server.layout[f]
    BY <1>2, <1>4, <1>5, <2>1 DEF Layouts
  <2>4. ASSUME NEW i \in LayoutPending'
        PROVE  Completes(saves[i])'
    BY <1>2, <2>2, <2>3 DEF Completes
  <2>5. ASSUME LayoutPending' = {}
        PROVE  server'.layout = store'
    <3>1. DOMAIN request.layout = {}
      <4>1. CASE DOMAIN saves' = DOMAIN saves \cup {new} /\ saves'[new] = sent
        BY <1>13, <2>5, <4>1 DEF LayoutPending, Pending
      <4>2. CASE IsEmpty(request)
        BY <1>13, <4>2
      <4> QED
        BY <1>12, <4>1, <4>2
    <3>2. \A f \in LayoutFields : store'[f] = server.layout[f]
      BY <2>3, <3>1
    <3> QED
      BY <1>2, <1>5, <3>2 DEF Layouts
  <2> QED
    BY <2>2, <2>4, <2>5
<1>22. Pending' = {} => Pending = {}
  BY <1>13 DEF Pending
<1>23. LegacyIsSafe
  <2> SUFFICES ASSUME legacy # NoValue, legacy' = NoValue
               PROVE  /\ \A f \in DOMAIN legacy.layout : Superseded(f)
                      /\ legacy.recent \in {NoValue, <<>>} \/ server'.recent # <<>>
    BY DEF LegacyIsSafe
  <2>1. DOMAIN request.layout = {} /\ moved.recent = NoValue
    BY <1>12, <1>13
  <2>2. \A f \in DOMAIN legacy.layout : f \in LayoutFields
    BY <1>2, PreferencesAssumption DEF PreferenceTypes, IsPartial
  <2>3. ASSUME NEW f \in DOMAIN legacy.layout
        PROVE  Superseded(f)
    BY <1>2, <1>3, <1>4, <1>6, <2>1, <2>2 DEF Superseded
  <2>4. legacy.recent \in {NoValue, <<>>} \/ server'.recent # <<>>
    BY <1>2, <1>3, <1>17, <2>1
  <2> QED
    BY <2>3, <2>4
<1> QED
  BY <1>2, <1>5, <1>6, <1>11, <1>15, <1>16, <1>18, <1>19, <1>20, <1>21, <1>22, <1>23
     DEF PreferenceTypes

-----------------------------------------------------------------------------
(* The steps *)

\* What a step owes to MigrationIsFaithful.
StepIsFaithful ==
  /\ \A f \in LayoutFields : server.layout[f] \notin {Default, server'.layout[f]} => touched[f]
  /\ LegacyIsSafe

\* The request is one that was there, with the order to clear or without, or it has
\* no field and clears nothing.
IsCarried(i) ==
  /\ i \in DOMAIN saves
  /\ saves'[i].layout = saves[i].layout /\ saves'[i].recent = saves[i].recent
  /\ saves'[i].at = saves[i].at
  /\ saves'[i].clears => saves[i].clears
IsHarmless(i) == DOMAIN saves'[i].layout = {} /\ ~saves'[i].clears

LEMMA StaysIsCarried ==
  ASSUME \A i \in DOMAIN saves : Stays(i), DOMAIN saves \subseteq DOMAIN saves'
  PROVE  \A i \in DOMAIN saves : IsCarried(i)
<1> TAKE i \in DOMAIN saves
<1>1. saves'[i] = [layout |-> saves[i].layout, recent |-> saves[i].recent, at |-> saves[i].at,
                   clears |-> saves'[i].clears]
  BY DEF Stays
<1>2. saves'[i].clears => saves[i].clears
  BY DEF Stays
<1> QED
  BY <1>1, <1>2 DEF IsCarried

LEMMA FaithIsKept ==
  ASSUME PreferenceInv, UNCHANGED <<server, store, touched>>, legacy' \in {legacy, NoValue},
         ready' => ready, \A i \in DOMAIN saves' : IsCarried(i) \/ IsHarmless(i)
  PROVE  SavesAreFaithful' /\ ClearsAreFaithful' /\ LayoutIsRead'
<1>1. \A f : FieldIsRead(f) => FieldIsRead(f)'
  BY DEF FieldIsRead
<1>2. SavesAreFaithful'
  <2> SUFFICES ASSUME NEW i \in DOMAIN saves', saves'[i].at # "ended",
                      NEW f \in DOMAIN saves'[i].layout, ~touched[f]
               PROVE  saves'[i].layout[f] = store[f] /\ FieldIsRead(f)'
    BY DEF SavesAreFaithful, Pending
  <2>1. i \in DOMAIN saves /\ saves'[i].layout = saves[i].layout /\ saves[i].at # "ended"
    BY DEF IsCarried, IsHarmless
  <2> QED
    BY <1>1, <2>1 DEF PreferenceInv, SavesAreFaithful, Pending
<1>3. ClearsAreFaithful'
  <2> SUFFICES ASSUME legacy' # NoValue, NEW i \in DOMAIN saves', saves'[i].clears
               PROVE  /\ RecentMigrates(saves[i])'
                      /\ \A f \in DOMAIN legacy'.layout : FieldMigrates(f, saves[i])'
    BY DEF ClearsAreFaithful
  <2>1. legacy' = legacy /\ legacy # NoValue
    OBVIOUS
  <2>2. /\ i \in DOMAIN saves /\ saves[i].clears /\ saves'[i].layout = saves[i].layout
        /\ saves'[i].recent = saves[i].recent /\ saves'[i].at = saves[i].at
    BY DEF IsCarried, IsHarmless
  <2>3. RecentMigrates(saves[i]) /\ \A f \in DOMAIN legacy.layout : FieldMigrates(f, saves[i])
    BY <2>1, <2>2 DEF PreferenceInv, ClearsAreFaithful
  <2>4. RecentMigrates(saves[i])'
    BY <2>1, <2>2, <2>3 DEF RecentMigrates
  <2>5. ASSUME NEW f \in DOMAIN legacy.layout
        PROVE  FieldMigrates(f, saves[i])'
    BY <2>1, <2>2, <2>3 DEF FieldMigrates
  <2> QED
    BY <2>1, <2>4, <2>5
<1>4. LayoutIsRead'
  BY <1>1 DEF PreferenceInv, LayoutIsRead
<1> QED
  BY <1>2, <1>3, <1>4

LEMMA FollowIsKept ==
  ASSUME LayoutFollows, UNCHANGED <<server, store>>, LayoutPending' = LayoutPending,
         \A i \in LayoutPending : saves'[i].layout = saves[i].layout /\ saves'[i].at = saves[i].at,
         ~disturbed' => ~disturbed, ready' /\ timer' = NoValue => ready /\ timer = NoValue
  PROVE  LayoutFollows'
<1>1. \A i \in LayoutPending : Completes(saves[i]) => Completes(saves[i])'
  BY DEF Completes
<1> QED
  BY <1>1 DEF LayoutFollows

\* A request that has ended.
LEMMA OneEnds ==
  ASSUME PreferenceTypes, NEW i \in DOMAIN saves, saves' = [saves EXCEPT ![i] = Ended]
  PROVE  /\ AreSaves' /\ DOMAIN saves' = DOMAIN saves
         /\ \A j \in DOMAIN saves' : IsCarried(j) \/ IsHarmless(j)
         /\ Pending' = Pending \ {i}
         /\ LayoutPending' = LayoutPending \ {i}
         /\ \A j \in LayoutPending' : saves'[j] = saves[j]
<1>1. PICK ended : ended = Ended
  OBVIOUS
<1>2. /\ ended = [layout |-> NoFields, recent |-> NoValue, at |-> "ended", clears |-> FALSE]
      /\ DOMAIN NoFields = {}
  BY <1>1 DEF Ended, NoFields
<1>3. /\ ended.layout = NoFields /\ ended.recent = NoValue /\ ended.at = "ended"
      /\ ended.clears = FALSE
  BY <1>2
<1>4. IsSave(ended)
  BY <1>2, <1>3 DEF IsSave, IsPartial
<1>5. /\ AreSaves' /\ DOMAIN saves' = DOMAIN saves
      /\ saves'[i] = ended
      /\ \A j \in DOMAIN saves \ {i} : saves'[j] = saves[j]
  <2>1. AreSaves /\ saves' = [saves EXCEPT ![i] = ended]
    BY <1>1 DEF PreferenceTypes
  <2> QED
    BY <1>4, <2>1, OneChanges
<1>6. ASSUME NEW j \in DOMAIN saves'
      PROVE  IsCarried(j) \/ IsHarmless(j)
  <2>1. CASE j = i
    BY <1>2, <1>3, <1>5, <2>1 DEF IsHarmless
  <2>2. CASE j # i
    BY <1>5, <2>2 DEF IsCarried
  <2> QED
    BY <2>1, <2>2
<1>7. Pending' = Pending \ {i}
  BY <1>3, <1>5 DEF Pending
<1>8. LayoutPending' = LayoutPending \ {i} /\ \A j \in LayoutPending' : saves'[j] = saves[j]
  BY <1>5, <1>7 DEF LayoutPending, Pending
<1> QED
  BY <1>5, <1>6, <1>7, <1>8

LEMMA AFailure ==
  ASSUME PreferenceInv, NEW i \in DOMAIN saves, SaveFails(i)
  PROVE  PreferenceInv' /\ StepIsFaithful
<1>1. /\ saves' = [saves EXCEPT ![i] = Ended]
      /\ disturbed' = TRUE
      /\ UNCHANGED <<server, legacy, store, mounted, ready, early, timer, cached, fetch, touched>>
      /\ PreferenceTypes
  BY DEF SaveFails, PreferenceInv
<1>2. AreSaves' /\ \A j \in DOMAIN saves' : IsCarried(j) \/ IsHarmless(j)
  BY <1>1, OneEnds
<1>3. SavesAreFaithful' /\ ClearsAreFaithful' /\ LayoutIsRead'
  BY <1>1, <1>2, FaithIsKept
<1>4. LayoutFollows' /\ PageKnows'
  BY <1>1 DEF LayoutFollows, PageKnows
<1>5. PreferenceTypes'
  BY <1>1, <1>2 DEF PreferenceTypes, WasRead
<1>6. StepIsFaithful
  BY <1>1 DEF StepIsFaithful, LegacyIsSafe
<1> QED
  BY <1>3, <1>4, <1>5, <1>6 DEF PreferenceInv

LEMMA RequestIsSent == Asking = [at |-> "sent", value |-> NoValue, again |-> FALSE]
<1>1. PICK idle, again : /\ idle = [at |-> "idle", value |-> NoValue, again |-> again]
                         /\ again = FALSE
  OBVIOUS
<1>2. idle = NoFetch
  BY <1>1 DEF NoFetch
<1>3. [idle EXCEPT !.at = "sent"] = [at |-> "sent", value |-> NoValue, again |-> again]
  BY <1>1
<1> QED
  BY <1>1, <1>2, <1>3 DEF Asking

LEMMA ASuccess ==
  ASSUME PreferenceInv, NEW i \in DOMAIN saves, SaveSucceeds(i)
  PROVE  PreferenceInv' /\ StepIsFaithful
<1>1. /\ saves[i].at = "applied"
      /\ saves' = [saves EXCEPT ![i] = Ended]
      /\ legacy' = Cleared(i)
      /\ fetch' = IF mounted /\ (ready \/ fetch = NoFetch) THEN Asking ELSE fetch
      /\ disturbed' = (disturbed \/ (~mounted /\ fetch # NoFetch))
      /\ UNCHANGED <<server, store, mounted, ready, early, timer, cached, touched>>
      /\ PreferenceTypes
  BY DEF SaveSucceeds, PreferenceInv
<1>2. /\ AreSaves' /\ \A j \in DOMAIN saves' : IsCarried(j) \/ IsHarmless(j)
      /\ Pending' = Pending \ {i}
      /\ LayoutPending' = LayoutPending \ {i}
      /\ \A j \in LayoutPending' : saves'[j] = saves[j]
  BY <1>1, OneEnds
<1>3. legacy' \in {legacy, NoValue} /\ (legacy # NoValue /\ legacy' = NoValue => saves[i].clears)
  BY <1>1 DEF Cleared
<1>4. SavesAreFaithful' /\ ClearsAreFaithful' /\ LayoutIsRead'
  BY <1>1, <1>2, <1>3, FaithIsKept
<1>5. Asking = [at |-> "sent", value |-> NoValue, again |-> FALSE]
  BY RequestIsSent
<1>6. \/ fetch' = [at |-> "sent", value |-> NoValue, again |-> FALSE]
      \/ ~(mounted /\ ready) /\ fetch' = fetch /\ (mounted => fetch # NoFetch)
  BY <1>1, <1>5
<1>7. PreferenceTypes'
  <2>1. /\ fetch' = [at |-> fetch'.at, value |-> fetch'.value, again |-> fetch'.again]
        /\ fetch'.at \in {"idle", "sent", "answered"} /\ fetch'.again \in BOOLEAN
        /\ fetch'.at = "answered" => fetch' = fetch
        /\ fetch'.at = "idle" => fetch' = NoFetch
    <3>1. CASE fetch' = [at |-> "sent", value |-> NoValue, again |-> FALSE]
      BY <3>1
    <3>2. CASE fetch' = fetch
      BY <1>1, <3>2 DEF PreferenceTypes
    <3> QED
      BY <1>6, <3>1, <3>2
  <2>2. disturbed' \in BOOLEAN
    BY <1>1 DEF PreferenceTypes
  <2>3. fetch'.at = "answered" => WasRead(fetch.value)'
    BY <1>1, <2>1 DEF PreferenceTypes, WasRead
  <2>4. cached' # NoValue => WasRead(cached)'
    BY <1>1 DEF PreferenceTypes, WasRead
  <2> QED
    BY <1>1, <1>2, <1>3, <2>1, <2>2, <2>3, <2>4 DEF PreferenceTypes
<1>8. LayoutFollows'
  <2> SUFFICES ASSUME ~disturbed
               PROVE  /\ \A j, k \in LayoutPending' : j = k
                      /\ ready /\ timer = NoValue =>
                           /\ \A j \in LayoutPending' : Completes(saves[j])'
                           /\ LayoutPending' = {} => server.layout = store
    BY <1>1 DEF LayoutFollows
  <2>1. \A j, k \in LayoutPending : j = k
    BY DEF PreferenceInv, LayoutFollows
  <2>2. ASSUME ready, timer = NoValue, NEW j \in LayoutPending'
        PROVE  Completes(saves[j])'
    <3>1. j \in LayoutPending /\ saves'[j] = saves[j]
      BY <1>2, <2>2
    <3>2. Completes(saves[j])
      BY <2>2, <3>1 DEF PreferenceInv, LayoutFollows
    <3> QED
      BY <1>1, <3>1, <3>2 DEF Completes
  <2>3. ASSUME ready, timer = NoValue, LayoutPending' = {}
        PROVE  server.layout = store
    <3>1. CASE i \in LayoutPending
      <4>1. Completes(saves[i])
        BY <2>3, <3>1 DEF PreferenceInv, LayoutFollows
      <4>2. \A f \in LayoutFields : store[f] = server.layout[f]
        BY <1>1, <4>1 DEF Completes
      <4> QED
        BY <1>1, <4>2 DEF PreferenceTypes, Layouts
    <3>2. CASE i \notin LayoutPending
      BY <1>2, <2>3, <3>2 DEF PreferenceInv, LayoutFollows
    <3> QED
      BY <3>1, <3>2
  <2> QED
    BY <1>2, <2>1, <2>2, <2>3
<1>9. PageKnows'
  <2>1. CASE fetch' = [at |-> "sent", value |-> NoValue, again |-> FALSE]
    <3>1. fetch'.at = "sent"
      BY <2>1
    <3> QED
      BY <3>1 DEF PageKnows
  <2>3. CASE mounted /\ ~ready /\ fetch' = fetch /\ fetch # NoFetch
    <3>1. cached' = NoValue /\ ~ready' /\ fetch'.at # "idle"
      BY <1>1, <2>3 DEF PreferenceTypes
    <3> QED
      BY <3>1 DEF PageKnows
  <2>2. CASE ~mounted /\ fetch' = fetch
    <3>1. ~disturbed' => fetch' = [at |-> "idle", value |-> NoValue, again |-> FALSE]
      BY <1>1, <2>2 DEF NoFetch
    <3>2. ~disturbed' => fetch'.at = "idle"
      BY <3>1
    <3> QED
      BY <1>1, <2>2, <3>2 DEF PageKnows
  <2> QED
    BY <1>6, <2>1, <2>2, <2>3 DEF PreferenceInv, PreferenceTypes
<1>10. StepIsFaithful
  <2>1. ASSUME legacy # NoValue, legacy' = NoValue
        PROVE  /\ \A f \in DOMAIN legacy.layout : Superseded(f)
               /\ legacy.recent \in {NoValue, <<>>} \/ server'.recent # <<>>
    <3>1. RecentMigrates(saves[i]) /\ \A f \in DOMAIN legacy.layout : FieldMigrates(f, saves[i])
      BY <1>3, <2>1 DEF PreferenceInv, ClearsAreFaithful
    <3>2. legacy.recent \in {NoValue, <<>>} \/ server'.recent # <<>>
      BY <1>1, <3>1 DEF RecentMigrates
    <3>3. ASSUME NEW f \in DOMAIN legacy.layout
          PROVE  Superseded(f)
      BY <1>1, <3>1 DEF FieldMigrates, Superseded
    <3> QED
      BY <3>2, <3>3
  <2> QED
    BY <1>1, <2>1 DEF StepIsFaithful, LegacyIsSafe
<1> QED
  BY <1>4, <1>7, <1>8, <1>9, <1>10 DEF PreferenceInv

\* The service takes what the request has.
LEMMA AnApplication ==
  ASSUME PreferenceInv, NEW i \in DOMAIN saves, SaveApplied(i)
  PROVE  PreferenceInv' /\ StepIsFaithful
<1>1. /\ saves[i].at = "sent"
      /\ server' = Merged(server, saves[i])
      /\ saves' = [saves EXCEPT ![i].at = "applied"]
      /\ UNCHANGED <<legacy, store, mounted, ready, early, timer, cached, fetch, disturbed,
                     touched>>
      /\ PreferenceTypes
  BY DEF SaveApplied, PreferenceInv
<1>2. PICK save : save = saves[i]
  OBVIOUS
<1>3. IsSave(save) /\ i \in Pending
  BY <1>1, <1>2 DEF PreferenceTypes, AreSaves, Pending
<1>4. PICK done : done = [layout |-> save.layout, recent |-> save.recent, at |-> "applied",
                          clears |-> save.clears]
  OBVIOUS
<1>5. /\ done.layout = save.layout /\ done.recent = save.recent /\ done.at = "applied"
      /\ done.clears = save.clears
  BY <1>4
<1>6. IsSave(done)
  BY <1>3, <1>4, <1>5 DEF IsSave
<1>7. saves' = [saves EXCEPT ![i] = done]
  <2>1. [save EXCEPT !.at = "applied"] = done
    BY <1>3, <1>4 DEF IsSave
  <2> QED
    BY <1>1, <1>2, <2>1
<1>8. /\ AreSaves' /\ DOMAIN saves' = DOMAIN saves
      /\ saves'[i] = done
      /\ \A j \in DOMAIN saves \ {i} : saves'[j] = saves[j]
  <2>1. AreSaves
    BY <1>1 DEF PreferenceTypes
  <2> QED
    BY <1>6, <1>7, <2>1, OneChanges
<1>9. /\ server' = [layout |-> server'.layout, recent |-> server'.recent]
      /\ server'.layout \in Layouts
      /\ \A f \in LayoutFields :
           server'.layout[f] = IF f \in DOMAIN save.layout THEN save.layout[f] ELSE server.layout[f]
      /\ server.recent # <<>> \/ save.recent # NoValue => server'.recent # <<>>
  <2>1. server' = [layout |-> [f \in LayoutFields |->
                                 IF f \in DOMAIN save.layout THEN save.layout[f]
                                                             ELSE server.layout[f]],
                   recent |-> IF save.recent = NoValue THEN server.recent ELSE save.recent]
    BY <1>1, <1>2 DEF Merged
  <2>2. \A f \in LayoutFields : (IF f \in DOMAIN save.layout THEN save.layout[f]
                                                             ELSE server.layout[f]) \in Values
    BY <1>1, <1>3 DEF IsSave, IsPartial, PreferenceTypes, Layouts
  <2>3. server'.layout = [f \in LayoutFields |-> IF f \in DOMAIN save.layout THEN save.layout[f]
                                                                            ELSE server.layout[f]]
    BY <2>1
  <2>4. server'.recent = IF save.recent = NoValue THEN server.recent ELSE save.recent
    BY <2>1
  <2>5. server.recent # <<>> \/ save.recent # NoValue => server'.recent # <<>>
    BY <1>3, <2>4 DEF IsSave
  <2>6. server' = [layout |-> server'.layout, recent |-> server'.recent]
    BY <2>1
  <2> QED
    BY <2>2, <2>3, <2>5, <2>6 DEF Layouts
<1>10. ASSUME NEW f \in LayoutFields, ~touched[f]
       PROVE  /\ \/ server'.layout[f] = server.layout[f]
                 \/ server.layout[f] = Default /\ server'.layout[f] = store[f]
              /\ FieldIsRead(f) => FieldIsRead(f)'
  <2>1. CASE f \in DOMAIN save.layout
    <3>1. save.layout[f] = store[f] /\ FieldIsRead(f)
      BY <1>2, <1>3, <1>10, <2>1 DEF PreferenceInv, SavesAreFaithful
    <3> QED
      BY <1>1, <1>9, <1>10, <2>1, <3>1 DEF FieldIsRead
  <2>2. CASE f \notin DOMAIN save.layout
    BY <1>1, <1>9, <1>10, <2>2 DEF FieldIsRead
  <2> QED
    BY <2>1, <2>2
<1>11. SavesAreFaithful'
  <2> SUFFICES ASSUME NEW j \in DOMAIN saves', saves'[j].at # "ended",
                      NEW f \in DOMAIN saves'[j].layout, ~touched[f]
               PROVE  saves'[j].layout[f] = store[f] /\ FieldIsRead(f)'
    BY <1>1 DEF SavesAreFaithful, Pending
  <2>1. saves'[j].layout = saves[j].layout /\ j \in Pending
    BY <1>2, <1>3, <1>5, <1>8 DEF Pending
  <2>2. f \in LayoutFields
    BY <1>8 DEF AreSaves, IsSave, IsPartial
  <2>3. saves[j].layout[f] = store[f] /\ FieldIsRead(f)
    BY <2>1 DEF PreferenceInv, SavesAreFaithful
  <2> QED
    BY <1>10, <2>1, <2>2, <2>3
<1>12. ClearsAreFaithful'
  <2> SUFFICES ASSUME legacy # NoValue, NEW j \in DOMAIN saves', saves'[j].clears
               PROVE  /\ RecentMigrates(saves[j])'
                      /\ \A f \in DOMAIN legacy.layout : FieldMigrates(f, saves[j])'
    BY <1>1 DEF ClearsAreFaithful
  <2>1. /\ j \in DOMAIN saves /\ saves[j].clears /\ saves'[j].layout = saves[j].layout
        /\ saves'[j].recent = saves[j].recent
        /\ j # i => saves'[j].at = saves[j].at
    BY <1>2, <1>5, <1>8
  <2>2. RecentMigrates(saves[j]) /\ \A f \in DOMAIN legacy.layout : FieldMigrates(f, saves[j])
    BY <2>1 DEF PreferenceInv, ClearsAreFaithful
  <2>3. RecentMigrates(saves[j])'
    BY <1>1, <1>2, <1>9, <2>1, <2>2 DEF RecentMigrates
  <2>4. ASSUME NEW f \in DOMAIN legacy.layout
        PROVE  FieldMigrates(f, saves[j])'
    <3>1. f \in LayoutFields
      BY <1>1, PreferencesAssumption DEF PreferenceTypes, IsPartial
    <3>2. ~touched[f] /\ server.layout[f] # Default => server'.layout[f] # Default
      BY <1>10, <3>1
    <3>3. j = i /\ f \in DOMAIN save.layout => server'.layout[f] = save.layout[f]
      BY <1>9, <3>1
    <3> QED
      BY <1>1, <1>2, <2>1, <2>2, <3>2, <3>3 DEF FieldMigrates
  <2> QED
    BY <2>3, <2>4
<1>13. LayoutIsRead'
  BY <1>1, <1>10 DEF PreferenceInv, LayoutIsRead, FieldIsRead
<1>14. LayoutPending' = LayoutPending
  BY <1>1, <1>2, <1>5, <1>8 DEF LayoutPending, Pending
<1>15. LayoutFollows'
  <2> SUFFICES ASSUME ~disturbed, ready, timer = NoValue
               PROVE  /\ \A j \in LayoutPending : Completes(saves[j])'
                      /\ LayoutPending = {} => server'.layout = store
    BY <1>1, <1>14 DEF PreferenceInv, LayoutFollows
  <2>1. /\ \A j, k \in LayoutPending : j = k
        /\ \A j \in LayoutPending : Completes(saves[j])
        /\ LayoutPending = {} => server.layout = store
    BY DEF PreferenceInv, LayoutFollows
  <2>2. CASE i \in LayoutPending
    <3>1. \A f \in LayoutFields : store[f] = server'.layout[f]
      BY <1>1, <1>2, <1>9, <2>1, <2>2 DEF Completes
    <3>2. Completes(saves[i])'
      BY <1>1, <1>5, <1>8, <3>1 DEF Completes
    <3> QED
      BY <2>1, <2>2, <3>2
  <2>3. CASE i \notin LayoutPending
    <3>1. DOMAIN save.layout = {}
      BY <1>2, <1>3, <2>3 DEF LayoutPending
    <3>2. server'.layout = server.layout
      BY <1>1, <1>9, <3>1 DEF PreferenceTypes, Layouts
    <3>3. ASSUME NEW j \in LayoutPending
          PROVE  Completes(saves[j])'
      <4>1. saves'[j] = saves[j]
        BY <1>8, <2>3, <3>3 DEF LayoutPending, Pending
      <4>2. store' = store
        BY <1>1
      <4>3. Completes(saves[j])
        BY <2>1, <3>3
      <4> QED
        BY <3>2, <4>1, <4>2, <4>3 DEF Completes
    <3> QED
      BY <1>1, <2>1, <3>2, <3>3
  <2> QED
    BY <2>2, <2>3
<1>16. PageKnows'
  <2>1. i \in Pending'
    BY <1>5, <1>8 DEF Pending
  <2> QED
    BY <2>1 DEF PageKnows
<1>17. PreferenceTypes'
  <2>1. cached # NoValue => WasRead(cached)'
    BY <1>1, <1>9 DEF PreferenceTypes, WasRead
  <2>2. fetch.at = "answered" => WasRead(fetch.value)'
    BY <1>1, <1>9 DEF PreferenceTypes, WasRead
  <2> QED
    BY <1>1, <1>8, <1>9, <2>1, <2>2 DEF PreferenceTypes
<1>18. StepIsFaithful
  BY <1>1, <1>10 DEF StepIsFaithful, LegacyIsSafe
<1> QED
  BY <1>11, <1>12, <1>13, <1>15, <1>16, <1>17, <1>18 DEF PreferenceInv

\* The request of the query is answered, or fails.
LEMMA AnAnswer ==
  ASSUME PreferenceInv, FetchAnswered
  PROVE  PreferenceInv' /\ StepIsFaithful
<1>1. /\ fetch.at = "sent"
      /\ UNCHANGED <<server, legacy, store, mounted, ready, early, timer, cached, saves, touched>>
      /\ PreferenceTypes
  BY DEF FetchAnswered, PreferenceInv
<1>2. \/ /\ fetch' = [at |-> "answered", value |-> server, again |-> fetch.again]
         /\ disturbed' = disturbed
      \/ /\ fetch' = IF fetch.again THEN NoFetch ELSE [fetch EXCEPT !.again = TRUE]
         /\ disturbed' = (disturbed \/ fetch.again)
  BY DEF FetchAnswered
<1>3. \/ /\ fetch' = [at |-> "answered", value |-> server, again |-> fetch.again]
         /\ disturbed' = disturbed
      \/ fetch' = NoFetch /\ disturbed' = TRUE
      \/ fetch' = [at |-> "sent", value |-> fetch.value, again |-> TRUE] /\ disturbed' = disturbed
  <2>1. [fetch EXCEPT !.again = TRUE] = [at |-> "sent", value |-> fetch.value, again |-> TRUE]
    <3>1. PICK again : again = TRUE
      OBVIOUS
    <3>2. fetch = [at |-> "sent", value |-> fetch.value, again |-> fetch.again]
      BY <1>1 DEF PreferenceTypes
    <3>3. [fetch EXCEPT !.again = again] = [at |-> "sent", value |-> fetch.value, again |-> again]
      BY <3>2
    <3> QED
      BY <3>1, <3>3
  <2>2. fetch.again \in BOOLEAN /\ disturbed \in BOOLEAN
    BY <1>1 DEF PreferenceTypes
  <2> QED
    BY <1>2, <2>1, <2>2
<1>4. NoFetch = [at |-> "idle", value |-> NoValue, again |-> FALSE]
  BY DEF NoFetch
<1>5. /\ fetch' = [at |-> fetch'.at, value |-> fetch'.value, again |-> fetch'.again]
      /\ fetch'.at \in {"idle", "sent", "answered"} /\ fetch'.again \in BOOLEAN
      /\ fetch'.at = "answered" => fetch'.value = server
      /\ fetch'.at = "idle" => fetch' = NoFetch /\ disturbed'
      /\ ~disturbed' => ~disturbed
      /\ disturbed' \in BOOLEAN
  <2>1. fetch.again \in BOOLEAN /\ disturbed \in BOOLEAN
    BY <1>1 DEF PreferenceTypes
  <2>2. CASE /\ fetch' = [at |-> "answered", value |-> server, again |-> fetch.again]
             /\ disturbed' = disturbed
    BY <2>1, <2>2
  <2>3. CASE fetch' = NoFetch /\ disturbed' = TRUE
    BY <1>4, <2>3
  <2>4. CASE /\ fetch' = [at |-> "sent", value |-> fetch.value, again |-> TRUE]
             /\ disturbed' = disturbed
    BY <2>1, <2>4
  <2> QED
    BY <1>3, <2>2, <2>3, <2>4
<1>6. PreferenceTypes'
  <2>1. AreSaves'
    BY <1>1 DEF PreferenceTypes, AreSaves
  <2>2. cached # NoValue => WasRead(cached)'
    BY <1>1 DEF PreferenceTypes, WasRead
  <2>3. fetch'.at = "answered" => WasRead(fetch.value)'
    BY <1>1, <1>5 DEF PreferenceTypes, WasRead
  <2> QED
    BY <1>1, <1>5, <2>1, <2>2, <2>3 DEF PreferenceTypes
<1>7. \A i \in DOMAIN saves' : IsCarried(i)
  BY <1>1 DEF IsCarried
<1>8. SavesAreFaithful' /\ ClearsAreFaithful' /\ LayoutIsRead'
  BY <1>1, <1>7, FaithIsKept
<1>9. LayoutPending' = LayoutPending /\ Pending' = Pending
  BY <1>1 DEF LayoutPending, Pending
<1>10. LayoutFollows'
  BY <1>1, <1>5, <1>9, FollowIsKept DEF PreferenceInv
<1>11. PageKnows'
  BY <1>1, <1>5 DEF PageKnows
<1>12. StepIsFaithful
  BY <1>1 DEF StepIsFaithful, LegacyIsSafe
<1> QED
  BY <1>6, <1>8, <1>10, <1>11, <1>12 DEF PreferenceInv

\* The preferences arrive, and the shell may hydrate.
LEMMA AnArrival ==
  ASSUME PreferenceInv, FetchArrives
  PROVE  PreferenceInv' /\ StepIsFaithful
<1>1. /\ fetch.at = "answered" /\ fetch' = NoFetch /\ cached' = fetch.value
      /\ UNCHANGED <<server, mounted, timer>>
      /\ PreferenceTypes
  BY DEF FetchArrives, PreferenceInv
<1>2. PICK values : values = fetch.value /\ WasRead(values)
  BY <1>1 DEF PreferenceTypes
<1>3. fetch' = [at |-> "idle", value |-> NoValue, again |-> FALSE]
  BY <1>1 DEF NoFetch
<1>4. fetch'.at = "idle" /\ fetch'.again = FALSE
      /\ fetch' = [at |-> fetch'.at, value |-> fetch'.value, again |-> fetch'.again]
  BY <1>3
<1>5. WasRead(cached)'
  BY <1>1, <1>2 DEF WasRead
<1>6. \A f \in LayoutFields : server.layout[f] \notin {Default, server'.layout[f]} => touched[f]
  BY <1>1
<1>7. CASE mounted /\ ~ready
  <2>1. Hydrate(values) /\ ~ready /\ server' = server /\ timer' = timer
    BY <1>1, <1>2, <1>7 DEF FetchArrives
  <2>2. /\ store' \in Layouts /\ legacy' \in {legacy, NoValue} /\ timer = NoValue
        /\ touched' \in [LayoutFields -> BOOLEAN] /\ {disturbed', ready', early'} \subseteq BOOLEAN
        /\ AreSaves' /\ SavesAreFaithful' /\ ClearsAreFaithful' /\ LayoutIsRead' /\ LayoutFollows'
        /\ ~disturbed' => ~disturbed /\ values = server
        /\ Pending' = {} => Pending = {}
        /\ LegacyIsSafe
    BY <1>2, <2>1, HydrateKeeps
  <2>5. ready' = TRUE
    BY <2>1 DEF Hydrate
  <2>3. PreferenceTypes'
    BY <1>1, <1>4, <1>5, <1>7, <2>2, <2>5 DEF PreferenceTypes
  <2>4. PageKnows'
    BY <1>1, <1>2, <1>4, <2>2 DEF PageKnows
  <2> QED
    BY <1>6, <2>2, <2>3, <2>4 DEF PreferenceInv, StepIsFaithful
<1>8. CASE ~(mounted /\ ~ready)
  <2>1. UNCHANGED <<ready, early, store, touched, disturbed, legacy, saves>>
    BY <1>1, <1>8 DEF FetchArrives
  <2>2. \A i \in DOMAIN saves' : IsCarried(i)
    BY <2>1 DEF IsCarried
  <2>3. SavesAreFaithful' /\ ClearsAreFaithful' /\ LayoutIsRead'
    BY <1>1, <2>1, <2>2, FaithIsKept
  <2>4. LayoutPending' = LayoutPending /\ Pending' = Pending
    BY <2>1 DEF LayoutPending, Pending
  <2>5. LayoutFollows'
    BY <1>1, <2>1, <2>4, FollowIsKept DEF PreferenceInv
  <2>6. AreSaves'
    BY <1>1, <2>1 DEF PreferenceTypes, AreSaves
  <2>7. PreferenceTypes'
    BY <1>1, <1>4, <1>5, <1>8, <2>1, <2>6 DEF PreferenceTypes
  <2>8. PageKnows'
    BY <1>1, <1>4, <1>8, <2>1, <2>4 DEF PreferenceInv, PageKnows
  <2>9. LegacyIsSafe
    BY <2>1 DEF LegacyIsSafe
  <2> QED
    BY <1>6, <2>3, <2>5, <2>7, <2>8, <2>9 DEF PreferenceInv, StepIsFaithful
<1> QED
  BY <1>7, <1>8

\* The user changes a field.
LEMMA AChange ==
  ASSUME PreferenceInv, NEW f \in LayoutFields, NEW v \in Values, Change(f, v)
  PROVE  PreferenceInv' /\ StepIsFaithful
<1>1. /\ mounted
      /\ store' = [store EXCEPT ![f] = v]
      /\ touched' = [touched EXCEPT ![f] = TRUE]
      /\ IF ready THEN timer' = store' /\ early' = early ELSE early' = TRUE /\ timer' = timer
      /\ UNCHANGED <<server, legacy, mounted, ready, cached, fetch, saves, disturbed>>
      /\ PreferenceTypes
  BY DEF Change, UserActs, Queued, PreferenceInv
<1>2. /\ store' \in Layouts /\ store' # NoValue
      /\ \A g \in LayoutFields \ {f} : store'[g] = store[g] /\ touched'[g] = touched[g]
      /\ touched'[f] = TRUE
      /\ touched' \in [LayoutFields -> BOOLEAN]
      /\ \A g \in LayoutFields : touched[g] => touched'[g]
  BY <1>1, PreferencesAssumption DEF PreferenceTypes, Layouts
<1>3. \A g \in LayoutFields : FieldIsRead(g) => FieldIsRead(g)'
  BY <1>1, <1>2 DEF FieldIsRead
<1>4. AreSaves'
  BY <1>1 DEF PreferenceTypes, AreSaves
<1>5. /\ timer' # NoValue => ready' /\ timer' = store'
      /\ ready' => timer' # NoValue
      /\ early' \in BOOLEAN
  BY <1>1, <1>2 DEF PreferenceTypes
<1>6. PreferenceTypes'
  <2>1. cached # NoValue => WasRead(cached)'
    BY <1>1 DEF PreferenceTypes, WasRead
  <2>2. fetch.at = "answered" => WasRead(fetch.value)'
    BY <1>1 DEF PreferenceTypes, WasRead
  <2> QED
    BY <1>1, <1>2, <1>4, <1>5, <2>1, <2>2 DEF PreferenceTypes
<1>7. SavesAreFaithful'
  <2> SUFFICES ASSUME NEW i \in Pending, NEW g \in DOMAIN saves[i].layout, ~touched'[g]
               PROVE  saves[i].layout[g] = store'[g] /\ FieldIsRead(g)'
    BY <1>1 DEF SavesAreFaithful, Pending
  <2>1. g \in LayoutFields
    BY <1>1 DEF PreferenceTypes, AreSaves, Pending, IsSave, IsPartial
  <2>2. saves[i].layout[g] = store[g] /\ FieldIsRead(g)
    BY <1>2, <2>1 DEF PreferenceInv, SavesAreFaithful
  <2> QED
    BY <1>2, <1>3, <2>1, <2>2
<1>8. ClearsAreFaithful'
  <2> SUFFICES ASSUME legacy # NoValue, NEW i \in DOMAIN saves, saves[i].clears
               PROVE  /\ RecentMigrates(saves[i])'
                      /\ \A g \in DOMAIN legacy.layout : FieldMigrates(g, saves[i])'
    BY <1>1 DEF ClearsAreFaithful
  <2>1. RecentMigrates(saves[i]) /\ \A g \in DOMAIN legacy.layout : FieldMigrates(g, saves[i])
    BY DEF PreferenceInv, ClearsAreFaithful
  <2>2. RecentMigrates(saves[i])'
    BY <1>1, <2>1 DEF RecentMigrates
  <2>3. ASSUME NEW g \in DOMAIN legacy.layout
        PROVE  FieldMigrates(g, saves[i])'
    <3>1. g \in LayoutFields
      BY <1>1, PreferencesAssumption DEF PreferenceTypes, IsPartial
    <3> QED
      BY <1>1, <1>2, <2>1, <3>1 DEF FieldMigrates
  <2> QED
    BY <2>2, <2>3
<1>9. LayoutIsRead'
  BY <1>1, <1>3 DEF PreferenceInv, LayoutIsRead
<1>10. LayoutPending' = LayoutPending /\ Pending' = Pending
  BY <1>1 DEF LayoutPending, Pending
<1>11. LayoutFollows'
  BY <1>1, <1>5, <1>10 DEF PreferenceInv, LayoutFollows
<1>12. PageKnows'
  BY <1>1, <1>10 DEF PreferenceInv, PageKnows
<1>13. StepIsFaithful
  BY <1>1 DEF StepIsFaithful, LegacyIsSafe
<1> QED
  BY <1>6, <1>7, <1>8, <1>9, <1>11, <1>12, <1>13 DEF PreferenceInv

\* The timer has a whole layout saved.
LEMMA ATimer ==
  ASSUME PreferenceInv, TimerFires
  PROVE  PreferenceInv' /\ StepIsFaithful
<1>1. /\ timer # NoValue
      /\ saves' = Shell(Update(timer, NoValue), FALSE)
      /\ timer' = NoValue
      /\ disturbed' = (LayoutPending # {})
      /\ UNCHANGED <<server, legacy, store, mounted, ready, early, cached, fetch, touched>>
      /\ PreferenceTypes
  BY DEF TimerFires, PreferenceInv
<1>2. ready /\ timer = store /\ store \in Layouts
  BY <1>1 DEF PreferenceTypes
<1>3. PICK sent : sent = [layout |-> store, recent |-> NoValue, at |-> "sent", clears |-> FALSE]
  OBVIOUS
<1>4. sent.layout = store /\ sent.recent = NoValue /\ sent.at = "sent" /\ sent.clears = FALSE
  BY <1>3
<1>5. IsSave(sent) /\ DOMAIN sent.layout = LayoutFields
  <2>1. DOMAIN store = LayoutFields /\ IsPartial(store)
    BY <1>2 DEF Layouts, IsPartial
  <2> QED
    BY <1>3, <1>4, <2>1 DEF IsSave
<1>6. PICK others : others = [i \in DOMAIN saves |-> [saves[i] EXCEPT !.clears = FALSE]]
  OBVIOUS
<1>7. saves' = Append(others, sent)
  BY <1>1, <1>2, <1>3, <1>6 DEF Shell, Update
<1>8. AreSaves
  BY <1>1 DEF PreferenceTypes
<1>9. /\ others \in Seq({others[i] : i \in DOMAIN others})
      /\ DOMAIN others = DOMAIN saves
      /\ Len(others) = Len(saves)
      /\ \A i \in DOMAIN saves :
           /\ others[i] = [layout |-> saves[i].layout, recent |-> saves[i].recent,
                         at |-> saves[i].at, clears |-> FALSE]
           /\ IsSave(others[i])
  <2>1. /\ DOMAIN others = DOMAIN saves /\ others = [i \in DOMAIN saves |-> others[i]]
        /\ \A i \in DOMAIN saves : others[i] = [saves[i] EXCEPT !.clears = FALSE]
    BY <1>6
  <2> QED
    BY <1>8, <2>1, NoneClears
<1>10. \A i \in DOMAIN saves :
         /\ others[i] = [layout |-> saves[i].layout, recent |-> saves[i].recent,
                       at |-> saves[i].at, clears |-> others[i].clears]
         /\ others[i].clears \in BOOLEAN
         /\ others[i].clears => saves[i].clears
  <2> TAKE i \in DOMAIN saves
  <2>1. others[i] = [layout |-> saves[i].layout, recent |-> saves[i].recent,
                   at |-> saves[i].at, clears |-> FALSE]
    BY <1>9
  <2>2. others[i].clears = FALSE
    BY <2>1
  <2> QED
    BY <2>1, <2>2
<1>11. /\ AreSaves'
       /\ \A i \in DOMAIN saves : Stays(i)
       /\ \E new : /\ new \notin DOMAIN saves /\ DOMAIN saves' = DOMAIN saves \cup {new}
                   /\ saves'[new] = sent
  BY <1>5, <1>7, <1>8, <1>9, <1>10, OneIsAdded
<1>12. PICK new : /\ new \notin DOMAIN saves /\ DOMAIN saves' = DOMAIN saves \cup {new}
                  /\ saves'[new] = sent
  BY <1>11
<1>13. \A i \in DOMAIN saves : IsCarried(i)
  BY <1>11, StaysIsCarried
<1>14. \A f \in LayoutFields : FieldIsRead(f) /\ FieldIsRead(f)'
  BY <1>1, <1>2 DEF PreferenceInv, LayoutIsRead, FieldIsRead
<1>15. SavesAreFaithful'
  <2> SUFFICES ASSUME NEW i \in DOMAIN saves', saves'[i].at # "ended",
                      NEW f \in DOMAIN saves'[i].layout, ~touched[f]
               PROVE  saves'[i].layout[f] = store[f] /\ FieldIsRead(f)'
    BY <1>1 DEF SavesAreFaithful, Pending
  <2>1. f \in LayoutFields
    BY <1>11 DEF AreSaves, IsSave, IsPartial
  <2>2. CASE i \in DOMAIN saves
    <3>1. saves'[i].layout = saves[i].layout /\ i \in Pending
      BY <1>13, <2>2 DEF IsCarried, Pending
    <3> QED
      BY <1>14, <2>1, <3>1 DEF PreferenceInv, SavesAreFaithful
  <2>3. CASE i \notin DOMAIN saves
    BY <1>4, <1>12, <1>14, <2>1, <2>3
  <2> QED
    BY <2>2, <2>3
<1>16. ClearsAreFaithful'
  <2> SUFFICES ASSUME legacy # NoValue, NEW i \in DOMAIN saves', saves'[i].clears
               PROVE  /\ RecentMigrates(saves[i])'
                      /\ \A f \in DOMAIN legacy.layout : FieldMigrates(f, saves[i])'
    BY <1>1 DEF ClearsAreFaithful
  <2>1. i \in DOMAIN saves
    BY <1>4, <1>12
  <2>2. /\ saves[i].clears /\ saves'[i].layout = saves[i].layout
        /\ saves'[i].recent = saves[i].recent /\ saves'[i].at = saves[i].at
    BY <1>13, <2>1 DEF IsCarried
  <2>3. RecentMigrates(saves[i]) /\ \A f \in DOMAIN legacy.layout : FieldMigrates(f, saves[i])
    BY <2>1, <2>2 DEF PreferenceInv, ClearsAreFaithful
  <2>4. RecentMigrates(saves[i])'
    BY <1>1, <2>2, <2>3 DEF RecentMigrates
  <2>5. ASSUME NEW f \in DOMAIN legacy.layout
        PROVE  FieldMigrates(f, saves[i])'
    BY <1>1, <2>2, <2>3 DEF FieldMigrates
  <2> QED
    BY <2>4, <2>5
<1>17. LayoutIsRead'
  BY <1>14 DEF LayoutIsRead
<1>18. LayoutFollows'
  <2> SUFFICES ASSUME LayoutPending = {}
               PROVE  /\ \A i, j \in LayoutPending' : i = j
                      /\ \A i \in LayoutPending' : Completes(saves[i])'
                      /\ LayoutPending' = {} => server'.layout = store'
    BY <1>1 DEF LayoutFollows
  <2>1. \A i \in LayoutPending' : i = new
    <3> TAKE i \in LayoutPending'
    <3>1. i \in DOMAIN saves' /\ saves'[i].at # "ended" /\ DOMAIN saves'[i].layout # {}
      BY DEF LayoutPending, Pending
    <3>2. i \notin DOMAIN saves
      BY <1>13, <3>1 DEF IsCarried, LayoutPending, Pending
    <3> QED
      BY <1>12, <3>1, <3>2
  <2>2. Completes(saves[new])'
    BY <1>1, <1>4, <1>5, <1>12 DEF Completes
  <2>3. ASSUME LayoutPending' = {}
        PROVE  server'.layout = store'
    <3>1. LayoutFields = {}
      BY <1>4, <1>5, <1>12, <2>3 DEF LayoutPending, Pending
    <3> QED
      BY <1>1, <1>2, <3>1 DEF PreferenceTypes, Layouts
  <2> QED
    BY <2>1, <2>2, <2>3 DEF Completes
<1>19. PageKnows'
  <2>1. new \in Pending'
    BY <1>4, <1>12 DEF Pending
  <2> QED
    BY <2>1 DEF PageKnows
<1>20. PreferenceTypes'
  <2>1. cached # NoValue => WasRead(cached)'
    BY <1>1 DEF PreferenceTypes, WasRead
  <2>2. fetch.at = "answered" => WasRead(fetch.value)'
    BY <1>1 DEF PreferenceTypes, WasRead
  <2> QED
    BY <1>1, <1>11, <2>1, <2>2 DEF PreferenceTypes
<1>21. StepIsFaithful
  BY <1>1 DEF StepIsFaithful, LegacyIsSafe
<1> QED
  BY <1>15, <1>16, <1>17, <1>18, <1>19, <1>20, <1>21 DEF PreferenceInv

\* The user searches: a request without a field.
LEMMA ASearch ==
  ASSUME PreferenceInv, NEW item \in Items, Select(item)
  PROVE  PreferenceInv' /\ StepIsFaithful
<1>1. /\ UNCHANGED <<server, legacy, store, mounted, ready, early, timer, cached, fetch, disturbed,
                     touched>>
      /\ PreferenceTypes
  BY DEF Select, PreferenceInv
<1>2. PICK known : saves' = Append(saves, [layout |-> NoFields, recent |-> Recents(item, known),
                                           at |-> "sent", clears |-> FALSE])
  BY DEF Select
<1>3. PICK recent : recent = Recents(item, known) /\ recent # <<>>
  <2>1. PICK rest : Recents(item, known) = <<item>> \o rest
    BY DEF Recents
  <2>2. <<item>> \o rest # <<>>
    OBVIOUS
  <2> QED
    BY <2>1, <2>2
<1>4. PICK sent : sent = [layout |-> NoFields, recent |-> recent, at |-> "sent", clears |-> FALSE]
  OBVIOUS
<1>5. /\ sent.layout = NoFields /\ sent.recent = recent /\ sent.at = "sent"
      /\ sent.clears = FALSE
      /\ DOMAIN NoFields = {}
  BY <1>4 DEF NoFields
<1>6. IsSave(sent)
  BY <1>3, <1>4, <1>5 DEF IsSave, IsPartial
<1>7. AreSaves /\ saves' = Append(saves, sent)
  BY <1>1, <1>2, <1>3, <1>4 DEF PreferenceTypes
<1>8. \A i \in DOMAIN saves :
        /\ saves[i] = [layout |-> saves[i].layout, recent |-> saves[i].recent,
                       at |-> saves[i].at, clears |-> saves[i].clears]
        /\ saves[i].clears \in BOOLEAN
        /\ saves[i].clears => saves[i].clears
  BY <1>7 DEF AreSaves, IsSave
<1>9. saves \in Seq({saves[i] : i \in DOMAIN saves})
  BY <1>7 DEF AreSaves
<1>10. /\ AreSaves'
       /\ \A i \in DOMAIN saves : Stays(i)
       /\ \E new : /\ new \notin DOMAIN saves /\ DOMAIN saves' = DOMAIN saves \cup {new}
                   /\ saves'[new] = sent
  BY <1>6, <1>7, <1>8, <1>9, OneIsAdded
<1>11. PICK new : /\ new \notin DOMAIN saves /\ DOMAIN saves' = DOMAIN saves \cup {new}
                  /\ saves'[new] = sent
  BY <1>10
<1>12. \A i \in DOMAIN saves : IsCarried(i)
  BY <1>10, <1>11, StaysIsCarried
<1>13. \A i \in DOMAIN saves' : IsCarried(i) \/ IsHarmless(i)
  BY <1>5, <1>11, <1>12 DEF IsHarmless
<1>14. SavesAreFaithful' /\ ClearsAreFaithful' /\ LayoutIsRead'
  BY <1>1, <1>13, FaithIsKept
<1>15. LayoutPending' = LayoutPending
  BY <1>5, <1>11, <1>12 DEF LayoutPending, Pending, IsCarried
<1>16. \A i \in LayoutPending : saves'[i].layout = saves[i].layout /\ saves'[i].at = saves[i].at
  BY <1>12 DEF LayoutPending, Pending, IsCarried
<1>17. LayoutFollows'
  BY <1>1, <1>15, <1>16, FollowIsKept DEF PreferenceInv
<1>18. PageKnows'
  <2>1. new \in Pending'
    BY <1>5, <1>11 DEF Pending
  <2> QED
    BY <2>1 DEF PageKnows
<1>19. PreferenceTypes'
  <2>1. cached # NoValue => WasRead(cached)'
    BY <1>1 DEF PreferenceTypes, WasRead
  <2>2. fetch.at = "answered" => WasRead(fetch.value)'
    BY <1>1 DEF PreferenceTypes, WasRead
  <2> QED
    BY <1>1, <1>10, <2>1, <2>2 DEF PreferenceTypes
<1>20. StepIsFaithful
  BY <1>1 DEF StepIsFaithful, LegacyIsSafe
<1> QED
  BY <1>14, <1>17, <1>18, <1>19, <1>20 DEF PreferenceInv

\* The shell is left.
LEMMA ALeave ==
  ASSUME PreferenceInv, Leave
  PROVE  PreferenceInv' /\ StepIsFaithful
<1>1. /\ mounted' = FALSE /\ ready' = FALSE /\ early' = FALSE /\ timer' = NoValue
      /\ saves' = [i \in DOMAIN saves |-> [saves[i] EXCEPT !.clears = FALSE]]
      /\ (cached' = NoValue /\ fetch' = NoFetch) \/ UNCHANGED <<cached, fetch>>
      /\ UNCHANGED <<server, legacy, store, disturbed, touched>>
      /\ PreferenceTypes
  BY DEF Leave, PreferenceInv
<1>2. PICK others : others = saves'
  OBVIOUS
<1>3. /\ DOMAIN others = DOMAIN saves /\ others = [i \in DOMAIN saves |-> others[i]]
      /\ \A i \in DOMAIN saves : others[i] = [saves[i] EXCEPT !.clears = FALSE]
  BY <1>1, <1>2
<1>4. /\ others \in Seq({others[i] : i \in DOMAIN others})
      /\ DOMAIN others = DOMAIN saves
      /\ Len(others) = Len(saves)
      /\ \A i \in DOMAIN saves :
           /\ others[i] = [layout |-> saves[i].layout, recent |-> saves[i].recent,
                         at |-> saves[i].at, clears |-> FALSE]
           /\ IsSave(others[i])
  <2>1. AreSaves
    BY <1>1 DEF PreferenceTypes
  <2> QED
    BY <1>3, <2>1, NoneClears
<1>5. AreSaves' /\ DOMAIN saves' = DOMAIN saves
  BY <1>2, <1>4 DEF AreSaves
<1>6. ASSUME NEW i \in DOMAIN saves
      PROVE  IsCarried(i)
  <2>1. others[i] = [layout |-> saves[i].layout, recent |-> saves[i].recent,
                   at |-> saves[i].at, clears |-> FALSE]
    BY <1>4
  <2>2. /\ others[i].layout = saves[i].layout /\ others[i].recent = saves[i].recent
        /\ others[i].at = saves[i].at /\ others[i].clears = FALSE
    BY <2>1
  <2> QED
    BY <1>2, <1>5, <2>2 DEF IsCarried
<1>7. SavesAreFaithful' /\ ClearsAreFaithful' /\ LayoutIsRead'
  BY <1>1, <1>5, <1>6, FaithIsKept
<1>8. Pending' = Pending
  BY <1>5, <1>6 DEF Pending, IsCarried
<1>9. LayoutPending' = LayoutPending
  BY <1>6, <1>8 DEF LayoutPending, Pending, IsCarried
<1>10. \A i \in LayoutPending : saves'[i].layout = saves[i].layout /\ saves'[i].at = saves[i].at
  BY <1>6 DEF LayoutPending, Pending, IsCarried
<1>11. LayoutFollows'
  BY <1>1, <1>9, <1>10, FollowIsKept DEF PreferenceInv
<1>12. \/ fetch' = fetch
       \/ fetch' = [at |-> "idle", value |-> NoValue, again |-> FALSE] /\ fetch' = NoFetch
  BY <1>1 DEF NoFetch
<1>13. /\ fetch' = [at |-> fetch'.at, value |-> fetch'.value, again |-> fetch'.again]
       /\ fetch'.at \in {"idle", "sent", "answered"} /\ fetch'.again \in BOOLEAN
       /\ fetch'.at = "idle" => fetch' = NoFetch
       /\ fetch'.at = "answered" => fetch' = fetch
  <2>1. CASE fetch' = fetch
    BY <1>1, <2>1 DEF PreferenceTypes
  <2>2. CASE fetch' = [at |-> "idle", value |-> NoValue, again |-> FALSE] /\ fetch' = NoFetch
    BY <2>2
  <2> QED
    BY <1>12, <2>1, <2>2
<1>14. PageKnows'
  BY <1>1, <1>8, <1>13 DEF PreferenceInv, PageKnows
<1>15. PreferenceTypes'
  <2>1. cached' # NoValue => WasRead(cached)'
    BY <1>1 DEF PreferenceTypes, WasRead
  <2>2. fetch'.at = "answered" => WasRead(fetch.value)'
    BY <1>1, <1>13 DEF PreferenceTypes, WasRead
  <2> QED
    BY <1>1, <1>5, <1>13, <2>1, <2>2 DEF PreferenceTypes
<1>16. StepIsFaithful
  BY <1>1 DEF StepIsFaithful, LegacyIsSafe
<1> QED
  BY <1>7, <1>11, <1>14, <1>15, <1>16 DEF PreferenceInv

\* The shell is there again.
LEMMA AMount ==
  ASSUME PreferenceInv, Mount
  PROVE  PreferenceInv' /\ StepIsFaithful
<1>1. /\ ~mounted /\ mounted' = TRUE
      /\ fetch' = IF fetch = NoFetch THEN Asking ELSE fetch
      /\ UNCHANGED <<server, timer, cached>>
      /\ PreferenceTypes
  BY DEF Mount, PreferenceInv
<1>2. ~ready
  BY <1>1 DEF PreferenceTypes
<1>3. \/ fetch' = [at |-> "sent", value |-> NoValue, again |-> FALSE]
      \/ fetch' = fetch /\ fetch.at # "idle"
  BY <1>1, RequestIsSent DEF PreferenceTypes
<1>4. /\ fetch' = [at |-> fetch'.at, value |-> fetch'.value, again |-> fetch'.again]
      /\ fetch'.at \in {"sent", "answered"} /\ fetch'.again \in BOOLEAN
      /\ fetch'.at = "answered" => fetch' = fetch
  <2>1. CASE fetch' = [at |-> "sent", value |-> NoValue, again |-> FALSE]
    BY <2>1
  <2>2. CASE fetch' = fetch /\ fetch.at # "idle"
    BY <1>1, <2>2 DEF PreferenceTypes
  <2> QED
    BY <1>3, <2>1, <2>2
<1>5. /\ cached # NoValue => WasRead(cached) /\ WasRead(cached)'
      /\ fetch'.at = "answered" => WasRead(fetch.value)'
  BY <1>1, <1>4 DEF PreferenceTypes, WasRead
<1>6. \A f \in LayoutFields : server.layout[f] \notin {Default, server'.layout[f]} => touched[f]
  BY <1>1
<1>7. CASE cached # NoValue
  <2>1. Hydrate(cached) /\ server' = server /\ timer' = timer
    BY <1>1, <1>7 DEF Mount
  <2>2. /\ store' \in Layouts /\ legacy' \in {legacy, NoValue} /\ timer = NoValue
        /\ touched' \in [LayoutFields -> BOOLEAN] /\ {disturbed', ready', early'} \subseteq BOOLEAN
        /\ AreSaves' /\ SavesAreFaithful' /\ ClearsAreFaithful' /\ LayoutIsRead' /\ LayoutFollows'
        /\ ~disturbed' => ~disturbed /\ cached = server
        /\ Pending' = {} => Pending = {}
        /\ LegacyIsSafe
    BY <1>2, <1>5, <1>7, <2>1, HydrateKeeps
  <2>5. ready' = TRUE
    BY <2>1 DEF Hydrate
  <2>3. PreferenceTypes'
    BY <1>1, <1>4, <1>5, <2>2, <2>5 DEF PreferenceTypes
  <2>4. PageKnows'
    BY <1>1, <1>4, <1>7, <2>2 DEF PreferenceInv, PageKnows
  <2> QED
    BY <1>6, <2>2, <2>3, <2>4 DEF PreferenceInv, StepIsFaithful
<1>8. CASE cached = NoValue
  <2>1. UNCHANGED <<ready, early, store, touched, disturbed, legacy, saves>>
    BY <1>1, <1>8 DEF Mount
  <2>2. \A i \in DOMAIN saves' : IsCarried(i)
    BY <2>1 DEF IsCarried
  <2>3. SavesAreFaithful' /\ ClearsAreFaithful' /\ LayoutIsRead'
    BY <1>1, <2>1, <2>2, FaithIsKept
  <2>4. LayoutPending' = LayoutPending /\ Pending' = Pending
    BY <2>1 DEF LayoutPending, Pending
  <2>5. LayoutFollows'
    BY <1>1, <2>1, <2>4, FollowIsKept DEF PreferenceInv
  <2>6. AreSaves'
    BY <1>1, <2>1 DEF PreferenceTypes, AreSaves
  <2>7. PreferenceTypes'
    BY <1>1, <1>2, <1>4, <1>5, <1>8, <2>1, <2>6 DEF PreferenceTypes
  <2>8. PageKnows'
    BY <1>1, <1>4, <2>1, <2>4 DEF PreferenceInv, PageKnows
  <2>9. LegacyIsSafe
    BY <2>1 DEF LegacyIsSafe
  <2> QED
    BY <1>6, <2>3, <2>5, <2>7, <2>8, <2>9 DEF PreferenceInv, StepIsFaithful
<1> QED
  BY <1>7, <1>8

\* A new page: no request, nothing touched.
LEMMA FirstPage ==
  Factory \in Layouts /\ [f \in LayoutFields |-> FALSE] \in [LayoutFields -> BOOLEAN]
BY PreferencesAssumption DEF Factory, Layouts

LEMMA ARestart ==
  ASSUME PreferenceInv, Restart
  PROVE  PreferenceInv' /\ StepIsFaithful
<1>1. /\ store' = Factory /\ ready' = FALSE /\ early' = FALSE /\ timer' = NoValue
      /\ cached' = NoValue /\ fetch' = Asking
      /\ saves' = [i \in DOMAIN saves |-> Ended]
      /\ disturbed' = FALSE
      /\ touched' = [f \in LayoutFields |-> FALSE]
      /\ UNCHANGED <<server, legacy, mounted>>
      /\ PreferenceTypes
  BY DEF Restart, PreferenceInv
<1>2. PICK ended : ended = Ended
  OBVIOUS
<1>3. /\ ended = [layout |-> NoFields, recent |-> NoValue, at |-> "ended", clears |-> FALSE]
      /\ DOMAIN NoFields = {}
  BY <1>2 DEF Ended, NoFields
<1>4. /\ ended.layout = NoFields /\ ended.recent = NoValue /\ ended.at = "ended"
      /\ ended.clears = FALSE
  BY <1>3
<1>5. IsSave(ended)
  BY <1>3, <1>4 DEF IsSave, IsPartial
<1>6. PICK n \in Nat : DOMAIN saves = 1..n
  BY <1>1 DEF PreferenceTypes, AreSaves
<1>7. PICK new : new = saves'
  OBVIOUS
<1>8. DOMAIN new = 1..n /\ new = [i \in 1..n |-> new[i]] /\ \A i \in 1..n : new[i] = ended
  BY <1>1, <1>2, <1>6, <1>7
<1>9. new \in Seq({new[i] : i \in DOMAIN new})
  BY <1>8, IsSequence
<1>10. AreSaves'
  BY <1>5, <1>7, <1>8, <1>9 DEF AreSaves
<1>11. \A i \in DOMAIN saves' : saves'[i].at = "ended" /\ ~saves'[i].clears
  BY <1>4, <1>7, <1>8
<1>12. Pending' = {}
  BY <1>11 DEF Pending
<1>13. fetch' = [at |-> "sent", value |-> NoValue, again |-> FALSE]
  BY <1>1, RequestIsSent
<1>14. /\ fetch' = [at |-> fetch'.at, value |-> fetch'.value, again |-> fetch'.again]
       /\ fetch'.at = "sent" /\ fetch'.again = FALSE
  BY <1>13
<1>15. PreferenceTypes'
  BY <1>1, <1>10, <1>14, FirstPage DEF PreferenceTypes
<1>16. SavesAreFaithful' /\ ClearsAreFaithful'
  BY <1>11, <1>12 DEF SavesAreFaithful, ClearsAreFaithful
<1>17. LayoutIsRead'
  BY <1>1 DEF LayoutIsRead
<1>18. LayoutFollows'
  BY <1>1, <1>12 DEF LayoutFollows, LayoutPending
<1>19. PageKnows'
  BY <1>14 DEF PageKnows
<1>20. StepIsFaithful
  BY <1>1 DEF StepIsFaithful, LegacyIsSafe
<1> QED
  BY <1>15, <1>16, <1>17, <1>18, <1>19, <1>20 DEF PreferenceInv

LEMMA PreferencesStart == PreferencesInit => PreferenceInv
<1> SUFFICES ASSUME PreferencesInit
             PROVE  PreferenceInv
  OBVIOUS
<1>1. /\ server \in [layout : Layouts, recent : {<<>>}]
      /\ legacy \in Legacies \cup {NoValue}
      /\ store = Factory /\ mounted = TRUE /\ ready = FALSE /\ early = FALSE
      /\ timer = NoValue /\ cached = NoValue /\ fetch = Asking /\ saves = <<>>
      /\ disturbed = FALSE /\ touched = [f \in LayoutFields |-> FALSE]
  BY DEF PreferencesInit
<1>2. fetch = [at |-> "sent", value |-> NoValue, again |-> FALSE]
  BY <1>1, RequestIsSent
<1>3. /\ fetch = [at |-> fetch.at, value |-> fetch.value, again |-> fetch.again]
      /\ fetch.at = "sent" /\ fetch.again = FALSE
  BY <1>2
<1>4. AreSaves /\ DOMAIN saves = {}
  <2>1. DOMAIN saves = {} /\ \A S : <<>> \in Seq(S)
    BY <1>1
  <2> QED
    BY <1>1, <2>1 DEF AreSaves
<1>5. server = [layout |-> server.layout, recent |-> server.recent] /\ server.layout \in Layouts
  BY <1>1
<1>6. PreferenceTypes
  BY <1>1, <1>3, <1>4, <1>5, FirstPage DEF PreferenceTypes
<1>7. Pending = {} /\ LayoutPending = {}
  BY <1>4 DEF Pending, LayoutPending
<1>8. SavesAreFaithful /\ ClearsAreFaithful /\ LayoutIsRead
  BY <1>1, <1>4, <1>7 DEF SavesAreFaithful, ClearsAreFaithful, LayoutIsRead
<1>9. LayoutFollows /\ PageKnows
  BY <1>1, <1>3, <1>7 DEF LayoutFollows, PageKnows
<1> QED
  BY <1>6, <1>8, <1>9 DEF PreferenceInv

LEMMA PreferencesStep ==
  ASSUME PreferenceInv, [PreferencesNext]_preferenceVars
  PROVE  PreferenceInv' /\ StepIsFaithful
<1>1. CASE UNCHANGED preferenceVars
  <2>1. UNCHANGED <<server, legacy, store, mounted, ready, early, timer, cached, fetch, saves,
                    disturbed, touched>>
    BY <1>1 DEF preferenceVars
  <2>2. /\ AreSaves' /\ LayoutIsRead' /\ SavesAreFaithful'
    BY <2>1 DEF PreferenceInv, PreferenceTypes, AreSaves, LayoutIsRead, FieldIsRead,
                SavesAreFaithful, Pending
  <2>3. Pending' = Pending /\ LayoutPending' = LayoutPending
    BY <2>1 DEF LayoutPending, Pending
  <2>4. LayoutFollows'
    BY <2>1, <2>3, FollowIsKept DEF PreferenceInv
  <2>5. PageKnows'
    BY <2>1, <2>3 DEF PreferenceInv, PageKnows
  <2>6. ClearsAreFaithful'
    BY <2>1 DEF PreferenceInv, ClearsAreFaithful, FieldMigrates, RecentMigrates
  <2>7. PreferenceTypes'
    BY <2>1, <2>2 DEF PreferenceInv, PreferenceTypes, WasRead
  <2>8. StepIsFaithful
    BY <2>1 DEF StepIsFaithful, LegacyIsSafe
  <2> QED
    BY <2>2, <2>4, <2>5, <2>6, <2>7, <2>8 DEF PreferenceInv
<1>2. CASE PreferencesNext
  <2>1. CASE \E i \in DOMAIN saves : SaveApplied(i) \/ SaveFails(i) \/ SaveSucceeds(i)
    BY <2>1, AnApplication, AFailure, ASuccess
  <2>2. CASE FetchAnswered \/ FetchArrives \/ TimerFires
    BY <2>2, AnAnswer, AnArrival, ATimer
  <2>3. CASE \E f \in LayoutFields, v \in Values : Change(f, v)
    BY <2>3, AChange
  <2>4. CASE \E item \in Items : Select(item)
    BY <2>4, ASearch
  <2>5. CASE Leave \/ Mount \/ Restart
    BY <2>5, ALeave, AMount, ARestart
  <2> QED
    BY <1>2, <2>1, <2>2, <2>3, <2>4, <2>5 DEF PreferencesNext
<1> QED
  BY <1>1, <1>2

LEMMA PreferencesKept == PreferencesSpec => []PreferenceInv
<1>1. PreferenceInv /\ [PreferencesNext]_preferenceVars => PreferenceInv'
  BY PreferencesStep
<1> QED
  BY <1>1, PreferencesStart, PTL DEF PreferencesSpec

\* The layout that the page shows is the one that is saved, when nothing is under
\* way (AppShell).
THEOREM QuietLayoutAlwaysSaved == PreferencesSpec => []QuietLayoutIsSaved
<1>1. PreferenceInv => QuietLayoutIsSaved
  <2> SUFFICES ASSUME PreferenceInv, mounted, ready, timer = NoValue, fetch = NoFetch, Pending = {},
                      ~disturbed
               PROVE  server.layout = store /\ cached = server
    BY DEF QuietLayoutIsSaved
  <2>1. fetch.at = "idle"
    BY DEF NoFetch
  <2>2. LayoutPending = {}
    BY DEF LayoutPending
  <2> QED
    BY <2>1, <2>2 DEF PreferenceInv, LayoutFollows, PageKnows
<1> QED
  BY <1>1, PreferencesKept, PTL

\* A value of the database is replaced only after the user has set the field, and
\* the keys of the local storage go only when their values are others or superseded
\* (AppShell, legacy-preferences.ts).
THEOREM MigrationAlwaysFaithful == PreferencesSpec => MigrationIsFaithful
<1>1. PreferenceInv /\ [PreferencesNext]_preferenceVars =>
        [/\ \A f \in LayoutFields :
              server.layout[f] \notin {Default, server'.layout[f]} => touched[f]
         /\ legacy # NoValue /\ legacy' = NoValue =>
              /\ \A f \in DOMAIN legacy.layout : Superseded(f)
              /\ legacy.recent \in {NoValue, <<>>} \/ server'.recent # <<>>]_preferenceVars
  BY PreferencesStep DEF StepIsFaithful, LegacyIsSafe
<1> QED
  BY <1>1, PreferencesKept, PTL DEF PreferencesSpec, MigrationIsFaithful

-----------------------------------------------------------------------------
(* The page *)

\* When nothing is under way the list of a screen shows what its ended job did, and
\* the database has the layout that the page shows (useJob, AppShell).
THEOREM QuietPageAlwaysAgrees == ViewSpec /\ PreferencesSpec => []QuietPageAgrees
<1>1. EndedJobsAreListed /\ QuietLayoutIsSaved => QuietPageAgrees
  BY DEF QuietPageAgrees
<1> QED
  BY <1>1, EndedJobsAlwaysListed, QuietLayoutAlwaysSaved, PTL

=============================================================================
