----------------------------- MODULE SchemaPage -----------------------------
(***************************************************************************)
(* The screen that manages archive collections and their fields.           *)
(*                                                                         *)
(* The screen edits two drafts over one cached list.  The list may be      *)
(* older than the service, the collection that is shown may be the list's  *)
(* first for want of a choice, and what follows a successful request runs  *)
(* in two halves with a refetch of the list in between.  A collection's    *)
(* settings are its name and its place in the order, a field is its key.   *)
(***************************************************************************)
EXTENDS Naturals, FiniteSets

CONSTANTS
  Collections, Fields, \* identifiers, each issued once
  Names, Orders, Keys, \* small sets of numbers
  Nothing,
  Scenes               \* [schema, kept, left]: see SchemaInit

FieldRow(c, k) == [owner |-> c, key |-> k]

ASSUME SchemaAssumption == Nothing \notin Collections

VARIABLES
  schema,       \* the rows of the service: [rows, fields]
  issued,       \* identifiers that have been issued
  kept,         \* the collections that have archives
  types,        \* the cached answer of ['archives', 'types']
  unread,       \* its last fetch failed: the manager is not shown
  reading,      \* its fetch: [at, answer]
  selectedId, typeDraft, editingField, fieldDraft, \* the screen's state
  op,           \* the five mutations: [at, target, body]
  hurried,      \* the user has edited settings in a way the screen mistakes
  left          \* acts on collections and on fields, and failures, still to come

service == <<schema, issued, kept>>
screenState == <<selectedId, typeDraft, editingField, fieldDraft>>
schemaVars == <<service, types, unread, reading, screenState, op, hurried, left>>

Ops == {"createType", "saveType", "removeType", "saveField", "removeField"}
Op(at, target, body) == [at |-> at, target |-> target, body |-> body]
AtRest == Op("idle", Nothing, Nothing)
NoReading == [at |-> "idle", answer |-> Nothing]
Reading == [at |-> "sent", answer |-> Nothing]

\* A draft of settings remembers the collection it was shown under.
Draft(settings, c) == [settings |-> settings, of |-> c]

Listed(answer) == {c \in Collections : answer.rows[c] # Nothing}

Before(s, t) == s.order < t.order \/ (s.order = t.order /\ s.name < t.name)

\* ORDER BY sort_order, name: names are unique.
First(answer) ==
  IF Listed(answer) = {} THEN Nothing
  ELSE CHOOSE c \in Listed(answer) :
         \A d \in Listed(answer) \ {c} : Before(answer.rows[c], answer.rows[d])

activeSelectedId == IF selectedId # Nothing THEN selectedId ELSE First(types)
Shown == ~unread /\ activeSelectedId \in Listed(types)
effectiveTypeDraft ==
  IF typeDraft # Nothing THEN typeDraft
  ELSE Draft(types.rows[activeSelectedId], activeSelectedId)

SchemaInit ==
  /\ \E s \in Scenes :
       /\ schema = s.schema
       /\ kept = s.kept
       /\ left = s.left
  /\ issued = Listed(schema) \cup {f \in Fields : schema.fields[f] # Nothing}
  /\ types = schema
  /\ unread = FALSE
  /\ reading = NoReading
  /\ selectedId = Nothing /\ typeDraft = Nothing
  /\ editingField = Nothing /\ fieldDraft = Nothing
  /\ op = [o \in Ops |-> AtRest]
  /\ hurried = FALSE

-----------------------------------------------------------------------------
(* The service *)

\* name is unique among the collections, the key among a collection's fields.
NameTaken(name, c) == \E d \in Listed(schema) \ {c} : schema.rows[d].name = name
FieldOf(answer, f, c) == answer.fields[f] # Nothing /\ answer.fields[f].owner = c
KeyTaken(row, f) == \E g \in Fields \ {f} : schema.fields[g] = row

Answered(o, status, target) == op' = [op EXCEPT ![o] = Op(status, target, op[o].body)]
Refuses(o) == Answered(o, "refused", op[o].target) /\ UNCHANGED <<schema, issued>>
Writes(o, target, value) ==
  schema' = [schema EXCEPT !.rows[target] = value] /\ Answered(o, "answered", target)
WritesField(o, target, value) ==
  schema' = [schema EXCEPT !.fields[target] = value] /\ Answered(o, "answered", target)

CreateCollection ==
  LET settings == op["createType"].body
  IN  /\ op["createType"].at = "sent"
      /\ IF NameTaken(settings.name, Nothing) THEN Refuses("createType")
         ELSE \E c \in Collections \ issued :
                Writes("createType", c, settings) /\ issued' = issued \cup {c}

UpdateCollection ==
  LET r == op["saveType"]
  IN  /\ r.at = "sent"
      /\ IF r.target \notin Listed(schema) \/ NameTaken(r.body.settings.name, r.target)
         THEN Refuses("saveType")
         ELSE Writes("saveType", r.target, r.body.settings) /\ UNCHANGED issued

\* A collection of which any archive is left stays.
DeleteCollection ==
  LET c == op["removeType"].target
  IN  /\ op["removeType"].at = "sent"
      /\ IF c \notin Listed(schema) \/ c \in kept THEN Refuses("removeType")
         ELSE /\ schema' = [rows |-> [schema.rows EXCEPT ![c] = Nothing],
                            fields |-> [f \in Fields |->
                              IF FieldOf(schema, f, c) THEN Nothing ELSE schema.fields[f]]]
              /\ Answered("removeType", "answered", c)
              /\ UNCHANGED issued

\* An update leaves a field in its collection.
SaveField ==
  LET r == op["saveField"]
      new == r.target = Nothing
      found == IF new THEN r.body.owner \in Listed(schema) ELSE schema.fields[r.target] # Nothing
      row == FieldRow(IF new THEN r.body.owner ELSE schema.fields[r.target].owner, r.body.key)
  IN  /\ r.at = "sent"
      /\ IF ~found \/ KeyTaken(row, r.target) THEN Refuses("saveField")
         ELSE \E f \in IF new THEN Fields \ issued ELSE {r.target} :
                WritesField("saveField", f, row) /\ issued' = issued \cup {f}

DeleteField ==
  LET f == op["removeField"].target
  IN  /\ op["removeField"].at = "sent"
      /\ IF schema.fields[f] = Nothing THEN Refuses("removeField")
         ELSE WritesField("removeField", f, Nothing) /\ UNCHANGED issued

Lost == \E o \in Ops : op[o].at = "sent" /\ Refuses(o)

Fails == left.failures > 0 /\ left' = [left EXCEPT !.failures = @ - 1]

Serves ==
  /\ \/ /\ CreateCollection \/ UpdateCollection \/ DeleteCollection \/ SaveField \/ DeleteField
        /\ UNCHANGED left
     \/ Lost /\ Fails
  /\ UNCHANGED <<kept, types, unread, reading, screenState, hurried>>

ReadAnswered ==
  /\ reading.at = "sent"
  /\ reading' = [at |-> "answered", answer |-> schema]
  /\ UNCHANGED <<service, types, unread, screenState, op, hurried, left>>

ReadFails ==
  /\ reading.at = "sent"
  /\ reading' = [reading EXCEPT !.at = "failed"]
  /\ Fails
  /\ UNCHANGED <<service, types, unread, screenState, op, hurried>>

-----------------------------------------------------------------------------
(* What the screen does with the answers *)

\* A fetch that ends or is replaced lets go whoever waits for it.
Released(ops) == [o \in Ops |->
  IF ops[o].at = "refreshing" THEN Op("resumed", ops[o].target, ops[o].body) ELSE ops[o]]

ReadArrives ==
  /\ \/ reading.at = "answered" /\ types' = reading.answer /\ unread' = FALSE
     \/ reading.at = "failed" /\ unread' = TRUE /\ UNCHANGED types
  /\ reading' = NoReading
  /\ op' = Released(op)
  /\ UNCHANGED <<service, screenState, hurried, left>>

Retry ==
  /\ unread /\ reading = NoReading
  /\ reading' = Reading
  /\ UNCHANGED <<service, types, unread, screenState, op, hurried, left>>

Refreshes(o) ==
  /\ reading' = Reading
  /\ op' = [Released(op) EXCEPT ![o] = Op("refreshing", op[o].target, op[o].body)]

Succeeds(o) ==
  /\ op[o].at = "answered"
  /\ Refreshes(o)
  /\ typeDraft' = CASE o = "createType" -> Draft(op[o].body, op[o].target)
                    [] o = "removeType" -> Nothing
                    [] OTHER -> typeDraft
  /\ selectedId' = IF o = "removeType" THEN Nothing ELSE selectedId
  /\ IF o \in {"removeType", "saveField"}
     THEN editingField' = Nothing /\ fieldDraft' = Nothing
     ELSE UNCHANGED <<editingField, fieldDraft>>
  /\ UNCHANGED <<service, types, unread, hurried, left>>

\* The collection that was created is chosen once the list has been read.
Resumes(o) ==
  /\ op[o].at = "resumed"
  /\ op' = [op EXCEPT ![o] = AtRest]
  /\ selectedId' = IF o = "createType" THEN op[o].target ELSE selectedId
  /\ UNCHANGED <<service, types, unread, reading, typeDraft, editingField, fieldDraft, hurried, left>>

\* The drafts stay as they are; the screen says that the operation failed.
RequestRefused(o) ==
  /\ op[o].at = "refused"
  /\ op' = [op EXCEPT ![o] = AtRest]
  /\ UNCHANGED <<service, types, unread, reading, screenState, hurried, left>>

-----------------------------------------------------------------------------
(* The user *)

Acts == left.acts > 0 /\ left' = [left EXCEPT !.acts = @ - 1]
FieldActs == left.fieldActs > 0 /\ left' = [left EXCEPT !.fieldActs = @ - 1]
Sends(o, target, body) ==
  /\ op[o] = AtRest
  /\ op' = [op EXCEPT ![o] = Op("sent", target, body)]

\* A new collection's draft is shown before the collection is chosen, and a
\* collection that is shown for want of a choice changes with the list.
CreationShows == op["createType"].at \in {"refreshing", "resumed"}

\* Mutant: the draft of the collection shown before stays.
Choose_KeepsDraft ==
  /\ ~unread /\ Acts
  /\ \E c \in Listed(types) : selectedId' = c
  /\ hurried' = (hurried \/ CreationShows)
  /\ UNCHANGED <<service, types, unread, reading, typeDraft, editingField, fieldDraft, op>>

\* The field drafts stay.
Choose ==
  /\ ~unread /\ Acts
  /\ \E c \in Listed(types) : selectedId' = c /\ typeDraft' = Draft(types.rows[c], c)
  /\ hurried' = (hurried \/ CreationShows)
  /\ UNCHANGED <<service, types, unread, reading, editingField, fieldDraft, op>>

\* One input changes; a draft without a name is no draft.
TypeSettings ==
  /\ Shown /\ Acts
  /\ LET draft == effectiveTypeDraft
     IN  \/ \E n \in Names : typeDraft' = Draft([draft.settings EXCEPT !.name = n], draft.of)
         \/ \E n \in Orders : typeDraft' = Draft([draft.settings EXCEPT !.order = n], draft.of)
         \/ typeDraft' = Nothing
  /\ hurried' = (hurried \/ CreationShows \/ selectedId = Nothing)
  /\ UNCHANGED <<service, types, unread, reading, selectedId, editingField, fieldDraft, op>>

CreateType ==
  /\ ~unread /\ Acts
  /\ \E n \in Names :
       Sends("createType", Nothing, [name |-> n, order |-> Cardinality(Listed(types))])
  /\ UNCHANGED <<service, types, unread, reading, screenState, hurried>>

SaveType ==
  /\ Shown /\ Acts
  /\ Sends("saveType", activeSelectedId, effectiveTypeDraft)
  /\ hurried' = (hurried \/ CreationShows)
  /\ UNCHANGED <<service, types, unread, reading, screenState>>

RemoveType ==
  /\ Shown /\ Acts
  /\ Sends("removeType", activeSelectedId, Nothing)
  /\ UNCHANGED <<service, types, unread, reading, screenState, hurried>>

EditField ==
  /\ Shown /\ FieldActs
  /\ \E f \in Fields :
       /\ FieldOf(types, f, activeSelectedId)
       /\ editingField' = f
       /\ fieldDraft' = types.fields[f].key
  /\ UNCHANGED <<service, types, unread, reading, selectedId, typeDraft, op, hurried>>

TypeField ==
  /\ Shown /\ FieldActs
  /\ \E k \in Keys : fieldDraft' = k
  /\ UNCHANGED <<service, types, unread, reading, selectedId, typeDraft, editingField, op, hurried>>

ClearField ==
  /\ Shown /\ FieldActs
  /\ editingField' = Nothing /\ fieldDraft' = Nothing
  /\ UNCHANGED <<service, types, unread, reading, selectedId, typeDraft, op, hurried>>

SubmitField ==
  /\ Shown /\ fieldDraft # Nothing /\ FieldActs
  /\ Sends("saveField", editingField, FieldRow(activeSelectedId, fieldDraft))
  /\ UNCHANGED <<service, types, unread, reading, screenState, hurried>>

\* Nothing asks before the field and its values go, and the form keeps its field.
RemoveField ==
  /\ Shown /\ FieldActs
  /\ \E f \in Fields : FieldOf(types, f, activeSelectedId) /\ Sends("removeField", f, Nothing)
  /\ UNCHANGED <<service, types, unread, reading, screenState, hurried>>

UserEdits == Choose \/ TypeSettings \/ EditField \/ TypeField \/ ClearField
UserSends == CreateType \/ SaveType \/ RemoveType \/ SubmitField \/ RemoveField
ScreenStep == ReadArrives \/ Retry \/ \E o \in Ops : Succeeds(o) \/ Resumes(o) \/ RequestRefused(o)

SchemaNext == Serves \/ ReadAnswered \/ ReadFails \/ ScreenStep \/ UserEdits \/ UserSends

SchemaSpec == SchemaInit /\ [][SchemaNext]_schemaVars

-----------------------------------------------------------------------------
(* Properties *)

TypeOK ==
  /\ selectedId \in Collections \cup {Nothing}
  /\ typeDraft = Nothing \/ typeDraft.of \in Collections
  /\ editingField \in Fields \cup {Nothing}
  /\ fieldDraft \in Keys \cup {Nothing}
  /\ \A o \in Ops : op[o].at \in {"idle", "sent", "answered", "refused", "refreshing", "resumed"}

\* Settings are saved to the collection that they were edited for, whatever
\* was created, deleted, reordered and chosen since the edit began.
SavesLand ==
  ~hurried => (op["saveType"].at # "idle" => op["saveType"].target = op["saveType"].body.of)

\* When nothing is under way and the last fetch has not failed, the screen shows
\* the service's collections and fields, however refetches replaced each other.
SettledSchemaIsCurrent ==
  (reading = NoReading /\ ~unread /\ \A o \in Ops : op[o] = AtRest) => types = schema

\* Whatever overlaps on the screen of the collections (ArchiveTypesPage), settings
\* reach the collection they were edited for and the settled screen is current.
SchemaEditsLand == SavesLand /\ SettledSchemaIsCurrent

=============================================================================
