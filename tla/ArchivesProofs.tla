---------------------------- MODULE ArchivesProofs ----------------------------
(***************************************************************************)
(* Proofs about Archives, for any number of collections, fields, archives, *)
(* types and concurrent requests.                                          *)
(*                                                                         *)
(* TrashAgrees and SearchIsCurrent need the owners of requests, in         *)
(* RowsInv, and what the triggers of one transaction have left before the  *)
(* next one fires.  UsedSchemaStays needs, in SerialInv, that what a       *)
(* request has read is still true as long as no other request has          *)
(* overlapped with it.                                                     *)
(***************************************************************************)
EXTENDS Archives, TLAPS

(* The part of TypeOK that is about requests. *)
RequestsOK ==
  /\ request \in [Handlers -> RequestType]
  /\ \A h \in Handlers : request[h].at = "update" => request[h].archive \in Archives
  /\ serial \in BOOLEAN

(* What a request writes has an owner, and a missing row is not in the trash. *)
OwnersKnown ==
  \A h \in Handlers : request[h].at \in {"create", "update"} => request[h].owner # NoCollection

RowsInv ==
  /\ TypeOK
  /\ OwnersKnown
  /\ TrashAgrees
  /\ SearchIsCurrent
  /\ \A a \in Archives : ~Exists(a) => ~record[a].gone

(* The values are of the fields of collection c and of their types. *)
Fits(c, values) ==
  \A f \in Fields : HasValue(values, f) =>
    field[f].owner = c /\ values[f] \in {field[f].type, DefaultValue}

(* What a request has found out before its transaction is still true. *)
Pending(h) ==
  /\ request[h].at = "setField" =>
       /\ request[h].field \in Fields
       /\ request[h].row.owner = field[request[h].field].owner
       /\ request[h].row.type # field[request[h].field].type =>
            \A a \in Archives : ~HasValue(value[a], request[h].field)
  /\ request[h].at \in {"create", "update"} =>
       /\ request[h].owner \in collections
       /\ Fits(request[h].owner, request[h].values)

SerialInv ==
  /\ TypeOK
  /\ \A f \in Fields : field[f] # NoRow => f \in used
  /\ UsedSchemaStays
  /\ serial => \A h \in Handlers : Pending(h)

-----------------------------------------------------------------------------
(* Types *)

LEMMA IdleType == Idle \in RequestType
BY ArchivesAssumption DEF Idle, RequestType, Owners, Values, NoValues, NoRow, FieldType, KindType

LEMMA InitTypes == Init => TypeOK
<1> SUFFICES ASSUME Init PROVE TypeOK
  OBVIOUS
<1>1. /\ NoRow \in FieldType
      /\ NoRecord \in [owner : Owners, gone : BOOLEAN]
      /\ NoValues \in Values
  BY DEF NoRow, NoRecord, NoValues, Values, Owners, KindType, FieldType
<1>2. QED BY <1>1, IdleType DEF Init, TypeOK, Idle

\* A handler's new local state keeps the requests' type.
LEMMA ContinueType ==
  ASSUME RequestsOK, NEW h \in Handlers, NEW r \in RequestType,
         r.at = "update" => r.archive \in Archives,
         Continue(h, r), UNCHANGED used
  PROVE  RequestsOK'
<1>1. RequestType' = RequestType
  BY DEF RequestType, Owners, FieldType, Values
<1>2. QED BY <1>1 DEF Continue, Overlap, RequestsOK

\* Rows that name what has been issued still do when more has been.
LEMMA TypesGrow ==
  ASSUME used \subseteq used'
  PROVE  /\ Owners \subseteq Owners'
         /\ FieldType \subseteq FieldType'
         /\ RequestType \subseteq RequestType'
<1>1. Owners \subseteq Owners'
  BY DEF Owners
<1>2. QED BY <1>1 DEF RequestType, FieldType, Values

\* What normalizeArchiveFields returns is a row of values.
LEMMA NormalizedType ==
  ASSUME TypeOK, NEW c, NEW chosen \in SUBSET FieldsOf(c), NEW defaults \in BOOLEAN
  PROVE  Normalized(c, chosen, defaults) \in Values
BY DEF Normalized, Values, FieldsOf, TypeOK, FieldType

LEMMA PrepareTypes ==
  ASSUME TypeOK, NEW h \in Handlers, NEW a \in Archives \cup {NoArchive},
         NEW place \in {"create", "update"}, place = "update" => a \in Archives,
         NEW defaults \in BOOLEAN,
         Prepare(h, a, place, defaults)
  PROVE  TypeOK'
<1>0. PICK c \in collections : \E chosen \in SUBSET FieldsOf(c) :
        Continue(h, [Idle EXCEPT !.at = place, !.archive = a, !.owner = c,
                                 !.values = Normalized(c, chosen, defaults)])
  BY DEF Prepare
<1>1. PICK chosen \in SUBSET FieldsOf(c) :
        Continue(h, [Idle EXCEPT !.at = place, !.archive = a, !.owner = c,
                                 !.values = Normalized(c, chosen, defaults)])
  BY <1>0
<1>2. [Idle EXCEPT !.at = place, !.archive = a, !.owner = c,
                   !.values = Normalized(c, chosen, defaults)] \in RequestType
  BY IdleType, NormalizedType DEF RequestType, Owners, TypeOK
<1>3. RequestsOK'
  <2> DEFINE r == [Idle EXCEPT !.at = place, !.archive = a, !.owner = c,
                               !.values = Normalized(c, chosen, defaults)]
  <2>1. r.at = place /\ r.archive = a
    BY DEF Idle
  <2>2. UNCHANGED used
    BY DEF Prepare, schemaVars
  <2>3. RequestsOK
    BY DEF RequestsOK, TypeOK
  <2> HIDE DEF r
  <2>4. r \in RequestType /\ Continue(h, r)
    BY <1>1, <1>2 DEF r
  <2>5. QED BY <2>1, <2>2, <2>3, <2>4, ContinueType
<1>4. UNCHANGED <<collections, used, field, record, value, trash, index>>
  BY DEF Prepare, schemaVars
<1>5. QED BY <1>3, <1>4 DEF RequestsOK, TypeOK, Owners, FieldType, Values

\* What the triggers leave of an archive's rows are rows of search_index.
LEMMA EntryType ==
  ASSUME NEW row, NEW values \in Values
  PROVE  Entry(row, values) \in Seq(Values)
BY DEF Entry

LEMMA NoValuesType == NoValues \in Values
BY DEF NoValues, Values

LEMMA InsertedType ==
  ASSUME NEW rows \in Seq(Values), NEW row
  PROVE  ArchivesSearchInsert(rows, row) \in Seq(Values)
BY NoValuesType DEF ArchivesSearchInsert

LEMMA DeletedType ==
  ASSUME NEW rows \in Seq(Values), NEW row, NEW deleted, NEW values \in Values
  PROVE  ArchiveValuesSearchDelete(rows, row, deleted, values) \in Seq(Values)
BY EntryType DEF ArchiveValuesSearchDelete

LEMMA RowType ==
  ASSUME TypeOK, NEW h \in Handlers, NEW a \in Archives
  PROVE  /\ Row(h, a) \in [owner : Owners, gone : BOOLEAN]
         /\ Row(h, a).owner = request[h].owner
         /\ Row(h, a).gone = record[a].gone
<1>1. record[a] \in [owner : Owners, gone : BOOLEAN] /\ request[h].owner \in Owners
  BY DEF TypeOK, RequestType
<1>2. QED BY <1>1 DEF Row

\* A write of an archive: the row, the values and the rows of the index.
LEMMA StoreTypes ==
  ASSUME TypeOK, NEW h \in Handlers, NEW a \in Archives, NEW rows \in Seq(Values),
         Store(h, a, rows)
  PROVE  /\ record' \in [Archives -> [owner : Owners, gone : BOOLEAN]]
         /\ value' \in [Archives -> Values]
         /\ index' \in [Archives -> Seq(Values)]
<1>1. request[h].values \in Values
  BY DEF TypeOK, RequestType
<1>2. record' \in [Archives -> [owner : Owners, gone : BOOLEAN]]
  BY RowType DEF Store, TypeOK
<1>3. value' \in [Archives -> Values]
  BY <1>1 DEF Store, TypeOK
<1>4. ArchiveValuesSearchInsert(rows, Row(h, a), Given(request[h].values), request[h].values)
        \in Seq(Values)
  BY <1>1, EntryType DEF ArchiveValuesSearchInsert
<1>5. QED BY <1>2, <1>3, <1>4 DEF Store, TypeOK

LEMMA NextTypes == TypeOK /\ [Next]_vars => TypeOK'
<1> SUFFICES ASSUME TypeOK, [Next]_vars PROVE TypeOK'
  OBVIOUS
<1>r. \A row \in Rows : row.owner \in Owners => row \in FieldType
  BY ArchivesAssumption DEF Rows, FieldType, KindType
<1>n. NoRow \in FieldType
  BY DEF NoRow, FieldType, Owners, KindType
<1>q. \A h \in Handlers : request[h].row \in FieldType
  BY DEF TypeOK, RequestType
<1>s. ASSUME UNCHANGED used
      PROVE  Owners' = Owners /\ FieldType' = FieldType /\ RequestType' = RequestType
  BY <1>s DEF Owners, RequestType, FieldType, Values
<1>a. ASSUME AtOnce, used \subseteq used'
      PROVE  RequestsOK'
  <2>1. RequestType \subseteq RequestType'
    BY <1>a, TypesGrow
  <2>2. QED BY <1>a, <2>1 DEF AtOnce, Overlap, RequestsOK, TypeOK
<1>f. ASSUME NEW h \in Handlers, Finish(h), used \subseteq used'
      PROVE  RequestsOK'
  <2>1. RequestType \subseteq RequestType'
    BY <1>f, TypesGrow
  <2>2. QED BY <1>f, <2>1, IdleType DEF Idle, Finish, Continue, Overlap, RequestsOK, TypeOK
<1>1. CASE CreateCollection
  <2>1. used \subseteq used' /\ Owners \subseteq Owners' /\ FieldType \subseteq FieldType'
    BY <1>1, TypesGrow DEF CreateCollection
  <2>2. QED BY <1>1, <1>a, <2>1 DEF CreateCollection, RequestsOK, TypeOK, Values
<1>2. ASSUME NEW c \in Collections, DeleteCollection(c) PROVE TypeOK'
  BY <1>2, <1>a, <1>n, <1>s DEF DeleteCollection, RequestsOK, TypeOK, Values
<1>3. ASSUME NEW h \in Handlers, BeginCreateField(h) PROVE TypeOK'
  <2>1. PICK row \in Rows :
          row.owner \in collections /\ Continue(h, [Idle EXCEPT !.at = "addField", !.row = row])
    BY <1>3 DEF BeginCreateField
  <2>2. [Idle EXCEPT !.at = "addField", !.row = row] \in RequestType
    BY <2>1, <1>r, IdleType DEF RequestType, Owners, TypeOK
  <2>3. UNCHANGED used
    BY <1>3 DEF BeginCreateField, schemaVars
  <2>4. RequestsOK'
    BY <2>1, <2>2, <2>3, ContinueType DEF RequestsOK, TypeOK, Idle
  <2>5. QED BY <1>3, <1>s, <2>3, <2>4 DEF BeginCreateField, schemaVars, RequestsOK, TypeOK, Values
<1>4. ASSUME NEW h \in Handlers, CreateField(h) PROVE TypeOK'
  <2>1. used \subseteq used' /\ Owners \subseteq Owners' /\ FieldType \subseteq FieldType'
    BY <1>4, TypesGrow DEF CreateField
  <2>2. field' \in [Fields -> FieldType]
    BY <1>4, <1>q DEF CreateField, TypeOK
  <2>3. QED BY <1>4, <1>f, <2>1, <2>2 DEF CreateField, RequestsOK, TypeOK, Values
<1>5. ASSUME NEW h \in Handlers, BeginUpdateField(h) PROVE TypeOK'
  <2>1. PICK f \in Fields, row \in Rows :
          /\ field[f].owner = row.owner /\ field[f].owner \in Owners
          /\ Continue(h, [Idle EXCEPT !.at = "setField", !.field = f, !.row = row])
    BY <1>5 DEF BeginUpdateField, TypeOK, FieldType
  <2>2. [Idle EXCEPT !.at = "setField", !.field = f, !.row = row] \in RequestType
    BY <2>1, <1>r, IdleType DEF RequestType, Owners, TypeOK
  <2>3. UNCHANGED used
    BY <1>5 DEF BeginUpdateField, schemaVars
  <2>4. RequestsOK'
    BY <2>1, <2>2, <2>3, ContinueType DEF RequestsOK, TypeOK, Idle
  <2>5. QED BY <1>5, <1>s, <2>3, <2>4 DEF BeginUpdateField, schemaVars, RequestsOK, TypeOK, Values
<1>6. ASSUME NEW h \in Handlers, UpdateField(h) PROVE TypeOK'
  <2>1. field' \in [Fields -> FieldType]
    BY <1>6, <1>q DEF UpdateField, TypeOK
  <2>2. QED BY <1>6, <1>f, <1>s, <2>1 DEF UpdateField, RequestsOK, TypeOK, Values
<1>7. ASSUME NEW f \in Fields, DeleteField(f) PROVE TypeOK'
  <2>1. value' \in [Archives -> Values]
    BY <1>7 DEF DeleteField, RequestsOK, TypeOK, Values
  <2>2. \A a \in Archives : \A deleted :
          ArchiveValuesSearchDelete(index[a], record[a], deleted, value'[a]) \in Seq(Values)
    BY <2>1, DeletedType DEF TypeOK
  <2>3. index' \in [Archives -> Seq(Values)]
    BY <1>7, <2>2 DEF DeleteField, TypeOK
  <2>4. QED BY <1>7, <1>a, <1>n, <1>s, <2>1, <2>3 DEF DeleteField, RequestsOK, TypeOK, Values
<1>8. ASSUME NEW h \in Handlers, BeginCreate(h) PROVE TypeOK'
  BY <1>8, PrepareTypes DEF BeginCreate
<1>9. ASSUME NEW h \in Handlers, BeginUpdate(h) PROVE TypeOK'
  BY <1>9, PrepareTypes DEF BeginUpdate
<1>10. ASSUME NEW h \in Handlers, Create(h) PROVE TypeOK'
  <2>1. /\ record' \in [Archives -> [owner : Owners, gone : BOOLEAN]]
        /\ value' \in [Archives -> Values]
        /\ index' \in [Archives -> Seq(Values)]
    <3>1. CASE UNCHANGED <<record, value, index>>
      BY <3>1 DEF TypeOK
    <3>2. ASSUME NEW a \in Archives, Store(h, a, ArchivesSearchInsert(index[a], Row(h, a)))
          PROVE  <2>1!1 /\ <2>1!2 /\ <2>1!3
      <4>1. ArchivesSearchInsert(index[a], Row(h, a)) \in Seq(Values)
        BY InsertedType DEF TypeOK
      <4>2. QED BY <3>2, <4>1, StoreTypes
    <3>3. QED BY <1>10, <3>1, <3>2 DEF Create
  <2>2. UNCHANGED <<collections, used, field, trash>> /\ Finish(h)
    BY <1>10 DEF Create, schemaVars
  <2>3. QED BY <1>f, <1>s, <2>1, <2>2 DEF RequestsOK, TypeOK, Values
<1>11. ASSUME NEW h \in Handlers, Update(h) PROVE TypeOK'
  <2>1. request[h].archive \in Archives
    BY <1>11 DEF TypeOK, Update
  <2>2. /\ record' \in [Archives -> [owner : Owners, gone : BOOLEAN]]
        /\ value' \in [Archives -> Values]
        /\ index' \in [Archives -> Seq(Values)]
    <3> DEFINE a == request[h].archive
               updated == ArchivesSearchUpdate(Row(h, a), value[a])
               rows == ArchiveValuesSearchDelete(updated, Row(h, a), Given(value[a]), NoValues)
    <3>1. CASE Store(h, a, rows)
      <4>1. updated \in Seq(Values)
        BY <2>1, EntryType DEF ArchivesSearchUpdate, TypeOK
      <4>2. rows \in Seq(Values)
        BY <4>1, DeletedType, NoValuesType
      <4>3. QED BY <2>1, <3>1, <4>2, StoreTypes
    <3>2. CASE UNCHANGED <<record, value, index>>
      BY <3>2 DEF TypeOK
    <3>3. QED BY <1>11, <3>1, <3>2 DEF Update
  <2>3. UNCHANGED <<collections, used, field, trash>> /\ Finish(h)
    BY <1>11 DEF Update, schemaVars
  <2>4. QED BY <1>f, <1>s, <2>2, <2>3 DEF RequestsOK, TypeOK, Values
<1>12. ASSUME NEW a \in Archives, Trash(a) \/ Restore(a) PROVE TypeOK'
  <2>1. record' \in [Archives -> [owner : Owners, gone : BOOLEAN]]
    <3>1. record \in [Archives -> [owner : Owners, gone : BOOLEAN]]
      BY DEF TypeOK
    <3>2. \E gone \in BOOLEAN : record' = [record EXCEPT ![a].gone = gone]
      BY <1>12 DEF Trash, Restore
    <3>3. QED BY <3>1, <3>2
  <2>2. ArchivesSearchUpdate(record'[a], value[a]) \in Seq(Values)
    <3>1. value[a] \in Values
      BY DEF TypeOK
    <3>2. Entry(record'[a], value[a]) \in Seq(Values)
      BY <3>1, EntryType
    <3>3. QED BY <3>2 DEF ArchivesSearchUpdate
  <2>3. trash' \subseteq Archives /\ index' \in [Archives -> Seq(Values)]
    BY <1>12, <2>2 DEF Trash, Restore, TypeOK
  <2>4. UNCHANGED <<collections, used, field, value>> /\ AtOnce
    BY <1>12 DEF Trash, Restore, schemaVars
  <2>5. QED BY <1>a, <1>s, <2>1, <2>3, <2>4 DEF RequestsOK, TypeOK, Values
<1>13. CASE RebuildSearch
  <2>1. \A a \in Archives : Entry(record[a], value[a]) \in Seq(Values)
    BY EntryType DEF TypeOK
  <2>2. QED BY <1>13, <1>a, <1>s, <2>1 DEF RebuildSearch, schemaVars, RequestsOK, TypeOK, Values
<1>14. CASE UNCHANGED vars
  BY <1>14, <1>s DEF vars, RequestsOK, TypeOK, Values
<1>15. QED
  BY <1>1, <1>2, <1>3, <1>4, <1>5, <1>6, <1>7, <1>8, <1>9, <1>10, <1>11, <1>12, <1>13, <1>14
  DEF Next

\* Every variable of Archives keeps its type, however requests interleave.
THEOREM ArchiveTypes == Spec => []TypeOK
<1>1. QED BY InitTypes, NextTypes, PTL DEF Spec

-----------------------------------------------------------------------------
(* The trash and the search index *)

LEMMA NextOwners == TypeOK /\ OwnersKnown /\ [Next]_vars => OwnersKnown'
<1> SUFFICES ASSUME TypeOK, OwnersKnown, [Next]_vars PROVE OwnersKnown'
  OBVIOUS
<1>0. request = [h \in Handlers |-> request[h]]
  BY DEF TypeOK
<1>1. ASSUME UNCHANGED request PROVE OwnersKnown'
  BY <1>1 DEF OwnersKnown
<1>2. ASSUME NEW h \in Handlers, NEW r, Continue(h, r),
             r.at \in {"create", "update"} => r.owner # NoCollection
      PROVE  OwnersKnown'
  BY <1>0, <1>2 DEF Continue, OwnersKnown
<1>3. ASSUME NEW h \in Handlers, Finish(h) PROVE OwnersKnown'
  BY <1>2, <1>3 DEF Finish, Idle
<1>4. ASSUME NEW h \in Handlers, BeginCreateField(h) PROVE OwnersKnown'
  <2>1. PICK row \in Rows : Continue(h, [Idle EXCEPT !.at = "addField", !.row = row])
    BY <1>4 DEF BeginCreateField
  <2>2. [Idle EXCEPT !.at = "addField", !.row = row].at = "addField"
    BY DEF Idle
  <2>3. QED BY <1>2, <2>1, <2>2
<1>5. ASSUME NEW h \in Handlers, BeginUpdateField(h) PROVE OwnersKnown'
  <2>1. PICK f \in Fields, row \in Rows :
          Continue(h, [Idle EXCEPT !.at = "setField", !.field = f, !.row = row])
    BY <1>5 DEF BeginUpdateField
  <2>2. [Idle EXCEPT !.at = "setField", !.field = f, !.row = row].at = "setField"
    BY DEF Idle
  <2>3. QED BY <1>2, <2>1, <2>2
<1>6. ASSUME NEW h \in Handlers, NEW a, NEW place, NEW defaults, Prepare(h, a, place, defaults)
      PROVE  OwnersKnown'
  <2>1. PICK c \in collections : \E values :
          Continue(h, [Idle EXCEPT !.at = place, !.archive = a, !.owner = c, !.values = values])
    BY <1>6 DEF Prepare
  <2>2. PICK values :
          Continue(h, [Idle EXCEPT !.at = place, !.archive = a, !.owner = c, !.values = values])
    BY <2>1
  <2>3. [Idle EXCEPT !.at = place, !.archive = a, !.owner = c, !.values = values].owner = c
    BY DEF Idle
  <2>4. c # NoCollection
    BY ArchivesAssumption DEF TypeOK
  <2>5. QED BY <1>2, <2>2, <2>3, <2>4
<1>7. QED
  BY <1>1, <1>3, <1>4, <1>5, <1>6
  DEF Next, vars, CreateCollection, DeleteCollection, DeleteField, RebuildSearch, Trash, Restore,
      AtOnce, CreateField, UpdateField, Create, Update, BeginCreate, BeginUpdate

LEMMA InitRows == Init => RowsInv
BY InitTypes DEF Init, RowsInv, OwnersKnown, TrashAgrees, SearchIsCurrent, Live, Exists,
                 NoRecord, Idle

\* The rows that SearchIsCurrent asks for are those that a rebuild writes.
LEMMA CurrentIsRebuilt ==
  SearchIsCurrent <=> \A a \in Archives : index[a] = Entry(record[a], value[a])
BY DEF SearchIsCurrent, Entry, Live, Exists

\* An archive for which nothing is given has no values.
LEMMA NoneGiven ==
  ASSUME NEW values \in Values, Given(values) = {}
  PROVE  values = NoValues
<1>1. \A f \in Fields : values[f] = NoType
  BY DEF Given, HasValue
<1>2. QED BY <1>1 DEF Values, NoValues

\* A write of an archive that is not in the trash keeps the three in agreement,
\* if the triggers have brought the index to its row without values before it
\* inserts the new ones.
LEMMA StoreRows ==
  ASSUME RowsInv, NEW h \in Handlers, NEW a \in Archives, NEW rows, Store(h, a, rows),
         rows = Entry(Row(h, a), NoValues),
         ~record[a].gone, request[h].owner # NoCollection, UNCHANGED trash
  PROVE  /\ TrashAgrees' /\ SearchIsCurrent'
         /\ \A b \in Archives : ~Exists(b)' => ~record'[b].gone
<1>0. /\ record \in [Archives -> [owner : Owners, gone : BOOLEAN]]
      /\ value \in [Archives -> Values] /\ index \in [Archives -> Seq(Values)]
  BY DEF RowsInv, TypeOK
<1>1. /\ record'[a].owner = request[h].owner /\ ~record'[a].gone
      /\ \A b \in Archives \ {a} : record'[b] = record[b]
  BY <1>0, RowType DEF Store, RowsInv
<1>2. a \notin trash
  BY DEF RowsInv, TrashAgrees
<1>3. TrashAgrees' /\ \A b \in Archives : ~Exists(b)' => ~record'[b].gone
  BY <1>1, <1>2 DEF RowsInv, TrashAgrees, Exists
<1>4. ASSUME NEW b \in Archives PROVE index'[b] = Entry(record'[b], value'[b])
  <2>1. CASE b = a
    <3> DEFINE values == request[h].values
    <3>1. record'[a] = Row(h, a) /\ value'[a] = values /\ values \in Values
      BY <1>0 DEF Store, RowsInv, TypeOK, RequestType
    <3>2. index'[a] = ArchiveValuesSearchInsert(rows, Row(h, a), Given(values), values)
      BY <1>0 DEF Store
    <3>3. CASE Given(values) = {}
      BY <2>1, <3>1, <3>2, <3>3, NoneGiven DEF ArchiveValuesSearchInsert
    <3>4. CASE Given(values) # {}
      BY <2>1, <3>1, <3>2, <3>4 DEF ArchiveValuesSearchInsert
    <3>5. QED BY <3>3, <3>4
  <2>2. CASE b # a
    <3>1. index'[b] = index[b] /\ value'[b] = value[b] /\ record'[b] = record[b]
      BY <1>0, <2>2 DEF Store
    <3>2. index[b] = Entry(record[b], value[b])
      BY CurrentIsRebuilt DEF RowsInv
    <3>3. QED BY <3>1, <3>2
  <2>3. QED BY <2>1, <2>2
<1>5. SearchIsCurrent'
  BY <1>4 DEF SearchIsCurrent, Entry, Live, Exists
<1>6. QED BY <1>3, <1>5

LEMMA NextRows == RowsInv /\ [Next]_vars => RowsInv'
<1> SUFFICES ASSUME RowsInv, [Next]_vars PROVE RowsInv'
  OBVIOUS
<1> DEFINE Rest == /\ TrashAgrees /\ SearchIsCurrent
                   /\ \A a \in Archives : ~Exists(a) => ~record[a].gone
<1>0. TypeOK' /\ OwnersKnown'
  BY NextTypes, NextOwners DEF RowsInv
<1>t. /\ record \in [Archives -> [owner : Owners, gone : BOOLEAN]]
      /\ value \in [Archives -> Values] /\ index \in [Archives -> Seq(Values)]
      /\ trash \subseteq Archives
  BY DEF RowsInv, TypeOK
<1>1. ASSUME UNCHANGED <<record, value, trash, index>> PROVE Rest'
  BY <1>1 DEF RowsInv, TrashAgrees, SearchIsCurrent, Live, Exists
<1>2. ASSUME NEW f \in Fields, DeleteField(f) PROVE Rest'
  <2>1. TrashAgrees' /\ \A a \in Archives : ~Exists(a)' => ~record'[a].gone
    BY <1>2 DEF DeleteField, RowsInv, TrashAgrees, Exists
  <2>2. ASSUME NEW a \in Archives PROVE index'[a] = Entry(record[a], value'[a])
    <3>0. index'[a] = ArchiveValuesSearchDelete(index[a], record[a], Given(value[a]) \cap {f},
                                                value'[a])
      BY <1>2 DEF DeleteField
    <3>1. CASE HasValue(value[a], f)
      <4>1. Given(value[a]) \cap {f} # {}
        BY <3>1 DEF Given
      <4>2. QED BY <3>0, <4>1 DEF ArchiveValuesSearchDelete
    <3>2. CASE ~HasValue(value[a], f)
      <4>1. value'[a] = [value[a] EXCEPT ![f] = NoType]
        BY <1>2 DEF DeleteField
      <4>2. value'[a] = value[a]
        BY <1>t, <3>2, <4>1 DEF HasValue, Values
      <4>3. Given(value[a]) \cap {f} = {}
        BY <3>2 DEF Given
      <4>4. index'[a] = index[a]
        BY <3>0, <4>3 DEF ArchiveValuesSearchDelete
      <4>5. QED BY <4>2, <4>4, CurrentIsRebuilt DEF RowsInv
    <3>3. QED BY <3>1, <3>2
  <2>3. record' = record
    BY <1>2 DEF DeleteField
  <2>4. SearchIsCurrent'
    BY <2>2, <2>3 DEF SearchIsCurrent, Entry, Live, Exists
  <2>5. QED BY <2>1, <2>4
<1>3. ASSUME NEW h \in Handlers, Create(h) PROVE Rest'
  <2>1. CASE UNCHANGED <<record, value, index>>
    BY <1>1, <1>3, <2>1 DEF Create
  <2>2. ASSUME NEW a \in Archives, ~Exists(a),
               Store(h, a, ArchivesSearchInsert(index[a], Row(h, a)))
        PROVE  Rest'
    <3>1. ~record[a].gone /\ request[h].owner # NoCollection /\ UNCHANGED trash
      BY <1>3, <2>2 DEF RowsInv, OwnersKnown, Create
    <3>2. index[a] = <<>>
      BY <2>2 DEF RowsInv, SearchIsCurrent, Live
    <3>3. Row(h, a).owner # NoCollection /\ ~Row(h, a).gone
      BY <3>1, RowType DEF RowsInv
    <3>4. ArchivesSearchInsert(index[a], Row(h, a)) = Entry(Row(h, a), NoValues)
      BY <3>2, <3>3 DEF ArchivesSearchInsert, Entry
    <3>5. QED BY <2>2, <3>1, <3>4, StoreRows
  <2>3. QED BY <1>3, <2>1, <2>2 DEF Create
<1>4. ASSUME NEW h \in Handlers, Update(h) PROVE Rest'
  <2> DEFINE a == request[h].archive
             updated == ArchivesSearchUpdate(Row(h, a), value[a])
             rows == ArchiveValuesSearchDelete(updated, Row(h, a), Given(value[a]), NoValues)
  <2>1. CASE UNCHANGED <<record, value, index>>
    BY <1>1, <1>4, <2>1 DEF Update
  <2>2. CASE Live(a) /\ Store(h, a, rows)
    <3>1. /\ a \in Archives /\ ~record[a].gone
          /\ request[h].owner # NoCollection /\ UNCHANGED trash
      BY <1>4, <2>2 DEF RowsInv, TypeOK, OwnersKnown, Update, Live
    <3>2. CASE Given(value[a]) = {}
      <4>1. value[a] = NoValues
        BY <1>t, <3>1, <3>2, NoneGiven
      <4>2. rows = Entry(Row(h, a), NoValues)
        BY <3>2, <4>1 DEF ArchiveValuesSearchDelete, ArchivesSearchUpdate
      <4>3. QED BY <2>2, <3>1, <4>2, StoreRows
    <3>3. CASE Given(value[a]) # {}
      <4>1. rows = Entry(Row(h, a), NoValues)
        BY <3>3 DEF ArchiveValuesSearchDelete
      <4>2. QED BY <2>2, <3>1, <4>1, StoreRows
    <3>4. QED BY <3>2, <3>3
  <2>3. QED BY <1>4, <2>1, <2>2 DEF Update
<1>5. ASSUME NEW a \in Archives, Trash(a) \/ Restore(a) PROVE Rest'
  <2>1. PICK gone \in BOOLEAN :
          /\ record' = [record EXCEPT ![a].gone = gone]
          /\ trash' = IF gone THEN trash \cup {a} ELSE trash \ {a}
          /\ index' = [index EXCEPT ![a] = Entry(record'[a], value[a])]
          /\ value' = value /\ Exists(a)
    BY <1>5 DEF Trash, Restore, Live, RowsInv, TrashAgrees, ArchivesSearchUpdate
  <2>2. /\ record'[a].owner = record[a].owner /\ record'[a].gone = gone
        /\ \A b \in Archives \ {a} : record'[b] = record[b]
    BY <1>t, <2>1
  <2>3. TrashAgrees' /\ \A b \in Archives : ~Exists(b)' => ~record'[b].gone
    BY <2>1, <2>2 DEF RowsInv, TrashAgrees, Exists
  <2>4. ASSUME NEW b \in Archives PROVE index'[b] = Entry(record'[b], value'[b])
    <3>1. CASE b = a
      BY <1>t, <2>1, <3>1
    <3>2. CASE b # a
      BY <1>t, <2>1, <2>2, <3>2, CurrentIsRebuilt DEF RowsInv
    <3>3. QED BY <3>1, <3>2
  <2>5. SearchIsCurrent'
    BY <2>4 DEF SearchIsCurrent, Entry, Live, Exists
  <2>6. QED BY <2>3, <2>5
<1>6. ASSUME RebuildSearch PROVE Rest'
  BY <1>6 DEF RebuildSearch, RowsInv, TrashAgrees, SearchIsCurrent, Entry, Live, Exists
<1>7. Rest'
  BY <1>1, <1>2, <1>3, <1>4, <1>5, <1>6
  DEF Next, vars, schemaVars, CreateCollection, DeleteCollection, BeginCreateField, CreateField,
      BeginUpdateField, UpdateField, BeginCreate, BeginUpdate, Prepare
<1>8. QED BY <1>0, <1>7 DEF RowsInv

\* An archive is in the trash exactly when it has a trash entry, however many
\* requests delete, change and restore archives.
THEOREM TrashAlwaysAgrees == Spec => []TrashAgrees
<1>1. RowsInv => TrashAgrees
  BY DEF RowsInv
<1>2. QED BY <1>1, InitRows, NextRows, PTL DEF Spec

\* The triggers, fired by the statements of every transaction one after the
\* other, keep search_index equal to what a rebuild would write: one row, of its
\* present values, for each archive that is not in the trash.
THEOREM SearchIsAlwaysCurrent == Spec => []SearchIsCurrent
<1>1. RowsInv => SearchIsCurrent
  BY DEF RowsInv
<1>2. QED BY <1>1, InitRows, NextRows, PTL DEF Spec

-----------------------------------------------------------------------------
(* The schema that archives use *)

\* Whoever acts in a step after which no requests have overlapped acts alone.
LEMMA Alone ==
  ASSUME TypeOK, NEW h \in Handlers, NEW r, Continue(h, r), serial'
  PROVE  serial /\ \A g \in Handlers \ {h} : request'[g] = Idle
<1>1. \A g \in Handlers \ {h} : request'[g] = request[g]
  BY DEF Continue, TypeOK
<1>2. QED BY <1>1 DEF Continue, Overlap

LEMMA IdleIsPending == ASSUME NEW h \in Handlers, request[h] = Idle PROVE Pending(h)
BY DEF Pending, Idle

LEMMA FinishedPending ==
  ASSUME TypeOK, NEW h \in Handlers, Finish(h), serial'
  PROVE  serial /\ \A g \in Handlers : Pending(g)'
<1>1. serial /\ \A g \in Handlers \ {h} : request'[g] = Idle
  BY Alone DEF Finish
<1>2. request'[h] = Idle
  BY DEF Finish, Continue, TypeOK
<1>3. QED BY <1>1, <1>2 DEF Pending, Idle

LEMMA AtOncePending ==
  ASSUME TypeOK, AtOnce, serial'
  PROVE  serial /\ \A g \in Handlers : Pending(g)'
<1>1. serial /\ \A g \in Handlers : request'[g] = Idle
  BY DEF AtOnce, Overlap
<1>2. QED BY <1>1 DEF Pending, Idle

LEMMA NormalizedFits ==
  ASSUME NEW c, NEW chosen \in SUBSET FieldsOf(c), NEW defaults \in BOOLEAN
  PROVE  Fits(c, Normalized(c, chosen, defaults))
<1> SUFFICES ASSUME NEW f \in Fields, HasValue(Normalized(c, chosen, defaults), f)
             PROVE  /\ field[f].owner = c
                    /\ Normalized(c, chosen, defaults)[f] \in {field[f].type, DefaultValue}
  BY DEF Fits
<1>1. CASE f \in chosen
  BY <1>1 DEF Normalized, FieldsOf
<1>2. CASE f \notin chosen /\ f \in FieldsOf(c) /\ defaults /\ field[f].kind.default
  BY <1>2 DEF Normalized, FieldsOf
<1>3. CASE f \notin chosen /\ ~(f \in FieldsOf(c) /\ defaults /\ field[f].kind.default)
  BY <1>3 DEF Normalized, FieldsOf, HasValue
<1>4. QED BY <1>1, <1>2, <1>3

\* A request that begins alone has read what is true.
LEMMA BeginPending ==
  ASSUME TypeOK, NEW h \in Handlers, serial',
         BeginCreateField(h) \/ BeginUpdateField(h) \/ BeginCreate(h) \/ BeginUpdate(h)
  PROVE  serial /\ \A g \in Handlers : Pending(g)'
<1>1. UNCHANGED <<collections, used, field, record, value>>
  BY DEF BeginCreateField, BeginUpdateField, BeginCreate, BeginUpdate, Prepare, schemaVars
<1>2. ASSUME NEW r, Continue(h, r), request'[h] = r => Pending(h)'
      PROVE  serial /\ \A g \in Handlers : Pending(g)'
  <2>1. serial /\ \A g \in Handlers \ {h} : request'[g] = Idle
    BY <1>2, Alone
  <2>2. request'[h] = r
    BY <1>2 DEF Continue, TypeOK
  <2>3. ASSUME NEW g \in Handlers \ {h} PROVE Pending(g)'
    BY <2>1 DEF Pending, Idle
  <2>4. QED BY <1>2, <2>1, <2>2, <2>3
<1>3. CASE BeginCreateField(h)
  <2>1. PICK row \in Rows : Continue(h, [Idle EXCEPT !.at = "addField", !.row = row])
    BY <1>3 DEF BeginCreateField
  <2>2. request'[h] = [Idle EXCEPT !.at = "addField", !.row = row] => Pending(h)'
    BY DEF Pending, Idle
  <2>3. QED BY <1>2, <2>1, <2>2
<1>4. CASE BeginUpdateField(h)
  <2>1. PICK f \in Fields, row \in Rows :
          /\ field[f].owner = row.owner
          /\ row.type # field[f].type => \A a \in Archives : ~HasValue(value[a], f)
          /\ Continue(h, [Idle EXCEPT !.at = "setField", !.field = f, !.row = row])
    BY <1>4 DEF BeginUpdateField
  <2>2. request'[h] = [Idle EXCEPT !.at = "setField", !.field = f, !.row = row] => Pending(h)'
    BY <1>1, <2>1 DEF Pending, Idle, HasValue
  <2>3. QED BY <1>2, <2>1, <2>2
<1>5. ASSUME NEW a, NEW place \in {"create", "update"}, NEW defaults \in BOOLEAN,
             Prepare(h, a, place, defaults)
      PROVE  serial /\ \A g \in Handlers : Pending(g)'
  <2>1. PICK c \in collections : \E chosen \in SUBSET FieldsOf(c) :
          Continue(h, [Idle EXCEPT !.at = place, !.archive = a, !.owner = c,
                                   !.values = Normalized(c, chosen, defaults)])
    BY <1>5 DEF Prepare
  <2>2. PICK values :
          /\ Continue(h, [Idle EXCEPT !.at = place, !.archive = a, !.owner = c, !.values = values])
          /\ Fits(c, values)
    BY <2>1, NormalizedFits
  <2>3. request'[h] = [Idle EXCEPT !.at = place, !.archive = a, !.owner = c, !.values = values]
          => Pending(h)'
    <3>1. Fits(c, values)'
      BY <1>1, <2>2 DEF Fits, HasValue
    <3>2. QED BY <1>1, <3>1 DEF Pending, Idle
  <2>4. QED BY <1>2, <2>2, <2>3
<1>6. QED BY <1>3, <1>4, <1>5 DEF BeginCreate, BeginUpdate

\* The use of the schema by one archive.
Uses(a) == Exists(a) => record[a].owner \in collections /\ Fits(record[a].owner, value[a])

LEMMA UsesAll == UsedSchemaStays <=> (serial => \A a \in Archives : Uses(a))
BY DEF UsedSchemaStays, Uses, Fits

LEMMA NextSerial == SerialInv /\ [Next]_vars => SerialInv'
<1> SUFFICES ASSUME SerialInv, [Next]_vars PROVE SerialInv'
  OBVIOUS
<1> DEFINE Issued == \A f \in Fields : field[f] # NoRow => f \in used
           Rest == /\ Issued
                   /\ serial => \A a \in Archives : Uses(a)
                   /\ serial => \A h \in Handlers : Pending(h)
<1>0. TypeOK /\ TypeOK'
  BY NextTypes DEF SerialInv
<1>i. /\ Issued
      /\ serial => (\A a \in Archives : Uses(a)) /\ \A h \in Handlers : Pending(h)
  BY UsesAll DEF SerialInv
<1>t. /\ record \in [Archives -> [owner : Owners, gone : BOOLEAN]]
      /\ value \in [Archives -> Values] /\ field \in [Fields -> FieldType]
      /\ request \in [Handlers -> RequestType]
  BY <1>0 DEF TypeOK
\* What a step has to show.
<1>s. ASSUME UNCHANGED <<collections, used, field, record, value>>,
             serial' => serial /\ \A g \in Handlers : Pending(g)'
      PROVE  Rest'
  BY <1>i, <1>s DEF Uses, Fits, HasValue, Exists
<1>1. ASSUME CreateCollection PROVE Rest'
  <2>1. Issued' /\ (serial' => serial /\ \A g \in Handlers : Pending(g)')
    BY <1>0, <1>1, <1>i, AtOncePending DEF CreateCollection
  <2>2. collections \subseteq collections' /\ UNCHANGED <<field, record, value>>
    BY <1>1 DEF CreateCollection
  <2>3. QED BY <1>i, <2>1, <2>2 DEF Uses, Fits, HasValue, Exists
<1>2. ASSUME NEW c \in Collections, DeleteCollection(c) PROVE Rest'
  <2>1. Issued' /\ (serial' => serial /\ \A g \in Handlers : Pending(g)')
    BY <1>0, <1>2, <1>i, AtOncePending DEF DeleteCollection
  <2>2. ASSUME serial', NEW a \in Archives PROVE Uses(a)'
    <3>1. Uses(a) /\ record[a].owner # c
      BY <1>2, <1>i, <2>1, <2>2 DEF DeleteCollection
    <3>2. \A f \in Fields : field[f].owner # c => field'[f] = field[f]
      BY <1>2 DEF DeleteCollection
    <3>3. QED BY <1>2, <3>1, <3>2 DEF DeleteCollection, Uses, Fits, HasValue, Exists
  <2>3. QED BY <2>1, <2>2
<1>3. ASSUME NEW h \in Handlers, CreateField(h) PROVE Rest'
  <2>1. serial' => serial /\ \A g \in Handlers : Pending(g)'
    BY <1>0, <1>3, FinishedPending DEF CreateField
  <2>2. UNCHANGED <<collections, record, value>>
    BY <1>3 DEF CreateField
  <2>3. CASE UNCHANGED <<field, used>>
    BY <1>s, <2>1, <2>2, <2>3
  <2>4. CASE \E f \in Fields \ used : field' = [field EXCEPT ![f] = request[h].row]
                                     /\ used' = used \cup {f}
    <3>1. PICK f \in Fields \ used : field' = [field EXCEPT ![f] = request[h].row]
                                   /\ used' = used \cup {f}
      BY <2>4
    <3>2. Issued' /\ \A g \in Fields \ {f} : field'[g] = field[g]
      BY <1>t, <1>i, <3>1
    <3>3. field[f].owner = NoCollection
      BY <1>i, <3>1 DEF NoRow
    <3>4. ASSUME serial', NEW a \in Archives PROVE Uses(a)'
      <4>1. Uses(a)
        BY <1>i, <2>1, <3>4
      <4>2. Exists(a) => ~HasValue(value[a], f)
        BY <4>1, <3>3 DEF Uses, Fits, Exists
      <4>3. QED BY <2>2, <3>2, <4>1, <4>2 DEF Uses, Fits, HasValue, Exists
    <3>5. QED BY <2>1, <3>2, <3>4
  <2>5. QED BY <1>3, <2>3, <2>4 DEF CreateField
<1>4. ASSUME NEW h \in Handlers, UpdateField(h) PROVE Rest'
  <2> DEFINE f == request[h].field
             row == request[h].row
  <2>1. serial' => serial /\ \A g \in Handlers : Pending(g)'
    BY <1>0, <1>4, FinishedPending DEF UpdateField
  <2>2. UNCHANGED <<collections, used, record, value>>
    BY <1>4 DEF UpdateField
  <2>3. CASE UNCHANGED field
    BY <1>s, <2>1, <2>2, <2>3
  <2>4. CASE field[f] # NoRow /\ field' = [field EXCEPT ![f] = row]
    <3>1. Issued' /\ \A g \in Fields \ {f} : field'[g] = field[g]
      BY <1>t, <1>i, <2>2, <2>4
    <3>2. ASSUME serial', NEW a \in Archives PROVE Uses(a)'
      <4>1. /\ Uses(a) /\ f \in Fields
            /\ row.owner = field[f].owner
            /\ row.type # field[f].type => ~HasValue(value[a], f)
        BY <1>4, <1>i, <2>1, <3>2 DEF UpdateField, Pending
      <4>2. field'[f] = row
        BY <1>t, <2>4, <4>1
      <4>3. QED BY <2>2, <3>1, <4>1, <4>2 DEF Uses, Fits, HasValue, Exists
    <3>3. QED BY <2>1, <3>1, <3>2
  <2>5. QED BY <1>4, <2>3, <2>4 DEF UpdateField
<1>5. ASSUME NEW f \in Fields, DeleteField(f) PROVE Rest'
  <2>1. Issued' /\ (serial' => serial /\ \A g \in Handlers : Pending(g)')
    BY <1>0, <1>5, <1>i, <1>t, AtOncePending DEF DeleteField
  <2>2. UNCHANGED <<collections, record>> /\ \A g \in Fields \ {f} : field'[g] = field[g]
    BY <1>5, <1>t DEF DeleteField
  <2>3. ASSUME NEW a \in Archives
        PROVE /\ value'[a][f] = NoType
              /\ \A g \in Fields \ {f} : value'[a][g] = value[a][g]
    BY <1>5, <1>t DEF DeleteField, Values
  <2>4. ASSUME serial', NEW a \in Archives PROVE Uses(a)'
    BY <1>i, <2>1, <2>2, <2>3, <2>4 DEF Uses, Fits, HasValue, Exists
  <2>5. QED BY <2>1, <2>4
<1>6. ASSUME NEW h \in Handlers, NEW a \in Archives, NEW rows, Store(h, a, rows),
             Finish(h),
             request[h].at \in {"create", "update"}, UNCHANGED <<collections, used, field>>
      PROVE  Rest'
  <2>1. Issued' /\ (serial' => serial /\ \A g \in Handlers : Pending(g)')
    BY <1>0, <1>6, <1>i, FinishedPending
  <2>2. ASSUME serial'
        PROVE  request[h].owner \in collections /\ Fits(request[h].owner, request[h].values)
    BY <1>6, <1>i, <2>1, <2>2 DEF Pending
  <2>3. ASSUME serial', NEW b \in Archives PROVE Uses(b)'
    <3>1. CASE b = a
      <4>1. record'[b].owner = request[h].owner /\ value'[b] = request[h].values
        BY <1>0, <1>6, <1>t, <3>1, RowType DEF Store
      <4>2. QED BY <1>6, <2>2, <2>3, <4>1 DEF Uses, Fits, HasValue
    <3>2. CASE b # a
      <4>1. record'[b] = record[b] /\ value'[b] = value[b]
        BY <1>6, <1>t, <3>2 DEF Store
      <4>2. QED BY <1>6, <1>i, <2>1, <2>3, <4>1 DEF Uses, Fits, HasValue, Exists
    <3>3. QED BY <3>1, <3>2
  <2>4. QED BY <2>1, <2>3
<1>7. ASSUME NEW h \in Handlers, Create(h) \/ Update(h) PROVE Rest'
  <2>1. /\ Finish(h) /\ UNCHANGED <<collections, used, field>>
        /\ request[h].at \in {"create", "update"}
    BY <1>7 DEF Create, Update, schemaVars
  <2>2. serial' => serial /\ \A g \in Handlers : Pending(g)'
    BY <1>0, <2>1, FinishedPending
  <2>3. \/ UNCHANGED <<record, value, index>>
        \/ \E a \in Archives : \E rows : Store(h, a, rows)
    BY <1>0, <1>7 DEF Create, Update, TypeOK
  <2>4. QED BY <1>6, <1>s, <2>1, <2>2, <2>3
<1>8. ASSUME NEW a \in Archives, Trash(a) \/ Restore(a) PROVE Rest'
  <2>1. AtOnce /\ UNCHANGED <<collections, used, field, value>>
    BY <1>8 DEF Trash, Restore, schemaVars
  <2>2. serial' => serial /\ \A g \in Handlers : Pending(g)'
    BY <1>0, <2>1, AtOncePending
  <2>3. \A b \in Archives : record'[b].owner = record[b].owner
    <3>1. \E gone \in BOOLEAN : record' = [record EXCEPT ![a].gone = gone]
      BY <1>8 DEF Trash, Restore
    <3>2. QED BY <1>t, <3>1
  <2>4. QED BY <1>i, <2>1, <2>2, <2>3 DEF Uses, Fits, HasValue, Exists
<1>9. ASSUME RebuildSearch PROVE Rest'
  BY <1>0, <1>9, <1>s, AtOncePending DEF RebuildSearch, schemaVars
<1>10. ASSUME NEW h \in Handlers,
              BeginCreateField(h) \/ BeginUpdateField(h) \/ BeginCreate(h) \/ BeginUpdate(h)
       PROVE  Rest'
  <2>1. UNCHANGED <<collections, used, field, record, value>>
    BY <1>10 DEF BeginCreateField, BeginUpdateField, BeginCreate, BeginUpdate, Prepare, schemaVars
  <2>2. serial' => serial /\ \A g \in Handlers : Pending(g)'
    BY <1>0, <1>10, BeginPending
  <2>3. QED BY <1>s, <2>1, <2>2
<1>11. ASSUME UNCHANGED vars PROVE Rest'
  BY <1>11, <1>i DEF vars, Uses, Fits, HasValue, Exists, Pending
<1>12. Rest'
  BY <1>1, <1>2, <1>3, <1>4, <1>5, <1>7, <1>8, <1>9, <1>10, <1>11 DEF Next
<1>13. UsedSchemaStays'
  BY <1>12 DEF UsedSchemaStays, Uses, Fits
<1>14. QED BY <1>0, <1>12, <1>13 DEF SerialInv

\* Until requests overlap, no archive loses its collection and no value its
\* field or type, with or without foreign keys.
THEOREM UsedSchemaAlwaysStays == Spec => []UsedSchemaStays
<1>1. Init => SerialInv
  BY InitTypes DEF Init, SerialInv, UsedSchemaStays, Exists, NoRecord, Pending, Idle
<1>2. SerialInv => UsedSchemaStays
  BY DEF SerialInv
<1>3. QED BY <1>1, <1>2, NextSerial, PTL DEF Spec

=============================================================================
