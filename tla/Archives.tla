------------------------------ MODULE Archives ------------------------------
(***************************************************************************)
(* Archives with user-defined fields: the Store's operations on            *)
(* collections, field definitions, archives and their values, the trash    *)
(* and the search index.                                                   *)
(*                                                                         *)
(* A handler first reads, outside any transaction, what it validates its   *)
(* input against, and then writes in one transaction: two steps, between   *)
(* which other handlers may write.  Each write is executed by some         *)
(* connection of the pool; foreign keys are only enforced on the one that  *)
(* ran initialize's PRAGMA.  A value stands for the type it was checked    *)
(* against, or for the default of its field, which nothing checks.  Texts, *)
(* colours, orders, groups and the change log are left out, and so are     *)
(* requests refused because of their own form.                             *)
(***************************************************************************)

EXTENDS Sequences

CONSTANTS
  Collections, NoCollection, \* identifiers, each issued once
  Fields, NoField,
  Archives, NoArchive,
  Types, NoType,             \* value types of fields
  DefaultValue,              \* the default of a field, of an unchecked type
  Kinds,                     \* combinations of defaults and requirements in use
  Handlers,                  \* requests in progress
  ForeignKeys                \* what the pool's connections do: BOOLEAN, or {TRUE}

ASSUME ArchivesAssumption ==
  /\ NoCollection \notin Collections
  /\ NoField \notin Fields
  /\ NoArchive \notin Archives
  /\ NoType \notin Types /\ DefaultValue \notin Types \cup {NoType}
  /\ Kinds \subseteq [default : BOOLEAN, required : BOOLEAN]
  /\ ForeignKeys \subseteq BOOLEAN

VARIABLES
  collections, \* the rows of archive_collections
  used,        \* identifiers of collections and fields issued so far
  field,       \* the rows of archive_fields; the owner NoCollection means none
  record,      \* the rows of archive_records, with deleted_at as a Boolean
  value,       \* the rows of archive_record_values
  trash,       \* the archives that have a row in trash_entries
  index,       \* the rows of search_index, by archive: the values each names
  request,     \* the local state of each handler
  serial       \* history: no request has begun, or written, within another

vars == <<collections, used, field, record, value, trash, index, request, serial>>
schemaVars == <<collections, used, field>>

NoValues == [f \in Fields |-> NoType]
NoRow    == [owner |-> NoCollection, type |-> NoType,
             kind |-> [default |-> FALSE, required |-> FALSE]]
NoRecord == [owner |-> NoCollection, gone |-> FALSE]
Idle     == [at |-> "idle", archive |-> NoArchive, field |-> NoField, row |-> NoRow,
             owner |-> NoCollection, values |-> NoValues]

FieldsOf(c)  == {f \in Fields : field[f].owner = c}
Exists(a)    == record[a].owner # NoCollection
Live(a)      == Exists(a) /\ ~record[a].gone
HasValue(values, f) == values[f] # NoType

Given(values) == {f \in Fields : HasValue(values, f)}

\* The SELECT by which triggers and RebuildSearch write rows of search_index:
\* one of an archive that is there and not in the trash.
Entry(row, values) ==
  IF row.owner = NoCollection \/ row.gone THEN <<>> ELSE <<values>>

\* A workspace whose seeded collections have been deleted.
Init ==
  /\ collections = {} /\ used = {}
  /\ field = [f \in Fields |-> NoRow]
  /\ record = [a \in Archives |-> NoRecord]
  /\ value = [a \in Archives |-> NoValues]
  /\ trash = {}
  /\ index = [a \in Archives |-> <<>>]
  /\ request = [h \in Handlers |-> Idle]
  /\ serial = TRUE

Overlap == serial' = (serial /\ \A h \in Handlers : Idle \in {request[h], request'[h]})

\* A handler continues with local state r, has written, or writes in its only step.
Continue(h, r) == request' = [request EXCEPT ![h] = r] /\ Overlap
Finish(h)      == Continue(h, Idle)
AtOnce         == UNCHANGED request /\ Overlap

-----------------------------------------------------------------------------
(* The triggers, each on the rows that search_index has of one archive.  Those *)
(* on values fire once for every row of archive_record_values that a statement *)
(* writes, and so not at all for none.  Each execution deletes what the one    *)
(* before it has written, so that the last one stands for all.                 *)

ArchivesSearchInsert(rows, row) == IF row.gone THEN rows ELSE Append(rows, NoValues)

ArchivesSearchUpdate(row, values) == Entry(row, values)

ArchiveValuesSearchInsert(rows, row, inserted, values) ==
  IF inserted = {} THEN rows ELSE Entry(row, values)

\* Mutant: there is no such trigger.
ArchiveValuesSearchDelete_None(rows, row, deleted, values) == rows

ArchiveValuesSearchDelete(rows, row, deleted, values) ==
  IF deleted = {} THEN rows ELSE Entry(row, values)

-----------------------------------------------------------------------------
(* Collections and fields *)

CreateCollection ==
  /\ \E c \in Collections \ used : collections' = collections \cup {c} /\ used' = used \cup {c}
  /\ AtOnce
  /\ UNCHANGED <<field, record, value, trash, index>>

\* Mutant: archives in the trash do not count as a use of their collection.
DeleteCollection_IgnoresTrash(c) ==
  /\ c \in collections
  /\ \A a \in Archives : record[a].owner = c => record[a].gone
  /\ collections' = collections \ {c}
  /\ field' = [f \in Fields |-> IF field[f].owner = c THEN NoRow ELSE field[f]]
  /\ AtOnce
  /\ UNCHANGED <<used, record, value, trash, index>>

\* One transaction: a collection of which any archive is left, in the trash or
\* not, stays; its fields go with it, unless values enforce that they stay.
DeleteCollection(c) ==
  /\ c \in collections
  /\ \A a \in Archives : record[a].owner # c
  /\ \E enforced \in ForeignKeys :
       enforced => \A a \in Archives, f \in FieldsOf(c) : ~HasValue(value[a], f)
  /\ collections' = collections \ {c}
  /\ field' = [f \in Fields |-> IF field[f].owner = c THEN NoRow ELSE field[f]]
  /\ AtOnce
  /\ UNCHANGED <<used, record, value, trash, index>>

Rows == [owner : Collections, type : Types, kind : Kinds]

\* Any default is accepted, whatever the type.
BeginCreateField(h) ==
  /\ request[h].at = "idle"
  /\ \E row \in Rows :
       /\ row.owner \in collections
       /\ Continue(h, [Idle EXCEPT !.at = "addField", !.row = row])
  /\ UNCHANGED <<schemaVars, record, value, trash, index>>

CreateField(h) ==
  /\ request[h].at = "addField"
  /\ \/ \E f \in Fields \ used, enforced \in ForeignKeys :
          /\ enforced => request[h].row.owner \in collections
          /\ field' = [field EXCEPT ![f] = request[h].row]
          /\ used' = used \cup {f}
     \/ UNCHANGED <<field, used>>
  /\ Finish(h)
  /\ UNCHANGED <<collections, record, value, trash, index>>

\* A new type is refused while the field has values, of whatever archive.
BeginUpdateField(h) ==
  /\ request[h].at = "idle"
  /\ \E f \in Fields, row \in Rows :
       /\ field[f].owner = row.owner
       /\ row.type # field[f].type => \A a \in Archives : ~HasValue(value[a], f)
       /\ Continue(h, [Idle EXCEPT !.at = "setField", !.field = f, !.row = row])
  /\ UNCHANGED <<schemaVars, record, value, trash, index>>

\* The UPDATE looks at nothing but the identifier.
UpdateField(h) ==
  /\ request[h].at = "setField"
  /\ \/ /\ field[request[h].field] # NoRow
        /\ field' = [field EXCEPT ![request[h].field] = request[h].row]
     \/ UNCHANGED field
  /\ Finish(h)
  /\ UNCHANGED <<collections, used, record, value, trash, index>>

\* One transaction: the values of all archives, then the definition.
DeleteField(f) ==
  /\ field[f] # NoRow
  /\ field' = [field EXCEPT ![f] = NoRow]
  /\ value' = [a \in Archives |-> [value[a] EXCEPT ![f] = NoType]]
  /\ index' = [a \in Archives |->
                 LET deleted == Given(value[a]) \cap {f} IN
                 ArchiveValuesSearchDelete(index[a], record[a], deleted, value'[a])]
  /\ AtOnce
  /\ UNCHANGED <<collections, used, record, trash>>

-----------------------------------------------------------------------------
(* Archives *)

\* normalizeArchiveFields: given values have been checked against their fields,
\* defaults are taken as they are, and every required field has a value.
Normalized(c, chosen, defaults) ==
  [f \in Fields |->
     CASE f \in chosen -> field[f].type
       [] f \in FieldsOf(c) \ chosen /\ defaults /\ field[f].kind.default -> DefaultValue
       [] OTHER -> NoType]
Complete(c, values) == \A f \in FieldsOf(c) : field[f].kind.required => HasValue(values, f)

Prepare(h, a, place, defaults) ==
  /\ request[h].at = "idle"
  /\ \E c \in collections : \E chosen \in SUBSET FieldsOf(c) :
       LET values == Normalized(c, chosen, defaults) IN
       /\ Complete(c, values)
       /\ Continue(h, [Idle EXCEPT !.at = place, !.archive = a, !.owner = c, !.values = values])
  /\ UNCHANGED <<schemaVars, record, value, trash, index>>

BeginCreate(h) == Prepare(h, NoArchive, "create", TRUE)

\* GetArchive finds the archive with its collection.
BeginUpdate(h) ==
  \E a \in Archives : /\ Live(a) /\ record[a].owner \in collections
                      /\ Prepare(h, a, "update", FALSE)

\* What enforced foreign keys ask of a new row and its values.
References(h) ==
  /\ request[h].owner \in collections
  /\ \A f \in Fields : HasValue(request[h].values, f) => field[f] # NoRow

Row(h, a) == [record[a] EXCEPT !.owner = request[h].owner]

\* The row is written, its old values are gone, and its new ones are inserted
\* when search_index has these rows of the archive.
Store(h, a, rows) ==
  /\ record' = [record EXCEPT ![a] = Row(h, a)]
  /\ value' = [value EXCEPT ![a] = request[h].values]
  /\ LET values == request[h].values IN
       index' = [index EXCEPT
                   ![a] = ArchiveValuesSearchInsert(rows, Row(h, a), Given(values), values)]

\* One transaction inserts the row, then its values; or it is rolled back.
Create(h) ==
  /\ request[h].at = "create"
  /\ \/ \E a \in Archives, enforced \in ForeignKeys :
          /\ ~Exists(a)
          /\ enforced => References(h)
          /\ Store(h, a, ArchivesSearchInsert(index[a], Row(h, a)))
     \/ UNCHANGED <<record, value, index>>
  /\ Finish(h)
  /\ UNCHANGED <<schemaVars, trash>>

\* One transaction updates the row, unless it has gone to the trash, deletes all
\* its values and inserts the new ones; or it is rolled back.
Update(h) ==
  /\ request[h].at = "update"
  /\ \/ LET a       == request[h].archive
            updated == ArchivesSearchUpdate(Row(h, a), value[a])
            deleted == Given(value[a])
        IN \E enforced \in ForeignKeys :
             /\ Live(a)
             /\ enforced => References(h)
             /\ Store(h, a, ArchiveValuesSearchDelete(updated, Row(h, a), deleted, NoValues))
     \/ UNCHANGED <<record, value, index>>
  /\ Finish(h)
  /\ UNCHANGED <<schemaVars, trash>>

Trash(a) ==
  /\ Live(a)
  /\ record' = [record EXCEPT ![a].gone = TRUE]
  /\ trash' = trash \cup {a}
  /\ index' = [index EXCEPT ![a] = ArchivesSearchUpdate(record'[a], value[a])]
  /\ AtOnce
  /\ UNCHANGED <<schemaVars, value>>

\* Mutant: the trash entry stays.
Restore_KeepsEntry(a) ==
  /\ a \in trash
  /\ record[a].gone
  /\ record' = [record EXCEPT ![a].gone = FALSE]
  /\ index' = [index EXCEPT ![a] = ArchivesSearchUpdate(record'[a], value[a])]
  /\ AtOnce
  /\ UNCHANGED <<schemaVars, value, trash>>

Restore(a) ==
  /\ a \in trash
  /\ record[a].gone
  /\ record' = [record EXCEPT ![a].gone = FALSE]
  /\ trash' = trash \ {a}
  /\ index' = [index EXCEPT ![a] = ArchivesSearchUpdate(record'[a], value[a])]
  /\ AtOnce
  /\ UNCHANGED <<schemaVars, value>>

\* One transaction empties the index and fills it again.
RebuildSearch ==
  /\ index' = [a \in Archives |-> Entry(record[a], value[a])]
  /\ AtOnce
  /\ UNCHANGED <<schemaVars, record, value, trash>>

Next ==
  \/ CreateCollection \/ RebuildSearch
  \/ \E c \in Collections : DeleteCollection(c)
  \/ \E f \in Fields : DeleteField(f)
  \/ \E a \in Archives : Trash(a) \/ Restore(a)
  \/ \E h \in Handlers :
       \/ BeginCreateField(h) \/ CreateField(h) \/ BeginUpdateField(h) \/ UpdateField(h)
       \/ BeginCreate(h) \/ Create(h) \/ BeginUpdate(h) \/ Update(h)

Spec == Init /\ [][Next]_vars

-----------------------------------------------------------------------------
(* Properties *)

Values    == [Fields -> Types \cup {NoType, DefaultValue}]
KindType  == [default : BOOLEAN, required : BOOLEAN]
Owners    == (used \cap Collections) \cup {NoCollection}

FieldType == [owner : Owners, type : Types \cup {NoType}, kind : KindType]
RequestType ==
  [at : {"idle", "addField", "setField", "create", "update"},
   archive : Archives \cup {NoArchive}, field : Fields \cup {NoField},
   row : FieldType, owner : Owners, values : Values]

\* Every variable keeps its type; what a row names has been issued.
TypeOK ==
  /\ collections \subseteq Collections \cap used
  /\ used \subseteq Collections \cup Fields
  /\ field \in [Fields -> FieldType]
  /\ record \in [Archives -> [owner : Owners, gone : BOOLEAN]]
  /\ value \in [Archives -> Values]
  /\ trash \subseteq Archives
  /\ index \in [Archives -> Seq(Values)]
  /\ request \in [Handlers -> RequestType]
  /\ \A h \in Handlers : request[h].at = "update" => request[h].archive \in Archives
  /\ serial \in BOOLEAN

\* An archive is in the trash exactly when it has a trash entry: what is deleted
\* can be brought back, once, however requests interleave.
TrashAgrees == \A a \in Archives : a \in trash <=> Exists(a) /\ record[a].gone

\* The triggers together do what RebuildSearch does: after each transaction, of
\* whatever statements, search_index has one row of every archive that is not in
\* the trash and none of the others, and the row names the archive's values.  It
\* needs all of them: an update to no values is followed up only by the trigger on
\* deleted ones, a new archive without values only by that on its row, and the
\* trash only by that on updates.
SearchIsCurrent ==
  \A a \in Archives : index[a] = IF Live(a) THEN <<value[a]>> ELSE <<>>

\* data-safety.md: a collection that archives use cannot be deleted and a field
\* that has values cannot change its type.  So each archive, in the trash or not,
\* has its collection, and each value given for it a field of that collection and
\* of its type.  This holds until requests overlap, also without foreign keys;
\* then it may not, since the checks precede the transactions.  A default is never
\* checked against its field's type, so that its type is left out.
UsedSchemaStays ==
  serial => \A a \in Archives : Exists(a) =>
    /\ record[a].owner \in collections
    /\ \A f \in Fields : HasValue(value[a], f) =>
         /\ field[f].owner = record[a].owner
         /\ value[a][f] \in {field[f].type, DefaultValue}

=============================================================================
