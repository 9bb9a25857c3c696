----------------------------- MODULE PageProofs -----------------------------
(***************************************************************************)
(* Proofs about PageEditing: settled views that show what the service      *)
(* holds, updates that change what they mean to change, and drafts that go *)
(* only when the user was asked.                                           *)
(***************************************************************************)
EXTENDS PageEditing, FiniteSetTheorems, TLAPS

-----------------------------------------------------------------------------
(* What the values are.                                                    *)

Lists == UNION {[S -> Row] : S \in SUBSET Tasks}

\* What a query can hold: nothing, the one row of its item, rows of tasks.
Copies(q) == {Nothing} \cup IF q \in Items THEN [{q} -> Row]
                            ELSE Lists

\* Only the record's tasks are read in two halves.
CacheRecord(q) == [data: Copies(q), error: BOOLEAN,
                   fetch: {"idle", "sent", "open", "completed", "answered"},
                   answer: Copies(q), late: BOOLEAN]
CacheEntry(q) ==
  {e \in CacheRecord(q) :
     e.fetch \in {"open", "completed"} => q = "linked" /\ e.answer \in Lists}

Kinds == {"none", "create", "update", "trash", "save", "drop"}
Phases == {"idle", "sent", "read", "applied", "refresh"}
Sources == {"none", "editor", "list", "board", "linked", "undo", "tasks", "today",
            "record", "gone"}
Columns == {"text", "done"}

Request == [kind: Kinds, phase: Phases, item: Items \cup {Nothing}, from: Sources,
            text: Nat, done: BOOLEAN, changed: SUBSET Columns, copy: Row \cup {Nothing},
            read: BOOLEAN, stage: Nat, waits: SUBSET Queries, quiet: BOOLEAN]

\* What a request of each kind carries.
Formed(r) ==
  /\ r.phase # "idle" => r.kind # "none"
  /\ r.kind \in {"create", "update", "trash"} => r.item \in Tasks
  /\ r.kind \in {"save", "drop"} => r.item = Record
  /\ r.kind = "save" => r.from # "board"
  /\ r.phase = "read" => r.kind = "update"
  /\ r.phase = "refresh" => r.stage \in DOMAIN Invalidates(r.kind)
  /\ (r.kind = "update" /\ r.from = "board") => r.copy \in Row

RowsTyped == row \in [Items -> Row]
CacheTyped == /\ entry = [q \in Queries |-> entry[q]]
              /\ \A q \in Queries : entry[q] \in CacheEntry(q)
RequestsTyped == /\ request \in [Slots -> Request]
                 /\ \A s \in Slots : Formed(request[s])
LayoutTyped == /\ screen \in Screens \cup {"archives"}
               /\ selection \in Items \cup {Nothing}
               /\ inspectorOpen \in BOOLEAN
EditorsTyped == /\ taskEditor \in EditorRecords \cup {Nothing}
                /\ taskEditor # Nothing => taskEditor.item \in Tasks
                /\ recordEditor \in EditorRecords \cup {Nothing}
                /\ recordEditor # Nothing => recordEditor.item = Record
UndoTyped == undo \in [item: Tasks, copy: Row] \cup {Nothing}
LeftTyped == left \in [edits: Nat, sent: Nat, failures: Nat, clicks: Nat]

PageTyped == RowsTyped /\ CacheTyped /\ RequestsTyped /\ LayoutTyped /\ EditorsTyped
             /\ UndoTyped /\ LeftTyped

-----------------------------------------------------------------------------
(* Lemmas about the operators.                                             *)

LEMMA InvalidatesTasks ==
  ASSUME NEW kind, kind \in {"create", "update"}
  PROVE  /\ DOMAIN Invalidates(kind) = 1..3 /\ Len(Invalidates(kind)) = 3
         /\ Invalidates(kind)[1] = {"list"} \cup Tasks
         /\ Invalidates(kind)[2] = {"board"}
         /\ Invalidates(kind)[3] = {"linked"}
<1>1. Invalidates(kind) = <<{"list"} \cup Tasks, {"board"}, {"linked"}>>
  BY DEF Invalidates
<1> QED
  BY <1>1

LEMMA InvalidatesTrash ==
  /\ DOMAIN Invalidates("trash") = 1..2 /\ Len(Invalidates("trash")) = 2
  /\ Invalidates("trash")[1] = {"list"} \cup Tasks
  /\ Invalidates("trash")[2] = {"board"}
<1>1. Invalidates("trash") = <<{"list"} \cup Tasks, {"board"}>>
  BY DEF Invalidates
<1> QED
  BY <1>1

LEMMA InvalidatesRecord ==
  ASSUME NEW kind, kind \in {"save", "drop"}
  PROVE  /\ DOMAIN Invalidates(kind) = 1..1 /\ Len(Invalidates(kind)) = 1
         /\ Invalidates(kind)[1] = {Record}
<1>1. Invalidates(kind) = <<{Record}>>
  BY DEF Invalidates
<1> QED
  BY <1>1

\* Every kind that is sent has keys to invalidate, and they are queries.
LEMMA InvalidatesForm ==
  ASSUME NEW kind \in Kinds, kind # "none"
  PROVE  /\ Len(Invalidates(kind)) \in Nat /\ Len(Invalidates(kind)) >= 1
         /\ DOMAIN Invalidates(kind) = 1..Len(Invalidates(kind))
         /\ \A k \in DOMAIN Invalidates(kind) : Invalidates(kind)[k] \subseteq Queries
<1>1. CASE kind \in {"create", "update"}
  BY <1>1, InvalidatesTasks DEF Queries, Items
<1>2. CASE kind = "trash"
  BY <1>2, InvalidatesTrash DEF Queries, Items
<1>3. CASE kind \in {"save", "drop"}
  BY <1>3, InvalidatesRecord DEF Queries, Items
<1> QED
  BY <1>1, <1>2, <1>3 DEF Kinds

LEMMA ItemCopy ==
  ASSUME NEW i \in Items, NEW d \in Copies(i), d # Nothing
  PROVE  d \in [{i} -> Row] /\ d[i] \in Row
BY DEF Copies

LEMMA ListCopy ==
  ASSUME NEW q \in Queries, q \notin Items, NEW d \in Copies(q), d # Nothing
  PROVE  \E S \in SUBSET Tasks : d \in [S -> Row]
BY DEF Copies, Lists

\* What can be in a copy.
LEMMA CopyDomain ==
  ASSUME NEW q \in Queries, NEW copy \in Copies(q), copy # Nothing, NEW j \in DOMAIN copy
  PROVE  /\ q \in Items => j = q
         /\ q \notin Items => j \in Tasks
<1>1. CASE q \in Items
  <2>1. copy \in [{q} -> Row]
    BY <1>1, ItemCopy
  <2> QED
    BY <1>1, <2>1
<1>2. CASE q \notin Items
  <2>1. PICK S \in SUBSET Tasks : copy \in [S -> Row]
    BY <1>2, ListCopy
  <2> QED
    BY <1>2, <2>1
<1> QED
  BY <1>1, <1>2

\* A query answers with what it can hold.
LEMMA AnswerTyped ==
  ASSUME RowsTyped, NEW q \in Queries
  PROVE  Answer(q) \in Copies(q)
<1>1. CASE q \in Items
  BY <1>1 DEF Answer, Copies, RowsTyped
<1>2. CASE q \notin Items
  <2> DEFINE shown == {t \in Tasks : /\ row[t].live
                                     /\ q = "linked" => t \in Linked
                                     /\ q # "linked" => ~row[t].done}
  <2>1. Answer(q) = [t \in shown |-> row[t]]
    BY <1>2 DEF Answer
  <2>2. [t \in shown |-> row[t]] \in [shown -> Row]
    BY DEF RowsTyped, Items
  <2>3. shown \in SUBSET Tasks
    OBVIOUS
  <2> HIDE DEF shown
  <2> QED
    BY <1>2, <2>1, <2>2, <2>3 DEF Copies, Lists
<1> QED
  BY <1>1, <1>2

\* The service reads for a fetch: a whole answer, or one of the two lists of
\* the record's tasks.
Reads(q) ==
  \/ FetchAnswer(q)
  \/ q = "linked" /\ \E done \in BOOLEAN : LinkedBegins(done) \/ LinkedEnds(done)

LEMMA ReadFrame ==
  ASSUME NEW q, Reads(q)
  PROVE  asked' = FALSE /\ UNCHANGED <<rows, request, layout, flags, editors, undo, left>>
BY DEF Reads, FetchAnswer, LinkedBegins, LinkedEnds

\* Each of the two lists is a list of tasks, and so is what becomes of both.
LEMMA ListedTyped ==
  ASSUME RowsTyped, NEW done \in BOOLEAN
  PROVE  /\ Listed(done) \in Lists
         /\ \A t : t \in DOMAIN Listed(done) <=> t \in Linked /\ row[t].live /\ row[t].done = done
         /\ \A t \in DOMAIN Listed(done) : Listed(done)[t] = row[t]
<1> DEFINE S == {u \in Linked : row[u].live /\ row[u].done = done}
<1>1. Listed(done) = [t \in S |-> row[t]]
  BY DEF Listed
<1>2. S \in SUBSET Tasks /\ \A t \in S : row[t] \in Row
  BY PageAssumption DEF RowsTyped, Items
<1>3. \A t : t \in S <=> t \in Linked /\ row[t].live /\ row[t].done = done
  OBVIOUS
<1> HIDE DEF S
<1>4. [t \in S |-> row[t]] \in [S -> Row]
  BY <1>2
<1> QED
  BY <1>1, <1>2, <1>3, <1>4 DEF Lists

LEMMA MergedTyped ==
  ASSUME NEW now \in Lists, NEW old \in Lists
  PROVE  [t \in DOMAIN now \cup DOMAIN old |-> IF t \in DOMAIN now THEN now[t] ELSE old[t]]
           \in Lists
<1>1. PICK N \in SUBSET Tasks : now \in [N -> Row]
  BY DEF Lists
<1>2. PICK O \in SUBSET Tasks : old \in [O -> Row]
  BY DEF Lists
<1> DEFINE f == [t \in DOMAIN now \cup DOMAIN old |->
                   IF t \in DOMAIN now THEN now[t] ELSE old[t]]
<1>3. DOMAIN now = N /\ DOMAIN old = O
  BY <1>1, <1>2
<1>4. f \in [N \cup O -> Row] /\ N \cup O \in SUBSET Tasks
  BY <1>1, <1>2, <1>3
<1> QED
  BY <1>4 DEF Lists

\* What a read does to the entry of its query, and that a query but the
\* record's tasks is answered by one read.
LEMMA Reading ==
  ASSUME RowsTyped, CacheTyped, NEW q \in Queries, Reads(q)
  PROVE  /\ entry[q].fetch \in {"sent", "open", "completed"}
         /\ \E e \in CacheEntry(q) :
              /\ entry' = [entry EXCEPT ![q] = e]
              /\ e.data = entry[q].data /\ e.error = entry[q].error /\ e.late = entry[q].late
              /\ e.fetch \in {"open", "completed", "answered"}
              /\ q # "linked" =>
                   entry[q].fetch = "sent" /\ e.fetch = "answered" /\ e.answer = Answer(q)
         /\ q \in Items => q # "linked"
<1>1. entry[q] \in CacheEntry(q)
  BY DEF CacheTyped
<1>2. q \in Items => q # "linked"
  BY PageAssumption DEF Items
<1>3. ASSUME NEW f \in {"open", "completed", "answered"}, NEW copy \in Copies(q),
             f \in {"open", "completed"} => q = "linked" /\ copy \in Lists,
             entry' = [entry EXCEPT ![q].fetch = f, ![q].answer = copy]
      PROVE  \E e \in CacheEntry(q) :
               /\ entry' = [entry EXCEPT ![q] = e]
               /\ e.data = entry[q].data /\ e.error = entry[q].error /\ e.late = entry[q].late
               /\ e.fetch = f /\ e.answer = copy
  <2> DEFINE e == [entry[q] EXCEPT !.fetch = f, !.answer = copy]
  <2>1. /\ e \in CacheEntry(q) /\ e.fetch = f /\ e.answer = copy
        /\ e.data = entry[q].data /\ e.error = entry[q].error /\ e.late = entry[q].late
    BY <1>1, <1>3 DEF CacheEntry, CacheRecord
  <2>2. entry' = [entry EXCEPT ![q] = e]
    BY <1>3 DEF CacheTyped
  <2> QED
    BY <2>1, <2>2
<1>4. CASE FetchAnswer(q)
  <2>1. Answer(q) \in Copies(q) /\ q # "linked" /\ entry[q].fetch = "sent"
    BY <1>4, AnswerTyped DEF FetchAnswer
  <2>2. entry' = [entry EXCEPT ![q].fetch = "answered", ![q].answer = Answer(q)]
    BY <1>4 DEF FetchAnswer
  <2> QED
    BY <1>2, <1>3, <2>1, <2>2
<1>5. ASSUME q = "linked", NEW done \in BOOLEAN, LinkedBegins(done)
      PROVE  /\ entry[q].fetch \in {"sent", "open", "completed"}
             /\ \E f \in {"open", "completed", "answered"}, copy \in Lists :
                  entry' = [entry EXCEPT ![q].fetch = f, ![q].answer = copy]
  BY <1>5, ListedTyped DEF LinkedBegins, Half
<1>6. ASSUME q = "linked", NEW done \in BOOLEAN, LinkedEnds(done)
      PROVE  /\ entry[q].fetch \in {"sent", "open", "completed"}
             /\ \E f \in {"open", "completed", "answered"}, copy \in Lists :
                  entry' = [entry EXCEPT ![q].fetch = f, ![q].answer = copy]
  <2> PICK now \in Lists : now = Listed(done)
    BY ListedTyped
  <2>1. entry[q].fetch \in {"open", "completed"} /\ entry[q].answer \in Lists
    BY <1>1, <1>6 DEF LinkedEnds, Half, CacheEntry
  <2> PICK old \in Lists : old = entry[q].answer
    BY <2>1
  <2> DEFINE f == [t \in DOMAIN now \cup DOMAIN old |->
                     IF t \in DOMAIN now THEN now[t] ELSE old[t]]
  <2>2. f \in Lists
    BY MergedTyped
  <2>3. entry' = [entry EXCEPT ![q].fetch = "answered", ![q].answer = f]
    BY <1>6, Zenon DEF LinkedEnds
  <2> HIDE DEF f
  <2> QED
    BY <2>1, <2>2, <2>3
<1>7. "linked" \notin Items
  BY PageAssumption DEF Items
<1>8. q = "linked" => Copies(q) = {Nothing} \cup Lists
  BY <1>7 DEF Copies
<1>9. CASE q = "linked" /\ \E done \in BOOLEAN : LinkedBegins(done) \/ LinkedEnds(done)
  <2>1. /\ entry[q].fetch \in {"sent", "open", "completed"}
        /\ \E f \in {"open", "completed", "answered"}, copy \in Lists :
             entry' = [entry EXCEPT ![q].fetch = f, ![q].answer = copy]
    BY <1>5, <1>6, <1>9
  <2> QED
    BY <1>2, <1>3, <1>8, <1>9, <2>1
<1> QED
  BY <1>4, <1>9 DEF Reads

\* A row that is written stays a row.
LEMMA WrittenRow ==
  ASSUME NEW old \in Row, NEW text \in Nat, NEW done \in BOOLEAN, NEW live \in BOOLEAN
  PROVE  Written(old, text, done, live) \in Row
BY DEF Row, Written

\* How the steps change an entry of the cache.
LEMMA EntryChanges ==
  ASSUME NEW q, NEW e \in CacheEntry(q)
  PROVE  /\ [e EXCEPT !.fetch = "sent", !.late = FALSE] \in CacheEntry(q)
         /\ [e EXCEPT !.fetch = "sent", !.answer = Nothing, !.late = FALSE] \in CacheEntry(q)
<1>1. e \in CacheRecord(q) /\ Nothing \in Copies(q)
      /\ (e.fetch \in {"open", "completed"} => q = "linked" /\ e.answer \in Lists)
  BY DEF CacheEntry, Copies
<1>2. [e EXCEPT !.fetch = "sent", !.late = FALSE] \in CacheEntry(q)
  <2> DEFINE f == [e EXCEPT !.fetch = "sent", !.late = FALSE]
  <2>1. f \in CacheRecord(q) /\ f.fetch = "sent"
    BY <1>1 DEF CacheRecord
  <2> QED
    BY <2>1 DEF CacheEntry, CacheRecord
<1>3. [e EXCEPT !.fetch = "sent", !.answer = Nothing, !.late = FALSE] \in CacheEntry(q)
  <2> DEFINE f == [e EXCEPT !.fetch = "sent", !.answer = Nothing, !.late = FALSE]
  <2>1. f \in CacheRecord(q) /\ f.fetch = "sent"
    BY <1>1 DEF CacheRecord
  <2> QED
    BY <2>1 DEF CacheEntry, CacheRecord
<1> QED
  BY <1>2, <1>3

LEMMA MountTyped ==
  ASSUME CacheTyped, Mount(entry)
  PROVE  CacheTyped'
<1>1. ASSUME NEW q \in Queries
      PROVE  entry'[q] \in CacheEntry(q)
  <2>1. entry[q] \in CacheEntry(q)
    BY DEF CacheTyped
  <2>2. \/ entry'[q] = entry[q]
        \/ entry'[q] = [entry[q] EXCEPT !.fetch = "sent", !.late = FALSE]
    BY DEF Mount
  <2> QED
    BY <2>1, <2>2, EntryChanges
<1> QED
  BY <1>1 DEF CacheTyped, Mount

\* The cache after an invalidation is typed when the one before it was.
LEMMA InvalidateTyped ==
  ASSUME NEW s \in Slots, NEW K, NEW stage, NEW cache, Invalidate(s, K, cache, stage),
         \A q \in Queries : cache[q] \in CacheEntry(q)
  PROVE  CacheTyped'
<1>1. ASSUME NEW q \in Queries
      PROVE  entry'[q] \in CacheEntry(q)
  <2> DEFINE again == q \in K /\ IsMounted(q)
                      /\ (cache[q].data # Nothing \/ cache[q].fetch = "idle")
  <2>1. CASE again
    <3>1. entry'[q] = [cache[q] EXCEPT !.fetch = "sent", !.answer = Nothing, !.late = FALSE]
      BY <2>1 DEF Invalidate
    <3> QED
      BY <3>1, EntryChanges
  <2>2. CASE ~again
    <3>1. cache[q] \in CacheRecord(q)
      BY DEF CacheEntry
    <3>2. entry'[q] = [cache[q] EXCEPT
                         !.late = @ \/ (q \in K /\ cache[q].fetch \notin {"idle", "sent"})]
      BY <2>2 DEF Invalidate
    <3>3. /\ entry'[q] \in CacheRecord(q) /\ entry'[q].fetch = cache[q].fetch
          /\ entry'[q].answer = cache[q].answer
      BY <3>1, <3>2 DEF CacheRecord
    <3> QED
      BY <3>3 DEF CacheEntry
  <2> QED
    BY <2>1, <2>2
<1> QED
  BY <1>1 DEF CacheTyped, Invalidate

-----------------------------------------------------------------------------
(* What a step does to each part of the state.                             *)

\* The service writes a row for a request other than an update.
Wrote(s, new) ==
  /\ row' = [row EXCEPT ![request[s].item] = new]
  /\ request' = [request EXCEPT ![s].phase = "applied"]
  /\ UNCHANGED <<next, entry, layout, flags, editors, undo, left>>

LEMMA WriteOtherCases ==
  ASSUME NEW s \in Slots, WriteOther(s)
  PROVE  LET i == request[s].item
         IN  /\ request[s].phase = "sent"
             /\ \/ Refused(s) /\ UNCHANGED left
                \/ /\ request[s].kind = "create" /\ ~row[i].there
                   /\ Wrote(s, [row[i] EXCEPT !.live = TRUE, !.there = TRUE])
                \/ /\ request[s].kind = "save" /\ row[i].live
                   /\ Wrote(s, Written(row[i], request[s].text, row[i].done, TRUE))
                \/ /\ request[s].kind \in {"trash", "drop"} /\ row[i].live
                   /\ Wrote(s, Written(row[i], row[i].text, row[i].done, FALSE))
<1>1. CASE request[s].kind = "create"
  BY <1>1 DEF WriteOther, Wrote
<1>2. CASE request[s].kind = "save"
  BY <1>2 DEF WriteOther, Wrote
<1>3. CASE request[s].kind \in {"trash", "drop"}
  BY <1>3 DEF WriteOther, Wrote
<1> QED
  BY <1>1, <1>2, <1>3 DEF WriteOther

\* The five ends of a mutation.
ToastShown(s) ==
  /\ request[s].kind = "update" /\ request[s].from = "board"
  /\ undo' = IF request[s].done THEN [item |-> request[s].item, copy |-> request[s].copy]
             ELSE Nothing
  /\ UNCHANGED <<entry, layout, flags, editors>>
DraftSaved(s) ==
  /\ request[s].kind \in {"update", "save"} /\ request[s].from # "board"
  /\ taskEditor' = Release(taskEditor, s)
  /\ recordEditor' = Release(recordEditor, s)
  /\ editorDirty' = IF request[s].kind = "update" /\ taskEditor' # taskEditor
                    THEN FALSE ELSE editorDirty
  /\ UNCHANGED <<entry, layout, undo, crowded>>
CreatedShown(s) ==
  /\ request[s].kind = "create"
  /\ UNCHANGED <<screen, undo>>
  /\ \/ SelectItem(request[s].item)
     \/ UNCHANGED <<entry, layout, flags, editors>>
TrashedLeft(s) ==
  /\ request[s].kind = "trash"
  /\ selection' = Nothing /\ inspectorOpen' = FALSE
  /\ UNCHANGED <<screen, entry, undo>>
  /\ Render(FALSE)
DroppedLeft(s) ==
  /\ request[s].kind = "drop"
  /\ \/ /\ screen' = "archives" /\ undo' = Nothing
        /\ UNCHANGED <<selection, inspectorOpen>>
        /\ Mount(entry)
        /\ Render(editorDirty)
     \/ UNCHANGED <<entry, layout, flags, editors, undo>>

LEMMA SettleCases ==
  ASSUME NEW s \in Slots, RequestsTyped, Settle(s)
  PROVE  /\ request[s].phase = "refresh" /\ request[s].waits = {}
         /\ request[s].stage = Len(Invalidates(request[s].kind))
         /\ request' = [request EXCEPT ![s] = IdleRequest]
         /\ UNCHANGED <<rows, left>>
         /\ ToastShown(s) \/ DraftSaved(s) \/ CreatedShown(s) \/ TrashedLeft(s)
            \/ DroppedLeft(s)
<1> DEFINE r == request[s]
<1>1. /\ r.kind \in {"create", "update", "trash", "save", "drop"}
      /\ r.kind = "save" => r.from # "board"
  BY DEF RequestsTyped, Formed, Settle, Request, Kinds
<1>2. CASE r.kind = "update" /\ r.from = "board"
  BY <1>2 DEF Settle, ToastShown
<1>3. CASE r.kind \in {"update", "save"} /\ r.from # "board"
  BY <1>3 DEF Settle, DraftSaved, layout
<1>4. CASE r.kind = "create"
  BY <1>4 DEF Settle, CreatedShown, layout
<1>5. CASE r.kind = "trash"
  BY <1>5 DEF Settle, TrashedLeft
<1>6. CASE r.kind = "drop"
  BY <1>6 DEF Settle, DroppedLeft, layout
<1> QED
  BY <1>1, <1>2, <1>3, <1>4, <1>5, <1>6

LEMMA OnlyWritesTouchRows ==
  ASSUME Next
  PROVE  UNCHANGED rows \/ \E s \in Slots : WriteTask(s) \/ WriteOther(s)
<1>1. CASE User
  BY <1>1 DEF User, Select, ClearSelection, ToggleInspector, Navigate, TypeTask, TypeRecord,
     SaveTask, ToggleRow, Undo, CreateTask, TrashTask, SaveRecord, DropRecord, Retry
<1>2. CASE UndoExpires
  BY <1>2 DEF UndoExpires
<1>3. ASSUME NEW s \in Slots,
             ReadTask(s) \/ Answered(s) \/ NextKey(s) \/ Settle(s) \/ RequestFails(s)
      PROVE  UNCHANGED rows
  BY <1>3 DEF ReadTask, Answered, NextKey, Settle, RequestFails, Refused
<1>4. ASSUME NEW q \in Queries, Reads(q) \/ FetchDelivers(q) \/ FetchFails(q)
      PROVE  UNCHANGED rows
  BY <1>4, ReadFrame DEF FetchDelivers, FetchFails, Fetched
<1> QED
  BY <1>1, <1>2, <1>3, <1>4 DEF Next, Progress, Reads, Queries

\* A write changes the row of its request, when the row is live or not there.
LEMMA RowsStayTyped ==
  ASSUME PageTyped, Next
  PROVE  RowsTyped'
<1>1. CASE UNCHANGED rows
  BY <1>1 DEF PageTyped, RowsTyped, rows
<1>2. ASSUME NEW s \in Slots, WriteTask(s)
      PROVE  RowsTyped'
  <2>1. CASE Refused(s)
    BY <1>1, <2>1 DEF Refused
  <2>2. CASE ~Refused(s)
    <3>1. request[s] \in Request /\ request[s].item \in Tasks
      BY <1>2 DEF WriteTask, PageTyped, RequestsTyped, Formed
    <3>2. PICK t : t = request[s].item
      OBVIOUS
    <3>3. row' = [row EXCEPT ![t] = Written(row[t], request[s].text, request[s].done, TRUE)]
      BY <1>2, <2>2, <3>2 DEF WriteTask
    <3>4. row[t] \in Row
      BY <3>1, <3>2 DEF PageTyped, RowsTyped, Items
    <3>5. request[s].text \in Nat /\ request[s].done \in BOOLEAN
      BY <3>1 DEF Request
    <3>6. \E new \in Row : row' = [row EXCEPT ![t] = new]
      BY <3>3, <3>4, <3>5, WrittenRow
    <3> QED
      BY <3>6 DEF PageTyped, RowsTyped
  <2> QED
    BY <2>1, <2>2
<1>3. ASSUME NEW s \in Slots, WriteOther(s)
      PROVE  RowsTyped'
  <2>1. CASE Refused(s)
    BY <1>1, <2>1 DEF Refused
  <2>2. CASE ~Refused(s)
    <3>1. request[s] \in Request /\ request[s].item \in Items
      BY <1>3 DEF WriteOther, PageTyped, RequestsTyped, Formed, Items
    <3>2. row[request[s].item] \in Row
      BY <3>1 DEF PageTyped, RowsTyped
    <3> PICK i : i = request[s].item
      OBVIOUS
    <3>4. /\ [row[i] EXCEPT !.live = TRUE, !.there = TRUE] \in Row
          /\ Written(row[i], request[s].text, row[i].done, TRUE) \in Row
          /\ Written(row[i], row[i].text, row[i].done, FALSE) \in Row
      <4>1. /\ row[i] \in Row /\ row[i].text \in Nat /\ row[i].done \in BOOLEAN
            /\ request[s].text \in Nat
        BY <3>1, <3>2 DEF Row, Request
      <4>2. [row[i] EXCEPT !.live = TRUE, !.there = TRUE] \in Row
        BY <4>1 DEF Row
      <4> QED
        BY <4>1, <4>2, WrittenRow
    <3>5. \/ Wrote(s, [row[i] EXCEPT !.live = TRUE, !.there = TRUE])
          \/ Wrote(s, Written(row[i], request[s].text, row[i].done, TRUE))
          \/ Wrote(s, Written(row[i], row[i].text, row[i].done, FALSE))
      BY <1>3, <2>2, WriteOtherCases
    <3>3. \E new \in Row : row' = [row EXCEPT ![request[s].item] = new]
      BY <3>4, <3>5 DEF Wrote
    <3> QED
      BY <3>3 DEF PageTyped, RowsTyped
  <2> QED
    BY <2>1, <2>2
<1> QED
  BY <1>1, <1>2, <1>3, OnlyWritesTouchRows

\* The seven ways to send a mutation.
Sends(s) ==
  \/ SaveTask(s) \/ Undo(s) \/ TrashTask(s) \/ SaveRecord(s) \/ DropRecord(s)
  \/ \E q \in {"list", "board", "linked"}, t \in Tasks : ToggleRow(s, q, t)
  \/ \E t \in New : CreateTask(s, t)

\* The steps of the layout store and the router.
Moves == \/ \E i \in Items : Select(i)
         \/ ClearSelection
         \/ ToggleInspector
         \/ \E to \in Screens : Navigate(to)

LEMMA NextCases ==
  ASSUME Next
  PROVE  \/ Moves
         \/ TypeTask \/ TypeRecord
         \/ \E s \in Slots : Sends(s)
         \/ \E q \in Queries : Retry(q) \/ Reads(q) \/ FetchDelivers(q) \/ FetchFails(q)
         \/ UndoExpires
         \/ \E s \in Slots : ReadTask(s) \/ WriteTask(s) \/ WriteOther(s) \/ Answered(s)
                            \/ NextKey(s) \/ Settle(s) \/ RequestFails(s)
BY DEF Next, User, Progress, Moves, Sends, Reads, Queries

LEMMA RequestChanges ==
  ASSUME NEW r \in Request
  PROVE  /\ \A p \in Phases : [r EXCEPT !.phase = p] \in Request
         /\ \A b \in BOOLEAN : [r EXCEPT !.read = b] \in Request
         /\ \A k \in Nat : [r EXCEPT !.stage = k] \in Request
         /\ \A W \in SUBSET Queries : [r EXCEPT !.waits = W] \in Request
         /\ [r EXCEPT !.quiet = FALSE] \in Request
         /\ [r EXCEPT !.from = "gone"] \in Request
<1>1. \A p \in Phases : [r EXCEPT !.phase = p] \in Request
  BY DEF Request
<1>2. \A b \in BOOLEAN : [r EXCEPT !.read = b] \in Request
  BY DEF Request
<1>3. \A k \in Nat : [r EXCEPT !.stage = k] \in Request
  BY DEF Request
<1>4. \A W \in SUBSET Queries : [r EXCEPT !.waits = W] \in Request
  BY DEF Request
<1>5. [r EXCEPT !.quiet = FALSE] \in Request
  BY DEF Request
<1>6. [r EXCEPT !.from = "gone"] \in Request
  BY DEF Request, Sources
<1> QED
  BY <1>1, <1>2, <1>3, <1>4, <1>5, <1>6

\* A request of Send, once its arguments are what its kind carries.
LEMMA SendTyped ==
  ASSUME RequestsTyped, NEW s \in Slots, NEW kind \in Kinds, NEW item \in Items,
         NEW from \in Sources, NEW text \in Nat, NEW done \in BOOLEAN,
         NEW changed \in SUBSET Columns, NEW copy \in Row \cup {Nothing},
         Send(s, kind, item, from, text, done, changed, copy),
         kind # "none",
         kind \in {"create", "update", "trash"} => item \in Tasks,
         kind \in {"save", "drop"} => item = Record,
         kind = "save" => from # "board",
         (kind = "update" /\ from = "board") => copy \in Row
  PROVE  RequestsTyped'
<1> PICK b \in BOOLEAN : b = (Settled /\ OnTime)
  OBVIOUS
<1> PICK new : new = [kind |-> kind, phase |-> "sent", item |-> item, from |-> from,
                      text |-> text, done |-> done, changed |-> changed, copy |-> copy,
                      read |-> FALSE, stage |-> 0, waits |-> {}, quiet |-> b]
  OBVIOUS
<1>1. request' = [r \in Slots |-> IF r = s THEN new ELSE [request[r] EXCEPT !.quiet = FALSE]]
  BY DEF Send
<1>2. new \in Request /\ Formed(new)
  BY DEF Request, Formed, Phases
<1>3. ASSUME NEW r \in Slots
      PROVE  request'[r] \in Request /\ Formed(request'[r])
  <2>1. CASE r = s
    BY <1>1, <1>2, <2>1
  <2>2. CASE r # s
    <3>1. request'[r] = [request[r] EXCEPT !.quiet = FALSE] /\ request[r] \in Request
      BY <1>1, <2>2 DEF RequestsTyped
    <3>2. request'[r] \in Request
      BY <3>1, RequestChanges
    <3>3. /\ request'[r].kind = request[r].kind /\ request'[r].phase = request[r].phase
          /\ request'[r].item = request[r].item /\ request'[r].from = request[r].from
          /\ request'[r].stage = request[r].stage /\ request'[r].copy = request[r].copy
      BY <3>1 DEF Request
    <3> QED
      BY <3>2, <3>3 DEF RequestsTyped, Formed
  <2> QED
    BY <2>1, <2>2
<1> QED
  BY <1>1, <1>3 DEF RequestsTyped

\* The copy a row of a list shows.
LEMMA ShownCopy ==
  ASSUME CacheTyped, NEW q \in {"list", "board", "linked"}, NEW t \in Tasks, RowShown(q, t)
  PROVE  entry[q].data \in Copies(q) /\ entry[q].data # Nothing /\ entry[q].data[t] \in Row
<1>1. q \in Queries /\ q \notin Items
  BY PageAssumption DEF Queries, Items
<1>2. entry[q].data \in Copies(q) /\ entry[q].data # Nothing
  BY <1>1 DEF CacheTyped, CacheEntry, CacheRecord, RowShown, Usable
<1>3. PICK S \in SUBSET Tasks : entry[q].data \in [S -> Row]
  BY <1>1, <1>2, ListCopy
<1>4. t \in DOMAIN entry[q].data
  BY DEF RowShown
<1> QED
  BY <1>2, <1>3, <1>4

LEMMA SendsTyped ==
  ASSUME PageTyped, NEW s \in Slots, Sends(s)
  PROVE  RequestsTyped'
<1>1. CASE SaveTask(s)
  <2>1. /\ taskEditor.item \in Tasks /\ taskEditor.text \in Nat
        /\ taskEditor.done \in BOOLEAN
    BY <1>1 DEF SaveTask, PageTyped, EditorsTyped, EditorRecords
  <2>2. PICK changed \in SUBSET Columns :
          Send(s, "update", taskEditor.item, "editor", taskEditor.text, taskEditor.done,
               changed, Nothing)
    BY <1>1 DEF SaveTask, Differs, Columns
  <2> QED
    BY <2>1, <2>2, SendTyped DEF PageTyped, Kinds, Sources, Items
<1>2. CASE Undo(s)
  <2>1. /\ undo.item \in Tasks /\ undo.copy.text \in Nat /\ undo.copy.done \in BOOLEAN
    BY <1>2 DEF Undo, PageTyped, UndoTyped, Row
  <2>2. Send(s, "update", undo.item, "undo", undo.copy.text, undo.copy.done,
             {"text", "done"}, Nothing)
    BY <1>2 DEF Undo
  <2> QED
    BY <2>1, <2>2, SendTyped DEF PageTyped, Kinds, Sources, Items, Columns
<1>3. CASE TrashTask(s)
  <2>1. taskEditor.item \in Tasks
    BY <1>3 DEF TrashTask, PageTyped, EditorsTyped
  <2>2. Send(s, "trash", taskEditor.item, "editor", 0, FALSE, {}, Nothing)
    BY <1>3 DEF TrashTask
  <2> QED
    BY <2>1, <2>2, SendTyped DEF PageTyped, Kinds, Sources, Items
<1>4. CASE SaveRecord(s)
  <2>1. recordEditor.text \in Nat
    BY <1>4 DEF SaveRecord, PageTyped, EditorsTyped, EditorRecords
  <2>2. Send(s, "save", Record, "record", recordEditor.text, FALSE, {"text"}, Nothing)
    BY <1>4 DEF SaveRecord
  <2> QED
    BY <2>1, <2>2, SendTyped DEF PageTyped, Kinds, Sources, Items, Columns
<1>5. CASE DropRecord(s)
  <2>1. Send(s, "drop", Record, "record", 0, FALSE, {}, Nothing)
    BY <1>5 DEF DropRecord
  <2> QED
    BY <2>1, SendTyped DEF PageTyped, Kinds, Sources, Items
<1>6. ASSUME NEW q \in {"list", "board", "linked"}, NEW t \in Tasks, ToggleRow(s, q, t)
      PROVE  RequestsTyped'
  <2> PICK copy : copy = entry[q].data[t]
    OBVIOUS
  <2>1. Send(s, "update", t, q, copy.text, ~copy.done, {"done"}, copy)
    BY <1>6 DEF ToggleRow
  <2>2. copy \in Row
    BY <1>6, ShownCopy DEF ToggleRow, PageTyped
  <2>3. copy.text \in Nat
    BY <2>2 DEF Row
  <2> PICK done \in BOOLEAN : done = ~copy.done
    OBVIOUS
  <2>4. Send(s, "update", t, q, copy.text, done, {"done"}, copy)
    BY <2>1
  <2>5. /\ "update" \in Kinds /\ q \in Sources /\ t \in Items
        /\ {"done"} \in SUBSET Columns /\ RequestsTyped
    BY DEF PageTyped, Kinds, Sources, Items, Columns
  <2> QED
    BY <2>2, <2>3, <2>4, <2>5, SendTyped
<1>7. ASSUME NEW t \in New, CreateTask(s, t)
      PROVE  RequestsTyped'
  <2>1. t \in Tasks /\ screen \in Sources
    BY <1>7, PageAssumption DEF CreateTask, Sources
  <2>2. Send(s, "create", t, screen, 0, FALSE, {}, Nothing)
    BY <1>7 DEF CreateTask
  <2>3. t \in Items /\ "create" \in Kinds /\ {} \in SUBSET Columns /\ RequestsTyped
    BY <2>1 DEF Items, Kinds, PageTyped
  <2> PICK from : from = screen
    OBVIOUS
  <2>4. from \in Sources /\ Send(s, "create", t, from, 0, FALSE, {}, Nothing)
    BY <2>1, <2>2
  <2> QED
    BY <2>1, <2>3, <2>4, SendTyped
<1> QED
  BY <1>1, <1>2, <1>3, <1>4, <1>5, <1>6, <1>7 DEF Sends

\* What stays formed when only the parts no kind speaks of change.
LEMMA FormStays ==
  ASSUME NEW r \in Request, NEW r2, Formed(r),
         r2.kind = r.kind, r2.phase = r.phase, r2.item = r.item,
         r2.from = r.from \/ r2.from = "gone", r2.stage = r.stage, r2.copy = r.copy
  PROVE  Formed(r2)
BY DEF Formed

LEMMA IdleFormed == IdleRequest \in Request /\ Formed(IdleRequest)
<1>1. IdleRequest \in Request
  BY DEF IdleRequest, Request, Kinds, Phases, Sources
<1>2. Formed(IdleRequest)
  BY DEF IdleRequest, Formed
<1> QED
  BY <1>1, <1>2

LEMMA RefusedTyped ==
  ASSUME RequestsTyped, NEW s \in Slots, request' = [request EXCEPT ![s] = IdleRequest]
  PROVE  RequestsTyped'
BY IdleFormed DEF RequestsTyped

\* The requests after an invalidation: one goes on, nobody waits for what is
\* fetched anew.
LEMMA InvalidateRequests ==
  ASSUME RequestsTyped, NEW s \in Slots, NEW K, NEW cache,
         NEW stage \in DOMAIN Invalidates(request[s].kind), stage \in Nat,
         Invalidate(s, K, cache, stage), request[s].phase # "idle", K \subseteq Queries
  PROVE  RequestsTyped'
<1> PICK shown : shown = {q \in K : IsMounted(q)}
  OBVIOUS
<1> PICK again : again = {q \in shown : cache[q].data # Nothing \/ cache[q].fetch = "idle"}
  OBVIOUS
<1>1. request' = [r \in Slots |->
           IF r = s
           THEN [request[r] EXCEPT !.phase = "refresh", !.stage = stage, !.waits = shown]
           ELSE [request[r] EXCEPT !.waits = @ \ again]]
  BY DEF Invalidate
<1>2. shown \in SUBSET Queries
  OBVIOUS
<1>3. ASSUME NEW r \in Slots
      PROVE  request'[r] \in Request /\ Formed(request'[r])
  <2>1. CASE r = s
    <3> PICK a : a = [request[s] EXCEPT !.phase = "refresh"]
      OBVIOUS
    <3> PICK b : b = [a EXCEPT !.stage = stage]
      OBVIOUS
    <3>1. a \in Request /\ b \in Request
      <4>1. a \in Request
        BY RequestChanges DEF RequestsTyped, Phases
      <4> QED
        BY <4>1, RequestChanges
    <3>2. request'[s] = [b EXCEPT !.waits = shown]
      BY <1>1
    <3>3. request'[s] \in Request
      <4>1. [b EXCEPT !.waits = shown] \in Request
        BY <1>2, <3>1, RequestChanges
      <4> QED
        BY <3>2, <4>1
    <3>4. /\ request'[s].kind = request[s].kind /\ request'[s].phase = "refresh"
          /\ request'[s].item = request[s].item /\ request'[s].from = request[s].from
          /\ request'[s].stage = stage /\ request'[s].copy = request[s].copy
      BY <3>1, <3>2 DEF Request, RequestsTyped
    <3>5. Formed(request'[s])
      BY <3>4 DEF Formed, RequestsTyped
    <3> QED
      BY <2>1, <3>3, <3>5
  <2>2. CASE r # s
    <3>1. /\ request'[r] = [request[r] EXCEPT !.waits = @ \ again]
          /\ request[r] \in Request /\ Formed(request[r])
      BY <1>1, <2>2 DEF RequestsTyped
    <3>2. PICK W \in SUBSET Queries : W = request[r].waits \ again
      BY <3>1 DEF Request
    <3>3. request'[r] \in Request
      <4>1. request'[r] = [request[r] EXCEPT !.waits = W]
        BY <3>1, <3>2
      <4>2. \A X \in SUBSET Queries : [request[r] EXCEPT !.waits = X] \in Request
        BY <3>1, RequestChanges
      <4> QED
        BY <4>1, <4>2
    <3>4. /\ request'[r].kind = request[r].kind /\ request'[r].phase = request[r].phase
          /\ request'[r].item = request[r].item /\ request'[r].from = request[r].from
          /\ request'[r].stage = request[r].stage /\ request'[r].copy = request[r].copy
      BY <3>1 DEF Request
    <3> QED
      BY <3>1, <3>3, <3>4, FormStays
  <2> QED
    BY <2>1, <2>2
<1> QED
  BY <1>1, <1>3 DEF RequestsTyped

\* What the answer itself puts in the cache.
AnswerCache(s) ==
  IF request[s].kind = "save"
  THEN [entry EXCEPT ![Record].data = Answer(Record), ![Record].error = FALSE]
  ELSE entry

\* An answer is refused when its row is gone, and begins the refresh if not.
LEMMA AnsweredCases ==
  ASSUME NEW s \in Slots, Answered(s)
  PROVE  /\ request[s].phase = "applied"
         /\ \/ /\ request[s].kind \in {"create", "update", "save"}
               /\ ~row[request[s].item].live
               /\ Refused(s) /\ UNCHANGED left
            \/ /\ request[s].kind \in {"create", "update", "save"} => row[request[s].item].live
               /\ Invalidate(s, Invalidates(request[s].kind)[1], AnswerCache(s), 1)
               /\ UNCHANGED <<rows, layout, undo, left>>
               /\ Render(editorDirty)
<1>1. CASE request[s].kind \in {"create", "update", "save"} /\ ~row[request[s].item].live
  BY <1>1 DEF Answered
<1>2. CASE ~(request[s].kind \in {"create", "update", "save"} /\ ~row[request[s].item].live)
  <2>1. Invalidate(s, Invalidates(request[s].kind)[1], AnswerCache(s), 1)
    BY <1>2, Zenon DEF Answered, AnswerCache
  <2> QED
    BY <1>2, <2>1 DEF Answered
<1> QED
  BY <1>1, <1>2

\* The keys of a request that has been applied or refreshes.
LEMMA KeysOf ==
  ASSUME RequestsTyped, NEW s \in Slots, request[s].phase # "idle"
  PROVE  LET keys == Invalidates(request[s].kind)
         IN  /\ request[s].kind \in Kinds /\ request[s].kind # "none"
             /\ Len(keys) \in Nat /\ Len(keys) >= 1 /\ DOMAIN keys = 1..Len(keys)
             /\ \A k \in DOMAIN keys : keys[k] \subseteq Queries
<1>1. request[s].kind \in Kinds /\ request[s].kind # "none"
  BY DEF RequestsTyped, Request, Formed
<1> QED
  BY <1>1, InvalidatesForm

LEMMA AnsweredRequests ==
  ASSUME RequestsTyped, NEW s \in Slots, Answered(s)
  PROVE  RequestsTyped'
<1>1. CASE Refused(s)
  BY <1>1, RefusedTyped DEF Refused
<1>2. CASE ~Refused(s)
  <2>1. request[s].phase # "idle"
        /\ Invalidate(s, Invalidates(request[s].kind)[1], AnswerCache(s), 1)
    BY <1>2, AnsweredCases
  <2>2. 1 \in DOMAIN Invalidates(request[s].kind)
        /\ Invalidates(request[s].kind)[1] \subseteq Queries
    BY <2>1, KeysOf
  <2> QED
    BY <2>1, <2>2, InvalidateRequests
<1> QED
  BY <1>1, <1>2

LEMMA NextKeyRequests ==
  ASSUME RequestsTyped, NEW s \in Slots, NextKey(s)
  PROVE  RequestsTyped'
<1> PICK stage : stage = request[s].stage + 1
  OBVIOUS
<1>1. request[s].phase = "refresh" /\ request[s].stage < Len(Invalidates(request[s].kind))
      /\ Invalidate(s, Invalidates(request[s].kind)[stage], entry, stage)
  BY DEF NextKey
<1>2. request[s].stage \in DOMAIN Invalidates(request[s].kind)
  BY <1>1 DEF RequestsTyped, Formed
<1>3. stage \in DOMAIN Invalidates(request[s].kind) /\ stage \in Nat
      /\ Invalidates(request[s].kind)[stage] \subseteq Queries
  <2> PICK keys : keys = Invalidates(request[s].kind)
    OBVIOUS
  <2>1. request[s].phase # "idle"
    BY <1>1
  <2>2. /\ Len(keys) \in Nat /\ DOMAIN keys = 1..Len(keys)
        /\ \A k \in DOMAIN keys : keys[k] \subseteq Queries
    BY <2>1, KeysOf
  <2>3. request[s].stage \in 1..Len(keys) /\ request[s].stage < Len(keys)
    BY <1>1, <1>2, <2>2
  <2>4. stage \in 1..Len(keys) /\ stage \in Nat
    BY <2>2, <2>3
  <2> QED
    BY <2>2, <2>4
<1> QED
  BY <1>1, <1>3, InvalidateRequests

LEMMA RequestsStayTyped ==
  ASSUME PageTyped, Next
  PROVE  RequestsTyped'
<1> RequestsTyped
  BY DEF PageTyped
<1>1. CASE UNCHANGED request
  BY <1>1 DEF RequestsTyped
<1>2. ASSUME NEW to \in Screens, Navigate(to)
      PROVE  RequestsTyped'
  <2>1. request' = [r \in Slots |->
          IF request[r].from \in {"none", "editor"} THEN request[r]
          ELSE [request[r] EXCEPT !.from = "gone"]]
    BY <1>2 DEF Navigate
  <2>2. ASSUME NEW r \in Slots
        PROVE  request'[r] \in Request /\ Formed(request'[r])
    <3>1. CASE request'[r] = request[r]
      BY <3>1 DEF RequestsTyped
    <3>2. CASE request'[r] = [request[r] EXCEPT !.from = "gone"]
      <4>1. request[r] \in Request /\ Formed(request[r])
        BY DEF RequestsTyped
      <4>2. request'[r] \in Request
        BY <3>2, <4>1, RequestChanges
      <4>3. /\ request'[r].kind = request[r].kind /\ request'[r].phase = request[r].phase
            /\ request'[r].item = request[r].item /\ request'[r].from = "gone"
            /\ request'[r].stage = request[r].stage /\ request'[r].copy = request[r].copy
        BY <3>2, <4>1 DEF Request
      <4> QED
        BY <4>1, <4>2, <4>3, FormStays
    <3> QED
      BY <2>1, <3>1, <3>2
  <2> QED
    BY <2>1, <2>2 DEF RequestsTyped
<1>3. CASE Moves
  <2>1. ASSUME NEW i \in Items, Select(i)
        PROVE  UNCHANGED request
    BY <2>1 DEF Select
  <2>2. ASSUME ClearSelection \/ ToggleInspector
        PROVE  UNCHANGED request
    BY <2>2 DEF ClearSelection, ToggleInspector
  <2> QED
    BY <1>1, <1>2, <1>3, <2>1, <2>2 DEF Moves
<1>4. ASSUME NEW s \in Slots, ReadTask(s)
      PROVE  RequestsTyped'
  <2>1. CASE Refused(s)
    BY <2>1, RefusedTyped DEF Refused
  <2>2. CASE ~Refused(s)
    <3> PICK a : a = [request[s] EXCEPT !.phase = "read"]
      OBVIOUS
    <3> PICK b : b = [a EXCEPT !.read = row[request[s].item].done]
      OBVIOUS
    <3>1. request' = [request EXCEPT ![s] = b] /\ request[s].kind = "update"
      BY <1>4, <2>2 DEF ReadTask, RequestsTyped
    <3>2. row[request[s].item].done \in BOOLEAN
      BY <3>1 DEF PageTyped, RowsTyped, Row, Items, RequestsTyped, Formed
    <3>3. a \in Request /\ request[s] \in Request /\ Formed(request[s])
      BY RequestChanges DEF RequestsTyped, Phases
    <3>4. b \in Request
      BY <3>2, <3>3, RequestChanges
    <3>5. /\ b.kind = request[s].kind /\ b.phase = "read" /\ b.item = request[s].item
          /\ b.from = request[s].from /\ b.stage = request[s].stage /\ b.copy = request[s].copy
      BY <3>3 DEF Request
    <3>6. Formed(b)
      BY <3>1, <3>3, <3>5 DEF Formed
    <3> QED
      BY <3>1, <3>4, <3>6 DEF RequestsTyped
  <2> QED
    BY <2>1, <2>2
<1>5. ASSUME NEW s \in Slots, WriteTask(s) \/ WriteOther(s)
      PROVE  RequestsTyped'
  <2>1. CASE Refused(s)
    BY <2>1, RefusedTyped DEF Refused
  <2>2. CASE ~Refused(s)
    <3> PICK a : a = [request[s] EXCEPT !.phase = "applied"]
      OBVIOUS
    <3>1. request' = [request EXCEPT ![s] = a] /\ request[s].phase # "idle"
      BY <1>5, <2>2, WriteOtherCases DEF WriteTask, Wrote, RequestsTyped
    <3>2. a \in Request /\ request[s] \in Request /\ Formed(request[s])
      BY RequestChanges DEF RequestsTyped, Phases
    <3>3. /\ a.kind = request[s].kind /\ a.phase = "applied" /\ a.item = request[s].item
          /\ a.from = request[s].from /\ a.copy = request[s].copy
      BY <3>2 DEF Request
    <3>4. Formed(a)
      BY <3>1, <3>2, <3>3 DEF Formed
    <3> QED
      BY <3>1, <3>2, <3>4 DEF RequestsTyped
  <2> QED
    BY <2>1, <2>2
<1>6. ASSUME NEW s \in Slots, RequestFails(s) \/ Settle(s)
      PROVE  RequestsTyped'
  BY <1>6, RefusedTyped DEF Refused, RequestFails, Settle
<1>7. ASSUME NEW q \in Queries, FetchDelivers(q) \/ FetchFails(q)
      PROVE  RequestsTyped'
  <2>1. request' = [s \in Slots |-> [request[s] EXCEPT !.waits = @ \ {q}]]
    BY <1>7 DEF FetchDelivers, FetchFails, Fetched
  <2>2. ASSUME NEW r \in Slots
        PROVE  request'[r] \in Request /\ Formed(request'[r])
    <3>1. /\ request'[r] = [request[r] EXCEPT !.waits = @ \ {q}]
          /\ request[r] \in Request /\ Formed(request[r])
      BY <2>1 DEF RequestsTyped
    <3>2. request[r].waits \ {q} \in SUBSET Queries
      BY <3>1 DEF Request
    <3>3. request'[r] \in Request
      BY <3>1, <3>2, RequestChanges
    <3>4. /\ request'[r].kind = request[r].kind /\ request'[r].phase = request[r].phase
          /\ request'[r].item = request[r].item /\ request'[r].from = request[r].from
          /\ request'[r].stage = request[r].stage /\ request'[r].copy = request[r].copy
      BY <3>1 DEF Request
    <3> QED
      BY <3>1, <3>3, <3>4, FormStays
  <2> QED
    BY <2>1, <2>2 DEF RequestsTyped
<1>8. ASSUME NEW q \in Queries, Retry(q) \/ Reads(q)
      PROVE  RequestsTyped'
  BY <1>1, <1>8, ReadFrame DEF Retry
<1>9. CASE TypeTask \/ TypeRecord \/ UndoExpires
  BY <1>1, <1>9 DEF TypeTask, TypeRecord, UndoExpires
<1> QED
  BY <1>3, <1>4, <1>5, <1>6, <1>7, <1>8, <1>9, NextCases, SendsTyped, AnsweredRequests,
     NextKeyRequests

LEMMA CacheStaysTyped ==
  ASSUME PageTyped, Next
  PROVE  CacheTyped'
<1> RowsTyped /\ CacheTyped /\ RequestsTyped
  BY DEF PageTyped
<1>1. CASE UNCHANGED entry
  BY <1>1 DEF CacheTyped
<1>2. CASE Mount(entry)
  BY <1>2, MountTyped
<1>3. CASE Moves
  BY <1>1, <1>2, <1>3 DEF Moves, Select, SelectItem, ClearSelection, ToggleInspector, Navigate
<1>4. CASE TypeTask \/ TypeRecord \/ UndoExpires
  BY <1>1, <1>4 DEF TypeTask, TypeRecord, UndoExpires
<1>5. ASSUME NEW s \in Slots, Sends(s)
      PROVE  CacheTyped'
  BY <1>1, <1>5 DEF Sends, SaveTask, Undo, TrashTask, SaveRecord, DropRecord, ToggleRow,
     CreateTask
<1>6. ASSUME NEW s \in Slots,
             ReadTask(s) \/ WriteTask(s) \/ WriteOther(s) \/ RequestFails(s)
      PROVE  CacheTyped'
  BY <1>1, <1>6, WriteOtherCases DEF ReadTask, WriteTask, Wrote, Refused, RequestFails
<1>7. ASSUME NEW s \in Slots, Answered(s)
      PROVE  CacheTyped'
  <2>1. CASE Refused(s)
    BY <1>1, <2>1 DEF Refused
  <2>2. CASE ~Refused(s)
    <3>1. Invalidate(s, Invalidates(request[s].kind)[1], AnswerCache(s), 1)
      BY <1>7, <2>2, AnsweredCases
    <3>2. ASSUME NEW q \in Queries
          PROVE  AnswerCache(s)[q] \in CacheEntry(q)
      <4>1. CASE AnswerCache(s) = entry
        BY <4>1 DEF CacheTyped
      <4>2. CASE AnswerCache(s) # entry
        <5>1. Record \in Queries /\ Answer(Record) \in Copies(Record)
          BY AnswerTyped DEF Queries, Items
        <5>2. AnswerCache(s) = [entry EXCEPT ![Record].data = Answer(Record),
                                             ![Record].error = FALSE]
          BY <4>2 DEF AnswerCache
        <5> QED
          BY <5>1, <5>2 DEF CacheTyped, CacheEntry, CacheRecord
      <4> QED
        BY <4>1, <4>2
    <3> QED
      BY <3>1, <3>2, InvalidateTyped
  <2> QED
    BY <2>1, <2>2
<1>8. ASSUME NEW s \in Slots, NextKey(s)
      PROVE  CacheTyped'
  BY <1>8, InvalidateTyped DEF NextKey, CacheTyped
<1>9. ASSUME NEW s \in Slots, Settle(s)
      PROVE  CacheTyped'
  BY <1>1, <1>2, <1>9, SettleCases DEF ToastShown, DraftSaved, CreatedShown, TrashedLeft,
     DroppedLeft, SelectItem
<1>10. ASSUME NEW q \in Queries, Reads(q)
       PROVE  CacheTyped'
  BY <1>10, Reading DEF CacheTyped
<1>11. ASSUME NEW q \in Queries, Retry(q)
       PROVE  CacheTyped'
  <2>1. [entry[q] EXCEPT !.fetch = "sent", !.late = FALSE] \in CacheEntry(q)
    BY EntryChanges DEF CacheTyped
  <2>2. entry' = [entry EXCEPT ![q] = [entry[q] EXCEPT !.fetch = "sent", !.late = FALSE]]
    BY <1>11 DEF Retry, CacheTyped
  <2> QED
    BY <2>1, <2>2 DEF CacheTyped
<1>12. ASSUME NEW q \in Queries, FetchDelivers(q) \/ FetchFails(q)
       PROVE  CacheTyped'
  <2>1. \E new \in CacheEntry(q) : entry' = [entry EXCEPT ![q] = new]
    <3>1. entry[q] \in CacheEntry(q) /\ Nothing \in Copies(q)
      BY DEF CacheTyped, Copies
    <3>2. CASE FetchDelivers(q)
      <4> DEFINE new == [data |-> IF entry[q].answer = Nothing THEN entry[q].data
                                  ELSE entry[q].answer,
                         error |-> entry[q].answer = Nothing, fetch |-> "idle",
                         answer |-> Nothing, late |-> entry[q].late]
      <4>1. new \in CacheEntry(q)
        BY <3>1 DEF CacheEntry, CacheRecord
      <4>2. entry' = [entry EXCEPT ![q] = new]
        BY <3>2, Zenon DEF FetchDelivers, Fetched
      <4> QED
        BY <4>1, <4>2
    <3>3. CASE FetchFails(q)
      <4> DEFINE new == [data |-> entry[q].data, error |-> TRUE, fetch |-> "idle",
                         answer |-> Nothing, late |-> FALSE]
      <4>1. new \in CacheEntry(q)
        BY <3>1 DEF CacheEntry, CacheRecord
      <4>2. entry' = [entry EXCEPT ![q] = new]
        BY <3>3, Zenon DEF FetchFails, Fetched
      <4> QED
        BY <4>1, <4>2
    <3> QED
      BY <1>12, <3>2, <3>3
  <2> QED
    BY <2>1 DEF CacheTyped
<1> QED
  BY <1>3, <1>4, <1>5, <1>6, <1>7, <1>8, <1>9, <1>10, <1>11, <1>12, NextCases

LEMMA LayoutStaysTyped ==
  ASSUME PageTyped, Next
  PROVE  LayoutTyped'
<1> LayoutTyped /\ RequestsTyped
  BY DEF PageTyped
<1>1. CASE UNCHANGED layout
  BY <1>1 DEF LayoutTyped, layout
<1>2. CASE Moves
  BY <1>2 DEF Moves, Select, SelectItem, ClearSelection, ToggleInspector, Navigate, LayoutTyped
<1>3. CASE TypeTask \/ TypeRecord \/ UndoExpires
  BY <1>1, <1>3 DEF TypeTask, TypeRecord, UndoExpires
<1>4. ASSUME NEW s \in Slots, Sends(s)
      PROVE  LayoutTyped'
  BY <1>1, <1>4 DEF Sends, SaveTask, Undo, TrashTask, SaveRecord, DropRecord, ToggleRow,
     CreateTask
<1>5. ASSUME NEW s \in Slots, ReadTask(s) \/ WriteTask(s) \/ WriteOther(s)
                              \/ RequestFails(s) \/ NextKey(s)
      PROVE  LayoutTyped'
  BY <1>1, <1>5, WriteOtherCases DEF ReadTask, WriteTask, Wrote, Refused, RequestFails, NextKey
<1>6. ASSUME NEW s \in Slots, Answered(s)
      PROVE  LayoutTyped'
  BY <1>1, <1>6, AnsweredCases DEF Refused
<1>7. ASSUME NEW s \in Slots, Settle(s)
      PROVE  LayoutTyped'
  <2>1. request[s].item \in Items \/ request[s].item = Nothing
    BY DEF RequestsTyped, Request
  <2>2. CASE CreatedShown(s)
    BY <1>1, <2>1, <2>2 DEF CreatedShown, SelectItem, LayoutTyped
  <2>3. CASE ~CreatedShown(s)
    BY <1>1, <1>7, <2>3, SettleCases DEF ToastShown, DraftSaved, TrashedLeft, DroppedLeft,
       LayoutTyped
  <2> QED
    BY <2>2, <2>3
<1>8. ASSUME NEW q \in Queries, Retry(q) \/ Reads(q) \/ FetchDelivers(q) \/ FetchFails(q)
      PROVE  LayoutTyped'
  BY <1>1, <1>8, ReadFrame DEF Retry, FetchDelivers, FetchFails, Fetched
<1> QED
  BY <1>2, <1>3, <1>4, <1>5, <1>6, <1>7, <1>8, NextCases

\* Keep leaves the editor of this item and version, or mounts a fresh one.
LEMMA KeepCases ==
  ASSUME NEW e, NEW i, NEW cache, i # Nothing
  PROVE  \/ /\ Keep(e, i, cache) = e /\ e # Nothing /\ e.item = i
            /\ e.base.at = cache[i].data[i].at
         \/ /\ Keep(e, i, cache) = Editor(i, cache[i].data[i])
            /\ ~(e # Nothing /\ e.item = i /\ e.base.at = cache[i].data[i].at)
BY DEF Keep

LEMMA FreshEditor ==
  ASSUME NEW i \in Items, NEW copy \in Row
  PROVE  /\ Editor(i, copy) \in EditorRecords
         /\ Editor(i, copy).item = i /\ Editor(i, copy).base = copy
         /\ Editor(i, copy).saving = 0 /\ ~Dirty(Editor(i, copy))
<1>1. /\ Editor(i, copy).item = i /\ Editor(i, copy).base = copy
      /\ Editor(i, copy).text = copy.text /\ Editor(i, copy).done = copy.done
      /\ Editor(i, copy).saving = 0
  BY DEF Editor
<1>2. Editor(i, copy) \in EditorRecords
  BY DEF Editor, EditorRecords, Row
<1> QED
  BY <1>1, <1>2 DEF Dirty

\* The row an editor is mounted with.
LEMMA EditedCopy ==
  ASSUME CacheTyped, NEW i \in Items, Usable(i)
  PROVE  entry[i].data[i] \in Row /\ entry[i].data \in [{i} -> Row] /\ entry[i].data # Nothing
<1>1. entry[i].data \in Copies(i) /\ entry[i].data # Nothing
  BY DEF CacheTyped, CacheEntry, CacheRecord, Usable, Queries
<1> QED
  BY <1>1, ItemCopy

LEMMA EditedForms ==
  /\ EditedTask # Nothing => /\ EditedTask = selection /\ selection \in Tasks
                            /\ inspectorOpen /\ Usable(selection)
  /\ EditedRecord # Nothing => EditedRecord = Record /\ screen = "record" /\ Usable(Record)
BY DEF EditedTask, EditedRecord

LEMMA KeepTyped ==
  ASSUME NEW e \in EditorRecords \cup {Nothing}, NEW i \in Items, NEW cache,
         NEW copy \in Row, copy = cache[i].data[i]
  PROVE  /\ Keep(e, i, cache) \in EditorRecords
         /\ Keep(e, i, cache).item = i
         /\ Keep(e, i, cache).base.at = copy.at
<1>1. i # Nothing
  BY PageAssumption DEF Items
<1> QED
  BY <1>1, KeepCases, FreshEditor

\* After a rendering each editor is of what the screen shows, and mounted with
\* the version the cache holds.
LEMMA Rendering ==
  ASSUME EditorsTyped, CacheTyped', NEW flag, Render(flag)
  PROVE  /\ taskEditor' = Keep(taskEditor, EditedTask', entry')
         /\ recordEditor' = Keep(recordEditor, EditedRecord', entry')
         /\ EditedTask' = Nothing => taskEditor' = Nothing
         /\ EditedTask' # Nothing =>
              /\ EditedTask' = selection' /\ selection' \in Tasks /\ inspectorOpen'
              /\ entry'[selection'].data # Nothing /\ ~entry'[selection'].error
              /\ entry'[selection'].data[selection'] \in Row
              /\ taskEditor' \in EditorRecords /\ taskEditor'.item = selection'
              /\ taskEditor'.base.at = entry'[selection'].data[selection'].at
         /\ EditedRecord' = Nothing => recordEditor' = Nothing
         /\ EditedRecord' # Nothing =>
              /\ EditedRecord' = Record /\ screen' = "record"
              /\ entry'[Record].data # Nothing /\ ~entry'[Record].error
              /\ recordEditor' \in EditorRecords /\ recordEditor'.item = Record
              /\ recordEditor'.base.at = entry'[Record].data[Record].at
<1>1. /\ taskEditor' = Keep(taskEditor, EditedTask', entry')
      /\ recordEditor' = Keep(recordEditor, EditedRecord', entry')
  BY DEF Render
<1>2. /\ EditedTask' = Nothing => taskEditor' = Nothing
      /\ EditedRecord' = Nothing => recordEditor' = Nothing
  BY <1>1 DEF Keep
<1>3. ASSUME NEW i \in Items, entry'[i].data # Nothing
      PROVE  entry'[i].data[i] \in Row
  <2>1. entry'[i] \in CacheEntry(i)
    BY DEF CacheTyped, Queries
  <2>2. entry'[i].data \in Copies(i)
    BY <2>1 DEF CacheEntry, CacheRecord
  <2> QED
    BY <1>3, <2>2, ItemCopy
<1>4. ASSUME EditedTask' # Nothing
      PROVE  /\ EditedTask' = selection' /\ selection' \in Tasks /\ inspectorOpen'
             /\ entry'[selection'].data # Nothing /\ ~entry'[selection'].error
             /\ entry'[selection'].data[selection'] \in Row
             /\ taskEditor' \in EditorRecords /\ taskEditor'.item = selection'
             /\ taskEditor'.base.at = entry'[selection'].data[selection'].at
  <2>1. /\ EditedTask' = selection' /\ selection' \in Tasks /\ inspectorOpen'
        /\ entry'[selection'].data # Nothing /\ ~entry'[selection'].error
    BY <1>4 DEF EditedTask, Usable
  <2>2. entry'[selection'].data[selection'] \in Row
    BY <1>3, <2>1 DEF Items
  <2> PICK cache : cache = entry'
    OBVIOUS
  <2> PICK i : i = selection'
    OBVIOUS
  <2> PICK e \in EditorRecords \cup {Nothing} : e = taskEditor
    BY DEF EditorsTyped
  <2>3. taskEditor' = Keep(e, i, cache) /\ cache[i].data[i] \in Row /\ i \in Items
    BY <1>1, <2>1, <2>2 DEF Items
  <2>5. /\ Keep(e, i, cache) \in EditorRecords /\ Keep(e, i, cache).item = i
        /\ Keep(e, i, cache).base.at = cache[i].data[i].at
    <3>1. i \in Items
      BY <2>3
    <3>2. PICK copy \in Row : copy = cache[i].data[i]
      BY <2>3
    <3> QED
      BY <3>1, <3>2, KeepTyped
  <2>4. /\ taskEditor' \in EditorRecords /\ taskEditor'.item = i
        /\ taskEditor'.base.at = cache[i].data[i].at
    BY <2>3, <2>5
  <2> QED
    BY <2>1, <2>2, <2>4
<1>5. ASSUME EditedRecord' # Nothing
      PROVE  /\ EditedRecord' = Record /\ screen' = "record"
             /\ entry'[Record].data # Nothing /\ ~entry'[Record].error
             /\ recordEditor' \in EditorRecords /\ recordEditor'.item = Record
             /\ recordEditor'.base.at = entry'[Record].data[Record].at
  <2>1. /\ EditedRecord' = Record /\ screen' = "record"
        /\ entry'[Record].data # Nothing /\ ~entry'[Record].error
    BY <1>5 DEF EditedRecord, Usable
  <2>2. entry'[Record].data[Record] \in Row
    BY <1>3, <2>1 DEF Items
  <2> PICK cache : cache = entry'
    OBVIOUS
  <2> PICK i : i = Record
    OBVIOUS
  <2> PICK e \in EditorRecords \cup {Nothing} : e = recordEditor
    BY DEF EditorsTyped
  <2>3. recordEditor' = Keep(e, i, cache) /\ cache[i].data[i] \in Row /\ i \in Items
    BY <1>1, <2>1, <2>2 DEF Items
  <2>5. /\ Keep(e, i, cache) \in EditorRecords /\ Keep(e, i, cache).item = i
        /\ Keep(e, i, cache).base.at = cache[i].data[i].at
    <3>1. i \in Items
      BY <2>3
    <3>2. PICK copy \in Row : copy = cache[i].data[i]
      BY <2>3
    <3> QED
      BY <3>1, <3>2, KeepTyped
  <2>4. /\ recordEditor' \in EditorRecords /\ recordEditor'.item = i
        /\ recordEditor'.base.at = cache[i].data[i].at
    BY <2>3, <2>5
  <2> QED
    BY <2>1, <2>2, <2>4
<1> QED
  BY <1>1, <1>2, <1>4, <1>5

LEMMA RenderTyped ==
  ASSUME EditorsTyped, CacheTyped', NEW flag, Render(flag)
  PROVE  EditorsTyped'
BY Rendering DEF EditorsTyped

\* The end of a request enables the editor's button again.
LEMMA ReleaseTyped ==
  ASSUME NEW e \in EditorRecords \cup {Nothing}, NEW s \in Slots
  PROVE  /\ Release(e, s) \in EditorRecords \cup {Nothing}
         /\ Release(e, s) = Nothing <=> e = Nothing
         /\ e # Nothing => /\ Release(e, s) # Nothing
                          /\ Release(e, s).item = e.item /\ Release(e, s).base = e.base
                          /\ Release(e, s).text = e.text /\ Release(e, s).done = e.done
                          /\ Release(e, s).saving = IF e.saving = s THEN 0 ELSE e.saving
<1>1. CASE e = Nothing
  BY <1>1 DEF Release
<1>2. CASE e # Nothing /\ e.saving # s
  BY <1>2 DEF Release
<1>3. CASE e # Nothing /\ e.saving = s
  <2>1. Release(e, s) = [e EXCEPT !.saving = 0] /\ e \in EditorRecords
    BY <1>3 DEF Release
  <2>2. Release(e, s) \in EditorRecords
    BY <2>1 DEF EditorRecords
  <2>3. /\ Release(e, s).item = e.item /\ Release(e, s).base = e.base
        /\ Release(e, s).text = e.text /\ Release(e, s).done = e.done
        /\ Release(e, s).saving = 0
    BY <2>1 DEF EditorRecords
  <2> QED
    BY <1>3, <2>2, <2>3, EditorAssumption
<1> QED
  BY <1>1, <1>2, <1>3

LEMMA SaveTaskEditor ==
  ASSUME EditorsTyped, NEW s \in Slots, SaveTask(s)
  PROVE  EditorsTyped'
<1>1. taskEditor \in EditorRecords /\ taskEditor' = [taskEditor EXCEPT !.saving = s]
  BY DEF SaveTask, EditorsTyped
<1>2. taskEditor' \in EditorRecords /\ taskEditor'.item = taskEditor.item
  BY <1>1 DEF EditorRecords
<1>3. recordEditor' = recordEditor /\ taskEditor # Nothing
  BY DEF SaveTask
<1> QED
  BY <1>2, <1>3 DEF EditorsTyped

LEMMA SaveRecordEditor ==
  ASSUME EditorsTyped, NEW s \in Slots, SaveRecord(s)
  PROVE  EditorsTyped'
<1>1. recordEditor \in EditorRecords /\ recordEditor' = [recordEditor EXCEPT !.saving = s]
  BY DEF SaveRecord, EditorsTyped
<1>2. recordEditor' \in EditorRecords /\ recordEditor'.item = recordEditor.item
  BY <1>1 DEF EditorRecords
<1>3. taskEditor' = taskEditor /\ recordEditor # Nothing
  BY DEF SaveRecord
<1> QED
  BY <1>2, <1>3 DEF EditorsTyped

\* Typing changes the draft and nothing else of the editor.
LEMMA TypedDraft ==
  ASSUME NEW e \in EditorRecords, LeftTyped
  PROVE  \A f : \/ f = [e EXCEPT !.text = left.edits + 1]
               \/ f = [e EXCEPT !.done = ~@]
               \/ f = Draft(e, e.base.text, e.base.done)
              => /\ f \in EditorRecords /\ f.item = e.item /\ f.base = e.base
                 /\ f.saving = e.saving
<1>1. left.edits + 1 \in Nat /\ e.base \in Row /\ e.base.text \in Nat /\ e.base.done \in BOOLEAN
  BY DEF LeftTyped, EditorRecords, Row
<1>2. ASSUME NEW n \in Nat
      PROVE  LET f == [e EXCEPT !.text = n]
             IN  /\ f \in EditorRecords /\ f.item = e.item /\ f.base = e.base
                 /\ f.saving = e.saving /\ f.done = e.done /\ f.text = n
  BY DEF EditorRecords
<1>3. ASSUME NEW b \in BOOLEAN, NEW g \in EditorRecords
      PROVE  LET f == [g EXCEPT !.done = b]
             IN  /\ f \in EditorRecords /\ f.item = g.item /\ f.base = g.base
                 /\ f.saving = g.saving /\ f.text = g.text /\ f.done = b
  BY DEF EditorRecords
<1>4. ASSUME NEW f, f = [e EXCEPT !.done = ~@]
      PROVE  /\ f \in EditorRecords /\ f.item = e.item /\ f.base = e.base
             /\ f.saving = e.saving
  BY <1>4 DEF EditorRecords
<1>5. ASSUME NEW f, f = Draft(e, e.base.text, e.base.done)
      PROVE  /\ f \in EditorRecords /\ f.item = e.item /\ f.base = e.base
             /\ f.saving = e.saving
  <2> PICK g : g = [e EXCEPT !.text = e.base.text]
    OBVIOUS
  <2>1. /\ g \in EditorRecords /\ g.item = e.item /\ g.base = e.base /\ g.saving = e.saving
    BY <1>1, <1>2
  <2>2. f = [g EXCEPT !.done = e.base.done]
    BY <1>5 DEF Draft
  <2> QED
    BY <1>1, <1>3, <2>1, <2>2
<1>6. ASSUME NEW f, f = [e EXCEPT !.text = left.edits + 1]
      PROVE  /\ f \in EditorRecords /\ f.item = e.item /\ f.base = e.base
             /\ f.saving = e.saving
  BY <1>1, <1>2, <1>6
<1> QED
  BY <1>4, <1>5, <1>6

LEMMA EditorsStayTyped ==
  ASSUME PageTyped, Next
  PROVE  EditorsTyped'
<1> EditorsTyped /\ RequestsTyped /\ LeftTyped /\ CacheTyped'
  BY CacheStaysTyped DEF PageTyped
<1>1. CASE UNCHANGED editors
  BY <1>1 DEF EditorsTyped, editors
<1>2. ASSUME NEW flag, Render(flag)
      PROVE  EditorsTyped'
  BY <1>2, RenderTyped
<1>3. CASE Moves
  BY <1>2, <1>3 DEF Moves, Select, SelectItem, ClearSelection, ToggleInspector, Navigate
<1>4. CASE TypeTask
  <2>1. taskEditor \in EditorRecords
    BY <1>4 DEF TypeTask, EditorsTyped
  <2>2. taskEditor' \in EditorRecords /\ taskEditor'.item = taskEditor.item
    BY <1>4, <2>1, TypedDraft DEF TypeTask
  <2> QED
    BY <1>4, <2>2 DEF TypeTask, EditorsTyped
<1>5. CASE TypeRecord
  <2>1. recordEditor \in EditorRecords
    BY <1>5 DEF TypeRecord, EditorsTyped
  <2>2. recordEditor' \in EditorRecords /\ recordEditor'.item = recordEditor.item
    BY <1>5, <2>1, TypedDraft DEF TypeRecord
  <2> QED
    BY <1>5, <2>2 DEF TypeRecord, EditorsTyped
<1>6. ASSUME NEW s \in Slots, Sends(s)
      PROVE  EditorsTyped'
  BY <1>1, <1>6, SaveTaskEditor, SaveRecordEditor
     DEF Sends, Undo, TrashTask, DropRecord, ToggleRow, CreateTask
<1>7. ASSUME NEW s \in Slots, taskEditor' = Release(taskEditor, s),
             recordEditor' = Release(recordEditor, s)
      PROVE  EditorsTyped'
  BY <1>7, ReleaseTyped DEF EditorsTyped
<1>8. ASSUME NEW s \in Slots, ReadTask(s) \/ WriteTask(s) \/ WriteOther(s)
                              \/ RequestFails(s) \/ NextKey(s)
      PROVE  EditorsTyped'
  BY <1>1, <1>7, <1>8, WriteOtherCases DEF ReadTask, WriteTask, Wrote, Refused, RequestFails,
     NextKey
<1>9. ASSUME NEW s \in Slots, Answered(s)
      PROVE  EditorsTyped'
  BY <1>2, <1>7, <1>9, AnsweredCases DEF Refused
<1>10. ASSUME NEW s \in Slots, Settle(s)
       PROVE  EditorsTyped'
  BY <1>1, <1>2, <1>7, <1>10, SettleCases DEF ToastShown, DraftSaved, CreatedShown,
     SelectItem, TrashedLeft, DroppedLeft
<1>11. ASSUME NEW q \in Queries,
              Retry(q) \/ Reads(q) \/ FetchDelivers(q) \/ FetchFails(q)
       PROVE  EditorsTyped'
  BY <1>1, <1>2, <1>11, ReadFrame DEF Retry, FetchDelivers, FetchFails, Fetched
<1>12. CASE UndoExpires
  BY <1>1, <1>12 DEF UndoExpires
<1> QED
  BY <1>3, <1>4, <1>5, <1>6, <1>8, <1>9, <1>10, <1>11, <1>12, NextCases

LEMMA UndoStaysTyped ==
  ASSUME PageTyped, Next
  PROVE  UndoTyped'
<1> UndoTyped /\ RequestsTyped
  BY DEF PageTyped
<1>1. CASE UNCHANGED undo \/ undo' = Nothing
  BY <1>1 DEF UndoTyped
<1>2. CASE Moves
  BY <1>1, <1>2 DEF Moves, Select, ClearSelection, ToggleInspector, Navigate
<1>3. CASE TypeTask \/ TypeRecord \/ UndoExpires
  BY <1>1, <1>3 DEF TypeTask, TypeRecord, UndoExpires
<1>4. ASSUME NEW s \in Slots, Sends(s)
      PROVE  UndoTyped'
  BY <1>1, <1>4 DEF Sends, SaveTask, Undo, TrashTask, SaveRecord, DropRecord, ToggleRow,
     CreateTask
<1>5. ASSUME NEW s \in Slots, ReadTask(s) \/ WriteTask(s) \/ WriteOther(s)
                              \/ RequestFails(s) \/ NextKey(s) \/ Answered(s)
      PROVE  UndoTyped'
  BY <1>1, <1>5, WriteOtherCases, AnsweredCases DEF ReadTask, WriteTask, Wrote, Refused,
     RequestFails, NextKey
<1>6. ASSUME NEW s \in Slots, Settle(s)
      PROVE  UndoTyped'
  <2>1. CASE ToastShown(s)
    <3>1. request[s].item \in Tasks /\ request[s].copy \in Row
      BY <2>1 DEF ToastShown, RequestsTyped, Formed
    <3> QED
      BY <2>1, <3>1 DEF ToastShown, UndoTyped
  <2>2. CASE ~ToastShown(s)
    BY <1>1, <1>6, <2>2, SettleCases DEF DraftSaved, CreatedShown, TrashedLeft, DroppedLeft
  <2> QED
    BY <2>1, <2>2
<1>7. ASSUME NEW q \in Queries,
             Retry(q) \/ Reads(q) \/ FetchDelivers(q) \/ FetchFails(q)
      PROVE  UndoTyped'
  BY <1>1, <1>7, ReadFrame DEF Retry, FetchDelivers, FetchFails, Fetched
<1> QED
  BY <1>2, <1>3, <1>4, <1>5, <1>6, <1>7, NextCases

LEMMA SpendTyped ==
  ASSUME LeftTyped, NEW k \in {"edits", "sent", "failures", "clicks"}, Spend(k)
  PROVE  LeftTyped'
BY DEF LeftTyped, Spend

LEMMA LeftStaysTyped ==
  ASSUME PageTyped, Next
  PROVE  LeftTyped'
<1> LeftTyped /\ RequestsTyped
  BY DEF PageTyped
<1>1. CASE UNCHANGED left
  BY <1>1 DEF LeftTyped
<1>2. CASE Spend("edits") \/ Spend("sent") \/ Spend("failures") \/ Spend("clicks")
  BY <1>2, SpendTyped
<1>3. CASE Moves
  BY <1>2, <1>3 DEF Moves, Select, ClearSelection, ToggleInspector, Navigate
<1>4. CASE TypeTask \/ TypeRecord \/ UndoExpires
  BY <1>1, <1>2, <1>4 DEF TypeTask, TypeRecord, UndoExpires
<1>5. ASSUME NEW s \in Slots, Sends(s)
      PROVE  LeftTyped'
  BY <1>2, <1>5 DEF Sends, SaveTask, Undo, TrashTask, SaveRecord, DropRecord, ToggleRow,
     CreateTask, Send
<1>6. ASSUME NEW s \in Slots, ReadTask(s) \/ WriteTask(s) \/ WriteOther(s)
                              \/ RequestFails(s) \/ NextKey(s) \/ Answered(s) \/ Settle(s)
      PROVE  LeftTyped'
  BY <1>1, <1>2, <1>6, WriteOtherCases, AnsweredCases, SettleCases DEF ReadTask, WriteTask,
     Wrote, RequestFails, NextKey
<1>7. ASSUME NEW q \in Queries,
             Retry(q) \/ Reads(q) \/ FetchDelivers(q) \/ FetchFails(q)
      PROVE  LeftTyped'
  BY <1>1, <1>2, <1>7, ReadFrame DEF Retry, FetchDelivers, FetchFails
<1> QED
  BY <1>3, <1>4, <1>5, <1>6, <1>7, NextCases

LEMMA InitTyped == Init => PageTyped
<1> SUFFICES ASSUME Init PROVE PageTyped
  OBVIOUS
<1>1. RowsTyped
  BY DEF Init, RowsTyped, Row
<1>2. CacheTyped
  <2>1. ASSUME NEW q \in Queries
        PROVE  entry[q] \in CacheEntry(q)
    <3>1. Answer(q) \in Copies(q) /\ Nothing \in Copies(q)
      BY <1>1, AnswerTyped DEF Copies
    <3>2. NoEntry \in CacheEntry(q)
      BY <3>1 DEF NoEntry, CacheEntry, CacheRecord
    <3>3. [NoEntry EXCEPT !.data = Answer(q)] \in CacheEntry(q)
      BY <3>1, <3>2 DEF CacheEntry, CacheRecord
    <3> QED
      BY <3>2, <3>3 DEF Init
  <2> QED
    BY <2>1 DEF Init, CacheTyped
<1>3. RequestsTyped
  BY IdleFormed DEF Init, RequestsTyped
<1>4. LayoutTyped
  BY DEF Init, LayoutTyped
<1>5. EditorsTyped
  <2> PICK none \in EditorRecords \cup {Nothing} : none = Nothing
    OBVIOUS
  <2> PICK cache : cache = entry
    OBVIOUS
  <2>1. taskEditor = Keep(none, EditedTask, cache) /\ recordEditor = Keep(none, EditedRecord, cache)
    BY DEF Init
  <2>2. Keep(none, Nothing, cache) = Nothing
    BY DEF Keep
  <2>3. ASSUME NEW i \in Items, Usable(i)
        PROVE  Keep(none, i, cache) \in EditorRecords /\ Keep(none, i, cache).item = i
    <3>1. i # Nothing
      BY PageAssumption DEF Items
    <3>2. Keep(Nothing, i, cache) = Editor(i, cache[i].data[i])
      BY <3>1 DEF Keep
    <3>3. cache[i].data[i] \in Row
      BY <1>2, <2>3, EditedCopy
    <3> QED
      BY <3>2, <3>3, FreshEditor
  <2>5. EditedTask # Nothing => EditedTask \in Tasks /\ EditedTask \in Items /\ Usable(EditedTask)
    BY EditedForms DEF Items
  <2>6. EditedRecord # Nothing => EditedRecord = Record /\ EditedRecord \in Items /\ Usable(Record)
    BY EditedForms DEF Items
  <2>7. /\ taskEditor \in EditorRecords \cup {Nothing}
        /\ taskEditor # Nothing => taskEditor.item \in Tasks
    BY <2>1, <2>2, <2>3, <2>5
  <2>8. /\ recordEditor \in EditorRecords \cup {Nothing}
        /\ recordEditor # Nothing => recordEditor.item = Record
    BY <2>1, <2>2, <2>3, <2>6
  <2> QED
    BY <2>7, <2>8 DEF EditorsTyped
<1>6. UndoTyped /\ LeftTyped
  BY PageAssumption DEF Init, UndoTyped, LeftTyped
<1> QED
  BY <1>1, <1>2, <1>3, <1>4, <1>5, <1>6 DEF PageTyped

LEMMA TypesStay ==
  ASSUME PageTyped, [Next]_vars
  PROVE  PageTyped'
<1>1. CASE Next
  BY <1>1, RowsStayTyped, CacheStaysTyped, RequestsStayTyped, LayoutStaysTyped,
     EditorsStayTyped, UndoStaysTyped, LeftStaysTyped DEF PageTyped
<1>2. CASE UNCHANGED vars
  BY <1>2 DEF vars, rows, layout, editors, PageTyped, RowsTyped, CacheTyped, RequestsTyped,
     LayoutTyped, EditorsTyped, UndoTyped, LeftTyped
<1> QED
  BY <1>1, <1>2

-----------------------------------------------------------------------------
(* Coherence of the cache.  What a mounted query shows, and what a fetch   *)
(* that has its answer will make it show, agrees with the service on every *)
(* row, or the mutation that changed the row still has to invalidate the   *)
(* query.  Late queries are excepted.                                      *)

\* The service answers to q with row i.
Belongs(q, i) ==
  /\ row[i].live
  /\ IF q \in Items THEN i = q
     ELSE i \in Tasks /\ (IF q = "linked" THEN i \in Linked ELSE ~row[i].done)

\* A copy agrees with the service on row i; the record's task list may keep a
\* row that was deleted.
Agrees(q, copy, i) ==
  IF Belongs(q, i) THEN i \in DOMAIN copy /\ copy[i] = row[i]
  ELSE i \in DOMAIN copy => q = "linked" /\ ~row[i].live

\* The mutation of row i still has to invalidate q.  The answer to one whose
\* row is gone is an error and invalidates nothing: whoever deleted it owes.
Owes(s, q, i) ==
  LET r == request[s]
      keys == Invalidates(r.kind)
  IN  /\ r.item = i
      /\ r.phase \in {"applied", "refresh"}
      /\ (r.phase = "applied" /\ r.kind \in {"create", "update", "save"}) => row[i].live
      /\ \E k \in DOMAIN keys : q \in keys[k] /\ (r.phase = "refresh" => k > r.stage)

Shows(q, copy) == \A i \in Items : Agrees(q, copy, i) \/ \E s \in Slots : Owes(s, q, i)

\* The same of the list of the record's tasks that a fetch has read first: it
\* has every task of its status, and no other but deleted ones.
AgreesHalf(copy, done, i) ==
  IF Belongs("linked", i) /\ row[i].done = done THEN i \in DOMAIN copy /\ copy[i] = row[i]
  ELSE i \in DOMAIN copy => ~row[i].live
ShowsHalf(copy, done) ==
  \A i \in Items : AgreesHalf(copy, done, i) \/ \E s \in Slots : Owes(s, "linked", i)

Fresh(q) ==
  ~entry[q].late =>
    /\ \A done \in BOOLEAN : entry[q].fetch = Half(done) => ShowsHalf(entry[q].answer, done)
    /\ (IsMounted(q) /\ entry[q].fetch = "idle" /\ Usable(q)) => Shows(q, entry[q].data)
    /\ (entry[q].fetch = "answered" /\ entry[q].answer # Nothing) => Shows(q, entry[q].answer)

Coherent == \A q \in Queries : Fresh(q)

\* No step but the end of a write takes a debt away before it is paid.
DebtsStay == \A s \in Slots, q \in Queries, i \in Items : Owes(s, q, i) => Owes(s, q, i)'

\* The service's answer agrees with the service, and a copy that agrees on
\* every row is the answer.
LEMMA AnswerAgrees ==
  ASSUME RowsTyped, NEW q \in Queries, Answer(q) # Nothing, NEW i \in Items
  PROVE  Agrees(q, Answer(q), i)
<1>1. CASE q \in Items
  <2>1. row[q].live /\ Answer(q) = [j \in {q} |-> row[q]]
    BY <1>1 DEF Answer
  <2> QED
    BY <1>1, <2>1 DEF Agrees, Belongs
<1>2. CASE q \notin Items
  <2> DEFINE shown == {t \in Tasks : /\ row[t].live
                                     /\ q = "linked" => t \in Linked
                                     /\ q # "linked" => ~row[t].done}
  <2>1. Answer(q) = [t \in shown |-> row[t]]
    BY <1>2 DEF Answer
  <2>2. i \in shown <=> Belongs(q, i)
    BY <1>2 DEF Belongs
  <2> HIDE DEF shown
  <2>3. Belongs(q, i) => i \in DOMAIN Answer(q) /\ Answer(q)[i] = row[i]
    BY <2>1, <2>2
  <2>4. ~Belongs(q, i) => i \notin DOMAIN Answer(q)
    BY <2>1, <2>2
  <2> QED
    BY <2>3, <2>4 DEF Agrees
<1> QED
  BY <1>1, <1>2

LEMMA AgreesIsAnswer ==
  ASSUME RowsTyped, NEW q \in Queries, NEW copy \in Copies(q), copy # Nothing,
         \A i \in Items : Agrees(q, copy, i)
  PROVE  /\ q # "linked" => copy = Answer(q)
         /\ q = "linked" => /\ DOMAIN Answer(q) \subseteq DOMAIN copy
                           /\ \A t \in DOMAIN copy : row[t].live =>
                                t \in DOMAIN Answer(q) /\ copy[t] = Answer(q)[t]
<1>1. CASE q \in Items
  <2>1. copy \in [{q} -> Row]
    BY <1>1, ItemCopy
  <2>2. Agrees(q, copy, q)
    BY <1>1
  <2>3. row[q].live /\ copy[q] = row[q]
    BY <1>1, <2>1, <2>2, PageAssumption DEF Agrees, Belongs, Items
  <2>4. Answer(q) = [j \in {q} |-> row[q]] /\ copy = [j \in {q} |-> row[q]]
    BY <1>1, <2>1, <2>3 DEF Answer
  <2> QED
    BY <1>1, <2>4, PageAssumption DEF Items
<1>2. CASE q \notin Items
  <2> DEFINE shown == {t \in Tasks : /\ row[t].live
                                     /\ q = "linked" => t \in Linked
                                     /\ q # "linked" => ~row[t].done}
  <2>1. Answer(q) = [t \in shown |-> row[t]]
    BY <1>2 DEF Answer
  <2>2. PICK S \in SUBSET Tasks : copy \in [S -> Row]
    BY <1>2, ListCopy
  <2>3. ASSUME NEW t \in Tasks
        PROVE  t \in Items /\ (t \in shown <=> Belongs(q, t))
    BY <1>2 DEF Belongs, Items
  <2>4. shown \subseteq Tasks
    OBVIOUS
  <2> HIDE DEF shown
  <2>5. ASSUME NEW t \in shown
        PROVE  t \in S /\ copy[t] = row[t]
    BY <2>2, <2>3, <2>4 DEF Agrees
  <2>6. CASE q # "linked"
    <3>1. S = shown
      BY <2>2, <2>3, <2>4, <2>5, <2>6 DEF Agrees
    <3>2. copy = [t \in shown |-> row[t]]
      BY <2>2, <2>5, <3>1
    <3> QED
      BY <2>1, <2>6, <3>2
  <2>7. CASE q = "linked"
    <3>1. ASSUME NEW t \in S, row[t].live
          PROVE  t \in shown
      BY <2>2, <2>3, <3>1 DEF Agrees
    <3> QED
      BY <2>1, <2>2, <2>5, <2>7, <3>1
  <2> QED
    BY <2>6, <2>7
<1> QED
  BY <1>1, <1>2

\* Requests without debts: those that are not applied, those that have no
\* key left, and those whose answer will be an error.
LEMMA NoDebt ==
  ASSUME RequestsTyped, NEW s \in Slots, NEW q \in Queries, NEW i \in Items,
         \/ request[s].phase \notin {"applied", "refresh"}
         \/ /\ request[s].phase = "refresh"
            /\ request[s].stage = Len(Invalidates(request[s].kind))
         \/ /\ request[s].phase = "applied"
            /\ request[s].kind \in {"create", "update", "save"}
            /\ ~row[request[s].item].live
  PROVE  ~Owes(s, q, i)
<1>1. CASE request[s].phase \notin {"applied", "refresh"}
  BY <1>1 DEF Owes
<1>2. CASE /\ request[s].phase = "refresh"
           /\ request[s].stage = Len(Invalidates(request[s].kind))
  <2> PICK keys : keys = Invalidates(request[s].kind)
    OBVIOUS
  <2>1. request[s].phase # "idle"
    BY <1>2
  <2>2. Len(keys) \in Nat /\ DOMAIN keys = 1..Len(keys)
    BY <2>1, KeysOf
  <2>3. ~\E k \in DOMAIN keys : k > request[s].stage
    BY <1>2, <2>2
  <2> QED
    BY <1>2, <2>3 DEF Owes
<1>3. CASE /\ request[s].phase = "applied"
           /\ request[s].kind \in {"create", "update", "save"}
           /\ ~row[request[s].item].live
  BY <1>3 DEF Owes
<1> QED
  BY <1>1, <1>2, <1>3

\* A request keeps its debt while its kind, item, phase and stage stay and
\* no row changes.
LEMMA DebtKept ==
  ASSUME NEW s \in Slots, NEW q \in Queries, NEW i \in Items, row' = row,
         request'[s].kind = request[s].kind, request'[s].item = request[s].item,
         request'[s].phase = request[s].phase, request'[s].stage = request[s].stage
  PROVE  Owes(s, q, i) => Owes(s, q, i)'
BY DEF Owes

LEMMA SendsDebts ==
  ASSUME PageTyped, NEW s \in Slots, Sends(s)
  PROVE  DebtsStay
<1> RequestsTyped
  BY DEF PageTyped
<1>1. /\ request[s].phase = "idle"
      /\ \A r \in Slots : r # s => request'[r] = [request[r] EXCEPT !.quiet = FALSE]
  BY DEF Sends, SaveTask, Undo, TrashTask, SaveRecord, DropRecord, ToggleRow, CreateTask, Send
<1>2. row' = row
  BY DEF Sends, SaveTask, Undo, TrashTask, SaveRecord, DropRecord, ToggleRow, CreateTask, rows
<1>3. ASSUME NEW r \in Slots, NEW q \in Queries, NEW i \in Items, Owes(r, q, i)
      PROVE  Owes(r, q, i)'
  <2>1. CASE r = s
    BY <1>1, <1>3, <2>1, NoDebt
  <2>2. CASE r # s
    <3>1. /\ request'[r].kind = request[r].kind /\ request'[r].item = request[r].item
          /\ request'[r].phase = request[r].phase /\ request'[r].stage = request[r].stage
      BY <1>1, <2>2 DEF RequestsTyped, Request
    <3> QED
      BY <1>2, <1>3, <3>1, DebtKept
  <2> QED
    BY <2>1, <2>2
<1> QED
  BY <1>3 DEF DebtsStay

\* One request changes that had no debts.
LEMMA OtherDebts ==
  ASSUME RequestsTyped, NEW s \in Slots, NEW new, request' = [request EXCEPT ![s] = new],
         row' = row, \A q \in Queries, i \in Items : ~Owes(s, q, i)
  PROVE  DebtsStay
<1>1. ASSUME NEW r \in Slots, NEW q \in Queries, NEW i \in Items, Owes(r, q, i)
      PROVE  Owes(r, q, i)'
  <2>1. r # s
    BY <1>1
  <2>2. request'[r] = request[r]
    BY <2>1 DEF RequestsTyped
  <2> QED
    BY <1>1, <2>2, DebtKept
<1> QED
  BY <1>1 DEF DebtsStay

\* A request that does not owe is refused.
LEMMA RefusedDebts ==
  ASSUME RequestsTyped, NEW s \in Slots, Refused(s),
         \A q \in Queries, i \in Items : ~Owes(s, q, i)
  PROVE  DebtsStay
BY OtherDebts DEF Refused, rows

LEMMA ReadDebts ==
  ASSUME RequestsTyped, NEW s \in Slots, ReadTask(s)
  PROVE  DebtsStay
<1>1. request[s].phase = "sent"
  BY DEF ReadTask
<1>2. \A q \in Queries, i \in Items : ~Owes(s, q, i)
  BY <1>1, NoDebt
<1>3. CASE Refused(s)
  BY <1>2, <1>3, RefusedDebts
<1>4. CASE ~Refused(s)
  <2> DEFINE new == [request[s] EXCEPT !.phase = "read", !.read = row[request[s].item].done]
  <2>1. request' = [request EXCEPT ![s] = new] /\ row' = row
    BY <1>4 DEF ReadTask, rows, RequestsTyped
  <2> HIDE DEF new
  <2> QED
    BY <1>2, <2>1, OtherDebts
<1> QED
  BY <1>3, <1>4

\* Waiting, the caller and the answer of a fetch are no part of a debt.
LEMMA WaitDebts ==
  ASSUME RequestsTyped, row' = row,
         \A s \in Slots : \/ request'[s] = request[s]
                          \/ request'[s] = [request[s] EXCEPT !.from = "gone"]
                          \/ \E W : request'[s] = [request[s] EXCEPT !.waits = W]
  PROVE  DebtsStay
<1>1. ASSUME NEW s \in Slots, NEW q \in Queries, NEW i \in Items, Owes(s, q, i)
      PROVE  Owes(s, q, i)'
  <2>1. request[s] \in Request
    BY DEF RequestsTyped
  <2>2. /\ request'[s].kind = request[s].kind /\ request'[s].item = request[s].item
        /\ request'[s].phase = request[s].phase /\ request'[s].stage = request[s].stage
    <3>1. CASE request'[s] = request[s]
      BY <3>1
    <3>2. CASE request'[s] = [request[s] EXCEPT !.from = "gone"]
      BY <2>1, <3>2 DEF Request
    <3>3. ASSUME NEW W, request'[s] = [request[s] EXCEPT !.waits = W]
          PROVE  /\ request'[s].kind = request[s].kind /\ request'[s].item = request[s].item
                 /\ request'[s].phase = request[s].phase /\ request'[s].stage = request[s].stage
      BY <2>1, <3>3 DEF Request
    <3> QED
      BY <3>1, <3>2, <3>3
  <2> QED
    BY <1>1, <2>2, DebtKept
<1> QED
  BY <1>1 DEF DebtsStay

\* What does not change a query, and does not put it on the screen while it is
\* at rest, keeps it fresh.
LEMMA FreshKept ==
  ASSUME row' = row, NEW q \in Queries, Fresh(q),
         \A s \in Slots, i \in Items : Owes(s, q, i) => Owes(s, q, i)',
         entry'[q].data = entry[q].data, entry'[q].error = entry[q].error,
         entry'[q].fetch = entry[q].fetch, entry'[q].answer = entry[q].answer,
         entry'[q].late = entry[q].late,
         IsMounted(q)' => IsMounted(q) \/ entry[q].fetch # "idle",
         entry[q] \in CacheEntry(q)
  PROVE  Fresh(q)'
<1>1. ASSUME NEW copy, Shows(q, copy)
      PROVE  Shows(q, copy)'
  <2>1. ASSUME NEW i \in Items
        PROVE  (Agrees(q, copy, i) \/ \E s \in Slots : Owes(s, q, i))'
    <3>1. CASE Agrees(q, copy, i)
      <4>1. Belongs(q, i)' <=> Belongs(q, i)
        BY DEF Belongs
      <4> QED
        BY <3>1, <4>1 DEF Agrees
    <3>2. CASE ~Agrees(q, copy, i)
      BY <1>1, <3>2 DEF Shows
    <3> QED
      BY <3>1, <3>2
  <2> QED
    BY <2>1 DEF Shows
<1> PICK data : data = entry[q].data
  OBVIOUS
<1> PICK answer : answer = entry[q].answer
  OBVIOUS
<1>2. entry'[q].data = data /\ entry'[q].answer = answer
  OBVIOUS
<1>3. ASSUME ~entry'[q].late, IsMounted(q)', entry'[q].fetch = "idle", Usable(q)'
      PROVE  Shows(q, entry[q].data)'
  <2>1. Shows(q, data)
    BY <1>3 DEF Fresh, Usable
  <2>2. Shows(q, data)'
    BY <1>1, <2>1
  <2> QED
    BY <1>2, <2>2 DEF Shows, Agrees
<1>4. ASSUME ~entry'[q].late, entry'[q].fetch = "answered", entry'[q].answer # Nothing
      PROVE  Shows(q, entry[q].answer)'
  <2>1. Shows(q, answer)
    BY <1>4 DEF Fresh
  <2>2. Shows(q, answer)'
    BY <1>1, <2>1
  <2> QED
    BY <1>2, <2>2 DEF Shows, Agrees
<1>5. ASSUME NEW done \in BOOLEAN, ~entry'[q].late, entry'[q].fetch = Half(done)
      PROVE  ShowsHalf(entry[q].answer, done)'
  <2>1. ShowsHalf(answer, done)
    BY <1>5 DEF Fresh
  <2>2. q = "linked"
    BY <1>5 DEF Half, CacheEntry
  <2>3. ASSUME NEW i \in Items
        PROVE  (AgreesHalf(answer, done, i) \/ \E s \in Slots : Owes(s, "linked", i))'
    <3>1. CASE AgreesHalf(answer, done, i)
      BY <3>1 DEF AgreesHalf, Belongs
    <3>2. CASE ~AgreesHalf(answer, done, i)
      BY <2>1, <2>2, <3>2 DEF ShowsHalf
    <3> QED
      BY <3>1, <3>2
  <2> QED
    BY <1>2, <2>3 DEF ShowsHalf, AgreesHalf
<1> QED
  BY <1>3, <1>4, <1>5 DEF Fresh

\* A query that is fetched anew, or that is late, is fresh.
LEMMA FreshSent ==
  ASSUME NEW q \in Queries, entry'[q].fetch = "sent" \/ entry'[q].late
  PROVE  Fresh(q)'
BY DEF Fresh, Half

LEMMA MountFresh ==
  ASSUME CacheTyped, Coherent, Mount(entry), row' = row, DebtsStay
  PROVE  Coherent'
<1>1. ASSUME NEW q \in Queries
      PROVE  Fresh(q)'
  <2>1. entry[q] \in CacheEntry(q) /\ Fresh(q)
    BY DEF CacheTyped, Coherent
  <2>2. CASE ~IsMounted(q) /\ IsMounted(q)' /\ entry[q].fetch = "idle"
    <3>1. entry'[q] = [entry[q] EXCEPT !.fetch = "sent", !.late = FALSE]
      BY <2>2 DEF Mount, IsMounted
    <3>2. entry'[q].fetch = "sent"
      BY <2>1, <3>1 DEF CacheEntry, CacheRecord
    <3> QED
      BY <3>2, FreshSent
  <2>3. CASE ~(~IsMounted(q) /\ IsMounted(q)' /\ entry[q].fetch = "idle")
    <3>1. entry'[q] = entry[q]
      BY <2>3 DEF Mount, IsMounted
    <3> QED
      BY <2>1, <2>3, <3>1, FreshKept DEF DebtsStay
  <2> QED
    BY <2>2, <2>3
<1> QED
  BY <1>1 DEF Coherent

\* Nothing comes to the screen and the cache stays.
LEMMA StillFresh ==
  ASSUME CacheTyped, Coherent, UNCHANGED entry, row' = row, DebtsStay,
         \A q \in Queries : IsMounted(q)' => IsMounted(q)
  PROVE  Coherent'
<1>1. ASSUME NEW q \in Queries
      PROVE  Fresh(q)'
  BY <1>1, FreshKept DEF Coherent, DebtsStay, CacheTyped
<1> QED
  BY <1>1 DEF Coherent

LEMMA MountedStays ==
  ASSUME \/ UNCHANGED layout
         \/ selection' = Nothing /\ inspectorOpen' = FALSE /\ screen' = screen
  PROVE  \A q \in Queries : IsMounted(q)' => IsMounted(q)
BY DEF layout, IsMounted, Mounted

\* A write of row j: its request owes every query that shows the row, but the
\* record's list after a deletion and the queries of other rows.
LEMMA WriteShows ==
  ASSUME PageTyped, NEW s \in Slots, NEW j \in Items, j = request[s].item, NEW new,
         row' = [row EXCEPT ![j] = new],
         request' = [request EXCEPT ![s].phase = "applied"],
         request[s].phase \notin {"idle", "applied", "refresh"},
         request[s].kind \in {"create", "update", "save"} => new.live,
         request[s].kind \in {"trash", "drop"} => ~new.live,
         NEW q \in Queries, NEW copy \in Copies(q), copy # Nothing, Shows(q, copy)
  PROVE  Shows(q, copy)'
<1> DEFINE kind == request[s].kind
<1>1. RequestsTyped /\ request[s] \in Request /\ Formed(request[s]) /\ row \in [Items -> Row]
  BY DEF PageTyped, RequestsTyped, RowsTyped
<1>2. /\ request'[s].kind = kind /\ request'[s].item = j /\ request'[s].phase = "applied"
      /\ \A r \in Slots : r # s => request'[r] = request[r]
  BY <1>1 DEF Request, RequestsTyped
<1>3. row'[j] = new /\ \A i \in Items : i # j => row'[i] = row[i]
  BY <1>1
<1>4. ASSUME NEW i \in Items, i # j
      PROVE  (Agrees(q, copy, i) \/ \E r \in Slots : Owes(r, q, i))'
  <2>1. CASE Agrees(q, copy, i)
    BY <1>3, <1>4, <2>1 DEF Agrees, Belongs
  <2>2. CASE ~Agrees(q, copy, i)
    <3>1. PICK r \in Slots : Owes(r, q, i)
      BY <2>2 DEF Shows
    <3>2. r # s
      BY <1>1, <3>1, NoDebt
    <3>3. Owes(r, q, i)'
      BY <1>2, <1>3, <1>4, <3>1, <3>2 DEF Owes
    <3> QED
      BY <3>3
  <2> QED
    BY <2>1, <2>2
<1>5. ASSUME NEW k \in DOMAIN Invalidates(kind), q \in Invalidates(kind)[k]
      PROVE  Owes(s, q, j)'
  BY <1>2, <1>3, <1>5 DEF Owes
<1>6. (Agrees(q, copy, j) \/ \E r \in Slots : Owes(r, q, j))'
  <2>1. CASE kind \in {"create", "update"}
    <3>1. j \in Tasks
      BY <1>1, <2>1 DEF Formed
    <3>2. CASE q \in {"list", "board", "linked"} \cup Tasks
      BY <1>5, <2>1, <3>2, InvalidatesTasks
    <3>3. CASE q \notin {"list", "board", "linked"} \cup Tasks
      <4>1. q = Record /\ q \in Items /\ q # j
        BY <3>1, <3>3, PageAssumption DEF Queries, Items
      <4>2. j \notin DOMAIN copy
        BY <4>1, CopyDomain
      <4> QED
        BY <4>1, <4>2 DEF Agrees, Belongs
    <3> QED
      BY <3>2, <3>3
  <2>2. CASE kind = "trash"
    <3>1. j \in Tasks
      BY <1>1, <2>2 DEF Formed
    <3>2. CASE q \in {"list", "board"} \cup Tasks
      BY <1>5, <2>2, <3>2, InvalidatesTrash
    <3>3. CASE q = "linked"
      BY <1>3, <2>2, <3>3 DEF Agrees, Belongs
    <3>4. CASE q \notin {"list", "board", "linked"} \cup Tasks
      <4>1. q = Record /\ q \in Items /\ q # j
        BY <3>1, <3>4, PageAssumption DEF Queries, Items
      <4>2. j \notin DOMAIN copy
        BY <4>1, CopyDomain
      <4> QED
        BY <4>1, <4>2 DEF Agrees, Belongs
    <3> QED
      BY <3>2, <3>3, <3>4
  <2>3. CASE kind \in {"save", "drop"}
    <3>1. j = Record /\ j \notin Tasks
      BY <1>1, <2>3, PageAssumption DEF Formed
    <3>2. CASE q = Record
      BY <1>5, <2>3, <3>2, InvalidatesRecord
    <3>3. CASE q \in Items /\ q # Record
      <4>1. j \notin DOMAIN copy
        BY <3>1, <3>3, CopyDomain
      <4> QED
        BY <3>1, <3>3, <4>1 DEF Agrees, Belongs
    <3>4. CASE q \notin Items
      <4>1. j \notin DOMAIN copy
        BY <3>1, <3>4, CopyDomain
      <4> QED
        BY <3>1, <3>4, <4>1 DEF Agrees, Belongs
    <3> QED
      BY <3>2, <3>3, <3>4
  <2>4. kind \in {"create", "update", "trash", "save", "drop"}
    BY <1>1 DEF Request, Kinds, Formed
  <2> QED
    BY <2>1, <2>2, <2>3, <2>4
<1> QED
  BY <1>4, <1>6 DEF Shows

\* The same of the list that is read first: a deletion owes it nothing.
LEMMA WriteHalf ==
  ASSUME PageTyped, NEW s \in Slots, NEW j \in Items, j = request[s].item, NEW new,
         row' = [row EXCEPT ![j] = new],
         request' = [request EXCEPT ![s].phase = "applied"],
         request[s].phase \notin {"idle", "applied", "refresh"},
         request[s].kind \in {"create", "update", "save"} => new.live,
         request[s].kind \in {"trash", "drop"} => ~new.live,
         NEW copy \in Lists, NEW done \in BOOLEAN, ShowsHalf(copy, done)
  PROVE  ShowsHalf(copy, done)'
<1> DEFINE kind == request[s].kind
<1>1. RequestsTyped /\ request[s] \in Request /\ Formed(request[s]) /\ row \in [Items -> Row]
  BY DEF PageTyped, RequestsTyped, RowsTyped
<1>2. /\ request'[s].kind = kind /\ request'[s].item = j /\ request'[s].phase = "applied"
      /\ \A r \in Slots : r # s => request'[r] = request[r]
  BY <1>1 DEF Request, RequestsTyped
<1>3. row'[j] = new /\ \A i \in Items : i # j => row'[i] = row[i]
  BY <1>1
<1>4. ASSUME NEW i \in Items, i # j
      PROVE  (AgreesHalf(copy, done, i) \/ \E r \in Slots : Owes(r, "linked", i))'
  <2>1. CASE AgreesHalf(copy, done, i)
    BY <1>3, <1>4, <2>1 DEF AgreesHalf, Belongs
  <2>2. CASE ~AgreesHalf(copy, done, i)
    <3>1. PICK r \in Slots : Owes(r, "linked", i)
      BY <2>2 DEF ShowsHalf
    <3>2. r # s
      BY <1>1, <3>1, NoDebt DEF Queries
    <3>3. Owes(r, "linked", i)'
      BY <1>2, <1>3, <1>4, <3>1, <3>2 DEF Owes
    <3> QED
      BY <3>3
  <2> QED
    BY <2>1, <2>2
<1>5. (AgreesHalf(copy, done, j) \/ \E r \in Slots : Owes(r, "linked", j))'
  <2>1. CASE kind \in {"create", "update"}
    <3>1. 3 \in DOMAIN Invalidates(kind) /\ "linked" \in Invalidates(kind)[3]
      BY <2>1, InvalidatesTasks
    <3>2. Owes(s, "linked", j)'
      BY <1>2, <1>3, <2>1, <3>1 DEF Owes
    <3> QED
      BY <3>2
  <2>2. CASE kind = "trash"
    BY <1>3, <2>2 DEF AgreesHalf, Belongs
  <2>3. CASE kind \in {"save", "drop"}
    <3>1. j = Record /\ j \notin Tasks
      BY <1>1, <2>3, PageAssumption DEF Formed
    <3>2. j \notin DOMAIN copy
      BY <3>1 DEF Lists
    <3>3. "linked" \notin Items
      BY PageAssumption DEF Items
    <3> QED
      BY <3>1, <3>2, <3>3 DEF AgreesHalf, Belongs
  <2>4. kind \in {"create", "update", "trash", "save", "drop"}
    BY <1>1 DEF Request, Kinds, Formed
  <2> QED
    BY <2>1, <2>2, <2>3, <2>4
<1> QED
  BY <1>4, <1>5 DEF ShowsHalf

LEMMA WriteFresh ==
  ASSUME PageTyped, Coherent, NEW s \in Slots, NEW j \in Items, j = request[s].item, NEW new,
         row' = [row EXCEPT ![j] = new],
         request' = [request EXCEPT ![s].phase = "applied"],
         request[s].phase \notin {"idle", "applied", "refresh"},
         request[s].kind \in {"create", "update", "save"} => new.live,
         request[s].kind \in {"trash", "drop"} => ~new.live,
         UNCHANGED <<entry, layout>>
  PROVE  Coherent'
<1>1. ASSUME NEW q \in Queries
      PROVE  Fresh(q)'
  <2> PICK data : data = entry[q].data
    OBVIOUS
  <2> PICK answer : answer = entry[q].answer
    OBVIOUS
  <2>1. Fresh(q) /\ data \in Copies(q) /\ answer \in Copies(q)
    BY DEF Coherent, PageTyped, CacheTyped, CacheEntry, CacheRecord
  <2>2. Shows(q, data) /\ data # Nothing => Shows(q, data)'
    BY <2>1, WriteShows
  <2>3. Shows(q, answer) /\ answer # Nothing => Shows(q, answer)'
    BY <2>1, WriteShows
  <2>4. IsMounted(q)' => IsMounted(q)
    BY MountedStays
  <2>5. Shows(q, data)' => Shows(q, entry[q].data)'
    BY DEF Shows, Agrees
  <2>6. Shows(q, answer)' => Shows(q, entry[q].answer)'
    BY DEF Shows, Agrees
  <2>7. entry'[q] = entry[q] /\ entry[q].data = data /\ entry[q].answer = answer
    OBVIOUS
  <2>8. ASSUME ~entry'[q].late, IsMounted(q)', entry'[q].fetch = "idle", Usable(q)'
        PROVE  Shows(q, entry[q].data)'
    <3>1. Usable(q) /\ IsMounted(q) /\ data # Nothing
      BY <2>4, <2>7, <2>8 DEF Usable
    <3>2. Shows(q, data)
      BY <2>1, <2>7, <2>8, <3>1 DEF Fresh
    <3> QED
      BY <2>2, <2>5, <3>1, <3>2
  <2>9. ASSUME ~entry'[q].late, entry'[q].fetch = "answered", entry'[q].answer # Nothing
        PROVE  Shows(q, entry[q].answer)'
    <3>1. Shows(q, answer) /\ answer # Nothing
      BY <2>1, <2>7, <2>9 DEF Fresh
    <3> QED
      BY <2>3, <2>6, <3>1
  <2>10. ASSUME NEW done \in BOOLEAN, ~entry'[q].late, entry'[q].fetch = Half(done)
         PROVE  ShowsHalf(entry[q].answer, done)'
    <3>1. ShowsHalf(answer, done)
      BY <2>1, <2>7, <2>10 DEF Fresh
    <3>2. answer \in Lists
      BY <2>7, <2>10 DEF Half, PageTyped, CacheTyped, CacheEntry
    <3>3. ShowsHalf(answer, done)'
      BY <3>1, <3>2, WriteHalf
    <3> QED
      BY <2>7, <3>3 DEF ShowsHalf, AgreesHalf
  <2> QED
    BY <2>8, <2>9, <2>10 DEF Fresh
<1> QED
  BY <1>1 DEF Coherent

\* An invalidation pays the debts of its keys and leaves the others.
LEMMA InvalidateDebts ==
  ASSUME RequestsTyped, row' = row, NEW s \in Slots, NEW stage \in Nat, NEW K, NEW cache,
         Invalidate(s, K, cache, stage), K = Invalidates(request[s].kind)[stage],
         \/ request[s].phase = "applied" /\ stage = 1
         \/ request[s].phase = "refresh" /\ stage = request[s].stage + 1,
         NEW q \in Queries, q \notin K, NEW r \in Slots, NEW i \in Items, Owes(r, q, i)
  PROVE  Owes(r, q, i)'
<1> PICK shown : shown = {p \in K : IsMounted(p)}
  OBVIOUS
<1> PICK again : again = {p \in shown : cache[p].data # Nothing \/ cache[p].fetch = "idle"}
  OBVIOUS
<1>1. request' = [p \in Slots |->
           IF p = s
           THEN [request[p] EXCEPT !.phase = "refresh", !.stage = stage, !.waits = shown]
           ELSE [request[p] EXCEPT !.waits = @ \ again]]
  BY DEF Invalidate
<1>2. request[r] \in Request /\ Formed(request[r])
  BY DEF RequestsTyped
<1>3. CASE r # s
  <2>1. request'[r] = [request[r] EXCEPT !.waits = @ \ again]
    BY <1>1, <1>3
  <2>2. /\ request'[r].kind = request[r].kind /\ request'[r].item = request[r].item
        /\ request'[r].phase = request[r].phase /\ request'[r].stage = request[r].stage
    BY <1>2, <2>1 DEF Request
  <2> QED
    BY <2>2, DebtKept
<1>4. CASE r = s
  <2>1. request'[r] = [request[r] EXCEPT !.phase = "refresh", !.stage = stage, !.waits = shown]
    BY <1>1, <1>4
  <2>2. /\ request'[r].kind = request[r].kind /\ request'[r].item = request[r].item
        /\ request'[r].phase = "refresh" /\ request'[r].stage = stage
    BY <1>2, <2>1 DEF Request
  <2> PICK keys : keys = Invalidates(request[r].kind)
    OBVIOUS
  <2>3. PICK k \in DOMAIN keys :
          q \in keys[k] /\ (request[r].phase = "refresh" => k > request[r].stage)
    BY DEF Owes
  <2>4. k # stage
    BY <1>4, <2>3
  <2>5. Len(keys) \in Nat /\ DOMAIN keys = 1..Len(keys)
    BY <1>4, KeysOf
  <2>6. k > stage
    BY <1>2, <1>4, <2>3, <2>4, <2>5 DEF Request
  <2> QED
    BY <2>2, <2>3, <2>6 DEF Owes
<1> QED
  BY <1>3, <1>4

LEMMA InvalidateFresh ==
  ASSUME RequestsTyped, CacheTyped, Coherent, row' = row, UNCHANGED layout,
         NEW s \in Slots, NEW stage \in Nat, NEW K, NEW cache,
         Invalidate(s, K, cache, stage), K = Invalidates(request[s].kind)[stage],
         \/ request[s].phase = "applied" /\ stage = 1
         \/ request[s].phase = "refresh" /\ stage = request[s].stage + 1,
         \A q \in Queries : /\ cache[q] \in CacheEntry(q)
                            /\ cache[q].fetch = entry[q].fetch
                            /\ q \notin K => cache[q] = entry[q]
  PROVE  Coherent'
<1>1. ASSUME NEW q \in Queries
      PROVE  Fresh(q)'
  <2> PICK c \in CacheEntry(q) : c = cache[q]
    OBVIOUS
  <2>1. Fresh(q) /\ entry[q] \in CacheEntry(q) /\ c.fetch = entry[q].fetch
    BY DEF Coherent, CacheTyped
  <2>2. IsMounted(q)' => IsMounted(q)
    BY MountedStays
  <2> DEFINE again == q \in K /\ IsMounted(q) /\ (c.data # Nothing \/ c.fetch = "idle")
  <2>3. CASE again
    <3>1. entry'[q] = [c EXCEPT !.fetch = "sent", !.answer = Nothing, !.late = FALSE]
      BY <2>3 DEF Invalidate
    <3>2. entry'[q].fetch = "sent"
      BY <3>1 DEF CacheEntry, CacheRecord
    <3> QED
      BY <3>2, FreshSent
  <2>4. CASE ~again
    <3>1. entry'[q] = [c EXCEPT !.late = @ \/ (q \in K /\ c.fetch \notin {"idle", "sent"})]
      BY <2>4 DEF Invalidate
    <3>2. /\ entry'[q].data = c.data /\ entry'[q].error = c.error
          /\ entry'[q].fetch = c.fetch /\ entry'[q].answer = c.answer
          /\ entry'[q].late = (c.late \/ (q \in K /\ c.fetch \notin {"idle", "sent"}))
      BY <3>1 DEF CacheEntry, CacheRecord
    <3>3. CASE q \in K
      <4>1. CASE c.fetch # "idle"
        BY <3>2, <3>3, <4>1, FreshSent
      <4>2. CASE c.fetch = "idle"
        BY <2>2, <2>4, <3>2, <3>3, <4>2 DEF Fresh, Half
      <4> QED
        BY <4>1, <4>2
    <3>4. CASE q \notin K
      <4>1. c = entry[q] /\ c.late \in BOOLEAN
        BY <3>4 DEF CacheEntry, CacheRecord
      <4>2. entry'[q].late = entry[q].late
        BY <3>2, <3>4, <4>1
      <4>3. \A r \in Slots, i \in Items : Owes(r, q, i) => Owes(r, q, i)'
        BY <3>4, InvalidateDebts
      <4> QED
        BY <2>1, <2>2, <3>2, <4>1, <4>2, <4>3, FreshKept
    <3> QED
      BY <3>3, <3>4
  <2> QED
    BY <2>3, <2>4
<1> QED
  BY <1>1 DEF Coherent

\* A fetch of q answers, ends or begins; the other queries stay.
LEMMA FetchFresh ==
  ASSUME RowsTyped, CacheTyped, Coherent, UNCHANGED <<rows, layout>>, DebtsStay,
         NEW q \in Queries,
         \A p \in Queries : p # q => entry'[p] = entry[p],
         Fresh(q)'
  PROVE  Coherent'
<1>1. ASSUME NEW p \in Queries, p # q
      PROVE  Fresh(p)'
  <2>1. IsMounted(p)' => IsMounted(p)
    BY MountedStays
  <2>2. Fresh(p) /\ entry'[p] = entry[p] /\ row' = row
    BY <1>1 DEF Coherent, rows
  <2> QED
    BY <2>1, <2>2, FreshKept DEF DebtsStay, CacheTyped
<1> QED
  BY <1>1 DEF Coherent

\* What is read agrees with the service: the whole answer, the first list, and
\* both lists when the first still agrees.
LEMMA ReadFresh ==
  ASSUME RowsTyped, CacheTyped, NEW q \in Queries, Fresh(q), Reads(q), row' = row, DebtsStay
  PROVE  Fresh(q)'
<1>1. entry[q] \in CacheEntry(q)
  BY DEF CacheTyped
<1>2. ASSUME NEW answer, entry'[q].fetch = "answered", entry'[q].answer = answer,
             \A i \in Items : Agrees(q, answer, i) \/ \E s \in Slots : Owes(s, q, i)
      PROVE  Fresh(q)'
  <2>1. ASSUME NEW i \in Items
        PROVE  (Agrees(q, answer, i) \/ \E s \in Slots : Owes(s, q, i))'
    BY <1>2 DEF Agrees, Belongs, DebtsStay
  <2>2. Shows(q, answer)'
    BY <2>1 DEF Shows
  <2>3. Shows(q, answer)' => Shows(q, entry[q].answer)'
    BY <1>2 DEF Shows, Agrees
  <2> QED
    BY <1>2, <2>2, <2>3 DEF Fresh, Half
<1>3. CASE FetchAnswer(q)
  <2> PICK answer : answer = Answer(q)
    OBVIOUS
  <2>1. entry'[q].fetch = "answered" /\ entry'[q].answer = answer
    BY <1>1, <1>3 DEF FetchAnswer, CacheTyped, CacheEntry, CacheRecord
  <2>2. CASE answer # Nothing
    BY <1>2, <2>1, <2>2, AnswerAgrees
  <2>3. CASE answer = Nothing
    BY <2>1, <2>3 DEF Fresh, Half
  <2> QED
    BY <2>2, <2>3
<1>4. ASSUME q = "linked", NEW done \in BOOLEAN, LinkedBegins(done)
      PROVE  Fresh(q)'
  <2> PICK now \in Lists :
        /\ now = Listed(done)
        /\ \A t : t \in DOMAIN now <=> t \in Linked /\ row[t].live /\ row[t].done = done
        /\ \A t \in DOMAIN now : now[t] = row[t]
    BY ListedTyped
  <2>1. entry'[q].fetch = Half(done) /\ entry'[q].answer = now
    BY <1>1, <1>4 DEF LinkedBegins, CacheTyped, CacheEntry, CacheRecord
  <2>2. "linked" \notin Items /\ Linked \subseteq Tasks
    BY PageAssumption DEF Items
  <2>3. ASSUME NEW i \in Items
        PROVE  AgreesHalf(now, done, i)'
    BY <2>2 DEF AgreesHalf, Belongs
  <2>4. ShowsHalf(entry[q].answer, done)'
    BY <2>1, <2>3 DEF ShowsHalf, AgreesHalf
  <2> QED
    BY <2>1, <2>4 DEF Fresh, Half
<1>5. ASSUME q = "linked", NEW done \in BOOLEAN, LinkedEnds(done)
      PROVE  Fresh(q)'
  <2> PICK now \in Lists :
        /\ now = Listed(done)
        /\ \A t : t \in DOMAIN now <=> t \in Linked /\ row[t].live /\ row[t].done = done
        /\ \A t \in DOMAIN now : now[t] = row[t]
    BY ListedTyped
  <2> PICK old : old = entry[q].answer
    OBVIOUS
  <2> DEFINE both == [t \in DOMAIN now \cup DOMAIN old |->
                        IF t \in DOMAIN now THEN now[t] ELSE old[t]]
  <2>1. entry' = [entry EXCEPT !["linked"].fetch = "answered", !["linked"].answer = both]
    BY <1>5, Zenon DEF LinkedEnds
  <2>2. /\ \A t : t \in DOMAIN both <=> t \in DOMAIN now \/ t \in DOMAIN old
        /\ \A t \in DOMAIN now : both[t] = now[t]
        /\ \A t \in DOMAIN old \ DOMAIN now : both[t] = old[t]
    OBVIOUS
  <2> HIDE DEF both
  <2>3. entry'[q].fetch = "answered" /\ entry'[q].answer = both
        /\ entry'[q].late = entry[q].late
    BY <1>1, <1>5, <2>1 DEF CacheTyped, CacheEntry, CacheRecord
  <2>4. "linked" \notin Items /\ Linked \subseteq Tasks
    BY PageAssumption DEF Items
  <2>5. CASE entry[q].late
    BY <2>3, <2>5, FreshSent
  <2>6. CASE ~entry[q].late
    <3>1. ShowsHalf(old, ~done)
      BY <1>5, <2>6 DEF Fresh, LinkedEnds
    <3>2. ASSUME NEW i \in Items, AgreesHalf(old, ~done, i)
          PROVE  Agrees(q, both, i)
      <4>1. CASE Belongs("linked", i) /\ row[i].done = done
        <5>1. i \in DOMAIN now
          BY <2>4, <4>1 DEF Belongs
        <5> QED
          BY <1>5, <2>2, <4>1, <5>1 DEF Agrees
      <4>2. CASE Belongs("linked", i) /\ row[i].done # done
        <5>1. row[i].done = ~done
          BY <4>2 DEF RowsTyped, Row
        <5>2. i \in DOMAIN old /\ old[i] = row[i] /\ i \notin DOMAIN now
          BY <3>2, <4>2, <5>1 DEF AgreesHalf
        <5> QED
          BY <1>5, <2>2, <4>2, <5>2 DEF Agrees
      <4>3. CASE ~Belongs("linked", i)
        <5>1. i \notin DOMAIN now
          BY <2>4, <4>3 DEF Belongs
        <5>2. i \in DOMAIN old => ~row[i].live
          BY <3>2, <4>3 DEF AgreesHalf
        <5> QED
          BY <1>5, <2>2, <4>3, <5>1, <5>2 DEF Agrees
      <4> QED
        BY <4>1, <4>2, <4>3
    <3>3. \A i \in Items : Agrees(q, both, i) \/ \E s \in Slots : Owes(s, q, i)
      BY <1>5, <3>1, <3>2 DEF ShowsHalf
    <3> QED
      BY <1>2, <2>3, <3>3
  <2> QED
    BY <2>5, <2>6
<1> QED
  BY <1>3, <1>4, <1>5 DEF Reads

LEMMA FetchSteps ==
  ASSUME PageTyped, Coherent, NEW q \in Queries,
         Retry(q) \/ Reads(q) \/ FetchDelivers(q) \/ FetchFails(q)
  PROVE  Coherent'
<1>1. RowsTyped /\ CacheTyped /\ RequestsTyped /\ entry[q] \in CacheEntry(q) /\ Fresh(q)
  BY DEF PageTyped, CacheTyped, Coherent
<1>2. UNCHANGED <<rows, layout>> /\ row' = row
  BY ReadFrame DEF Retry, FetchDelivers, FetchFails, Fetched, rows
<1>3. DebtsStay
  <2>1. \A s \in Slots : \/ request'[s] = request[s]
                         \/ \E W : request'[s] = [request[s] EXCEPT !.waits = W]
    BY ReadFrame DEF Retry, FetchDelivers, FetchFails, Fetched
  <2> QED
    BY <1>1, <1>2, <2>1, WaitDebts
<1>4. \A p \in Queries : p # q => entry'[p] = entry[p]
  BY <1>1, Reading DEF Retry, FetchDelivers, FetchFails, Fetched, CacheTyped
<1>5. CASE Retry(q)
  <2>1. entry'[q].fetch = "sent"
    BY <1>1, <1>5 DEF Retry, CacheTyped, CacheEntry, CacheRecord
  <2> QED
    BY <1>1, <1>2, <1>3, <1>4, <2>1, FreshSent, FetchFresh
<1>6. CASE Reads(q)
  BY <1>1, <1>2, <1>3, <1>4, <1>6, ReadFresh, FetchFresh
<1>7. CASE FetchDelivers(q)
  <2> PICK answer : answer = entry[q].answer
    OBVIOUS
  <2> PICK data : data = IF answer = Nothing THEN entry[q].data ELSE answer
    OBVIOUS
  <2> PICK failed \in BOOLEAN : failed = (answer = Nothing)
    OBVIOUS
  <2> PICK late : late = entry[q].late
    OBVIOUS
  <2>1. entry'[q] = [data |-> data, error |-> failed, fetch |-> "idle", answer |-> Nothing,
                     late |-> late]
    BY <1>1, <1>7 DEF FetchDelivers, Fetched, CacheTyped
  <2>8. /\ entry'[q].fetch = "idle" /\ entry'[q].late = late /\ entry'[q].data = data
        /\ entry'[q].error = failed
    BY <2>1
  <2>2. /\ entry'[q].fetch = "idle" /\ entry'[q].late = entry[q].late
        /\ answer # Nothing => entry'[q].data = answer
        /\ answer = Nothing => entry'[q].error
    BY <2>8
  <2>3. (~entry[q].late /\ answer # Nothing) => Shows(q, answer)
    BY <1>1, <1>7 DEF Fresh, FetchDelivers
  <2>4. Shows(q, answer) => Shows(q, answer)'
    <3>1. \A i \in Items : Agrees(q, answer, i) => Agrees(q, answer, i)'
      BY <1>2 DEF Agrees, Belongs
    <3> QED
      BY <1>3, <3>1 DEF Shows, DebtsStay
  <2>5. ASSUME answer # Nothing
        PROVE  Shows(q, answer)' => Shows(q, entry[q].data)'
    BY <2>2, <2>5 DEF Shows, Agrees
  <2>6. ASSUME ~entry'[q].late, Usable(q)'
        PROVE  Shows(q, entry[q].data)'
    BY <2>2, <2>3, <2>4, <2>5, <2>6 DEF Usable
  <2>7. Fresh(q)'
    BY <2>2, <2>6 DEF Fresh, Half
  <2> QED
    BY <1>1, <1>2, <1>3, <1>4, <2>7, FetchFresh
<1>8. CASE FetchFails(q)
  <2>1. entry'[q] = [data |-> entry[q].data, error |-> TRUE, fetch |-> "idle",
                     answer |-> Nothing, late |-> FALSE]
    BY <1>1, <1>8 DEF FetchFails, Fetched, CacheTyped
  <2>2. Fresh(q)'
    BY <2>1 DEF Fresh, Usable, Half
  <2> QED
    BY <1>1, <1>2, <1>3, <1>4, <2>2, FetchFresh
<1> QED
  BY <1>5, <1>6, <1>7, <1>8

\* What neither touches a row nor a request keeps the debts.
LEMMA QuietDebts ==
  ASSUME UNCHANGED request, row' = row
  PROVE  DebtsStay
BY DebtKept DEF DebtsStay

LEMMA MovesFresh ==
  ASSUME PageTyped, Coherent, Moves
  PROVE  Coherent'
<1>1. RequestsTyped /\ CacheTyped
  BY DEF PageTyped
<1>2. row' = row
  BY DEF Moves, Select, ClearSelection, ToggleInspector, Navigate, rows
<1>3. DebtsStay
  <2>1. \A s \in Slots : \/ request'[s] = request[s]
                         \/ request'[s] = [request[s] EXCEPT !.from = "gone"]
                         \/ \E W : request'[s] = [request[s] EXCEPT !.waits = W]
    BY DEF Moves, Select, ClearSelection, ToggleInspector, Navigate
  <2> QED
    BY <1>1, <1>2, <2>1, WaitDebts
<1>4. CASE Mount(entry)
  BY <1>1, <1>2, <1>3, <1>4, MountFresh
<1>5. CASE ClearSelection
  <2>1. \A q \in Queries : IsMounted(q)' => IsMounted(q)
    BY <1>5, MountedStays DEF ClearSelection
  <2>2. UNCHANGED entry
    BY <1>5 DEF ClearSelection
  <2> QED
    BY <1>1, <1>2, <1>3, <2>1, <2>2, StillFresh
<1>6. CASE ~ClearSelection
  BY <1>4, <1>6 DEF Moves, Select, SelectItem, ToggleInspector, Navigate
<1> QED
  BY <1>5, <1>6

\* Typing, the toast and sending leave the screen and the cache alone.
LEMMA StandsFresh ==
  ASSUME CacheTyped, Coherent, DebtsStay, UNCHANGED <<entry, layout>>, row' = row
  PROVE  Coherent'
<1>1. \A q \in Queries : IsMounted(q)' => IsMounted(q)
  BY MountedStays
<1> QED
  BY <1>1, StillFresh

\* A request that has not been committed goes.
LEMMA RefusedFresh ==
  ASSUME PageTyped, Coherent, NEW s \in Slots, Refused(s),
         \/ request[s].phase \notin {"applied", "refresh"}
         \/ /\ request[s].phase = "applied"
            /\ request[s].kind \in {"create", "update", "save"}
            /\ ~row[request[s].item].live
  PROVE  Coherent'
<1>1. RequestsTyped
  BY DEF PageTyped
<1>2. \A q \in Queries, i \in Items : ~Owes(s, q, i)
  BY <1>1, NoDebt
<1>3. DebtsStay
  BY <1>1, <1>2, RefusedDebts
<1> QED
  BY <1>3, StandsFresh DEF Refused, rows, PageTyped

LEMMA WritesFresh ==
  ASSUME PageTyped, Coherent, NEW s \in Slots, WriteTask(s) \/ WriteOther(s)
  PROVE  Coherent'
<1>1. /\ RequestsTyped /\ request[s] \in Request /\ Formed(request[s])
      /\ row \in [Items -> Row]
  BY DEF PageTyped, RequestsTyped, RowsTyped
<1>2. request[s].phase \in {"sent", "read"}
  BY WriteOtherCases DEF WriteTask
<1>3. CASE Refused(s)
  BY <1>2, <1>3, RefusedFresh
<1>4. CASE WriteTask(s) /\ ~Refused(s)
  <2> PICK j \in Items : j = request[s].item
    BY <1>1, <1>4 DEF WriteTask, Formed, Items
  <2> PICK new : new = Written(row[j], request[s].text, request[s].done, TRUE)
    OBVIOUS
  <2>1. /\ row' = [row EXCEPT ![j] = new] /\ request' = [request EXCEPT ![s].phase = "applied"]
        /\ UNCHANGED <<entry, layout>>
    BY <1>4 DEF WriteTask
  <2>2. new.live
    BY DEF Written
  <2>3. request[s].kind = "update"
    BY <1>4 DEF WriteTask
  <2> QED
    BY <1>2, <2>1, <2>2, <2>3, WriteFresh
<1>5. CASE WriteOther(s) /\ ~Refused(s)
  <2> PICK j \in Items : j = request[s].item
    BY <1>1, <1>5 DEF WriteOther, Formed, Items
  <2>1. row[j] \in Row
    BY <1>1
  <2>2. ASSUME NEW new, Wrote(s, new),
               request[s].kind \in {"create", "update", "save"} => new.live,
               request[s].kind \in {"trash", "drop"} => ~new.live
        PROVE  Coherent'
    <3>1. /\ row' = [row EXCEPT ![j] = new] /\ request' = [request EXCEPT ![s].phase = "applied"]
          /\ UNCHANGED <<entry, layout>>
      BY <2>2 DEF Wrote
    <3> QED
      BY <1>2, <2>2, <3>1, WriteFresh
  <2>3. CASE request[s].kind = "create"
             /\ Wrote(s, [row[j] EXCEPT !.live = TRUE, !.there = TRUE])
    <3> PICK new : new = [row[j] EXCEPT !.live = TRUE, !.there = TRUE]
      OBVIOUS
    <3>1. new.live
      BY <2>1 DEF Row
    <3> QED
      BY <2>2, <2>3, <3>1
  <2>4. CASE request[s].kind = "save"
             /\ Wrote(s, Written(row[j], request[s].text, row[j].done, TRUE))
    <3> PICK new : new = Written(row[j], request[s].text, row[j].done, TRUE)
      OBVIOUS
    <3>1. new.live
      BY DEF Written
    <3> QED
      BY <2>2, <2>4, <3>1
  <2>5. CASE request[s].kind \in {"trash", "drop"}
             /\ Wrote(s, Written(row[j], row[j].text, row[j].done, FALSE))
    <3> PICK new : new = Written(row[j], row[j].text, row[j].done, FALSE)
      OBVIOUS
    <3>1. ~new.live
      BY DEF Written
    <3> QED
      BY <2>2, <2>5, <3>1
  <2> QED
    BY <1>5, <2>3, <2>4, <2>5, WriteOtherCases
<1> QED
  BY <1>3, <1>4, <1>5

LEMMA AnsweredFresh ==
  ASSUME PageTyped, Coherent, NEW s \in Slots, Answered(s)
  PROVE  Coherent'
<1>1. RequestsTyped /\ CacheTyped /\ RowsTyped
  BY DEF PageTyped
<1>2. request[s].phase = "applied"
  BY AnsweredCases
<1>3. CASE Refused(s) /\ request[s].kind \in {"create", "update", "save"}
           /\ ~row[request[s].item].live
  BY <1>2, <1>3, RefusedFresh
<1>4. CASE Invalidate(s, Invalidates(request[s].kind)[1], AnswerCache(s), 1)
           /\ UNCHANGED <<rows, layout, undo, left>>
  <2> PICK K : K = Invalidates(request[s].kind)[1]
    OBVIOUS
  <2> PICK cache : cache = AnswerCache(s)
    OBVIOUS
  <2>1. Invalidate(s, K, cache, 1) /\ row' = row /\ UNCHANGED layout
    BY <1>4 DEF rows
  <2>2. ASSUME NEW q \in Queries
        PROVE  /\ cache[q] \in CacheEntry(q) /\ cache[q].fetch = entry[q].fetch
               /\ q \notin K => cache[q] = entry[q]
    <3>1. entry[q] \in CacheEntry(q)
      BY <1>1 DEF CacheTyped
    <3>2. CASE request[s].kind # "save"
      <4>1. cache = entry
        BY <3>2 DEF AnswerCache
      <4> QED
        BY <3>1, <4>1
    <3>3. CASE request[s].kind = "save"
      <4>1. K = {Record}
        BY <3>3, InvalidatesRecord
      <4> PICK answer : answer = Answer(Record)
        OBVIOUS
      <4>2. cache = [entry EXCEPT ![Record].data = answer, ![Record].error = FALSE]
        BY <3>3 DEF AnswerCache
      <4>3. CASE q # Record
        <5>1. cache[q] = entry[q]
          BY <1>1, <4>2, <4>3 DEF CacheTyped
        <5> QED
          BY <3>1, <5>1
      <4>4. CASE q = Record
        <5>1. cache[q] = [entry[q] EXCEPT !.data = answer, !.error = FALSE]
          BY <1>1, <4>2, <4>4 DEF CacheTyped
        <5>2. answer \in Copies(q)
          BY <1>1, <4>4, AnswerTyped
        <5>3. cache[q] \in CacheEntry(q) /\ cache[q].fetch = entry[q].fetch
          BY <3>1, <5>1, <5>2 DEF CacheEntry, CacheRecord
        <5> QED
          BY <4>1, <4>4, <5>3
      <4> QED
        BY <4>3, <4>4
    <3> QED
      BY <3>2, <3>3
  <2> QED
    BY <1>1, <1>2, <2>1, <2>2, InvalidateFresh
<1> QED
  BY <1>3, <1>4, AnsweredCases

LEMMA NextKeyFresh ==
  ASSUME PageTyped, Coherent, NEW s \in Slots, NextKey(s)
  PROVE  Coherent'
<1>1. RequestsTyped /\ CacheTyped
  BY DEF PageTyped
<1> PICK stage : stage = request[s].stage + 1
  OBVIOUS
<1> PICK K : K = Invalidates(request[s].kind)[stage]
  OBVIOUS
<1> PICK cache : cache = entry
  OBVIOUS
<1>2. stage \in Nat
  BY <1>1 DEF RequestsTyped, Request
<1>3. Invalidate(s, K, cache, stage) /\ row' = row /\ UNCHANGED layout
      /\ request[s].phase = "refresh"
  BY DEF NextKey, rows
<1>4. \A q \in Queries : /\ cache[q] \in CacheEntry(q) /\ cache[q].fetch = entry[q].fetch
                         /\ q \notin K => cache[q] = entry[q]
  BY <1>1 DEF CacheTyped
<1> QED
  BY <1>1, <1>2, <1>3, <1>4, InvalidateFresh

LEMMA SettleFresh ==
  ASSUME PageTyped, Coherent, NEW s \in Slots, Settle(s)
  PROVE  Coherent'
<1>1. RequestsTyped /\ CacheTyped
  BY DEF PageTyped
<1>2. /\ request[s].phase = "refresh"
      /\ request[s].stage = Len(Invalidates(request[s].kind))
      /\ request' = [request EXCEPT ![s] = IdleRequest]
      /\ row' = row
  BY <1>1, SettleCases DEF rows
<1>3. \A q \in Queries, i \in Items : ~Owes(s, q, i)
  BY <1>1, <1>2, NoDebt
<1>4. DebtsStay
  BY <1>1, <1>2, <1>3, OtherDebts
<1>5. CASE UNCHANGED <<entry, layout>>
  BY <1>1, <1>2, <1>4, <1>5, StandsFresh
<1>6. CASE Mount(entry)
  BY <1>1, <1>2, <1>4, <1>6, MountFresh
<1>7. CASE TrashedLeft(s)
  <2>1. \A q \in Queries : IsMounted(q)' => IsMounted(q)
    BY <1>7, MountedStays DEF TrashedLeft
  <2> QED
    BY <1>1, <1>2, <1>4, <1>7, <2>1, StillFresh DEF TrashedLeft
<1> QED
  BY <1>1, <1>5, <1>6, <1>7, SettleCases DEF ToastShown, DraftSaved, CreatedShown, SelectItem,
     DroppedLeft

LEMMA CoherentStays ==
  ASSUME PageTyped, Coherent, [Next]_vars
  PROVE  Coherent'
<1>1. RequestsTyped
  BY DEF PageTyped
<1>2. CASE Moves
  BY <1>2, MovesFresh
<1>3. CASE TypeTask \/ TypeRecord \/ UndoExpires \/ UNCHANGED vars
  <2>1. UNCHANGED <<entry, layout, request>> /\ row' = row
    BY <1>3 DEF TypeTask, TypeRecord, UndoExpires, vars, rows
  <2> QED
    BY <2>1, QuietDebts, StandsFresh DEF PageTyped
<1>4. ASSUME NEW s \in Slots, Sends(s)
      PROVE  Coherent'
  <2>1. UNCHANGED <<entry, layout>> /\ row' = row
    BY <1>4 DEF Sends, SaveTask, Undo, TrashTask, SaveRecord, DropRecord, ToggleRow, CreateTask,
       rows
  <2> QED
    BY <1>4, <2>1, SendsDebts, StandsFresh DEF PageTyped
<1>5. ASSUME NEW s \in Slots, ReadTask(s)
      PROVE  Coherent'
  <2>1. UNCHANGED <<entry, layout>> /\ row' = row
    BY <1>5 DEF ReadTask, Refused, rows
  <2> QED
    BY <1>1, <1>5, <2>1, ReadDebts, StandsFresh DEF PageTyped
<1>6. ASSUME NEW s \in Slots, RequestFails(s)
      PROVE  Coherent'
  BY <1>6, RefusedFresh DEF RequestFails
<1>7. ASSUME NEW s \in Slots, WriteTask(s) \/ WriteOther(s)
      PROVE  Coherent'
  BY <1>7, WritesFresh
<1>8. ASSUME NEW s \in Slots, Answered(s) \/ NextKey(s) \/ Settle(s)
      PROVE  Coherent'
  BY <1>8, AnsweredFresh, NextKeyFresh, SettleFresh
<1>9. ASSUME NEW q \in Queries, Retry(q) \/ Reads(q) \/ FetchDelivers(q) \/ FetchFails(q)
      PROVE  Coherent'
  BY <1>9, FetchSteps
<1> QED
  BY <1>2, <1>3, <1>4, <1>5, <1>6, <1>7, <1>8, <1>9, NextCases

LEMMA InitCoherent == Init => Coherent
<1> SUFFICES ASSUME Init PROVE Coherent
  OBVIOUS
<1>1. PageTyped
  BY InitTyped
<1>2. ASSUME NEW q \in Queries
      PROVE  Fresh(q)
  <2> PICK answer : answer = Answer(q)
    OBVIOUS
  <2>1. entry[q] = IF IsMounted(q) THEN [NoEntry EXCEPT !.data = answer] ELSE NoEntry
    BY DEF Init
  <2>2. CASE IsMounted(q)
    <3>1. entry[q].fetch = "idle" /\ entry[q].data = answer
      BY <2>1, <2>2 DEF NoEntry
    <3>2. answer # Nothing => Shows(q, answer)
      BY <1>1, AnswerAgrees DEF Shows, PageTyped
    <3> QED
      BY <3>1, <3>2 DEF Fresh, Usable, Half
  <2>3. CASE ~IsMounted(q)
    BY <2>1, <2>3 DEF Fresh, NoEntry, Half
  <2> QED
    BY <2>2, <2>3
<1> QED
  BY <1>2 DEF Coherent

LEMMA SettledViews == PageTyped /\ Coherent => SettledViewsAreCurrent
<1> SUFFICES ASSUME PageTyped, Coherent, Settled,
                    NEW q \in Queries, IsMounted(q), Usable(q), ~entry[q].late
             PROVE  LET now == Answer(q)
                        data == entry[q].data
                    IN  IF q = "linked"
                        THEN DOMAIN now \subseteq DOMAIN data
                             /\ \A t \in DOMAIN data :
                                  row[t].live => t \in DOMAIN now /\ data[t] = now[t]
                        ELSE data = now
  BY DEF SettledViewsAreCurrent
<1> PICK data : data = entry[q].data
  OBVIOUS
<1>1. RequestsTyped /\ RowsTyped /\ data \in Copies(q) /\ data # Nothing
  BY DEF PageTyped, CacheTyped, CacheEntry, CacheRecord, Usable
<1>2. Shows(q, data)
  BY DEF Coherent, Fresh, Settled
<1>3. \A s \in Slots, i \in Items : ~Owes(s, q, i)
  BY <1>1, NoDebt DEF Settled
<1>4. \A i \in Items : Agrees(q, data, i)
  BY <1>2, <1>3 DEF Shows
<1>5. /\ q # "linked" => data = Answer(q)
      /\ q = "linked" => /\ DOMAIN Answer(q) \subseteq DOMAIN data
                         /\ \A t \in DOMAIN data : row[t].live =>
                              t \in DOMAIN Answer(q) /\ data[t] = Answer(q)[t]
  BY <1>1, <1>4, AgreesIsAnswer
<1> QED
  BY <1>5

\* On a settled page every view that is not late shows what the service
\* holds: whatever made it stale has invalidated it (mutations.ts), with the
\* one exception of the record's task list after a deletion.
THEOREM QuietViewsAreCurrent == Spec => []SettledViewsAreCurrent
<1>1. Init => PageTyped /\ Coherent
  BY InitTyped, InitCoherent
<1>2. PageTyped /\ Coherent /\ [Next]_vars => (PageTyped /\ Coherent)'
  BY TypesStay, CoherentStays
<1> QED
  BY <1>1, <1>2, SettledViews, PTL DEF Spec

-----------------------------------------------------------------------------
(* Editors on the screen.  A step either renders, or leaves the layout,    *)
(* the data of every row and the rows the editors were mounted with.       *)

KeptEditor(e, f) == f # Nothing => e # Nothing /\ f.item = e.item /\ f.base = e.base

DataKept == \A i \in Items : /\ entry'[i].data = entry[i].data
                             /\ entry'[i].error = entry[i].error

Rests == /\ UNCHANGED layout
         /\ DataKept
         /\ KeptEditor(taskEditor, taskEditor')
         /\ KeptEditor(recordEditor, recordEditor')

LEMMA KeptItself == \A e : KeptEditor(e, e)
BY DEF KeptEditor

LEMMA SavingKept ==
  ASSUME NEW e \in EditorRecords, NEW s
  PROVE  KeptEditor(e, [e EXCEPT !.saving = s])
<1>1. e # Nothing
  BY EditorAssumption
<1>2. /\ [e EXCEPT !.saving = s].item = e.item /\ [e EXCEPT !.saving = s].base = e.base
  BY DEF EditorRecords
<1> QED
  BY <1>1, <1>2 DEF KeptEditor

LEMMA ReleaseKept ==
  ASSUME NEW e \in EditorRecords \cup {Nothing}, NEW s \in Slots
  PROVE  KeptEditor(e, Release(e, s))
BY ReleaseTyped DEF KeptEditor

LEMMA StepForms ==
  ASSUME PageTyped, [Next]_vars
  PROVE  Rests \/ \E flag : Render(flag)
<1>1. RequestsTyped /\ CacheTyped /\ EditorsTyped /\ LeftTyped
  BY DEF PageTyped
<1>2. CASE UNCHANGED <<entry, layout, editors>>
  BY <1>2, KeptItself DEF Rests, DataKept, editors
<1>3. CASE Moves
  BY <1>3 DEF Moves, Select, SelectItem, ClearSelection, ToggleInspector, Navigate
<1>4. CASE TypeTask
  <2>1. taskEditor \in EditorRecords /\ taskEditor # Nothing
    BY <1>1, <1>4 DEF TypeTask, EditorsTyped
  <2>2. taskEditor'.item = taskEditor.item /\ taskEditor'.base = taskEditor.base
    BY <1>1, <1>4, <2>1, TypedDraft DEF TypeTask
  <2>3. UNCHANGED <<entry, layout, recordEditor>>
    BY <1>4 DEF TypeTask
  <2> QED
    BY <2>1, <2>2, <2>3 DEF Rests, DataKept, KeptEditor
<1>5. CASE TypeRecord
  <2>1. recordEditor \in EditorRecords /\ recordEditor # Nothing
    BY <1>1, <1>5 DEF TypeRecord, EditorsTyped
  <2>2. recordEditor'.item = recordEditor.item /\ recordEditor'.base = recordEditor.base
    BY <1>1, <1>5, <2>1, TypedDraft DEF TypeRecord
  <2>3. UNCHANGED <<entry, layout, taskEditor>>
    BY <1>5 DEF TypeRecord
  <2> QED
    BY <2>1, <2>2, <2>3 DEF Rests, DataKept, KeptEditor
<1>6. ASSUME NEW s \in Slots, Sends(s)
      PROVE  Rests
  <2>1. CASE SaveTask(s)
    <3>1. taskEditor \in EditorRecords /\ taskEditor' = [taskEditor EXCEPT !.saving = s]
      BY <1>1, <2>1 DEF SaveTask, EditorsTyped
    <3>2. UNCHANGED <<entry, layout, recordEditor>>
      BY <2>1 DEF SaveTask
    <3>3. KeptEditor(taskEditor, taskEditor')
      BY <3>1, SavingKept
    <3> QED
      BY <3>2, <3>3, KeptItself DEF Rests, DataKept
  <2>2. CASE SaveRecord(s)
    <3>1. recordEditor \in EditorRecords /\ recordEditor' = [recordEditor EXCEPT !.saving = s]
      BY <1>1, <2>2 DEF SaveRecord, EditorsTyped
    <3>2. UNCHANGED <<entry, layout, taskEditor>>
      BY <2>2 DEF SaveRecord
    <3>3. KeptEditor(recordEditor, recordEditor')
      BY <3>1, SavingKept
    <3> QED
      BY <3>2, <3>3, KeptItself DEF Rests, DataKept
  <2>3. CASE ~SaveTask(s) /\ ~SaveRecord(s)
    <3>1. UNCHANGED <<entry, layout, editors>>
      BY <1>6, <2>3 DEF Sends, Undo, TrashTask, DropRecord, ToggleRow, CreateTask
    <3> QED
      BY <3>1, KeptItself DEF Rests, DataKept, editors
  <2> QED
    BY <2>1, <2>2, <2>3
<1>7. ASSUME NEW s \in Slots, UNCHANGED <<entry, layout>>,
             taskEditor' = Release(taskEditor, s), recordEditor' = Release(recordEditor, s)
      PROVE  Rests
  <2>1. KeptEditor(taskEditor, taskEditor') /\ KeptEditor(recordEditor, recordEditor')
    BY <1>1, <1>7, ReleaseKept DEF EditorsTyped
  <2> QED
    BY <1>7, <2>1 DEF Rests, DataKept
<1>8. ASSUME NEW s \in Slots, ReadTask(s) \/ WriteTask(s) \/ WriteOther(s) \/ RequestFails(s)
      PROVE  Rests
  <2>1. Refused(s) \/ UNCHANGED <<entry, layout, editors>>
    BY <1>8, WriteOtherCases DEF ReadTask, WriteTask, Wrote, RequestFails
  <2> QED
    BY <1>7, <2>1, KeptItself DEF Refused, Rests, DataKept, editors
<1>9. ASSUME NEW s \in Slots, NextKey(s)
      PROVE  Rests
  <2> PICK K : K = Invalidates(request[s].kind)[request[s].stage + 1]
    OBVIOUS
  <2>1. /\ Invalidate(s, K, entry, request[s].stage + 1)
        /\ UNCHANGED <<layout, taskEditor, recordEditor>>
    BY <1>9 DEF NextKey, editors
  <2>2. ASSUME NEW q \in Queries
        PROVE  entry'[q].data = entry[q].data /\ entry'[q].error = entry[q].error
    <3>1. entry[q] \in CacheRecord(q)
      BY <1>1 DEF CacheTyped, CacheEntry
    <3>2. \/ entry'[q] = [entry[q] EXCEPT !.fetch = "sent", !.answer = Nothing, !.late = FALSE]
          \/ entry'[q] = [entry[q] EXCEPT
                            !.late = @ \/ (q \in K /\ entry[q].fetch \notin {"idle", "sent"})]
      BY <2>1 DEF Invalidate
    <3> QED
      BY <3>1, <3>2 DEF CacheRecord
  <2>3. DataKept
    BY <2>2 DEF DataKept, Queries
  <2> QED
    BY <2>1, <2>3, KeptItself DEF Rests
<1>10. ASSUME NEW s \in Slots, Answered(s)
       PROVE  Rests \/ \E flag : Render(flag)
  BY <1>7, <1>10, AnsweredCases DEF Refused
<1>11. ASSUME NEW s \in Slots, Settle(s)
       PROVE  Rests \/ \E flag : Render(flag)
  <2>1. CASE DraftSaved(s)
    BY <1>7, <2>1 DEF DraftSaved
  <2>2. CASE ToastShown(s)
    BY <2>2, KeptItself DEF ToastShown, Rests, DataKept, editors
  <2>3. CASE CreatedShown(s) \/ TrashedLeft(s) \/ DroppedLeft(s)
    BY <2>3, KeptItself DEF CreatedShown, SelectItem, TrashedLeft, DroppedLeft, Rests, DataKept,
       editors
  <2> QED
    BY <1>1, <1>11, <2>1, <2>2, <2>3, SettleCases
<1>12. ASSUME NEW q \in Queries, FetchDelivers(q) \/ FetchFails(q)
       PROVE  \E flag : Render(flag)
  BY <1>12 DEF FetchDelivers, FetchFails, Fetched
<1>13. ASSUME NEW q \in Queries, Retry(q) \/ Reads(q)
       PROVE  Rests
  <2>1. ASSUME NEW p \in Queries
        PROVE  entry'[p].data = entry[p].data /\ entry'[p].error = entry[p].error
    <3>1. entry[p] \in CacheEntry(p) /\ entry[q] \in CacheEntry(q)
      BY <1>1 DEF CacheTyped
    <3>2. CASE p # q
      BY <1>1, <1>13, <3>2, Reading DEF Retry, CacheTyped, PageTyped
    <3>3. CASE p = q /\ Retry(q)
      BY <1>1, <3>1, <3>3 DEF Retry, CacheTyped, CacheEntry, CacheRecord
    <3>4. CASE p = q /\ Reads(q)
      BY <1>1, <3>1, <3>4, Reading DEF CacheTyped, PageTyped
    <3> QED
      BY <1>13, <3>2, <3>3, <3>4
  <2>2. DataKept
    BY <2>1 DEF DataKept, Queries
  <2>3. UNCHANGED <<layout, taskEditor, recordEditor>>
    BY <1>13, ReadFrame DEF Retry, editors
  <2> QED
    BY <2>2, <2>3, KeptItself DEF Rests
<1>14. CASE UndoExpires \/ UNCHANGED vars
  BY <1>2, <1>14 DEF UndoExpires, vars
<1> QED
  BY <1>3, <1>4, <1>5, <1>6, <1>8, <1>9, <1>10, <1>11, <1>12, <1>13, <1>14, NextCases

\* An editor on the screen is of the item shown, with the version in the cache.
Mirrors ==
  /\ taskEditor # Nothing =>
       /\ inspectorOpen /\ selection = taskEditor.item /\ Usable(selection)
       /\ taskEditor.base.at = entry[selection].data[selection].at
  /\ recordEditor # Nothing =>
       /\ screen = "record" /\ Usable(Record)
       /\ recordEditor.base.at = entry[Record].data[Record].at

LEMMA MirrorsStay ==
  ASSUME PageTyped, Mirrors, [Next]_vars
  PROVE  Mirrors'
<1>1. EditorsTyped /\ CacheTyped'
  BY TypesStay DEF PageTyped
<1>2. ASSUME NEW flag, Render(flag)
      PROVE  Mirrors'
  BY <1>1, <1>2, Rendering DEF Mirrors, Usable
<1>3. CASE Rests
  <2>1. ASSUME taskEditor' # Nothing
        PROVE  /\ inspectorOpen' /\ selection' = taskEditor'.item
               /\ entry'[selection].data # Nothing /\ ~entry'[selection].error
               /\ taskEditor'.base.at = entry'[selection].data[selection].at
               /\ selection' = selection
    <3>1. taskEditor # Nothing /\ taskEditor'.item = taskEditor.item
          /\ taskEditor'.base = taskEditor.base
      BY <1>3, <2>1 DEF Rests, KeptEditor
    <3>2. selection = taskEditor.item /\ selection \in Items
      BY <1>1, <3>1 DEF Mirrors, EditorsTyped, Items
    <3>3. entry'[selection].data = entry[selection].data
          /\ entry'[selection].error = entry[selection].error
      BY <1>3, <3>2 DEF Rests, DataKept
    <3> QED
      BY <1>3, <3>1, <3>2, <3>3 DEF Rests, layout, Mirrors, Usable
  <2>2. ASSUME recordEditor' # Nothing
        PROVE  /\ screen' = "record"
               /\ entry'[Record].data # Nothing /\ ~entry'[Record].error
               /\ recordEditor'.base.at = entry'[Record].data[Record].at
    <3>1. recordEditor # Nothing /\ recordEditor'.base = recordEditor.base
      BY <1>3, <2>2 DEF Rests, KeptEditor
    <3>2. Record \in Items
      BY DEF Items
    <3>3. entry'[Record].data = entry[Record].data /\ entry'[Record].error = entry[Record].error
      BY <1>3, <3>2 DEF Rests, DataKept
    <3> QED
      BY <1>3, <3>1, <3>3 DEF Rests, layout, Mirrors, Usable
  <2> QED
    BY <2>1, <2>2 DEF Mirrors, Usable
<1> QED
  BY <1>2, <1>3, StepForms

\* A rendering leaves the inspector's editor, or mounts a fresh one with the
\* copy in the cache.
LEMMA RenderedTask ==
  ASSUME EditorsTyped, CacheTyped', NEW flag, Render(flag), taskEditor' # Nothing
  PROVE  LET i == selection'
         IN  /\ i \in Tasks /\ inspectorOpen' /\ entry'[i].data # Nothing
             /\ taskEditor'.item = i
             /\ \/ taskEditor' = taskEditor
                \/ /\ taskEditor'.base = entry'[i].data[i]
                   /\ taskEditor'.saving = 0 /\ ~Dirty(taskEditor')
<1> PICK i : i = selection'
  OBVIOUS
<1> PICK cache : cache = entry'
  OBVIOUS
<1> PICK e : e = taskEditor
  OBVIOUS
<1>1. /\ EditedTask' = i /\ i \in Tasks /\ inspectorOpen' /\ cache[i].data # Nothing
      /\ cache[i].data[i] \in Row /\ taskEditor'.item = i
      /\ taskEditor' = Keep(e, EditedTask', entry')
  BY Rendering
<1>2. i \in Items /\ i # Nothing
  BY <1>1, PageAssumption DEF Items
<1>3. taskEditor' = Keep(e, i, cache)
  BY <1>1
<1>4. PICK copy \in Row : copy = cache[i].data[i]
  BY <1>1
<1>5. \/ Keep(e, i, cache) = e
      \/ Keep(e, i, cache) = Editor(i, copy)
  BY <1>2, <1>4, KeepCases
<1>6. Editor(i, copy).base = copy /\ Editor(i, copy).saving = 0 /\ ~Dirty(Editor(i, copy))
  BY <1>2, FreshEditor
<1>7. \/ taskEditor' = e
      \/ taskEditor'.base = copy /\ taskEditor'.saving = 0 /\ ~Dirty(taskEditor')
  BY <1>3, <1>5, <1>6
<1> QED
  BY <1>1, <1>4, <1>7

-----------------------------------------------------------------------------
(* Versions.  A copy of a row, in the cache or in an editor, is the row or *)
(* an older version of it; the same updatedAt is the same row.             *)

Version(c, i) ==
  row[i].there /\ c.at <= row[i].at /\ (c.at = row[i].at => c = row[i])

Versions ==
  /\ \A i \in Items : row[i].live => row[i].there
  /\ \A i \in Items : entry[i].data # Nothing => Version(entry[i].data[i], i)
  /\ \A i \in Items : entry[i].answer # Nothing => Version(entry[i].answer[i], i)
  /\ taskEditor # Nothing => Version(taskEditor.base, taskEditor.item)

\* A write makes a newer version, or the first.
Grows(i) ==
  /\ row'[i].live => row'[i].there
  /\ \/ row'[i] = row[i]
     \/ ~row[i].there
     \/ row'[i].there /\ row'[i].at = row[i].at + 1

LEMMA WrittenGrows ==
  ASSUME RowsTyped, NEW j \in Items, NEW new, row' = [row EXCEPT ![j] = new],
         \A i \in Items : row[i].live => row[i].there,
         new.live => new.there,
         ~row[j].there \/ (new.there /\ new.at = row[j].at + 1)
  PROVE  \A i \in Items : Grows(i)
<1>1. ASSUME NEW i \in Items
      PROVE  Grows(i)
  <2>1. CASE i = j
    BY <2>1 DEF Grows, RowsTyped
  <2>2. CASE i # j
    BY <2>2 DEF Grows, RowsTyped
  <2> QED
    BY <2>1, <2>2
<1> QED
  BY <1>1

LEMMA RowsGrow ==
  ASSUME PageTyped, \A i \in Items : row[i].live => row[i].there, [Next]_vars
  PROVE  \A i \in Items : Grows(i)
<1>1. RowsTyped /\ RequestsTyped
  BY DEF PageTyped
<1>2. CASE row' = row
  BY <1>2 DEF Grows
<1>3. ASSUME NEW s \in Slots, WriteTask(s), row' # row
      PROVE  \A i \in Items : Grows(i)
  <2> PICK j : j = request[s].item
    OBVIOUS
  <2>1. j \in Items
    BY <1>1, <1>3 DEF WriteTask, RequestsTyped, Formed, Items
  <2>2. row[j].live /\ row' = [row EXCEPT ![j] =
                                 Written(row[j], request[s].text, request[s].done, TRUE)]
    BY <1>3 DEF WriteTask, Refused, rows
  <2> PICK new : new = Written(row[j], request[s].text, request[s].done, TRUE)
    OBVIOUS
  <2>3. new.there = row[j].there /\ new.at = row[j].at + 1
    BY DEF Written
  <2> QED
    BY <1>1, <2>1, <2>2, <2>3, WrittenGrows
<1>4. ASSUME NEW s \in Slots, WriteOther(s), row' # row
      PROVE  \A i \in Items : Grows(i)
  <2> PICK j : j = request[s].item
    OBVIOUS
  <2>1. j \in Items /\ row[j] \in Row
    BY <1>1, <1>4 DEF WriteOther, RequestsTyped, Formed, Items, RowsTyped
  <2>2. ~Refused(s)
    BY <1>4 DEF Refused, rows
  <2>3. CASE ~row[j].there /\ Wrote(s, [row[j] EXCEPT !.live = TRUE, !.there = TRUE])
    <3> PICK new : new = [row[j] EXCEPT !.live = TRUE, !.there = TRUE]
      OBVIOUS
    <3>1. row' = [row EXCEPT ![j] = new] /\ new.there
      BY <2>1, <2>3 DEF Wrote, Row
    <3> QED
      BY <1>1, <2>1, <2>3, <3>1, WrittenGrows
  <2>4. ASSUME NEW text, NEW live, row[j].live, Wrote(s, Written(row[j], text, row[j].done, live))
        PROVE  \A i \in Items : Grows(i)
    <3> PICK new : new = Written(row[j], text, row[j].done, live)
      OBVIOUS
    <3>1. row' = [row EXCEPT ![j] = new]
      BY <2>4 DEF Wrote
    <3>2. new.there = row[j].there /\ new.at = row[j].at + 1
      BY DEF Written
    <3> QED
      BY <1>1, <2>1, <2>4, <3>1, <3>2, WrittenGrows
  <2> QED
    BY <1>4, <2>2, <2>3, <2>4, WriteOtherCases
<1>5. row' = row \/ \E s \in Slots : WriteTask(s) \/ WriteOther(s)
  BY OnlyWritesTouchRows DEF rows, vars
<1> QED
  BY <1>2, <1>3, <1>4, <1>5

LEMMA VersionKept ==
  ASSUME RowsTyped, NEW i \in Items, Grows(i), NEW c \in Row, Version(c, i)
  PROVE  Version(c, i)'
<1>1. row[i] \in Row /\ c.at \in Nat /\ row[i].at \in Nat
  BY DEF RowsTyped, Row
<1> QED
  BY <1>1 DEF Grows, Version

\* Where the copies of an item come from.
CopyMoves(i) ==
  /\ entry'[i].data \in {entry[i].data, entry[i].answer, Answer(i)}
  /\ entry'[i].answer \in {Nothing, entry[i].answer, Answer(i)}

LEMMA InvalidateMoves ==
  ASSUME PageTyped, NEW s \in Slots, NEW K, NEW cache, NEW stage,
         Invalidate(s, K, cache, stage), NEW i \in Items, cache[i] \in CacheEntry(i),
         cache[i].data \in {entry[i].data, Answer(i)}, cache[i].answer = entry[i].answer
  PROVE  CopyMoves(i)
<1> i \in Queries
  BY DEF Queries
<1> PICK c \in CacheEntry(i) : c = cache[i]
  OBVIOUS
<1> DEFINE again == i \in K /\ IsMounted(i) /\ (c.data # Nothing \/ c.fetch = "idle")
<1>1. CASE again
  <2>1. entry'[i] = [c EXCEPT !.fetch = "sent", !.answer = Nothing, !.late = FALSE]
    BY <1>1 DEF Invalidate
  <2>2. entry'[i].data = c.data /\ entry'[i].answer = Nothing
    BY <2>1 DEF CacheEntry, CacheRecord
  <2> QED
    BY <2>2 DEF CopyMoves
<1>2. CASE ~again
  <2>1. entry'[i] = [c EXCEPT !.late = @ \/ (i \in K /\ c.fetch \notin {"idle", "sent"})]
    BY <1>2 DEF Invalidate
  <2>2. entry'[i].data = c.data /\ entry'[i].answer = c.answer
    BY <2>1 DEF CacheEntry, CacheRecord
  <2> QED
    BY <2>2 DEF CopyMoves
<1> QED
  BY <1>1, <1>2

LEMMA CopiesMove ==
  ASSUME PageTyped, [Next]_vars, NEW i \in Items
  PROVE  CopyMoves(i)
<1>1. CacheTyped /\ RequestsTyped /\ entry[i] \in CacheEntry(i) /\ i \in Queries
  BY DEF PageTyped, CacheTyped, Queries
<1>2. CASE UNCHANGED entry
  BY <1>2 DEF CopyMoves
<1>3. CASE Mount(entry)
  <2>1. entry'[i].data = entry[i].data /\ entry'[i].answer = entry[i].answer
    BY <1>1, <1>3 DEF Mount, CacheEntry, CacheRecord
  <2> QED
    BY <2>1 DEF CopyMoves
<1>4. CASE Moves
  BY <1>2, <1>3, <1>4 DEF Moves, Select, SelectItem, ClearSelection, ToggleInspector, Navigate
<1>5. CASE TypeTask \/ TypeRecord \/ UndoExpires \/ UNCHANGED vars
  BY <1>2, <1>5 DEF TypeTask, TypeRecord, UndoExpires, vars
<1>6. ASSUME NEW s \in Slots, Sends(s)
      PROVE  CopyMoves(i)
  BY <1>2, <1>6 DEF Sends, SaveTask, Undo, TrashTask, SaveRecord, DropRecord, ToggleRow,
     CreateTask
<1>7. ASSUME NEW s \in Slots, ReadTask(s) \/ WriteTask(s) \/ WriteOther(s) \/ RequestFails(s)
      PROVE  CopyMoves(i)
  BY <1>2, <1>7, WriteOtherCases DEF ReadTask, WriteTask, Wrote, RequestFails, Refused
<1>8. ASSUME NEW s \in Slots, Answered(s)
      PROVE  CopyMoves(i)
  <2>1. CASE Refused(s)
    BY <1>2, <2>1 DEF Refused
  <2>2. CASE ~Refused(s)
    <3> PICK K : K = Invalidates(request[s].kind)[1]
      OBVIOUS
    <3> PICK cache : cache = AnswerCache(s)
      OBVIOUS
    <3>1. Invalidate(s, K, cache, 1)
      BY <1>8, <2>2, AnsweredCases
    <3>2. CASE cache[i] = entry[i]
      BY <1>1, <3>1, <3>2, InvalidateMoves
    <3>3. CASE cache[i] # entry[i]
      <4> PICK answer : answer = Answer(Record)
        OBVIOUS
      <4>1. /\ request[s].kind = "save"
            /\ cache = [entry EXCEPT ![Record].data = answer, ![Record].error = FALSE]
        BY <3>3 DEF AnswerCache
      <4>2. i = Record
        BY <1>1, <3>3, <4>1 DEF CacheTyped
      <4>3. cache[i] = [entry[i] EXCEPT !.data = answer, !.error = FALSE]
        BY <1>1, <4>1, <4>2 DEF CacheTyped
      <4>4. answer \in Copies(i)
        BY <1>1, <4>2, AnswerTyped DEF PageTyped
      <4>5. /\ cache[i] \in CacheEntry(i) /\ cache[i].data = answer
            /\ cache[i].answer = entry[i].answer
        BY <1>1, <4>3, <4>4 DEF CacheEntry, CacheRecord
      <4> QED
        BY <3>1, <4>2, <4>5, InvalidateMoves
    <3> QED
      BY <3>2, <3>3
  <2> QED
    BY <2>1, <2>2
<1>9. ASSUME NEW s \in Slots, NextKey(s)
      PROVE  CopyMoves(i)
  BY <1>1, <1>9, InvalidateMoves DEF NextKey
<1>10. ASSUME NEW s \in Slots, Settle(s)
       PROVE  CopyMoves(i)
  BY <1>1, <1>2, <1>3, <1>10, SettleCases DEF ToastShown, DraftSaved, CreatedShown,
     SelectItem, TrashedLeft, DroppedLeft
<1>11. ASSUME NEW q \in Queries, Reads(q)
       PROVE  CopyMoves(i)
  <2> PICK answer : answer = Answer(q)
    OBVIOUS
  <2>1. CASE i # q
    <3>1. entry'[i] = entry[i]
      BY <1>1, <1>11, <2>1, Reading DEF CacheTyped, PageTyped
    <3> QED
      BY <3>1 DEF CopyMoves
  <2>2. CASE i = q
    <3>2. entry'[i].data = entry[i].data /\ entry'[i].answer = answer
      BY <1>1, <1>11, <2>2, Reading DEF CacheTyped, PageTyped
    <3> QED
      BY <2>2, <3>2 DEF CopyMoves
  <2> QED
    BY <2>1, <2>2
<1>12. ASSUME NEW q \in Queries, NEW new, Fetched(q, new), new.answer = Nothing,
              new.data \in {entry[q].data, entry[q].answer}
       PROVE  CopyMoves(i)
  <2>1. entry' = [entry EXCEPT ![q] = new]
    BY <1>12 DEF Fetched
  <2>2. CASE i # q
    <3>1. entry'[i] = entry[i]
      BY <1>1, <2>1, <2>2 DEF CacheTyped
    <3> QED
      BY <3>1 DEF CopyMoves
  <2>3. CASE i = q
    <3>1. entry'[i] = new
      BY <1>1, <2>1, <2>3 DEF CacheTyped
    <3> QED
      BY <1>12, <2>3, <3>1 DEF CopyMoves
  <2> QED
    BY <2>2, <2>3
<1>13. ASSUME NEW q \in Queries, FetchDelivers(q) \/ FetchFails(q)
       PROVE  CopyMoves(i)
  <2>1. CASE FetchDelivers(q)
    <3> PICK data : data = IF entry[q].answer = Nothing THEN entry[q].data ELSE entry[q].answer
      OBVIOUS
    <3> PICK failed : failed = (entry[q].answer = Nothing)
      OBVIOUS
    <3> PICK new : new = [data |-> data, error |-> failed, fetch |-> "idle",
                          answer |-> Nothing, late |-> entry[q].late]
      OBVIOUS
    <3>1. Fetched(q, new)
      BY <2>1 DEF FetchDelivers
    <3>2. new.answer = Nothing /\ new.data = data /\ data \in {entry[q].data, entry[q].answer}
      OBVIOUS
    <3> QED
      BY <1>12, <3>1, <3>2
  <2>2. CASE FetchFails(q)
    <3> PICK new : new = [data |-> entry[q].data, error |-> TRUE, fetch |-> "idle",
                          answer |-> Nothing, late |-> FALSE]
      OBVIOUS
    <3>1. Fetched(q, new)
      BY <2>2 DEF FetchFails
    <3>2. new.answer = Nothing /\ new.data = entry[q].data
      OBVIOUS
    <3> QED
      BY <1>12, <3>1, <3>2
  <2> QED
    BY <1>13, <2>1, <2>2
<1>14. ASSUME NEW q \in Queries, Retry(q)
       PROVE  CopyMoves(i)
  <2>1. CASE i # q
    <3>1. entry'[i] = entry[i]
      BY <1>1, <1>14, <2>1 DEF Retry, CacheTyped
    <3> QED
      BY <3>1 DEF CopyMoves
  <2>2. CASE i = q
    <3>1. entry'[i] = [entry[i] EXCEPT !.fetch = "sent", !.late = FALSE]
      BY <1>1, <1>14, <2>2 DEF Retry, CacheTyped
    <3>2. entry'[i].data = entry[i].data /\ entry'[i].answer = entry[i].answer
      BY <1>1, <3>1 DEF CacheEntry, CacheRecord
    <3> QED
      BY <3>2 DEF CopyMoves
  <2> QED
    BY <2>1, <2>2
<1> QED
  BY <1>4, <1>5, <1>6, <1>7, <1>8, <1>9, <1>10, <1>11, <1>13, <1>14, NextCases

LEMMA VersionsStay ==
  ASSUME PageTyped, Versions, [Next]_vars
  PROVE  Versions'
<1>1. RowsTyped /\ CacheTyped /\ EditorsTyped /\ CacheTyped' /\ EditorsTyped'
  BY TypesStay DEF PageTyped
<1>2. \A i \in Items : Grows(i)
  BY RowsGrow DEF Versions
<1>3. \A i \in Items : row'[i].live => row'[i].there
  BY <1>2 DEF Grows
<1>4. ASSUME NEW i \in Items, NEW d, d \in {entry[i].data, entry[i].answer, Answer(i)},
             d # Nothing
      PROVE  d[i] \in Row /\ Version(d[i], i) /\ Version(d[i], i)'
  <2>1. d \in Copies(i) /\ i \in Queries
    BY <1>1, <1>4, AnswerTyped DEF CacheTyped, CacheEntry, CacheRecord, Queries
  <2> PICK c \in Row : c = d[i]
    BY <1>4, <2>1, ItemCopy
  <2>2. Version(c, i)
    <3>1. CASE d = Answer(i)
      <4>1. row[i].live /\ d = [j \in {i} |-> row[i]]
        BY <1>4, <3>1 DEF Answer
      <4>2. c = row[i] /\ row[i].there
        BY <4>1 DEF Versions
      <4>3. row[i].at \in Nat
        BY <1>1 DEF RowsTyped, Row
      <4> QED
        BY <4>2, <4>3 DEF Version
    <3>2. CASE d # Answer(i)
      BY <1>4, <3>2 DEF Versions
    <3> QED
      BY <3>1, <3>2
  <2>3. Version(c, i)'
    BY <1>1, <1>2, <2>2, VersionKept
  <2>4. Version(c, i)' => Version(d[i], i)'
    BY DEF Version
  <2> QED
    BY <2>2, <2>3, <2>4
<1>5. ASSUME NEW i \in Items
      PROVE  /\ entry'[i].data # Nothing => Version(entry[i].data[i], i)'
             /\ entry'[i].answer # Nothing => Version(entry[i].answer[i], i)'
  <2> PICK d : d = entry'[i].data
    OBVIOUS
  <2> PICK a : a = entry'[i].answer
    OBVIOUS
  <2>1. /\ d \in {entry[i].data, entry[i].answer, Answer(i)}
        /\ a = Nothing \/ a \in {entry[i].data, entry[i].answer, Answer(i)}
    BY CopiesMove DEF CopyMoves
  <2>2. d # Nothing => Version(d[i], i)'
    BY <1>4, <2>1
  <2>3. a # Nothing => Version(a[i], i)'
    BY <1>4, <2>1
  <2>4. Version(d[i], i)' => Version(entry[i].data[i], i)'
    BY DEF Version
  <2>5. Version(a[i], i)' => Version(entry[i].answer[i], i)'
    BY DEF Version
  <2> QED
    BY <2>2, <2>3, <2>4, <2>5
<1>6. ASSUME taskEditor' # Nothing
      PROVE  Version(taskEditor.base, taskEditor.item)'
  <2> PICK f \in EditorRecords : f = taskEditor'
    BY <1>1, <1>6 DEF EditorsTyped
  <2> PICK i \in Items : i = f.item
    BY DEF EditorRecords
  <2> PICK c \in Row : c = f.base
    BY DEF EditorRecords
  <2>1. ASSUME taskEditor # Nothing, taskEditor.item = i, taskEditor.base = c
        PROVE  Version(c, i)'
    <3>1. Version(c, i)
      BY <2>1 DEF Versions
    <3> QED
      BY <1>1, <1>2, <3>1, VersionKept
  <2>2. CASE Rests
    BY <1>6, <2>1, <2>2 DEF Rests, KeptEditor
  <2>3. ASSUME NEW flag, Render(flag)
        PROVE  Version(c, i)'
    <3>1. \/ taskEditor' = taskEditor
          \/ entry'[i].data # Nothing /\ c = entry'[i].data[i]
      BY <1>1, <1>6, <2>3, RenderedTask
    <3>2. CASE taskEditor' = taskEditor
      BY <1>6, <2>1, <3>2
    <3>3. CASE entry'[i].data # Nothing /\ c = entry'[i].data[i]
      <4>1. Version(entry[i].data[i], i)'
        BY <1>5, <3>3
      <4> QED
        BY <3>3, <4>1 DEF Version
    <3> QED
      BY <3>1, <3>2, <3>3
  <2>4. Version(c, i)'
    BY <2>2, <2>1, <2>3, StepForms
  <2> QED
    BY <2>4 DEF Version
<1>7. \A i \in Items : entry'[i].data # Nothing => Version(entry[i].data[i], i)'
  BY <1>5
<1>8. \A i \in Items : entry'[i].answer # Nothing => Version(entry[i].answer[i], i)'
  BY <1>5
<1> QED
  BY <1>3, <1>6, <1>7, <1>8 DEF Versions

-----------------------------------------------------------------------------
(* Updates sent from a quiet page.                                         *)

\* On a settled page a view that is not late shows live rows as they are.
LEMMA ShownRow ==
  ASSUME PageTyped, Coherent, Settled, OnTime, NEW q \in Queries, IsMounted(q), Usable(q),
         NEW i \in Items, i \in DOMAIN entry[q].data, row[i].live
  PROVE  entry[q].data[i] = row[i]
<1> PICK data : data = entry[q].data
  OBVIOUS
<1>1. RequestsTyped /\ Shows(q, data)
  BY DEF PageTyped, Coherent, Fresh, Settled, OnTime
<1>2. \A s \in Slots : ~Owes(s, q, i)
  BY <1>1, NoDebt DEF Settled
<1>3. Agrees(q, data, i)
  BY <1>1, <1>2 DEF Shows
<1> QED
  BY <1>3 DEF Agrees

\* An update that is not overlapped carries the row's own value in every
\* column it does not mean to change.
Carries(s) ==
  LET r == request[s]
  IN  (r.kind = "update" /\ r.phase \in {"sent", "read"} /\ row[r.item].live) =>
        /\ "text" \notin r.changed => r.text = row[r.item].text
        /\ "done" \notin r.changed => r.done = row[r.item].done

QuietHolds ==
  \A s \in Slots : request[s].quiet =>
    Carries(s) /\ \A r \in Slots : r # s => request[r].phase = "idle"

LEMMA QuietKept ==
  ASSUME QuietHolds, \A r \in Slots : request[r].phase = "idle" => request'[r].phase = "idle",
         \A s \in Slots : request'[s].quiet =>
           /\ request[s].quiet
           /\ request'[s].phase \in {"sent", "read"} =>
                /\ request[s].phase \in {"sent", "read"} /\ row' = row
                /\ request'[s].kind = request[s].kind /\ request'[s].item = request[s].item
                /\ request'[s].text = request[s].text /\ request'[s].done = request[s].done
                /\ request'[s].changed = request[s].changed
  PROVE  QuietHolds'
<1>1. ASSUME NEW s \in Slots, request'[s].quiet
      PROVE  Carries(s)' /\ \A r \in Slots : r # s => request'[r].phase = "idle"
  <2>1. Carries(s) /\ \A r \in Slots : r # s => request[r].phase = "idle"
    BY <1>1 DEF QuietHolds
  <2>2. Carries(s)'
    BY <1>1, <2>1 DEF Carries
  <2> QED
    BY <2>1, <2>2
<1> QED
  BY <1>1 DEF QuietHolds

\* Waiting and the caller are no part of what a quiet update carries.
LEMMA QuietWaits ==
  ASSUME RequestsTyped, QuietHolds, row' = row,
         \A s \in Slots : \/ request'[s] = request[s]
                          \/ request'[s] = [request[s] EXCEPT !.from = "gone"]
                          \/ \E W : request'[s] = [request[s] EXCEPT !.waits = W]
  PROVE  QuietHolds'
<1>1. ASSUME NEW s \in Slots
      PROVE  /\ request'[s].phase = request[s].phase /\ request'[s].quiet = request[s].quiet
             /\ request'[s].kind = request[s].kind /\ request'[s].item = request[s].item
             /\ request'[s].text = request[s].text /\ request'[s].done = request[s].done
             /\ request'[s].changed = request[s].changed
  <2>1. request[s] \in Request
    BY DEF RequestsTyped
  <2>2. CASE request'[s] = request[s]
    BY <2>2
  <2>3. CASE request'[s] = [request[s] EXCEPT !.from = "gone"]
    BY <2>1, <2>3 DEF Request
  <2>4. ASSUME NEW W, request'[s] = [request[s] EXCEPT !.waits = W]
        PROVE  /\ request'[s].phase = request[s].phase /\ request'[s].quiet = request[s].quiet
               /\ request'[s].kind = request[s].kind /\ request'[s].item = request[s].item
               /\ request'[s].text = request[s].text /\ request'[s].done = request[s].done
               /\ request'[s].changed = request[s].changed
    BY <2>1, <2>4 DEF Request
  <2> QED
    BY <2>2, <2>3, <2>4
<1> QED
  BY <1>1, QuietKept

\* One request that was in flight goes on or ends.
LEMMA QuietGoesOn ==
  ASSUME RequestsTyped, QuietHolds, NEW s \in Slots, request[s].phase # "idle",
         \A r \in Slots : r # s => /\ request'[r].quiet => request[r].quiet
                                  /\ request'[r].phase = request[r].phase,
         \/ request'[s] = IdleRequest
         \/ request'[s].quiet = request[s].quiet /\ request'[s].phase \notin {"sent", "read"}
  PROVE  QuietHolds'
<1>1. IdleRequest.phase = "idle" /\ ~IdleRequest.quiet
  BY DEF IdleRequest
<1>2. ASSUME NEW r \in Slots, request[r].phase = "idle"
      PROVE  request'[r].phase = "idle"
  BY <1>2
<1>3. ASSUME NEW r \in Slots, request'[r].quiet
      PROVE  request[r].quiet /\ request'[r].phase \notin {"sent", "read"}
  <2>1. CASE r = s
    BY <1>1, <1>3, <2>1
  <2>2. CASE r # s
    <3>1. request[r].quiet
      BY <1>3, <2>2
    <3> QED
      BY <2>2, <3>1 DEF QuietHolds
  <2> QED
    BY <2>1, <2>2
<1> QED
  BY <1>2, <1>3, QuietKept

LEMMA QuietReads ==
  ASSUME RequestsTyped, QuietHolds, NEW s \in Slots, ReadTask(s)
  PROVE  QuietHolds'
<1>1. request[s].phase = "sent" /\ row' = row
  BY DEF ReadTask, Refused, rows
<1>2. CASE Refused(s)
  <2>1. request' = [request EXCEPT ![s] = IdleRequest]
    BY <1>2 DEF Refused
  <2>2. request'[s] = IdleRequest /\ \A r \in Slots : r # s => request'[r] = request[r]
    BY <2>1 DEF RequestsTyped
  <2> QED
    BY <1>1, <2>2, QuietGoesOn
<1>3. CASE ~Refused(s)
  <2> PICK b : b = row[request[s].item].done
    OBVIOUS
  <2>1. request' = [request EXCEPT ![s].phase = "read", ![s].read = b]
    BY <1>3 DEF ReadTask
  <2>2. request[s] \in Request /\ \A r \in Slots : r # s => request'[r] = request[r]
    BY <2>1 DEF RequestsTyped
  <2>3. request'[s] = [request[s] EXCEPT !.phase = "read", !.read = b]
    BY <2>1 DEF RequestsTyped
  <2>4. /\ request'[s].phase = "read" /\ request'[s].quiet = request[s].quiet
        /\ request'[s].kind = request[s].kind /\ request'[s].item = request[s].item
        /\ request'[s].text = request[s].text /\ request'[s].done = request[s].done
        /\ request'[s].changed = request[s].changed
    BY <2>2, <2>3 DEF Request
  <2> QED
    BY <1>1, <2>2, <2>4, QuietKept
<1> QED
  BY <1>2, <1>3

\* A request is sent: the others overlap with it, and it is quiet when the
\* page is.
LEMMA SentQuiet ==
  ASSUME NEW s \in Slots, NEW kind, NEW item, NEW from, NEW text, NEW done, NEW changed,
         NEW copy, Send(s, kind, item, from, text, done, changed, copy), RequestsTyped, row' = row,
         (kind = "update" /\ Settled /\ OnTime /\ row[item].live) =>
           /\ "text" \notin changed => text = row[item].text
           /\ "done" \notin changed => done = row[item].done
  PROVE  QuietHolds'
<1> PICK quiet \in BOOLEAN : quiet = (Settled /\ OnTime)
  OBVIOUS
<1>1. ASSUME NEW r \in Slots, r # s
      PROVE  ~request'[r].quiet /\ request'[r].phase = request[r].phase
  <2>1. request'[r] = [request[r] EXCEPT !.quiet = FALSE] /\ request[r] \in Request
    BY <1>1 DEF Send, RequestsTyped
  <2> QED
    BY <2>1 DEF Request
<1>2. request'[s] = [kind |-> kind, phase |-> "sent", item |-> item, from |-> from,
                     text |-> text, done |-> done, changed |-> changed, copy |-> copy,
                     read |-> FALSE, stage |-> 0, waits |-> {}, quiet |-> quiet]
  BY DEF Send
<1>3. /\ request'[s].kind = kind /\ request'[s].item = item /\ request'[s].text = text
      /\ request'[s].done = done /\ request'[s].changed = changed
      /\ request'[s].quiet = quiet
  BY <1>2
<1>4. quiet => Carries(s)'
  BY <1>3 DEF Carries
<1>5. quiet => \A r \in Slots : r # s => request'[r].phase = "idle"
  BY <1>1 DEF Settled
<1> QED
  BY <1>1, <1>3, <1>4, <1>5 DEF QuietHolds

LEMMA SendsQuiet ==
  ASSUME PageTyped, Coherent, Mirrors, Versions, NEW s \in Slots, Sends(s)
  PROVE  QuietHolds'
<1>1. RequestsTyped /\ CacheTyped /\ EditorsTyped /\ RowsTyped
  BY DEF PageTyped
<1>2. row' = row
  BY DEF Sends, SaveTask, Undo, TrashTask, SaveRecord, DropRecord, ToggleRow, CreateTask, rows
<1>3. CASE SaveTask(s)
  <2> PICK e \in EditorRecords : e = taskEditor /\ e # Nothing
    BY <1>1, <1>3 DEF SaveTask, EditorsTyped
  <2> PICK i \in Items : i = e.item
    BY DEF EditorRecords
  <2> PICK changed : changed = Differs(e.base, e.text, e.done)
    OBVIOUS
  <2>1. Send(s, "update", i, "editor", e.text, e.done, changed, Nothing)
    BY <1>3 DEF SaveTask
  <2>2. ASSUME Settled, OnTime, row[i].live
        PROVE  e.base = row[i]
    <3>1. inspectorOpen /\ selection = i /\ Usable(i) /\ e.base.at = entry[i].data[i].at
      BY DEF Mirrors
    <3>2. i \in Queries /\ IsMounted(i)
      BY <3>1 DEF Queries, IsMounted, Mounted
    <3>3. i \in DOMAIN entry[i].data
      BY <1>1, <3>1, EditedCopy
    <3>4. entry[i].data[i] = row[i]
      BY <2>2, <3>1, <3>2, <3>3, ShownRow
    <3>5. Version(e.base, i)
      BY DEF Versions
    <3> QED
      BY <3>1, <3>4, <3>5 DEF Version
  <2>3. /\ "text" \notin changed => e.text = e.base.text
        /\ "done" \notin changed => e.done = e.base.done
    BY DEF Differs
  <2> QED
    BY <1>1, <1>2, <2>1, <2>2, <2>3, SentQuiet
<1>4. ASSUME NEW q \in {"list", "board", "linked"}, NEW t \in Tasks, ToggleRow(s, q, t)
      PROVE  QuietHolds'
  <2> PICK c : c = entry[q].data[t]
    OBVIOUS
  <2> PICK done : done = ~c.done
    OBVIOUS
  <2>1. /\ Send(s, "update", t, q, c.text, done, {"done"}, c)
        /\ RowShown(q, t)
    BY <1>4 DEF ToggleRow
  <2>2. q \in Queries /\ IsMounted(q)
    BY <2>1 DEF RowShown, Queries, IsMounted, Mounted, Mirrors
  <2>3. ASSUME Settled, OnTime, row[t].live
        PROVE  c.text = row[t].text
    BY <2>1, <2>2, <2>3, ShownRow DEF RowShown, Items
  <2> QED
    BY <1>1, <1>2, <2>1, <2>3, SentQuiet
<1>5. CASE Undo(s)
  <2> PICK u : u = undo
    OBVIOUS
  <2>1. Send(s, "update", u.item, "undo", u.copy.text, u.copy.done, {"text", "done"}, Nothing)
    BY <1>5 DEF Undo
  <2> QED
    BY <1>1, <1>2, <2>1, SentQuiet
<1>6. ASSUME NEW kind \in {"create", "trash", "save", "drop"}, NEW item, NEW from, NEW text,
             NEW changed, Send(s, kind, item, from, text, FALSE, changed, Nothing)
      PROVE  QuietHolds'
  BY <1>1, <1>2, <1>6, SentQuiet
<1>7. CASE TrashTask(s)
  BY <1>6, <1>7 DEF TrashTask
<1>8. CASE SaveRecord(s)
  BY <1>6, <1>8 DEF SaveRecord
<1>9. CASE DropRecord(s)
  BY <1>6, <1>9 DEF DropRecord
<1>10. ASSUME NEW t \in New, CreateTask(s, t)
       PROVE  QuietHolds'
  BY <1>6, <1>10 DEF CreateTask
<1> QED
  BY <1>3, <1>4, <1>5, <1>7, <1>8, <1>9, <1>10 DEF Sends

LEMMA QuietStays ==
  ASSUME PageTyped, Coherent, Mirrors, Versions, QuietHolds, [Next]_vars
  PROVE  QuietHolds'
<1>1. RequestsTyped
  BY DEF PageTyped
<1>2. CASE UNCHANGED request /\ row' = row
  BY <1>1, <1>2, QuietWaits
<1>3. CASE Moves
  <2>1. /\ row' = row
        /\ \A s \in Slots : \/ request'[s] = request[s]
                            \/ request'[s] = [request[s] EXCEPT !.from = "gone"]
    BY <1>3 DEF Moves, Select, ClearSelection, ToggleInspector, Navigate, rows
  <2> QED
    BY <1>1, <2>1, QuietWaits
<1>4. CASE TypeTask \/ TypeRecord \/ UndoExpires \/ UNCHANGED vars
  BY <1>2, <1>4 DEF TypeTask, TypeRecord, UndoExpires, vars, rows
<1>5. ASSUME NEW s \in Slots, Sends(s)
      PROVE  QuietHolds'
  BY <1>5, SendsQuiet
<1>6. ASSUME NEW s \in Slots, ReadTask(s)
      PROVE  QuietHolds'
  BY <1>1, <1>6, QuietReads
<1>7. ASSUME NEW s \in Slots, request[s].phase # "idle",
             request' = [request EXCEPT ![s] = IdleRequest]
      PROVE  QuietHolds'
  <2>1. request'[s] = IdleRequest /\ \A r \in Slots : r # s => request'[r] = request[r]
    BY <1>1, <1>7 DEF RequestsTyped
  <2> QED
    BY <1>1, <1>7, <2>1, QuietGoesOn
<1>8. ASSUME NEW s \in Slots, request[s].phase # "idle",
             request' = [request EXCEPT ![s].phase = "applied"]
      PROVE  QuietHolds'
  <2>1. /\ request[s] \in Request /\ request'[s] = [request[s] EXCEPT !.phase = "applied"]
        /\ \A r \in Slots : r # s => request'[r] = request[r]
    BY <1>1, <1>8 DEF RequestsTyped
  <2>2. request'[s].quiet = request[s].quiet /\ request'[s].phase = "applied"
    BY <2>1 DEF Request
  <2> QED
    BY <1>1, <1>8, <2>1, <2>2, QuietGoesOn
<1>9. ASSUME NEW s \in Slots, NEW K, NEW cache, NEW stage, request[s].phase # "idle",
             Invalidate(s, K, cache, stage)
      PROVE  QuietHolds'
  <2> PICK shown : shown = {p \in K : IsMounted(p)}
    OBVIOUS
  <2> PICK again : again = {p \in shown : cache[p].data # Nothing \/ cache[p].fetch = "idle"}
    OBVIOUS
  <2>1. request[s] \in Request
        /\ request'[s] = [request[s] EXCEPT !.phase = "refresh", !.stage = stage, !.waits = shown]
    BY <1>1, <1>9 DEF RequestsTyped, Invalidate
  <2>2. request'[s].quiet = request[s].quiet /\ request'[s].phase = "refresh"
    BY <2>1 DEF Request
  <2>3. ASSUME NEW r \in Slots, r # s
        PROVE  request'[r].quiet = request[r].quiet /\ request'[r].phase = request[r].phase
    <3>1. request[r] \in Request /\ request'[r] = [request[r] EXCEPT !.waits = @ \ again]
      BY <1>1, <1>9, <2>3 DEF RequestsTyped, Invalidate
    <3> QED
      BY <3>1 DEF Request
  <2> QED
    BY <1>1, <1>9, <2>2, <2>3, QuietGoesOn
<1>10. ASSUME NEW s \in Slots, WriteTask(s) \/ WriteOther(s) \/ RequestFails(s)
       PROVE  QuietHolds'
  BY <1>7, <1>8, <1>10, WriteOtherCases DEF WriteTask, RequestFails, Refused, Wrote
<1>11. ASSUME NEW s \in Slots, Answered(s)
       PROVE  QuietHolds'
  BY <1>7, <1>9, <1>11, AnsweredCases DEF Refused
<1>12. ASSUME NEW s \in Slots, NextKey(s)
       PROVE  QuietHolds'
  BY <1>9, <1>12 DEF NextKey
<1>13. ASSUME NEW s \in Slots, Settle(s)
       PROVE  QuietHolds'
  BY <1>7, <1>13 DEF Settle
<1>14. ASSUME NEW q \in Queries, Retry(q) \/ Reads(q) \/ FetchDelivers(q) \/ FetchFails(q)
       PROVE  QuietHolds'
  <2>1. /\ row' = row
        /\ \A s \in Slots : \/ request'[s] = request[s]
                            \/ \E W : request'[s] = [request[s] EXCEPT !.waits = W]
    BY <1>14, ReadFrame DEF Retry, FetchDelivers, FetchFails, Fetched, rows
  <2> QED
    BY <1>1, <2>1, QuietWaits
<1> QED
  BY <1>3, <1>4, <1>5, <1>6, <1>10, <1>11, <1>12, <1>13, <1>14, NextCases

\* What the invariants say of the first state.
LEMMA InitMirrors == Init => Mirrors /\ Versions /\ QuietHolds
<1> SUFFICES ASSUME Init PROVE Mirrors /\ Versions /\ QuietHolds
  OBVIOUS
<1>1. RowsTyped /\ CacheTyped /\ EditorsTyped
  BY InitTyped DEF PageTyped
<1> PICK te : te = taskEditor
  OBVIOUS
<1> PICK re : re = recordEditor
  OBVIOUS
<1> PICK cache : cache = entry
  OBVIOUS
<1> PICK none : none = Nothing
  OBVIOUS
<1>2. te = Keep(none, EditedTask, cache) /\ re = Keep(none, EditedRecord, cache)
  BY DEF Init
<1>3. ASSUME NEW i \in Items, Usable(i)
      PROVE  LET e == Keep(none, i, cache)
             IN  e.item = i /\ e.base = entry[i].data[i]
  <2>1. i # Nothing
    BY PageAssumption DEF Items
  <2> PICK copy \in Row : copy = entry[i].data[i]
    BY <1>1, <1>3, EditedCopy
  <2>2. Keep(none, i, cache) = Editor(i, copy)
    BY <2>1 DEF Keep
  <2> QED
    BY <2>2, FreshEditor
<1>4. te # Nothing => /\ EditedTask # Nothing /\ EditedTask \in Items /\ Usable(EditedTask)
                      /\ EditedTask = selection /\ inspectorOpen
  BY <1>2, EditedForms DEF Keep, Items
<1>5. re # Nothing => /\ EditedRecord # Nothing /\ EditedRecord = Record /\ Record \in Items
                      /\ Usable(Record) /\ screen = "record"
  BY <1>2, EditedForms DEF Keep, Items
<1>6. te # Nothing => te.item = selection /\ te.base = entry[selection].data[selection]
  BY <1>2, <1>3, <1>4
<1>7. re # Nothing => re.base = entry[Record].data[Record]
  BY <1>2, <1>3, <1>5
<1>8. Mirrors
  BY <1>4, <1>5, <1>6, <1>7 DEF Mirrors
<1>9. ASSUME NEW i \in Items
      PROVE  /\ row[i].live => row[i].there
             /\ entry[i].data # Nothing => row[i].live /\ entry[i].data[i] = row[i]
             /\ entry[i].answer = Nothing
  <2>1. row[i].live => row[i].there
    BY DEF Init
  <2> PICK answer : answer = Answer(i)
    OBVIOUS
  <2>2. /\ entry[i] = NoEntry \/ entry[i] = [NoEntry EXCEPT !.data = answer]
    BY DEF Init, Queries
  <2>3. (entry[i].data = Nothing \/ entry[i].data = answer) /\ entry[i].answer = Nothing
    BY <2>2 DEF NoEntry
  <2>4. answer # Nothing => row[i].live /\ answer[i] = row[i]
    BY DEF Answer
  <2> QED
    BY <2>1, <2>3, <2>4
<1>10. ASSUME NEW i \in Items, entry[i].data # Nothing
       PROVE  Version(entry[i].data[i], i)
  <2>1. row[i].at \in Nat
    BY <1>1 DEF RowsTyped, Row
  <2> QED
    BY <1>9, <1>10, <2>1 DEF Version
<1>11. Versions
  <2>1. taskEditor # Nothing => Version(taskEditor.base, taskEditor.item)
    BY <1>4, <1>6, <1>10 DEF Usable
  <2> QED
    BY <1>9, <1>10, <2>1 DEF Versions
<1>12. QuietHolds
  BY DEF Init, QuietHolds, IdleRequest
<1> QED
  BY <1>8, <1>11, <1>12

PageHolds == PageTyped /\ Coherent /\ Mirrors /\ Versions /\ QuietHolds

LEMMA PageStays ==
  /\ Init => PageHolds
  /\ PageHolds /\ [Next]_vars => PageHolds'
<1>1. Init => PageHolds
  BY InitTyped, InitCoherent, InitMirrors DEF PageHolds
<1>2. ASSUME PageHolds, [Next]_vars
      PROVE  PageHolds'
  BY <1>2, TypesStay, CoherentStays, MirrorsStay, VersionsStay, QuietStays DEF PageHolds
<1> QED
  BY <1>1, <1>2

LEMMA QuietWrites ==
  PageHolds /\ [Next]_vars =>
    \A s \in Slots :
      LET r == request[s]
      IN  (r.kind = "update" /\ r.quiet /\ r.phase = "read" /\ request'[s].phase = "applied")
            => \A c \in {"text", "done"} \ r.changed : row'[r.item][c] = row[r.item][c]
<1> SUFFICES ASSUME PageHolds, [Next]_vars, NEW s \in Slots, request[s].kind = "update",
                    request[s].quiet, request[s].phase = "read", request'[s].phase = "applied",
                    NEW c \in {"text", "done"}, c \notin request[s].changed
             PROVE  row'[request[s].item][c] = row[request[s].item][c]
  OBVIOUS
<1>1. RequestsTyped /\ RowsTyped /\ Carries(s) /\ request[s] \in Request /\ Formed(request[s])
  BY DEF PageHolds, PageTyped, QuietHolds, RequestsTyped
<1> PICK t \in Items : t = request[s].item
  BY <1>1 DEF Formed, Items
<1>2. CASE row' = row
  BY <1>2
<1>3. ASSUME NEW r \in Slots, WriteTask(r) \/ WriteOther(r), row' # row
      PROVE  row'[t][c] = row[t][c]
  <2>1. request[r].phase # "idle"
    BY <1>3, WriteOtherCases DEF WriteTask
  <2>2. r = s
    BY <2>1 DEF PageHolds, QuietHolds
  <2>3. WriteTask(s) /\ row[t].live /\ row' = [row EXCEPT ![t] =
                             Written(row[t], request[s].text, request[s].done, TRUE)]
    BY <1>3, <2>2 DEF WriteTask, WriteOther, Refused, rows
  <2> PICK new : new = Written(row[t], request[s].text, request[s].done, TRUE)
    OBVIOUS
  <2>4. row'[t] = new /\ new.text = request[s].text /\ new.done = request[s].done
    BY <1>1, <2>3 DEF Written, RowsTyped
  <2>5. CASE c = "text"
    <3>1. request[s].text = row[t].text
      BY <1>1, <2>3, <2>5 DEF Carries
    <3> QED
      BY <2>4, <2>5, <3>1
  <2>6. CASE c = "done"
    <3>1. request[s].done = row[t].done
      BY <1>1, <2>3, <2>6 DEF Carries
    <3> QED
      BY <2>4, <2>6, <3>1
  <2> QED
    BY <2>5, <2>6
<1>4. row' = row \/ \E r \in Slots : WriteTask(r) \/ WriteOther(r)
  BY OnlyWritesTouchRows DEF rows, vars
<1> QED
  BY <1>2, <1>3, <1>4

\* An update from a quiet page that nothing overlaps writes back the columns
\* it does not mean to change (useUpdateTask sends whole rows): the copy it
\* was made from was the row, because the page had settled on time.
THEOREM QuietUpdatesAreExact == Spec => QuietUpdateIsExact
<1>1. PageHolds /\ [Next]_vars =>
        [\A s \in Slots :
           LET r == request[s]
           IN  (r.kind = "update" /\ r.quiet
                /\ r.phase = "read" /\ request'[s].phase = "applied")
               => \A c \in {"text", "done"} \ r.changed : row'[r.item][c] = row[r.item][c]]_vars
  BY QuietWrites
<1> QED
  BY <1>1, PageStays, PTL DEF Spec, QuietUpdateIsExact

-----------------------------------------------------------------------------
(* Drafts.                                                                 *)

\* What a step does to the fetch of an item.
FetchMoves(i) ==
  \/ entry'[i].fetch = entry[i].fetch /\ entry'[i].answer = entry[i].answer
  \/ entry'[i].fetch = "sent"
  \/ /\ entry[i].fetch = "sent"
     /\ entry'[i].fetch = "answered" /\ entry'[i].answer = Answer(i)
  \/ entry[i].fetch = "answered" /\ entry[i].answer # Nothing /\ entry'[i].data = entry[i].answer
  \/ entry'[i].error

LEMMA InvalidateFetches ==
  ASSUME NEW s \in Slots, NEW K, NEW cache, NEW stage, Invalidate(s, K, cache, stage),
         NEW q \in Queries, cache[q] \in CacheEntry(q),
         cache[q].fetch = entry[q].fetch, cache[q].answer = entry[q].answer
  PROVE  \/ entry'[q].fetch = "sent"
         \/ /\ ~(q \in K /\ IsMounted(q) /\ cache[q].data # Nothing)
            /\ entry'[q].fetch = entry[q].fetch /\ entry'[q].answer = entry[q].answer
<1> PICK c \in CacheEntry(q) : c = cache[q]
  OBVIOUS
<1> DEFINE again == q \in K /\ IsMounted(q) /\ (c.data # Nothing \/ c.fetch = "idle")
<1>1. CASE again
  <2>1. entry'[q] = [c EXCEPT !.fetch = "sent", !.answer = Nothing, !.late = FALSE]
    BY <1>1 DEF Invalidate
  <2> QED
    BY <1>1, <2>1 DEF CacheEntry, CacheRecord
<1>2. CASE ~again
  <2>1. entry'[q] = [c EXCEPT !.late = @ \/ (q \in K /\ c.fetch \notin {"idle", "sent"})]
    BY <1>2 DEF Invalidate
  <2> QED
    BY <1>2, <2>1 DEF CacheEntry, CacheRecord
<1> QED
  BY <1>1, <1>2

LEMMA AnswerCacheFetches ==
  ASSUME PageTyped, NEW s \in Slots, NEW q \in Queries
  PROVE  LET c == AnswerCache(s)[q]
         IN  c \in CacheEntry(q) /\ c.fetch = entry[q].fetch /\ c.answer = entry[q].answer
<1>1. CacheTyped /\ RowsTyped /\ entry[q] \in CacheEntry(q)
  BY DEF PageTyped, CacheTyped
<1> PICK answer : answer = Answer(Record)
  OBVIOUS
<1>2. CASE AnswerCache(s) = entry
  BY <1>1, <1>2
<1>3. CASE AnswerCache(s) # entry
  <2>1. AnswerCache(s) = [entry EXCEPT ![Record].data = answer, ![Record].error = FALSE]
    BY <1>3 DEF AnswerCache
  <2>2. CASE q # Record
    <3>1. AnswerCache(s)[q] = entry[q]
      BY <1>1, <2>1, <2>2 DEF CacheTyped
    <3> QED
      BY <1>1, <3>1
  <2>3. CASE q = Record
    <3>1. AnswerCache(s)[q] = [entry[q] EXCEPT !.data = answer, !.error = FALSE]
      BY <1>1, <2>1, <2>3 DEF CacheTyped
    <3>2. answer \in Copies(q)
      BY <1>1, <2>3, AnswerTyped
    <3> QED
      BY <1>1, <3>1, <3>2 DEF CacheEntry, CacheRecord
  <2> QED
    BY <2>2, <2>3
<1> QED
  BY <1>2, <1>3

LEMMA FetchesMove ==
  ASSUME PageTyped, [Next]_vars, NEW i \in Items
  PROVE  FetchMoves(i)
<1>1. CacheTyped /\ RequestsTyped /\ entry[i] \in CacheEntry(i) /\ i \in Queries
  BY DEF PageTyped, CacheTyped, Queries
<1>2. CASE UNCHANGED entry
  BY <1>2 DEF FetchMoves
<1>3. CASE Mount(entry)
  <2>1. \/ entry'[i] = entry[i]
        \/ entry'[i] = [entry[i] EXCEPT !.fetch = "sent", !.late = FALSE]
    BY <1>1, <1>3 DEF Mount
  <2>2. entry'[i] = entry[i] \/ entry'[i].fetch = "sent"
    BY <1>1, <2>1 DEF CacheEntry, CacheRecord
  <2> QED
    BY <2>2 DEF FetchMoves
<1>4. CASE Moves
  BY <1>2, <1>3, <1>4 DEF Moves, Select, SelectItem, ClearSelection, ToggleInspector, Navigate
<1>5. CASE TypeTask \/ TypeRecord \/ UndoExpires \/ UNCHANGED vars
  BY <1>2, <1>5 DEF TypeTask, TypeRecord, UndoExpires, vars
<1>6. ASSUME NEW s \in Slots, Sends(s)
      PROVE  FetchMoves(i)
  BY <1>2, <1>6 DEF Sends, SaveTask, Undo, TrashTask, SaveRecord, DropRecord, ToggleRow,
     CreateTask
<1>7. ASSUME NEW s \in Slots, ReadTask(s) \/ WriteTask(s) \/ WriteOther(s) \/ RequestFails(s)
      PROVE  FetchMoves(i)
  BY <1>2, <1>7, WriteOtherCases DEF ReadTask, WriteTask, Wrote, RequestFails, Refused
<1>8. ASSUME NEW s \in Slots, Answered(s)
      PROVE  FetchMoves(i)
  <2>1. CASE Refused(s)
    BY <1>2, <2>1 DEF Refused
  <2>2. CASE ~Refused(s)
    <3>1. Invalidate(s, Invalidates(request[s].kind)[1], AnswerCache(s), 1)
      BY <1>8, <2>2, AnsweredCases
    <3> PICK K : K = Invalidates(request[s].kind)[1]
      OBVIOUS
    <3> PICK cache : cache = AnswerCache(s)
      OBVIOUS
    <3>2. /\ cache[i] \in CacheEntry(i) /\ cache[i].fetch = entry[i].fetch
          /\ cache[i].answer = entry[i].answer
      BY <1>1, AnswerCacheFetches
    <3>3. Invalidate(s, K, cache, 1)
      BY <3>1
    <3> QED
      BY <1>1, <3>2, <3>3, InvalidateFetches DEF FetchMoves
  <2> QED
    BY <2>1, <2>2
<1>9. ASSUME NEW s \in Slots, NextKey(s)
      PROVE  FetchMoves(i)
  BY <1>1, <1>9, InvalidateFetches DEF NextKey, FetchMoves
<1>10. ASSUME NEW s \in Slots, Settle(s)
       PROVE  FetchMoves(i)
  BY <1>1, <1>2, <1>3, <1>10, SettleCases DEF ToastShown, DraftSaved, CreatedShown,
     SelectItem, TrashedLeft, DroppedLeft
<1>11. ASSUME NEW q \in Queries, q # i,
              Retry(q) \/ Reads(q) \/ FetchDelivers(q) \/ FetchFails(q)
       PROVE  FetchMoves(i)
  <2>1. entry'[i] = entry[i]
    BY <1>1, <1>11, Reading DEF Retry, FetchDelivers, FetchFails, Fetched, CacheTyped, PageTyped
  <2> QED
    BY <2>1 DEF FetchMoves
<1>12. CASE Reads(i)
  <2>1. /\ entry[i].fetch = "sent"
        /\ entry'[i].fetch = "answered" /\ entry'[i].answer = Answer(i)
    BY <1>1, <1>12, Reading DEF CacheTyped, PageTyped
  <2> QED
    BY <2>1 DEF FetchMoves
<1>13. CASE Retry(i)
  <2>1. entry'[i] = [entry[i] EXCEPT !.fetch = "sent", !.late = FALSE]
    BY <1>1, <1>13 DEF Retry, CacheTyped
  <2>2. entry'[i].fetch = "sent"
    BY <1>1, <2>1 DEF CacheEntry, CacheRecord
  <2> QED
    BY <2>2 DEF FetchMoves
<1>14. CASE FetchFails(i)
  <2>1. entry'[i] = [data |-> entry[i].data, error |-> TRUE, fetch |-> "idle",
                     answer |-> Nothing, late |-> FALSE]
    BY <1>1, <1>14 DEF FetchFails, Fetched, CacheTyped
  <2> QED
    BY <2>1 DEF FetchMoves
<1>15. CASE FetchDelivers(i)
  <2> PICK answer : answer = entry[i].answer
    OBVIOUS
  <2> PICK data : data = IF answer = Nothing THEN entry[i].data ELSE answer
    OBVIOUS
  <2> PICK failed \in BOOLEAN : failed = (answer = Nothing)
    OBVIOUS
  <2> PICK late : late = entry[i].late
    OBVIOUS
  <2>1. entry'[i] = [data |-> data, error |-> failed, fetch |-> "idle", answer |-> Nothing,
                     late |-> late]
    BY <1>1, <1>15 DEF FetchDelivers, Fetched, CacheTyped
  <2>2. entry'[i].data = data /\ entry'[i].error = failed
    BY <2>1
  <2> QED
    BY <1>15, <2>2 DEF FetchDelivers, FetchMoves
<1> QED
  BY <1>4, <1>5, <1>6, <1>7, <1>8, <1>9, <1>10, <1>11, <1>12, <1>13, <1>14, <1>15, NextCases

\* The row of an editor has a newer version, and a fetch is on its way that
\* will replace the editor.
Replaced(e) ==
  LET i == e.item
  IN  /\ row[i].at > e.base.at
      /\ \/ entry[i].fetch = "sent"
         \/ /\ entry[i].fetch = "answered"
            /\ entry[i].answer = Nothing \/ entry[i].answer[i].at > e.base.at

LEMMA ReplacedStays ==
  ASSUME PageHolds, [Next]_vars, taskEditor # Nothing, taskEditor' # Nothing,
         taskEditor'.item = taskEditor.item, taskEditor'.base = taskEditor.base,
         Replaced(taskEditor)
  PROVE  Replaced(taskEditor)'
<1>1. /\ RowsTyped /\ EditorsTyped /\ Mirrors' /\ CacheTyped
      /\ \A j \in Items : Grows(j)
  BY RowsGrow, MirrorsStay DEF PageHolds, PageTyped, Versions
<1> PICK e \in EditorRecords : e = taskEditor
  BY <1>1 DEF EditorsTyped
<1> PICK i \in Items : i = e.item
  BY DEF EditorRecords
<1> PICK at : at = e.base.at
  OBVIOUS
<1>2. at \in Nat /\ row[i].at \in Nat
  BY <1>1 DEF EditorRecords, RowsTyped, Row
<1>3. row'[i].at > at
  <2>1. row[i].there /\ row[i].at > at
    BY DEF PageHolds, Versions, Version, Replaced
  <2> QED
    BY <1>1, <1>2, <2>1 DEF Grows
<1>4. ~entry'[i].error /\ entry'[i].data[i].at = at
  BY <1>1 DEF Mirrors, Usable
<1>5. FetchMoves(i)
  BY FetchesMove DEF PageHolds
<1>6. \/ entry'[i].fetch = "sent"
      \/ /\ entry'[i].fetch = "answered"
         /\ entry'[i].answer = Nothing \/ entry'[i].answer[i].at > at
  <2>1. \/ entry[i].fetch = "sent"
        \/ /\ entry[i].fetch = "answered"
           /\ entry[i].answer = Nothing \/ entry[i].answer[i].at > at
    BY DEF Replaced
  <2>2. CASE entry'[i].fetch = entry[i].fetch /\ entry'[i].answer = entry[i].answer
    BY <2>1, <2>2
  <2>3. CASE entry[i].fetch = "sent" /\ entry'[i].fetch = "answered"
             /\ entry'[i].answer = Answer(i)
    <3> PICK answer : answer = Answer(i)
      OBVIOUS
    <3>1. answer # Nothing => answer[i] = row[i]
      BY DEF Answer
    <3>2. row[i].at > at
      BY DEF Replaced
    <3> QED
      BY <2>3, <3>1, <3>2
  <2>4. CASE entry[i].fetch = "answered" /\ entry[i].answer # Nothing
             /\ entry'[i].data = entry[i].answer
    <3>1. entry[i].answer[i].at > at
      BY <2>1, <2>4
    <3> QED
      BY <1>2, <1>4, <2>4, <3>1
  <2> QED
    BY <1>4, <1>5, <2>2, <2>3, <2>4 DEF FetchMoves
<1>7. taskEditor'.item = i /\ taskEditor'.base.at = at
  OBVIOUS
<1> QED
  BY <1>3, <1>6, <1>7 DEF Replaced

\* The same draft, whatever is sent of it.
SameDraft(e, f) ==
  /\ f = Nothing <=> e = Nothing
  /\ e # Nothing => /\ f.item = e.item /\ f.base = e.base
                    /\ f.text = e.text /\ f.done = e.done

SameDrafts == SameDraft(taskEditor, taskEditor') /\ SameDraft(recordEditor, recordEditor')

\* The end of a save: the flag goes down when it was the editor's own.
DraftReleased(s) ==
  /\ request[s].phase = "refresh"
  /\ SameDrafts /\ UNCHANGED <<entry, layout, rows, crowded>>
  /\ taskEditor' = Release(taskEditor, s)
  /\ taskEditor' = taskEditor => editorDirty' = editorDirty

LEMMA SameItself == \A e : SameDraft(e, e)
BY DEF SameDraft

LEMMA SameDirty ==
  ASSUME NEW e, NEW f, SameDraft(e, f)
  PROVE  Dirty(f) <=> Dirty(e)
BY DEF SameDraft, Dirty

LEMMA SavingSame ==
  ASSUME NEW e \in EditorRecords, NEW s, NEW f, f = [e EXCEPT !.saving = s]
  PROVE  SameDraft(e, f) \/ f = Nothing
<1>1. e # Nothing
  BY EditorAssumption
<1>2. /\ f.item = e.item /\ f.base = e.base /\ f.text = e.text /\ f.done = e.done
  BY DEF EditorRecords
<1> QED
  BY <1>1, <1>2 DEF SameDraft

LEMMA ReleaseSame ==
  ASSUME NEW e \in EditorRecords \cup {Nothing}, NEW s \in Slots
  PROVE  SameDraft(e, Release(e, s))
BY ReleaseTyped DEF SameDraft

LEMMA SendsSame ==
  ASSUME PageTyped, NEW s \in Slots, Sends(s)
  PROVE  SameDrafts /\ UNCHANGED flags
<1> EditorsTyped
  BY DEF PageTyped
<1>1. CASE SaveTask(s)
  <2>1. taskEditor \in EditorRecords /\ taskEditor' = [taskEditor EXCEPT !.saving = s]
        /\ taskEditor # Nothing
    BY <1>1 DEF SaveTask, EditorsTyped
  <2>2. UNCHANGED <<flags, recordEditor>>
    BY <1>1 DEF SaveTask
  <2>3. taskEditor' # Nothing
    <3>1. s \in {0} \cup Slots
      OBVIOUS
    <3>2. [taskEditor EXCEPT !.saving = s] \in EditorRecords
      BY <2>1, <3>1 DEF EditorRecords
    <3> QED
      BY <2>1, <3>2, EditorAssumption
  <2>4. SameDraft(taskEditor, taskEditor')
    BY <2>1, <2>3, SavingSame
  <2> QED
    BY <2>2, <2>4, SameItself DEF SameDrafts
<1>2. CASE SaveRecord(s)
  <2>1. recordEditor \in EditorRecords /\ recordEditor' = [recordEditor EXCEPT !.saving = s]
        /\ recordEditor # Nothing
    BY <1>2 DEF SaveRecord, EditorsTyped
  <2>2. UNCHANGED <<flags, taskEditor>>
    BY <1>2 DEF SaveRecord
  <2>3. recordEditor' # Nothing
    <3>1. s \in {0} \cup Slots
      OBVIOUS
    <3>2. [recordEditor EXCEPT !.saving = s] \in EditorRecords
      BY <2>1, <3>1 DEF EditorRecords
    <3> QED
      BY <2>1, <3>2, EditorAssumption
  <2>4. SameDraft(recordEditor, recordEditor')
    BY <2>1, <2>3, SavingSame
  <2> QED
    BY <2>2, <2>4, SameItself DEF SameDrafts
<1>3. CASE ~SaveTask(s) /\ ~SaveRecord(s)
  <2>1. UNCHANGED <<flags, editors>>
    BY <1>3 DEF Sends, Undo, TrashTask, DropRecord, ToggleRow, CreateTask
  <2> QED
    BY <2>1, SameItself DEF SameDrafts, editors
<1> QED
  BY <1>1, <1>2, <1>3

LEMMA FlagSteps ==
  ASSUME PageTyped, Mirrors, [Next]_vars
  PROVE  \/ Render(editorDirty)
         \/ /\ \E flag : Render(flag)
            /\ taskEditor' # taskEditor \/ taskEditor = Nothing
         \/ TypeTask \/ TypeRecord
         \/ SameDrafts /\ UNCHANGED flags
         \/ \E s \in Slots : DraftReleased(s)
<1>1. /\ RequestsTyped /\ CacheTyped /\ EditorsTyped /\ LeftTyped
      /\ EditorsTyped' /\ CacheTyped'
  BY TypesStay DEF PageTyped
<1>2. ASSUME UNCHANGED <<flags, editors>>
      PROVE  SameDrafts /\ UNCHANGED flags
  BY <1>2, SameItself DEF SameDrafts, editors
<1>3. ASSUME NEW flag, Render(flag), taskEditor' = taskEditor, taskEditor # Nothing
      PROVE  selection' = selection /\ selection' \in Tasks /\ inspectorOpen' /\ inspectorOpen
  BY <1>1, <1>3, RenderedTask DEF Mirrors
<1>4. ASSUME NEW i \in Items, SelectItem(i)
      PROVE  \/ Render(editorDirty)
             \/ /\ \E flag : Render(flag)
                /\ taskEditor' # taskEditor \/ taskEditor = Nothing
  BY <1>3, <1>4 DEF SelectItem
<1>5. CASE Moves
  <2>1. ASSUME NEW i \in Items, Select(i)
        PROVE  SelectItem(i)
    BY <2>1 DEF Select
  <2>2. CASE ClearSelection
    <3>1. Render(FALSE) /\ selection' = Nothing
      BY <2>2 DEF ClearSelection
    <3>2. Nothing \notin Tasks
      BY PageAssumption
    <3> QED
      BY <1>3, <3>1, <3>2
  <2>3. CASE ToggleInspector
    <3> PICK flag : flag = (~inspectorOpen /\ editorDirty)
      OBVIOUS
    <3>1. Render(flag) /\ inspectorOpen' = ~inspectorOpen
      BY <2>3 DEF ToggleInspector
    <3> QED
      BY <1>3, <3>1
  <2>4. ASSUME NEW to \in Screens, Navigate(to)
        PROVE  Render(editorDirty)
    BY <2>4 DEF Navigate
  <2> QED
    BY <1>4, <1>5, <2>1, <2>2, <2>3, <2>4 DEF Moves
<1>6. ASSUME NEW s \in Slots, Sends(s)
      PROVE  SameDrafts /\ UNCHANGED flags
  BY <1>6, SendsSame
<1>7. ASSUME NEW s \in Slots, taskEditor' = Release(taskEditor, s),
             recordEditor' = Release(recordEditor, s)
      PROVE  SameDrafts
  BY <1>1, <1>7, ReleaseSame DEF EditorsTyped, SameDrafts
<1>8. ASSUME NEW s \in Slots, ReadTask(s) \/ WriteTask(s) \/ WriteOther(s) \/ RequestFails(s)
      PROVE  SameDrafts /\ UNCHANGED flags
  <2>1. Refused(s) \/ UNCHANGED <<flags, editors>>
    BY <1>8, WriteOtherCases DEF ReadTask, WriteTask, Wrote, RequestFails
  <2> QED
    BY <1>2, <1>7, <2>1, SameItself DEF Refused, SameDrafts, editors
<1>9. ASSUME NEW s \in Slots, Answered(s)
      PROVE  Render(editorDirty) \/ (SameDrafts /\ UNCHANGED flags)
  BY <1>7, <1>9, AnsweredCases DEF Refused
<1>10. CASE \E s \in Slots : NextKey(s)
  BY <1>2, <1>10 DEF NextKey
<1>11. ASSUME NEW s \in Slots, Settle(s), DraftSaved(s)
       PROVE  DraftReleased(s)
  <2>1. SameDrafts
    BY <1>7, <1>11 DEF DraftSaved
  <2> QED
    BY <1>11, <2>1 DEF DraftSaved, DraftReleased, Settle
<1>12. ASSUME NEW s \in Slots, ToastShown(s)
       PROVE  SameDrafts /\ UNCHANGED flags
  BY <1>2, <1>12 DEF ToastShown
<1>13. ASSUME NEW s \in Slots, CreatedShown(s)
       PROVE  \/ Render(editorDirty)
              \/ /\ \E flag : Render(flag)
                 /\ taskEditor' # taskEditor \/ taskEditor = Nothing
              \/ SameDrafts /\ UNCHANGED flags
  <2>1. request[s].item \in Items
    BY <1>1, <1>13 DEF CreatedShown, RequestsTyped, Formed, Items
  <2>2. SelectItem(request[s].item) \/ UNCHANGED <<flags, editors>>
    BY <1>13 DEF CreatedShown
  <2> QED
    BY <1>2, <1>4, <2>1, <2>2, SameItself DEF SameDrafts, editors
<1>14. ASSUME NEW s \in Slots, TrashedLeft(s)
       PROVE  /\ \E flag : Render(flag)
              /\ taskEditor' # taskEditor \/ taskEditor = Nothing
  <2>1. Render(FALSE) /\ selection' = Nothing
    BY <1>14 DEF TrashedLeft
  <2>2. Nothing \notin Tasks
    BY PageAssumption
  <2> QED
    BY <1>3, <2>1, <2>2
<1>15. ASSUME NEW s \in Slots, DroppedLeft(s)
       PROVE  Render(editorDirty) \/ (SameDrafts /\ UNCHANGED flags)
  BY <1>2, <1>15 DEF DroppedLeft
<1>16. ASSUME NEW q \in Queries, FetchDelivers(q) \/ FetchFails(q)
       PROVE  Render(editorDirty)
  BY <1>16 DEF FetchDelivers, FetchFails, Fetched
<1>17. CASE \E q \in Queries : Retry(q) \/ Reads(q)
  BY <1>2, <1>17, ReadFrame DEF Retry
<1>18. CASE UndoExpires \/ UNCHANGED vars
  BY <1>2, <1>18 DEF UndoExpires, vars
<1>19. ASSUME NEW s \in Slots, Settle(s)
       PROVE  \/ Render(editorDirty)
              \/ /\ \E flag : Render(flag)
                 /\ taskEditor' # taskEditor \/ taskEditor = Nothing
              \/ SameDrafts /\ UNCHANGED flags
              \/ DraftReleased(s)
  BY <1>1, <1>11, <1>12, <1>13, <1>14, <1>15, <1>19, SettleCases
<1>20. CASE \E s \in Slots : Settle(s)
  BY <1>19, <1>20
<1>21. CASE \E s \in Slots : \/ Sends(s) \/ ReadTask(s) \/ WriteTask(s) \/ WriteOther(s)
                            \/ Answered(s) \/ RequestFails(s)
  BY <1>6, <1>8, <1>9, <1>21
<1> QED
  BY <1>5, <1>10, <1>16, <1>17, <1>18, <1>20, <1>21, NextCases

\* Two editors and a draft: the history says so.
Together ==
  ((Dirty(taskEditor) \/ Dirty(recordEditor)) /\ taskEditor # Nothing /\ recordEditor # Nothing)
    => crowded

LEMMA CrowdSays ==
  ASSUME Crowd
  PROVE  /\ Together'
         /\ (~crowded' /\ Dirty(taskEditor')) => ~crowded /\ recordEditor' = Nothing
         /\ (~crowded' /\ Dirty(recordEditor')) => ~crowded /\ taskEditor' = Nothing
<1>1. crowded' <=> /\ Dirty(taskEditor') \/ Dirty(recordEditor')
                   /\ crowded \/ Nothing \notin {taskEditor', recordEditor'}
  BY DEF Crowd
<1>2. (Dirty(taskEditor') \/ Dirty(recordEditor')) /\ taskEditor' # Nothing
        /\ recordEditor' # Nothing => crowded'
  BY <1>1
<1>3. Together'
  BY <1>2 DEF Together
<1>4. ~crowded' /\ Dirty(taskEditor') => ~crowded /\ recordEditor' = Nothing
  BY <1>1 DEF Dirty
<1>5. ~crowded' /\ Dirty(recordEditor') => ~crowded /\ taskEditor' = Nothing
  BY <1>1 DEF Dirty
<1> QED
  BY <1>3, <1>4, <1>5

LEMMA TogetherStays ==
  ASSUME PageTyped, Mirrors, Together, [Next]_vars
  PROVE  Together'
<1>1. CASE Crowd
  BY <1>1, CrowdSays
<1>2. CASE SameDrafts /\ UNCHANGED crowded
  <2>1. /\ Dirty(taskEditor') <=> Dirty(taskEditor)
        /\ Dirty(recordEditor') <=> Dirty(recordEditor)
        /\ taskEditor' = Nothing <=> taskEditor = Nothing
        /\ recordEditor' = Nothing <=> recordEditor = Nothing
    BY <1>2, SameDirty DEF SameDrafts, SameDraft
  <2>2. Dirty(taskEditor)' <=> Dirty(taskEditor')
    BY DEF Dirty
  <2>3. Dirty(recordEditor)' <=> Dirty(recordEditor')
    BY DEF Dirty
  <2> QED
    BY <1>2, <2>1, <2>2, <2>3 DEF Together
<1> QED
  BY <1>1, <1>2, FlagSteps DEF Render, TypeTask, TypeRecord, DraftReleased, flags

\* A save that has been committed makes a newer version of its row, and its
\* first invalidation fetches the row that the editor shows.
Saves ==
  (taskEditor # Nothing /\ taskEditor.saving # 0) =>
    LET r == request[taskEditor.saving]
    IN  /\ r.kind = "update" /\ r.from = "editor" /\ r.item = taskEditor.item
        /\ r.phase # "idle"
        /\ r.phase \in {"applied", "refresh"} => row[r.item].at > taskEditor.base.at
        /\ r.phase = "refresh" => Replaced(taskEditor)

\* What keeps an editor's save: its request keeps its phase, or has just been
\* committed, or has just begun its refresh.
LEMMA SavesKept ==
  ASSUME PageHolds, Saves, [Next]_vars, taskEditor # Nothing, taskEditor' # Nothing,
         taskEditor'.item = taskEditor.item, taskEditor'.base = taskEditor.base,
         taskEditor.saving # 0, taskEditor'.saving = taskEditor.saving,
         NEW k \in Slots, k = taskEditor.saving,
         request'[k].kind = request[k].kind, request'[k].from = request[k].from,
         request'[k].item = request[k].item,
         \/ request'[k].phase = request[k].phase
         \/ request'[k].phase = "read"
         \/ request'[k].phase = "applied" /\ row'[request[k].item].at > taskEditor.base.at
         \/ /\ request'[k].phase = "refresh" /\ request[k].phase = "applied"
            /\ Replaced(taskEditor)'
  PROVE  Saves'
<1>1. RowsTyped /\ EditorsTyped /\ \A i \in Items : Grows(i)
  BY RowsGrow DEF PageHolds, PageTyped, Versions
<1> PICK e \in EditorRecords : e = taskEditor
  BY <1>1 DEF EditorsTyped
<1> PICK i \in Items : i = e.item
  BY DEF EditorRecords
<1> PICK at \in Nat : at = e.base.at
  BY DEF EditorRecords, Row
<1>2. /\ request[k].kind = "update" /\ request[k].from = "editor" /\ request[k].item = i
      /\ request[k].phase # "idle"
      /\ request[k].phase \in {"applied", "refresh"} => row[i].at > at
      /\ request[k].phase = "refresh" => Replaced(taskEditor)
  BY DEF Saves
<1>3. row[i].at \in Nat /\ row[i].there
  BY <1>1 DEF RowsTyped, Row, PageHolds, Versions, Version
<1>4. row[i].at > at => row'[i].at > at
  BY <1>1, <1>3 DEF Grows
<1>5. request[k].phase = "refresh" => Replaced(taskEditor)'
  BY <1>2, ReplacedStays
<1>6. /\ request'[k].phase # "idle"
      /\ request'[k].phase \in {"applied", "refresh"} => row'[i].at > at
      /\ request'[k].phase = "refresh" => Replaced(taskEditor)'
  BY <1>2, <1>4, <1>5
<1>7. taskEditor'.item = i /\ taskEditor'.base.at = at /\ taskEditor'.saving = k
  OBVIOUS
<1> QED
  BY <1>2, <1>6, <1>7 DEF Saves

LEMMA SavingSteps ==
  ASSUME PageTyped, [Next]_vars, taskEditor' # Nothing, taskEditor'.saving # 0
  PROVE  /\ taskEditor # Nothing
         /\ taskEditor'.item = taskEditor.item /\ taskEditor'.base = taskEditor.base
         /\ \/ taskEditor'.saving = taskEditor.saving
            \/ SaveTask(taskEditor'.saving)
<1>1. EditorsTyped /\ RequestsTyped /\ LeftTyped /\ CacheTyped'
  BY TypesStay DEF PageTyped
<1>2. taskEditor' = taskEditor \/ Rests
  BY <1>1, StepForms, RenderedTask
<1>3. /\ taskEditor # Nothing
      /\ taskEditor'.item = taskEditor.item /\ taskEditor'.base = taskEditor.base
  BY <1>2 DEF Rests, KeptEditor
<1>4. CASE taskEditor' = taskEditor
  BY <1>3, <1>4
<1>5. ASSUME NEW flag, Render(flag)
      PROVE  taskEditor' = taskEditor
  BY <1>1, <1>5, RenderedTask
<1>6. CASE Moves
  BY <1>4, <1>5, <1>6 DEF Moves, Select, SelectItem, ClearSelection, ToggleInspector, Navigate
<1>7. CASE TypeTask
  <2>1. taskEditor \in EditorRecords
    BY <1>1, <1>7 DEF TypeTask, EditorsTyped
  <2>2. taskEditor'.saving = taskEditor.saving
    BY <1>1, <1>7, <2>1, TypedDraft DEF TypeTask
  <2> QED
    BY <1>3, <2>2
<1>8. CASE TypeRecord \/ UndoExpires \/ UNCHANGED vars
  BY <1>4, <1>8 DEF TypeRecord, UndoExpires, vars, editors
<1>9. ASSUME NEW s \in Slots, SaveTask(s)
      PROVE  taskEditor'.saving = s
  <2>1. taskEditor \in EditorRecords /\ taskEditor' = [taskEditor EXCEPT !.saving = s]
    BY <1>1, <1>9 DEF SaveTask, EditorsTyped
  <2> QED
    BY <2>1 DEF EditorRecords
<1>10. CASE \E s \in Slots : SaveTask(s)
  <2> PICK s \in Slots : SaveTask(s)
    BY <1>10
  <2>1. taskEditor'.saving = s
    BY <1>9
  <2> QED
    BY <1>3, <2>1
<1>11. CASE \E s \in Slots : Sends(s) /\ ~SaveTask(s)
  BY <1>4, <1>11 DEF Sends, SaveRecord, Undo, TrashTask, DropRecord, ToggleRow, CreateTask,
     editors
<1>12. ASSUME NEW s \in Slots, taskEditor' = Release(taskEditor, s)
       PROVE  taskEditor'.saving = taskEditor.saving
  BY <1>1, <1>3, <1>12, ReleaseTyped DEF EditorsTyped
<1>13. CASE \E s \in Slots : ReadTask(s) \/ WriteTask(s) \/ WriteOther(s) \/ RequestFails(s)
  <2> PICK s \in Slots : ReadTask(s) \/ WriteTask(s) \/ WriteOther(s) \/ RequestFails(s)
    BY <1>13
  <2>1. Refused(s) \/ UNCHANGED editors
    BY WriteOtherCases DEF ReadTask, WriteTask, Wrote, RequestFails
  <2> QED
    BY <1>3, <1>4, <1>12, <2>1 DEF Refused, editors
<1>14. CASE \E s \in Slots : Answered(s)
  <2> PICK s \in Slots : Answered(s)
    BY <1>14
  <2>1. Refused(s) \/ Render(editorDirty)
    BY AnsweredCases
  <2> QED
    BY <1>3, <1>5, <1>12, <2>1 DEF Refused
<1>15. CASE \E s \in Slots : NextKey(s)
  BY <1>4, <1>15 DEF NextKey, editors
<1>16. CASE \E s \in Slots : Settle(s)
  <2> PICK s \in Slots : Settle(s)
    BY <1>16
  <2>1. ToastShown(s) \/ DraftSaved(s) \/ CreatedShown(s) \/ TrashedLeft(s) \/ DroppedLeft(s)
    BY <1>1, SettleCases
  <2>2. CASE DraftSaved(s)
    BY <1>3, <1>12, <2>2 DEF DraftSaved
  <2>3. CASE ~DraftSaved(s)
    BY <1>4, <1>5, <2>1, <2>3 DEF ToastShown, CreatedShown, SelectItem, TrashedLeft,
       DroppedLeft, editors
  <2> QED
    BY <2>2, <2>3
<1>17. CASE \E q \in Queries : FetchDelivers(q) \/ FetchFails(q)
  BY <1>4, <1>5, <1>17 DEF FetchDelivers, FetchFails, Fetched
<1>18. CASE \E q \in Queries : Retry(q) \/ Reads(q)
  BY <1>4, <1>18, ReadFrame DEF Retry, editors
<1>19. CASE \E s \in Slots : Sends(s)
  BY <1>10, <1>11, <1>19
<1>20. CASE \E q \in Queries : Retry(q) \/ Reads(q) \/ FetchDelivers(q) \/ FetchFails(q)
  BY <1>17, <1>18, <1>20
<1>21. CASE \E s \in Slots : \/ ReadTask(s) \/ WriteTask(s) \/ WriteOther(s) \/ Answered(s)
                            \/ NextKey(s) \/ Settle(s) \/ RequestFails(s)
  BY <1>13, <1>14, <1>15, <1>16, <1>21
<1> QED
  BY <1>6, <1>7, <1>8, <1>19, <1>20, <1>21, NextCases

\* The end of a request lets go of the editor that sent it.
LEMMA Released ==
  ASSUME EditorsTyped, NEW s \in Slots, taskEditor # Nothing,
         taskEditor' = Release(taskEditor, s), taskEditor'.saving # 0
  PROVE  taskEditor.saving # s
<1> PICK e \in EditorRecords : e = taskEditor
  BY DEF EditorsTyped
<1>1. e.saving = s => Release(e, s).saving = 0
  BY ReleaseTyped
<1> QED
  BY <1>1

LEMMA SavesStay ==
  ASSUME PageHolds, Saves, [Next]_vars
  PROVE  Saves'
<1>1. /\ PageTyped /\ RequestsTyped /\ EditorsTyped /\ CacheTyped /\ RowsTyped
      /\ EditorsTyped' /\ Mirrors
  BY TypesStay DEF PageHolds, PageTyped
<1> SUFFICES ASSUME taskEditor' # Nothing, taskEditor'.saving # 0
             PROVE  Saves'
  BY DEF Saves
<1>2. /\ taskEditor # Nothing
      /\ taskEditor'.item = taskEditor.item /\ taskEditor'.base = taskEditor.base
      /\ taskEditor'.saving = taskEditor.saving \/ SaveTask(taskEditor'.saving)
  BY <1>1, SavingSteps
<1> PICK k \in Slots : k = taskEditor'.saving
  BY <1>1 DEF EditorsTyped, EditorRecords
<1> PICK e \in EditorRecords : e = taskEditor
  BY <1>1, <1>2 DEF EditorsTyped
<1> PICK i \in Items : i = e.item
  BY DEF EditorRecords
<1> PICK at \in Nat : at = e.base.at
  BY DEF EditorRecords, Row
<1>3. CASE taskEditor'.saving # taskEditor.saving
  <2> PICK changed : changed = Differs(e.base, e.text, e.done)
    OBVIOUS
  <2> PICK quiet : quiet = (Settled /\ OnTime)
    OBVIOUS
  <2>1. Send(k, "update", i, "editor", e.text, e.done, changed, Nothing)
    BY <1>2, <1>3 DEF SaveTask
  <2>2. request'[k] = [kind |-> "update", phase |-> "sent", item |-> i, from |-> "editor",
                       text |-> e.text, done |-> e.done, changed |-> changed,
                       copy |-> Nothing, read |-> FALSE, stage |-> 0, waits |-> {},
                       quiet |-> quiet]
    BY <2>1 DEF Send
  <2>3. /\ request'[k].kind = "update" /\ request'[k].phase = "sent" /\ request'[k].item = i
        /\ request'[k].from = "editor"
    BY <2>2
  <2>4. taskEditor'.item = i
    BY <1>2
  <2> QED
    BY <2>3, <2>4 DEF Saves
<1>4. CASE taskEditor'.saving = taskEditor.saving
  <2>1. /\ k = taskEditor.saving /\ k # 0
        /\ request[k].kind = "update" /\ request[k].from = "editor" /\ request[k].item = i
        /\ request[k].phase # "idle" /\ request[k] \in Request
        /\ request[k].phase \in {"applied", "refresh"} => row[i].at > at
    BY <1>1, <1>2, <1>4 DEF Saves, RequestsTyped
  <2>2. ASSUME request'[k].kind = request[k].kind, request'[k].from = request[k].from,
               request'[k].item = request[k].item,
               \/ request'[k].phase = request[k].phase
               \/ request'[k].phase = "read"
               \/ request'[k].phase = "applied" /\ row'[i].at > at
               \/ /\ request'[k].phase = "refresh" /\ request[k].phase = "applied"
                  /\ Replaced(taskEditor)'
        PROVE  Saves'
    BY <1>2, <1>4, <2>1, <2>2, SavesKept
  <2>3. CASE request'[k] = request[k]
    BY <2>2, <2>3
  <2>4. ASSUME NEW W, request'[k] = [request[k] EXCEPT !.waits = W]
        PROVE  Saves'
    BY <2>1, <2>2, <2>4 DEF Request
  <2>5. CASE Moves
    BY <2>1, <2>3, <2>5 DEF Moves, Select, ClearSelection, ToggleInspector, Navigate
  <2>6. CASE TypeTask \/ TypeRecord \/ UndoExpires \/ UNCHANGED vars
    BY <2>3, <2>6 DEF TypeTask, TypeRecord, UndoExpires, vars
  <2>7. ASSUME NEW s \in Slots, Sends(s)
        PROVE  Saves'
    <3>1. /\ request[s].phase = "idle"
          /\ \A r \in Slots : r # s => request'[r] = [request[r] EXCEPT !.quiet = FALSE]
      BY <2>7 DEF Sends, SaveTask, Undo, TrashTask, SaveRecord, DropRecord, ToggleRow,
         CreateTask, Send
    <3>2. request'[k] = [request[k] EXCEPT !.quiet = FALSE]
      BY <2>1, <3>1
    <3> QED
      BY <2>1, <2>2, <3>2 DEF Request
  <2>8. ASSUME NEW s \in Slots, Refused(s)
        PROVE  Saves'
    <3>1. s # k
      BY <1>1, <1>2, <2>1, <2>8, Released DEF Refused
    <3>2. request'[k] = request[k]
      BY <1>1, <2>8, <3>1 DEF Refused, RequestsTyped
    <3> QED
      BY <2>3, <3>2
  <2>9. ASSUME NEW s \in Slots, ReadTask(s), ~Refused(s)
        PROVE  Saves'
    <3> PICK b : b = row[request[s].item].done
      OBVIOUS
    <3>1. request' = [request EXCEPT ![s].phase = "read", ![s].read = b]
      BY <2>9 DEF ReadTask
    <3>2. CASE s # k
      <4>1. request'[k] = request[k]
        BY <1>1, <3>1, <3>2 DEF RequestsTyped
      <4> QED
        BY <2>3, <4>1
    <3>3. CASE s = k
      <4>1. request'[k] = [request[k] EXCEPT !.phase = "read", !.read = b]
        BY <1>1, <3>1, <3>3 DEF RequestsTyped
      <4>2. /\ request'[k].phase = "read" /\ request'[k].kind = request[k].kind
            /\ request'[k].from = request[k].from /\ request'[k].item = request[k].item
        BY <2>1, <4>1 DEF Request
      <4> QED
        BY <2>2, <4>2
    <3> QED
      BY <3>2, <3>3
  <2>10. ASSUME NEW s \in Slots, request' = [request EXCEPT ![s].phase = "applied"],
                s = k => row'[i].at > at
         PROVE  Saves'
    <3>1. CASE s # k
      <4>1. request'[k] = request[k]
        BY <1>1, <2>10, <3>1 DEF RequestsTyped
      <4> QED
        BY <2>3, <4>1
    <3>2. CASE s = k
      <4>1. request'[k] = [request[k] EXCEPT !.phase = "applied"]
        BY <1>1, <2>10, <3>2 DEF RequestsTyped
      <4>2. /\ request'[k].phase = "applied" /\ request'[k].kind = request[k].kind
            /\ request'[k].from = request[k].from /\ request'[k].item = request[k].item
        BY <2>1, <4>1 DEF Request
      <4> QED
        BY <2>2, <2>10, <3>2, <4>2
    <3> QED
      BY <3>1, <3>2
  <2>11. ASSUME NEW s \in Slots, WriteTask(s), ~Refused(s)
         PROVE  Saves'
    <3> PICK new : new = Written(row[i], request[k].text, request[k].done, TRUE)
      OBVIOUS
    <3>5. request' = [request EXCEPT ![s].phase = "applied"]
      BY <2>11 DEF WriteTask
    <3>6. ASSUME s = k
          PROVE  row' = [row EXCEPT ![i] = new]
      <4>1. WriteTask(k) /\ ~Refused(k)
        BY <2>11, <3>6
      <4>2. row' = [row EXCEPT ![request[k].item] =
                      Written(row[request[k].item], request[k].text, request[k].done, TRUE)]
        BY <4>1 DEF WriteTask
      <4> QED
        BY <2>1, <4>2
    <3>1. /\ request' = [request EXCEPT ![s].phase = "applied"]
          /\ s = k => row' = [row EXCEPT ![i] = new]
      BY <3>5, <3>6
    <3>2. row[i].at \in Nat /\ at <= row[i].at
      BY <1>1, <1>2 DEF RowsTyped, Row, PageHolds, Versions, Version
    <3>3. s = k => row'[i].at = row[i].at + 1
      <4>1. s = k => row'[i] = new
        BY <1>1, <3>1 DEF RowsTyped
      <4>2. new.at = row[i].at + 1
        BY DEF Written
      <4> QED
        BY <4>1, <4>2
    <3>4. s = k => row'[i].at > at
      BY <3>2, <3>3
    <3> QED
      BY <2>10, <3>1, <3>4
  <2>12. ASSUME NEW s \in Slots, WriteOther(s), ~Refused(s)
         PROVE  Saves'
    <3>1. s # k
      BY <2>1, <2>12 DEF WriteOther
    <3>2. request' = [request EXCEPT ![s].phase = "applied"]
      BY <2>12, WriteOtherCases DEF Wrote
    <3> QED
      BY <2>10, <3>1, <3>2
  <2>13. ASSUME NEW s \in Slots, NEW K, NEW cache, NEW stage, Invalidate(s, K, cache, stage),
                s = k => \/ request[k].phase = "refresh"
                         \/ request[k].phase = "applied" /\ Replaced(taskEditor)'
         PROVE  Saves'
    <3> PICK shown : shown = {p \in K : IsMounted(p)}
      OBVIOUS
    <3> PICK again : again = {p \in shown : cache[p].data # Nothing \/ cache[p].fetch = "idle"}
      OBVIOUS
    <3>1. request'[k] = IF k = s
             THEN [request[k] EXCEPT !.phase = "refresh", !.stage = stage, !.waits = shown]
             ELSE [request[k] EXCEPT !.waits = @ \ again]
      BY <2>13 DEF Invalidate
    <3>2. CASE s # k
      BY <2>4, <3>1, <3>2
    <3>3. CASE s = k
      <4>1. /\ request'[k].phase = "refresh" /\ request'[k].kind = request[k].kind
            /\ request'[k].from = request[k].from /\ request'[k].item = request[k].item
        BY <2>1, <3>1, <3>3 DEF Request
      <4> QED
        BY <2>2, <2>13, <3>3, <4>1
    <3> QED
      BY <3>2, <3>3
  <2>14. ASSUME NEW s \in Slots, Answered(s), ~Refused(s)
         PROVE  Saves'
    <3> PICK K : K = Invalidates(request[s].kind)[1]
      OBVIOUS
    <3> PICK cache : cache = AnswerCache(s)
      OBVIOUS
    <3>1. request[s].phase = "applied" /\ Invalidate(s, K, cache, 1) /\ row' = row
      BY <2>14, AnsweredCases DEF rows
    <3>2. ASSUME s = k
          PROVE  Replaced(taskEditor)'
      <4>1. i \in Tasks /\ i \in Queries
        BY <1>1, <1>2 DEF EditorsTyped, Queries
      <4>2. i \in K
        BY <2>1, <3>2, <4>1, InvalidatesTasks
      <4>3. IsMounted(i)
        BY <1>1, <1>2 DEF Mirrors, IsMounted, Mounted
      <4>4. /\ cache[i] \in CacheEntry(i) /\ cache[i].fetch = entry[i].fetch
            /\ cache[i].answer = entry[i].answer
        BY <1>1, <4>1, AnswerCacheFetches
      <4>5. cache = entry
        BY <2>1, <3>2 DEF AnswerCache
      <4>6. entry[i].data # Nothing
        BY <1>1, <1>2, <4>1 DEF Mirrors, EditedTask, Usable
      <4>7. entry'[i].fetch = "sent"
        BY <3>1, <4>1, <4>2, <4>3, <4>4, <4>5, <4>6, InvalidateFetches
      <4>8. row'[i].at > at
        BY <2>1, <3>1, <3>2
      <4>9. taskEditor'.item = i /\ taskEditor'.base.at = at
        BY <1>2
      <4> QED
        BY <4>7, <4>8, <4>9 DEF Replaced
    <3> QED
      BY <2>13, <3>1, <3>2
  <2>15. ASSUME NEW s \in Slots, NextKey(s)
         PROVE  Saves'
    BY <2>13, <2>15 DEF NextKey
  <2>16. ASSUME NEW s \in Slots, Settle(s)
         PROVE  Saves'
    <3>1. CASE s # k
      <4>1. request'[k] = request[k]
        BY <1>1, <2>16, <3>1 DEF Settle, RequestsTyped
      <4> QED
        BY <2>3, <4>1
    <3>2. CASE s = k
      <4>1. DraftSaved(s)
        BY <1>1, <2>1, <2>16, <3>2, SettleCases DEF ToastShown, CreatedShown, TrashedLeft,
           DroppedLeft
      <4> QED
        BY <1>1, <1>2, <2>1, <3>2, <4>1, Released DEF DraftSaved
    <3> QED
      BY <3>1, <3>2
  <2>17. ASSUME NEW q \in Queries, Retry(q) \/ Reads(q) \/ FetchDelivers(q) \/ FetchFails(q)
         PROVE  Saves'
    <3>1. \/ request'[k] = request[k]
          \/ \E W : request'[k] = [request[k] EXCEPT !.waits = W]
      BY <2>17, ReadFrame DEF Retry, FetchDelivers, FetchFails, Fetched
    <3> QED
      BY <2>3, <2>4, <3>1
  <2>18. ASSUME NEW s \in Slots, RequestFails(s)
         PROVE  Refused(s)
    BY <2>18 DEF RequestFails
  <2> QED
    BY <2>5, <2>6, <2>7, <2>8, <2>9, <2>11, <2>12, <2>14, <2>15, <2>16, <2>17, <2>18, NextCases
<1> QED
  BY <1>3, <1>4

\* The flag is up over a draft of the inspector that no other editor has
\* crowded, unless a newer version is about to replace the editor.
FlagFollows == (~crowded /\ Dirty(taskEditor)) => (editorDirty \/ Replaced(taskEditor))

LEMMA FlagStays ==
  ASSUME PageHolds, Together, Saves, FlagFollows, [Next]_vars
  PROVE  FlagFollows'
<1>1. /\ PageTyped /\ EditorsTyped /\ LeftTyped /\ CacheTyped' /\ EditorsTyped' /\ Mirrors
  BY TypesStay DEF PageHolds, PageTyped
<1> SUFFICES ASSUME ~crowded', Dirty(taskEditor'), ~editorDirty'
             PROVE  Replaced(taskEditor)'
  BY DEF FlagFollows, Dirty
<1>2. taskEditor' # Nothing
  BY DEF Dirty
<1>3. ASSUME taskEditor # Nothing, taskEditor'.item = taskEditor.item,
             taskEditor'.base = taskEditor.base, Replaced(taskEditor)
      PROVE  Replaced(taskEditor)'
  BY <1>2, <1>3, ReplacedStays
<1>4. ASSUME NEW flag, Render(flag)
      PROVE  taskEditor' = taskEditor
  BY <1>1, <1>2, <1>4, RenderedTask
<1>5. CASE Render(editorDirty)
  <2>1. taskEditor' = taskEditor /\ Dirty(taskEditor)
    BY <1>4, <1>5
  <2>2. ~crowded /\ recordEditor' = Nothing
    BY <1>5, CrowdSays DEF Render
  <2>3. recordEditor = Nothing
    BY <1>2, <2>1, <2>2 DEF Together
  <2>4. ~editorDirty
    BY <1>5, <2>1, <2>2, <2>3 DEF Render, editors
  <2> QED
    BY <1>2, <1>3, <2>1, <2>2, <2>4 DEF FlagFollows
<1>6. CASE /\ \E flag : Render(flag)
           /\ taskEditor' # taskEditor \/ taskEditor = Nothing
  BY <1>2, <1>4, <1>6
<1>7. CASE TypeTask
  <2>1. taskEditor \in EditorRecords /\ taskEditor # Nothing
    BY <1>1, <1>7 DEF TypeTask, EditorsTyped
  <2>2. taskEditor'.item = taskEditor.item /\ taskEditor'.base = taskEditor.base
    BY <1>1, <1>7, <2>1, TypedDraft DEF TypeTask
  <2>3. ~crowded
    BY <1>7, CrowdSays DEF TypeTask
  <2>4. editorDirty' = DraftFlag(taskEditor, taskEditor')
    BY <1>7 DEF TypeTask
  <2>5. Dirty(taskEditor) /\ ~editorDirty
    BY <2>4 DEF DraftFlag, Dirty
  <2> QED
    BY <1>3, <2>1, <2>2, <2>3, <2>5 DEF FlagFollows
<1>8. CASE TypeRecord
  <2>1. recordEditor \in EditorRecords
    BY <1>1, <1>8 DEF TypeRecord, EditorsTyped
  <2>2. recordEditor' \in EditorRecords
    BY <1>1, <1>8, <2>1, TypedDraft DEF TypeRecord
  <2>3. recordEditor' = Nothing
    BY <1>8, CrowdSays DEF TypeRecord
  <2> QED
    BY <2>2, <2>3, EditorAssumption
<1>9. ASSUME SameDrafts
      PROVE  /\ Dirty(taskEditor) /\ taskEditor # Nothing
             /\ taskEditor'.item = taskEditor.item /\ taskEditor'.base = taskEditor.base
  BY <1>9, SameDirty DEF SameDrafts, SameDraft, Dirty
<1>10. CASE SameDrafts /\ UNCHANGED flags
  BY <1>3, <1>9, <1>10 DEF FlagFollows, flags
<1>11. ASSUME NEW s \in Slots, DraftReleased(s)
       PROVE  Replaced(taskEditor)'
  <2>1. CASE taskEditor' = taskEditor
    BY <1>3, <1>9, <1>11, <2>1 DEF FlagFollows, DraftReleased
  <2>2. CASE taskEditor' # taskEditor
    <3>1. taskEditor.saving = s /\ s # 0
      BY <1>11, <2>2, PageAssumption DEF DraftReleased, Release
    <3>2. taskEditor # Nothing /\ request[s].phase = "refresh"
      BY <1>9, <1>11 DEF DraftReleased
    <3>3. Replaced(taskEditor)
      BY <3>1, <3>2 DEF Saves
    <3> QED
      BY <1>3, <1>9, <1>11, <3>3 DEF DraftReleased
  <2> QED
    BY <2>1, <2>2
<1> QED
  BY <1>1, <1>5, <1>6, <1>7, <1>8, <1>10, <1>11, FlagSteps

\* A rendering keeps an editor whose item stays on the screen with its data.
LEMMA KeepsTask ==
  ASSUME EditorsTyped, Mirrors, NEW flag, Render(flag), taskEditor # Nothing,
         inspectorOpen', selection' = selection,
         entry'[selection].data = entry[selection].data,
         entry'[selection].error = entry[selection].error
  PROVE  taskEditor' = taskEditor
<1> PICK i : i = selection
  OBVIOUS
<1> PICK cache : cache = entry'
  OBVIOUS
<1> PICK e : e = taskEditor
  OBVIOUS
<1>1. /\ i \in Tasks /\ e.item = i /\ e.base.at = cache[i].data[i].at
      /\ entry'[i].data # Nothing /\ ~entry'[i].error
  BY DEF EditorsTyped, Mirrors, Usable
<1>2. EditedTask' = i /\ i # Nothing
  BY <1>1, PageAssumption DEF EditedTask, Usable
<1>3. taskEditor' = Keep(e, EditedTask', entry')
  BY DEF Render
<1>4. taskEditor' = Keep(e, i, cache)
  BY <1>2, <1>3
<1> QED
  BY <1>1, <1>2, <1>4 DEF Keep

LEMMA KeepsRecord ==
  ASSUME EditorsTyped, Mirrors, NEW flag, Render(flag), recordEditor # Nothing,
         screen' = screen, entry'[Record].data = entry[Record].data,
         entry'[Record].error = entry[Record].error
  PROVE  recordEditor' = recordEditor
<1> PICK cache : cache = entry'
  OBVIOUS
<1> PICK e : e = recordEditor
  OBVIOUS
<1> PICK i : i = Record
  OBVIOUS
<1>1. /\ e.item = i /\ e.base.at = cache[i].data[i].at /\ screen = "record"
      /\ entry'[i].data # Nothing /\ ~entry'[i].error
  BY DEF EditorsTyped, Mirrors, Usable
<1>2. EditedRecord' = i /\ i # Nothing
  BY <1>1, PageAssumption DEF EditedRecord, Usable
<1>3. recordEditor' = Keep(e, EditedRecord', entry')
  BY DEF Render
<1>4. recordEditor' = Keep(e, i, cache)
  BY <1>2, <1>3
<1> QED
  BY <1>1, <1>2, <1>4 DEF Keep

LEMMA NotLost ==
  ASSUME NEW e, NEW f, \/ f = e
                       \/ SameDraft(e, f)
                       \/ f # Nothing /\ f.item = e.item /\ f.base = e.base
  PROVE  ~Lost(e, f)
BY DEF Lost, Dirty, SameDraft

LEMMA MountKeeps ==
  ASSUME CacheTyped, Mount(entry), NEW q \in Queries
  PROVE  entry'[q].data = entry[q].data /\ entry'[q].error = entry[q].error
<1>1. entry[q] \in CacheEntry(q)
  BY DEF CacheTyped
<1>2. \/ entry'[q] = entry[q]
      \/ entry'[q] = [entry[q] EXCEPT !.fetch = "sent", !.late = FALSE]
  BY DEF Mount
<1> QED
  BY <1>1, <1>2 DEF CacheEntry, CacheRecord

DraftHolds == PageHolds /\ Together /\ Saves /\ FlagFollows

LEMMA DraftsStay ==
  /\ Init => DraftHolds
  /\ DraftHolds /\ [Next]_vars => DraftHolds'
<1>1. ASSUME Init
      PROVE  DraftHolds
  <2>1. PageHolds
    BY <1>1, PageStays
  <2>2. EditorsTyped /\ CacheTyped
    BY <2>1 DEF PageHolds, PageTyped
  <2> PICK te : te = taskEditor
    OBVIOUS
  <2> PICK re : re = recordEditor
    OBVIOUS
  <2> PICK cache : cache = entry
    OBVIOUS
  <2> PICK none : none = Nothing
    OBVIOUS
  <2>3. te = Keep(none, EditedTask, cache) /\ re = Keep(none, EditedRecord, cache)
    BY <1>1 DEF Init
  <2>4. ASSUME NEW i \in Items, Usable(i)
        PROVE  LET e == Keep(none, i, cache)
               IN  ~Dirty(e) /\ e.saving = 0
    <3>1. i # Nothing
      BY PageAssumption DEF Items
    <3> PICK copy \in Row : copy = entry[i].data[i]
      BY <2>2, <2>4, EditedCopy
    <3>2. Keep(none, i, cache) = Editor(i, copy)
      BY <3>1 DEF Keep
    <3> QED
      BY <3>2, FreshEditor
  <2>5. EditedTask # Nothing => EditedTask \in Items /\ Usable(EditedTask)
    BY EditedForms DEF Items
  <2>6. EditedRecord # Nothing => EditedRecord \in Items /\ Usable(EditedRecord)
    BY EditedForms DEF Items
  <2>7. te # Nothing => ~Dirty(te) /\ te.saving = 0
    BY <2>3, <2>4, <2>5 DEF Keep
  <2>8. re # Nothing => ~Dirty(re)
    BY <2>3, <2>4, <2>6 DEF Keep
  <2>9. ~Dirty(taskEditor) /\ ~Dirty(recordEditor)
    BY <2>7, <2>8 DEF Dirty
  <2> QED
    BY <2>1, <2>7, <2>9 DEF DraftHolds, Together, Saves, FlagFollows
<1>2. ASSUME DraftHolds, [Next]_vars
      PROVE  DraftHolds'
  <2>1. PageHolds'
    BY <1>2, PageStays DEF DraftHolds
  <2>2. Together'
    BY <1>2, TogetherStays DEF DraftHolds, PageHolds
  <2>3. Saves' /\ FlagFollows'
    BY <1>2, SavesStay, FlagStays DEF DraftHolds
  <2> QED
    BY <2>1, <2>2, <2>3 DEF DraftHolds
<1> QED
  BY <1>1, <1>2

\* What the inspector's editor and the record's editor show is mounted.
LEMMA EditedMounted ==
  ASSUME EditorsTyped, Mirrors
  PROVE  /\ taskEditor # Nothing => selection \in Queries /\ IsMounted(selection)
         /\ recordEditor # Nothing => Record \in Queries /\ IsMounted(Record)
BY DEF EditorsTyped, Mirrors, IsMounted, Mounted, Queries, Items

LEMMA QuietDrafts ==
  ASSUME DraftHolds, [Next]_vars, Settled, ~crowded,
         Lost(taskEditor, taskEditor') \/ Lost(recordEditor, recordEditor')
  PROVE  asked'
<1>1. /\ PageTyped /\ EditorsTyped /\ CacheTyped /\ RequestsTyped /\ LeftTyped /\ Mirrors
      /\ FlagFollows
  BY DEF DraftHolds, PageHolds, PageTyped
<1>2. /\ taskEditor # Nothing => selection \in Queries /\ IsMounted(selection)
      /\ recordEditor # Nothing => Record \in Queries /\ IsMounted(Record)
  BY <1>1, EditedMounted
\* A draft that is lost was there.
<1>3. /\ Lost(taskEditor, taskEditor') => taskEditor # Nothing /\ Dirty(taskEditor)
      /\ Lost(recordEditor, recordEditor') => recordEditor # Nothing /\ Dirty(recordEditor)
  BY DEF Lost, Dirty
<1>4. Dirty(taskEditor) => editorDirty
  <2>1. ASSUME taskEditor # Nothing, Replaced(taskEditor)
        PROVE  FALSE
    <3>1. selection = taskEditor.item /\ entry[selection].fetch = "idle"
      BY <1>1, <1>2, <2>1 DEF Mirrors, Settled
    <3> QED
      BY <2>1, <3>1 DEF Replaced
  <2> QED
    BY <1>1, <2>1 DEF FlagFollows, Dirty
<1>5. ASSUME NEW flag, Render(flag), DataKept, screen' = screen
      PROVE  ~Lost(recordEditor, recordEditor')
  BY <1>1, <1>3, <1>5, KeepsRecord, NotLost DEF DataKept, Items
<1>6. ASSUME NEW flag, Render(flag), DataKept, inspectorOpen', selection' = selection
      PROVE  ~Lost(taskEditor, taskEditor')
  <2>1. taskEditor # Nothing => selection \in Items
    BY <1>1 DEF Mirrors, EditorsTyped, Items
  <2> QED
    BY <1>1, <1>3, <1>6, <2>1, KeepsTask, NotLost DEF DataKept
<1>7. Mount(entry) => DataKept
  BY <1>1, MountKeeps DEF DataKept, Queries
<1>8. CASE UNCHANGED editors \/ SameDrafts
  BY <1>8, NotLost DEF editors, SameDrafts
<1>9. ASSUME NEW i \in Items, Select(i)
      PROVE  asked'
  <2>1. Mount(entry) /\ inspectorOpen' /\ selection' = i /\ screen' = screen
    BY <1>9 DEF Select, SelectItem
  <2>2. CASE selection = i
    <3>1. Render(editorDirty)
      BY <1>9, <2>2 DEF Select, SelectItem
    <3> QED
      BY <1>5, <1>6, <1>7, <2>1, <2>2, <3>1
  <2>3. CASE selection # i
    <3>1. Render(FALSE) /\ asked' = editorDirty
      BY <1>9, <2>3 DEF Select, SelectItem, Confirmed
    <3> QED
      BY <1>3, <1>4, <1>5, <1>7, <2>1, <3>1
  <2> QED
    BY <2>2, <2>3
<1>10. CASE ClearSelection
  <2>1. Render(FALSE) /\ asked' = editorDirty /\ screen' = screen /\ UNCHANGED entry
    BY <1>10 DEF ClearSelection, Confirmed
  <2>2. DataKept
    BY <2>1 DEF DataKept
  <2> QED
    BY <1>3, <1>4, <1>5, <2>1, <2>2
<1>11. CASE ToggleInspector
  <2> PICK flag : flag = (~inspectorOpen /\ editorDirty)
    OBVIOUS
  <2>1. Render(flag) /\ Mount(entry) /\ screen' = screen
    BY <1>11 DEF ToggleInspector
  <2>2. taskEditor # Nothing => asked' = editorDirty
    BY <1>1, <1>11 DEF ToggleInspector, Confirmed, Mirrors
  <2> QED
    BY <1>3, <1>4, <1>5, <1>7, <2>1, <2>2
<1>12. ASSUME NEW to \in Screens, Navigate(to)
       PROVE  asked'
  <2>1. /\ Render(editorDirty) /\ Mount(entry) /\ asked' = Dirty(recordEditor)
        /\ selection' = selection /\ inspectorOpen' = inspectorOpen
    BY <1>12 DEF Navigate
  <2>2. taskEditor # Nothing => inspectorOpen'
    BY <1>1, <2>1 DEF Mirrors
  <2> QED
    BY <1>3, <1>6, <1>7, <2>1, <2>2
<1>13. CASE Moves
  BY <1>9, <1>10, <1>11, <1>12, <1>13 DEF Moves
<1>14. CASE TypeTask
  <2>1. taskEditor \in EditorRecords
    BY <1>1, <1>14 DEF TypeTask, EditorsTyped
  <2>2. /\ taskEditor' # Nothing
        /\ taskEditor'.item = taskEditor.item /\ taskEditor'.base = taskEditor.base
    BY <1>1, <1>14, <2>1, TypedDraft, EditorAssumption DEF TypeTask
  <2>3. recordEditor' = recordEditor
    BY <1>14 DEF TypeTask
  <2> QED
    BY <2>2, <2>3, NotLost
<1>15. CASE TypeRecord
  <2>1. recordEditor \in EditorRecords
    BY <1>1, <1>15 DEF TypeRecord, EditorsTyped
  <2>2. /\ recordEditor' # Nothing
        /\ recordEditor'.item = recordEditor.item /\ recordEditor'.base = recordEditor.base
    BY <1>1, <1>15, <2>1, TypedDraft, EditorAssumption DEF TypeRecord
  <2>3. taskEditor' = taskEditor
    BY <1>15 DEF TypeRecord
  <2> QED
    BY <2>2, <2>3, NotLost
<1>16. CASE \E s \in Slots : Sends(s)
  BY <1>1, <1>8, <1>16, SendsSame
<1>17. ASSUME NEW s \in Slots, \/ ReadTask(s) \/ WriteTask(s) \/ WriteOther(s) \/ Answered(s)
                               \/ NextKey(s) \/ Settle(s) \/ RequestFails(s)
       PROVE  FALSE
  <2>1. request[s].phase = "idle"
    BY DEF Settled
  <2> QED
    BY <1>17, <2>1 DEF ReadTask, WriteTask, WriteOther, Answered, NextKey, Settle, RequestFails
<1>18. ASSUME NEW q \in Queries, FetchDelivers(q) \/ FetchFails(q)
       PROVE  asked'
  <2>1. ~IsMounted(q)
    BY <1>18 DEF Settled, FetchDelivers, FetchFails
  <2>2. Render(editorDirty) /\ UNCHANGED layout
    BY <1>18 DEF FetchDelivers, FetchFails, Fetched
  <2>3. ASSUME NEW p \in Queries, IsMounted(p)
        PROVE  entry'[p] = entry[p]
    BY <1>1, <1>18, <2>1, <2>3 DEF FetchDelivers, FetchFails, Fetched, CacheTyped
  <2>4. ~Lost(taskEditor, taskEditor')
    <3>1. taskEditor # Nothing => inspectorOpen' /\ selection' = selection
      BY <1>1, <2>2 DEF Mirrors, layout
    <3> QED
      BY <1>1, <1>2, <1>3, <2>2, <2>3, <3>1, KeepsTask, NotLost
  <2>5. ~Lost(recordEditor, recordEditor')
    BY <1>1, <1>2, <1>3, <2>2, <2>3, KeepsRecord, NotLost DEF layout
  <2> QED
    BY <2>4, <2>5
<1>19. CASE \E q \in Queries : Retry(q) \/ Reads(q)
  BY <1>8, <1>19, ReadFrame DEF Retry
<1>20. CASE UndoExpires \/ UNCHANGED vars
  BY <1>8, <1>20 DEF UndoExpires, vars
<1>21. CASE \E q \in Queries : Retry(q) \/ Reads(q) \/ FetchDelivers(q) \/ FetchFails(q)
  BY <1>18, <1>19, <1>21
<1> QED
  BY <1>13, <1>14, <1>15, <1>16, <1>17, <1>20, <1>21, NextCases

\* On a settled page, and with no other editor open since the draft was begun,
\* no step throws edits away unless the user was asked and went on
\* (confirmDiscardChanges, useBlocker): the flag is up over every such draft.
THEOREM QuietDraftsAlwaysSurvive == Spec => QuietDraftsSurvive
<1>1. DraftHolds /\ [Next]_vars =>
        [(Settled /\ ~crowded
          /\ (Lost(taskEditor, taskEditor') \/ Lost(recordEditor, recordEditor')))
         => asked']_vars
  BY QuietDrafts
<1> QED
  BY <1>1, DraftsStay, PTL DEF Spec, QuietDraftsSurvive

-----------------------------------------------------------------------------
(* The type invariant of the specification.                                *)

FlagsTyped == editorDirty \in BOOLEAN /\ crowded \in BOOLEAN /\ asked \in BOOLEAN

LEMMA RenderFlags ==
  ASSUME NEW flag, Render(flag)
  PROVE  editorDirty' \in BOOLEAN /\ crowded' \in BOOLEAN
<1>1. editorDirty' = (flag /\ editors' = editors)
  BY DEF Render
<1>2. crowded' = /\ Dirty(taskEditor') \/ Dirty(recordEditor')
                 /\ crowded \/ Nothing \notin {taskEditor', recordEditor'}
  BY DEF Render, Crowd
<1> QED
  BY <1>1, <1>2

LEMMA FlagsStay ==
  ASSUME PageTyped, FlagsTyped, [Next]_vars
  PROVE  FlagsTyped'
<1>1. ASSUME NEW flag, Render(flag), asked' \in {FALSE, editorDirty} \/ asked' = Dirty(recordEditor)
      PROVE  FlagsTyped'
  <2>1. Dirty(recordEditor) \in BOOLEAN
    BY DEF Dirty
  <2>2. asked' \in BOOLEAN
    BY <1>1, <2>1 DEF FlagsTyped
  <2> QED
    BY <1>1, <2>2, RenderFlags DEF FlagsTyped
<1>2. ASSUME UNCHANGED flags, asked' \in {FALSE, asked}
      PROVE  FlagsTyped'
  BY <1>2 DEF FlagsTyped, flags
<1>3. ASSUME NEW i \in Items, SelectItem(i)
      PROVE  FlagsTyped'
  BY <1>1, <1>3 DEF SelectItem, Confirmed
<1>4. CASE Moves
  <2>1. ASSUME NEW i \in Items, Select(i)
        PROVE  FlagsTyped'
    BY <1>3, <2>1 DEF Select
  <2>2. CASE ClearSelection
    BY <1>1, <2>2 DEF ClearSelection, Confirmed
  <2>3. CASE ToggleInspector
    <3> PICK flag : flag = (~inspectorOpen /\ editorDirty)
      OBVIOUS
    <3>1. Render(flag) /\ asked' \in {FALSE, editorDirty}
      BY <2>3 DEF ToggleInspector, Confirmed
    <3> QED
      BY <1>1, <3>1
  <2>4. ASSUME NEW to \in Screens, Navigate(to)
        PROVE  FlagsTyped'
    BY <1>1, <2>4 DEF Navigate
  <2> QED
    BY <1>4, <2>1, <2>2, <2>3, <2>4 DEF Moves
<1>5. CASE TypeTask
  <2>1. editorDirty' = DraftFlag(taskEditor, taskEditor') /\ asked' = FALSE /\ Crowd
    BY <1>5 DEF TypeTask
  <2> QED
    BY <2>1 DEF FlagsTyped, DraftFlag, Dirty, Crowd
<1>6. CASE TypeRecord
  <2>1. editorDirty' = DraftFlag(recordEditor, recordEditor') /\ asked' = FALSE /\ Crowd
    BY <1>6 DEF TypeRecord
  <2> QED
    BY <2>1 DEF FlagsTyped, DraftFlag, Dirty, Crowd
<1>7. CASE \E s \in Slots : Sends(s)
  BY <1>2, <1>7 DEF Sends, Undo, TrashTask, DropRecord, ToggleRow, CreateTask, SaveTask, SaveRecord
<1>8. CASE \E q \in Queries : Retry(q) \/ Reads(q) \/ FetchDelivers(q) \/ FetchFails(q)
  BY <1>1, <1>2, <1>8, ReadFrame DEF Retry, FetchDelivers, FetchFails, Fetched
<1>9. CASE UndoExpires \/ UNCHANGED vars
  BY <1>2, <1>9 DEF UndoExpires, vars
<1>10. ASSUME NEW s \in Slots, \/ ReadTask(s) \/ WriteTask(s) \/ WriteOther(s) \/ NextKey(s)
                               \/ RequestFails(s)
       PROVE  FlagsTyped'
  <2>1. UNCHANGED flags
    BY <1>10, WriteOtherCases DEF ReadTask, WriteTask, Wrote, NextKey, RequestFails, Refused
  <2>2. CASE WriteOther(s)
    <3>1. request[s].kind \in {"create", "save", "trash", "drop"}
      BY <2>2 DEF WriteOther, PageTyped, RequestsTyped, Formed, Request, Kinds
    <3>2. asked' = FALSE
      BY <2>2, <3>1 DEF WriteOther, Refused
    <3> QED
      BY <1>2, <2>1, <3>2
  <2>3. CASE ~WriteOther(s)
    <3>1. asked' = FALSE
      BY <1>10, <2>3 DEF ReadTask, WriteTask, NextKey, RequestFails, Refused
    <3> QED
      BY <1>2, <2>1, <3>1
  <2> QED
    BY <2>2, <2>3
<1>11. ASSUME NEW s \in Slots, Answered(s)
       PROVE  FlagsTyped'
  <2>1. Render(editorDirty) \/ UNCHANGED flags
    BY <1>11, AnsweredCases DEF Refused
  <2>2. asked' = FALSE
    BY <1>11 DEF Answered, Refused, Invalidate
  <2> QED
    BY <1>1, <1>2, <2>1, <2>2
<1>12. ASSUME NEW s \in Slots, Settle(s)
       PROVE  FlagsTyped'
  <2>1. request[s].kind \in {"create", "update", "save", "trash", "drop"}
    BY <1>12 DEF Settle, PageTyped, RequestsTyped, Formed, Request, Kinds
  <2>2. CASE request[s].kind = "create"
    <3>1. request[s].item \in Items
      BY <2>2 DEF PageTyped, RequestsTyped, Formed, Items
    <3>2. SelectItem(request[s].item) \/ (UNCHANGED flags /\ asked' = FALSE)
      BY <1>12, <2>2 DEF Settle
    <3> QED
      BY <1>2, <1>3, <3>1, <3>2
  <2>3. CASE request[s].kind \in {"update", "save"} /\ request[s].from = "board"
    <3>1. request[s].kind = "update"
      BY <1>12, <2>3 DEF Settle, PageTyped, RequestsTyped, Formed
    <3> QED
      BY <1>2, <1>12, <2>3, <3>1 DEF Settle
  <2>4. CASE request[s].kind \in {"update", "save"} /\ request[s].from # "board"
    <3>1. /\ editorDirty' = IF request[s].kind = "update" /\ taskEditor' # taskEditor
                            THEN FALSE ELSE editorDirty
          /\ asked' = FALSE /\ crowded' = crowded
      BY <1>12, <2>4 DEF Settle
    <3> QED
      BY <3>1 DEF FlagsTyped
  <2>5. CASE request[s].kind = "trash"
    BY <1>1, <1>12, <2>5 DEF Settle
  <2>6. CASE request[s].kind = "drop"
    <3>1. \/ Render(editorDirty) /\ asked' = Dirty(recordEditor)
          \/ UNCHANGED flags /\ asked' = TRUE
      BY <1>12, <2>6 DEF Settle
    <3>2. Dirty(recordEditor) \in BOOLEAN
      BY DEF Dirty
    <3> QED
      BY <1>1, <3>1, <3>2 DEF FlagsTyped, flags
  <2> QED
    BY <2>1, <2>2, <2>3, <2>4, <2>5, <2>6
<1> QED
  BY <1>4, <1>5, <1>6, <1>7, <1>8, <1>9, <1>10, <1>11, <1>12, NextCases

NextTyped == next \in [Tasks -> Nat]

LEMMA NextStays ==
  ASSUME NextTyped, [Next]_vars
  PROVE  NextTyped'
<1>1. CASE UNCHANGED next
  BY <1>1 DEF NextTyped
<1>2. ASSUME NEW s \in Slots, WriteTask(s)
      PROVE  NextTyped'
  <2> DEFINE t == request[s].item
  <2>1. CASE row[t].live
    <3> DEFINE n == IF t \in Repeating /\ ~request[s].read /\ request[s].done
                    THEN next[t] + 1 ELSE next[t]
    <3>1. next' = [next EXCEPT ![t] = n]
      BY <1>2, <2>1, Zenon DEF WriteTask
    <3>2. t \in Tasks => n \in Nat
      BY DEF NextTyped
    <3> QED
      BY <3>1, <3>2 DEF NextTyped
  <2>2. CASE ~row[t].live
    BY <1>1, <1>2, <2>2 DEF WriteTask, Refused, rows
  <2> QED
    BY <2>1, <2>2
<1>3. ASSUME NEW s \in Slots, WriteOther(s)
      PROVE  NextTyped'
  BY <1>1, <1>3, WriteOtherCases DEF Wrote, Refused, rows
<1> QED
  BY <1>1, <1>2, <1>3, OnlyWritesTouchRows DEF vars, rows

\* Every variable of PageEditing keeps its type.
THEOREM PageTypes == Spec => []TypeOK
<1>1. Init => PageTyped /\ NextTyped /\ FlagsTyped
  <2>1. Init => FlagsTyped
    BY DEF Init, FlagsTyped
  <2>2. Init => NextTyped
    BY DEF Init, NextTyped
  <2> QED
    BY <2>1, <2>2, InitTyped
<1>2. PageTyped /\ NextTyped /\ FlagsTyped /\ [Next]_vars
        => (PageTyped /\ NextTyped /\ FlagsTyped)'
  BY TypesStay, NextStays, FlagsStay
<1>3. PageTyped /\ NextTyped /\ FlagsTyped => TypeOK
  <2> SUFFICES ASSUME PageTyped, NextTyped, FlagsTyped
               PROVE  TypeOK
    OBVIOUS
  <2>1. \A q \in Queries : /\ entry[q].error \in BOOLEAN
                           /\ entry[q].fetch \in {"idle", "sent", "open", "completed", "answered"}
    BY DEF PageTyped, CacheTyped, CacheEntry, CacheRecord
  <2>2. \A s \in Slots : request[s].phase \in {"idle", "sent", "read", "applied", "refresh"}
    BY DEF PageTyped, RequestsTyped, Request, Phases
  <2>3. /\ screen \in Screens \cup {"archives"}
        /\ selection \in Items \cup {Nothing} /\ inspectorOpen \in BOOLEAN
        /\ {taskEditor, recordEditor} \subseteq EditorRecords \cup {Nothing}
    BY DEF PageTyped, LayoutTyped, EditorsTyped
  <2>4. row \in [Items -> Row]
    BY DEF PageTyped, RowsTyped
  <2> QED
    BY <2>1, <2>2, <2>3, <2>4 DEF TypeOK, FlagsTyped, NextTyped
<1> QED
  BY <1>1, <1>2, <1>3, PTL DEF Spec
=============================================================================
