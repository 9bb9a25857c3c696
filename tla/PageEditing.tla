---------------------------- MODULE PageEditing ----------------------------
(***************************************************************************)
(* Editing tasks and archive records in the page.                          *)
(*                                                                         *)
(* Four parts of the program meet here.  The layout store                  *)
(* (stores/layout.ts) knows what the inspector shows and holds ONE flag,   *)
(* editorDirty, for every editor.  The two editors (TaskEditor in the      *)
(* inspector, ArchiveEditor on the record's page) keep a draft of the row  *)
(* they were mounted with and are mounted again whenever the row's         *)
(* updatedAt changes.  The mutations send WHOLE rows, made from the copy   *)
(* in the query cache, and then invalidate the cache key by key.  The      *)
(* service (sqlite/tasks.go) reads the row before its transaction and      *)
(* writes it in the transaction.                                           *)
(*                                                                         *)
(* A row is abstracted to two columns: text, the number of the edit that   *)
(* wrote it (title, notes, times, ...; 0 is empty, 1 the first content),   *)
(* and done, its status.  at counts the writes to the row and stands for   *)
(* updatedAt.                                                              *)
(*                                                                         *)
(* The TanStack query cache is external: a mounted query is fetched when   *)
(* it is mounted, and a fetch delivers the answer of an earlier moment.    *)
(* An invalidation fetches the mounted queries: it cancels the fetch in    *)
(* flight of a query that has data and starts another, but joins a first   *)
(* load, whose answer may be from before the write (late).  Its promise is *)
(* kept when these fetches are over.                                       *)
(***************************************************************************)
EXTENDS Naturals, Sequences, FiniteSets

CONSTANTS Tasks,        \* the tasks; those of New may not exist at first
          New,
          Record,       \* the one archive record
          Linked,       \* the tasks of the record (tasks.archive_id)
          Repeating,    \* the tasks with a recurrence rule
          Screens,      \* the screens the user visits
          Slots,        \* mutations that may be in flight at the same time
          Nothing,      \* no data, no selection, no editor
          Budgets       \* how many edits, mutations, failures and clicks a run has:
                        \* each behaviour spends one of these records

ASSUME PageAssumption ==
  /\ New \subseteq Tasks /\ Linked \subseteq Tasks /\ Repeating \subseteq Tasks
  /\ Record \notin Tasks /\ Nothing \notin Tasks \cup {Record}
  /\ {"list", "board", "linked"} \cap (Tasks \cup {Record}) = {}
  /\ Screens \subseteq {"tasks", "today", "record", "archives"}
  /\ Slots \subseteq Nat \ {0}
  /\ Budgets \subseteq [edits: Nat, sent: Nat, failures: Nat, clicks: Nat]

VARIABLES
  row,          \* the service's rows
  next,         \* tasks created for the next occurrence, per repeating task
  entry,        \* the query cache
  request,      \* the mutations in flight
  screen,       \* the route
  selection, inspectorOpen, editorDirty,        \* the layout store
  taskEditor, recordEditor,                     \* the mounted editors
  undo,         \* TodayPage's undoTask
  crowded,      \* history: both editors were open since a draft became dirty
  asked,        \* the last step asked the user and was told to go on
  left          \* what is left of the budget

rows == <<row, next>>
layout == <<screen, selection, inspectorOpen>>
editors == <<taskEditor, recordEditor>>

\* One step of the budget's part k.
Spend(k) == left[k] > 0 /\ left' = [left EXCEPT ![k] = @ - 1]
flags == <<editorDirty, crowded>>
vars == <<rows, entry, request, layout, flags, editors, undo, asked, left>>

-----------------------------------------------------------------------------
(* Rows, queries and the keys of the cache.                                *)

Items == Tasks \cup {Record}

Row == [text: Nat, done: BOOLEAN, at: Nat, live: BOOLEAN, there: BOOLEAN]

\* list: ['tasks', 'all'], used by ReminderScheduler on every screen and by
\* TasksPage; board: ['dashboard']; linked: ['archive-tasks', record]; an
\* item: ['tasks', 'detail', id] or ['archives', 'detail', id].
Queries == {"list", "board", "linked"} \cup Items

\* What a screen and the inspector keep mounted.
Mounted(q, scr, sel, open) ==
  \/ q = "list"
  \/ q = "board" /\ scr = "today"
  \/ q \in {"linked", Record} /\ scr = "record"
  \/ q \in Items /\ open /\ sel = q

IsMounted(q) == Mounted(q, screen, selection, inspectorOpen)

\* What the service answers to a query; a row that is not there is a 404.
Answer(q) ==
  IF q \in Items
  THEN IF row[q].live THEN [i \in {q} |-> row[q]] ELSE Nothing
  ELSE LET shown == {t \in Tasks : /\ row[t].live
                                   /\ q = "linked" => t \in Linked
                                   /\ q # "linked" => ~row[t].done}
       IN  [t \in shown |-> row[t]]

Usable(q) == entry[q].data # Nothing /\ ~entry[q].error

NoEntry == [data |-> Nothing, error |-> FALSE, fetch |-> "idle", answer |-> Nothing,
            late |-> FALSE]

\* Mutant: an update leaves the dashboard out.
Invalidates_NoBoard(kind) ==
  CASE kind \in {"create", "update"} -> <<{"list"} \cup Tasks, {"linked"}>>
    [] kind = "trash"                -> <<{"list"} \cup Tasks, {"board"}>>
    [] kind \in {"save", "drop"}     -> <<{Record}>>
    [] OTHER                         -> <<>>

\* The keys each mutation invalidates, in the order it awaits them.  The
\* editor's delete leaves ['archive-tasks'] out.
Invalidates(kind) ==
  CASE kind \in {"create", "update"} -> <<{"list"} \cup Tasks, {"board"}, {"linked"}>>
    [] kind = "trash"                -> <<{"list"} \cup Tasks, {"board"}>>
    [] kind \in {"save", "drop"}     -> <<{Record}>>
    [] OTHER                         -> <<>>

-----------------------------------------------------------------------------
(* Editors.                                                                *)

Editor(i, copy) ==
  [item |-> i, base |-> copy, text |-> copy.text, done |-> copy.done, saving |-> 0]

\* dirty: sameTaskDraft, sameArchiveDraft
Dirty(e) == e # Nothing /\ (e.text # e.base.text \/ e.done # e.base.done)

\* The item whose editor is on the screen: its query has data and no error.
EditedTask ==
  IF inspectorOpen /\ selection \in Tasks /\ Usable(selection) THEN selection ELSE Nothing
EditedRecord ==
  IF screen = "record" /\ Usable(Record) THEN Record ELSE Nothing

\* React keeps an editor while its key, the row and its updatedAt, stays.
Keep(e, i, cache) ==
  IF i = Nothing THEN Nothing
  ELSE LET copy == cache[i].data[i]
       IN  IF e # Nothing /\ e.item = i /\ e.base.at = copy.at THEN e ELSE Editor(i, copy)

\* The history of crowded.
Crowd ==
  crowded' = /\ Dirty(taskEditor') \/ Dirty(recordEditor')
             /\ crowded \/ Nothing \notin {taskEditor', recordEditor'}

\* One rendering: the editors follow the new layout and the new cache.  An
\* editor that goes or comes runs its effect, which clears the shared flag;
\* flag is what the handler itself left in the store.
Render(flag) ==
  /\ taskEditor' = Keep(taskEditor, EditedTask', entry')
  /\ recordEditor' = Keep(recordEditor, EditedRecord', entry')
  /\ editorDirty' = (flag /\ editors' = editors)
  /\ Crowd

-----------------------------------------------------------------------------
(* The layout store.                                                       *)

\* confirmDiscardChanges asks only when the flag is up; a refusal changes
\* nothing and is no step.
Confirmed == asked' = editorDirty

\* Queries mounted by the step are fetched, unless a fetch is in flight.
Mount(cache) ==
  entry' = [q \in Queries |->
    IF ~IsMounted(q) /\ Mounted(q, screen', selection', inspectorOpen')
       /\ cache[q].fetch = "idle"
    THEN [cache[q] EXCEPT !.fetch = "sent", !.late = FALSE]
    ELSE cache[q]]

\* Mutant: another item is selected without asking.
SelectItem_Unasked(i) ==
  /\ inspectorOpen' = TRUE
  /\ selection' = i
  /\ Mount(entry)
  /\ asked' = FALSE
  /\ Render(selection = i /\ editorDirty)

SelectItem(i) ==
  /\ inspectorOpen' = TRUE
  /\ selection' = i
  /\ Mount(entry)
  /\ IF selection = i
     THEN asked' = FALSE /\ Render(editorDirty)
     ELSE Confirmed /\ Render(FALSE)

\* selectTask, selectArchive: from a row of a list, from the palette.
Select(i) ==
  /\ row[i].there
  /\ Spend("clicks")
  /\ UNCHANGED <<rows, request, screen, undo>>
  /\ SelectItem(i)

\* clearSelection: the editor's close button.
ClearSelection ==
  /\ taskEditor # Nothing
  /\ Confirmed
  /\ selection' = Nothing /\ inspectorOpen' = FALSE
  /\ Spend("clicks")
  /\ UNCHANGED <<rows, entry, request, screen, undo>>
  /\ Render(FALSE)

\* toggleInspector: asks only when it closes.
ToggleInspector ==
  /\ selection # Nothing
  /\ IF inspectorOpen THEN Confirmed ELSE asked' = FALSE
  /\ inspectorOpen' = ~inspectorOpen
  /\ Spend("clicks")
  /\ UNCHANGED <<rows, request, screen, selection, undo>>
  /\ Mount(entry)
  /\ Render(~inspectorOpen /\ editorDirty)

\* The router: ArchiveEditor's useBlocker asks when its own draft is dirty.
\* The screen's components go, and with them the callbacks of their mutations.
Navigate(to) ==
  /\ to # screen
  /\ screen' = to
  /\ asked' = Dirty(recordEditor)
  /\ undo' = Nothing
  /\ request' = [s \in Slots |->
       IF request[s].from \in {"none", "editor"} THEN request[s]
       ELSE [request[s] EXCEPT !.from = "gone"]]
  /\ UNCHANGED <<selection, inspectorOpen>>
  /\ Mount(entry)
  /\ Render(editorDirty)
  /\ Spend("clicks")
  /\ UNCHANGED rows

-----------------------------------------------------------------------------
(* Typing.  The effect on [dirty] sets the flag when the draft's own state *)
(* changes sides, and leaves it alone otherwise.                           *)

DraftFlag(old, new) == IF Dirty(old) = Dirty(new) THEN editorDirty ELSE Dirty(new)

Draft(e, text, done) == [e EXCEPT !.text = text, !.done = done]

TypeTask ==
  /\ taskEditor # Nothing
  /\ \/ Spend("edits")
        /\ taskEditor' = [taskEditor EXCEPT !.text = left.edits + 1]
     \/ UNCHANGED left /\ taskEditor' = [taskEditor EXCEPT !.done = ~@]
     \/ UNCHANGED left /\ Dirty(taskEditor)
        /\ taskEditor' = Draft(taskEditor, taskEditor.base.text, taskEditor.base.done)
  /\ editorDirty' = DraftFlag(taskEditor, taskEditor')
  /\ asked' = FALSE
  /\ UNCHANGED <<rows, entry, request, layout, recordEditor, undo>>
  /\ Crowd

TypeRecord ==
  /\ recordEditor # Nothing
  /\ \/ Spend("edits")
        /\ recordEditor' = [recordEditor EXCEPT !.text = left.edits + 1]
     \/ UNCHANGED left /\ Dirty(recordEditor)
        /\ recordEditor' = Draft(recordEditor, recordEditor.base.text, recordEditor.base.done)
  /\ editorDirty' = DraftFlag(recordEditor, recordEditor')
  /\ asked' = FALSE
  /\ UNCHANGED <<rows, entry, request, layout, taskEditor, undo>>
  /\ Crowd

-----------------------------------------------------------------------------
(* Sending a mutation.                                                     *)

IdleRequest == [kind |-> "none", phase |-> "idle", item |-> Nothing, from |-> "none",
                text |-> 0, done |-> FALSE, changed |-> {}, copy |-> Nothing,
                read |-> FALSE, stage |-> 0, waits |-> {}, quiet |-> FALSE]

\* Nothing is in flight and no mounted query is being fetched.
Settled ==
  /\ \A s \in Slots : request[s].phase = "idle"
  /\ \A q \in Queries : IsMounted(q) => entry[q].fetch = "idle"

\* No view on the screen shows an answer that an invalidation passed by.
OnTime == \A q \in Queries : IsMounted(q) => ~entry[q].late

\* A request that is sent while another is in flight overlaps with it.  Slots are
\* only names: the first free one is taken.
Send(s, kind, item, from, text, done, changed, copy) ==
  /\ request[s].phase = "idle"
  /\ \A r \in Slots : r < s => request[r].phase # "idle"
  /\ Spend("sent")
  /\ request' = [r \in Slots |->
       IF r = s
       THEN [kind |-> kind, phase |-> "sent", item |-> item, from |-> from,
             text |-> text, done |-> done, changed |-> changed, copy |-> copy,
             read |-> FALSE, stage |-> 0, waits |-> {}, quiet |-> Settled /\ OnTime]
       ELSE [request[r] EXCEPT !.quiet = FALSE]]

Differs(copy, text, done) ==
  {c \in {"text", "done"} : \/ c = "text" /\ copy.text # text
                            \/ c = "done" /\ copy.done # done}

\* TaskEditor's form: useUpdateTask with every column of the draft.
SaveTask(s) ==
  /\ taskEditor # Nothing /\ taskEditor.saving = 0
  /\ LET e == taskEditor
     IN  Send(s, "update", e.item, "editor", e.text, e.done,
              Differs(e.base, e.text, e.done), Nothing)
  /\ taskEditor' = [taskEditor EXCEPT !.saving = s]
  /\ asked' = FALSE
  /\ UNCHANGED <<rows, entry, layout, flags, recordEditor, undo>>

\* TaskRow: the check mark sends the copy of its list with the other status.
\* Pending disables the row, on the dashboard every row.
RowShown(q, t) ==
  /\ \/ q = "list" /\ screen = "tasks"
     \/ q = "board" /\ screen = "today"
     \/ q = "linked" /\ recordEditor # Nothing
  /\ Usable(q) /\ t \in DOMAIN entry[q].data

\* Mutant: the columns a row does not show are not sent.
ToggleRow_Shown(s, q, t) ==
  /\ RowShown(q, t)
  /\ \A r \in Slots : request[r].from = q => request[r].item # t /\ q # "board"
  /\ LET copy == entry[q].data[t]
     IN  Send(s, "update", t, q, 0, ~copy.done, {"done"}, copy)
  /\ asked' = FALSE
  /\ UNCHANGED <<rows, entry, layout, flags, editors, undo>>

ToggleRow(s, q, t) ==
  /\ RowShown(q, t)
  /\ \A r \in Slots : request[r].from = q => request[r].item # t /\ q # "board"
  /\ LET copy == entry[q].data[t]
     IN  Send(s, "update", t, q, copy.text, ~copy.done, {"done"}, copy)
  /\ asked' = FALSE
  /\ UNCHANGED <<rows, entry, layout, flags, editors, undo>>

\* TodayPage's toast puts the whole copy from before the completion back.
Undo(s) ==
  /\ undo # Nothing
  /\ Send(s, "update", undo.item, "undo", undo.copy.text, undo.copy.done,
          {"text", "done"}, Nothing)
  /\ undo' = Nothing
  /\ asked' = FALSE
  /\ UNCHANGED <<rows, entry, layout, flags, editors>>

\* The toast is taken away after five seconds.
UndoExpires ==
  /\ undo # Nothing
  /\ undo' = Nothing
  /\ asked' = FALSE
  /\ UNCHANGED <<rows, entry, request, layout, flags, editors, left>>

\* QuickTaskForm
CreateTask(s, t) ==
  /\ screen \in {"tasks", "today"}
  /\ ~row[t].there
  /\ \A r \in Slots : request[r].kind # "create"
  /\ Send(s, "create", t, screen, 0, FALSE, {}, Nothing)
  /\ asked' = FALSE
  /\ UNCHANGED <<rows, entry, layout, flags, editors, undo>>

\* TaskEditor's delete button
TrashTask(s) ==
  /\ taskEditor # Nothing
  /\ \A r \in Slots : request[r].kind = "trash" => request[r].item # taskEditor.item
  /\ Send(s, "trash", taskEditor.item, "editor", 0, FALSE, {}, Nothing)
  /\ asked' = FALSE
  /\ UNCHANGED <<rows, entry, layout, flags, editors, undo>>

SaveRecord(s) ==
  /\ recordEditor # Nothing /\ recordEditor.saving = 0
  /\ Send(s, "save", Record, "record", recordEditor.text, FALSE, {"text"}, Nothing)
  /\ recordEditor' = [recordEditor EXCEPT !.saving = s]
  /\ asked' = FALSE
  /\ UNCHANGED <<rows, entry, layout, flags, taskEditor, undo>>

DropRecord(s) ==
  /\ recordEditor # Nothing
  /\ \A r \in Slots : request[r].kind # "drop"
  /\ Send(s, "drop", Record, "record", 0, FALSE, {}, Nothing)
  /\ asked' = FALSE
  /\ UNCHANGED <<rows, entry, layout, flags, editors, undo>>

-----------------------------------------------------------------------------
(* The service.                                                            *)

\* The end of a request.  A failure shows a message and invalidates nothing;
\* the editor's button is enabled again.
Release(e, s) == IF e # Nothing /\ e.saving = s THEN [e EXCEPT !.saving = 0] ELSE e

Refused(s) ==
  /\ request' = [request EXCEPT ![s] = IdleRequest]
  /\ taskEditor' = Release(taskEditor, s)
  /\ recordEditor' = Release(recordEditor, s)
  /\ asked' = FALSE
  /\ UNCHANGED <<rows, entry, layout, flags, undo>>

\* UpdateTask before its transaction: GetTask, validateTaskArchive.
ReadTask(s) ==
  /\ request[s].kind = "update" /\ request[s].phase = "sent"
  /\ LET t == request[s].item
     IN  IF row[t].live /\ (t \in Linked => row[Record].live)
         THEN /\ request' = [request EXCEPT ![s].phase = "read", ![s].read = row[t].done]
              /\ asked' = FALSE
              /\ UNCHANGED <<rows, entry, layout, flags, editors, undo, left>>
         ELSE Refused(s) /\ UNCHANGED left

\* A row that is written: updatedAt is set with the columns.
Written(old, text, done, live) ==
  [text |-> text, done |-> done, at |-> old.at + 1, live |-> live, there |-> old.there]

\* UpdateTask's transaction: the whole row, and the next occurrence when the
\* row read before the transaction was open.
WriteTask(s) ==
  /\ request[s].kind = "update" /\ request[s].phase = "read"
  /\ LET r == request[s]
         t == r.item
     IN  IF row[t].live
         THEN /\ row' = [row EXCEPT ![t] = Written(row[t], r.text, r.done, TRUE)]
              /\ next' = [next EXCEPT ![t] =
                   IF t \in Repeating /\ ~r.read /\ r.done THEN @ + 1 ELSE @]
              /\ request' = [request EXCEPT ![s].phase = "applied"]
              /\ asked' = FALSE
              /\ UNCHANGED <<entry, layout, flags, editors, undo, left>>
         ELSE Refused(s) /\ UNCHANGED left

\* CreateTask, trash and UpdateArchive check and write in one transaction.
WriteOther(s) ==
  /\ request[s].kind \in {"create", "trash", "save", "drop"}
  /\ request[s].phase = "sent"
  /\ LET r == request[s]
         i == r.item
         write(new) == /\ row' = [row EXCEPT ![i] = new]
                       /\ request' = [request EXCEPT ![s].phase = "applied"]
                       /\ asked' = FALSE
                       /\ UNCHANGED <<next, entry, layout, flags,
                                      editors, undo, left>>
     IN  CASE r.kind = "create" ->
                IF row[i].there THEN Refused(s) /\ UNCHANGED left
                ELSE write([row[i] EXCEPT !.live = TRUE, !.there = TRUE])
           [] r.kind = "save" /\ row[i].live ->
                write(Written(row[i], r.text, row[i].done, TRUE))
           [] r.kind \in {"trash", "drop"} /\ row[i].live ->
                write(Written(row[i], row[i].text, row[i].done, FALSE))
           [] OTHER -> Refused(s) /\ UNCHANGED left

\* The request fails before it is committed.
RequestFails(s) ==
  /\ request[s].phase \in {"sent", "read"}
  /\ Spend("failures")
  /\ Refused(s)

-----------------------------------------------------------------------------
(* The answer and the invalidations.                                       *)

\* invalidateQueries on the keys K, awaited by s: every mounted query is
\* fetched anew, and whoever awaited the fetch that is cancelled goes on, but a
\* first load under way is joined.  The answer that a joined fetch, or the
\* fetch of a query nobody has mounted, already has is late.
Invalidate(s, K, cache, stage) ==
  LET shown == {q \in K : IsMounted(q)}
      again == {q \in shown : cache[q].data # Nothing \/ cache[q].fetch = "idle"}
  IN  /\ entry' = [q \in Queries |->
           IF q \in again
           THEN [cache[q] EXCEPT !.fetch = "sent", !.answer = Nothing, !.late = FALSE]
           ELSE [cache[q] EXCEPT
                   !.late = @ \/ (q \in K /\ cache[q].fetch \notin {"idle", "sent"})]]
      /\ request' = [r \in Slots |->
           IF r = s
           THEN [request[r] EXCEPT !.phase = "refresh", !.stage = stage, !.waits = shown]
           ELSE [request[r] EXCEPT !.waits = @ \ again]]

\* The answer arrives.  UpdateTask and CreateTask read the row once more: a
\* row trashed meanwhile makes a committed update an error.
Answered(s) ==
  /\ request[s].phase = "applied"
  /\ LET r == request[s]
     IN  IF r.kind \in {"create", "update", "save"} /\ ~row[r.item].live
         THEN Refused(s) /\ UNCHANGED left
         ELSE /\ Invalidate(s, Invalidates(r.kind)[1],
                   IF r.kind = "save"
                   THEN [entry EXCEPT ![Record].data = Answer(Record),
                                      ![Record].error = FALSE]
                   ELSE entry, 1)
              /\ asked' = FALSE
              /\ UNCHANGED <<rows, layout, undo, left>>
              /\ Render(editorDirty)

\* The next key of the list, when the fetches of the last one are over.
NextKey(s) ==
  /\ request[s].phase = "refresh" /\ request[s].waits = {}
  /\ request[s].stage < Len(Invalidates(request[s].kind))
  /\ LET stage == request[s].stage + 1
     IN  Invalidate(s, Invalidates(request[s].kind)[stage], entry, stage)
  /\ asked' = FALSE
  /\ UNCHANGED <<rows, layout, flags, editors, undo, left>>

\* The callbacks after the last key.  The ones given to mutate run only when
\* the component that called it is still mounted: the editor of that row and
\* version, the form, the dashboard.  TaskEditor's delete is an option of the
\* mutation: it clears the flag and closes whatever is selected by then.  After
\* a record is deleted its page is left, unless the user, asked about a draft,
\* refuses.
Settle(s) ==
  /\ request[s].phase = "refresh" /\ request[s].waits = {}
  /\ request[s].stage = Len(Invalidates(request[s].kind))
  /\ request' = [request EXCEPT ![s] = IdleRequest]
  /\ LET r == request[s]
         stay == UNCHANGED <<entry, layout>>
     IN  CASE r.kind = "update" /\ r.from = "board" ->
                /\ undo' = IF r.done THEN [item |-> r.item, copy |-> r.copy] ELSE Nothing
                /\ stay /\ asked' = FALSE
                /\ UNCHANGED <<flags, editors>>
           [] r.kind \in {"update", "save"} /\ r.from # "board" ->
                /\ taskEditor' = Release(taskEditor, s)
                /\ recordEditor' = Release(recordEditor, s)
                /\ editorDirty' = IF r.kind = "update" /\ taskEditor' # taskEditor
                                  THEN FALSE ELSE editorDirty
                /\ stay /\ asked' = FALSE
                /\ UNCHANGED <<undo, crowded>>
           [] r.kind = "create" ->
                /\ UNCHANGED <<screen, undo>>
                /\ \/ r.from # "gone" /\ SelectItem(r.item)
                   \/ /\ r.from # "gone" => editorDirty /\ selection # r.item
                      /\ stay /\ asked' = FALSE
                      /\ UNCHANGED <<flags, editors>>
           [] r.kind = "trash" ->
                /\ selection' = Nothing /\ inspectorOpen' = FALSE
                /\ UNCHANGED <<screen, entry, undo>>
                /\ asked' = FALSE
                /\ Render(FALSE)
           [] r.kind = "drop" ->
                \/ /\ screen' = "archives"
                   /\ UNCHANGED <<selection, inspectorOpen>>
                   /\ undo' = Nothing
                   /\ asked' = Dirty(recordEditor)
                   /\ Mount(entry)
                   /\ Render(editorDirty)
                \/ /\ Dirty(recordEditor)
                   /\ stay /\ asked' = TRUE
                   /\ UNCHANGED <<flags, editors, undo>>
  /\ UNCHANGED <<rows, left>>

-----------------------------------------------------------------------------
(* Fetches.                                                                *)

FetchAnswer(q) ==
  /\ q # "linked" /\ entry[q].fetch = "sent"
  /\ entry' = [entry EXCEPT ![q].fetch = "answered", ![q].answer = Answer(q)]
  /\ asked' = FALSE
  /\ UNCHANGED <<rows, request, layout, flags, editors, undo, left>>

\* The record's tasks come in two lists, of the open and of the completed
\* ones, each read at a moment of its own (ArchiveResources.tsx, Promise.all).
Listed(done) == [t \in {u \in Linked : row[u].live /\ row[u].done = done} |-> row[t]]
Half(done) == IF done THEN "completed" ELSE "open"

LinkedBegins(done) ==
  /\ entry["linked"].fetch = "sent"
  /\ entry' = [entry EXCEPT !["linked"].fetch = Half(done), !["linked"].answer = Listed(done)]
  /\ asked' = FALSE
  /\ UNCHANGED <<rows, request, layout, flags, editors, undo, left>>

\* A task that both lists have stands with its later row.
LinkedEnds(done) ==
  /\ entry["linked"].fetch = Half(~done)
  /\ LET now == Listed(done)
         old == entry["linked"].answer
     IN  entry' = [entry EXCEPT !["linked"].fetch = "answered",
           !["linked"].answer = [t \in DOMAIN now \cup DOMAIN old |->
                                   IF t \in DOMAIN now THEN now[t] ELSE old[t]]]
  /\ asked' = FALSE
  /\ UNCHANGED <<rows, request, layout, flags, editors, undo, left>>

\* A fetch ends: nobody waits for it any longer and the screen follows.
Fetched(q, new) ==
  /\ entry' = [entry EXCEPT ![q] = new]
  /\ request' = [s \in Slots |-> [request[s] EXCEPT !.waits = @ \ {q}]]
  /\ asked' = FALSE
  /\ UNCHANGED <<rows, layout, undo>>
  /\ Render(editorDirty)

FetchDelivers(q) ==
  /\ entry[q].fetch = "answered"
  /\ LET e == entry[q]
     IN  Fetched(q, [data |-> IF e.answer = Nothing THEN e.data ELSE e.answer,
                     error |-> e.answer = Nothing, fetch |-> "idle", answer |-> Nothing,
                     late |-> e.late])
  /\ UNCHANGED left

FetchFails(q) ==
  /\ entry[q].fetch \in {"sent", "open", "completed"}
  /\ Spend("failures")
  /\ Fetched(q, [data |-> entry[q].data, error |-> TRUE, fetch |-> "idle",
                 answer |-> Nothing, late |-> FALSE])

\* ErrorState's retry button
Retry(q) ==
  /\ IsMounted(q) /\ entry[q].error /\ entry[q].fetch = "idle"
  /\ entry' = [entry EXCEPT ![q].fetch = "sent", ![q].late = FALSE]
  /\ asked' = FALSE
  /\ UNCHANGED <<rows, request, layout, flags, editors, undo>>
  /\ Spend("clicks")

-----------------------------------------------------------------------------
(* The page has loaded a screen and the inspector shows something or       *)
(* nothing; nothing is typed and nothing is in flight.                     *)

Init ==
  /\ \E absent \in SUBSET New :
       row = [i \in Items |-> [text |-> 1, done |-> FALSE, at |-> 0,
                               live |-> i \notin absent, there |-> i \notin absent]]
  /\ next = [t \in Tasks |-> 0]
  /\ request = [s \in Slots |-> IdleRequest]
  /\ screen \in Screens
  /\ selection \in {i \in Items : row[i].live} \cup {Nothing}
  /\ inspectorOpen = (selection # Nothing)
  /\ entry = [q \in Queries |->
       IF IsMounted(q) THEN [NoEntry EXCEPT !.data = Answer(q)] ELSE NoEntry]
  /\ taskEditor = Keep(Nothing, EditedTask, entry)
  /\ recordEditor = Keep(Nothing, EditedRecord, entry)
  /\ editorDirty = FALSE /\ crowded = FALSE /\ undo = Nothing /\ asked = FALSE
  /\ left \in Budgets

User ==
  \/ \E i \in Items : Select(i)
  \/ ClearSelection
  \/ ToggleInspector
  \/ \E to \in Screens : Navigate(to)
  \/ TypeTask
  \/ TypeRecord
  \/ \E s \in Slots : SaveTask(s)
  \/ \E s \in Slots, q \in {"list", "board", "linked"}, t \in Tasks : ToggleRow(s, q, t)
  \/ \E s \in Slots : Undo(s)
  \/ \E s \in Slots, t \in New : CreateTask(s, t)
  \/ \E s \in Slots : TrashTask(s)
  \/ \E s \in Slots : SaveRecord(s)
  \/ \E s \in Slots : DropRecord(s)
  \/ \E q \in Queries : Retry(q)

Progress(s) == ReadTask(s) \/ WriteTask(s) \/ WriteOther(s) \/ Answered(s)
               \/ NextKey(s) \/ Settle(s)

Next ==
  \/ User
  \/ UndoExpires
  \/ \E s \in Slots : Progress(s)
  \/ \E s \in Slots : RequestFails(s)
  \/ \E q \in Queries : FetchAnswer(q)
  \/ \E done \in BOOLEAN : LinkedBegins(done) \/ LinkedEnds(done)
  \/ \E q \in Queries : FetchDelivers(q)
  \/ \E q \in Queries : FetchFails(q)

Spec == Init /\ [][Next]_vars
-----------------------------------------------------------------------------
(* Properties.                                                             *)

EditorRecords == [item: Items, base: Row, text: Nat, done: BOOLEAN,
                  saving: {0} \cup Slots]

\* No editor is not an editor.
ASSUME EditorAssumption == Nothing \notin EditorRecords

TypeOK ==
  /\ row \in [Items -> Row]
  /\ next \in [Tasks -> Nat]
  /\ \A q \in Queries : /\ entry[q].error \in BOOLEAN
                         /\ entry[q].fetch \in {"idle", "sent", "open", "completed", "answered"}
  /\ \A s \in Slots : request[s].phase \in {"idle", "sent", "read", "applied", "refresh"}
  /\ screen \in Screens \cup {"archives"}
  /\ selection \in Items \cup {Nothing}
  /\ {inspectorOpen, editorDirty, crowded, asked} \subseteq BOOLEAN
  /\ {taskEditor, recordEditor} \subseteq EditorRecords \cup {Nothing}

\* The flag never asks about nothing: when it is up, an editor on the screen
\* holds edits that are not in its row (both editors and every handler of the
\* store write the one flag, layout.ts and the effects of the editors).
FlagIsHonest == editorDirty => Dirty(taskEditor) \/ Dirty(recordEditor)

\* Edits that are in an editor before a step and nowhere after it.
Lost(e, f) ==
  /\ Dirty(e)
  /\ \/ f = Nothing
     \/ f.item # e.item
     \/ f.base.at # e.base.at /\ (f.text # e.text \/ f.done # e.done)

\* On a quiet page, nothing in flight and no second editor open since the
\* draft was begun, edits are thrown away only after the user was asked
\* (layout.ts, useBlocker).
QuietDraftsSurvive ==
  [][(Settled /\ ~crowded
      /\ (Lost(taskEditor, taskEditor') \/ Lost(recordEditor, recordEditor')))
     => asked']_vars

\* layout.test.ts: the inspector's transitions are guarded while an editor
\* has unsaved changes.
TransitionsAreGuarded ==
  [][(<<selection, inspectorOpen>>' # <<selection, inspectorOpen>> /\ inspectorOpen
      /\ (Dirty(taskEditor) \/ Dirty(recordEditor))) => asked']_vars

\* A mutation that overlaps with no other and was sent from a settled page, no
\* view of which is late, writes back the columns it does not mean to change
\* as they were, although it sends the whole row of a copy (mutations.ts).
\* The undo toast means to change them all: it keeps an older copy.
QuietUpdateIsExact ==
  [][\A s \in Slots :
       LET r == request[s]
       IN  (r.kind = "update" /\ r.quiet
            /\ r.phase = "read" /\ request'[s].phase = "applied")
           => \A c \in {"text", "done"} \ r.changed : row'[r.item][c] = row[r.item][c]]_vars

\* When the page has settled, every mounted list and every open row shows
\* what the service holds or says that it could not be read.  Only the
\* record's task list may still show a task that was deleted in the editor,
\* and a query that an invalidation found unmounted or in its first load shows
\* what was answered before it (mutations.ts, the cache's invalidateQueries).
SettledViewsAreCurrent ==
  Settled => \A q \in Queries : IsMounted(q) /\ Usable(q) /\ ~entry[q].late =>
    LET now == Answer(q)
        data == entry[q].data
    IN  IF q = "linked"
        THEN DOMAIN now \subseteq DOMAIN data
             /\ \A t \in DOMAIN data : row[t].live => t \in DOMAIN now /\ data[t] = now[t]
        ELSE data = now
=============================================================================
