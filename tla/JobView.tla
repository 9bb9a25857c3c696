------------------------------ MODULE JobView ------------------------------
(***************************************************************************)
(* What a screen shows of the background job it has started: useJob over   *)
(* the generated event-stream client, and the list the job changes.        *)
(*                                                                         *)
(* One cache entry, shown, is written by three sources: a poll every three *)
(* seconds while the entry is active, the events of one stream, and the    *)
(* answer of a cancellation.  Each carries what the job was when the       *)
(* service answered and may arrive after the others have moved on.  A job  *)
(* is its state with a step that counts its updates; module JobManager has *)
(* the service's side of it.                                               *)
(***************************************************************************)
EXTENDS Naturals, Sequences

CONSTANTS
  NoJob,       \* no answer
  MaxSteps,    \* bound on the updates of a job
  Cases        \* [screen, failures]: whose job, and how many requests and
               \* streams may fail

Ends == {"succeeded", "failed", "cancelled"}
Job(state, step) == [state |-> state, step |-> step]

ASSUME ViewAssumption == NoJob \notin [state : {"queued", "running"} \cup Ends, step : Nat]

\* active: queued or running; an entry without data is neither.
IsActive(item) == item # NoJob /\ item.state \in {"queued", "running"}
HasEnded(item) == item # NoJob /\ item.state \in Ends

VARIABLES
  screen,    \* backup, search or attachments: whose job it is
  job,       \* the job in the service
  effect,    \* the job's work shows in the answers to the screen's list
  cancelled, \* the service has been asked to cancel it
  watching,  \* the screen with the job is mounted
  shown,     \* the data of ['jobs', id]
  poll,      \* the request of that query: [at, item, again]
  stream,    \* the event stream: [at, sent, events]
  cancel,    \* the cancel mutation: [at, item]
  list,      \* what the screen's list shows: the effect or not
  listPoll,  \* the request of the list
  failures   \* requests and streams that may still fail

viewVars == <<screen, job, effect, cancelled, watching, shown, poll, stream, cancel, list, listPoll,
              failures>>
pageSide == <<watching, shown, poll, stream, cancel, list, listPoll>>

NoPoll == [at |-> "idle", item |-> NoJob, again |-> FALSE]
Asked(again) == [at |-> "sent", item |-> NoJob, again |-> again]
NoStream == [at |-> "off", sent |-> NoJob, events |-> <<>>]
NoCancel == [at |-> "idle", item |-> NoJob]
NoList == [at |-> "idle", effect |-> FALSE]

\* The ends after which the screen reads its list again.
Reloads(state) == state \in IF screen = "backup" THEN {"succeeded", "failed"} ELSE {"succeeded"}

\* The ends that leave something in the list.
Changes(state) == screen = "backup" \/ state = "succeeded"

\* The request that starts the job is answered: the query and the stream begin.
ViewInit ==
  /\ \E c \in Cases : screen = c.screen /\ failures = c.failures
  /\ job = Job("queued", 0)
  /\ effect = FALSE
  /\ cancelled = FALSE
  /\ watching = TRUE
  /\ shown = NoJob
  /\ poll = Asked(FALSE)
  /\ stream = [NoStream EXCEPT !.at = "connecting"]
  /\ cancel = NoCancel
  /\ list = FALSE
  /\ listPoll = NoList

-----------------------------------------------------------------------------
(* The service *)

Advance ==
  /\ IsActive(job) /\ job.step < MaxSteps - 1
  /\ job' = Job("running", job.step + 1)
  /\ UNCHANGED <<screen, effect, cancelled, pageSide, failures>>

\* Mutant: the work shows in the list only after the job has ended.
End_BeforeEffect ==
  \/ /\ IsActive(job)
     /\ \E s \in Ends : /\ s = "cancelled" => cancelled
                        /\ job' = Job(s, job.step + 1)
     /\ UNCHANGED <<screen, effect, cancelled, pageSide, failures>>
  \/ /\ ~IsActive(job)
     /\ effect' = (effect \/ Changes(job.state))
     /\ UNCHANGED <<screen, job, cancelled, pageSide, failures>>

\* The operation has returned, its rows written, and the job ends.
End ==
  /\ IsActive(job)
  /\ \E s \in Ends :
       /\ s = "cancelled" => cancelled
       /\ job' = Job(s, job.step + 1)
       /\ effect' = (effect \/ Changes(s))
  /\ UNCHANGED <<screen, cancelled, pageSide, failures>>

-----------------------------------------------------------------------------
(* The requests *)

May == failures > 0 /\ failures' = failures - 1

PollAnswered ==
  /\ poll.at = "sent"
  /\ \/ poll' = [at |-> "answered", item |-> job, again |-> poll.again] /\ UNCHANGED failures
     \/ poll' = [poll EXCEPT !.at = "failed"] /\ May
  /\ UNCHANGED <<screen, job, effect, cancelled, watching, shown, stream, cancel, list, listPoll>>

ListAnswered ==
  /\ listPoll.at = "sent"
  /\ listPoll' = [at |-> "answered", effect |-> effect]
  /\ UNCHANGED <<screen, job, effect, cancelled, watching, shown, poll, stream, cancel, list, failures>>

\* The answer to a cancellation is the job as it is then, still active.
CancelAnswered ==
  /\ cancel.at = "sent"
  /\ \/ /\ cancel' = [at |-> "answered", item |-> job]
        /\ cancelled' = (cancelled \/ IsActive(job))
        /\ UNCHANGED failures
     \/ /\ cancel' = NoCancel
        /\ May
        /\ UNCHANGED cancelled
  /\ UNCHANGED <<screen, job, effect, watching, shown, poll, stream, list, listPoll>>

\* The handler of the stream sends what it has not sent yet.
StreamSends ==
  /\ stream.at \in {"connecting", "open"}
  /\ stream.sent # job
  /\ stream' = [at |-> "open", sent |-> job, events |-> Append(stream.events, job)]
  /\ UNCHANGED <<screen, job, effect, cancelled, watching, shown, poll, cancel, list, listPoll, failures>>

\* The stream breaks; the events that were read before stay.
StreamBreaks ==
  /\ stream.at \in {"connecting", "open"}
  /\ stream' = [stream EXCEPT !.at = "broken"]
  /\ May
  /\ UNCHANGED <<screen, job, effect, cancelled, watching, shown, poll, cancel, list, listPoll>>

-----------------------------------------------------------------------------
(* The page *)

\* The screen's effect: when the state shown becomes one of its ends, the list is
\* invalidated, which drops a request that is under way and sends another.
Show(item) ==
  /\ shown' = item
  /\ IF ~(shown # NoJob /\ shown.state = item.state) /\ Reloads(item.state)
     THEN listPoll' = [at |-> "sent", effect |-> FALSE]
     ELSE UNCHANGED listPoll

\* refetchInterval: three seconds after the last request, while the data is active.
PollTick ==
  /\ watching /\ IsActive(shown) /\ poll = NoPoll
  /\ poll' = Asked(FALSE)
  /\ UNCHANGED <<screen, job, effect, cancelled, watching, shown, stream, cancel, list, listPoll,
                 failures>>

\* A request that fails is tried once more, and then leaves the data as it was.
PollArrives ==
  /\ watching
  /\ \/ poll.at = "answered" /\ Show(poll.item) /\ poll' = NoPoll
     \/ /\ poll.at = "failed"
        /\ poll' = IF poll.again THEN NoPoll ELSE Asked(TRUE)
        /\ UNCHANGED <<shown, listPoll>>
  /\ UNCHANGED <<screen, job, effect, cancelled, watching, stream, cancel, list, failures>>

ListArrives ==
  /\ watching /\ listPoll.at = "answered"
  /\ list' = listPoll.effect
  /\ listPoll' = NoList
  /\ UNCHANGED <<screen, job, effect, cancelled, watching, shown, poll, stream, cancel, failures>>

\* One event of the stream; the loop ends with the first that is not active.
EventRead ==
  /\ watching /\ stream.events # <<>>
  /\ Show(Head(stream.events))
  /\ stream' = IF IsActive(Head(stream.events)) THEN [stream EXCEPT !.events = Tail(@)]
                                                ELSE [NoStream EXCEPT !.at = "done"]
  /\ UNCHANGED <<screen, job, effect, cancelled, watching, poll, cancel, list, failures>>

\* A stream that broke has used its one attempt; the error is swallowed.
StreamGivesUp ==
  /\ stream.at = "broken" /\ stream.events = <<>>
  /\ stream' = [NoStream EXCEPT !.at = "done"]
  /\ UNCHANGED <<screen, job, effect, cancelled, watching, shown, poll, cancel, list, listPoll, failures>>

\* The button is there while the job is shown as active.
CancelClicked ==
  /\ watching /\ IsActive(shown) /\ cancel = NoCancel /\ ~cancelled
  /\ cancel' = [at |-> "sent", item |-> NoJob]
  /\ UNCHANGED <<screen, job, effect, cancelled, watching, shown, poll, stream, list, listPoll, failures>>

\* Its answer goes into the cache over whatever arrived meanwhile.
CancelArrives ==
  /\ watching /\ cancel.at = "answered"
  /\ Show(cancel.item)
  /\ cancel' = NoCancel
  /\ UNCHANGED <<screen, job, effect, cancelled, watching, poll, stream, list, failures>>

\* The screen is left: its job is forgotten, the stream aborted.
LeaveScreen ==
  /\ watching
  /\ watching' = FALSE
  /\ shown' = NoJob /\ poll' = NoPoll /\ stream' = NoStream /\ cancel' = NoCancel
  /\ list' = FALSE /\ listPoll' = NoList
  /\ UNCHANGED <<screen, job, effect, cancelled, failures>>

PageDelivers == PollTick \/ PollArrives \/ ListArrives \/ EventRead \/ StreamGivesUp \/ CancelArrives
ServiceAnswers == PollAnswered \/ ListAnswered \/ CancelAnswered
ViewNext ==
  \/ Advance \/ End \/ ServiceAnswers \/ StreamSends \/ StreamBreaks
  \/ PageDelivers \/ CancelClicked \/ LeaveScreen
ViewSpec == ViewInit /\ [][ViewNext]_viewVars

-----------------------------------------------------------------------------
(* Properties *)

\* A screen that has shown its job at all shows that it ended, although late
\* answers may bring the running job back for a while, streams break, and
\* requests fail (a bounded number of times).
EndedJobsShow == HasEnded(job) /\ shown # NoJob ~> HasEnded(shown) \/ ~watching

\* When nothing is under way and the job is shown as ended, the list shows what
\* it did.  A cancelled backup is excepted: BackupPage does not read its list again
\* and the row of the backup is missing from it.
EndedJobsAreListed ==
  /\ watching /\ HasEnded(shown) /\ poll = NoPoll /\ listPoll = NoList /\ cancel = NoCancel
  /\ stream.events = <<>>
  /\ ~(screen = "backup" /\ shown.state = "cancelled")
  => shown = job /\ list = effect
=============================================================================
