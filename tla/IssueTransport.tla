--------------------------- MODULE IssueTransport ---------------------------
(* issue-transport.mjs: one-shot commands that drive an issue tracker       *)
(* through the gh program.  issue-comment-close leaves a comment with a     *)
(* marker and closes the issue; a command that failed, or whose answer was  *)
(* lost, is run again.  issue-read, pr-read and issue-search only read.     *)
(* External: gh and the tracker.                                            *)
EXTENDS Naturals, FiniteSets

CONSTANTS
  Agents,        \* runs of the program alive at a time
  MaxRequests    \* bound: commands started

VARIABLES
  comments,   \* number of comments with the marker
  open,       \* the issue is open
  created,    \* issues that issue-create has made from one draft
  agent,      \* per run: where it is and what it has read
  started,    \* commands started
  overlapped  \* history: two closing commands ran beside each other

transportVars == <<comments, open, created, agent, started, overlapped>>

Resting == [pc |-> "rest"]
Closing(a) == agent[a].pc \in {"comment", "close", "verify"}

Begins(a, state) ==
  /\ agent[a] = Resting /\ started < MaxRequests
  /\ started' = started + 1
  /\ agent' = [agent EXCEPT ![a] = state]

Moves(a, to) == agent' = [agent EXCEPT ![a] = to]

\* Without --apply the plan is printed.
IssueCreate(a) ==
  /\ Begins(a, Resting)
  /\ created' = created + 1
  /\ UNCHANGED <<comments, open, overlapped>>

\* What decides is the issue as it was read first; without --apply the command
\* ends with the plan.
ReadIssue(a) ==
  /\ \E apply \in BOOLEAN :
       Begins(a, IF apply
                 THEN [pc |-> "comment", marked |-> comments > 0, open |-> open]
                 ELSE Resting)
  /\ overlapped' = (overlapped \/ ((\E b \in Agents \ {a} : Closing(b)) /\ agent'[a] # Resting))
  /\ UNCHANGED <<comments, open, created>>

\* Mutant: the marker is not looked for.
Comment_Always(a) ==
  /\ agent[a].pc = "comment"
  /\ \E reached, answered \in BOOLEAN :
       /\ answered => reached
       /\ comments' = IF reached THEN comments + 1 ELSE comments
       /\ Moves(a, IF answered THEN [pc |-> "close", open |-> agent[a].open] ELSE Resting)
  /\ UNCHANGED <<open, created, started, overlapped>>

\* A call may reach the tracker although gh reports a failure, which ends the
\* command.
Comment(a) ==
  /\ agent[a].pc = "comment"
  /\ \E reached, answered \in BOOLEAN :
       /\ answered => reached
       /\ comments' = IF reached /\ ~agent[a].marked THEN comments + 1 ELSE comments
       /\ Moves(a, IF answered \/ agent[a].marked
                   THEN [pc |-> "close", open |-> agent[a].open] ELSE Resting)
  /\ UNCHANGED <<open, created, started, overlapped>>

Close(a) ==
  /\ agent[a].pc = "close"
  /\ \E reached, answered \in BOOLEAN :
       /\ answered => reached
       /\ open' = (open /\ ~(reached /\ agent[a].open))
       /\ Moves(a, IF answered \/ ~agent[a].open THEN [pc |-> "verify"] ELSE Resting)
  /\ UNCHANGED <<comments, created, started, overlapped>>

\* "closed" is reported only of an issue that is read as closed.
Verify(a) ==
  /\ agent[a].pc = "verify"
  /\ Moves(a, Resting)
  /\ UNCHANGED <<comments, open, created, started, overlapped>>

\* External: somebody reopens the issue.
Reopen ==
  /\ ~open
  /\ open' = TRUE
  /\ UNCHANGED <<comments, created, agent, started, overlapped>>

TransportInit ==
  /\ comments = 0 /\ open = TRUE /\ created = 0
  /\ agent = [a \in Agents |-> Resting]
  /\ started = 0 /\ overlapped = FALSE

TransportNext ==
  \/ \E a \in Agents :
       IssueCreate(a) \/ ReadIssue(a) \/ Comment(a) \/ Close(a) \/ Verify(a)
  \/ Reopen

TransportSpec == TransportInit /\ [][TransportNext]_transportVars

-----------------------------------------------------------------------------
\* issue-transport.md: "the marker keeps a retry from commenting again", even
\* after a call whose answer was lost; two commands beside each other may both
\* find no marker.
RetriesDoNotRepeat == ~overlapped => comments <= 1

=============================================================================
