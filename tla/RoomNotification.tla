------------------------- MODULE RoomNotification -------------------------
(***************************************************************************)
(* Notifications of one kind of one diagnosis room: the three send         *)
(* activities of the room workflow (assistant turn, final ready, close),   *)
(* which are the same protocol over different rows, and the operator's     *)
(* Retry of the latest failed one.                                         *)
(*                                                                         *)
(* Both sides have no lock and no claim row.  A sender lists the events of *)
(* the kind, stops if one of its notice tells a delivery, numbers itself   *)
(* by the events it counted, calls the provider, and appends an event      *)
(* under the dedupe key (notice, number).  A refused insert returns the    *)
(* event that holds the key as if it had been written.                     *)
(*                                                                         *)
(* The list is ordered by occurred_at: a workflow event carries the time   *)
(* of its turn or close whatever attempt wrote it, an operator's event the *)
(* time of the request.                                                    *)
(***************************************************************************)
EXTENDS Integers, Sequences, FiniteSets

CONSTANTS MaxNotices,       \* notices of this kind the room may raise
          MaximumAttempts,  \* RetryPolicy.MaximumAttempts of the activity
          Operators,        \* one retry request each
          LookupLimit       \* events a lookup lists

ASSUME BoundsAssumption == /\ MaxNotices \in Nat \ {0}
                           /\ MaximumAttempts \in Nat \ {0}
                           /\ LookupLimit \in Nat \ {0}

Notices == 1 .. MaxNotices

\* Attempt a of the activity of notice k.
Attempts == Notices \X (1 .. MaximumAttempts)

ASSUME OperatorsAssumption == Operators \cap Attempts = {}

Senders == Attempts \cup Operators

VARIABLES
  notices,   \* how many notices this room raises
  content,   \* whether their payloads carry AI content
  clock,     \* time, advanced by turns and by retry requests
  raisedAt,  \* notice -> occurred_at of its workflow events, 0 before
  attempt,   \* notice -> the attempt the Temporal server waits for
  outcome,   \* notice -> what the workflow learned
  sender,    \* sender -> where it is
  events,    \* the rows of diagnosis_task_events, in id order
  accepted   \* the senders whose message the provider took (external)

vars == <<notices, content, clock, raisedAt, attempt, outcome, sender, events,
          accepted>>

\* "delivered" stands for every provider status but failed and error.
Event == [notice : Notices, number : Nat, status : {"delivered", "failed"},
          at : Nat, message : Senders]

SenderState ==
  [pc : {"idle", "lookup", "sending", "recording", "done"},
   notice : Notices \cup {0},
   number : Nat,
   at : Nat,
   answer : {"none", "delivered", "retryable", "rejected"}]

Idle == [pc |-> "idle", notice |-> 0, number |-> 0, at |-> 0, answer |-> "none"]

TypeOK ==
  /\ notices \in Notices
  /\ content \in BOOLEAN
  /\ clock \in Nat
  /\ raisedAt \in [Notices -> Nat]
  /\ attempt \in [Notices -> 0 .. MaximumAttempts]
  /\ outcome \in [Notices -> {"none", "running", "ok", "error"}]
  /\ sender \in [Senders -> SenderState]
  /\ events \in Seq(Event)
  /\ accepted \subseteq Senders

\* Turn notices always carry the assistant's text; only a close can happen
\* without a conclusion, and a room raises one close notice.
Init ==
  /\ notices \in Notices
  /\ content \in BOOLEAN
  /\ ~content => notices = 1
  /\ clock = 0
  /\ raisedAt = [k \in Notices |-> 0]
  /\ attempt = [k \in Notices |-> 0]
  /\ outcome = [k \in Notices |-> "none"]
  /\ sender = [s \in Senders |-> Idle]
  /\ events = << >>
  /\ accepted = {}

-----------------------------------------------------------------------------
(* Reading and writing the events.                                         *)

\* Order by occurred_at, then id, both descending.
Newer(i, j) == \/ events[i].at > events[j].at
               \/ events[i].at = events[j].at /\ i > j

\* The rows ListEventsByTaskAndKind returns.
Listed == {i \in DOMAIN events :
             Cardinality({j \in DOMAIN events : Newer(j, i)}) < LookupLimit}

ListedOf(k) == {i \in Listed : events[i].notice = k}

DeliveredTo(k) == {i \in DOMAIN events : /\ events[i].notice = k
                                         /\ events[i].status = "delivered"}

\* The row that holds the dedupe key of sender s, if any.
Holding(s) == {i \in DOMAIN events : /\ events[i].notice = sender[s].notice
                                     /\ events[i].number = sender[s].number}

\* AppendEvent under the unique key, in its transaction.
AppendEvent(s, status) ==
  events' = IF Holding(s) = {}
            THEN Append(events, [notice |-> sender[s].notice,
                                 number |-> sender[s].number,
                                 status |-> status,
                                 at |-> sender[s].at,
                                 message |-> s])
            ELSE events

\* Mutant: the caller's own status is taken for the stored one.
StatusAsSent(s, status) == status

\* The status of the event the append returned: the row with the key.
StoredStatus(s, status) ==
  IF Holding(s) = {} THEN status
  ELSE events[CHOOSE i \in Holding(s) : TRUE].status

-----------------------------------------------------------------------------
(***************************************************************************)
(* The workflow and the Temporal server.                                   *)
(***************************************************************************)

\* An attempt as it starts, and a sender that returned.
Scheduled(k, at) == [Idle EXCEPT !.pc = "lookup", !.notice = k, !.at = at]
Ended(s) == [Idle EXCEPT !.pc = "done", !.notice = sender[s].notice]

\* The workflow raises notice k once the turn (or close) is persisted; it
\* waits for the activity before the next turn can be taken.
RaiseNotice(k) ==
  /\ k <= notices
  /\ outcome[k] = "none"
  /\ \A j \in 1 .. k - 1 : outcome[j] \in {"ok", "error"}
  /\ clock' = clock + 1
  /\ raisedAt' = [raisedAt EXCEPT ![k] = clock + 1]
  /\ attempt' = [attempt EXCEPT ![k] = 1]
  /\ outcome' = [outcome EXCEPT ![k] = "running"]
  /\ sender' = [sender EXCEPT ![<<k, 1>>] = Scheduled(k, clock + 1)]
  /\ UNCHANGED <<notices, content, events, accepted>>

\* The server still waits for attempt a.
Awaited(k, a) == outcome[k] = "running" /\ attempt[k] = a

\* Attempt a returns, and the server's reaction to its result: "ok" and "error" complete the activity, "retry" schedules the
\* next attempt while the policy allows one.  The result of an attempt the
\* server gave up on is dropped.
Settle(k, a, result) ==
  IF ~Awaited(k, a) THEN
    /\ sender' = [sender EXCEPT ![<<k, a>>] = Ended(<<k, a>>)]
    /\ UNCHANGED <<attempt, outcome>>
  ELSE IF result = "retry" /\ a < MaximumAttempts THEN
    /\ attempt' = [attempt EXCEPT ![k] = a + 1]
    /\ sender' = [sender EXCEPT
                    ![<<k, a>>] = Ended(<<k, a>>),
                    ![<<k, a + 1>>] = Scheduled(k, raisedAt[k])]
    /\ UNCHANGED outcome
  ELSE
    /\ outcome' = [outcome EXCEPT ![k] = IF result = "ok" THEN "ok" ELSE "error"]
    /\ sender' = [sender EXCEPT ![<<k, a>>] = Ended(<<k, a>>)]
    /\ UNCHANGED attempt

\* Mutant: one attempt more than the policy allows.
TimeoutPastMaximum(k) ==
  /\ outcome[k] = "running"
  /\ attempt' = [attempt EXCEPT ![k] = @ + 1]
  /\ UNCHANGED <<notices, content, clock, raisedAt, outcome, sender, events,
                 accepted>>

\* StartToCloseTimeout, a crash of the worker, or a lost result: the server
\* goes on, the attempt may still be running.
TimeoutAttempt(k) ==
  /\ outcome[k] = "running"
  /\ IF attempt[k] < MaximumAttempts
     THEN /\ attempt' = [attempt EXCEPT ![k] = @ + 1]
          /\ sender' = [sender EXCEPT ![<<k, attempt[k] + 1>>] =
                                          Scheduled(k, raisedAt[k])]
          /\ UNCHANGED outcome
     ELSE /\ outcome' = [outcome EXCEPT ![k] = "error"]
          /\ UNCHANGED <<attempt, sender>>
  /\ UNCHANGED <<notices, content, clock, raisedAt, events, accepted>>

(***************************************************************************)
(* An attempt of the send activities.                                      *)
(***************************************************************************)

\* findCompletedDiagnosisRoomNotificationEvent found a delivery: its event is
\* the result.
LookupFindsDelivery(k, a) ==
  /\ sender[<<k, a>>].pc = "lookup"
  /\ \E i \in ListedOf(k) : events[i].status = "delivered"
  /\ Settle(k, a, "ok")
  /\ UNCHANGED <<notices, content, clock, raisedAt, events, accepted>>

\* Mutants: the delivery is not looked for; the number counts the attempt itself.
LookupIgnoresDelivery(k, a) ==
  /\ sender[<<k, a>>].pc = "lookup"
  /\ sender' = [sender EXCEPT ![<<k, a>>].pc = "sending",
                              ![<<k, a>>].number = Cardinality(ListedOf(k))]
  /\ UNCHANGED <<notices, content, clock, raisedAt, attempt, outcome, events,
                 accepted>>
LookupCountsItself(k, a) ==
  /\ sender[<<k, a>>].pc = "lookup"
  /\ \A i \in ListedOf(k) : events[i].status = "failed"
  /\ sender' = [sender EXCEPT ![<<k, a>>].pc = "sending",
                              ![<<k, a>>].number = Cardinality(ListedOf(k)) + 1]
  /\ UNCHANGED <<notices, content, clock, raisedAt, attempt, outcome, events,
                 accepted>>

\* It found none: the attempt takes the number of events of its notice.
LookupFindsNone(k, a) ==
  /\ sender[<<k, a>>].pc = "lookup"
  /\ \A i \in ListedOf(k) : events[i].status = "failed"
  /\ sender' = [sender EXCEPT ![<<k, a>>].pc = "sending",
                              ![<<k, a>>].number = Cardinality(ListedOf(k))]
  /\ UNCHANGED <<notices, content, clock, raisedAt, attempt, outcome, events,
                 accepted>>

\* Loading the room, the lookup or resolving the provider fails before
\* anything is sent; errors of invalid input are not retried.
AttemptFails(k, a) ==
  /\ sender[<<k, a>>].pc \in {"lookup", "sending"}
  /\ \E result \in {"retry", "error"} : Settle(k, a, result)
  /\ UNCHANGED <<notices, content, clock, raisedAt, events, accepted>>

\* SendNotification of the provider: it takes the message or not, and the
\* answer may be lost on the way back (a retryable error).
Send(s) ==
  /\ sender[s].pc = "sending"
  /\ \E answer \in {"delivered", "retryable", "rejected"} :
       /\ sender' = [sender EXCEPT ![s].pc = "recording", ![s].answer = answer]
       /\ \/ answer # "rejected" /\ accepted' = accepted \cup {s}
          \/ answer # "delivered" /\ UNCHANGED accepted
  /\ UNCHANGED <<notices, content, clock, raisedAt, attempt, outcome, events>>

\* Mutant: an error that may be retried is taken for a delivery.
RecordedUnlessRejected(s) ==
  IF sender[s].answer # "rejected" THEN "delivered" ELSE "failed"

Recorded(s) == IF sender[s].answer = "delivered" THEN "delivered" ELSE "failed"

\* The lifecycle event is appended; a retryable failure is then returned as an
\* error, everything else as the status of the stored event.
RecordAttempt(k, a) ==
  LET s == <<k, a>> IN
  /\ sender[s].pc = "recording"
  /\ AppendEvent(s, Recorded(s))
  /\ Settle(k, a, IF sender[s].answer = "retryable" THEN "retry"
                  ELSE IF StoredStatus(s, Recorded(s)) = "delivered" THEN "ok"
                  ELSE "error")
  /\ UNCHANGED <<notices, content, clock, raisedAt, accepted>>

\* The append fails: nothing is recorded and the attempt is retried.
RecordAttemptFails(k, a) ==
  /\ sender[<<k, a>>].pc = "recording"
  /\ Settle(k, a, "retry")
  /\ UNCHANGED <<notices, content, clock, raisedAt, events, accepted>>

(***************************************************************************)
(* Retry, requested by an operator.                                        *)
(***************************************************************************)

\* latestRetryableNotificationEvent: failed, or delivered without AI content,
\* and no completed event of the same notice further up in the list.
Completed(i) == events[i].status = "delivered" /\ content

Retryable(i) ==
  /\ i \in Listed
  /\ ~Completed(i)
  /\ \A j \in ListedOf(events[i].notice) : Newer(j, i) => ~Completed(j)

LatestRetryable(i) == Retryable(i) /\ \A j \in DOMAIN events \ {i} :
                                        Retryable(j) => Newer(i, j)

\* Retry up to the provider call: the time is taken, the events are listed
\* and the one to resend is chosen.  Without one the request changes nothing.
LoadRetry(o) ==
  /\ sender[o].pc = "idle"
  /\ clock' = clock + 1
  /\ \E i \in DOMAIN events :
       /\ LatestRetryable(i)
       /\ sender' = [sender EXCEPT
            ![o] = [Idle EXCEPT
                      !.pc = "sending",
                      !.notice = events[i].notice,
                      !.number = Cardinality(ListedOf(events[i].notice)),
                      !.at = clock + 1]]
  /\ UNCHANGED <<notices, content, raisedAt, attempt, outcome, events, accepted>>

\* The provider cannot be resolved or the content not be loaded.
RetryFails(o) ==
  /\ sender[o].pc = "sending"
  /\ sender' = [sender EXCEPT ![o] = Ended(o)]
  /\ UNCHANGED <<notices, content, clock, raisedAt, attempt, outcome, events,
                 accepted>>

\* appendRetryEvent, or its failure.
RecordRetry(o) ==
  /\ sender[o].pc = "recording"
  /\ AppendEvent(o, Recorded(o)) \/ UNCHANGED events
  /\ sender' = [sender EXCEPT ![o] = Ended(o)]
  /\ UNCHANGED <<notices, content, clock, raisedAt, attempt, outcome, accepted>>

-----------------------------------------------------------------------------
AttemptStep(k, a) == \/ LookupFindsDelivery(k, a)
                     \/ LookupFindsNone(k, a)
                     \/ AttemptFails(k, a)
                     \/ Send(<<k, a>>)
                     \/ RecordAttempt(k, a)
                     \/ RecordAttemptFails(k, a)

RetryStep(o) == \/ LoadRetry(o)
                \/ RetryFails(o)
                \/ Send(o)
                \/ RecordRetry(o)

Next == \/ \E k \in Notices : RaiseNotice(k) \/ TimeoutAttempt(k)
        \/ \E k \in Notices, a \in 1 .. MaximumAttempts : AttemptStep(k, a)
        \/ \E o \in Operators : RetryStep(o)

Spec == Init /\ [][Next]_vars

-----------------------------------------------------------------------------
(***************************************************************************)
(* Properties.                                                             *)
(***************************************************************************)

\* A delivery on record is a message the provider took, of that notice, and
\* no message is recorded as delivered twice: neither a retried attempt nor a
\* refused insert (appendDiagnosisRoomLifecycleEvent) makes one up.
RecordedDeliveryIsReal ==
  \A i \in DOMAIN events :
    events[i].status = "delivered" =>
      /\ events[i].message \in accepted
      /\ sender[events[i].message].notice = events[i].notice
      /\ \A j \in DOMAIN events : events[j].message = events[i].message => j = i

\* The events of a notice are numbered from 0 without gap or repetition as
\* long as a lookup lists them all: overlapping senders that counted the same
\* events collide on one dedupe key, and none skips a number
\* (diagnosisRoomNotificationDedupeComponent, notificationDedupeComponent).
AttemptsAreNumbered ==
  Len(events) <= LookupLimit =>
    \A k \in Notices :
      LET mine == {i \in DOMAIN events : events[i].notice = k}
      IN /\ {events[i].number : i \in mine} = 0 .. Cardinality(mine) - 1
         /\ \A i, j \in mine : events[i].number = events[j].number => i = j

\* Every event that sender s counted, of those on record, is a failure.
FollowsFailures(s) ==
  sender[s].pc \in {"sending", "recording"} =>
    \A i \in DOMAIN events : /\ events[i].notice = sender[s].notice
                             /\ events[i].number < sender[s].number
                             => events[i].status = "failed"

\* An attempt of the workflow calls the provider only when every event of its
\* notice with a smaller number is a failure: whatever operators do meanwhile,
\* it never sends past a delivery its number counts, so the delivery it
\* records is the first of the notice.
AttemptsFollowFailures ==
  Len(events) <= LookupLimit =>
    /\ \A s \in Attempts : FollowsFailures(s)
    /\ \A i, j \in DOMAIN events :
         /\ events[j].status = "delivered"
         /\ events[j].message \in Attempts
         /\ events[i].notice = events[j].notice
         /\ events[i].number < events[j].number
         => events[i].status = "failed"

\* The room's notifications implement DeliveryLog: whatever attempts overlap,
\* time out or collide on a dedupe key, a delivery is recorded only once the
\* provider took the notice, is never lost from the record, and the workflow
\* goes on without an error to show only for a notice whose delivery is on
\* record (sendFinalReadyNotification and its siblings look at the status of
\* the event they were given, which may be another sender's).
Log == INSTANCE DeliveryLog WITH
         taken <- {sender[s].notice : s \in accepted},
         recorded <- {k \in Notices : DeliveredTo(k) # {}},
         reported <- {k \in Notices : outcome[k] = "ok"}

ImplementsDeliveryLog == Log!Spec

=============================================================================
