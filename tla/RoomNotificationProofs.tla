----------------------- MODULE RoomNotificationProofs -----------------------
(***************************************************************************)
(* The notifications of a diagnosis room, for any number of notices,       *)
(* attempts and operators, whatever the lookups list: type correctness,    *)
(* that recorded deliveries are real, and that every behaviour is one of   *)
(* DeliveryLog.                                                            *)
(*                                                                         *)
(* StepMoves says how any step may move senders, events and outcomes; what *)
(* follows does not look at actions again.                                 *)
(***************************************************************************)
EXTENDS RoomNotification, TLAPS, SequenceTheorems, FiniteSetTheorems

\* An attempt is a sender, and named by its notice and its number.
LEMMA AttemptsAreSenders ==
  ASSUME NEW k \in Notices, NEW a \in 1 .. MaximumAttempts
  PROVE  /\ <<k, a>> \in Attempts /\ <<k, a>> \in Senders
         /\ <<k, a>>[1] = k
         /\ <<k, a>> \notin Operators
BY OperatorsAssumption DEF Attempts, Senders

LEMMA OperatorsAreSenders ==
  ASSUME NEW o \in Operators
  PROVE  o \in Senders /\ o \notin Attempts
BY OperatorsAssumption DEF Senders

\* Values a sender may take.
LEMMA IdleTyped == Idle \in SenderState
BY DEF Idle, SenderState

LEMMA ScheduledTyped ==
  ASSUME NEW k \in Notices, NEW at \in Nat
  PROVE  /\ Scheduled(k, at) \in SenderState
         /\ Scheduled(k, at).pc = "lookup"
         /\ Scheduled(k, at).notice = k
BY DEF Scheduled, Idle, SenderState

Resending(k, n, at) == [Idle EXCEPT !.pc = "sending", !.notice = k, !.number = n, !.at = at]

LEMMA ResendingTyped ==
  ASSUME NEW k \in Notices, NEW n \in Nat, NEW at \in Nat
  PROVE  /\ Resending(k, n, at) \in SenderState
         /\ Resending(k, n, at).pc = "sending"
         /\ Resending(k, n, at).notice = k
BY DEF Resending, Idle, SenderState

LEMMA EndedTyped ==
  ASSUME TypeOK, NEW s \in Senders
  PROVE  /\ Ended(s) \in SenderState
         /\ Ended(s).pc = "done"
         /\ Ended(s).notice = sender[s].notice
<1>1. sender[s] \in SenderState
  BY DEF TypeOK
<1> QED
  BY <1>1 DEF Ended, Idle, SenderState

-----------------------------------------------------------------------------
(* How senders move.                                                       *)

\* An attempt begins, or an operator whose request found what to resend.
Starts(s) == /\ sender[s].pc = "idle"
             /\ sender'[s].pc \in {"lookup", "sending"}
             /\ sender'[s].notice \in Notices
             /\ s \in Attempts => sender'[s].notice = s[1]

Looks(s) == /\ sender[s].pc = "lookup" /\ sender'[s].pc = "sending"
            /\ sender'[s].notice = sender[s].notice

Sends(s) == /\ sender[s].pc = "sending" /\ sender'[s].pc = "recording"
            /\ sender'[s].notice = sender[s].notice
            /\ sender'[s].answer = "delivered" => s \in accepted'

Ends(s) == /\ sender[s].pc \in {"lookup", "sending", "recording"}
           /\ sender'[s].pc = "done"
           /\ sender'[s].notice = sender[s].notice

SenderMoves(s) == \/ sender'[s] = sender[s]
                  \/ Starts(s) \/ Looks(s) \/ Sends(s) \/ Ends(s)

\* The provider takes the message of one sender, and nothing else happens.
AcceptedMoves ==
  \/ accepted' = accepted
  \/ /\ UNCHANGED <<events, outcome>>
     /\ \E s \in Senders : accepted' = accepted \cup {s} /\ Sends(s)

NewEvent(s) == [notice |-> sender[s].notice, number |-> sender[s].number,
                status |-> Recorded(s), at |-> sender[s].at, message |-> s]

\* A row of notice k is appended by a sender that ends with it.
EventsMove(k) ==
  \/ events' = events
  \/ \E s \in Senders : /\ sender[s].pc = "recording" /\ Ends(s)
                        /\ sender[s].notice = k
                        /\ events' = Append(events, NewEvent(s))

\* The workflow takes a notice for delivered when the events say so.
OutcomeMoves(k) ==
  \/ outcome'[k] = outcome[k]
  \/ outcome[k] = "none" /\ outcome'[k] = "running"
  \/ outcome[k] = "running" /\ outcome'[k] = "error"
  \/ /\ outcome[k] = "running" /\ outcome'[k] = "ok"
     /\ \E i \in DOMAIN events' : events'[i].notice = k /\ events'[i].status = "delivered"

\* Rows and reports of a step are of one notice.
Moves == /\ \A s \in Senders : SenderMoves(s)
         /\ AcceptedMoves
         /\ \E k \in Notices :
              /\ EventsMove(k)
              /\ \A j \in Notices :
                   /\ OutcomeMoves(j)
                   /\ j # k /\ outcome'[j] = "ok" => outcome[j] = "ok"

\* Attempts the server has not scheduled are idle.
Unscheduled ==
  /\ \A k \in Notices : outcome[k] = "none" => attempt[k] = 0
  /\ \A k \in Notices, a \in 1 .. MaximumAttempts :
       a > attempt[k] => sender[<<k, a>>].pc = "idle"

\* A sender that has begun works on one notice, an attempt on its own.
SendersHaveNotices ==
  \A s \in Senders : sender[s].pc # "idle" => /\ sender[s].notice \in Notices
                                              /\ s \in Attempts => sender[s].notice = s[1]

-----------------------------------------------------------------------------
(* What the server does with the result of an attempt.                     *)

Settled(k, a, result) ==
  /\ sender' \in [Senders -> SenderState]
  /\ attempt' \in [Notices -> 0 .. MaximumAttempts]
  /\ outcome' \in [Notices -> {"none", "running", "ok", "error"}]
  /\ sender'[<<k, a>>] = Ended(<<k, a>>)
  /\ \A s \in Senders \ {<<k, a>>} :
       \/ sender'[s] = sender[s]
       \/ /\ s = <<k, a + 1>> /\ a + 1 \in 1 .. MaximumAttempts
          /\ attempt[k] = a /\ attempt'[k] = a + 1
          /\ sender'[s] = Scheduled(k, raisedAt[k])
  /\ \A j \in Notices : /\ attempt[j] <= attempt'[j]
                        /\ outcome'[j] = "none" => /\ outcome[j] = "none"
                                                   /\ attempt'[j] = attempt[j]
  /\ \A j \in Notices :
       \/ outcome'[j] = outcome[j]
       \/ outcome[j] = "running" /\ outcome'[j] = "error"
       \/ /\ j = k /\ result = "ok"
          /\ outcome[j] = "running" /\ outcome'[j] = "ok"

LEMMA SettleMoves ==
  ASSUME TypeOK, NEW k \in Notices, NEW a \in 1 .. MaximumAttempts,
         NEW result \in {"ok", "error", "retry"}, Settle(k, a, result)
  PROVE  Settled(k, a, result)
<1> DEFINE s == <<k, a>>
<1>1. s \in Senders /\ Ended(s) \in SenderState
  BY AttemptsAreSenders, EndedTyped
<1>2. MaximumAttempts \in Nat /\ a \in Nat /\ raisedAt[k] \in Nat
  BY BoundsAssumption DEF TypeOK
<1>3. CASE ~Awaited(k, a)
  <2>1. sender' = [sender EXCEPT ![s] = Ended(s)] /\ UNCHANGED <<attempt, outcome>>
    BY <1>3 DEF Settle
  <2> HIDE DEF s
  <2> QED
    BY <1>1, <1>2, <2>1 DEF TypeOK, s, Settled
<1>4. CASE Awaited(k, a) /\ result = "retry" /\ a < MaximumAttempts
  <2> DEFINE n == <<k, a + 1>>
  <2>1. a + 1 \in 1 .. MaximumAttempts
    BY <1>2, <1>4
  <2>2. n \in Senders /\ n # s
    BY <2>1, AttemptsAreSenders
  <2>3. Scheduled(k, raisedAt[k]) \in SenderState
    BY <1>2, ScheduledTyped
  <2>4. /\ sender' = [sender EXCEPT ![s] = Ended(s), ![n] = Scheduled(k, raisedAt[k])]
        /\ attempt' = [attempt EXCEPT ![k] = a + 1]
        /\ outcome' = outcome
        /\ outcome[k] = "running" /\ attempt[k] = a
    BY <1>4 DEF Settle, Awaited
  <2> HIDE DEF s, n
  <2>5. /\ sender' \in [Senders -> SenderState]
        /\ sender'[s] = Ended(s)
        /\ \A t \in Senders \ {s} : \/ sender'[t] = sender[t]
                                    \/ t = n /\ sender'[t] = Scheduled(k, raisedAt[k])
    BY <1>1, <2>2, <2>3, <2>4 DEF TypeOK
  <2>6. /\ attempt' \in [Notices -> 0 .. MaximumAttempts] /\ attempt'[k] = a + 1
        /\ \A j \in Notices : attempt[j] <= attempt'[j] /\ (j # k => attempt'[j] = attempt[j])
    BY <1>2, <2>1, <2>4 DEF TypeOK
  <2> QED
    BY <2>1, <2>4, <2>5, <2>6 DEF TypeOK, s, n, Settled
<1>5. CASE Awaited(k, a) /\ ~(result = "retry" /\ a < MaximumAttempts)
  <2>1. /\ sender' = [sender EXCEPT ![s] = Ended(s)]
        /\ outcome' = [outcome EXCEPT ![k] = IF result = "ok" THEN "ok" ELSE "error"]
        /\ attempt' = attempt
        /\ outcome[k] = "running"
    BY <1>5 DEF Settle, Awaited
  <2> HIDE DEF s
  <2>2. /\ sender' \in [Senders -> SenderState]
        /\ sender'[s] = Ended(s)
        /\ \A t \in Senders \ {s} : sender'[t] = sender[t]
    BY <1>1, <2>1 DEF TypeOK
  <2>3. /\ attempt' \in [Notices -> 0 .. MaximumAttempts]
        /\ \A j \in Notices : attempt[j] <= attempt'[j]
    BY <1>2, <2>1 DEF TypeOK
  <2>4. /\ outcome' \in [Notices -> {"none", "running", "ok", "error"}]
        /\ \A j \in Notices : IF j = k THEN outcome'[j] = IF result = "ok" THEN "ok" ELSE "error"
                              ELSE outcome'[j] = outcome[j]
    BY <2>1 DEF TypeOK
  <2> QED
    BY <2>1, <2>2, <2>3, <2>4 DEF s, Settled
<1> QED
  BY <1>3, <1>4, <1>5

-----------------------------------------------------------------------------
(* Every step moves as Moves says, keeps its values typed and schedules     *)
(* attempts in their order.                                                *)

StepInv == TypeOK /\ Unscheduled /\ SendersHaveNotices

Result == TypeOK' /\ Unscheduled' /\ Moves

\* Only the sender named changes.
LEMMA OneSender ==
  ASSUME TypeOK, NEW s \in Senders, NEW new \in SenderState,
         sender' = [sender EXCEPT ![s] = new]
  PROVE  /\ sender' \in [Senders -> SenderState]
         /\ sender'[s] = new
         /\ \A t \in Senders \ {s} : sender'[t] = sender[t]
BY DEF TypeOK

LEMMA ScheduledInOrder ==
  ASSUME TypeOK, Unscheduled,
         attempt' \in [Notices -> 0 .. MaximumAttempts],
         \A j \in Notices : attempt[j] <= attempt'[j],
         \A j \in Notices : outcome'[j] = "none" =>
                              outcome[j] = "none" /\ attempt'[j] = attempt[j],
         \A j \in Notices, b \in 1 .. MaximumAttempts :
            sender[<<j, b>>].pc = "idle" =>
              sender'[<<j, b>>].pc = "idle" \/ b <= attempt'[j]
  PROVE  Unscheduled'
<1> SUFFICES ASSUME NEW j \in Notices, NEW b \in 1 .. MaximumAttempts, b > attempt'[j]
             PROVE  sender'[<<j, b>>].pc = "idle"
  BY DEF Unscheduled
<1>1. /\ attempt[j] \in Int /\ attempt'[j] \in Int /\ b \in Int
      /\ attempt[j] <= attempt'[j]
  BY BoundsAssumption DEF TypeOK
<1>2. b > attempt[j]
  BY <1>1
<1> QED
  BY <1>1, <1>2 DEF Unscheduled

\* The same for a step that leaves the server alone and starts no attempt.
LEMMA ServerIdle ==
  ASSUME StepInv, UNCHANGED <<attempt, outcome>>,
         \A s \in Attempts : sender[s].pc = "idle" => sender'[s].pc = "idle"
  PROVE  Unscheduled'
<1>1. \A j \in Notices, b \in 1 .. MaximumAttempts : <<j, b>> \in Attempts
  BY AttemptsAreSenders
<1>2. \A j \in Notices : attempt[j] \in Int
  BY DEF StepInv, TypeOK
<1> QED
  BY <1>1, <1>2 DEF StepInv, Unscheduled

\* The event a sender appends is typed, and the event it is given as stored
\* tells of a delivery only if one is on record.
LEMMA AppendTyped ==
  ASSUME StepInv, NEW s \in Senders, sender[s].pc = "recording",
         AppendEvent(s, Recorded(s))
  PROVE  /\ events' \in Seq(Event)
         /\ events' = events \/ events' = Append(events, NewEvent(s))
         /\ StoredStatus(s, Recorded(s)) = "delivered" =>
              \E i \in DOMAIN events' : /\ events'[i].notice = sender[s].notice
                                        /\ events'[i].status = "delivered"
<1>1. sender[s] \in SenderState /\ sender[s].notice \in Notices
  BY DEF StepInv, TypeOK, SendersHaveNotices
<1>2. NewEvent(s) \in Event
  BY <1>1 DEF NewEvent, Event, Recorded, SenderState
<1>3. events \in Seq(Event)
  BY DEF StepInv, TypeOK
<1>4. CASE Holding(s) = {}
  <2>1. events' = Append(events, NewEvent(s)) /\ StoredStatus(s, Recorded(s)) = Recorded(s)
    BY <1>4 DEF AppendEvent, StoredStatus, NewEvent
  <2> DEFINE n == Len(events) + 1
  <2>2. events' \in Seq(Event) /\ n \in DOMAIN events' /\ events'[n] = NewEvent(s)
    BY <1>2, <1>3, <2>1, AppendProperties
  <2>3. NewEvent(s).notice = sender[s].notice /\ NewEvent(s).status = Recorded(s)
    BY DEF NewEvent
  <2> QED
    BY <2>1, <2>2, <2>3
<1>5. CASE Holding(s) # {}
  <2>1. events' = events
    BY <1>5 DEF AppendEvent
  <2>2. PICK i \in Holding(s) : StoredStatus(s, Recorded(s)) = events[i].status
    BY <1>5 DEF StoredStatus
  <2> QED
    BY <1>3, <2>1, <2>2 DEF Holding
<1> QED
  BY <1>4, <1>5

\* An attempt returns.
LEMMA SettleResult ==
  ASSUME StepInv, NEW k \in Notices, NEW a \in 1 .. MaximumAttempts,
         NEW result \in {"ok", "error", "retry"}, Settle(k, a, result),
         sender[<<k, a>>].pc \in {"lookup", "sending", "recording"},
         UNCHANGED <<notices, content, clock, raisedAt, accepted>>,
         events' \in Seq(Event),
         \/ events' = events
         \/ sender[<<k, a>>].pc = "recording" /\ events' = Append(events, NewEvent(<<k, a>>)),
         result = "ok" => \E i \in DOMAIN events' : /\ events'[i].notice = k
                                                    /\ events'[i].status = "delivered"
  PROVE  Result
<1> DEFINE s == <<k, a>>
<1>1. s \in Senders /\ s \in Attempts
  BY AttemptsAreSenders
<1>2. TypeOK /\ Unscheduled /\ raisedAt[k] \in Nat
  BY DEF StepInv, TypeOK
<1>3. Settled(k, a, result)
  BY <1>2, SettleMoves
<1>4. Ended(s).pc = "done" /\ Ended(s).notice = sender[s].notice
  BY <1>1, <1>2, EndedTyped
<1>5. Ends(s)
  BY <1>3, <1>4 DEF Ends, Settled
<1>6. \A t \in Senders \ {s} : sender'[t] = sender[t] \/ Starts(t)
  <2> SUFFICES ASSUME NEW t \in Senders \ {s}, sender'[t] # sender[t]
               PROVE  Starts(t)
    OBVIOUS
  <2>1. /\ t = <<k, a + 1>> /\ a + 1 \in 1 .. MaximumAttempts /\ attempt[k] = a
        /\ sender'[t] = Scheduled(k, raisedAt[k])
    BY <1>3 DEF Settled
  <2>2. sender[t].pc = "idle"
    BY <1>2, <2>1 DEF Unscheduled
  <2>3. sender'[t].pc = "lookup" /\ sender'[t].notice = k
    BY <1>2, <2>1, ScheduledTyped
  <2>4. t[1] = k
    BY <2>1
  <2> QED
    BY <2>2, <2>3, <2>4 DEF Starts
<1>7. TypeOK'
  BY <1>2, <1>3 DEF TypeOK, Settled
<1>8. Unscheduled'
  <2>1. \A j \in Notices, b \in 1 .. MaximumAttempts :
          sender[<<j, b>>].pc = "idle" => sender'[<<j, b>>].pc = "idle" \/ b <= attempt'[j]
    <3> SUFFICES ASSUME NEW j \in Notices, NEW b \in 1 .. MaximumAttempts,
                        sender[<<j, b>>].pc = "idle",
                        sender'[<<j, b>>] # sender[<<j, b>>]
                 PROVE  b <= attempt'[j]
      OBVIOUS
    <3>1. <<j, b>> \in Senders /\ <<j, b>> # s
      BY AttemptsAreSenders
    <3>2. <<j, b>> = <<k, a + 1>> /\ attempt'[k] = a + 1
      BY <1>3, <3>1 DEF Settled
    <3> QED
      BY <3>2
  <2> QED
    BY <1>2, <1>3, <2>1, ScheduledInOrder DEF Settled
<1>9. Moves
  <2>1. AcceptedMoves
    BY <1>2 DEF AcceptedMoves, TypeOK
  <2>2. EventsMove(k)
    <3>1. sender[s].pc = "recording" => sender[s].notice = k
      BY <1>1 DEF StepInv, SendersHaveNotices
    <3> QED
      BY <1>1, <1>5, <3>1 DEF EventsMove
  <2>3. \A j \in Notices : /\ OutcomeMoves(j)
                           /\ j # k /\ outcome'[j] = "ok" => outcome[j] = "ok"
    BY <1>3 DEF OutcomeMoves, Settled
  <2>4. \A t \in Senders : SenderMoves(t)
    BY <1>5, <1>6 DEF SenderMoves
  <2> QED
    BY <2>1, <2>2, <2>3, <2>4 DEF Moves
<1> QED
  BY <1>7, <1>8, <1>9 DEF Result

\* One sender moves on, without the server.
LEMMA OneSenderResult ==
  ASSUME StepInv, NEW s \in Senders, NEW new \in SenderState,
         sender' = [sender EXCEPT ![s] = new],
         UNCHANGED <<notices, content, raisedAt, attempt, outcome>>,
         clock' \in Nat, events' \in Seq(Event),
         NEW k \in Notices, EventsMove(k), AcceptedMoves,
         \/ s \notin Attempts /\ Starts(s)
         \/ Looks(s) \/ Sends(s) \/ Ends(s)
  PROVE  Result
<1>1. TypeOK
  BY DEF StepInv
<1>2. /\ sender' \in [Senders -> SenderState]
      /\ \A t \in Senders \ {s} : sender'[t] = sender[t]
  BY <1>1, OneSender
<1>3. TypeOK'
  BY <1>1, <1>2 DEF TypeOK, AcceptedMoves
<1>4. \A t \in Attempts : sender[t].pc = "idle" => sender'[t].pc = "idle"
  <2>1. \A t \in Attempts : t \in Senders
    BY DEF Senders
  <2> QED
    BY <1>2, <2>1 DEF Looks, Sends, Ends
<1>5. Unscheduled'
  BY <1>4, ServerIdle
<1>6. \A j \in Notices : OutcomeMoves(j)
  BY DEF OutcomeMoves
<1> QED
  BY <1>2, <1>3, <1>5, <1>6 DEF Result, Moves, SenderMoves

LEMMA RaiseNoticeResult ==
  ASSUME StepInv, NEW k \in Notices, RaiseNotice(k)
  PROVE  Result
<1> DEFINE s == <<k, 1>>
<1>1. TypeOK /\ Unscheduled /\ clock + 1 \in Nat /\ 1 \in 1 .. MaximumAttempts
  BY BoundsAssumption DEF StepInv, TypeOK
<1>2. s \in Senders /\ s[1] = k
  BY <1>1, AttemptsAreSenders
<1>3. /\ Scheduled(k, clock + 1) \in SenderState
      /\ Scheduled(k, clock + 1).pc = "lookup" /\ Scheduled(k, clock + 1).notice = k
  BY <1>1, ScheduledTyped
<1>4. /\ sender' = [sender EXCEPT ![s] = Scheduled(k, clock + 1)]
      /\ attempt' = [attempt EXCEPT ![k] = 1] /\ outcome' = [outcome EXCEPT ![k] = "running"]
      /\ clock' = clock + 1 /\ raisedAt' = [raisedAt EXCEPT ![k] = clock + 1]
      /\ outcome[k] = "none"
      /\ UNCHANGED <<notices, content, events, accepted>>
  BY DEF RaiseNotice
<1>5. /\ sender' \in [Senders -> SenderState]
      /\ sender'[s] = Scheduled(k, clock + 1)
      /\ \A t \in Senders \ {s} : sender'[t] = sender[t]
  <2> HIDE DEF s
  <2> QED
    BY <1>1, <1>2, <1>3, <1>4, OneSender
<1>6. attempt[k] = 0 /\ sender[s].pc = "idle"
  BY <1>1, <1>4 DEF Unscheduled
<1>7. Starts(s)
  BY <1>2, <1>3, <1>5, <1>6 DEF Starts
<1>8. /\ attempt' \in [Notices -> 0 .. MaximumAttempts] /\ attempt'[k] = 1
      /\ outcome' \in [Notices -> {"none", "running", "ok", "error"}]
      /\ outcome'[k] = "running"
      /\ \A j \in Notices : /\ attempt[j] <= attempt'[j]
                            /\ j # k => outcome'[j] = outcome[j] /\ attempt'[j] = attempt[j]
  BY <1>1, <1>4, <1>6 DEF TypeOK
<1>9. TypeOK'
  BY <1>1, <1>4, <1>5, <1>8 DEF TypeOK
<1>10. Unscheduled'
  <2>1. \A j \in Notices, b \in 1 .. MaximumAttempts :
          sender[<<j, b>>].pc = "idle" => sender'[<<j, b>>].pc = "idle" \/ b <= attempt'[j]
    <3> SUFFICES ASSUME NEW j \in Notices, NEW b \in 1 .. MaximumAttempts,
                        sender'[<<j, b>>] # sender[<<j, b>>]
                 PROVE  b <= attempt'[j]
      OBVIOUS
    <3>1. <<j, b>> = s
      BY <1>5, AttemptsAreSenders
    <3> QED
      BY <1>8, <3>1
  <2> QED
    BY <1>1, <1>8, <2>1, ScheduledInOrder
<1>11. Moves
  <2>1. \A t \in Senders : SenderMoves(t)
    BY <1>5, <1>7 DEF SenderMoves
  <2>2. \A j \in Notices : /\ OutcomeMoves(j)
                           /\ j # k /\ outcome'[j] = "ok" => outcome[j] = "ok"
    BY <1>4, <1>8 DEF OutcomeMoves
  <2>3. EventsMove(k) /\ AcceptedMoves
    BY <1>4 DEF EventsMove, AcceptedMoves
  <2> QED
    BY <2>1, <2>2, <2>3 DEF Moves
<1> QED
  BY <1>9, <1>10, <1>11 DEF Result

LEMMA TimeoutAttemptResult ==
  ASSUME StepInv, NEW k \in Notices, TimeoutAttempt(k)
  PROVE  Result
<1>1. /\ TypeOK /\ Unscheduled /\ MaximumAttempts \in Nat /\ raisedAt[k] \in Nat
      /\ attempt[k] \in 0 .. MaximumAttempts
  BY BoundsAssumption DEF StepInv, TypeOK
<1>2. outcome[k] = "running" /\ UNCHANGED <<notices, content, clock, raisedAt, events, accepted>>
  BY DEF TimeoutAttempt
<1>3. CASE attempt[k] < MaximumAttempts
  <2> DEFINE b == attempt[k] + 1
             n == <<k, b>>
  <2>1. b \in 1 .. MaximumAttempts
    BY <1>1, <1>3
  <2>2. n \in Senders /\ n[1] = k
    BY <2>1, AttemptsAreSenders
  <2>3. /\ Scheduled(k, raisedAt[k]) \in SenderState
        /\ Scheduled(k, raisedAt[k]).pc = "lookup" /\ Scheduled(k, raisedAt[k]).notice = k
    BY <1>1, ScheduledTyped
  <2>4. /\ sender' = [sender EXCEPT ![n] = Scheduled(k, raisedAt[k])]
        /\ attempt' = [attempt EXCEPT ![k] = b] /\ outcome' = outcome
    BY <1>3 DEF TimeoutAttempt
  <2>5. /\ sender' \in [Senders -> SenderState]
        /\ sender'[n] = Scheduled(k, raisedAt[k])
        /\ \A t \in Senders \ {n} : sender'[t] = sender[t]
    <3> HIDE DEF n
    <3> QED
      BY <1>1, <2>2, <2>3, <2>4, OneSender
  <2>6. sender[n].pc = "idle"
    BY <1>1, <2>1 DEF Unscheduled
  <2>7. Starts(n)
    BY <2>2, <2>3, <2>5, <2>6 DEF Starts
  <2>8. /\ attempt' \in [Notices -> 0 .. MaximumAttempts] /\ attempt'[k] = b
        /\ \A j \in Notices : /\ attempt[j] <= attempt'[j]
                              /\ j # k => attempt'[j] = attempt[j]
    BY <1>1, <2>1, <2>4 DEF TypeOK
  <2>9. TypeOK'
    BY <1>1, <1>2, <2>4, <2>5, <2>8 DEF TypeOK
  <2>10. Unscheduled'
    <3>1. \A j \in Notices, c \in 1 .. MaximumAttempts :
            sender[<<j, c>>].pc = "idle" => sender'[<<j, c>>].pc = "idle" \/ c <= attempt'[j]
      <4> SUFFICES ASSUME NEW j \in Notices, NEW c \in 1 .. MaximumAttempts,
                          sender'[<<j, c>>] # sender[<<j, c>>]
                   PROVE  c <= attempt'[j]
        OBVIOUS
      <4>1. <<j, c>> = n
        BY <2>5, AttemptsAreSenders
      <4> QED
        BY <2>8, <4>1
    <3> QED
      BY <1>1, <1>2, <2>4, <2>8, <3>1, ScheduledInOrder
  <2>11. Moves
    <3>1. \A t \in Senders : SenderMoves(t)
      BY <2>5, <2>7 DEF SenderMoves
    <3> QED
      BY <1>1, <1>2, <2>4, <3>1 DEF Moves, AcceptedMoves, EventsMove, OutcomeMoves, TypeOK
  <2> QED
    BY <2>9, <2>10, <2>11 DEF Result
<1>4. CASE ~(attempt[k] < MaximumAttempts)
  <2>1. outcome' = [outcome EXCEPT ![k] = "error"] /\ UNCHANGED <<attempt, sender>>
    BY <1>4 DEF TimeoutAttempt
  <2>2. /\ outcome' \in [Notices -> {"none", "running", "ok", "error"}]
        /\ outcome'[k] = "error"
        /\ \A j \in Notices \ {k} : outcome'[j] = outcome[j]
    BY <1>1, <2>1 DEF TypeOK
  <2>3. TypeOK' /\ Unscheduled'
    BY <1>1, <1>2, <2>1, <2>2 DEF TypeOK, Unscheduled
  <2>4. Moves
    BY <1>1, <1>2, <2>1, <2>2
    DEF Moves, SenderMoves, AcceptedMoves, EventsMove, OutcomeMoves, TypeOK
  <2> QED
    BY <2>3, <2>4 DEF Result
<1> QED
  BY <1>3, <1>4

LEMMA AttemptStepResult ==
  ASSUME StepInv, NEW k \in Notices, NEW a \in 1 .. MaximumAttempts,
         AttemptStep(k, a) /\ ~Send(<<k, a>>)
  PROVE  Result
<1> DEFINE s == <<k, a>>
<1>1. s \in Senders /\ s \in Attempts /\ s[1] = k
  BY AttemptsAreSenders
<1>2. TypeOK /\ events \in Seq(Event) /\ sender[s] \in SenderState
  BY <1>1 DEF StepInv, TypeOK
<1>3. CASE LookupFindsDelivery(k, a)
  <2>1. \E i \in DOMAIN events : events[i].notice = k /\ events[i].status = "delivered"
    BY <1>3 DEF LookupFindsDelivery, ListedOf, Listed
  <2> QED
    BY <1>2, <1>3, <2>1, SettleResult DEF LookupFindsDelivery
<1>4. CASE LookupFindsNone(k, a)
  <2> DEFINE n == Cardinality(ListedOf(k))
             new == [sender[s] EXCEPT !.pc = "sending", !.number = n]
  <2>1. n \in Nat
    <3>1. IsFiniteSet(DOMAIN events)
      BY <1>2, FS_Interval
    <3>2. ListedOf(k) \subseteq DOMAIN events
      BY DEF ListedOf, Listed
    <3> QED
      BY <3>1, <3>2, FS_Subset, FS_CardinalityType
  <2> HIDE DEF n
  <2>2. /\ new \in SenderState
        /\ new.pc = "sending" /\ new.notice = sender[s].notice
    BY <1>2, <2>1 DEF SenderState
  <2>3. sender' = [sender EXCEPT ![s] = new] /\ sender[s].pc = "lookup"
    BY <1>1, <1>2, <1>4 DEF LookupFindsNone, n, TypeOK
  <2>4. sender'[s] = new
    BY <1>1, <1>2, <2>3 DEF TypeOK
  <2>5. Looks(s)
    BY <2>2, <2>3, <2>4 DEF Looks
  <2>6. EventsMove(k) /\ AcceptedMoves
    BY <1>2, <1>4 DEF LookupFindsNone, EventsMove, AcceptedMoves, TypeOK
  <2>7. UNCHANGED <<notices, content, raisedAt, attempt, outcome, clock, events>>
    BY <1>4 DEF LookupFindsNone
  <2>8. clock \in Nat
    BY <1>2 DEF TypeOK
  <2> HIDE DEF new, s
  <2> QED
    BY <1>1, <1>2, <2>2, <2>3, <2>5, <2>6, <2>7, <2>8, OneSenderResult
<1>5. CASE AttemptFails(k, a)
  BY <1>2, <1>5, SettleResult DEF AttemptFails
<1>6. CASE RecordAttempt(k, a)
  <2> DEFINE result == IF sender[s].answer = "retryable" THEN "retry"
                       ELSE IF StoredStatus(s, Recorded(s)) = "delivered" THEN "ok"
                       ELSE "error"
  <2>1. /\ sender[s].pc = "recording" /\ AppendEvent(s, Recorded(s))
        /\ Settle(k, a, result)
        /\ UNCHANGED <<notices, content, clock, raisedAt, accepted>>
    BY <1>6 DEF RecordAttempt
  <2>2. sender[s].notice = k
    BY <1>1, <2>1 DEF StepInv, SendersHaveNotices
  <2>3. /\ events' \in Seq(Event)
        /\ events' = events \/ events' = Append(events, NewEvent(s))
        /\ result = "ok" => \E i \in DOMAIN events' : /\ events'[i].notice = k
                                                      /\ events'[i].status = "delivered"
    BY <1>1, <2>1, <2>2, AppendTyped
  <2>4. result \in {"ok", "error", "retry"}
    OBVIOUS
  <2> HIDE DEF result
  <2> QED
    BY <2>1, <2>3, <2>4, SettleResult
<1>7. CASE RecordAttemptFails(k, a)
  BY <1>2, <1>7, SettleResult DEF RecordAttemptFails
<1> QED
  BY <1>3, <1>4, <1>5, <1>6, <1>7 DEF AttemptStep

LEMMA SendResult ==
  ASSUME StepInv, NEW s \in Senders, Send(s)
  PROVE  Result
<1>1. TypeOK /\ events \in Seq(Event) /\ sender[s] \in SenderState /\ clock \in Nat
  BY DEF StepInv, TypeOK
<1>2. PICK answer \in {"delivered", "retryable", "rejected"} :
        /\ sender' = [sender EXCEPT ![s].pc = "recording", ![s].answer = answer]
        /\ \/ answer # "rejected" /\ accepted' = accepted \cup {s}
           \/ answer # "delivered" /\ UNCHANGED accepted
  BY DEF Send
<1> DEFINE new == [sender[s] EXCEPT !.pc = "recording", !.answer = answer]
<1>3. /\ new \in SenderState
      /\ new.pc = "recording" /\ new.notice = sender[s].notice /\ new.answer = answer
  BY <1>1 DEF SenderState
<1>4. sender' = [sender EXCEPT ![s] = new]
  BY <1>1, <1>2 DEF TypeOK
<1>5. sender'[s] = new
  BY <1>1, <1>4 DEF TypeOK
<1>6. Sends(s)
  BY <1>2, <1>3, <1>5 DEF Sends, Send
<1>7. UNCHANGED <<notices, content, clock, raisedAt, attempt, outcome, events>>
  BY DEF Send
<1>8. AcceptedMoves
  BY <1>2, <1>6, <1>7 DEF AcceptedMoves
<1>9. sender[s].notice \in Notices
  BY DEF Send, StepInv, SendersHaveNotices
<1>10. EventsMove(sender[s].notice)
  BY <1>7 DEF EventsMove
<1> HIDE DEF new
<1> QED
  BY <1>1, <1>3, <1>4, <1>6, <1>7, <1>8, <1>9, <1>10, OneSenderResult

LEMMA RetryStepResult ==
  ASSUME StepInv, NEW o \in Operators, RetryStep(o) /\ ~Send(o)
  PROVE  Result
<1>1. o \in Senders /\ o \notin Attempts
  BY OperatorsAreSenders
<1>2. TypeOK /\ events \in Seq(Event) /\ sender[o] \in SenderState /\ clock \in Nat
  BY <1>1 DEF StepInv, TypeOK
<1>3. CASE LoadRetry(o)
  <2>1. PICK i \in DOMAIN events :
          sender' = [sender EXCEPT ![o] = Resending(events[i].notice,
                                                    Cardinality(ListedOf(events[i].notice)),
                                                    clock + 1)]
    BY <1>3, Zenon DEF LoadRetry, Resending
  <2> DEFINE n == Cardinality(ListedOf(events[i].notice))
             new == Resending(events[i].notice, n, clock + 1)
  <2>2. n \in Nat
    <3>1. IsFiniteSet(DOMAIN events)
      BY <1>2, FS_Interval
    <3>2. ListedOf(events[i].notice) \subseteq DOMAIN events
      BY DEF ListedOf, Listed
    <3> QED
      BY <3>1, <3>2, FS_Subset, FS_CardinalityType
  <2>3. events[i].notice \in Notices
    <3>1. events[i] \in Event
      BY <1>2, ElementOfSeq
    <3> QED
      BY <3>1 DEF Event
  <2> HIDE DEF n
  <2>4. /\ new \in SenderState
        /\ new.pc = "sending" /\ new.notice \in Notices
    BY <1>2, <2>2, <2>3, ResendingTyped
  <2>5. sender' = [sender EXCEPT ![o] = new] /\ sender[o].pc = "idle"
    BY <1>3, <2>1 DEF LoadRetry, n
  <2>6. Starts(o)
    BY <1>1, <1>2, <2>4, <2>5 DEF Starts, TypeOK
  <2>7. /\ UNCHANGED <<notices, content, raisedAt, attempt, outcome, events, accepted>>
        /\ clock' \in Nat
    BY <1>2, <1>3 DEF LoadRetry
  <2>8. EventsMove(events[i].notice) /\ AcceptedMoves
    BY <1>2, <2>7 DEF EventsMove, AcceptedMoves, TypeOK
  <2> HIDE DEF new
  <2> QED
    BY <1>1, <1>2, <2>3, <2>4, <2>5, <2>6, <2>7, <2>8, OneSenderResult
<1>4. CASE RetryFails(o) \/ RecordRetry(o)
  <2>1. /\ sender[o].pc \in {"sending", "recording"}
        /\ sender' = [sender EXCEPT ![o] = Ended(o)]
        /\ UNCHANGED <<notices, content, clock, raisedAt, attempt, outcome, accepted>>
    BY <1>4 DEF RetryFails, RecordRetry
  <2>2. /\ Ended(o) \in SenderState
        /\ Ended(o).pc = "done" /\ Ended(o).notice = sender[o].notice
    BY <1>1, <1>2, EndedTyped
  <2>3. Ends(o)
    BY <1>1, <1>2, <2>1, <2>2 DEF Ends, TypeOK
  <2> DEFINE k == sender[o].notice
  <2>4. k \in Notices
    BY <1>1, <2>1 DEF StepInv, SendersHaveNotices
  <2>5. events' \in Seq(Event) /\ EventsMove(k)
    <3>1. CASE events' = events
      BY <1>2, <3>1 DEF EventsMove
    <3>2. CASE sender[o].pc = "recording" /\ AppendEvent(o, Recorded(o))
      BY <1>1, <2>3, <3>2, AppendTyped DEF EventsMove
    <3> QED
      BY <1>4, <3>1, <3>2 DEF RetryFails, RecordRetry
  <2>6. AcceptedMoves
    BY <1>2, <2>1 DEF AcceptedMoves, TypeOK
  <2> QED
    BY <1>1, <1>2, <2>1, <2>2, <2>3, <2>5, <2>6, <2>4, OneSenderResult
<1> QED
  BY <1>3, <1>4 DEF RetryStep

\* No step does anything but what Moves allows.
LEMMA StepMoves ==
  ASSUME StepInv, [Next]_vars
  PROVE  Result
<1>1. CASE UNCHANGED vars
  BY <1>1, BoundsAssumption
  DEF Notices, vars, StepInv, Result, TypeOK, Unscheduled, Moves, SenderMoves, AcceptedMoves,
      EventsMove, OutcomeMoves
<1>2. ASSUME NEW k \in Notices, RaiseNotice(k) PROVE Result
  BY <1>2, RaiseNoticeResult
<1>3. ASSUME NEW k \in Notices, TimeoutAttempt(k) PROVE Result
  BY <1>3, TimeoutAttemptResult
<1>4. ASSUME NEW k \in Notices, NEW a \in 1 .. MaximumAttempts, AttemptStep(k, a)
      PROVE  Result
  BY <1>4, AttemptStepResult, SendResult, AttemptsAreSenders
<1>5. ASSUME NEW o \in Operators, RetryStep(o) PROVE Result
  BY <1>5, RetryStepResult, SendResult, OperatorsAreSenders
<1> QED
  BY <1>1, <1>2, <1>3, <1>4, <1>5 DEF Next

-----------------------------------------------------------------------------
(* The invariant.                                                          *)

\* A message the provider took was sent.
AcceptedWereSent == \A s \in accepted : sender[s].pc \in {"recording", "done"}

\* A sender told of a delivery has its message taken.
AnswersAreReal ==
  \A s \in Senders : /\ sender[s].pc = "recording"
                     /\ sender[s].answer = "delivered"
                     => s \in accepted

\* A row was written once, by a sender that has ended.
EventsAreReal ==
  \A i \in DOMAIN events :
    /\ events[i].message \in Senders
    /\ sender[events[i].message].pc = "done"
    /\ sender[events[i].message].notice = events[i].notice
    /\ events[i].status = "delivered" => events[i].message \in accepted
    /\ \A j \in DOMAIN events : events[j].message = events[i].message => j = i

Inv == StepInv /\ AcceptedWereSent /\ AnswersAreReal /\ EventsAreReal

LEMMA InvInit == Init => Inv
<1> SUFFICES ASSUME Init PROVE Inv
  OBVIOUS
<1>1. Idle \in SenderState /\ Idle.pc = "idle"
  BY IdleTyped DEF Idle
<1>2. \A s \in Senders : sender[s] = Idle
  BY DEF Init
<1>3. events = << >> /\ events \in Seq(Event)
  BY DEF Init
<1>4. TypeOK
  BY <1>1, <1>3, BoundsAssumption DEF Init, TypeOK
<1>5. Unscheduled
  <2>1. \A k \in Notices, a \in 1 .. MaximumAttempts : <<k, a>> \in Senders
    BY AttemptsAreSenders
  <2> QED
    BY <1>1, <1>2, <2>1 DEF Unscheduled, Init
<1>6. SendersHaveNotices /\ AnswersAreReal
  BY <1>1, <1>2 DEF SendersHaveNotices, AnswersAreReal
<1>7. AcceptedWereSent /\ EventsAreReal
  BY <1>3 DEF Init, AcceptedWereSent, EventsAreReal
<1> QED
  BY <1>4, <1>5, <1>6, <1>7 DEF Inv, StepInv

LEMMA InvStep == Inv /\ [Next]_vars => Inv'
<1> SUFFICES ASSUME Inv, [Next]_vars PROVE Inv'
  OBVIOUS
<1>1. StepInv /\ AcceptedWereSent /\ AnswersAreReal /\ EventsAreReal
  BY DEF Inv
<1>2. TypeOK' /\ Unscheduled' /\ Moves
  BY <1>1, StepMoves DEF Result
<1>3. \A s \in Senders : SenderMoves(s)
  BY <1>2 DEF Moves
<1>4. accepted \subseteq accepted' /\ \A s \in accepted' \ accepted : Sends(s)
  BY <1>2 DEF Moves, AcceptedMoves
<1>5. SendersHaveNotices'
  BY <1>1, <1>3
  DEF StepInv, SendersHaveNotices, SenderMoves, Starts, Looks, Sends, Ends
<1>6. AcceptedWereSent'
  <2>1. accepted \subseteq Senders
    BY <1>1 DEF StepInv, TypeOK
  <2> QED
    BY <1>1, <1>3, <1>4, <2>1 DEF AcceptedWereSent, SenderMoves, Starts, Looks, Sends, Ends
<1>7. AnswersAreReal'
  BY <1>1, <1>3, <1>4 DEF AnswersAreReal, SenderMoves, Starts, Looks, Sends, Ends
<1>8. EventsAreReal'
  <2>1. \A s \in Senders : sender[s].pc = "done" => sender'[s] = sender[s]
    BY <1>3 DEF SenderMoves, Starts, Looks, Sends, Ends
  <2>2. CASE events' = events
    BY <1>1, <1>4, <2>1, <2>2 DEF EventsAreReal
  <2>3. ASSUME NEW s \in Senders, sender[s].pc = "recording", Ends(s),
               events' = Append(events, NewEvent(s))
        PROVE  EventsAreReal'
    <3>1. events \in Seq(Event)
      BY <1>1 DEF StepInv, TypeOK
    <3> DEFINE n == Len(events) + 1
    <3>2. /\ DOMAIN events = 1 .. Len(events) /\ DOMAIN events' = 1 .. n
          /\ Len(events) \in Nat
          /\ \A i \in DOMAIN events : events'[i] = events[i]
          /\ events'[n] = NewEvent(s)
      BY <2>3, <3>1 DEF NewEvent
    <3>3. /\ NewEvent(s).message = s /\ NewEvent(s).notice = sender[s].notice
          /\ NewEvent(s).status = "delivered" => s \in accepted
      BY <1>1, <2>3 DEF NewEvent, Recorded, AnswersAreReal
    <3>4. \A i \in DOMAIN events : events[i].message # s
      BY <1>1, <2>3 DEF EventsAreReal
    <3>5. sender'[s].pc = "done" /\ sender'[s].notice = sender[s].notice
      BY <2>3 DEF Ends
    <3>6. \A i \in DOMAIN events' : i \in DOMAIN events \/ i = n
      BY <3>2
    <3> HIDE DEF n
    <3> QED
      BY <1>1, <1>4, <2>1, <3>2, <3>3, <3>4, <3>5, <3>6 DEF EventsAreReal
  <2> QED
    BY <1>2, <2>2, <2>3 DEF Moves, EventsMove
<1> QED
  BY <1>2, <1>5, <1>6, <1>7, <1>8 DEF Inv, StepInv

\* The inductive invariant: what the send activities and Retry hold of their
\* rows and of the provider's answers between any two steps.
THEOREM InvariantHolds == Spec => []Inv
BY InvInit, InvStep, PTL DEF Spec

\* The activities and Retry keep rooms, senders and rows typed, whatever
\* attempts overlap.
THEOREM TypeCorrect == Spec => []TypeOK
<1>1. Inv => TypeOK
  BY DEF Inv, StepInv
<1> QED
  BY <1>1, InvariantHolds, PTL

\* appendDiagnosisRoomLifecycleEvent and appendRetryEvent never record a
\* delivery that did not happen, nor one twice.
THEOREM RecordedDeliveriesReal == Spec => []RecordedDeliveryIsReal
<1>1. Inv => RecordedDeliveryIsReal
  BY DEF Inv, EventsAreReal, RecordedDeliveryIsReal
<1> QED
  BY <1>1, InvariantHolds, PTL

-----------------------------------------------------------------------------
(* The refinement: what each step does to DeliveryLog's variables.         *)

Taken == {sender[s].notice : s \in accepted}
OnRecord == {k \in Notices : DeliveredTo(k) # {}}
Reported == {k \in Notices : outcome[k] = "ok"}

\* The provider takes a message: Take of its notice.
LEMMA TakenMoves ==
  ASSUME Inv, Moves
  PROVE  \/ Taken' = Taken /\ accepted' = accepted
         \/ /\ \E k \in Notices : Taken' = Taken \cup {k}
            /\ UNCHANGED <<events, outcome>>
<1>1. \A s \in accepted : s \in Senders /\ sender'[s].notice = sender[s].notice
  BY DEF Inv, StepInv, TypeOK, AcceptedWereSent, Moves, SenderMoves, Starts, Looks,
         Sends, Ends
<1>2. CASE accepted' = accepted
  BY <1>1, <1>2 DEF Taken
<1>3. ASSUME NEW s \in Senders, accepted' = accepted \cup {s}, Sends(s),
             UNCHANGED <<events, outcome>>
      PROVE  \E k \in Notices : Taken' = Taken \cup {k}
  <2>1. sender[s].notice \in Notices /\ sender'[s].notice = sender[s].notice
    BY <1>3 DEF Sends, Inv, StepInv, SendersHaveNotices
  <2>2. Taken' = Taken \cup {sender[s].notice}
    BY <1>1, <1>3, <2>1 DEF Taken
  <2> QED
    BY <2>1, <2>2
<1> QED
  BY <1>2, <1>3 DEF Moves, AcceptedMoves

\* A row is appended: nothing for DeliveryLog, or Record of its notice.
LEMMA RecordMoves ==
  ASSUME Inv, NEW k \in Notices, EventsMove(k)
  PROVE  OnRecord' = OnRecord \/ (OnRecord' = OnRecord \cup {k} /\ k \in Taken)
<1>1. CASE events' = events
  BY <1>1 DEF OnRecord, DeliveredTo
<1>2. ASSUME NEW s \in Senders, sender[s].pc = "recording", sender[s].notice = k,
             events' = Append(events, NewEvent(s))
      PROVE  OnRecord' = OnRecord \/ (OnRecord' = OnRecord \cup {k} /\ k \in Taken)
  <2>1. events \in Seq(Event)
    BY DEF Inv, StepInv, TypeOK
  <2> DEFINE n == Len(events) + 1
  <2>2. /\ DOMAIN events = 1 .. Len(events) /\ DOMAIN events' = 1 .. n
        /\ Len(events) \in Nat
        /\ \A i \in DOMAIN events : events'[i] = events[i]
        /\ events'[n] = NewEvent(s)
    BY <1>2, <2>1 DEF NewEvent
  <2>3. \A i : i \in DOMAIN events' <=> i \in DOMAIN events \/ i = n
    BY <2>2
  <2>4. NewEvent(s).notice = k /\ NewEvent(s).status = Recorded(s)
    BY <1>2 DEF NewEvent
  <2> HIDE DEF n
  <2>5. CASE Recorded(s) = "delivered"
    <3>1. s \in accepted
      BY <1>2, <2>5 DEF Recorded, Inv, AnswersAreReal
    <3>2. k \in Taken
      BY <1>2, <3>1 DEF Taken
    <3>3. \A j \in Notices : DeliveredTo(j)' = IF j = k THEN DeliveredTo(j) \cup {n}
                                               ELSE DeliveredTo(j)
      BY <2>2, <2>3, <2>4, <2>5 DEF DeliveredTo
    <3> QED
      BY <3>2, <3>3 DEF OnRecord
  <2>6. CASE Recorded(s) # "delivered"
    <3>1. \A j \in Notices : DeliveredTo(j)' = DeliveredTo(j)
      BY <2>2, <2>3, <2>4, <2>6 DEF DeliveredTo
    <3> QED
      BY <3>1 DEF OnRecord
  <2> QED
    BY <2>5, <2>6
<1> QED
  BY <1>1, <1>2 DEF EventsMove

\* The workflow learns of a delivery: Report of a notice on record.
LEMMA ReportMoves ==
  ASSUME NEW k \in Notices,
         \A j \in Notices : /\ OutcomeMoves(j)
                            /\ j # k /\ outcome'[j] = "ok" => outcome[j] = "ok"
  PROVE  Reported' = Reported \/ (Reported' = Reported \cup {k} /\ k \in OnRecord')
<1>1. \A j \in Notices : outcome[j] = "ok" => outcome'[j] = "ok"
  BY DEF OutcomeMoves
<1>2. CASE outcome'[k] = "ok" /\ outcome[k] # "ok"
  <2>1. k \in OnRecord'
    BY <1>2 DEF OutcomeMoves, OnRecord, DeliveredTo
  <2>2. Reported' = Reported \cup {k}
    BY <1>1, <1>2 DEF Reported
  <2> QED
    BY <2>1, <2>2
<1>3. CASE ~(outcome'[k] = "ok" /\ outcome[k] # "ok")
  BY <1>1, <1>3 DEF Reported
<1> QED
  BY <1>2, <1>3

\* Every step is one of DeliveryLog's, or changes nothing it knows of.
LEMMA StepImplements ==
  ASSUME Inv, [Next]_vars
  PROVE  [Log!Next]_(Log!vars)
<1>1. Moves
  BY StepMoves DEF Inv, Result
<1>2. CASE Taken' = Taken /\ accepted' = accepted
  <2>1. PICK k \in Notices :
          /\ EventsMove(k)
          /\ \A j \in Notices : /\ OutcomeMoves(j)
                                /\ j # k /\ outcome'[j] = "ok" => outcome[j] = "ok"
    BY <1>1 DEF Moves
  <2>2. OnRecord' = OnRecord \/ (OnRecord' = OnRecord \cup {k} /\ k \in Taken)
    BY <2>1, RecordMoves
  <2>3. Reported' = Reported \/ (Reported' = Reported \cup {k} /\ k \in OnRecord')
    BY <2>1, ReportMoves
  <2>4. CASE OnRecord' = OnRecord /\ Reported' = Reported
    BY <1>2, <2>4 DEF Taken, OnRecord, Reported, Log!vars
  <2>5. CASE OnRecord' = OnRecord /\ Reported' = Reported \cup {k} /\ k \in OnRecord'
    <3>1. Log!Report(k)
      BY <1>2, <2>5 DEF Taken, OnRecord, Reported, Log!Report
    <3> QED
      BY <3>1 DEF Log!Next
  <2>6. CASE OnRecord' = OnRecord \cup {k} /\ k \in Taken
    <3>1. Log!Record(k)
      BY <1>2, <2>3, <2>6 DEF Taken, OnRecord, Reported, Log!Record
    <3> QED
      BY <3>1 DEF Log!Next
  <2> QED
    BY <2>2, <2>3, <2>4, <2>5, <2>6
<1>3. ASSUME NEW k \in Notices, Taken' = Taken \cup {k}, UNCHANGED <<events, outcome>>
      PROVE  Log!Next
  <2>1. Log!Take(k)
    BY <1>3 DEF Taken, OnRecord, Reported, DeliveredTo, Log!Take
  <2> QED
    BY <2>1 DEF Log!Next
<1> QED
  BY <1>1, <1>2, <1>3, TakenMoves

\* The send activities and Retry implement DeliveryLog: a delivery is recorded
\* only after the provider took the notice and stays on record, and the
\* workflow goes on without an error only for a notice whose delivery is on
\* record, whatever attempts overlap, time out or collide on a dedupe key.
THEOREM Implementation == Spec => ImplementsDeliveryLog
<1>1. Init => Log!Init
  BY DEF Init, Log!Init, DeliveredTo
<1>2. Inv /\ [Next]_vars => [Log!Next]_(Log!vars)
  BY StepImplements
<1> QED
  BY <1>1, <1>2, InvariantHolds, PTL DEF Spec, Log!Spec, ImplementsDeliveryLog

-----------------------------------------------------------------------------
(* Numbers, as long as a lookup lists every row of the kind.               *)

Mine(k) == {i \in DOMAIN events : events[i].notice = k}

InFlight(s) == sender[s].pc \in {"sending", "recording"}

LEMMA RowsFinite ==
  ASSUME events \in Seq(Event)
  PROVE  /\ IsFiniteSet(DOMAIN events) /\ Cardinality(DOMAIN events) = Len(events)
         /\ Len(events) \in Nat
         /\ \A k : IsFiniteSet(Mine(k)) /\ Cardinality(Mine(k)) \in Nat
<1>1. DOMAIN events = 1 .. Len(events) /\ Len(events) \in Nat
  OBVIOUS
<1>2. IsFiniteSet(DOMAIN events) /\ Cardinality(DOMAIN events) = Len(events)
  BY <1>1, FS_Interval
<1>3. \A k : Mine(k) \subseteq DOMAIN events
  BY DEF Mine
<1> QED
  BY <1>1, <1>2, <1>3, FS_Subset, FS_CardinalityType

\* No row is newer than itself, so fewer than all of them are.
LEMMA AllListed ==
  ASSUME events \in Seq(Event), Len(events) <= LookupLimit, NEW k
  PROVE  ListedOf(k) = Mine(k)
<1>1. ASSUME NEW i \in DOMAIN events
      PROVE  Cardinality({j \in DOMAIN events : Newer(j, i)}) < LookupLimit
  <2> DEFINE newer == {j \in DOMAIN events : Newer(j, i)}
             others == DOMAIN events \ {i}
  <2>1. ~Newer(i, i)
    <3>1. events[i].at \in Int /\ i \in Int
      <4>1. events[i] \in Event
        BY ElementOfSeq
      <4> QED
        BY <4>1 DEF Event
    <3> QED
      BY <3>1 DEF Newer
  <2>2. newer \subseteq others
    BY <2>1
  <2>3. IsFiniteSet(others) /\ Cardinality(others) = Len(events) - 1
    BY RowsFinite, FS_RemoveElement
  <2>4. IsFiniteSet(newer) /\ Cardinality(newer) <= Cardinality(others)
    BY ONLY <2>2, <2>3, FS_Subset
  <2>5. Cardinality(newer) \in Nat /\ Len(events) \in Nat /\ LookupLimit \in Nat
    BY <2>4, RowsFinite, FS_CardinalityType, BoundsAssumption
  <2> HIDE DEF newer, others
  <2>6. Cardinality(newer) < LookupLimit
    BY <2>3, <2>4, <2>5
  <2> QED
    BY <2>6 DEF newer
<1> QED
  BY <1>1 DEF Listed, ListedOf, Mine

\* A sender is numbered by the rows it finds, and an attempt finds failures.
Counts(s) ==
  /\ events' = events
  /\ sender'[s].notice \in Notices
  /\ sender'[s].number = Cardinality(ListedOf(sender'[s].notice))
  /\ s \in Attempts => \A i \in ListedOf(sender'[s].notice) : events[i].status = "failed"

\* It keeps the number until it ends.
KeepsNumber(s) == /\ InFlight(s)
                  /\ sender'[s].number = sender[s].number
                  /\ sender'[s].notice = sender[s].notice

NumberMoves(s) == sender'[s].pc \in {"sending", "recording"} => Counts(s) \/ KeepsNumber(s)

\* A row is appended only under a number its notice does not have.
RowsMove ==
  \/ events' = events
  \/ \E s \in Senders : /\ sender[s].pc = "recording" /\ Holding(s) = {}
                        /\ events' = Append(events, NewEvent(s))

LEMMA AppendMoves ==
  ASSUME NEW s \in Senders, sender[s].pc = "recording",
         AppendEvent(s, Recorded(s))
  PROVE  RowsMove
BY DEF AppendEvent, RowsMove, NewEvent

LEMMA StillNumbered ==
  ASSUME NEW s \in Senders, sender'[s] = sender[s]
  PROVE  NumberMoves(s)
BY DEF NumberMoves, KeepsNumber, InFlight

\* The result of an attempt puts no sender in flight.
LEMMA SettleNumbers ==
  ASSUME StepInv, NEW k \in Notices, NEW a \in 1 .. MaximumAttempts,
         NEW result \in {"ok", "error", "retry"}, Settle(k, a, result)
  PROVE  \A s \in Senders : NumberMoves(s)
<1>1. Settled(k, a, result) /\ raisedAt[k] \in Nat
  BY SettleMoves DEF StepInv, TypeOK
<1>2. Ended(<<k, a>>).pc = "done"
  BY AttemptsAreSenders, EndedTyped DEF StepInv
<1>3. Scheduled(k, raisedAt[k]).pc = "lookup"
  BY <1>1, ScheduledTyped
<1> SUFFICES ASSUME NEW s \in Senders PROVE NumberMoves(s)
  OBVIOUS
<1>4. \/ sender'[s] = sender[s]
      \/ sender'[s].pc = "done" \/ sender'[s].pc = "lookup"
  BY <1>1, <1>2, <1>3 DEF Settled
<1> QED
  BY <1>4, StillNumbered DEF NumberMoves

\* One sender moves on.
LEMMA OneNumber ==
  ASSUME StepInv, NEW s \in Senders, NEW new \in SenderState,
         sender' = [sender EXCEPT ![s] = new], NumberMoves(s)
  PROVE  \A t \in Senders : NumberMoves(t)
<1>1. \A t \in Senders \ {s} : sender'[t] = sender[t]
  BY OneSender DEF StepInv
<1> QED
  BY <1>1, StillNumbered

NumbersMove == RowsMove /\ \A s \in Senders : NumberMoves(s)

LEMMA WorkflowNumbers ==
  ASSUME StepInv, NEW k \in Notices, RaiseNotice(k) \/ TimeoutAttempt(k)
  PROVE  NumbersMove
<1>1. events' = events
  BY DEF RaiseNotice, TimeoutAttempt
<1>2. RowsMove
  BY <1>1 DEF RowsMove
<1>3. clock + 1 \in Nat /\ raisedAt[k] \in Nat /\ MaximumAttempts \in Nat \ {0}
  BY BoundsAssumption DEF StepInv, TypeOK
<1>4. CASE UNCHANGED sender
  BY <1>2, <1>4, StillNumbered DEF NumbersMove
<1>5. ASSUME NEW a \in 1 .. MaximumAttempts, NEW at \in Nat,
             sender' = [sender EXCEPT ![<<k, a>>] = Scheduled(k, at)]
      PROVE  NumbersMove
  <2> DEFINE s == <<k, a>>
  <2>1. s \in Senders
    BY AttemptsAreSenders
  <2>2. Scheduled(k, at) \in SenderState /\ Scheduled(k, at).pc = "lookup"
    BY <1>5, ScheduledTyped
  <2>3. sender' = [sender EXCEPT ![s] = Scheduled(k, at)]
    BY <1>5
  <2> HIDE DEF s
  <2>4. sender'[s] = Scheduled(k, at)
    BY <2>1, <2>2, <2>3, OneSender DEF StepInv
  <2>5. NumberMoves(s)
    BY <2>2, <2>4 DEF NumberMoves
  <2> QED
    BY <1>2, <2>1, <2>2, <2>3, <2>5, OneNumber DEF NumbersMove
<1>6. CASE RaiseNotice(k)
  <2>1. /\ sender' = [sender EXCEPT ![<<k, 1>>] = Scheduled(k, clock + 1)]
        /\ 1 \in 1 .. MaximumAttempts
    BY <1>3, <1>6 DEF RaiseNotice
  <2> QED
    BY <1>3, <1>5, <2>1
<1>7. CASE TimeoutAttempt(k)
  <2>1. attempt[k] \in 0 .. MaximumAttempts
    BY DEF StepInv, TypeOK
  <2>2. CASE attempt[k] < MaximumAttempts
    <3>1. attempt[k] + 1 \in 1 .. MaximumAttempts
      BY <1>3, <2>1, <2>2
    <3>2. sender' = [sender EXCEPT ![<<k, attempt[k] + 1>>] = Scheduled(k, raisedAt[k])]
      BY <1>7, <2>2 DEF TimeoutAttempt
    <3> QED
      BY <1>3, <1>5, <3>1, <3>2
  <2> QED
    BY <1>4, <1>7, <2>2 DEF TimeoutAttempt
<1> QED
  BY <1>6, <1>7

LEMMA SendNumbers ==
  ASSUME StepInv, NEW s \in Senders, Send(s)
  PROVE  NumbersMove
<1>1. sender[s] \in SenderState
  BY DEF StepInv, TypeOK
<1>2. PICK answer \in {"delivered", "retryable", "rejected"} :
        sender' = [sender EXCEPT ![s].pc = "recording", ![s].answer = answer]
  BY DEF Send
<1> DEFINE new == [sender[s] EXCEPT !.pc = "recording", !.answer = answer]
<1>3. /\ new \in SenderState
      /\ new.number = sender[s].number /\ new.notice = sender[s].notice
  BY <1>1 DEF SenderState
<1>4. sender' = [sender EXCEPT ![s] = new]
  BY <1>1, <1>2 DEF StepInv, TypeOK
<1> HIDE DEF new
<1>5. sender'[s] = new
  BY <1>3, <1>4, OneSender DEF StepInv
<1>6. sender[s].pc = "sending" /\ events' = events
  BY DEF Send
<1>7. NumberMoves(s)
  BY <1>3, <1>5, <1>6 DEF NumberMoves, KeepsNumber, InFlight
<1> QED
  BY <1>3, <1>4, <1>6, <1>7, OneNumber DEF NumbersMove, RowsMove

LEMMA AttemptNumbers ==
  ASSUME StepInv, NEW k \in Notices, NEW a \in 1 .. MaximumAttempts,
         AttemptStep(k, a) /\ ~Send(<<k, a>>)
  PROVE  NumbersMove
<1> DEFINE s == <<k, a>>
<1>1. s \in Senders /\ s \in Attempts /\ s[1] = k
  BY AttemptsAreSenders
<1>2. TypeOK /\ events \in Seq(Event) /\ sender[s] \in SenderState
  BY <1>1 DEF StepInv, TypeOK
<1>3. CASE LookupFindsDelivery(k, a) \/ AttemptFails(k, a) \/ RecordAttemptFails(k, a)
  <2>1. events' = events
    BY <1>3 DEF LookupFindsDelivery, AttemptFails, RecordAttemptFails
  <2>2. \E result \in {"ok", "error", "retry"} : Settle(k, a, result)
    BY <1>3 DEF LookupFindsDelivery, AttemptFails, RecordAttemptFails
  <2> QED
    BY <2>1, <2>2, SettleNumbers DEF NumbersMove, RowsMove
<1>4. CASE RecordAttempt(k, a)
  <2>1. sender[s].pc = "recording" /\ AppendEvent(s, Recorded(s))
    BY <1>4 DEF RecordAttempt
  <2>2. \E result \in {"ok", "error", "retry"} : Settle(k, a, result)
    BY <1>4 DEF RecordAttempt
  <2>3. RowsMove
    BY <1>1, <2>1, AppendMoves
  <2> QED
    BY <2>2, <2>3, SettleNumbers DEF NumbersMove
<1>5. CASE LookupFindsNone(k, a)
  <2> DEFINE n == Cardinality(ListedOf(k))
             new == [sender[s] EXCEPT !.pc = "sending", !.number = n]
  <2>1. n \in Nat
    <3>1. IsFiniteSet(DOMAIN events)
      BY <1>2, RowsFinite
    <3>2. ListedOf(k) \subseteq DOMAIN events
      BY DEF ListedOf, Listed
    <3> QED
      BY <3>1, <3>2, FS_Subset, FS_CardinalityType
  <2> HIDE DEF n
  <2>2. /\ new \in SenderState
        /\ new.number = n /\ new.notice = sender[s].notice
    BY <1>2, <2>1 DEF SenderState
  <2>3. /\ sender' = [sender EXCEPT ![s] = new] /\ sender[s].pc = "lookup"
        /\ events' = events
        /\ \A i \in ListedOf(k) : events[i].status = "failed"
    BY <1>1, <1>2, <1>5 DEF LookupFindsNone, n, TypeOK
  <2>4. sender[s].notice = k
    BY <1>1, <2>3 DEF StepInv, SendersHaveNotices
  <2> HIDE DEF new, s
  <2>5. sender'[s] = new
    BY <1>1, <1>2, <2>2, <2>3, OneSender
  <2>6. Counts(s)
    BY <2>2, <2>3, <2>4, <2>5 DEF Counts, n
  <2> QED
    BY <1>1, <2>2, <2>3, <2>6, OneNumber DEF NumbersMove, RowsMove, NumberMoves
<1> QED
  BY <1>3, <1>4, <1>5 DEF AttemptStep

LEMMA RetryNumbers ==
  ASSUME StepInv, NEW o \in Operators, RetryStep(o) /\ ~Send(o)
  PROVE  NumbersMove
<1>1. o \in Senders /\ o \notin Attempts
  BY OperatorsAreSenders
<1>2. TypeOK /\ events \in Seq(Event) /\ sender[o] \in SenderState /\ clock + 1 \in Nat
  BY <1>1 DEF StepInv, TypeOK
<1>3. CASE LoadRetry(o)
  <2>1. PICK i \in DOMAIN events :
          sender' = [sender EXCEPT ![o] = Resending(events[i].notice,
                                                    Cardinality(ListedOf(events[i].notice)),
                                                    clock + 1)]
    BY <1>3, Zenon DEF LoadRetry, Resending
  <2> DEFINE k == events[i].notice
             n == Cardinality(ListedOf(k))
             new == Resending(k, n, clock + 1)
  <2>2. n \in Nat
    <3>1. IsFiniteSet(DOMAIN events)
      BY <1>2, RowsFinite
    <3>2. ListedOf(k) \subseteq DOMAIN events
      BY DEF ListedOf, Listed
    <3> QED
      BY <3>1, <3>2, FS_Subset, FS_CardinalityType
  <2>3. k \in Notices
    <3>1. events[i] \in Event
      BY <1>2, ElementOfSeq
    <3> QED
      BY <3>1 DEF Event
  <2>4. sender' = [sender EXCEPT ![o] = new] /\ events' = events
    BY <1>3, <2>1 DEF LoadRetry
  <2> HIDE DEF n, k
  <2>5. new \in SenderState /\ new.notice = k
    BY <1>2, <2>2, <2>3, ResendingTyped
  <2>6. new.number = n
    BY DEF Resending, Idle
  <2> HIDE DEF new
  <2>7. sender'[o] = new
    BY <1>1, <1>2, <2>4, <2>5, OneSender
  <2>8. Counts(o)
    BY <1>1, <2>3, <2>4, <2>5, <2>6, <2>7 DEF Counts, n
  <2> QED
    BY <1>1, <2>4, <2>5, <2>8, OneNumber DEF NumbersMove, RowsMove, NumberMoves
<1>4. CASE RetryFails(o) \/ RecordRetry(o)
  <2>1. sender' = [sender EXCEPT ![o] = Ended(o)]
    BY <1>4 DEF RetryFails, RecordRetry
  <2>2. Ended(o) \in SenderState /\ Ended(o).pc = "done"
    BY <1>1, <1>2, EndedTyped
  <2>3. sender'[o] = Ended(o)
    BY <1>1, <1>2, <2>1, <2>2, OneSender
  <2>4. NumberMoves(o)
    BY <2>2, <2>3 DEF NumberMoves
  <2>5. RowsMove
    BY <1>1, <1>4, AppendMoves DEF RetryFails, RecordRetry, RowsMove
  <2> QED
    BY <1>1, <2>1, <2>2, <2>4, <2>5, OneNumber DEF NumbersMove
<1> QED
  BY <1>3, <1>4 DEF RetryStep

\* Any step numbers senders and rows as said.
LEMMA StepNumbers ==
  ASSUME StepInv, [Next]_vars
  PROVE  NumbersMove
<1>1. CASE UNCHANGED vars
  BY <1>1, StillNumbered DEF vars, NumbersMove, RowsMove
<1>2. ASSUME NEW k \in Notices, RaiseNotice(k) \/ TimeoutAttempt(k) PROVE NumbersMove
  BY <1>2, WorkflowNumbers
<1>3. ASSUME NEW k \in Notices, NEW a \in 1 .. MaximumAttempts, AttemptStep(k, a)
      PROVE  NumbersMove
  BY <1>3, AttemptNumbers, SendNumbers, AttemptsAreSenders
<1>4. ASSUME NEW o \in Operators, RetryStep(o) PROVE NumbersMove
  BY <1>4, RetryNumbers, SendNumbers, OperatorsAreSenders
<1> QED
  BY <1>1, <1>2, <1>3, <1>4 DEF Next

\* What the rows of a notice and the senders in flight agree on.
RowsNumbered ==
  \A k \in Notices :
    /\ \A i \in Mine(k) : events[i].number \in 0 .. Cardinality(Mine(k)) - 1
    /\ \A i, j \in Mine(k) : events[i].number = events[j].number => i = j
    /\ \A n \in 0 .. Cardinality(Mine(k)) - 1 : \E i \in Mine(k) : events[i].number = n

CountsHold ==
  \A s \in Senders : InFlight(s) => sender[s].number <= Cardinality(Mine(sender[s].notice))

AttemptsFollow == \A s \in Attempts : FollowsFailures(s)

RowsFollow ==
  \A i, j \in DOMAIN events :
    /\ events[j].status = "delivered"
    /\ events[j].message \in Attempts
    /\ events[i].notice = events[j].notice
    /\ events[i].number < events[j].number
    => events[i].status = "failed"

Numbered == RowsNumbered /\ CountsHold /\ AttemptsFollow /\ RowsFollow

NumberInv == Len(events) <= LookupLimit => Numbered

\* A step that appends nothing.
LEMMA NumberedWithoutRow ==
  ASSUME StepInv, StepInv', Numbered, Len(events) <= LookupLimit, events' = events,
         \A s \in Senders : NumberMoves(s)
  PROVE  Numbered'
<1>1. events \in Seq(Event)
  BY DEF StepInv, TypeOK
<1>2. \A k : Mine(k)' = Mine(k)
  BY DEF Mine
<1>3. \A k : ListedOf(k) = Mine(k) /\ Cardinality(Mine(k)) \in Nat
  BY <1>1, AllListed, RowsFinite
<1>4. RowsNumbered' /\ RowsFollow'
  BY <1>2 DEF Numbered, RowsNumbered, RowsFollow
<1>5. CountsHold'
  <2> SUFFICES ASSUME NEW s \in Senders, sender'[s].pc \in {"sending", "recording"}
               PROVE  sender'[s].number <= Cardinality(Mine(sender'[s].notice))
    BY <1>2 DEF CountsHold, InFlight
  <2>1. Counts(s) \/ KeepsNumber(s)
    BY DEF NumberMoves
  <2>2. CASE Counts(s)
    BY <1>3, <2>2 DEF Counts
  <2>3. CASE KeepsNumber(s)
    BY <2>3 DEF KeepsNumber, Numbered, CountsHold
  <2> QED
    BY <2>1, <2>2, <2>3
<1>6. AttemptsFollow'
  <2> SUFFICES ASSUME NEW s \in Attempts, sender'[s].pc \in {"sending", "recording"},
                      NEW i \in DOMAIN events, events[i].notice = sender'[s].notice,
                      events[i].number < sender'[s].number
               PROVE  events[i].status = "failed"
    BY DEF AttemptsFollow, FollowsFailures
  <2>1. Counts(s) \/ KeepsNumber(s)
    BY DEF NumberMoves, Senders
  <2>2. CASE Counts(s)
    BY <1>3, <2>2 DEF Counts, Mine
  <2>3. CASE KeepsNumber(s)
    BY <2>3 DEF KeepsNumber, InFlight, Numbered, AttemptsFollow, FollowsFailures
  <2> QED
    BY <2>1, <2>2, <2>3
<1> QED
  BY <1>4, <1>5, <1>6 DEF Numbered

\* A sender whose number is not taken has the next number of its notice.
LEMMA FreeNumberIsNext ==
  ASSUME StepInv, Numbered, NEW s \in Senders,
         sender[s].pc = "recording", Holding(s) = {}
  PROVE  sender[s].number = Cardinality(Mine(sender[s].notice))
<1> DEFINE k == sender[s].notice
           c == Cardinality(Mine(k))
<1>1. k \in Notices /\ sender[s].number \in Nat
  BY DEF StepInv, TypeOK, SendersHaveNotices, SenderState
<1>2. c \in Nat
  BY RowsFinite DEF StepInv, TypeOK
<1>3. sender[s].number <= c
  BY DEF Numbered, CountsHold, InFlight
<1>4. \A n \in 0 .. c - 1 : \E i \in Mine(k) : events[i].number = n
  BY <1>1 DEF Numbered, RowsNumbered
<1>5. \A i \in Mine(k) : events[i].number # sender[s].number
  BY DEF Holding, Mine
<1> HIDE DEF c, k
<1>6. sender[s].number = c
  BY <1>1, <1>2, <1>3, <1>4, <1>5
<1> QED
  BY <1>6 DEF c, k

\* A step that appends the row of s.
LEMMA NumberedWithRow ==
  ASSUME StepInv, StepInv', Numbered, Len(events) <= LookupLimit,
         NEW s \in Senders, sender[s].pc = "recording", Holding(s) = {},
         events' = Append(events, NewEvent(s)),
         \A t \in Senders : NumberMoves(t)
  PROVE  Numbered'
<1>1. events \in Seq(Event) /\ sender[s] \in SenderState /\ sender[s].notice \in Notices
  BY DEF StepInv, TypeOK, SendersHaveNotices
<1> DEFINE n == Len(events) + 1
           row == NewEvent(s)
<1>2. PICK q \in Notices, c \in Nat : /\ q = sender[s].notice
                                      /\ c = Cardinality(Mine(q))
                                      /\ sender[s].number = c
  BY <1>1, RowsFinite, FreeNumberIsNext
<1>3. /\ row.notice = q /\ row.number = c /\ row.message = s
      /\ row.status = "delivered" \/ row.status = "failed"
  BY <1>2 DEF NewEvent, Recorded
<1>4. /\ DOMAIN events = 1 .. Len(events) /\ DOMAIN events' = 1 .. n
      /\ n \notin DOMAIN events
      /\ \A i \in DOMAIN events : events'[i] = events[i]
      /\ events'[n] = row
  BY <1>1 DEF NewEvent
<1>5. \A i : i \in DOMAIN events' <=> i \in DOMAIN events \/ i = n
  BY <1>1, <1>4
<1>6. \A i \in DOMAIN events : /\ events[i].number \in Nat /\ events[i].notice \in Notices
                               /\ events[i].notice = q => events[i].number < c
  <2>1. \A i \in DOMAIN events : events[i] \in Event
    BY <1>1, ElementOfSeq
  <2>2. \A i \in DOMAIN events : events[i].notice = q => events[i].number \in 0 .. c - 1
    BY <1>2 DEF Numbered, RowsNumbered, Mine
  <2> QED
    BY <1>2, <2>1, <2>2 DEF Event
<1> HIDE DEF n, row
<1>7. \A k \in Notices : Mine(k)' = IF k = q THEN Mine(q) \cup {n} ELSE Mine(k)
  BY <1>3, <1>4, <1>5 DEF Mine
<1>8. Cardinality(Mine(q) \cup {n}) = c + 1
  <2>1. IsFiniteSet(Mine(q)) /\ n \notin Mine(q)
    BY <1>1, <1>4, RowsFinite DEF Mine
  <2>2. Cardinality(Mine(q) \cup {n}) = Cardinality(Mine(q)) + 1
    BY ONLY <2>1, FS_AddElement
  <2> QED
    BY <1>2, <2>2
<1>9. \A k \in Notices : Cardinality(Mine(k)) \in Nat
  BY <1>1, RowsFinite
<1>10. RowsNumbered'
  <2> SUFFICES ASSUME NEW k \in Notices
               PROVE  (/\ \A i \in Mine(k) : events[i].number \in 0 .. Cardinality(Mine(k)) - 1
                       /\ \A i, j \in Mine(k) : events[i].number = events[j].number => i = j
                       /\ \A m \in 0 .. Cardinality(Mine(k)) - 1 :
                            \E i \in Mine(k) : events[i].number = m)'
    BY DEF RowsNumbered
  <2>1. \A i \in Mine(k) : i \in DOMAIN events /\ events'[i] = events[i]
                           /\ events[i].notice = k
    BY <1>4 DEF Mine
  <2>2. /\ \A i \in Mine(k) : events[i].number \in 0 .. Cardinality(Mine(k)) - 1
        /\ \A i, j \in Mine(k) : events[i].number = events[j].number => i = j
        /\ \A m \in 0 .. Cardinality(Mine(k)) - 1 : \E i \in Mine(k) : events[i].number = m
    BY DEF Numbered, RowsNumbered
  <2>3. CASE k # q
    BY <1>7, <2>1, <2>2, <2>3
  <2>4. CASE k = q
    <3>1. PICK old, new, number :
            /\ old = Mine(k) /\ new = Mine(k)' /\ new = old \cup {n}
            /\ number = [i \in new |-> events'[i].number]
      BY <1>7, <2>4
    <3>2. Cardinality(new) - 1 = c
      BY <1>2, <1>8, <2>4, <3>1
    <3>3. \A i \in old : number[i] = events[i].number
      BY <2>1, <3>1
    <3>4. \A i \in old : number[i] \in 0 .. c - 1
      BY <1>2, <2>2, <2>4, <3>1, <3>3
    <3>5. \A i, j \in old : number[i] = number[j] => i = j
      BY <2>2, <3>1, <3>3
    <3>6. \A m \in 0 .. c - 1 : \E i \in old : number[i] = m
      <4>1. \A m \in 0 .. c - 1 : \E i \in old : events[i].number = m
        BY <1>2, <2>2, <2>4, <3>1
      <4> QED
        BY <3>3, <4>1
    <3>7. number[n] = c /\ new = old \cup {n} /\ c \in Nat
      BY <1>3, <1>4, <3>1
    <3>8. /\ \A i \in new : number[i] \in 0 .. c
          /\ \A i, j \in new : number[i] = number[j] => i = j
          /\ \A m \in 0 .. c : \E i \in new : number[i] = m
      <4>1. \A i \in new : i \in old \/ i = n
        BY <3>7
      <4>2. \A i \in new : number[i] \in 0 .. c
        BY ONLY <3>4, <3>7, <4>1
      <4>3. ASSUME NEW i \in new, NEW j \in new, number[i] = number[j] PROVE i = j
        BY ONLY <3>4, <3>5, <3>7, <4>1, <4>3
      <4>4. ASSUME NEW m \in 0 .. c PROVE \E i \in new : number[i] = m
        <5>1. m = c \/ m \in 0 .. c - 1
          BY <3>7
        <5> QED
          BY ONLY <3>6, <3>7, <5>1
      <4> QED
        BY <4>2, <4>3, <4>4
    <3> QED
      BY <3>1, <3>2, <3>8
  <2> QED
    BY <2>3, <2>4
<1>11. \A t \in Senders : sender'[t].pc \in {"sending", "recording"} => KeepsNumber(t)
  <2>1. events' # events
    BY <1>4, <1>5
  <2> QED
    BY <2>1 DEF NumberMoves, Counts
<1>12. CountsHold'
  <2> SUFFICES ASSUME NEW t \in Senders, sender'[t].pc \in {"sending", "recording"}
               PROVE  (sender[t].number <= Cardinality(Mine(sender[t].notice)))'
    BY DEF CountsHold, InFlight
  <2>1. PICK k : /\ k = sender[t].notice /\ sender'[t].notice = k
                 /\ sender'[t].number = sender[t].number
                 /\ sender[t].number <= Cardinality(Mine(k))
    BY <1>11 DEF KeepsNumber, Numbered, CountsHold
  <2>2. k \in Notices /\ sender[t].number \in Nat
    BY <1>11, <2>1 DEF KeepsNumber, InFlight, StepInv, TypeOK, SendersHaveNotices, SenderState
  <2>3. Cardinality(Mine(k)') \in Nat /\ Cardinality(Mine(k)) <= Cardinality(Mine(k)')
    <3>1. CASE k = q
      <4>1. Mine(k)' = Mine(q) \cup {n}
        BY <1>7, <2>2, <3>1
      <4>2. Cardinality(Mine(k)') = c + 1 /\ Cardinality(Mine(k)) = c
        BY <1>2, <1>8, <3>1, <4>1
      <4> QED
        BY <1>2, <4>2
    <3>2. CASE k # q
      <4>1. Mine(k)' = Mine(k)
        BY <1>7, <2>2, <3>2
      <4>2. Cardinality(Mine(k)) \in Nat
        BY <1>9, <2>2
      <4> QED
        BY <4>1, <4>2
    <3> QED
      BY <3>1, <3>2
  <2>4. sender'[t].number <= Cardinality(Mine(k)')
    BY <1>9, <2>1, <2>2, <2>3
  <2> QED
    BY <2>1, <2>4 DEF Mine
<1>13. AttemptsFollow'
  <2> SUFFICES ASSUME NEW t \in Attempts, sender'[t].pc \in {"sending", "recording"},
                      NEW i \in DOMAIN events', events'[i].notice = sender'[t].notice,
                      events'[i].number < sender'[t].number
               PROVE  events'[i].status = "failed"
    BY DEF AttemptsFollow, FollowsFailures
  <2>1. t \in Senders
    BY DEF Senders
  <2>2. KeepsNumber(t)
    BY <1>11, <2>1
  <2>3. i # n
    <3> SUFFICES ASSUME i = n PROVE FALSE
      OBVIOUS
    <3>1. sender[t].notice = q /\ c < sender[t].number
      BY <1>3, <1>4, <2>2 DEF KeepsNumber
    <3>2. sender[t].number <= c
      BY <1>2, <2>1, <2>2, <3>1 DEF KeepsNumber, Numbered, CountsHold
    <3>3. sender[t].number \in Nat
      BY <2>1 DEF StepInv, TypeOK, SenderState
    <3> QED
      BY <1>2, <3>1, <3>2, <3>3
  <2>4. i \in DOMAIN events /\ events'[i] = events[i]
    BY <1>4, <1>5, <2>3
  <2> QED
    BY <2>2, <2>4 DEF KeepsNumber, InFlight, Numbered, AttemptsFollow, FollowsFailures
<1>14. RowsFollow'
  <2> SUFFICES ASSUME NEW i \in DOMAIN events', NEW j \in DOMAIN events',
                      events'[j].status = "delivered", events'[j].message \in Attempts,
                      events'[i].notice = events'[j].notice,
                      events'[i].number < events'[j].number
               PROVE  events'[i].status = "failed"
    BY DEF RowsFollow
  <2>1. i \in DOMAIN events /\ events'[i] = events[i]
    <3>1. CASE i = n /\ j = n
      BY <1>2, <1>3, <1>4, <3>1
    <3>2. CASE i = n /\ j # n
      BY <1>2, <1>3, <1>4, <1>5, <1>6, <3>2
    <3> QED
      BY <1>4, <1>5, <3>1, <3>2
  <2>2. CASE j = n
    <3>1. s \in Attempts /\ events[i].notice = sender[s].notice
          /\ events[i].number < sender[s].number
      BY <1>2, <1>3, <1>4, <2>1, <2>2
    <3> QED
      BY <2>1, <3>1 DEF Numbered, AttemptsFollow, FollowsFailures
  <2>3. CASE j # n
    BY <1>4, <1>5, <2>1, <2>3 DEF Numbered, RowsFollow
  <2> QED
    BY <2>2, <2>3
<1> QED
  BY <1>10, <1>12, <1>13, <1>14 DEF Numbered

LEMMA NumberInvInit == Init => NumberInv
<1> SUFFICES ASSUME Init PROVE Numbered
  BY DEF NumberInv
<1>1. events = << >> /\ DOMAIN events = {}
  BY DEF Init
<1>2. \A k : Mine(k) = {} /\ Cardinality(Mine(k)) = 0
  BY <1>1, FS_EmptySet DEF Mine
<1>3. \A s \in Senders : sender[s].pc = "idle"
  BY DEF Init, Idle
<1>4. \A s \in Attempts : s \in Senders
  BY DEF Senders
<1> QED
  BY <1>1, <1>2, <1>3, <1>4
  DEF Numbered, RowsNumbered, CountsHold, InFlight, AttemptsFollow, FollowsFailures, RowsFollow

LEMMA NumberInvStep == Inv /\ Inv' /\ NumberInv /\ [Next]_vars => NumberInv'
<1> SUFFICES ASSUME Inv, Inv', NumberInv, [Next]_vars, Len(events') <= LookupLimit
             PROVE  Numbered'
  BY DEF NumberInv
<1>1. StepInv /\ StepInv' /\ events \in Seq(Event)
  BY DEF Inv, StepInv, TypeOK
<1>2. NumbersMove
  BY <1>1, StepNumbers
<1>3. CASE events' = events
  BY <1>1, <1>2, <1>3, NumberedWithoutRow DEF NumberInv, NumbersMove
<1>4. ASSUME NEW s \in Senders, sender[s].pc = "recording", Holding(s) = {},
             events' = Append(events, NewEvent(s))
      PROVE  Numbered'
  <2>1. Len(events) \in Nat /\ Len(events') = Len(events) + 1
    BY <1>1, <1>4 DEF NewEvent
  <2>2. Len(events) <= LookupLimit
    BY <2>1, BoundsAssumption
  <2> QED
    BY <1>1, <1>2, <1>4, <2>2, NumberedWithRow DEF NumberInv, NumbersMove
<1> QED
  BY <1>2, <1>3, <1>4 DEF NumbersMove, RowsMove

\* The dedupe keys of a notice are numbered without gap or repetition as long
\* as a lookup lists every row, and everyone in flight has counted no row that
\* does not exist (diagnosisRoomNotificationDedupeComponent).
THEOREM NumberInvHolds == Spec => []NumberInv
BY NumberInvInit, NumberInvStep, InvariantHolds, PTL DEF Spec

\* Overlapping attempts and retries never skip nor repeat a number.
THEOREM NumberingHolds == Spec => []AttemptsAreNumbered
<1>1. Inv /\ NumberInv => AttemptsAreNumbered
  <2> SUFFICES ASSUME NumberInv, Len(events) <= LookupLimit, NEW k \in Notices
               PROVE  /\ {events[i].number : i \in Mine(k)} = 0 .. Cardinality(Mine(k)) - 1
                      /\ \A i, j \in Mine(k) : events[i].number = events[j].number => i = j
    BY DEF AttemptsAreNumbered, Mine
  <2>1. /\ \A i \in Mine(k) : events[i].number \in 0 .. Cardinality(Mine(k)) - 1
        /\ \A i, j \in Mine(k) : events[i].number = events[j].number => i = j
        /\ \A n \in 0 .. Cardinality(Mine(k)) - 1 : \E i \in Mine(k) : events[i].number = n
    BY DEF NumberInv, Numbered, RowsNumbered
  <2> QED
    BY <2>1
<1> QED
  BY <1>1, InvariantHolds, NumberInvHolds, PTL

\* An attempt of the workflow sends, and records a delivery, only after
\* failures, whatever operators do meanwhile.
THEOREM FailuresFirst == Spec => []AttemptsFollowFailures
<1>1. NumberInv => AttemptsFollowFailures
  BY DEF NumberInv, Numbered, AttemptsFollow, RowsFollow, AttemptsFollowFailures
<1> QED
  BY <1>1, NumberInvHolds, PTL

=============================================================================
