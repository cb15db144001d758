------------------------ MODULE ReportDeliveryProofs ------------------------
(***************************************************************************)
(* The safety of report delivery for any number of senders.                *)
(*                                                                         *)
(* Three conjuncts make the invariant inductive.  RowBeforeSenders: nobody *)
(* is past the insert while the row does not exist.  FailureIsRecorded: a  *)
(* failed row is a recorded failure.  OneHolder: while the row is fresh    *)
(* and no failure was recorded, one sender at most has the right to call   *)
(* the provider, or has called it.                                         *)
(***************************************************************************)
EXTENDS ReportDelivery, TLAPS

Sending == {"send", "calling", "mark"}

Holders(p) ==
    callers[p] \cup {s \in Senders : sender[s].purpose = p /\ sender[s].pc \in Sending}

RowBeforeSenders ==
    \A p \in Purposes : row[p].status = "none" =>
        /\ callers[p] = {}
        /\ \A s \in Senders :
              sender[s].purpose = p => sender[s].pc \notin Sending \cup {"relookup"}

FailureIsRecorded ==
    \A p \in Purposes : row[p].status = "failed" => everFailed[p]

OneHolder ==
    \A p \in Purposes : fresh[p] /\ ~everFailed[p] =>
        \A s, t \in Holders(p) : s = t

DeliveredOutcomeAccepted ==
    \A s \in Senders :
        At(s, "mark") /\ sender[s].outcome = "delivered"
            => s \in accepted[sender[s].purpose]

-----------------------------------------------------------------------------

\* Moving a sender on changes nothing else.
LEMMA GotoMoves ==
    ASSUME TypeOK, NEW s \in Senders, NEW pc, Goto(s, pc)
    PROVE  /\ sender'[s].pc = pc
           /\ \A t \in Senders :
                 /\ sender'[t].purpose = sender[t].purpose
                 /\ sender'[t].outcome = sender[t].outcome
                 /\ t # s => sender'[t].pc = sender[t].pc
BY DEF TypeOK, Sender, Goto

\* A sender that changes to a typed value leaves the senders typed.
LEMMA SenderTyped ==
    ASSUME TypeOK, NEW s \in Senders, NEW new \in Sender,
           sender' = [sender EXCEPT ![s] = new]
    PROVE  sender' \in [Senders -> Sender]
BY DEF TypeOK

\* The values senders change to where Send records an outcome.
LEMMA MarkingTyped ==
    ASSUME TypeOK, NEW s \in Senders, NEW o \in {"delivered", "failed"}
    PROVE  [sender[s] EXCEPT !.pc = "mark", !.outcome = o] \in Sender
<1>1. sender[s] \in Sender
  BY DEF TypeOK
<1> QED
  BY <1>1 DEF Sender

\* Each statement of Send and each event around it keeps the values typed; a
\* row names a message exactly when it is delivered (MarkDelivered,
\* MarkFailed).
THEOREM TypeCorrect == Spec => []TypeOK
<1> USE DEF TypeOK, Row, Sender, Purposes
<1>1. Init => TypeOK
  BY DEF Init
<1>2. TypeOK /\ [Next]_vars => TypeOK'
  <2> SUFFICES ASSUME TypeOK, [Next]_vars PROVE TypeOK'
    OBVIOUS
  <2> USE DEF At, Goto, RowOf, history, marks
  <2>1. ASSUME NEW s \in Senders, NEW p \in Purposes, Begin(s, p) PROVE TypeOK'
    <3> HIDE DEF TypeOK, Sender
    <3> DEFINE new == [sender[s] EXCEPT !.pc = "lookup", !.purpose = p,
                                        !.late = everDelivered[p]]
    <3>1. sender' = [sender EXCEPT ![s] = new]
      BY <2>1 DEF Begin
    <3>2. sender[s] \in Sender /\ everDelivered[p] \in BOOLEAN
      BY DEF TypeOK
    <3>3. new \in Sender
      BY <3>2 DEF Sender
    <3>4. sender' \in [Senders -> Sender]
      BY <3>1, <3>3, SenderTyped
    <3> QED
      BY <2>1, <3>4 DEF Begin, TypeOK
  <2>2. ASSUME NEW s \in Senders, Lookup(s) PROVE TypeOK'
    BY <2>2 DEF Lookup, NextForExisting
  <2>3. ASSUME NEW s \in Senders, Insert(s) PROVE TypeOK'
    BY <2>3 DEF Insert
  <2>4. ASSUME NEW s \in Senders, Relookup(s) PROVE TypeOK'
    BY <2>4 DEF Relookup, NextForExisting
  <2>5. ASSUME NEW s \in Senders, ProviderUnresolved(s) PROVE TypeOK'
    <3> HIDE DEF TypeOK, Sender
    <3>1. sender' \in [Senders -> Sender]
      BY <2>5, MarkingTyped, SenderTyped DEF ProviderUnresolved
    <3> QED
      BY <2>5, <3>1 DEF ProviderUnresolved, TypeOK
  <2>6. ASSUME NEW s \in Senders, CallProvider(s) PROVE TypeOK'
    BY <2>6 DEF CallProvider
  <2>7. ASSUME NEW s \in Senders, NEW result \in CallResults, CallReturns(s, result)
        PROVE  TypeOK'
    <3> HIDE DEF TypeOK, Sender
    <3>1. Outcome(result) \in {"delivered", "failed"}
      BY DEF Outcome
    <3>2. sender' \in [Senders -> Sender]
      <4> DEFINE o == Outcome(result)
      <4>1. sender' = [sender EXCEPT ![s] =
                          [sender[s] EXCEPT !.pc = "mark", !.outcome = o]]
        BY <2>7 DEF CallReturns
      <4> HIDE DEF o
      <4>2. o \in {"delivered", "failed"}
        BY <3>1 DEF o
      <4> QED
        BY <4>1, <4>2, MarkingTyped, SenderTyped
    <3>3. accepted' \in [Purposes -> SUBSET Senders]
      BY <2>7 DEF CallReturns, ProviderTakes, TypeOK
    <3> QED
      BY <2>7, <3>2, <3>3 DEF CallReturns, TypeOK
  <2>8. ASSUME NEW s \in Senders, MarkOutcome(s) PROVE TypeOK'
    BY <2>8 DEF MarkOutcome, Marked
  <2>9. ASSUME NEW s \in Senders, Abandon(s) PROVE TypeOK'
    <3>1. sender' \in [Senders -> Sender]
      BY <2>9 DEF Abandon
    <3>2. accepted' \in [Purposes -> SUBSET Senders]
      <4> HIDE DEF TypeOK, Sender, Row
      <4>1. CASE UNCHANGED accepted
        BY <4>1 DEF TypeOK
      <4>2. CASE ProviderTakes(s)
        BY <4>2 DEF TypeOK, ProviderTakes
      <4> QED
        BY <2>9, <4>1, <4>2 DEF Abandon
    <3> QED
      BY <2>9, <3>1, <3>2 DEF Abandon
  <2>10. ASSUME NEW p \in Purposes, PendingExpires(p) PROVE TypeOK'
    BY <2>10 DEF PendingExpires
  <2>11. CASE ConclusionConfirmed
    BY <2>11 DEF ConclusionConfirmed
  <2>12. CASE DiagnosisProgresses
    BY <2>12 DEF DiagnosisProgresses
  <2>13. CASE UNCHANGED vars
    BY <2>13 DEF vars
  <2> QED
    BY <2>1, <2>2, <2>3, <2>4, <2>5, <2>6, <2>7, <2>8, <2>9, <2>10, <2>11, <2>12,
       <2>13 DEF Next, SenderStep
<1> QED
  BY <1>1, <1>2, PTL DEF Spec

-----------------------------------------------------------------------------

\* An existing row lets a sender on only when it has failed or has been
\* pending for longer than the in-flight TTL (ensureNotificationDelivery).
LEMMA ExistingRowOpensNothingFresh ==
    ASSUME TypeOK, NEW p \in Purposes, row[p].status # "none",
           NextForExisting(row[p], fresh[p]) = "send"
    PROVE  row[p].status = "failed" \/ ~fresh[p]
BY DEF TypeOK, Row, NextForExisting

HolderInv == TypeOK /\ RowBeforeSenders /\ FailureIsRecorded /\ OneHolder

LEMMA StepOnExistingRow ==
    ASSUME HolderInv, NEW s \in Senders, RowOf(s).status # "none",
           sender[s].pc \in {"lookup", "relookup"},
           Goto(s, NextForExisting(RowOf(s), fresh[sender[s].purpose])),
           UNCHANGED <<row, fresh, diagnosis, history>>, TypeOK'
    PROVE  HolderInv'
<1> USE DEF HolderInv, Holders, Sending, history, marks
<1> DEFINE q == sender[s].purpose
<1>1. q \in Purposes
  BY DEF TypeOK, Sender
<1>2. CASE NextForExisting(row[q], fresh[q]) = "ended"
  BY <1>1, <1>2, GotoMoves DEF RowOf, RowBeforeSenders, FailureIsRecorded, OneHolder
<1>3. CASE NextForExisting(row[q], fresh[q]) = "send"
  <2>1. fresh[q] => everFailed[q]
    BY <1>1, <1>3, ExistingRowOpensNothingFresh DEF RowOf, FailureIsRecorded
  <2>2. \A p \in Purposes \ {q} : Holders(p)' = Holders(p)
    BY <1>1, GotoMoves
  <2>3. RowBeforeSenders'
    BY <1>1, GotoMoves DEF RowOf, RowBeforeSenders
  <2>4. FailureIsRecorded'
    BY DEF FailureIsRecorded
  <2>5. OneHolder'
    BY <2>1, <2>2 DEF OneHolder
  <2> QED
    BY <2>3, <2>4, <2>5
<1> QED
  BY <1>2, <1>3 DEF NextForExisting

\* Two calls of the provider for one purpose need a recorded failure or a
\* pending row older than the in-flight TTL, whatever the number of senders
\* and the order of their transactions (ensureNotificationDelivery).
THEOREM DuplicatesNeedFailureOrExpiry == Spec => []DuplicateNeedsFailureOrExpiry
<1> USE DEF HolderInv, RowBeforeSenders, FailureIsRecorded, OneHolder, Holders, Sending
<1>1. Init => HolderInv
  BY DEF Init, TypeOK, Row, Sender, Purposes
<1>2. HolderInv /\ TypeOK' /\ [Next]_vars => HolderInv'
  <2> SUFFICES ASSUME HolderInv, TypeOK', [Next]_vars PROVE HolderInv'
    OBVIOUS
  <2> USE DEF TypeOK, Row, Sender, At, Goto, RowOf, history, marks
  <2>1. ASSUME NEW s \in Senders, NEW p \in Purposes, Begin(s, p) PROVE HolderInv'
    BY <2>1 DEF Begin
  <2>2. ASSUME NEW s \in Senders, Lookup(s) PROVE HolderInv'
    <3> DEFINE q == sender[s].purpose
    <3>1. q \in Purposes
      OBVIOUS
    <3>2. CASE RowOf(s).status = "none"
      <4>1. Goto(s, "insert") /\ UNCHANGED <<row, fresh, diagnosis, history>>
        BY <2>2, <3>2 DEF Lookup
      <4>2. \A p \in Purposes : Holders(p)' \subseteq Holders(p)
        BY <4>1, GotoMoves
      <4>3. RowBeforeSenders'
        BY <4>1, GotoMoves
      <4>4. FailureIsRecorded'
        BY <4>1
      <4>5. OneHolder'
        BY <4>1, <4>2 DEF OneHolder
      <4> QED
        BY <4>3, <4>4, <4>5
    <3>3. CASE RowOf(s).status # "none"
      <4> HIDE DEF HolderInv, TypeOK, Goto, RowOf, history
      <4>1. /\ Goto(s, NextForExisting(RowOf(s), fresh[sender[s].purpose]))
            /\ UNCHANGED <<row, fresh, diagnosis, history>>
            /\ sender[s].pc = "lookup"
        BY <2>2, <3>3 DEF Lookup
      <4> QED
        BY <3>3, <4>1, StepOnExistingRow
    <3> QED
      BY <3>2, <3>3
  <2>3. ASSUME NEW s \in Senders, Insert(s) PROVE HolderInv'
    <3> DEFINE q == sender[s].purpose
    <3>1. q \in Purposes
      OBVIOUS
    <3>2. CASE RowOf(s).status = "none"
      <4>1. /\ Goto(s, "send")
            /\ row'[q].status = "pending"
            /\ \A p \in Purposes \ {q} : row'[p] = row[p]
            /\ UNCHANGED <<fresh, diagnosis, history>>
        BY <2>3, <3>1, <3>2 DEF Insert
      <4>2. Holders(q)' \subseteq {s}
        BY <3>1, <3>2, <4>1, GotoMoves
      <4>3. \A p \in Purposes \ {q} : Holders(p)' = Holders(p)
        BY <3>1, <4>1, GotoMoves
      <4>4. RowBeforeSenders'
        BY <3>1, <4>1, GotoMoves
      <4>5. FailureIsRecorded'
        BY <3>1, <4>1
      <4>6. OneHolder'
        BY <4>1, <4>2, <4>3 DEF OneHolder
      <4> QED
        BY <4>4, <4>5, <4>6
    <3>3. CASE RowOf(s).status # "none"
      <4>1. Goto(s, "relookup") /\ UNCHANGED <<row, fresh, diagnosis, history>>
        BY <2>3, <3>3 DEF Insert
      <4>2. \A p \in Purposes : Holders(p)' \subseteq Holders(p)
        BY <4>1, GotoMoves
      <4>3. RowBeforeSenders'
        BY <3>1, <3>3, <4>1, GotoMoves
      <4>4. FailureIsRecorded'
        BY <4>1
      <4>5. OneHolder'
        BY <4>1, <4>2 DEF OneHolder
      <4> QED
        BY <4>3, <4>4, <4>5
    <3> QED
      BY <3>2, <3>3
  <2>4. ASSUME NEW s \in Senders, Relookup(s) PROVE HolderInv'
    <3>1. RowOf(s).status # "none"
      BY <2>4 DEF Relookup
    <3> QED
      BY <2>4, <3>1, StepOnExistingRow, ZenonT(60) DEF Relookup, At
  <2>5. ASSUME NEW s \in Senders, ProviderUnresolved(s) PROVE HolderInv'
    BY <2>5 DEF ProviderUnresolved
  <2>6. ASSUME NEW s \in Senders, CallProvider(s) PROVE HolderInv'
    BY <2>6 DEF CallProvider
  <2>7. ASSUME NEW s \in Senders, NEW result \in CallResults, CallReturns(s, result)
        PROVE  HolderInv'
    BY <2>7 DEF CallReturns
  <2>8. ASSUME NEW s \in Senders, MarkOutcome(s) PROVE HolderInv'
    <3> DEFINE q == sender[s].purpose
    <3>1. q \in Purposes
      OBVIOUS
    <3>2. /\ Goto(s, "ended")
          /\ row'[q].status = sender[s].outcome
          /\ \A p \in Purposes \ {q} : row'[p] = row[p]
          /\ everFailed' = [everFailed EXCEPT ![q] = @ \/ sender[s].outcome = "failed"]
          /\ UNCHANGED <<fresh, callers>>
      BY <2>8, <3>1 DEF MarkOutcome, Marked
    <3>3. \A p \in Purposes : /\ Holders(p)' \subseteq Holders(p)
                              /\ everFailed[p] => everFailed'[p]
      BY <3>1, <3>2, GotoMoves
    <3>4. RowBeforeSenders'
      BY <3>1, <3>2, GotoMoves, SMTT(30)
    <3>5. FailureIsRecorded'
      <4>1. \A p \in Purposes \ {q} : row'[p].status = "failed" => everFailed'[p]
        BY <3>2, <3>3
      <4>2. row'[q].status = "failed" => everFailed'[q]
        BY <3>1, <3>2
      <4> QED
        BY <4>1, <4>2
    <3>6. OneHolder'
      BY <3>2, <3>3 DEF OneHolder
    <3> QED
      BY <3>4, <3>5, <3>6
  <2>9. ASSUME NEW s \in Senders, Abandon(s) PROVE HolderInv'
    BY <2>9 DEF Abandon
  <2>10. ASSUME NEW p \in Purposes, PendingExpires(p) PROVE HolderInv'
    BY <2>10 DEF PendingExpires
  <2>11. CASE ConclusionConfirmed
    BY <2>11 DEF ConclusionConfirmed
  <2>12. CASE DiagnosisProgresses
    BY <2>12 DEF DiagnosisProgresses
  <2>13. CASE UNCHANGED vars
    BY <2>13 DEF vars
  <2> QED
    BY <2>1, <2>2, <2>3, <2>4, <2>5, <2>6, <2>7, <2>8, <2>9, <2>10, <2>11, <2>12,
       <2>13 DEF Next, SenderStep
<1>3. HolderInv => DuplicateNeedsFailureOrExpiry
  BY DEF DuplicateNeedsFailureOrExpiry, TypeOK
<1> QED
  BY <1>1, <1>2, <1>3, TypeCorrect, PTL DEF Spec

-----------------------------------------------------------------------------

AcceptedInv == TypeOK /\ DeliveredOutcomeAccepted /\ DeliveredMeansAccepted

\* A delivered row names a message the provider took: no interleaving of lost
\* answers, abandoned calls and overwritten rows produces the proof of a
\* delivery that did not happen (Send, MarkDelivered).
THEOREM DeliveredRowsAreAccepted == Spec => []DeliveredMeansAccepted
<1> USE DEF AcceptedInv, DeliveredOutcomeAccepted, DeliveredMeansAccepted
<1>1. Init => AcceptedInv
  BY DEF Init, TypeOK, Row, Sender, Purposes, At
<1>2. AcceptedInv /\ TypeOK' /\ [Next]_vars => AcceptedInv'
  <2> SUFFICES ASSUME AcceptedInv, TypeOK', [Next]_vars PROVE AcceptedInv'
    OBVIOUS
  <2> USE DEF TypeOK, Row, Sender, At, Goto, RowOf, history, marks
  <2>1. ASSUME NEW s \in Senders, NEW p \in Purposes, Begin(s, p) PROVE AcceptedInv'
    BY <2>1 DEF Begin
  <2>2. ASSUME NEW s \in Senders, Lookup(s) PROVE AcceptedInv'
    <3>1. PICK pc \in {"insert", "ended", "send"} : Goto(s, pc)
      BY <2>2 DEF Lookup, NextForExisting
    <3> QED
      BY <2>2, <3>1, GotoMoves DEF Lookup
  <2>3. ASSUME NEW s \in Senders, Insert(s) PROVE AcceptedInv'
    <3>1. PICK pc \in {"send", "relookup"} : Goto(s, pc)
      BY <2>3 DEF Insert
    <3>2. \A p \in Purposes : row'[p] = row[p] \/ row'[p].status = "pending"
      BY <2>3 DEF Insert
    <3> QED
      BY <2>3, <3>1, <3>2, GotoMoves DEF Insert
  <2>4. ASSUME NEW s \in Senders, Relookup(s) PROVE AcceptedInv'
    <3>1. PICK pc \in {"ended", "send"} : Goto(s, pc)
      BY <2>4 DEF Relookup, NextForExisting
    <3> QED
      BY <2>4, <3>1, GotoMoves DEF Relookup
  <2>5. ASSUME NEW s \in Senders, ProviderUnresolved(s) PROVE AcceptedInv'
    BY <2>5 DEF ProviderUnresolved
  <2>6. ASSUME NEW s \in Senders, CallProvider(s) PROVE AcceptedInv'
    BY <2>6 DEF CallProvider
  <2>7. ASSUME NEW s \in Senders, NEW result \in CallResults, CallReturns(s, result)
        PROVE  AcceptedInv'
    <3>1. \A p \in Purposes : accepted[p] \subseteq accepted'[p]
      BY <2>7 DEF CallReturns, ProviderTakes
    <3>2. row' = row
      BY <2>7 DEF CallReturns
    <3>3. DeliveredOutcomeAccepted'
      BY <2>7, <3>1 DEF CallReturns, ProviderTakes, Outcome
    <3>4. DeliveredMeansAccepted'
      BY <3>1, <3>2
    <3> QED
      BY <3>3, <3>4
  <2>8. ASSUME NEW s \in Senders, MarkOutcome(s) PROVE AcceptedInv'
    <3> DEFINE q == sender[s].purpose
    <3>1. q \in Purposes
      OBVIOUS
    <3>2. /\ Goto(s, "ended")
          /\ row'[q].status = "delivered" =>
                sender[s].outcome = "delivered" /\ row'[q].message = s
          /\ \A p \in Purposes \ {q} : row'[p] = row[p]
          /\ UNCHANGED accepted
      BY <2>8, <3>1 DEF MarkOutcome, Marked
    <3>3. DeliveredOutcomeAccepted'
      BY <3>2, GotoMoves
    <3>4. DeliveredMeansAccepted'
      BY <2>8, <3>1, <3>2 DEF MarkOutcome
    <3> QED
      BY <3>3, <3>4
  <2>9. ASSUME NEW s \in Senders, Abandon(s) PROVE AcceptedInv'
    <3>1. Goto(s, "ended") /\ UNCHANGED row
      BY <2>9 DEF Abandon
    <3>2. \A p \in Purposes : accepted[p] \subseteq accepted'[p]
      BY <2>9, SMTT(30) DEF Abandon, ProviderTakes
    <3>3. DeliveredOutcomeAccepted'
      BY <3>1, <3>2, GotoMoves
    <3>4. DeliveredMeansAccepted'
      BY <3>1, <3>2
    <3> QED
      BY <3>3, <3>4
  <2>10. ASSUME NEW p \in Purposes, PendingExpires(p) PROVE AcceptedInv'
    BY <2>10 DEF PendingExpires
  <2>11. CASE ConclusionConfirmed
    BY <2>11 DEF ConclusionConfirmed
  <2>12. CASE DiagnosisProgresses
    BY <2>12 DEF DiagnosisProgresses
  <2>13. CASE UNCHANGED vars
    BY <2>13 DEF vars
  <2> QED
    BY <2>1, <2>2, <2>3, <2>4, <2>5, <2>6, <2>7, <2>8, <2>9, <2>10, <2>11, <2>12,
       <2>13 DEF Next, SenderStep
<1> QED
  BY <1>1, <1>2, TypeCorrect, PTL DEF Spec

-----------------------------------------------------------------------------

\* A recorded delivery stays on the row until a failure overwrites it.
DeliveryStays ==
    \A p \in Purposes :
        everDelivered[p] /\ ~overwritten[p] => row[p].status = "delivered"

\* A call that began after a recorded delivery got past the row only because
\* that delivery was overwritten.
LateSendersAfterOverwrite ==
    \A s \in Senders :
        sender[s].late =>
            /\ everDelivered[sender[s].purpose]
            /\ sender[s].pc \in {"send", "calling", "mark"} =>
                   overwritten[sender[s].purpose]

ResentInv == TypeOK /\ DeliveryStays /\ LateSendersAfterOverwrite

\* A sender that looks at the row moves on to the provider only when the row
\* does not say "delivered".
LEMMA MoveKeepsResentInv ==
    ASSUME ResentInv, TypeOK', NEW s \in Senders, NEW pc, Goto(s, pc),
           UNCHANGED history,
           \A p \in Purposes : row[p].status = "delivered" => row'[p] = row[p],
           pc \in {"send", "calling", "mark"} => RowOf(s).status # "delivered"
    PROVE  ResentInv'
<1> USE DEF ResentInv, history, marks
<1>1. /\ sender'[s].pc = pc
      /\ \A t \in Senders : /\ sender'[t].purpose = sender[t].purpose
                            /\ sender'[t].late = sender[t].late
                            /\ t # s => sender'[t].pc = sender[t].pc
  BY DEF Goto, TypeOK, Sender
<1>2. \A t \in Senders : sender[t].purpose \in Purposes
  BY DEF TypeOK, Sender
<1>3. DeliveryStays'
  BY DEF DeliveryStays
<1>4. LateSendersAfterOverwrite'
  <2> SUFFICES ASSUME NEW t \in Senders, sender'[t].late
               PROVE  /\ everDelivered[sender[t].purpose]
                      /\ sender'[t].pc \in {"send", "calling", "mark"} =>
                             overwritten[sender[t].purpose]
    BY <1>1 DEF LateSendersAfterOverwrite
  <2>1. sender[t].late
    BY <1>1
  <2>2. CASE t # s
    BY <1>1, <2>1, <2>2 DEF LateSendersAfterOverwrite
  <2>3. CASE t = s
    BY <1>1, <1>2, <2>1, <2>3 DEF LateSendersAfterOverwrite, DeliveryStays, RowOf
  <2> QED
    BY <2>2, <2>3
<1> QED
  BY <1>3, <1>4

\* A call of Send that begins after a recorded delivery reaches the provider
\* only if that delivery was overwritten, for any number of senders: nothing but
\* the unconditional UpdateNotificationDelivery of a slower sender reopens a
\* delivered row.
THEOREM ResentAfterOverwriteOnly == Spec => []ResentOnlyAfterOverwrite
<1> USE DEF ResentInv, DeliveryStays, LateSendersAfterOverwrite
<1>1. Init => ResentInv
  BY DEF Init, TypeOK, Row, Sender, Purposes
<1>2. ResentInv /\ TypeOK' /\ [Next]_vars => ResentInv'
  <2> SUFFICES ASSUME ResentInv, TypeOK', [Next]_vars PROVE ResentInv'
    OBVIOUS
  <2> USE DEF TypeOK, Row, Sender, At, Goto, RowOf, history, marks
  <2>1. ASSUME NEW s \in Senders, NEW p \in Purposes, Begin(s, p) PROVE ResentInv'
    BY <2>1 DEF Begin
  <2>2. ASSUME NEW s \in Senders, Lookup(s) PROVE ResentInv'
    <3> HIDE DEF TypeOK, Sender, Row, ResentInv, Goto, RowOf
    <3> DEFINE next == NextForExisting(RowOf(s), fresh[sender[s].purpose])
    <3>1. next \in {"send", "calling", "mark"} => RowOf(s).status # "delivered"
      BY DEF NextForExisting
    <3>2. /\ UNCHANGED <<row, history>>
          /\ Goto(s, "insert") \/ Goto(s, next)
      BY <2>2 DEF Lookup
    <3> HIDE DEF next, history
    <3> QED
      BY <3>1, <3>2, MoveKeepsResentInv DEF ResentInv
  <2>3. ASSUME NEW s \in Senders, Insert(s) PROVE ResentInv'
    <3>1. sender[s].purpose \in Purposes
      OBVIOUS
    <3>2. /\ UNCHANGED history
          /\ \A p \in Purposes : row[p].status = "delivered" => row'[p] = row[p]
          /\ \/ Goto(s, "send") /\ RowOf(s).status = "none"
             \/ Goto(s, "relookup")
      BY <2>3, <3>1 DEF Insert
    <3> HIDE DEF ResentInv, Goto, RowOf, history
    <3> QED
      BY <3>2, MoveKeepsResentInv
  <2>4. ASSUME NEW s \in Senders, Relookup(s) PROVE ResentInv'
    <3> HIDE DEF TypeOK, Sender, Row, ResentInv, Goto, RowOf
    <3> DEFINE next == NextForExisting(RowOf(s), fresh[sender[s].purpose])
    <3>1. next \in {"send", "calling", "mark"} => RowOf(s).status # "delivered"
      BY DEF NextForExisting
    <3>2. /\ UNCHANGED <<row, history>>
          /\ Goto(s, next)
      BY <2>4 DEF Relookup
    <3> HIDE DEF next, history
    <3> QED
      BY <3>1, <3>2, MoveKeepsResentInv DEF ResentInv
  <2>5. ASSUME NEW s \in Senders, ProviderUnresolved(s) PROVE ResentInv'
    BY <2>5 DEF ProviderUnresolved
  <2>6. ASSUME NEW s \in Senders, CallProvider(s) PROVE ResentInv'
    BY <2>6 DEF CallProvider
  <2>7. ASSUME NEW s \in Senders, NEW result \in CallResults, CallReturns(s, result)
        PROVE  ResentInv'
    BY <2>7 DEF CallReturns
  <2>8. ASSUME NEW s \in Senders, MarkOutcome(s) PROVE ResentInv'
    BY <2>8 DEF MarkOutcome, Marked
  <2>9. ASSUME NEW s \in Senders, Abandon(s) PROVE ResentInv'
    BY <2>9 DEF Abandon
  <2>10. ASSUME NEW p \in Purposes, PendingExpires(p) PROVE ResentInv'
    BY <2>10 DEF PendingExpires
  <2>11. CASE ConclusionConfirmed
    BY <2>11 DEF ConclusionConfirmed
  <2>12. CASE DiagnosisProgresses
    BY <2>12 DEF DiagnosisProgresses
  <2>13. CASE UNCHANGED vars
    BY <2>13 DEF vars
  <2> QED
    BY <2>1, <2>2, <2>3, <2>4, <2>5, <2>6, <2>7, <2>8, <2>9, <2>10, <2>11, <2>12,
       <2>13 DEF Next, SenderStep
<1>3. ResentInv => ResentOnlyAfterOverwrite
  BY DEF ResentOnlyAfterOverwrite, At
<1> QED
  BY <1>1, <1>2, <1>3, TypeCorrect, PTL DEF Spec

=============================================================================
