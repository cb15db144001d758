--------------------------- MODULE ReportDelivery ---------------------------
(***************************************************************************)
(* The notification of one final report: the delivery rows, one for each   *)
(* purpose and keyed by an idempotency key, and the calls of               *)
(* reportnotification.Service.Send that work on them.  A sender is one     *)
(* call: an attempt of the activity SendReportNotification, which runs on  *)
(* after its timeout, or a retry requested over HTTP.                      *)
(*                                                                         *)
(* Every database access of Send is a transaction of one statement, so a   *)
(* sender is cut between them and around the provider call.  The provider  *)
(* may accept a message whose answer is lost.  A pending row is inserted   *)
(* once and its updated_at does not move while it is pending, so the       *)
(* in-flight TTL is one fact about the row: `fresh'.                       *)
(***************************************************************************)
EXTENDS Naturals

CONSTANTS
    Senders,    \* the calls of Send
    Nobody      \* the message of a row that was not delivered

ASSUME NobodyAssumption == Nobody \notin Senders

Purposes == {"handoff", "final"}

VARIABLES
    row,        \* delivery row of each purpose
    fresh,      \* is the row younger than pendingDeliveryInFlightTTL?
    diagnosis,  \* what the diagnosis events of the report's snapshots say
    sender,     \* the calls of Send
    callers,    \* history: senders that called the provider
    accepted,   \* messages the provider took, named by their sender
    everFailed, \* history: has a failure been recorded on the row?
    everDelivered, \* history: has a delivery been recorded on the row?
    overwritten \* history: was a failure written over a recorded delivery?

marks == <<everFailed, everDelivered, overwritten>>
history == <<callers, accepted, marks>>
vars == <<row, fresh, diagnosis, sender, history>>

\* A row names the message that was delivered, and only a delivered row does.
Row == [status : {"none", "pending", "failed"}, message : {Nobody}]
         \cup [status : {"delivered"}, message : Senders]
Sender == [pc : {"idle", "lookup", "insert", "relookup", "send", "calling",
                 "mark", "ended"},
           purpose : Purposes, outcome : {"delivered", "failed"},
           late : BOOLEAN]

TypeOK ==
    /\ row \in [Purposes -> Row]
    /\ fresh \in [Purposes -> BOOLEAN]
    /\ diagnosis \in {"open", "confirmed", "progressed"}
    /\ sender \in [Senders -> Sender]
    /\ callers \in [Purposes -> SUBSET Senders]
    /\ accepted \in [Purposes -> SUBSET Senders]
    /\ everFailed \in [Purposes -> BOOLEAN]
    /\ everDelivered \in [Purposes -> BOOLEAN]
    /\ overwritten \in [Purposes -> BOOLEAN]

Init ==
    /\ row = [p \in Purposes |-> [status |-> "none", message |-> Nobody]]
    /\ fresh = [p \in Purposes |-> TRUE]
    /\ diagnosis = "open"
    /\ sender = [s \in Senders |->
                    [pc |-> "idle", purpose |-> "handoff",
                     outcome |-> "failed", late |-> FALSE]]
    /\ callers = [p \in Purposes |-> {}]
    /\ accepted = [p \in Purposes |-> {}]
    /\ everFailed = [p \in Purposes |-> FALSE]
    /\ everDelivered = [p \in Purposes |-> FALSE]
    /\ overwritten = [p \in Purposes |-> FALSE]

At(s, pc) == sender[s].pc = pc
Goto(s, pc) == sender' = [sender EXCEPT ![s].pc = pc]
RowOf(s) == row[sender[s].purpose]

(***************************************************************************)
(* Send                                                                    *)
(***************************************************************************)

\* The final notification needs a confirmed conclusion and no diagnosis
\* progress recorded after it.
FinalNotificationReady(p) == p = "final" => diagnosis = "confirmed"

Begin(s, p) ==
    /\ At(s, "idle")
    /\ FinalNotificationReady(p)
    /\ sender' = [sender EXCEPT ![s] = [@ EXCEPT !.pc = "lookup", !.purpose = p,
                                                 !.late = everDelivered[p]]]
    /\ UNCHANGED <<row, fresh, diagnosis, history>>

\* What Send does with a row that another call created.
NextForOlder(r, isFresh) ==
    IF r.status # "failed" /\ isFresh THEN "ended" ELSE "send"
NextForAny(r, isFresh) == IF r.status = "delivered" THEN "ended" ELSE "send"
NextForExisting(r, isFresh) ==
    IF \/ r.status = "delivered"
       \/ r.status = "pending" /\ isFresh
    THEN "ended" ELSE "send"

Lookup(s) ==
    /\ At(s, "lookup")
    /\ \/ /\ RowOf(s).status = "none"
          /\ Goto(s, "insert")
       \/ /\ RowOf(s).status # "none"
          /\ Goto(s, NextForExisting(RowOf(s), fresh[sender[s].purpose]))
    /\ UNCHANGED <<row, fresh, diagnosis, history>>

\* The insert of the pending row, refused by the unique idempotency key when
\* another sender was faster.
Insert(s) ==
    /\ At(s, "insert")
    /\ \/ /\ RowOf(s).status = "none"
          /\ row' = [row EXCEPT ![sender[s].purpose] =
                        [status |-> "pending", message |-> Nobody]]
          /\ Goto(s, "send")
       \/ /\ RowOf(s).status # "none"
          /\ Goto(s, "relookup")
          /\ UNCHANGED row
    /\ UNCHANGED <<fresh, diagnosis, history>>

Relookup(s) ==
    /\ At(s, "relookup")
    /\ Goto(s, NextForExisting(RowOf(s), fresh[sender[s].purpose]))
    /\ UNCHANGED <<row, fresh, diagnosis, history>>

ProviderUnresolved(s) ==
    /\ At(s, "send")
    /\ sender' = [sender EXCEPT ![s] = [@ EXCEPT !.pc = "mark", !.outcome = "failed"]]
    /\ UNCHANGED <<row, fresh, diagnosis, history>>

CallProvider(s) ==
    /\ At(s, "send")
    /\ Goto(s, "calling")
    /\ callers' = [callers EXCEPT ![sender[s].purpose] = @ \cup {s}]
    /\ UNCHANGED <<row, fresh, diagnosis, accepted, marks>>

ProviderTakes(s) ==
    accepted' = [accepted EXCEPT ![sender[s].purpose] = @ \cup {s}]

\* The provider acknowledges the message, refuses it, or takes it while its
\* answer is lost or an error.
CallResults == {"acknowledged", "lost", "refused"}
OutcomeIgnoringError(result) == "delivered"
Outcome(result) == IF result = "acknowledged" THEN "delivered" ELSE "failed"

CallReturns(s, result) ==
    /\ At(s, "calling")
    /\ \/ result = "refused" /\ UNCHANGED accepted
       \/ result # "refused" /\ ProviderTakes(s)
    /\ sender' = [sender EXCEPT ![s] =
                     [@ EXCEPT !.pc = "mark", !.outcome = Outcome(result)]]
    /\ UNCHANGED <<row, fresh, diagnosis, callers, marks>>

\* MarkDelivered and MarkFailed.
MarkedKeepingMessage(r, o, s) ==
    [status |-> o, message |-> IF o = "delivered" THEN s ELSE r.message]
Marked(r, o, s) ==
    [status |-> o, message |-> IF o = "delivered" THEN s ELSE Nobody]

\* UpdateNotificationDelivery writes the outcome on the row as it was read,
\* without a condition on what the row says by now.
MarkOutcome(s) ==
    LET p == sender[s].purpose
        o == sender[s].outcome IN
    /\ At(s, "mark")
    /\ row' = [row EXCEPT ![p] = Marked(@, o, s)]
    /\ everFailed' = [everFailed EXCEPT ![p] = @ \/ o = "failed"]
    /\ everDelivered' = [everDelivered EXCEPT ![p] = @ \/ o = "delivered"]
    /\ overwritten' = [overwritten EXCEPT ![p] =
                          @ \/ (o = "failed" /\ row[p].status = "delivered")]
    /\ Goto(s, "ended")
    /\ UNCHANGED <<fresh, diagnosis, callers, accepted>>

\* The process dies, its context is cancelled or a transaction fails: the call
\* ends without writing.
Abandon(s) ==
    /\ sender[s].pc \notin {"idle", "ended"}
    /\ Goto(s, "ended")
    /\ \/ UNCHANGED accepted
       \/ At(s, "calling") /\ ProviderTakes(s)
    /\ UNCHANGED <<row, fresh, diagnosis, callers, marks>>

(***************************************************************************)
(* Environment                                                             *)
(***************************************************************************)

PendingExpires(p) ==
    /\ row[p].status = "pending" /\ fresh[p]
    /\ fresh' = [fresh EXCEPT ![p] = FALSE]
    /\ UNCHANGED <<row, diagnosis, sender, history>>

\* diagnosis_room.closed with a confirmed conclusion.
ConclusionConfirmed ==
    /\ diagnosis' = "confirmed"
    /\ UNCHANGED <<row, fresh, sender, history>>

\* diagnosis_room.turn_persisted in a room of the same snapshot.
DiagnosisProgresses ==
    /\ diagnosis = "confirmed"
    /\ diagnosis' = "progressed"
    /\ UNCHANGED <<row, fresh, sender, history>>

SenderStep(s) ==
    \/ \E p \in Purposes : Begin(s, p)
    \/ Lookup(s)
    \/ Insert(s)
    \/ Relookup(s)
    \/ ProviderUnresolved(s)
    \/ CallProvider(s)
    \/ \E result \in CallResults : CallReturns(s, result)
    \/ MarkOutcome(s)
    \/ Abandon(s)

Next ==
    \/ \E s \in Senders : SenderStep(s)
    \/ \E p \in Purposes : PendingExpires(p)
    \/ ConclusionConfirmed
    \/ DiagnosisProgresses

Spec == Init /\ [][Next]_vars

(***************************************************************************)
(* Properties                                                              *)
(***************************************************************************)

\* A row says delivered only with the message of a call the provider took:
\* lost answers, abandoned calls and overlapping senders never produce the
\* proof of a delivery that did not happen (Send, MarkDelivered).
DeliveredMeansAccepted ==
    \A p \in Purposes :
        row[p].status = "delivered" => row[p].message \in accepted[p]

\* Two calls of the provider for one purpose need a recorded failure or a
\* pending row older than the in-flight TTL: the row, its unique key and the
\* fresh-pending check keep senders apart otherwise (ensureNotificationDelivery
\* and pendingDeliveryIsStale).
DuplicateNeedsFailureOrExpiry ==
    \A p \in Purposes :
        (\E s, t \in callers[p] : s # t) => everFailed[p] \/ ~fresh[p]

\* A call of Send that began after a delivery was recorded calls the provider
\* only if a failure was written over that delivery: "skips duplicate provider
\* calls once a delivered row exists" holds but for a slower sender's
\* unconditional UpdateNotificationDelivery.  Earlier failures, expired
\* pending rows and lost inserts do not excuse it.
ResentOnlyAfterOverwrite ==
    \A s \in Senders :
        sender[s].late /\ At(s, "calling") => overwritten[sender[s].purpose]

=============================================================================
