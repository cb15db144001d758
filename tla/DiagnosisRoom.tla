--------------------------- MODULE DiagnosisRoom ---------------------------
(***************************************************************************)
(* One diagnosis room: the Temporal workflow that owns it, the update      *)
(* handlers that run inside the workflow as coroutines, the activities     *)
(* they schedule, and the PostgreSQL rows those activities write.          *)
(*                                                                         *)
(* Interleaving.  Workflow code is cooperative: between two awaits a       *)
(* coroutine runs alone, so a handler is cut exactly where it awaits an    *)
(* activity.  Activities run on other workers and overlap with everything. *)
(* A database transaction is cut in two: its reads (the snapshot `snap' it *)
(* computes with) and its commit.  UnitOfWorkFactory opens it without      *)
(* options, so it is READ COMMITTED: the commit overwrites whatever others *)
(* committed in between.  An attempt whose result never reaches            *)
(* the workflow (timeout, lost completion) leaves its transaction in `txs' *)
(* and it may still commit later.                                          *)
(*                                                                         *)
(* Data.  A turn is one user row and one assistant row written by one      *)
(* transaction with consecutive sequences, so it is one element of `rows'  *)
(* and `seq' counts pairs.  An assistant output keeps its text, which the  *)
(* conclusion digest covers, and whether its conclusion status is final or *)
(* ready_for_review.  Clock readings are reduced to the two comparisons    *)
(* made with them: session TTL elapsed, idle timeout elapsed.              *)
(***************************************************************************)
EXTENDS Integers, Sequences, FiniteSets

CONSTANTS
    Messages,                  \* message ids chosen by clients
    Texts,                     \* assistant messages
    Owner,                     \* the room owner
    Leaders,                   \* other subjects allowed to approve
    ApprovalMode,              \* "single" or "owner_and_leader"
    MaxTurns,                  \* policy.MaxTurns
    MaxAutoEvidenceFollowUps,  \* policy.MaxAutoEvidenceFollowUps
    InitialTurn,               \* message id of input.InitialTurn, or None
    MaximumAttempts,           \* retry policy of the persistence activities
    Faults,                    \* may activities fail by themselves?
    MaxOpenTx,                 \* bound: transactions open at the same time
    None

ASSUME RoomAssumption ==
    /\ MaxTurns \in Nat \ {0}
    /\ MaxAutoEvidenceFollowUps \in Nat
    /\ MaximumAttempts \in Nat \ {0}
    /\ MaxOpenTx \in Nat
    /\ ApprovalMode \in {"single", "owner_and_leader"}
    /\ Faults \in BOOLEAN
    /\ Owner \notin Leaders
    /\ InitialTurn \in Messages \cup {None}
    /\ None \notin Messages
    /\ None \notin Leaders \cup {Owner}

\* Message ids: <<m, 0>> is the client's message m, <<m, i>> the i-th
\* automatic follow-up "m/auto-evidence-i".
MsgIds == Messages \X (0..MaxAutoEvidenceFollowUps)

Actors == Leaders \cup {Owner}
Output == [text : Texts, ready : BOOLEAN]
Digest == [msg : MsgIds, seq : Nat, text : Texts]
Row == [msg : MsgIds, seq : Nat, text : Texts, ready : BOOLEAN]
Approval == [actor : Actors, authority : {"owner", "leader"}, digest : Digest]

CloseReasons == {"user_requested", "cancelled", "session_timeout",
                 "idle_timeout", "context_cancelled", "initial_turn_failed",
                 "human_confirmed", "unavailable"}
ASSUME ReasonAssumption == None \notin CloseReasons

TaskTerminal == {"succeeded", "cancelled", "failed"}
Session == [status : {"none", "open", "closed"}, turnCount : Nat,
            reason : CloseReasons \cup {None}]

VARIABLES
    \* diagnosisRoomState
    status, closeReason, confirmedBy, turnCount, conversation, seen,
    finalConclusion, latestReady, conclusionDigest, approvals,
    \* coroutines of the workflow: main, the turn or evidence update that
    \* holds inFlight, the approval update that holds approvalInFlight
    main, turn, approval, closeReq,
    \* environment of the workflow
    cancelled, ttlElapsed, idleElapsed,
    \* database
    session, task, rows, savedApprovals, closedDigest, txs

lifecycleVars == <<status, closeReason, confirmedBy>>
historyVars == <<turnCount, conversation, seen>>
conclusionVars == <<finalConclusion, latestReady, conclusionDigest, approvals>>
wfVars == <<lifecycleVars, historyVars, conclusionVars>>
coVars == <<main, turn, approval, closeReq>>
envVars == <<cancelled, ttlElapsed, idleElapsed>>
dbVars == <<session, task, rows, savedApprovals, closedDigest, txs>>
vars == <<wfVars, coVars, envVars, dbVars>>

IdleTurn == [pc |-> "idle", kind |-> "submit", msg |-> None, seq |-> 0,
             out |-> None, collected |-> FALSE, tries |-> 0]
IdleApproval == [pc |-> "idle", actor |-> None, digest |-> None, tries |-> 0]
NoCloseReq == [turnCount |-> 0, digest |-> None, tries |-> 0]

TurnState ==
    [pc : {"idle", "run", "persist", "persisted", "collect", "notify", "manual"},
     kind : {"initial", "submit", "collect"}, msg : MsgIds \cup {None},
     seq : Nat, out : Output \cup {None}, collected : BOOLEAN,
     tries : 0..MaximumAttempts]
ApprovalState ==
    [pc : {"idle", "record", "recorded"}, actor : Actors \cup {None},
     digest : Digest \cup {None}, tries : 0..MaximumAttempts]
MainPc == {"ensure", "initial", "loop", "closing", "notifying", "completed",
           "failed"}
PersistTx == [kind : {"persist"}, msg : MsgIds, seq : Nat, out : Output,
              snap : Session]
ApproveTx == [kind : {"approve"}, actor : Actors, digest : Digest]
CloseTx == [kind : {"close", "unavailable"}, snap : Session]
Tx == PersistTx \cup ApproveTx \cup CloseTx

TypeOK ==
    /\ status \in {"open", "closed"}
    /\ closeReason \in CloseReasons \cup {None}
    /\ confirmedBy \in Actors \cup {None}
    /\ turnCount \in Nat
    /\ conversation \in Seq([msg : MsgIds, text : Texts])
    /\ seen \subseteq MsgIds
    /\ finalConclusion \in [msg : MsgIds, seq : Nat] \cup {None}
    /\ latestReady \in BOOLEAN
    /\ conclusionDigest \in Digest \cup {None}
    /\ approvals \subseteq Approval
    /\ main \in MainPc
    /\ turn \in TurnState
    /\ approval \in ApprovalState
    /\ closeReq \in [turnCount : Nat, digest : Digest \cup {None},
                     tries : 0..MaximumAttempts]
    /\ cancelled \in BOOLEAN /\ ttlElapsed \in BOOLEAN /\ idleElapsed \in BOOLEAN
    /\ session \in Session
    /\ task \in {"none", "running"} \cup TaskTerminal
    /\ rows \subseteq Row
    /\ savedApprovals \subseteq Approval
    /\ closedDigest \in Digest \cup {None}
    /\ txs \subseteq Tx

Init ==
    /\ status = "open" /\ closeReason = None /\ confirmedBy = None
    /\ turnCount = 0 /\ conversation = <<>> /\ seen = {}
    /\ finalConclusion = None /\ latestReady = FALSE
    /\ conclusionDigest = None /\ approvals = {}
    /\ main = "ensure" /\ turn = IdleTurn /\ approval = IdleApproval
    /\ closeReq = NoCloseReq
    /\ cancelled = FALSE /\ ttlElapsed = FALSE /\ idleElapsed = FALSE
    /\ session = [status |-> "none", turnCount |-> 0, reason |-> None]
    /\ task = "none" /\ rows = {} /\ savedApprovals = {}
    /\ closedDigest = None /\ txs = {}

-----------------------------------------------------------------------------
(* Workflow state queries and the validators of the three updates.          *)

InFlight == turn.pc # "idle"
ApprovalInFlight == approval.pc # "idle"
HandlersFinished == ~InFlight /\ ~ApprovalInFlight
Terminal == main \in {"completed", "failed"}

\* An update handler waits for startupComplete and then validates again, so
\* an update that arrives earlier behaves like one that arrives then.
Started == main \notin {"ensure", "completed", "failed"}

\* Mutant: the policy forgets the session lifetime.
ValidateSubmitTurnWithoutTTL(msg) ==
    msg \notin seen /\ ~idleElapsed /\ turnCount < MaxTurns

\* The policy check of a turn: session and idle lifetime, turn budget and
\* message id.  Size and denylist limits only add rejections.
ValidateSubmitTurn(msg) ==
    /\ msg \notin seen
    /\ ~ttlElapsed /\ ~idleElapsed
    /\ turnCount < MaxTurns

\* validateSubmit hands the policy the inFlight flag; it consults neither the
\* room status nor approvalInFlight.
ValidateSubmit(msg) == ~InFlight /\ ValidateSubmitTurn(msg)

ValidateCollectEvidence(msg) ==
    status = "open" /\ ~InFlight /\ turnCount > 0 /\ msg \notin seen

ValidateConfirmConclusion ==
    /\ status = "open" /\ ~InFlight /\ ~ApprovalInFlight
    /\ finalConclusion # None \/ latestReady

Authority(a) == IF a = Owner THEN "owner" ELSE "leader"
NewApproval(a, d) == [actor |-> a, authority |-> Authority(a), digest |-> d]
ApprovalsFor(d, as) == {a \in as : a.digest = d}

\* diagnosisapproval.PendingAuthorities returns no error ...
QuorumValid(as) ==
    /\ \A a, b \in as :
          a.actor = b.actor \/ a.authority = b.authority => a = b
    /\ ApprovalMode = "single" => \A a, b \in as : a = b
\* Mutant: one approval satisfies both authorities.
QuorumCompleteWithAny(as) == QuorumValid(as) /\ as # {}

\* ... and an empty list of pending authorities.
QuorumComplete(as) ==
    /\ QuorumValid(as)
    /\ IF ApprovalMode = "single"
         THEN as # {}
         ELSE \A x \in {"owner", "leader"} : \E a \in as : a.authority = x

\* currentConclusionIdentity: the conclusion is looked up in the workflow's
\* own conversation at the retained sequence.
HasConclusionIdentity ==
    finalConclusion # None /\ finalConclusion.seq \in 1..Len(conversation)
ConclusionIdentity ==
    [msg |-> finalConclusion.msg, seq |-> finalConclusion.seq,
     text |-> conversation[finalConclusion.seq].text]

\* state.close: the first close wins; it also refreshes lastActivityAt.
CloseRoom(reason) ==
    /\ status' = "closed"
    /\ closeReason' = IF status = "open" THEN reason ELSE closeReason
    /\ idleElapsed' = IF status = "open" THEN FALSE ELSE idleElapsed

StartTurn(kind, msg, seq) ==
    [pc |-> "run", kind |-> kind, msg |-> msg, seq |-> seq, out |-> None,
     collected |-> FALSE, tries |-> 0]
NextFollowUp(msg) == <<msg[1], msg[2] + 1>>

-----------------------------------------------------------------------------
(* What the persistence activities read from the database.                  *)

DigestOf(r) == [msg |-> r.msg, seq |-> r.seq, text |-> r.text]
RowsOf(msg) == {r \in rows : r.msg = msg}
UsedSequences == {r.seq : r \in rows}

\* latestPersistedDiagnosisConclusion succeeds with digest d.
LatestConclusionIs(d) ==
    /\ session.turnCount > 0
    /\ UsedSequences = 1..session.turnCount
    /\ \E r \in rows : r.seq = session.turnCount /\ DigestOf(r) = d

\* diagnosisTaskTerminalStateForRoomClose.
TaskStatusFor(reason) ==
    CASE reason = "initial_turn_failed" -> "failed"
      [] reason \in {"cancelled", "context_cancelled", "session_timeout",
                     "idle_timeout"} -> "cancelled"
      [] OTHER -> "succeeded"

\* Mutant: approvals are verified only when the workflow sends a digest.
CloseValidIfDigest ==
    /\ session.turnCount = closeReq.turnCount
    /\ UsedSequences = 1..closeReq.turnCount
    /\ closeReq.digest # None =>
          QuorumComplete(ApprovalsFor(closeReq.digest, savedApprovals))
    /\ task \in {"running", TaskStatusFor(closeReason)}
    /\ session.status = "closed" => session.reason = closeReason

\* closeDiagnosisChatSession commits nothing and fails without retry unless
\* the database agrees with the workflow about the transcript, the approvals
\* and the terminal state.
CloseValid ==
    /\ session.turnCount = closeReq.turnCount
    /\ UsedSequences = 1..closeReq.turnCount
    /\ confirmedBy # None =>
          /\ closeReq.digest # None
          /\ LatestConclusionIs(closeReq.digest)
          /\ QuorumComplete(ApprovalsFor(closeReq.digest, savedApprovals))
          /\ \E a \in ApprovalsFor(closeReq.digest, savedApprovals) :
                a.actor = confirmedBy
    /\ task \in {"running", TaskStatusFor(closeReason)}
    /\ session.status = "closed" => session.reason = closeReason

\* Transactions of the activity attempts the workflow is waiting for.
CurrentPersistTx ==
    {t \in txs : /\ t.kind = "persist" /\ turn.pc = "persist"
                 /\ t.msg = turn.msg /\ t.seq = turn.seq /\ t.out = turn.out}
CurrentApproveTx ==
    {t \in txs : /\ t.kind = "approve" /\ approval.pc = "record"
                 /\ t.actor = approval.actor /\ t.digest = approval.digest}
CurrentCloseTx == {t \in txs : t.kind = "close" /\ main = "closing"}

\* Mutant: the retry policy has no maximum.
MayAttemptForever(tries, current) == Faults \/ current = {}

\* A new attempt starts when none was made, when the last one ended, or when
\* the last one timed out or lost its worker; its transaction may live on.
MayAttempt(tries, current) ==
    tries < MaximumAttempts /\ (Faults \/ current = {})
AttemptsExhausted(tries, current) == tries = MaximumAttempts /\ current = {}
OpenTx(t) == Cardinality(txs) < MaxOpenTx /\ txs' = txs \cup {t}

-----------------------------------------------------------------------------
(* The turn held by inFlight: submit-turn, the initial turn, the automatic  *)
(* follow-ups and the collect-evidence update.                              *)

\* Mutant: the next sequence is taken from the database.
SubmitTurnAfterLatestRow(m) ==
    /\ Started /\ ValidateSubmit(<<m, 0>>)
    /\ turn' = StartTurn("submit", <<m, 0>>, Cardinality(rows) + 1)
    /\ idleElapsed' = FALSE
    /\ UNCHANGED <<wfVars, main, approval, closeReq, cancelled, ttlElapsed,
                   dbVars>>

\* The submit-turn update is accepted; beginAcceptedUpdate refreshes
\* lastActivityAt before the second validation.
SubmitTurn(m) ==
    /\ Started /\ ValidateSubmit(<<m, 0>>)
    /\ turn' = StartTurn("submit", <<m, 0>>, Len(conversation) + 1)
    /\ idleElapsed' = FALSE
    /\ UNCHANGED <<wfVars, main, approval, closeReq, cancelled, ttlElapsed,
                   dbVars>>

\* RunDiagnosisTurn returns an assistant output.
RunTurnDone(o) ==
    /\ turn.pc = "run" /\ ~cancelled
    /\ turn' = [turn EXCEPT !.pc = "persist", !.out = o]
    /\ UNCHANGED <<wfVars, main, approval, closeReq, envVars, dbVars>>

\* A turn that returns an error leaves the conversation alone; an initial
\* turn also closes the room.
EndTurnWithError ==
    /\ turn' = IdleTurn
    /\ IF turn.kind = "initial"
         THEN main' = "loop" /\ CloseRoom("initial_turn_failed")
         ELSE UNCHANGED <<main, status, closeReason, idleElapsed>>
    /\ UNCHANGED <<confirmedBy, historyVars, conclusionVars, approval,
                   closeReq, cancelled, ttlElapsed>>

AwaitsActivity ==
    turn.pc \in {"run", "persist", "persisted", "collect", "manual"}

\* The turn cannot go on: the workflow was cancelled, or the attempts to
\* persist are exhausted.
TurnFails ==
    /\ AwaitsActivity
    /\ \/ cancelled
       \/ turn.pc = "persist" /\ AttemptsExhausted(turn.tries, CurrentPersistTx)
    /\ EndTurnWithError
    /\ UNCHANGED dbVars

\* An activity of the turn fails for good by itself, after "persist" possibly
\* with a transaction that is committed or still open.
TurnFaults == Faults /\ AwaitsActivity /\ EndTurnWithError /\ UNCHANGED dbVars

\* Mutant: the session may be terminal.
PersistBeginUnchecked ==
    /\ turn.pc = "persist" /\ ~cancelled
    /\ MayAttempt(turn.tries, CurrentPersistTx)
    /\ RowsOf(turn.msg) = {}
    /\ OpenTx([kind |-> "persist", msg |-> turn.msg, seq |-> turn.seq,
               out |-> turn.out, snap |-> session])
    /\ turn' = [turn EXCEPT !.tries = @ + 1]
    /\ UNCHANGED <<wfVars, main, approval, closeReq, envVars, session, task,
                   rows, savedApprovals, closedDigest>>

\* persistDiagnosisTurnOnce reads an open session without this message.
PersistBegin ==
    /\ turn.pc = "persist" /\ ~cancelled
    /\ MayAttempt(turn.tries, CurrentPersistTx)
    /\ session.status = "open" /\ RowsOf(turn.msg) = {}
    /\ OpenTx([kind |-> "persist", msg |-> turn.msg, seq |-> turn.seq,
               out |-> turn.out, snap |-> session])
    /\ turn' = [turn EXCEPT !.tries = @ + 1]
    /\ UNCHANGED <<wfVars, main, approval, closeReq, envVars, session, task,
                   rows, savedApprovals, closedDigest>>

\* It finds both rows already there: an earlier attempt, or an earlier update
\* with the same message id, committed them.
PersistExisting ==
    /\ turn.pc = "persist" /\ ~cancelled
    /\ MayAttempt(turn.tries, CurrentPersistTx)
    /\ session.status = "open" /\ RowsOf(turn.msg) # {}
    /\ turn' = [turn EXCEPT !.pc = "persisted"]
    /\ UNCHANGED <<wfVars, main, approval, closeReq, envVars, dbVars>>

\* The session is terminal: a non-retryable error.
PersistReject ==
    /\ turn.pc = "persist" /\ ~cancelled
    /\ MayAttempt(turn.tries, CurrentPersistTx)
    /\ session.status = "closed"
    /\ EndTurnWithError
    /\ UNCHANGED dbVars

\* Mutant: no unique index on the sequence.
PersistConflictsOnMessageOnly(t) == \E r \in rows : r.msg = t.msg

\* (session, sequence) and (session, message_id) are unique.
PersistConflicts(t) == \E r \in rows : r.seq = t.seq \/ r.msg = t.msg

\* Mutant: RecordTurn is forgotten.
PersistCommitKeepsCount(t) ==
    /\ t.kind = "persist" /\ ~PersistConflicts(t)
    /\ rows' = rows \cup {[msg |-> t.msg, seq |-> t.seq,
                           text |-> t.out.text, ready |-> t.out.ready]}
    /\ session' = t.snap
    /\ txs' = txs \ {t}
    /\ \/ t \in CurrentPersistTx /\ turn' = [turn EXCEPT !.pc = "persisted"]
       \/ (Faults \/ t \notin CurrentPersistTx) /\ UNCHANGED turn
    /\ UNCHANGED <<wfVars, main, approval, closeReq, envVars, task,
                   savedApprovals, closedDigest>>

\* The transaction commits; UpdateChatSession writes the values computed
\* from the session it read.  The result reaches the workflow unless it is
\* lost or nobody waits for it.
PersistCommit(t) ==
    /\ t.kind = "persist" /\ ~PersistConflicts(t)
    /\ rows' = rows \cup {[msg |-> t.msg, seq |-> t.seq,
                           text |-> t.out.text, ready |-> t.out.ready]}
    /\ session' = [t.snap EXCEPT !.turnCount = @ + 1]
    /\ txs' = txs \ {t}
    /\ \/ t \in CurrentPersistTx /\ turn' = [turn EXCEPT !.pc = "persisted"]
       \/ (Faults \/ t \notin CurrentPersistTx) /\ UNCHANGED turn
    /\ UNCHANGED <<wfVars, main, approval, closeReq, envVars, task,
                   savedApprovals, closedDigest>>

\* A unique index rejects the insert.  PersistDiagnosisTurn then looks the
\* message up and succeeds only if the session is open and has both rows.
PersistConflict(t) ==
    /\ t.kind = "persist" /\ PersistConflicts(t)
    /\ txs' = txs \ {t}
    /\ IF t \notin CurrentPersistTx
         THEN UNCHANGED <<wfVars, main, turn, approval, closeReq, envVars>>
         ELSE IF session.status = "open" /\ RowsOf(t.msg) # {}
                THEN /\ turn' = [turn EXCEPT !.pc = "persisted"]
                     /\ UNCHANGED <<wfVars, main, approval, closeReq, envVars>>
                ELSE EndTurnWithError
    /\ UNCHANGED <<session, task, rows, savedApprovals, closedDigest>>

\* The workflow applies the persisted turn.  The retained final conclusion
\* names the persisted row; its readiness is that of the output just run.
ApplyTurn(collected) ==
    /\ turnCount' = turnCount + 1
    /\ idleElapsed' \in {FALSE, idleElapsed}
    /\ conclusionDigest' = None /\ approvals' = {}
    /\ finalConclusion' = IF turn.out.ready
                            THEN [msg |-> turn.msg,
                                  seq |-> (CHOOSE r \in RowsOf(turn.msg) : TRUE).seq]
                            ELSE None
    /\ turn' = [turn EXCEPT !.pc = "notify", !.collected = collected]
    /\ UNCHANGED <<lifecycleVars, conversation, seen, latestReady, main,
                   approval, closeReq, cancelled, ttlElapsed, dbVars>>

\* diagnosisRoomShouldAutoCollectEvidence: the initial turn and the automatic
\* follow-ups run as the system actor.
AutoActor == turn.kind = "initial" \/ turn.msg[2] > 0

\* PersistDiagnosisTurn returned; the output may ask for evidence.
PersistDelivered ==
    /\ turn.pc = "persisted" /\ ~cancelled
    /\ \/ ApplyTurn(FALSE)
       \/ /\ AutoActor
          /\ turn' = [turn EXCEPT !.pc = "collect"]
          /\ UNCHANGED <<wfVars, main, approval, closeReq, envVars, dbVars>>

\* CollectDiagnosisEvidence and RecordDiagnosisEvidenceCollected returned.
CollectDone == turn.pc = "collect" /\ ~cancelled /\ ApplyTurn(TRUE)

\* Mutant: follow-ups do not count against the turn budget.
FollowUpBeyondBudget(next, seenNow) ==
    /\ status = "open" /\ next[2] <= MaxAutoEvidenceFollowUps
    /\ next \notin seenNow /\ ~ttlElapsed

\* runAutoEvidenceFollowUps goes on with the next follow-up: the evidence it
\* asks for was collected, the diagnosis is not final, and the same policy
\* check as for a client message passes (without inFlight).
FollowUpAllowed(next, seenNow) ==
    /\ status = "open" /\ turnCount < MaxTurns
    /\ next[2] <= MaxAutoEvidenceFollowUps
    /\ next \notin seenNow /\ ~ttlElapsed

FinishTurn ==
    /\ turn' = IdleTurn
    /\ main' = IF turn.kind = "initial" THEN "loop" ELSE main

\* The turn notification was sent or failed (which is only recorded); the
\* turn becomes part of the workflow's conversation.  A follow-up may still
\* be dropped because its context is too large.
NotifyDone ==
    /\ turn.pc = "notify"
    /\ latestReady' = turn.out.ready
    /\ seen' = seen \cup {turn.msg}
    /\ conversation' = Append(conversation,
                              [msg |-> turn.msg, text |-> turn.out.text])
    /\ \/ FinishTurn
       \/ /\ turn.collected /\ ~turn.out.ready /\ ~idleElapsed
          /\ FollowUpAllowed(NextFollowUp(turn.msg), seen')
          /\ turn' = StartTurn(turn.kind, NextFollowUp(turn.msg),
                               Len(conversation) + 2)
          /\ UNCHANGED main
    /\ UNCHANGED <<lifecycleVars, turnCount, finalConclusion, conclusionDigest,
                   approvals, approval, closeReq, envVars, dbVars>>

\* The collect-evidence update is accepted.
CollectEvidence(m) ==
    /\ Started /\ ValidateCollectEvidence(<<m, 0>>)
    /\ turn' = [StartTurn("collect", <<m, 0>>, 0) EXCEPT !.pc = "manual"]
    /\ idleElapsed' = FALSE
    /\ UNCHANGED <<wfVars, main, approval, closeReq, cancelled, ttlElapsed,
                   dbVars>>

\* Evidence was collected and recorded; a follow-up turn interprets it.
ManualCollectDone ==
    /\ turn.pc = "manual" /\ ~cancelled
    /\ seen' = seen \cup {turn.msg}
    /\ idleElapsed' = FALSE
    /\ \/ turn' = IdleTurn
       \/ /\ FollowUpAllowed(NextFollowUp(turn.msg), seen')
          /\ turn' = StartTurn("collect", NextFollowUp(turn.msg),
                               Len(conversation) + 1)
    /\ UNCHANGED <<lifecycleVars, turnCount, conversation, conclusionVars, main,
                   approval, closeReq, cancelled, ttlElapsed, dbVars>>

-----------------------------------------------------------------------------
(* The confirm-conclusion update and its approval activity.                 *)

\* Accepted by the validator but answered at once: no retained conclusion, a
\* repeated approval, or an authority that is already satisfied.
ConfirmAnswered(a) ==
    /\ Started /\ ValidateConfirmConclusion
    /\ HasConclusionIdentity =>
          LET mine == ApprovalsFor(ConclusionIdentity, approvals) IN
             \/ \E x \in mine : x.actor = a
             \/ ~QuorumValid(mine \cup {NewApproval(a, ConclusionIdentity)})
    /\ idleElapsed' = FALSE
    /\ UNCHANGED <<wfVars, coVars, cancelled, ttlElapsed, dbVars>>

ConfirmConclusion(a) ==
    /\ Started /\ ValidateConfirmConclusion
    /\ HasConclusionIdentity
    /\ LET mine == ApprovalsFor(ConclusionIdentity, approvals) IN
          /\ \A x \in mine : x.actor # a
          /\ QuorumValid(mine \cup {NewApproval(a, ConclusionIdentity)})
    /\ approval' = [pc |-> "record", actor |-> a, digest |-> ConclusionIdentity,
                    tries |-> 0]
    /\ idleElapsed' = FALSE
    /\ UNCHANGED <<wfVars, main, turn, closeReq, cancelled, ttlElapsed, dbVars>>

SavedForConclusion == ApprovalsFor(approval.digest, savedApprovals)
SavedByActor == {x \in SavedForConclusion : x.actor = approval.actor}

\* Mutant: the persisted turn is not compared with the conclusion.
ApprovalReadsOpenSession == session.status = "open"

\* recordDiagnosisConclusionApproval reads an open session whose latest turn
\* is the conclusion being approved.
ApprovalReadsMatch ==
    session.status = "open" /\ LatestConclusionIs(approval.digest)

ApproveBegin ==
    /\ approval.pc = "record" /\ ~cancelled
    /\ MayAttempt(approval.tries, CurrentApproveTx)
    /\ ApprovalReadsMatch /\ SavedByActor = {}
    /\ QuorumValid(SavedForConclusion
                     \cup {NewApproval(approval.actor, approval.digest)})
    /\ OpenTx([kind |-> "approve", actor |-> approval.actor,
               digest |-> approval.digest])
    /\ approval' = [approval EXCEPT !.tries = @ + 1]
    /\ UNCHANGED <<wfVars, main, turn, closeReq, envVars, session, task, rows,
                   savedApprovals, closedDigest>>

\* The actor's approval is already there.
ApproveExisting ==
    /\ approval.pc = "record" /\ ~cancelled
    /\ MayAttempt(approval.tries, CurrentApproveTx)
    /\ ApprovalReadsMatch /\ SavedByActor # {}
    /\ approval' = [approval EXCEPT !.pc = "recorded"]
    /\ UNCHANGED <<wfVars, main, turn, closeReq, envVars, dbVars>>

\* Cancelled, exhausted, or refused: the session is closed, the conclusion is
\* not its latest turn, or the saved approvals leave no place for this one.
ApproveFails ==
    /\ ApprovalInFlight
    /\ \/ cancelled
       \/ /\ approval.pc = "record"
          /\ \/ AttemptsExhausted(approval.tries, CurrentApproveTx)
             \/ /\ MayAttempt(approval.tries, CurrentApproveTx)
                /\ \/ ~ApprovalReadsMatch
                   \/ /\ SavedByActor = {}
                      /\ ~QuorumValid(SavedForConclusion
                             \cup {NewApproval(approval.actor, approval.digest)})
    /\ approval' = IdleApproval
    /\ UNCHANGED <<wfVars, main, turn, closeReq, envVars, dbVars>>

ApproveFaults ==
    /\ Faults /\ ApprovalInFlight
    /\ approval' = IdleApproval
    /\ UNCHANGED <<wfVars, main, turn, closeReq, envVars, dbVars>>

\* (session, digest, actor) and (session, digest, authority) are unique.
ApproveConflicts(t) ==
    \E x \in ApprovalsFor(t.digest, savedApprovals) :
        x.actor = t.actor \/ x.authority = Authority(t.actor)

\* The transaction only inserts, so it commits whatever became of the
\* session and the transcript since it read them.
ApproveCommit(t) ==
    /\ t.kind = "approve" /\ ~ApproveConflicts(t)
    /\ savedApprovals' = savedApprovals \cup {NewApproval(t.actor, t.digest)}
    /\ txs' = txs \ {t}
    /\ \/ /\ t \in CurrentApproveTx
          /\ approval' = [approval EXCEPT !.pc = "recorded"]
       \/ (Faults \/ t \notin CurrentApproveTx) /\ UNCHANGED approval
    /\ UNCHANGED <<wfVars, main, turn, closeReq, envVars, session, task, rows,
                   closedDigest>>

\* The approval activity returned: the quorum may be complete now.
ApproveDelivered ==
    /\ approval.pc = "recorded" /\ ~cancelled
    /\ conclusionDigest' = approval.digest
    /\ approvals' = approvals \cup {NewApproval(approval.actor, approval.digest)}
    /\ IF /\ status = "open"
          /\ QuorumComplete(ApprovalsFor(approval.digest, approvals'))
         THEN confirmedBy' = approval.actor /\ CloseRoom("human_confirmed")
         ELSE UNCHANGED <<lifecycleVars, idleElapsed>>
    /\ approval' = IdleApproval
    /\ UNCHANGED <<historyVars, finalConclusion, latestReady, main, turn,
                   closeReq, cancelled, ttlElapsed, dbVars>>

-----------------------------------------------------------------------------
(* The main coroutine.                                                      *)

\* A workflow that returns aborts its running update handlers; activities it
\* started may still commit.
WorkflowEnds(pc) == main' = pc /\ turn' = IdleTurn /\ approval' = IdleApproval

NewSession == [status |-> "open", turnCount |-> 0, reason |-> None]

\* EnsureDiagnosisRoomSession created the task and then the session.  The
\* initial turn starts at once, or closes the room if the policy rejects it.
EnsureSession ==
    /\ main = "ensure" /\ ~cancelled
    /\ task' = "running" /\ session' = NewSession
    /\ \/ /\ InitialTurn = None
          /\ main' = "loop"
          /\ UNCHANGED <<turn, status, closeReason, idleElapsed>>
       \/ /\ InitialTurn # None /\ ValidateSubmit(<<InitialTurn, 0>>)
          /\ main' = "initial"
          /\ turn' = StartTurn("initial", <<InitialTurn, 0>>, 1)
          /\ UNCHANGED <<status, closeReason, idleElapsed>>
       \/ /\ InitialTurn # None
          /\ main' = "loop"
          /\ CloseRoom("initial_turn_failed")
          /\ UNCHANGED turn
    /\ UNCHANGED <<confirmedBy, historyVars, conclusionVars, approval, closeReq,
                   cancelled, ttlElapsed, rows, savedApprovals, closedDigest, txs>>

\* The activity fails for good, or is cancelled, after any of its
\* transactions: neither row, the task, or both exist.
EnsureEndsInError ==
    /\ main = "ensure"
    /\ WorkflowEnds("failed")
    /\ \/ UNCHANGED <<task, session>>
       \/ task' = "running" /\ UNCHANGED session
       \/ task' = "running" /\ session' = NewSession
    /\ UNCHANGED <<wfVars, closeReq, envVars, rows, savedApprovals,
                   closedDigest, txs>>
EnsureFails == cancelled /\ EnsureEndsInError
EnsureFaults == Faults /\ EnsureEndsInError

CloseFromLoop(reason) ==
    /\ main = "loop" /\ status = "open"
    /\ CloseRoom(reason)
    /\ UNCHANGED <<confirmedBy, historyVars, conclusionVars, coVars, cancelled,
                   ttlElapsed, dbVars>>

CloseSignal == CloseFromLoop("user_requested")
CancelSignal == CloseFromLoop("cancelled")

\* closeIfExpired: the session lifetime ends the room whatever is in flight,
\* the idle timeout only a room with no accepted update.
SessionTimeout == ttlElapsed /\ CloseFromLoop("session_timeout")
IdleTimeout ==
    /\ ~ttlElapsed /\ idleElapsed /\ HandlersFinished
    /\ CloseFromLoop("idle_timeout")

\* The timer future fails because the workflow was cancelled.
LoopCancelled == cancelled /\ CloseFromLoop("context_cancelled")

\* Mutant: the close does not wait for the handlers.
DrainDoneAtOnce ==
    /\ main = "loop" /\ status = "closed"
    /\ main' = "closing"
    /\ closeReq' = [turnCount |-> turnCount, tries |-> 0,
                    digest |-> IF confirmedBy = None THEN None
                                                     ELSE conclusionDigest]
    /\ UNCHANGED <<wfVars, turn, approval, envVars, dbVars>>

\* Every handler has finished: CloseDiagnosisChatSession is scheduled with
\* the workflow's turn count and, for a confirmed room, its digest.
DrainDone ==
    /\ main = "loop" /\ status = "closed" /\ HandlersFinished
    /\ main' = "closing"
    /\ closeReq' = [turnCount |-> turnCount, tries |-> 0,
                    digest |-> IF confirmedBy = None THEN None
                                                     ELSE conclusionDigest]
    /\ UNCHANGED <<wfVars, turn, approval, envVars, dbVars>>

\* Await on a cancelled context fails while a handler is running.
DrainCancelled ==
    /\ main = "loop" /\ status = "closed" /\ cancelled /\ ~HandlersFinished
    /\ WorkflowEnds("failed")
    /\ UNCHANGED <<wfVars, closeReq, envVars, dbVars>>

\* Only a room closed by cancellation closes on a disconnected context.
CloseContextAlive == ~cancelled \/ closeReason = "context_cancelled"

CloseBegin ==
    /\ main = "closing" /\ CloseContextAlive
    /\ MayAttempt(closeReq.tries, CurrentCloseTx)
    /\ CloseValid /\ session.status = "open"
    /\ OpenTx([kind |-> "close", snap |-> session])
    /\ closeReq' = [closeReq EXCEPT !.tries = @ + 1]
    /\ UNCHANGED <<wfVars, main, turn, approval, envVars, session, task, rows,
                   savedApprovals, closedDigest>>

\* The close result replaces the workflow's conclusion and approvals.
CloseDelivered ==
    /\ main' = "notifying"
    /\ finalConclusion' =
          IF closeReq.turnCount = 0 THEN None
          ELSE LET r == CHOOSE x \in rows : x.seq = closeReq.turnCount
               IN  [msg |-> r.msg, seq |-> r.seq]
    /\ IF confirmedBy = None
         THEN UNCHANGED <<conclusionDigest, approvals>>
         ELSE /\ conclusionDigest' = closeReq.digest
              /\ approvals' = ApprovalsFor(closeReq.digest, savedApprovals)
    /\ UNCHANGED latestReady

\* A retry finds the session already closed by an earlier attempt.
CloseExisting ==
    /\ main = "closing" /\ CloseContextAlive
    /\ MayAttempt(closeReq.tries, CurrentCloseTx)
    /\ CloseValid /\ session.status = "closed"
    /\ CloseDelivered
    /\ UNCHANGED <<lifecycleVars, historyVars, turn, approval, closeReq,
                   envVars, dbVars>>

\* The close transaction commits what it computed from the session it read.
CloseCommit(t) ==
    /\ t.kind = "close"
    /\ session' = [t.snap EXCEPT !.status = "closed", !.reason = closeReason]
    /\ task' = TaskStatusFor(closeReason)
    /\ closedDigest' = closeReq.digest
    /\ txs' = txs \ {t}
    /\ \/ t \in CurrentCloseTx /\ CloseDelivered
       \/ /\ Faults \/ t \notin CurrentCloseTx
          /\ UNCHANGED <<conclusionVars, main>>
    /\ UNCHANGED <<lifecycleVars, historyVars, turn, approval, closeReq,
                   envVars, rows, savedApprovals>>

\* The close activity fails for good: cancelled, exhausted or refused.  The
\* workflow returns its error.
CloseFails ==
    /\ main = "closing"
    /\ \/ ~CloseContextAlive
       \/ AttemptsExhausted(closeReq.tries, CurrentCloseTx)
       \/ MayAttempt(closeReq.tries, CurrentCloseTx) /\ ~CloseValid
    /\ WorkflowEnds("failed")
    /\ UNCHANGED <<wfVars, closeReq, envVars, dbVars>>

CloseFaults ==
    /\ Faults /\ main = "closing"
    /\ WorkflowEnds("failed")
    /\ UNCHANGED <<wfVars, closeReq, envVars, dbVars>>

\* Temporal ends the execution, whatever it is doing: its timeout of 35
\* minutes is longer than any session lifetime.
ExecutionTimeout ==
    /\ Faults /\ ttlElapsed /\ ~Terminal
    /\ WorkflowEnds("failed")
    /\ UNCHANGED <<wfVars, closeReq, envVars, dbVars>>

\* SendDiagnosisRoomCloseNotification returned; a failure is only recorded.
CloseNotified ==
    /\ main = "notifying"
    /\ WorkflowEnds("completed")
    /\ UNCHANGED <<wfVars, closeReq, envVars, dbVars>>

-----------------------------------------------------------------------------
(* Environment: clocks, cancellation, the operator's CloseUnavailable, and  *)
(* the database's resolution of open transactions.                          *)

SessionLifetimeElapses ==
    /\ ~ttlElapsed /\ ~Terminal
    /\ ttlElapsed' = TRUE
    /\ UNCHANGED <<wfVars, coVars, cancelled, idleElapsed, dbVars>>

IdleTimeElapses ==
    /\ ~idleElapsed /\ ~Terminal
    /\ idleElapsed' = TRUE
    /\ UNCHANGED <<wfVars, coVars, cancelled, ttlElapsed, dbVars>>

\* Temporal cancels the workflow execution.
CancelWorkflow ==
    /\ ~cancelled /\ ~Terminal
    /\ cancelled' = TRUE
    /\ UNCHANGED <<wfVars, coVars, ttlElapsed, idleElapsed, dbVars>>

\* CloseUnavailable: the workflow is gone, the session still open and its
\* task not finished.
UnavailableBegin ==
    /\ Terminal /\ session.status = "open" /\ task = "running"
    /\ OpenTx([kind |-> "unavailable", snap |-> session])
    /\ UNCHANGED <<wfVars, coVars, envVars, session, task, rows,
                   savedApprovals, closedDigest>>

\* Mutant: the task is not finished.
UnavailableCommitKeepsTask(t) ==
    /\ t.kind = "unavailable"
    /\ session' = [t.snap EXCEPT !.status = "closed", !.reason = "unavailable"]
    /\ txs' = txs \ {t}
    /\ UNCHANGED <<wfVars, coVars, envVars, task, rows, savedApprovals,
                   closedDigest>>

UnavailableCommit(t) ==
    /\ t.kind = "unavailable"
    /\ session' = [t.snap EXCEPT !.status = "closed", !.reason = "unavailable"]
    /\ task' = "cancelled"
    /\ txs' = txs \ {t}
    /\ UNCHANGED <<wfVars, coVars, envVars, rows, savedApprovals, closedDigest>>

\* A transaction ends without effect: lost, or an approval refused by a unique
\* index.  The activity may try again.
TxAbort(t) ==
    /\ \/ Faults
       \/ t.kind = "approve" /\ ApproveConflicts(t)
    /\ txs' = txs \ {t}
    /\ UNCHANGED <<wfVars, coVars, envVars, session, task, rows,
                   savedApprovals, closedDigest>>

-----------------------------------------------------------------------------
MainStep ==
    \/ EnsureSession \/ EnsureFails
    \/ SessionTimeout \/ IdleTimeout \/ LoopCancelled
    \/ DrainDone \/ DrainCancelled
    \/ CloseBegin \/ CloseExisting \/ CloseFails \/ CloseNotified

TurnStep ==
    \/ \E o \in Output : RunTurnDone(o)
    \/ TurnFails
    \/ PersistBegin \/ PersistExisting \/ PersistReject \/ PersistDelivered
    \/ CollectDone \/ NotifyDone \/ ManualCollectDone

ApprovalStep ==
    ApproveBegin \/ ApproveExisting \/ ApproveFails \/ ApproveDelivered

TxStep(t) ==
    \/ PersistCommit(t) \/ PersistConflict(t) \/ ApproveCommit(t)
    \/ CloseCommit(t) \/ UnavailableCommit(t) \/ TxAbort(t)

FaultStep ==
    \/ TurnFaults \/ ApproveFaults \/ EnsureFaults \/ CloseFaults
    \/ ExecutionTimeout

UserStep ==
    \/ \E m \in Messages : SubmitTurn(m) \/ CollectEvidence(m)
    \/ \E a \in Actors : ConfirmConclusion(a) \/ ConfirmAnswered(a)
    \/ CloseSignal \/ CancelSignal \/ CancelWorkflow \/ UnavailableBegin

Next ==
    \/ MainStep \/ TurnStep \/ ApprovalStep \/ FaultStep \/ UserStep
    \/ \E t \in txs : TxStep(t)
    \/ SessionLifetimeElapses \/ IdleTimeElapses

Spec == Init /\ [][Next]_vars

\* Temporal keeps scheduling runnable coroutines and retries or times out
\* activities, durable timers fire, and PostgreSQL ends every transaction.
\* Nothing is assumed of users, operators and the idle clock, and no progress
\* is owed to a spontaneous failure.
Fairness ==
    /\ WF_vars(MainStep) /\ WF_vars(TurnStep) /\ WF_vars(ApprovalStep)
    /\ WF_vars(\E t \in txs : TxStep(t))
    /\ WF_vars(SessionLifetimeElapses)

FairSpec == Spec /\ Fairness

-----------------------------------------------------------------------------
(* Properties.                                                              *)

\* Whatever attempts, late commits and resubmissions happen, the persisted
\* transcript has one turn per sequence and per message, without gaps and
\* within the turn budget (PersistDiagnosisTurn, ValidateSubmitTurn).
TranscriptWellFormed ==
    /\ \A r, s \in rows : r.seq = s.seq \/ r.msg = s.msg => r = s
    /\ \E n \in 0..MaxTurns : UsedSequences = 1..n

\* The workflow's conversation names the persisted turns in order, and the
\* database is at most one turn ahead of it (a turn whose result was lost):
\* runDiagnosisRoomTurn appends only what was persisted.
ConversationFollowsTranscript ==
    /\ \A i \in 1..Len(conversation) :
          \E r \in rows : r.seq = i /\ r.msg = conversation[i].msg
    /\ \A r \in rows : r.seq <= Len(conversation) + 1

\* While a session is open its turn_count is the number of persisted turns,
\* although RecordTurn increments a value read earlier.
OpenSessionCountsTurns ==
    session.status = "open" => UsedSequences = 1..session.turnCount

\* Every saved approval is for exactly the text of a persisted turn, carries
\* the authority of its actor, and no authority approved a conclusion twice
\* (RecordDiagnosisConclusionApproval).
ApprovalsBindPersistedTurns ==
    /\ \A a \in savedApprovals :
          /\ a.authority = Authority(a.actor)
          /\ \E r \in rows : DigestOf(r) = a.digest
    /\ \A a, b \in savedApprovals :
          a.digest = b.digest /\ a.authority = b.authority => a = b

\* A room closed as confirmed has a saved approval of the confirmed
\* conclusion from every authority its mode requires, the confirming actor's
\* among them (verifyDiagnosisConclusionApproval).
ConfirmedCloseHasQuorum ==
    session.status = "closed" /\ session.reason = "human_confirmed" =>
        LET as == ApprovalsFor(closedDigest, savedApprovals) IN
           /\ \E a \in as : a.actor = confirmedBy
           /\ ApprovalMode = "owner_and_leader" =>
                 \A x \in {"owner", "leader"} : \E a \in as : a.authority = x

\* A closed session's task is finished with the status of its close reason,
\* also when the workflow's close races with CloseUnavailable.
ClosedSessionFinishesTask ==
    session.status = "closed" =>
        task = IF session.reason = "unavailable" THEN "cancelled"
                                                 ELSE TaskStatusFor(session.reason)

\* The conclusion a confirmed room is closed with is the last turn the
\* workflow had applied when it scheduled the close: approvals of a
\* conclusion that a later turn superseded never close the room, although a
\* turn may be accepted while the last approval is recorded
\* (verifyDiagnosisConclusionApproval).
ConfirmedConclusionIsCurrent ==
    session.status = "closed" /\ session.reason = "human_confirmed" =>
        \E r \in rows : /\ DigestOf(r) = closedDigest
                        /\ r.seq = closeReq.turnCount

\* Only a transaction that was begun before the close can still touch a
\* closed room: once none is left, its rows are final (the session status
\* that every activity and CloseUnavailable read first).
SettledRoomIsFinal ==
    [][session.status = "closed" /\ txs = {} => UNCHANGED dbVars]_vars

\* "The diagnosis room is terminal and no more turns may be appended"
\* (ChatSessionStatusClosed, domain/chat.go): a closed session stays closed
\* and keeps its transcript.
ClosedSessionIsFinal ==
    [][session.status = "closed" => session'.status = "closed" /\ UNCHANGED rows]_vars

\* The room's workflow ends: no sequence of accepted updates, failures and
\* retries keeps it running past its session lifetime.
RoomTerminates == <>Terminal

\* An update accepted before the room closes is drained: its handler ends, and
\* not by the return of a workflow that completes (AllHandlersFinished).
AcceptedUpdatesAreDrained ==
    /\ InFlight /\ main \in {"initial", "loop"} ~> ~InFlight /\ main # "completed"
    /\ ApprovalInFlight ~> ~ApprovalInFlight /\ main # "completed"

=============================================================================
