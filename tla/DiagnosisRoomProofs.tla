------------------------ MODULE DiagnosisRoomProofs ------------------------
(* Proofs about DiagnosisRoom for every value of its constants.             *)
EXTENDS DiagnosisRoom, SequenceTheorems, TLAPS

-----------------------------------------------------------------------------
(* Type correctness.  TypeOK is not inductive: a step reads the message and  *)
(* the output of the turn in flight, the persisted row of a turn whose       *)
(* result arrived, and the last row of the transcript a close verified.      *)

FlagsTyped ==
    /\ cancelled \in BOOLEAN /\ ttlElapsed \in BOOLEAN
    /\ idleElapsed \in BOOLEAN /\ latestReady \in BOOLEAN

LifecycleTyped ==
    /\ status \in {"open", "closed"}
    /\ closeReason \in CloseReasons \cup {None}
    /\ confirmedBy \in Actors \cup {None}
    /\ main \in MainPc
    /\ task \in {"none", "running"} \cup TaskTerminal

TurnTyped ==
    /\ turn \in TurnState
    /\ InFlight => turn.msg \in MsgIds
    /\ turn.pc \in {"persist", "persisted", "collect", "notify"} =>
          turn.out \in Output
    /\ turn.pc \in {"persisted", "collect", "notify"} => RowsOf(turn.msg) # {}

HistoryTyped ==
    /\ turnCount \in Nat
    /\ conversation \in Seq([msg : MsgIds, text : Texts])
    /\ seen \subseteq MsgIds
    /\ finalConclusion \in [msg : MsgIds, seq : Nat] \cup {None}

ApprovalTyped ==
    /\ approval \in ApprovalState
    /\ ApprovalInFlight => approval.actor \in Actors /\ approval.digest \in Digest
    /\ conclusionDigest \in Digest \cup {None}
    /\ approvals \subseteq Approval
    /\ savedApprovals \subseteq Approval
    /\ closedDigest \in Digest \cup {None}
    /\ closeReq \in [turnCount : Nat, digest : Digest \cup {None},
                     tries : 0..MaximumAttempts]

DatabaseTyped ==
    /\ session \in Session
    /\ rows \subseteq Row
    /\ txs \subseteq Tx

\* The last turn of the transcript the workflow asked to close is persisted.
CloseBacked ==
    (\E t \in txs : t.kind = "close") =>
        /\ main \in {"closing", "notifying", "completed", "failed"}
        /\ \/ closeReq.turnCount = 0
           \/ \E r \in rows : r.seq = closeReq.turnCount

\* The initial turn runs before the main loop.
InitialTurnHeld == InFlight /\ turn.kind = "initial" => main = "initial"

TypeInv ==
    /\ FlagsTyped /\ LifecycleTyped /\ TurnTyped /\ HistoryTyped
    /\ ApprovalTyped /\ DatabaseTyped /\ CloseBacked /\ InitialTurnHeld

\* The numeric assumptions, apart from the others.
LEMMA Bounds ==
    /\ MaximumAttempts \in Nat /\ 0 < MaximumAttempts
    /\ MaxTurns \in Nat /\ 0 < MaxTurns
    /\ MaxAutoEvidenceFollowUps \in Nat
<1>1. /\ MaximumAttempts \in Nat \ {0}
      /\ MaxTurns \in Nat \ {0}
      /\ MaxAutoEvidenceFollowUps \in Nat
    BY RoomAssumption, Zenon DEF RoomAssumption
<1> QED BY <1>1

LEMMA FirstMsgIds == \A m \in Messages : <<m, 0>> \in MsgIds
<1>1. 0 \in 0..MaxAutoEvidenceFollowUps
    BY Bounds
<1> QED BY <1>1 DEF MsgIds

LEMMA FollowUpMsgIds ==
    ASSUME NEW m \in MsgIds, m[2] + 1 <= MaxAutoEvidenceFollowUps
    PROVE  NextFollowUp(m) \in MsgIds
<1>1. m[1] \in Messages /\ m[2] \in 0..MaxAutoEvidenceFollowUps
    BY DEF MsgIds
<1>2. m[2] + 1 \in 0..MaxAutoEvidenceFollowUps
    BY <1>1, Bounds
<1> QED BY <1>1, <1>2 DEF MsgIds, NextFollowUp

LEMMA StartTurnTyped ==
    ASSUME NEW k \in {"initial", "submit", "collect"},
           NEW m \in MsgIds, NEW n \in Nat
    PROVE  StartTurn(k, m, n) \in TurnState
<1>1. 0 \in 0..MaximumAttempts
    BY Bounds
<1> QED BY <1>1 DEF StartTurn, TurnState

LEMMA IdleTyped ==
    /\ IdleTurn \in TurnState
    /\ IdleApproval \in ApprovalState
<1>1. 0 \in 0..MaximumAttempts
    BY Bounds
<1> QED BY <1>1 DEF IdleTurn, TurnState, IdleApproval, ApprovalState


LEMMA TypeInvImpliesTypeOK == TypeInv => TypeOK
BY DEF TypeInv, TypeOK, FlagsTyped, LifecycleTyped, TurnTyped, HistoryTyped,
       ApprovalTyped, DatabaseTyped

-----------------------------------------------------------------------------
(* Which steps write a variable.                                            *)

USE DEF Next, MainStep, TurnStep, ApprovalStep, FaultStep, UserStep, TxStep,
       EnsureSession, EnsureFails, EnsureFaults, EnsureEndsInError,
       SessionTimeout, IdleTimeout, LoopCancelled, CloseSignal, CancelSignal,
       CloseFromLoop, DrainDone, DrainCancelled, WorkflowEnds, CloseBegin,
       CloseExisting, CloseDelivered, CloseFails, CloseFaults, ExecutionTimeout,
       CloseNotified,
       SubmitTurn, RunTurnDone, EndTurnWithError, TurnFails, TurnFaults,
       PersistBegin, PersistExisting, PersistReject, PersistDelivered,
       PersistCommit, PersistConflict, ApplyTurn, CollectDone, NotifyDone,
       FinishTurn, CollectEvidence, ManualCollectDone, ConfirmAnswered,
       ConfirmConclusion, ApproveBegin, ApproveExisting, ApproveFails,
       ApproveFaults, ApproveCommit, ApproveDelivered, CloseCommit,
       UnavailableBegin, UnavailableCommit, TxAbort, OpenTx,
       SessionLifetimeElapses, IdleTimeElapses, CancelWorkflow, vars, wfVars,
       lifecycleVars, historyVars, conclusionVars, coVars, envVars, dbVars

LEMMA RowsWriters ==
    [Next]_vars => UNCHANGED rows \/ \E t \in txs : PersistCommit(t)
BY Zenon

LEMMA TxsWriters ==
    [Next]_vars =>
       \/ UNCHANGED txs
       \/ PersistBegin \/ ApproveBegin \/ CloseBegin \/ UnavailableBegin
       \/ \E t \in txs : txs' = txs \ {t}
BY Zenon

LEMMA ConversationWriters == [Next]_vars => UNCHANGED conversation \/ NotifyDone
BY Zenon

LEMMA TurnCountWriters ==
    [Next]_vars =>
       \/ UNCHANGED turnCount
       \/ PersistDelivered /\ ApplyTurn(FALSE)
       \/ CollectDone
BY Zenon

LEMMA SeenWriters ==
    [Next]_vars => UNCHANGED seen \/ NotifyDone \/ ManualCollectDone
BY Zenon

\* A step that ends a turn without telling the conversation is an error of
\* the turn or the end of the workflow.
LEMMA TurnWriters ==
    [Next]_vars =>
       \/ UNCHANGED <<turn, historyVars>>
       \/ turn' = IdleTurn /\ UNCHANGED historyVars /\ (turn.pc = "notify" => Terminal')
       \/ EnsureSession
       \/ \E m \in Messages : SubmitTurn(m) \/ CollectEvidence(m)
       \/ \E o \in Output : RunTurnDone(o)
       \/ PersistBegin \/ PersistExisting \/ PersistDelivered
       \/ CollectDone \/ NotifyDone \/ ManualCollectDone
       \/ \E t \in txs : /\ PersistCommit(t) \/ PersistConflict(t)
                         /\ t \in CurrentPersistTx
                         /\ turn' = [turn EXCEPT !.pc = "persisted"]
                         /\ UNCHANGED historyVars
<1>1. AwaitsActivity \/ turn.pc = "persist" => turn.pc # "notify"
    BY DEF AwaitsActivity
<1>2. \A t \in CurrentPersistTx : turn.pc = "persist"
    BY DEF CurrentPersistTx
<1>3. main' \in {"completed", "failed"} => Terminal'
    BY DEF Terminal
<1>4. turn = IdleTurn => turn.pc # "notify"
    BY DEF IdleTurn
<1> QED BY <1>1, <1>2, <1>3, <1>4, Zenon

LEMMA ApprovalWriters ==
    [Next]_vars =>
       \/ UNCHANGED approval
       \/ approval' = IdleApproval
       \/ \E a \in Actors : ConfirmConclusion(a)
       \/ ApproveBegin
       \/ ApprovalInFlight /\ approval' = [approval EXCEPT !.pc = "recorded"]
<1>1. approval.pc = "record" => ApprovalInFlight
    BY DEF ApprovalInFlight
<1> QED BY <1>1, Zenon DEF CurrentApproveTx

LEMMA SessionWriters ==
    [Next]_vars =>
       \/ UNCHANGED session
       \/ main = "ensure" /\ main' # "ensure" /\ session' = NewSession
       \/ \E t \in txs : PersistCommit(t) \/ CloseCommit(t) \/ UnavailableCommit(t)
BY Zenon
LEMMA TaskWriters ==
    [Next]_vars =>
       \/ UNCHANGED task
       \/ main = "ensure"
       \/ \E t \in txs : CloseCommit(t) \/ UnavailableCommit(t)
BY Zenon

\* The first close decides.
LEMMA LifecycleWriters ==
    ASSUME LifecycleTyped, [Next]_vars
    PROVE  /\ status = "closed" => UNCHANGED lifecycleVars
           /\ \/ UNCHANGED lifecycleVars
              \/ /\ status' = "closed"
                 /\ closeReason' \notin {"human_confirmed", "unavailable"}
              \/ /\ ApproveDelivered /\ status' = "closed"
                 /\ confirmedBy' = approval.actor /\ closeReason' = "human_confirmed"
<1> DEFINE Others == CloseReasons \ {"human_confirmed", "unavailable"}
<1>1. status = "open" \/ status = "closed"
    BY DEF LifecycleTyped
<1>2. \A r : CloseRoom(r) => /\ status' = "closed"
                             /\ status = "closed" => closeReason' = closeReason
                             /\ status = "open" => closeReason' = r
    BY DEF CloseRoom
<1>3. /\ "initial_turn_failed" \in Others /\ "user_requested" \in Others
      /\ "cancelled" \in Others /\ "session_timeout" \in Others
      /\ "idle_timeout" \in Others /\ "context_cancelled" \in Others
      /\ "open" # "closed"
    BY DEF CloseReasons
<1>4. \A r \in Others : r \notin {"human_confirmed", "unavailable"}
    OBVIOUS
<1> HIDE DEF Others
<1> DEFINE Goal == \/ UNCHANGED lifecycleVars
                   \/ UNCHANGED confirmedBy /\ \E r \in Others : CloseRoom(r)
                   \/ /\ ApproveDelivered /\ status = "open"
                      /\ confirmedBy' = approval.actor
                      /\ CloseRoom("human_confirmed")
<1>5. Goal
  <2>1. CASE EnsureSession
      BY <1>3, <2>1, Zenon
  <2>2. CASE EndTurnWithError
      BY <1>3, <2>2, Zenon
  <2>3. CASE \E r \in Others : CloseFromLoop(r)
      BY <2>3, Zenon
  <2>4. CASE ApproveDelivered
    <3>1. \/ UNCHANGED lifecycleVars
          \/ /\ status = "open" /\ confirmedBy' = approval.actor
             /\ CloseRoom("human_confirmed")
        BY <2>4, Zenon
    <3> HIDE DEF ApproveDelivered, lifecycleVars
    <3> QED BY <2>4, <3>1, Zenon
  <2>5. CASE UNCHANGED lifecycleVars
      BY <2>5, Zenon
  <2>6. \/ EnsureSession \/ EndTurnWithError \/ ApproveDelivered
        \/ \E r \in Others : CloseFromLoop(r)
        \/ UNCHANGED lifecycleVars
    <3>1. CASE MainStep
        BY <1>3, <3>1, Zenon
    <3>2. CASE TurnStep
        BY <3>2, Zenon
    <3>3. CASE ApprovalStep
        BY <3>3, Zenon
    <3>4. CASE FaultStep
        BY <3>4, Zenon
    <3>5. CASE UserStep
        BY <1>3, <3>5, Zenon
    <3>6. CASE \E t \in txs : TxStep(t)
        BY <3>6, Zenon
    <3>7. CASE SessionLifetimeElapses \/ IdleTimeElapses \/ UNCHANGED vars
        BY <3>7, Zenon
    <3> QED BY <3>1, <3>2, <3>3, <3>4, <3>5, <3>6, <3>7, ZenonT(60)
  <2> HIDE DEF Goal, EnsureSession, EndTurnWithError, ApproveDelivered,
               CloseFromLoop, lifecycleVars
  <2> QED BY <2>1, <2>2, <2>3, <2>4, <2>5, <2>6, Zenon
<1>6. CASE UNCHANGED confirmedBy /\ \E r \in Others : CloseRoom(r)
    BY <1>1, <1>2, <1>3, <1>4, <1>6, Zenon
<1> QED BY <1>1, <1>2, <1>3, <1>5, <1>6, Zenon

LEMMA ConclusionWriters ==
    [Next]_vars =>
       \/ UNCHANGED <<finalConclusion, conclusionDigest, approvals>>
       \/ PersistDelivered /\ ApplyTurn(FALSE)
       \/ CollectDone
       \/ ApproveDelivered
       \/ CloseExisting
       \/ \E t \in txs : CloseCommit(t) /\ t \in CurrentCloseTx /\ CloseDelivered
BY Zenon

LEMMA CloseReqWriters ==
    [Next]_vars => UNCHANGED closeReq \/ DrainDone \/ CloseBegin
BY Zenon

LEMMA SavedApprovalsWriters ==
    [Next]_vars => UNCHANGED savedApprovals \/ \E t \in txs : ApproveCommit(t)
BY Zenon

LEMMA ClosedDigestWriters ==
    [Next]_vars => UNCHANGED closedDigest \/ \E t \in txs : CloseCommit(t)
BY Zenon

\* The phases of the main coroutine.
LEMMA MainWriters ==
    [Next]_vars =>
       \/ UNCHANGED main
       \/ EnsureSession
       \/ ~Terminal /\ main' = "failed" /\ turn' = IdleTurn
       \/ InFlight /\ turn.kind = "initial" /\ main' = "loop" /\ turn' = IdleTurn
       \/ main = "loop" /\ main' = "closing" /\ UNCHANGED turn /\ status = "closed"
       \/ main = "closing" /\ main' = "notifying" /\ UNCHANGED turn
       \/ main = "notifying" /\ main' = "completed" /\ turn' = IdleTurn
<1>1. turn.pc \in {"run", "persist", "persisted", "collect", "manual", "notify"}
         => InFlight
    BY DEF InFlight
<1>2. main \in {"ensure", "loop", "closing"} => ~Terminal
    BY DEF Terminal
<1> QED BY <1>1, <1>2, Zenon DEF AwaitsActivity, CurrentPersistTx, CurrentCloseTx

LEMMA CloseRoomTyped ==
    ASSUME FlagsTyped, LifecycleTyped, NEW r \in CloseReasons, CloseRoom(r)
    PROVE  /\ idleElapsed' \in BOOLEAN
           /\ status' \in {"open", "closed"}
           /\ closeReason' \in CloseReasons \cup {None}
BY Zenon DEF FlagsTyped, LifecycleTyped, CloseRoom

LEMMA FlagsNext == TypeInv /\ [Next]_vars => FlagsTyped'
<1> SUFFICES ASSUME FlagsTyped, LifecycleTyped, TurnTyped, [Next]_vars PROVE FlagsTyped'
    BY DEF TypeInv
<1> USE DEF FlagsTyped
<1>0. \A r \in CloseReasons : CloseRoom(r) => idleElapsed' \in BOOLEAN
    BY CloseRoomTyped
<1>r. /\ "initial_turn_failed" \in CloseReasons /\ "human_confirmed" \in CloseReasons
      /\ "user_requested" \in CloseReasons /\ "cancelled" \in CloseReasons
      /\ "session_timeout" \in CloseReasons /\ "idle_timeout" \in CloseReasons
      /\ "context_cancelled" \in CloseReasons
    BY DEF CloseReasons
<1>1. NotifyDone => turn.out.ready \in BOOLEAN
    BY DEF TurnTyped, Output
<1>2. cancelled' \in BOOLEAN /\ ttlElapsed' \in BOOLEAN
    BY ZenonT(60)
<1>3. latestReady' \in BOOLEAN
    BY <1>1, Zenon
<1>4. idleElapsed' \in BOOLEAN
    BY <1>0, <1>r, Zenon
<1> QED BY <1>2, <1>3, <1>4

LEMMA LifecycleNext == TypeInv /\ [Next]_vars => LifecycleTyped'
<1> SUFFICES ASSUME FlagsTyped, LifecycleTyped, ApprovalTyped, [Next]_vars PROVE LifecycleTyped'
    BY DEF TypeInv
<1> USE DEF LifecycleTyped
<1>0. \A r \in CloseReasons : CloseRoom(r) => /\ status' \in {"open", "closed"} 
                                   /\ closeReason' \in CloseReasons \cup {None}
    BY CloseRoomTyped
<1>r. /\ "initial_turn_failed" \in CloseReasons /\ "human_confirmed" \in CloseReasons
      /\ "user_requested" \in CloseReasons /\ "cancelled" \in CloseReasons
      /\ "session_timeout" \in CloseReasons /\ "idle_timeout" \in CloseReasons
      /\ "context_cancelled" \in CloseReasons
    BY DEF CloseReasons
<1>1. status' \in {"open", "closed"} /\ closeReason' \in CloseReasons \cup {None}
    BY <1>0, <1>r, Zenon
<1>2. confirmedBy' \in Actors \cup {None}
  <2>1. approval.pc = "recorded" => approval.actor \in Actors
      BY DEF ApprovalTyped, ApprovalInFlight
  <2> QED BY <2>1, Zenon
<1>3. main' \in MainPc
    BY ZenonT(60) DEF MainPc
<1>4. task' \in {"none", "running"} \cup TaskTerminal
    BY ZenonT(60) DEF TaskTerminal, TaskStatusFor
<1> QED BY <1>1, <1>2, <1>3, <1>4

HIDE DEF Next, MainStep, TurnStep, ApprovalStep, FaultStep, UserStep, TxStep,
       EnsureSession, EnsureFails, EnsureFaults, EnsureEndsInError,
       SessionTimeout, IdleTimeout, LoopCancelled, CloseSignal, CancelSignal,
       CloseFromLoop, DrainDone, DrainCancelled, WorkflowEnds, CloseBegin,
       CloseExisting, CloseDelivered, CloseFails, CloseFaults, ExecutionTimeout,
       CloseNotified,
       SubmitTurn, RunTurnDone, EndTurnWithError, TurnFails, TurnFaults,
       PersistBegin, PersistExisting, PersistReject, PersistDelivered,
       PersistCommit, PersistConflict, ApplyTurn, CollectDone, NotifyDone,
       FinishTurn, CollectEvidence, ManualCollectDone, ConfirmAnswered,
       ConfirmConclusion, ApproveBegin, ApproveExisting, ApproveFails,
       ApproveFaults, ApproveCommit, ApproveDelivered, CloseCommit,
       UnavailableBegin, UnavailableCommit, TxAbort, OpenTx,
       SessionLifetimeElapses, IdleTimeElapses, CancelWorkflow, vars, wfVars,
       lifecycleVars, historyVars, conclusionVars, coVars, envVars, dbVars

LEMMA TypeInvInit == Init => TypeInv
<1> SUFFICES ASSUME Init PROVE TypeInv
    OBVIOUS
<1>1. FlagsTyped /\ LifecycleTyped
    BY Zenon DEF Init, FlagsTyped, LifecycleTyped, MainPc
<1>2. TurnTyped
    BY IdleTyped DEF Init, TurnTyped, InFlight, IdleTurn
<1>3. HistoryTyped
    BY DEF Init, HistoryTyped
<1>4. closeReq \in [turnCount : Nat, digest : Digest \cup {None},
                    tries : 0..MaximumAttempts]
    BY Bounds DEF Init, NoCloseReq
<1>5. ApprovalTyped
    BY <1>4, IdleTyped DEF Init, ApprovalTyped, ApprovalInFlight, IdleApproval
<1>6. DatabaseTyped /\ CloseBacked /\ InitialTurnHeld
    BY DEF Init, DatabaseTyped, Session, CloseBacked, InitialTurnHeld, InFlight,
           IdleTurn
<1> QED BY <1>1, <1>2, <1>3, <1>5, <1>6 DEF TypeInv


LEMMA TurnNext == TypeInv /\ [Next]_vars => TurnTyped'
<1> SUFFICES ASSUME TurnTyped, HistoryTyped, DatabaseTyped, [Next]_vars
             PROVE  TurnTyped'
    BY DEF TypeInv
<1> USE DEF InFlight, RowsOf
<1>r. rows \subseteq rows'
    BY RowsWriters, Zenon DEF PersistCommit
<1>1. CASE UNCHANGED turn
    BY <1>1, <1>r DEF TurnTyped
<1>2. CASE turn' = IdleTurn
    BY <1>2, IdleTyped DEF TurnTyped, IdleTurn
<1>3. ASSUME NEW k \in {"initial", "submit", "collect"}, NEW m \in MsgIds,
             NEW n \in Nat, turn' = StartTurn(k, m, n)
      PROVE  TurnTyped'
    BY <1>3, StartTurnTyped DEF TurnTyped, StartTurn
<1>h. Len(conversation) \in Nat
    BY DEF HistoryTyped
<1>4. CASE EnsureSession
  <2>1. InitialTurn # None => <<InitialTurn, 0>> \in MsgIds
      BY FirstMsgIds, RoomAssumption DEF RoomAssumption
  <2> QED BY <1>1, <1>3, <1>4, <2>1 DEF EnsureSession
<1>5. ASSUME NEW m \in Messages, SubmitTurn(m) PROVE TurnTyped'
    BY <1>3, <1>5, FirstMsgIds, <1>h DEF SubmitTurn
<1>6. ASSUME NEW m \in Messages, CollectEvidence(m) PROVE TurnTyped'
  <2>1. StartTurn("collect", <<m, 0>>, 0) \in TurnState
      BY FirstMsgIds, StartTurnTyped
  <2> QED BY <1>6, FirstMsgIds, <2>1 DEF CollectEvidence, TurnTyped, TurnState, StartTurn
<1>7. ASSUME NEW o \in Output, RunTurnDone(o) PROVE TurnTyped'
    BY <1>7 DEF RunTurnDone, TurnTyped, TurnState
<1>8. CASE PersistBegin
  <2>1. turn.tries + 1 \in 0..MaximumAttempts
      BY <1>8, Bounds DEF PersistBegin, MayAttempt, TurnTyped, TurnState
  <2> QED BY <1>8, <1>r, <2>1 DEF PersistBegin, TurnTyped, TurnState
<1>9. CASE PersistExisting
    BY <1>9, <1>r DEF PersistExisting, TurnTyped, TurnState
<1>10. ASSUME NEW t \in txs, PersistCommit(t) \/ PersistConflict(t),
              t \in CurrentPersistTx, turn' = [turn EXCEPT !.pc = "persisted"]
       PROVE  TurnTyped'
  <2>1. turn.pc = "persist" /\ t.msg = turn.msg
      BY <1>10 DEF CurrentPersistTx
  <2>2. RowsOf(turn.msg)' # {}
      BY <1>10, <2>1, IdleTyped, ZenonT(60) DEF PersistCommit, PersistConflict, EndTurnWithError, IdleTurn, TurnTyped, TurnState
  <2> QED BY <1>10, <2>1, <2>2 DEF TurnTyped, TurnState
<1>11. CASE PersistDelivered
    BY <1>11, <1>r, ZenonT(60) DEF PersistDelivered, ApplyTurn, TurnTyped, TurnState
<1>12. CASE CollectDone
    BY <1>12, <1>r DEF CollectDone, ApplyTurn, TurnTyped, TurnState
<1>13. CASE NotifyDone
    BY <1>2, <1>3, <1>13, FollowUpMsgIds, <1>h, SMTT(60)
       DEF NotifyDone, FinishTurn, FollowUpAllowed, NextFollowUp, TurnTyped, TurnState
<1>14. CASE ManualCollectDone
    BY <1>2, <1>3, <1>14, FollowUpMsgIds, <1>h
       DEF ManualCollectDone, FollowUpAllowed, NextFollowUp, TurnTyped, TurnState
<1> QED BY <1>1, <1>2, <1>4, <1>5, <1>6, <1>7, <1>8, <1>9, <1>10, <1>11,
           <1>12, <1>13, <1>14, TurnWriters

LEMMA InitialTurnNext == TypeInv /\ [Next]_vars => InitialTurnHeld'
<1> SUFFICES ASSUME TurnTyped, InitialTurnHeld, [Next]_vars,
                    InFlight', turn'.kind = "initial"
             PROVE  main' = "initial"
    BY DEF TypeInv, InitialTurnHeld
<1>1. turn' # IdleTurn
    BY DEF InFlight, IdleTurn
<1>2. CASE EnsureSession
    BY <1>2, <1>1 DEF EnsureSession, InitialTurnHeld, InFlight
<1>3. CASE ~EnsureSession
  <2>1. \/ UNCHANGED turn
        \/ InFlight /\ turn'.kind = turn.kind
        \/ turn'.kind \in {"submit", "collect"}
    <3>1. \A k, m, n : StartTurn(k, m, n).kind = k
        BY DEF StartTurn
    <3>2. ASSUME NEW m \in Messages, SubmitTurn(m) \/ CollectEvidence(m)
          PROVE  turn'.kind \in {"submit", "collect"}
      <4>1. CASE SubmitTurn(m)
          BY <4>1, <3>1 DEF SubmitTurn
      <4>2. CASE CollectEvidence(m)
          BY <4>2, <3>1 DEF CollectEvidence, StartTurn
      <4> QED BY <3>2, <4>1, <4>2
    <3>3. ASSUME NEW o \in Output, RunTurnDone(o)
          PROVE  InFlight /\ turn'.kind = turn.kind
        BY <3>3 DEF RunTurnDone, InFlight, TurnTyped, TurnState
    <3>4. CASE PersistBegin \/ PersistExisting
        BY <3>4 DEF PersistBegin, PersistExisting, InFlight, TurnTyped, TurnState
    <3>5. ASSUME NEW c, InFlight, ApplyTurn(c)
          PROVE  InFlight /\ turn'.kind = turn.kind
        BY <3>5 DEF ApplyTurn, TurnTyped, TurnState
    <3>6. CASE PersistDelivered
        BY <3>5, <3>6 DEF PersistDelivered, InFlight, TurnTyped, TurnState
    <3>7. CASE CollectDone
        BY <3>5, <3>7 DEF CollectDone, InFlight
    <3>8. CASE NotifyDone
        BY <1>1, <3>1, <3>8 DEF NotifyDone, FinishTurn, InFlight
    <3>9. CASE ManualCollectDone
        BY <1>1, <3>1, <3>9 DEF ManualCollectDone, InFlight
    <3>10. ASSUME NEW t \in txs, t \in CurrentPersistTx,
                  turn' = [turn EXCEPT !.pc = "persisted"]
           PROVE  InFlight /\ turn'.kind = turn.kind
        BY <3>10 DEF CurrentPersistTx, InFlight, TurnTyped, TurnState
    <3> QED BY <1>1, <1>3, <3>2, <3>3, <3>4, <3>6, <3>7, <3>8, <3>9, <3>10,
               TurnWriters
  <2>2. InFlight /\ turn.kind = "initial"
      BY <2>1 DEF InFlight
  <2> QED BY <2>2, <1>1, <1>3, MainWriters, Zenon DEF InitialTurnHeld
<1> QED BY <1>2, <1>3

LEMMA HistoryNext == TypeInv /\ [Next]_vars => HistoryTyped'
<1> SUFFICES ASSUME HistoryTyped, TurnTyped, DatabaseTyped, ApprovalTyped,
                    CloseBacked, [Next]_vars
             PROVE  HistoryTyped'
    BY DEF TypeInv
<1> USE DEF HistoryTyped
<1>1. turnCount' \in Nat
  <2>1. turnCount' = turnCount \/ turnCount' = turnCount + 1
      BY TurnCountWriters, Zenon DEF ApplyTurn, CollectDone
  <2> QED BY <2>1
<1>2. conversation' \in Seq([msg : MsgIds, text : Texts])
  <2>1. CASE NotifyDone
    <3>1. [msg |-> turn.msg, text |-> turn.out.text] \in [msg : MsgIds, text : Texts]
        BY <2>1 DEF NotifyDone, TurnTyped, InFlight, Output
    <3> QED BY <2>1, <3>1, AppendProperties DEF NotifyDone
  <2> QED BY <2>1, ConversationWriters
<1>3. seen' \subseteq MsgIds
  <2>1. NotifyDone \/ ManualCollectDone => seen' = seen \cup {turn.msg}
      BY DEF NotifyDone, ManualCollectDone
  <2>2. NotifyDone \/ ManualCollectDone => turn.msg \in MsgIds
      BY DEF NotifyDone, ManualCollectDone, TurnTyped, InFlight
  <2> QED BY <2>1, <2>2, SeenWriters
<1>4. finalConclusion' \in [msg : MsgIds, seq : Nat] \cup {None}
  <2> DEFINE applied == CHOOSE r \in RowsOf(turn.msg) : TRUE
  <2>1. ASSUME turn.pc \in {"persisted", "collect"},
               finalConclusion' = IF turn.out.ready
                                    THEN [msg |-> turn.msg, seq |-> applied.seq]
                                    ELSE None
        PROVE  finalConclusion' \in [msg : MsgIds, seq : Nat] \cup {None}
    <3>1. turn.msg \in MsgIds /\ RowsOf(turn.msg) # {} /\ RowsOf(turn.msg) \subseteq Row
        BY <2>1 DEF TurnTyped, InFlight, RowsOf, DatabaseTyped
    <3>2. applied \in Row
        BY <3>1
    <3>3. applied.seq \in Nat
        BY <3>2 DEF Row
    <3> HIDE DEF applied
    <3> QED BY <2>1, <3>1, <3>3
  <2>2. ASSUME closeReq.turnCount = 0
               \/ \E r \in rows : r.seq = closeReq.turnCount,
               CloseDelivered
        PROVE  finalConclusion' \in [msg : MsgIds, seq : Nat] \cup {None}
    <3> DEFINE last == CHOOSE x \in rows : x.seq = closeReq.turnCount
    <3>1. closeReq.turnCount # 0 => last \in Row
        BY <2>2 DEF DatabaseTyped
    <3>2. closeReq.turnCount # 0 => last.msg \in MsgIds /\ last.seq \in Nat
        BY <3>1 DEF Row
    <3> QED BY <2>2, <3>2 DEF CloseDelivered
  <2>3. CloseExisting => closeReq.turnCount = 0
                         \/ \E r \in rows : r.seq = closeReq.turnCount
    <3>1. CloseExisting => UsedSequences = 1..closeReq.turnCount
        BY DEF CloseExisting, CloseValid
    <3>2. closeReq.turnCount \in Nat
        BY DEF ApprovalTyped
    <3> QED BY <3>1, <3>2 DEF UsedSequences
  <2>4. CASE \E t \in txs : t.kind = "close" /\ CloseDelivered
      BY <2>2, <2>4 DEF CloseBacked
  <2>5. CASE CloseExisting
      BY <2>2, <2>3, <2>5 DEF CloseExisting
  <2>6. CASE CollectDone
      BY <2>1, <2>6, Zenon DEF CollectDone, ApplyTurn
  <2>7. CASE PersistDelivered /\ ApplyTurn(FALSE)
      BY <2>1, <2>7, Zenon DEF PersistDelivered, ApplyTurn
  <2>8. CASE UNCHANGED finalConclusion
      BY <2>8
  <2>9. ApproveDelivered => UNCHANGED finalConclusion
      BY Zenon DEF ApproveDelivered
  <2>10. \A t : CloseCommit(t) => t.kind = "close"
      BY Zenon DEF CloseCommit
  <2> HIDE DEF HistoryTyped
  <2> QED BY <2>4, <2>5, <2>6, <2>7, <2>8, <2>9, <2>10, ConclusionWriters, Zenon
<1> QED BY <1>1, <1>2, <1>3, <1>4

LEMMA ApprovalNext == TypeInv /\ [Next]_vars => ApprovalTyped'
<1> SUFFICES ASSUME HistoryTyped, ApprovalTyped, DatabaseTyped, [Next]_vars
             PROVE  ApprovalTyped'
    BY DEF TypeInv
<1> USE DEF ApprovalTyped
<1>1. /\ approval' \in ApprovalState
      /\ ApprovalInFlight' => approval'.actor \in Actors /\ approval'.digest \in Digest
  <2> DEFINE Held == /\ approval' \in ApprovalState
                     /\ ApprovalInFlight' =>
                           approval'.actor \in Actors /\ approval'.digest \in Digest
  <2>1. ASSUME NEW a \in Actors, ConfirmConclusion(a) PROVE Held
    <3>1. finalConclusion \in [msg : MsgIds, seq : Nat]
          /\ finalConclusion.seq \in 1..Len(conversation)
        BY <2>1 DEF ConfirmConclusion, HasConclusionIdentity, HistoryTyped
    <3>2. conversation[finalConclusion.seq] \in [msg : MsgIds, text : Texts]
        BY <3>1, ElementOfSeq DEF HistoryTyped
    <3>3. ConclusionIdentity \in Digest
        BY <3>1, <3>2 DEF ConclusionIdentity, Digest
    <3>4. 0 \in 0..MaximumAttempts
        BY Bounds
    <3>5. approval' = [pc |-> "record", actor |-> a,
                       digest |-> ConclusionIdentity, tries |-> 0]
        BY <2>1, Zenon DEF ConfirmConclusion
    <3> QED BY <3>3, <3>4, <3>5 DEF ApprovalState
  <2>2. CASE ApproveBegin
    <3>1. approval.tries + 1 \in 0..MaximumAttempts
        BY <2>2, Bounds DEF ApproveBegin, MayAttempt, ApprovalState
    <3>2. approval.pc = "record" /\ approval' = [approval EXCEPT !.tries = @ + 1]
        BY <2>2, Zenon DEF ApproveBegin
    <3> QED BY <3>1, <3>2 DEF ApprovalState, ApprovalInFlight
  <2>3. CASE approval' = IdleApproval
      BY <2>3, IdleTyped DEF IdleApproval, ApprovalInFlight
  <2>4. CASE ApprovalInFlight /\ approval' = [approval EXCEPT !.pc = "recorded"]
      BY <2>4 DEF ApprovalState, ApprovalInFlight
  <2>5. CASE UNCHANGED approval
      BY <2>5 DEF ApprovalInFlight
  <2> QED BY <2>1, <2>2, <2>3, <2>4, <2>5, ApprovalWriters
<1>2. conclusionDigest' \in Digest \cup {None} /\ approvals' \subseteq Approval
  <2> DEFINE Goal == conclusionDigest' \in Digest \cup {None}
                     /\ approvals' \subseteq Approval
  <2>1. ASSUME NEW c, ApplyTurn(c) PROVE Goal
      BY <2>1, Zenon DEF ApplyTurn
  <2>2. CASE ApproveDelivered
    <3>1. NewApproval(approval.actor, approval.digest) \in Approval
          /\ approval.digest \in Digest
        BY <2>2 DEF ApproveDelivered, ApprovalInFlight, NewApproval, Authority,
                    Approval
    <3>2. /\ conclusionDigest' = approval.digest
          /\ approvals' = approvals \cup {NewApproval(approval.actor, approval.digest)}
        BY <2>2, Zenon DEF ApproveDelivered
    <3> QED BY <3>1, <3>2
  <2>3. CASE CloseDelivered
    <3>1. closeReq.digest \in Digest \cup {None}
        OBVIOUS
    <3>2. \/ UNCHANGED <<conclusionDigest, approvals>>
          \/ /\ conclusionDigest' = closeReq.digest
             /\ approvals' = ApprovalsFor(closeReq.digest, savedApprovals)
        BY <2>3, Zenon DEF CloseDelivered
    <3> QED BY <3>1, <3>2 DEF ApprovalsFor
  <2> QED BY <2>1, <2>2, <2>3, ConclusionWriters, Zenon DEF CollectDone, CloseExisting
<1>3. savedApprovals' \subseteq Approval
  <2>1. ASSUME NEW t \in txs, ApproveCommit(t) PROVE savedApprovals' \subseteq Approval
    <3>1. t.kind = "approve"
          /\ savedApprovals' = savedApprovals \cup {NewApproval(t.actor, t.digest)}
        BY <2>1, Zenon DEF ApproveCommit
    <3>2. t \in ApproveTx
        BY <3>1 DEF DatabaseTyped, Tx, PersistTx, CloseTx, ApproveTx
    <3>3. NewApproval(t.actor, t.digest) \in Approval
        BY <3>2 DEF ApproveTx, NewApproval, Authority, Approval
    <3> QED BY <3>1, <3>3
  <2> QED BY <2>1, SavedApprovalsWriters
<1>4. closedDigest' \in Digest \cup {None}
  <2>1. closedDigest' \in {closedDigest, closeReq.digest}
      BY ClosedDigestWriters, Zenon DEF CloseCommit
  <2> QED BY <2>1
<1>5. closeReq' \in [turnCount : Nat, digest : Digest \cup {None},
                     tries : 0..MaximumAttempts]
  <2>1. CASE DrainDone
    <3>1. 0 \in 0..MaximumAttempts
        BY Bounds
    <3>2. \E d \in Digest \cup {None} :
             closeReq' = [turnCount |-> turnCount, tries |-> 0, digest |-> d]
        BY <2>1 DEF DrainDone
    <3> QED BY <3>1, <3>2 DEF HistoryTyped
  <2>2. CASE CloseBegin
    <3>1. closeReq.tries + 1 \in 0..MaximumAttempts
        BY <2>2, Bounds DEF CloseBegin, MayAttempt
    <3>2. closeReq' = [closeReq EXCEPT !.tries = @ + 1]
        BY <2>2, Zenon DEF CloseBegin
    <3> QED BY <3>1, <3>2
  <2> QED BY <2>1, <2>2, CloseReqWriters
<1> QED BY <1>1, <1>2, <1>3, <1>4, <1>5

LEMMA DatabaseNext == TypeInv /\ [Next]_vars => DatabaseTyped'
<1> SUFFICES ASSUME LifecycleTyped, TurnTyped, ApprovalTyped, DatabaseTyped,
                    [Next]_vars
             PROVE  DatabaseTyped'
    BY DEF TypeInv
<1> USE DEF DatabaseTyped
<1>1. ASSUME NEW t \in txs, t.kind = "persist" PROVE t \in PersistTx
    BY <1>1 DEF Tx, PersistTx, CloseTx, ApproveTx
<1>2. ASSUME NEW t \in txs, t.kind \in {"close", "unavailable"} PROVE t \in CloseTx
    BY <1>2 DEF Tx, PersistTx, CloseTx, ApproveTx
<1>3. session' \in Session
  <2>1. CASE session' = NewSession
      BY <2>1 DEF NewSession, Session
  <2>2. ASSUME NEW t \in txs, PersistCommit(t) PROVE session' \in Session
    <3>1. t.snap \in Session /\ session' = [t.snap EXCEPT !.turnCount = @ + 1]
        BY <1>1, <2>2 DEF PersistCommit, PersistTx
    <3> QED BY <3>1 DEF Session
  <2>3. ASSUME NEW t \in txs, CloseCommit(t) PROVE session' \in Session
    <3>1. /\ t.snap \in Session
          /\ session' = [t.snap EXCEPT !.status = "closed", !.reason = closeReason]
        BY <1>2, <2>3 DEF CloseCommit, CloseTx
    <3> QED BY <3>1 DEF Session, LifecycleTyped
  <2>4. ASSUME NEW t \in txs, UnavailableCommit(t) PROVE session' \in Session
    <3>1. /\ t.snap \in Session
          /\ session' = [t.snap EXCEPT !.status = "closed", !.reason = "unavailable"]
        BY <1>2, <2>4 DEF UnavailableCommit, CloseTx
    <3> QED BY <3>1 DEF Session, CloseReasons
  <2> QED BY <2>1, <2>2, <2>3, <2>4, SessionWriters
<1>4. rows' \subseteq Row
  <2>1. ASSUME NEW t \in txs, PersistCommit(t) PROVE rows' \subseteq Row
    <3>1. /\ t \in PersistTx
          /\ rows' = rows \cup {[msg |-> t.msg, seq |-> t.seq,
                                 text |-> t.out.text, ready |-> t.out.ready]}
        BY <1>1, <2>1 DEF PersistCommit
    <3> QED BY <3>1 DEF PersistTx, Output, Row
  <2> QED BY <2>1, RowsWriters
<1>5. txs' \subseteq Tx
  <2>1. CASE PersistBegin
    <3> DEFINE t == [kind |-> "persist", msg |-> turn.msg, seq |-> turn.seq,
                     out |-> turn.out, snap |-> session]
    <3>1. txs' = txs \cup {t} /\ turn.pc = "persist"
        BY <2>1, Zenon DEF PersistBegin, OpenTx
    <3>2. t \in PersistTx
        BY <3>1 DEF TurnTyped, InFlight, TurnState, PersistTx
    <3> QED BY <3>1, <3>2 DEF Tx
  <2>2. CASE ApproveBegin
    <3> DEFINE t == [kind |-> "approve", actor |-> approval.actor,
                     digest |-> approval.digest]
    <3>1. txs' = txs \cup {t} /\ approval.pc = "record"
        BY <2>2, Zenon DEF ApproveBegin, OpenTx
    <3>2. t \in ApproveTx
        BY <3>1 DEF ApprovalTyped, ApprovalInFlight, ApproveTx
    <3> QED BY <3>1, <3>2 DEF Tx
  <2>3. CASE CloseBegin \/ UnavailableBegin
      BY <2>3 DEF CloseBegin, UnavailableBegin, OpenTx, Tx, CloseTx
  <2> QED BY <2>1, <2>2, <2>3, TxsWriters
<1> QED BY <1>3, <1>4, <1>5

LEMMA CloseBackedNext == TypeInv /\ [Next]_vars => CloseBacked'
<1> SUFFICES ASSUME InitialTurnHeld, ApprovalTyped, CloseBacked, [Next]_vars,
                    NEW t \in txs', t.kind = "close"
             PROVE  /\ main' \in {"closing", "notifying", "completed", "failed"}
                    /\ \/ closeReq'.turnCount = 0
                       \/ \E r \in rows' : r.seq = closeReq'.turnCount
    BY DEF TypeInv, CloseBacked
<1>r. rows \subseteq rows'
    BY RowsWriters, Zenon DEF PersistCommit
<1>1. CASE t \in txs
  <2>1. /\ main \in {"closing", "notifying", "completed", "failed"}
        /\ \/ closeReq.turnCount = 0
           \/ \E r \in rows : r.seq = closeReq.turnCount
      BY <1>1 DEF CloseBacked
  <2>2. main' \in {"closing", "notifying", "completed", "failed"}
      BY <2>1, MainWriters, Zenon DEF InitialTurnHeld, EnsureSession
  <2>3. closeReq'.turnCount = closeReq.turnCount
    <3>1. ~DrainDone
        BY <2>1, Zenon DEF DrainDone
    <3>2. CASE CloseBegin
      <4>1. closeReq' = [closeReq EXCEPT !.tries = @ + 1]
          BY <3>2, Zenon DEF CloseBegin
      <4> QED BY <4>1 DEF ApprovalTyped
    <3> QED BY <3>1, <3>2, CloseReqWriters
  <2> QED BY <2>1, <2>2, <2>3, <1>r
<1>2. CASE t \notin txs
  <2>1. CloseBegin
    <3>1. CASE PersistBegin
        BY <1>2, <3>1 DEF PersistBegin, OpenTx
    <3>2. CASE ApproveBegin
        BY <1>2, <3>2 DEF ApproveBegin, OpenTx
    <3>3. CASE UnavailableBegin
        BY <1>2, <3>3 DEF UnavailableBegin, OpenTx
    <3> QED BY <1>2, <3>1, <3>2, <3>3, TxsWriters
  <2>2. main' = "closing"
      BY <2>1, Zenon DEF CloseBegin
  <2>3. closeReq'.turnCount = closeReq.turnCount
    <3>1. closeReq' = [closeReq EXCEPT !.tries = @ + 1]
        BY <2>1, Zenon DEF CloseBegin
    <3> QED BY <3>1 DEF ApprovalTyped
  <2>4. UsedSequences = 1..closeReq.turnCount
      BY <2>1, Zenon DEF CloseBegin, CloseValid
  <2>5. closeReq.turnCount \in Nat
      BY DEF ApprovalTyped
  <2> QED BY <2>2, <2>3, <2>4, <2>5, <1>r DEF UsedSequences
<1> QED BY <1>1, <1>2

LEMMA TypeInvNext == TypeInv /\ [Next]_vars => TypeInv'
BY FlagsNext, LifecycleNext, TurnNext, HistoryNext, ApprovalNext, DatabaseNext,
   CloseBackedNext, InitialTurnNext DEF TypeInv

LEMMA TypeInvariance == Spec => []TypeInv
<1>1. Init => TypeInv
    BY TypeInvInit
<1>2. TypeInv /\ [Next]_vars => TypeInv'
    BY TypeInvNext
<1> QED BY <1>1, <1>2, PTL DEF Spec

\* Every variable of the workflow, of its coroutines and of the database keeps
\* its type: in particular a turn reads a persisted row only when there is one
\* and no activity is attempted more than MaximumAttempts times.
THEOREM TypeCorrectness == Spec => []TypeOK
<1>1. TypeInv => TypeOK
    BY TypeInvImpliesTypeOK
<1> QED BY <1>1, TypeInvariance, PTL

=============================================================================
