---------------------- MODULE DiagnosisRoomRecordProofs ----------------------
(* The record a diagnosis room leaves, for every number of messages, turns, *)
(* attempts, approvers and open transactions: the persisted transcript, the *)
(* approvals, confirmed closes and the diagnosis task.                      *)
EXTENDS DiagnosisRoomProofs

-----------------------------------------------------------------------------
(* The transcript: the inductive invariant.                                 *)

End == Len(conversation) + 1
HoldsSequence == turn.pc \in {"run", "persist", "persisted", "collect", "notify"}

\* Before the session exists nothing happened; after the workflow nothing runs.
PhaseInv ==
    /\ Terminal => ~InFlight
    /\ main = "ensure" =>
          /\ ~InFlight /\ conversation = <<>> /\ seen = {} /\ turnCount = 0
          /\ ~ApprovalInFlight /\ rows = {} /\ txs = {}

\* turnCount runs ahead of the conversation while a turn is announced.
CountInv ==
    ~Terminal =>
       turnCount = Len(conversation) + (IF turn.pc = "notify" THEN 1 ELSE 0)

\* The turn in flight is new to the room and takes the next sequence, within
\* the budget.
TurnInv ==
    /\ InFlight => turn.msg \notin seen
    /\ HoldsSequence => turn.seq = End /\ End <= MaxTurns

\* A transaction that persists a turn was opened for the sequence at the end
\* of the conversation, or for one the conversation has passed.
TxInv ==
    \A t \in txs : t.kind = "persist" =>
        t.seq \in 1..End /\ t.seq <= MaxTurns

RowsInv ==
    /\ \A r, s \in rows : r.seq = s.seq \/ r.msg = s.msg => r = s
    /\ \A r \in rows : r.seq \in 1..End /\ r.seq <= MaxTurns

\* The conversation is the beginning of the transcript, and its messages are
\* refused from then on.
ConversationInv ==
    \A i \in 1..Len(conversation) :
        /\ \E r \in rows : r.seq = i /\ r.msg = conversation[i].msg
        /\ conversation[i].msg \in seen

\* The row a persisted turn leaves is at the end of the transcript.
PersistedInv ==
    turn.pc \in {"persisted", "collect", "notify"} =>
        \E r \in rows : r.seq = End /\ r.msg = turn.msg

TranscriptInv ==
    /\ TypeInv /\ PhaseInv /\ CountInv /\ TurnInv /\ TxInv
    /\ RowsInv /\ ConversationInv /\ PersistedInv

LEMMA EndIsNat ==
    ASSUME HistoryTyped
    PROVE  /\ Len(conversation) \in Nat /\ End \in Nat
           /\ \A i \in 1..Len(conversation) : conversation[i] \in [msg : MsgIds, text : Texts]
<1>1. Len(conversation) \in Nat
    BY DEF HistoryTyped
<1>2. ASSUME NEW i \in 1..Len(conversation)
      PROVE  conversation[i] \in [msg : MsgIds, text : Texts]
    BY <1>2, ElementOfSeq DEF HistoryTyped
<1> QED BY <1>1, <1>2 DEF End

LEMMA TranscriptInvInit == Init => TranscriptInv
<1> SUFFICES ASSUME Init PROVE TranscriptInv
    OBVIOUS
<1>1. TypeInv
    BY TypeInvInit
<1>2. Len(conversation) = 0 /\ rows = {} /\ txs = {} /\ turn.pc = "idle"
    BY DEF Init, IdleTurn
<1>3. PhaseInv /\ CountInv /\ TurnInv
    BY <1>2 DEF Init, PhaseInv, CountInv, TurnInv, Terminal, InFlight, HoldsSequence,
                  ApprovalInFlight, IdleApproval
<1>4. TxInv /\ RowsInv /\ ConversationInv /\ PersistedInv
    BY <1>2 DEF TxInv, RowsInv, ConversationInv, PersistedInv
<1> QED BY <1>1, <1>3, <1>4 DEF TranscriptInv

-----------------------------------------------------------------------------
(* What a step does to the turn in flight and to the conversation.          *)

\* The turn in flight becomes the last one of the conversation.
TurnAppended ==
    /\ Len(conversation') = End
    /\ \A i \in 1..Len(conversation) : conversation'[i] = conversation[i]
    /\ conversation'[End].msg = turn.msg
    /\ seen' = seen \cup {turn.msg}

LEMMA NotifyAppends ==
    ASSUME HistoryTyped, TurnTyped, NotifyDone PROVE TurnAppended
<1> DEFINE e == [msg |-> turn.msg, text |-> turn.out.text]
<1>1. /\ turn.pc = "notify" /\ conversation' = Append(conversation, e)
      /\ seen' = seen \cup {turn.msg}
    BY Zenon DEF NotifyDone
<1>2. e \in [msg : MsgIds, text : Texts]
    BY <1>1 DEF TurnTyped, InFlight, Output
<1>3. e.msg = turn.msg
    OBVIOUS
<1> HIDE DEF e
<1>4. /\ Len(conversation') = End
      /\ \A i \in 1..Len(conversation) : conversation'[i] = conversation[i]
      /\ conversation'[End] = e
    BY <1>1, <1>2, AppendProperties DEF HistoryTyped, End
<1> QED BY <1>1, <1>3, <1>4 DEF TurnAppended

TurnKept == turn'.msg = turn.msg /\ turn'.seq = turn.seq
HistoryKept == UNCHANGED <<turnCount, conversation, seen>>
StartsAt(seq) ==
    /\ turn'.pc = "run" /\ turn'.msg \notin seen' /\ turn'.seq = seq
    /\ turnCount < MaxTurns

TurnStays == UNCHANGED turn /\ HistoryKept
TurnEnds == turn'.pc = "idle" /\ HistoryKept /\ (turn.pc = "notify" => Terminal')
TurnStarts ==
    /\ ~InFlight /\ ~Terminal /\ main' # "ensure" /\ HistoryKept /\ StartsAt(End)
ManualStarts ==
    /\ ~InFlight /\ ~Terminal /\ main' # "ensure" /\ HistoryKept
    /\ turn'.pc = "manual" /\ turn'.msg \notin seen
TurnMoves ==
    /\ HoldsSequence /\ turn.pc # "notify" /\ TurnKept /\ HistoryKept
    /\ turn'.pc \in {"persist", "persisted", "collect"}
    /\ turn'.pc = "persisted" => turn.pc = "persist" /\ RowsOf(turn.msg)' # {}
    /\ turn'.pc = "collect" => turn.pc = "persisted"
TurnApplied ==
    /\ turn.pc \in {"persisted", "collect"} /\ turn'.pc = "notify" /\ TurnKept
    /\ turnCount' = turnCount + 1 /\ UNCHANGED <<conversation, seen>>
TurnNotified ==
    /\ turn.pc = "notify" /\ UNCHANGED turnCount /\ TurnAppended
    /\ turn'.pc = "idle" \/ StartsAt(End + 1)
ManualEnds ==
    /\ turn.pc = "manual" /\ UNCHANGED <<turnCount, conversation>>
    /\ seen' = seen \cup {turn.msg}
    /\ turn'.pc = "idle" \/ StartsAt(End)

LEMMA MainLeavesEnsure == EnsureSession => main' # "ensure"
BY Zenon DEF EnsureSession

LEMMA TurnEffect ==
    ASSUME TypeInv, PhaseInv, [Next]_vars
    PROVE  \/ TurnStays \/ TurnEnds \/ TurnStarts \/ ManualStarts \/ TurnMoves
           \/ TurnApplied \/ TurnNotified \/ ManualEnds
<1> USE DEF HistoryKept, historyVars
<1>t. turn \in TurnState
    BY DEF TypeInv, TurnTyped
<1>s. \A k, m, n : /\ StartTurn(k, m, n).pc = "run" /\ StartTurn(k, m, n).msg = m
                   /\ StartTurn(k, m, n).seq = n
    BY DEF StartTurn
<1>e. Len(conversation) \in Nat /\ End = Len(conversation) + 1
    BY EndIsNat DEF TypeInv, End
<1>1. CASE UNCHANGED <<turn, historyVars>>
    BY <1>1 DEF TurnStays
<1>2. CASE turn' = IdleTurn /\ UNCHANGED historyVars /\ (turn.pc = "notify" => Terminal')
    BY <1>2 DEF TurnEnds, IdleTurn
<1>3. CASE EnsureSession
  <2>1. main = "ensure" /\ UNCHANGED historyVars
      BY <1>3, Zenon DEF EnsureSession
  <2>2. /\ ~InFlight /\ seen = {} /\ turnCount = 0 /\ Len(conversation) = 0
        /\ ~Terminal
      BY <2>1 DEF PhaseInv, Terminal
  <2>3. CASE UNCHANGED turn
      BY <2>1, <2>3 DEF TurnStays
  <2>4. CASE turn' = StartTurn("initial", <<InitialTurn, 0>>, 1)
    <3>1. main' # "ensure"
        BY <1>3, MainLeavesEnsure
    <3> QED BY <2>1, <2>2, <2>4, <3>1, <1>s, Bounds DEF TurnStarts, StartsAt, End
  <2> QED BY <1>3, <2>3, <2>4, Zenon DEF EnsureSession
<1>4. ASSUME NEW m \in Messages, SubmitTurn(m) PROVE TurnStarts
  <2>1. /\ Started /\ ValidateSubmit(<<m, 0>>) /\ UNCHANGED <<main, historyVars>>
        /\ turn' = StartTurn("submit", <<m, 0>>, End)
      BY <1>4, Zenon DEF SubmitTurn, wfVars, End
  <2> QED BY <2>1, <1>s DEF TurnStarts, StartsAt, Started, Terminal, ValidateSubmit,
                            ValidateSubmitTurn
<1>5. ASSUME NEW m \in Messages, CollectEvidence(m) PROVE ManualStarts
  <2>1. /\ Started /\ ValidateCollectEvidence(<<m, 0>>)
        /\ UNCHANGED <<main, historyVars>>
        /\ turn' = [StartTurn("collect", <<m, 0>>, 0) EXCEPT !.pc = "manual"]
      BY <1>5, Zenon DEF CollectEvidence, wfVars
  <2> QED BY <2>1 DEF ManualStarts, Started, Terminal, StartTurn,
                      ValidateCollectEvidence
<1>6. ASSUME NEW o \in Output, RunTurnDone(o) PROVE TurnMoves
    BY <1>6, <1>t DEF RunTurnDone, TurnMoves, TurnKept, HoldsSequence, TurnState, wfVars
<1>7. CASE PersistBegin
  <2>1. /\ turn.pc = "persist" /\ UNCHANGED historyVars
        /\ turn' = [turn EXCEPT !.tries = @ + 1]
      BY <1>7, Zenon DEF PersistBegin, wfVars
  <2> QED BY <2>1, <1>t DEF TurnMoves, TurnKept, HoldsSequence, TurnState
<1>8. CASE PersistExisting
  <2>1. /\ turn.pc = "persist" /\ UNCHANGED historyVars /\ UNCHANGED rows
        /\ RowsOf(turn.msg) # {} /\ turn' = [turn EXCEPT !.pc = "persisted"]
      BY <1>8, Zenon DEF PersistExisting, wfVars, dbVars
  <2> QED BY <2>1, <1>t DEF TurnMoves, TurnKept, HoldsSequence, TurnState, RowsOf
<1>9. ASSUME NEW t \in txs, PersistCommit(t) \/ PersistConflict(t),
             t \in CurrentPersistTx, turn' = [turn EXCEPT !.pc = "persisted"],
             UNCHANGED historyVars
      PROVE  TurnMoves
  <2>1. turn.pc = "persist" /\ t.msg = turn.msg
      BY <1>9 DEF CurrentPersistTx
  <2>2. turn' # IdleTurn
      BY <1>9, <1>t DEF IdleTurn, TurnState
  <2>4. turn'.msg = turn.msg
      BY <1>9, <1>t DEF TurnState
  <2>3. RowsOf(turn.msg)' # {}
    <3>1. CASE PersistCommit(t)
      <4> DEFINE r == [msg |-> t.msg, seq |-> t.seq, text |-> t.out.text,
                       ready |-> t.out.ready]
      <4>1. r \in rows'
          BY <3>1, Zenon DEF PersistCommit
      <4>2. r.msg = turn'.msg
          BY <2>1, <2>4
      <4> QED BY <4>1, <4>2 DEF RowsOf
    <3>2. CASE PersistConflict(t)
      <4>1. UNCHANGED rows /\ RowsOf(t.msg) # {}
          BY <3>2, <2>2, <1>9, Zenon DEF PersistConflict, EndTurnWithError
      <4> QED BY <4>1, <2>1, <2>4 DEF RowsOf
    <3> QED BY <1>9, <3>1, <3>2
  <2> QED BY <1>9, <2>1, <2>3, <1>t DEF TurnMoves, TurnKept, HoldsSequence, TurnState
<1>10. ASSUME turn.pc \in {"persisted", "collect"},
              turnCount' = turnCount + 1, UNCHANGED <<conversation, seen>>,
              NEW c, turn' = [turn EXCEPT !.pc = "notify", !.collected = c]
       PROVE  TurnApplied
    BY <1>10, <1>t DEF TurnApplied, TurnKept, TurnState
<1>11. CASE PersistDelivered /\ ApplyTurn(FALSE)
    BY <1>10, <1>11, Zenon DEF PersistDelivered, ApplyTurn
<1>12. CASE CollectDone
    BY <1>10, <1>12, Zenon DEF CollectDone, ApplyTurn
<1>13. CASE PersistDelivered /\ ~ApplyTurn(FALSE)
  <2>1. /\ turn.pc = "persisted" /\ turn' = [turn EXCEPT !.pc = "collect"]
        /\ UNCHANGED historyVars
      BY <1>13, Zenon DEF PersistDelivered, wfVars
  <2> QED BY <2>1, <1>t DEF TurnMoves, TurnKept, HoldsSequence, TurnState
<1>14. CASE NotifyDone
  <2>1. turn.pc = "notify" /\ UNCHANGED turnCount /\ TurnAppended
      BY <1>14, NotifyAppends, Zenon DEF NotifyDone, TypeInv
  <2>2. CASE turn' = IdleTurn
      BY <2>1, <2>2 DEF TurnNotified, IdleTurn
  <2>3. CASE turn' # IdleTurn
    <3>1. /\ FollowUpAllowed(NextFollowUp(turn.msg), seen')
          /\ turn' = StartTurn(turn.kind, NextFollowUp(turn.msg), Len(conversation) + 2)
        BY <1>14, <2>3, Zenon DEF NotifyDone, FinishTurn
    <3>2. Len(conversation) + 2 = End + 1
        BY <1>e
    <3> QED BY <2>1, <3>1, <3>2, <1>s DEF TurnNotified, StartsAt, FollowUpAllowed
  <2> QED BY <2>2, <2>3
<1>15. CASE ManualCollectDone
  <2>1. /\ turn.pc = "manual" /\ UNCHANGED <<turnCount, conversation>>
        /\ seen' = seen \cup {turn.msg}
      BY <1>15, Zenon DEF ManualCollectDone
  <2>2. CASE turn' = IdleTurn
      BY <2>1, <2>2 DEF ManualEnds, IdleTurn
  <2>3. CASE turn' # IdleTurn
    <3>1. /\ FollowUpAllowed(NextFollowUp(turn.msg), seen')
          /\ turn' = StartTurn("collect", NextFollowUp(turn.msg), End)
        BY <1>15, <2>3, Zenon DEF ManualCollectDone, End
    <3> QED BY <2>1, <3>1, <1>s DEF ManualEnds, StartsAt, FollowUpAllowed
  <2> QED BY <2>2, <2>3
<1> QED BY <1>1, <1>2, <1>3, <1>4, <1>5, <1>6, <1>7, <1>8, <1>9, <1>11, <1>12,
           <1>13, <1>14, <1>15, TurnWriters

-----------------------------------------------------------------------------
(* Preservation of the parts of the invariant.                              *)

LEMMA PhaseNext == TranscriptInv /\ [Next]_vars => PhaseInv'
<1> SUFFICES ASSUME TranscriptInv, [Next]_vars PROVE PhaseInv'
    OBVIOUS
<1> USE DEF TranscriptInv
<1>1. Terminal' => ~InFlight'
  <2>1. CASE Terminal
    <3>1. ~InFlight
        BY <2>1 DEF PhaseInv
    <3>2. turn'.pc = "idle"
        BY <2>1, <3>1, TurnEffect
           DEF TurnStays, TurnEnds, TurnStarts, ManualStarts, TurnMoves, TurnApplied,
               TurnNotified, ManualEnds, InFlight, HoldsSequence
    <3> QED BY <3>2 DEF InFlight
  <2>2. CASE ~Terminal /\ Terminal'
    <3>1. turn' = IdleTurn
        BY <2>2, MainWriters DEF Terminal, EnsureSession
    <3> QED BY <3>1 DEF InFlight, IdleTurn
  <2> QED BY <2>1, <2>2
<1>2. ASSUME main' = "ensure"
      PROVE  /\ ~InFlight' /\ conversation' = <<>> /\ seen' = {} /\ turnCount' = 0
             /\ ~ApprovalInFlight' /\ rows' = {} /\ txs' = {}
  <2>1. main = "ensure" /\ ~EnsureSession
      BY <1>2, MainWriters DEF EnsureSession
  <2>2. /\ ~InFlight /\ conversation = <<>> /\ seen = {} /\ turnCount = 0
        /\ ~ApprovalInFlight /\ rows = {} /\ txs = {}
      BY <2>1 DEF PhaseInv
  <2>3. rows' = {}
      BY <2>2, RowsWriters
  <2>4. ~PersistBegin /\ ~ApproveBegin /\ ~CloseBegin /\ ~UnavailableBegin
      BY <2>1, <2>2 DEF PersistBegin, ApproveBegin, CloseBegin, UnavailableBegin,
                        InFlight, ApprovalInFlight, Terminal
  <2>5. txs' = {}
      BY <2>2, <2>4, TxsWriters
  <2>6. ~ApprovalInFlight'
      BY <2>1, <2>2, <2>4, ApprovalWriters
         DEF ApprovalInFlight, ConfirmConclusion, Started, IdleApproval
  <2>7. /\ ~InFlight' /\ HistoryKept
      BY <1>2, <2>2, TurnEffect
         DEF TurnStays, TurnEnds, TurnStarts, ManualStarts, TurnMoves, TurnApplied,
             TurnNotified, ManualEnds, InFlight, HoldsSequence
  <2> QED BY <2>2, <2>3, <2>5, <2>6, <2>7 DEF HistoryKept
<1> QED BY <1>1, <1>2 DEF PhaseInv

LEMMA CountNext == TranscriptInv /\ [Next]_vars => CountInv'
<1> SUFFICES ASSUME TranscriptInv, [Next]_vars, ~Terminal'
             PROVE  turnCount' = Len(conversation')
                                   + (IF turn'.pc = "notify" THEN 1 ELSE 0)
    BY DEF CountInv
<1>1. ~Terminal
    BY MainWriters DEF Terminal, EnsureSession, TranscriptInv, PhaseInv
<1>2. /\ turnCount = Len(conversation) + (IF turn.pc = "notify" THEN 1 ELSE 0)
      /\ Len(conversation) \in Nat
    BY <1>1, EndIsNat DEF TranscriptInv, CountInv, TypeInv
<1> QED BY <1>2, TurnEffect
        DEF TranscriptInv, TurnStays, TurnEnds, TurnStarts, ManualStarts, TurnMoves,
            TurnApplied, TurnNotified, TurnAppended, ManualEnds, StartsAt,
            HistoryKept, InFlight, End

LEMMA TurnNextTranscript == TranscriptInv /\ [Next]_vars => TurnInv'
<1> SUFFICES ASSUME TranscriptInv, [Next]_vars PROVE TurnInv'
    OBVIOUS
<1>1. Len(conversation) \in Nat /\ turnCount \in Nat /\ MaxTurns \in Nat
    BY EndIsNat, Bounds DEF TranscriptInv, TypeInv, HistoryTyped
<1>2. turn.pc = "manual" \/ ~InFlight => ~HoldsSequence
    BY DEF InFlight, HoldsSequence
<1>3. ~Terminal => turnCount = Len(conversation) + (IF turn.pc = "notify" THEN 1 ELSE 0)
    BY DEF TranscriptInv, CountInv
<1>4. InFlight => ~Terminal
    BY DEF TranscriptInv, PhaseInv
<1>5. /\ InFlight => turn.msg \notin seen
      /\ HoldsSequence => turn.seq = End /\ End <= MaxTurns
    BY DEF TranscriptInv, TurnInv
<1>6. CASE TurnStays
    BY <1>5, <1>6 DEF TurnInv, TurnStays, HistoryKept, InFlight, HoldsSequence, End
<1>7. CASE TurnEnds
    BY <1>7 DEF TurnInv, TurnEnds, InFlight, HoldsSequence
<1>8. CASE TurnStarts
    BY <1>1, <1>3, <1>8
       DEF TurnInv, TurnStarts, StartsAt, HistoryKept, InFlight, HoldsSequence, End
<1>9. CASE ManualStarts
    BY <1>9 DEF TurnInv, ManualStarts, HistoryKept, HoldsSequence
<1>10. CASE TurnMoves
    BY <1>5, <1>10
       DEF TurnInv, TurnMoves, TurnKept, HistoryKept, InFlight, HoldsSequence, End
<1>11. CASE TurnApplied
    BY <1>5, <1>11 DEF TurnInv, TurnApplied, TurnKept, InFlight, HoldsSequence, End
<1>12. CASE TurnNotified
    BY <1>1, <1>3, <1>4, <1>12
       DEF TurnInv, TurnNotified, TurnAppended, StartsAt, InFlight, HoldsSequence, End
<1>13. CASE ManualEnds
    BY <1>1, <1>3, <1>4, <1>13
       DEF TurnInv, ManualEnds, StartsAt, InFlight, HoldsSequence, End
<1> QED BY <1>6, <1>7, <1>8, <1>9, <1>10, <1>11, <1>12, <1>13, TurnEffect
           DEF TranscriptInv

\* Conversation and transcript only grow.
LEMMA Grows ==
    ASSUME TranscriptInv, [Next]_vars
    PROVE  /\ Len(conversation) \in Nat /\ Len(conversation') \in Nat
           /\ End = Len(conversation) + 1 /\ End' = Len(conversation') + 1
           /\ \/ Len(conversation') = Len(conversation)
                 /\ UNCHANGED conversation
              \/ /\ turn.pc = "notify" /\ Len(conversation') = End
                 /\ \A i \in 1..Len(conversation) : conversation'[i] = conversation[i]
                 /\ conversation'[End].msg = turn.msg
                 /\ turn.msg \in seen'
           /\ seen \subseteq seen' /\ rows \subseteq rows'
<1>1. Len(conversation) \in Nat
    BY EndIsNat DEF TranscriptInv, TypeInv
<1>2. rows \subseteq rows'
    BY RowsWriters, Zenon DEF PersistCommit
<1> QED BY <1>1, <1>2, TurnEffect
        DEF TranscriptInv, TurnStays, TurnEnds, TurnStarts, ManualStarts, TurnMoves,
            TurnApplied, TurnNotified, TurnAppended, ManualEnds, HistoryKept, End

LEMMA TxNext == TranscriptInv /\ [Next]_vars => TxInv'
<1> SUFFICES ASSUME TranscriptInv, [Next]_vars,
                    NEW t \in txs', t.kind = "persist"
             PROVE  t.seq \in 1..End' /\ t.seq <= MaxTurns
    BY DEF TxInv
<1>1. t.seq \in 1..End /\ t.seq <= MaxTurns
  <2>1. CASE t \in txs
      BY <2>1 DEF TranscriptInv, TxInv
  <2>2. CASE t \notin txs
    <3>1. ~ApproveBegin /\ ~CloseBegin /\ ~UnavailableBegin
      <4>1. ApproveBegin => t.kind = "approve"
          BY <2>2 DEF ApproveBegin, OpenTx
      <4>2. CloseBegin => t.kind = "close"
          BY <2>2 DEF CloseBegin, OpenTx
      <4>3. UnavailableBegin => t.kind = "unavailable"
          BY <2>2 DEF UnavailableBegin, OpenTx
      <4> QED BY <4>1, <4>2, <4>3
    <3>2. PersistBegin
        BY <2>2, <3>1, TxsWriters
    <3>3. t.seq = turn.seq /\ turn.pc = "persist"
        BY <2>2, <3>2 DEF PersistBegin, OpenTx
    <3> QED BY <3>3, Grows DEF TranscriptInv, TurnInv, HoldsSequence
  <2> QED BY <2>1, <2>2
<1> QED BY <1>1, Grows

LEMMA RowsNext == TranscriptInv /\ [Next]_vars => RowsInv'
<1> SUFFICES ASSUME TranscriptInv, [Next]_vars PROVE RowsInv'
    OBVIOUS
<1>1. ASSUME NEW t \in txs, PersistCommit(t) PROVE RowsInv'
  <2> DEFINE new == [msg |-> t.msg, seq |-> t.seq, text |-> t.out.text,
                     ready |-> t.out.ready]
  <2>1. t.kind = "persist" /\ rows' = rows \cup {new} /\ ~PersistConflicts(t)
      BY <1>1, Zenon DEF PersistCommit
  <2>2. t.seq \in 1..End /\ t.seq <= MaxTurns
      BY <2>1 DEF TranscriptInv, TxInv
  <2>3. new.seq = t.seq /\ new.msg = t.msg
      OBVIOUS
  <2> HIDE DEF new
  <2> QED BY <2>1, <2>2, <2>3, Grows DEF TranscriptInv, RowsInv, PersistConflicts
<1>2. CASE UNCHANGED rows
    BY <1>2, Grows DEF TranscriptInv, RowsInv
<1> QED BY <1>1, <1>2, RowsWriters

LEMMA ConversationNext == TranscriptInv /\ [Next]_vars => ConversationInv'
<1> SUFFICES ASSUME TranscriptInv, [Next]_vars, NEW i \in 1..Len(conversation')
             PROVE  /\ \E r \in rows' : r.seq = i /\ r.msg = conversation'[i].msg
                    /\ conversation'[i].msg \in seen'
    BY DEF ConversationInv
<1>1. CASE i \in 1..Len(conversation)
  <2>1. /\ \E r \in rows : r.seq = i /\ r.msg = conversation[i].msg
        /\ conversation[i].msg \in seen
      BY <1>1 DEF TranscriptInv, ConversationInv
  <2>2. conversation'[i] = conversation[i]
      BY <1>1, Grows
  <2> QED BY <2>1, <2>2, Grows
<1>2. CASE i \notin 1..Len(conversation)
  <2>1. /\ i = End /\ turn.pc = "notify" /\ turn.msg \in seen'
        /\ conversation'[End].msg = turn.msg
      BY <1>2, Grows
  <2>2. \E r \in rows : r.seq = End /\ r.msg = turn.msg
      BY <2>1 DEF TranscriptInv, PersistedInv
  <2> QED BY <2>1, <2>2, Grows
<1> QED BY <1>1, <1>2

LEMMA PersistedNext == TranscriptInv /\ [Next]_vars => PersistedInv'
<1> SUFFICES ASSUME TranscriptInv, [Next]_vars,
                    turn'.pc \in {"persisted", "collect", "notify"}
             PROVE  \E r \in rows' : r.seq = End' /\ r.msg = turn'.msg
    BY DEF PersistedInv
<1>1. HoldsSequence /\ turn'.msg = turn.msg /\ UNCHANGED conversation
      /\ \/ turn.pc \in {"persisted", "collect", "notify"}
         \/ RowsOf(turn.msg)' # {}
    BY TurnEffect
       DEF TranscriptInv, TurnStays, TurnEnds, TurnStarts, ManualStarts, TurnMoves,
           TurnApplied, TurnNotified, ManualEnds, HistoryKept, StartsAt, TurnKept,
           HoldsSequence
<1>2. CASE turn.pc \in {"persisted", "collect", "notify"}
    BY <1>1, <1>2, Grows DEF TranscriptInv, PersistedInv
<1>3. CASE RowsOf(turn.msg)' # {}
  <2>1. PICK r \in rows' : r.msg = turn.msg
      BY <1>1, <1>3 DEF RowsOf
  <2>2. r.seq \in 1..End'
      BY RowsNext DEF RowsInv
  <2>3. r.seq \notin 1..Len(conversation)
    <3> SUFFICES ASSUME r.seq \in 1..Len(conversation) PROVE FALSE
        OBVIOUS
    <3>1. PICK s \in rows : s.seq = r.seq /\ s.msg = conversation[r.seq].msg
        BY DEF TranscriptInv, ConversationInv
    <3>2. s = r
        BY <3>1, RowsNext, Grows DEF RowsInv
    <3>3. turn.msg \in seen
        BY <2>1, <3>1, <3>2 DEF TranscriptInv, ConversationInv
    <3> QED BY <1>1, <3>3 DEF TranscriptInv, TurnInv, InFlight, HoldsSequence
  <2> QED BY <1>1, <2>1, <2>2, <2>3, Grows
<1> QED BY <1>1, <1>2, <1>3

LEMMA TranscriptInvNext == TranscriptInv /\ [Next]_vars => TranscriptInv'
BY TypeInvNext, PhaseNext, CountNext, TurnNextTranscript, TxNext, RowsNext,
   ConversationNext, PersistedNext DEF TranscriptInv

LEMMA TranscriptInvariance == Spec => []TranscriptInv
<1>1. Init => TranscriptInv
    BY TranscriptInvInit
<1>2. TranscriptInv /\ [Next]_vars => TranscriptInv'
    BY TranscriptInvNext
<1> QED BY <1>1, <1>2, PTL DEF Spec

-----------------------------------------------------------------------------
(* The transcript has no gaps: it is the conversation, possibly with one     *)
(* turn more.                                                                *)

LEMMA UsedIsInterval ==
    ASSUME TranscriptInv
    PROVE  /\ UsedSequences = 1..Len(conversation) \/ UsedSequences = 1..End
           /\ \A n \in UsedSequences : n <= MaxTurns
           /\ Len(conversation) \in Nat
<1>1. Len(conversation) \in Nat
    BY EndIsNat DEF TranscriptInv, TypeInv
<1>2. UsedSequences \subseteq 1..End /\ \A n \in UsedSequences : n <= MaxTurns
    BY DEF TranscriptInv, RowsInv, UsedSequences
<1>3. 1..Len(conversation) \subseteq UsedSequences
    BY DEF TranscriptInv, ConversationInv, UsedSequences
<1>4. \A n \in 1..End : n \in 1..Len(conversation) \/ n = End
    BY <1>1 DEF End
<1>5. UsedSequences = 1..Len(conversation) \/ UsedSequences = 1..End
    BY <1>2, <1>3, <1>4
<1> QED BY <1>1, <1>2, <1>5

\* Whatever attempts are retried, lost or committed late, and whatever messages
\* are sent again, the persisted transcript has one turn per sequence and per
\* message, without gaps and within the turn budget.
THEOREM TranscriptCorrectness == Spec => []TranscriptWellFormed
<1>1. TranscriptInv => TranscriptWellFormed
  <2> SUFFICES ASSUME TranscriptInv PROVE TranscriptWellFormed
      OBVIOUS
  <2>1. \A r, s \in rows : r.seq = s.seq \/ r.msg = s.msg => r = s
      BY DEF TranscriptInv, RowsInv
  <2>2. \E n \in 0..MaxTurns : UsedSequences = 1..n
    <3>1. \E n \in Nat : UsedSequences = 1..n
      <4>1. Len(conversation) \in Nat /\ End \in Nat
          BY UsedIsInterval DEF End
      <4>2. UsedSequences = 1..Len(conversation) \/ UsedSequences = 1..End
          BY UsedIsInterval
      <4> QED BY <4>1, <4>2, Zenon
    <3>2. PICK n \in Nat : UsedSequences = 1..n
        BY <3>1
    <3>3. n <= MaxTurns
      <4>1. CASE n = 0
          BY <4>1, Bounds
      <4>2. CASE n # 0
        <5>1. n \in UsedSequences
            BY <3>2, <4>2
        <5> QED BY <5>1, UsedIsInterval
      <4> QED BY <4>1, <4>2
    <3> QED BY <3>2, <3>3, Bounds
  <2> QED BY <2>1, <2>2 DEF TranscriptWellFormed
<1> QED BY <1>1, TranscriptInvariance, PTL

\* The workflow's conversation is the beginning of the persisted transcript,
\* which is at most one turn ahead of it.
THEOREM ConversationCorrectness == Spec => []ConversationFollowsTranscript
<1>1. TranscriptInv => ConversationFollowsTranscript
    BY EndIsNat
       DEF TranscriptInv, TypeInv, ConversationInv, RowsInv, End,
           ConversationFollowsTranscript
<1> QED BY <1>1, TranscriptInvariance, PTL

-----------------------------------------------------------------------------
(* The turn count of an open session.  RecordTurn increments the count of    *)
(* the session a transaction read; the count it read is the one before its   *)
(* sequence unless that sequence is taken, and then it cannot commit.        *)

SessionInv ==
    /\ session.status = "open" => UsedSequences = 1..session.turnCount
    /\ \A t \in txs : t.kind = "persist" =>
          t.seq \in UsedSequences \/ t.snap.turnCount = t.seq - 1

LEMMA IntervalsEqual ==
    ASSUME NEW m \in Nat, NEW n \in Nat, 1..m = 1..n PROVE m = n
<1>1. CASE m < n
  <2>1. n \in 1..n /\ n \notin 1..m
      BY <1>1
  <2> QED BY <2>1
<1>2. CASE n < m
  <2>1. m \in 1..m /\ m \notin 1..n
      BY <1>2
  <2> QED BY <2>1
<1> QED BY <1>1, <1>2

LEMMA SessionInvInit == Init => SessionInv
BY DEF Init, SessionInv

LEMMA SessionNext == TranscriptInv /\ SessionInv /\ [Next]_vars => SessionInv'
<1> SUFFICES ASSUME TranscriptInv, SessionInv, [Next]_vars PROVE SessionInv'
    OBVIOUS
<1>1. UsedSequences \subseteq UsedSequences'
    BY Grows DEF UsedSequences
<1>2. ASSUME NEW t \in txs', t.kind = "persist"
      PROVE  t.seq \in UsedSequences' \/ t.snap.turnCount = t.seq - 1
  <2>1. CASE t \in txs
      BY <1>1, <1>2, <2>1 DEF SessionInv
  <2>2. CASE t \notin txs
    <3>1. ~ApproveBegin /\ ~CloseBegin /\ ~UnavailableBegin
      <4>1. ApproveBegin => t.kind = "approve"
          BY <2>2 DEF ApproveBegin, OpenTx
      <4>2. CloseBegin => t.kind = "close"
          BY <2>2 DEF CloseBegin, OpenTx
      <4>3. UnavailableBegin => t.kind = "unavailable"
          BY <2>2 DEF UnavailableBegin, OpenTx
      <4> QED BY <1>2, <4>1, <4>2, <4>3
    <3>2. PersistBegin
        BY <2>2, <3>1, TxsWriters
    <3>3. t.seq = turn.seq /\ t.snap = session /\ turn.pc = "persist"
        BY <2>2, <3>2 DEF PersistBegin, OpenTx
    <3>4. session.status = "open"
        BY <3>2, Zenon DEF PersistBegin
    <3>5. t.seq = End
        BY <3>3 DEF TranscriptInv, TurnInv, HoldsSequence
    <3>6. session.turnCount \in Nat
        BY DEF TranscriptInv, TypeInv, DatabaseTyped, Session
    <3>7. CASE UsedSequences = 1..Len(conversation)
      <4>1. session.turnCount = Len(conversation)
          BY <3>4, <3>6, <3>7, IntervalsEqual, UsedIsInterval DEF SessionInv
      <4> QED BY <3>3, <3>5, <4>1, UsedIsInterval DEF End
    <3>8. CASE UsedSequences = 1..End
        BY <1>1, <3>5, <3>8, UsedIsInterval DEF End
    <3> QED BY <3>7, <3>8, UsedIsInterval
  <2> QED BY <2>1, <2>2
<1>3. ASSUME session'.status = "open"
      PROVE  UsedSequences' = 1..session'.turnCount
  <2>1. ASSUME NEW t \in txs, PersistCommit(t)
        PROVE  UsedSequences' = 1..session'.turnCount
    <3> DEFINE new == [msg |-> t.msg, seq |-> t.seq, text |-> t.out.text,
                       ready |-> t.out.ready]
    <3>1. /\ t.kind = "persist" /\ rows' = rows \cup {new} /\ ~PersistConflicts(t)
          /\ session' = [t.snap EXCEPT !.turnCount = @ + 1]
        BY <2>1, Zenon DEF PersistCommit
    <3>2. new.seq = t.seq
        OBVIOUS
    <3> HIDE DEF new
    <3>3. UsedSequences' = UsedSequences \cup {t.seq} /\ t.seq \notin UsedSequences
        BY <3>1, <3>2 DEF UsedSequences, PersistConflicts
    <3>4. t.seq \in 1..End
        BY <3>1 DEF TranscriptInv, TxInv
    <3>5. UsedSequences = 1..Len(conversation) /\ t.seq = End
        BY <3>3, <3>4, UsedIsInterval DEF End
    <3>6. t.snap \in Session /\ t.snap.turnCount = t.seq - 1
        BY <3>1, <3>3
           DEF SessionInv, TranscriptInv, TypeInv, DatabaseTyped, Tx, PersistTx,
               ApproveTx, CloseTx
    <3>7. session'.turnCount = End
        BY <3>1, <3>5, <3>6, UsedIsInterval DEF Session, End
    <3> QED BY <3>3, <3>5, <3>7, UsedIsInterval DEF End
  <2>2. ASSUME NEW t \in txs, CloseCommit(t) \/ UnavailableCommit(t) PROVE FALSE
    <3>1. t.snap \in Session
        BY <2>2
           DEF CloseCommit, UnavailableCommit, TranscriptInv, TypeInv,
               DatabaseTyped, Tx, PersistTx, ApproveTx, CloseTx
    <3>2. session'.status = "closed"
        BY <2>2, <3>1 DEF CloseCommit, UnavailableCommit, Session
    <3> QED BY <1>3, <3>2
  <2>3. CASE main = "ensure" /\ session' = NewSession
    <3>1. rows' = {}
        BY <2>3, RowsWriters DEF TranscriptInv, PhaseInv
    <3> QED BY <2>3, <3>1 DEF UsedSequences, NewSession
  <2>4. CASE UNCHANGED session
    <3>1. CASE UNCHANGED rows
        BY <1>3, <2>4, <3>1 DEF SessionInv, UsedSequences
    <3> QED BY <2>1, <3>1, RowsWriters
  <2> QED BY <2>1, <2>2, <2>3, <2>4, SessionWriters
<1> QED BY <1>2, <1>3 DEF SessionInv

\* Although it is computed from a session read earlier, the turn count of an
\* open session is the number of persisted turns.
THEOREM TurnCountCorrectness == Spec => []OpenSessionCountsTurns
<1>1. TranscriptInv /\ SessionInv /\ [Next]_vars => SessionInv'
    BY SessionNext
<1>2. SessionInv => OpenSessionCountsTurns
    BY DEF SessionInv, OpenSessionCountsTurns
<1> QED BY <1>1, <1>2, SessionInvInit, TranscriptInvariance, PTL DEF Spec



-----------------------------------------------------------------------------
(* Approvals.  The transaction of an approval only inserts: what makes it    *)
(* sound is that it read the turn it names, and that no turn is ever         *)
(* rewritten.                                                                *)

Persisted(d) == \E r \in rows : DigestOf(r) = d

ApprovalTxInv == \A t \in txs : t.kind = "approve" => Persisted(t.digest)

ApprovalInv == TypeInv /\ ApprovalTxInv /\ ApprovalsBindPersistedTurns

LEMMA PersistedStays ==
    ASSUME [Next]_vars, NEW d, Persisted(d) PROVE Persisted(d)'
<1>1. rows \subseteq rows'
    BY RowsWriters, Zenon DEF PersistCommit
<1> QED BY <1>1 DEF Persisted, DigestOf

LEMMA ApprovalInvNext == ApprovalInv /\ [Next]_vars => ApprovalInv'
<1> SUFFICES ASSUME ApprovalInv, [Next]_vars
             PROVE  ApprovalTxInv' /\ ApprovalsBindPersistedTurns'
    BY TypeInvNext DEF ApprovalInv
<1>1. ASSUME NEW t \in txs', t.kind = "approve" PROVE Persisted(t.digest)'
  <2>1. CASE t \in txs
      BY <1>1, <2>1, PersistedStays DEF ApprovalInv, ApprovalTxInv
  <2>2. CASE t \notin txs
    <3>1. ~PersistBegin /\ ~CloseBegin /\ ~UnavailableBegin
      <4>1. PersistBegin => t.kind = "persist"
          BY <2>2 DEF PersistBegin, OpenTx
      <4>2. CloseBegin => t.kind = "close"
          BY <2>2 DEF CloseBegin, OpenTx
      <4>3. UnavailableBegin => t.kind = "unavailable"
          BY <2>2 DEF UnavailableBegin, OpenTx
      <4> QED BY <1>1, <4>1, <4>2, <4>3
    <3>2. ApproveBegin
        BY <2>2, <3>1, TxsWriters
    <3>3. t.digest = approval.digest
        BY <2>2, <3>2 DEF ApproveBegin, OpenTx
    <3>4. Persisted(approval.digest)
        BY <3>2, Zenon DEF ApproveBegin, ApprovalReadsMatch, LatestConclusionIs, Persisted
    <3> QED BY <3>3, <3>4, PersistedStays
  <2> QED BY <2>1, <2>2
<1>2. ASSUME NEW a \in savedApprovals'
      PROVE  a.authority = Authority(a.actor) /\ Persisted(a.digest)'
  <2>1. CASE a \in savedApprovals
      BY <2>1, PersistedStays DEF ApprovalInv, ApprovalsBindPersistedTurns, Persisted
  <2>2. CASE a \notin savedApprovals
    <3>1. PICK t \in txs : ApproveCommit(t)
        BY <2>2, SavedApprovalsWriters
    <3>2. t.kind = "approve" /\ a = NewApproval(t.actor, t.digest)
        BY <2>2, <3>1 DEF ApproveCommit
    <3>3. Persisted(t.digest)
        BY <3>2 DEF ApprovalInv, ApprovalTxInv
    <3> QED BY <3>2, <3>3, PersistedStays DEF NewApproval
  <2> QED BY <2>1, <2>2
<1>3. ASSUME NEW a \in savedApprovals', NEW b \in savedApprovals',
             a.digest = b.digest, a.authority = b.authority
      PROVE  a = b
  <2>1. CASE UNCHANGED savedApprovals
      BY <1>3, <2>1 DEF ApprovalInv, ApprovalsBindPersistedTurns
  <2>2. ASSUME NEW t \in txs, ApproveCommit(t) PROVE a = b
    <3> DEFINE new == NewApproval(t.actor, t.digest)
    <3>1. /\ savedApprovals' = savedApprovals \cup {new}
          /\ \A x \in savedApprovals :
                x.digest = t.digest => x.authority # Authority(t.actor)
        BY <2>2 DEF ApproveCommit, ApproveConflicts, ApprovalsFor
    <3>2. new.digest = t.digest /\ new.authority = Authority(t.actor)
        BY DEF NewApproval
    <3> HIDE DEF new
    <3> QED BY <1>3, <3>1, <3>2 DEF ApprovalInv, ApprovalsBindPersistedTurns
  <2> QED BY <2>1, <2>2, SavedApprovalsWriters
<1> QED BY <1>1, <1>2, <1>3
        DEF ApprovalTxInv, ApprovalsBindPersistedTurns, Persisted

LEMMA ApprovalInvariance == Spec => []ApprovalInv
<1>1. Init => ApprovalInv
    BY TypeInvInit DEF Init, ApprovalInv, ApprovalTxInv, ApprovalsBindPersistedTurns
<1> QED BY <1>1, ApprovalInvNext, PTL DEF Spec

\* Every saved approval is for exactly the text of a persisted turn, carries
\* its actor's authority, and is the only one of that authority.
THEOREM ApprovalCorrectness == Spec => []ApprovalsBindPersistedTurns
<1>1. ApprovalInv => ApprovalsBindPersistedTurns
    BY DEF ApprovalInv
<1> QED BY <1>1, ApprovalInvariance, PTL

-----------------------------------------------------------------------------
(* Confirmed closes.  The close transaction verified the quorum when it       *)
(* began; approvals are never withdrawn, and the lifecycle of the workflow    *)
(* does not change once it is closed.                                        *)

ApprovedBy(d) ==
    /\ \E a \in ApprovalsFor(d, savedApprovals) : a.actor = confirmedBy
    /\ ApprovalMode = "owner_and_leader" =>
          \A x \in {"owner", "leader"} :
              \E a \in ApprovalsFor(d, savedApprovals) : a.authority = x

ConfirmedInv ==
    /\ closeReason = "human_confirmed" => confirmedBy \in Actors
    /\ closeReason # "unavailable"

ClosingInv ==
    /\ main \in {"closing", "notifying", "completed"} => status = "closed"
    /\ \A t \in txs : t.kind = "close" =>
          status = "closed" /\ (confirmedBy # None => ApprovedBy(closeReq.digest))

\* A turn is persisted only by a transaction that read an open session.
OpenSnapInv == \A t \in txs : t.kind = "persist" => t.snap.status = "open"

ConfirmedSessionInv ==
    session.status = "closed" /\ session.reason = "human_confirmed" =>
        status = "closed" /\ ApprovedBy(closedDigest)

TaskInv ==
    /\ main = "ensure" => session.status = "none"
    /\ ClosedSessionFinishesTask

CloseInv ==
    /\ TranscriptInv /\ ConfirmedInv /\ ClosingInv /\ OpenSnapInv
    /\ ConfirmedSessionInv /\ TaskInv

LEMMA NoneIsNoActor == None \notin Actors
BY RoomAssumption, Zenon DEF RoomAssumption, Actors

LEMMA ApprovedStays ==
    ASSUME LifecycleTyped, [Next]_vars, status = "closed", NEW d, ApprovedBy(d)
    PROVE  ApprovedBy(d)'
<1>1. UNCHANGED confirmedBy
    BY LifecycleWriters, Zenon DEF lifecycleVars
<1>2. savedApprovals \subseteq savedApprovals'
    BY SavedApprovalsWriters, Zenon DEF ApproveCommit
<1> QED BY <1>1, <1>2 DEF ApprovedBy, ApprovalsFor

\* What the close activity verified.
LEMMA CloseValidApproved ==
    ASSUME CloseValid, confirmedBy # None PROVE ApprovedBy(closeReq.digest)
<1>1. /\ QuorumComplete(ApprovalsFor(closeReq.digest, savedApprovals))
      /\ \E a \in ApprovalsFor(closeReq.digest, savedApprovals) : a.actor = confirmedBy
    BY Zenon DEF CloseValid
<1>2. ApprovalMode = "owner_and_leader" =>
          \A x \in {"owner", "leader"} :
              \E a \in ApprovalsFor(closeReq.digest, savedApprovals) : a.authority = x
    BY <1>1 DEF QuorumComplete
<1> QED BY <1>1, <1>2 DEF ApprovedBy

LEMMA ConfirmedInvNext == CloseInv /\ [Next]_vars => ConfirmedInv'
<1> SUFFICES ASSUME CloseInv, [Next]_vars PROVE ConfirmedInv'
    OBVIOUS
<1> USE DEF CloseInv, TranscriptInv, TypeInv
<1>1. CASE UNCHANGED lifecycleVars
    BY <1>1 DEF lifecycleVars, ConfirmedInv
<1>2. CASE closeReason' \notin {"human_confirmed", "unavailable"}
    BY <1>2 DEF ConfirmedInv
<1>3. CASE /\ ApproveDelivered /\ confirmedBy' = approval.actor
           /\ closeReason' = "human_confirmed"
  <2>1. approval.actor \in Actors
      BY <1>3 DEF ApproveDelivered, ApprovalTyped, ApprovalInFlight
  <2> QED BY <1>3, <2>1 DEF ConfirmedInv, Actors
<1> QED BY <1>1, <1>2, <1>3, LifecycleWriters

LEMMA ClosingInvNext == CloseInv /\ [Next]_vars => ClosingInv'
<1> SUFFICES ASSUME CloseInv, [Next]_vars PROVE ClosingInv'
    OBVIOUS
<1> USE DEF CloseInv, TranscriptInv, TypeInv
<1>1. status = "closed" => status' = "closed" /\ UNCHANGED confirmedBy
    BY LifecycleWriters, Zenon DEF lifecycleVars
<1>2. main' \in {"closing", "notifying", "completed"} => status' = "closed"
    BY <1>1, MainWriters DEF ClosingInv, EnsureSession
<1>3. ASSUME NEW t \in txs', t.kind = "close"
      PROVE  /\ status' = "closed"
             /\ confirmedBy' # None => ApprovedBy(closeReq.digest)'
  <2>1. /\ status = "closed" /\ (confirmedBy # None => ApprovedBy(closeReq.digest))
        /\ main # "loop"
    <3>1. CASE t \in txs
        BY <1>3, <3>1 DEF ClosingInv, CloseBacked
    <3>2. CASE t \notin txs
      <4>1. PersistBegin => t.kind = "persist"
          BY <3>2 DEF PersistBegin, OpenTx
      <4>2. ApproveBegin => t.kind = "approve"
          BY <3>2 DEF ApproveBegin, OpenTx
      <4>3. UnavailableBegin => t.kind = "unavailable"
          BY <3>2 DEF UnavailableBegin, OpenTx
      <4>4. CloseBegin
          BY <1>3, <3>2, <4>1, <4>2, <4>3, TxsWriters
      <4>5. main = "closing" /\ CloseValid
          BY <4>4, Zenon DEF CloseBegin
      <4> QED BY <4>5, CloseValidApproved DEF ClosingInv
    <3> QED BY <3>1, <3>2
  <2>2. closeReq'.digest = closeReq.digest
    <3>1. CASE CloseBegin
      <4>1. closeReq' = [closeReq EXCEPT !.tries = @ + 1]
          BY <3>1, Zenon DEF CloseBegin
      <4> QED BY <4>1 DEF ApprovalTyped
    <3>2. ~DrainDone
        BY <2>1, Zenon DEF DrainDone
    <3> QED BY <3>1, <3>2, CloseReqWriters
  <2>3. UNCHANGED confirmedBy
      BY <1>1, <2>1
  <2>4. ASSUME ApprovedBy(closeReq.digest) PROVE ApprovedBy(closeReq.digest)'
    <3>1. \A d : ApprovedBy(d) => ApprovedBy(d)'
        BY <2>1, ApprovedStays
    <3> QED BY <2>2, <2>4, <3>1 DEF ApprovedBy, ApprovalsFor
  <2> QED BY <1>1, <2>1, <2>3, <2>4
<1> QED BY <1>2, <1>3 DEF ClosingInv

LEMMA OpenSnapInvNext == CloseInv /\ [Next]_vars => OpenSnapInv'
<1> SUFFICES ASSUME CloseInv, [Next]_vars, NEW t \in txs', t.kind = "persist"
             PROVE  t.snap.status = "open"
    BY DEF OpenSnapInv
<1>1. CASE t \in txs
    BY <1>1 DEF CloseInv, OpenSnapInv
<1>2. CASE t \notin txs
  <2>1. CloseBegin => t.kind = "close"
      BY <1>2 DEF CloseBegin, OpenTx
  <2>2. ApproveBegin => t.kind = "approve"
      BY <1>2 DEF ApproveBegin, OpenTx
  <2>3. UnavailableBegin => t.kind = "unavailable"
      BY <1>2 DEF UnavailableBegin, OpenTx
  <2>4. PersistBegin
      BY <1>2, <2>1, <2>2, <2>3, TxsWriters
  <2> QED BY <1>2, <2>4 DEF PersistBegin, OpenTx
<1> QED BY <1>1, <1>2

\* How a session comes to be closed.
LEMMA SessionCloses ==
    ASSUME CloseInv, [Next]_vars, session'.status = "closed"
    PROVE  \/ UNCHANGED session
           \/ \E t \in txs : \/ /\ CloseCommit(t) /\ t.kind = "close"
                                /\ session'.reason = closeReason
                             \/ UnavailableCommit(t) /\ session'.reason = "unavailable"
<1> USE DEF CloseInv, TranscriptInv, TypeInv, DatabaseTyped
<1>1. ASSUME NEW t \in txs, PersistCommit(t) PROVE FALSE
  <2>1. t.kind = "persist" /\ session' = [t.snap EXCEPT !.turnCount = @ + 1]
      BY <1>1, Zenon DEF PersistCommit
  <2>2. t.snap \in Session /\ t.snap.status = "open"
      BY <2>1 DEF OpenSnapInv, Tx, PersistTx, ApproveTx, CloseTx
  <2> QED BY <2>1, <2>2 DEF Session
<1>2. ASSUME NEW t \in txs, CloseCommit(t)
      PROVE  t.kind = "close" /\ session'.reason = closeReason
  <2>1. t.kind = "close"
        /\ session' = [t.snap EXCEPT !.status = "closed", !.reason = closeReason]
      BY <1>2, Zenon DEF CloseCommit
  <2> QED BY <2>1 DEF Session, Tx, PersistTx, ApproveTx, CloseTx
<1>3. ASSUME NEW t \in txs, UnavailableCommit(t) PROVE session'.reason = "unavailable"
  <2>1. t.kind = "unavailable"
        /\ session' = [t.snap EXCEPT !.status = "closed", !.reason = "unavailable"]
      BY <1>3, Zenon DEF UnavailableCommit
  <2> QED BY <2>1 DEF Session, Tx, PersistTx, ApproveTx, CloseTx
<1>4. session' # NewSession
    BY DEF NewSession
<1> QED BY <1>1, <1>2, <1>3, <1>4, SessionWriters

LEMMA ConfirmedSessionInvNext == CloseInv /\ [Next]_vars => ConfirmedSessionInv'
<1> SUFFICES ASSUME CloseInv, [Next]_vars, session'.status = "closed",
                    session'.reason = "human_confirmed"
             PROVE  status' = "closed" /\ ApprovedBy(closedDigest)'
    BY DEF ConfirmedSessionInv
<1> USE DEF CloseInv, TranscriptInv, TypeInv
<1>1. status = "closed" => status' = "closed"
    BY LifecycleWriters, Zenon DEF lifecycleVars
<1>2. status = "closed" => \A d : ApprovedBy(d) => ApprovedBy(d)'
    BY ApprovedStays
<1>3. ASSUME NEW t \in txs, CloseCommit(t), t.kind = "close",
             closeReason = "human_confirmed"
      PROVE  status' = "closed" /\ ApprovedBy(closedDigest)'
  <2>1. confirmedBy # None
      BY <1>3, NoneIsNoActor DEF ConfirmedInv
  <2>2. status = "closed" /\ ApprovedBy(closeReq.digest)
      BY <1>3, <2>1 DEF ClosingInv
  <2>3. closedDigest' = closeReq.digest
      BY <1>3, Zenon DEF CloseCommit
  <2> QED BY <1>1, <1>2, <2>2, <2>3 DEF ApprovedBy, ApprovalsFor
<1>4. CASE UNCHANGED session
  <2>1. status = "closed" /\ ApprovedBy(closedDigest)
      BY <1>4 DEF ConfirmedSessionInv
  <2>2. CASE UNCHANGED closedDigest
      BY <1>1, <1>2, <2>1, <2>2 DEF ApprovedBy, ApprovalsFor
  <2>3. ASSUME NEW t \in txs, CloseCommit(t)
        PROVE  status' = "closed" /\ ApprovedBy(closedDigest)'
    <3>1. t.kind = "close" /\ session'.reason = closeReason
      <4>1. t.kind = "close"
            /\ session' = [t.snap EXCEPT !.status = "closed", !.reason = closeReason]
          BY <2>3, Zenon DEF CloseCommit
      <4> QED BY <4>1 DEF DatabaseTyped, Session, Tx, PersistTx, ApproveTx, CloseTx
    <3> QED BY <1>3, <2>3, <3>1
  <2> QED BY <2>2, <2>3, ClosedDigestWriters
<1> QED BY <1>3, <1>4, SessionCloses

LEMMA TaskInvNext == CloseInv /\ [Next]_vars => TaskInv'
<1> SUFFICES ASSUME CloseInv, [Next]_vars PROVE TaskInv'
    OBVIOUS
<1> USE DEF CloseInv, TranscriptInv, TypeInv
<1>1. main' = "ensure" => session'.status = "none"
  <2> SUFFICES ASSUME main' = "ensure" PROVE session'.status = "none"
      OBVIOUS
  <2>1. main = "ensure" /\ session.status = "none" /\ txs = {}
      BY MainWriters, MainLeavesEnsure DEF TaskInv, PhaseInv
  <2> QED BY <2>1, SessionWriters
<1>2. ASSUME session'.status = "closed"
      PROVE  task' = IF session'.reason = "unavailable" THEN "cancelled"
                     ELSE TaskStatusFor(session'.reason)
  <2>1. ASSUME NEW t \in txs, CloseCommit(t)
        PROVE  /\ session'.reason # "unavailable"
               /\ task' = TaskStatusFor(session'.reason)
    <3>1. /\ t.kind = "close" /\ task' = TaskStatusFor(closeReason)
          /\ session' = [t.snap EXCEPT !.status = "closed", !.reason = closeReason]
        BY <2>1, Zenon DEF CloseCommit
    <3>2. session'.reason = closeReason
        BY <3>1 DEF DatabaseTyped, Session, Tx, PersistTx, ApproveTx, CloseTx
    <3> QED BY <3>1, <3>2 DEF ConfirmedInv
  <2>2. ASSUME NEW t \in txs, UnavailableCommit(t)
        PROVE  task' = "cancelled" /\ session'.reason = "unavailable"
    <3>1. /\ t.kind = "unavailable" /\ task' = "cancelled"
          /\ session' = [t.snap EXCEPT !.status = "closed", !.reason = "unavailable"]
        BY <2>2, Zenon DEF UnavailableCommit
    <3>2. session'.reason = "unavailable"
        BY <3>1 DEF DatabaseTyped, Session, Tx, PersistTx, ApproveTx, CloseTx
    <3> QED BY <3>1, <3>2
  <2>3. CASE UNCHANGED session
    <3>1. main # "ensure"
        BY <1>2, <2>3 DEF TaskInv
    <3>2. CASE UNCHANGED task
        BY <1>2, <2>3, <3>2 DEF TaskInv, ClosedSessionFinishesTask
    <3> QED BY <2>1, <2>2, <3>1, <3>2, TaskWriters
  <2> QED BY <1>2, <2>1, <2>2, <2>3, SessionCloses
<1> QED BY <1>1, <1>2 DEF TaskInv, ClosedSessionFinishesTask

LEMMA CloseInvInit == Init => CloseInv
<1> SUFFICES ASSUME Init PROVE CloseInv
    OBVIOUS
<1>1. None # "human_confirmed" /\ None # "unavailable"
    BY ReasonAssumption, Zenon DEF ReasonAssumption, CloseReasons
<1> QED BY <1>1, TranscriptInvInit
        DEF Init, CloseInv, ConfirmedInv, ClosingInv, OpenSnapInv,
            ConfirmedSessionInv, TaskInv, ClosedSessionFinishesTask

LEMMA CloseInvariance == Spec => []CloseInv
<1>1. CloseInv /\ [Next]_vars => CloseInv'
    BY ConfirmedInvNext, ClosingInvNext, OpenSnapInvNext, ConfirmedSessionInvNext,
       TaskInvNext, TranscriptInvNext DEF CloseInv
<1> QED BY <1>1, CloseInvInit, PTL DEF Spec

\* A session closed as confirmed has a saved approval of the confirmed
\* conclusion by the confirming actor, and of every authority its mode requires.
THEOREM ConfirmedCloseCorrectness == Spec => []ConfirmedCloseHasQuorum
<1>1. CloseInv => ConfirmedCloseHasQuorum
    BY DEF CloseInv, ConfirmedSessionInv, ApprovedBy, ConfirmedCloseHasQuorum
<1> QED BY <1>1, CloseInvariance, PTL

\* The task of a closed session is finished with the status of its close reason,
\* whatever closes race.
THEOREM TaskCorrectness == Spec => []ClosedSessionFinishesTask
<1>1. CloseInv => ClosedSessionFinishesTask
    BY DEF CloseInv, TaskInv
<1> QED BY <1>1, CloseInvariance, PTL

-----------------------------------------------------------------------------
(* Superseded conclusions.  The close activity compared the conclusion with   *)
(* the workflow's last turn when its transaction began; rows are never        *)
(* rewritten and the request of the close does not change after it is sent.   *)

\* d is the digest of the last turn the close request counts.
NamesLastTurn(d) ==
    /\ main \in {"closing", "notifying", "completed", "failed"}
    /\ \E r \in rows : DigestOf(r) = d /\ r.seq = closeReq.turnCount

CurrentInv ==
    /\ CloseInv
    /\ \A t \in txs : t.kind = "close" /\ confirmedBy # None =>
          NamesLastTurn(closeReq.digest)
    /\ session.status = "closed" /\ session.reason = "human_confirmed" =>
          NamesLastTurn(closedDigest)

\* What the close was requested with stays once the loop is left.
LEMMA CloseRequestStays ==
    ASSUME TypeInv, [Next]_vars, main # "loop"
    PROVE  /\ closeReq'.digest = closeReq.digest
           /\ closeReq'.turnCount = closeReq.turnCount
<1>1. CASE CloseBegin
  <2>1. closeReq' = [closeReq EXCEPT !.tries = @ + 1]
      BY <1>1, Zenon DEF CloseBegin
  <2> QED BY <2>1 DEF TypeInv, ApprovalTyped
<1>2. ~DrainDone
    BY Zenon DEF DrainDone
<1> QED BY <1>1, <1>2, CloseReqWriters

LEMMA LastTurnStays ==
    ASSUME TypeInv, [Next]_vars, NEW d, NamesLastTurn(d) PROVE NamesLastTurn(d)'
<1>1. main \in {"closing", "notifying", "completed", "failed"}
    BY DEF NamesLastTurn
<1>2. main' \in {"closing", "notifying", "completed", "failed"}
    BY <1>1, MainWriters DEF EnsureSession, TypeInv, InitialTurnHeld
<1>3. rows \subseteq rows'
    BY RowsWriters, Zenon DEF PersistCommit
<1>4. closeReq'.turnCount = closeReq.turnCount
    BY <1>1, CloseRequestStays
<1> QED BY <1>2, <1>3, <1>4 DEF NamesLastTurn, DigestOf

LEMMA CloseTxNamesLastTurn ==
    ASSUME CurrentInv, [Next]_vars, NEW t \in txs', t.kind = "close", confirmedBy' # None
    PROVE  NamesLastTurn(closeReq.digest)'
<1>0. TypeInv /\ LifecycleTyped
    BY DEF CurrentInv, CloseInv, TranscriptInv, TypeInv
<1>1. NamesLastTurn(closeReq.digest)
  <2>1. CASE t \in txs
    <3>1. status = "closed"
        BY <2>1 DEF CurrentInv, CloseInv, ClosingInv
    <3>2. UNCHANGED confirmedBy
        BY <1>0, <3>1, LifecycleWriters, Zenon DEF lifecycleVars
    <3> QED BY <2>1, <3>2 DEF CurrentInv
  <2>2. CASE t \notin txs
    <3>1. PersistBegin => t.kind = "persist"
        BY <2>2 DEF PersistBegin, OpenTx
    <3>2. ApproveBegin => t.kind = "approve"
        BY <2>2 DEF ApproveBegin, OpenTx
    <3>3. UnavailableBegin => t.kind = "unavailable"
        BY <2>2 DEF UnavailableBegin, OpenTx
    <3>4. CloseBegin
        BY <2>2, <3>1, <3>2, <3>3, TxsWriters
    <3>5. main = "closing" /\ CloseValid /\ UNCHANGED confirmedBy
        BY <3>4, Zenon DEF CloseBegin, wfVars, lifecycleVars
    <3>6. session.turnCount = closeReq.turnCount /\ LatestConclusionIs(closeReq.digest)
        BY <3>5, Zenon DEF CloseValid
    <3> QED BY <3>5, <3>6 DEF NamesLastTurn, LatestConclusionIs
  <2> QED BY <2>1, <2>2
<1>2. PICK d : d = closeReq.digest /\ NamesLastTurn(d)
    BY <1>1
<1>3. NamesLastTurn(d)'
    BY <1>0, <1>2, LastTurnStays
<1>4. closeReq'.digest = d
    BY <1>0, <1>1, <1>2, CloseRequestStays DEF NamesLastTurn
<1> QED BY <1>3, <1>4 DEF NamesLastTurn

LEMMA ClosedSessionNamesLastTurn ==
    ASSUME CurrentInv, [Next]_vars, session'.status = "closed",
           session'.reason = "human_confirmed"
    PROVE  NamesLastTurn(closedDigest)'
<1>0. TypeInv /\ DatabaseTyped /\ CloseInv
    BY DEF CurrentInv, CloseInv, TranscriptInv, TypeInv
<1>1. ASSUME NEW t \in txs, CloseCommit(t), session'.reason = closeReason
      PROVE  \E d : closedDigest' = d /\ NamesLastTurn(d)
  <2>1. t.kind = "close" /\ closedDigest' = closeReq.digest
      BY <1>1, Zenon DEF CloseCommit
  <2>2. confirmedBy # None
      BY <1>0, <1>1, NoneIsNoActor DEF CloseInv, ConfirmedInv
  <2> QED BY <2>1, <2>2 DEF CurrentInv
<1>2. \E d : closedDigest' = d /\ NamesLastTurn(d)
  <2>1. CASE UNCHANGED <<session, closedDigest>>
      BY <2>1 DEF CurrentInv
  <2>2. ASSUME NEW t \in txs, CloseCommit(t)
        PROVE  session'.reason = closeReason
    <3>1. t.kind = "close"
          /\ session' = [t.snap EXCEPT !.status = "closed", !.reason = closeReason]
        BY <2>2, Zenon DEF CloseCommit
    <3> QED BY <1>0, <3>1 DEF DatabaseTyped, Session, Tx, PersistTx, ApproveTx, CloseTx
  <2> QED BY <1>0, <1>1, <2>1, <2>2, SessionCloses, ClosedDigestWriters
<1>3. PICK d : closedDigest' = d /\ NamesLastTurn(d)
    BY <1>2
<1>4. NamesLastTurn(d)'
    BY <1>0, <1>3, LastTurnStays
<1> QED BY <1>3, <1>4 DEF NamesLastTurn

\* The conclusion a confirmed room was closed with is the last turn the close
\* was requested for, whatever turns superseded others before and whatever
\* was accepted while the room closed.
THEOREM ConfirmedCloseIsCurrent == Spec => []ConfirmedConclusionIsCurrent
<1>1. Init => CurrentInv
    BY CloseInvInit DEF Init, CurrentInv
<1>2. CurrentInv /\ [Next]_vars => CurrentInv'
  <2>1. CloseInv /\ [Next]_vars => CloseInv'
      BY ConfirmedInvNext, ClosingInvNext, OpenSnapInvNext, ConfirmedSessionInvNext,
         TaskInvNext, TranscriptInvNext DEF CloseInv
  <2> QED BY <2>1, CloseTxNamesLastTurn, ClosedSessionNamesLastTurn DEF CurrentInv
<1>3. CurrentInv => ConfirmedConclusionIsCurrent
    BY DEF CurrentInv, NamesLastTurn, ConfirmedConclusionIsCurrent
<1> QED BY <1>1, <1>2, <1>3, PTL DEF Spec

\* Once a session is closed and no transaction is left over from before the
\* close, no step changes a row of the room or opens a transaction on it:
\* every activity and the operator's close look at the session first.
THEOREM SettledRoomStays == Spec => SettledRoomIsFinal
<1>1. CloseInv /\ [Next]_vars =>
          [session.status = "closed" /\ txs = {} => UNCHANGED dbVars]_vars
  <2> SUFFICES ASSUME CloseInv, [Next]_vars, session.status = "closed", txs = {}
               PROVE  UNCHANGED dbVars
      OBVIOUS
  <2>1. main # "ensure"
      BY DEF CloseInv, TaskInv
  <2>2. ~PersistBegin /\ ~CloseBegin /\ ~UnavailableBegin
      BY Zenon DEF PersistBegin, CloseBegin, UnavailableBegin
  <2>3. ~ApproveBegin
      BY Zenon DEF ApproveBegin, ApprovalReadsMatch
  <2>4. UNCHANGED txs
      BY <2>2, <2>3, TxsWriters
  <2>5. UNCHANGED <<session, task, rows, savedApprovals, closedDigest>>
      BY <2>1, SessionWriters, TaskWriters, RowsWriters, SavedApprovalsWriters,
         ClosedDigestWriters
  <2> QED BY <2>4, <2>5 DEF dbVars
<1> QED BY <1>1, CloseInvariance, PTL DEF Spec, SettledRoomIsFinal

==============================================================================
