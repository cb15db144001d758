---------------------------- MODULE EvidenceGuard ----------------------------
(****************************************************************************)
(* What a diagnosis room remembers about the evidence its conclusion still  *)
(* needs, and the guard that refuses to confirm a conclusion before that    *)
(* evidence is there (diagnosis_room_workflow.go).  Two kinds of evidence:  *)
(*                                                                          *)
(*   gaps    missing_evidence_requests of a turn's output: a human has to   *)
(*           answer them, by a turn that carries supplemental evidence of   *)
(*           the same label and detail;                                     *)
(*   queries evidence_requests: executable, collected by the room after a   *)
(*           turn of its own (automation), or by an operator's collect      *)
(*           evidence update.                                               *)
(*                                                                          *)
(* The transcript, the approvals and the transactions under a turn are in   *)
(* DiagnosisRoom; a turn here is its admission and its end.  Signals and    *)
(* timeouts, which end the room without asking the guard, are there too.    *)
(****************************************************************************)
EXTENDS Integers, SequencesExt, FiniteSets

CONSTANTS
  Gaps,                       \* keys (label and detail) of missing evidence
  Queries,                    \* identities of executable requests
  Resolved,                   \* the identity a request's result reports
  InScope,                    \* requests on an alert source of the room
  None,
  MaxTurns,                   \* policy.MaxTurns
  MaxAutoEvidenceFollowUps,   \* policy.MaxAutoEvidenceFollowUps
  MaxMissing,                 \* maxDiagnosisRoomConsultationEvidenceRequests
  MaxManual                   \* maxDiagnosisRoomManualEvidenceRequests

\* A result reports its request with the template, the query and the limits
\* that were used: collected again, it resolves to itself.
ASSUME EvidenceAssumption ==
  /\ Resolved \in [Queries -> Queries]
  /\ \A q \in Queries : Resolved[Resolved[q]] = Resolved[q]
  /\ InScope \subseteq Queries
  /\ None \notin Gaps
  /\ MaxTurns \in Nat \ {0}
  /\ MaxAutoEvidenceFollowUps \in Nat
  /\ MaxMissing \in Nat /\ MaxMissing > 1
  /\ MaxManual \in Nat \ {0}

VARIABLES
  status,            \* "open" or "closed"
  turnCount,
  confidenceTimeline,\* gaps of all turns, the newest turn's first, no repeats
  supplemental,      \* operator answers: gap and the turn that carried it
  insight,           \* conclusion status and missing gaps of the latest turn
  finalConclusion,   \* None, or what the latest turn concluded
  latestRequests,    \* latestEvidenceRequests
  latestResults,     \* latestCollectionResults
  update,            \* the accepted turn or collection (inFlight)
  approving,         \* approvalInFlight
  outcome            \* history: how the latest attempt at a query ended

cycleVars == <<latestRequests, latestResults, outcome>>
turnVars == <<turnCount, confidenceTimeline, supplemental, insight, finalConclusion>>
vars == <<status, turnVars, cycleVars, update, approving>>

(* investigating and an empty status are treated as needs_evidence is.      *)
Statuses == {"needs_evidence", "ready_for_review", "final"}
Ready == {"ready_for_review", "final"}

(* A failed result, and one skipped for a timeout, a provider or a source,  *)
(* may be retried; every other skipped or unsupported one may not.          *)
Outcomes == {"collected", "retryable", "refused"}
Item == [query : Queries, outcome : Outcomes]

Missing == BoundedSeq(Gaps, MaxMissing)
Output == [status : Statuses, missing : Missing]
NoInsight == [status |-> "none", missing |-> <<>>]
IdleUpdate == [kind |-> "idle", actor |-> "user", gap |-> None, queries |-> {}, followUp |-> 0]
InitialTurn == [IdleUpdate EXCEPT !.kind = "initial", !.actor = "automation"]
NoAttempt == [q \in Queries |-> {}]

Init ==
  /\ status = "open"
  /\ turnCount = 0
  /\ confidenceTimeline = <<>>
  /\ supplemental = {}
  /\ insight = NoInsight
  /\ finalConclusion = None
  /\ latestRequests = {}
  /\ latestResults = {}
  /\ update \in {IdleUpdate, InitialTurn}
  /\ approving = FALSE
  /\ outcome = NoAttempt

(****************************************************************************)
(* Gaps.                                                                    *)
(****************************************************************************)
InFlight == update.kind # "idle"

Answered(answers) == {s.gap : s \in answers}

(* A result's topic key has no detail and an operator's answer always has   *)
(* one, so a topic is reviewed by no answer.                                *)
Reviewed(gap, turn) == [gap |-> gap, turn |-> turn] \in supplemental
ReviewedTopic(item) == FALSE

(* The gaps of a list in their order, each once and some of them skipped.   *)
OnceWithout(gaps, skipped) ==
  FoldLeft(LAMBDA kept, g : IF g \in skipped \cup ToSet(kept) THEN kept ELSE Append(kept, g),
           <<>>, gaps)

(* The gaps of earlier turns that no operator answered, newest first, are   *)
(* added to a turn's own as long as there is room.                          *)
Unresolved(missing, answers) ==
  OnceWithout(confidenceTimeline, Answered(answers) \cup ToSet(missing))

\* Mutant: the limit on a turn's missing evidence is not applied.
MergedMissingUncapped(missing, answers) == missing \o Unresolved(missing, answers)

\* Mutant: the gaps of earlier turns are not carried over.
MergedMissingForgets(missing, answers) == missing

MergedMissing(missing, answers) ==
  IF Len(missing) >= MaxMissing THEN missing
  ELSE LET merged == missing \o Unresolved(missing, answers)
       IN  SubSeq(merged, 1, IF Len(merged) < MaxMissing THEN Len(merged) ELSE MaxMissing)

(* An output with gaps left is not final.                                   *)
Preserved(output, answers) ==
  LET merged == MergedMissing(output.missing, answers)
  IN  [missing |-> merged,
       status |-> IF merged # <<>> /\ output.status = "final"
                    THEN "needs_evidence" ELSE output.status]

TimelineWith(merged) == OnceWithout(merged \o confidenceTimeline, {})

(****************************************************************************)
(* Queries.                                                                 *)
(****************************************************************************)
Identities(item) == {item.query, Resolved[item.query]}
AllIdentities(items) == UNION {Identities(i) : i \in items}

Pending(requests, results) ==
  requests \ AllIdentities({i \in results : i.outcome # "retryable"})

Retryable == AllIdentities({i \in latestResults : i.outcome = "retryable"})

\* Mutant: what was collected before wins over the new attempt.
MergedResultsKeepsOld(updates) ==
  latestResults \cup {u \in updates : Identities(u) \cap AllIdentities(latestResults) = {}}

MergedResults(updates) ==
  {i \in latestResults : Identities(i) \cap AllIdentities(updates) = {}} \cup updates

AttemptsOf(q, items) == {i.outcome : i \in {j \in items : q \in Identities(j)}}
Attempted(before, items) ==
  [q \in Queries |-> IF AttemptsOf(q, items) = {} THEN before[q] ELSE AttemptsOf(q, items)]

ResultsOf(queries) == {{[query |-> q, outcome |-> f[q]] : q \in queries} : f \in [queries -> Outcomes]}

AutoCollects(actor) == actor \in {"auto", "automation"}

(* An automatic follow-up that asks for nothing leaves the cycle it follows *)
(* in place; any other turn starts a new one.                               *)
KeepsCycle(actor, requests) == actor = "auto" /\ requests = {}

\* Mutant: every turn starts a new cycle.
LatestCycleAlwaysNew(actor, requests, items) ==
  /\ latestRequests' = requests
  /\ latestResults' = items
LatestCycle(actor, requests, items) ==
  IF KeepsCycle(actor, requests) /\ (latestRequests # {} \/ latestResults # {})
    THEN UNCHANGED <<latestRequests, latestResults>>
    ELSE latestRequests' = requests /\ latestResults' = items

(****************************************************************************)
(* The confirm guard.                                                       *)
(****************************************************************************)
ReviewedMissing(missing, conclusion) ==
  /\ missing # <<>>
  /\ conclusion \in Ready
  /\ \A g \in ToSet(missing) : Reviewed(g, turnCount)

Blocked ==
  \/ \E i \in latestResults : i.outcome # "collected" /\ ~ReviewedTopic(i)
  \/ insight.missing # <<>> /\ ~ReviewedMissing(insight.missing, insight.status)
  \/ Pending(latestRequests, latestResults) # {}
  \/ /\ finalConclusion # None
     /\ \/ /\ finalConclusion.missing # <<>>
           /\ ~ReviewedMissing(finalConclusion.missing, "ready_for_review")
        \/ Pending(finalConclusion.requests, latestResults) # {}

(* An approval is recorded for the final conclusion the room retains.       *)
MayConfirm ==
  /\ status = "open"
  /\ ~InFlight
  /\ ~approving
  /\ finalConclusion # None \/ insight.status \in Ready
  /\ ~Blocked
  /\ finalConclusion # None

(****************************************************************************)
(* Turns.                                                                   *)
(****************************************************************************)
CloseRoom == status' = "closed"

(* An operator's turn, with the supplemental evidence it may carry.         *)
SubmitTurn(gap) ==
  /\ ~InFlight
  /\ turnCount < MaxTurns
  /\ update' = [IdleUpdate EXCEPT !.kind = "turn", !.gap = gap]
  /\ UNCHANGED <<status, turnVars, cycleVars, approving>>

(* A turn's activity fails: nothing the turn did is applied.  The initial   *)
(* turn, with its follow-ups, closes the room.                              *)
TurnFails ==
  /\ update.kind \in {"turn", "initial"}
  /\ update' = IdleUpdate
  /\ IF update.kind = "initial" THEN CloseRoom ELSE UNCHANGED status
  /\ UNCHANGED <<turnVars, cycleVars, approving>>

(* Whether the room asks itself to use what a turn or a collection brought. *)
ShouldFollowUp(conclusion, requests, items) ==
  /\ status = "open"
  /\ update.followUp < MaxAutoEvidenceFollowUps
  /\ turnCount' < MaxTurns
  /\ conclusion = "needs_evidence"
  /\ requests # {}
  /\ items # {}

FollowUp == [update EXCEPT !.kind = IF @ = "initial" THEN @ ELSE "turn",
                           !.actor = "auto", !.gap = None, !.queries = {},
                           !.followUp = @ + 1]

(* A follow-up whose context has outgrown the room's policy is not run.     *)
Continues(conclusion, requests, items) ==
  \/ update' = IdleUpdate
  \/ ShouldFollowUp(conclusion, requests, items) /\ update' = FollowUp

Answers == supplemental \cup
           (IF update.gap = None THEN {}
            ELSE {[gap |-> update.gap, turn |-> turnCount + 1]})

(* The assistant's output is persisted with the gaps that must not be       *)
(* forgotten, its queries are collected when the room itself asked, and the *)
(* room's memory is brought up to date.                                     *)
TurnCompletes(requests) ==
  /\ update.kind \in {"turn", "initial"}
  /\ \E preserved \in {Preserved(output, Answers) : output \in Output},
        items \in ResultsOf(IF AutoCollects(update.actor) THEN requests ELSE {}) :
       /\ turnCount' = turnCount + 1
       /\ supplemental' = Answers
       /\ confidenceTimeline' = TimelineWith(preserved.missing)
       /\ insight' = preserved
       /\ finalConclusion' = IF preserved.status \in Ready
                               THEN [missing |-> preserved.missing, requests |-> requests]
                               ELSE None
       /\ LatestCycle(update.actor, requests, items)
       /\ outcome' = Attempted(IF KeepsCycle(update.actor, requests)
                                 THEN outcome ELSE NoAttempt, items)
       /\ Continues(preserved.status, requests, items)
  /\ UNCHANGED <<status, approving>>

(****************************************************************************)
(* An operator's collection.                                                *)
(****************************************************************************)
Approved ==
  Pending(latestRequests, latestResults) \cup Retryable \cup
  (IF finalConclusion = None THEN {} ELSE Pending(finalConclusion.requests, latestResults))

CollectEvidence(queries) ==
  /\ status = "open"
  /\ ~InFlight
  /\ turnCount > 0
  /\ Cardinality(queries) \in 1..MaxManual
  /\ queries \subseteq Approved \cup InScope
  /\ update' = [IdleUpdate EXCEPT !.kind = "collect", !.queries = queries]
  /\ UNCHANGED <<status, turnVars, cycleVars, approving>>

CollectFails ==
  /\ update.kind = "collect"
  /\ update' = IdleUpdate
  /\ UNCHANGED <<status, turnVars, cycleVars, approving>>

CollectCompletes ==
  /\ update.kind = "collect"
  /\ UNCHANGED <<status, turnVars, approving>>
  /\ \E items \in ResultsOf(update.queries) :
       /\ latestRequests' = latestRequests \cup update.queries
       /\ latestResults' = MergedResults(items)
       /\ outcome' = Attempted(outcome, items)
       /\ Continues("needs_evidence", update.queries, items)

(****************************************************************************)
(* Confirmation.  The approval is recorded by an activity; turns and        *)
(* collections may be admitted meanwhile.                                   *)
(****************************************************************************)
ConfirmConclusion ==
  /\ MayConfirm
  /\ approving' = TRUE
  /\ UNCHANGED <<status, turnVars, cycleVars, update>>

(* The last approval the room's mode asks for closes it.                    *)
ApprovalRecorded ==
  /\ approving
  /\ approving' = FALSE
  /\ UNCHANGED status \/ CloseRoom
  /\ UNCHANGED <<turnVars, cycleVars, update>>

Next ==
  \/ \E gap \in Gaps \cup {None} : SubmitTurn(gap)
  \/ TurnFails
  \/ \E requests \in SUBSET Queries : TurnCompletes(requests)
  \/ \E queries \in SUBSET Queries : CollectEvidence(queries)
  \/ CollectFails
  \/ CollectCompletes
  \/ ConfirmConclusion
  \/ ApprovalRecorded

Spec == Init /\ [][Next]_vars

(****************************************************************************)
(* Properties.                                                              *)
(****************************************************************************)
(* The room's memory is well formed: no turn keeps more missing evidence    *)
(* than the limit of its schema, and no more turns run than the policy has. *)
TypeOK ==
  /\ status \in {"open", "closed"}
  /\ turnCount \in 0..MaxTurns
  /\ confidenceTimeline \in Seq(Gaps)
  /\ supplemental \subseteq [gap : Gaps, turn : 1..MaxTurns]
  /\ insight \in Output \cup {NoInsight}
  /\ finalConclusion \in [missing : Missing, requests : SUBSET Queries] \cup {None}
  /\ latestRequests \subseteq Queries
  /\ latestResults \subseteq Item
  /\ update \in [kind : {"idle", "turn", "initial", "collect"},
                 actor : {"user", "auto", "automation"}, gap : Gaps \cup {None},
                 queries : SUBSET Queries, followUp : 0..MaxAutoEvidenceFollowUps]
  /\ approving \in BOOLEAN
  /\ outcome \in [Queries -> SUBSET Outcomes]

(* The latest output fills its list of missing evidence by repeating one    *)
(* request: the only way earlier gaps are pushed out of a reviewed          *)
(* conclusion.                                                              *)
RepeatsOneGap ==
  Len(insight.missing) = MaxMissing /\ Cardinality(ToSet(insight.missing)) < MaxMissing

(* No gap is lost on the way to a conclusion: whatever the assistant says   *)
(* in later turns, a room whose latest turn is final, or whose conclusion   *)
(* the confirm guard accepts, has an operator's answer to every piece of    *)
(* missing evidence any of its turns asked for                              *)
(* (preserveUnresolvedMissingEvidenceRequests, confirmEvidenceBlockReason). *)
GapsAreAnswered ==
  \/ ToSet(confidenceTimeline) \subseteq Answered(supplemental)
  \/ insight.status # "final" /\ (MayConfirm => RepeatsOneGap)

(* The guard sees the latest attempt of every query: when it accepts a      *)
(* confirmation, everything the latest cycle asked for, or an operator      *)
(* added to it, was collected at its last attempt, and no other query of    *)
(* the cycle is left failed, however often it was retried and under         *)
(* whatever identity (recordLatestEvidenceCycle,                            *)
(* mergeDiagnosisRoomCollectionResults, pendingDiagnosisRoomEvidenceRequests). *)
ConfirmedQueriesWereCollected ==
  MayConfirm =>
    /\ \A q \in latestRequests \cup finalConclusion.requests : outcome[q] = {"collected"}
    /\ \A q \in Queries : outcome[q] \subseteq {"collected"}
==============================================================================
