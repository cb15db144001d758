------------------------- MODULE EvidenceGuardProofs -------------------------
(* A room that confirms a conclusion has what the conclusion needs: an      *)
(* answer to every gap and a collected result for every query, for any      *)
(* gaps, queries, limits and numbers of turns.                              *)
EXTENDS EvidenceGuard, TLAPS, SequenceTheorems, FiniteSetTheorems, WellFoundedInduction

-----------------------------------------------------------------------------
(* What a fold over a list of gaps computes.  The invariants only need that *)
(* OnceWithout keeps every gap it is not told to skip and invents none.  A  *)
(* claim about all lengths is proved by its least counterexample.           *)

LEMMA Least ==
  ASSUME NEW T \in SUBSET Nat, T # {}
  PROVE  \E n \in T : \A k \in T : n <= k
PROOF
<1>1. PICK n \in T : \A k \in T : ~(<<k, n>> \in OpToRel(<, Nat))
  BY NatLessThanWellFounded, WFMin, Zenon
<1>2. ASSUME NEW k \in T PROVE n <= k
  <2>1. ~(<<k, n>> \in {ss \in Nat \X Nat : ss[1] < ss[2]})
    BY <1>1, Zenon DEF OpToRel
  <2> QED BY <2>1
<1> QED BY <1>2

\* The step of the fold.
Kept(kept, g, skipped) ==
  IF g \in skipped \cup ToSet(kept) THEN kept ELSE Append(kept, g)

\* The function by which FoldLeft goes through the first n gaps.
Pass(fold, gaps, skipped, n) ==
  [s \in SUBSET (1..n) |->
     IF s = {} THEN <<>> ELSE Kept(fold[s \ {Max(s)}], gaps[Max(s)], skipped)]

LEMMA LastIsMax ==
  ASSUME NEW n \in Nat, NEW s \in SUBSET (1..n), n \in s
  PROVE  Max(s) = n
PROOF
<1>1. \A x \in s : (\A y \in s : x >= y) => x = n
  OBVIOUS
<1>2. \A y \in s : n >= y
  OBVIOUS
<1> QED BY <1>1, <1>2 DEF Max

\* FoldLeft is well defined: its pass over a longer list continues the one
\* over a shorter list.
LEMMA PassExists ==
  ASSUME NEW gaps, NEW skipped, NEW n \in Nat
  PROVE  \E fold : fold = Pass(fold, gaps, skipped, n)
PROOF
<1> DEFINE Bad == {k \in Nat : ~ \E fold : fold = Pass(fold, gaps, skipped, k)}
<1>1. SUFFICES ASSUME Bad # {} PROVE FALSE
  OBVIOUS
<1>2. PICK k \in Bad : \A j \in Bad : k <= j
  BY <1>1, Least
<1>3. k \in Nat /\ ~ \E fold : fold = Pass(fold, gaps, skipped, k)
  BY <1>2
<1>4. CASE k = 0
  <2>1. PICK fold : fold = [s \in SUBSET (1..0) |-> <<>>]
    OBVIOUS
  <2>2. SUBSET (1..0) = {{}}
    OBVIOUS
  <2>3. fold = Pass(fold, gaps, skipped, 0)
    BY <2>1, <2>2 DEF Pass
  <2> QED BY <1>3, <1>4, <2>3
<1>5. CASE k # 0
  <2>1. k - 1 \in Nat /\ k - 1 \notin Bad
    BY <1>2, <1>3, <1>5
  <2>2. PICK less : less = Pass(less, gaps, skipped, k - 1)
    BY <2>1
  <2>3. PICK fold : fold = [s \in SUBSET (1..k) |->
                              IF k \in s THEN Kept(less[s \ {k}], gaps[k], skipped) ELSE less[s]]
    OBVIOUS
  <2>4. ASSUME NEW s \in SUBSET (1..k)
        PROVE  fold[s] = IF s = {} THEN <<>> ELSE Kept(fold[s \ {Max(s)}], gaps[Max(s)], skipped)
    <3>1. CASE k \in s
      <4>1. Max(s) = k
        BY <1>3, <3>1, LastIsMax
      <4>2. s \ {k} \in SUBSET (1..k) /\ k \notin s \ {k}
        OBVIOUS
      <4>3. fold[s \ {k}] = less[s \ {k}]
        BY <2>3, <4>2
      <4>4. fold[s] = Kept(less[s \ {k}], gaps[k], skipped)
        BY <2>3, <3>1
      <4> QED BY <3>1, <4>1, <4>3, <4>4
    <3>2. CASE k \notin s
      <4>1. s \in SUBSET (1..(k - 1))
        BY <1>3, <3>2
      <4>2. less[s] = IF s = {} THEN <<>> ELSE Kept(less[s \ {Max(s)}], gaps[Max(s)], skipped)
        BY <2>2, <4>1 DEF Pass
      <4>3. s \ {Max(s)} \in SUBSET (1..k) /\ k \notin s \ {Max(s)}
        BY <3>2
      <4>4. fold[s] = less[s] /\ fold[s \ {Max(s)}] = less[s \ {Max(s)}]
        BY <2>3, <3>2, <4>3
      <4> QED BY <4>2, <4>4
    <3> QED BY <3>1, <3>2
  <2>5. fold = Pass(fold, gaps, skipped, k)
    BY <2>3, <2>4 DEF Pass
  <2> QED BY <1>3, <2>5
<1> QED BY <1>4, <1>5

\* What OnceWithout does: every gap of the list that is not to be skipped is
\* kept, and nothing else is.
LEMMA OnceWithoutKeeps ==
  ASSUME NEW S, NEW gaps \in Seq(S), NEW skipped
  PROVE  /\ OnceWithout(gaps, skipped) \in Seq(S)
         /\ ToSet(gaps) \ skipped \subseteq ToSet(OnceWithout(gaps, skipped))
PROOF
<1> DEFINE N == Len(gaps)
           fold == CHOOSE f : f = Pass(f, gaps, skipped, N)
<1>0. N \in Nat /\ DOMAIN gaps = 1..N
  OBVIOUS
<1>1. OnceWithout(gaps, skipped) =
        (CHOOSE f : f = [s \in SUBSET DOMAIN gaps |->
            IF s = {} THEN <<>> ELSE Kept(f[s \ {Max(s)}], gaps[Max(s)], skipped)])[DOMAIN gaps]
  BY DEF OnceWithout, FoldLeft, MapThenFoldSet, Kept
<1>2. OnceWithout(gaps, skipped) = fold[1..N]
  BY <1>0, <1>1 DEF Pass
<1>3. fold = Pass(fold, gaps, skipped, N)
  BY <1>0, PassExists
<1> HIDE DEF fold
<1> DEFINE Good(n) == /\ fold[1..n] \in Seq(S)
                      /\ \A i \in 1..n : gaps[i] \in skipped \cup ToSet(fold[1..n])
           Bad == {n \in 0..N : ~Good(n)}
<1>4. Good(0)
  <2>1. {} \in SUBSET (1..N) /\ 1..0 = {}
    OBVIOUS
  <2>2. fold[1..0] = <<>>
    BY <1>3, <2>1 DEF Pass
  <2> QED BY <2>2
<1>5. ASSUME NEW n \in 1..N, Good(n - 1) PROVE Good(n)
  <2> HIDE DEF N
  <2>1. n \in Nat /\ n \in 1..n /\ 1..n \in SUBSET (1..N) /\ 1..n # {}
    BY <1>0
  <2>0. (1..n) \ {n} = 1..(n - 1)
    BY <2>1
  <2>2. Max(1..n) = n
    BY <2>1, LastIsMax
  <2>3. fold[1..n] = Kept(fold[1..(n - 1)], gaps[n], skipped)
    BY <1>3, <2>0, <2>1, <2>2 DEF Pass
  <2>4. PICK kept : kept = fold[1..(n - 1)]
    OBVIOUS
  <2>5. kept \in Seq(S) /\ gaps[n] \in S
    BY <1>0, <1>5, <2>4 DEF N
  <2>6. Kept(kept, gaps[n], skipped) \in Seq(S)
    BY <2>5 DEF Kept
  <2>7. ToSet(kept) \subseteq ToSet(Kept(kept, gaps[n], skipped))
    BY <2>5 DEF Kept, ToSet
  <2>8. gaps[n] \in skipped \cup ToSet(Kept(kept, gaps[n], skipped))
    <3>1. CASE gaps[n] \in skipped \cup ToSet(kept)
      BY <3>1 DEF Kept
    <3>2. CASE gaps[n] \notin skipped \cup ToSet(kept)
      <4>1. Append(kept, gaps[n])[Len(kept) + 1] = gaps[n] /\ Len(kept) + 1 \in DOMAIN Append(kept, gaps[n])
        BY <2>5
      <4> QED BY <3>2, <4>1 DEF Kept, ToSet
    <3> QED BY <3>1, <3>2
  <2>9. \A i \in 1..(n - 1) : gaps[i] \in skipped \cup ToSet(kept)
    BY <1>5, <2>4
  <2> QED BY <2>1, <2>3, <2>4, <2>6, <2>7, <2>8, <2>9
<1>6. Bad = {}
  <2>1. SUFFICES ASSUME Bad # {} PROVE FALSE
    OBVIOUS
  <2>0. Bad \in SUBSET Nat
    BY <1>0
  <2>2. PICK n \in Bad : \A j \in Bad : n <= j
    <3> HIDE DEF Bad
    <3> QED BY <2>0, <2>1, Least
  <2>3. n \in 0..N /\ ~Good(n)
    OBVIOUS
  <2>4. n # 0
    BY <1>4, <2>3
  <2>5. n - 1 \notin Bad /\ n - 1 \in 0..N
    BY <1>0, <2>2, <2>3, <2>4
  <2> QED BY <1>5, <2>3, <2>4, <2>5
<1>7. Good(N)
  BY <1>0, <1>6
<1>8. ToSet(gaps) = {gaps[i] : i \in 1..N}
  BY <1>0 DEF ToSet
<1> QED BY <1>2, <1>7, <1>8

-----------------------------------------------------------------------------
(* Lists of missing evidence.                                               *)

LEMMA MissingIs ==
  ASSUME NEW missing
  PROVE  missing \in Missing <=> missing \in Seq(Gaps) /\ Len(missing) <= MaxMissing
PROOF
<1>1. ASSUME missing \in Missing
      PROVE  missing \in Seq(Gaps) /\ Len(missing) <= MaxMissing
  <2>1. PICK n \in 0..MaxMissing : missing \in [1..n -> Gaps]
    BY <1>1 DEF Missing, BoundedSeq, SeqOf
  <2> QED BY <2>1, EvidenceAssumption
<1>2. ASSUME missing \in Seq(Gaps), Len(missing) <= MaxMissing
      PROVE  missing \in Missing
  <2>1. Len(missing) \in 0..MaxMissing /\ missing \in [1..Len(missing) -> Gaps]
    BY <1>2, EvidenceAssumption
  <2> QED BY <2>1 DEF Missing, BoundedSeq, SeqOf
<1> QED BY <1>1, <1>2

\* The list a turn is recorded with is within its limit, and either it is
\* full or it holds every earlier gap that no operator answered.
LEMMA MergedMissingCarries ==
  ASSUME confidenceTimeline \in Seq(Gaps), NEW missing \in Missing, NEW answers
  PROVE  /\ MergedMissing(missing, answers) \in Missing
         /\ \/ Len(MergedMissing(missing, answers)) = MaxMissing
            \/ ToSet(confidenceTimeline) \subseteq
                  Answered(answers) \cup ToSet(MergedMissing(missing, answers))
PROOF
<1>1. missing \in Seq(Gaps) /\ Len(missing) <= MaxMissing
  BY MissingIs
<1>2. PICK older : older = Unresolved(missing, answers)
  OBVIOUS
<1>3. /\ older \in Seq(Gaps)
      /\ ToSet(confidenceTimeline) \ (Answered(answers) \cup ToSet(missing)) \subseteq ToSet(older)
  BY <1>2, OnceWithoutKeeps DEF Unresolved
<1>4. CASE Len(missing) >= MaxMissing
  BY <1>1, <1>4, EvidenceAssumption DEF MergedMissing
<1>5. CASE ~(Len(missing) >= MaxMissing)
  <2>1. PICK merged : merged = missing \o older
    OBVIOUS
  <2>2. merged \in Seq(Gaps)
    BY <1>1, <1>3, <2>1
  <2>3. MergedMissing(missing, answers) =
          SubSeq(merged, 1, IF Len(merged) < MaxMissing THEN Len(merged) ELSE MaxMissing)
    BY <1>2, <1>5, <2>1 DEF MergedMissing
  <2>4. CASE Len(merged) < MaxMissing
    <3>1. MergedMissing(missing, answers) = merged
      BY <2>2, <2>3, <2>4
    <3>2. ToSet(missing) \cup ToSet(older) \subseteq ToSet(merged)
      <4>1. \A i \in DOMAIN missing : i \in DOMAIN merged /\ merged[i] = missing[i]
        BY <1>1, <1>3, <2>1
      <4>2. \A i \in DOMAIN older : /\ Len(missing) + i \in DOMAIN merged
                                   /\ merged[Len(missing) + i] = older[i]
        BY <1>1, <1>3, <2>1
      <4> QED BY <4>1, <4>2 DEF ToSet
    <3>3. merged \in Missing
      BY <2>2, <2>4, MissingIs, EvidenceAssumption
    <3> QED BY <1>3, <3>1, <3>2, <3>3
  <2>5. CASE ~(Len(merged) < MaxMissing)
    <3>1. /\ SubSeq(merged, 1, MaxMissing) \in Seq(Gaps)
          /\ Len(SubSeq(merged, 1, MaxMissing)) = MaxMissing
      BY <2>2, <2>5, EvidenceAssumption
    <3>2. MergedMissing(missing, answers) = SubSeq(merged, 1, MaxMissing)
      BY <2>3, <2>5
    <3>3. SubSeq(merged, 1, MaxMissing) \in Missing
      <4> DEFINE first == SubSeq(merged, 1, MaxMissing)
      <4>1. first \in Seq(Gaps) /\ Len(first) <= MaxMissing
        BY <3>1, EvidenceAssumption
      <4> HIDE DEF first
      <4>2. first \in Missing
        BY <4>1, MissingIs
      <4> QED BY <4>2 DEF first
    <3> QED BY <3>1, <3>2, <3>3
  <2> QED BY <2>4, <2>5
<1> QED BY <1>4, <1>5

LEMMA TimelineOf ==
  ASSUME confidenceTimeline \in Seq(Gaps), NEW merged \in Seq(Gaps)
  PROVE  /\ TimelineWith(merged) \in Seq(Gaps)
         /\ ToSet(TimelineWith(merged)) \subseteq ToSet(merged) \cup ToSet(confidenceTimeline)
PROOF
<1> DEFINE All == ToSet(merged) \cup ToSet(confidenceTimeline)
<1>1. merged \o confidenceTimeline \in Seq(All)
  <2>1. merged \in Seq(All) /\ confidenceTimeline \in Seq(All)
    BY DEF ToSet
  <2> QED BY <2>1
<1>2. All \subseteq Gaps
  BY DEF ToSet
<1>3. TimelineWith(merged) \in Seq(All)
  BY <1>1, OnceWithoutKeeps DEF TimelineWith
<1> QED BY <1>2, <1>3 DEF ToSet

LEMMA PreservedIs ==
  ASSUME confidenceTimeline \in Seq(Gaps), NEW output \in Output, NEW answers
  PROVE  /\ Preserved(output, answers) \in Output
         /\ Preserved(output, answers).missing = MergedMissing(output.missing, answers)
         /\ Preserved(output, answers).status = "final" =>
              Preserved(output, answers).missing = <<>>
PROOF
<1>1. output.missing \in Missing /\ output.status \in Statuses
  BY DEF Output
<1>2. PICK merged : merged = MergedMissing(output.missing, answers)
  OBVIOUS
<1>3. merged \in Missing
  BY <1>1, <1>2, MergedMissingCarries
<1>4. Preserved(output, answers) =
        [missing |-> merged,
         status |-> IF merged # <<>> /\ output.status = "final"
                      THEN "needs_evidence" ELSE output.status]
  BY <1>2 DEF Preserved
<1> QED BY <1>1, <1>2, <1>3, <1>4 DEF Output, Statuses

-----------------------------------------------------------------------------
(* Type correctness.  A turn runs only within the room's budget.            *)

TurnFits == update.kind \in {"turn", "initial"} => turnCount < MaxTurns

TypeInv == TypeOK /\ TurnFits

Updates ==
  [kind : {"idle", "turn", "initial", "collect"},
   actor : {"user", "auto", "automation"}, gap : Gaps \cup {None},
   queries : SUBSET Queries, followUp : 0..MaxAutoEvidenceFollowUps]

LEMMA ResultsAre ==
  ASSUME NEW queries \in SUBSET Queries, NEW items \in ResultsOf(queries)
  PROVE  items \subseteq Item /\ \A i \in items : i.query \in queries
PROOF
<1>1. PICK f \in [queries -> Outcomes] : items = {[query |-> q, outcome |-> f[q]] : q \in queries}
  BY DEF ResultsOf
<1>2. ASSUME NEW q \in queries
      PROVE  /\ [query |-> q, outcome |-> f[q]] \in Item
             /\ [query |-> q, outcome |-> f[q]].query \in queries
  BY DEF Item
<1> QED BY <1>1, <1>2

LEMMA AttemptsAre ==
  ASSUME NEW items \in SUBSET Item, NEW q
  PROVE  AttemptsOf(q, items) \subseteq Outcomes
PROOF
  BY DEF AttemptsOf, Item

LEMMA AttemptedIs ==
  ASSUME NEW items \in SUBSET Item, NEW before \in [Queries -> SUBSET Outcomes]
  PROVE  Attempted(before, items) \in [Queries -> SUBSET Outcomes]
PROOF
<1>1. \A q \in Queries : AttemptsOf(q, items) \subseteq Outcomes
  BY AttemptsAre
<1> QED BY <1>1 DEF Attempted

LEMMA IdleIs == IdleUpdate \in Updates /\ IdleUpdate.kind = "idle"
PROOF
  BY EvidenceAssumption DEF IdleUpdate, Updates

LEMMA TypeInit == Init => TypeInv
PROOF
<1> SUFFICES ASSUME Init PROVE TypeInv
  OBVIOUS
<1>1. update \in Updates /\ update.kind \in {"idle", "initial"}
  <2>1. InitialTurn \in Updates /\ InitialTurn.kind = "initial"
    BY IdleIs DEF InitialTurn, Updates
  <2> QED BY <2>1, IdleIs DEF Init
<1>2. <<>> \in Seq(Gaps) /\ turnCount \in 0..MaxTurns /\ turnCount < MaxTurns
  BY EvidenceAssumption DEF Init
<1>3. outcome \in [Queries -> SUBSET Outcomes]
  BY DEF Init, NoAttempt
<1> QED BY <1>1, <1>2, <1>3 DEF Init, TypeInv, TypeOK, TurnFits, Updates

\* An update ends, or goes on with a follow-up that the budgets allow.
LEMMA ContinuesIs ==
  ASSUME TypeOK, turnCount' \in Nat, NEW conclusion, NEW requests, NEW items,
         Continues(conclusion, requests, items)
  PROVE  /\ update' \in Updates
         /\ update'.kind \in {"turn", "initial"} => turnCount' < MaxTurns
PROOF
<1>1. CASE update' = IdleUpdate
  BY <1>1, IdleIs
<1>2. CASE ShouldFollowUp(conclusion, requests, items) /\ update' = FollowUp
  <2>1. update.followUp < MaxAutoEvidenceFollowUps /\ turnCount' < MaxTurns
    BY <1>2 DEF ShouldFollowUp
  <2>2. update \in Updates
    BY DEF TypeOK, Updates
  <2>3. update.followUp + 1 \in 0..MaxAutoEvidenceFollowUps
    BY <2>1, <2>2, EvidenceAssumption DEF Updates
  <2>4. FollowUp \in Updates
    BY <2>2, <2>3 DEF FollowUp, Updates
  <2> QED BY <1>2, <2>1, <2>4
<1> QED BY <1>1, <1>2 DEF Continues

\* What a completed turn writes.
LEMMA AnswersAre ==
  ASSUME TypeInv, update.kind \in {"turn", "initial"}
  PROVE  Answers \subseteq [gap : Gaps, turn : 1..MaxTurns] /\ turnCount + 1 \in 0..MaxTurns
PROOF
<1>1. turnCount \in Nat /\ turnCount < MaxTurns
  BY EvidenceAssumption DEF TypeInv, TypeOK, TurnFits
<1>2. turnCount + 1 \in 1..MaxTurns
  BY <1>1, EvidenceAssumption
<1>3. update.gap \in Gaps \cup {None} /\ supplemental \subseteq [gap : Gaps, turn : 1..MaxTurns]
  BY DEF TypeInv, TypeOK
<1>4. CASE update.gap = None
  BY <1>2, <1>3, <1>4 DEF Answers
<1>5. CASE update.gap # None
  <2>1. [gap |-> update.gap, turn |-> turnCount + 1] \in [gap : Gaps, turn : 1..MaxTurns]
    BY <1>2, <1>3, <1>5
  <2> QED BY <1>2, <1>3, <1>5, <2>1 DEF Answers
<1> QED BY <1>4, <1>5

\* One completed turn, with its output and its collection named.
TurnWrites(requests, output, items) ==
  LET preserved == Preserved(output, Answers) IN
  /\ update.kind \in {"turn", "initial"}
  /\ turnCount' = turnCount + 1
  /\ supplemental' = Answers
  /\ confidenceTimeline' = TimelineWith(preserved.missing)
  /\ insight' = preserved
  /\ finalConclusion' = IF preserved.status \in Ready
                          THEN [missing |-> preserved.missing, requests |-> requests]
                          ELSE None
  /\ LatestCycle(update.actor, requests, items)
  /\ outcome' = Attempted(IF KeepsCycle(update.actor, requests) THEN outcome ELSE NoAttempt, items)
  /\ Continues(preserved.status, requests, items)
  /\ UNCHANGED <<status, approving>>

LEMMA TurnCompletesIs ==
  ASSUME NEW requests \in SUBSET Queries, TurnCompletes(requests)
  PROVE  \E output \in Output, collected \in {requests, {}} : \E items \in ResultsOf(collected) :
            TurnWrites(requests, output, items)
PROOF
<1>1. PICK preserved \in {Preserved(output, Answers) : output \in Output},
           items \in ResultsOf(IF AutoCollects(update.actor) THEN requests ELSE {}) :
        /\ turnCount' = turnCount + 1
        /\ supplemental' = Answers
        /\ confidenceTimeline' = TimelineWith(preserved.missing)
        /\ insight' = preserved
        /\ finalConclusion' = IF preserved.status \in Ready
                                THEN [missing |-> preserved.missing, requests |-> requests]
                                ELSE None
        /\ LatestCycle(update.actor, requests, items)
        /\ outcome' = Attempted(IF KeepsCycle(update.actor, requests)
                                  THEN outcome ELSE NoAttempt, items)
        /\ Continues(preserved.status, requests, items)
  BY Zenon DEF TurnCompletes
<1>2. PICK output \in Output : preserved = Preserved(output, Answers)
  OBVIOUS
<1>3. update.kind \in {"turn", "initial"} /\ UNCHANGED <<status, approving>>
  BY DEF TurnCompletes
<1>4. TurnWrites(requests, output, items)
  BY <1>1, <1>2, <1>3, Zenon DEF TurnWrites
<1>5. PICK collected : collected = IF AutoCollects(update.actor) THEN requests ELSE {}
  OBVIOUS
<1>6. collected \in {requests, {}} /\ items \in ResultsOf(collected)
  BY <1>5
<1> QED BY <1>2, <1>4, <1>6

LEMMA TurnWritesTypes ==
  ASSUME TypeInv, NEW requests \in SUBSET Queries, NEW output \in Output, NEW items \in SUBSET Item,
         TurnWrites(requests, output, items)
  PROVE  TypeInv'
PROOF
<1>1. PICK preserved : preserved = Preserved(output, Answers)
  OBVIOUS
<1>2. confidenceTimeline \in Seq(Gaps)
  BY DEF TypeInv, TypeOK
<1>3. preserved \in Output /\ preserved.missing \in Missing
  BY <1>1, <1>2, PreservedIs DEF Output
<1>4. preserved.missing \in Seq(Gaps)
  BY <1>3, MissingIs
<1>5. /\ turnCount' \in 0..MaxTurns
      /\ supplemental' \subseteq [gap : Gaps, turn : 1..MaxTurns]
  BY AnswersAre DEF TurnWrites
<1>6. confidenceTimeline' \in Seq(Gaps)
  BY <1>1, <1>2, <1>4, TimelineOf DEF TurnWrites
<1>7. insight' \in Output
  BY <1>1, <1>3 DEF TurnWrites
<1>8. finalConclusion' \in [missing : Missing, requests : SUBSET Queries] \cup {None}
  BY <1>1, <1>3 DEF TurnWrites
<1>9. latestRequests' \subseteq Queries /\ latestResults' \subseteq Item
  BY DEF TurnWrites, LatestCycle, TypeInv, TypeOK
<1>10. outcome' \in [Queries -> SUBSET Outcomes]
  <2>1. outcome \in [Queries -> SUBSET Outcomes] /\ NoAttempt \in [Queries -> SUBSET Outcomes]
    BY DEF TypeInv, TypeOK, NoAttempt
  <2>2. PICK before \in [Queries -> SUBSET Outcomes] : outcome' = Attempted(before, items)
    BY <2>1 DEF TurnWrites
  <2> QED BY <2>2, AttemptedIs
<1>11. update' \in Updates /\ TurnFits'
  <2>1. turnCount' \in Nat /\ Continues(preserved.status, requests, items)
    BY <1>1, <1>5, EvidenceAssumption DEF TurnWrites
  <2>2. TypeOK
    BY DEF TypeInv
  <2> QED BY <2>1, <2>2, ContinuesIs DEF TurnFits
<1>12. status' \in {"open", "closed"} /\ approving' \in BOOLEAN
  BY DEF TurnWrites, TypeInv, TypeOK
<1> QED BY <1>5, <1>6, <1>7, <1>8, <1>9, <1>10, <1>11, <1>12 DEF TypeInv, TypeOK, Updates

LEMMA CollectTypes ==
  ASSUME TypeInv, CollectCompletes PROVE TypeInv'
PROOF
<1>1. PICK items \in ResultsOf(update.queries) :
        /\ latestRequests' = latestRequests \cup update.queries
        /\ latestResults' = MergedResults(items)
        /\ outcome' = Attempted(outcome, items)
        /\ Continues("needs_evidence", update.queries, items)
  BY DEF CollectCompletes
<1>2. update.queries \in SUBSET Queries
  BY DEF TypeInv, TypeOK
<1>3. items \in SUBSET Item
  BY <1>2, ResultsAre
<1>4. latestRequests' \subseteq Queries /\ latestResults' \subseteq Item
  BY <1>1, <1>2, <1>3 DEF MergedResults, TypeInv, TypeOK
<1>5. outcome' \in [Queries -> SUBSET Outcomes]
  BY <1>1, <1>3, AttemptedIs DEF TypeInv, TypeOK
<1>6. UNCHANGED <<status, turnVars, approving>>
  BY DEF CollectCompletes
<1>7. update' \in Updates /\ TurnFits'
  <2>1. turnCount' \in Nat /\ TypeOK
    BY <1>6, EvidenceAssumption DEF TypeInv, TypeOK, turnVars
  <2> QED BY <1>1, <2>1, ContinuesIs DEF TurnFits
<1> QED BY <1>4, <1>5, <1>6, <1>7 DEF TypeInv, TypeOK, Updates, turnVars

LEMMA TypeNext == TypeInv /\ [Next]_vars => TypeInv'
PROOF
<1> SUFFICES ASSUME TypeInv, [Next]_vars PROVE TypeInv'
  OBVIOUS
<1>1. ASSUME NEW gap \in Gaps \cup {None}, SubmitTurn(gap) PROVE TypeInv'
  <2>1. update' \in Updates /\ TurnFits'
    BY <1>1, IdleIs DEF SubmitTurn, Updates, TurnFits, turnVars
  <2> QED BY <1>1, <2>1 DEF SubmitTurn, TypeInv, TypeOK, Updates, turnVars, cycleVars
<1>2. CASE TurnFails
  <2>1. update' \in Updates /\ TurnFits'
    BY <1>2, IdleIs DEF TurnFails, TurnFits
  <2> QED BY <1>2, <2>1 DEF TurnFails, CloseRoom, TypeInv, TypeOK, Updates, turnVars, cycleVars
<1>3. ASSUME NEW requests \in SUBSET Queries, TurnCompletes(requests) PROVE TypeInv'
  <2>1. PICK output \in Output, collected \in {requests, {}} : \E items \in ResultsOf(collected) :
            TurnWrites(requests, output, items)
    BY <1>3, TurnCompletesIs
  <2>2. PICK items \in ResultsOf(collected) : TurnWrites(requests, output, items)
    BY <2>1
  <2>3. items \in SUBSET Item
    BY <2>2, ResultsAre
  <2> QED BY <2>2, <2>3, TurnWritesTypes
<1>4. ASSUME NEW queries \in SUBSET Queries, CollectEvidence(queries) PROVE TypeInv'
  <2>1. update' \in Updates /\ TurnFits'
    BY <1>4, IdleIs DEF CollectEvidence, Updates, TurnFits
  <2> QED BY <1>4, <2>1 DEF CollectEvidence, TypeInv, TypeOK, Updates, turnVars, cycleVars
<1>5. CASE CollectFails
  <2>1. update' \in Updates /\ TurnFits'
    BY <1>5, IdleIs DEF CollectFails, TurnFits
  <2> QED BY <1>5, <2>1 DEF CollectFails, TypeInv, TypeOK, Updates, turnVars, cycleVars
<1>6. CASE CollectCompletes
  BY <1>6, CollectTypes
<1>7. CASE ConfirmConclusion
  BY <1>7 DEF ConfirmConclusion, TypeInv, TypeOK, TurnFits, turnVars, cycleVars
<1>8. CASE ApprovalRecorded
  BY <1>8 DEF ApprovalRecorded, CloseRoom, TypeInv, TypeOK, TurnFits, turnVars, cycleVars
<1>9. CASE UNCHANGED vars
  BY <1>9 DEF vars, TypeInv, TypeOK, TurnFits, turnVars, cycleVars
<1> QED BY <1>1, <1>2, <1>3, <1>4, <1>5, <1>6, <1>7, <1>8, <1>9 DEF Next


-----------------------------------------------------------------------------
(* Gaps.  A turn carries at most one answer, and what a turn records as     *)
(* missing either fills its list or holds every unanswered gap of the room. *)

AnswersInv ==
  /\ \A s \in supplemental : s.turn <= turnCount
  /\ \A s, t \in supplemental : s.turn = t.turn => s = t

CarriedInv ==
  \/ Len(insight.missing) = MaxMissing
  \/ ToSet(confidenceTimeline) \subseteq Answered(supplemental) \cup ToSet(insight.missing)

FinalInv == insight.status = "final" => insight.missing = <<>>

GapInv == AnswersInv /\ CarriedInv /\ FinalInv

LEMMA GapInit == Init => GapInv
PROOF
  BY DEF Init, GapInv, AnswersInv, CarriedInv, FinalInv, NoInsight, ToSet

LEMMA TurnWritesGaps ==
  ASSUME TypeInv, GapInv, NEW requests, NEW output \in Output, NEW items,
         TurnWrites(requests, output, items)
  PROVE  GapInv'
PROOF
<1>1. PICK preserved : preserved = Preserved(output, Answers)
  OBVIOUS
<1>2. confidenceTimeline \in Seq(Gaps) /\ turnCount \in Nat
  BY EvidenceAssumption DEF TypeInv, TypeOK
<1>3. /\ preserved \in Output
      /\ preserved.missing = MergedMissing(output.missing, Answers)
      /\ preserved.status = "final" => preserved.missing = <<>>
  BY <1>1, <1>2, PreservedIs
<1>4. preserved.missing \in Seq(Gaps) /\ output.missing \in Missing
  BY <1>3, MissingIs DEF Output
<1>5. /\ turnCount' = turnCount + 1 /\ supplemental' = Answers
      /\ confidenceTimeline' = TimelineWith(preserved.missing) /\ insight' = preserved
  BY <1>1 DEF TurnWrites
<1>6. AnswersInv'
  <2>1. ASSUME NEW s \in Answers
        PROVE  \/ s \in supplemental /\ s.turn <= turnCount
               \/ s = [gap |-> update.gap, turn |-> turnCount + 1]
    BY DEF Answers, GapInv, AnswersInv
  <2>2. \A s \in supplemental : s.turn \in Nat
    BY EvidenceAssumption DEF TypeInv, TypeOK
  <2>3. ASSUME NEW s \in Answers PROVE s.turn <= turnCount + 1
    BY <1>2, <2>1, <2>2
  <2>4. ASSUME NEW s \in Answers, NEW t \in Answers, s.turn = t.turn PROVE s = t
    BY <1>2, <2>1, <2>2, <2>4 DEF GapInv, AnswersInv
  <2> QED BY <1>5, <2>3, <2>4 DEF AnswersInv
<1>7. CarriedInv'
  <2>1. \/ Len(preserved.missing) = MaxMissing
        \/ ToSet(confidenceTimeline) \subseteq Answered(Answers) \cup ToSet(preserved.missing)
    BY <1>2, <1>3, <1>4, MergedMissingCarries
  <2>2. ToSet(TimelineWith(preserved.missing)) \subseteq
          ToSet(preserved.missing) \cup ToSet(confidenceTimeline)
    BY <1>2, <1>4, TimelineOf
  <2>3. \/ Len(preserved.missing) = MaxMissing
        \/ ToSet(TimelineWith(preserved.missing)) \subseteq Answered(Answers) \cup ToSet(preserved.missing)
    BY <2>1, <2>2
  <2> QED BY <1>5, <2>3 DEF CarriedInv, Answered, ToSet
<1>8. FinalInv'
  BY <1>3, <1>5 DEF FinalInv
<1> QED BY <1>6, <1>7, <1>8 DEF GapInv

\* Nothing but a completed turn touches gaps and answers.
LEMMA TurnVarsWriters ==
  ASSUME [Next]_vars
  PROVE  \/ \E requests \in SUBSET Queries : TurnCompletes(requests)
         \/ UNCHANGED turnVars
PROOF
  BY DEF Next, SubmitTurn, TurnFails, CollectEvidence, CollectFails, CollectCompletes,
         ConfirmConclusion, ApprovalRecorded, vars

LEMMA GapNext == TypeInv /\ GapInv /\ [Next]_vars => GapInv'
PROOF
<1> SUFFICES ASSUME TypeInv, GapInv, [Next]_vars PROVE GapInv'
  OBVIOUS
<1>1. ASSUME NEW requests \in SUBSET Queries, TurnCompletes(requests) PROVE GapInv'
  <2>1. PICK output \in Output, collected \in {requests, {}} : \E items \in ResultsOf(collected) :
            TurnWrites(requests, output, items)
    BY <1>1, TurnCompletesIs
  <2> QED BY <2>1, TurnWritesGaps
<1>2. CASE UNCHANGED turnVars
  BY <1>2 DEF turnVars, GapInv, AnswersInv, CarriedInv, FinalInv
<1> QED BY <1>1, <1>2, TurnVarsWriters

LEMMA GapsFollow == TypeInv /\ GapInv => GapsAreAnswered
PROOF
<1> SUFFICES ASSUME TypeInv, GapInv, ~(ToSet(confidenceTimeline) \subseteq Answered(supplemental))
             PROVE  insight.status # "final" /\ (MayConfirm => RepeatsOneGap)
  BY DEF GapsAreAnswered
<1>1. insight.missing # <<>>
  BY EvidenceAssumption DEF GapInv, CarriedInv, ToSet
<1>2. insight.missing \in Seq(Gaps)
  <2>1. insight \in Output
    BY <1>1 DEF TypeInv, TypeOK, NoInsight
  <2> QED BY <2>1, MissingIs DEF Output
<1>3. ASSUME MayConfirm PROVE RepeatsOneGap
  <2>1. \A g \in ToSet(insight.missing) : [gap |-> g, turn |-> turnCount] \in supplemental
    BY <1>1, <1>3 DEF MayConfirm, Blocked, ReviewedMissing, Reviewed
  <2>2. ASSUME NEW g \in ToSet(insight.missing) PROVE g \in Answered(supplemental)
    <3>1. [gap |-> g, turn |-> turnCount].gap = g
      OBVIOUS
    <3>2. PICK s \in supplemental : s.gap = g
      BY <2>1, <3>1, Zenon
    <3> QED BY <3>2 DEF Answered
  <2>3. Len(insight.missing) = MaxMissing
    BY <2>2 DEF GapInv, CarriedInv
  <2>4. ASSUME NEW g \in ToSet(insight.missing), NEW h \in ToSet(insight.missing) PROVE g = h
    <3>1. [gap |-> g, turn |-> turnCount] = [gap |-> h, turn |-> turnCount]
      BY <2>1 DEF GapInv, AnswersInv
    <3> QED BY <3>1
  <2>5. insight.missing[1] \in ToSet(insight.missing)
    BY <1>1, <1>2 DEF ToSet
  <2>6. ToSet(insight.missing) = {insight.missing[1]}
    BY <2>4, <2>5
  <2>7. Cardinality(ToSet(insight.missing)) = 1
    BY <2>6, FS_Singleton
  <2> QED BY <2>3, <2>7, EvidenceAssumption DEF RepeatsOneGap
<1> QED BY <1>1, <1>3 DEF GapInv, FinalInv

-----------------------------------------------------------------------------
(* Queries.  The results the room keeps say how the latest attempt at every *)
(* query ended; a query whose result another one replaced is still among    *)
(* the requests, where the guard finds it pending.                          *)

TrackedInv == \A q \in Queries :
  AttemptsOf(q, latestResults) # {} => outcome[q] = AttemptsOf(q, latestResults)

ReplacedInv == \A q \in Queries :
  outcome[q] # {} /\ AttemptsOf(q, latestResults) = {} => q \in latestRequests

RequestedInv == \A i \in latestResults : i.query \in latestRequests

QueryInv == TrackedInv /\ ReplacedInv /\ RequestedInv

LEMMA AttemptOf ==
  ASSUME NEW items, NEW q
  PROVE  /\ \A i \in items : q \in Identities(i) => i.outcome \in AttemptsOf(q, items)
         /\ \A o \in AttemptsOf(q, items) : \E i \in items : q \in Identities(i) /\ o = i.outcome
PROOF
  BY DEF AttemptsOf

\* A result that is replaced for a query other than its own leaves no other
\* result of that query behind: what resolves, resolves to itself.
LEMMA ReplacedWhole ==
  ASSUME NEW items \in SUBSET Item, NEW updates \in SUBSET Item, NEW q \in Queries,
         AttemptsOf(q, updates) = {},
         NEW old \in items, q \in Identities(old),
         Identities(old) \cap AllIdentities(updates) # {}
  PROVE  /\ q = old.query
         /\ \A i \in items : q \in Identities(i) => Identities(i) \cap AllIdentities(updates) # {}
PROOF
<1>1. PICK u \in updates, r \in Identities(old) : r \in Identities(u)
  BY DEF AllIdentities
<1>2. q \notin Identities(u)
  BY AttemptOf
<1>3. old.query \in Queries /\ u.query \in Queries
  BY DEF Item
<1>4. q = old.query
  BY <1>1, <1>2, <1>3, EvidenceAssumption DEF Identities
<1>5. r = Resolved[q] /\ Resolved[q] # q
  BY <1>1, <1>2, <1>4 DEF Identities
<1>6. ASSUME NEW i \in items, q \in Identities(i)
      PROVE  Identities(i) \cap AllIdentities(updates) # {}
  <2>1. i.query \in Queries
    BY DEF Item
  <2>2. i.query = q
    BY <1>5, <1>6, <2>1, EvidenceAssumption DEF Identities
  <2>3. r \in Identities(i)
    BY <1>5, <2>2 DEF Identities
  <2> QED BY <1>1, <2>3 DEF AllIdentities
<1> QED BY <1>4, <1>6

LEMMA QueryInit == Init => QueryInv
PROOF
  BY DEF Init, QueryInv, TrackedInv, ReplacedInv, RequestedInv, NoAttempt, AttemptsOf

\* A turn either leaves the cycle alone or starts a new one.
LEMMA TurnWritesQueries ==
  ASSUME TypeInv, QueryInv, NEW requests \in SUBSET Queries, NEW output,
         NEW collected \in {requests, {}}, NEW items \in ResultsOf(collected),
         TurnWrites(requests, output, items)
  PROVE  QueryInv'
PROOF
<1>1. items \in SUBSET Item /\ \A i \in items : i.query \in requests
  BY ResultsAre
<1>2. outcome \in [Queries -> SUBSET Outcomes]
  BY DEF TypeInv, TypeOK
<1>3. CASE KeepsCycle(update.actor, requests)
  <2>1. requests = {} /\ items = {}
    BY <1>1, <1>3 DEF KeepsCycle
  <2>2. latestRequests' = latestRequests /\ latestResults' = latestResults
    BY <1>3, <2>1 DEF TurnWrites, LatestCycle
  <2>3. outcome' = outcome
    <3>1. outcome' = Attempted(outcome, items)
      BY <1>3 DEF TurnWrites
    <3>2. \A q \in Queries : AttemptsOf(q, items) = {}
      BY <2>1 DEF AttemptsOf
    <3> QED BY <1>2, <3>1, <3>2 DEF Attempted
  <2> QED BY <2>2, <2>3 DEF QueryInv, TrackedInv, ReplacedInv, RequestedInv, AttemptsOf, Identities
<1>4. CASE ~KeepsCycle(update.actor, requests)
  <2>1. latestRequests' = requests /\ latestResults' = items
    BY <1>4 DEF TurnWrites, LatestCycle
  <2>2. outcome' = Attempted(NoAttempt, items)
    BY <1>4 DEF TurnWrites
  <2>3. \A q \in Queries : outcome'[q] = AttemptsOf(q, items)
    BY <2>2 DEF Attempted, NoAttempt
  <2>4. \A q \in Queries : AttemptsOf(q, latestResults)' = AttemptsOf(q, items)
    BY <2>1 DEF AttemptsOf, Identities
  <2> QED BY <1>1, <2>1, <2>3, <2>4 DEF QueryInv, TrackedInv, ReplacedInv, RequestedInv
<1> QED BY <1>3, <1>4

LEMMA CollectQueries ==
  ASSUME TypeInv, QueryInv, CollectCompletes PROVE QueryInv'
PROOF
<1>1. PICK items \in ResultsOf(update.queries) :
        /\ latestRequests' = latestRequests \cup update.queries
        /\ latestResults' = MergedResults(items)
        /\ outcome' = Attempted(outcome, items)
  BY DEF CollectCompletes
<1>2. items \in SUBSET Item /\ \A i \in items : i.query \in update.queries
  BY ResultsAre DEF TypeInv, TypeOK
<1>3. latestResults \in SUBSET Item
  BY DEF TypeInv, TypeOK
<1>4. PICK merged : merged = MergedResults(items)
  OBVIOUS
<1>5. \A i : i \in merged <=>
         i \in items \/ (i \in latestResults /\ Identities(i) \cap AllIdentities(items) = {})
  BY <1>4 DEF MergedResults
<1>6. ASSUME NEW q \in Queries
      PROVE  /\ AttemptsOf(q, merged) # {} => outcome'[q] = AttemptsOf(q, merged)
             /\ outcome'[q] # {} /\ AttemptsOf(q, merged) = {} => q \in latestRequests
  <2>1. CASE AttemptsOf(q, items) # {}
    <3>1. outcome'[q] = AttemptsOf(q, items)
      BY <1>1, <2>1 DEF Attempted
    <3>2. q \in AllIdentities(items)
      BY <2>1, AttemptOf DEF AllIdentities
    <3>3. \A i \in merged : q \in Identities(i) => i \in items
      BY <1>5, <3>2
    <3>4. AttemptsOf(q, merged) = AttemptsOf(q, items)
      BY <1>5, <3>3 DEF AttemptsOf
    <3> QED BY <2>1, <3>1, <3>4
  <2>2. CASE AttemptsOf(q, items) = {}
    <3>1. outcome'[q] = outcome[q]
      BY <1>1, <2>2 DEF Attempted
    <3>2. \A i \in items : q \notin Identities(i)
      BY <2>2, AttemptOf
    <3>3. CASE \E old \in latestResults : q \in Identities(old)
                  /\ Identities(old) \cap AllIdentities(items) # {}
      <4>1. PICK old \in latestResults : q \in Identities(old)
                  /\ Identities(old) \cap AllIdentities(items) # {}
        BY <3>3
      <4>2. /\ q = old.query
            /\ \A i \in latestResults : q \in Identities(i) =>
                  Identities(i) \cap AllIdentities(items) # {}
        BY <1>2, <1>3, <2>2, <4>1, ReplacedWhole
      <4>3. \A i \in merged : q \notin Identities(i)
        BY <1>5, <3>2, <4>2
      <4>4. AttemptsOf(q, merged) = {}
        BY <4>3 DEF AttemptsOf
      <4> QED BY <4>1, <4>2, <4>4 DEF QueryInv, RequestedInv
    <3>4. CASE ~ \E old \in latestResults : q \in Identities(old)
                  /\ Identities(old) \cap AllIdentities(items) # {}
      <4>1. \A i : i \in merged /\ q \in Identities(i) <=> i \in latestResults /\ q \in Identities(i)
        BY <1>5, <3>2, <3>4
      <4>2. AttemptsOf(q, merged) = AttemptsOf(q, latestResults)
        BY <4>1 DEF AttemptsOf
      <4> QED BY <3>1, <4>2 DEF QueryInv, TrackedInv, ReplacedInv
    <3> QED BY <3>3, <3>4
  <2> QED BY <2>1, <2>2
<1>7. \A i \in merged : i.query \in latestRequests \cup update.queries
  BY <1>2, <1>5 DEF QueryInv, RequestedInv
<1>8. \A q : AttemptsOf(q, latestResults)' = AttemptsOf(q, merged)
  BY <1>1, <1>4 DEF AttemptsOf, Identities
<1> QED BY <1>1, <1>4, <1>6, <1>7, <1>8 DEF QueryInv, TrackedInv, ReplacedInv, RequestedInv

LEMMA CycleWriters ==
  ASSUME [Next]_vars
  PROVE  \/ \E requests \in SUBSET Queries : TurnCompletes(requests)
         \/ CollectCompletes
         \/ UNCHANGED cycleVars
PROOF
  BY DEF Next, SubmitTurn, TurnFails, CollectEvidence, CollectFails,
         ConfirmConclusion, ApprovalRecorded, vars

LEMMA QueryNext == TypeInv /\ QueryInv /\ [Next]_vars => QueryInv'
PROOF
<1> SUFFICES ASSUME TypeInv, QueryInv, [Next]_vars PROVE QueryInv'
  OBVIOUS
<1>1. ASSUME NEW requests \in SUBSET Queries, TurnCompletes(requests) PROVE QueryInv'
  <2>1. PICK output \in Output, collected \in {requests, {}} : \E items \in ResultsOf(collected) :
            TurnWrites(requests, output, items)
    BY <1>1, TurnCompletesIs
  <2> QED BY <2>1, TurnWritesQueries
<1>2. CASE UNCHANGED cycleVars
  BY <1>2 DEF cycleVars, QueryInv, TrackedInv, ReplacedInv, RequestedInv, AttemptsOf, Identities
<1> QED BY <1>1, <1>2, CycleWriters, CollectQueries

LEMMA QueriesFollow == TypeInv /\ QueryInv => ConfirmedQueriesWereCollected
PROOF
<1> SUFFICES ASSUME TypeInv, QueryInv, MayConfirm
             PROVE  /\ \A q \in latestRequests \cup finalConclusion.requests : outcome[q] = {"collected"}
                    /\ \A q \in Queries : outcome[q] \subseteq {"collected"}
  BY DEF ConfirmedQueriesWereCollected
<1>1. \A i \in latestResults : i.outcome = "collected"
  BY DEF MayConfirm, Blocked, ReviewedTopic
<1>2. \A q : AttemptsOf(q, latestResults) \subseteq {"collected"}
  BY <1>1, AttemptOf
<1>3. ASSUME NEW requests, NEW q \in requests, Pending(requests, latestResults) = {}
      PROVE  AttemptsOf(q, latestResults) = {"collected"}
  <2>1. PICK i \in latestResults : q \in Identities(i)
    BY <1>3 DEF Pending, AllIdentities
  <2> QED BY <1>2, <2>1, AttemptOf
<1>4. ASSUME NEW q \in latestRequests \cup finalConclusion.requests
      PROVE  q \in Queries /\ outcome[q] = {"collected"}
  <2>1. /\ Pending(latestRequests, latestResults) = {}
        /\ Pending(finalConclusion.requests, latestResults) = {}
        /\ finalConclusion # None
    BY DEF MayConfirm, Blocked
  <2>2. latestRequests \subseteq Queries /\ finalConclusion.requests \subseteq Queries
    BY <2>1 DEF TypeInv, TypeOK
  <2>3. AttemptsOf(q, latestResults) = {"collected"}
    BY <1>3, <2>1
  <2> QED BY <2>2, <2>3 DEF QueryInv, TrackedInv
<1>5. ASSUME NEW q \in Queries PROVE outcome[q] \subseteq {"collected"}
  BY <1>2, <1>4 DEF QueryInv, TrackedInv, ReplacedInv
<1> QED BY <1>4, <1>5

-----------------------------------------------------------------------------
(* The theorems.                                                            *)

IInv == TypeInv /\ GapInv /\ QueryInv

LEMMA IInvInit == Init => IInv
PROOF
  BY TypeInit, GapInit, QueryInit DEF IInv

LEMMA IInvNext == IInv /\ [Next]_vars => IInv'
PROOF
  BY TypeNext, GapNext, QueryNext DEF IInv

LEMMA IInvFollows == IInv => TypeOK /\ GapsAreAnswered /\ ConfirmedQueriesWereCollected
PROOF
  BY GapsFollow, QueriesFollow DEF IInv, TypeInv

\* The inductive invariant: types and turn budget, what became of gaps, what
\* became of queries (runDiagnosisRoomTurn, collectDiagnosisEvidence).
THEOREM InvariantHolds == Spec => []IInv
PROOF
  BY IInvInit, IInvNext, PTL DEF Spec

\* The room's memory of evidence is well formed and within its limits, and no
\* turn runs beyond the policy's (validateSubmit, recordConfidenceTimelineEntry).
THEOREM TypeCorrect == Spec => []TypeOK
PROOF
  BY InvariantHolds, IInvFollows, PTL

\* No gap that any turn raised is lost on the way to a conclusion
\* (preserveUnresolvedMissingEvidenceRequests, confirmEvidenceBlockReason).
THEOREM GapsHold == Spec => []GapsAreAnswered
PROOF
  BY InvariantHolds, IInvFollows, PTL

\* What the confirm guard accepts was collected at its latest attempt
\* (mergeDiagnosisRoomCollectionResults, pendingDiagnosisRoomEvidenceRequests).
THEOREM QueriesHold == Spec => []ConfirmedQueriesWereCollected
PROOF
  BY InvariantHolds, IInvFollows, PTL

=============================================================================
