-------------------------- MODULE AlertIntakeProofs --------------------------
(***************************************************************************)
(* The intake of alerts for any set of alerts, any number of overlapping   *)
(* requests, redeliveries and failures, and any limits: what a snapshot    *)
(* shows, and what a request that succeeds has done.                       *)
(***************************************************************************)
EXTENDS AlertIntake, TLAPS, FiniteSetTheorems, SequenceTheorems

(***************************************************************************)
(* The inductive invariant.                                                *)
(***************************************************************************)

Evidences == UNION {[A -> Status] : A \in SUBSET Alerts}
Headers == [count : Nat, last : Nat]
Snapshots == [group : Groups, evidence : Evidences]
Places == Policies \X Nat

Loads == [firing : SUBSET Alerts, resolved : SUBSET (Alerts \X Ends),
          from : Nat, to : Nat, policy : 0 .. MaxPolicy]

Handlers == [pc : Pcs, todo : SUBSET Alerts, resolving : SUBSET (Alerts \X Ends),
             errors : BOOLEAN, policy : 0 .. MaxPolicy, listed : Evidences,
             drafts : SUBSET KeySet, found : Groups \cup {NoGroup},
             before : Headers, evidence : Evidences, refs : Seq(Nat),
             plan : Seq(Places), planned : 0 .. MaxRooms, skipped : SUBSET Places]

RowsTyped ==
  /\ events \in [Alerts -> Status \cup {"none"}]
  /\ header \in [Groups -> Headers]
  /\ links \in [Groups -> SUBSET Alerts]
  /\ snapshots \in Seq(Snapshots)

DiagnosisTyped ==
  /\ rooms \subseteq Policies \X DOMAIN snapshots
  /\ confirmed \subseteq rooms
  /\ superseded \subseteq DOMAIN snapshots
  /\ batch \in [Replays -> SUBSET DOMAIN snapshots]

CountersTyped == redelivered \in 0 .. MaxRedeliveries /\ faults \in 0 .. MaxFaults

RequestsTyped == payload \in [Requests -> Loads] /\ req \in [Requests -> Handlers]

\* What a request holds it took from its payload and from the rows.
InBounds(r) ==
  /\ req[r].todo \subseteq payload[r].firing
  /\ req[r].resolving \subseteq payload[r].resolved
  /\ \A i \in DOMAIN req[r].refs : req[r].refs[i] \in DOMAIN snapshots
  /\ \A i \in DOMAIN req[r].plan : req[r].plan[i][2] \in DOMAIN snapshots
  /\ \A x \in req[r].skipped : x[2] \in DOMAIN snapshots

TypeInv == /\ RowsTyped /\ DiagnosisTyped /\ CountersTyped /\ RequestsTyped
           /\ \A r \in Requests : InBounds(r)

\* Evidence is of stored alerts, and what it says of a resolved one holds.
Honest(E) == \A a \in DOMAIN E : /\ events[a] # "none"
                                 /\ E[a] # "firing" => events[a] = E[a]

\* Alerts are linked to groups that exist, of their key and not younger.
LinksSound ==
  \A g \in Groups : \A a \in links[g] :
    Exists(g) /\ events[a] # "none" /\ a[1] = g[1] /\ g[2] <= a[2]

SnapshotsSound ==
  \A s \in DOMAIN snapshots :
    /\ Honest(snapshots[s].evidence)
    /\ DOMAIN snapshots[s].evidence # {}
    /\ DOMAIN snapshots[s].evidence \subseteq links[snapshots[s].group]
    /\ \A t \in DOMAIN snapshots : snapshots[t] = snapshots[s] => t = s

\* A draft under way: between its reads and its first write others may commit,
\* but the group it found stays, and the evidence it read stays true.
DraftSound(r, k) ==
  LET E == req[r].evidence
      g == req[r].found
  IN /\ AlertsOf(req[r].listed, k) # {}
     /\ AlertsOf(req[r].listed, k) \subseteq DOMAIN E
     /\ \A a \in DOMAIN E : a[1] = k
     /\ g # NoGroup => g[1] = k /\ Exists(g)
     /\ g = NoGroup => req[r].before = NoHeader

ReplaySound(r) ==
  /\ Honest(req[r].listed) /\ Honest(req[r].evidence)
  /\ req[r].pc \in {"read", "write"} => req[r].drafts \subseteq Keys(req[r].listed)
  /\ req[r].pc = "write" => \A k \in KeySet : IsNextDraft(r, k) => DraftSound(r, k)
  /\ req[r].pc # "write" => req[r].found = NoGroup /\ req[r].before = NoHeader

EvidenceInv ==
  /\ LinksSound /\ SnapshotsSound /\ HeaderDescribesEvidence
  /\ \A r \in Requests : ReplaySound(r)

\* The alerts of a request that its window is asked for, and where they show.
Mine(r) == {a \in payload[r].firing : InWindow(r, a)}
Shows(s, a) == s \in DOMAIN snapshots /\ a \in DOMAIN snapshots[s].evidence
InRefs(r, a) == \E i \in DOMAIN req[r].refs : Shows(req[r].refs[i], a)

\* What has become, or will become, of the room of policy p for snapshot s.
Settled(r, p, s) ==
  \/ <<p, s>> \in rooms
  \/ \E i \in DOMAIN req[r].plan : req[r].plan[i] = <<p, s>>
  \/ <<p, s>> \in req[r].skipped /\ req[r].planned = MaxRooms
  \/ \E q \in Policies : <<q, s>> \in confirmed

Diagnosed(r, p) ==
  \A a \in Mine(r) : \E s \in DOMAIN snapshots : Shows(s, a) /\ Settled(r, p, s)

PolicySound(r) ==
  /\ req[r].pc # "idle" => /\ payload[r].policy \in Policies
                           /\ r \in Webhooks => payload[r].policy = 1
  /\ req[r].pc \notin {"idle", "failed"} => req[r].policy \in Policies
  /\ req[r].pc \notin {"idle", "failed"} /\ (r \in Replays \/ req[r].pc = "ingest") =>
        req[r].policy = payload[r].policy

\* The alerts of a request, from the payload to the rooms.
Replaying == {"list", "read", "write", "replayed", "plan"}

AlertsFollowed(r) ==
  /\ req[r].pc = "ingest" =>
        \A a \in payload[r].firing :
           a \in req[r].todo \/ req[r].errors \/ events[a] # "none"
  /\ req[r].pc \in Replaying =>
        /\ \A a \in payload[r].firing : events[a] # "none"
        /\ r \in Webhooks => \A p \in Policies : p < req[r].policy => Diagnosed(r, p)
  /\ req[r].pc \in {"read", "write"} =>
        \A a \in Mine(r) : /\ a \in DOMAIN req[r].listed
                           /\ a[1] \in req[r].drafts \/ req[r].errors \/ InRefs(r, a)
  /\ req[r].pc = "replayed" => req[r].errors \/ \A a \in Mine(r) : InRefs(r, a)
  /\ req[r].pc = "plan" => \A a \in Mine(r) : InRefs(r, a)
  /\ req[r].pc \in {"start", "done"} => \A p \in PoliciesOf(r) : Diagnosed(r, p)
  /\ req[r].pc = "ingest" \/ (r \in Replays /\ req[r].pc \in Replaying) =>
        req[r].plan = << >>
  /\ req[r].pc = "start" => req[r].plan # << >>
  /\ req[r].pc = "done" => req[r].plan = << >>

FollowInv == \A r \in Requests : PolicySound(r) /\ AlertsFollowed(r)

Inv == TypeInv /\ EvidenceInv /\ FollowInv

-----------------------------------------------------------------------------
(***************************************************************************)
(* Sets of alerts.                                                         *)
(***************************************************************************)

LEMMA AlertParts ==
  \A a \in Alerts : /\ a[1] \in Nat /\ a[2] \in Nat /\ a[2] # 0 /\ a = <<a[1], a[2]>>
                    /\ a[1] \in KeySet /\ a[2] \in Times
BY AlertsAssumption DEF KeySet, Times

LEMMA TimesAreNat == Times \subseteq Nat
BY AlertsAssumption DEF Times

LEMMA NoGroupIsNone == NoGroup \notin Groups
BY AlertParts DEF Groups, NoGroup

LEMMA FiniteAlerts == \A A \in SUBSET Alerts : IsFiniteSet(A) /\ Cardinality(A) \in Nat
BY AlertsAssumption, FS_Subset, FS_CardinalityType

\* Among finitely many alerts there is a first and a last.  A smallest set
\* without one has an alert, and what is left without it has one.
LEMMA FirstAlert ==
  ASSUME NEW A \in SUBSET Alerts, A # {}
  PROVE  \E a \in A : \A b \in A : a[2] <= b[2]
PROOF
<1> DEFINE Bad == {B \in SUBSET Alerts : B # {} /\ \A a \in B : \E b \in B : ~(a[2] <= b[2])}
<1>1. SUFFICES ASSUME A \in Bad PROVE FALSE
  OBVIOUS
<1>2. IsWellFoundedOn(StrictSubsetOrdering(Alerts), SUBSET Alerts)
  BY FS_StrictSubsetOrderingWellFounded, FS_FiniteSubsetsOfFinite, AlertsAssumption
<1>3. PICK B \in Bad : \A C \in Bad : ~(<<C, B>> \in StrictSubsetOrdering(Alerts))
  BY <1>1, <1>2, WFMin, Zenon
<1>4. PICK a \in B : TRUE
  OBVIOUS
<1>5. B \ {a} \notin Bad
  BY <1>3, <1>4 DEF StrictSubsetOrdering
<1>6. CASE B \ {a} = {}
  BY <1>4, <1>6, AlertParts
<1>7. CASE B \ {a} # {}
  BY <1>4, <1>5, <1>7, AlertParts
<1> QED BY <1>6, <1>7

LEMMA LastAlert ==
  ASSUME NEW A \in SUBSET Alerts, A # {}
  PROVE  \E a \in A : \A b \in A : b[2] <= a[2]
PROOF
<1> DEFINE Bad == {B \in SUBSET Alerts : B # {} /\ \A a \in B : \E b \in B : ~(b[2] <= a[2])}
<1>1. SUFFICES ASSUME A \in Bad PROVE FALSE
  OBVIOUS
<1>2. IsWellFoundedOn(StrictSubsetOrdering(Alerts), SUBSET Alerts)
  BY FS_StrictSubsetOrderingWellFounded, FS_FiniteSubsetsOfFinite, AlertsAssumption
<1>3. PICK B \in Bad : \A C \in Bad : ~(<<C, B>> \in StrictSubsetOrdering(Alerts))
  BY <1>1, <1>2, WFMin, Zenon
<1>4. PICK a \in B : TRUE
  OBVIOUS
<1>5. B \ {a} \notin Bad
  BY <1>3, <1>4 DEF StrictSubsetOrdering
<1>6. CASE B \ {a} = {}
  BY <1>4, <1>6, AlertParts
<1>7. CASE B \ {a} # {}
  BY <1>4, <1>5, <1>7, AlertParts
<1> QED BY <1>6, <1>7

LEMMA EarliestIs ==
  ASSUME NEW A \in SUBSET Alerts, A # {}
  PROVE  /\ Earliest(A) \in Nat
         /\ \E a \in A : a[2] = Earliest(A)
         /\ \A a \in A : Earliest(A) <= a[2]
BY FirstAlert, AlertParts, TimesAreNat DEF Earliest

LEMMA LatestIs ==
  ASSUME NEW A \in SUBSET Alerts, A # {}
  PROVE  Latest(A) \in Nat
BY LastAlert, AlertParts, TimesAreNat DEF Latest

LEMMA HeaderIs ==
  ASSUME NEW A \in SUBSET Alerts, A # {}
  PROVE  HeaderOf(A) \in Headers /\ HeaderOf(A) # NoHeader
BY LatestIs, FiniteAlerts, FS_EmptySet DEF HeaderOf, Headers, NoHeader

LEMMA EvidenceIs ==
  ASSUME NEW E
  PROVE  E \in Evidences <=> IsEvidence(E)
BY DEF Evidences, IsEvidence

LEMMA EvidenceTyped ==
  ASSUME NEW E \in Evidences
  PROVE  /\ DOMAIN E \subseteq Alerts
         /\ \A a \in DOMAIN E : E[a] \in Status
BY DEF Evidences

LEMMA NoEvidenceTyped == NoEvidence \in Evidences /\ DOMAIN NoEvidence = {}
BY DEF Evidences, NoEvidence, Status

LEMMA StatusIs == "none" \notin Status /\ "firing" \in Status
BY EndsAssumption DEF Status

LEMMA DraftIs ==
  ASSUME NEW E \in Evidences, NEW k \in Keys(E)
  PROVE  AlertsOf(E, k) # {} /\ AlertsOf(E, k) \subseteq DOMAIN E
                             /\ AlertsOf(E, k) \in SUBSET Alerts
BY EvidenceTyped DEF Keys, AlertsOf

LEMMA KeysTyped == \A E \in Evidences : Keys(E) \subseteq KeySet
BY EvidenceTyped, AlertParts DEF Keys

\* The order of the drafts names the next one.
LEMMA OneNextDraft ==
  ASSUME NEW r, NEW E \in Evidences, req[r].listed = E,
         req[r].drafts \subseteq Keys(E),
         NEW j, IsNextDraft(r, j), NEW k, IsNextDraft(r, k)
  PROVE  j = k
PROOF
<1> DEFINE first(x) == Earliest(AlertsOf(E, x))
<1>1. j \in Keys(E) /\ k \in Keys(E)
  BY DEF IsNextDraft
<1>2. first(j) \in Nat /\ first(k) \in Nat
  BY <1>1, DraftIs, EarliestIs
<1>3. j \in Nat /\ k \in Nat
  BY <1>1, EvidenceTyped, AlertParts DEF Keys
<1>4. j # k => first(j) < first(k) \/ (first(j) = first(k) /\ j < k)
  BY DEF IsNextDraft
<1>5. j # k => first(k) < first(j) \/ (first(j) = first(k) /\ k < j)
  BY DEF IsNextDraft
<1> HIDE DEF first
<1> QED BY <1>2, <1>3, <1>4, <1>5

LEMMA IdleTyped == Idle \in Handlers
BY NoEvidenceTyped, BoundsAssumption, EmptySeq
   DEF Idle, Handlers, Pcs, NoHeader, Headers

-----------------------------------------------------------------------------
(***************************************************************************)
(* How a step moves the handler of its request.                            *)
(***************************************************************************)

OthersKeep(r) == /\ req' \in [Requests -> Handlers]
                 /\ \A q \in Requests \ {r} : req'[q] = req[q]

LEMMA HandlerMoves ==
  ASSUME req \in [Requests -> Handlers], NEW r \in Requests,
         NEW h \in Handlers, req' = [req EXCEPT ![r] = h]
  PROVE  OthersKeep(r) /\ req'[r] = h
BY DEF OthersKeep

LEMMA HandlerFields ==
  ASSUME req \in [Requests -> Handlers], NEW r \in Requests
  PROVE  /\ req[r] \in Handlers
         /\ req[r].pc \in Pcs /\ req[r].errors \in BOOLEAN
         /\ req[r].todo \subseteq Alerts /\ req[r].resolving \subseteq Alerts \X Ends
         /\ req[r].policy \in 0 .. MaxPolicy /\ req[r].planned \in 0 .. MaxRooms
         /\ req[r].listed \in Evidences /\ req[r].evidence \in Evidences
         /\ req[r].drafts \subseteq KeySet
         /\ req[r].found \in Groups \cup {NoGroup} /\ req[r].before \in Headers
         /\ req[r].refs \in Seq(Nat) /\ req[r].plan \in Seq(Places)
         /\ req[r].skipped \subseteq Places
BY DEF Handlers

\* The updates of several fields at once.
LEMMA ListedTyped ==
  ASSUME NEW h \in Handlers, NEW pc \in Pcs, NEW E \in Evidences,
         NEW drafts \in SUBSET KeySet, NEW refs \in Seq(Nat)
  PROVE  [h EXCEPT !.pc = pc, !.listed = E, !.drafts = drafts, !.refs = refs] \in Handlers
BY DEF Handlers

LEMMA SkippedTyped ==
  ASSUME NEW h \in Handlers, NEW drafts \in SUBSET KeySet, NEW pc \in Pcs,
         NEW g \in Groups \cup {NoGroup}, NEW before \in Headers, NEW E \in Evidences
  PROVE  [h EXCEPT !.drafts = drafts, !.errors = TRUE, !.pc = pc, !.found = g,
                   !.before = before, !.evidence = E] \in Handlers
BY DEF Handlers

LEMMA ReadTyped ==
  ASSUME NEW h \in Handlers, NEW pc \in Pcs, NEW g \in Groups \cup {NoGroup},
         NEW before \in Headers, NEW E \in Evidences
  PROVE  /\ [h EXCEPT !.pc = pc, !.evidence = E] \in Handlers
         /\ [h EXCEPT !.pc = pc, !.found = g, !.before = before,
                      !.evidence = E] \in Handlers
BY DEF Handlers

LEMMA WrittenTyped ==
  ASSUME NEW h \in Handlers, NEW refs \in Seq(Nat), NEW drafts \in SUBSET KeySet,
         NEW pc \in Pcs, NEW g \in Groups \cup {NoGroup}, NEW before \in Headers,
         NEW E \in Evidences
  PROVE  [h EXCEPT !.refs = refs, !.drafts = drafts, !.pc = pc, !.found = g,
                   !.before = before, !.evidence = E] \in Handlers
BY DEF Handlers

LEMMA PlannedTyped ==
  ASSUME NEW h \in Handlers, NEW plan \in Seq(Places), NEW n \in 0 .. MaxRooms,
         NEW skipped \in SUBSET Places, NEW p \in 0 .. MaxPolicy, NEW pc \in Pcs,
         NEW E \in Evidences, NEW refs \in Seq(Nat)
  PROVE  [h EXCEPT !.plan = plan, !.planned = n, !.skipped = skipped, !.policy = p,
                   !.pc = pc, !.listed = E, !.refs = refs] \in Handlers
BY DEF Handlers

LEMMA StoringTyped ==
  ASSUME NEW h \in Handlers, NEW todo \in SUBSET Alerts,
         NEW resolving \in SUBSET (Alerts \X Ends), NEW errors \in BOOLEAN
  PROVE  /\ [h EXCEPT !.todo = todo] \in Handlers
         /\ [h EXCEPT !.todo = todo, !.errors = errors] \in Handlers
         /\ [h EXCEPT !.resolving = resolving, !.errors = errors] \in Handlers
BY DEF Handlers

LEMMA MovedTyped ==
  ASSUME NEW h \in Handlers, NEW pc \in Pcs, NEW plan \in Seq(Places)
  PROVE  /\ [h EXCEPT !.pc = pc] \in Handlers
         /\ [h EXCEPT !.plan = plan, !.pc = pc] \in Handlers
BY DEF Handlers

LEMMA IngestMoves ==
  ASSUME req \in [Requests -> Handlers], NEW r \in Requests, NEW a,
         IngestAlert(r, a)
  PROVE  /\ OthersKeep(r)
         /\ req'[r] = [req[r] EXCEPT !.todo = @ \ {a}]
PROOF
<1> DEFINE todo == req[r].todo \ {a}
           h == [req[r] EXCEPT !.todo = todo]
<1>1. req' = [req EXCEPT ![r] = h]
  BY DEF IngestAlert
<1>2. h \in Handlers
  <2>1. todo \in SUBSET Alerts
    BY HandlerFields
  <2> HIDE DEF todo
  <2> QED BY <2>1, HandlerFields, StoringTyped
<1> QED BY <1>1, <1>2, HandlerMoves

LEMMA IngestFailsMoves ==
  ASSUME req \in [Requests -> Handlers], NEW r \in Requests, NEW a,
         IngestFails(r, a)
  PROVE  /\ OthersKeep(r)
         /\ req'[r] = [req[r] EXCEPT !.todo = @ \ {a}, !.errors = TRUE]
PROOF
<1> DEFINE todo == req[r].todo \ {a}
           h == [req[r] EXCEPT !.todo = todo, !.errors = TRUE]
<1>1. req' = [req EXCEPT ![r] = h]
  BY DEF IngestFails
<1>2. h \in Handlers
  <2>1. todo \in SUBSET Alerts
    BY HandlerFields
  <2> HIDE DEF todo
  <2> QED BY <2>1, HandlerFields, StoringTyped
<1> QED BY <1>1, <1>2, HandlerMoves

LEMMA ResolveMoves ==
  ASSUME req \in [Requests -> Handlers], NEW r \in Requests, NEW e,
         ResolveAlert(r, e)
  PROVE  /\ OthersKeep(r)
         /\ \E failed \in BOOLEAN :
              /\ req'[r] = [req[r] EXCEPT !.resolving = @ \ {e}, !.errors = failed]
              /\ req[r].errors => failed
PROOF
<1> DEFINE failed == req[r].errors \/ events[e[1]] \notin {"none", "firing", e[2]}
           resolving == req[r].resolving \ {e}
           h == [req[r] EXCEPT !.resolving = resolving, !.errors = failed]
<1>1. req' = [req EXCEPT ![r] = h]
  BY DEF ResolveAlert
<1>2. failed \in BOOLEAN /\ (req[r].errors => failed)
  OBVIOUS
<1>3. h \in Handlers
  <2>1. resolving \in SUBSET (Alerts \X Ends)
    BY HandlerFields
  <2> HIDE DEF failed, resolving
  <2> QED BY <1>2, <2>1, HandlerFields, StoringTyped
<1>4. OthersKeep(r) /\ req'[r] = h
  BY <1>1, <1>3, HandlerMoves
<1> QED BY <1>2, <1>4

LEMMA DeliverMoves ==
  ASSUME req \in [Requests -> Handlers], NEW r \in Requests, NEW load \in Loads,
         Deliver(r, load)
  PROVE  /\ OthersKeep(r)
         /\ req'[r] = [Idle EXCEPT !.pc = "ingest", !.todo = load.firing,
                                   !.resolving = load.resolved, !.policy = load.policy]
PROOF
<1> DEFINE h == [Idle EXCEPT !.pc = "ingest", !.todo = load.firing,
                             !.resolving = load.resolved, !.policy = load.policy]
<1>1. req' = [req EXCEPT ![r] = h]
  BY DEF Deliver
<1>2. h \in Handlers
  <2>1. /\ load.firing \subseteq Alerts /\ load.resolved \subseteq Alerts \X Ends
        /\ load.policy \in 0 .. MaxPolicy
    BY DEF Loads
  <2> QED BY <2>1, IdleTyped DEF Handlers, Pcs
<1> QED BY <1>1, <1>2, HandlerMoves

LEMMA EndIngestMoves ==
  ASSUME req \in [Requests -> Handlers], NEW r \in Requests, EndIngest(r)
  PROVE  /\ OthersKeep(r)
         /\ \E pc \in {"failed", "done", "list"} :
              /\ req'[r] = [req[r] EXCEPT !.pc = pc]
              /\ pc # "failed" => ~req[r].errors
              /\ pc = "done" => r \in Webhooks /\ payload[r].firing = {}
PROOF
<1> DEFINE pc == IF req[r].errors THEN "failed"
                 ELSE IF r \in Webhooks /\ payload[r].firing = {} THEN "done"
                 ELSE "list"
           h == [req[r] EXCEPT !.pc = pc]
<1>1. req' = [req EXCEPT ![r] = h]
  BY DEF EndIngest
<1>2. /\ pc \in {"failed", "done", "list"}
      /\ pc # "failed" => ~req[r].errors
      /\ pc = "done" => r \in Webhooks /\ payload[r].firing = {}
  OBVIOUS
<1>3. h \in Handlers
  <2>1. pc \in Pcs
    BY <1>2 DEF Pcs
  <2>2. << >> \in Seq(Places)
    OBVIOUS
  <2> HIDE DEF pc
  <2> QED BY <2>1, <2>2, HandlerFields, MovedTyped
<1>4. OthersKeep(r) /\ req'[r] = h
  BY <1>1, <1>3, HandlerMoves
<1> QED BY <1>2, <1>4

LEMMA ListMoves ==
  ASSUME req \in [Requests -> Handlers], RowsTyped, NEW r \in Requests, ListWindow(r)
  PROVE  /\ OthersKeep(r)
         /\ \E listed \in Evidences, pc \in {"failed", "replayed", "read"} :
              /\ req'[r] = [req[r] EXCEPT !.pc = pc, !.listed = listed,
                                          !.drafts = Keys(listed), !.refs = << >>]
              /\ \A a \in DOMAIN listed : events[a] # "none" /\ listed[a] = events[a]
              /\ \A a \in Mine(r) : events[a] # "none" /\ a \in Alerts => a \in DOMAIN listed
              /\ pc = "replayed" => DOMAIN listed = {}
PROOF
<1> DEFINE mine == {a \in Alerts : /\ events[a] # "none" /\ InWindow(r, a)
                                   /\ r \in Webhooks => a \in payload[r].firing}
           listed == [a \in mine |-> events[a]]
           pc == IF Cardinality(mine) > Limit THEN "failed"
                 ELSE IF mine = {} THEN "replayed" ELSE "read"
           h == [req[r] EXCEPT !.pc = pc, !.listed = listed,
                               !.drafts = Keys(listed), !.refs = << >>]
<1>1. req' = [req EXCEPT ![r] = h]
  BY DEF ListWindow
<1>2. listed \in Evidences
  <2>1. \A a \in mine : events[a] \in Status
    BY DEF RowsTyped
  <2>2. listed \in [mine -> Status] /\ mine \in SUBSET Alerts
    BY <2>1
  <2> QED BY <2>2 DEF Evidences
<1>3. /\ pc \in {"failed", "replayed", "read"}
      /\ pc = "replayed" => mine = {}
  OBVIOUS
<1>4. /\ \A a \in mine : events[a] # "none"
      /\ \A a \in Mine(r) : events[a] # "none" /\ a \in Alerts => a \in mine
  BY DEF Mine
<1>5. h \in Handlers
  <2>1. Keys(listed) \subseteq KeySet
    BY <1>2, KeysTyped
  <2>2. pc \in Pcs
    BY <1>3 DEF Pcs
  <2>3. << >> \in Seq(Nat)
    OBVIOUS
  <2> HIDE DEF pc, listed
  <2> QED BY <1>2, <2>1, <2>2, <2>3, HandlerFields, ListedTyped
<1>6. OthersKeep(r) /\ req'[r] = h
  BY <1>1, <1>5, HandlerMoves
<1>7. DOMAIN listed = mine /\ \A a \in mine : listed[a] = events[a]
  OBVIOUS
<1> HIDE DEF mine, listed, pc
<1> QED BY <1>2, <1>3, <1>4, <1>6, <1>7

LEMMA SkipMoves ==
  ASSUME req \in [Requests -> Handlers], NEW r \in Requests, NEW k, Skip(r, k)
  PROVE  /\ OthersKeep(r)
         /\ \E pc \in {"replayed", "read"} :
              req'[r] = [req[r] EXCEPT !.drafts = @ \ {k}, !.errors = TRUE, !.pc = pc,
                           !.found = NoGroup, !.before = NoHeader, !.evidence = NoEvidence]
PROOF
<1> DEFINE pc == IF req[r].drafts = {k} THEN "replayed" ELSE "read"
           h == [req[r] EXCEPT !.drafts = @ \ {k}, !.errors = TRUE, !.pc = pc,
                   !.found = NoGroup, !.before = NoHeader, !.evidence = NoEvidence]
<1>1. req' = [req EXCEPT ![r] = h]
  BY DEF Skip
<1>2. pc \in {"replayed", "read"}
  OBVIOUS
<1>3. h \in Handlers
  <2>1. req[r].drafts \ {k} \subseteq KeySet
    BY HandlerFields
  <2>2. NoHeader \in Headers
    BY DEF NoHeader, Headers
  <2>3. pc \in Pcs
    BY <1>2 DEF Pcs
  <2> HIDE DEF pc
  <2> QED BY <2>1, <2>2, <2>3, NoEvidenceTyped, HandlerFields, SkippedTyped
<1>4. OthersKeep(r) /\ req'[r] = h
  BY <1>1, <1>3, HandlerMoves
<1> QED BY <1>2, <1>4

\* The alerts of a draft and the group they belong to have its key.
LEMMA KeyGroup ==
  ASSUME NEW A \in SUBSET Alerts, A # {}, NEW k, \A a \in A : a[1] = k
  PROVE  <<k, Earliest(A)>> \in Groups
PROOF
<1>1. PICK a \in A : a[2] = Earliest(A)
  BY EarliestIs
<1>2. a = <<k, Earliest(A)>>
  BY <1>1, AlertParts
<1> QED BY <1>2 DEF Groups

LEMMA ExistingIs ==
  ASSUME LinksSound, NEW r, NEW E \in Evidences, NEW k \in Keys(E),
         NEW g \in Existing(r, AlertsOf(E, k), k)
  PROVE  g \in Groups /\ g[1] = k /\ Exists(g)
PROOF
<1> DEFINE A == AlertsOf(E, k)
<1>1. A # {} /\ A \in SUBSET Alerts /\ \A a \in A : a[1] = k
  BY DraftIs DEF AlertsOf
<1> HIDE DEF A
<1>2. CASE Exists(<<k, Earliest(A)>>)
  <2>1. g = <<k, Earliest(A)>>
    BY <1>2 DEF Existing, A
  <2> QED BY <1>1, <1>2, <2>1, KeyGroup
<1>3. CASE ~Exists(<<k, Earliest(A)>>)
  <2>1. g \in Groups /\ \E a \in A : IsEarliestLinked(g, a)
    BY <1>3 DEF Existing, A
  <2>2. PICK a \in A : a \in links[g] /\ g[1] = a[1]
    BY <2>1 DEF IsEarliestLinked
  <2> QED BY <1>1, <2>1, <2>2 DEF LinksSound
<1> QED BY <1>2, <1>3

LEMMA ExpandedIs ==
  ASSUME RowsTyped, LinksSound, NEW r, NEW E \in Evidences, NEW k, NEW g \in Groups, g[1] = k,
         NEW current, current = [a \in AlertsOf(E, k) |-> E[a]]
  PROVE  LET X == Expanded(r, current, g) IN
         /\ X \in Evidences
         /\ AlertsOf(E, k) \subseteq DOMAIN X
         /\ \A a \in DOMAIN X : /\ a[1] = k
                                /\ \/ a \in DOMAIN E /\ X[a] = E[a]
                                   \/ events[a] # "none" /\ X[a] = events[a]
PROOF
<1> DEFINE linked == {b \in links[g] : InWindow(r, b)}
           X == Expanded(r, current, g)
<1>1. /\ DOMAIN current = AlertsOf(E, k)
      /\ \A a \in AlertsOf(E, k) : /\ current[a] = E[a] /\ E[a] \in Status
                                   /\ a \in DOMAIN E /\ a \in Alerts /\ a[1] = k
  BY EvidenceTyped DEF AlertsOf
<1>2. \A b \in linked : /\ b \in Alerts /\ events[b] # "none" /\ events[b] \in Status
                        /\ b[1] = k
  BY DEF RowsTyped, LinksSound
<1> HIDE DEF linked
<1>3. X = [a \in AlertsOf(E, k) \cup linked |-> IF a \in AlertsOf(E, k)
                                                 THEN current[a] ELSE events[a]]
  BY <1>1 DEF Expanded, linked
<1>4. /\ DOMAIN X = AlertsOf(E, k) \cup linked
      /\ \A a \in AlertsOf(E, k) : X[a] = E[a]
      /\ \A a \in linked \ AlertsOf(E, k) : X[a] = events[a]
  BY <1>1, <1>3
<1>5. X \in [AlertsOf(E, k) \cup linked -> Status]
  BY <1>1, <1>2, <1>3
<1>6. AlertsOf(E, k) \cup linked \in SUBSET Alerts
  BY <1>1, <1>2
<1> HIDE DEF X
<1>7. X \in Evidences
  BY <1>5, <1>6 DEF Evidences
<1>8. QED BY <1>1, <1>2, <1>4, <1>7 DEF X

\* What a draft under way has read.
ReadOf(r, k, E, g, before) ==
  /\ AlertsOf(req[r].listed, k) \subseteq DOMAIN E
  /\ \A a \in DOMAIN E : /\ a[1] = k
                         /\ \/ a \in DOMAIN req[r].listed /\ E[a] = req[r].listed[a]
                            \/ events[a] # "none" /\ E[a] = events[a]
  /\ g # NoGroup => g[1] = k /\ Exists(g)
  /\ g = NoGroup => before = NoHeader

LEMMA ReadMoves ==
  ASSUME RowsTyped, req \in [Requests -> Handlers], LinksSound, NEW r \in Requests,
         ReplaySound(r), NEW k, ReadGroup(r, k)
  PROVE  /\ OthersKeep(r)
         /\ k \in Keys(req[r].listed)
         /\ \E E \in Evidences, g \in Groups \cup {NoGroup}, before \in Headers :
              /\ req'[r] = [req[r] EXCEPT !.pc = "write", !.found = g,
                                          !.before = before, !.evidence = E]
              /\ ReadOf(r, k, E, g, before)
PROOF
<1> DEFINE L == req[r].listed
           current == [a \in AlertsOf(L, k) |-> L[a]]
           existing == Existing(r, DOMAIN current, k)
<1>1. k \in Keys(L) /\ L \in Evidences /\ req[r].pc = "read"
  BY HandlerFields DEF ReadGroup, IsNextDraft, ReplaySound
<1>2. "write" \in Pcs
  BY DEF Pcs
<1>3. DOMAIN current = AlertsOf(L, k)
  OBVIOUS
<1>4. \/ req' = [req EXCEPT ![r].pc = "write", ![r].evidence = current]
      \/ \E g \in existing :
           req' = [req EXCEPT ![r].pc = "write", ![r].found = g, ![r].before = header[g],
                              ![r].evidence = Expanded(r, current, g)]
  BY DEF ReadGroup
<1>5. ASSUME req' = [req EXCEPT ![r].pc = "write", ![r].evidence = current]
      PROVE  /\ OthersKeep(r)
             /\ current \in Evidences
             /\ req'[r] = [req[r] EXCEPT !.pc = "write", !.found = NoGroup,
                                          !.before = NoHeader, !.evidence = current]
             /\ ReadOf(r, k, current, NoGroup, NoHeader)
  <2> DEFINE h == [req[r] EXCEPT !.pc = "write", !.evidence = current]
  <2>1. req' = [req EXCEPT ![r] = h]
    BY <1>5
  <2>2. current \in Evidences
    <3>1. \A a \in AlertsOf(L, k) : L[a] \in Status /\ a \in Alerts
      BY <1>1, EvidenceTyped DEF AlertsOf
    <3>2. current \in [AlertsOf(L, k) -> Status] /\ AlertsOf(L, k) \in SUBSET Alerts
      BY <3>1
    <3> QED BY <3>2 DEF Evidences
  <2>3. req[r].found = NoGroup /\ req[r].before = NoHeader
    BY <1>1 DEF ReplaySound
  <2>4. ReadOf(r, k, current, NoGroup, NoHeader)
    BY DEF ReadOf, AlertsOf
  <2> HIDE DEF current
  <2>5. h \in Handlers
    BY <1>2, <2>2, HandlerFields, ReadTyped, NoGroupIsNone
  <2>6. h = [req[r] EXCEPT !.pc = "write", !.found = NoGroup, !.before = NoHeader,
                           !.evidence = current]
    BY <2>3, HandlerFields DEF Handlers
  <2>7. OthersKeep(r) /\ req'[r] = h
    BY <2>1, <2>5, HandlerMoves
  <2> QED BY <2>2, <2>4, <2>6, <2>7
<1>6. ASSUME NEW g \in existing,
             req' = [req EXCEPT ![r].pc = "write", ![r].found = g, ![r].before = header[g],
                                ![r].evidence = Expanded(r, current, g)]
      PROVE  /\ OthersKeep(r)
             /\ Expanded(r, current, g) \in Evidences /\ g \in Groups /\ header[g] \in Headers
             /\ req'[r] = [req[r] EXCEPT !.pc = "write", !.found = g, !.before = header[g],
                                         !.evidence = Expanded(r, current, g)]
             /\ ReadOf(r, k, Expanded(r, current, g), g, header[g])
  <2> DEFINE X == Expanded(r, current, g)
             h == [req[r] EXCEPT !.pc = "write", !.found = g, !.before = header[g],
                                 !.evidence = X]
  <2>1. req' = [req EXCEPT ![r] = h]
    BY <1>6
  <2>2. g \in Groups /\ g[1] = k /\ Exists(g) /\ header[g] \in Headers
    BY <1>1, <1>3, ExistingIs DEF RowsTyped
  <2> HIDE DEF current, existing
  <2>3. /\ X \in Evidences
        /\ AlertsOf(L, k) \subseteq DOMAIN X
        /\ \A a \in DOMAIN X : /\ a[1] = k
                               /\ \/ a \in DOMAIN L /\ X[a] = L[a]
                                  \/ events[a] # "none" /\ X[a] = events[a]
    BY <1>1, <2>2, ExpandedIs DEF current
  <2> HIDE DEF X
  <2>4. ReadOf(r, k, X, g, header[g])
    BY <2>2, <2>3, NoGroupIsNone DEF ReadOf
  <2>5. h \in Handlers
    BY <1>2, <2>2, <2>3, HandlerFields, ReadTyped
  <2>6. OthersKeep(r) /\ req'[r] = h
    BY <2>1, <2>5, HandlerMoves
  <2> QED BY <2>2, <2>3, <2>4, <2>6 DEF X
<1>7. NoHeader \in Headers
  BY DEF NoHeader, Headers
<1> HIDE DEF current, existing
<1> QED BY <1>1, <1>4, <1>5, <1>6, <1>7

LEMMA SnapshotIs ==
  ASSUME snapshots \in Seq(Snapshots), NEW g, NEW E
  PROVE  LET s == SnapshotId(g, E) IN
         \/ s \in DOMAIN snapshots /\ snapshots[s] = [group |-> g, evidence |-> E]
         \/ /\ s = Len(snapshots) + 1 /\ s \notin DOMAIN snapshots
            /\ \A t \in DOMAIN snapshots : snapshots[t] # [group |-> g, evidence |-> E]
PROOF
<1> DEFINE same == {s \in DOMAIN snapshots : snapshots[s] = [group |-> g, evidence |-> E]}
<1>1. SnapshotId(g, E) = IF same = {} THEN Len(snapshots) + 1
                         ELSE CHOOSE s \in same : TRUE
  BY DEF SnapshotId
<1>2. CASE same = {}
  BY <1>1, <1>2
<1>3. CASE same # {}
  BY <1>1, <1>3
<1> QED BY <1>2, <1>3

\* What processGroup writes for a draft with the evidence E of group g.
Wrote(r, k, g, E, s) ==
  /\ \A a \in DOMAIN E : a[1] = g[1] /\ g[2] <= a[2]
  /\ DOMAIN E # {} /\ AlertsOf(req[r].listed, k) \subseteq DOMAIN E
  /\ E = req[r].evidence
  /\ header' \in [Groups -> Headers] /\ header'[g] # NoHeader
  /\ header'[g] = HeaderOf(DOMAIN E) \/ (header'[g] = header[g] /\ Exists(g))
  /\ \A h \in Groups \ {g} : header'[h] = header[h]
  /\ links' = [links EXCEPT ![g] = @ \cup DOMAIN E]
  /\ \/ /\ s \in DOMAIN snapshots /\ snapshots' = snapshots
        /\ snapshots[s] = [group |-> g, evidence |-> E]
     \/ /\ s = Len(snapshots) + 1
        /\ snapshots' = Append(snapshots, [group |-> g, evidence |-> E])
        /\ \A t \in DOMAIN snapshots : snapshots[t] # [group |-> g, evidence |-> E]

LEMMA WriteMoves ==
  ASSUME RowsTyped, req \in [Requests -> Handlers], NEW r \in Requests,
         ReplaySound(r), NEW k \in KeySet, WriteGroup(r, k)
  PROVE  /\ OthersKeep(r)
         /\ k \in Keys(req[r].listed) /\ req[r].pc = "write"
         /\ \E g \in Groups, E \in Evidences, s \in Nat, pc \in {"replayed", "read"} :
              /\ Wrote(r, k, g, E, s)
              /\ pc = "replayed" => req[r].drafts = {k}
              /\ req'[r] = [req[r] EXCEPT !.refs = Append(@, s), !.drafts = @ \ {k},
                              !.pc = pc, !.found = NoGroup, !.before = NoHeader,
                              !.evidence = NoEvidence]
PROOF
<1> DEFINE g == Target(r, k)
           E == req[r].evidence
           s == SnapshotId(g, E)
           pc == IF req[r].drafts = {k} THEN "replayed" ELSE "read"
           refs == Append(req[r].refs, s)
           drafts == req[r].drafts \ {k}
           h == [req[r] EXCEPT !.refs = refs, !.drafts = drafts,
                   !.pc = pc, !.found = NoGroup, !.before = NoHeader,
                   !.evidence = NoEvidence]
<1>1. /\ req[r].pc = "write" /\ IsNextDraft(r, k)
      /\ BuildAccepts(g, DOMAIN E)
      /\ header' = [header EXCEPT ![g] = HeaderWritten(r, g, k)]
      /\ links' = [links EXCEPT ![g] = @ \cup DOMAIN E]
      /\ snapshots' = IF s \in DOMAIN snapshots THEN snapshots
                      ELSE Append(snapshots, [group |-> g, evidence |-> E])
      /\ req' = [req EXCEPT ![r] = h]
  BY DEF WriteGroup
<1>2. E \in Evidences /\ DraftSound(r, k) /\ k \in Keys(req[r].listed)
  BY <1>1, HandlerFields DEF ReplaySound, IsNextDraft
<1>3. /\ DOMAIN E \in SUBSET Alerts /\ DOMAIN E # {} /\ \A a \in DOMAIN E : a[1] = k
      /\ AlertsOf(req[r].listed, k) \subseteq DOMAIN E
  BY <1>2, EvidenceTyped DEF DraftSound
<1>4. HeaderOf(DOMAIN E) \in Headers /\ HeaderOf(DOMAIN E) # NoHeader
  BY <1>3, HeaderIs
<1>5. /\ g \in Groups /\ g[1] = k
      /\ req[r].found # NoGroup => Exists(g)
  <2>1. CASE req[r].found = NoGroup
    BY <1>3, <2>1, KeyGroup DEF Target
  <2>2. CASE req[r].found # NoGroup
    BY <1>2, <2>2, HandlerFields DEF Target, DraftSound
  <2> QED BY <2>1, <2>2
<1>6. /\ HeaderWritten(r, g, k) \in Headers /\ HeaderWritten(r, g, k) # NoHeader
      /\ \/ HeaderWritten(r, g, k) = HeaderOf(DOMAIN E)
         \/ HeaderWritten(r, g, k) = header[g] /\ Exists(g)
  <2>1. CASE HeaderOf(DOMAIN E) # req[r].before
    BY <1>4, <2>1 DEF HeaderWritten
  <2>2. CASE HeaderOf(DOMAIN E) = req[r].before
    <3>1. req[r].found # NoGroup
      BY <1>2, <1>4, <2>2 DEF DraftSound
    <3> QED BY <1>5, <2>2, <3>1 DEF HeaderWritten, Exists, RowsTyped
  <2> QED BY <2>1, <2>2
<1>7. \A a \in DOMAIN E : a[1] = g[1] /\ g[2] <= a[2]
  BY <1>1, <1>3, <1>5 DEF BuildAccepts
<1>8. \/ s \in DOMAIN snapshots /\ snapshots[s] = [group |-> g, evidence |-> E]
      \/ /\ s = Len(snapshots) + 1 /\ s \notin DOMAIN snapshots
         /\ \A t \in DOMAIN snapshots : snapshots[t] # [group |-> g, evidence |-> E]
  BY SnapshotIs DEF RowsTyped
<1> HIDE DEF s, g
<1>9. s \in Nat /\ DOMAIN snapshots \subseteq Nat
  BY <1>8 DEF RowsTyped
<1>10. header' \in [Groups -> Headers] /\ header'[g] = HeaderWritten(r, g, k)
       /\ \A x \in Groups \ {g} : header'[x] = header[x]
  BY <1>1, <1>5, <1>6 DEF RowsTyped
<1>11. Wrote(r, k, g, E, s)
  BY <1>1, <1>3, <1>6, <1>7, <1>8, <1>10 DEF Wrote
<1>12. refs \in Seq(Nat) /\ drafts \in SUBSET KeySet /\ NoHeader \in Headers
  BY <1>9, HandlerFields DEF NoHeader, Headers
<1>13. pc \in Pcs /\ pc \in {"replayed", "read"} /\ (pc = "replayed" => req[r].drafts = {k})
  BY DEF Pcs
<1> HIDE DEF pc
<1>14. h \in Handlers
  <2> HIDE DEF refs, drafts
  <2> QED BY <1>12, <1>13, WrittenTyped, HandlerFields, NoEvidenceTyped
<1>15. OthersKeep(r) /\ req'[r] = h
  BY <1>1, <1>14, HandlerMoves
<1> HIDE DEF E
<1> QED BY <1>1, <1>2, <1>5, <1>9, <1>11, <1>13, <1>15

LEMMA ReplayedMoves ==
  ASSUME req \in [Requests -> Handlers], NEW r \in Requests, Replayed(r)
  PROVE  /\ OthersKeep(r)
         /\ \E pc \in {"failed", "done", "plan"} :
              /\ req'[r] = [req[r] EXCEPT !.pc = pc]
              /\ pc # "failed" => ~req[r].errors
              /\ pc = "done" => r \in Replays /\ req[r].refs = << >>
PROOF
<1> DEFINE pc == IF req[r].errors THEN "failed"
                 ELSE IF r \in Replays /\ req[r].refs = << >> THEN "done" ELSE "plan"
           h == [req[r] EXCEPT !.pc = pc]
<1>1. req' = [req EXCEPT ![r] = h]
  <2>1. CASE req[r].errors
    BY <2>1 DEF Replayed
  <2>2. CASE ~req[r].errors
    BY <2>2 DEF Replayed
  <2> QED BY <2>1, <2>2
<1>2. /\ pc \in {"failed", "done", "plan"}
      /\ pc # "failed" => ~req[r].errors
      /\ pc = "done" => r \in Replays /\ req[r].refs = << >>
  OBVIOUS
<1>3. h \in Handlers
  <2>1. pc \in Pcs
    BY <1>2 DEF Pcs
  <2>2. << >> \in Seq(Places)
    OBVIOUS
  <2> HIDE DEF pc
  <2> QED BY <2>1, <2>2, HandlerFields, MovedTyped
<1>4. OthersKeep(r) /\ req'[r] = h
  BY <1>1, <1>3, HandlerMoves
<1> QED BY <1>2, <1>4

\* An increasing enumeration of a set of positions reaches each of them.
LEMMA InOrderIs ==
  ASSUME NEW n \in Nat, NEW I \in SUBSET (1 .. n), NEW f \in InOrder(I)
  PROVE  /\ Cardinality(I) \in Nat
         /\ f \in [1 .. Cardinality(I) -> I]
         /\ \A i \in I : \E j \in 1 .. Cardinality(I) : f[j] = i
PROOF
<1> DEFINE m == Cardinality(I)
<1>1. IsFiniteSet(I) /\ m \in Nat
  <2>1. IsFiniteSet(1 .. n)
    BY FS_Interval
  <2> QED BY <2>1, FS_Subset, FS_CardinalityType
<1>2. f \in [1 .. m -> I] /\ \A i, j \in 1 .. m : i < j => f[i] < f[j]
  BY DEF InOrder
<1>3. \A i, j \in 1 .. m : f[i] = f[j] => i = j
  <2> SUFFICES ASSUME NEW i \in 1 .. m, NEW j \in 1 .. m, f[i] = f[j], i # j
               PROVE  FALSE
    OBVIOUS
  <2>1. f[i] \in 1 .. n /\ f[j] \in 1 .. n
    BY <1>2
  <2>2. i < j \/ j < i
    BY <1>1
  <2> QED BY <1>2, <2>1, <2>2
<1>4. f \in Injection(1 .. m, I)
  BY <1>2, <1>3 DEF Injection, IsInjective
<1>5. Cardinality(1 .. m) = m
  BY <1>1, FS_Interval
<1>6. f \in Surjection(1 .. m, I)
  BY <1>1, <1>4, <1>5, FS_Injection
<1> QED BY <1>1, <1>2, <1>6 DEF Surjection

LEMMA ConcatIs ==
  ASSUME NEW S, NEW s \in Seq(S), NEW t \in Seq(S)
  PROVE  /\ s \o t \in Seq(S) /\ Len(s \o t) = Len(s) + Len(t)
         /\ \A i \in 1 .. Len(s) : (s \o t)[i] = s[i]
         /\ \A i \in 1 .. Len(t) : (s \o t)[Len(s) + i] = t[i]
OBVIOUS

\* What planRooms decides for the snapshots of the policy replayed for.
Planned(r, plan, n, skipped) ==
  LET old == req[r]
      refs == {old.refs[i] : i \in DOMAIN old.refs}
  IN /\ plan \in Seq(Places) /\ n \in 0 .. MaxRooms /\ skipped \subseteq Places
     /\ \A i \in DOMAIN old.plan : i \in DOMAIN plan /\ plan[i] = old.plan[i]
     /\ \A i \in DOMAIN plan : \/ i \in DOMAIN old.plan /\ plan[i] = old.plan[i]
                               \/ plan[i][2] \in refs
     /\ old.skipped \subseteq skipped
     /\ \A x \in skipped : x \in old.skipped \/ x[2] \in refs
     /\ old.planned = MaxRooms => n = MaxRooms
     /\ \A s \in refs : \/ ConfirmedDiagnosis(s)
                        \/ \E i \in DOMAIN plan : plan[i] = <<old.policy, s>>
                        \/ <<old.policy, s>> \in skipped /\ n = MaxRooms

PlanStep(r, plan, n, skipped, p, pc) ==
  /\ Planned(r, plan, n, skipped)
  /\ \/ pc = "list" /\ r \in Webhooks /\ p = req[r].policy + 1
     \/ /\ pc = StartOrEnd(plan) /\ p = req[r].policy
        /\ r \in Webhooks => p = MaxPolicy
  /\ req'[r] = [req[r] EXCEPT !.plan = plan, !.planned = n, !.skipped = skipped,
                  !.policy = p, !.pc = pc, !.listed = NoEvidence, !.refs = << >>]

LEMMA PlanMoves ==
  ASSUME req \in [Requests -> Handlers], NEW r \in Requests, PolicySound(r), PlanRooms(r)
  PROVE  /\ OthersKeep(r)
         /\ \E plan \in Seq(Places), n \in 0 .. MaxRooms, skipped \in SUBSET Places,
               p \in Policies, pc \in {"list", "start", "done"} :
              PlanStep(r, plan, n, skipped, p, pc)
PROOF
<1> DEFINE old == req[r]
           I == OpenRefs(r)
           all == Cardinality(I)
           cap == RoomCapacity(r)
           k == IF all < cap THEN all ELSE cap
<1>1. PICK open \in InOrder(I) : PlanOpen(r, open)
  BY DEF PlanRooms
<1> DEFINE room(i) == <<old.policy, old.refs[open[i]]>>
           new == [i \in 1 .. k |-> room(i)]
           plan == old.plan \o new
           n == old.planned + k
           skipped == old.skipped \cup {room(i) : i \in k + 1 .. all}
           p == IF MorePolicies(r) THEN old.policy + 1 ELSE old.policy
           pc == IF MorePolicies(r) THEN "list" ELSE StartOrEnd(plan)
           h == [old EXCEPT !.plan = plan, !.planned = n, !.skipped = skipped,
                   !.policy = p, !.pc = pc, !.listed = NoEvidence, !.refs = << >>]
<1>2. old.pc = "plan" /\ req' = [req EXCEPT ![r] = h]
  BY <1>1 DEF PlanOpen
<1>3. /\ old.policy \in Policies /\ old.planned \in 0 .. MaxRooms
      /\ old.refs \in Seq(Nat) /\ old.plan \in Seq(Places) /\ old.skipped \subseteq Places
      /\ MaxPolicy \in Nat /\ MaxRooms \in Nat
  BY <1>2, HandlerFields, BoundsAssumption DEF PolicySound
<1>4. /\ all \in Nat /\ open \in [1 .. all -> I] /\ I \subseteq DOMAIN old.refs
      /\ \A i \in I : \E j \in 1 .. all : open[j] = i
  <2>1. I \in SUBSET (1 .. Len(old.refs)) /\ Len(old.refs) \in Nat
    BY <1>3 DEF OpenRefs
  <2> HIDE DEF I
  <2>2. open \in InOrder(I)
    BY DEF I
  <2>3. /\ Cardinality(I) \in Nat
        /\ open \in [1 .. Cardinality(I) -> I]
        /\ \A i \in I : \E j \in 1 .. Cardinality(I) : open[j] = i
    BY <2>1, <2>2, InOrderIs
  <2>4. I \subseteq DOMAIN old.refs
    BY DEF OpenRefs, I
  <2> QED BY <2>3, <2>4
<1>5. /\ cap \in 0 .. MaxRooms /\ k \in 0 .. all /\ n \in 0 .. MaxRooms
      /\ old.planned = MaxRooms => n = MaxRooms
      /\ k < all => n = MaxRooms
  BY <1>3, <1>4 DEF RoomCapacity
<1> HIDE DEF k, all, cap
<1>6. \A i \in 1 .. all : /\ open[i] \in I /\ open[i] \in DOMAIN old.refs
                          /\ old.refs[open[i]] \in Nat
                          /\ room(i) \in Places
  <2>1. \A i \in 1 .. all : open[i] \in I /\ open[i] \in DOMAIN old.refs
    BY <1>4
  <2>2. \A j \in DOMAIN old.refs : old.refs[j] \in Nat
    BY <1>3
  <2> QED BY <1>3, <2>1, <2>2 DEF Places
<1>7. /\ new \in Seq(Places) /\ Len(new) = k
      /\ \A i \in 1 .. k : new[i] = room(i) /\ i \in 1 .. all
  <2>1. \A i \in 1 .. k : i \in 1 .. all
    BY <1>4, <1>5
  <2>2. \A i \in 1 .. k : room(i) \in Places
    BY <1>6, <2>1
  <2> HIDE DEF room
  <2>3. new \in [1 .. k -> Places] /\ k \in Nat
    BY <1>4, <1>5, <2>2
  <2>4. new \in Seq(Places) /\ Len(new) = k
    BY <2>3
  <2> QED BY <2>1, <2>4
<1>8. /\ plan \in Seq(Places) /\ Len(plan) = Len(old.plan) + k
      /\ \A i \in 1 .. Len(old.plan) : plan[i] = old.plan[i]
      /\ \A i \in 1 .. k : plan[Len(old.plan) + i] = room(i)
  <2> HIDE DEF new, room
  <2>1. /\ plan \in Seq(Places) /\ Len(plan) = Len(old.plan) + Len(new)
        /\ \A i \in 1 .. Len(old.plan) : plan[i] = old.plan[i]
        /\ \A i \in 1 .. Len(new) : plan[Len(old.plan) + i] = new[i]
    <3>1. old.plan \in Seq(Places) /\ new \in Seq(Places)
      BY <1>3, <1>7
    <3> HIDE DEF old
    <3> QED BY ONLY <3>1, ConcatIs DEF plan
  <2> QED BY <1>7, <2>1
<1>9. skipped \subseteq Places
  BY <1>3, <1>5, <1>6
<1>10. Planned(r, plan, n, skipped)
  <2> DEFINE refs == {old.refs[i] : i \in DOMAIN old.refs}
  <2>1. \A i \in DOMAIN old.plan : i \in DOMAIN plan /\ plan[i] = old.plan[i]
    <3>1. Len(old.plan) \in Nat /\ k \in Nat
      BY <1>3, <1>4, <1>5
    <3>2. DOMAIN old.plan = 1 .. Len(old.plan) /\ DOMAIN plan = 1 .. Len(old.plan) + k
      <4> HIDE DEF plan
      <4> QED BY <1>3, <1>8
    <3> HIDE DEF plan, room
    <3> QED BY <1>8, <3>1, <3>2
  <2>2. ASSUME NEW i \in DOMAIN plan
        PROVE  \/ i \in DOMAIN old.plan /\ plan[i] = old.plan[i]
               \/ plan[i][2] \in refs
    <3> HIDE DEF plan
    <3>1. i \in 1 .. Len(old.plan) + k
      BY <1>3, <1>5, <1>8
    <3>2. CASE i <= Len(old.plan)
      BY <1>3, <1>8, <3>1, <3>2
    <3>3. CASE i > Len(old.plan)
      <4> DEFINE j == i - Len(old.plan)
      <4>1. j \in 1 .. k /\ i = Len(old.plan) + j
        BY <1>3, <1>5, <3>1, <3>3
      <4>2. plan[i] = room(j)
        BY <1>8, <4>1
      <4>3. j \in 1 .. all
        BY <1>4, <1>5, <4>1
      <4> HIDE DEF j
      <4>4. plan[i][2] = old.refs[open[j]] /\ open[j] \in DOMAIN old.refs
        BY <1>6, <4>2, <4>3
      <4> QED BY <4>4
    <3> QED BY <1>3, <3>1, <3>2, <3>3
  <2>3. \A x \in skipped : x \in old.skipped \/ x[2] \in refs
    BY <1>5, <1>6
  <2>4. ASSUME NEW s \in refs, ~ConfirmedDiagnosis(s)
        PROVE  \/ \E i \in DOMAIN plan : plan[i] = <<old.policy, s>>
               \/ <<old.policy, s>> \in skipped /\ n = MaxRooms
    <3>1. PICK i \in DOMAIN old.refs : s = old.refs[i]
      OBVIOUS
    <3>2. i \in I
      BY <2>4, <3>1 DEF OpenRefs
    <3>3. PICK j \in 1 .. all : open[j] = i
      BY <1>4, <3>2
    <3>4. room(j) = <<old.policy, s>>
      BY <3>1, <3>3
    <3>5. CASE j <= k
      <4> HIDE DEF plan, room
      <4>0. j \in 1 .. k
        BY <1>4, <1>5, <3>5
      <4>1. plan[Len(old.plan) + j] = <<old.policy, s>>
        BY <1>8, <3>4, <4>0
      <4>2. Len(old.plan) + j \in DOMAIN plan
        BY <1>3, <1>4, <1>5, <1>8, <3>5
      <4> QED BY <4>1, <4>2
    <3>6. CASE j > k
      <4>1. j \in k + 1 .. all /\ n = MaxRooms
        BY <1>4, <1>5, <3>6
      <4>2. room(j) \in skipped
        BY <4>1
      <4> QED BY <3>4, <4>1, <4>2
    <3>7. j <= k \/ j > k
      BY <1>4, <1>5
    <3> QED BY <3>5, <3>6, <3>7
  <2> HIDE DEF plan, skipped, n
  <2>5. old.skipped \subseteq skipped
    BY DEF skipped
  <2> QED BY <1>5, <1>8, <1>9, <2>1, <2>2, <2>3, <2>4, <2>5 DEF Planned
<1>11. /\ p \in Policies /\ pc \in {"list", "start", "done"}
       /\ \/ pc = "list" /\ r \in Webhooks /\ p = req[r].policy + 1
          \/ /\ pc = StartOrEnd(plan) /\ p = req[r].policy
             /\ r \in Webhooks => p = MaxPolicy
  <2> HIDE DEF plan
  <2> QED BY <1>3 DEF MorePolicies, StartOrEnd, Policies
<1>12. h \in Handlers
  <2>1. pc \in Pcs /\ p \in 0 .. MaxPolicy
    BY <1>3, <1>11 DEF Pcs, Policies
  <2> HIDE DEF plan, n, skipped, p, pc
  <2>2. << >> \in Seq(Nat)
    OBVIOUS
  <2> QED BY <1>5, <1>8, <1>9, <2>1, <2>2, HandlerFields, PlannedTyped, NoEvidenceTyped
<1>13. OthersKeep(r) /\ req'[r] = h
  BY <1>2, <1>12, HandlerMoves
<1> HIDE DEF plan, n, skipped, p, pc
<1>14. PlanStep(r, plan, n, skipped, p, pc)
  BY <1>10, <1>11, <1>13 DEF PlanStep
<1>15. /\ plan \in Seq(Places) /\ n \in 0 .. MaxRooms /\ skipped \in SUBSET Places
       /\ p \in Policies /\ pc \in {"list", "start", "done"}
  BY <1>5, <1>8, <1>9, <1>11
<1>16. OthersKeep(r)
  BY <1>13
<1> QED BY <1>14, <1>15, <1>16

LEMMA StartMoves ==
  ASSUME req \in [Requests -> Handlers], NEW r \in Requests, AlertsFollowed(r), StartRoom(r)
  PROVE  /\ OthersKeep(r)
         /\ req[r].pc = "start" /\ req[r].plan \in Seq(Places) /\ req[r].plan # << >>
         /\ req'[r] = [req[r] EXCEPT !.plan = Tail(@), !.pc = StartOrEnd(Tail(req[r].plan))]
PROOF
<1> DEFINE rest == Tail(req[r].plan)
           pc == StartOrEnd(rest)
           h == [req[r] EXCEPT !.plan = rest, !.pc = pc]
<1>1. req[r].pc = "start" /\ req' = [req EXCEPT ![r] = h]
  BY DEF StartRoom
<1>2. req[r].plan \in Seq(Places) /\ req[r].plan # << >>
  BY <1>1, HandlerFields DEF AlertsFollowed
<1>3. rest \in Seq(Places) /\ pc \in Pcs
  BY <1>2 DEF StartOrEnd, Pcs
<1> HIDE DEF rest, pc
<1>4. h \in Handlers
  BY <1>3, HandlerFields, MovedTyped
<1>5. OthersKeep(r) /\ req'[r] = h
  BY <1>1, <1>4, HandlerMoves
<1> QED BY <1>1, <1>2, <1>5 DEF rest, pc

LEMMA FailMoves ==
  ASSUME req \in [Requests -> Handlers], NEW r \in Requests, RequestFails(r)
  PROVE  OthersKeep(r) /\ req'[r] = [Idle EXCEPT !.pc = "failed"]
PROOF
<1> DEFINE h == [Idle EXCEPT !.pc = "failed"]
<1>1. req' = [req EXCEPT ![r] = h]
  BY DEF RequestFails
<1>2. h \in Handlers
  BY IdleTyped DEF Handlers, Pcs
<1> QED BY <1>1, <1>2, HandlerMoves

-----------------------------------------------------------------------------
(***************************************************************************)
(* The rows only grow.                                                     *)
(***************************************************************************)

\* An alert is stored as firing, and ends once.
Later(was, is) == \/ is = was
                  \/ was = "none" /\ is = "firing"
                  \/ was = "firing" /\ is \in Ends

Grows ==
  /\ \A a \in Alerts : Later(events[a], events'[a])
  /\ \A g \in Groups : Exists(g) => header'[g] # NoHeader
  /\ DOMAIN snapshots \subseteq DOMAIN snapshots'
  /\ \A s \in DOMAIN snapshots : snapshots'[s] = snapshots[s]
  /\ rooms \subseteq rooms' /\ confirmed \subseteq confirmed'

LEMMA LaterIs ==
  ASSUME RowsTyped, Grows, NEW a \in Alerts
  PROVE  /\ events[a] # "none" => events'[a] # "none"
         /\ events[a] \notin {"none", "firing"} => events'[a] = events[a]
BY EndsAssumption DEF Grows, Later

LEMMA EventsGrow ==
  ASSUME RowsTyped, NEW r \in Requests,
         \/ \E a \in Alerts : IngestAlert(r, a)
         \/ \E e \in Alerts \X Ends : ResolveAlert(r, e)
  PROVE  /\ events' \in [Alerts -> Status \cup {"none"}]
         /\ \A b \in Alerts : Later(events[b], events'[b])
PROOF
<1>1. ASSUME NEW a \in Alerts, IngestAlert(r, a)
      PROVE  /\ events' \in [Alerts -> Status \cup {"none"}]
             /\ \A b \in Alerts : Later(events[b], events'[b])
  <2>1. events' = [events EXCEPT ![a] = StoredStatus(events[a])]
    BY <1>1 DEF IngestAlert
  <2>2. /\ Later(events[a], StoredStatus(events[a]))
        /\ StoredStatus(events[a]) \in Status \cup {"none"}
    BY DEF StoredStatus, Later, Status, RowsTyped
  <2> QED BY <2>1, <2>2 DEF RowsTyped, Later
<1>2. ASSUME NEW e \in Alerts \X Ends, ResolveAlert(r, e)
      PROVE  /\ events' \in [Alerts -> Status \cup {"none"}]
             /\ \A b \in Alerts : Later(events[b], events'[b])
  <2>1. /\ events' = [events EXCEPT ![e[1]] = ResolvedStatus(events[e[1]], e[2])]
        /\ e[1] \in Alerts /\ e[2] \in Ends
    BY <1>2 DEF ResolveAlert
  <2>2. /\ Later(events[e[1]], ResolvedStatus(events[e[1]], e[2]))
        /\ ResolvedStatus(events[e[1]], e[2]) \in Status \cup {"none"}
    BY <2>1 DEF ResolvedStatus, Later, Status, RowsTyped
  <2> QED BY <2>1, <2>2 DEF RowsTyped, Later
<1> QED BY <1>1, <1>2

LEMMA SnapshotsGrow ==
  ASSUME RowsTyped, NEW r \in Requests, NEW k \in KeySet, NEW g \in Groups,
         NEW E \in Evidences, NEW s \in Nat, Wrote(r, k, g, E, s)
  PROVE  /\ snapshots' \in Seq(Snapshots)
         /\ DOMAIN snapshots \subseteq DOMAIN snapshots'
         /\ \A t \in DOMAIN snapshots : snapshots'[t] = snapshots[t]
         /\ s \in DOMAIN snapshots' /\ snapshots'[s] = [group |-> g, evidence |-> E]
         /\ \A t \in DOMAIN snapshots' : t \in DOMAIN snapshots \/ t = s
         /\ \A t \in DOMAIN snapshots : snapshots[t] = [group |-> g, evidence |-> E] =>
              s \in DOMAIN snapshots
PROOF
<1> DEFINE new == [group |-> g, evidence |-> E]
<1>1. new \in Snapshots /\ snapshots \in Seq(Snapshots)
  BY DEF Snapshots, RowsTyped
<1>2. CASE s \in DOMAIN snapshots /\ snapshots' = snapshots /\ snapshots[s] = new
  BY <1>1, <1>2
<1>3. CASE /\ s = Len(snapshots) + 1 /\ snapshots' = Append(snapshots, new)
           /\ \A t \in DOMAIN snapshots : snapshots[t] # new
  <2> HIDE DEF new
  <2> QED BY <1>1, <1>3 DEF new
<1> QED BY <1>2, <1>3 DEF Wrote

LEMMA QuietStep ==
  ASSUME RowsTyped, DiagnosisTyped, UNCHANGED <<rows, diagnosis, batch>>
  PROVE  RowsTyped' /\ DiagnosisTyped' /\ Grows
BY DEF RowsTyped, DiagnosisTyped, Grows, rows, diagnosis, Later, Exists

LEMMA FaultTyped == CountersTyped /\ Fault /\ UNCHANGED redelivered => CountersTyped'
BY BoundsAssumption DEF CountersTyped, Fault

LEMMA CountersKept == CountersTyped /\ UNCHANGED <<redelivered, faults>> => CountersTyped'
BY DEF CountersTyped

LEMMA StoreGrows ==
  ASSUME RowsTyped, DiagnosisTyped, CountersTyped, NEW r \in Requests,
         \/ \E a \in Alerts : IngestAlert(r, a)
         \/ \E e \in Alerts \X Ends : ResolveAlert(r, e)
  PROVE  RowsTyped' /\ DiagnosisTyped' /\ CountersTyped' /\ Grows /\ payload' = payload
PROOF
<1>1. /\ UNCHANGED <<header, links, snapshots, diagnosis, batch, payload, redelivered, faults>>
  BY DEF IngestAlert, ResolveAlert
<1>2. /\ events' \in [Alerts -> Status \cup {"none"}]
      /\ \A b \in Alerts : Later(events[b], events'[b])
  BY EventsGrow
<1>3. RowsTyped' /\ DiagnosisTyped' /\ Grows
  BY <1>1, <1>2 DEF RowsTyped, DiagnosisTyped, Grows, diagnosis, Exists
<1> QED BY <1>1, <1>3, CountersKept

LEMMA WriteGrows ==
  ASSUME RowsTyped, DiagnosisTyped, CountersTyped, req \in [Requests -> Handlers],
         NEW r \in Requests, ReplaySound(r), NEW k \in KeySet, WriteGroup(r, k)
  PROVE  RowsTyped' /\ DiagnosisTyped' /\ CountersTyped' /\ Grows /\ payload' = payload
PROOF
<1>1. UNCHANGED <<events, diagnosis, batch, payload, redelivered, faults>>
  BY DEF WriteGroup
<1>2. PICK g \in Groups, E \in Evidences, s \in Nat : Wrote(r, k, g, E, s)
  BY WriteMoves
<1>3. /\ snapshots' \in Seq(Snapshots)
      /\ DOMAIN snapshots \subseteq DOMAIN snapshots'
      /\ \A t \in DOMAIN snapshots : snapshots'[t] = snapshots[t]
  BY <1>2, SnapshotsGrow
<1>4. links' \in [Groups -> SUBSET Alerts]
  <2>1. links' = [links EXCEPT ![g] = links[g] \cup DOMAIN E] /\ DOMAIN E \subseteq Alerts
    BY <1>2, EvidenceTyped DEF Wrote
  <2> QED BY <2>1 DEF RowsTyped
<1>5. /\ header' \in [Groups -> Headers]
      /\ \A h \in Groups : Exists(h) => header'[h] # NoHeader
  BY <1>2 DEF Wrote, Exists
<1>6. RowsTyped'
  BY <1>1, <1>3, <1>4, <1>5 DEF RowsTyped
<1>7. DiagnosisTyped'
  BY <1>1, <1>3 DEF DiagnosisTyped, diagnosis
<1>8. Grows
  BY <1>1, <1>3, <1>5 DEF Grows, Later, diagnosis
<1> QED BY <1>1, <1>6, <1>7, <1>8, CountersKept

LEMMA ReplayedGrows ==
  ASSUME RowsTyped, DiagnosisTyped, CountersTyped, req \in [Requests -> Handlers],
         NEW r \in Requests, InBounds(r), Replayed(r)
  PROVE  RowsTyped' /\ DiagnosisTyped' /\ CountersTyped' /\ Grows /\ payload' = payload
PROOF
<1>1. UNCHANGED <<rows, diagnosis, payload, redelivered, faults>>
  BY DEF Replayed
<1> DEFINE refs == {req[r].refs[i] : i \in DOMAIN req[r].refs}
<1>2. refs \subseteq DOMAIN snapshots
  BY DEF InBounds
<1>3. batch' = batch \/ (r \in Replays /\ batch' = [batch EXCEPT ![r] = refs])
  <2>1. CASE req[r].errors
    BY <2>1 DEF Replayed
  <2>2. CASE ~req[r].errors
    BY <2>2 DEF Replayed
  <2> QED BY <2>1, <2>2
<1> HIDE DEF refs
<1>4. batch' \in [Replays -> SUBSET DOMAIN snapshots]
  BY <1>2, <1>3 DEF DiagnosisTyped
<1>5. RowsTyped' /\ DiagnosisTyped' /\ Grows
  BY <1>1, <1>4 DEF RowsTyped, DiagnosisTyped, Grows, rows, diagnosis, Later, Exists
<1> QED BY <1>1, <1>5, CountersKept

\* A planned room is one for a snapshot of the rows.
LEMMA FirstPlanned ==
  ASSUME req \in [Requests -> Handlers], NEW r \in Requests, InBounds(r), req[r].plan # << >>
  PROVE  Head(req[r].plan) \in Policies \X DOMAIN snapshots
PROOF
<1>1. req[r].plan \in Seq(Places) /\ 1 \in DOMAIN req[r].plan
  BY HandlerFields
<1>2. req[r].plan[1] \in Places /\ req[r].plan[1][2] \in DOMAIN snapshots
  BY <1>1 DEF InBounds
<1>3. Head(req[r].plan) = req[r].plan[1]
  BY <1>1
<1> QED BY <1>2, <1>3 DEF Places

LEMMA RoomsGrow ==
  ASSUME RowsTyped, DiagnosisTyped, CountersTyped, req \in [Requests -> Handlers],
         NEW r \in Requests, InBounds(r), AlertsFollowed(r), StartRoom(r) \/ RequestFails(r)
  PROVE  RowsTyped' /\ DiagnosisTyped' /\ CountersTyped' /\ Grows /\ payload' = payload
PROOF
<1>1. UNCHANGED <<rows, confirmed, superseded, batch, payload, redelivered>>
  BY DEF StartRoom, RequestFails
<1>2. rooms' = rooms \/ (req[r].pc = "start" /\ rooms' = rooms \cup {Head(req[r].plan)})
  BY DEF StartRoom, RequestFails, diagnosis
<1>3. req[r].pc = "start" => Head(req[r].plan) \in Policies \X DOMAIN snapshots
  BY FirstPlanned DEF AlertsFollowed
<1>4. RowsTyped' /\ DiagnosisTyped' /\ Grows
  BY <1>1, <1>2, <1>3 DEF RowsTyped, DiagnosisTyped, Grows, rows, Later, Exists
<1>5. CountersTyped'
  BY FaultTyped, CountersKept DEF StartRoom, RequestFails
<1> QED BY <1>1, <1>4, <1>5

HandlerSound(r) == InBounds(r) /\ ReplaySound(r) /\ PolicySound(r) /\ AlertsFollowed(r)

LEMMA RequestGrows ==
  ASSUME RowsTyped, DiagnosisTyped, CountersTyped, RequestsTyped,
         NEW r \in Requests, HandlerSound(r), RequestStep(r)
  PROVE  RowsTyped' /\ DiagnosisTyped' /\ CountersTyped' /\ Grows /\ payload' = payload
PROOF
<1> USE DEF HandlerSound, RequestsTyped
<1>1. CASE \/ \E a \in Alerts : IngestAlert(r, a)
           \/ \E e \in Alerts \X Ends : ResolveAlert(r, e)
  BY <1>1, StoreGrows
<1>2. CASE \E k \in KeySet : WriteGroup(r, k)
  BY <1>2, WriteGrows
<1>3. CASE Replayed(r)
  BY <1>3, ReplayedGrows
<1>4. CASE StartRoom(r) \/ RequestFails(r)
  BY <1>4, RoomsGrow
<1>5. CASE \/ \E a \in Alerts : IngestFails(r, a)
           \/ \E k \in KeySet : GroupFails(r, k)
  <2>1. Fault /\ UNCHANGED <<rows, diagnosis, batch, payload, redelivered>>
    BY <1>5 DEF IngestFails, GroupFails
  <2> QED BY <2>1, QuietStep, FaultTyped
<1>6. CASE \/ EndIngest(r) \/ ListWindow(r) \/ PlanRooms(r)
           \/ \E k \in KeySet : \/ ReadGroup(r, k) \/ ReadGroupRefused(r, k)
                                \/ WriteGroupRefused(r, k)
  <2>1. UNCHANGED <<rows, diagnosis, batch, payload, redelivered, faults>>
    BY <1>6 DEF EndIngest, ListWindow, PlanRooms, PlanOpen, ReadGroup, ReadGroupRefused,
                WriteGroupRefused
  <2> QED BY <2>1, QuietStep, CountersKept
<1>7. CASE Redeliver(r)
  <2>1. /\ UNCHANGED <<rows, diagnosis, batch, payload, faults>>
        /\ redelivered < MaxRedeliveries /\ redelivered' = redelivered + 1
    BY <1>7 DEF Redeliver
  <2>2. CountersTyped'
    BY <2>1, BoundsAssumption DEF CountersTyped
  <2> QED BY <2>1, <2>2, QuietStep
<1> QED BY <1>1, <1>2, <1>3, <1>4, <1>5, <1>6, <1>7 DEF RequestStep

-----------------------------------------------------------------------------
(***************************************************************************)
(* What a handler relies on stays true as the rows grow.                   *)
(***************************************************************************)

LEMMA HonestKept ==
  ASSUME RowsTyped, Grows
  PROVE  \A E \in Evidences : Honest(E) =>
           \A a \in DOMAIN E : /\ events'[a] # "none"
                               /\ E[a] # "firing" => events'[a] = E[a]
PROOF
<1> SUFFICES ASSUME NEW E \in Evidences, Honest(E), NEW a \in DOMAIN E
             PROVE  /\ events'[a] # "none"
                    /\ E[a] # "firing" => events'[a] = E[a]
  OBVIOUS
<1>1. a \in Alerts /\ E[a] \in Status
  BY EvidenceTyped
<1>2. events[a] # "none" /\ (E[a] # "firing" => events[a] = E[a])
  BY DEF Honest
<1> QED BY <1>1, <1>2, LaterIs, StatusIs

\* The rooms a handler has planned are still to come, or there.
PlacesKept(r) ==
  /\ \A i \in DOMAIN req[r].plan :
       req[r].plan[i] \in rooms' \/ \E j \in DOMAIN req'[r].plan : req'[r].plan[j] = req[r].plan[i]
  /\ req[r].skipped \subseteq req'[r].skipped
  /\ req[r].planned = MaxRooms => req'[r].planned = MaxRooms

LEMMA DiagnosedKept ==
  ASSUME Grows, NEW r, payload'[r] = payload[r], PlacesKept(r), NEW p, Diagnosed(r, p)
  PROVE  Diagnosed(r, p)'
PROOF
<1>1. Mine(r)' = Mine(r)
  BY DEF Mine, InWindow
<1>2. ASSUME NEW s, Settled(r, p, s) PROVE Settled(r, p, s)'
  BY <1>2 DEF Settled, PlacesKept, Grows
<1>3. ASSUME NEW s, NEW a, Shows(s, a) PROVE Shows(s, a)'
  BY <1>3 DEF Shows, Grows
<1> SUFFICES ASSUME NEW a \in Mine(r)
             PROVE  \E s \in DOMAIN snapshots' : Shows(s, a)' /\ Settled(r, p, s)'
  BY <1>1 DEF Diagnosed
<1>4. PICK s \in DOMAIN snapshots : Shows(s, a) /\ Settled(r, p, s)
  BY DEF Diagnosed
<1> QED BY <1>2, <1>3, <1>4 DEF Grows

LEMMA InRefsKept ==
  ASSUME Grows, NEW r, req'[r].refs = req[r].refs, NEW a, InRefs(r, a)
  PROVE  InRefs(r, a)'
BY DEF InRefs, Shows, Grows

LEMMA ReplayHonest ==
  ASSUME RowsTyped, RequestsTyped, Grows, NEW r \in Requests, ReplaySound(r),
         req'[r].listed \in {req[r].listed, NoEvidence},
         req'[r].evidence \in {req[r].evidence, NoEvidence}
  PROVE  Honest(req[r].listed)' /\ Honest(req[r].evidence)'
PROOF
<1>1. /\ req[r].listed \in Evidences /\ Honest(req[r].listed)
      /\ req[r].evidence \in Evidences /\ Honest(req[r].evidence)
  BY HandlerFields DEF ReplaySound, RequestsTyped
<1>2. /\ \A a \in DOMAIN req[r].listed :
           /\ events'[a] # "none"
           /\ req[r].listed[a] # "firing" => events'[a] = req[r].listed[a]
      /\ \A a \in DOMAIN req[r].evidence :
           /\ events'[a] # "none"
           /\ req[r].evidence[a] # "firing" => events'[a] = req[r].evidence[a]
  BY <1>1, HonestKept
<1> QED BY <1>2, NoEvidenceTyped DEF Honest

LEMMA SameHandler ==
  ASSUME RowsTyped, RequestsTyped, Grows, NEW q \in Requests, HandlerSound(q),
         req'[q] = req[q], payload'[q] = payload[q]
  PROVE  HandlerSound(q)'
PROOF
<1> USE DEF HandlerSound
<1>1. InBounds(q)'
  BY DEF InBounds, Grows
<1>2. ReplaySound(q)'
  <2>1. Honest(req[q].listed)' /\ Honest(req[q].evidence)'
    BY ReplayHonest
  <2>2. \A k : IsNextDraft(q, k)' <=> IsNextDraft(q, k)
    BY DEF IsNextDraft
  <2>3. \A k : DraftSound(q, k) => DraftSound(q, k)'
    <3>1. req[q].found # NoGroup => req[q].found \in Groups
      BY HandlerFields DEF RequestsTyped
    <3> QED BY <3>1 DEF DraftSound, Grows, Exists
  <2> QED BY <2>1, <2>2, <2>3 DEF ReplaySound
<1>3. PolicySound(q)'
  BY DEF PolicySound
<1>4. AlertsFollowed(q)'
  <2>1. PlacesKept(q)
    BY DEF PlacesKept
  <2>2. \A p : Diagnosed(q, p) => Diagnosed(q, p)'
    BY <2>1, DiagnosedKept
  <2>3. \A a : InRefs(q, a) => InRefs(q, a)'
    BY InRefsKept
  <2>4. Mine(q)' = Mine(q) /\ PoliciesOf(q)' = PoliciesOf(q)
    BY DEF Mine, InWindow, PoliciesOf
  <2>5. \A a \in payload[q].firing : events[a] # "none" => events'[a] # "none"
    BY LaterIs DEF RequestsTyped, Loads
  <2> QED BY <2>2, <2>3, <2>4, <2>5 DEF AlertsFollowed
<1> QED BY <1>1, <1>2, <1>3, <1>4

-----------------------------------------------------------------------------
(***************************************************************************)
(* The handler of a request from one step to the next.                     *)
(***************************************************************************)

LEMMA StoringFields ==
  ASSUME NEW h \in Handlers, NEW todo, NEW resolving, NEW errors, NEW pc
  PROVE  /\ LET x == [h EXCEPT !.todo = todo] IN
            /\ x.pc = h.pc /\ x.todo = todo /\ x.resolving = h.resolving
            /\ x.errors = h.errors /\ x.policy = h.policy /\ x.listed = h.listed
            /\ x.drafts = h.drafts /\ x.found = h.found /\ x.before = h.before
            /\ x.evidence = h.evidence /\ x.refs = h.refs /\ x.plan = h.plan
            /\ x.planned = h.planned /\ x.skipped = h.skipped
         /\ LET x == [h EXCEPT !.todo = todo, !.errors = errors] IN
            /\ x.pc = h.pc /\ x.todo = todo /\ x.resolving = h.resolving
            /\ x.errors = errors /\ x.policy = h.policy /\ x.listed = h.listed
            /\ x.drafts = h.drafts /\ x.found = h.found /\ x.before = h.before
            /\ x.evidence = h.evidence /\ x.refs = h.refs /\ x.plan = h.plan
            /\ x.planned = h.planned /\ x.skipped = h.skipped
         /\ LET x == [h EXCEPT !.resolving = resolving, !.errors = errors] IN
            /\ x.pc = h.pc /\ x.todo = h.todo /\ x.resolving = resolving
            /\ x.errors = errors /\ x.policy = h.policy /\ x.listed = h.listed
            /\ x.drafts = h.drafts /\ x.found = h.found /\ x.before = h.before
            /\ x.evidence = h.evidence /\ x.refs = h.refs /\ x.plan = h.plan
            /\ x.planned = h.planned /\ x.skipped = h.skipped
         /\ LET x == [h EXCEPT !.pc = pc] IN
            /\ x.pc = pc /\ x.todo = h.todo /\ x.resolving = h.resolving
            /\ x.errors = h.errors /\ x.policy = h.policy /\ x.listed = h.listed
            /\ x.drafts = h.drafts /\ x.found = h.found /\ x.before = h.before
            /\ x.evidence = h.evidence /\ x.refs = h.refs /\ x.plan = h.plan
            /\ x.planned = h.planned /\ x.skipped = h.skipped
BY DEF Handlers

\* What is known before the step of a request that leaves its payload alone.
Steady(r) ==
  RowsTyped /\ RequestsTyped /\ Grows /\ HandlerSound(r) /\ payload' = payload

\* While alerts are stored, nothing but these fields changes.
Storing(r, todo, resolving, errors) ==
  /\ req'[r].pc = req[r].pc /\ req'[r].policy = req[r].policy
  /\ req'[r].todo = todo /\ req'[r].resolving = resolving /\ req'[r].errors = errors
  /\ req'[r].listed = req[r].listed /\ req'[r].drafts = req[r].drafts
  /\ req'[r].found = req[r].found /\ req'[r].before = req[r].before
  /\ req'[r].evidence = req[r].evidence /\ req'[r].refs = req[r].refs
  /\ req'[r].plan = req[r].plan /\ req'[r].planned = req[r].planned
  /\ req'[r].skipped = req[r].skipped

LEMMA StoringSound ==
  ASSUME NEW r \in Requests, Steady(r), req[r].pc = "ingest",
         NEW todo, todo \subseteq req[r].todo, NEW resolving, resolving \subseteq req[r].resolving,
         NEW errors, Storing(r, todo, resolving, errors),
         \A a \in req[r].todo \ todo : errors \/ events'[a] # "none",
         req[r].errors => errors
  PROVE  HandlerSound(r)'
PROOF
<1> USE DEF Steady, HandlerSound, Storing
<1>1. InBounds(r)'
  BY DEF InBounds, Grows
<1>2. ReplaySound(r)'
  <2>1. Honest(req[r].listed)' /\ Honest(req[r].evidence)'
    BY ReplayHonest
  <2> QED BY <2>1 DEF ReplaySound
<1>3. PolicySound(r)'
  BY DEF PolicySound
<1>4. AlertsFollowed(r)'
  <2>1. \A a \in payload[r].firing : events[a] # "none" => events'[a] # "none"
    BY LaterIs DEF RequestsTyped, Loads
  <2>2. \A a \in payload[r].firing : a \in todo \/ errors \/ events'[a] # "none"
    BY <2>1 DEF AlertsFollowed
  <2> QED BY <2>2 DEF AlertsFollowed, Replaying
<1> QED BY <1>1, <1>2, <1>3, <1>4

LEMMA IngestSound ==
  ASSUME NEW r \in Requests, Steady(r), NEW a \in Alerts, IngestAlert(r, a)
  PROVE  HandlerSound(r)'
PROOF
<1> DEFINE todo == req[r].todo \ {a}
<1>1. req[r].pc = "ingest"
  BY DEF IngestAlert, IsNextAlert
<1>2. req'[r] = [req[r] EXCEPT !.todo = todo]
  BY IngestMoves DEF Steady, RequestsTyped
<1>3. Storing(r, todo, req[r].resolving, req[r].errors)
  <2>1. req[r] \in Handlers
    BY DEF Steady, RequestsTyped
  <2> HIDE DEF todo
  <2> QED BY <1>2, <2>1, StoringFields DEF Storing
<1>4. events'[a] # "none"
  BY StatusIs DEF IngestAlert, StoredStatus, Steady, RowsTyped
<1> QED BY <1>1, <1>3, <1>4, StoringSound

LEMMA IngestFailsSound ==
  ASSUME NEW r \in Requests, Steady(r), NEW a \in Alerts, IngestFails(r, a)
  PROVE  HandlerSound(r)'
PROOF
<1> DEFINE todo == req[r].todo \ {a}
<1>1. req[r].pc = "ingest"
  BY DEF IngestFails, IsNextAlert
<1>2. req'[r] = [req[r] EXCEPT !.todo = todo, !.errors = TRUE]
  BY IngestFailsMoves DEF Steady, RequestsTyped
<1>3. Storing(r, todo, req[r].resolving, TRUE)
  <2>1. req[r] \in Handlers
    BY DEF Steady, RequestsTyped
  <2> HIDE DEF todo
  <2> QED BY <1>2, <2>1, StoringFields DEF Storing
<1> QED BY <1>1, <1>3, StoringSound

LEMMA ResolveSound ==
  ASSUME NEW r \in Requests, Steady(r), NEW e, ResolveAlert(r, e)
  PROVE  HandlerSound(r)'
PROOF
<1> DEFINE resolving == req[r].resolving \ {e}
<1>1. req[r].pc = "ingest" /\ req[r].todo = {}
  BY DEF ResolveAlert
<1>2. PICK failed \in BOOLEAN :
        /\ req'[r] = [req[r] EXCEPT !.resolving = resolving, !.errors = failed]
        /\ req[r].errors => failed
  BY ResolveMoves DEF Steady, RequestsTyped
<1>3. Storing(r, req[r].todo, resolving, failed)
  <2>1. req[r] \in Handlers
    BY DEF Steady, RequestsTyped
  <2> HIDE DEF resolving
  <2> QED BY <1>2, <2>1, StoringFields DEF Storing
<1> QED BY <1>1, <1>2, <1>3, StoringSound

\* A step that only moves the handler on.
MovesTo(r, pc) ==
  /\ req'[r].pc = pc /\ req'[r].todo = req[r].todo
  /\ req'[r].resolving = req[r].resolving /\ req'[r].errors = req[r].errors
  /\ req'[r].policy = req[r].policy /\ req'[r].listed = req[r].listed
  /\ req'[r].drafts = req[r].drafts /\ req'[r].found = req[r].found
  /\ req'[r].before = req[r].before /\ req'[r].evidence = req[r].evidence
  /\ req'[r].refs = req[r].refs /\ req'[r].plan = req[r].plan
  /\ req'[r].planned = req[r].planned /\ req'[r].skipped = req[r].skipped

LEMMA MovesToIs ==
  ASSUME NEW r \in Requests, RequestsTyped, NEW pc, req'[r] = [req[r] EXCEPT !.pc = pc]
  PROVE  MovesTo(r, pc)
PROOF
<1>1. req[r] \in Handlers
  BY DEF RequestsTyped
<1> QED BY <1>1, StoringFields DEF MovesTo

LEMMA MovedBounds ==
  ASSUME NEW r \in Requests, Steady(r), NEW pc, MovesTo(r, pc)
  PROVE  InBounds(r)'
BY DEF MovesTo, InBounds, Grows, Steady, HandlerSound

LEMMA EndIngestSound ==
  ASSUME NEW r \in Requests, Steady(r), EndIngest(r)
  PROVE  HandlerSound(r)'
PROOF
<1> USE DEF Steady, HandlerSound
<1>1. req[r].pc = "ingest" /\ req[r].todo = {}
  BY DEF EndIngest
<1>2. PICK pc \in {"failed", "done", "list"} :
        /\ req'[r] = [req[r] EXCEPT !.pc = pc]
        /\ pc # "failed" => ~req[r].errors
        /\ pc = "done" => r \in Webhooks /\ payload[r].firing = {}
  BY EndIngestMoves DEF RequestsTyped
<1>3. MovesTo(r, pc)
  BY <1>2, MovesToIs
<1>4. InBounds(r)'
  BY <1>3, MovedBounds
<1>5. ReplaySound(r)'
  <2>1. Honest(req[r].listed)' /\ Honest(req[r].evidence)'
    BY <1>3, ReplayHonest DEF MovesTo
  <2> QED BY <1>1, <1>2, <1>3, <2>1 DEF ReplaySound, MovesTo
<1>6. PolicySound(r)'
  BY <1>1, <1>2, <1>3 DEF PolicySound, MovesTo
<1>7. AlertsFollowed(r)'
  <2>1. CASE pc = "failed"
    BY <1>3, <2>1 DEF AlertsFollowed, MovesTo, Replaying
  <2>2. CASE pc = "done"
    <3>1. Mine(r)' = {}
      BY <1>2, <2>2 DEF Mine
    <3>2. \A p : Diagnosed(r, p)'
      BY <3>1 DEF Diagnosed
    <3> QED BY <1>1, <1>3, <2>2, <3>2 DEF AlertsFollowed, MovesTo, Replaying
  <2>3. CASE pc = "list"
    <3>1. \A a \in payload[r].firing : events'[a] # "none"
      BY <1>1, <1>2, <2>3, LaterIs DEF AlertsFollowed, RequestsTyped, Loads
    <3>2. r \in Webhooks => req'[r].policy = 1
      BY <1>1, <1>3 DEF PolicySound, MovesTo
    <3>3. ~ \E p \in Policies : p < 1
      BY BoundsAssumption DEF Policies
    <3> QED BY <1>1, <1>3, <2>3, <3>1, <3>2, <3>3 DEF AlertsFollowed, MovesTo, Replaying
  <2> QED BY <1>2, <2>1, <2>2, <2>3
<1> QED BY <1>4, <1>5, <1>6, <1>7

LEMMA ReplayedSound ==
  ASSUME NEW r \in Requests, Steady(r), Replayed(r)
  PROVE  HandlerSound(r)'
PROOF
<1> USE DEF Steady, HandlerSound
<1>1. req[r].pc = "replayed"
  BY DEF Replayed
<1>2. PICK pc \in {"failed", "done", "plan"} :
        /\ req'[r] = [req[r] EXCEPT !.pc = pc]
        /\ pc # "failed" => ~req[r].errors
        /\ pc = "done" => r \in Replays /\ req[r].refs = << >>
  BY ReplayedMoves DEF RequestsTyped
<1>3. MovesTo(r, pc)
  BY <1>2, MovesToIs
<1>4. InBounds(r)'
  BY <1>3, MovedBounds
<1>5. ReplaySound(r)'
  <2>1. Honest(req[r].listed)' /\ Honest(req[r].evidence)'
    BY <1>3, ReplayHonest DEF MovesTo
  <2> QED BY <1>1, <1>2, <1>3, <2>1 DEF ReplaySound, MovesTo
<1>6. PolicySound(r)'
  BY <1>1, <1>2, <1>3 DEF PolicySound, MovesTo
<1>7. AlertsFollowed(r)'
  <2>1. Mine(r)' = Mine(r)
    BY DEF Mine, InWindow
  <2>2. CASE pc = "failed"
    BY <1>3, <2>2 DEF AlertsFollowed, MovesTo, Replaying
  <2>3. CASE pc = "done"
    <3>1. Mine(r)' = {}
      BY <1>1, <1>2, <2>1, <2>3 DEF AlertsFollowed, InRefs
    <3>2. \A p : Diagnosed(r, p)'
      BY <3>1 DEF Diagnosed
    <3> QED BY <1>1, <1>2, <1>3, <2>3, <3>2 DEF AlertsFollowed, MovesTo, Replaying
  <2>4. CASE pc = "plan"
    <3>1. \A a \in payload[r].firing : events'[a] # "none"
      BY <1>1, LaterIs DEF AlertsFollowed, RequestsTyped, Loads, Replaying
    <3>2. \A a \in Mine(r) : InRefs(r, a)'
      BY <1>1, <1>2, <1>3, <2>4, InRefsKept DEF AlertsFollowed, MovesTo
    <3>3. PlacesKept(r)
      BY <1>3 DEF PlacesKept, MovesTo
    <3>4. \A p : Diagnosed(r, p) => Diagnosed(r, p)'
      BY <3>3, DiagnosedKept
    <3> QED BY <1>1, <1>3, <2>1, <2>4, <3>1, <3>2, <3>4 DEF AlertsFollowed, MovesTo, Replaying
  <2> QED BY <1>2, <2>2, <2>3, <2>4
<1> QED BY <1>4, <1>5, <1>6, <1>7

\* The fields the steps of a replay change.
LEMMA ListedFields ==
  ASSUME NEW h \in Handlers, NEW pc, NEW listed, NEW drafts, NEW refs
  PROVE  LET x == [h EXCEPT !.pc = pc, !.listed = listed, !.drafts = drafts, !.refs = refs] IN
         /\ x.pc = pc /\ x.todo = h.todo /\ x.resolving = h.resolving
         /\ x.errors = h.errors /\ x.policy = h.policy /\ x.listed = listed
         /\ x.drafts = drafts /\ x.found = h.found /\ x.before = h.before
         /\ x.evidence = h.evidence /\ x.refs = refs /\ x.plan = h.plan
         /\ x.planned = h.planned /\ x.skipped = h.skipped
BY DEF Handlers

LEMMA SkippedFields ==
  ASSUME NEW h \in Handlers, NEW pc, NEW drafts, NEW found, NEW before, NEW evidence
  PROVE  LET x == [h EXCEPT !.drafts = drafts, !.errors = TRUE, !.pc = pc, !.found = found,
                            !.before = before, !.evidence = evidence] IN
         /\ x.pc = pc /\ x.todo = h.todo /\ x.resolving = h.resolving
         /\ x.errors = TRUE /\ x.policy = h.policy /\ x.listed = h.listed
         /\ x.drafts = drafts /\ x.found = found /\ x.before = before
         /\ x.evidence = evidence /\ x.refs = h.refs /\ x.plan = h.plan
         /\ x.planned = h.planned /\ x.skipped = h.skipped
BY DEF Handlers

LEMMA ReadFields ==
  ASSUME NEW h \in Handlers, NEW pc, NEW found, NEW before, NEW evidence
  PROVE  LET x == [h EXCEPT !.pc = pc, !.found = found, !.before = before,
                            !.evidence = evidence] IN
         /\ x.pc = pc /\ x.todo = h.todo /\ x.resolving = h.resolving
         /\ x.errors = h.errors /\ x.policy = h.policy /\ x.listed = h.listed
         /\ x.drafts = h.drafts /\ x.found = found /\ x.before = before
         /\ x.evidence = evidence /\ x.refs = h.refs /\ x.plan = h.plan
         /\ x.planned = h.planned /\ x.skipped = h.skipped
BY DEF Handlers

LEMMA WrittenFields ==
  ASSUME NEW h \in Handlers, NEW refs, NEW drafts, NEW pc, NEW found, NEW before, NEW evidence
  PROVE  LET x == [h EXCEPT !.refs = refs, !.drafts = drafts, !.pc = pc, !.found = found,
                            !.before = before, !.evidence = evidence] IN
         /\ x.pc = pc /\ x.todo = h.todo /\ x.resolving = h.resolving
         /\ x.errors = h.errors /\ x.policy = h.policy /\ x.listed = h.listed
         /\ x.drafts = drafts /\ x.found = found /\ x.before = before
         /\ x.evidence = evidence /\ x.refs = refs /\ x.plan = h.plan
         /\ x.planned = h.planned /\ x.skipped = h.skipped
BY DEF Handlers

LEMMA PlannedFields ==
  ASSUME NEW h \in Handlers, NEW plan, NEW planned, NEW skipped, NEW policy, NEW pc,
         NEW listed, NEW refs
  PROVE  LET x == [h EXCEPT !.plan = plan, !.planned = planned, !.skipped = skipped,
                     !.policy = policy, !.pc = pc, !.listed = listed, !.refs = refs] IN
         /\ x.pc = pc /\ x.todo = h.todo /\ x.resolving = h.resolving
         /\ x.errors = h.errors /\ x.policy = policy /\ x.listed = listed
         /\ x.drafts = h.drafts /\ x.found = h.found /\ x.before = h.before
         /\ x.evidence = h.evidence /\ x.refs = refs /\ x.plan = plan
         /\ x.planned = planned /\ x.skipped = skipped
BY DEF Handlers

LEMMA StartedFields ==
  ASSUME NEW h \in Handlers, NEW plan, NEW pc
  PROVE  LET x == [h EXCEPT !.plan = plan, !.pc = pc] IN
         /\ x.pc = pc /\ x.todo = h.todo /\ x.resolving = h.resolving
         /\ x.errors = h.errors /\ x.policy = h.policy /\ x.listed = h.listed
         /\ x.drafts = h.drafts /\ x.found = h.found /\ x.before = h.before
         /\ x.evidence = h.evidence /\ x.refs = h.refs /\ x.plan = plan
         /\ x.planned = h.planned /\ x.skipped = h.skipped
BY DEF Handlers

\* What its window and its policies ask of a request does not change.
LEMMA Followed ==
  ASSUME NEW r \in Requests, Steady(r)
  PROVE  /\ Mine(r)' = Mine(r) /\ PoliciesOf(r)' = PoliciesOf(r)
         /\ Mine(r) \subseteq payload[r].firing /\ payload[r].firing \subseteq Alerts
         /\ req[r].pc \in Replaying => \A a \in payload[r].firing :
                                         events[a] # "none" /\ events'[a] # "none"
         /\ PlacesKept(r) => \A p : Diagnosed(r, p) => Diagnosed(r, p)'
PROOF
<1> USE DEF Steady, HandlerSound
<1>1. Mine(r)' = Mine(r) /\ PoliciesOf(r)' = PoliciesOf(r)
  BY DEF Mine, InWindow, PoliciesOf
<1>2. Mine(r) \subseteq payload[r].firing /\ payload[r].firing \subseteq Alerts
  BY DEF Mine, RequestsTyped, Loads
<1>3. req[r].pc \in Replaying => \A a \in payload[r].firing :
                                   events[a] # "none" /\ events'[a] # "none"
  BY <1>2, LaterIs DEF AlertsFollowed
<1>4. PlacesKept(r) => \A p : Diagnosed(r, p) => Diagnosed(r, p)'
  BY DiagnosedKept
<1> QED BY <1>1, <1>2, <1>3, <1>4

LEMMA ListSound ==
  ASSUME NEW r \in Requests, Steady(r), ListWindow(r)
  PROVE  HandlerSound(r)'
PROOF
<1> USE DEF Steady, HandlerSound
<1>1. req[r].pc = "list" /\ req[r].pc \in Replaying /\ req[r] \in Handlers
  BY DEF ListWindow, Replaying, RequestsTyped
<1>2. PICK listed \in Evidences, pc \in {"failed", "replayed", "read"} :
        /\ req'[r] = [req[r] EXCEPT !.pc = pc, !.listed = listed,
                                    !.drafts = Keys(listed), !.refs = << >>]
        /\ \A a \in DOMAIN listed : events[a] # "none" /\ listed[a] = events[a]
        /\ \A a \in Mine(r) : events[a] # "none" /\ a \in Alerts => a \in DOMAIN listed
        /\ pc = "replayed" => DOMAIN listed = {}
  BY ListMoves DEF RequestsTyped
<1>3. /\ req'[r].pc = pc /\ req'[r].todo = req[r].todo
      /\ req'[r].resolving = req[r].resolving /\ req'[r].policy = req[r].policy
      /\ req'[r].listed = listed /\ req'[r].drafts = Keys(listed)
      /\ req'[r].found = req[r].found /\ req'[r].before = req[r].before
      /\ req'[r].evidence = req[r].evidence /\ req'[r].refs = << >>
      /\ req'[r].plan = req[r].plan /\ req'[r].planned = req[r].planned
      /\ req'[r].skipped = req[r].skipped
  BY <1>1, <1>2, ListedFields
<1>4. InBounds(r)'
  BY <1>3 DEF InBounds, Grows
<1>5. ReplaySound(r)'
  <2>1. Honest(listed) /\ Honest(req[r].evidence) /\ req[r].evidence \in Evidences
    BY <1>1, <1>2, HandlerFields DEF Honest, ReplaySound, RequestsTyped
  <2>2. \A E \in Evidences : Honest(E) =>
           \A a \in DOMAIN E : /\ events'[a] # "none"
                               /\ E[a] # "firing" => events'[a] = E[a]
    BY HonestKept
  <2>3. Honest(req[r].listed)' /\ Honest(req[r].evidence)'
    BY <1>3, <2>1, <2>2 DEF Honest
  <2> QED BY <1>1, <1>2, <1>3, <2>3 DEF ReplaySound
<1>6. PolicySound(r)'
  BY <1>1, <1>2, <1>3 DEF PolicySound
<1>7. AlertsFollowed(r)'
  <2>1. \A a \in Mine(r) : a \in DOMAIN listed
    BY <1>1, <1>2, Followed
  <2>2. \A a \in Mine(r) : a[1] \in Keys(listed)
    BY <2>1 DEF Keys
  <2>3. PlacesKept(r)
    BY <1>3 DEF PlacesKept
  <2>4. pc = "replayed" => Mine(r) = {}
    BY <1>2, <2>1
  <2> QED BY <1>1, <1>2, <1>3, <2>1, <2>2, <2>3, <2>4, Followed DEF AlertsFollowed, Replaying
<1> QED BY <1>4, <1>5, <1>6, <1>7

LEMMA SkipSound ==
  ASSUME NEW r \in Requests, Steady(r), req[r].pc \in {"read", "write"}, NEW k, Skip(r, k)
  PROVE  HandlerSound(r)'
PROOF
<1> USE DEF Steady, HandlerSound
<1>1. req[r].pc \in Replaying /\ req[r] \in Handlers
  BY DEF Replaying, RequestsTyped
<1>2. PICK pc \in {"replayed", "read"} :
        req'[r] = [req[r] EXCEPT !.drafts = @ \ {k}, !.errors = TRUE, !.pc = pc,
                     !.found = NoGroup, !.before = NoHeader, !.evidence = NoEvidence]
  BY SkipMoves DEF RequestsTyped
<1> DEFINE drafts == req[r].drafts \ {k}
<1>3. /\ req'[r].pc = pc /\ req'[r].todo = req[r].todo
      /\ req'[r].resolving = req[r].resolving /\ req'[r].errors = TRUE
      /\ req'[r].policy = req[r].policy
      /\ req'[r].listed = req[r].listed /\ req'[r].drafts = drafts
      /\ req'[r].found = NoGroup /\ req'[r].before = NoHeader
      /\ req'[r].evidence = NoEvidence /\ req'[r].refs = req[r].refs
      /\ req'[r].plan = req[r].plan /\ req'[r].planned = req[r].planned
      /\ req'[r].skipped = req[r].skipped
  <2> HIDE DEF drafts
  <2>1. req'[r] = [req[r] EXCEPT !.drafts = drafts, !.errors = TRUE, !.pc = pc,
                     !.found = NoGroup, !.before = NoHeader, !.evidence = NoEvidence]
    BY <1>2 DEF drafts
  <2> QED BY <1>1, <2>1, SkippedFields
<1>4. InBounds(r)'
  BY <1>3 DEF InBounds, Grows
<1>5. ReplaySound(r)'
  <2>1. Honest(req[r].listed)' /\ Honest(req[r].evidence)'
    <3>1. Honest(req[r].listed)'
      <4>1. /\ req[r].listed \in Evidences /\ Honest(req[r].listed)
        BY <1>1, HandlerFields DEF ReplaySound, RequestsTyped
      <4>2. \A a \in DOMAIN req[r].listed :
               /\ events'[a] # "none"
               /\ req[r].listed[a] # "firing" => events'[a] = req[r].listed[a]
        BY <4>1, HonestKept
      <4> QED BY <1>3, <4>2 DEF Honest
    <3>2. Honest(req[r].evidence)'
      BY <1>3, NoEvidenceTyped DEF Honest
    <3> QED BY <3>1, <3>2
  <2> QED BY <1>2, <1>3, <2>1 DEF ReplaySound
<1>6. PolicySound(r)'
  BY <1>1, <1>2, <1>3 DEF PolicySound, Replaying
<1>7. AlertsFollowed(r)'
  <2>1. PlacesKept(r)
    BY <1>3 DEF PlacesKept
  <2>2. \A a \in Mine(r) : a \in DOMAIN req[r].listed
    BY DEF AlertsFollowed
  <2> QED BY <1>1, <1>2, <1>3, <2>1, <2>2, Followed DEF AlertsFollowed, Replaying
<1> QED BY <1>4, <1>5, <1>6, <1>7

LEMMA ReadSound ==
  ASSUME NEW r \in Requests, Steady(r), LinksSound, NEW k, ReadGroup(r, k)
  PROVE  HandlerSound(r)'
PROOF
<1> USE DEF Steady, HandlerSound
<1>1. req[r].pc = "read" /\ req[r].pc \in Replaying /\ req[r] \in Handlers /\ IsNextDraft(r, k)
  BY DEF ReadGroup, Replaying, RequestsTyped
<1>2. k \in Keys(req[r].listed) /\ req[r].listed \in Evidences
  BY <1>1, HandlerFields DEF ReplaySound, IsNextDraft, RequestsTyped
<1>3. PICK E \in Evidences, g \in Groups \cup {NoGroup}, before \in Headers :
        /\ req'[r] = [req[r] EXCEPT !.pc = "write", !.found = g,
                                    !.before = before, !.evidence = E]
        /\ ReadOf(r, k, E, g, before)
  BY ReadMoves DEF RequestsTyped
<1>4. /\ req'[r].pc = "write" /\ req'[r].todo = req[r].todo
      /\ req'[r].resolving = req[r].resolving /\ req'[r].errors = req[r].errors
      /\ req'[r].policy = req[r].policy
      /\ req'[r].listed = req[r].listed /\ req'[r].drafts = req[r].drafts
      /\ req'[r].found = g /\ req'[r].before = before
      /\ req'[r].evidence = E /\ req'[r].refs = req[r].refs
      /\ req'[r].plan = req[r].plan /\ req'[r].planned = req[r].planned
      /\ req'[r].skipped = req[r].skipped
  BY <1>1, <1>3, ReadFields
<1>5. InBounds(r)'
  BY <1>4 DEF InBounds, Grows
<1>6. ReplaySound(r)'
  <2>1. Honest(req[r].listed) /\ Honest(E)
    <3>1. Honest(req[r].listed)
      BY DEF ReplaySound
    <3>2. \A a \in DOMAIN E :
            \/ a \in DOMAIN req[r].listed /\ E[a] = req[r].listed[a]
            \/ events[a] # "none" /\ E[a] = events[a]
      BY <1>3 DEF ReadOf
    <3> QED BY <3>1, <3>2 DEF Honest
  <2>2. \A X \in Evidences : Honest(X) =>
           \A a \in DOMAIN X : /\ events'[a] # "none"
                               /\ X[a] # "firing" => events'[a] = X[a]
    BY HonestKept
  <2>3. Honest(req[r].listed)' /\ Honest(req[r].evidence)'
    BY <1>2, <1>4, <2>1, <2>2 DEF Honest
  <2>4. req[r].drafts \subseteq Keys(req[r].listed)
    BY <1>1 DEF ReplaySound
  <2>5. ASSUME NEW j, IsNextDraft(r, j)' PROVE DraftSound(r, j)'
    <3>1. IsNextDraft(r, j)
      BY <1>4, <2>5 DEF IsNextDraft
    <3>2. j = k
      BY <1>1, <1>2, <2>4, <3>1, OneNextDraft
    <3>3. AlertsOf(req[r].listed, k) # {}
      BY <1>2, DraftIs
    <3>4. g # NoGroup => Exists(g)'
      BY <1>3 DEF ReadOf, Grows, Exists
    <3> QED BY <1>3, <1>4, <3>2, <3>3, <3>4 DEF DraftSound, ReadOf
  <2> QED BY <1>4, <2>3, <2>4, <2>5 DEF ReplaySound
<1>7. PolicySound(r)'
  BY <1>1, <1>4 DEF PolicySound, Replaying
<1>8. AlertsFollowed(r)'
  <2>1. PlacesKept(r)
    BY <1>4 DEF PlacesKept
  <2>2. \A a : InRefs(r, a) => InRefs(r, a)'
    BY <1>4, InRefsKept
  <2> QED BY <1>1, <1>4, <2>1, <2>2, Followed DEF AlertsFollowed, Replaying
<1> QED BY <1>5, <1>6, <1>7, <1>8

LEMMA WriteSound ==
  ASSUME NEW r \in Requests, Steady(r), NEW k \in KeySet, WriteGroup(r, k)
  PROVE  HandlerSound(r)'
PROOF
<1> USE DEF Steady, HandlerSound
<1>1. req[r].pc = "write" /\ req[r].pc \in Replaying /\ req[r] \in Handlers
  BY DEF WriteGroup, Replaying, RequestsTyped
<1>2. PICK g \in Groups, E \in Evidences, s \in Nat, pc \in {"replayed", "read"} :
        /\ Wrote(r, k, g, E, s)
        /\ pc = "replayed" => req[r].drafts = {k}
        /\ req'[r] = [req[r] EXCEPT !.refs = Append(@, s), !.drafts = @ \ {k},
                        !.pc = pc, !.found = NoGroup, !.before = NoHeader,
                        !.evidence = NoEvidence]
  BY WriteMoves DEF RequestsTyped
<1> DEFINE drafts == req[r].drafts \ {k}
           refs == Append(req[r].refs, s)
<1>3. /\ req'[r].pc = pc /\ req'[r].todo = req[r].todo
      /\ req'[r].resolving = req[r].resolving /\ req'[r].errors = req[r].errors
      /\ req'[r].policy = req[r].policy
      /\ req'[r].listed = req[r].listed /\ req'[r].drafts = drafts
      /\ req'[r].found = NoGroup /\ req'[r].before = NoHeader
      /\ req'[r].evidence = NoEvidence /\ req'[r].refs = refs
      /\ req'[r].plan = req[r].plan /\ req'[r].planned = req[r].planned
      /\ req'[r].skipped = req[r].skipped
  <2> HIDE DEF drafts, refs
  <2>1. req'[r] = [req[r] EXCEPT !.refs = refs, !.drafts = drafts, !.pc = pc,
                     !.found = NoGroup, !.before = NoHeader, !.evidence = NoEvidence]
    BY <1>2 DEF drafts, refs
  <2> QED BY <1>1, <2>1, WrittenFields
<1>4. /\ s \in DOMAIN snapshots' /\ snapshots'[s] = [group |-> g, evidence |-> E]
      /\ AlertsOf(req[r].listed, k) \subseteq DOMAIN E
  BY <1>2, SnapshotsGrow DEF Wrote
<1>5. /\ \A i \in DOMAIN req[r].refs : i \in DOMAIN refs /\ refs[i] = req[r].refs[i]
      /\ \A i \in DOMAIN refs : refs[i] = s \/ (i \in DOMAIN req[r].refs /\ refs[i] = req[r].refs[i])
      /\ \E i \in DOMAIN refs : refs[i] = s
  <2>1. req[r].refs \in Seq(Nat)
    BY <1>1, HandlerFields DEF RequestsTyped
  <2> DEFINE old == req[r].refs
  <2>2. old \in Seq(Nat) /\ refs = Append(old, s)
    BY <2>1
  <2> HIDE DEF old, refs
  <2>3. /\ DOMAIN old = 1 .. Len(old) /\ DOMAIN refs = 1 .. Len(old) + 1 /\ Len(old) \in Nat
        /\ \A i \in 1 .. Len(old) : refs[i] = old[i]
        /\ refs[Len(old) + 1] = s
    BY <2>2
  <2> QED BY <2>3 DEF old
<1> HIDE DEF refs
<1>6. InBounds(r)'
  BY <1>3, <1>4, <1>5 DEF InBounds, Grows
<1>7. ReplaySound(r)'
  <2>1. Honest(req[r].listed)'
    <3>1. /\ req[r].listed \in Evidences /\ Honest(req[r].listed)
      BY <1>1, HandlerFields DEF ReplaySound, RequestsTyped
    <3>2. \A a \in DOMAIN req[r].listed :
             /\ events'[a] # "none"
             /\ req[r].listed[a] # "firing" => events'[a] = req[r].listed[a]
      BY <3>1, HonestKept
    <3> QED BY <1>3, <3>2 DEF Honest
  <2>2. Honest(req[r].evidence)'
    BY <1>3, NoEvidenceTyped DEF Honest
  <2>3. drafts \subseteq Keys(req[r].listed)
    BY <1>1 DEF ReplaySound
  <2> QED BY <1>2, <1>3, <2>1, <2>2, <2>3 DEF ReplaySound
<1>8. PolicySound(r)'
  BY <1>1, <1>2, <1>3 DEF PolicySound, Replaying
<1>9. AlertsFollowed(r)'
  <2>1. PlacesKept(r)
    BY <1>3 DEF PlacesKept
  <2>2. \A a : InRefs(r, a) => InRefs(r, a)'
    BY <1>3, <1>5 DEF InRefs, Shows, Grows
  <2>3. ASSUME NEW a \in DOMAIN E PROVE InRefs(r, a)'
    BY <1>3, <1>4, <1>5 DEF InRefs, Shows
  <2>4. ASSUME NEW a \in Mine(r)
        PROVE  /\ a \in DOMAIN req[r].listed
               /\ a[1] \in drafts \/ req[r].errors \/ InRefs(r, a)'
    <3>1. /\ a \in DOMAIN req[r].listed
          /\ a[1] \in req[r].drafts \/ req[r].errors \/ InRefs(r, a)
      BY <1>1 DEF AlertsFollowed
    <3>2. a[1] = k => InRefs(r, a)'
      BY <1>4, <2>3, <3>1 DEF AlertsOf
    <3> QED BY <2>2, <3>1, <3>2
  <2>5. pc = "replayed" => drafts = {}
    BY <1>2
  <2> HIDE DEF drafts
  <2> QED BY <1>1, <1>2, <1>3, <2>1, <2>4, <2>5, Followed DEF AlertsFollowed, Replaying
<1> QED BY <1>6, <1>7, <1>8, <1>9

LEMMA PlanSound ==
  ASSUME NEW r \in Requests, Steady(r), PlanRooms(r)
  PROVE  HandlerSound(r)'
PROOF
<1> USE DEF Steady, HandlerSound
<1>1. req[r].pc = "plan" /\ req[r].pc \in Replaying /\ req[r] \in Handlers
  BY DEF PlanRooms, PlanOpen, Replaying, RequestsTyped
<1>2. PICK plan \in Seq(Places), n \in 0 .. MaxRooms, skipped \in SUBSET Places,
          p \in Policies, pc \in {"list", "start", "done"} :
        PlanStep(r, plan, n, skipped, p, pc)
  BY PlanMoves DEF RequestsTyped
<1>3. /\ req'[r].pc = pc /\ req'[r].todo = req[r].todo
      /\ req'[r].resolving = req[r].resolving /\ req'[r].errors = req[r].errors
      /\ req'[r].policy = p
      /\ req'[r].listed = NoEvidence /\ req'[r].drafts = req[r].drafts
      /\ req'[r].found = req[r].found /\ req'[r].before = req[r].before
      /\ req'[r].evidence = req[r].evidence /\ req'[r].refs = << >>
      /\ req'[r].plan = plan /\ req'[r].planned = n
      /\ req'[r].skipped = skipped
  <2>1. req'[r] = [req[r] EXCEPT !.plan = plan, !.planned = n, !.skipped = skipped,
                     !.policy = p, !.pc = pc, !.listed = NoEvidence, !.refs = << >>]
    BY <1>2 DEF PlanStep
  <2> QED BY <1>1, <2>1, PlannedFields
<1> DEFINE refs == {req[r].refs[i] : i \in DOMAIN req[r].refs}
<1>0. PICK policy : policy = req[r].policy
  OBVIOUS
<1>4. /\ \A i \in DOMAIN req[r].plan : i \in DOMAIN plan /\ plan[i] = req[r].plan[i]
      /\ \A i \in DOMAIN plan : \/ i \in DOMAIN req[r].plan /\ plan[i] = req[r].plan[i]
                                \/ plan[i][2] \in refs
      /\ req[r].skipped \subseteq skipped
      /\ \A x \in skipped : x \in req[r].skipped \/ x[2] \in refs
      /\ req[r].planned = MaxRooms => n = MaxRooms
      /\ \A s \in refs : \/ ConfirmedDiagnosis(s)
                         \/ \E i \in DOMAIN plan : plan[i] = <<policy, s>>
                         \/ <<policy, s>> \in skipped /\ n = MaxRooms
  BY <1>0, <1>2 DEF PlanStep, Planned
<1>5. \/ pc = "list" /\ r \in Webhooks /\ p = policy + 1
      \/ /\ pc = StartOrEnd(plan) /\ p = policy
         /\ r \in Webhooks => p = MaxPolicy
  BY <1>0, <1>2 DEF PlanStep
<1>6. refs \subseteq DOMAIN snapshots
  BY DEF InBounds
<1> HIDE DEF refs
<1>7. InBounds(r)'
  BY <1>3, <1>4, <1>6 DEF InBounds, Grows
<1>8. ReplaySound(r)'
  <2>1. Honest(req[r].listed)' /\ Honest(req[r].evidence)'
    BY <1>3, ReplayHonest
  <2> QED BY <1>1, <1>2, <1>3, <2>1 DEF ReplaySound
<1>9. policy \in Policies /\ (r \in Replays => r \notin Webhooks /\ policy = payload[r].policy)
  BY <1>0, <1>1, RequestsAssumption DEF PolicySound
<1>10. PolicySound(r)'
  BY <1>1, <1>2, <1>3, <1>5, <1>9 DEF PolicySound
<1>11. AlertsFollowed(r)'
  <2>1. PlacesKept(r)
    BY <1>3, <1>4 DEF PlacesKept
  <2>2. Diagnosed(r, policy)'
    <3> SUFFICES ASSUME NEW a \in Mine(r)
                 PROVE  \E s \in DOMAIN snapshots' : Shows(s, a)' /\ Settled(r, policy, s)'
      BY Followed DEF Diagnosed
    <3>1. InRefs(r, a)
      BY <1>1 DEF AlertsFollowed
    <3>2. PICK s \in refs : Shows(s, a)
      BY <3>1 DEF InRefs, refs
    <3>3. s \in DOMAIN snapshots' /\ Shows(s, a)'
      BY <3>2 DEF Shows, Grows
    <3>4. CASE ConfirmedDiagnosis(s)
      BY <3>3, <3>4 DEF ConfirmedDiagnosis, Settled, Grows
    <3>5. CASE \E i \in DOMAIN plan : plan[i] = <<policy, s>>
      BY <1>3, <3>3, <3>5 DEF Settled
    <3>6. CASE <<policy, s>> \in skipped /\ n = MaxRooms
      BY <1>3, <3>3, <3>6 DEF Settled
    <3> QED BY <1>4, <3>4, <3>5, <3>6
  <2>3. \A q : Diagnosed(r, q) => Diagnosed(r, q)'
    BY <2>1, Followed
  <2>4. r \in Webhooks => \A q \in Policies : q <= policy => Diagnosed(r, q)'
    <3>1. r \in Webhooks => \A q \in Policies : q < policy => Diagnosed(r, q)'
      BY <1>0, <1>1, <2>3 DEF AlertsFollowed
    <3> QED BY <1>9, <2>2, <3>1 DEF Policies
  <2>5. CASE pc = "list" /\ r \in Webhooks /\ p = policy + 1
    <3>1. \A q \in Policies : q < p => Diagnosed(r, q)'
      BY <1>9, <2>4, <2>5 DEF Policies
    <3> QED BY <1>1, <1>3, <1>9, <2>5, <3>1, Followed DEF AlertsFollowed, Replaying
  <2>6. CASE pc = StartOrEnd(plan) /\ p = policy /\ (r \in Webhooks => p = MaxPolicy)
    <3>1. \A q \in PoliciesOf(r) : Diagnosed(r, q)'
      <4>1. CASE r \in Webhooks
        BY <2>4, <2>6, <4>1 DEF PoliciesOf, Policies
      <4>2. CASE r \notin Webhooks
        BY <1>9, <2>2, <4>2 DEF PoliciesOf, Requests
      <4> QED BY <4>1, <4>2
    <3> QED BY <1>3, <2>6, <3>1, Followed DEF AlertsFollowed, Replaying, StartOrEnd
  <2> QED BY <1>5, <2>5, <2>6
<1> QED BY <1>7, <1>8, <1>10, <1>11

LEMMA TailIs ==
  ASSUME NEW S, NEW s \in Seq(S), s # << >>
  PROVE  /\ \A i \in DOMAIN Tail(s) : i + 1 \in DOMAIN s /\ Tail(s)[i] = s[i + 1]
         /\ \A i \in DOMAIN s : \/ s[i] = Head(s)
                                 \/ \E j \in DOMAIN Tail(s) : Tail(s)[j] = s[i]
PROOF
<1>1. /\ DOMAIN s = 1 .. Len(s) /\ Len(s) \in Nat /\ Head(s) = s[1]
      /\ DOMAIN Tail(s) = 1 .. Len(s) - 1
  OBVIOUS
<1>2. \A i \in 1 .. Len(s) - 1 : Tail(s)[i] = s[i + 1]
  OBVIOUS
<1>3. ASSUME NEW i \in DOMAIN s, i # 1
      PROVE  i - 1 \in DOMAIN Tail(s) /\ Tail(s)[i - 1] = s[i]
  <2>1. i - 1 \in 1 .. Len(s) - 1 /\ (i - 1) + 1 = i
    BY <1>1, <1>3
  <2> QED BY <1>1, <1>2, <2>1
<1>4. \A i \in DOMAIN Tail(s) : i + 1 \in DOMAIN s
  BY <1>1
<1> QED BY <1>1, <1>2, <1>3, <1>4

LEMMA StartSound ==
  ASSUME NEW r \in Requests, Steady(r), StartRoom(r)
  PROVE  HandlerSound(r)'
PROOF
<1> USE DEF Steady, HandlerSound
<1> DEFINE rest == Tail(req[r].plan)
           pc == StartOrEnd(rest)
<1>1. /\ req[r].pc = "start" /\ req[r] \in Handlers
      /\ req[r].plan \in Seq(Places) /\ req[r].plan # << >>
      /\ req'[r] = [req[r] EXCEPT !.plan = rest, !.pc = pc]
  BY StartMoves DEF RequestsTyped
<1>2. /\ rooms' = rooms \cup {Head(req[r].plan)}
      /\ pc \in {"start", "done"} /\ (pc = "start" <=> rest # << >>)
  BY DEF StartRoom, StartOrEnd
<1>3. /\ \A i \in DOMAIN rest : i + 1 \in DOMAIN req[r].plan /\ rest[i] = req[r].plan[i + 1]
      /\ \A i \in DOMAIN req[r].plan : \/ req[r].plan[i] = Head(req[r].plan)
                                       \/ \E j \in DOMAIN rest : rest[j] = req[r].plan[i]
  <2> DEFINE plan == req[r].plan
  <2>1. plan \in Seq(Places) /\ plan # << >>
    BY <1>1
  <2> HIDE DEF plan
  <2> QED BY ONLY <2>1, TailIs DEF rest, plan
<1> HIDE DEF rest, pc
<1>4. /\ req'[r].pc = pc /\ req'[r].todo = req[r].todo
      /\ req'[r].resolving = req[r].resolving /\ req'[r].errors = req[r].errors
      /\ req'[r].policy = req[r].policy
      /\ req'[r].listed = req[r].listed /\ req'[r].drafts = req[r].drafts
      /\ req'[r].found = req[r].found /\ req'[r].before = req[r].before
      /\ req'[r].evidence = req[r].evidence /\ req'[r].refs = req[r].refs
      /\ req'[r].plan = rest /\ req'[r].planned = req[r].planned
      /\ req'[r].skipped = req[r].skipped
  BY <1>1, StartedFields
<1>5. InBounds(r)'
  BY <1>3, <1>4 DEF InBounds, Grows
<1>6. ReplaySound(r)'
  <2>1. Honest(req[r].listed)' /\ Honest(req[r].evidence)'
    BY <1>4, ReplayHonest
  <2> QED BY <1>1, <1>2, <1>4, <2>1 DEF ReplaySound
<1>7. PolicySound(r)'
  BY <1>1, <1>2, <1>4 DEF PolicySound
<1>8. AlertsFollowed(r)'
  <2>1. PlacesKept(r)
    BY <1>2, <1>3, <1>4 DEF PlacesKept
  <2>2. \A p \in PoliciesOf(r) : Diagnosed(r, p)'
    BY <1>1, <2>1, Followed DEF AlertsFollowed
  <2> QED BY <1>2, <1>4, <2>2, Followed DEF AlertsFollowed, Replaying
<1> QED BY <1>5, <1>6, <1>7, <1>8

LEMMA IdleFields ==
  ASSUME NEW todo, NEW resolving, NEW policy
  PROVE  /\ LET x == [Idle EXCEPT !.pc = "ingest", !.todo = todo,
                                  !.resolving = resolving, !.policy = policy] IN
            /\ x.pc = "ingest" /\ x.todo = todo /\ x.resolving = resolving
            /\ x.policy = policy /\ x.listed = NoEvidence
            /\ x.found = NoGroup /\ x.before = NoHeader
            /\ x.evidence = NoEvidence /\ x.refs = << >> /\ x.plan = << >>
            /\ x.skipped = {}
         /\ LET x == [Idle EXCEPT !.pc = "failed"] IN
            /\ x.pc = "failed" /\ x.todo = {} /\ x.resolving = {}
            /\ x.listed = NoEvidence /\ x.found = NoGroup /\ x.before = NoHeader
            /\ x.evidence = NoEvidence /\ x.refs = << >> /\ x.plan = << >>
            /\ x.skipped = {}
BY DEF Idle

LEMMA FailSound ==
  ASSUME NEW r \in Requests, Steady(r), RequestFails(r)
  PROVE  HandlerSound(r)'
PROOF
<1> USE DEF Steady, HandlerSound
<1>1. /\ req[r].pc # "idle"
      /\ req'[r] = [Idle EXCEPT !.pc = "failed"]
  BY FailMoves DEF RequestFails, RequestsTyped
<1>2. /\ req'[r].pc = "failed" /\ req'[r].todo = {} /\ req'[r].resolving = {}
      /\ req'[r].listed = NoEvidence /\ req'[r].found = NoGroup /\ req'[r].before = NoHeader
      /\ req'[r].evidence = NoEvidence /\ req'[r].refs = << >> /\ req'[r].plan = << >>
      /\ req'[r].skipped = {}
  BY <1>1, IdleFields
<1>3. InBounds(r)'
  BY <1>2 DEF InBounds
<1>4. ReplaySound(r)'
  BY <1>2, NoEvidenceTyped DEF ReplaySound, Honest
<1>5. PolicySound(r)'
  BY <1>1, <1>2 DEF PolicySound
<1>6. AlertsFollowed(r)'
  BY <1>2 DEF AlertsFollowed, Replaying
<1> QED BY <1>3, <1>4, <1>5, <1>6

\* A delivery of any payload starts from what always holds.
LEMMA DeliveredSound ==
  ASSUME req \in [Requests -> Handlers], NEW r \in Requests, NEW load \in Loads,
         load.policy \in Policies, r \in Webhooks => load.policy = 1,
         Deliver(r, load), payload'[r] = load
  PROVE  HandlerSound(r)'
PROOF
<1> USE DEF HandlerSound
<1>1. req'[r] = [Idle EXCEPT !.pc = "ingest", !.todo = load.firing,
                             !.resolving = load.resolved, !.policy = load.policy]
  BY DeliverMoves
<1>2. /\ req'[r].pc = "ingest" /\ req'[r].todo = load.firing
      /\ req'[r].resolving = load.resolved /\ req'[r].policy = load.policy
      /\ req'[r].listed = NoEvidence /\ req'[r].found = NoGroup /\ req'[r].before = NoHeader
      /\ req'[r].evidence = NoEvidence /\ req'[r].refs = << >> /\ req'[r].plan = << >>
      /\ req'[r].skipped = {}
  BY <1>1, IdleFields
<1>3. InBounds(r)'
  BY <1>2 DEF InBounds
<1>4. ReplaySound(r)'
  BY <1>2, NoEvidenceTyped DEF ReplaySound, Honest
<1>5. PolicySound(r)'
  BY <1>2 DEF PolicySound
<1>6. AlertsFollowed(r)'
  BY <1>2 DEF AlertsFollowed, Replaying
<1> QED BY <1>3, <1>4, <1>5, <1>6

\* A request is received with a payload of its kind.
LEMMA ReceiveMoves ==
  ASSUME RequestsTyped, NEW r \in Requests,
         \/ r \in Webhooks /\ ReceiveWebhook(r)
         \/ r \in Replays /\ ReceiveReplay(r)
  PROVE  /\ OthersKeep(r) /\ HandlerSound(r)'
         /\ payload' \in [Requests -> Loads]
         /\ \A q \in Requests \ {r} : payload'[q] = payload[q]
         /\ UNCHANGED <<rows, diagnosis, batch, redelivered, faults>>
PROOF
<1>1. PICK load \in Loads : /\ load.policy \in Policies /\ (r \in Webhooks => load.policy = 1)
                            /\ payload' = [payload EXCEPT ![r] = load] /\ Deliver(r, load)
  <2>1. CASE r \in Webhooks /\ ReceiveWebhook(r)
    <3>1. PICK firing \in SUBSET Alerts, ended \in SUBSET (Alerts \X Ends) :
            LET load == [firing |-> firing, resolved |-> ended,
                         from |-> IF firing = {} THEN 0 ELSE Earliest(firing),
                         to |-> IF firing = {} THEN 0 ELSE Latest(firing),
                         policy |-> 1]
            IN payload' = [payload EXCEPT ![r] = load] /\ Deliver(r, load)
      BY <2>1 DEF ReceiveWebhook
    <3> DEFINE from == IF firing = {} THEN 0 ELSE Earliest(firing)
               to == IF firing = {} THEN 0 ELSE Latest(firing)
               load == [firing |-> firing, resolved |-> ended, from |-> from, to |-> to,
                        policy |-> 1]
    <3>2. from \in Nat /\ to \in Nat
      BY EarliestIs, LatestIs
    <3>3. 1 \in Policies /\ 1 \in 0 .. MaxPolicy
      BY BoundsAssumption DEF Policies
    <3>4. payload' = [payload EXCEPT ![r] = load] /\ Deliver(r, load)
      BY <3>1
    <3> HIDE DEF from, to
    <3>5. load \in Loads /\ load.policy = 1
      BY <3>2, <3>3 DEF Loads
    <3> QED BY <3>3, <3>4, <3>5
  <2>2. CASE r \in Replays /\ ReceiveReplay(r)
    <3>1. PICK active \in SUBSET Alerts, w \in Windows, p \in Policies :
            LET load == [firing |-> active, resolved |-> {}, from |-> w[1],
                         to |-> w[2], policy |-> p]
            IN payload' = [payload EXCEPT ![r] = load] /\ Deliver(r, load)
      BY <2>2 DEF ReceiveReplay
    <3> DEFINE load == [firing |-> active, resolved |-> {}, from |-> w[1], to |-> w[2],
                        policy |-> p]
    <3>2. w[1] \in Nat /\ w[2] \in Nat
      BY WindowsAssumption
    <3>3. p \in 0 .. MaxPolicy /\ r \notin Webhooks
      BY <2>2, BoundsAssumption, RequestsAssumption DEF Policies
    <3>4. payload' = [payload EXCEPT ![r] = load] /\ Deliver(r, load)
      BY <3>1
    <3>5. load \in Loads /\ load.policy = p
      BY <3>2, <3>3 DEF Loads
    <3> QED BY <3>3, <3>4, <3>5
  <2> QED BY <2>1, <2>2
<1>2. payload'[r] = load /\ payload' \in [Requests -> Loads]
      /\ \A q \in Requests \ {r} : payload'[q] = payload[q]
  BY <1>1 DEF RequestsTyped
<1>3. OthersKeep(r)
  BY <1>1, DeliverMoves DEF RequestsTyped
<1>4. HandlerSound(r)'
  BY <1>1, <1>2, DeliveredSound DEF RequestsTyped
<1>5. UNCHANGED <<rows, diagnosis, batch, redelivered, faults>>
  BY DEF ReceiveWebhook, ReceiveReplay
<1> QED BY <1>2, <1>3, <1>4, <1>5

LEMMA RedeliverSound ==
  ASSUME NEW r \in Requests, Steady(r), Redeliver(r)
  PROVE  HandlerSound(r)' /\ OthersKeep(r)
PROOF
<1>1. req[r].pc = "failed" /\ Deliver(r, payload[r]) /\ payload' = payload
  BY DEF Redeliver
<1>2. /\ req \in [Requests -> Handlers] /\ payload[r] \in Loads
      /\ payload[r].policy \in Policies /\ (r \in Webhooks => payload[r].policy = 1)
  BY <1>1 DEF Steady, RequestsTyped, HandlerSound, PolicySound
<1>3. PICK load \in Loads : load = payload[r]
  BY <1>2
<1> QED BY <1>1, <1>2, <1>3, DeliveredSound, DeliverMoves

LEMMA RequestSound ==
  ASSUME NEW r \in Requests, Steady(r), LinksSound, RequestStep(r)
  PROVE  HandlerSound(r)' /\ OthersKeep(r)
PROOF
<1>1. req \in [Requests -> Handlers] /\ RowsTyped /\ HandlerSound(r)
  BY DEF Steady, RequestsTyped
<1>2. CASE \/ \E a \in Alerts : IngestAlert(r, a) \/ IngestFails(r, a)
           \/ \E e \in Alerts \X Ends : ResolveAlert(r, e)
           \/ EndIngest(r)
  BY <1>1, <1>2, IngestSound, IngestMoves, IngestFailsSound, IngestFailsMoves,
     ResolveSound, ResolveMoves, EndIngestSound, EndIngestMoves
<1>3. CASE ListWindow(r)
  BY <1>1, <1>3, ListSound, ListMoves
<1>4. ASSUME NEW k \in KeySet,
             ReadGroupRefused(r, k) \/ WriteGroupRefused(r, k) \/ GroupFails(r, k)
      PROVE  HandlerSound(r)' /\ OthersKeep(r)
  <2>1. req[r].pc \in {"read", "write"} /\ Skip(r, k)
    BY <1>4 DEF ReadGroupRefused, WriteGroupRefused, GroupFails
  <2> QED BY <1>1, <2>1, SkipSound, SkipMoves
<1>5. ASSUME NEW k \in KeySet, ReadGroup(r, k) PROVE HandlerSound(r)' /\ OthersKeep(r)
  BY <1>1, <1>5, ReadSound, ReadMoves DEF HandlerSound
<1>6. ASSUME NEW k \in KeySet, WriteGroup(r, k) PROVE HandlerSound(r)' /\ OthersKeep(r)
  BY <1>1, <1>6, WriteSound, WriteMoves DEF HandlerSound
<1>7. CASE Replayed(r) \/ PlanRooms(r) \/ StartRoom(r)
  BY <1>1, <1>7, ReplayedSound, ReplayedMoves, PlanSound, PlanMoves, StartSound, StartMoves
     DEF HandlerSound
<1>8. CASE RequestFails(r) \/ Redeliver(r)
  BY <1>1, <1>8, FailSound, FailMoves, RedeliverSound
<1> QED BY <1>2, <1>3, <1>4, <1>5, <1>6, <1>7, <1>8 DEF RequestStep

-----------------------------------------------------------------------------
(***************************************************************************)
(* Groups, links and snapshots.                                            *)
(***************************************************************************)

RowsSound == LinksSound /\ SnapshotsSound /\ HeaderDescribesEvidence

LEMMA SnapshotTyped ==
  ASSUME snapshots \in Seq(Snapshots), NEW s \in DOMAIN snapshots
  PROVE  snapshots[s].group \in Groups /\ snapshots[s].evidence \in Evidences
PROOF
<1>1. snapshots[s] \in Snapshots
  OBVIOUS
<1> QED BY <1>1 DEF Snapshots

\* A row of an alert that changes is no harm to evidence that shows it.
LEMMA EventRowsKept ==
  ASSUME RowsTyped, RowsSound, Grows, UNCHANGED <<header, links, snapshots>>
  PROVE  RowsSound'
PROOF
<1>1. LinksSound'
  <2> SUFFICES ASSUME NEW g \in Groups, NEW a \in links[g]
               PROVE  Exists(g)' /\ events'[a] # "none" /\ a[1] = g[1] /\ g[2] <= a[2]
    BY DEF LinksSound
  <2>1. a \in Alerts /\ Exists(g) /\ events[a] # "none" /\ a[1] = g[1] /\ g[2] <= a[2]
    BY DEF RowsSound, LinksSound, RowsTyped
  <2> QED BY <2>1, LaterIs DEF Exists
<1>2. SnapshotsSound'
  <2>1. \A E \in Evidences : Honest(E) =>
           \A a \in DOMAIN E : /\ events'[a] # "none"
                               /\ E[a] # "firing" => events'[a] = E[a]
    BY HonestKept
  <2>2. \A s \in DOMAIN snapshots : snapshots[s].evidence \in Evidences
    BY SnapshotTyped DEF RowsTyped
  <2> QED BY <2>1, <2>2 DEF RowsSound, SnapshotsSound, Honest
<1>3. HeaderDescribesEvidence'
  BY DEF RowsSound, HeaderDescribesEvidence, Exists
<1> QED BY <1>1, <1>2, <1>3 DEF RowsSound

\* One transaction keeps header, links and snapshots of a group in step.
LEMMA WriteRowsSound ==
  ASSUME RowsTyped, RowsSound, Grows, req \in [Requests -> Handlers], NEW r \in Requests,
         ReplaySound(r), NEW k \in KeySet, WriteGroup(r, k)
  PROVE  RowsSound'
PROOF
<1>1. PICK g \in Groups, E \in Evidences, s \in Nat : Wrote(r, k, g, E, s)
  BY WriteMoves
<1>2. events' = events
  BY DEF WriteGroup
<1>3. Honest(E)
  BY <1>1 DEF Wrote, ReplaySound
<1>4. /\ snapshots' \in Seq(Snapshots)
      /\ \A t \in DOMAIN snapshots : t \in DOMAIN snapshots' /\ snapshots'[t] = snapshots[t]
      /\ s \in DOMAIN snapshots' /\ snapshots'[s] = [group |-> g, evidence |-> E]
      /\ \A t \in DOMAIN snapshots' : t \in DOMAIN snapshots \/ t = s
      /\ \A t \in DOMAIN snapshots : snapshots[t] = [group |-> g, evidence |-> E] =>
           s \in DOMAIN snapshots
  BY <1>1, SnapshotsGrow
<1>5. /\ links'[g] = links[g] \cup DOMAIN E
      /\ \A h \in Groups : h # g => links'[h] = links[h]
      /\ \A h \in Groups : links[h] \subseteq links'[h]
  BY <1>1 DEF Wrote, RowsTyped
<1>6. /\ \A h \in Groups : h # g => header'[h] = header[h]
      /\ header'[g] # NoHeader
      /\ header'[g] = HeaderOf(DOMAIN E) \/ (header'[g] = header[g] /\ Exists(g))
      /\ \A a \in DOMAIN E : a[1] = g[1] /\ g[2] <= a[2]
      /\ DOMAIN E # {}
  BY <1>1 DEF Wrote
<1>7. LinksSound'
  BY <1>2, <1>3, <1>5, <1>6 DEF RowsSound, LinksSound, Exists, Honest
<1>8. SnapshotsSound'
  <2>1. ASSUME NEW t \in DOMAIN snapshots'
        PROVE  /\ Honest(snapshots[t].evidence)'
               /\ DOMAIN snapshots'[t].evidence # {}
               /\ DOMAIN snapshots'[t].evidence \subseteq links'[snapshots'[t].group]
    <3>1. CASE t \in DOMAIN snapshots
      <4>1. snapshots[t].group \in Groups
        BY <3>1, SnapshotTyped DEF RowsTyped
      <4>2. /\ Honest(snapshots[t].evidence) /\ DOMAIN snapshots[t].evidence # {}
            /\ DOMAIN snapshots[t].evidence \subseteq links[snapshots[t].group]
        BY <3>1 DEF RowsSound, SnapshotsSound
      <4>3. snapshots'[t] = snapshots[t]
        BY <1>4, <3>1
      <4> QED BY <1>2, <1>5, <4>1, <4>2, <4>3 DEF Honest
    <3>2. CASE t = s
      <4>1. snapshots'[t].evidence = E /\ snapshots'[t].group = g
        BY <1>4, <3>2
      <4> QED BY <1>2, <1>3, <1>5, <1>6, <4>1 DEF Honest
    <3> QED BY <1>4, <3>1, <3>2
  <2>2. ASSUME NEW t \in DOMAIN snapshots', NEW u \in DOMAIN snapshots',
               snapshots'[t] = snapshots'[u]
        PROVE  t = u
    <3>1. \A x, y \in DOMAIN snapshots : snapshots[x] = snapshots[y] => x = y
      BY DEF RowsSound, SnapshotsSound
    <3>2. \A x \in DOMAIN snapshots : snapshots[x] = [group |-> g, evidence |-> E] =>
            s \in DOMAIN snapshots /\ snapshots[s] = [group |-> g, evidence |-> E]
      BY <1>4
    <3> QED BY <1>4, <2>2, <3>1, <3>2
  <2> QED BY <2>1, <2>2 DEF SnapshotsSound
<1>9. HeaderDescribesEvidence'
  <2> SUFFICES ASSUME NEW h \in Groups, Exists(h)'
               PROVE  \E t \in DOMAIN snapshots' :
                        /\ snapshots'[t].group = h
                        /\ HeaderOf(DOMAIN snapshots'[t].evidence) = header'[h]
    BY DEF HeaderDescribesEvidence
  <2>1. CASE h = g /\ header'[g] = HeaderOf(DOMAIN E)
    BY <1>4, <2>1
  <2>2. CASE Exists(h) /\ header'[h] = header[h]
    <3>1. PICK t \in DOMAIN snapshots : /\ snapshots[t].group = h
                                        /\ HeaderOf(DOMAIN snapshots[t].evidence) = header[h]
      BY <2>2 DEF RowsSound, HeaderDescribesEvidence
    <3> QED BY <1>4, <2>2, <3>1
  <2> QED BY <1>6, <2>1, <2>2 DEF Exists
<1> QED BY <1>7, <1>8, <1>9 DEF RowsSound

-----------------------------------------------------------------------------
(***************************************************************************)
(* The invariant, and what it says of the intake.                          *)
(***************************************************************************)

LEMMA InvParts ==
  Inv <=> /\ RowsTyped /\ DiagnosisTyped /\ CountersTyped /\ RequestsTyped /\ RowsSound
          /\ \A r \in Requests : HandlerSound(r)
BY DEF Inv, TypeInv, EvidenceInv, FollowInv, RowsSound, HandlerSound

LEMMA InitInv == Init => Inv
PROOF
<1> SUFFICES ASSUME Init PROVE Inv
  OBVIOUS
<1> USE DEF Init
<1>1. RowsTyped
  <2>1. NoHeader \in Headers
    BY DEF NoHeader, Headers
  <2> QED BY <2>1 DEF RowsTyped
<1>2. DiagnosisTyped
  BY DEF DiagnosisTyped
<1>3. CountersTyped
  BY BoundsAssumption DEF CountersTyped
<1>4. RequestsTyped
  <2>1. Empty \in Loads
    BY BoundsAssumption DEF Empty, Loads
  <2> QED BY <2>1, IdleTyped DEF RequestsTyped
<1>5. RowsSound
  BY DEF RowsSound, LinksSound, SnapshotsSound, HeaderDescribesEvidence, Exists
<1>6. ASSUME NEW r \in Requests PROVE HandlerSound(r)
  <2>1. /\ req[r].pc = "idle" /\ req[r].todo = {} /\ req[r].resolving = {}
        /\ req[r].listed = NoEvidence /\ req[r].found = NoGroup /\ req[r].before = NoHeader
        /\ req[r].evidence = NoEvidence /\ req[r].refs = << >> /\ req[r].plan = << >>
        /\ req[r].skipped = {}
    BY DEF Idle
  <2>2. InBounds(r)
    BY <2>1 DEF InBounds
  <2>3. ReplaySound(r)
    BY <2>1, NoEvidenceTyped DEF ReplaySound, Honest
  <2>4. PolicySound(r)
    BY <2>1 DEF PolicySound
  <2>5. AlertsFollowed(r)
    BY <2>1 DEF AlertsFollowed, Replaying
  <2> QED BY <2>2, <2>3, <2>4, <2>5 DEF HandlerSound
<1> QED BY <1>1, <1>2, <1>3, <1>4, <1>5, <1>6, InvParts

LEMMA RequestInv ==
  ASSUME Inv, NEW r \in Requests, RequestStep(r)
  PROVE  Inv'
PROOF
<1>1. /\ RowsTyped /\ DiagnosisTyped /\ CountersTyped /\ RequestsTyped /\ RowsSound
      /\ \A q \in Requests : HandlerSound(q)
  BY InvParts
<1>2. RowsTyped' /\ DiagnosisTyped' /\ CountersTyped' /\ Grows /\ payload' = payload
  BY <1>1, RequestGrows
<1>3. HandlerSound(r)' /\ OthersKeep(r)
  BY <1>1, <1>2, RequestSound DEF Steady, RowsSound
<1>4. RequestsTyped'
  BY <1>1, <1>2, <1>3 DEF RequestsTyped, OthersKeep
<1>5. \A q \in Requests : HandlerSound(q)'
  BY <1>1, <1>2, <1>3, SameHandler DEF OthersKeep
<1>6. RowsSound'
  <2>1. CASE \E k \in KeySet : WriteGroup(r, k)
    BY <1>1, <1>2, <2>1, WriteRowsSound DEF HandlerSound, RequestsTyped
  <2>2. CASE ~ \E k \in KeySet : WriteGroup(r, k)
    <3>1. UNCHANGED <<header, links, snapshots>>
      BY <2>2 DEF RequestStep, rows, IngestAlert, IngestFails, ResolveAlert, EndIngest,
                  ListWindow, ReadGroup, ReadGroupRefused, WriteGroupRefused, GroupFails,
                  Replayed, PlanRooms, PlanOpen, StartRoom, RequestFails, Redeliver
    <3> QED BY <1>1, <1>2, <3>1, EventRowsKept
  <2> QED BY <2>1, <2>2
<1> QED BY <1>2, <1>4, <1>5, <1>6
     DEF Inv, TypeInv, EvidenceInv, FollowInv, RowsSound, HandlerSound

LEMMA ReceiveInv ==
  ASSUME Inv, NEW r \in Requests,
         \/ r \in Webhooks /\ ReceiveWebhook(r)
         \/ r \in Replays /\ ReceiveReplay(r)
  PROVE  Inv'
PROOF
<1>1. /\ RowsTyped /\ DiagnosisTyped /\ CountersTyped /\ RequestsTyped /\ RowsSound
      /\ \A q \in Requests : HandlerSound(q)
  BY InvParts
<1>2. /\ OthersKeep(r) /\ HandlerSound(r)'
      /\ payload' \in [Requests -> Loads]
      /\ \A q \in Requests \ {r} : payload'[q] = payload[q]
      /\ UNCHANGED <<rows, diagnosis, batch, redelivered, faults>>
  BY <1>1, ReceiveMoves
<1>3. RowsTyped' /\ DiagnosisTyped' /\ Grows
  BY <1>1, <1>2, QuietStep
<1>4. CountersTyped' /\ RequestsTyped'
  BY <1>1, <1>2, CountersKept DEF RequestsTyped, OthersKeep
<1>5. \A q \in Requests : HandlerSound(q)'
  BY <1>1, <1>2, <1>3, SameHandler DEF OthersKeep
<1>6. RowsSound'
  BY <1>1, <1>2, <1>3, EventRowsKept DEF rows
<1> QED BY <1>3, <1>4, <1>5, <1>6
     DEF Inv, TypeInv, EvidenceInv, FollowInv, RowsSound, HandlerSound

\* What rooms report touches neither the requests nor the rows they rely on.
LEMMA ReportedInv ==
  ASSUME Inv, NEW p \in Policies, NEW s \in DOMAIN snapshots,
         ConfirmRoom(p, s) \/ RoomProgresses(p, s)
  PROVE  Inv'
PROOF
<1>1. /\ RowsTyped /\ DiagnosisTyped /\ CountersTyped /\ RequestsTyped /\ RowsSound
      /\ \A q \in Requests : HandlerSound(q)
  BY InvParts
<1>2. UNCHANGED <<rows, rooms, batch, payload, redelivered, faults, req>>
  BY DEF ConfirmRoom, RoomProgresses
<1>3. /\ confirmed \subseteq confirmed' /\ confirmed' \subseteq rooms
      /\ superseded' \subseteq DOMAIN snapshots
  BY <1>1 DEF ConfirmRoom, RoomProgresses, DiagnosisTyped
<1>4. RowsTyped' /\ DiagnosisTyped' /\ CountersTyped' /\ RequestsTyped' /\ Grows
  BY <1>1, <1>2, <1>3, CountersKept
     DEF RowsTyped, DiagnosisTyped, RequestsTyped, Grows, Later, rows, Exists
<1>5. \A q \in Requests : HandlerSound(q)'
  BY <1>1, <1>2, <1>4, SameHandler
<1>6. RowsSound'
  BY <1>1, <1>2, <1>4, EventRowsKept DEF rows
<1> QED BY <1>4, <1>5, <1>6
     DEF Inv, TypeInv, EvidenceInv, FollowInv, RowsSound, HandlerSound

LEMMA NextInv == Inv /\ [Next]_vars => Inv'
PROOF
<1> SUFFICES ASSUME Inv, [Next]_vars PROVE Inv'
  OBVIOUS
<1>1. CASE \/ \E r \in Webhooks : ReceiveWebhook(r)
           \/ \E r \in Replays : ReceiveReplay(r)
  BY <1>1, ReceiveInv DEF Requests
<1>2. CASE \E r \in Requests : RequestStep(r)
  BY <1>2, RequestInv
<1>3. CASE \E p \in Policies, s \in DOMAIN snapshots : ConfirmRoom(p, s) \/ RoomProgresses(p, s)
  BY <1>3, ReportedInv
<1>4. CASE UNCHANGED vars
  <2>1. UNCHANGED <<rows, diagnosis, batch, payload, redelivered, faults, req>>
    BY <1>4 DEF vars
  <2>2. /\ RowsTyped /\ DiagnosisTyped /\ CountersTyped /\ RequestsTyped /\ RowsSound
        /\ \A q \in Requests : HandlerSound(q)
    BY InvParts
  <2>3. RowsTyped' /\ DiagnosisTyped' /\ CountersTyped' /\ RequestsTyped' /\ Grows
    BY <2>1, <2>2, QuietStep, CountersKept DEF RequestsTyped
  <2>4. RowsSound' /\ \A q \in Requests : HandlerSound(q)'
    BY <2>1, <2>2, <2>3, EventRowsKept, SameHandler DEF rows
  <2> QED BY <2>3, <2>4
       DEF Inv, TypeInv, EvidenceInv, FollowInv, RowsSound, HandlerSound
<1> QED BY <1>1, <1>2, <1>3, <1>4 DEF Next

LEMMA InvTypes == Inv => TypeOK
PROOF
<1> SUFFICES ASSUME Inv PROVE TypeOK
  OBVIOUS
<1>1. /\ RowsTyped /\ DiagnosisTyped /\ CountersTyped /\ RequestsTyped
      /\ \A q \in Requests : InBounds(q)
  BY DEF Inv, TypeInv
<1>2. /\ events \in [Alerts -> Status \cup {"none"}]
      /\ header \in [Groups -> [count : Nat, last : Nat]]
      /\ links \in [Groups -> SUBSET Alerts]
      /\ snapshots = [s \in 1 .. Len(snapshots) |-> snapshots[s]]
      /\ \A s \in DOMAIN snapshots : /\ snapshots[s].group \in Groups
                                     /\ IsEvidence(snapshots[s].evidence)
  BY <1>1, SnapshotTyped, EvidenceIs DEF RowsTyped, Headers
<1>3. /\ rooms \subseteq Policies \X DOMAIN snapshots
      /\ confirmed \subseteq rooms
      /\ superseded \subseteq DOMAIN snapshots
      /\ batch \in [Replays -> SUBSET DOMAIN snapshots]
      /\ redelivered \in 0 .. MaxRedeliveries
      /\ faults \in 0 .. MaxFaults
  BY <1>1 DEF DiagnosisTyped, CountersTyped
<1>4. ASSUME NEW r \in Requests
      PROVE  /\ payload[r].firing \subseteq Alerts
             /\ payload[r].resolved \subseteq Alerts \X Ends
             /\ req[r].pc \in Pcs
             /\ req[r].todo \subseteq payload[r].firing
             /\ req[r].resolving \subseteq payload[r].resolved
             /\ req[r].policy \in Policies \cup {0}
             /\ IsEvidence(req[r].listed) /\ IsEvidence(req[r].evidence)
             /\ req[r].found \in Groups \cup {NoGroup}
             /\ req[r].refs \in Seq(DOMAIN snapshots)
             /\ req[r].plan \in Seq(Policies \X DOMAIN snapshots)
             /\ req[r].planned \in 0 .. MaxRooms
             /\ req[r].skipped \subseteq Policies \X DOMAIN snapshots
  <2>1. payload[r] \in Loads /\ InBounds(r)
    BY <1>1 DEF RequestsTyped
  <2>2. /\ req[r].pc \in Pcs /\ req[r].policy \in 0 .. MaxPolicy
        /\ req[r].listed \in Evidences /\ req[r].evidence \in Evidences
        /\ req[r].found \in Groups \cup {NoGroup}
        /\ req[r].refs \in Seq(Nat) /\ req[r].plan \in Seq(Places)
        /\ req[r].planned \in 0 .. MaxRooms /\ req[r].skipped \subseteq Places
    BY <1>1, HandlerFields DEF RequestsTyped
  <2>3. req[r].refs \in Seq(DOMAIN snapshots)
    <3> DEFINE refs == req[r].refs
    <3>1. refs \in Seq(Nat) /\ \A i \in DOMAIN refs : refs[i] \in DOMAIN snapshots
      BY <2>1, <2>2 DEF InBounds
    <3> HIDE DEF refs
    <3>2. refs \in Seq(DOMAIN snapshots)
      BY <3>1
    <3> QED BY <3>2 DEF refs
  <2>4. req[r].plan \in Seq(Policies \X DOMAIN snapshots)
    <3> DEFINE plan == req[r].plan
    <3>1. plan \in Seq(Places) /\ \A i \in DOMAIN plan : plan[i][2] \in DOMAIN snapshots
      BY <2>1, <2>2 DEF InBounds
    <3> HIDE DEF plan
    <3>2. \A i \in DOMAIN plan : plan[i] \in Places
      BY <3>1
    <3>3. \A i \in DOMAIN plan : plan[i] \in Policies \X DOMAIN snapshots
      BY <3>1, <3>2 DEF Places
    <3>4. plan \in Seq(Policies \X DOMAIN snapshots)
      BY <3>1, <3>3
    <3> QED BY <3>4 DEF plan
  <2>5. req[r].skipped \subseteq Policies \X DOMAIN snapshots
    BY <2>1, <2>2 DEF InBounds, Places
  <2>6. req[r].policy \in Policies \cup {0}
    BY <2>2, BoundsAssumption DEF Policies
  <2>7. IsEvidence(req[r].listed) /\ IsEvidence(req[r].evidence)
    BY <2>2, EvidenceIs
  <2> QED BY <2>1, <2>2, <2>3, <2>4, <2>5, <2>6, <2>7 DEF Loads, InBounds
<1> QED BY <1>2, <1>3, <1>4 DEF TypeOK

LEMMA InvEvidence == Inv => EvidenceIsSound
PROOF
<1> SUFFICES ASSUME Inv, NEW s \in DOMAIN snapshots
             PROVE  LET g == snapshots[s].group
                        E == snapshots[s].evidence
                    IN /\ DOMAIN E # {}
                       /\ \A a \in DOMAIN E : /\ events[a] # "none"
                                              /\ a \in links[g]
                                              /\ a[1] = g[1]
                                              /\ g[2] <= a[2]
                       /\ \A t \in DOMAIN snapshots : snapshots[t] = snapshots[s] => t = s
  BY DEF EvidenceIsSound
<1>1. snapshots[s].group \in Groups
  BY SnapshotTyped DEF Inv, TypeInv, RowsTyped
<1> QED BY <1>1 DEF Inv, EvidenceInv, LinksSound, SnapshotsSound, Honest

LEMMA InvResolved == Inv => ResolvedEvidenceStaysTrue
BY DEF Inv, EvidenceInv, SnapshotsSound, Honest, ResolvedEvidenceStaysTrue

LEMMA InvDiagnosed == Inv => DiagnosedOnSuccess
PROOF
<1> SUFFICES ASSUME Inv, NEW r \in Requests, req[r].pc = "done",
                    NEW a \in payload[r].firing, NEW p \in PoliciesOf(r), InWindow(r, a)
             PROVE  \E s \in DOMAIN snapshots :
                      /\ a \in DOMAIN snapshots[s].evidence
                      /\ \/ <<p, s>> \in rooms
                         \/ <<p, s>> \in req[r].skipped /\ req[r].planned = MaxRooms
                         \/ \E q \in Policies : <<q, s>> \in confirmed
  BY DEF DiagnosedOnSuccess
<1>1. Diagnosed(r, p) /\ req[r].plan = << >>
  BY DEF Inv, FollowInv, AlertsFollowed
<1>2. PICK s \in DOMAIN snapshots : Shows(s, a) /\ Settled(r, p, s)
  BY <1>1 DEF Diagnosed, Mine
<1>3. DOMAIN req[r].plan = {}
  BY <1>1
<1> QED BY <1>2, <1>3 DEF Shows, Settled

\* In every state rows are sound, a handler holds what the rows say, and the
\* alerts of a request are on their way to a room (HandleWebhook, Replay,
\* processGroup, planRooms).
THEOREM InvariantHolds == Spec => []Inv
PROOF
<1>1. Init => Inv
  BY InitInv
<1>2. Inv /\ [Next]_vars => Inv'
  BY NextInv
<1> QED BY <1>1, <1>2, PTL DEF Spec

\* Rows, requests and counters have their types in every reachable state.
THEOREM TypeCorrect == Spec => []TypeOK
PROOF
<1>1. Inv => TypeOK
  BY InvTypes
<1> QED BY <1>1, InvariantHolds, PTL

\* However requests overlap, a snapshot holds stored alerts that are linked to
\* its group, of its key and no older than it, and no group has the same
\* evidence twice (processGroup, BuildSnapshot).
THEOREM EvidenceSound == Spec => []EvidenceIsSound
PROOF
<1>1. Inv => EvidenceIsSound
  BY InvEvidence
<1> QED BY <1>1, InvariantHolds, PTL

\* Whichever request wrote the header of a group last, it counts the alerts of
\* one of the group's snapshots (mutableFieldsDiffer, UpdateGroup).
THEOREM HeadersDescribed == Spec => []HeaderDescribesEvidence
PROOF
<1>1. Inv => HeaderDescribesEvidence
  BY DEF Inv, EvidenceInv
<1> QED BY <1>1, InvariantHolds, PTL

\* An end that a snapshot shows is the end of the alert for ever
\* (UpdateEventResolution, SaveEvent).
THEOREM ResolvedStaysTrue == Spec => []ResolvedEvidenceStaysTrue
PROOF
<1>1. Inv => ResolvedEvidenceStaysTrue
  BY InvResolved
<1> QED BY <1>1, InvariantHolds, PTL

\* A request that succeeds has a room, a confirmed diagnosis or a reported
\* refusal for each of its alerts and policies, after any number of failed
\* deliveries and whatever other requests did meanwhile (Trigger, StartRooms).
THEOREM DiagnosedWhenDone == Spec => []DiagnosedOnSuccess
PROOF
<1>1. Inv => DiagnosedOnSuccess
  BY InvDiagnosed
<1> QED BY <1>1, InvariantHolds, PTL

=============================================================================
