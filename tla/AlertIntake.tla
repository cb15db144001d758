---------------------------- MODULE AlertIntake ----------------------------
(***************************************************************************)
(* From alerts to diagnosis rooms: overlapping requests (Alertmanager      *)
(* webhooks, and replays of a window for a report policy) store alerts,    *)
(* group the stored ones, freeze each group's alerts in an evidence        *)
(* snapshot, and start a diagnosis room per snapshot and auto_room policy. *)
(*                                                                         *)
(* A request has no transaction of its own: every alert, every resolution, *)
(* the listing of the window, every group and the plan of the rooms is     *)
(* one, and every room is a call of Temporal.  A request that fails half   *)
(* way is delivered again and starts from the beginning.                   *)
(*                                                                         *)
(* processGroup is one transaction under READ COMMITTED: ReadGroup is its  *)
(* reads up to the first write, WriteGroup the rest, which holds the lock  *)
(* of the group's row.                                                     *)
(***************************************************************************)
EXTENDS Integers, Sequences, FiniteSets

CONSTANTS Alerts,          \* <<group key, start time>> of the alerts there may be
          Ends,            \* end times of resolved alerts
          Webhooks,        \* webhook payloads
          Replays,         \* replays of a window for a report policy
          Windows,         \* <<from, to>>: the windows they may ask for
          MaxPolicy,       \* auto_room policies of the source, in id order
          MaxRooms,        \* maxRoomsPerTrigger
          Limit,           \* events a replay may load
          MaxPayload,      \* alerts a webhook carries
          MaxActive,       \* active alerts a provider reports to a replay
          MaxRedeliveries, \* requests sent again, in all
          MaxFaults        \* steps that fail by themselves, in all

\* Keys and times are numbers: drafts are ordered by them.  Keys are digests
\* and times columns of a fixed width, so there are finitely many alerts.
ASSUME AlertsAssumption == /\ Alerts \subseteq Nat \X (Nat \ {0})
                           /\ IsFiniteSet(Alerts)

ASSUME BoundsAssumption == /\ MaxPolicy \in Nat \ {0}
                           /\ MaxRooms \in Nat \ {0}
                           /\ Limit \in Nat \ {0}
                           /\ MaxPayload \in Nat /\ MaxPayload <= Limit
                           /\ MaxActive \in Nat
                           /\ MaxRedeliveries \in Nat
                           /\ MaxFaults \in Nat

ASSUME WindowsAssumption == Windows \subseteq Nat \X Nat

ASSUME RequestsAssumption == Webhooks \cap Replays = {}

ASSUME EndsAssumption == Ends \cap {"none", "firing"} = {}

Requests == Webhooks \cup Replays
Policies == 1 .. MaxPolicy

\* A group is <<group key, first_seen_at>>, so it is named like an alert.
Groups == Alerts
KeySet == {a[1] : a \in Alerts}
Times == {a[2] : a \in Alerts}

Status == {"firing"} \cup Ends

\* The alerts of a snapshot, each with the status it was read with.
IsEvidence(E) == DOMAIN E \subseteq Alerts /\ E \in [DOMAIN E -> Status]

VARIABLES
  events,      \* alert -> status of its row
  header,      \* group -> event_count and last_seen_at of its row
  links,       \* group -> the alerts linked to it
  snapshots,   \* the evidence snapshots, by id
  rooms,       \* <<policy, snapshot>> whose room workflow was started
  confirmed,   \* those of them that closed with a confirmed conclusion
  superseded,  \* snapshots with progress after their last confirmation
  batch,       \* replay -> snapshots of the report batch it started
  payload,     \* request -> what it carries
  redelivered, \* how many requests were sent again
  faults,      \* how many steps failed by themselves
  req          \* request -> where its handler is

rows == <<events, header, links, snapshots>>
diagnosis == <<rooms, confirmed, superseded>>
vars == <<rows, diagnosis, batch, payload, redelivered, faults, req>>

NoHeader == [count |-> 0, last |-> 0]
NoGroup == <<0, 0>>
NoEvidence == [a \in {} |-> "firing"]

Idle == [pc |-> "idle",
         todo |-> {},             \* alerts still to be stored
         resolving |-> {},        \* resolutions still to be stored
         errors |-> FALSE,        \* an alert, a resolution or a group failed
         policy |-> 0,            \* the policy replayed for
         listed |-> NoEvidence,   \* the window as listed
         drafts |-> {},           \* keys of the groups still to be processed
         found |-> NoGroup,       \* the existing group of the current draft
         before |-> NoHeader,     \* its header as read
         evidence |-> NoEvidence, \* the alerts of the current snapshot
         refs |-> << >>,          \* snapshots of the policy replayed for
         plan |-> << >>,          \* rooms to start
         planned |-> 0,           \* rooms planned in all
         skipped |-> {}]          \* rooms beyond the cap

Pcs == {"idle", "ingest", "list", "read", "write", "replayed", "plan", "start",
        "done", "failed"}

TypeOK ==
  /\ events \in [Alerts -> Status \cup {"none"}]
  /\ header \in [Groups -> [count : Nat, last : Nat]]
  /\ links \in [Groups -> SUBSET Alerts]
  /\ snapshots = [s \in 1 .. Len(snapshots) |-> snapshots[s]]
  /\ \A s \in DOMAIN snapshots : /\ snapshots[s].group \in Groups
                                 /\ IsEvidence(snapshots[s].evidence)
  /\ rooms \subseteq Policies \X DOMAIN snapshots
  /\ confirmed \subseteq rooms
  /\ superseded \subseteq DOMAIN snapshots
  /\ batch \in [Replays -> SUBSET DOMAIN snapshots]
  /\ redelivered \in 0 .. MaxRedeliveries
  /\ faults \in 0 .. MaxFaults
  /\ \A r \in Requests :
       /\ payload[r].firing \subseteq Alerts
       /\ payload[r].resolved \subseteq Alerts \X Ends
       /\ req[r].pc \in Pcs
       /\ req[r].todo \subseteq payload[r].firing
       /\ req[r].resolving \subseteq payload[r].resolved
       /\ req[r].policy \in Policies \cup {0}
       /\ IsEvidence(req[r].listed) /\ IsEvidence(req[r].evidence)
       /\ req[r].found \in Groups \cup {NoGroup}
       /\ req[r].refs \in Seq(DOMAIN snapshots)
       /\ req[r].plan \in Seq(Policies \X DOMAIN snapshots)
       /\ req[r].planned \in 0 .. MaxRooms
       /\ req[r].skipped \subseteq Policies \X DOMAIN snapshots

Empty == [firing |-> {}, resolved |-> {}, from |-> 0, to |-> 0, policy |-> 0]

Init ==
  /\ events = [a \in Alerts |-> "none"]
  /\ header = [g \in Groups |-> NoHeader]
  /\ links = [g \in Groups |-> {}]
  /\ snapshots = << >>
  /\ rooms = {} /\ confirmed = {} /\ superseded = {}
  /\ batch = [r \in Replays |-> {}]
  /\ payload = [r \in Requests |-> Empty]
  /\ redelivered = 0 /\ faults = 0
  /\ req = [r \in Requests |-> Idle]

-----------------------------------------------------------------------------
(***************************************************************************)
(* Grouping.                                                               *)
(***************************************************************************)

\* A draft: the alerts of one key among those listed, its first and last.
AlertsOf(E, k) == {a \in DOMAIN E : a[1] = k}
Earliest(A) == CHOOSE t \in Times : (\E a \in A : a[2] = t) /\ \A a \in A : t <= a[2]
Latest(A) == CHOOSE t \in Times : (\E a \in A : a[2] = t) /\ \A a \in A : a[2] <= t

\* event_count and last_seen_at of a group with the alerts A (its severity
\* is a function of them as well).
HeaderOf(A) == [count |-> Cardinality(A), last |-> Latest(A)]

Keys(E) == {a[1] : a \in DOMAIN E}

\* Drafts are processed by first_seen_at, then by key.
IsNextDraft(r, k) ==
  /\ k \in req[r].drafts
  /\ \A j \in req[r].drafts \ {k} :
       LET mine == Earliest(AlertsOf(req[r].listed, k))
           other == Earliest(AlertsOf(req[r].listed, j))
       IN mine < other \/ (mine = other /\ k < j)

InWindow(r, a) == payload[r].from <= a[2] /\ a[2] <= payload[r].to

Exists(g) == header[g] # NoHeader

-----------------------------------------------------------------------------
(***************************************************************************)
(* Receiving a request and storing its alerts.                             *)
(***************************************************************************)

\* A delivery starts from the beginning, whatever an earlier one did.
Deliver(r, load) == req' = [req EXCEPT ![r] = [Idle EXCEPT
                                                 !.pc = "ingest",
                                                 !.todo = load.firing,
                                                 !.resolving = load.resolved,
                                                 !.policy = load.policy]]

\* A step that fails by itself.
Fault == faults < MaxFaults /\ faults' = faults + 1

\* decodePayload: the window spans the firing alerts of the payload.
ReceiveWebhook(r) ==
  /\ req[r].pc = "idle"
  /\ \E firing \in SUBSET Alerts, ended \in SUBSET (Alerts \X Ends) :
       /\ firing \cup {e[1] : e \in ended} # {}
       /\ Cardinality(firing) + Cardinality(ended) <= MaxPayload
       /\ LET load == [firing |-> firing, resolved |-> ended,
                        from |-> IF firing = {} THEN 0 ELSE Earliest(firing),
                        to |-> IF firing = {} THEN 0 ELSE Latest(firing),
                        policy |-> 1]
          IN payload' = [payload EXCEPT ![r] = load] /\ Deliver(r, load)
  /\ UNCHANGED <<rows, diagnosis, batch, redelivered, faults>>

\* A replay asks the provider for the active alerts and names its window.
ReceiveReplay(r) ==
  /\ req[r].pc = "idle"
  /\ \E active \in SUBSET Alerts, w \in Windows, p \in Policies :
       /\ Cardinality(active) <= MaxActive
       /\ LET load == [firing |-> active, resolved |-> {}, from |-> w[1],
                        to |-> w[2], policy |-> p]
          IN payload' = [payload EXCEPT ![r] = load] /\ Deliver(r, load)
  /\ UNCHANGED <<rows, diagnosis, batch, redelivered, faults>>

\* The sender saw an error or no answer: the same is sent again.
Redeliver(r) ==
  /\ req[r].pc = "failed"
  /\ redelivered < MaxRedeliveries
  /\ redelivered' = redelivered + 1
  /\ Deliver(r, payload[r])
  /\ UNCHANGED <<rows, diagnosis, batch, payload, faults>>

\* Alerts are stored in the order of the payload.
Before(a, b) == a[1] < b[1] \/ (a[1] = b[1] /\ a[2] < b[2])
IsNextAlert(r, a) == /\ req[r].pc = "ingest"
                     /\ a \in req[r].todo
                     /\ \A b \in req[r].todo \ {a} : Before(a, b)

\* Mutant: an alert that is stored already is written again.
StoredStatusUpsert(was) == "firing"

\* SaveEvent: the unique index refuses an alert that is stored already.
StoredStatus(was) == IF was = "none" THEN "firing" ELSE was

\* ingestOne: a refused alert counts as a duplicate, not as an error.
IngestAlert(r, a) ==
  /\ IsNextAlert(r, a)
  /\ events' = [events EXCEPT ![a] = StoredStatus(@)]
  /\ req' = [req EXCEPT ![r].todo = @ \ {a}]
  /\ UNCHANGED <<header, links, snapshots, diagnosis, batch, payload, redelivered, faults>>

\* Its transaction fails; the other alerts are stored all the same.
IngestFails(r, a) ==
  /\ Fault
  /\ IsNextAlert(r, a)
  /\ req' = [req EXCEPT ![r].todo = @ \ {a}, ![r].errors = TRUE]
  /\ UNCHANGED <<rows, diagnosis, batch, payload, redelivered>>

\* UpdateEventResolution is conditional on the row still firing.
ResolvedStatus(was, end) == IF was = "firing" THEN end ELSE was

\* resolveAlert: an unknown alert is skipped, the same end again is accepted,
\* another end is an error.
ResolveAlert(r, e) ==
  LET was == events[e[1]] IN
  /\ req[r].pc = "ingest" /\ req[r].todo = {}
  /\ e \in req[r].resolving
  /\ events' = [events EXCEPT ![e[1]] = ResolvedStatus(was, e[2])]
  /\ req' = [req EXCEPT ![r].resolving = @ \ {e},
                        ![r].errors = @ \/ was \notin {"none", "firing", e[2]}]
  /\ UNCHANGED <<header, links, snapshots, diagnosis, batch, payload, redelivered, faults>>

\* Any error ends the request before it triggers anything; a webhook without
\* firing alerts triggers nothing.
EndIngest(r) ==
  /\ req[r].pc = "ingest" /\ req[r].todo = {} /\ req[r].resolving = {}
  /\ req' = [req EXCEPT ![r].pc =
               IF req[r].errors THEN "failed"
               ELSE IF r \in Webhooks /\ payload[r].firing = {} THEN "done"
               ELSE "list"]
  /\ UNCHANGED <<rows, diagnosis, batch, payload, redelivered, faults>>

-----------------------------------------------------------------------------
(***************************************************************************)
(* ReplayPersistedWindowForReport.                                         *)
(***************************************************************************)

\* The window is listed; a webhook asks for its own alerts only.
ListWindow(r) ==
  LET mine == {a \in Alerts : /\ events[a] # "none" /\ InWindow(r, a)
                              /\ r \in Webhooks => a \in payload[r].firing}
      listed == [a \in mine |-> events[a]]
  IN /\ req[r].pc = "list"
     /\ req' = [req EXCEPT
          ![r].pc = IF Cardinality(mine) > Limit THEN "failed"
                    ELSE IF mine = {} THEN "replayed" ELSE "read",
          ![r].listed = listed,
          ![r].drafts = Keys(listed),
          ![r].refs = << >>]
     /\ UNCHANGED <<rows, diagnosis, batch, payload, redelivered, faults>>

\* The group of a's key with the earliest first_seen_at that a is linked to.
IsEarliestLinked(g, a) ==
  /\ a \in links[g] /\ g[1] = a[1]
  /\ \A h \in Groups : a \in links[h] /\ h[1] = a[1] => g[2] <= h[2]

\* findExistingGroupForDraft: by natural key; else, for a webhook, the groups
\* its alerts are linked to.
Existing(r, A, k) ==
  IF Exists(<<k, Earliest(A)>>) THEN {<<k, Earliest(A)>>}
  ELSE IF r \in Webhooks THEN {g \in Groups : \E a \in A : IsEarliestLinked(g, a)}
  ELSE {}

\* existingGroupSnapshotEvents: the draft's alerts as listed, and the others
\* linked to the group that lie in the window, as they are now.
Expanded(r, current, g) ==
  [a \in DOMAIN current \cup {b \in links[g] : InWindow(r, b)} |->
     IF a \in DOMAIN current THEN current[a] ELSE events[a]]

\* The draft fails and the next one follows; errors end the replay after them.
Skip(r, k) ==
  req' = [req EXCEPT ![r].drafts = @ \ {k},
                     ![r].errors = TRUE,
                     ![r].pc = IF req[r].drafts = {k} THEN "replayed" ELSE "read",
                     ![r].found = NoGroup, ![r].before = NoHeader,
                     ![r].evidence = NoEvidence]

\* processGroup up to its first write.
ReadGroup(r, k) ==
  LET current == [a \in AlertsOf(req[r].listed, k) |-> req[r].listed[a]]
      existing == Existing(r, DOMAIN current, k)
  IN /\ req[r].pc = "read"
     /\ IsNextDraft(r, k)
     /\ \/ /\ existing = {}
           /\ req' = [req EXCEPT ![r].pc = "write", ![r].evidence = current]
        \/ \E g \in existing :
             /\ existing = {g}
             /\ Cardinality(DOMAIN Expanded(r, current, g)) <= Limit
             /\ req' = [req EXCEPT ![r].pc = "write",
                                   ![r].found = g,
                                   ![r].before = header[g],
                                   ![r].evidence = Expanded(r, current, g)]
     /\ UNCHANGED <<rows, diagnosis, batch, payload, redelivered, faults>>

\* The draft's alerts belong to several groups, or the group grew too large.
ReadGroupRefused(r, k) ==
  LET current == [a \in AlertsOf(req[r].listed, k) |-> req[r].listed[a]]
      existing == Existing(r, DOMAIN current, k)
  IN /\ req[r].pc = "read"
     /\ IsNextDraft(r, k)
     /\ \E g \in existing : \/ existing # {g}
                            \/ Cardinality(DOMAIN Expanded(r, current, g)) > Limit
     /\ Skip(r, k)
     /\ UNCHANGED <<rows, diagnosis, batch, payload, redelivered, faults>>

\* The group the draft is written to: the one found, or a new one.
Target(r, k) == IF req[r].found # NoGroup THEN req[r].found
                ELSE <<k, Earliest(DOMAIN req[r].evidence)>>

\* Mutant: alerts that started before the group are let in.
BuildAcceptsAll(g, A) == A # {}

\* BuildSnapshot accepts alerts that start within the group's range.
BuildAccepts(g, A) == \A a \in A : g[2] <= a[2]

\* Mutant: the header counts the draft, not the expanded group.
HeaderWrittenForDraft(r, g, k) == HeaderOf(AlertsOf(req[r].listed, k))

\* UpdateGroup when a mutable field differs from what was read; otherwise the
\* row keeps what it has now.
HeaderWritten(r, g, k) ==
  IF HeaderOf(DOMAIN req[r].evidence) # req[r].before
  THEN HeaderOf(DOMAIN req[r].evidence) ELSE header[g]

\* FindByGroupAndDigest, else Save: the digest is a function of the group and
\* of the alerts with their status.
SnapshotId(g, E) ==
  LET same == {s \in DOMAIN snapshots : snapshots[s] = [group |-> g, evidence |-> E]}
  IN IF same = {} THEN Len(snapshots) + 1 ELSE CHOOSE s \in same : TRUE

\* The rest of processGroup: the group is inserted or updated, its alerts are
\* linked, the snapshot is found or saved; a new group is closed before it
\* can be seen.
WriteGroup(r, k) ==
  LET g == Target(r, k)
      E == req[r].evidence
      s == SnapshotId(g, E)
  IN /\ req[r].pc = "write"
     /\ IsNextDraft(r, k)
     /\ req[r].found = NoGroup => ~Exists(g)
     /\ BuildAccepts(g, DOMAIN E)
     /\ header' = [header EXCEPT ![g] = HeaderWritten(r, g, k)]
     /\ links' = [links EXCEPT ![g] = @ \cup DOMAIN E]
     /\ snapshots' = IF s \in DOMAIN snapshots THEN snapshots
                     ELSE Append(snapshots, [group |-> g, evidence |-> E])
     /\ req' = [req EXCEPT ![r].refs = Append(@, s),
                           ![r].drafts = @ \ {k},
                           ![r].pc = IF req[r].drafts = {k} THEN "replayed" ELSE "read",
                           ![r].found = NoGroup, ![r].before = NoHeader,
                           ![r].evidence = NoEvidence]
     /\ UNCHANGED <<events, diagnosis, batch, payload, redelivered, faults>>

\* Another request inserted the group first (its unique index), or an alert
\* starts before the group: the transaction is rolled back.
WriteGroupRefused(r, k) ==
  LET g == Target(r, k) IN
  /\ req[r].pc = "write"
  /\ IsNextDraft(r, k)
  /\ \/ req[r].found = NoGroup /\ Exists(g)
     \/ ~BuildAccepts(g, DOMAIN req[r].evidence)
  /\ Skip(r, k)
  /\ UNCHANGED <<rows, diagnosis, batch, payload, redelivered, faults>>

\* The transaction of a group fails by itself.
GroupFails(r, k) ==
  /\ Fault
  /\ req[r].pc \in {"read", "write"}
  /\ IsNextDraft(r, k)
  /\ Skip(r, k)
  /\ UNCHANGED <<rows, diagnosis, batch, payload, redelivered>>

\* Mutant: groups that failed are logged only.
ReplayedAnyway(r) ==
  /\ req[r].pc = "replayed"
  /\ req' = [req EXCEPT ![r].pc = "plan"]
  /\ UNCHANGED <<rows, diagnosis, batch, payload, redelivered, faults>>

\* A group that failed fails the request.  A replay with snapshots starts its
\* report batch, whose workflow id stands for the request: a batch started
\* by an earlier delivery is returned as it is.
Replayed(r) ==
  /\ req[r].pc = "replayed"
  /\ IF req[r].errors
     THEN /\ req' = [req EXCEPT ![r].pc = "failed"]
          /\ UNCHANGED batch
     ELSE /\ req' = [req EXCEPT ![r].pc =
                IF r \in Replays /\ req[r].refs = << >> THEN "done" ELSE "plan"]
          /\ batch' = IF r \in Replays /\ batch[r] = {}
                      THEN [batch EXCEPT ![r] = {req[r].refs[i] :
                                                 i \in DOMAIN req[r].refs}]
                      ELSE batch
  /\ UNCHANGED <<rows, diagnosis, payload, redelivered, faults>>

-----------------------------------------------------------------------------
(***************************************************************************)
(* Automatic diagnosis.                                                    *)
(***************************************************************************)

\* confirmedDiagnosisFromHistory: some room of the snapshot was confirmed and
\* none made progress afterwards.
ConfirmedDiagnosis(s) == /\ \E p \in Policies : <<p, s>> \in confirmed
                         /\ s \notin superseded

RoomCapacity(r) == MaxRooms - req[r].planned

\* Mutant: one policy too many.
MorePoliciesOffByOne(r) == r \in Webhooks /\ req[r].policy <= MaxPolicy

\* Trigger replays and plans for one policy after the other.
MorePolicies(r) == r \in Webhooks /\ req[r].policy < MaxPolicy

\* startPlannedRooms: the planned rooms one after the other.
StartOrEnd(plan) == IF plan = << >> THEN "done" ELSE "start"

\* The positions of the snapshots that are not confirmed, and their order.
OpenRefs(r) == {i \in DOMAIN req[r].refs : ~ConfirmedDiagnosis(req[r].refs[i])}
InOrder(I) == {f \in [1 .. Cardinality(I) -> I] :
                 \A i, j \in DOMAIN f : i < j => f[i] < f[j]}

\* planRooms: the first unconfirmed snapshots up to the capacity left.
PlanOpen(r, open) ==
  LET old == req[r]
      all == Cardinality(OpenRefs(r))
      n == IF all < RoomCapacity(r) THEN all ELSE RoomCapacity(r)
      room(i) == <<old.policy, old.refs[open[i]]>>
      plan == old.plan \o [i \in 1 .. n |-> room(i)]
  IN /\ old.pc = "plan"
     /\ req' = [req EXCEPT ![r] = [old EXCEPT
          !.plan = plan,
          !.planned = old.planned + n,
          !.skipped = old.skipped \cup {room(i) : i \in n + 1 .. all},
          !.policy = IF MorePolicies(r) THEN old.policy + 1 ELSE old.policy,
          !.pc = IF MorePolicies(r) THEN "list" ELSE StartOrEnd(plan),
          !.listed = NoEvidence,
          !.refs = << >>]]
     /\ UNCHANGED <<rows, diagnosis, batch, payload, redelivered, faults>>

PlanRooms(r) == \E open \in InOrder(OpenRefs(r)) : PlanOpen(r, open)

\* StartDiagnosisRoom: the session id names policy and snapshot, and a
\* workflow that exists under it, running or closed, is returned.
StartRoom(r) ==
  /\ req[r].pc = "start"
  /\ rooms' = rooms \cup {Head(req[r].plan)}
  /\ req' = [req EXCEPT ![r].plan = Tail(@), ![r].pc = StartOrEnd(Tail(req[r].plan))]
  /\ UNCHANGED <<rows, confirmed, superseded, batch, payload, redelivered, faults>>

\* The request ends with an error, its process dies, its answer is lost, or
\* that of a start which Temporal accepted.
RequestFails(r) ==
  /\ Fault
  /\ req[r].pc \in {"list", "read", "write", "replayed", "plan", "start"}
  /\ req' = [req EXCEPT ![r] = [Idle EXCEPT !.pc = "failed"]]
  /\ \/ UNCHANGED rooms
     \/ /\ req[r].pc = "start"
        /\ rooms' = rooms \cup {Head(req[r].plan)}
  /\ UNCHANGED <<rows, confirmed, superseded, batch, payload, redelivered>>

\* What rooms write of themselves (the DiagnosisRoom module): a confirmed
\* close, and progress while another room of the snapshot is confirmed.
ConfirmRoom(p, s) ==
  /\ <<p, s>> \in rooms \ confirmed
  /\ confirmed' = confirmed \cup {<<p, s>>}
  /\ superseded' = superseded \ {s}
  /\ UNCHANGED <<rows, rooms, batch, payload, redelivered, faults, req>>

RoomProgresses(p, s) ==
  /\ <<p, s>> \in rooms \ confirmed
  /\ ConfirmedDiagnosis(s)
  /\ superseded' = superseded \cup {s}
  /\ UNCHANGED <<rows, rooms, confirmed, batch, payload, redelivered, faults, req>>

-----------------------------------------------------------------------------
RequestStep(r) ==
  \/ \E a \in Alerts : IngestAlert(r, a) \/ IngestFails(r, a)
  \/ \E e \in Alerts \X Ends : ResolveAlert(r, e)
  \/ EndIngest(r)
  \/ ListWindow(r)
  \/ \E k \in KeySet : \/ ReadGroup(r, k) \/ ReadGroupRefused(r, k)
                            \/ WriteGroup(r, k) \/ WriteGroupRefused(r, k)
                            \/ GroupFails(r, k)
  \/ Replayed(r)
  \/ PlanRooms(r)
  \/ StartRoom(r)
  \/ RequestFails(r)
  \/ Redeliver(r)

Next == \/ \E r \in Webhooks : ReceiveWebhook(r)
        \/ \E r \in Replays : ReceiveReplay(r)
        \/ \E r \in Requests : RequestStep(r)
        \/ \E p \in Policies, s \in DOMAIN snapshots :
             ConfirmRoom(p, s) \/ RoomProgresses(p, s)

Spec == Init /\ [][Next]_vars

-----------------------------------------------------------------------------
(***************************************************************************)
(* Properties.                                                             *)
(***************************************************************************)

\* A snapshot holds alerts of its group only: each is stored, linked to the
\* group, of its key, and no older than it; no evidence is stored twice for a
\* group.  Overlapping requests insert, link and expand the same group
\* (processGroup, BuildSnapshot).
EvidenceIsSound ==
  \A s \in DOMAIN snapshots :
    LET g == snapshots[s].group
        E == snapshots[s].evidence
    IN /\ DOMAIN E # {}
       /\ \A a \in DOMAIN E : /\ events[a] # "none"
                              /\ a \in links[g]
                              /\ a[1] = g[1]
                              /\ g[2] <= a[2]
       /\ \A t \in DOMAIN snapshots : snapshots[t] = snapshots[s] => t = s

\* The header of a group is that of one of its snapshots, although two
\* requests may write it from what they read before the other committed
\* (mutableFieldsDiffer, UpdateGroup).
HeaderDescribesEvidence ==
  \A g \in Groups : Exists(g) =>
    \E s \in DOMAIN snapshots : /\ snapshots[s].group = g
                                /\ HeaderOf(DOMAIN snapshots[s].evidence) = header[g]

\* A snapshot that shows an alert as resolved stays true: no later webhook
\* moves the end of that alert or lets it fire again (UpdateEventResolution).
ResolvedEvidenceStaysTrue ==
  \A s \in DOMAIN snapshots : \A a \in DOMAIN snapshots[s].evidence :
    snapshots[s].evidence[a] # "firing" => events[a] = snapshots[s].evidence[a]

\* The policies a request starts rooms for.
PoliciesOf(r) == IF r \in Webhooks THEN Policies ELSE {payload[r].policy}

\* A request that succeeds leaves none of its alerts undiagnosed: for each of
\* its policies there is evidence with the alert whose room was started, which
\* was confirmed, or which was reported as skipped because this delivery starts
\* as many rooms as it may over all its policies (Trigger, StartRooms), however
\* earlier deliveries and other requests interfered.
DiagnosedOnSuccess ==
  \A r \in Requests : req[r].pc = "done" =>
    \A a \in payload[r].firing, p \in PoliciesOf(r) : InWindow(r, a) =>
      \E s \in DOMAIN snapshots :
        /\ a \in DOMAIN snapshots[s].evidence
        /\ \/ <<p, s>> \in rooms
           \/ <<p, s>> \in req[r].skipped /\ req[r].planned = MaxRooms
           \/ \E q \in Policies : <<q, s>> \in confirmed

=============================================================================
