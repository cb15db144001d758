------------------------ MODULE ReportSchedulesProofs ------------------------
(***************************************************************************)
(* Scheduled reports, for any schedules, policies, requests and bounds:    *)
(* type correctness, that a fire starts one batch, that Temporal runs only *)
(* policies that were enabled once, and that it agrees with the rows       *)
(* whenever requests were served one after the other since the start.      *)
(***************************************************************************)
EXTENDS ReportSchedules, TLAPS, FunctionTheorems, FiniteSetTheorems, SequenceTheorems

-----------------------------------------------------------------------------
(* Launchers: fires are counted once, and a batch carries the end of the   *)
(* window of the launcher that started it.                                 *)

Running(i) == launch[i].pc # "none"

FiresCounted ==
  /\ \A i \in Ids : Running(i) => launch[i].fire <= fires
  /\ \A b \in batches : b.fire <= fires

FiresDiffer ==
  \A i, j \in Ids : Running(i) /\ Running(j) /\ launch[i].fire = launch[j].fire => i = j

BatchesOfFires ==
  \A b \in batches, i \in Ids : Running(i) /\ launch[i].fire = b.fire => launch[i].at = b.end

LaunchInv == FiresCounted /\ FiresDiffer /\ BatchesOfFires /\ OneBatchPerFire

-----------------------------------------------------------------------------
(* Policies: whatever may still run was checked.                           *)

Checked(m) == m.exists /\ ~m.paused => m.policy \in everOn

InPush(a) == op[a].pc \in {"push", "update"}

PoliciesChecked == \A p \in Policies : policyOn[p] => p \in everOn

RowsChecked == \A s \in Existing : rows[s].on => rows[s].policy \in everOn

MirrorsChecked == \A i \in Ids : Checked(temporal[i])

\* What a request will write or push.
Honest(x) ==
  /\ x.pc = "tx" /\ x.row.on => x.row.policy \in everOn
  /\ x.pc \in {"push", "update"} => \A j \in DOMAIN x.pushes : Checked(x.pushes[j].mirror)

RequestsChecked == \A a \in Actors : Honest(op[a])

PolicyInv == PoliciesChecked /\ RowsChecked /\ MirrorsChecked /\ RequestsChecked

-----------------------------------------------------------------------------
(* Agreement: what is not in Temporal yet is still to be pushed.           *)

IdsDiffer == \A s, t \in Existing : rows[s].id = rows[t].id => s = t

\* Only a server that is up serves requests, and only one that starts
\* reconciles.
ServerServes ==
  /\ server # "up" => \A o \in Operators : op[o] = NoOp
  /\ server # "starting" => op[Boot] = NoOp

OneAtATime ==
  ~disturbed => \A a, b \in Actors : op[a] # NoOp /\ op[b] # NoOp => a = b

InTemporal(s, status) ==
  temporal[rows[s].id] = Mirror(s, rows[s].policy, Paused(rows[s], status))

AgreesFor(status) == \A s \in Existing : InTemporal(s, status)

IsPushOf(s, push, status) == s \in Existing /\ push = PushOf(s, rows[s], status)

\* The pushes are those of rows, and of every row Temporal lacks.
PushesRest(pushes, status) ==
  /\ \A j \in DOMAIN pushes : \E s \in Schedules : IsPushOf(s, pushes[j], status)
  /\ \A s \in Existing : \/ InTemporal(s, status)
                         \/ \E j \in DOMAIN pushes : pushes[j] = PushOf(s, rows[s], status)

\* The status of the tenant after the request of a.
StatusAfter(a) == IF op[a].then = "disabled" THEN "disabled" ELSE tenant

\* A request that is served by itself.
Serves(a) ==
  /\ op[a].pc = "tx" => tenant = "active" /\ AgreesFor("active")
  /\ InPush(a) => PushesRest(op[a].pushes, StatusAfter(a))
  /\ op[a].pc = "status" /\ op[a].status = "disabled" => AgreesFor("disabled")
  /\ op[a].pc = "list" /\ op[a].status = "active" => tenant = "active"

Alone == server = "starting" \/ (server = "up" /\ ~disturbed)

Served ==
  Alone => /\ \A a \in Actors : Serves(a)
           /\ (\A a \in Actors : op[a] = NoOp) => AgreesFor(tenant)

AgreementInv == IdsDiffer /\ ServerServes /\ OneAtATime /\ Served

Inv == TypeOK /\ LaunchInv /\ PolicyInv /\ AgreementInv

-----------------------------------------------------------------------------
(* What rows, mirrors, pushes and requests are made of.                    *)

LEMMA RowFields ==
  ASSUME NEW row \in Rows
  PROVE  /\ row.exists = TRUE /\ row.id \in Ids /\ row.policy \in Policies /\ row.on \in BOOLEAN
         /\ row = Row(row.id, row.policy, row.on)
BY DEF Rows, Row

LEMMA RowTyped ==
  ASSUME NEW i \in Ids, NEW p \in Policies, NEW on \in BOOLEAN
  PROVE  Row(i, p, on) \in Rows
BY DEF Rows

LEMMA RowHas ==
  ASSUME NEW i, NEW p, NEW on
  PROVE  Row(i, p, on).id = i /\ Row(i, p, on).policy = p /\ Row(i, p, on).on = on
BY Zenon DEF Row

LEMMA MirrorTyped ==
  ASSUME NEW s \in Schedules, NEW p \in Policies, NEW paused \in BOOLEAN
  PROVE  Mirror(s, p, paused) \in Mirrors
BY DEF Mirrors

LEMMA MirrorHas ==
  ASSUME NEW s, NEW p, NEW paused
  PROVE  /\ Mirror(s, p, paused).exists = TRUE
         /\ Mirror(s, p, paused).schedule = s /\ Mirror(s, p, paused).policy = p
         /\ Mirror(s, p, paused).paused = paused
BY Zenon DEF Mirror

LEMMA PushTyped ==
  ASSUME NEW s \in Schedules, NEW row \in Rows, NEW status
  PROVE  /\ Paused(row, status) \in BOOLEAN
         /\ PushOf(s, row, status) \in Pushes
         /\ PushOf(s, row, status).id = row.id
         /\ PushOf(s, row, status).mirror = Mirror(s, row.policy, Paused(row, status))
<1>1. Paused(row, status) \in BOOLEAN
  BY DEF Paused
<1>2. Mirror(s, row.policy, Paused(row, status)) \in Mirrors
  BY <1>1, RowFields, MirrorTyped
<1>3. PushOf(s, row, status) = [id |-> row.id, mirror |-> Mirror(s, row.policy, Paused(row, status))]
  BY Zenon DEF PushOf
<1>4. row.id \in Ids
  BY RowFields
<1>5. PushOf(s, row, status) \in Pushes
  BY <1>2, <1>3, <1>4 DEF Pushes
<1> QED
  BY <1>1, <1>3, <1>5

LEMMA PushFields ==
  ASSUME NEW push \in Pushes
  PROVE  push.id \in Ids /\ push.mirror \in Mirrors
BY DEF Pushes

PushOps == [pc : {"push", "update"}, pushes : Seq(Pushes) \ {<< >>}, then : {"end", "disabled"}]
TxOps == {Tx(kind, s, row) : kind \in Kinds, s \in Schedules, row \in Rows}
StatusOps == [pc : {"list", "status"}, status : {"active", "disabled"}]

LEMMA TxFields ==
  ASSUME NEW x \in TxOps
  PROVE  x.pc = "tx" /\ x.kind \in Kinds /\ x.schedule \in Schedules /\ x.row \in Rows
BY DEF TxOps, Tx

LEMMA OpKinds ==
  ASSUME NEW x \in Ops
  PROVE  /\ x.pc \in {"idle", "tx", "list", "status", "push", "update"}
         /\ x.pc = "idle" => x = NoOp
         /\ x.pc = "tx" => x \in TxOps
         /\ x.pc \in {"list", "status"} => x \in StatusOps
         /\ x.pc \in {"push", "update"} => x \in PushOps
<1>1. x = NoOp \/ x \in TxOps \/ x \in StatusOps \/ x \in PushOps
  BY DEF Ops, TxOps, StatusOps, PushOps
<1>2. NoOp.pc = "idle"
  BY DEF NoOp
<1>3. x \in StatusOps => x.pc \in {"list", "status"}
  BY DEF StatusOps
<1>4. x \in PushOps => x.pc \in {"push", "update"}
  BY DEF PushOps
<1> QED
  BY <1>1, <1>2, <1>3, <1>4, TxFields

LEMMA OpsTyped == /\ NoOp \in Ops /\ TxOps \subseteq Ops /\ StatusOps \subseteq Ops
                  /\ PushOps \subseteq Ops
BY DEF Ops, TxOps, StatusOps, PushOps

LEMMA PushOpTyped ==
  ASSUME NEW pushes \in Seq(Pushes), pushes # << >>, NEW then \in {"end", "disabled"}
  PROVE  /\ Push(pushes, then) \in PushOps
         /\ Push(pushes, then).pc = "push"
         /\ Push(pushes, then).pushes = pushes /\ Push(pushes, then).then = then
BY DEF Push, PushOps

\* What a request becomes once some of its pushes are done.
LEMMA AfterPushesTyped ==
  ASSUME NEW pushes \in Seq(Pushes), NEW then \in {"end", "disabled"}
  PROVE  /\ AfterPushes(pushes, then) \in Ops
         /\ pushes # << >> =>
              /\ AfterPushes(pushes, then).pc = "push"
              /\ AfterPushes(pushes, then).pushes = pushes
              /\ AfterPushes(pushes, then).then = then
         /\ pushes = << >> /\ then = "disabled" =>
              /\ AfterPushes(pushes, then).pc = "status"
              /\ AfterPushes(pushes, then).status = "disabled"
         /\ pushes = << >> /\ then = "end" => AfterPushes(pushes, then) = NoOp
<1>1. CASE pushes # << >>
  BY <1>1, PushOpTyped, OpsTyped DEF AfterPushes
<1>2. CASE pushes = << >> /\ then = "disabled"
  <2>1. [pc |-> "status", status |-> "disabled"] \in StatusOps
    BY DEF StatusOps
  <2> QED
    BY <1>2, <2>1, OpsTyped DEF AfterPushes
<1>3. CASE pushes = << >> /\ then = "end"
  BY <1>3, OpsTyped DEF AfterPushes
<1> QED
  BY <1>1, <1>2, <1>3

\* A listing holds the push of every row, and nothing else.
LEMMA ListingComplete ==
  ASSUME TypeOK, NEW status, NEW q \in PushesOfAll(status)
  PROVE  /\ q \in Seq(Pushes)
         /\ \A j \in DOMAIN q : \E s \in Schedules : IsPushOf(s, q[j], status)
         /\ \A s \in Existing : \E j \in DOMAIN q : q[j] = PushOf(s, rows[s], status)
<1> DEFINE D == 1 .. Cardinality(Existing)
<1>1. PICK e \in SetToSeqs(Existing) : q = [i \in DOMAIN e |-> PushOf(e[i], rows[e[i]], status)]
  BY DEF PushesOfAll
<1>2. e \in [D -> Existing] /\ \A i, j \in D : i # j => e[i] # e[j]
  BY <1>1 DEF SetToSeqs
<1>3. IsFiniteSet(Existing) /\ Cardinality(Existing) \in Nat
  <2>1. Existing \subseteq Schedules
    BY DEF Existing
  <2> QED
    BY <2>1, SchedulesAssumption, FS_Subset, FS_CardinalityType
<1>4. e \in Surjection(D, Existing)
  <2>1. e \in Injection(D, Existing)
    BY <1>2 DEF Injection, IsInjective
  <2>2. IsFiniteSet(D) /\ Cardinality(D) = Cardinality(Existing)
    BY <1>3, FS_Interval
  <2> QED
    BY <1>3, <2>1, <2>2, FS_Injection
<1>5. \A s \in Existing : \E i \in D : e[i] = s
  BY <1>4 DEF Surjection
<1>6. \A s \in Existing : s \in Schedules /\ rows[s] \in Rows
  BY DEF Existing, TypeOK, NoRow
<1>7. DOMAIN q = D /\ \A i \in D : q[i] = PushOf(e[i], rows[e[i]], status)
  BY <1>1, <1>2
<1>8. q \in [D -> Pushes]
  BY <1>1, <1>2, <1>6, <1>7, PushTyped
<1>9. q \in Seq(Pushes)
  BY <1>3, <1>8, SeqDef
<1> HIDE DEF D
<1> QED
  BY <1>2, <1>5, <1>6, <1>7, <1>9 DEF IsPushOf

-----------------------------------------------------------------------------
(* Type correctness.                                                       *)

\* A step that only moves actors.
LEMMA OpStepTyped ==
  ASSUME TypeOK, UNCHANGED <<server, tenant, policy, rows, temporal, runtime, faults>>,
         disturbed' \in BOOLEAN, changes' \in 0 .. MaxChanges, op' \in [Actors -> Ops]
  PROVE  TypeOK'
BY DEF TypeOK, policy, runtime

LEMMA BeginTyped ==
  ASSUME TypeOK, NEW o \in Operators, NEW x \in Ops, Begin(o, x)
  PROVE  /\ disturbed' \in BOOLEAN /\ changes' \in 0 .. MaxChanges /\ op' \in [Actors -> Ops]
         /\ op'[o] = x /\ \A a \in Actors \ {o} : op'[a] = op[a]
<1>1. /\ changes < MaxChanges /\ changes' = changes + 1
      /\ op' = [op EXCEPT ![o] = x]
      /\ disturbed' = (disturbed \/ \E a \in Actors \ {o} : op[a] # NoOp)
  BY DEF Begin
<1>2. o \in Actors
  BY DEF Actors
<1>3. changes' \in 0 .. MaxChanges
  BY <1>1, BoundsAssumption DEF TypeOK
<1>4. /\ op' \in [Actors -> Ops] /\ op'[o] = x
      /\ \A a \in Actors \ {o} : op'[a] = op[a]
  BY <1>1, <1>2 DEF TypeOK
<1> QED
  BY <1>1, <1>3, <1>4

\* The requests that begin, and what they ask for.
Asked(o, x) ==
  \/ \E kind \in Kinds, s \in Schedules, row \in Rows :
       /\ x = Tx(kind, s, row)
       /\ tenant = "active"
       /\ row.on => policyOn[row.policy]
  \/ x = [pc |-> "list", status |-> "disabled"]
  \/ x = [pc |-> "status", status |-> "active"] /\ tenant = "disabled"

LEMMA ChangesAsk ==
  ASSUME TypeOK, NEW o \in Operators, ChangeBegins(o)
  PROVE  \E x \in Ops : /\ Asked(o, x) /\ Begin(o, x)
                        /\ UNCHANGED <<server, tenant, policy, rows, temporal, runtime, faults>>
<1> DEFINE Goal == \E x \in Ops : /\ Asked(o, x) /\ Begin(o, x)
                                  /\ UNCHANGED <<server, tenant, policy, rows, temporal, runtime,
                                                 faults>>
<1>1. ASSUME NEW kind \in Kinds, NEW s \in Schedules, NEW row \in Rows,
             row.on => policyOn[row.policy], BeginChange(o, kind, s, row)
      PROVE  Goal
  <2>1. Tx(kind, s, row) \in Ops
    BY OpsTyped DEF TxOps
  <2>2. Asked(o, Tx(kind, s, row))
    BY <1>1 DEF Asked, BeginChange
  <2>3. /\ Begin(o, Tx(kind, s, row))
        /\ UNCHANGED <<server, tenant, policy, rows, temporal, runtime, faults>>
    BY <1>1 DEF BeginChange
  <2> QED
    BY <2>1, <2>2, <2>3
<1>2. ASSUME NEW s \in Schedules, NEW i \in Ids, NEW p \in Policies, Create(o, s, i, p)
      PROVE  Goal
  <2>1. Row(i, p, FALSE) \in Rows
    BY RowTyped
  <2>2. ~Row(i, p, FALSE).on
    BY DEF Row
  <2> QED
    BY <1>1, <1>2, <2>1, <2>2 DEF Create, Kinds
<1>3. ASSUME NEW s \in Schedules, NEW i \in Ids, NEW p \in Policies, Replace(o, s, i, p)
      PROVE  Goal
  <2>1. rows[s] \in Rows
    BY <1>3 DEF Replace, TypeOK, NoRow
  <2> DEFINE row == Row(i, p, rows[s].on)
  <2>2. rows[s].on \in BOOLEAN
    BY <2>1, RowFields
  <2>3. row \in Rows
    BY <2>2, RowTyped
  <2>4. row.on = rows[s].on /\ row.policy = p
    BY RowHas
  <2> QED
    BY <1>1, <1>3, <2>3, <2>4 DEF Replace, Kinds
<1>4. ASSUME NEW s \in Schedules, NEW on \in BOOLEAN, SetEnabled(o, s, on)
      PROVE  Goal
  <2>1. rows[s] \in Rows
    BY <1>4 DEF SetEnabled, TypeOK, NoRow
  <2> DEFINE row == Row(rows[s].id, rows[s].policy, on)
  <2>2. rows[s].id \in Ids /\ rows[s].policy \in Policies
    BY <2>1, RowFields
  <2>3. row \in Rows
    BY <2>2, RowTyped
  <2>4. row.on = on /\ row.policy = rows[s].policy
    BY RowHas
  <2> QED
    BY <1>1, <1>4, <2>3, <2>4 DEF SetEnabled, Kinds
<1>5. ASSUME NEW status \in {"active", "disabled"}, UpdateTenantStatus(o, status)
      PROVE  Goal
  <2> DEFINE x == [pc |-> IF status = "disabled" THEN "list" ELSE "status", status |-> status]
  <2>1. x \in StatusOps
    BY DEF StatusOps
  <2>2. tenant = "disabled" \/ status = "disabled"
    BY <1>5 DEF UpdateTenantStatus, TypeOK
  <2>3. Asked(o, x)
    BY <1>5, <2>2 DEF Asked, UpdateTenantStatus
  <2> QED
    BY <1>5, <2>1, <2>3, OpsTyped DEF UpdateTenantStatus
<1> QED
  BY <1>2, <1>3, <1>4, <1>5 DEF ChangeBegins

\* Only the actor named changes.
OnlyActor(a, x) == /\ op' \in [Actors -> Ops]
                   /\ op'[a] = x
                   /\ \A b \in Actors \ {a} : op'[b] = op[b]

LEMMA OneActor ==
  ASSUME TypeOK, NEW a \in Actors, NEW x \in Ops, op' = [op EXCEPT ![a] = x]
  PROVE  OnlyActor(a, x)
BY DEF TypeOK, OnlyActor

LEMMA ActorsNamed == Boot \in Actors /\ \A o \in Operators : o \in Actors /\ o # Boot
BY BootAssumption DEF Actors

\* The row a request writes, and the request that pushes it.
LEMMA CommitMoves ==
  ASSUME TypeOK, NEW o \in Operators, Commit(o)
  PROVE  LET s == op[o].schedule
             row == op[o].row
         IN  /\ op[o].pc = "tx" /\ s \in Schedules /\ row \in Rows
             /\ rows' \in [Schedules -> Rows \cup {NoRow}] /\ rows'[s] = row
             /\ \A t \in Schedules \ {s} : rows'[t] = rows[t]
             /\ \A t \in Schedules \ {s} : rows[t].exists => rows[t].id # row.id
             /\ <<PushOf(s, row, "active")>> \in Seq(Pushes)
             /\ OnlyActor(o, Push(<<PushOf(s, row, "active")>>, "end"))
<1> DEFINE s == op[o].schedule
           row == op[o].row
           pushes == <<PushOf(s, row, "active")>>
<1>1. o \in Actors /\ op[o] \in Ops /\ op[o].pc = "tx"
  BY ActorsNamed DEF Commit, TypeOK
<1>2. s \in Schedules /\ row \in Rows
  BY <1>1, OpKinds, TxFields
<1>3. rows' = [rows EXCEPT ![s] = row]
  BY DEF Commit, RowWritten
<1>4. /\ rows' \in [Schedules -> Rows \cup {NoRow}] /\ rows'[s] = row
      /\ \A t \in Schedules \ {s} : rows'[t] = rows[t]
  <2> HIDE DEF s, row
  <2> QED
    BY <1>2, <1>3 DEF TypeOK
<1>5. \A t \in Schedules \ {s} : rows[t].exists => rows[t].id # row.id
  BY DEF Commit, Accepted
<1>6. pushes \in Seq(Pushes) /\ pushes # << >>
  <2>1. PushOf(s, row, "active") \in Pushes
    BY <1>2, PushTyped
  <2> QED
    BY <2>1
<1>7. op' = [op EXCEPT ![o] = Push(pushes, "end")]
  BY DEF Commit, RowWritten
<1>8. OnlyActor(o, Push(pushes, "end"))
  <2>1. Push(pushes, "end") \in Ops
    BY <1>6, PushOpTyped, OpsTyped
  <2> QED
    BY <1>1, <1>7, <2>1, OneActor
<1> QED
  BY <1>1, <1>2, <1>4, <1>5, <1>6, <1>8

\* The first push is done.
LEMMA PushedMoves ==
  ASSUME TypeOK, NEW a \in Actors, InPush(a), Pushed(a)
  PROVE  LET first == Head(op[a].pushes)
         IN  /\ op[a] \in PushOps /\ first \in Pushes /\ Tail(op[a].pushes) \in Seq(Pushes)
             /\ temporal' \in [Ids -> Mirrors \cup {NoMirror}]
             /\ temporal'[first.id] = first.mirror
             /\ \A i \in Ids \ {first.id} : temporal'[i] = temporal[i]
             /\ OnlyActor(a, AfterPushes(Tail(op[a].pushes), op[a].then))
<1> DEFINE pushes == op[a].pushes
           first == Head(pushes)
<1>1. op[a] \in PushOps
  BY OpKinds DEF TypeOK, InPush
<1>2. pushes \in Seq(Pushes) /\ pushes # << >> /\ op[a].then \in {"end", "disabled"}
  BY <1>1 DEF PushOps
<1>3. first \in Pushes /\ Tail(pushes) \in Seq(Pushes)
  BY <1>2, HeadTailProperties
<1>4. temporal' = [temporal EXCEPT ![first.id] = first.mirror]
  BY DEF Pushed
<1>5. /\ temporal' \in [Ids -> Mirrors \cup {NoMirror}]
      /\ temporal'[first.id] = first.mirror
      /\ \A i \in Ids \ {first.id} : temporal'[i] = temporal[i]
  <2>1. first.id \in Ids /\ first.mirror \in Mirrors
    BY <1>3, PushFields
  <2> HIDE DEF first
  <2> QED
    BY <1>4, <2>1 DEF TypeOK
<1>6. AfterPushes(Tail(pushes), op[a].then) \in Ops
  BY <1>2, <1>3, AfterPushesTyped
<1>7. OnlyActor(a, AfterPushes(Tail(pushes), op[a].then))
  BY <1>6, OneActor DEF Pushed
<1> QED
  BY <1>1, <1>3, <1>5, <1>7

\* A listing becomes pushes.
LEMMA ListingMoves ==
  ASSUME TypeOK, NEW a \in Actors, NEW status, NEW q \in PushesOfAll(status),
         NEW then \in {"end", "disabled"}, op' = [op EXCEPT ![a] = AfterPushes(q, then)]
  PROVE  OnlyActor(a, AfterPushes(q, then))
<1>1. AfterPushes(q, then) \in Ops
  BY ListingComplete, AfterPushesTyped
<1> QED
  BY <1>1, OneActor

\* The write of the tenant's status.
LEMMA WriteStatusMoves ==
  ASSUME TypeOK, NEW o \in Operators, WriteStatus(o)
  PROVE  /\ op[o].pc = "status" /\ op[o].status \in {"active", "disabled"}
         /\ tenant' = op[o].status
         /\ op[o].status = "disabled" => OnlyActor(o, NoOp)
         /\ op[o].status = "active" => OnlyActor(o, [pc |-> "list", status |-> "active"])
<1>1. o \in Actors /\ op[o].pc = "status" /\ op[o] \in StatusOps
  BY ActorsNamed, OpKinds DEF WriteStatus, TypeOK
<1>2. op[o].status \in {"active", "disabled"} /\ tenant' = op[o].status
  BY <1>1 DEF StatusOps, WriteStatus
<1>3. CASE op[o].status = "disabled"
  <2>1. op' = [op EXCEPT ![o] = NoOp]
    BY <1>3 DEF WriteStatus
  <2> QED
    BY <1>1, <1>2, <1>3, <2>1, OneActor, OpsTyped
<1>4. CASE op[o].status = "active"
  <2> DEFINE x == [pc |-> "list", status |-> "active"]
  <2>1. [op[o] EXCEPT !.pc = "list"] = x /\ x \in StatusOps
    BY <1>1, <1>4 DEF StatusOps
  <2>2. op' = [op EXCEPT ![o] = [op[o] EXCEPT !.pc = "list"]]
    BY <1>1, <1>4 DEF WriteStatus, TypeOK
  <2>3. op' = [op EXCEPT ![o] = x]
    BY <2>1, <2>2
  <2> QED
    BY <1>1, <1>2, <1>4, <2>1, <2>3, OneActor, OpsTyped
<1> QED
  BY <1>2, <1>3, <1>4

\* The update of a Temporal schedule still has its push to do.
LEMMA FindsMoves ==
  ASSUME TypeOK, NEW a \in Actors, SyncFindsExisting(a)
  PROVE  \E x \in PushOps : /\ x.pushes = op[a].pushes /\ x.then = op[a].then
                            /\ op[a].pc = "push" /\ OnlyActor(a, x)
<1>1. op[a].pc = "push" /\ op[a] \in PushOps
  BY OpKinds DEF SyncFindsExisting, TypeOK
<1> DEFINE x == [op[a] EXCEPT !.pc = "update"]
<1>2. x \in PushOps /\ x.pushes = op[a].pushes /\ x.then = op[a].then
  BY <1>1 DEF PushOps
<1>3. op' = [op EXCEPT ![a] = x]
  BY DEF SyncFindsExisting, TypeOK
<1>4. OnlyActor(a, x)
  <2> HIDE DEF x
  <2> QED
    BY <1>2, <1>3, OpsTyped, OneActor
<1> QED
  BY <1>1, <1>2, <1>4

\* Launchers: a fire that starts, a launcher that goes on, and one that ends.
OnlyLaunch(i, x) == /\ launch' \in [Ids -> Launches \cup {NoLaunch}]
                    /\ launch'[i] = x
                    /\ \A j \in Ids \ {i} : launch'[j] = launch[j]

LEMMA OneLaunch ==
  ASSUME TypeOK, NEW i \in Ids, NEW x \in Launches \cup {NoLaunch},
         launch' = [launch EXCEPT ![i] = x]
  PROVE  OnlyLaunch(i, x)
BY DEF TypeOK, OnlyLaunch

\* A launcher with another program counter.
LEMMA LaunchWithPc ==
  ASSUME TypeOK, NEW i \in Ids, launch[i].pc \in {"started", "bound"},
         NEW pc \in {"started", "bound"}
  PROVE  /\ launch[i] \in Launches
         /\ [launch[i] EXCEPT !.pc = pc] \in Launches
         /\ [launch[i] EXCEPT !.pc = pc].pc = pc
         /\ [launch[i] EXCEPT !.pc = pc].fire = launch[i].fire
         /\ [launch[i] EXCEPT !.pc = pc].at = launch[i].at
<1>1. launch[i] \in Launches
  BY DEF TypeOK, NoLaunch
<1> QED
  BY <1>1 DEF Launches

LEMMA LaunchPcs ==
  ASSUME TypeOK, NEW i \in Ids
  PROVE  /\ launch[i] # NoLaunch <=> Running(i)
         /\ Running(i) => launch[i] \in Launches /\ launch[i].pc \in {"started", "bound"}
BY DEF TypeOK, Launches, NoLaunch, Running

LEMMA FireMoves ==
  ASSUME TypeOK, NEW i \in Ids, Fire(i)
  PROVE  \E x \in Launches : /\ x.fire = fires + 1 /\ OnlyLaunch(i, x)
                             /\ fires' = fires + 1 /\ fires' \in 0 .. MaxFires
                             /\ ~Running(i)
<1> DEFINE m == temporal[i]
           x == [pc |-> "started", fire |-> fires + 1, schedule |-> m.schedule,
                 policy |-> m.policy, at |-> now]
<1>1. m \in Mirrors
  BY DEF Fire, TypeOK, NoMirror
<1>2. m.schedule \in Schedules /\ m.policy \in Policies
  BY <1>1 DEF Mirrors, Mirror
<1>3. fires < MaxFires /\ fires' = fires + 1
  BY DEF Fire
<1>4. fires' \in 0 .. MaxFires /\ fires + 1 \in 1 .. MaxFires
  BY <1>3, BoundsAssumption DEF TypeOK
<1>5. now \in 0 .. MaxTime
  BY DEF TypeOK
<1>6. x \in Launches /\ x.fire = fires + 1
  BY <1>2, <1>4, <1>5 DEF Launches
<1>7. launch' = [launch EXCEPT ![i] = x]
  BY DEF Fire
<1>8. OnlyLaunch(i, x)
  <2> HIDE DEF x
  <2> QED
    BY <1>6, <1>7, OneLaunch
<1>9. ~Running(i)
  BY DEF Fire, Running, NoLaunch
<1> QED
  BY <1>3, <1>4, <1>6, <1>8, <1>9

\* What a launcher that runs may turn into.
Continued(i) == \E x \in Launches : /\ x.fire = launch[i].fire /\ x.at = launch[i].at
                                    /\ OnlyLaunch(i, x)

BatchOf(i) == [fire |-> launch[i].fire, end |-> launch[i].at]

LEMMA LaunchMoves ==
  ASSUME TypeOK, NEW i \in Ids, LaunchStep(i) \/ ReplayFails(i) \/ LaunchFails(i)
  PROVE  /\ Running(i)
         /\ Continued(i) \/ OnlyLaunch(i, NoLaunch)
         /\ batches' = batches \/ batches' = batches \cup {BatchOf(i)}
         /\ fires' = fires
<1>1. CASE LoadBinding(i) \/ ReplayFails(i)
  <2>1. PICK pc \in {"started", "bound"} : launch' = [launch EXCEPT ![i] = [@ EXCEPT !.pc = pc]]
    BY <1>1 DEF LoadBinding, ReplayFails
  <2>2. launch[i].pc \in {"started", "bound"}
    BY <1>1 DEF LoadBinding, ReplayFails
  <2> DEFINE x == [launch[i] EXCEPT !.pc = pc]
  <2>3. x \in Launches /\ x.fire = launch[i].fire /\ x.at = launch[i].at
    BY <2>2, LaunchWithPc
  <2>4. launch' = [launch EXCEPT ![i] = x]
    BY <2>1
  <2> HIDE DEF x
  <2>5. Continued(i)
    BY <2>3, <2>4, OneLaunch DEF Continued
  <2>6. Running(i)
    BY <2>2 DEF Running
  <2> QED
    BY <1>1, <2>5, <2>6 DEF LoadBinding, ReplayFails, BatchStarted, BatchOf, WindowEnd
<1>2. CASE BindingRefused(i) \/ StartBatch(i) \/ LaunchFails(i)
  <2>1. launch' = [launch EXCEPT ![i] = NoLaunch]
    BY <1>2 DEF BindingRefused, StartBatch, LaunchFails, EndLaunch
  <2>2. OnlyLaunch(i, NoLaunch)
    BY <2>1, OneLaunch
  <2>3. Running(i)
    BY <1>2, LaunchPcs DEF BindingRefused, StartBatch, LaunchFails, Running
  <2> QED
    BY <1>2, <2>2, <2>3
    DEF BindingRefused, StartBatch, LaunchFails, BatchStarted, BatchOf, WindowEnd
<1> QED
  BY <1>1, <1>2 DEF LaunchStep

LEMMA CrashMoves ==
  ASSUME TypeOK, Crash
  PROVE  /\ launch' \in [Ids -> Launches \cup {NoLaunch}]
         /\ \A i \in Ids : IF Running(i)
                           THEN /\ launch'[i] \in Launches
                                /\ launch'[i].fire = launch[i].fire /\ launch'[i].at = launch[i].at
                           ELSE launch'[i] = launch[i]
         /\ op' \in [Actors -> Ops] /\ \A a \in Actors : op'[a] = NoOp
<1> DEFINE after(i) == IF launch[i].pc = "bound" THEN [launch[i] EXCEPT !.pc = "started"]
                       ELSE launch[i]
<1>1. launch' = [i \in Ids |-> after(i)] /\ op' = [a \in Actors |-> NoOp]
  BY DEF Crash
<1>2. ASSUME NEW i \in Ids
      PROVE  /\ after(i) \in Launches \cup {NoLaunch}
             /\ Running(i) => /\ after(i) \in Launches
                              /\ after(i).fire = launch[i].fire /\ after(i).at = launch[i].at
             /\ ~Running(i) => after(i) = launch[i]
  <2>1. CASE launch[i].pc = "bound"
    <3>1. after(i) = [launch[i] EXCEPT !.pc = "started"] /\ Running(i)
      BY <2>1 DEF Running
    <3> QED
      BY <2>1, <3>1, LaunchWithPc
  <2>2. CASE launch[i].pc # "bound"
    BY <2>2, LaunchPcs DEF TypeOK
  <2> QED
    BY <2>1, <2>2
<1> HIDE DEF after
<1> QED
  BY <1>1, <1>2, OpsTyped

LEMMA TypeInit == Init => TypeOK
<1> SUFFICES ASSUME Init PROVE TypeOK
  OBVIOUS
<1>1. 0 \in 0 .. MaxTime /\ 0 \in 0 .. MaxFires /\ 0 \in 0 .. MaxChanges /\ 0 \in 0 .. MaxFaults
  BY BoundsAssumption
<1>2. op \in [Actors -> Ops]
  BY OpsTyped DEF Init
<1> QED
  BY <1>1, <1>2 DEF Init, TypeOK

LEMMA OperatorStepTyped ==
  ASSUME TypeOK, NEW o \in Operators, ChangeBegins(o) \/ RequestStep(o)
  PROVE  TypeOK'
<1>1. o \in Actors
  BY ActorsNamed
<1>2. disturbed \in BOOLEAN /\ changes \in 0 .. MaxChanges
  BY DEF TypeOK
<1>3. CASE ChangeBegins(o)
  <2>1. PICK x \in Ops :
          Begin(o, x) /\ UNCHANGED <<server, tenant, policy, rows, temporal, runtime, faults>>
    BY <1>3, ChangesAsk
  <2> QED
    BY <2>1, BeginTyped, OpStepTyped
<1>4. CASE Commit(o)
  <2>1. rows' \in [Schedules -> Rows \cup {NoRow}] /\ op' \in [Actors -> Ops]
    BY <1>4, CommitMoves DEF OnlyActor
  <2>2. UNCHANGED <<server, tenant, policy, temporal, runtime, disturbed, changes, faults>>
    BY <1>4 DEF Commit
  <2> QED
    BY <2>1, <2>2 DEF TypeOK, policy, runtime
<1>5. CASE Refuse(o)
  <2>1. op' \in [Actors -> Ops]
    BY <1>1, <1>5, OneActor, OpsTyped DEF Refuse, OnlyActor
  <2> QED
    BY <1>2, <1>5, <2>1, OpStepTyped DEF Refuse
<1>6. CASE ListForTenant(o)
  <2>1. op' \in [Actors -> Ops]
    BY <1>1, <1>6, ListingMoves DEF ListForTenant, OnlyActor
  <2> QED
    BY <1>2, <1>6, <2>1, OpStepTyped DEF ListForTenant
<1>7. CASE WriteStatus(o)
  <2>1. op' \in [Actors -> Ops] /\ tenant' \in {"active", "disabled"}
    BY <1>7, WriteStatusMoves DEF OnlyActor
  <2>2. UNCHANGED <<server, policy, rows, temporal, runtime, disturbed, changes, faults>>
    BY <1>7 DEF WriteStatus
  <2> QED
    BY <2>1, <2>2 DEF TypeOK, policy, runtime
<1> QED
  BY <1>3, <1>4, <1>5, <1>6, <1>7 DEF RequestStep

LEMMA SyncTyped ==
  ASSUME TypeOK, NEW a \in Actors, Sync(a) \/ SyncFails(a)
  PROVE  TypeOK'
<1>1. CASE SyncCreates(a) \/ SyncUpdates(a)
  <2>1. InPush(a) /\ Pushed(a)
    BY <1>1 DEF SyncCreates, SyncUpdates, InPush
  <2>2. temporal' \in [Ids -> Mirrors \cup {NoMirror}] /\ op' \in [Actors -> Ops]
    BY <2>1, PushedMoves DEF OnlyActor
  <2>3. UNCHANGED <<server, tenant, policy, rows, runtime, disturbed, changes, faults>>
    BY <1>1 DEF SyncCreates, SyncUpdates
  <2> QED
    BY <2>2, <2>3 DEF TypeOK, policy, runtime
<1>2. CASE SyncFindsExisting(a)
  <2>1. op' \in [Actors -> Ops]
    BY <1>2, FindsMoves DEF OnlyActor
  <2> QED
    BY <1>2, <2>1, OpStepTyped DEF SyncFindsExisting, TypeOK
<1>3. CASE SyncFails(a)
  <2>1. op' \in [Actors -> Ops]
    BY <1>3, OneActor, OpsTyped DEF SyncFails, OnlyActor
  <2>2. faults' \in 0 .. MaxFaults
    BY <1>3, BoundsAssumption DEF SyncFails, TypeOK
  <2>3. /\ UNCHANGED <<tenant, policy, rows, temporal, runtime, changes>>
        /\ server' \in {"down", "starting", "up"} /\ disturbed' \in BOOLEAN
    BY <1>3 DEF SyncFails, TypeOK
  <2> QED
    BY <2>1, <2>2, <2>3 DEF TypeOK, policy, runtime
<1> QED
  BY <1>1, <1>2, <1>3 DEF Sync

LEMMA ServerStepTyped ==
  ASSUME TypeOK, Crash \/ StartServer \/ ServeRequests
  PROVE  TypeOK'
<1>1. CASE Crash
  <2>1. launch' \in [Ids -> Launches \cup {NoLaunch}] /\ op' \in [Actors -> Ops]
    BY <1>1, CrashMoves
  <2>2. faults' \in 0 .. MaxFaults
    BY <1>1, BoundsAssumption DEF Crash, TypeOK
  <2>3. /\ UNCHANGED <<tenant, policy, rows, temporal, batches, now, fires, changes>>
        /\ server' = "down" /\ disturbed' = TRUE
    BY <1>1 DEF Crash
  <2> QED
    BY <2>1, <2>2, <2>3 DEF TypeOK, policy
<1>2. CASE StartServer
  <2>1. op' \in [Actors -> Ops]
    BY <1>2, ActorsNamed, ListingMoves DEF StartServer, OnlyActor
  <2>2. /\ UNCHANGED <<tenant, policy, rows, temporal, runtime, disturbed, changes, faults>>
        /\ server' = "starting"
    BY <1>2 DEF StartServer
  <2> QED
    BY <2>1, <2>2 DEF TypeOK, policy, runtime
<1>3. CASE ServeRequests
  BY <1>3 DEF ServeRequests, TypeOK, policy, runtime
<1> QED
  BY <1>1, <1>2, <1>3

LEMMA PolicyStepTyped ==
  ASSUME TypeOK,
         \/ \E p \in Policies, on \in BOOLEAN : SetPolicyEnabled(p, on)
         \/ \E on \in BOOLEAN : SetSourceEnabled(on)
  PROVE  TypeOK'
<1>1. changes' \in 0 .. MaxChanges
  BY BoundsAssumption DEF SetPolicyEnabled, SetSourceEnabled, TypeOK
<1>2. ASSUME NEW p \in Policies, NEW on \in BOOLEAN, SetPolicyEnabled(p, on)
      PROVE  TypeOK'
  <2>1. policyOn' \in [Policies -> BOOLEAN] /\ everOn' \subseteq Policies
    BY <1>2 DEF SetPolicyEnabled, TypeOK
  <2>2. UNCHANGED <<server, tenant, source, rows, temporal, op, runtime, disturbed, faults>>
    BY <1>2 DEF SetPolicyEnabled
  <2> QED
    BY <1>1, <2>1, <2>2 DEF TypeOK, runtime
<1>3. ASSUME NEW on \in BOOLEAN, SetSourceEnabled(on)
      PROVE  TypeOK'
  BY <1>1, <1>3 DEF SetSourceEnabled, TypeOK, runtime
<1> QED
  BY <1>2, <1>3

LEMMA LauncherStepTyped ==
  ASSUME TypeOK,
         \/ Tick
         \/ \E i \in Ids : Fire(i) \/ LaunchStep(i) \/ ReplayFails(i) \/ LaunchFails(i)
  PROVE  TypeOK'
<1>1. CASE Tick
  BY <1>1, BoundsAssumption DEF Tick, TypeOK, policy
<1>2. ASSUME NEW i \in Ids, Fire(i) PROVE TypeOK'
  <2>1. fires' \in 0 .. MaxFires /\ launch' \in [Ids -> Launches \cup {NoLaunch}]
    BY <1>2, FireMoves DEF OnlyLaunch
  <2>2. UNCHANGED <<server, tenant, policy, rows, temporal, op, batches, disturbed, now, changes,
                    faults>>
    BY <1>2 DEF Fire
  <2> QED
    BY <2>1, <2>2 DEF TypeOK, policy
<1>3. ASSUME NEW i \in Ids, LaunchStep(i) \/ ReplayFails(i) \/ LaunchFails(i) PROVE TypeOK'
  <2>1. launch' \in [Ids -> Launches \cup {NoLaunch}] /\ fires' = fires
    BY <1>3, LaunchMoves DEF OnlyLaunch, Continued
  <2>2. batches' \subseteq [fire : 1 .. MaxFires, end : 0 .. MaxTime]
    <3>1. launch[i] \in Launches
      BY <1>3, LaunchMoves, LaunchPcs
    <3>2. BatchOf(i) \in [fire : 1 .. MaxFires, end : 0 .. MaxTime]
      BY <3>1 DEF BatchOf, Launches
    <3> QED
      BY <1>3, <3>2, LaunchMoves DEF TypeOK
  <2>3. faults' \in 0 .. MaxFaults
    BY <1>3, BoundsAssumption
    DEF LaunchStep, LoadBinding, BindingRefused, StartBatch, ReplayFails, LaunchFails, TypeOK
  <2>4. UNCHANGED <<server, tenant, policy, rows, temporal, op, disturbed, now, changes>>
    BY <1>3 DEF LaunchStep, LoadBinding, BindingRefused, StartBatch, ReplayFails, LaunchFails
  <2> QED
    BY <2>1, <2>2, <2>3, <2>4 DEF TypeOK, policy
<1> QED
  BY <1>1, <1>2, <1>3

LEMMA TypeStep == TypeOK /\ [Next]_vars => TypeOK'
<1> SUFFICES ASSUME TypeOK, [Next]_vars PROVE TypeOK'
  OBVIOUS
<1>1. CASE UNCHANGED vars
  BY <1>1 DEF vars, policy, runtime, TypeOK
<1> QED
  BY <1>1, OperatorStepTyped, SyncTyped, ServerStepTyped, PolicyStepTyped, LauncherStepTyped
  DEF Next

-----------------------------------------------------------------------------
(* One batch per fire.                                                     *)

\* Launchers keep the fire and the start they were created with.
LEMMA LaunchInvKept ==
  ASSUME TypeOK, LaunchInv, batches' = batches, fires' = fires,
         \A i \in Ids : Running(i)' => /\ Running(i)
                                       /\ launch'[i].fire = launch[i].fire
                                       /\ launch'[i].at = launch[i].at
  PROVE  LaunchInv'
BY DEF LaunchInv, FiresCounted, FiresDiffer, BatchesOfFires, OneBatchPerFire

LEMMA LaunchersNumbered ==
  ASSUME TypeOK
  PROVE  /\ fires \in Nat
         /\ \A i \in Ids : Running(i) => launch[i].fire \in Nat
         /\ \A b \in batches : b.fire \in Nat
         /\ \A x \in Launches : x.pc # "none"
BY LaunchPcs DEF TypeOK, Launches

LEMMA FireKeepsLaunchInv ==
  ASSUME TypeOK, LaunchInv, NEW i \in Ids, Fire(i)
  PROVE  LaunchInv'
<1>1. PICK x \in Launches : /\ x.fire = fires + 1 /\ OnlyLaunch(i, x)
                            /\ fires' = fires + 1 /\ ~Running(i)
  BY FireMoves
<1>2. batches' = batches
  BY DEF Fire
<1>3. /\ launch'[i].fire = fires + 1 /\ Running(i)'
      /\ \A j \in Ids \ {i} : launch'[j] = launch[j] /\ (Running(j)' <=> Running(j))
  BY <1>1, LaunchersNumbered DEF OnlyLaunch, Running
<1>4. /\ \A j \in Ids \ {i} : Running(j)' => launch'[j].fire < fires + 1
      /\ \A b \in batches : b.fire < fires + 1
  BY <1>3, LaunchersNumbered DEF LaunchInv, FiresCounted
<1>5. FiresCounted'
  BY <1>1, <1>2, <1>3, <1>4, LaunchersNumbered DEF FiresCounted
<1>6. FiresDiffer'
  BY <1>3, <1>4, LaunchersNumbered DEF FiresDiffer, LaunchInv
<1>7. BatchesOfFires'
  BY <1>2, <1>3, <1>4, LaunchersNumbered DEF BatchesOfFires, LaunchInv
<1> QED
  BY <1>2, <1>5, <1>6, <1>7 DEF LaunchInv, OneBatchPerFire

LEMMA LauncherKeepsLaunchInv ==
  ASSUME TypeOK, LaunchInv, NEW i \in Ids, LaunchStep(i) \/ ReplayFails(i) \/ LaunchFails(i)
  PROVE  LaunchInv'
<1>1. /\ Running(i)
      /\ Continued(i) \/ OnlyLaunch(i, NoLaunch)
      /\ batches' = batches \/ batches' = batches \cup {BatchOf(i)}
      /\ fires' = fires
  BY LaunchMoves
<1>2. \A j \in Ids : Running(j)' => /\ Running(j)
                                    /\ launch'[j].fire = launch[j].fire
                                    /\ launch'[j].at = launch[j].at
  <2>1. CASE Continued(i)
    BY <1>1, <2>1 DEF Continued, OnlyLaunch, Running
  <2>2. CASE OnlyLaunch(i, NoLaunch)
    BY <2>2 DEF OnlyLaunch, Running, NoLaunch
  <2> QED
    BY <1>1, <2>1, <2>2
<1>3. BatchOf(i).fire = launch[i].fire /\ BatchOf(i).end = launch[i].at
  BY DEF BatchOf
<1>4. CASE batches' = batches
  BY <1>1, <1>2, <1>4, LaunchInvKept
<1>5. CASE batches' = batches \cup {BatchOf(i)}
  <2>1. FiresCounted'
    BY <1>1, <1>2, <1>3, <1>5 DEF LaunchInv, FiresCounted
  <2>2. FiresDiffer'
    BY <1>2 DEF LaunchInv, FiresDiffer
  <2>3. BatchesOfFires'
    BY <1>1, <1>2, <1>3, <1>5 DEF LaunchInv, BatchesOfFires, FiresDiffer
  <2>4. OneBatchPerFire'
    <3>1. \A b \in batches : b.fire = launch[i].fire => b = BatchOf(i)
      <4> SUFFICES ASSUME NEW b \in batches, b.fire = launch[i].fire PROVE b = BatchOf(i)
        OBVIOUS
      <4>1. b.end = launch[i].at
        BY <1>1 DEF LaunchInv, BatchesOfFires
      <4>2. b \in [fire : 1 .. MaxFires, end : 0 .. MaxTime]
        BY DEF TypeOK
      <4> QED
        BY <4>1, <4>2 DEF BatchOf
    <3> QED
      BY <1>3, <1>5, <3>1 DEF LaunchInv, OneBatchPerFire
  <2> QED
    BY <2>1, <2>2, <2>3, <2>4 DEF LaunchInv
<1> QED
  BY <1>1, <1>4, <1>5

\* Every other step leaves launchers, fires and batches alone.
LEMMA LaunchFrame ==
  ASSUME TypeOK, [Next]_vars,
         ~Crash, \A i \in Ids : ~Fire(i) /\ ~LaunchStep(i) /\ ~ReplayFails(i) /\ ~LaunchFails(i)
  PROVE  UNCHANGED <<launch, batches, fires>>
<1>1. ASSUME NEW o \in Operators, ChangeBegins(o) PROVE UNCHANGED <<launch, batches, fires>>
  BY <1>1, ChangesAsk DEF runtime
<1> QED
  BY <1>1
  DEF Next, vars, runtime, RequestStep, Commit, Refuse, ListForTenant, WriteStatus, Sync,
      SyncCreates, SyncFindsExisting, SyncUpdates, SyncFails, StartServer, ServeRequests,
      SetPolicyEnabled, SetSourceEnabled, Tick

LEMMA LaunchInvStep == TypeOK /\ LaunchInv /\ [Next]_vars => LaunchInv'
<1> SUFFICES ASSUME TypeOK, LaunchInv, [Next]_vars PROVE LaunchInv'
  OBVIOUS
<1>1. CASE Crash
  <2>1. batches' = batches /\ fires' = fires
    BY <1>1 DEF Crash
  <2> QED
    BY <1>1, <2>1, CrashMoves, LaunchInvKept DEF Running
<1>2. ASSUME NEW i \in Ids, Fire(i) \/ LaunchStep(i) \/ ReplayFails(i) \/ LaunchFails(i)
      PROVE  LaunchInv'
  BY <1>2, FireKeepsLaunchInv, LauncherKeepsLaunchInv
<1>3. CASE UNCHANGED <<launch, batches, fires>>
  BY <1>3, LaunchInvKept DEF Running
<1> QED
  BY <1>1, <1>2, <1>3, LaunchFrame

LEMMA LaunchInvInit == Init => LaunchInv
BY DEF Init, LaunchInv, FiresCounted, FiresDiffer, BatchesOfFires, OneBatchPerFire, Running,
       NoLaunch

-----------------------------------------------------------------------------
(* Only policies that were enabled once can run.                           *)

LEMMA PushChecked ==
  ASSUME NEW s \in Schedules, NEW row \in Rows, NEW status, row.on => row.policy \in everOn
  PROVE  Checked(PushOf(s, row, status).mirror)
<1> DEFINE m == PushOf(s, row, status).mirror
<1>1. m = Mirror(s, row.policy, Paused(row, status))
  BY PushTyped
<1>2. \/ m = Mirror(s, row.policy, TRUE)
      \/ m = Mirror(s, row.policy, FALSE) /\ row.on
  <2>1. CASE ~Paused(row, status)
    <3>1. row.on
      BY <2>1 DEF Paused
    <3>2. Paused(row, status) = FALSE
      BY <2>1, PushTyped
    <3> QED
      BY <1>1, <3>1, <3>2
  <2>2. CASE Paused(row, status)
    <3>1. Paused(row, status) = TRUE
      BY <2>2, PushTyped
    <3> QED
      BY <1>1, <3>1
  <2> QED
    BY <2>1, <2>2
<1>3. Mirror(s, row.policy, TRUE).paused
  BY DEF Mirror
<1>4. Mirror(s, row.policy, FALSE).policy = row.policy
  BY DEF Mirror
<1> QED
  BY <1>2, <1>3, <1>4 DEF Checked

LEMMA HonestIdle == Honest(NoOp) /\ \A x \in StatusOps : Honest(x)
<1>1. NoOp.pc = "idle"
  BY DEF NoOp
<1>2. \A x \in StatusOps : x.pc \in {"list", "status"}
  BY DEF StatusOps
<1> QED
  BY <1>1, <1>2 DEF Honest

LEMMA HonestPushes ==
  ASSUME NEW pushes \in Seq(Pushes), NEW then \in {"end", "disabled"},
         \A j \in DOMAIN pushes : Checked(pushes[j].mirror)
  PROVE  Honest(AfterPushes(pushes, then))
<1>1. CASE pushes # << >>
  BY <1>1, AfterPushesTyped DEF Honest
<1>2. CASE pushes = << >> /\ then = "disabled"
  BY <1>2, AfterPushesTyped DEF Honest
<1>3. CASE pushes = << >> /\ then = "end"
  BY <1>3, AfterPushesTyped, HonestIdle
<1> QED
  BY <1>1, <1>2, <1>3

LEMMA HonestListing ==
  ASSUME TypeOK, RowsChecked, NEW status, NEW q \in PushesOfAll(status),
         NEW then \in {"end", "disabled"}
  PROVE  Honest(AfterPushes(q, then))
<1>1. q \in Seq(Pushes) /\ \A j \in DOMAIN q : \E s \in Schedules : IsPushOf(s, q[j], status)
  BY ListingComplete
<1>2. \A s \in Existing : rows[s] \in Rows
  BY DEF Existing, TypeOK, NoRow
<1>3. \A j \in DOMAIN q : Checked(q[j].mirror)
  BY <1>1, <1>2, PushChecked DEF IsPushOf, RowsChecked
<1> QED
  BY <1>1, <1>3, HonestPushes

\* A step that leaves rows and policies alone keeps the rest checked if the
\* actor it moves, and the mirror it writes, are.
LEMMA PolicyInvKept ==
  ASSUME PolicyInv, UNCHANGED <<policy, rows>>,
         \A i \in Ids : temporal'[i] = temporal[i] \/ Checked(temporal'[i]),
         \A a \in Actors : op'[a] = op[a] \/ Honest(op'[a])
  PROVE  PolicyInv'
<1>1. policyOn' = policyOn /\ everOn' = everOn
  BY DEF policy
<1>2. \A i \in Ids : Checked(temporal[i])'
  BY <1>1 DEF PolicyInv, MirrorsChecked, Checked
<1>3. \A a \in Actors : Honest(op[a])'
  BY <1>1 DEF PolicyInv, RequestsChecked, Honest, Checked
<1> QED
  BY <1>1, <1>2, <1>3
  DEF PolicyInv, PoliciesChecked, RowsChecked, MirrorsChecked, RequestsChecked, Existing

LEMMA OperatorKeepsPolicyInv ==
  ASSUME TypeOK, PolicyInv, NEW o \in Operators, ChangeBegins(o) \/ RequestStep(o)
  PROVE  PolicyInv'
<1>1. o \in Actors
  BY ActorsNamed
<1>2. CASE ChangeBegins(o)
  <2>1. PICK x \in Ops : /\ Asked(o, x) /\ Begin(o, x)
                         /\ UNCHANGED <<server, tenant, policy, rows, temporal, runtime, faults>>
    BY <1>2, ChangesAsk
  <2>2. op'[o] = x /\ \A a \in Actors \ {o} : op'[a] = op[a]
    BY <2>1, BeginTyped
  <2>3. Honest(x)
    <3>1. ASSUME NEW kind \in Kinds, NEW s \in Schedules, NEW row \in Rows,
                 x = Tx(kind, s, row), row.on => policyOn[row.policy]
          PROVE  Honest(x)
      <4>1. x.pc = "tx" /\ x.row = row
        BY <3>1 DEF Tx
      <4> QED
        BY <3>1, <4>1, RowFields DEF Honest, PolicyInv, PoliciesChecked
    <3>2. ASSUME x \in StatusOps PROVE Honest(x)
      BY <3>2, HonestIdle
    <3> QED
      BY <2>1, <3>1, <3>2 DEF Asked, StatusOps
  <2> QED
    BY <2>1, <2>2, <2>3, PolicyInvKept
<1>3. CASE Commit(o)
  <2> DEFINE s == op[o].schedule
             row == op[o].row
             pushes == <<PushOf(s, row, "active")>>
  <2>1. /\ op[o].pc = "tx" /\ s \in Schedules /\ row \in Rows
        /\ rows'[s] = row /\ \A t \in Schedules \ {s} : rows'[t] = rows[t]
        /\ pushes \in Seq(Pushes)
        /\ OnlyActor(o, Push(pushes, "end"))
    BY <1>3, CommitMoves
  <2>2. row.on => row.policy \in everOn
    BY <1>1, <2>1 DEF PolicyInv, RequestsChecked, Honest
  <2>3. Checked(PushOf(s, row, "active").mirror)
    BY <2>1, <2>2, PushChecked
  <2>4. Honest(Push(pushes, "end"))
    <3>1. pushes # << >> /\ \A j \in DOMAIN pushes : pushes[j] = PushOf(s, row, "active")
      OBVIOUS
    <3> HIDE DEF pushes
    <3> QED
      BY <2>1, <2>3, <3>1, PushOpTyped DEF Honest
  <2>5. UNCHANGED <<policy, temporal>>
    BY <1>3 DEF Commit
  <2>6. policyOn' = policyOn /\ everOn' = everOn /\ temporal' = temporal
    BY <2>5 DEF policy
  <2>7. PoliciesChecked' /\ MirrorsChecked'
    BY <2>6 DEF PolicyInv, PoliciesChecked, MirrorsChecked, Checked
  <2>8. RowsChecked'
    BY <2>1, <2>2, <2>6 DEF PolicyInv, RowsChecked, Existing
  <2>9. RequestsChecked'
    <3>1. \A a \in Actors : Honest(op'[a])
      BY <1>1, <2>1, <2>4 DEF OnlyActor, PolicyInv, RequestsChecked
    <3> QED
      BY <2>6, <3>1 DEF RequestsChecked, Honest, Checked
  <2> QED
    BY <2>7, <2>8, <2>9 DEF PolicyInv
<1>4. CASE Refuse(o) \/ ListForTenant(o)
  <2>1. \E x : Honest(x) /\ OnlyActor(o, x)
    <3>1. CASE Refuse(o)
      BY <1>1, <3>1, OneActor, OpsTyped, HonestIdle DEF Refuse
    <3>2. CASE ListForTenant(o)
      BY <1>1, <3>2, ListingMoves, HonestListing DEF ListForTenant, PolicyInv
    <3> QED
      BY <1>4, <3>1, <3>2
  <2>2. UNCHANGED <<policy, rows, temporal>>
    BY <1>4 DEF Refuse, ListForTenant
  <2> QED
    BY <2>1, <2>2, PolicyInvKept DEF OnlyActor
<1>5. CASE WriteStatus(o)
  <2>1. \E x : Honest(x) /\ OnlyActor(o, x)
    <3>1. [pc |-> "list", status |-> "active"] \in StatusOps
      BY DEF StatusOps
    <3> QED
      BY <1>5, <3>1, WriteStatusMoves, HonestIdle
  <2>2. UNCHANGED <<policy, rows, temporal>>
    BY <1>5 DEF WriteStatus
  <2> QED
    BY <2>1, <2>2, PolicyInvKept DEF OnlyActor
<1> QED
  BY <1>2, <1>3, <1>4, <1>5 DEF RequestStep

LEMMA SyncKeepsPolicyInv ==
  ASSUME TypeOK, PolicyInv, NEW a \in Actors, Sync(a) \/ SyncFails(a)
  PROVE  PolicyInv'
<1>1. Honest(op[a])
  BY DEF PolicyInv, RequestsChecked
<1>2. UNCHANGED <<policy, rows>>
  BY DEF Sync, SyncCreates, SyncFindsExisting, SyncUpdates, SyncFails
<1>3. CASE SyncCreates(a) \/ SyncUpdates(a)
  <2> DEFINE pushes == op[a].pushes
             first == Head(pushes)
  <2>1. InPush(a) /\ Pushed(a)
    BY <1>3 DEF SyncCreates, SyncUpdates, InPush
  <2>2. /\ op[a] \in PushOps /\ Tail(pushes) \in Seq(Pushes) /\ temporal'[first.id] = first.mirror
        /\ \A i \in Ids \ {first.id} : temporal'[i] = temporal[i]
        /\ OnlyActor(a, AfterPushes(Tail(pushes), op[a].then))
    BY <2>1, PushedMoves
  <2>3. pushes \in Seq(Pushes) /\ pushes # << >> /\ op[a].then \in {"end", "disabled"}
    BY <2>2 DEF PushOps
  <2>4. \A j \in DOMAIN pushes : Checked(pushes[j].mirror)
    BY <1>1, <2>1 DEF Honest, InPush
  <2>5. Checked(first.mirror) /\ \A j \in DOMAIN Tail(pushes) : Checked(Tail(pushes)[j].mirror)
    <3> HIDE DEF pushes
    <3> QED
      BY <2>3, <2>4
  <2>6. Honest(AfterPushes(Tail(pushes), op[a].then))
    BY <2>2, <2>3, <2>5, HonestPushes
  <2> HIDE DEF pushes, first
  <2> QED
    BY <1>2, <2>2, <2>5, <2>6, PolicyInvKept DEF OnlyActor
<1>4. CASE SyncFindsExisting(a)
  <2>1. PICK x \in PushOps : x.pushes = op[a].pushes /\ op[a].pc = "push" /\ OnlyActor(a, x)
    BY <1>4, FindsMoves
  <2>2. Honest(x)
    BY <1>1, <2>1 DEF Honest, PushOps
  <2>3. temporal' = temporal
    BY <1>4 DEF SyncFindsExisting
  <2> QED
    BY <1>2, <2>1, <2>2, <2>3, PolicyInvKept DEF OnlyActor
<1>5. CASE SyncFails(a)
  <2>1. OnlyActor(a, NoOp)
    BY <1>5, OneActor, OpsTyped DEF SyncFails
  <2>2. temporal' = temporal
    BY <1>5 DEF SyncFails
  <2> QED
    BY <1>2, <2>1, <2>2, HonestIdle, PolicyInvKept DEF OnlyActor
<1> QED
  BY <1>3, <1>4, <1>5 DEF Sync

LEMMA PolicyInvStep == TypeOK /\ PolicyInv /\ [Next]_vars => PolicyInv'
<1> SUFFICES ASSUME TypeOK, PolicyInv, [Next]_vars PROVE PolicyInv'
  OBVIOUS
<1>1. CASE Crash
  <2>1. UNCHANGED <<policy, rows, temporal>>
    BY <1>1 DEF Crash
  <2> QED
    BY <1>1, <2>1, CrashMoves, HonestIdle, PolicyInvKept
<1>2. CASE StartServer
  <2>1. UNCHANGED <<policy, rows, temporal>>
    BY <1>2 DEF StartServer
  <2>2. \E x : Honest(x) /\ OnlyActor(Boot, x)
    BY <1>2, ActorsNamed, ListingMoves, HonestListing DEF StartServer, PolicyInv
  <2> QED
    BY <2>1, <2>2, PolicyInvKept DEF OnlyActor
<1>3. ASSUME NEW p \in Policies, NEW on \in BOOLEAN, SetPolicyEnabled(p, on)
      PROVE  PolicyInv'
  <2>1. /\ policyOn' = [policyOn EXCEPT ![p] = on]
        /\ everOn' = IF on THEN everOn \cup {p} ELSE everOn
        /\ UNCHANGED <<rows, temporal, op>>
    BY <1>3 DEF SetPolicyEnabled
  <2>2. PoliciesChecked'
    BY <2>1 DEF TypeOK, PolicyInv, PoliciesChecked
  <2>3. everOn \subseteq everOn'
    BY <2>1
  <2>4. RowsChecked' /\ MirrorsChecked'
    BY <2>1, <2>3 DEF PolicyInv, RowsChecked, MirrorsChecked, Existing, Checked
  <2>5. RequestsChecked'
    BY <2>1, <2>3 DEF PolicyInv, RequestsChecked, Honest, Checked
  <2> QED
    BY <2>2, <2>4, <2>5 DEF PolicyInv
<1>4. ASSUME NEW on \in BOOLEAN, SetSourceEnabled(on) PROVE PolicyInv'
  <2>1. UNCHANGED <<policyOn, everOn, rows, temporal, op>>
    BY <1>4 DEF SetSourceEnabled
  <2> QED
    BY <2>1 DEF PolicyInv, PoliciesChecked, RowsChecked, MirrorsChecked, RequestsChecked,
                Existing, Checked, Honest
<1>5. ASSUME \/ Tick \/ ServeRequests \/ UNCHANGED vars
             \/ \E i \in Ids : Fire(i) \/ LaunchStep(i) \/ ReplayFails(i) \/ LaunchFails(i)
      PROVE  PolicyInv'
  <2>1. UNCHANGED <<policy, rows, temporal, op>>
    BY <1>5 DEF Tick, ServeRequests, vars, Fire, LaunchStep, LoadBinding, BindingRefused,
                StartBatch, ReplayFails, LaunchFails
  <2> QED
    BY <2>1, PolicyInvKept
<1> QED
  BY <1>1, <1>2, <1>3, <1>4, <1>5, OperatorKeepsPolicyInv, SyncKeepsPolicyInv DEF Next

LEMMA PolicyInvInit == Init => PolicyInv
<1> SUFFICES ASSUME Init PROVE PolicyInv
  OBVIOUS
<1>1. RowsChecked
  BY DEF Init, RowsChecked, Existing, NoRow
<1>2. MirrorsChecked
  BY DEF Init, MirrorsChecked, Checked, NoMirror
<1>3. RequestsChecked
  BY HonestIdle DEF Init, RequestsChecked
<1> QED
  BY <1>1, <1>2, <1>3 DEF Init, PolicyInv, PoliciesChecked

-----------------------------------------------------------------------------
(* Agreement: who is at work, and what is left to do.                      *)

\* A request that was under way may end or go on; none begins.
LEMMA NoneBegins ==
  ASSUME ServerServes, OneAtATime,
         server' = server, disturbed' = disturbed,
         \A a \in Actors : op[a] = NoOp => op'[a] = NoOp
  PROVE  ServerServes' /\ OneAtATime'
BY ActorsNamed DEF ServerServes, OneAtATime

\* An actor at work while requests are served alone is the only one.
LEMMA AloneActor ==
  ASSUME TypeOK, ServerServes, OneAtATime, Alone, NEW a \in Actors, op[a] # NoOp
  PROVE  \A b \in Actors \ {a} : op[b] = NoOp
<1>1. CASE server = "starting"
  <2>1. \A o \in Operators : op[o] = NoOp
    BY <1>1 DEF ServerServes
  <2> QED
    BY <2>1 DEF Actors
<1>2. CASE server = "up" /\ ~disturbed
  BY <1>2 DEF OneAtATime
<1> QED
  BY <1>1, <1>2 DEF Alone

LEMMA ServedBy ==
  ASSUME NEW a \in Actors, \A b \in Actors \ {a} : op'[b] = NoOp,
         Serves(a)', op'[a] = NoOp => AgreesFor(tenant)'
  PROVE  Served'
<1>1. NoOp.pc = "idle"
  BY DEF NoOp
<1>2. \A b \in Actors \ {a} : Serves(b)'
  BY <1>1 DEF Serves, InPush
<1> QED
  BY <1>2 DEF Served

LEMMA PushesDone ==
  ASSUME NEW status, PushesRest(<< >>, status)
  PROVE  AgreesFor(status)
<1>1. DOMAIN << >> = {}
  OBVIOUS
<1> QED
  BY <1>1 DEF PushesRest, AgreesFor

\* What is left to do once some of the pushes are done.
LEMMA AfterPushesServe ==
  ASSUME NEW a \in Actors, NEW pushes \in Seq(Pushes), NEW then \in {"end", "disabled"},
         NEW status,
         PushesRest(pushes, status)',
         status = IF then = "disabled" THEN "disabled" ELSE tenant',
         OnlyActor(a, AfterPushes(pushes, then))
  PROVE  Serves(a)' /\ (op'[a] = NoOp => AgreesFor(tenant)')
<1>1. op'[a] = AfterPushes(pushes, then) /\ NoOp.pc = "idle"
  BY DEF OnlyActor, NoOp
<1>2. CASE pushes # << >>
  <2>1. op'[a].pc = "push" /\ op'[a].pushes = pushes /\ op'[a].then = then
    BY <1>1, <1>2, AfterPushesTyped
  <2>2. StatusAfter(a)' = status
    BY <2>1 DEF StatusAfter
  <2> QED
    BY <1>1, <2>1, <2>2 DEF Serves, InPush
<1>3. CASE pushes = << >>
  <2>1. AgreesFor(status)'
    <3>1. DOMAIN << >> = {}
      OBVIOUS
    <3> QED
      BY <1>3, <3>1 DEF PushesRest, AgreesFor
  <2>2. CASE then = "disabled"
    <3>1. op'[a].pc = "status" /\ op'[a].status = "disabled"
      BY <1>1, <1>3, <2>2 DEF AfterPushes
    <3> QED
      BY <1>1, <2>1, <2>2, <3>1 DEF Serves, InPush
  <2>3. CASE then = "end"
    <3>1. op'[a] = NoOp
      BY <1>1, <1>3, <2>3, AfterPushesTyped
    <3> QED
      BY <1>1, <2>1, <2>3, <3>1 DEF Serves, InPush
  <2> QED
    BY <2>2, <2>3
<1> QED
  BY <1>2, <1>3

\* A listing covers every row.
LEMMA ListingServes ==
  ASSUME TypeOK, NEW a \in Actors, NEW status, NEW q \in PushesOfAll(status),
         NEW then \in {"end", "disabled"},
         status = IF then = "disabled" THEN "disabled" ELSE tenant,
         op' = [op EXCEPT ![a] = AfterPushes(q, then)],
         UNCHANGED <<tenant, rows, temporal>>
  PROVE  /\ OnlyActor(a, AfterPushes(q, then))
         /\ Serves(a)' /\ (op'[a] = NoOp => AgreesFor(tenant)')
<1>1. /\ q \in Seq(Pushes)
      /\ \A j \in DOMAIN q : \E s \in Schedules : IsPushOf(s, q[j], status)
      /\ \A s \in Existing : \E j \in DOMAIN q : q[j] = PushOf(s, rows[s], status)
  BY ListingComplete
<1>2. PushesRest(q, status)'
  BY <1>1 DEF PushesRest, IsPushOf, Existing
<1>3. OnlyActor(a, AfterPushes(q, then))
  BY ListingMoves
<1> QED
  BY <1>1, <1>2, <1>3, AfterPushesServe

\* A push brings one row to Temporal and leaves the others alone, since their
\* ids differ.
LEMMA PushServes ==
  ASSUME TypeOK, IdsDiffer, NEW a \in Actors, InPush(a), Pushed(a), Serves(a),
         UNCHANGED <<tenant, rows>>,
         NEW pushes, pushes = op[a].pushes, NEW then, then = op[a].then,
         NEW status, status = StatusAfter(a)
  PROVE  /\ OnlyActor(a, AfterPushes(Tail(pushes), then))
         /\ Serves(a)' /\ (op'[a] = NoOp => AgreesFor(tenant)')
<1> DEFINE first == Head(pushes)
<1>1. /\ op[a] \in PushOps /\ first \in Pushes /\ Tail(pushes) \in Seq(Pushes)
      /\ temporal'[first.id] = first.mirror
      /\ \A i \in Ids \ {first.id} : temporal'[i] = temporal[i]
      /\ OnlyActor(a, AfterPushes(Tail(pushes), then))
  BY PushedMoves
<1>2. pushes \in Seq(Pushes) /\ pushes # << >> /\ then \in {"end", "disabled"}
  BY <1>1 DEF PushOps
<1>3. PushesRest(pushes, status)
  BY DEF Serves
<1>4. /\ first = pushes[1] /\ 1 \in DOMAIN pushes
      /\ \A j \in DOMAIN Tail(pushes) : j + 1 \in DOMAIN pushes /\ Tail(pushes)[j] = pushes[j + 1]
      /\ \A j \in DOMAIN pushes : j = 1 \/ (j - 1 \in DOMAIN Tail(pushes) /\ Tail(pushes)[j - 1] = pushes[j])
  BY <1>2
<1> HIDE DEF first
<1>5. \A s \in Existing : s \in Schedules /\ rows[s] \in Rows /\ rows[s].id \in Ids
  <2>1. \A s \in Existing : s \in Schedules /\ rows[s] \in Rows
    BY DEF Existing, TypeOK, NoRow
  <2> QED
    BY <2>1, RowFields
<1>6. PICK r \in Existing : first = PushOf(r, rows[r], status)
  BY <1>3, <1>4 DEF PushesRest, IsPushOf
<1>7. first.id = rows[r].id
  BY <1>5, <1>6, PushTyped
<1>8. Existing' = Existing
  BY DEF Existing
<1>9. \A s \in Existing : first = PushOf(s, rows[s], status) => InTemporal(s, status)'
  BY <1>1, <1>5, PushTyped DEF InTemporal
<1>10. \A s \in Existing : InTemporal(s, status) => InTemporal(s, status)'
  <2> SUFFICES ASSUME NEW s \in Existing, InTemporal(s, status) PROVE InTemporal(s, status)'
    OBVIOUS
  <2>1. CASE s = r
    BY <1>6, <1>9, <2>1
  <2>2. CASE s # r
    <3>1. rows[s].id # first.id
      BY <1>7, <2>2 DEF IdsDiffer
    <3> QED
      BY <1>1, <1>5, <3>1 DEF InTemporal
  <2> QED
    BY <2>1, <2>2
<1>11. PushesRest(Tail(pushes), status)'
  <2>1. \A j \in DOMAIN Tail(pushes) : \E s \in Schedules : IsPushOf(s, Tail(pushes)[j], status)'
    BY <1>3, <1>4, <1>8 DEF PushesRest, IsPushOf
  <2>2. ASSUME NEW s \in Existing
        PROVE  \/ InTemporal(s, status)'
               \/ \E j \in DOMAIN Tail(pushes) : Tail(pushes)[j] = PushOf(s, rows[s], status)
    <3>1. CASE InTemporal(s, status)
      BY <1>10, <3>1
    <3>2. ASSUME NEW j \in DOMAIN pushes, pushes[j] = PushOf(s, rows[s], status)
          PROVE  \/ InTemporal(s, status)'
                 \/ \E i \in DOMAIN Tail(pushes) : Tail(pushes)[i] = PushOf(s, rows[s], status)
      BY <1>4, <1>9, <3>2
    <3> QED
      BY <1>3, <3>1, <3>2 DEF PushesRest
  <2> QED
    BY <1>8, <2>1, <2>2 DEF PushesRest
<1>12. status = IF op[a].then = "disabled" THEN "disabled" ELSE tenant'
  BY DEF StatusAfter
<1> QED
  BY <1>1, <1>2, <1>11, <1>12, AfterPushesServe

\* A request begins alone, or overlaps and is no longer served alone.
LEMMA BeginServes ==
  ASSUME TypeOK, AgreementInv, NEW o \in Operators, ChangeBegins(o)
  PROVE  AgreementInv'
<1>1. PICK x \in Ops : /\ Asked(o, x) /\ Begin(o, x)
                       /\ UNCHANGED <<server, tenant, policy, rows, temporal, runtime, faults>>
  BY ChangesAsk
<1>2. /\ op'[o] = x /\ \A a \in Actors \ {o} : op'[a] = op[a]
  BY <1>1, BeginTyped
<1>3. /\ server = "up" /\ op[o] = NoOp
      /\ disturbed' = (disturbed \/ \E a \in Actors \ {o} : op[a] # NoOp)
  BY <1>1 DEF Begin
<1>4. ServerServes'
  BY <1>1, <1>2, <1>3, ActorsNamed DEF AgreementInv, ServerServes
<1>5. ASSUME ~disturbed' PROVE ~disturbed /\ \A a \in Actors \ {o} : op[a] = NoOp
  BY <1>3, <1>5
<1>6. OneAtATime'
  BY <1>2, <1>5 DEF OneAtATime
<1>7. Served'
  <2> SUFFICES ASSUME Alone' PROVE Served'
    BY DEF Served
  <2>1. ~disturbed'
    BY <1>1, <1>3 DEF Alone
  <2>2. ~disturbed /\ \A a \in Actors : op[a] = NoOp
    BY <1>3, <1>5, <2>1
  <2>3. AgreesFor(tenant)
    BY <1>3, <2>2 DEF AgreementInv, Served, Alone
  <2>4. AgreesFor(tenant)'
    BY <1>1, <2>3 DEF AgreesFor, InTemporal, Existing
  <2>5. ASSUME NEW kind \in Kinds, NEW s \in Schedules, NEW row \in Rows,
               x = Tx(kind, s, row), tenant = "active"
        PROVE  Serves(o)'
    <3>1. op'[o].pc = "tx"
      BY <1>2, <2>5 DEF Tx
    <3>2. tenant' = "active" /\ AgreesFor("active")'
      BY <1>1, <2>4, <2>5 DEF AgreesFor, InTemporal
    <3> QED
      BY <3>1, <3>2 DEF Serves, InPush
  <2>6. ASSUME \/ x = [pc |-> "list", status |-> "disabled"]
               \/ x = [pc |-> "status", status |-> "active"]
        PROVE  Serves(o)'
    BY <1>2, <2>6 DEF Serves, InPush
  <2>7. Serves(o)'
    BY <1>1, <2>5, <2>6 DEF Asked
  <2>8. o \in Actors /\ \A b \in Actors \ {o} : op'[b] = NoOp
    BY <1>2, <2>2, ActorsNamed
  <2> QED
    BY <2>4, <2>7, <2>8, ServedBy
<1>8. IdsDiffer'
  BY <1>1 DEF AgreementInv, IdsDiffer, Existing
<1> QED
  BY <1>4, <1>6, <1>7, <1>8 DEF AgreementInv

\* A step of an actor at work, which keeps the other actors, the server and
\* the rows: it is enough to look at the actor if it is served alone.
LEMMA ActorServes ==
  ASSUME TypeOK, AgreementInv, NEW a \in Actors, op[a] # NoOp, NEW x, OnlyActor(a, x),
         UNCHANGED <<server, disturbed, rows>>,
         Alone => Serves(a)' /\ (op'[a] = NoOp => AgreesFor(tenant)')
  PROVE  AgreementInv'
<1>1. \A b \in Actors : op[b] = NoOp => op'[b] = NoOp
  BY DEF OnlyActor
<1>2. ServerServes' /\ OneAtATime'
  BY <1>1, NoneBegins DEF AgreementInv
<1>3. IdsDiffer'
  BY DEF AgreementInv, IdsDiffer, Existing
<1>4. Served'
  <2>1. CASE Alone
    <3>1. \A b \in Actors \ {a} : op'[b] = NoOp
      BY <2>1, AloneActor DEF AgreementInv, OnlyActor
    <3> QED
      BY <2>1, <3>1, ServedBy
  <2>2. CASE ~Alone
    BY <2>2 DEF Served, Alone
  <2> QED
    BY <2>1, <2>2
<1> QED
  BY <1>2, <1>3, <1>4 DEF AgreementInv

LEMMA CommitServes ==
  ASSUME TypeOK, AgreementInv, NEW o \in Operators, Commit(o)
  PROVE  AgreementInv'
<1> DEFINE s == op[o].schedule
           row == op[o].row
           pushes == <<PushOf(s, row, "active")>>
<1>1. /\ op[o].pc = "tx" /\ s \in Schedules /\ row \in Rows
      /\ rows'[s] = row /\ \A t \in Schedules \ {s} : rows'[t] = rows[t]
      /\ \A t \in Schedules \ {s} : rows[t].exists => rows[t].id # row.id
      /\ pushes \in Seq(Pushes)
      /\ OnlyActor(o, Push(pushes, "end"))
  BY CommitMoves
<1>2. UNCHANGED <<server, tenant, temporal, disturbed>>
  BY DEF Commit
<1>3. o \in Actors /\ op[o] # NoOp
  BY <1>1, ActorsNamed DEF NoOp
<1>4. /\ pushes # << >> /\ DOMAIN pushes = {1} /\ pushes[1] = PushOf(s, row, "active")
  OBVIOUS
<1>5. PICK t0, r0, p0 : t0 = s /\ r0 = row /\ p0 = pushes
  OBVIOUS
<1> HIDE DEF s, row, pushes
<1>6. IdsDiffer'
  BY <1>1 DEF AgreementInv, IdsDiffer, Existing
<1>7. ServerServes' /\ OneAtATime'
  <2>1. \A b \in Actors : op[b] = NoOp => op'[b] = NoOp
    BY <1>1, <1>3 DEF OnlyActor
  <2> QED
    BY <1>2, <2>1, NoneBegins DEF AgreementInv
<1>8. Served'
  <2>1. CASE Alone
    <3>1. tenant = "active" /\ AgreesFor("active")
      BY <1>1, <1>3, <2>1 DEF AgreementInv, Served, Serves
    <3>2. \A b \in Actors \ {o} : op'[b] = NoOp
      BY <1>1, <1>3, <2>1, AloneActor DEF AgreementInv, OnlyActor
    <3>3. op'[o].pc = "push" /\ op'[o].pushes = p0 /\ op'[o].then = "end"
      BY <1>1, <1>4, <1>5, PushOpTyped DEF OnlyActor
    <3>4. StatusAfter(o)' = "active"
      BY <1>2, <3>1, <3>3 DEF StatusAfter
    <3>5. row.exists
      BY <1>1, RowFields
    <3>6. IsPushOf(t0, p0[1], "active")'
      BY <1>1, <1>4, <1>5, <3>5 DEF IsPushOf, Existing
    <3>7. ASSUME NEW t \in Schedules, rows'[t].exists, t # s PROVE InTemporal(t, "active")'
      BY <1>1, <1>2, <3>1, <3>7 DEF InTemporal, AgreesFor, Existing
    <3>8. PushesRest(p0, "active")'
      <4>1. DOMAIN p0 = {1} /\ p0[1] = PushOf(t0, r0, "active") /\ rows'[t0] = r0 /\ t0 \in Schedules
        BY <1>1, <1>4, <1>5
      <4> QED
        BY <1>5, <3>6, <3>7, <4>1 DEF PushesRest, Existing
    <3>9. Serves(o)' /\ op'[o] # NoOp
      BY <3>3, <3>4, <3>8 DEF Serves, InPush, NoOp
    <3> QED
      BY <1>3, <3>2, <3>9, ServedBy
  <2>2. CASE ~Alone
    BY <1>2, <2>2 DEF Served, Alone
  <2> QED
    BY <2>1, <2>2
<1> QED
  BY <1>6, <1>7, <1>8 DEF AgreementInv

LEMMA RequestServes ==
  ASSUME TypeOK, AgreementInv, NEW o \in Operators, Refuse(o) \/ ListForTenant(o) \/ WriteStatus(o)
  PROVE  AgreementInv'
<1>1. o \in Actors /\ op[o] # NoOp /\ NoOp.pc = "idle"
  BY ActorsNamed DEF Refuse, ListForTenant, WriteStatus, NoOp
<1>2. Alone => Serves(o)
  BY <1>1 DEF AgreementInv, Served
<1>3. UNCHANGED <<server, disturbed, rows, temporal>>
  BY DEF Refuse, ListForTenant, WriteStatus
<1>4. CASE Refuse(o)
  <2>1. OnlyActor(o, NoOp)
    BY <1>1, <1>4, OneActor, OpsTyped DEF Refuse
  <2>2. Serves(o)'
    BY <1>1, <2>1 DEF Serves, InPush, OnlyActor
  <2>3. Alone => AgreesFor(tenant)
    BY <1>2, <1>4 DEF Serves, Refuse
  <2>4. Alone => AgreesFor(tenant)'
    BY <1>3, <1>4, <2>3 DEF AgreesFor, InTemporal, Existing, Refuse
  <2> QED
    BY <1>1, <1>3, <2>1, <2>2, <2>4, ActorServes
<1>5. CASE ListForTenant(o)
  <2>1. PICK status \in {"active", "disabled"} : status = op[o].status
    <3>1. op[o].pc = "list" /\ op[o] \in Ops
      BY <1>1, <1>5 DEF ListForTenant, TypeOK
    <3>2. op[o] \in StatusOps
      BY <3>1, OpKinds
    <3> QED
      BY <3>2 DEF StatusOps
  <2> DEFINE then == IF status = "disabled" THEN "disabled" ELSE "end"
  <2>2. PICK q \in PushesOfAll(status) : op' = [op EXCEPT ![o] = AfterPushes(q, then)]
    BY <1>5, <2>1 DEF ListForTenant
  <2>3. UNCHANGED tenant
    BY <1>5 DEF ListForTenant
  <2>4. Alone => status = IF then = "disabled" THEN "disabled" ELSE tenant
    BY <1>2, <1>5, <2>1 DEF Serves, ListForTenant
  <2>5. then \in {"end", "disabled"}
    OBVIOUS
  <2> HIDE DEF then
  <2>6. OnlyActor(o, AfterPushes(q, then))
    BY <1>1, <2>2, <2>5, ListingMoves
  <2>7. Alone => Serves(o)' /\ (op'[o] = NoOp => AgreesFor(tenant)')
    BY <1>1, <1>3, <2>2, <2>3, <2>4, <2>5, ListingServes
  <2> QED
    BY <1>1, <1>3, <2>6, <2>7, ActorServes
<1>6. CASE WriteStatus(o)
  <2>1. /\ op[o].pc = "status" /\ tenant' = op[o].status
        /\ op[o].status \in {"active", "disabled"}
        /\ op[o].status = "disabled" => OnlyActor(o, NoOp)
        /\ op[o].status = "active" => OnlyActor(o, [pc |-> "list", status |-> "active"])
    BY <1>6, WriteStatusMoves
  <2>2. CASE op[o].status = "disabled"
    <3>1. Serves(o)'
      BY <1>1, <2>1, <2>2 DEF Serves, InPush, OnlyActor
    <3>2. Alone => AgreesFor("disabled")
      BY <1>2, <2>1, <2>2 DEF Serves
    <3>3. Alone => AgreesFor(tenant)'
      BY <1>3, <2>1, <2>2, <3>2 DEF AgreesFor, InTemporal, Existing
    <3> QED
      BY <1>1, <1>3, <2>1, <2>2, <3>1, <3>3, ActorServes
  <2>3. CASE op[o].status = "active"
    <3>1. Serves(o)' /\ op'[o] # NoOp
      BY <1>1, <2>1, <2>3 DEF Serves, InPush, OnlyActor
    <3> QED
      BY <1>1, <1>3, <2>1, <2>3, <3>1, ActorServes
  <2> QED
    BY <2>1, <2>2, <2>3
<1> QED
  BY <1>4, <1>5, <1>6

LEMMA SyncServes ==
  ASSUME TypeOK, AgreementInv, NEW a \in Actors, Sync(a) \/ SyncFails(a)
  PROVE  AgreementInv'
<1>1. op[a] # NoOp /\ NoOp.pc = "idle"
  BY DEF Sync, SyncCreates, SyncFindsExisting, SyncUpdates, SyncFails, NoOp
<1>2. Alone => Serves(a)
  BY DEF AgreementInv, Served
<1>3. CASE SyncCreates(a) \/ SyncUpdates(a)
  <2>1. InPush(a) /\ Pushed(a) /\ UNCHANGED <<server, disturbed, tenant, rows>>
    BY <1>3 DEF SyncCreates, SyncUpdates, InPush
  <2>2. OnlyActor(a, AfterPushes(Tail(op[a].pushes), op[a].then))
    BY <2>1, PushedMoves
  <2>3. Alone => Serves(a)' /\ (op'[a] = NoOp => AgreesFor(tenant)')
    BY <1>2, <2>1, PushServes DEF AgreementInv
  <2> QED
    BY <1>1, <2>1, <2>2, <2>3, ActorServes
<1>4. CASE SyncFindsExisting(a)
  <2>1. PICK x \in PushOps : /\ x.pushes = op[a].pushes /\ x.then = op[a].then
                             /\ op[a].pc = "push" /\ OnlyActor(a, x)
    BY <1>4, FindsMoves
  <2>2. UNCHANGED <<server, disturbed, tenant, rows, temporal>>
    BY <1>4 DEF SyncFindsExisting
  <2>3. op'[a] = x /\ x.pc \in {"push", "update"} /\ op'[a] # NoOp
    BY <1>1, <2>1 DEF OnlyActor, PushOps
  <2>4. StatusAfter(a)' = StatusAfter(a)
    BY <2>1, <2>2, <2>3 DEF StatusAfter
  <2>5. Alone => PushesRest(op[a].pushes, StatusAfter(a))
    BY <1>2, <2>1 DEF Serves, InPush
  <2>6. Alone => PushesRest(op[a].pushes, StatusAfter(a))'
    BY <2>1, <2>2, <2>3, <2>4, <2>5 DEF PushesRest, IsPushOf, InTemporal, Existing
  <2>7. Alone => Serves(a)'
    BY <2>3, <2>6 DEF Serves, InPush
  <2> QED
    BY <1>1, <2>1, <2>2, <2>3, <2>7, ActorServes
<1>5. CASE SyncFails(a)
  <2>1. OnlyActor(a, NoOp) /\ disturbed' = TRUE /\ rows' = rows
    BY <1>5, OneActor, OpsTyped DEF SyncFails
  <2>2. server' = IF a = Boot THEN "down" ELSE server
    BY <1>5 DEF SyncFails
  <2>3. a # Boot => server = "up"
    BY <1>1 DEF AgreementInv, ServerServes, Actors
  <2>4. a = Boot => server = "starting"
    BY <1>1 DEF AgreementInv, ServerServes
  <2>5. ServerServes'
    BY <2>1, <2>2, <2>3, <2>4, ActorsNamed DEF AgreementInv, ServerServes, OnlyActor
  <2>6. OneAtATime' /\ Served'
    BY <2>1, <2>2, <2>3 DEF OneAtATime, Served, Alone
  <2>7. IdsDiffer'
    BY <2>1 DEF AgreementInv, IdsDiffer, Existing
  <2> QED
    BY <2>5, <2>6, <2>7 DEF AgreementInv
<1> QED
  BY <1>3, <1>4, <1>5 DEF Sync

LEMMA ServerServesStep ==
  ASSUME TypeOK, AgreementInv, Crash \/ StartServer \/ ServeRequests
  PROVE  AgreementInv'
<1>1. IdsDiffer'
  BY DEF AgreementInv, IdsDiffer, Existing, Crash, StartServer, ServeRequests
<1>2. CASE Crash
  <2>1. \A a \in Actors : op'[a] = NoOp
    BY <1>2, CrashMoves
  <2>2. server' = "down" /\ disturbed' = TRUE
    BY <1>2 DEF Crash
  <2>3. ServerServes'
    BY <2>1, ActorsNamed DEF ServerServes
  <2> QED
    BY <1>1, <2>2, <2>3 DEF AgreementInv, OneAtATime, Served, Alone
<1>3. CASE StartServer
  <2>1. PICK status : status = tenant
    OBVIOUS
  <2>2. PICK q \in PushesOfAll(status) : op' = [op EXCEPT ![Boot] = AfterPushes(q, "end")]
    BY <1>3, <2>1 DEF StartServer, ReconciledAsStatus
  <2>3. UNCHANGED <<tenant, rows, temporal, disturbed>> /\ server = "down" /\ server' = "starting"
    BY <1>3 DEF StartServer
  <2>4. /\ OnlyActor(Boot, AfterPushes(q, "end"))
        /\ Serves(Boot)' /\ (op'[Boot] = NoOp => AgreesFor(tenant)')
    BY <2>1, <2>2, <2>3, ActorsNamed, ListingServes
  <2>5. \A a \in Actors \ {Boot} : op'[a] = NoOp
    BY <2>3, <2>4 DEF OnlyActor, AgreementInv, ServerServes, Actors
  <2>6. ServerServes' /\ OneAtATime'
    BY <2>3, <2>5, ActorsNamed DEF ServerServes, OneAtATime
  <2>7. Served'
    BY <2>4, <2>5, ActorsNamed, ServedBy
  <2> QED
    BY <1>1, <2>6, <2>7 DEF AgreementInv
<1>4. CASE ServeRequests
  <2>1. /\ server = "starting" /\ server' = "up" /\ op[Boot] = NoOp
        /\ UNCHANGED <<tenant, rows, temporal, op>>
    BY <1>4 DEF ServeRequests
  <2>2. \A a \in Actors : op[a] = NoOp
    BY <2>1 DEF AgreementInv, ServerServes, Actors
  <2>3. AgreesFor(tenant)
    BY <2>1, <2>2 DEF AgreementInv, Served, Alone
  <2>4. AgreesFor(tenant)'
    BY <2>1, <2>3 DEF AgreesFor, InTemporal, Existing
  <2>5. ServerServes' /\ OneAtATime'
    BY <2>1, <2>2, ActorsNamed DEF ServerServes, OneAtATime
  <2>6. \A a \in Actors : Serves(a)'
    <3>1. NoOp.pc = "idle"
      BY DEF NoOp
    <3> QED
      BY <2>1, <2>2, <3>1 DEF Serves, InPush
  <2> QED
    BY <1>1, <2>4, <2>5, <2>6 DEF AgreementInv, Served
<1> QED
  BY <1>2, <1>3, <1>4

LEMMA AgreementStep == TypeOK /\ AgreementInv /\ [Next]_vars => AgreementInv'
<1> SUFFICES ASSUME TypeOK, AgreementInv, [Next]_vars PROVE AgreementInv'
  OBVIOUS
<1>1. ASSUME NEW o \in Operators, RequestStep(o) PROVE AgreementInv'
  BY <1>1, CommitServes, RequestServes DEF RequestStep
<1>2. ASSUME \/ \E p \in Policies, on \in BOOLEAN : SetPolicyEnabled(p, on)
             \/ \E on \in BOOLEAN : SetSourceEnabled(on)
             \/ Tick \/ UNCHANGED vars
             \/ \E i \in Ids : Fire(i) \/ LaunchStep(i) \/ ReplayFails(i) \/ LaunchFails(i)
      PROVE  AgreementInv'
  <2>1. UNCHANGED <<server, tenant, rows, temporal, op, disturbed>>
    BY <1>2 DEF SetPolicyEnabled, SetSourceEnabled, Tick, vars, Fire, LaunchStep, LoadBinding,
                BindingRefused, StartBatch, ReplayFails, LaunchFails
  <2>2. IdsDiffer' /\ ServerServes' /\ OneAtATime'
    BY <2>1 DEF AgreementInv, IdsDiffer, ServerServes, OneAtATime, Existing
  <2>3. Served'
    BY <2>1 DEF AgreementInv, Served, Alone, Serves, InPush, PushesRest, IsPushOf, AgreesFor,
                InTemporal, Existing, StatusAfter
  <2> QED
    BY <2>2, <2>3 DEF AgreementInv
<1> QED
  BY <1>1, <1>2, BeginServes, SyncServes, ServerServesStep DEF Next

LEMMA AgreementInit == Init => AgreementInv
<1> SUFFICES ASSUME Init PROVE AgreementInv
  OBVIOUS
<1>1. Existing = {} /\ \A a \in Actors : op[a] = NoOp
  BY DEF Init, Existing, NoRow
<1>2. NoOp.pc = "idle"
  BY DEF NoOp
<1> QED
  BY <1>1, <1>2, ActorsNamed
  DEF AgreementInv, IdsDiffer, ServerServes, OneAtATime, Served, Serves, InPush, AgreesFor

-----------------------------------------------------------------------------
(* The theorems.                                                           *)

LEMMA InvInit == Init => Inv
BY TypeInit, LaunchInvInit, PolicyInvInit, AgreementInit DEF Inv

LEMMA InvStep == Inv /\ [Next]_vars => Inv'
BY TypeStep, LaunchInvStep, PolicyInvStep, AgreementStep DEF Inv

\* The inductive invariant: what requests, pushes and launchers under way hold
\* of rows, mirrors and policies between any two steps.
THEOREM InvariantHolds == Spec => []Inv
BY InvInit, InvStep, PTL DEF Spec

\* Rows, mirrors, requests and launchers stay typed: a push never runs out of
\* rows before it ends, no matter when the server dies.
THEOREM TypeCorrect == Spec => []TypeOK
<1>1. Inv => TypeOK
  BY DEF Inv
<1> QED
  BY <1>1, InvariantHolds, PTL

\* ReportPolicyScheduleLauncherWorkflow starts one batch per fire at most,
\* although its activity runs again after failures.
THEOREM OneBatchPerFireHolds == Spec => []OneBatchPerFire
<1>1. Inv => OneBatchPerFire
  BY DEF Inv, LaunchInv
<1> QED
  BY <1>1, InvariantHolds, PTL

\* requireReportWorkflowPolicyEnabled is enough: whatever requests overlap,
\* Temporal runs a schedule only for a policy that was enabled at some time.
THEOREM RunnablePolicyEnabled == Spec => []RunnablePolicyWasEnabled
<1>1. Inv => RunnablePolicyWasEnabled
  BY DEF Inv, PolicyInv, MirrorsChecked, Checked, RunnablePolicyWasEnabled
<1> QED
  BY <1>1, InvariantHolds, PTL

\* Sync and the reconciliation at the start bring Temporal to what the rows
\* say, whatever happened before the start.
THEOREM AgreementHolds == Spec => []Agreement
<1>1. Inv => Agreement
  BY DEF Inv, AgreementInv, Served, Alone, AgreesFor, InTemporal, Agreement, Undisturbed
<1> QED
  BY <1>1, InvariantHolds, PTL

==============================================================================
