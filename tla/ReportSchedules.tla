--------------------------- MODULE ReportSchedules ---------------------------
(***************************************************************************)
(* Scheduled reports of one tenant: the schedule rows of PostgreSQL, the   *)
(* Temporal schedules that mirror them, and the launcher workflows these   *)
(* start.                                                                  *)
(*                                                                         *)
(* A change of a row is a transaction, and its push to Temporal follows    *)
(* outside of it, in one or two calls.  Changing the tenant's status pushes*)
(* every row, before the status is written or after.  The server pushes    *)
(* every row again when it starts, before it serves requests.              *)
(***************************************************************************)
EXTENDS Naturals, Sequences, FiniteSets, SequencesExt

CONSTANTS Schedules,   \* names of schedules
          Ids,         \* Temporal schedule ids
          Policies,    \* report workflow policies
          Operators,   \* requests in flight
          Boot,        \* the start of the server, as a pusher of rows
          MaxChanges,  \* requests in all
          MaxFaults,   \* crashes and failed calls of Temporal, in all
          MaxFires,    \* launcher workflows in all
          MaxTime      \* the clock

\* So that a listing is a sequence of rows.
ASSUME SchedulesAssumption == IsFiniteSet(Schedules)

ASSUME BootAssumption == Boot \notin Operators

ASSUME BoundsAssumption == {MaxChanges, MaxFaults, MaxFires, MaxTime} \subseteq Nat

Actors == Operators \cup {Boot}

NoRow == [exists |-> FALSE]
Row(id, policy, on) == [exists |-> TRUE, id |-> id, policy |-> policy, on |-> on]
Rows == {Row(i, p, on) : i \in Ids, p \in Policies, on \in BOOLEAN}

\* What a Temporal schedule says; its interval and windows are left out.
NoMirror == [exists |-> FALSE]
Mirror(s, policy, paused) == [exists |-> TRUE, schedule |-> s, policy |-> policy,
                              paused |-> paused]
Mirrors == {Mirror(s, p, paused) : s \in Schedules, p \in Policies, paused \in BOOLEAN}
Pushes == {[id |-> i, mirror |-> m] : i \in Ids, m \in Mirrors}

NoLaunch == [pc |-> "none"]
Launches == [pc : {"started", "bound"}, fire : 1 .. MaxFires, schedule : Schedules,
             policy : Policies, at : 0 .. MaxTime]

VARIABLES
  server,     \* "down", "starting" or "up"
  tenant,     \* "active" or "disabled"
  source,     \* whether the alert source of the policies is enabled
  policyOn,   \* policy -> enabled
  everOn,     \* the policies that were ever enabled
  rows,       \* schedule -> its row
  temporal,   \* id -> the Temporal schedule
  op,         \* actor -> its request
  launch,     \* id -> the launcher workflow of its last action
  batches,    \* report batches: the fire they stem from, and their window's end
  disturbed,  \* requests overlapped or a call failed since the server started
  now, fires, changes, faults

runtime == <<launch, batches, now, fires>>
policy == <<source, policyOn, everOn>>
vars == <<server, tenant, policy, rows, temporal, op, runtime, disturbed, changes, faults>>

Kinds == {"create", "replace", "enable"}

NoOp == [pc |-> "idle"]
Tx(kind, s, row) == [pc |-> "tx", kind |-> kind, schedule |-> s, row |-> row]
Push(pushes, then) == [pc |-> "push", pushes |-> pushes, then |-> then]

Ops == {NoOp}
       \cup {Tx(kind, s, row) : kind \in Kinds, s \in Schedules, row \in Rows}
       \cup [pc : {"list", "status"}, status : {"active", "disabled"}]
       \cup [pc : {"push", "update"}, pushes : Seq(Pushes) \ {<< >>}, then : {"end", "disabled"}]

TypeOK ==
  /\ server \in {"down", "starting", "up"}
  /\ tenant \in {"active", "disabled"}
  /\ source \in BOOLEAN
  /\ policyOn \in [Policies -> BOOLEAN]
  /\ everOn \subseteq Policies
  /\ rows \in [Schedules -> Rows \cup {NoRow}]
  /\ temporal \in [Ids -> Mirrors \cup {NoMirror}]
  /\ op \in [Actors -> Ops]
  /\ launch \in [Ids -> Launches \cup {NoLaunch}]
  /\ batches \subseteq [fire : 1 .. MaxFires, end : 0 .. MaxTime]
  /\ disturbed \in BOOLEAN
  /\ now \in 0 .. MaxTime /\ fires \in 0 .. MaxFires
  /\ changes \in 0 .. MaxChanges /\ faults \in 0 .. MaxFaults

Init ==
  /\ server = "up" /\ tenant = "active" /\ source = TRUE
  /\ policyOn = [p \in Policies |-> FALSE]
  /\ everOn = {}
  /\ rows = [s \in Schedules |-> NoRow]
  /\ temporal = [i \in Ids |-> NoMirror]
  /\ op = [a \in Actors |-> NoOp]
  /\ launch = [i \in Ids |-> NoLaunch]
  /\ batches = {} /\ disturbed = FALSE
  /\ now = 0 /\ fires = 0 /\ changes = 0 /\ faults = 0

-----------------------------------------------------------------------------
(***************************************************************************)
(* Requests that change a schedule.                                        *)
(***************************************************************************)

\* A request that begins while another is in flight overlaps with it.
Begin(o, request) ==
  /\ server = "up"
  /\ op[o] = NoOp
  /\ changes < MaxChanges /\ changes' = changes + 1
  /\ op' = [op EXCEPT ![o] = request]
  /\ disturbed' = (disturbed \/ \E a \in Actors \ {o} : op[a] # NoOp)

\* The requests of a tenant that is disabled are refused (ResolveAccess).
BeginChange(o, kind, s, row) ==
  /\ tenant = "active"
  /\ Begin(o, Tx(kind, s, row))
  /\ UNCHANGED <<server, tenant, policy, rows, temporal, runtime, faults>>

Create(o, s, i, p) == ~rows[s].exists /\ BeginChange(o, "create", s, Row(i, p, FALSE))

\* Replace keeps the enablement it reads; an enabled schedule needs an
\* enabled policy.
Replace(o, s, i, p) ==
  /\ rows[s].exists
  /\ rows[s].on => policyOn[p]
  /\ BeginChange(o, "replace", s, Row(i, p, rows[s].on))

\* setEnabled.
SetEnabled(o, s, on) ==
  /\ rows[s].exists
  /\ on => policyOn[rows[s].policy]
  /\ BeginChange(o, "enable", s, Row(rows[s].id, rows[s].policy, on))

\* Names and Temporal schedule ids are unique.
Accepted(kind, s, row) ==
  /\ kind = "create" => ~rows[s].exists
  /\ \A t \in Schedules \ {s} : rows[t].exists => rows[t].id # row.id

\* Mutant: an enablement writes its own columns only.
RowWrittenInPart(kind, s, row) ==
  IF kind = "enable" THEN [rows[s] EXCEPT !.on = row.on] ELSE row

\* UpdateReportWorkflowSchedule writes every column, unconditionally.
RowWritten(kind, s, row) == row

Paused(row, status) == ~row.on \/ status # "active"

\* What Sync makes of a row.
PushOf(s, row, status) == [id |-> row.id, mirror |-> Mirror(s, row.policy, Paused(row, status))]

\* The transaction commits; the row goes to Temporal as it was saved.
Commit(o) ==
  LET s == op[o].schedule
      row == RowWritten(op[o].kind, s, op[o].row)
  IN /\ op[o].pc = "tx"
     /\ Accepted(op[o].kind, s, op[o].row)
     /\ rows' = [rows EXCEPT ![s] = row]
     /\ op' = [op EXCEPT ![o] = Push(<<PushOf(s, row, "active")>>, "end")]
     /\ UNCHANGED <<server, tenant, policy, temporal, runtime, disturbed, changes, faults>>

Refuse(o) ==
  /\ op[o].pc = "tx"
  /\ ~Accepted(op[o].kind, op[o].schedule, op[o].row)
  /\ op' = [op EXCEPT ![o] = NoOp]
  /\ UNCHANGED <<server, tenant, policy, rows, temporal, runtime, disturbed, changes, faults>>

-----------------------------------------------------------------------------
(***************************************************************************)
(* Sync: create the Temporal schedule, or update the one there is.         *)
(***************************************************************************)

\* Mutant: the loop does not look whether a row is left.
AfterPushesUnchecked(pushes, then) == Push(pushes, then)

\* What an actor does after its pushes: a tenant is disabled after them.
AfterPushes(pushes, then) ==
  IF pushes # << >> THEN Push(pushes, then)
  ELSE IF then = "disabled" THEN [pc |-> "status", status |-> "disabled"] ELSE NoOp

Pushed(o) ==
  /\ temporal' = [temporal EXCEPT ![Head(op[o].pushes).id] = Head(op[o].pushes).mirror]
  /\ op' = [op EXCEPT ![o] = AfterPushes(Tail(op[o].pushes), op[o].then)]

SyncCreates(o) ==
  /\ op[o].pc = "push"
  /\ ~temporal[Head(op[o].pushes).id].exists
  /\ Pushed(o)
  /\ UNCHANGED <<server, tenant, policy, rows, runtime, disturbed, changes, faults>>

SyncFindsExisting(o) ==
  /\ op[o].pc = "push"
  /\ temporal[Head(op[o].pushes).id].exists
  /\ op' = [op EXCEPT ![o].pc = "update"]
  /\ UNCHANGED <<server, tenant, policy, rows, temporal, runtime, disturbed, changes, faults>>

SyncUpdates(o) ==
  /\ op[o].pc = "update"
  /\ Pushed(o)
  /\ UNCHANGED <<server, tenant, policy, rows, runtime, disturbed, changes, faults>>

\* A call fails: the request ends with what it has done, the server does not
\* start.
SyncFails(o) ==
  /\ op[o].pc \in {"push", "update"}
  /\ faults < MaxFaults /\ faults' = faults + 1
  /\ op' = [op EXCEPT ![o] = NoOp]
  /\ disturbed' = TRUE
  /\ server' = IF o = Boot THEN "down" ELSE server
  /\ UNCHANGED <<tenant, policy, rows, temporal, runtime, changes>>

-----------------------------------------------------------------------------
(***************************************************************************)
(* The tenant's status.                                                    *)
(***************************************************************************)

\* UpdateTenantStatus: schedules are paused before the tenant is disabled, and
\* resumed after it is active; no change answers at once.
UpdateTenantStatus(o, status) ==
  /\ tenant # status
  /\ Begin(o, [pc |-> IF status = "disabled" THEN "list" ELSE "status", status |-> status])
  /\ UNCHANGED <<server, tenant, policy, rows, temporal, runtime, faults>>

Existing == {s \in Schedules : rows[s].exists}

\* Every row, in some order, as it is pushed for a status of the tenant.
PushesOfAll(status) ==
  {[i \in DOMAIN q |-> PushOf(q[i], rows[q[i]], status)] : q \in SetToSeqs(Existing)}

\* syncTenantScheduleState lists the rows.
ListForTenant(o) ==
  /\ op[o].pc = "list"
  /\ \E q \in PushesOfAll(op[o].status) :
       op' = [op EXCEPT ![o] =
         AfterPushes(q, IF op[o].status = "disabled" THEN "disabled" ELSE "end")]
  /\ UNCHANGED <<server, tenant, policy, rows, temporal, runtime, disturbed, changes, faults>>

WriteStatus(o) ==
  /\ op[o].pc = "status"
  /\ tenant' = op[o].status
  /\ op' = [op EXCEPT ![o] = IF op[o].status = "active" THEN [@ EXCEPT !.pc = "list"] ELSE NoOp]
  /\ UNCHANGED <<server, policy, rows, temporal, runtime, disturbed, changes, faults>>

-----------------------------------------------------------------------------
(***************************************************************************)
(* The server.                                                             *)
(***************************************************************************)

\* Requests end half way; an activity in progress is tried again later.
Crash ==
  /\ server # "down"
  /\ faults < MaxFaults /\ faults' = faults + 1
  /\ server' = "down"
  /\ op' = [a \in Actors |-> NoOp]
  /\ launch' = [i \in Ids |-> IF launch[i].pc = "bound" THEN [launch[i] EXCEPT !.pc = "started"]
                              ELSE launch[i]]
  /\ disturbed' = TRUE
  /\ UNCHANGED <<tenant, policy, rows, temporal, batches, now, fires, changes>>

\* Mutant: the schedules of a disabled tenant are started like any other.
ReconciledAsStatusActive == "active"

\* The status the rows are reconciled for.
ReconciledAsStatus == tenant

\* The worker starts, then every row is reconciled.
StartServer ==
  /\ server = "down"
  /\ server' = "starting"
  /\ \E q \in PushesOfAll(ReconciledAsStatus) : op' = [op EXCEPT ![Boot] = AfterPushes(q, "end")]
  /\ UNCHANGED <<tenant, policy, rows, temporal, runtime, disturbed, changes, faults>>

ServeRequests ==
  /\ server = "starting" /\ op[Boot] = NoOp
  /\ server' = "up"
  /\ disturbed' = FALSE
  /\ UNCHANGED <<tenant, policy, rows, temporal, op, runtime, changes, faults>>

-----------------------------------------------------------------------------
(***************************************************************************)
(* Policies and what they are bound to (each change one transaction).      *)
(***************************************************************************)

SetPolicyEnabled(p, on) ==
  /\ server = "up" /\ tenant = "active" /\ changes < MaxChanges
  /\ policyOn[p] # on
  /\ on => source
  /\ policyOn' = [policyOn EXCEPT ![p] = on]
  /\ everOn' = IF on THEN everOn \cup {p} ELSE everOn
  /\ changes' = changes + 1
  /\ UNCHANGED <<server, tenant, source, rows, temporal, op, runtime, disturbed, faults>>

\* Disabling a source asks neither policies nor schedules.
SetSourceEnabled(on) ==
  /\ server = "up" /\ tenant = "active" /\ changes < MaxChanges
  /\ source # on /\ source' = on
  /\ changes' = changes + 1
  /\ UNCHANGED <<server, tenant, policyOn, everOn, rows, temporal, op, runtime, disturbed, faults>>

-----------------------------------------------------------------------------
(***************************************************************************)
(* ReportPolicyScheduleLauncherWorkflow.                                   *)
(***************************************************************************)

\* Time passes; only a launcher in progress looks at the clock.
Tick == /\ now < MaxTime /\ now' = now + 1
        /\ \E i \in Ids : launch[i] # NoLaunch
        /\ UNCHANGED <<server, tenant, policy, rows, temporal, op, launch, batches, disturbed,
                       fires, changes, faults>>

\* A Temporal schedule that is not paused starts a launcher, unless its last
\* one still runs (overlap policy SKIP).
Fire(i) ==
  LET m == temporal[i] IN
  /\ m.exists /\ ~m.paused
  /\ launch[i] = NoLaunch
  /\ fires < MaxFires /\ fires' = fires + 1
  /\ launch' = [launch EXCEPT ![i] = [pc |-> "started", fire |-> fires + 1,
                                      schedule |-> m.schedule, policy |-> m.policy, at |-> now]]
  /\ UNCHANGED <<server, tenant, policy, rows, temporal, op, batches, disturbed, now, changes, faults>>

\* Workers run from the start of the server on.
WorkerRuns == server # "down"

EndLaunch(i) == launch' = [launch EXCEPT ![i] = NoLaunch]

\* loadBinding: the policy and its source are enabled.
LoadBinding(i) ==
  /\ WorkerRuns
  /\ launch[i].pc = "started"
  /\ policyOn[launch[i].policy] /\ source
  /\ launch' = [launch EXCEPT ![i].pc = "bound"]
  /\ UNCHANGED <<server, tenant, policy, rows, temporal, op, batches, disturbed, now, fires,
                 changes, faults>>

\* They are not: the activity fails without a retry, and the launcher with it.
BindingRefused(i) ==
  /\ WorkerRuns
  /\ launch[i].pc = "started"
  /\ ~(policyOn[launch[i].policy] /\ source)
  /\ EndLaunch(i)
  /\ UNCHANGED <<server, tenant, policy, rows, temporal, op, batches, disturbed, now, fires,
                 changes, faults>>

\* Mutant: the window ends when the activity runs.
WindowEndNow(i) == now

\* The window is computed from the start of the launcher.
WindowEnd(i) == launch[i].at

\* The workflow id of a batch stands for the window, so one that was started
\* already is found.
BatchStarted(i) == batches' = batches \cup {[fire |-> launch[i].fire, end |-> WindowEnd(i)]}

\* The window is replayed and its batch started, or none when the replay
\* finds no snapshot.
StartBatch(i) ==
  /\ WorkerRuns
  /\ launch[i].pc = "bound"
  /\ BatchStarted(i) \/ UNCHANGED batches
  /\ EndLaunch(i)
  /\ UNCHANGED <<server, tenant, policy, rows, temporal, op, disturbed, now, fires, changes, faults>>

\* The activity fails, before the batch is started or after: it is tried again.
ReplayFails(i) ==
  /\ WorkerRuns
  /\ launch[i].pc = "bound"
  /\ faults < MaxFaults /\ faults' = faults + 1
  /\ BatchStarted(i) \/ UNCHANGED batches
  /\ launch' = [launch EXCEPT ![i].pc = "started"]
  /\ UNCHANGED <<server, tenant, policy, rows, temporal, op, disturbed, now, fires, changes>>

\* The retries of the activity or the execution timeout end the launcher.
LaunchFails(i) ==
  /\ launch[i] # NoLaunch
  /\ faults < MaxFaults /\ faults' = faults + 1
  /\ EndLaunch(i)
  /\ UNCHANGED <<server, tenant, policy, rows, temporal, op, batches, disturbed, now, fires, changes>>

-----------------------------------------------------------------------------
ChangeBegins(o) ==
  \/ \E s \in Schedules, i \in Ids, p \in Policies : Create(o, s, i, p) \/ Replace(o, s, i, p)
  \/ \E s \in Schedules, on \in BOOLEAN : SetEnabled(o, s, on)
  \/ \E status \in {"active", "disabled"} : UpdateTenantStatus(o, status)

Sync(a) == SyncCreates(a) \/ SyncFindsExisting(a) \/ SyncUpdates(a)

RequestStep(o) == Commit(o) \/ Refuse(o) \/ ListForTenant(o) \/ WriteStatus(o)

LaunchStep(i) == LoadBinding(i) \/ BindingRefused(i) \/ StartBatch(i)

Next ==
  \/ \E o \in Operators : ChangeBegins(o) \/ RequestStep(o)
  \/ \E a \in Actors : Sync(a) \/ SyncFails(a)
  \/ Crash \/ StartServer \/ ServeRequests
  \/ \E p \in Policies, on \in BOOLEAN : SetPolicyEnabled(p, on)
  \/ \E on \in BOOLEAN : SetSourceEnabled(on)
  \/ Tick
  \/ \E i \in Ids : Fire(i) \/ LaunchStep(i) \/ ReplayFails(i) \/ LaunchFails(i)

Spec == Init /\ [][Next]_vars

-----------------------------------------------------------------------------
(***************************************************************************)
(* Properties.                                                             *)
(***************************************************************************)

\* Since the server started, requests were served one after the other and
\* no call failed; none is in flight.
Undisturbed == /\ server = "up" /\ ~disturbed
               /\ \A a \in Actors : op[a] = NoOp

\* Then Temporal runs every row as it is stored: under its id, for its policy,
\* and paused exactly if the row is disabled or the tenant is (Sync, the
\* reconciliation of the start, syncTenantScheduleState); whatever requests,
\* failures and crashes there were before the start.
Agreement ==
  Undisturbed => \A s \in Existing :
    temporal[rows[s].id] = Mirror(s, rows[s].policy, Paused(rows[s], tenant))

\* Temporal only ever runs a schedule for a policy that was enabled at some
\* time, although replacements and enablements of a row overlap: each writes
\* the policy it has checked (requireReportWorkflowPolicyEnabled).
RunnablePolicyWasEnabled ==
  \A i \in Ids : temporal[i].exists /\ ~temporal[i].paused => temporal[i].policy \in everOn

\* A fire of a schedule starts one report batch at most, although its activity
\* may run again after the batch was started: every run computes the window,
\* and with it the workflow id, from the start of the launcher.
OneBatchPerFire == \A b, c \in batches : b.fire = c.fire => b = c

\* A disabled tenant retains no runnable schedule (UpdateTenantStatus).
DisabledTenantRunsNothing ==
  tenant = "disabled" => \A i \in Ids : temporal[i].exists => temporal[i].paused

=============================================================================
