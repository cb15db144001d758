# OpenClarion: verification project

TLA+ models of OpenClarion's orchestration core, checked with TLC and proved
with TLAPS. Every definition is a translation of the Go source; `PROJECT.json`
maps each one to its lines.

## 1. The system

OpenClarion turns alerts into reports and lets people diagnose them in rooms.
It is one Go binary on Temporal (workflows, activities, updates, schedules) and
PostgreSQL (Ent, one transaction per `UnitOfWorkFactory.WithinTx`).

| Component | Source | State | Operations | What is hard, what makes it correct |
|---|---|---|---|---|
| Diagnosis room workflow | `orchestrator/temporal/diagnosis_room_workflow.go`, `usecases/diagnosisroom/policy.go` | status, turn count, conversation, seen message ids, conclusion digest, approvals, in-flight flags | updates submit-turn, collect-evidence, confirm-conclusion; signals close, cancel; session and idle timers; automatic follow-ups | handlers are coroutines that interleave at every activity; a close must drain them; the conversation must equal what was persisted |
| Room persistence activities | `diagnosis_room_persistence_activity.go` | ChatSession, ChatTurn, ChatSessionApproval, DiagnosisTask, events | EnsureDiagnosisRoom, PersistDiagnosisTurn, RecordDiagnosisConclusionApproval, CloseDiagnosisChatSession, notifications | at-least-once attempts, late commits, unconditional updates |
| Approval quorum | `usecases/diagnosisapproval/conclusion.go` | none (pure) | PendingAuthorities, ConclusionDigest | a confirmed close needs a complete quorum for that conclusion |
| Operator close | `usecases/diagnosisroomclose` | ChatSession, DiagnosisTask | CloseUnavailable | races the workflow's close |
| Room start and client | `diagnosis_room_starter.go`, `diagnosis_room_client.go` | Temporal executions | StartDiagnosisRoom, updates, queries | duplicate starts, execution timeout |
| Report workflows | `report_workflow.go`, `report_task_activity.go`, `activities.go` | DiagnosisTask and events per item, SubReport, FinalReport | ReportBatchWorkflow, ReportFanOutWorkflow, FinalReportWorkflow and their activities | partial fan-in, cancellation, retries and late attempts |
| Report notification | `usecases/reportnotification` | ReportNotificationDelivery | Send, operator retry | one delivery per report although senders overlap |
| Room notifications | `diagnosis_room_persistence_activity.go` (send activities), `usecases/diagnosisnotification` | DiagnosisTaskEvent | three send activities, operator Retry | no claim row: overlapping senders number themselves by the events they count; what is reported as delivered must have been |
| Evidence requests and the confirm guard | `diagnosis_room_workflow.go` | confidence timeline, supplemental evidence, latest requests and collection results | turns, automatic follow-ups, collect-evidence, confirm-conclusion | later turns must not forget earlier gaps; retries replace results under two identities; the guard must see the latest attempt |
| Alert ingest, grouping, replay, evidence | `alertingest`, `alertgrouping`, `alertreplay`, `evidencebuild`, `alertmanagerwebhook` | AlertEvent, AlertGroup, links, EvidenceSnapshot | Ingest, resolve, ReplayPersistedWindowForReport | find-then-insert races, group expansion and refresh, partial failure and redelivery |
| Automatic diagnosis | `alertdiagnosis` | none of its own | Trigger, StartRooms | plan and start in two steps, room cap over all policies |
| Schedules, policies, tenant status | `report_schedule_*.go`, `reportworkflowschedule`, `reportworkflowpolicy`, `reporttrigger`, `reportpolicytrigger`, `transport/http/tenant_admin.go` | policy, schedule and tenant rows, Temporal schedules, launcher workflows | create, replace, enable, disable, sync, reconcile, fire | two stores changed in two steps; crash between them; overlapping writers of whole rows |
| Auth sessions and tickets | `diagnosisauth`, `diagnosis_auth_ticket_store.go` | tickets, sessions | issue, consume, refresh | a ticket is consumed once |
| Streams and relay | `diagnosisstream`, `transport/http/diagnosis_ws*.go` | subscribers | publish, subscribe, cancel | latest snapshot wins, no send on a closed channel |
| Directory and RBAC | `directorysync`, `rbac` | users, roles | full and incremental sync | overlapping syncs, stale users |
| LLM retry | `llmretry`, `llmoutput` | none | GenerateValidated | retry budget |
| The rest | listed in `PROJECT.json` | | | no shared protocol state of their own |

Interaction: HTTP handlers call use cases and the Temporal client; workflows
schedule activities; activities and use cases share the database rows. Nothing
but the database and Temporal's history carries state between processes.

## 2. Plan

Each module is a part of the system with its own rows, and says in its header
which of its neighbour's steps it takes as given.

| Module | Part | Checked | Proved |
|---|---|---|---|
| `DiagnosisRoom` | the room workflow, its activities and transactions | `RoomTurns`, `RoomApprovals`, `RoomLiveness`, `RoomReopened` | type and all safety properties of the passing runs |
| `EvidenceGuard` | what the room remembers of evidence, and the confirm guard | `RoomEvidence` | type, gaps, queries |
| `RoomNotification` | the room's notifications; implements `DeliveryLog` | `RoomNotices` | type and all safety invariants, the refinement |
| `ReportBatch` | fan-out, task lifecycle, partial fan-in, final report | `BatchLifecycle`, `BatchCoverage` | type and all four safety properties |
| `ReportDelivery` | the report's notification row and its senders | `DeliverySenders` | type and all three safety invariants |
| `AlertIntake` | from alerts to groups, snapshots, batches and rooms | `IntakeRequests` | type and all four safety invariants |
| `ReportSchedules` | schedule rows, Temporal schedules, tenant status, launchers | `ScheduleSync`, `ScheduleTenantPause` | type and all three safety invariants |

`AlertIntake` starts the rooms of `DiagnosisRoom` and the batches of
`ReportBatch`, `ReportSchedules` the replays of `AlertIntake`. Each sees the
other only through one idempotent call (a workflow id that stands for the
request), which is why they are checked apart.

Every safety property a passing run checks is also proved, for every value of
the constants. Left are liveness, which TLAPS cannot treat, and the components
without a module (section 11).

## 3. DiagnosisRoom

### State and correspondence

* `status .. approvals` are the fields of `diagnosisRoomState`. A turn is a
  user row and an assistant row written by one transaction, so one element of
  `conversation` and of `rows`, and `seq` counts pairs.
* `main`, `turn`, `approval` are the workflow's coroutines: the main function,
  the update that holds `inFlight` (submit-turn, collect-evidence, the initial
  turn) and the update that holds `approvalInFlight`. Each `pc` value is an
  activity the coroutine awaits; workflow code between two awaits is atomic in
  Temporal and is one action.
* `session`, `task`, `rows`, `savedApprovals`, `closedDigest` are the rows;
  `txs` are open transactions. A transaction is two steps: its reads (`snap`
  and the checks made on them) and its commit, with the unique indexes checked
  at commit. Reads of one transaction collapse into one snapshot.
* An attempt that outlives its timeout leaves its transaction in `txs`; it may
  commit or abort later. Identical transactions of two attempts collapse.
* Isolation is READ COMMITTED, the database's default: `client.Tx` is called
  without options (`unit_of_work.go:96,143`). A commit overwrites a session that
  changed since it was read.
* `ttlElapsed` and `idleElapsed` replace the clock. The workflow may be
  cancelled at any time; the constant `Faults` lets activities fail by themselves
  and the execution timeout strike.

Abstractions: the missing-evidence guard of confirm and the context-size check
are refusals, so they are behaviours in which the action is not taken (the guard
itself is the module `EvidenceGuard`); texts are members of `Texts`; a collected evidence item matters only
through `collected`; a notification channel is configured; close and cancel
carry their default reasons, which name the path taken; an update that arrives
before startup completes waits, so it is modelled as arriving later.

### Runs

| Run | Question | Bounds |
|---|---|---|
| `RoomTurns` | does the transcript stay gap-free and the conversation in step with it; may approvals of a superseded conclusion close the room; does a closed room come to rest? | 2 messages, 2 turns, 2 attempts, 2 open transactions, faults |
| `RoomApprovals` | does a confirmed close rest on a quorum, and does the task end with the session? | owner and two leaders, 2 texts, retried approvals |
| `RoomLiveness` | does the room end, are accepted updates drained, do automatic follow-ups share the turn budget? | fairness, initial turn, 1 follow-up each, a second message, 2 turns, 2 attempts, 1 open transaction, faults |
| `RoomReopened` (violation) | does a closed session stay closed and keep its transcript? | 1 message, no faults |

The bounds are enough because every property is about two turns at most (a
turn and its successor), a retry and the attempt it overlaps (two open
transactions, two attempts), and two approvers beside the owner. The code
retries three times; the third attempt repeats the relation of the second to
the first. A finished room stops, so deadlock is not checked.

Fairness (`Fairness`): workflow tasks, activity attempts, retries and
transactions make progress (Temporal's scheduling, finite timeouts, finite
retries) and the session's lifetime elapses. Nothing is assumed of users,
operators, the idle clock or failures. `RoomTerminates` rests on the TTL check
in `validateSubmit`: without it users could keep the drain busy for ever.

### Observations

Three statements of the repository hold less widely than they read.

* Violated in `RoomReopened`: `internal/domain/chat.go:20-21` calls a closed room
  "terminal and no more turns may be appended". A turn accepted while the close
  activity runs reads the session open; when its `PersistDiagnosisTurn` commits
  after the close, it appends its rows and writes the status back to open
  (`diagnosis_repo.go:570`). No failure or timeout is needed. `SettledRoomIsFinal`
  is what holds: only a transaction begun before the close can do that, and when
  none is left the room's rows never change again.
* `docs/roadmap/tasks.md:564` says that the workflow waits for
  its handlers "before terminal close persistence and notification, so an
  already-accepted `submit-turn` Update cannot be interrupted by a close signal
  or timer". The wait happens once (`diagnosis_room_workflow.go:654`) and
  `validateSubmit` (`:756`) ignores the room's status, so a turn accepted during
  the close activity or the notification is aborted by the return.
  `AcceptedUpdatesAreDrained` is what holds: an update accepted before the loop
  ended is finished by its handler and not by that return.
* A turn may also be accepted while the last approval is recorded. The confirmed
  close then fails, because the approved conclusion is no longer the latest turn
  (`ConfirmedConclusionIsCurrent`), and nothing of what
  `docs/design/phases/05-interactive-diagnosis.md:205-206` says a terminal close
  persists is written.

A turn that commits while the close activity runs comes after the confirmed
conclusion; "current" therefore means the last turn the workflow had applied when
it scheduled the close.

### Proofs

`DiagnosisRoomProofs` proves type correctness with one lemma per group of
variables ("writer lemmas": who may change them and how), which
`DiagnosisRoomRecordProofs` cites.

* Transcript (`TranscriptWellFormed`, `ConversationFollowsTranscript`,
  `OpenSessionCountsTurns`): a turn in flight takes sequence
  `Len(conversation) + 1`, every open persist transaction is for a sequence no
  greater, and the unique indexes then leave `rows` with sequences 1..Len or
  1..Len+1; the snapshot of an open transaction counts one turn less than the
  sequence it writes unless that sequence is already taken.
* Approvals and closes (`ApprovalsBindPersistedTurns`,
  `ConfirmedCloseHasQuorum`, `ClosedSessionFinishesTask`): an approval's
  transaction read the turn it names and rows are never rewritten, the close
  verified the quorum at its begin, approvals are never withdrawn and the
  workflow's lifecycle fields are frozen once it closes.
* Superseded conclusions (`ConfirmedConclusionIsCurrent`): a close carries the
  turn count and digest of the workflow when it was scheduled, its transaction
  verified that the digest is that of the latest row, and the workflow's
  conversation is at most one turn behind the rows. The turn it is closed with
  is thus the last one applied, for two turns with the same text as well.
* Settled rooms (`SettledRoomIsFinal`): every transaction that writes checks the
  session's status when it begins, so none begins on a closed session.

All hold under `RoomAssumption` and `ReasonAssumption`. Only the two liveness
properties are just model-checked.

## 4. ReportDelivery

### State and correspondence

* `row[p]` is the `ReportNotificationDelivery` of purpose `p` (its idempotency
  key is built from the report and the purpose), `fresh[p]` whether its pending
  row is younger than `pendingDeliveryInFlightTTL`.
* A `sender` is one call of `Service.Send`. Its `pc` names the next database
  access or the provider call: `lookup`, `insert`, `relookup` after a duplicate
  key, `send` (the provider is resolved), `calling`, `mark`. Each access is a
  transaction of its own in the code, so each is an action.
* `CallReturns` keeps the provider and the answer apart: the provider may take
  the message and the answer be lost. `Abandon` is a call whose process died.
* `diagnosis` is what `ensureFinalNotificationReady` reads of the events: no
  confirmed conclusion, one, or progress after it.

### Runs and proofs

`DeliverySenders` lets four senders of either purpose overlap: two are needed to
race for the row, a third for the retry of a failed row, a fourth to overlap
with that. There is no clock, so the TTL may elapse at any time while a row is
pending.

`UpdateNotificationDelivery` does not look at the row's status, so a slow sender
may write its failure over a recorded delivery and the next call delivers again:
that it "skips duplicate provider calls once a delivered row exists"
(`docs/design/CURRENT_STATE.md:278`) holds up to that. `ResentOnlyAfterOverwrite` is what
the code does keep: a call that begins after a recorded delivery sends again only
when a failure was written over that delivery (`overwritten`, a history variable);
an earlier failure does not excuse it. For the same reason this module does not implement
`DeliveryLog`, whose record of a delivery is never lost. An attempt retried
within the TTL after a crash is answered "already pending" without an error, so
the activity ends and the row stays pending until an operator retries. Readiness
of a final notification is read before the row is claimed: the model lets the
diagnosis progress between `Begin` and `CallProvider`, and no property forbids it
because the code does not either.

`ReportDeliveryProofs` proves type correctness and the three safety
invariants for any set of senders. `DuplicateNeedsFailureOrExpiry` needs `OneHolder`: while
no failure is recorded and the row is fresh, at most one sender is past the
claim of the row, because `Insert` is the only way to get there and succeeds
once. `DeliveredMeansAccepted` needs that a sender which is to mark a delivery
had its message taken. `ResentOnlyAfterOverwrite` needs `DeliveryStays` (a
recorded delivery leaves the row only when it is overwritten) and
`LateSendersAfterOverwrite` (a sender admitted past a delivery saw that).

## 5. ReportBatch

### State and correspondence

* A `job` is a child workflow: `ReportFanOutWorkflow` for each item, and
  `Final`, the `FinalReportWorkflow`. `pc` is the activity it awaits: `ensure`
  (EnsureReportTask), `generate` (GenerateSubReport), `finish`
  (FinishReportTask), `reduce` (GenerateFinalReport), `notify`
  (SendReportNotification). `AfterActivity`, `AfterFailure` and `AfterCancel`
  are the code between two awaits; `cancelled` is the child's context, which
  `finish` ignores because it has a disconnected one.
* `attempts` are the activity attempts that run, `step` the transaction each
  commits next. An attempt leaves when it returns, fails or is refused; only
  the one the job waits for (`Current`) is heard. An attempt that timed out or
  whose activity was cancelled stays and may commit at any later time.
* `task`, `events`, `subReports`, `report` are the rows. `EnsureInsert` checks
  the unique `(workflow_id, run_id)`, `FinishAccepts` is `DiagnosisTask.Finish`.
* `BatchSettles` is the code of the batch after its children settled: its own
  cancellation, a child's, the threshold, the final child.
* Three kinds of timeout: of an attempt (start-to-close), of an activity
  (schedule-to-close), of an execution. `AttemptTimeouts` and
  `ExecutionTimeouts` say whether they strike in a run.

`ensured` and `abandoned` are history variables for the properties. Drafts,
retrieval and indexing, which end in success or failure, are left out.

### Runs

| Run | Question | Bounds |
|---|---|---|
| `BatchLifecycle` | do retries, late attempts, cancellation and timeouts leave the task and its event in agreement, final and finished, and does the batch end? | 1 item, 2 attempts, all timeouts |
| `BatchCoverage` | does the final report cover what it says? | 3 items, 1 tolerated failure, 1 attempt, no timeouts |

Items share nothing but the threshold, so the lifecycle needs one item and an
overlap of two attempts; coverage needs a success, a tolerated failure and one
more. Fairness: workers take activities, the attempts Temporal waits for make
progress, exhausted activities fail, the batch reacts. Whether an attempt fails,
times out or is cancelled is not assumed; an execution timeout only ends sooner.

Observation: a child cancelled while `EnsureReportTask` is in flight returns
without `FinishReportTask` (`report_workflow.go:202`), and the attempt that
commits afterwards leaves a task that stays `running`, where
`docs/design/CURRENT_STATE.md:96` says that "cancellation does not strand task
state". `EnsuredTaskIsFinished`
is therefore about children that learned of their task, and that no execution
timeout ended: those are left as they are.

### Proofs

`ReportBatchProofs` proves all four safety properties and type correctness for
any number of items, any threshold, any retry budget, with and without
timeouts. It first shows how any step moves jobs and attempts (`StepMoves`) and
rows (`ItemStep`, `RowStep`); the invariants then follow from these three lemmas
without looking at actions again. `ShapeInv` ties attempts to the jobs they were
started for: one of FinishReportTask carries the outcome its child decided on.
`RowInv` adds what each attempt has written and that an ensured child is past
`ensure`; with it `RecordedStays` shows a terminal task and its event never
change. `ReduceInv` adds that the final child is released only when all others
have settled, from when on `Succeeded` is constant, so the report's coverage
stays true. `BatchTerminates` is liveness and only model-checked.

## 6. EvidenceGuard

### State and correspondence

A second, orthogonal view of the room: what it remembers about evidence. The
transcript, the approvals and the transactions are in `DiagnosisRoom`; here a
turn is its admission and its end.

* A *gap* is a `missing_evidence_requests` entry (its label and detail); only
  an operator's turn with supplemental evidence answers it. A *query* is an
  `evidence_requests` entry, executable by the room or by a collect-evidence
  update. `Resolved` gives the identity its result reports, which may be that
  of another query: the code treats both as the request's identity.
* `confidenceTimeline`, `supplemental`, `latestRequests`, `latestResults`,
  `finalConclusion` and `insight` (of the latest turn) are fields of
  `diagnosisRoomState`; `update` is what holds `inFlight`, `approving` is
  `approvalInFlight`. `outcome` is history: how the latest attempt at each
  query ended.
* `MergedMissing`, `Preserved` are `preserveUnresolvedMissingEvidenceRequests`;
  `LatestCycle`, `MergedResults`, `Pending` the functions of the same purpose;
  `Blocked` is `confirmEvidenceBlockReason`, `MayConfirm` the validator with
  the conclusion the approval is recorded for.
* Outputs and collection results are arbitrary: every list of missing gaps, every
  set of queries, every outcome of a collection.

### Run

`RoomEvidence` asks whether a gap or a failed query can be lost on the way to a
confirmation. Two gaps and two queries (one resolving to the other), three
turns: one that raises a gap, one that forgets it, one that concludes; one
automatic follow-up; `MaxMissing` 2 so that the cap on carried gaps is reached.

`GapsAreAnswered` has one exception, `RepeatsOneGap`: an output that fills its
list by repeating one request pushes earlier gaps out, because
`preserveUnresolvedMissingEvidenceRequests` compares the list's length with the
cap before it removes repeats. `MaxMissing` is at least 2 (10 in the code):
with room for one gap an answered one would hide an open one.

Observations: `confirmAllowsReviewedCollectionEvidence` can never accept, since
a result's topic key has no detail and supplemental evidence must have one
(`ReviewedTopic`). A collection is admitted while an approval is recorded
(`:1763`), so a confirmed conclusion may be older than the last collection.

### Proofs

`EvidenceGuardProofs` proves `TypeOK`, `GapsAreAnswered` and
`ConfirmedQueriesWereCollected` for any gaps, queries, limits and numbers of
turns, from `EvidenceAssumption`.

* `OnceWithoutKeeps` says what the fold over a list of gaps computes, for lists
  of any length: `PassExists` constructs the function `FoldLeft` recurses with,
  and both are proved by a least counterexample (`Least`), since the induction
  theorems of the library cannot be used.
* Gaps (`GapInv`): a turn carries at most one answer, and the list of the latest
  turn is full or holds every unanswered gap of the timeline. A full list that
  the guard accepts was answered within one turn, so it repeats one gap.
* Queries (`QueryInv`): the results kept of a query are its latest attempt, and a
  query whose result was replaced is among the requests, where the guard finds it
  pending. `ReplacedWhole` needs that `Resolved` is idempotent: a result reports
  its template, query and limits, with which `resolvePlan` (`collect.go:359`)
  finds the same again. Without it a failed attempt could be hidden by one at a
  query that shares only an identity.

## 7. RoomNotification and DeliveryLog

### State and correspondence

* A *notice* is one call of a send activity (assistant turn, final ready, close:
  one protocol over different rows). A *sender* is an attempt of that activity
  or an operator's `Retry`; `pc` is its next access: `lookup`
  (`findCompletedDiagnosisRoomNotificationEvent`), `sending`, `recording`
  (`appendDiagnosisRoomLifecycleEvent`).
* `events` are the rows of the kind, `number` the component of the dedupe key
  built from the number of events counted. `Listed` is the repository's query
  with its order by `occurred_at` and its limit. `raisedAt` and `clock` give
  `occurred_at`: workflow events carry the time of their turn whatever attempt
  wrote them.
* `Settle` and `TimeoutAttempt` are the Temporal server: a result is heard only
  from the attempt it waits for, others run on. `Send` keeps the provider and
  its answer apart.

`DeliveryLog` is what this promises: a delivery is recorded only after the
provider took the notice, is never lost from the record, and the workflow takes a
notice for delivered only when the record says so. `ImplementsDeliveryLog`
checks it under the mapping `taken`, `recorded`, `reported`. It is not a
matter of the model's shape: a refused insert answers with another sender's
event, whose status is what the workflow sees.

### Run

`RoomNotices`: two notices, two attempts each, one operator, a lookup limit of
3 that four senders can exceed. Two attempts suffice to collide on a dedupe key,
the operator to overlap with both, the second notice to share the lookup's
limit. `AttemptsAreNumbered` and `AttemptsFollowFailures` hold up to that limit,
the first two properties and the refinement beyond it. A
second operator would exceed the time of a run; two that overlap are covered by the
proofs, which hold for any number.

Observation: `Retry` ranks events by `occurred_at` (`retry.go:337`), so a
delivery recorded by a late workflow attempt, dated back to its turn, does not
stop a retry, although the API speaks of the "latest still-failed notification"
(`api/openapi.yaml:4069`).

### Proofs

`RoomNotificationProofs` proves the invariants and the refinement of `DeliveryLog`
for any number of notices, attempts and operators and any lookup limit.

`StepMoves` goes through the actions once and says how any step can move
(`Moves`): a sender advances along its program counter and keeps its notice, the
provider takes one sender's message, a row is appended only by a sender that ends
with it, and a notice becomes `ok` only with a delivery in the rows. It needs that
unscheduled attempts are idle (`Unscheduled`), or a retry could restart a sender
whose message counts. From `Moves` follow `AcceptedWereSent`, `AnswersAreReal` and
`EventsAreReal`. The refinement is one lemma per
variable of `DeliveryLog` (`TakenMoves`, `RecordMoves`, `ReportMoves`). None of this depends
on what a lookup lists, so these results hold beyond its limit.

`AttemptsAreNumbered` and `AttemptsFollowFailures` count the rows a lookup lists.
While it lists every row (`AllListed`), `NumberInv` holds: the numbers of a
notice are 0..n-1, a sender in flight has a number of at most n, and below the
number of an attempt there are only failures. A number that is free when its row
is inserted is therefore the next one (`FreeNumberIsNext`).

## 8. AlertIntake

### State and correspondence

* `events`, `header`, `links`, `snapshots` are the rows. An alert is `<<group
  key, start time>>`; a group is named by its natural key `<<group key,
  first_seen_at>>`; a snapshot's digest is a function of its group and of its
  alerts with their status.
* A request is a webhook (`alertmanagerwebhook.Ingest` with
  `alertdiagnosis.Trigger`) or a replay for a report policy
  (`ReplayAndStartDetailed`: ingest of the provider's active alerts, replay,
  batch, rooms). `pc`: `ingest` (one transaction per alert and resolution),
  `list`, `read` and `write` (the transaction of `processGroup` up to its first
  write, and the rest), `replayed`, `plan`, `start` (one Temporal call per
  room). A webhook replays and plans once per `auto_room` policy.
* Faults: an ingest, a group or the whole request fails, a start is accepted
  and its answer lost; a failed request may be delivered again and starts over.
* `confirmed` and `superseded` are what rooms write of themselves
  (`confirmedDiagnosisFromHistory` reads it).

Left out: CMDB enrichment, severity and the group's status field (they decide
nothing here), webhook authentication and decoding, report drafts.

### Run

`IntakeRequests`: a webhook and a replay that overlap; alerts `<<1,1>>, <<1,2>>,
<<1,3>>, <<2,3>>` (three start times of one key, so that a group expands, and a
second key that shares a start time), the replay's window 2..3 (so that it sees
part of the first group); two end times, so that a resolution may be repeated with another; two policies and
one room, so that the cap is shared;
limit 2, one redelivery, one fault. `EvidenceIsSound`, `HeaderDescribesEvidence`
and `ResolvedEvidenceStaysTrue` are about the races of find-then-insert and
read-then-update; `DiagnosedOnSuccess` is the promise of a 2xx answer.

Observations: a webhook whose alerts are linked to several groups of one key is
refused, as is one with an alert older than its group, and a redelivery meets
the same refusal (`replay.go:720`). A replay delivered again after a half-failed
one gets the batch that already exists under its workflow id, with the snapshots of
the first delivery (`report_starter.go:100`).

### Proofs

`AlertIntakeProofs` proves type correctness and the four safety invariants for
any finite set of alerts, any requests, policies, windows, redeliveries, faults
and limits. Each action has a lemma on how it moves rows and requests, and one
per part of the invariant:

* `EvidenceInv`: evidence read at any time is `Honest` (of stored alerts, and
  right about those it calls resolved), and stays so because rows only grow
  (`Grows`). `DraftSound` is what survives between the reads of `processGroup`
  and its first write, whatever other requests commit.
* `FollowInv`: each alert of a request is followed from the payload through the
  list, the drafts and the snapshots to a room that is started, planned, skipped
  for the cap or no longer needed (`AlertsFollowed`, `Diagnosed`).

## 9. ReportSchedules

### State and correspondence

* `rows` are the schedule rows, `temporal` the Temporal schedules, `launch` the
  launcher workflow of each, `batches` the report batches with the window they
  were started for. `tenant`, `policyOn`, `source` are the other rows read.
* `op` is a request in flight: `tx` (validated, its transaction commits next),
  `push` and `update` (the two calls of `Sync`, create then update), `list` and
  `status` (`UpdateTenantStatus` and `syncTenantScheduleState`). `Boot` is the
  start of the server, which reconciles every row before it serves requests.
* `UpdateReportWorkflowSchedule` writes every column, so overlapping requests
  overwrite each other's (`RowWritten`).
* `disturbed` is history: requests overlapped or a call failed since the start.
* `everOn` is history: policies ever enabled.

### Runs

`ScheduleSync`: two schedules, ids, policies and operators, five changes, two
faults, two fires, a clock of one step. Two of each are needed for a swap of
ids and for overlapping writers; five changes reach create, enable policy,
enable, replace and a tenant change. `Agreement` is what the two-store design
promises: once the server has started and requests came one after the other, Temporal
runs the rows.

`ScheduleTenantPause` expects a violation: the comment in `tenant_admin.go:113-114` says a disabled tenant never
retains runnable schedules. An enablement admitted while the tenant was active
pushes its schedule after the pause was pushed and the status written; the
schedule stays runnable until the next start. When requests come one after the
other and none fails, the schedules under the ids the rows name keep the promise
(`Agreement`).

Observations: overlapping requests may push in the other order, and a `Replace`
undoes a `Disable` committed after its read; `Agreement` then speaks of the repair
at the next start only. An enable of a tenant whose push fails leaves the tenant active
with paused schedules, and the same request again answers at once without a
push, so only a restart repairs it. A replacement with a new
Temporal id, of a serial request too, leaves the schedule under the old id as it
was, also when the tenant is disabled later; `Agreement` is about the ids the
rows name. The replay window is computed from the
launcher's start, where `api/openapi.yaml` calls it "the scheduled fire time".

### Proofs

`ReportSchedulesProofs` proves type correctness, `OneBatchPerFire`,
`RunnablePolicyWasEnabled` and `Agreement` for any schedules, policies, operators
and bounds. `LaunchInv`: fires of one schedule differ and a running launcher keeps
its window. `PolicyInv`: what is stored, pushed or about to be pushed as runnable
names a policy that was enabled. `AgreementInv`: while nothing is disturbed at
most one actor acts, and whatever Temporal lacks of the rows is in the pushes it
still has to make (`PushesRest`); ids differ, so a push never undoes another's.

## 10. Fairness, deadlock and bounds of the newer runs

`RoomEvidence`, `RoomNotices`, `IntakeRequests` and the schedule runs assume no
fairness: what must eventually happen there depends on operators or on
Alertmanager sending again. `CHECK_DEADLOCK FALSE` everywhere, because a bounded
set of requests, notices or turns ends. Every bound is a CONSTANT in the guards.

## 11. Not modelled

* Auth sessions and tickets: consuming a ticket is one conditional update, so
  there is no interleaving to check.
* Stream hub and WebSocket relay: in-process, one mutex, a latest-value slot.
* Directory synchronisation and RBAC: the provider is paged into memory and one
  transaction upserts users and deactivates those not refreshed since the
  synchronisation began. Two that overlap may commit in the other order, so a
  user the later one deactivated is active again until the next full one; this
  is the only protocol there.
* LLM retry and output validation: a bounded loop around a provider.
* HTTP handlers beyond the ones above, providers, egress proxy, wiring (except
  the reconciliation at start), observability, web console, scripts: no protocol
  state. Generated Ent and API code is most of the repository's lines.
* The branches of the workflows that exist for the replay of old histories.
* Within modelled parts: message texts and formatting, context compression,
  retrieval and indexing, diagnosis tool templates.

Only model-checked: liveness (`RoomTerminates`,
`AcceptedUpdatesAreDrained`, `BatchTerminates`), which is out of the prover's reach.
