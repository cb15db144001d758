----------------------------- MODULE ReportBatch -----------------------------
(***************************************************************************)
(* ReportBatchWorkflow with its child workflows: one ReportFanOutWorkflow  *)
(* per item and, when they have settled, one FinalReportWorkflow; their    *)
(* activities and the rows these write.                                    *)
(*                                                                         *)
(* A job is a child workflow.  It awaits one activity at a time; Temporal  *)
(* attempts an activity up to MaximumAttempts times and delivers the       *)
(* result of the last attempt only.  An attempt that timed out or whose    *)
(* activity was cancelled runs on and may still commit.  Each step of an   *)
(* attempt is one transaction.                                             *)
(***************************************************************************)
EXTENDS Naturals, FiniteSets

CONSTANTS
    Items,              \* the batch's items: snapshot, scenario and group index
    Final,              \* the FinalReportWorkflow
    MaxFailedSubReports,
    MaximumAttempts,
    AttemptTimeouts,    \* do attempts time out while they run?
    ExecutionTimeouts   \* do workflow execution timeouts strike?

Jobs == Items \cup {Final}

ASSUME BatchAssumption ==
    /\ IsFiniteSet(Items) /\ Items # {} /\ Final \notin Items
    /\ MaxFailedSubReports \in Nat
    /\ MaximumAttempts \in Nat \ {0}
    /\ AttemptTimeouts \in BOOLEAN /\ ExecutionTimeouts \in BOOLEAN

VARIABLES
    batch,          \* where the batch workflow is, or how it ended
    batchCancelled, \* has the batch's context been cancelled?
    job,            \* the child workflows
    cancelled,      \* children whose context has been cancelled
    attempts,       \* activity attempts that run
    task,           \* status of each item's DiagnosisTask
    events,         \* terminal lifecycle events of each task
    subReports,     \* items whose SubReport exists
    report,         \* the FinalReport
    ensured,        \* history: items whose EnsureReportTask returned
    abandoned       \* history: items whose FinishReportTask failed for good or
                    \* whose execution ran out of time

workflows == <<batch, batchCancelled, job, cancelled>>
rows == <<task, events, subReports, report>>
vars == <<workflows, attempts, rows, ensured, abandoned>>

Terminal == {"succeeded", "failed", "cancelled"}
TaskActivities == {"ensure", "generate", "finish"}
FinalActivities == {"reduce", "notify"}
Activities == TaskActivities \cup FinalActivities
FirstStep(activity) ==
    CASE activity = "ensure" -> "lookup"
      [] activity = "generate" -> "save"
      [] activity = "finish" -> "write"
      [] activity = "reduce" -> "save"
      [] activity = "notify" -> "done"

Job == [pc : {"waiting", "ended"} \cup Activities,
        tries : 0..MaximumAttempts, running : BOOLEAN,
        outcome : Terminal \cup {"none"}, result : Terminal \cup {"none"}]
Attempt == [job : Jobs, activity : Activities, try : 1..MaximumAttempts,
            step : {"lookup", "insert", "save", "write", "event", "done"},
            status : Terminal \cup {"none"}]
NoReport == [linked |-> {}, failed |-> 0]

TypeOK ==
    /\ batch \in {"settling", "reducing"} \cup Terminal
    /\ batchCancelled \in BOOLEAN
    /\ job \in [Jobs -> Job]
    /\ cancelled \subseteq Jobs
    /\ attempts \subseteq Attempt
    /\ task \in [Items -> {"none", "running"} \cup Terminal]
    /\ events \in [Items -> SUBSET Terminal]
    /\ subReports \subseteq Items
    /\ report \in [linked : SUBSET Items, failed : Nat]
    /\ ensured \subseteq Items
    /\ abandoned \subseteq Items

\* A SubReport of an earlier batch over the same snapshot may exist.
Init ==
    /\ batch = "settling"
    /\ batchCancelled = FALSE
    /\ job = [j \in Jobs |->
                [pc |-> IF j = Final THEN "waiting" ELSE "ensure", tries |-> 0,
                 running |-> FALSE, outcome |-> "none", result |-> "none"]]
    /\ cancelled = {}
    /\ attempts = {}
    /\ task = [i \in Items |-> "none"]
    /\ events = [i \in Items |-> {}]
    /\ subReports \in SUBSET Items
    /\ report = NoReport
    /\ ensured = {}
    /\ abandoned = {}

-----------------------------------------------------------------------------
(* Child workflows                                                          *)

Await(j, activity) ==
    [job[j] EXCEPT !.pc = activity, !.tries = 0, !.running = FALSE]
AwaitFinish(j, outcome) ==
    [job[j] EXCEPT !.pc = "finish", !.tries = 0, !.running = FALSE,
                   !.outcome = outcome]
EndJob(j, result) ==
    [job[j] EXCEPT !.pc = "ended", !.running = FALSE, !.result = result]

\* What a fan-out child returns once its task is finished: its context's error
\* comes before the outcome of the generation.
ResultOf(j) == IF j \in cancelled THEN "cancelled" ELSE job[j].outcome

\* The job after its activity returned.
AfterActivity(j) ==
    CASE job[j].pc = "ensure" -> Await(j, "generate")
      [] job[j].pc = "generate" -> AwaitFinish(j, "succeeded")
      [] job[j].pc = "finish" -> EndJob(j, ResultOf(j))
      [] job[j].pc = "reduce" -> Await(j, "notify")
      [] job[j].pc = "notify" -> EndJob(j, "succeeded")

\* The job after its activity failed for good.  A finish that fails after a
\* cancelled generation wraps the cancellation, which Temporal looks for.
AfterFailure(j) ==
    CASE job[j].pc = "generate" -> AwaitFinish(j, "failed")
      [] job[j].pc = "finish" /\ job[j].outcome = "cancelled" -> EndJob(j, "cancelled")
      [] OTHER -> EndJob(j, "failed")

\* The job when its context is cancelled: an activity on that context returns
\* at once, FinishReportTask has a disconnected one.
AfterCancelConnected(j) ==
    CASE job[j].pc = "generate" -> AwaitFinish(j, "cancelled")
      [] OTHER -> EndJob(j, "cancelled")
AfterCancel(j) ==
    CASE job[j].pc = "generate" -> AwaitFinish(j, "cancelled")
      [] job[j].pc = "finish" -> job[j]
      [] OTHER -> EndJob(j, "cancelled")

\* A context is cancelled with the batch's, or alone by an operator.
CancelJob(j) ==
    /\ job[j].pc \notin {"waiting", "ended"}
    /\ j \notin cancelled
    /\ cancelled' = cancelled \cup {j}
    /\ job' = [job EXCEPT ![j] = AfterCancel(j)]
    /\ UNCHANGED <<batch, batchCancelled, attempts, rows, ensured, abandoned>>

-----------------------------------------------------------------------------
(* Activity attempts                                                        *)

Current(a) ==
    /\ job[a.job].pc = a.activity
    /\ job[a.job].running
    /\ job[a.job].tries = a.try

MayAttemptForever(j) == TRUE
MayAttempt(j) == job[j].tries < MaximumAttempts

StartAttempt(j) ==
    /\ job[j].pc \in Activities
    /\ ~job[j].running
    /\ MayAttempt(j)
    /\ job' = [job EXCEPT ![j].tries = @ + 1, ![j].running = TRUE]
    /\ attempts' = attempts \cup
          {[job |-> j, activity |-> job[j].pc, try |-> job[j].tries + 1,
            step |-> FirstStep(job[j].pc), status |-> job[j].outcome]}
    /\ UNCHANGED <<batch, batchCancelled, cancelled, rows, ensured, abandoned>>

AttemptTimesOut(j) ==
    /\ AttemptTimeouts
    /\ job[j].running
    /\ job' = [job EXCEPT ![j].running = FALSE]
    /\ UNCHANGED <<batch, batchCancelled, cancelled, attempts, rows, ensured, abandoned>>

\* An attempt returns an error that is retried: a provider, the model or the
\* database failed.
AttemptFails(a) ==
    /\ attempts' = attempts \ {a}
    /\ job' = [job EXCEPT ![a.job].running = @ /\ ~Current(a)]
    /\ UNCHANGED <<batch, batchCancelled, cancelled, rows, ensured, abandoned>>

AttemptsExhaustedOffByOne(j) == job[j].tries > MaximumAttempts
AttemptsExhausted(j) == job[j].tries = MaximumAttempts

FailJob(j) ==
    /\ job' = [job EXCEPT ![j] = AfterFailure(j)]
    /\ abandoned' = IF job[j].pc = "finish" THEN abandoned \cup {j} ELSE abandoned

ActivityFails(j) ==
    /\ job[j].pc \in Activities
    /\ ~job[j].running
    /\ AttemptsExhausted(j)
    /\ FailJob(j)
    /\ UNCHANGED <<batch, batchCancelled, cancelled, attempts, rows, ensured>>

\* The schedule-to-close timeout, which runs while no worker takes the activity.
ActivityTimesOut(j) ==
    /\ AttemptTimeouts
    /\ job[j].pc \in Activities
    /\ FailJob(j)
    /\ UNCHANGED <<batch, batchCancelled, cancelled, attempts, rows, ensured>>

\* An attempt returns an error that is not retried: its input is invalid or an
\* invariant is violated, a terminal task refused among them.
AttemptRefused(a) ==
    /\ attempts' = attempts \ {a}
    /\ IF Current(a) THEN FailJob(a.job) ELSE UNCHANGED <<job, abandoned>>
    /\ UNCHANGED <<batch, batchCancelled, cancelled, rows, ensured>>

\* The result of an attempt reaches the workflow, unless Temporal has given the
\* attempt up.
AttemptReturns(a) ==
    /\ a.step = "done"
    /\ attempts' = attempts \ {a}
    /\ IF Current(a)
       THEN /\ job' = [job EXCEPT ![a.job] = AfterActivity(a.job)]
            /\ ensured' = IF a.activity = "ensure" THEN ensured \cup {a.job} ELSE ensured
       ELSE UNCHANGED <<job, ensured>>
    /\ UNCHANGED <<batch, batchCancelled, cancelled, rows, abandoned>>

MoveTo(a, step) == attempts' = (attempts \ {a}) \cup {[a EXCEPT !.step = step]}

-----------------------------------------------------------------------------
(* EnsureReportTask                                                         *)

\* An existing task must be running, a terminal one is refused; its start event
\* was written with it.
EnsureLookup(a) ==
    /\ a.step = "lookup"
    /\ \/ task[a.job] = "none" /\ MoveTo(a, "insert")
       \/ task[a.job] = "running" /\ MoveTo(a, "done")
    /\ UNCHANGED <<workflows, rows, ensured, abandoned>>

\* createReportTask: the unique (workflow_id, run_id) refuses a second task and
\* the attempt looks the first one up.
EnsureInsertOverwrites(a) ==
    /\ a.step = "insert"
    /\ MoveTo(a, "done")
    /\ task' = [task EXCEPT ![a.job] = "running"]
    /\ UNCHANGED <<workflows, events, subReports, report, ensured, abandoned>>
EnsureInsert(a) ==
    /\ a.step = "insert"
    /\ IF task[a.job] = "none"
       THEN MoveTo(a, "done") /\ task' = [task EXCEPT ![a.job] = "running"]
       ELSE MoveTo(a, "lookup") /\ UNCHANGED task
    /\ UNCHANGED <<workflows, events, subReports, report, ensured, abandoned>>

(* GenerateSubReport                                                        *)

SaveSubReport(a) ==
    /\ a.activity = "generate" /\ a.step = "save"
    /\ MoveTo(a, "done")
    /\ subReports' = subReports \cup {a.job}
    /\ UNCHANGED <<workflows, task, events, report, ensured, abandoned>>

(* FinishReportTask: the task first, its event in a second transaction       *)

\* DiagnosisTask.Finish: a terminal status is immutable.
FinishAccepts(a) ==
    /\ task[a.job] \in {"running", a.status}
    /\ a.status = "succeeded" => a.job \in subReports

FinishWrite(a) ==
    /\ a.step = "write"
    /\ FinishAccepts(a)
    /\ MoveTo(a, "event")
    /\ task' = [task EXCEPT ![a.job] = a.status]
    /\ UNCHANGED <<workflows, events, subReports, report, ensured, abandoned>>

FinishEvent(a) ==
    /\ a.step = "event"
    /\ MoveTo(a, "done")
    /\ events' = [events EXCEPT ![a.job] = @ \cup {a.status}]
    /\ UNCHANGED <<workflows, task, subReports, report, ensured, abandoned>>

-----------------------------------------------------------------------------
(* The batch                                                                *)

Succeeded == {i \in Items : job[i].result = "succeeded"}
Settled == \A i \in Items : job[i].pc = "ended"
SomeChildCancelled == \E i \in Items : job[i].result = "cancelled"

ThresholdMetByAny == Succeeded # {}
ThresholdMet ==
    /\ Succeeded # {}
    /\ Cardinality(Items \ Succeeded) <= MaxFailedSubReports

\* Every child is awaited on a disconnected context, whatever its siblings did.
BatchSettles ==
    /\ batch = "settling"
    /\ Settled
    /\ \/ /\ batchCancelled \/ SomeChildCancelled
          /\ batch' = "cancelled"
          /\ UNCHANGED job
       \/ /\ ~batchCancelled /\ ~SomeChildCancelled /\ ~ThresholdMet
          /\ batch' = "failed"
          /\ UNCHANGED job
       \/ /\ ~batchCancelled /\ ~SomeChildCancelled /\ ThresholdMet
          /\ batch' = "reducing"
          /\ job' = [job EXCEPT ![Final] = Await(Final, "reduce")]
    /\ UNCHANGED <<batchCancelled, cancelled, attempts, rows, ensured, abandoned>>

\* GenerateFinalReport, for the results the batch collected, which stay as they
\* are: the unique idempotency key keeps the first report.
SaveFinalReport(a) ==
    /\ a.activity = "reduce" /\ a.step = "save"
    /\ MoveTo(a, "done")
    /\ report' = IF report = NoReport
                 THEN [linked |-> Succeeded, failed |-> Cardinality(Items \ Succeeded)]
                 ELSE report
    /\ UNCHANGED <<workflows, task, events, subReports, ensured, abandoned>>

BatchEnds ==
    /\ batch = "reducing"
    /\ job[Final].pc = "ended"
    /\ batch' = job[Final].result
    /\ UNCHANGED <<batchCancelled, job, cancelled, attempts, rows, ensured, abandoned>>

CancelBatch ==
    /\ batch \in {"settling", "reducing"}
    /\ ~batchCancelled
    /\ batchCancelled' = TRUE
    /\ UNCHANGED <<batch, job, cancelled, attempts, rows, ensured, abandoned>>

\* The execution timeout of a child.
JobTimesOut(j) ==
    /\ ExecutionTimeouts
    /\ job[j].pc \in Activities
    /\ job' = [job EXCEPT ![j] = EndJob(j, "failed")]
    /\ abandoned' = abandoned \cup ({j} \cap Items)
    /\ UNCHANGED <<batch, batchCancelled, cancelled, attempts, rows, ensured>>

\* The execution timeout of the batch; Temporal terminates its children.
BatchTimesOut ==
    /\ ExecutionTimeouts
    /\ batch \in {"settling", "reducing"}
    /\ batch' = "failed"
    /\ job' = [j \in Jobs |->
                  IF job[j].pc \in Activities THEN EndJob(j, "failed") ELSE job[j]]
    /\ abandoned' = abandoned \cup {i \in Items : job[i].pc # "ended"}
    /\ UNCHANGED <<batchCancelled, cancelled, attempts, rows, ensured>>

-----------------------------------------------------------------------------

AttemptStep(a) ==
    \/ AttemptReturns(a)
    \/ EnsureLookup(a)
    \/ EnsureInsert(a)
    \/ SaveSubReport(a)
    \/ FinishWrite(a)
    \/ FinishEvent(a)
    \/ SaveFinalReport(a)

Next ==
    \/ \E j \in Jobs : \/ CancelJob(j)
                       \/ StartAttempt(j)
                       \/ AttemptTimesOut(j)
                       \/ ActivityFails(j)
                       \/ ActivityTimesOut(j)
                       \/ JobTimesOut(j)
    \/ \E a \in attempts : AttemptStep(a) \/ AttemptFails(a) \/ AttemptRefused(a)
    \/ BatchSettles
    \/ BatchEnds
    \/ CancelBatch
    \/ BatchTimesOut

Spec == Init /\ [][Next]_vars

\* Workers and the server make progress: attempts are started and move on,
\* activities that ran out of attempts fail, the batch reacts to its children.
Fairness ==
    /\ \A j \in Jobs : WF_vars(StartAttempt(j)) /\ WF_vars(ActivityFails(j))
    /\ WF_vars(\E a \in attempts : Current(a) /\ AttemptStep(a))
    /\ WF_vars(BatchSettles)
    /\ WF_vars(BatchEnds)

FairSpec == Spec /\ Fairness

-----------------------------------------------------------------------------
(* Properties                                                               *)

\* A FinalReport never covers more, fewer or other items than it says: it links
\* the children that succeeded, each with its SubReport, its task succeeded and
\* the event recorded; it counts the others, within the threshold
\* (reportBatchWorkflowWithPartialFanIn, GenerateFinalReport).
FinalReportHonest ==
    report # NoReport =>
        /\ report.linked # {}
        /\ report.failed <= MaxFailedSubReports
        /\ report.failed = Cardinality(Items \ report.linked)
        /\ \A i \in report.linked :
              /\ job[i].result = "succeeded"
              /\ i \in subReports
              /\ task[i] = "succeeded" /\ events[i] = {"succeeded"}
        /\ \A i \in Items \ report.linked : job[i].result = "failed"

\* A task that ended stays as it ended, although attempts of EnsureReportTask
\* and FinishReportTask that were given up commit late (ensureExistingReport-
\* TaskStarted, DiagnosisTask.Finish).
EndedTaskIsFinal ==
    [][\A i \in Items : task[i] \in Terminal => task'[i] = task[i]]_vars

\* A terminal event says what the task says, and there is one at most: retries
\* and the cut between the two transactions of FinishReportTask never record
\* two outcomes.
EventsTellTheOutcome == \A i \in Items : events[i] \subseteq {task[i]}

\* A child whose task was ensured ends with the task ended and the event
\* recorded, cancelled or not: only a FinishReportTask that failed for good or
\* an execution timeout leaves it running (the disconnected context of
\* reportFanOutWorkflowWithTaskLifecycle).
EnsuredTaskIsFinished ==
    \A i \in ensured \ abandoned :
        job[i].pc = "ended" => task[i] \in Terminal /\ events[i] = {task[i]}

\* The batch ends: every child settles, whatever fails or is cancelled.
BatchTerminates == <>(batch \in Terminal)

=============================================================================
