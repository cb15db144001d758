-------------------------- MODULE ReportBatchProofs --------------------------
(***************************************************************************)
(* The safety of a report batch for any number of items, any threshold,    *)
(* any retry budget, with and without timeouts.                            *)
(***************************************************************************)
EXTENDS ReportBatch, FiniteSetTheorems, TLAPS

StepsOf(activity) ==
    CASE activity = "ensure" -> {"lookup", "insert", "done"}
      [] activity = "finish" -> {"write", "event", "done"}
      [] activity \in {"generate", "reduce"} -> {"save", "done"}
      [] OTHER -> {"done"}

\* Fan-out children await the task activities, the final child the others; a
\* job has ended exactly when it has a result.
JobShape ==
    \A j \in Jobs :
        /\ job[j].pc \in TaskActivities => j \in Items
        /\ job[j].pc \in FinalActivities \cup {"waiting"} => j = Final
        /\ job[j].pc = "finish" => job[j].outcome \in Terminal
        /\ job[j].pc = "ended" <=> job[j].result \in Terminal

\* An attempt belongs to a job of its kind; one of FinishReportTask carries the
\* outcome the child has decided on.
AttemptShape ==
    \A a \in attempts :
        /\ a.activity \in TaskActivities <=> a.job \in Items
        /\ a.step \in StepsOf(a.activity)
        /\ a.activity = "finish" =>
              /\ a.status \in Terminal
              /\ a.status = job[a.job].outcome
              /\ job[a.job].pc \in {"finish", "ended"}

\* What the transactions of FinishReportTask have written so far.
FinishWrites ==
    \A a \in attempts : a.activity = "finish" =>
        /\ a.step \in {"event", "done"} => task[a.job] = a.status
        /\ a.step = "done" => events[a.job] = {a.status}

SubReportBehindSuccess ==
    /\ \A a \in attempts :
          a.activity = "generate" /\ a.step = "done" => a.job \in subReports
    /\ \A i \in Items : job[i].outcome = "succeeded" => i \in subReports

SuccessIsRecorded ==
    \A i \in Items : job[i].result = "succeeded" =>
        /\ i \in subReports
        /\ task[i] = "succeeded" /\ events[i] = {"succeeded"}

EnsuredIsPastEnsure ==
    \A i \in ensured : job[i].pc \in {"generate", "finish", "ended"}

\* The final child starts once the children have settled within the threshold.
ReduceAfterSettling ==
    /\ job[Final].pc # "waiting" => Settled /\ ~SomeChildCancelled /\ ThresholdMet
    /\ \A a \in attempts : a.activity \in FinalActivities => job[Final].pc # "waiting"

ReportIsSettled ==
    report # NoReport =>
        /\ report = [linked |-> Succeeded, failed |-> Cardinality(Items \ Succeeded)]
        /\ job[Final].pc # "waiting"

FinalWaits == batch = "settling" => job[Final].pc = "waiting"

ShapeInv == TypeOK /\ JobShape /\ AttemptShape /\ FinalWaits
RowInv ==
    /\ ShapeInv /\ FinishWrites /\ EventsTellTheOutcome
    /\ SubReportBehindSuccess /\ SuccessIsRecorded
    /\ EnsuredIsPastEnsure /\ EnsuredTaskIsFinished
ReduceInv == RowInv /\ ReduceAfterSettling /\ ReportIsSettled

-----------------------------------------------------------------------------

LEMMA InitShape == Init => ShapeInv
<1> SUFFICES ASSUME Init PROVE ShapeInv
  OBVIOUS
<1> USE BatchAssumption
<1>1. TypeOK
  <2>1. job \in [Jobs -> Job]
    <3>1. 0 \in 0..MaximumAttempts /\ MaximumAttempts \in Nat
      OBVIOUS
    <3> SUFFICES ASSUME NEW j \in Jobs
                 PROVE  [pc |-> IF j = Final THEN "waiting" ELSE "ensure", tries |-> 0,
                         running |-> FALSE, outcome |-> "none", result |-> "none"] \in Job
      BY DEF Init
    <3> QED
      BY <3>1 DEF Job, Activities, TaskActivities
  <2>2. report \in [linked : SUBSET Items, failed : Nat]
    BY DEF Init, NoReport
  <2>3. /\ batch \in {"settling", "reducing"} \cup Terminal
        /\ batchCancelled \in BOOLEAN
        /\ cancelled \subseteq Jobs
        /\ attempts \subseteq Attempt
    BY DEF Init
  <2>4. /\ task \in [Items -> {"none", "running"} \cup Terminal]
        /\ events \in [Items -> SUBSET Terminal]
        /\ subReports \subseteq Items
        /\ ensured \subseteq Items
        /\ abandoned \subseteq Items
    BY DEF Init
  <2> QED
    BY <2>1, <2>2, <2>3, <2>4 DEF TypeOK
<1>2. JobShape
  BY DEF Init, JobShape, TaskActivities, FinalActivities, Terminal, Jobs
<1>3. AttemptShape
  BY DEF Init, AttemptShape
<1>4. FinalWaits
  BY DEF Init, FinalWaits, Jobs
<1> QED
  BY <1>1, <1>2, <1>3, <1>4 DEF ShapeInv

\* A job that awaits an activity, or has ended, is well shaped.
LEMMA NextJob ==
    ASSUME ShapeInv, NEW j \in Jobs, job[j].pc \in Activities
    PROVE  /\ \A activity \in Activities :
                 /\ Await(j, activity) \in Job
                 /\ Await(j, activity).pc = activity
                 /\ Await(j, activity).outcome = job[j].outcome
                 /\ Await(j, activity).result = job[j].result
           /\ \A outcome \in Terminal :
                 /\ AwaitFinish(j, outcome) \in Job
                 /\ AwaitFinish(j, outcome).pc = "finish"
                 /\ AwaitFinish(j, outcome).outcome = outcome
                 /\ AwaitFinish(j, outcome).result = job[j].result
           /\ \A result \in Terminal :
                 /\ EndJob(j, result) \in Job
                 /\ EndJob(j, result).pc = "ended"
                 /\ EndJob(j, result).outcome = job[j].outcome
                 /\ EndJob(j, result).result = result
           /\ job[j].result \notin Terminal
<1> USE BatchAssumption DEF ShapeInv, TypeOK, Activities, TaskActivities, FinalActivities
<1>1. job[j] \in Job
  OBVIOUS
<1>2. job[j].result \notin Terminal
  BY DEF JobShape
<1>0. 0 \in 0..MaximumAttempts
  OBVIOUS
<1>3. \A activity \in Activities :
         /\ Await(j, activity) \in Job
         /\ Await(j, activity).pc = activity
         /\ Await(j, activity).outcome = job[j].outcome
         /\ Await(j, activity).result = job[j].result
  BY <1>0, <1>1 DEF Await, Job
<1>4. \A outcome \in Terminal :
         /\ AwaitFinish(j, outcome) \in Job
         /\ AwaitFinish(j, outcome).pc = "finish"
         /\ AwaitFinish(j, outcome).outcome = outcome
         /\ AwaitFinish(j, outcome).result = job[j].result
  BY <1>0, <1>1 DEF AwaitFinish, Job
<1>5. \A result \in Terminal :
         /\ EndJob(j, result) \in Job
         /\ EndJob(j, result).pc = "ended"
         /\ EndJob(j, result).outcome = job[j].outcome
         /\ EndJob(j, result).result = result
  BY <1>1 DEF EndJob, Job
<1> QED
  BY <1>2, <1>3, <1>4, <1>5

\* How a job moves: to the next activity of its workflow, to the finish with an
\* outcome, or to its end with a result.
Moves(old, new) ==
    /\ new \in Job
    /\ old.pc \in Activities
    /\ \/ /\ new.outcome = old.outcome /\ new.result = old.result
          /\ <<old.pc, new.pc>> \in {<<"ensure", "generate">>, <<"reduce", "notify">>}
       \/ /\ old.pc = "generate" /\ new.pc = "finish"
          /\ new.outcome \in Terminal /\ new.result = old.result
       \/ /\ new.pc = "ended"
          /\ new.outcome = old.outcome /\ new.result \in Terminal
          /\ new.result = "succeeded" =>
                \/ old.pc = "notify"
                \/ old.pc = "finish" /\ old.outcome = "succeeded"

Keeps(old, new) ==
    new \in Job /\ new.pc = old.pc /\ new.outcome = old.outcome /\ new.result = old.result

LEMMA AfterActivityMoves ==
    ASSUME ShapeInv, NEW j \in Jobs, job[j].pc \in Activities
    PROVE  /\ Moves(job[j], AfterActivity(j))
           /\ job[j].pc = "ensure" => AfterActivity(j).pc = "generate"
           /\ job[j].pc = "generate" => AfterActivity(j).outcome = "succeeded"
           /\ job[j].pc = "finish" => AfterActivity(j).pc = "ended"
<1> USE NextJob DEF Activities, TaskActivities, FinalActivities, Terminal
<1>1. CASE job[j].pc = "ensure"
  BY <1>1 DEF AfterActivity, Moves
<1>2. CASE job[j].pc = "generate"
  BY <1>2 DEF AfterActivity, Moves
<1>3. CASE job[j].pc = "finish"
  <2>1. ResultOf(j) \in Terminal /\ (ResultOf(j) = "succeeded" => job[j].outcome = "succeeded")
    BY <1>3 DEF ShapeInv, JobShape, ResultOf
  <2>2. AfterActivity(j) = EndJob(j, ResultOf(j))
    BY <1>3 DEF AfterActivity
  <2> QED
    BY <1>3, <2>1, <2>2 DEF Moves
<1>4. CASE job[j].pc = "reduce"
  BY <1>4 DEF AfterActivity, Moves
<1>5. CASE job[j].pc = "notify"
  BY <1>5 DEF AfterActivity, Moves
<1> QED
  BY <1>1, <1>2, <1>3, <1>4, <1>5

LEMMA AfterFailureMoves ==
    ASSUME ShapeInv, NEW j \in Jobs, job[j].pc \in Activities
    PROVE  /\ Moves(job[j], AfterFailure(j))
           /\ AfterFailure(j).outcome = "succeeded" => job[j].outcome = "succeeded"
           /\ AfterFailure(j).result # "succeeded"
           /\ job[j].pc = "generate" => AfterFailure(j).pc = "finish"
<1> USE NextJob DEF Activities, TaskActivities, FinalActivities, Terminal
<1>1. CASE job[j].pc = "generate"
  BY <1>1 DEF AfterFailure, Moves
<1>2. CASE job[j].pc = "finish" /\ job[j].outcome = "cancelled"
  BY <1>2 DEF AfterFailure, Moves
<1>3. CASE job[j].pc # "generate" /\ ~(job[j].pc = "finish" /\ job[j].outcome = "cancelled")
  BY <1>3 DEF AfterFailure, Moves
<1> QED
  BY <1>1, <1>2, <1>3

LEMMA AfterCancelMoves ==
    ASSUME ShapeInv, NEW j \in Jobs, job[j].pc \in Activities
    PROVE  /\ Moves(job[j], AfterCancel(j)) \/ AfterCancel(j) = job[j]
           /\ AfterCancel(j).outcome = "succeeded" => job[j].outcome = "succeeded"
           /\ AfterCancel(j).result # "succeeded"
           /\ job[j].pc \in {"generate", "finish"} => AfterCancel(j).pc = "finish"
<1> USE NextJob DEF Activities, TaskActivities, FinalActivities, Terminal
<1>1. CASE job[j].pc = "generate"
  BY <1>1 DEF AfterCancel, Moves
<1>2. CASE job[j].pc = "finish"
  BY <1>2 DEF AfterCancel
<1>3. CASE job[j].pc \notin {"generate", "finish"}
  BY <1>3 DEF AfterCancel, Moves
<1> QED
  BY <1>1, <1>2, <1>3

LEMMA EndingMoves ==
    ASSUME ShapeInv, NEW j \in Jobs, job[j].pc \in Activities
    PROVE  /\ Moves(job[j], EndJob(j, "failed"))
           /\ EndJob(j, "failed").outcome = job[j].outcome
           /\ EndJob(j, "failed").result = "failed"
BY NextJob DEF Moves, Terminal

\* The final child is released once, when the children have settled.
Released(old, new) ==
    /\ new \in Job
    /\ batch = "settling" /\ batch' = "reducing"
    /\ Settled /\ ~SomeChildCancelled /\ ThresholdMet
    /\ old.pc = "waiting" /\ new.pc = "reduce"
    /\ new.outcome = old.outcome /\ new.result = old.result

JobsMove ==
    /\ job' \in [Jobs -> Job]
    /\ \A j \in Jobs : \/ Moves(job[j], job'[j])
                       \/ Keeps(job[j], job'[j])
                       \/ j = Final /\ Released(job[j], job'[j])

\* An attempt that was not there before was started for what its job awaits or
\* is an attempt that made a step.
AttemptsMove ==
    \A a \in attempts' \ attempts :
        /\ a \in Attempt
        /\ \/ /\ a.activity = job[a.job].pc /\ a.activity = job'[a.job].pc
              /\ a.status = job[a.job].outcome /\ a.status = job'[a.job].outcome
              /\ a.step = FirstStep(a.activity)
           \/ \E b \in attempts :
                 /\ a.job = b.job /\ a.activity = b.activity /\ a.status = b.status
                 /\ a.step \in StepsOf(a.activity)

LEMMA OneJobMoves ==
    ASSUME ShapeInv, NEW j \in Jobs, NEW new,
           Moves(job[j], new) \/ Keeps(job[j], new),
           job' = [job EXCEPT ![j] = new]
    PROVE  JobsMove
<1>1. new \in Job
  BY DEF Moves, Keeps
<1>2. job \in [Jobs -> Job]
  BY DEF ShapeInv, TypeOK
<1>3. job' \in [Jobs -> Job]
  BY <1>1, <1>2
<1>4. job'[j] = new
  BY <1>2
<1>5. \A k \in Jobs \ {j} : job'[k] = job[k]
  BY <1>2
<1>6. \A k \in Jobs : job'[k] = job[k] => Keeps(job[k], job'[k])
  BY <1>2 DEF Keeps
<1> QED
  BY <1>3, <1>4, <1>5, <1>6 DEF JobsMove

LEMMA NoJobMoves == ShapeInv /\ UNCHANGED job => JobsMove
BY DEF ShapeInv, TypeOK, JobsMove, Keeps

\* An attempt's step within its activity.
LEMMA MoveToMoves ==
    ASSUME ShapeInv, NEW a \in attempts, NEW step \in StepsOf(a.activity), MoveTo(a, step)
    PROVE  AttemptsMove
<1>1. a \in Attempt
  BY DEF ShapeInv, TypeOK
<1>2. step \in {"lookup", "insert", "save", "write", "event", "done"}
  BY DEF StepsOf
<1>3. \A b \in attempts' \ attempts : b = [a EXCEPT !.step = step]
  BY DEF MoveTo
<1>4. [a EXCEPT !.step = step] \in Attempt
  BY <1>1, <1>2 DEF Attempt
<1>5. /\ [a EXCEPT !.step = step].job = a.job
      /\ [a EXCEPT !.step = step].activity = a.activity
      /\ [a EXCEPT !.step = step].status = a.status
      /\ [a EXCEPT !.step = step].step = step
  BY <1>1 DEF Attempt
<1> QED
  BY <1>3, <1>4, <1>5 DEF AttemptsMove

LEMMA DroppedMoves == attempts' \subseteq attempts => AttemptsMove
BY DEF AttemptsMove

\* Every step of the specification moves jobs and attempts this way.
LEMMA StepMoves ==
    ASSUME ShapeInv, [Next]_vars
    PROVE  JobsMove /\ AttemptsMove
<1> USE BatchAssumption
<1>0. job \in [Jobs -> Job] /\ attempts \subseteq Attempt
  BY DEF ShapeInv, TypeOK
<1>1. ASSUME NEW j \in Jobs, CancelJob(j)
      PROVE  JobsMove /\ AttemptsMove
  <2>1. job[j].pc \in Activities
    BY <1>0, <1>1 DEF CancelJob, Job
  <2>2. Moves(job[j], AfterCancel(j)) \/ Keeps(job[j], AfterCancel(j))
    BY <1>0, <2>1, AfterCancelMoves DEF Keeps
  <2>3. job' = [job EXCEPT ![j] = AfterCancel(j)] /\ attempts' \subseteq attempts
    BY <1>1 DEF CancelJob
  <2> QED
    BY <2>2, <2>3, OneJobMoves, DroppedMoves
<1>2. ASSUME NEW j \in Jobs, StartAttempt(j)
      PROVE  JobsMove /\ AttemptsMove
  <2> DEFINE new == [job[j] EXCEPT !.tries = @ + 1, !.running = TRUE]
             fresh == [job |-> j, activity |-> job[j].pc, try |-> job[j].tries + 1,
                       step |-> FirstStep(job[j].pc), status |-> job[j].outcome]
  <2>1. /\ job[j].pc \in Activities /\ job[j].tries < MaximumAttempts
        /\ job' = [job EXCEPT ![j].tries = @ + 1, ![j].running = TRUE]
        /\ attempts' = attempts \cup {fresh}
    BY <1>2 DEF StartAttempt, MayAttempt
  <2>2. job[j] \in Job /\ job[j].tries + 1 \in 1..MaximumAttempts
    BY <1>0, <2>1 DEF Job
  <2>3. new \in Job /\ new.pc = job[j].pc /\ new.outcome = job[j].outcome /\ new.result = job[j].result
    <3>1. job[j].tries + 1 \in 0..MaximumAttempts
      BY <2>2
    <3> QED
      BY <2>2, <3>1 DEF Job
  <2>4. job' = [job EXCEPT ![j] = new]
    BY <1>0, <2>1
  <2>5. JobsMove
    BY <2>3, <2>4, OneJobMoves DEF Keeps
  <2>6. FirstStep(job[j].pc) \in {"lookup", "insert", "save", "write", "event", "done"}
    BY <2>1 DEF FirstStep, Activities, TaskActivities, FinalActivities
  <2>7. fresh \in Attempt
    BY <2>1, <2>2, <2>6 DEF Attempt, Job
  <2>8. job'[j] = new
    BY <1>0, <2>4
  <2> QED
    <3>1. /\ fresh.job = j /\ fresh.activity = job[j].pc /\ fresh.status = job[j].outcome
          /\ fresh.step = FirstStep(job[j].pc)
      OBVIOUS
    <3>2. job'[j].pc = job[j].pc /\ job'[j].outcome = job[j].outcome
      BY <2>3, <2>8
    <3>3. \A b \in attempts' \ attempts : b = fresh
      BY <2>1
    <3> HIDE DEF fresh, new
    <3>4. AttemptsMove
      BY <2>7, <3>1, <3>2, <3>3 DEF AttemptsMove
    <3> QED
      BY <2>5, <3>4
<1>3. ASSUME NEW j \in Jobs, AttemptTimesOut(j)
      PROVE  JobsMove /\ AttemptsMove
  <2> DEFINE new == [job[j] EXCEPT !.running = FALSE]
  <2>1. job' = [job EXCEPT ![j] = new] /\ attempts' \subseteq attempts
    BY <1>0, <1>3 DEF AttemptTimesOut
  <2>2. Keeps(job[j], new)
    BY <1>0 DEF Keeps, Job
  <2> QED
    BY <2>1, <2>2, OneJobMoves, DroppedMoves
<1>4. ASSUME NEW j \in Jobs, ActivityFails(j) \/ ActivityTimesOut(j)
      PROVE  JobsMove /\ AttemptsMove
  <2>1. /\ job[j].pc \in Activities
        /\ job' = [job EXCEPT ![j] = AfterFailure(j)] /\ attempts' \subseteq attempts
    BY <1>4 DEF ActivityFails, ActivityTimesOut, FailJob
  <2> QED
    BY <2>1, AfterFailureMoves, OneJobMoves, DroppedMoves
<1>5. ASSUME NEW j \in Jobs, JobTimesOut(j)
      PROVE  JobsMove /\ AttemptsMove
  <2>1. /\ job[j].pc \in Activities
        /\ job' = [job EXCEPT ![j] = EndJob(j, "failed")] /\ attempts' \subseteq attempts
    BY <1>5 DEF JobTimesOut
  <2> QED
    BY <2>1, EndingMoves, OneJobMoves, DroppedMoves
<1>6. ASSUME NEW a \in attempts, AttemptReturns(a)
      PROVE  JobsMove /\ AttemptsMove
  <2>1. attempts' \subseteq attempts
    BY <1>6 DEF AttemptReturns
  <2>2. CASE Current(a)
    <3>1. a.job \in Jobs /\ a.activity \in Activities
      BY <1>0, <1>6 DEF Attempt
    <3>2. job[a.job].pc \in Activities
      BY <2>2, <3>1 DEF Current
    <3>3. job' = [job EXCEPT ![a.job] = AfterActivity(a.job)]
      BY <1>6, <2>2 DEF AttemptReturns
    <3> QED
      BY <2>1, <3>1, <3>2, <3>3, AfterActivityMoves, OneJobMoves, DroppedMoves
  <2>3. CASE ~Current(a)
    BY <1>6, <2>1, <2>3, NoJobMoves, DroppedMoves DEF AttemptReturns
  <2> QED
    BY <2>2, <2>3
<1>16. ASSUME NEW a \in attempts, AttemptRefused(a)
      PROVE  JobsMove /\ AttemptsMove
  <2>1. attempts' \subseteq attempts
    BY <1>16 DEF AttemptRefused
  <2>2. CASE Current(a)
    <3>1. a.job \in Jobs /\ job[a.job].pc \in Activities
      BY <1>0, <1>16, <2>2 DEF Attempt, Current
    <3>2. job' = [job EXCEPT ![a.job] = AfterFailure(a.job)]
      BY <1>16, <2>2 DEF AttemptRefused, FailJob
    <3> QED
      BY <2>1, <3>1, <3>2, AfterFailureMoves, OneJobMoves, DroppedMoves
  <2>3. CASE ~Current(a)
    BY <1>16, <2>1, <2>3, NoJobMoves, DroppedMoves DEF AttemptRefused
  <2> QED
    BY <2>2, <2>3
<1>7. ASSUME NEW a \in attempts, EnsureLookup(a)
      PROVE  JobsMove /\ AttemptsMove
  <2>1. a.activity = "ensure"
    BY <1>0, <1>7 DEF EnsureLookup, ShapeInv, AttemptShape, StepsOf, Attempt, Activities, TaskActivities, FinalActivities
  <2>2. {"insert", "done"} \subseteq StepsOf(a.activity)
    BY <2>1 DEF StepsOf
  <2>3. UNCHANGED job
    BY <1>7 DEF EnsureLookup, workflows
  <2>4. MoveTo(a, "insert") \/ MoveTo(a, "done")
    BY <1>7 DEF EnsureLookup
  <2> QED
    BY <1>7, <2>2, <2>3, <2>4, NoJobMoves, MoveToMoves
<1>8. ASSUME NEW a \in attempts, EnsureInsert(a)
      PROVE  JobsMove /\ AttemptsMove
  <2>1. a.activity = "ensure"
    BY <1>0, <1>8 DEF EnsureInsert, ShapeInv, AttemptShape, StepsOf, Attempt, Activities, TaskActivities, FinalActivities
  <2>2. {"lookup", "done"} \subseteq StepsOf(a.activity)
    BY <2>1 DEF StepsOf
  <2>3. UNCHANGED job
    BY <1>8 DEF EnsureInsert, workflows
  <2>4. MoveTo(a, "lookup") \/ MoveTo(a, "done")
    BY <1>8 DEF EnsureInsert
  <2> QED
    BY <1>8, <2>2, <2>3, <2>4, NoJobMoves, MoveToMoves
<1>9. ASSUME NEW a \in attempts, SaveSubReport(a) \/ SaveFinalReport(a)
      PROVE  JobsMove /\ AttemptsMove
  <2>1. a.activity \in {"generate", "reduce"}
    BY <1>9 DEF SaveSubReport, SaveFinalReport
  <2>2. "done" \in StepsOf(a.activity)
    BY <2>1 DEF StepsOf
  <2>3. UNCHANGED job /\ MoveTo(a, "done")
    BY <1>9 DEF SaveSubReport, SaveFinalReport, workflows
  <2> QED
    BY <1>9, <2>2, <2>3, NoJobMoves, MoveToMoves
<1>10. ASSUME NEW a \in attempts, FinishWrite(a) \/ FinishEvent(a)
      PROVE  JobsMove /\ AttemptsMove
  <2>1. a.activity = "finish"
    BY <1>0, <1>10 DEF FinishWrite, FinishEvent, ShapeInv, AttemptShape, StepsOf, Attempt, Activities, TaskActivities, FinalActivities
  <2>2. {"event", "done"} \subseteq StepsOf(a.activity)
    BY <2>1 DEF StepsOf
  <2>3. UNCHANGED job
    BY <1>10 DEF FinishWrite, FinishEvent, workflows
  <2>4. MoveTo(a, "event") \/ MoveTo(a, "done")
    BY <1>10 DEF FinishWrite, FinishEvent
  <2> QED
    BY <1>10, <2>2, <2>3, <2>4, NoJobMoves, MoveToMoves
<1>11. ASSUME NEW a \in attempts, AttemptFails(a)
      PROVE  JobsMove /\ AttemptsMove
  <2> DEFINE new == [job[a.job] EXCEPT !.running = @ /\ ~Current(a)]
  <2>1. a.job \in Jobs
    BY <1>0, <1>11 DEF Attempt
  <2>2. job' = [job EXCEPT ![a.job] = new] /\ attempts' \subseteq attempts
    BY <1>0, <1>11, <2>1 DEF AttemptFails
  <2>3. (job[a.job].running /\ ~Current(a)) \in BOOLEAN
    OBVIOUS
  <2>4. Keeps(job[a.job], new)
    BY <1>0, <2>1, <2>3, ZenonT(60) DEF Keeps, Job
  <2> QED
    BY <2>1, <2>2, <2>4, OneJobMoves, DroppedMoves
<1>12. CASE BatchSettles
  <2>1. attempts' \subseteq attempts
    BY <1>12 DEF BatchSettles
  <2>2. CASE UNCHANGED job
    BY <2>1, <2>2, NoJobMoves, DroppedMoves
  <2>3. CASE job' = [job EXCEPT ![Final] = Await(Final, "reduce")]
    <3> DEFINE new == Await(Final, "reduce")
    <3>1. Final \in Jobs /\ job[Final] \in Job
      BY <1>0 DEF Jobs
    <3>2. job[Final].pc = "waiting" /\ batch = "settling"
      BY <1>12 DEF BatchSettles, ShapeInv, FinalWaits
    <3>3. batch' = "reducing" /\ Settled /\ ~SomeChildCancelled /\ ThresholdMet
      <4>1. new.pc = "reduce"
        BY <3>1 DEF Await, Job
      <4>2. ~UNCHANGED job
        BY <1>0, <2>3, <3>1, <3>2, <4>1
      <4> QED
        BY <1>12, <4>2 DEF BatchSettles
    <3>4. /\ new \in Job /\ new.pc = "reduce"
          /\ new.outcome = job[Final].outcome /\ new.result = job[Final].result
      <4>1. 0 \in 0..MaximumAttempts
        OBVIOUS
      <4> QED
        BY <3>1, <4>1 DEF Await, Job, Activities, FinalActivities
    <3>5. Released(job[Final], new)
      BY <3>2, <3>3, <3>4 DEF Released
    <3>6. job' \in [Jobs -> Job] /\ job'[Final] = new
      BY <1>0, <2>3, <3>1, <3>4
    <3>7. \A j \in Jobs \ {Final} : job'[j] = job[j] /\ job[j] \in Job
      BY <1>0, <2>3
    <3> QED
      BY <2>1, <3>5, <3>6, <3>7, DroppedMoves DEF JobsMove, Keeps
  <2> QED
    BY <1>12, <2>2, <2>3 DEF BatchSettles
<1>13. CASE BatchEnds \/ CancelBatch
  BY <1>13, NoJobMoves, DroppedMoves DEF BatchEnds, CancelBatch
<1>14. CASE BatchTimesOut
  <2>1. job' = [j \in Jobs |->
                  IF job[j].pc \in Activities THEN EndJob(j, "failed") ELSE job[j]]
    BY <1>14 DEF BatchTimesOut
  <2>2. \A j \in Jobs : Moves(job[j], job'[j]) \/ Keeps(job[j], job'[j])
    BY <1>0, <2>1, EndingMoves DEF Keeps
  <2>3. \A j \in Jobs : job'[j] \in Job
    BY <2>2 DEF Moves, Keeps
  <2>4. job' \in [Jobs -> Job]
    BY <2>1, <2>3
  <2> QED
    BY <1>14, <2>2, <2>4, DroppedMoves DEF JobsMove, BatchTimesOut
<1>15. CASE UNCHANGED vars
  BY <1>15, NoJobMoves, DroppedMoves DEF vars, workflows
<1> QED
  BY <1>1, <1>2, <1>3, <1>4, <1>5, <1>6, <1>7, <1>8, <1>9, <1>10, <1>11, <1>12, <1>13,
     <1>14, <1>15, <1>16 DEF Next, AttemptStep

LEMMA BatchWaits == ShapeInv /\ [Next]_vars /\ batch' = "settling" => batch = "settling"
<1> SUFFICES ASSUME ShapeInv, [Next]_vars, batch' = "settling" PROVE batch = "settling"
  OBVIOUS
<1>1. CASE BatchSettles
  BY <1>1 DEF BatchSettles
<1>2. CASE BatchEnds
  <2>1. job[Final] \in Job /\ job[Final].result = "settling"
    BY <1>2 DEF BatchEnds, ShapeInv, TypeOK, Jobs
  <2> QED
    BY <2>1 DEF Job, Terminal
<1>3. CASE BatchTimesOut
  BY <1>3 DEF BatchTimesOut
<1> QED
  BY <1>1, <1>2, <1>3
     DEF Next, AttemptStep, CancelJob, StartAttempt, AttemptTimesOut, ActivityFails,
         ActivityTimesOut, JobTimesOut, AttemptReturns, AttemptRefused, EnsureLookup, EnsureInsert, SaveSubReport, FinishWrite,
         FinishEvent, SaveFinalReport, AttemptFails, CancelBatch, vars, workflows

LEMMA RowTypes ==
    ASSUME ShapeInv, [Next]_vars
    PROVE  /\ batch' \in {"settling", "reducing"} \cup Terminal
           /\ batchCancelled' \in BOOLEAN
           /\ cancelled' \subseteq Jobs
           /\ task' \in [Items -> {"none", "running"} \cup Terminal]
           /\ events' \in [Items -> SUBSET Terminal]
           /\ subReports' \subseteq Items
           /\ report' \in [linked : SUBSET Items, failed : Nat]
           /\ ensured' \subseteq Items
           /\ abandoned' \subseteq Items
<1> USE BatchAssumption
<1> DEFINE Rows == /\ batch' \in {"settling", "reducing"} \cup Terminal
                   /\ batchCancelled' \in BOOLEAN
                   /\ cancelled' \subseteq Jobs
                   /\ task' \in [Items -> {"none", "running"} \cup Terminal]
                   /\ events' \in [Items -> SUBSET Terminal]
                   /\ subReports' \subseteq Items
                   /\ report' \in [linked : SUBSET Items, failed : Nat]
                   /\ ensured' \subseteq Items
                   /\ abandoned' \subseteq Items
<1>0. TypeOK
  BY DEF ShapeInv
<1> SUFFICES Rows
  OBVIOUS
<1>1. ASSUME NEW j \in Jobs,
             CancelJob(j) \/ StartAttempt(j) \/ AttemptTimesOut(j)
      PROVE  Rows
  BY <1>0, <1>1 DEF TypeOK, CancelJob, StartAttempt, AttemptTimesOut, rows
<1>2. ASSUME NEW j \in Jobs, ActivityFails(j) \/ ActivityTimesOut(j)
      PROVE  Rows
  <2>1. job[j].pc = "finish" => j \in Items
    BY DEF ShapeInv, JobShape, TaskActivities
  <2> QED
    BY <1>0, <1>2, <2>1 DEF TypeOK, ActivityFails, ActivityTimesOut, FailJob, rows
<1>12. ASSUME NEW a \in attempts, AttemptRefused(a)
      PROVE  Rows
  <2>1. job[a.job].pc = "finish" => a.job \in Items
    BY <1>0 DEF ShapeInv, JobShape, TaskActivities, TypeOK, Attempt
  <2> QED
    BY <1>0, <1>12, <2>1 DEF TypeOK, AttemptRefused, FailJob, rows
<1>3. ASSUME NEW j \in Jobs, JobTimesOut(j)
      PROVE  Rows
  BY <1>0, <1>3 DEF TypeOK, JobTimesOut, rows
<1>4. ASSUME NEW a \in attempts, AttemptReturns(a) \/ AttemptFails(a)
      PROVE  Rows
  <2>1. a.activity = "ensure" => a.job \in Items
    BY DEF ShapeInv, AttemptShape, TaskActivities
  <2> QED
    BY <1>0, <1>4, <2>1 DEF TypeOK, AttemptReturns, AttemptFails, rows
<1>5. ASSUME NEW a \in attempts, EnsureLookup(a) \/ EnsureInsert(a)
      PROVE  Rows
  BY <1>0, <1>5 DEF TypeOK, EnsureLookup, EnsureInsert, rows, workflows
<1>6. ASSUME NEW a \in attempts, SaveSubReport(a)
      PROVE  Rows
  <2>1. a.job \in Items
    BY <1>6 DEF SaveSubReport, ShapeInv, AttemptShape, TaskActivities
  <2> QED
    BY <1>0, <1>6, <2>1 DEF TypeOK, SaveSubReport, workflows
<1>7. ASSUME NEW a \in attempts, FinishWrite(a) \/ FinishEvent(a)
      PROVE  Rows
  <2>1. a.status \in Terminal
    BY <1>0, <1>7 DEF FinishWrite, FinishEvent, TypeOK, ShapeInv, AttemptShape, StepsOf,
       Attempt, Activities, TaskActivities, FinalActivities
  <2> QED
    BY <1>0, <1>7, <2>1 DEF TypeOK, FinishWrite, FinishEvent, workflows
<1>8. ASSUME NEW a \in attempts, SaveFinalReport(a)
      PROVE  Rows
  <2>1. Succeeded \in SUBSET Items /\ Cardinality(Items \ Succeeded) \in Nat
    BY FS_Difference, FS_CardinalityType DEF Succeeded
  <2> QED
    BY <1>0, <1>8, <2>1 DEF TypeOK, SaveFinalReport, workflows
<1>9. CASE BatchSettles \/ CancelBatch \/ BatchTimesOut
  BY <1>0, <1>9 DEF TypeOK, BatchSettles, CancelBatch, BatchTimesOut, rows, Terminal
<1>10. CASE BatchEnds
  <2>1. job[Final].result \in Terminal
    BY <1>10 DEF BatchEnds, ShapeInv, JobShape, Jobs
  <2> QED
    BY <1>0, <1>10, <2>1 DEF TypeOK, BatchEnds, rows
<1>11. CASE UNCHANGED vars
  BY <1>0, <1>11 DEF TypeOK, vars, rows, workflows
<1> QED
  BY <1>1, <1>2, <1>3, <1>4, <1>5, <1>6, <1>7, <1>8, <1>9, <1>10, <1>11, <1>12
     DEF Next, AttemptStep

LEMMA ShapeStep == ShapeInv /\ [Next]_vars => ShapeInv'
<1> SUFFICES ASSUME ShapeInv, [Next]_vars PROVE ShapeInv'
  OBVIOUS
<1>0. JobsMove /\ AttemptsMove
  BY StepMoves
<1>1. TypeOK'
  <2>1. attempts' \subseteq Attempt
    BY <1>0 DEF AttemptsMove, ShapeInv, TypeOK
  <2> QED
    BY <1>0, <2>1, RowTypes DEF JobsMove, TypeOK
<1>2. JobShape'
  <2> SUFFICES ASSUME NEW j \in Jobs
               PROVE  /\ job'[j].pc \in TaskActivities => j \in Items
                      /\ job'[j].pc \in FinalActivities \cup {"waiting"} => j = Final
                      /\ job'[j].pc = "finish" => job'[j].outcome \in Terminal
                      /\ job'[j].pc = "ended" <=> job'[j].result \in Terminal
    BY DEF JobShape
  <2>0. /\ job[j].pc \in TaskActivities => j \in Items
        /\ job[j].pc \in FinalActivities \cup {"waiting"} => j = Final
        /\ job[j].pc = "finish" => job[j].outcome \in Terminal
        /\ job[j].pc = "ended" <=> job[j].result \in Terminal
    BY DEF ShapeInv, JobShape
  <2>1. CASE Moves(job[j], job'[j])
    BY <2>0, <2>1 DEF Moves, Activities, TaskActivities, FinalActivities
  <2>2. CASE Keeps(job[j], job'[j])
    BY <2>0, <2>2 DEF Keeps
  <2>3. CASE j = Final /\ Released(job[j], job'[j])
    BY <2>0, <2>3 DEF Released, TaskActivities, FinalActivities
  <2> QED
    BY <1>0, <2>1, <2>2, <2>3 DEF JobsMove
<1>3. AttemptShape'
  <2> SUFFICES ASSUME NEW a \in attempts'
               PROVE  /\ a.activity \in TaskActivities <=> a.job \in Items
                      /\ a.step \in StepsOf(a.activity)
                      /\ a.activity = "finish" =>
                            /\ a.status \in Terminal
                            /\ a.status = job'[a.job].outcome
                            /\ job'[a.job].pc \in {"finish", "ended"}
    BY DEF AttemptShape
  <2>0. /\ a \in Attempt /\ a.job \in Jobs
        /\ \/ Moves(job[a.job], job'[a.job])
           \/ Keeps(job[a.job], job'[a.job])
           \/ Released(job[a.job], job'[a.job])
    <3>1. a \in Attempt
      BY <1>0 DEF AttemptsMove, ShapeInv, TypeOK
    <3>2. a.job \in Jobs
      BY <3>1 DEF Attempt
    <3> QED
      BY <1>0, <3>1, <3>2 DEF JobsMove
  <2>1. ASSUME NEW b \in attempts, a.job = b.job, a.activity = b.activity,
               a.status = b.status, a.step \in StepsOf(a.activity)
        PROVE  /\ a.activity \in TaskActivities <=> a.job \in Items
               /\ a.step \in StepsOf(a.activity)
               /\ a.activity = "finish" =>
                     /\ a.status \in Terminal
                     /\ a.status = job'[a.job].outcome
                     /\ job'[a.job].pc \in {"finish", "ended"}
    <3>1. /\ a.activity \in TaskActivities <=> a.job \in Items
          /\ a.activity = "finish" =>
                /\ a.status \in Terminal
                /\ a.status = job[a.job].outcome
                /\ job[a.job].pc \in {"finish", "ended"}
      BY <2>1 DEF ShapeInv, AttemptShape
    <3>2. job[a.job].pc \in {"finish", "ended"} =>
             /\ job'[a.job].pc \in {"finish", "ended"}
             /\ job'[a.job].outcome = job[a.job].outcome
      BY <2>0 DEF Moves, Keeps, Released, Activities, TaskActivities, FinalActivities
    <3> QED
      BY <2>1, <3>1, <3>2
  <2>2. CASE a \in attempts
    <3>1. a.step \in StepsOf(a.activity)
      BY <2>2 DEF ShapeInv, AttemptShape
    <3> QED
      BY <2>1, <2>2, <3>1
  <2>3. CASE a \notin attempts /\ \E b \in attempts :
                 /\ a.job = b.job /\ a.activity = b.activity /\ a.status = b.status
                 /\ a.step \in StepsOf(a.activity)
    BY <2>1, <2>3
  <2>4. CASE /\ a.activity = job[a.job].pc /\ a.activity = job'[a.job].pc
             /\ a.status = job[a.job].outcome /\ a.status = job'[a.job].outcome
             /\ a.step = FirstStep(a.activity)
    <3>1. a.activity \in Activities
      BY <2>0 DEF Attempt
    <3>2. a.step \in StepsOf(a.activity)
      BY <2>4, <3>1 DEF FirstStep, StepsOf, Activities, TaskActivities, FinalActivities
    <3>3. /\ a.activity \in TaskActivities => a.job \in Items
          /\ a.activity \in FinalActivities => a.job = Final
          /\ a.activity = "finish" => a.status \in Terminal
      BY <2>0, <2>4 DEF ShapeInv, JobShape
    <3>4. a.activity \in TaskActivities <=> a.job \in Items
      BY <3>1, <3>3, BatchAssumption DEF Activities, TaskActivities, FinalActivities
    <3> QED
      BY <2>4, <3>2, <3>3, <3>4
  <2> QED
    BY <1>0, <2>2, <2>3, <2>4 DEF AttemptsMove
<1>4. FinalWaits'
  <2> SUFFICES ASSUME batch' = "settling" PROVE job'[Final].pc = "waiting"
    BY DEF FinalWaits
  <2>1. batch = "settling" /\ job[Final].pc = "waiting"
    BY BatchWaits DEF ShapeInv, FinalWaits
  <2>2. Keeps(job[Final], job'[Final])
    BY <1>0, <2>1 DEF JobsMove, Moves, Released, Jobs, Activities, TaskActivities, FinalActivities
  <2> QED
    BY <2>1, <2>2 DEF Keeps
<1> QED
  BY <1>1, <1>2, <1>3, <1>4 DEF ShapeInv

\* Every reachable state of a batch is typed, whatever its items, its threshold,
\* its retry budget and the timeouts that strike.
THEOREM TypeCorrect == Spec => []TypeOK
<1>1. Init => ShapeInv
  BY InitShape
<1>2. ShapeInv /\ [Next]_vars => ShapeInv'
  BY ShapeStep
<1>3. ShapeInv => TypeOK
  BY DEF ShapeInv
<1> QED
  BY <1>1, <1>2, <1>3, PTL DEF Spec

-----------------------------------------------------------------------------

Returned(i, activity) ==
    \E a \in attempts : a.job = i /\ a.activity = activity /\ a.step = "done"

\* What a step may do to an item's child: it ends because FinishReportTask
\* returned, or unsuccessfully, abandoned or before its task was ensured; it
\* generated a report because GenerateSubReport returned.
ItemGoes(i) ==
    /\ job[i].pc # "ended" /\ job'[i].pc = "ended" =>
          \/ Returned(i, "finish")
          \/ job'[i].result # "succeeded" /\ (i \in abandoned' \/ job[i].pc = "ensure")
    /\ job'[i].outcome = "succeeded" =>
          job[i].outcome = "succeeded" \/ Returned(i, "generate")
    /\ i \in ensured' => i \in ensured \/ job'[i].pc = "generate"

LEMMA ItemStays ==
    ASSUME NEW i \in Items, job'[i] = job[i], ensured' = ensured
    PROVE  ItemGoes(i)
BY DEF ItemGoes

LEMMA ItemStep ==
    ASSUME ShapeInv, [Next]_vars, NEW i \in Items
    PROVE  ItemGoes(i)
<1> USE BatchAssumption
<1>0. /\ job \in [Jobs -> Job] /\ attempts \subseteq Attempt /\ i \in Jobs
      /\ i # Final
  BY DEF ShapeInv, TypeOK, Jobs
<1>1. ASSUME NEW j \in Jobs, CancelJob(j)
      PROVE  ItemGoes(i)
  <2>1. /\ job' = [job EXCEPT ![j] = AfterCancel(j)] /\ ensured' = ensured
        /\ job[j].pc \in Activities
    BY <1>0, <1>1 DEF CancelJob, Job
  <2>2. CASE i # j
    BY <1>0, <2>1, <2>2, ItemStays
  <2>3. CASE i = j
    <3>1. job'[i] = AfterCancel(i)
      BY <1>0, <2>1, <2>3
    <3>2. /\ AfterCancel(i).outcome = "succeeded" => job[i].outcome = "succeeded"
          /\ AfterCancel(i).result # "succeeded"
          /\ job[i].pc \in {"generate", "finish"} => AfterCancel(i).pc = "finish"
      BY <1>0, <2>1, <2>3, AfterCancelMoves
    <3>3. job[i].pc \in {"ensure", "generate", "finish"}
      BY <1>0, <2>1, <2>3 DEF ShapeInv, JobShape, Activities, TaskActivities
    <3> QED
      BY <2>1, <3>1, <3>2, <3>3 DEF ItemGoes
  <2> QED
    BY <2>2, <2>3
<1>2. ASSUME NEW j \in Jobs, StartAttempt(j) \/ AttemptTimesOut(j)
      PROVE  ItemGoes(i)
  <2>1. ensured' = ensured
    BY <1>2 DEF StartAttempt, AttemptTimesOut
  <2>2. job'[i].pc = job[i].pc /\ job'[i].outcome = job[i].outcome
    BY <1>0, <1>2 DEF StartAttempt, AttemptTimesOut, Job
  <2> QED
    BY <2>1, <2>2 DEF ItemGoes
<1>3. ASSUME NEW j \in Jobs, job[j].pc \in Activities, FailJob(j), ensured' = ensured
      PROVE  ItemGoes(i)
  <2>1. /\ job' = [job EXCEPT ![j] = AfterFailure(j)]
        /\ job[j].pc = "finish" => j \in abandoned'
    BY <1>3 DEF FailJob
  <2>2. CASE i # j
    BY <1>0, <1>3, <2>1, <2>2, ItemStays
  <2>3. CASE i = j
    <3>1. job'[i] = AfterFailure(i)
      BY <1>0, <2>1, <2>3
    <3>2. /\ AfterFailure(i).outcome = "succeeded" => job[i].outcome = "succeeded"
          /\ AfterFailure(i).result # "succeeded"
          /\ job[i].pc = "generate" => AfterFailure(i).pc = "finish"
      BY <1>0, <1>3, <2>3, AfterFailureMoves
    <3>3. job[i].pc \in {"ensure", "generate", "finish"}
      BY <1>0, <1>3, <2>3 DEF ShapeInv, JobShape, Activities, TaskActivities
    <3> QED
      BY <1>3, <2>1, <2>3, <3>1, <3>2, <3>3 DEF ItemGoes
  <2> QED
    BY <2>2, <2>3
<1>11. ASSUME NEW j \in Jobs, ActivityFails(j) \/ ActivityTimesOut(j)
      PROVE  ItemGoes(i)
  BY <1>3, <1>11 DEF ActivityFails, ActivityTimesOut
<1>12. ASSUME NEW a \in attempts, AttemptRefused(a)
      PROVE  ItemGoes(i)
  <2>1. CASE Current(a)
    <3>1. a.job \in Jobs /\ job[a.job].pc \in Activities
      BY <1>0, <1>12, <2>1 DEF Attempt, Current
    <3> QED
      BY <1>3, <1>12, <2>1, <3>1 DEF AttemptRefused
  <2>2. CASE ~Current(a)
    BY <1>12, <2>2, ItemStays DEF AttemptRefused
  <2> QED
    BY <2>1, <2>2
<1>4. ASSUME NEW j \in Jobs, JobTimesOut(j)
      PROVE  ItemGoes(i)
  <2>1. /\ job' = [job EXCEPT ![j] = EndJob(j, "failed")] /\ ensured' = ensured
        /\ job[j].pc \in Activities
        /\ j \in Items => j \in abandoned'
    BY <1>4 DEF JobTimesOut
  <2>2. CASE i # j
    BY <1>0, <2>1, <2>2, ItemStays
  <2>3. CASE i = j
    <3>1. job'[i] = EndJob(i, "failed")
      BY <1>0, <2>1, <2>3
    <3>2. job'[i].result = "failed" /\ job'[i].outcome = job[i].outcome
      BY <1>0, <2>1, <2>3, <3>1, EndingMoves
    <3> QED
      BY <2>1, <2>3, <3>2 DEF ItemGoes
  <2> QED
    BY <2>2, <2>3
<1>5. ASSUME NEW a \in attempts, AttemptReturns(a)
      PROVE  ItemGoes(i)
  <2>1. CASE ~Current(a)
    BY <1>5, <2>1, ItemStays DEF AttemptReturns
  <2>2. CASE Current(a)
    <3>1. /\ job' = [job EXCEPT ![a.job] = AfterActivity(a.job)]
          /\ ensured' = IF a.activity = "ensure" THEN ensured \cup {a.job} ELSE ensured
          /\ a.step = "done"
      BY <1>5, <2>2 DEF AttemptReturns
    <3>2. CASE i # a.job
      BY <1>0, <3>1, <3>2 DEF ItemGoes
    <3>3. CASE i = a.job
      <4>1. job'[i] = AfterActivity(i)
        BY <1>0, <3>1, <3>3
      <4>2. job[i].pc = a.activity /\ job[i].pc \in Activities
        BY <1>0, <2>2, <3>3 DEF Current, Attempt
      <4>3. /\ Moves(job[i], AfterActivity(i))
            /\ job[i].pc = "ensure" => AfterActivity(i).pc = "generate"
        BY <1>0, <4>2, AfterActivityMoves
      <4>4. job[i].pc \in {"ensure", "generate", "finish"}
        BY <1>0, <4>2 DEF ShapeInv, JobShape, Activities, TaskActivities
      <4>5. Returned(i, job[i].pc)
        BY <3>1, <3>3, <4>2 DEF Returned
      <4>6. job[i].pc # "ensure" => ensured' = ensured
        BY <3>1, <4>2
      <4>7. CASE job[i].pc = "ensure"
        BY <4>1, <4>3, <4>7 DEF ItemGoes, Moves
      <4>8. CASE job[i].pc = "generate"
        BY <4>1, <4>3, <4>5, <4>6, <4>8, AfterActivityMoves, <1>0, <4>2, ZenonT(60)
           DEF ItemGoes, AfterActivity, AwaitFinish, Job
      <4>9. CASE job[i].pc = "finish"
        BY <4>1, <4>3, <4>5, <4>6, <4>9 DEF ItemGoes, Moves
      <4> QED
        BY <4>4, <4>7, <4>8, <4>9
    <3> QED
      BY <3>2, <3>3
  <2> QED
    BY <2>1, <2>2
<1>6. ASSUME NEW a \in attempts, AttemptFails(a)
      PROVE  ItemGoes(i)
  <2>1. ensured' = ensured
    BY <1>6 DEF AttemptFails
  <2>2. job'[i].pc = job[i].pc /\ job'[i].outcome = job[i].outcome
    BY <1>0, <1>6 DEF AttemptFails, Job
  <2> QED
    BY <2>1, <2>2 DEF ItemGoes
<1>7. ASSUME NEW a \in attempts,
             \/ EnsureLookup(a) \/ EnsureInsert(a) \/ SaveSubReport(a)
             \/ FinishWrite(a) \/ FinishEvent(a) \/ SaveFinalReport(a)
      PROVE  ItemGoes(i)
  <2>1. job' = job /\ ensured' = ensured
    BY <1>7 DEF EnsureLookup, EnsureInsert, SaveSubReport, FinishWrite, FinishEvent,
       SaveFinalReport, workflows
  <2> QED
    BY <2>1, ItemStays
<1>8. CASE BatchSettles
  BY <1>0, <1>8, ItemStays DEF BatchSettles
<1>9. CASE BatchEnds \/ CancelBatch \/ UNCHANGED vars
  BY <1>9, ItemStays DEF BatchEnds, CancelBatch, vars, workflows
<1>10. CASE BatchTimesOut
  <2>1. /\ ensured' = ensured /\ job[i].pc # "ended" => i \in abandoned'
        /\ job'[i] = IF job[i].pc \in Activities THEN EndJob(i, "failed") ELSE job[i]
    BY <1>0, <1>10 DEF BatchTimesOut
  <2>2. CASE job[i].pc \in Activities
    <3>1. job'[i].result = "failed" /\ job'[i].outcome = job[i].outcome
      BY <1>0, <2>1, <2>2, EndingMoves
    <3> QED
      BY <1>10, <2>1, <3>1 DEF ItemGoes, BatchTimesOut
  <2>3. CASE job[i].pc \notin Activities
    BY <1>10, <2>1, <2>3, ItemStays DEF BatchTimesOut
  <2> QED
    BY <2>2, <2>3
<1> QED
  BY <1>1, <1>2, <1>4, <1>5, <1>6, <1>7, <1>8, <1>9, <1>10, <1>11, <1>12
     DEF Next, AttemptStep

\* What a step may do to an item's task and its events.
RowGoes(i) ==
    \/ task'[i] = task[i] /\ events'[i] = events[i]
    \/ task[i] = "none" /\ task'[i] = "running" /\ events'[i] = events[i]
    \/ \E a \in attempts :
          /\ a.job = i /\ a.activity = "finish" /\ a.step = "write"
          /\ task[i] \in {"running", a.status} /\ task'[i] = a.status
          /\ events'[i] = events[i]
    \/ \E a \in attempts :
          /\ a.job = i /\ a.activity = "finish" /\ a.step = "event"
          /\ task'[i] = task[i] /\ events'[i] = events[i] \cup {a.status}

\* What an attempt that made a step has written.
AttemptWrites ==
    \A a \in attempts' \ attempts :
        /\ a.activity = "finish" /\ a.step = "event" => task'[a.job] = a.status
        /\ a.activity = "finish" /\ a.step = "done" =>
              \E b \in attempts :
                 /\ b.job = a.job /\ b.activity = "finish" /\ b.step = "event"
                 /\ b.status = a.status
                 /\ task' = task /\ events'[a.job] = events[a.job] \cup {a.status}
        /\ a.activity = "generate" /\ a.step = "done" => a.job \in subReports'

RowsGrow ==
    subReports \subseteq subReports' /\ ensured \subseteq ensured' /\ abandoned \subseteq abandoned'

RowsMove == (\A i \in Items : RowGoes(i)) /\ AttemptWrites /\ RowsGrow

LEMMA RowsStay ==
    ASSUME UNCHANGED <<task, events, subReports>>, RowsGrow,
           \A a \in attempts' \ attempts :
              a.step \in {"lookup", "insert", "save", "write"} \/ a.activity \in {"ensure", "reduce", "notify"}
    PROVE  RowsMove
<1>1. \A i \in Items : RowGoes(i)
  BY DEF RowGoes
<1>2. AttemptWrites
  BY DEF AttemptWrites
<1> QED
  BY <1>1, <1>2 DEF RowsMove

LEMMA RowStep ==
    ASSUME ShapeInv, [Next]_vars
    PROVE  RowsMove
<1>0. /\ attempts \subseteq Attempt
      /\ task \in [Items -> {"none", "running"} \cup Terminal]
      /\ events \in [Items -> SUBSET Terminal]
  BY DEF ShapeInv, TypeOK
<1>1. ASSUME NEW j \in Jobs,
             \/ CancelJob(j) \/ AttemptTimesOut(j) \/ ActivityFails(j)
             \/ ActivityTimesOut(j) \/ JobTimesOut(j)
      PROVE  RowsMove
  <2>1. UNCHANGED <<task, events, subReports, attempts, ensured>> /\ RowsGrow
    BY <1>1 DEF CancelJob, AttemptTimesOut, ActivityFails, ActivityTimesOut, FailJob,
       JobTimesOut, rows, RowsGrow
  <2> QED
    BY <2>1, RowsStay
<1>2. ASSUME NEW j \in Jobs, StartAttempt(j)
      PROVE  RowsMove
  <2>1. UNCHANGED <<task, events, subReports>> /\ RowsGrow
    BY <1>2 DEF StartAttempt, rows, RowsGrow
  <2>2. \A a \in attempts' \ attempts :
           a.activity = job[j].pc /\ a.step = FirstStep(job[j].pc)
    BY <1>2 DEF StartAttempt
  <2>3. job[j].pc \in Activities
    BY <1>2 DEF StartAttempt
  <2>4. \/ FirstStep(job[j].pc) \in {"lookup", "insert", "save", "write"}
        \/ job[j].pc \in {"ensure", "reduce", "notify"}
    BY <2>3 DEF FirstStep, Activities, TaskActivities, FinalActivities
  <2> QED
    BY <2>1, <2>2, <2>4, RowsStay
<1>3. ASSUME NEW a \in attempts, AttemptReturns(a) \/ AttemptFails(a) \/ AttemptRefused(a)
      PROVE  RowsMove
  <2>1. UNCHANGED <<task, events, subReports>> /\ attempts' \subseteq attempts /\ RowsGrow
    BY <1>3 DEF AttemptReturns, AttemptFails, AttemptRefused, FailJob, rows, RowsGrow
  <2> QED
    BY <2>1, RowsStay
<1>4. ASSUME NEW a \in attempts, EnsureLookup(a) \/ EnsureInsert(a)
      PROVE  RowsMove
  <2>1. a.activity = "ensure"
    BY <1>0, <1>4 DEF EnsureLookup, EnsureInsert, ShapeInv, AttemptShape, StepsOf, Attempt,
       Activities, TaskActivities, FinalActivities
  <2>2. events' = events /\ subReports' = subReports /\ RowsGrow
    BY <1>4 DEF EnsureLookup, EnsureInsert, rows, RowsGrow
  <2>3. \A b \in attempts' \ attempts : b.activity = "ensure"
    BY <1>0, <1>4, <2>1 DEF EnsureLookup, EnsureInsert, MoveTo, Attempt
  <2>4. CASE task' = task
    BY <2>2, <2>3, <2>4, RowsStay
  <2>5. CASE task[a.job] = "none" /\ task' = [task EXCEPT ![a.job] = "running"]
    <3>1. \A i \in Items : RowGoes(i)
      BY <1>0, <2>2, <2>5 DEF RowGoes
    <3>2. AttemptWrites
      BY <2>3 DEF AttemptWrites
    <3> QED
      BY <2>2, <3>1, <3>2 DEF RowsMove
  <2> QED
    BY <1>4, <2>4, <2>5 DEF EnsureLookup, EnsureInsert, rows
<1>5. ASSUME NEW a \in attempts, SaveSubReport(a)
      PROVE  RowsMove
  <2>1. task' = task /\ events' = events /\ RowsGrow /\ a.job \in subReports'
    BY <1>5 DEF SaveSubReport, RowsGrow
  <2>2. \A b \in attempts' \ attempts : b.activity = "generate" /\ b.job = a.job
    BY <1>0, <1>5 DEF SaveSubReport, MoveTo, Attempt
  <2>3. AttemptWrites
    BY <2>1, <2>2 DEF AttemptWrites
  <2>4. \A i \in Items : RowGoes(i)
    BY <2>1 DEF RowGoes
  <2> QED
    BY <2>1, <2>3, <2>4 DEF RowsMove
<1>6. ASSUME NEW a \in attempts, FinishWrite(a)
      PROVE  RowsMove
  <2>1. /\ a.activity = "finish" /\ a.step = "write" /\ a.job \in Items
        /\ task[a.job] \in {"running", a.status}
        /\ task' = [task EXCEPT ![a.job] = a.status] /\ events' = events /\ RowsGrow
    <3>1. a.activity = "finish"
      BY <1>0, <1>6 DEF FinishWrite, ShapeInv, AttemptShape, StepsOf, Attempt,
         Activities, TaskActivities, FinalActivities
    <3>2. a.job \in Items
      BY <3>1 DEF ShapeInv, AttemptShape, TaskActivities
    <3> QED
      BY <1>6, <3>1, <3>2 DEF FinishWrite, FinishAccepts, workflows, RowsGrow
  <2>2. \A b \in attempts' \ attempts :
           /\ b.activity = "finish" /\ b.step = "event"
           /\ b.job = a.job /\ b.status = a.status
    BY <1>0, <1>6, <2>1 DEF FinishWrite, MoveTo, Attempt
  <2>3. AttemptWrites
    BY <1>0, <2>1, <2>2 DEF AttemptWrites
  <2>4. \A i \in Items : RowGoes(i)
    BY <1>0, <2>1 DEF RowGoes
  <2> QED
    BY <2>1, <2>3, <2>4 DEF RowsMove
<1>7. ASSUME NEW a \in attempts, FinishEvent(a)
      PROVE  RowsMove
  <2>1. /\ a.activity = "finish" /\ a.step = "event" /\ a.job \in Items
        /\ task' = task /\ RowsGrow
        /\ events' = [events EXCEPT ![a.job] = @ \cup {a.status}]
    <3>1. a.activity = "finish"
      BY <1>0, <1>7 DEF FinishEvent, ShapeInv, AttemptShape, StepsOf, Attempt,
         Activities, TaskActivities, FinalActivities
    <3>2. a.job \in Items
      BY <3>1 DEF ShapeInv, AttemptShape, TaskActivities
    <3> QED
      BY <1>7, <3>1, <3>2 DEF FinishEvent, workflows, RowsGrow
  <2>2. \A b \in attempts' \ attempts :
           /\ b.activity = "finish" /\ b.step = "done"
           /\ b.job = a.job /\ b.status = a.status
    BY <1>0, <1>7, <2>1 DEF FinishEvent, MoveTo, Attempt
  <2>3. AttemptWrites
    BY <1>0, <2>1, <2>2 DEF AttemptWrites
  <2>4. \A i \in Items : RowGoes(i)
    BY <1>0, <2>1 DEF RowGoes
  <2> QED
    BY <2>1, <2>3, <2>4 DEF RowsMove
<1>8. ASSUME NEW a \in attempts, SaveFinalReport(a)
      PROVE  RowsMove
  <2>1. UNCHANGED <<task, events, subReports>> /\ RowsGrow
    BY <1>8 DEF SaveFinalReport, RowsGrow
  <2>2. \A b \in attempts' \ attempts : b.activity = "reduce"
    BY <1>0, <1>8 DEF SaveFinalReport, MoveTo, Attempt
  <2> QED
    BY <2>1, <2>2, RowsStay
<1>9. CASE BatchSettles \/ BatchEnds \/ CancelBatch \/ BatchTimesOut \/ UNCHANGED vars
  <2>1. UNCHANGED <<task, events, subReports, attempts, ensured>> /\ RowsGrow
    BY <1>9 DEF BatchSettles, BatchEnds, CancelBatch, BatchTimesOut, vars, rows, RowsGrow
  <2> QED
    BY <2>1, RowsStay
<1> QED
  BY <1>1, <1>2, <1>3, <1>4, <1>5, <1>6, <1>7, <1>8, <1>9 DEF Next, AttemptStep

\* A terminal task stays as it is; so does a recorded pair of task and event.
LEMMA RecordedStays ==
    ASSUME RowInv, [Next]_vars, NEW i \in Items, task[i] \in Terminal
    PROVE  /\ task'[i] = task[i]
           /\ events[i] = {task[i]} => events'[i] = {task[i]}
<1>1. RowGoes(i)
  BY RowStep DEF RowInv, RowsMove
<1>2. \A a \in attempts : a.activity = "finish" /\ a.step = "event" => task[a.job] = a.status
  BY DEF RowInv, FinishWrites
<1> QED
  BY <1>1, <1>2 DEF RowGoes, Terminal

LEMMA InitRows == Init => RowInv
<1> SUFFICES ASSUME Init PROVE RowInv
  OBVIOUS
<1>0. /\ attempts = {} /\ ensured = {} /\ events = [i \in Items |-> {}]
      /\ \A i \in Items : job[i].outcome = "none" /\ job[i].result = "none"
  BY DEF Init, Jobs
<1>1. FinishWrites /\ EventsTellTheOutcome /\ EnsuredIsPastEnsure /\ EnsuredTaskIsFinished
  BY <1>0 DEF FinishWrites, EventsTellTheOutcome, EnsuredIsPastEnsure, EnsuredTaskIsFinished
<1>2. SubReportBehindSuccess /\ SuccessIsRecorded
  BY <1>0 DEF SubReportBehindSuccess, SuccessIsRecorded
<1> QED
  BY <1>1, <1>2, InitShape DEF RowInv

LEMMA RowInvStep == RowInv /\ [Next]_vars => RowInv'
<1> SUFFICES ASSUME RowInv, [Next]_vars PROVE RowInv'
  OBVIOUS
<1>0. /\ ShapeInv /\ ShapeInv' /\ RowsMove /\ JobsMove
      /\ \A i \in Items : ItemGoes(i) /\ RowGoes(i) /\ i \in Jobs /\ i # Final
      /\ AttemptWrites /\ RowsGrow
  <2>1. ShapeInv /\ ShapeInv'
    BY ShapeStep DEF RowInv
  <2>2. RowsMove /\ JobsMove
    BY <2>1, RowStep, StepMoves
  <2>3. \A i \in Items : ItemGoes(i)
    BY <2>1, ItemStep
  <2> QED
    BY <2>1, <2>2, <2>3, BatchAssumption DEF RowsMove, Jobs
<1>1. FinishWrites'
  <2> SUFFICES ASSUME NEW a \in attempts', a.activity = "finish"
               PROVE  /\ a.step \in {"event", "done"} => task'[a.job] = a.status
                      /\ a.step = "done" => events'[a.job] = {a.status}
    BY DEF FinishWrites
  <2>1. a.job \in Items /\ a.status \in Terminal
    BY <1>0 DEF ShapeInv, AttemptShape, TaskActivities
  <2>2. CASE a \in attempts
    <3>1. /\ a.step \in {"event", "done"} => task[a.job] = a.status
          /\ a.step = "done" => events[a.job] = {a.status}
      BY <2>2 DEF RowInv, FinishWrites
    <3> QED
      BY <2>1, <3>1, RecordedStays
  <2>3. CASE a \notin attempts
    <3>1. a.step = "event" => task'[a.job] = a.status
      BY <1>0, <2>3 DEF AttemptWrites
    <3>2. ASSUME a.step = "done"
          PROVE  task'[a.job] = a.status /\ events'[a.job] = {a.status}
      <4>1. PICK b \in attempts :
                 /\ b.job = a.job /\ b.activity = "finish" /\ b.step = "event"
                 /\ b.status = a.status
                 /\ task' = task /\ events'[a.job] = events[a.job] \cup {a.status}
        BY <1>0, <2>3, <3>2 DEF AttemptWrites
      <4>2. task[a.job] = a.status
        BY <4>1 DEF RowInv, FinishWrites
      <4>3. events[a.job] \subseteq {a.status}
        BY <2>1, <4>2 DEF RowInv, EventsTellTheOutcome
      <4> QED
        BY <4>1, <4>2, <4>3
    <3> QED
      BY <3>1, <3>2
  <2> QED
    BY <2>2, <2>3
<1>2. EventsTellTheOutcome'
  <2> SUFFICES ASSUME NEW i \in Items PROVE events'[i] \subseteq {task'[i]}
    BY DEF EventsTellTheOutcome
  <2>1. events[i] \subseteq {task[i]} /\ events[i] \subseteq Terminal
    BY DEF RowInv, EventsTellTheOutcome, ShapeInv, TypeOK
  <2>2. CASE task[i] \in Terminal
    <3>1. task'[i] = task[i]
      BY <2>2, RecordedStays
    <3>2. \A a \in attempts : a.job = i /\ a.activity = "finish" /\ a.step = "event" => task[i] = a.status
      BY DEF RowInv, FinishWrites
    <3> QED
      BY <1>0, <2>1, <3>1, <3>2 DEF RowGoes
  <2>3. CASE task[i] \notin Terminal
    <3>1. events[i] = {}
      BY <2>1, <2>3
    <3>2. \A a \in attempts : a.job = i /\ a.activity = "finish" /\ a.step = "event" => task[i] = a.status
      BY DEF RowInv, FinishWrites
    <3> QED
      BY <1>0, <3>1, <3>2 DEF RowGoes
  <2> QED
    BY <2>2, <2>3
<1>3. SubReportBehindSuccess'
  <2>1. ASSUME NEW a \in attempts', a.activity = "generate", a.step = "done"
        PROVE  a.job \in subReports'
    <3>1. CASE a \in attempts
      BY <1>0, <2>1, <3>1 DEF RowInv, SubReportBehindSuccess, RowsGrow
    <3>2. CASE a \notin attempts
      BY <1>0, <2>1, <3>2 DEF AttemptWrites
    <3> QED
      BY <3>1, <3>2
  <2>2. ASSUME NEW i \in Items, job'[i].outcome = "succeeded"
        PROVE  i \in subReports'
    BY <1>0, <2>2 DEF ItemGoes, Returned, RowInv, SubReportBehindSuccess, RowsGrow
  <2> QED
    BY <2>1, <2>2 DEF SubReportBehindSuccess
<1>4. SuccessIsRecorded'
  <2> SUFFICES ASSUME NEW i \in Items, job'[i].result = "succeeded"
               PROVE  /\ i \in subReports'
                      /\ task'[i] = "succeeded" /\ events'[i] = {"succeeded"}
    BY DEF SuccessIsRecorded
  <2>1. job'[i].pc = "ended"
    BY <1>0 DEF ShapeInv, JobShape, Terminal
  <2>2. CASE job[i].pc = "ended"
    <3>1. job[i].result = "succeeded"
      BY <1>0, <2>2 DEF JobsMove, Moves, Keeps, Activities, TaskActivities, FinalActivities
    <3>2. i \in subReports /\ task[i] = "succeeded" /\ events[i] = {"succeeded"}
      BY <3>1 DEF RowInv, SuccessIsRecorded
    <3> QED
      BY <1>0, <3>2, RecordedStays DEF RowsGrow, Terminal
  <2>3. CASE job[i].pc # "ended"
    <3>1. PICK a \in attempts : a.job = i /\ a.activity = "finish" /\ a.step = "done"
      BY <1>0, <2>1, <2>3 DEF ItemGoes, Returned
    <3>2. /\ a.status \in Terminal /\ a.status = job[i].outcome
          /\ job[i].pc = "finish"
      BY <1>0, <2>3, <3>1 DEF ShapeInv, AttemptShape
    <3>3. task[i] = a.status /\ events[i] = {a.status}
      BY <3>1 DEF RowInv, FinishWrites
    <3>4. Moves(job[i], job'[i])
      BY <1>0, <2>1, <2>3 DEF JobsMove, Keeps
    <3>5. job[i].outcome = "succeeded"
      BY <2>1, <3>2, <3>4 DEF Moves, ShapeInv, JobShape, Terminal
    <3>6. i \in subReports
      BY <3>5 DEF RowInv, SubReportBehindSuccess
    <3> QED
      BY <1>0, <3>2, <3>3, <3>5, <3>6, RecordedStays DEF RowsGrow
  <2> QED
    BY <2>2, <2>3
<1>5. EnsuredIsPastEnsure'
  <2> SUFFICES ASSUME NEW i \in ensured'
               PROVE  job'[i].pc \in {"generate", "finish", "ended"}
    BY DEF EnsuredIsPastEnsure
  <2>1. i \in Items
    BY <1>0 DEF ShapeInv, TypeOK
  <2>2. CASE i \in ensured
    <3>1. job[i].pc \in {"generate", "finish", "ended"}
      BY <2>2 DEF RowInv, EnsuredIsPastEnsure
    <3> QED
      BY <1>0, <2>1, <3>1 DEF JobsMove, Moves, Keeps, Activities, TaskActivities, FinalActivities
  <2>3. CASE i \notin ensured
    BY <1>0, <2>1, <2>3 DEF ItemGoes
  <2> QED
    BY <2>2, <2>3
<1>6. EnsuredTaskIsFinished'
  <2> SUFFICES ASSUME NEW i \in ensured' \ abandoned', job'[i].pc = "ended"
               PROVE  task'[i] \in Terminal /\ events'[i] = {task'[i]}
    BY DEF EnsuredTaskIsFinished
  <2>1. i \in Items /\ i \in ensured \ abandoned
    BY <1>0 DEF ShapeInv, TypeOK, ItemGoes, RowsGrow
  <2>2. CASE job[i].pc = "ended"
    <3>1. task[i] \in Terminal /\ events[i] = {task[i]}
      BY <2>1, <2>2 DEF RowInv, EnsuredTaskIsFinished
    <3> QED
      BY <2>1, <3>1, RecordedStays
  <2>3. CASE job[i].pc # "ended"
    <3>1. job[i].pc # "ensure"
      BY <2>1 DEF RowInv, EnsuredIsPastEnsure
    <3>2. PICK a \in attempts : a.job = i /\ a.activity = "finish" /\ a.step = "done"
      BY <1>0, <2>1, <2>3, <3>1 DEF ItemGoes, Returned
    <3>3. a.status \in Terminal
      BY <1>0, <3>2 DEF ShapeInv, AttemptShape
    <3>4. task[i] = a.status /\ events[i] = {a.status}
      BY <3>2 DEF RowInv, FinishWrites
    <3> QED
      BY <2>1, <3>3, <3>4, RecordedStays
  <2> QED
    BY <2>2, <2>3
<1> QED
  BY <1>0, <1>1, <1>2, <1>3, <1>4, <1>5, <1>6 DEF RowInv

\* Whatever is retried, timed out or cancelled, an event tells what its task
\* says (FinishReportTask).
THEOREM EventsAgree == Spec => []EventsTellTheOutcome
<1>1. RowInv => EventsTellTheOutcome
  BY DEF RowInv
<1> QED
  BY <1>1, InitRows, RowInvStep, PTL DEF Spec

\* A task that was ensured is finished when its child ends, unless the child was
\* abandoned (reportFanOutWorkflowWithTaskLifecycle).
THEOREM EnsuredTasksFinish == Spec => []EnsuredTaskIsFinished
<1>1. RowInv => EnsuredTaskIsFinished
  BY DEF RowInv
<1> QED
  BY <1>1, InitRows, RowInvStep, PTL DEF Spec

\* No step takes back the outcome of a task (DiagnosisTask.Finish).
THEOREM EndedTasksStay == Spec => EndedTaskIsFinal
<1>1. RowInv /\ [Next]_vars =>
        [\A i \in Items : task[i] \in Terminal => task'[i] = task[i]]_vars
  BY RecordedStays
<1> QED
  BY <1>1, InitRows, RowInvStep, PTL DEF Spec, EndedTaskIsFinal

-----------------------------------------------------------------------------

\* Once the final child was released the children stay as they settled.
LEMMA SettledStays ==
    ASSUME RowInv, [Next]_vars, Settled
    PROVE  /\ Settled' /\ Succeeded' = Succeeded
           /\ SomeChildCancelled' = SomeChildCancelled
<1>1. JobsMove /\ \A i \in Items : i \in Jobs /\ i # Final
  BY StepMoves, BatchAssumption DEF RowInv, Jobs
<1>2. \A i \in Items : job'[i].pc = "ended" /\ job'[i].result = job[i].result
  BY <1>1 DEF Settled, JobsMove, Moves, Keeps, Activities, TaskActivities, FinalActivities
<1> QED
  BY <1>2 DEF Settled, Succeeded, SomeChildCancelled

LEMMA ReportMoves ==
    ASSUME [Next]_vars
    PROVE  \/ report' = report
           \/ /\ \E a \in attempts : a.activity = "reduce"
              /\ report = NoReport
              /\ report' = [linked |-> Succeeded, failed |-> Cardinality(Items \ Succeeded)]
<1>1. ASSUME NEW a \in attempts, SaveFinalReport(a)
      PROVE  \/ report' = report
             \/ /\ \E b \in attempts : b.activity = "reduce"
                /\ report = NoReport
                /\ report' = [linked |-> Succeeded, failed |-> Cardinality(Items \ Succeeded)]
  BY <1>1 DEF SaveFinalReport
<1>2. ASSUME NEW j \in Jobs,
             \/ CancelJob(j) \/ StartAttempt(j) \/ AttemptTimesOut(j)
             \/ ActivityFails(j) \/ ActivityTimesOut(j) \/ JobTimesOut(j)
      PROVE  report' = report
  BY <1>2 DEF CancelJob, StartAttempt, AttemptTimesOut, ActivityFails, ActivityTimesOut,
     JobTimesOut, rows
<1>3. ASSUME NEW a \in attempts,
             \/ AttemptReturns(a) \/ AttemptFails(a) \/ AttemptRefused(a)
             \/ EnsureLookup(a) \/ EnsureInsert(a)
             \/ SaveSubReport(a) \/ FinishWrite(a) \/ FinishEvent(a)
      PROVE  report' = report
  BY <1>3 DEF AttemptReturns, AttemptFails, AttemptRefused, EnsureLookup, EnsureInsert, SaveSubReport,
     FinishWrite, FinishEvent, rows
<1>4. CASE BatchSettles \/ BatchEnds \/ CancelBatch \/ BatchTimesOut \/ UNCHANGED vars
  BY <1>4 DEF BatchSettles, BatchEnds, CancelBatch, BatchTimesOut, vars, rows
<1> QED
  BY <1>1, <1>2, <1>3, <1>4 DEF Next, AttemptStep

LEMMA InitReduce == Init => ReduceInv
<1> SUFFICES ASSUME Init PROVE ReduceInv
  OBVIOUS
<1>1. RowInv
  BY InitRows
<1>2. ReduceAfterSettling
  BY DEF Init, ReduceAfterSettling, Jobs
<1>3. ReportIsSettled
  BY DEF Init, ReportIsSettled
<1> QED
  BY <1>1, <1>2, <1>3 DEF ReduceInv

LEMMA ReduceInvStep == ReduceInv /\ [Next]_vars => ReduceInv'
<1> SUFFICES ASSUME ReduceInv, [Next]_vars PROVE ReduceInv'
  OBVIOUS
<1>0. /\ RowInv /\ RowInv' /\ ShapeInv /\ JobsMove /\ AttemptsMove
      /\ Final \in Jobs
  <2>1. RowInv /\ RowInv' /\ ShapeInv
    BY RowInvStep DEF ReduceInv, RowInv
  <2> QED
    BY <2>1, StepMoves DEF Jobs
<1>1. job'[Final].pc # "waiting" => Settled /\ ~SomeChildCancelled /\ ThresholdMet
  <2>1. CASE job[Final].pc # "waiting"
    BY <2>1 DEF ReduceInv, ReduceAfterSettling
  <2>2. CASE job[Final].pc = "waiting" /\ job'[Final].pc # "waiting"
    BY <1>0, <2>2 DEF JobsMove, Moves, Keeps, Released, Activities, TaskActivities, FinalActivities
  <2> QED
    BY <2>1, <2>2
<1>2. job'[Final].pc # "waiting" =>
         /\ Settled' /\ Succeeded' = Succeeded
         /\ ~SomeChildCancelled' /\ ThresholdMet'
  <2>1. Settled /\ Succeeded' = Succeeded /\ ThresholdMet => ThresholdMet'
    BY DEF ThresholdMet
  <2> QED
    BY <1>0, <1>1, <2>1, SettledStays
<1>3. job[Final].pc # "waiting" => job'[Final].pc # "waiting"
  BY <1>0 DEF JobsMove, Moves, Keeps, Released, Activities, TaskActivities, FinalActivities, Terminal
<1>4. ReduceAfterSettling'
  <2>1. ASSUME NEW a \in attempts', a.activity \in FinalActivities
        PROVE  job'[Final].pc # "waiting"
    <3>1. CASE \E b \in attempts : b.activity = a.activity
      BY <1>3, <2>1, <3>1 DEF ReduceInv, ReduceAfterSettling
    <3>2. CASE a \notin attempts /\ a.activity = job[a.job].pc
      <4>1. a.job \in Jobs
        BY <1>0, <3>2 DEF AttemptsMove, Attempt
      <4>2. a.job = Final
        BY <1>0, <2>1, <3>2, <4>1 DEF ShapeInv, JobShape
      <4> QED
        BY <1>3, <2>1, <3>2, <4>2 DEF FinalActivities
    <3> QED
      BY <1>0, <3>1, <3>2 DEF AttemptsMove
  <2> QED
    BY <1>2, <2>1 DEF ReduceAfterSettling
<1>5. ReportIsSettled'
  <2> SUFFICES ASSUME report' # NoReport
               PROVE  /\ report' = [linked |-> Succeeded', failed |-> Cardinality(Items \ Succeeded')]
                      /\ job'[Final].pc # "waiting"
    BY DEF ReportIsSettled
  <2>1. job[Final].pc # "waiting"
    BY ReportMoves DEF ReduceInv, ReduceAfterSettling, ReportIsSettled, FinalActivities
  <2>2. Succeeded' = Succeeded /\ job'[Final].pc # "waiting"
    BY <1>2, <1>3, <2>1
  <2>3. report' = [linked |-> Succeeded, failed |-> Cardinality(Items \ Succeeded)]
    BY ReportMoves DEF ReduceInv, ReportIsSettled
  <2> QED
    BY <2>2, <2>3
<1> QED
  BY <1>0, <1>4, <1>5 DEF ReduceInv

\* For any number of items and any threshold a FinalReport covers what it says:
\* the children that succeeded, all recorded, the others counted within the
\* threshold (reportBatchWorkflowWithPartialFanIn, GenerateFinalReport).
THEOREM FinalReportsHonest == Spec => []FinalReportHonest
<1>1. ReduceInv => FinalReportHonest
  <2> SUFFICES ASSUME ReduceInv, report # NoReport
               PROVE  /\ report.linked # {}
                      /\ report.failed <= MaxFailedSubReports
                      /\ report.failed = Cardinality(Items \ report.linked)
                      /\ \A i \in report.linked :
                            /\ job[i].result = "succeeded"
                            /\ i \in subReports
                            /\ task[i] = "succeeded" /\ events[i] = {"succeeded"}
                      /\ \A i \in Items \ report.linked : job[i].result = "failed"
    BY DEF FinalReportHonest
  <2>1. report.linked = Succeeded /\ report.failed = Cardinality(Items \ Succeeded)
    BY DEF ReduceInv, ReportIsSettled
  <2>2. Settled /\ ~SomeChildCancelled /\ ThresholdMet
    BY DEF ReduceInv, ReportIsSettled, ReduceAfterSettling
  <2>3. ASSUME NEW i \in Items \ Succeeded
        PROVE  job[i].result = "failed"
    <3>1. job[i].result \in Terminal
      BY <2>2 DEF Settled, ReduceInv, RowInv, ShapeInv, JobShape, Jobs
    <3> QED
      BY <2>2, <3>1 DEF SomeChildCancelled, Succeeded, Terminal
  <2>4. \A i \in Succeeded :
           /\ job[i].result = "succeeded"
           /\ i \in subReports
           /\ task[i] = "succeeded" /\ events[i] = {"succeeded"}
    BY DEF Succeeded, ReduceInv, RowInv, SuccessIsRecorded
  <2> QED
    BY <2>1, <2>2, <2>3, <2>4 DEF ThresholdMet
<1> QED
  BY <1>1, InitReduce, ReduceInvStep, PTL DEF Spec

=============================================================================
