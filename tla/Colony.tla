------------------------------- MODULE Colony -------------------------------
(***************************************************************************)
(* Benchmark.run (colony/benchmark.py): one batch of staged jobs is run by *)
(* the naive runner (baseline.py), which starts a job again from its first *)
(* stage after an eviction, and then by the colony controller              *)
(* (controller.py, store_ext.py), which goes on from its last checkpoint.  *)
(* Both meet the same schedule of evictions on a fresh pool of instances.  *)
(*                                                                         *)
(* Time is whole seconds and an instance costs one unit a second.  Jobs,   *)
(* stages and slots count from 0; instances are numbered by acquire(), and *)
(* 0 is no instance.                                                       *)
(***************************************************************************)
EXTENDS Integers, FiniteSets

CONSTANTS
  BatchSize,   \* jobs in the batch
  Duration,    \* the seconds each stage of a job takes, from stage 0 on
  PoolSize,    \* slots, one job at a time on one of them
  MaxRetries,  \* NaiveRunner.max_retries
  Schedules,   \* the schedules Benchmark may generate: sets of evictions
  Budgets      \* the budgets it may be given

Stages == DOMAIN Duration
StageCount == Cardinality(Stages)
Jobs == 0 .. BatchSize - 1
Slots == 0 .. PoolSize - 1
Runners == {"naive", "colony"}
JobStatuses == {"queued", "running", "recovering", "checkpointed", "completed"}

ASSUME BatchAssumption ==
  /\ BatchSize \in Nat \ {0} /\ PoolSize \in Nat \ {0} /\ MaxRetries \in Nat
  /\ IsFiniteSet(Stages) /\ StageCount \in Nat \ {0} /\ Stages = 0 .. StageCount - 1
  /\ \A s \in Stages : Duration[s] \in Nat \ {0}
ASSUME ScheduleAssumption ==
  /\ Schedules \subseteq SUBSET [at : Nat, slot : Slots]
  /\ \A S \in Schedules : IsFiniteSet(S)
  /\ \A b \in Budgets : b \in Nat

VARIABLES
  schedule, budget,  \* the arguments of the benchmark
  runner, pc,        \* whose run_batch is running, and where it is
  job, stage,        \* the loop variables: job index, stage to run
  attempt,           \* attempts of the job (naive)
  now,               \* the clock the loops share
  pool, healthy, acquired, \* instances by slot; those not lost; how many
  report,            \* the RunReport of each runner
  row, output,       \* colony_jobs; the instance in each checkpointed output
  dispatched         \* side_effect_log: the instance each stage went to

loop == <<runner, pc, job, stage, attempt, now>>
instances == <<pool, healthy, acquired>>
rows == <<row, output, dispatched>>
vars == <<schedule, budget, loop, instances, report, rows>>

Report == [completed : Nat, failed : Nat, lost : Nat, spent : Nat, halted : BOOLEAN]

TypeOK ==
  /\ schedule \subseteq [at : Nat, slot : Slots] /\ budget \in Nat
  /\ runner \in Runners /\ pc \in {"start", "job", "dispatch", "run", "complete", "report", "done"}
  /\ job \in 0 .. BatchSize /\ stage \in Stages /\ attempt \in 0 .. MaxRetries + 1
  /\ now \in Nat /\ acquired \in Nat
  /\ pool \in [Slots -> 0 .. acquired] /\ healthy \in SUBSET (1 .. acquired)
  /\ report \in [Runners -> Report]
  /\ row \in [Jobs -> [stage : -1 .. StageCount - 1, status : JobStatuses, instance : Nat]]
  /\ output \in [Jobs -> [Stages -> Nat]] /\ dispatched \in [Jobs -> [Stages -> Nat]]

NoReport == [completed |-> 0, failed |-> 0, lost |-> 0, spent |-> 0, halted |-> FALSE]
Queued == [stage |-> -1, status |-> "queued", instance |-> 0]
Nothing == [j \in Jobs |-> [s \in Stages |-> 0]]

Init ==
  /\ schedule \in Schedules /\ budget \in Budgets
  /\ runner = "naive" /\ pc = "start" /\ job = 0 /\ stage = 0 /\ attempt = 0 /\ now = 0
  /\ pool = [s \in Slots |-> 0] /\ healthy = {} /\ acquired = 0
  /\ report = [r \in Runners |-> NoReport]
  /\ row = [j \in Jobs |-> Queued] /\ output = Nothing /\ dispatched = Nothing
-----------------------------------------------------------------------------
(* The pool, the schedule and the accountant.                              *)

\* slot = job_index % pool_size
Slot == job % PoolSize
Instance == pool[Slot]

\* provider.acquire puts a new, healthy instance into the slot.
Acquire ==
  /\ acquired' = acquired + 1
  /\ pool' = [pool EXCEPT ![Slot] = acquired + 1]

\* The offsets at which ChaosSchedule.between finds an eviction of the slot
\* between now and the end of the stage; it returns the earliest.
End == now + Duration[stage]
Hits == {e.at : e \in {x \in schedule : x.slot = Slot /\ now < x.at /\ x.at <= End}}
Eviction == CHOOSE t \in Hits : \A u \in Hits : t <= u

\* CostAccountant.charge, with total() put into the report.
SlipPaidBy(t) == report[runner].spent + Duration[stage]
PaidBy(t) == report[runner].spent + (t - now)

\* The report with a stage, or the part of it up to t, paid.
Charged(t) == [report[runner] EXCEPT !.spent = PaidBy(t)]

\* run_batch: a full pool, and a row for each job (colony).  The rows of the
\* naive runner are never written.
StartBatch ==
  /\ pc = "start"
  /\ pool' = [s \in Slots |-> s + 1] /\ acquired' = PoolSize /\ healthy' = 1 .. PoolSize
  /\ pc' = "job"
  /\ UNCHANGED <<schedule, budget, runner, job, stage, attempt, now, report, rows>>

LostReport == [Charged(Eviction) EXCEPT !.lost = @ + 1, !.halted = PaidBy(Eviction) >= budget]
LoseInstance ==
  /\ now' = Eviction
  /\ IF LostReport.halted
     THEN healthy' = healthy \ {Instance} /\ UNCHANGED <<pool, acquired>>
     ELSE Acquire /\ healthy' = (healthy \ {Instance}) \cup {acquired + 1}

\* The report after a whole stage: halted if it overspends.
DoneReport == [Charged(End) EXCEPT !.halted = PaidBy(End) > budget]
-----------------------------------------------------------------------------
(* NaiveRunner: a job fails after MaxRetries + 1 evictions.                *)

NaiveJob ==
  /\ runner = "naive" /\ pc = "job" /\ job < BatchSize
  /\ attempt' = 0 /\ stage' = 0 /\ pc' = "run"
  /\ UNCHANGED <<schedule, budget, runner, job, now, instances, report, rows>>

\* The job is over: run_batch counts it, and leaves its loop if the budget is.
NaiveJobEnds(rep, outcome) ==
  /\ report' = [report EXCEPT !.naive = [rep EXCEPT ![outcome] = @ + 1]]
  /\ job' = job + 1
  /\ pc' = IF rep.halted THEN "report" ELSE "job"

NaiveGoesOn(rep) ==
  /\ report' = [report EXCEPT !.naive = rep]
  /\ UNCHANGED <<job, pc>>

NaiveStageDone ==
  /\ runner = "naive" /\ pc = "run" /\ Hits = {}
  /\ now' = End
  /\ \/ /\ DoneReport.halted
        /\ NaiveJobEnds(DoneReport, "failed") /\ UNCHANGED stage
     \/ /\ ~DoneReport.halted /\ stage + 1 = StageCount
        /\ NaiveJobEnds(DoneReport, "completed") /\ UNCHANGED stage
     \/ /\ ~DoneReport.halted /\ stage + 1 < StageCount
        /\ NaiveGoesOn(DoneReport) /\ stage' = stage + 1
  /\ UNCHANGED <<schedule, budget, runner, attempt, instances, rows>>

NaiveStageLost ==
  /\ runner = "naive" /\ pc = "run" /\ Hits # {}
  /\ LoseInstance
  /\ attempt' = attempt + 1 /\ stage' = 0
  /\ IF LostReport.halted \/ attempt + 1 > MaxRetries
     THEN NaiveJobEnds(LostReport, "failed")
     ELSE NaiveGoesOn(LostReport)
  /\ UNCHANGED <<schedule, budget, runner, rows>>
-----------------------------------------------------------------------------
(* ColonyController: a job is left only when it is complete or the money   *)
(* is spent, so that the FAILED branch of run_batch is never taken.        *)

\* The top of run_batch's loop, with its health check.
PickJob ==
  /\ runner = "colony" /\ pc = "job" /\ job < BatchSize
  /\ \/ /\ report.colony.spent >= budget
        /\ report' = [report EXCEPT !.colony.halted = TRUE]
        /\ pc' = "report" /\ UNCHANGED <<stage, instances>>
     \/ /\ report.colony.spent < budget
        /\ IF Instance \in healthy
           THEN UNCHANGED instances
           ELSE Acquire /\ healthy' = healthy \cup {acquired + 1}
        /\ stage' = row[job].stage + 1 /\ pc' = "dispatch" /\ UNCHANGED report
  /\ UNCHANGED <<schedule, budget, runner, job, attempt, now, rows>>

\* dispatch_once logs the first instance a stage goes to and leaves a later
\* one out; save_job writes the row.
Dispatch ==
  /\ runner = "colony" /\ pc = "dispatch"
  /\ row' = [row EXCEPT ![job].status = "running", ![job].instance = Instance]
  /\ dispatched' = IF dispatched[job][stage] = 0
                   THEN [dispatched EXCEPT ![job][stage] = Instance] ELSE dispatched
  /\ pc' = "run"
  /\ UNCHANGED <<schedule, budget, runner, job, stage, attempt, now, instances, report, output>>

\* An eviction: the job goes on with the same stage on another instance.
SlipStageLost ==
  /\ runner = "colony" /\ pc = "run" /\ Hits # {}
  /\ LoseInstance
  /\ report' = [report EXCEPT !.colony = LostReport]
  /\ row' = [row EXCEPT ![job].status = "recovering"]
  /\ pc' = IF LostReport.halted THEN "report" ELSE "dispatch"
  /\ stage' = 0
  /\ UNCHANGED <<schedule, budget, runner, job, attempt, output, dispatched>>
StageLost ==
  /\ runner = "colony" /\ pc = "run" /\ Hits # {}
  /\ LoseInstance
  /\ report' = [report EXCEPT !.colony = LostReport]
  /\ row' = [row EXCEPT ![job].status = "recovering"]
  /\ pc' = IF LostReport.halted THEN "report" ELSE "dispatch"
  /\ UNCHANGED <<schedule, budget, runner, job, stage, attempt, output, dispatched>>

\* The stage ran to its end: it is paid, and if that was not too much
\* checkpoint_job saves its output and then the row.
StageDone ==
  /\ runner = "colony" /\ pc = "run" /\ Hits = {}
  /\ now' = End
  /\ report' = [report EXCEPT !.colony = DoneReport]
  /\ \/ /\ DoneReport.halted
        /\ pc' = "report" /\ UNCHANGED <<job, stage, row, output>>
     \/ /\ ~DoneReport.halted
        /\ output' = [output EXCEPT ![job][stage] = Instance]
        /\ row' = [row EXCEPT ![job].stage = stage, ![job].status = "checkpointed"]
        /\ IF stage + 1 = StageCount
           THEN pc' = "complete" /\ UNCHANGED stage
           ELSE pc' = "dispatch" /\ stage' = stage + 1
        /\ UNCHANGED job
  /\ UNCHANGED <<schedule, budget, runner, attempt, instances, dispatched>>

SlipCompleteJob ==
  /\ runner = "colony" /\ pc = "complete"
  /\ report' = [report EXCEPT !.colony.completed = @ + 1]
  /\ row' = [row EXCEPT ![job].status = "completed"]
  /\ job' = job + 1 /\ pc' = IF report.colony.lost = 0 THEN "job" ELSE "report"
  /\ UNCHANGED <<schedule, budget, runner, stage, attempt, now, instances, output, dispatched>>
CompleteJob ==
  /\ runner = "colony" /\ pc = "complete"
  /\ report' = [report EXCEPT !.colony.completed = @ + 1]
  /\ row' = [row EXCEPT ![job].status = "completed"]
  /\ job' = job + 1 /\ pc' = "job"
  /\ UNCHANGED <<schedule, budget, runner, stage, attempt, now, instances, output, dispatched>>
-----------------------------------------------------------------------------
\* run_batch returns its report.  After the naive runner Benchmark.run starts
\* the colony with a clone of the batch, a new provider and the same schedule.
EndBatch ==
  /\ pc = "report" \/ (pc = "job" /\ job = BatchSize)
  /\ IF runner = "naive"
     THEN /\ runner' = "colony" /\ pc' = "start" /\ job' = 0 /\ now' = 0
          /\ stage' = 0 /\ attempt' = 0
     ELSE pc' = "done" /\ UNCHANGED <<runner, job, now, stage, attempt>>
  /\ UNCHANGED <<schedule, budget, instances, report, rows>>

Next ==
  \/ StartBatch \/ EndBatch
  \/ NaiveJob \/ NaiveStageDone \/ NaiveStageLost
  \/ PickJob \/ Dispatch \/ StageLost \/ StageDone \/ CompleteJob

Spec == Init /\ [][Next]_vars
FairSpec == Spec /\ WF_vars(Next)
-----------------------------------------------------------------------------
(* Properties.                                                             *)

\* Every second of the clock is paid exactly once, over evictions and over
\* the change to another instance (CostAccountant; colony-spec.md: cost "is
\* computed from recorded instance-seconds"), so the budget is overrun by no
\* more than one stage, and only in a report that says halted.
SpendBounded ==
  \A r \in Runners :
    /\ r = runner /\ pc # "start" => report[r].spent = now
    /\ report[r].spent <= budget \/ report[r].halted
    /\ \E s \in Stages : report[r].spent <= budget + Duration[s]

\* A stage is never active twice: the instance the dispatch log names is the
\* one that runs it, or has been lost, and no output is there without it
\* (dispatch_once ignores the second instance of a stage).
NoDuplicateActiveDispatch ==
  runner = "colony" /\ pc = "run" =>
    /\ Instance \in healthy /\ row[job].instance = Instance
    /\ dispatched[job][stage] # Instance => dispatched[job][stage] \notin healthy \cup {0}
    /\ \A j \in Jobs, s \in Stages : output[j][s] # 0 => dispatched[j][s] # 0

\* A job resumes from its last checkpoint and no output is replaced: the row
\* and the checkpointed outputs name the same stages.
ResumesFromCheckpoint ==
  /\ \A j \in Jobs : row[j].stage = Cardinality({s \in Stages : output[j][s] # 0}) - 1
  /\ runner = "colony" /\ pc \in {"dispatch", "run"} => stage = row[job].stage + 1

\* What checkpoints are for: no work is done twice.
WorkDoneOnce == NoDuplicateActiveDispatch /\ ResumesFromCheckpoint

\* The benchmark ends, because an eviction moves the clock to its own offset
\* and so cannot be met twice; and unless it ran out of money the colony has
\* completed every job.
BenchmarkEnds ==
  <>(pc = "done" /\ (report.colony.halted \/ report.colony.completed = BatchSize))
=============================================================================
