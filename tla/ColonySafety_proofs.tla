-------------------------- MODULE ColonySafety_proofs --------------------------
(***************************************************************************)
(* The budget and the checkpoints of the colony benchmark, for any batch,  *)
(* pool, durations, schedule of evictions and budget: every second is paid *)
(* once and no more than one stage too many, and no stage is done twice.   *)
(***************************************************************************)
EXTENDS Colony, FiniteSetTheorems, TLAPS

Top == StageCount - 1

\* The money: what is paid is the clock, and only a report that says halted is over the budget.
Money ==
  /\ pc # "start" => report[runner].spent = now
  /\ pc = "start" => now = 0 /\ report[runner] = NoReport
  /\ runner = "naive" => report["colony"] = NoReport
  /\ pc \in {"job", "dispatch", "run", "complete"} => ~report[runner].halted
  /\ \A r \in Runners :
       /\ report[r].spent <= budget \/ report[r].halted
       /\ \E s \in Stages : report[r].spent <= budget + Duration[s]

\* The loops: where each runner may be.
Loops ==
  /\ pc \in {"dispatch", "run", "complete"} => job < BatchSize
  /\ runner = "naive" => pc \in {"start", "job", "run", "report"}
  /\ runner = "naive" /\ pc = "run" => attempt <= MaxRetries

\* The checkpoints: the outputs of a job are those of its stages up to the row's, and a stage
\* is in the dispatch log only if it is one of them or the one being worked on.
Saved ==
  /\ runner = "naive" \/ pc = "start" =>
       /\ \A j \in Jobs : row[j].stage = -1
       /\ \A j \in Jobs, s \in Stages : output[j][s] = 0 /\ dispatched[j][s] = 0
  /\ runner = "colony" =>
       /\ \A j \in Jobs : j > job \/ (j = job /\ pc = "job") => row[j].stage = -1
       /\ pc = "complete" => row[job].stage = Top
       /\ pc \in {"dispatch", "run"} => stage = row[job].stage + 1
  /\ \A j \in Jobs, s \in Stages :
       /\ output[j][s] # 0 <=> s <= row[j].stage
       /\ output[j][s] # 0 => dispatched[j][s] # 0
       /\ dispatched[j][s] # 0 =>
            \/ s <= row[j].stage
            \/ j = job /\ s = stage /\ pc \in {"dispatch", "run", "report", "done"}
       /\ dispatched[j][s] <= acquired

\* The instances: a stage runs on a healthy one, and one it was logged for before is lost.
Placed ==
  runner = "colony" =>
    /\ pc \in {"dispatch", "run"} => Instance \in healthy
    /\ pc = "dispatch" => dispatched[job][stage] = 0 \/ dispatched[job][stage] \notin healthy
    /\ pc = "run" => /\ row[job].instance = Instance /\ dispatched[job][stage] # 0
                     /\ dispatched[job][stage] = Instance \/ dispatched[job][stage] \notin healthy

IInv == TypeOK /\ Money /\ Loops /\ Saved /\ Placed
-----------------------------------------------------------------------------
LEMMA Constants ==
  /\ StageCount \in Nat \ {0} /\ Stages = 0 .. StageCount - 1
  /\ \A s \in Stages : Duration[s] \in Nat \ {0} /\ s \in Nat
  /\ BatchSize \in Nat \ {0} /\ PoolSize \in Nat \ {0} /\ MaxRetries \in Nat
  /\ 0 \in Stages
  BY BatchAssumption

LEMMA Least ==
  ASSUME NEW S \in SUBSET Nat, S # {}
  PROVE  \E t \in S : \A u \in S : t <= u
<1>1. \E t \in S : \A u \in S : ~(<<u, t>> \in OpToRel(<, Nat))
  BY WFMin, NatLessThanWellFounded, Zenon
<1>2. PICK t \in S : \A u \in S : ~(<<u, t>> \in OpToRel(<, Nat))
  BY <1>1
<1>3. \A u \in S : ~(u < t)
  <2> SUFFICES ASSUME NEW u \in S, u < t PROVE FALSE
    OBVIOUS
  <2>1. <<u, t>> \in OpToRel(<, Nat)
    BY Zenon DEF OpToRel
  <2>2. QED
    BY <1>2, <2>1
<1>4. \A u \in S : u \in Nat /\ t \in Nat
  OBVIOUS
<1>5. \A u \in S : t <= u
  BY <1>3, <1>4
<1>6. QED
  BY <1>5, Zenon

LEMMA UpTo ==
  ASSUME NEW k \in Int, k >= -1
  PROVE  Cardinality(0 .. k) = k + 1
<1>1. Cardinality(0 .. k) = IF 0 > k THEN 0 ELSE k - 0 + 1
  <2>1. 0 \in Int
    OBVIOUS
  <2>2. QED
    BY <2>1, FS_Interval, Zenon
<1>2. QED
  BY <1>1

LEMMA SlotIsASlot == ASSUME TypeOK PROVE Slot \in Slots
<1>1. job \in Nat /\ PoolSize \in Nat /\ PoolSize > 0
  BY Constants DEF TypeOK
<1>2. job % PoolSize \in 0 .. PoolSize - 1
  BY <1>1
<1>3. QED
  BY <1>2 DEF Slot, Slots
-----------------------------------------------------------------------------
(* The clock and the reports.                                              *)

LEMMA EndFacts ==
  ASSUME TypeOK
  PROVE  End \in Nat /\ now \in Nat /\ now <= End /\ End = now + Duration[stage] /\ stage \in Stages
  BY Constants DEF TypeOK, End

LEMMA EvictionFacts ==
  ASSUME TypeOK, Hits # {}
  PROVE  Eviction \in Nat /\ now < Eviction /\ Eviction <= End
<1>1. Hits \in SUBSET Nat
  BY DEF TypeOK, Hits
<1>2. \E t \in Hits : \A u \in Hits : t <= u
  BY <1>1, Least
<1>3. Eviction \in Hits
  BY <1>2 DEF Eviction
<1>4. PICK e \in schedule : e.at = Eviction /\ now < e.at /\ e.at <= End
  BY <1>3 DEF Hits
<1>5. QED
  BY <1>1, <1>3, <1>4

\* What writing some fields of a report does to it.
LEMMA SpentFacts ==
  \A rep \in Report : \A n \in Nat :
    [rep EXCEPT !.spent = n] \in Report /\ [rep EXCEPT !.spent = n].spent = n
  BY DEF Report

LEMMA HaltedFacts ==
  \A rep \in Report : \A h \in BOOLEAN :
    /\ [rep EXCEPT !.halted = h] \in Report
    /\ [rep EXCEPT !.halted = h].spent = rep.spent /\ [rep EXCEPT !.halted = h].halted = h
  BY DEF Report

LEMMA LostFacts ==
  ASSUME NEW rep \in Report, NEW h \in BOOLEAN
  PROVE  /\ [rep EXCEPT !.lost = @ + 1, !.halted = h] \in Report
         /\ [rep EXCEPT !.lost = @ + 1, !.halted = h].spent = rep.spent
         /\ [rep EXCEPT !.lost = @ + 1, !.halted = h].halted = h
<1>1. [rep EXCEPT !.lost = @ + 1, !.halted = h] = [[rep EXCEPT !.lost = @ + 1] EXCEPT !.halted = h]
  OBVIOUS
<1>2. \A r \in Report : [r EXCEPT !.lost = @ + 1] \in Report /\ [r EXCEPT !.lost = @ + 1].spent = r.spent
  BY DEF Report
<1>3. QED
  BY <1>1, <1>2, HaltedFacts

LEMMA CountFacts ==
  \A rep \in Report :
    /\ [rep EXCEPT !["completed"] = @ + 1] \in Report /\ [rep EXCEPT !["failed"] = @ + 1] \in Report
    /\ [rep EXCEPT !["completed"] = @ + 1].spent = rep.spent
    /\ [rep EXCEPT !["completed"] = @ + 1].halted = rep.halted
    /\ [rep EXCEPT !["failed"] = @ + 1].spent = rep.spent
    /\ [rep EXCEPT !["failed"] = @ + 1].halted = rep.halted
  BY DEF Report

\* A report after a stage or a part of it: it shows the clock, and if it does not say halted
\* it is within the budget; the stage began within it.
Paid(rep, t) ==
  /\ rep \in Report /\ rep.spent = t /\ t \in Nat
  /\ t <= budget \/ rep.halted
  /\ \E s \in Stages : t <= budget + Duration[s]

LEMMA Charge ==
  ASSUME IInv, pc = "run", NEW t \in Nat, now < t, t <= End
  PROVE  /\ Charged(t) \in Report /\ Charged(t).spent = t /\ PaidBy(t) = t
         /\ t <= budget + Duration[stage] /\ budget \in Nat
<1>1. report[runner] \in Report /\ report[runner].spent = now /\ ~report[runner].halted /\ budget \in Nat
      /\ now <= budget
  BY DEF IInv, TypeOK, Money
<1>2. now \in Nat /\ End = now + Duration[stage] /\ Duration[stage] \in Nat
  BY EndFacts, Constants DEF IInv
<1>3. PaidBy(t) = t
  BY <1>1, <1>2 DEF PaidBy
<1>4. Charged(t) \in Report /\ Charged(t).spent = t
  BY <1>1, <1>3, SpentFacts DEF Charged
<1>5. t <= budget + Duration[stage]
  BY <1>1, <1>2
<1>6. QED
  BY <1>1, <1>3, <1>4, <1>5

LEMMA LostIsPaid ==
  ASSUME IInv, pc = "run", Hits # {}
  PROVE  Paid(LostReport, Eviction)
<1>1. /\ Eviction \in Nat /\ now < Eviction /\ Eviction <= End
      /\ stage \in Stages
  BY EvictionFacts, EndFacts DEF IInv
<1>2. /\ Charged(Eviction) \in Report /\ Charged(Eviction).spent = Eviction
      /\ PaidBy(Eviction) = Eviction
      /\ Eviction <= budget + Duration[stage] /\ budget \in Nat
  BY <1>1, Charge
<1>3. (PaidBy(Eviction) >= budget) \in BOOLEAN
  OBVIOUS
<1>4. /\ LostReport \in Report /\ LostReport.spent = Eviction
      /\ LostReport.halted = (PaidBy(Eviction) >= budget)
  BY <1>2, <1>3, LostFacts DEF LostReport
<1>5. Eviction <= budget \/ LostReport.halted
  <2>1. Eviction <= budget \/ PaidBy(Eviction) >= budget
    BY <1>1, <1>2
  <2>2. QED
    BY <1>4, <2>1, Zenon
<1>6. QED
  BY <1>1, <1>2, <1>4, <1>5 DEF Paid

LEMMA DoneIsPaid ==
  ASSUME IInv, pc = "run"
  PROVE  Paid(DoneReport, End)
<1>1. End \in Nat /\ now < End /\ End <= End /\ stage \in Stages
  BY EndFacts, Constants DEF IInv
<1>2. /\ Charged(End) \in Report /\ Charged(End).spent = End /\ PaidBy(End) = End
      /\ End <= budget + Duration[stage] /\ budget \in Nat
  BY <1>1, Charge
<1>3. (PaidBy(End) > budget) \in BOOLEAN
  OBVIOUS
<1>4. DoneReport \in Report /\ DoneReport.spent = End /\ DoneReport.halted = (PaidBy(End) > budget)
  BY <1>2, <1>3, HaltedFacts DEF DoneReport
<1>5. End <= budget \/ DoneReport.halted
  <2>1. End <= budget \/ PaidBy(End) > budget
    BY <1>1, <1>2
  <2>2. QED
    BY <1>4, <2>1, Zenon
<1>6. QED
  BY <1>1, <1>2, <1>4, <1>5 DEF Paid

\* Counting the job changes nothing of it.
LEMMA CountedIsPaid ==
  ASSUME NEW rep, NEW t, Paid(rep, t), NEW f \in {"completed", "failed"}
  PROVE  Paid([rep EXCEPT ![f] = @ + 1], t) /\ [rep EXCEPT ![f] = @ + 1].halted = rep.halted
<1>1. CASE f = "completed"
  BY <1>1, CountFacts DEF Paid
<1>2. CASE f = "failed"
  BY <1>2, CountFacts DEF Paid
<1>3. QED
  BY <1>1, <1>2

LEMMA PaidKeepsMoney ==
  ASSUME IInv, pc = "run", NEW rep, Paid(rep, now'),
         report' = [report EXCEPT ![runner] = rep], UNCHANGED <<runner, budget>>,
         pc' \in {"job", "dispatch", "run", "complete", "report"},
         pc' # "report" => ~rep.halted
  PROVE  Money' /\ report' \in [Runners -> Report]
<1>1. runner \in Runners /\ report \in [Runners -> Report]
  BY DEF IInv, TypeOK
<1>2. report'[runner] = rep /\ \A r \in Runners \ {runner} : report'[r] = report[r]
  BY <1>1
<1>3. report' \in [Runners -> Report]
  BY <1>1 DEF Paid
<1>4. \A r \in Runners : /\ report'[r].spent <= budget' \/ report'[r].halted
                         /\ \E s \in Stages : report'[r].spent <= budget' + Duration[s]
  <2> SUFFICES ASSUME NEW r \in Runners
               PROVE  /\ report'[r].spent <= budget' \/ report'[r].halted
                      /\ \E s \in Stages : report'[r].spent <= budget' + Duration[s]
    OBVIOUS
  <2>1. CASE r = runner
    BY <1>2, <2>1 DEF Paid
  <2>2. CASE r # runner
    BY <1>2, <2>2 DEF IInv, Money
  <2>3. QED
    BY <2>1, <2>2
<1>5. runner' = "naive" => report'["colony"] = NoReport
  BY <1>2 DEF IInv, Money, Runners
<1>6. report'[runner].spent = now' /\ (pc' # "report" => ~report'[runner].halted)
  BY <1>2 DEF Paid
<1>7. QED
  BY <1>3, <1>4, <1>5, <1>6 DEF Money
-----------------------------------------------------------------------------
(* The pool.                                                               *)

LEMMA AcquireFacts ==
  ASSUME TypeOK, Acquire
  PROVE  /\ acquired' = acquired + 1 /\ acquired' \in Nat /\ acquired \in Nat
         /\ pool' \in [Slots -> 0 .. acquired'] /\ pool'[Slot] = acquired + 1
         /\ healthy \subseteq 1 .. acquired' /\ acquired + 1 \in 1 .. acquired'
         /\ \A n \in healthy : n # acquired + 1
<1>1. acquired \in Nat /\ pool \in [Slots -> 0 .. acquired] /\ healthy \in SUBSET (1 .. acquired)
      /\ Slot \in Slots
  BY SlotIsASlot DEF TypeOK
<1>2. acquired' = acquired + 1 /\ pool' = [pool EXCEPT ![Slot] = acquired + 1]
  BY DEF Acquire
<1>3. \A n \in healthy : n \in 1 .. acquired
  BY <1>1
<1>4. QED
  BY <1>1, <1>2, <1>3

\* After an eviction that does not end the batch, the job's slot has a new instance, and the
\* lost one is not among the healthy ones.
LEMMA LoseFacts ==
  ASSUME TypeOK, LoseInstance
  PROVE  /\ acquired' \in Nat /\ acquired \in Nat /\ acquired <= acquired'
         /\ pool' \in [Slots -> 0 .. acquired'] /\ healthy' \in SUBSET (1 .. acquired')
         /\ ~LostReport.halted => pool'[Slot] \in healthy'
         /\ \A n \in 0 .. acquired : n \in healthy' => n \in healthy /\ n # Instance
<1>1. CASE LostReport.halted
  <2>1. acquired' = acquired /\ pool' = pool /\ healthy' = healthy \ {Instance}
    BY <1>1 DEF LoseInstance
  <2>2. acquired \in Nat /\ pool \in [Slots -> 0 .. acquired] /\ healthy \in SUBSET (1 .. acquired)
    BY DEF TypeOK
  <2>3. \A n \in 0 .. acquired : n \in healthy' => n \in healthy /\ n # Instance
    BY <2>1
  <2>4. healthy' \in SUBSET (1 .. acquired') /\ pool' \in [Slots -> 0 .. acquired']
    BY <2>1, <2>2
  <2>5. acquired' \in Nat /\ acquired <= acquired'
    BY <2>1, <2>2
  <2>6. QED
    BY <1>1, <2>2, <2>3, <2>4, <2>5
<1>2. CASE ~LostReport.halted
  <2>1. Acquire /\ healthy' = (healthy \ {Instance}) \cup {acquired + 1}
    BY <1>2 DEF LoseInstance
  <2>2. /\ acquired' = acquired + 1 /\ acquired' \in Nat /\ acquired \in Nat
        /\ pool' \in [Slots -> 0 .. acquired'] /\ pool'[Slot] = acquired + 1
        /\ healthy \subseteq 1 .. acquired' /\ acquired + 1 \in 1 .. acquired'
    BY <2>1, AcquireFacts
  <2>3. \A n \in 0 .. acquired : n # acquired + 1
    BY <2>2
  <2>4. healthy' \in SUBSET (1 .. acquired')
    BY <2>1, <2>2
  <2>5. \A n \in 0 .. acquired : n \in healthy' => n \in healthy /\ n # Instance
    BY <2>1, <2>3
  <2>6. QED
    BY <2>1, <2>2, <2>4, <2>5
<1>3. QED
  BY <1>1, <1>2
-----------------------------------------------------------------------------
(* The naive runner leaves the rows alone.                                 *)

LEMMA Untouched ==
  ASSUME IInv, runner = "naive" \/ pc = "start", UNCHANGED rows, acquired' \in Nat,
         pc' \in {"start", "job", "run", "report"}, pc' = "run" => runner' = "naive"
  PROVE  Saved'
<1>1. /\ \A j \in Jobs : row[j].stage = -1
      /\ \A j \in Jobs, s \in Stages : output[j][s] = 0 /\ dispatched[j][s] = 0
  BY DEF IInv, Saved
<1>2. \A s \in Stages : ~(s <= -1)
  BY Constants
<1>3. row' = row /\ output' = output /\ dispatched' = dispatched
  BY DEF rows
<1>4. QED
  BY <1>1, <1>2, <1>3 DEF Saved

LEMMA NaiveJobKeeps == ASSUME IInv, NaiveJob PROVE IInv'
<1>1. /\ runner = "naive" /\ pc = "job" /\ job < BatchSize /\ attempt' = 0 /\ stage' = 0 /\ pc' = "run"
      /\ UNCHANGED <<schedule, budget, runner, job, now, pool, healthy, acquired, report, row, output,
                     dispatched>>
  BY DEF NaiveJob, instances, rows
<1>2. TypeOK'
  BY <1>1, Constants DEF IInv, TypeOK
<1>3. Money'
  BY <1>1 DEF IInv, Money
<1>4. Loops'
  BY <1>1, Constants DEF IInv, Loops
<1>5. Saved'
  BY <1>1, Untouched DEF IInv, TypeOK, rows
<1>6. QED
  BY <1>1, <1>2, <1>3, <1>4, <1>5 DEF IInv, Placed

\* Whether the job is over or goes on, the report is paid.
LEMMA NaiveReports ==
  ASSUME IInv, pc = "run", runner = "naive", UNCHANGED <<runner, budget>>, NEW rep, Paid(rep, now'),
         \/ \E outcome \in {"completed", "failed"} : NaiveJobEnds(rep, outcome)
         \/ NaiveGoesOn(rep) /\ ~rep.halted
  PROVE  /\ Money' /\ report' \in [Runners -> Report] /\ job' \in 0 .. BatchSize
         /\ pc' \in {"job", "run", "report"} /\ (pc' = "run" => NaiveGoesOn(rep))
<1>1. job \in 0 .. BatchSize /\ job < BatchSize /\ BatchSize \in Nat
  BY Constants DEF IInv, TypeOK, Loops
<1>2. CASE NaiveGoesOn(rep) /\ ~rep.halted
  <2>1. report' = [report EXCEPT ![runner] = rep] /\ pc' = "run" /\ job' = job
    BY <1>2 DEF NaiveGoesOn
  <2>2. Money' /\ report' \in [Runners -> Report]
    BY <1>2, <2>1, PaidKeepsMoney
  <2>3. QED
    BY <1>1, <1>2, <2>1, <2>2
<1>3. ASSUME NEW f \in {"completed", "failed"}, NaiveJobEnds(rep, f)
      PROVE  /\ Money' /\ report' \in [Runners -> Report] /\ job' \in 0 .. BatchSize
             /\ pc' \in {"job", "report"}
  <2> DEFINE counted == [rep EXCEPT ![f] = @ + 1]
  <2>1. /\ report' = [report EXCEPT ![runner] = counted] /\ job' = job + 1
        /\ pc' = IF rep.halted THEN "report" ELSE "job"
    BY <1>3 DEF NaiveJobEnds
  <2>2. Paid(counted, now') /\ counted.halted = rep.halted
    BY <1>3, CountedIsPaid
  <2> HIDE DEF counted
  <2>3. pc' # "report" => ~counted.halted
    BY <2>1, <2>2
  <2>4. pc' \in {"job", "report"}
    BY <2>1
  <2>5. Money' /\ report' \in [Runners -> Report]
    BY <2>1, <2>2, <2>3, <2>4, PaidKeepsMoney
  <2>6. QED
    BY <1>1, <2>1, <2>4, <2>5
<1>4. QED
  BY <1>2, <1>3

LEMMA NaiveStageDoneKeeps == ASSUME IInv, NaiveStageDone PROVE IInv'
<1>1. /\ runner = "naive" /\ pc = "run" /\ now' = End
      /\ UNCHANGED <<schedule, budget, runner, attempt, pool, healthy, acquired, row, output, dispatched>>
      /\ \/ \E outcome \in {"completed", "failed"} : NaiveJobEnds(DoneReport, outcome)
         \/ NaiveGoesOn(DoneReport) /\ ~DoneReport.halted
      /\ stage' = stage \/ (stage' = stage + 1 /\ stage + 1 < StageCount)
  BY DEF NaiveStageDone, instances, rows
<1>2. Paid(DoneReport, now')
  BY <1>1, DoneIsPaid
<1>3. /\ Money' /\ report' \in [Runners -> Report] /\ job' \in 0 .. BatchSize
      /\ pc' \in {"job", "run", "report"} /\ (pc' = "run" => NaiveGoesOn(DoneReport))
  BY <1>1, <1>2, NaiveReports
<1>4. now' \in Nat /\ stage' \in Stages
  BY <1>1, EndFacts, Constants DEF IInv
<1>5. TypeOK'
  BY <1>1, <1>3, <1>4 DEF IInv, TypeOK
<1>6. Loops'
  BY <1>1, <1>3 DEF IInv, Loops, NaiveGoesOn
<1>7. Saved'
  BY <1>1, <1>3, Untouched DEF IInv, TypeOK, rows
<1>8. QED
  BY <1>1, <1>3, <1>5, <1>6, <1>7 DEF IInv, Placed

LEMMA NaiveStageLostKeeps == ASSUME IInv, NaiveStageLost PROVE IInv'
<1>1. /\ runner = "naive" /\ pc = "run" /\ Hits # {} /\ now' = Eviction /\ LoseInstance
      /\ attempt' = attempt + 1 /\ stage' = 0
      /\ UNCHANGED <<schedule, budget, runner, row, output, dispatched>>
      /\ \/ \E outcome \in {"completed", "failed"} : NaiveJobEnds(LostReport, outcome)
         \/ NaiveGoesOn(LostReport) /\ ~LostReport.halted /\ ~(attempt + 1 > MaxRetries)
  BY DEF NaiveStageLost, LoseInstance, rows
<1>2. Paid(LostReport, now')
  BY <1>1, LostIsPaid
<1>3. /\ Money' /\ report' \in [Runners -> Report] /\ job' \in 0 .. BatchSize
      /\ pc' \in {"job", "run", "report"}
  BY <1>1, <1>2, NaiveReports
<1>4. pc' = "run" => job' = job /\ ~(attempt + 1 > MaxRetries)
  BY <1>1 DEF NaiveJobEnds, NaiveGoesOn
<1>5. attempt \in Nat /\ attempt <= MaxRetries /\ MaxRetries \in Nat
  BY <1>1, Constants DEF IInv, TypeOK, Loops
<1>6. /\ acquired' \in Nat /\ pool' \in [Slots -> 0 .. acquired']
      /\ healthy' \in SUBSET (1 .. acquired')
  BY <1>1, LoseFacts DEF IInv
<1>7. now' \in Nat /\ attempt' \in 0 .. MaxRetries + 1 /\ stage' \in Stages
  BY <1>1, <1>2, <1>5, Constants DEF Paid
<1>8. TypeOK'
  BY <1>1, <1>3, <1>6, <1>7 DEF IInv, TypeOK
<1>9. Loops'
  BY <1>1, <1>3, <1>4, <1>5 DEF IInv, Loops
<1>10. Saved'
  BY <1>1, <1>3, <1>6, Untouched DEF IInv, rows
<1>11. QED
  BY <1>1, <1>3, <1>8, <1>9, <1>10 DEF IInv, Placed
-----------------------------------------------------------------------------
(* The colony's rows.                                                      *)

Rows == [stage : -1 .. StageCount - 1, status : JobStatuses, instance : Nat]

\* What writing a field of a job's row does.
LEMMA StatusFacts ==
  ASSUME NEW f \in [Jobs -> Rows], NEW j \in Jobs, NEW x \in JobStatuses
  PROVE  /\ [f EXCEPT ![j].status = x] \in [Jobs -> Rows]
         /\ \A i \in Jobs : /\ [f EXCEPT ![j].status = x][i].stage = f[i].stage
                           /\ [f EXCEPT ![j].status = x][i].instance = f[i].instance
<1>1. \A r \in Rows : /\ [r EXCEPT !.status = x] \in Rows /\ [r EXCEPT !.status = x].stage = r.stage
                      /\ [r EXCEPT !.status = x].instance = r.instance
  BY DEF Rows
<1>2. \A i \in Jobs : [f EXCEPT ![j].status = x][i] = IF i = j THEN [f[j] EXCEPT !.status = x] ELSE f[i]
  OBVIOUS
<1>3. QED
  BY <1>1, <1>2

LEMMA InstanceFacts ==
  ASSUME NEW f \in [Jobs -> Rows], NEW j \in Jobs, NEW n \in Nat
  PROVE  /\ [f EXCEPT ![j].instance = n] \in [Jobs -> Rows]
         /\ [f EXCEPT ![j].instance = n][j].instance = n
         /\ \A i \in Jobs : [f EXCEPT ![j].instance = n][i].stage = f[i].stage
<1>1. \A r \in Rows : /\ [r EXCEPT !.instance = n] \in Rows /\ [r EXCEPT !.instance = n].stage = r.stage
                      /\ [r EXCEPT !.instance = n].instance = n
  BY DEF Rows
<1>2. \A i \in Jobs : [f EXCEPT ![j].instance = n][i] = IF i = j THEN [f[j] EXCEPT !.instance = n] ELSE f[i]
  OBVIOUS
<1>3. QED
  BY <1>1, <1>2

LEMMA StageFacts ==
  ASSUME NEW f \in [Jobs -> Rows], NEW j \in Jobs, NEW n \in Stages
  PROVE  /\ [f EXCEPT ![j].stage = n] \in [Jobs -> Rows]
         /\ [f EXCEPT ![j].stage = n][j].stage = n
         /\ \A i \in Jobs : i # j => [f EXCEPT ![j].stage = n][i].stage = f[i].stage
<1>1. \A r \in Rows : [r EXCEPT !.stage = n] \in Rows /\ [r EXCEPT !.stage = n].stage = n
  BY Constants DEF Rows
<1>2. \A i \in Jobs : [f EXCEPT ![j].stage = n][i] = IF i = j THEN [f[j] EXCEPT !.stage = n] ELSE f[i]
  OBVIOUS
<1>3. QED
  BY <1>1, <1>2

\* The job and its row while the colony works on it.
LEMMA AtWork ==
  ASSUME IInv, runner = "colony", pc \in {"dispatch", "run", "complete"} \/ (pc = "job" /\ job < BatchSize)
  PROVE  /\ job \in Jobs /\ job \in Nat /\ row \in [Jobs -> Rows] /\ row[job].stage \in -1 .. StageCount - 1
         /\ row[job].stage \in Int /\ job + 1 \in 0 .. BatchSize /\ stage \in Stages /\ stage \in Nat
         /\ pool[Slot] \in 0 .. acquired /\ Instance \in Nat /\ acquired \in Nat
<1>1. job \in 0 .. BatchSize /\ job < BatchSize
  BY DEF IInv, TypeOK, Loops
<1>2. job \in Jobs /\ job \in Nat /\ job + 1 \in 0 .. BatchSize
  BY <1>1, Constants DEF Jobs
<1>3. row \in [Jobs -> Rows] /\ stage \in Stages /\ stage \in Nat /\ acquired \in Nat
  BY Constants DEF IInv, TypeOK, Rows
<1>4. row[job] \in Rows
  BY <1>2, <1>3
<1>5. row[job].stage \in -1 .. StageCount - 1
  BY <1>4 DEF Rows
<1>6. pool[Slot] \in 0 .. acquired
  BY SlotIsASlot DEF IInv, TypeOK
<1>7. Instance \in Nat
  BY <1>3, <1>6 DEF Instance
<1>8. row[job].stage \in Int
  BY <1>5, Constants
<1>9. QED
  BY <1>2, <1>3, <1>5, <1>6, <1>7, <1>8
-----------------------------------------------------------------------------
LEMMA StartBatchKeeps == ASSUME IInv, StartBatch PROVE IInv'
<1>1. /\ pc = "start" /\ pc' = "job" /\ pool' = [s \in Slots |-> s + 1] /\ acquired' = PoolSize
      /\ healthy' = 1 .. PoolSize
      /\ UNCHANGED <<schedule, budget, runner, job, stage, attempt, now, report, row, output, dispatched>>
  BY DEF StartBatch, rows
<1>2. acquired' \in Nat /\ pool' \in [Slots -> 0 .. acquired'] /\ healthy' \in SUBSET (1 .. acquired')
  BY <1>1, Constants DEF Slots
<1>3. TypeOK'
  BY <1>1, <1>2 DEF IInv, TypeOK
<1>4. Money'
  BY <1>1 DEF IInv, Money, NoReport
<1>5. Loops'
  BY <1>1 DEF IInv, Loops
<1>6. Saved'
  BY <1>1, <1>2, Untouched DEF rows
<1>7. QED
  BY <1>1, <1>3, <1>4, <1>5, <1>6 DEF IInv, Placed

LEMMA EndBatchKeeps == ASSUME IInv, EndBatch PROVE IInv'
<1>1. /\ pc = "report" \/ (pc = "job" /\ job = BatchSize)
      /\ UNCHANGED <<schedule, budget, pool, healthy, acquired, report, row, output, dispatched>>
  BY DEF EndBatch, instances, rows
<1>2. CASE runner = "naive"
  <2>1. /\ runner' = "colony" /\ pc' = "start" /\ job' = 0 /\ now' = 0 /\ stage' = 0 /\ attempt' = 0
    BY <1>2 DEF EndBatch
  <2>2. TypeOK'
    BY <1>1, <2>1, Constants DEF IInv, TypeOK, Runners
  <2>3. Money'
    BY <1>1, <1>2, <2>1 DEF IInv, Money
  <2>4. Loops'
    BY <2>1 DEF Loops
  <2>5. Saved'
    BY <1>1, <1>2, <2>1, Untouched DEF IInv, TypeOK, rows
  <2>6. QED
    BY <2>1, <2>2, <2>3, <2>4, <2>5 DEF IInv, Placed
<1>3. CASE runner # "naive"
  <2>1. pc' = "done" /\ UNCHANGED <<runner, job, now, stage, attempt>> /\ runner = "colony"
    BY <1>3 DEF EndBatch, IInv, TypeOK, Runners
  <2>2. TypeOK'
    BY <1>1, <2>1 DEF IInv, TypeOK
  <2>3. Money'
    BY <1>1, <2>1 DEF IInv, Money
  <2>4. Loops'
    BY <2>1 DEF Loops
  <2>5. Saved'
    BY <1>1, <2>1 DEF IInv, Saved
  <2>6. QED
    BY <2>1, <2>2, <2>3, <2>4, <2>5 DEF IInv, Placed
<1>4. QED
  BY <1>2, <1>3

LEMMA CompleteJobKeeps == ASSUME IInv, CompleteJob PROVE IInv'
<1>1. /\ runner = "colony" /\ pc = "complete" /\ pc' = "job" /\ job' = job + 1
      /\ report' = [report EXCEPT !["colony"] = [report["colony"] EXCEPT !["completed"] = @ + 1]]
      /\ row' = [row EXCEPT ![job].status = "completed"]
      /\ UNCHANGED <<schedule, budget, runner, stage, attempt, now, pool, healthy, acquired, output,
                     dispatched>>
  BY DEF CompleteJob, instances
<1>2. job \in Jobs /\ job \in Nat /\ row \in [Jobs -> Rows] /\ job + 1 \in 0 .. BatchSize
  BY <1>1, AtWork
<1>3. row' \in [Jobs -> Rows] /\ \A j \in Jobs : row'[j].stage = row[j].stage
  BY <1>1, <1>2, StatusFacts DEF JobStatuses
<1>4. report \in [Runners -> Report] /\ report["colony"] \in Report
  BY DEF IInv, TypeOK, Runners
<1>5. /\ report' \in [Runners -> Report] /\ report'["naive"] = report["naive"]
      /\ report'["colony"].spent = report["colony"].spent
      /\ report'["colony"].halted = report["colony"].halted
  BY <1>1, <1>4, CountFacts DEF Runners
<1>6. TypeOK'
  BY <1>1, <1>2, <1>3, <1>5 DEF IInv, TypeOK, Rows
<1>7. Money'
  BY <1>1, <1>5 DEF IInv, Money, Runners
<1>8. Loops'
  BY <1>1 DEF Loops
<1>9. Saved'
  <2>1. \A j \in Jobs : j >= job + 1 => j > job
    BY <1>2 DEF Jobs
  <2>2. \A j \in Jobs : j > job + 1 \/ (j = job + 1 /\ pc' = "job") => row'[j].stage = -1
    BY <1>1, <1>2, <1>3, <2>1 DEF IInv, Saved, Jobs
  <2>3. \A j \in Jobs, s \in Stages : dispatched[j][s] # 0 => s <= row'[j].stage
    BY <1>1, <1>3 DEF IInv, Saved
  <2>4. QED
    BY <1>1, <1>3, <2>2, <2>3 DEF IInv, Saved
<1>10. QED
  BY <1>1, <1>6, <1>7, <1>8, <1>9 DEF IInv, Placed

\* The batch is over for want of money before the job starts.
LEMMA PickHalts ==
  ASSUME IInv, PickJob, report.colony.spent >= budget PROVE IInv'
<1>1. /\ runner = "colony" /\ pc = "job" /\ job < BatchSize /\ pc' = "report"
      /\ report' = [report EXCEPT !["colony"] = [report["colony"] EXCEPT !.halted = TRUE]]
      /\ UNCHANGED <<schedule, budget, runner, job, stage, attempt, now, pool, healthy, acquired, row,
                     output, dispatched>>
  <2>1. report.colony.spent \in Nat /\ budget \in Nat
    BY DEF IInv, TypeOK, Runners, Report
  <2>2. ~(report.colony.spent < budget)
    BY <2>1
  <2>3. QED
    BY <2>2 DEF PickJob, instances, rows
<1>2. report \in [Runners -> Report] /\ report["colony"] \in Report
  BY DEF IInv, TypeOK, Runners
<1>3. /\ report' \in [Runners -> Report] /\ report'["naive"] = report["naive"]
      /\ report'["colony"].spent = report["colony"].spent /\ report'["colony"].halted
  BY <1>1, <1>2, HaltedFacts DEF Runners
<1>4. TypeOK'
  BY <1>1, <1>3 DEF IInv, TypeOK
<1>5. Money'
  BY <1>1, <1>3 DEF IInv, Money, Runners
<1>6. Loops'
  BY <1>1 DEF Loops
<1>7. Saved'
  BY <1>1 DEF IInv, Saved
<1>8. QED
  BY <1>1, <1>4, <1>5, <1>6, <1>7 DEF IInv, Placed

\* The health check leaves a healthy instance in the slot.
LEMMA PickStarts ==
  ASSUME IInv, PickJob, report.colony.spent < budget PROVE IInv'
<1>1. /\ runner = "colony" /\ pc = "job" /\ job < BatchSize /\ pc' = "dispatch"
      /\ stage' = row[job].stage + 1
      /\ IF Instance \in healthy
         THEN UNCHANGED instances
         ELSE Acquire /\ healthy' = healthy \cup {acquired + 1}
      /\ UNCHANGED <<schedule, budget, runner, job, attempt, now, report, row, output, dispatched>>
  <2>1. report.colony.spent \in Nat /\ budget \in Nat
    BY DEF IInv, TypeOK, Runners, Report
  <2>2. ~(report.colony.spent >= budget)
    BY <2>1
  <2>3. QED
    BY <2>2 DEF PickJob, rows
<1>2. /\ job \in Jobs /\ job \in Nat /\ row[job].stage = -1 /\ acquired \in Nat
      /\ \A s \in Stages : dispatched[job][s] = 0
  <2>1. job \in Jobs /\ job \in Nat /\ acquired \in Nat
    BY <1>1, AtWork
  <2>2. row[job].stage = -1
    BY <1>1, <2>1 DEF IInv, Saved
  <2>3. \A s \in Stages : dispatched[job][s] # 0 => s <= row[job].stage
    BY <1>1, <2>1 DEF IInv, Saved
  <2>4. QED
    BY <2>1, <2>2, <2>3, Constants
<1>3. /\ acquired' \in Nat /\ acquired <= acquired' /\ pool' \in [Slots -> 0 .. acquired']
      /\ healthy' \in SUBSET (1 .. acquired') /\ pool'[Slot] \in healthy'
  <2>1. CASE Instance \in healthy
    <3>1. acquired' = acquired /\ pool' = pool /\ healthy' = healthy
      BY <1>1, <2>1 DEF instances
    <3>2. pool \in [Slots -> 0 .. acquired] /\ healthy \in SUBSET (1 .. acquired)
      BY DEF IInv, TypeOK
    <3>3. pool'[Slot] \in healthy'
      BY <2>1, <3>1 DEF Instance
    <3>4. acquired' \in Nat /\ acquired <= acquired'
      BY <1>2, <3>1
    <3>5. QED
      BY <3>1, <3>2, <3>3, <3>4
  <2>2. CASE Instance \notin healthy
    <3>1. Acquire /\ healthy' = healthy \cup {acquired + 1}
      BY <1>1, <2>2
    <3>2. QED
      BY <1>2, <3>1, AcquireFacts DEF IInv
  <2>3. QED
    BY <2>1, <2>2
<1>4. stage' = 0 /\ stage' \in Stages
  BY <1>1, <1>2, Constants
<1>5. TypeOK'
  BY <1>1, <1>3, <1>4 DEF IInv, TypeOK
<1>6. Money'
  BY <1>1 DEF IInv, Money
<1>7. Loops'
  BY <1>1 DEF Loops
<1>8. Saved'
  <2>1. /\ \A j \in Jobs : j > job => row[j].stage = -1
        /\ \A j \in Jobs, s \in Stages :
             /\ output[j][s] # 0 <=> s <= row[j].stage
             /\ output[j][s] # 0 => dispatched[j][s] # 0
             /\ dispatched[j][s] # 0 => s <= row[j].stage
             /\ dispatched[j][s] <= acquired
    BY <1>1 DEF IInv, Saved
  <2>2. \A j \in Jobs, s \in Stages : dispatched[j][s] \in Nat
    BY DEF IInv, TypeOK
  <2>3. \A j \in Jobs, s \in Stages : dispatched[j][s] <= acquired'
    BY <1>2, <1>3, <2>1, <2>2
  <2>4. QED
    BY <1>1, <2>1, <2>3 DEF Saved
<1>9. Placed'
  BY <1>1, <1>2, <1>3, <1>4 DEF Placed, Instance, Slot
<1>10. QED
  BY <1>5, <1>6, <1>7, <1>8, <1>9 DEF IInv

LEMMA PickJobKeeps == ASSUME IInv, PickJob PROVE IInv'
  BY PickHalts, PickStarts DEF PickJob

LEMMA DispatchKeeps == ASSUME IInv, Dispatch PROVE IInv'
<1>1. /\ runner = "colony" /\ pc = "dispatch" /\ pc' = "run"
      /\ row' = [row EXCEPT ![job].status = "running", ![job].instance = Instance]
      /\ dispatched' = IF dispatched[job][stage] = 0
                       THEN [dispatched EXCEPT ![job][stage] = Instance] ELSE dispatched
      /\ UNCHANGED <<schedule, budget, runner, job, stage, attempt, now, pool, healthy, acquired, report,
                     output>>
  BY DEF Dispatch, instances
<1>2. /\ job \in Jobs /\ job \in Nat /\ row \in [Jobs -> Rows] /\ stage \in Stages /\ stage \in Nat
      /\ pool[Slot] \in 0 .. acquired /\ Instance \in Nat /\ acquired \in Nat /\ row[job].stage \in Int
  BY <1>1, AtWork
<1>3. /\ row' \in [Jobs -> Rows] /\ row'[job].instance = Instance
      /\ \A j \in Jobs : row'[j].stage = row[j].stage
  <2> DEFINE running == [row EXCEPT ![job].status = "running"]
  <2>1. running \in [Jobs -> Rows] /\ \A j \in Jobs : running[j].stage = row[j].stage
    BY <1>2, StatusFacts DEF JobStatuses
  <2>2. row' = [running EXCEPT ![job].instance = Instance]
    BY <1>1, <1>2
  <2> HIDE DEF running
  <2>3. QED
    BY <1>2, <2>1, <2>2, InstanceFacts
<1>4. /\ Instance \in healthy /\ Instance # 0 /\ Instance <= acquired
      /\ stage = row[job].stage + 1
      /\ dispatched[job][stage] = 0 \/ dispatched[job][stage] \notin healthy
  BY <1>1, <1>2 DEF IInv, TypeOK, Placed, Saved, Instance
<1>5. dispatched \in [Jobs -> [Stages -> Nat]]
  BY DEF IInv, TypeOK
<1>6. /\ dispatched' \in [Jobs -> [Stages -> Nat]]
      /\ \A j \in Jobs, s \in Stages : ~(j = job /\ s = stage) => dispatched'[j][s] = dispatched[j][s]
      /\ dispatched'[job][stage] = IF dispatched[job][stage] = 0 THEN Instance ELSE dispatched[job][stage]
  BY <1>1, <1>2, <1>5
<1>7. TypeOK'
  BY <1>1, <1>3, <1>6 DEF IInv, TypeOK, Rows
<1>8. Money'
  BY <1>1 DEF IInv, Money
<1>9. Loops'
  BY <1>1 DEF IInv, Loops
<1>10. Saved'
  <2>1. /\ \A j \in Jobs : j > job => row'[j].stage = -1
        /\ stage = row'[job].stage + 1
    BY <1>1, <1>2, <1>3, <1>4 DEF IInv, Saved
  <2>2. \A j \in Jobs, s \in Stages :
          /\ output[j][s] # 0 <=> s <= row'[j].stage
          /\ output[j][s] # 0 => dispatched[j][s] # 0
          /\ dispatched[j][s] # 0 => s <= row'[j].stage \/ (j = job /\ s = stage)
          /\ dispatched[j][s] <= acquired
    BY <1>1, <1>3 DEF IInv, Saved
  <2>3. \A j \in Jobs, s \in Stages :
          /\ dispatched[j][s] # 0 => dispatched'[j][s] # 0
          /\ dispatched'[j][s] # 0 => s <= row'[j].stage \/ (j = job /\ s = stage)
          /\ dispatched'[j][s] <= acquired
    BY <1>4, <1>6, <2>2
  <2>4. \A j \in Jobs : ~(j = job /\ pc' = "job")
    BY <1>1
  <2>5. QED
    BY <1>1, <2>1, <2>2, <2>3, <2>4 DEF Saved
<1>11. Placed'
  <2>1. Instance' = Instance
    BY <1>1 DEF Instance, Slot
  <2>2. QED
    BY <1>1, <1>3, <1>4, <1>6, <2>1 DEF Placed
<1>12. QED
  BY <1>7, <1>8, <1>9, <1>10, <1>11 DEF IInv

LEMMA StageLostKeeps == ASSUME IInv, StageLost PROVE IInv'
<1>1. /\ runner = "colony" /\ pc = "run" /\ Hits # {} /\ now' = Eviction /\ LoseInstance
      /\ report' = [report EXCEPT ![runner] = LostReport]
      /\ row' = [row EXCEPT ![job].status = "recovering"]
      /\ pc' = IF LostReport.halted THEN "report" ELSE "dispatch"
      /\ UNCHANGED <<schedule, budget, runner, job, stage, attempt, output, dispatched>>
  BY DEF StageLost, LoseInstance
<1>2. /\ job \in Jobs /\ job \in Nat /\ row \in [Jobs -> Rows] /\ stage \in Stages /\ acquired \in Nat
      /\ job < BatchSize
  BY <1>1, AtWork DEF IInv, Loops
<1>3. row' \in [Jobs -> Rows] /\ \A j \in Jobs : row'[j].stage = row[j].stage
  BY <1>1, <1>2, StatusFacts DEF JobStatuses
<1>4. Paid(LostReport, now')
  BY <1>1, LostIsPaid
<1>5. pc' \in {"dispatch", "report"} /\ (pc' = "dispatch" => ~LostReport.halted)
  BY <1>1
<1>6. Money' /\ report' \in [Runners -> Report]
  BY <1>1, <1>4, <1>5, PaidKeepsMoney
<1>7. /\ acquired' \in Nat /\ acquired <= acquired' /\ pool' \in [Slots -> 0 .. acquired']
      /\ healthy' \in SUBSET (1 .. acquired')
      /\ ~LostReport.halted => pool'[Slot] \in healthy'
      /\ \A n \in 0 .. acquired : n \in healthy' => n \in healthy /\ n # Instance
  BY <1>1, LoseFacts DEF IInv
<1>8. TypeOK'
  BY <1>1, <1>3, <1>4, <1>5, <1>6, <1>7 DEF IInv, TypeOK, Rows, Paid
<1>9. Loops'
  BY <1>1, <1>2, <1>5 DEF Loops
<1>10. \A j \in Jobs, s \in Stages : dispatched[j][s] \in Nat /\ dispatched[j][s] <= acquired
  BY DEF IInv, TypeOK, Saved
<1>11. Saved'
  <2>1. /\ \A j \in Jobs : j > job => row'[j].stage = -1
        /\ stage = row'[job].stage + 1
        /\ \A j \in Jobs, s \in Stages :
             /\ output[j][s] # 0 <=> s <= row'[j].stage
             /\ output[j][s] # 0 => dispatched[j][s] # 0
             /\ dispatched[j][s] # 0 => s <= row'[j].stage \/ (j = job /\ s = stage)
    BY <1>1, <1>2, <1>3 DEF IInv, Saved
  <2>2. \A j \in Jobs, s \in Stages : dispatched[j][s] <= acquired'
    BY <1>2, <1>7, <1>10
  <2>3. QED
    BY <1>1, <1>5, <2>1, <2>2 DEF Saved
<1>12. Placed'
  <2>1. dispatched[job][stage] = Instance \/ dispatched[job][stage] \notin healthy
    BY <1>1 DEF IInv, Placed
  <2>2. dispatched[job][stage] \in 0 .. acquired
    BY <1>2, <1>10
  <2>3. dispatched[job][stage] \notin healthy'
    BY <1>7, <2>1, <2>2
  <2>4. Slot' = Slot
    BY <1>1 DEF Slot
  <2>5. pc' = "dispatch" => Instance' \in healthy'
    BY <1>5, <1>7, <2>4 DEF Instance
  <2>6. QED
    BY <1>1, <1>5, <2>3, <2>5 DEF Placed
<1>13. QED
  BY <1>6, <1>8, <1>9, <1>11, <1>12 DEF IInv

\* A stage that overspends: it is paid, and nothing is saved.
LEMMA StageHalts ==
  ASSUME IInv, StageDone, DoneReport.halted PROVE IInv'
<1>1. /\ runner = "colony" /\ pc = "run" /\ now' = End /\ pc' = "report"
      /\ report' = [report EXCEPT ![runner] = DoneReport]
      /\ UNCHANGED <<schedule, budget, runner, job, stage, attempt, pool, healthy, acquired, row, output,
                     dispatched>>
  BY DEF StageDone, instances
<1>2. Paid(DoneReport, now')
  BY <1>1, DoneIsPaid
<1>3. Money' /\ report' \in [Runners -> Report]
  BY <1>1, <1>2, PaidKeepsMoney
<1>4. TypeOK'
  BY <1>1, <1>2, <1>3 DEF IInv, TypeOK, Paid
<1>5. Loops'
  BY <1>1 DEF Loops
<1>6. Saved'
  BY <1>1 DEF IInv, Saved
<1>7. QED
  BY <1>1, <1>3, <1>4, <1>5, <1>6 DEF IInv, Placed

\* A stage that is saved: its output and its row name it, and the next one was never dispatched.
LEMMA StageSaves ==
  ASSUME IInv, StageDone, ~DoneReport.halted PROVE IInv'
<1>1. /\ runner = "colony" /\ pc = "run" /\ now' = End
      /\ report' = [report EXCEPT ![runner] = DoneReport]
      /\ output' = [output EXCEPT ![job][stage] = Instance]
      /\ row' = [row EXCEPT ![job].stage = stage, ![job].status = "checkpointed"]
      /\ \/ stage + 1 = StageCount /\ pc' = "complete" /\ stage' = stage
         \/ stage + 1 # StageCount /\ pc' = "dispatch" /\ stage' = stage + 1
      /\ UNCHANGED <<schedule, budget, runner, job, attempt, pool, healthy, acquired, dispatched>>
  BY DEF StageDone, instances
<1>2. /\ job \in Jobs /\ job \in Nat /\ row \in [Jobs -> Rows] /\ stage \in Stages /\ stage \in Nat
      /\ Instance \in Nat /\ acquired \in Nat /\ row[job].stage \in Int /\ job < BatchSize
  BY <1>1, AtWork DEF IInv, Loops
<1>3. /\ row' \in [Jobs -> Rows] /\ row'[job].stage = stage
      /\ \A j \in Jobs : j # job => row'[j].stage = row[j].stage
  <2> DEFINE saved == [row EXCEPT ![job].stage = stage]
  <2>1. /\ saved \in [Jobs -> Rows] /\ saved[job].stage = stage
        /\ \A j \in Jobs : j # job => saved[j].stage = row[j].stage
    BY <1>2, StageFacts
  <2>2. row' = [saved EXCEPT ![job].status = "checkpointed"]
    BY <1>1, <1>2
  <2> HIDE DEF saved
  <2>3. row' \in [Jobs -> Rows] /\ \A j \in Jobs : row'[j].stage = saved[j].stage
    BY <1>2, <2>1, <2>2, StatusFacts DEF JobStatuses
  <2>4. QED
    BY <1>2, <2>1, <2>3
<1>4. /\ stage = row[job].stage + 1 /\ dispatched[job][stage] # 0
      /\ Instance \in healthy /\ Instance # 0
  BY <1>1, <1>2 DEF IInv, TypeOK, Placed, Saved
<1>5. /\ output' \in [Jobs -> [Stages -> Nat]] /\ output'[job][stage] = Instance
      /\ \A j \in Jobs, s \in Stages : ~(j = job /\ s = stage) => output'[j][s] = output[j][s]
  BY <1>1, <1>2 DEF IInv, TypeOK
<1>6. stage' \in Stages /\ pc' \in {"complete", "dispatch"} /\ (pc' = "complete" => stage = Top)
  BY <1>1, <1>2, Constants DEF Top
<1>7. Paid(DoneReport, now')
  BY <1>1, DoneIsPaid
<1>8. Money' /\ report' \in [Runners -> Report]
  BY <1>1, <1>6, <1>7, PaidKeepsMoney
<1>9. TypeOK'
  BY <1>1, <1>3, <1>5, <1>6, <1>7, <1>8 DEF IInv, TypeOK, Rows, Paid
<1>10. Loops'
  BY <1>1, <1>2, <1>6 DEF Loops
<1>11. \A j \in Jobs, s \in Stages :
         /\ output[j][s] # 0 <=> s <= row[j].stage
         /\ output[j][s] # 0 => dispatched[j][s] # 0
         /\ dispatched[j][s] # 0 => s <= row[j].stage \/ (j = job /\ s = stage)
         /\ dispatched[j][s] <= acquired
         /\ s \in Nat
  BY <1>1, Constants DEF IInv, Saved
<1>12. Saved'
  <2>1. \A j \in Jobs : j > job => row'[j].stage = -1
    BY <1>1, <1>2, <1>3 DEF IInv, Saved, Jobs
  <2>2. ASSUME NEW j \in Jobs, NEW s \in Stages
        PROVE  /\ output'[j][s] # 0 <=> s <= row'[j].stage
               /\ output'[j][s] # 0 => dispatched[j][s] # 0
               /\ dispatched[j][s] # 0 => s <= row'[j].stage
    <3>1. CASE j # job
      BY <1>3, <1>5, <1>11, <3>1
    <3>2. CASE j = job /\ s = stage
      BY <1>2, <1>3, <1>4, <1>5, <3>2
    <3>3. CASE j = job /\ s # stage
      <4>1. output'[j][s] = output[j][s] /\ row'[j].stage = stage
        BY <1>3, <1>5, <3>3
      <4>2. s <= stage <=> s <= row[job].stage
        BY <1>2, <1>4, <1>11, <3>3
      <4>3. QED
        BY <1>11, <3>3, <4>1, <4>2
    <3>4. QED
      BY <3>1, <3>2, <3>3
  <2>3. pc' = "dispatch" => stage' = row'[job].stage + 1
    BY <1>1, <1>3
  <2>4. pc' = "complete" => row'[job].stage = Top
    BY <1>3, <1>6
  <2>5. QED
    BY <1>1, <1>6, <1>11, <2>1, <2>2, <2>3, <2>4 DEF Saved
<1>13. Placed'
  <2>1. Instance' = Instance
    BY <1>1 DEF Instance, Slot
  <2>2. pc' = "dispatch" => dispatched[job][stage'] = 0
    <3> SUFFICES ASSUME pc' = "dispatch" PROVE dispatched[job][stage'] = 0
      OBVIOUS
    <3>1. stage' = stage + 1 /\ stage' \in Stages
      BY <1>1, <1>6
    <3>2. ~(stage' <= row[job].stage) /\ stage' # stage
      BY <1>2, <1>4, <3>1
    <3>3. QED
      BY <1>2, <1>11, <3>1, <3>2
  <2>3. QED
    BY <1>1, <1>4, <1>6, <2>1, <2>2 DEF Placed
<1>14. QED
  BY <1>8, <1>9, <1>10, <1>12, <1>13 DEF IInv
-----------------------------------------------------------------------------
LEMMA Starts == ASSUME Init PROVE IInv
<1>1. /\ runner = "naive" /\ pc = "start" /\ job = 0 /\ stage = 0 /\ attempt = 0 /\ now = 0
      /\ pool = [s \in Slots |-> 0] /\ healthy = {} /\ acquired = 0
      /\ report = [r \in Runners |-> NoReport]
      /\ row = [j \in Jobs |-> Queued] /\ output = Nothing /\ dispatched = Nothing
      /\ schedule \subseteq [at : Nat, slot : Slots] /\ budget \in Nat
  BY ScheduleAssumption DEF Init
<1>2. NoReport \in Report /\ NoReport.spent = 0 /\ ~NoReport.halted
  BY DEF NoReport, Report
<1>3. Queued \in Rows /\ Queued.stage = -1
  BY Constants DEF Queued, Rows, JobStatuses
<1>4. Nothing \in [Jobs -> [Stages -> Nat]] /\ \A j \in Jobs, s \in Stages : Nothing[j][s] = 0
  BY DEF Nothing
<1>5. TypeOK
  BY <1>1, <1>2, <1>3, <1>4, Constants DEF TypeOK, Rows, Runners
<1>6. \E s \in Stages : 0 <= budget + Duration[s]
  BY <1>1, Constants
<1>7. Money
  BY <1>1, <1>2, <1>6 DEF Money, Runners
<1>8. Loops
  BY <1>1 DEF Loops
<1>9. Saved
  BY <1>1, <1>3, <1>4, Constants DEF Saved
<1>10. QED
  BY <1>1, <1>5, <1>7, <1>8, <1>9 DEF IInv, Placed

LEMMA StepKeeps == ASSUME IInv, [Next]_vars PROVE IInv'
<1>1. CASE StartBatch
  BY <1>1, StartBatchKeeps
<1>2. CASE EndBatch
  BY <1>2, EndBatchKeeps
<1>3. CASE NaiveJob
  BY <1>3, NaiveJobKeeps
<1>4. CASE NaiveStageDone
  BY <1>4, NaiveStageDoneKeeps
<1>5. CASE NaiveStageLost
  BY <1>5, NaiveStageLostKeeps
<1>6. CASE PickJob
  BY <1>6, PickJobKeeps
<1>7. CASE Dispatch
  BY <1>7, DispatchKeeps
<1>8. CASE StageLost
  BY <1>8, StageLostKeeps
<1>9. CASE StageDone
  BY <1>9, StageHalts, StageSaves
<1>10. CASE CompleteJob
  BY <1>10, CompleteJobKeeps
<1>11. CASE UNCHANGED vars
  <2>1. UNCHANGED <<schedule, budget, runner, pc, job, stage, attempt, now, pool, healthy, acquired,
                    report, row, output, dispatched>>
    BY <1>11 DEF vars, loop, instances, rows
  <2>2. TypeOK' /\ Money' /\ Loops'
    BY <2>1 DEF IInv, TypeOK, Money, Loops
  <2>3. Saved' /\ Placed'
    BY <2>1 DEF IInv, Saved, Placed, Instance, Slot
  <2>4. QED
    BY <2>2, <2>3 DEF IInv
<1>12. QED
  BY <1>1, <1>2, <1>3, <1>4, <1>5, <1>6, <1>7, <1>8, <1>9, <1>10, <1>11 DEF Next

LEMMA ColonyInvariant == Spec => []IInv
  BY Starts, StepKeeps, PTL DEF Spec

\* Every second of the clock is paid once, whatever is evicted when, and the budget is overrun
\* by one stage at most and only in a report that says halted (CostAccountant, Money).
THEOREM Bounded == Spec => []SpendBounded
<1>1. IInv => SpendBounded
  BY DEF IInv, Money, SpendBounded
<1>2. QED
  BY <1>1, ColonyInvariant, PTL

\* No stage is dispatched while another live instance runs it, no output is replaced, and a job
\* goes on from its last checkpoint (dispatch_once, checkpoint_job; Saved, Placed).
THEOREM NoStageTwice == Spec => []WorkDoneOnce
<1>1. ASSUME IInv PROVE NoDuplicateActiveDispatch
  BY <1>1 DEF IInv, Saved, Placed, NoDuplicateActiveDispatch
<1>2. ASSUME IInv PROVE ResumesFromCheckpoint
  <2>1. ASSUME NEW j \in Jobs
        PROVE  row[j].stage = Cardinality({s \in Stages : output[j][s] # 0}) - 1
    <3>1. row[j].stage \in -1 .. StageCount - 1
      BY <1>2 DEF IInv, TypeOK
    <3>2. {s \in Stages : output[j][s] # 0} = 0 .. row[j].stage
      BY <1>2, <3>1, Constants DEF IInv, Saved
    <3>3. row[j].stage \in Int /\ row[j].stage >= -1
      BY <3>1, Constants
    <3>4. Cardinality(0 .. row[j].stage) = row[j].stage + 1
      BY <3>3, UpTo
    <3>5. Cardinality({s \in Stages : output[j][s] # 0}) = row[j].stage + 1
      BY <3>2, <3>4, Zenon
    <3>6. QED
      BY <3>3, <3>5
  <2>2. QED
    BY <1>2, <2>1 DEF IInv, Saved, ResumesFromCheckpoint
<1>3. QED
  BY <1>1, <1>2, ColonyInvariant, PTL DEF WorkDoneOnce
=============================================================================
