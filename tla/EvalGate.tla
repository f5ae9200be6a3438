------------------------------ MODULE EvalGate ------------------------------
(***************************************************************************)
(* The release gate (evals/): make-case promotes completed workflows into  *)
(* case files and lists them in a manifest; gate scores every case with    *)
(* every required scorer and turns the results into a verdict, an exit     *)
(* code and an operator's report.                                          *)
(*                                                                         *)
(* A workflow is [id, status, steps, audit]: its step results, [approval,  *)
(* cost, ms] each, and what its context audit counts.  Texts are left out: *)
(* the reason of a result is the case it was computed from.                *)
(***************************************************************************)
EXTENDS Integers, FiniteSets, SequencesExt, FiniteSetsExt

\* A sum over the steps of a workflow.
Total(steps, Part(_)) == FoldLeft(LAMBDA sum, step : sum + Part(step), 0, steps)
-----------------------------------------------------------------------------
(* make-case: evals/cases.py, evals/manifest.py.                           *)

NoLedger == [available |-> FALSE, observed |-> 0, consumed |-> 0]

\* _assemble_case; the case id is derived from the workflow id.
AssembleCase(workflow, withLedger) ==
  [id |-> workflow.id,
   steps |-> Len(workflow.steps),
   context |-> IF withLedger
               THEN [available |-> TRUE, observed |-> workflow.audit.observed,
                     consumed |-> workflow.audit.consumed]
               ELSE NoLedger,
   gated |-> \E i \in DOMAIN workflow.steps : workflow.steps[i].approval,
   expected |-> workflow.status,
   cost |-> Total(workflow.steps, LAMBDA step : step.cost),
   ms |-> Total(workflow.steps, LAMBDA step : step.ms)]

Accepted(workflow) == workflow.status = "completed"

EmptyDisk == [file |-> <<>>, cases |-> <<>>]

MakeCase(disk, call) ==
  IF ~Accepted(call.workflow) THEN disk
  ELSE LET case == AssembleCase(call.workflow, call.ledger)
       IN  [file |-> [p \in DOMAIN disk.file \cup {call.out} |->
                       IF p = call.out THEN case ELSE disk.file[p]],
            cases |-> IF Contains(disk.cases, call.out) THEN disk.cases
                      ELSE Append(disk.cases, call.out)]

LoadCases(disk) == [i \in DOMAIN disk.cases |-> disk.file[disk.cases[i]]]
-----------------------------------------------------------------------------
(* The generic scorers: evals/scorers.py.  thresholds is a function from   *)
(* the names the manifest gives a threshold.                               *)

Threshold(thresholds, name) == IF name \in DOMAIN thresholds THEN thresholds[name] ELSE 1
Scored(score, threshold) == IF score >= threshold THEN "passed" ELSE "failed"
Point(holds) == IF holds THEN 1 ELSE 0

\* Without a ledger the lineage scorer is neutral, and its score is 1.
LineageComplete(context) == context.available => context.observed > 0 /\ context.consumed > 0

BoundaryKept(case) == case.gated => case.expected = "completed"

\* The part of the budget left, -1 and less being the same to the verdict.
WithinBudget(used, budget) == IF budget <= 0 THEN used <= 0 ELSE used <= budget

\* app is the outcome of the application's own scorer on each case: a status, or "raises".
Score(case, name, thresholds, app) ==
  CASE name = "trace_completeness" ->
         Scored(Point(case.steps >= 1), Threshold(thresholds, name))
    [] name = "context_lineage_completeness" ->
         Scored(Point(LineageComplete(case.context)), Threshold(thresholds, name))
    [] name = "approval_boundary" -> Scored(Point(BoundaryKept(case)), Threshold(thresholds, name))
    [] name = "cost_threshold" -> Scored(Point(WithinBudget(case.cost, thresholds[name])), 1)
    [] name = "latency_threshold" -> Scored(Point(WithinBudget(case.ms, thresholds[name])), 1)
    [] OTHER -> app[case.id]

\* _safe_score: a scorer that raises yields an error result.
SafeScore(case, name, thresholds, app) ==
  LET status == Score(case, name, thresholds, app)
  IN  [case |-> case, scorer |-> name, status |-> IF status = "raises" THEN "error" ELSE status]

\* _default_registry, and the scorers an application registers.
Registered(thresholds, appScorers) ==
  {"trace_completeness", "context_lineage_completeness", "approval_boundary"}
    \cup ({"cost_threshold", "latency_threshold"} \cap DOMAIN thresholds) \cup appScorers
-----------------------------------------------------------------------------
(* The verdict: evals/gate.py.                                             *)

\* EvalGateRunner.run resolves the required names: the registered ones run, in order, on every
\* case; the others are missing.
Resolved(gate, name) == name \in gate.registered
Missing(gate) == {name \in ToSet(gate.required) : ~Resolved(gate, name)}

\* The results of one case: of one scorer for each name that was resolved.
Row(gate, case) ==
  FlattenSeq([i \in DOMAIN gate.required |->
               IF Resolved(gate, gate.required[i])
               THEN <<SafeScore(case, gate.required[i], gate.thresholds, gate.app)>> ELSE <<>>])
Results(gate, cases) == FlattenSeq([i \in DOMAIN cases |-> Row(gate, cases[i])])

Of(results, required, status) ==
  {r \in ToSet(results) : r.status = status /\ r.scorer \in ToSet(required)}

\* aggregate_score_results: a failure blocks whatever else is missing.
SlipAggregate(gate, cases, results) ==
  IF Of(results, gate.required, "failed") # {} THEN "failed"
  ELSE IF cases = <<>> \/ gate.required = <<>> \/ Missing(gate) # {} THEN "incomplete"
  ELSE "passed"
Aggregate(gate, cases, results) ==
  IF Of(results, gate.required, "failed") # {} THEN "failed"
  ELSE IF \/ cases = <<>> \/ gate.required = <<>> \/ Missing(gate) # {}
          \/ Of(results, gate.required, "error") # {}
       THEN "incomplete"
  ELSE "passed"

\* _release_blockers: the label of a blocker occurs once.
Label(result) == <<result.case, result.scorer>>
Blockers(gate, results) == {Label(r) : r \in Of(results, gate.required, "failed")}
\* The references to the evidence, one for each failed result.
Failures(results) == SelectSeq(results, LAMBDA r : r.status = "failed")
Evidence(results) == [i \in DOMAIN Failures(results) |-> Label(Failures(results)[i])]

CaseIds(results, status) == {r.case.id : r \in {s \in ToSet(results) : s.status = status}}

\* _summary: passed cases are counted along the list of cases, failed ones by their ids.
Summary(cases, results) ==
  LET bad == CaseIds(results, "failed") \cup CaseIds(results, "error")
  IN  [total |-> Len(cases),
       passed |-> Len(SelectSeq(cases, LAMBDA c : c.id \notin bad)),
       failed |-> Cardinality(CaseIds(results, "failed"))]

\* _with_export: the hook's failure is recorded and changes nothing else.
ExportStatus(hook) ==
  CASE hook = "none" -> "not_configured" [] hook = "raises" -> "failed" [] OTHER -> "succeeded"

Report(gate, cases) ==
  LET results == Results(gate, cases)
  IN  [status |-> Aggregate(gate, cases, results),
       results |-> results,
       blockers |-> Blockers(gate, results),
       evidence |-> Evidence(results),
       export |-> ExportStatus(gate.hook),
       summary |-> Summary(cases, results)]
-----------------------------------------------------------------------------
(* What the operator and the pipeline see: evals/view.py, evals/cli.py.    *)

\* The row of a case: _case_results.
CaseStatus(report, id) ==
  IF id \in CaseIds(report.results, "failed") THEN "failed"
  ELSE IF id \in CaseIds(report.results, "error") THEN "skipped" ELSE "passed"
CaseRows(report) ==
  [id \in {r.case.id : r \in ToSet(report.results)} |-> CaseStatus(report, id)]

NextAction(report) ==
  CASE report.status = "passed" -> "ship"
    [] report.status = "failed" -> "inspect_failures"
    [] OTHER -> "fix_spec"

ReportView(report) ==
  [status |-> report.status, summary |-> report.summary, rows |-> CaseRows(report),
   failing |-> Len(Failures(report.results)),
   action |-> NextAction(report)]

\* With --ci the verdict is the exit code; without it the command succeeds.
ExitCode(ci, report) ==
  IF ~ci THEN 0
  ELSE CASE report.status = "passed" -> 0 [] report.status = "failed" -> 1 [] OTHER -> 2
=============================================================================
