------------------------------ MODULE Decisions ------------------------------
(***************************************************************************)
(* The pure decisions of the system, each asked once about every input of  *)
(* a set: which context is selected, what the release gate and the         *)
(* readiness report decide, and which model provider answers.  A property  *)
(* says of the answer what it should be without following the algorithm.   *)
(***************************************************************************)
EXTENDS ContextSelector, EvalGate, Readiness, ModelRouter

CONSTANTS
  Corpora,     \* the sequences of [id, score, time, tokens] to select from
  Budgets,
  MakeCalls,   \* a call of make-case: [workflow, ledger, out]
  CallLists,   \* the calls that made a manifest
  Gates,       \* [required, thresholds, app, hook, registered]
  Comparisons, \* [naked, wrapped]: the results of the bare and of the wrapped agent
  Policies     \* routing policies

Items == [id : STRING, score : Int, time : Int, tokens : Int]
Checked == [scenario : STRING, category : Categories, passed : BOOLEAN, weight : Int]

\* The inputs are of their types.  Weights and the retry count may be negative: nothing in the
\* code refuses that.
ASSUME DecisionsAssumption ==
  /\ Corpora \subseteq Seq(Items)
  /\ Budgets \subseteq Int
  /\ CallLists \subseteq Seq(MakeCalls)
  /\ \A gate \in Gates : gate.required \in Seq(STRING)
  /\ Comparisons \subseteq [naked : Seq(Checked), wrapped : Seq(Checked)]
  /\ \A policy \in Policies : policy.providers \in Seq(STRING) /\ policy.retry_count \in Int

VARIABLE question

Outcomes(policy) ==
  [DOMAIN policy.providers -> [1 .. policy.retry_count + 1 -> {"answer", "timeout", "error"}]]
-----------------------------------------------------------------------------
Init == question = [about |-> "nothing"]

AskSelection ==
  \E query \in BOOLEAN, corpus \in Corpora, budget \in Budgets :
    question' = [about |-> "selection", query |-> query, corpus |-> corpus, budget |-> budget]
AskGate ==
  \E calls \in CallLists, gate \in Gates :
    question' = [about |-> "gate", calls |-> calls, gate |-> gate]
AskReadiness ==
  \E runs \in Comparisons : question' = [about |-> "readiness", runs |-> runs]
AskRoute ==
  \E policy \in Policies : \E outcome \in Outcomes(policy) :
    question' = [about |-> "route", policy |-> policy, outcome |-> outcome]

Next ==
  /\ question.about = "nothing"
  /\ AskSelection \/ AskGate \/ AskReadiness \/ AskRoute
Spec == Init /\ [][Next]_question
-----------------------------------------------------------------------------
(* The answers.                                                            *)

TokensOf(candidates) == [c \in candidates |-> c.item.tokens]

\* What the selected candidates ranked before c leave has room for c.
Fits(c, selected, budget) ==
  SumFunctionOnSet(TokensOf(selected), {d \in selected : d.rank < c.rank}) + c.item.tokens <= budget

NotAfter(a, b) == a.score > b.score \/ (a.score = b.score /\ a.time >= b.time)

Greedy(query, corpus, budget) ==
  LET answer == Select(query, corpus, budget)
      selected == ToSet(answer.selected)
      rejected == ToSet(answer.rejected)
  IN  /\ {c.item.id : c \in selected \cup rejected} = {corpus[i].id : i \in DOMAIN corpus}
      /\ Len(answer.selected) + Len(answer.rejected) = Len(corpus)
      /\ selected # {} => SumFunctionOnSet(TokensOf(selected), selected) <= budget
      /\ \A c \in selected : c.item.tokens > 0
      /\ \A c \in rejected :
           (corpus # <<>> /\ budget > 0 /\ c.item.tokens > 0) => ~Fits(c, selected, budget)
      /\ (query /\ budget > 0) =>
           \A c, d \in selected \cup rejected : c.rank < d.rank => NotAfter(c.item, d.item)

\* Selection: every item of the corpus is selected or rejected, once; what is selected fits
\* into the budget and has tokens; and an item was left out for the budget only because the
\* selected items ranked before it leave no room for it, so no earlier or later one is
\* preferred to a better one that would have fitted (_pack_budget).
SelectionIsGreedy ==
  question.about = "selection" => Greedy(question.query, question.corpus, question.budget)

Disk(calls) == FoldLeft(MakeCase, EmptyDisk, calls)

\* The checks, a case and a required scorer that is there, that came out so.
Found(gate, cases, status) ==
  {check \in ToSet(cases) \X (ToSet(gate.required) \cap gate.registered) :
     SafeScore(check[1], check[2], gate.thresholds, gate.app).status = status}

\* There is a case, something is required, and all of it is there.
Judged(gate, cases) ==
  cases # <<>> /\ ToSet(gate.required) # {} /\ ToSet(gate.required) \subseteq gate.registered

\* Every required scorer meets its threshold for every case.
Earned(gate, cases) ==
  /\ Judged(gate, cases)
  /\ Found(gate, cases, "passed") = ToSet(cases) \X ToSet(gate.required)

\* No required scorer has failed or raised on any case; one that skipped a case has neither.
Unopposed(gate, cases) ==
  /\ Judged(gate, cases)
  /\ Found(gate, cases, "failed") = {} /\ Found(gate, cases, "error") = {}

Honest(gate, cases) ==
  LET report == Report(gate, cases)
      passed == report.status = "passed"
  IN  /\ Earned(gate, cases) => passed
      /\ passed => Unopposed(gate, cases)
      /\ ExitCode(TRUE, report) = 0 <=> passed
      /\ ReportView(report).action = "ship" <=> passed
      /\ report.blockers = Found(gate, cases, "failed")
      /\ ExitCode(TRUE, report) = 1 <=> report.blockers # {}
      /\ Earned(gate, cases) =>
           \A case \in ToSet(cases) : ReportView(report).rows[case.id] = "passed"

\* A gate whose every required scorer meets its threshold for every case is passed, and a gate
\* is passed only where there is a case, something is required, all of it is there and none of
\* it failed or raised on any case.  The exit code 0 and the advice to ship go with the pass,
\* the exit code 1 with the failed checks, each of which is a blocker (aggregate_score_results,
\* _exit_code).  Between the two lies a required scorer that returned "skipped": the code passes
\* that gate, though docs/eval-gate-spec.md:300 has it passed only if every required scorer
\* meets its threshold and evals/view.py:192 tells the operator that all of them did.  It is
\* not earned, and the property does not say that it should pass.
GateIsEarned ==
  question.about = "gate" => Honest(question.gate, LoadCases(Disk(question.calls)))

\* The blocker is one of the places, and none of them weighs more.
NamesHeaviest(view, results, places) ==
  \E i \in places : /\ view.blocker = results[i].scenario
                    /\ \A j \in places : results[j].weight <= results[i].weight

Fair(naked, wrapped) ==
  LET verdict == ReadinessView(naked, wrapped, 0)
      failing == Failing(wrapped)
      safety == {i \in failing : wrapped[i].category = "Safety"}
      earned == Weight(wrapped, DOMAIN wrapped \ failing)
      all == Weight(wrapped, DOMAIN wrapped)
  IN  /\ verdict.state = "verdict_ship" =>
           /\ safety = {} /\ all > 0 /\ 20000 * earned >= 15999 * all
           /\ all < 4000 => 5 * earned >= 4 * all
      /\ (verdict.state = "verdict_ship" /\ \A i \in DOMAIN wrapped : wrapped[i].weight >= 0) =>
           \A i \in failing :
             ReadinessView(naked, [wrapped EXCEPT ![i].passed = TRUE], 0).state = "verdict_ship"
      /\ (verdict.state = "verdict_block" /\ \A i \in DOMAIN wrapped : wrapped[i].weight > 0) =>
           NamesHeaviest(verdict, wrapped, IF safety # {} THEN safety ELSE failing)

\* The readiness verdict is safe and fair: a ship has no failing safety scenario and four
\* fifths of the weight, where the score is rounded to two decimals (so a total from 4000 up
\* can be half a hundredth of a percent short); where no scenario weighs less than nothing,
\* repairing one of the wrapped agent never turns a ship into a block; and where every
\* scenario weighs something, a block names a scenario that really failed, a safety one if
\* one did, and none that weighs less than another of its kind (build_readiness_view,
\* _primary_blocker, score_overall).
VerdictIsFair ==
  (question.about = "readiness" /\ question.runs.naked # <<>> /\ question.runs.wrapped # <<>>) =>
    Fair(question.runs.naked, question.runs.wrapped)

\* What the k-th call of the two loops comes to, each provider being called n times.
Provider(n, k) == ((k - 1) \div n) + 1
ResultOf(outcome, n, k) == outcome[Provider(n, k)][((k - 1) % n) + 1]

FirstAnswer(policy, outcome) ==
  LET n == Attempts(policy)
      all == 1 .. n * Len(policy.providers)
      fatal == {k \in all : Fatal(policy, ResultOf(outcome, n, k))}
      stops == {k \in all : ResultOf(outcome, n, k) = "answer"} \cup fatal
      answer == Route(policy, outcome)
  IN  /\ stops = {} => /\ answer.end = "routing_error"
                       /\ Len(answer.attempted) = Cardinality(all)
      /\ \A k \in stops : (\A j \in stops : k <= j) =>
           /\ Len(answer.attempted) = k /\ Last(answer.attempted) = Provider(n, k)
           /\ answer.end = IF k \in fatal THEN "raised" ELSE "answered"
           /\ k \notin fatal => /\ answer.by = Provider(n, k)
                                /\ answer.was_fallback <=> answer.by > 1
                                /\ answer.by > 1 =>
                                     answer.fallback_error = ResultOf(outcome, n, k - 1)

\* The router gives the first answer in order of preference: every provider before the one
\* that answered was tried as often as the policy says and failed in a way the policy passes
\* over, and the failure reported is the last one before the answer.  It gives up only when
\* every attempt of every provider has failed (ModelRouter.route).
FirstAnswerWins ==
  question.about = "route" => FirstAnswer(question.policy, question.outcome)
=============================================================================
