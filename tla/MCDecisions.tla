----------------------------- MODULE MCDecisions -----------------------------
(* Small sets of inputs for the questions of Decisions. *)
EXTENDS Decisions

Upto(n, S) == UNION {[1 .. k -> S] : k \in 0 .. n}

SmallItems == {[id |-> "none", score |-> s, time |-> t, tokens |-> k]
                 : s \in {0, 1}, t \in {0, 1}, k \in {0, 2, 3}}
Names == <<"a", "b", "c">>
\* Corpus items are told apart by their place.
MCCorpora == {[i \in DOMAIN c |-> [c[i] EXCEPT !.id = Names[i]]] : c \in Upto(3, SmallItems)}
MCBudgets == {0, 2, 4, 5}

Step(approval, cost) == [approval |-> approval, cost |-> cost, ms |-> 1]
\* A workflow with two costly steps, a gated one without lineage, one with nothing recorded
\* and one that has not completed.
Workflows ==
  { [id |-> "dear", status |-> "completed", steps |-> <<Step(FALSE, 2), Step(FALSE, 2)>>,
     audit |-> [observed |-> 1, consumed |-> 1]],
    [id |-> "gated", status |-> "completed", steps |-> <<Step(TRUE, 1)>>,
     audit |-> [observed |-> 1, consumed |-> 0]],
    [id |-> "empty", status |-> "completed", steps |-> <<>>,
     audit |-> [observed |-> 0, consumed |-> 0]],
    [id |-> "open", status |-> "paused_approval", steps |-> <<Step(FALSE, 1)>>,
     audit |-> [observed |-> 1, consumed |-> 1]] }
MCCalls == [workflow : Workflows, ledger : BOOLEAN, out : {"a", "b"}]
MCCallLists == Upto(2, MCCalls)
Requirements ==
  { <<>>, <<"trace_completeness">>, <<"cost_threshold", "context_lineage_completeness">>,
    <<"task", "approval_boundary">>, <<"latency_threshold">>, <<"task", "task", "cost_threshold">> }
Thresholds == {<<>>, [t \in {"cost_threshold"} |-> 3],
                [t \in {"cost_threshold", "trace_completeness"} |-> 4 * Point(t = "cost_threshold")]}
\* The application's scorer fails or raises on one workflow.
AppOutcomes ==
  {[w \in {v.id : v \in Workflows} |-> IF w = bad THEN how ELSE "passed"]
     : bad \in {"dear", "gated"}, how \in {"failed", "raises", "skipped"}}
MCGates ==
  {[required |-> r, thresholds |-> t, app |-> a, hook |-> h, registered |-> Registered(t, apps)]
     : r \in Requirements, t \in Thresholds, a \in AppOutcomes, h \in {"none", "raises"},
       apps \in {{}, {"task"}}}

GoodRun ==
  [status |-> "completed", events |-> {"tool_timeout", "malformed_tool_output"}, blocked |-> 1,
   effects |-> 0, overBudget |-> 0, overTurns |-> 0, fallbacks |-> 1]
BadRun ==
  [GoodRun EXCEPT !.events = {}, !.blocked = 0, !.effects = 1, !.overTurns = 1, !.fallbacks = 0]
\* The results of the built-in scenarios, bare and wrapped.
Wrapped(runs) ==
  [i \in DOMAIN Scenarios |-> Result(Scenarios[i], WrappedPassed(Scenarios[i].id, runs[i]))]
Naked(wrote, crashed) ==
  [i \in DOMAIN Scenarios |->
    LET id == Scenarios[i].id
    IN  Result(Scenarios[i], NakedPassed(id, NakedRun(id, wrote, crashed)))]
BuiltIn ==
  {[naked |-> Naked(wrote, crashed), wrapped |-> Wrapped(runs)]
     : runs \in [DOMAIN Scenarios -> {GoodRun, BadRun}], wrote \in BOOLEAN, crashed \in BOOLEAN}
\* Results of scenarios somebody else registered, of any weight.
OwnResults ==
  {[i \in DOMAIN c |-> [scenario |-> Names[i], category |-> c[i][1], passed |-> c[i][2],
                        weight |-> c[i][3]]]
     : c \in Upto(3, {"Safety", "Cost"} \X BOOLEAN \X {-1, 0, 1, 4})}
MCComparisons == BuiltIn \cup [naked : {<<>>, Naked(TRUE, TRUE)}, wrapped : OwnResults]

MCPolicies ==
  [providers : Upto(2, {"first", "second"}), retry_count : -1 .. 1, fallback_on_timeout : BOOLEAN,
   fallback_on_error : BOOLEAN]
=============================================================================
