# A TLA+ model of Durable Flow

Durable Flow runs a workflow as a list of step functions and keeps everything it
knows in a database: rows for the workflow, its step outputs, its approval gates,
its side effects and its requests to an external gateway.  What makes it correct is
what survives a crash, a retry, a slow operator or a second worker between any two
of its database calls.  This directory models that, checks it with TLC and proves
part of it with TLAPS.

## The system

| part | state | operations | hard because |
|---|---|---|---|
| workflow store (`src/store.py`) | the rows of five tables | one transaction per call | two of the calls read outside the transaction that writes |
| approval gate (`src/approval.py`) | `approval_queue` | request, approve, reject, read | request reads, then inserts |
| engine (`src/engine.py`) | none but a call's locals | `execute`, `resume`, `recover_crashed` | acts on a row it loaded earlier; a crash falls between any two calls |
| steps (`src/workflows.py`, `agent/runner.py`) | none | approval step, send, agent write turn and its commit handler | effect, log and checkpoint are three transactions |
| gateway client (`integrations/aegis_client.py`) | `external_action_intents` | `run_action` | lost replies, retries, an outcome that is revised |
| agent runner (`agent/`) | the turns in `step_data`, one gate a turn | `run` with its approval loop, turns, commit handler | an agent asked twice answers twice; the loop, operators and other loops share the gates |
| cloud workers (`worker.py`, `infra/`) | a FIFO queue | create, approve, redeliver `execute` and `resume` | a commit and a send in two steps, deduplication, one message group |
| LangSmith sink (`integrations/langsmith_adapter.py`) | bounded queue, worker thread, counters | emit, flush, close, export with retry | a full queue, a stopped worker, flush and close that wait for it |
| CLEAR phase runner and verification ledger (`factory/`) | micro state saved after every lap, a claims file | implement, assess, remediate, verify | crashes between laps; what a repeated run does again |
| colony (`colony/`) | job rows, dispatch log, cost | batches of staged jobs on instances that are evicted | charge, checkpoint and dispatch order; the budget at its limit |
| context ledger (`context/ledger.py`) | artifacts, events, decisions, lineage | record, link | deduplication after a crash between two transactions |
| router, selector, eval gate, readiness (`src/`, `evals/`, `readiness/`) | case files (eval gate) | route, select, gate, report | fallback order, budgets, thresholds, aggregation |

The steps call the store and the gate; the engine calls the steps and the store;
operators write the gate's rows; workers, the command line and tests call the engine.
They share nothing but the rows.  The context ledger and the LangSmith sink hang off
the engine as best-effort hooks whose failures are swallowed.  CLEAR is a workflow of
its own on the engine: `phase_runner` and `ship` are two of its steps.

What each part has to guarantee: an effect only after an approval, at most once in the
log; no step overtaken and none forgotten; a gate that stays shut until somebody
decides; an external outcome that is the gateway's; a workflow that ends (engine,
store, gate, steps, client).  No event both counted as exported and dropped, and a
`close` that returns (sink).  No complete build without the
verdict of each phase, nothing shipped that was not tested (CLEAR).  Every stage
checkpointed once, spending within the budget up to the stage that crosses it (colony).
Every decision with its event and its step result, whatever crashed (ledger).  Only
what was approved is written, and the history of a run is kept (agent).  No workflow
in the database without a message (cloud).  The first answer in order of preference,
the best context that fits, a verdict that is earned (pure functions).  `PROJECT.json`
lists the hazards at their lines.

## Modules

| module | models |
|---|---|
| `WorkflowStore` | the rows of one workflow and the store calls that write them |
| `ApprovalGate` | its approval queue |
| `WorkflowEngine` | any number of engines over both, the step functions with store calls of their own, the gateway client, and the environment |
| `WorkflowProperties` | what they are held to, and the fairness for liveness |
| `WorkflowInvariant` | the inductive invariant behind the first three properties |
| `DurableRun` | the abstract specification: steps settled in order, effects once and only when approved |
| `AgentRunner` | one agent run: turns, history, the approval loop, operators, the commit handler, resume |
| `JobQueue` | the Lambda function, SQS (external) and the workers |
| `LangSmithSink` | the sink's queue, its worker, the threads that log, flush and close, the service; its properties and their inductive invariant |
| `VerificationLedger` | the rows of the verification ledger and the checks on them |
| `PhaseRunner` | the phase runner over it: laps, saved state, workspace writes, flush, ship, crashes, the CI; its properties |
| `Colony` | the benchmark: naive runner and controller, evictions, checkpoints, cost |
| `ContextLedger` | the ledger's transactions as the inbox steps make them, the link to step results, the audit |
| `ContextInvariant` | the ledger's inductive invariant, in named parts |
| `ContextSelector`, `ModelRouter`, `EvalGate`, `Readiness` | the pure functions |
| `Decisions` | the questions put to the pure functions, and what the answers should be |
| `MCWorkflow`, `MCAgent`, `MCJobQueue`, `MCSink`, `MCColony`, `MCContext`, `MCDecisions` | the instances TLC checks |
| `WorkflowSafety_proofs` (with the types and the refinement), `SinkSafety_proofs`, `AgentSafety_proofs`, `JobQueueSafety_proofs`, `ColonySafety_proofs`, `ClearSafety_proofs`, `ContextSafety_proofs`, `Decisions_proofs` | the proofs |

Compositions: `WorkflowEngine` extends the gate, which extends the store; `PhaseRunner`
extends the verification ledger; `ContextLedger` uses the context selector to choose
what its steps record; `Decisions` extends all four pure modules.

### State and code: the workflow

One workflow is modelled; workflows share no row.  `status`, `current`, `stepData` are
the columns of `workflows`; `effectLog` the keys of `side_effect_log`; `intent` the
rows of `external_action_intents`; `queue` the gates of each step in the order of
`requested_at`.  `run[e]` is what engine `e`'s call has in memory, with `pc` the call
it makes next.  `version[e]` is the identity (`module:qualname`) its step functions
hash to, which a release may change.  `gateway` is the external service.  `writes`,
`crashes` and `everApproved` are history variables no code reads.

One action is one store call or one outside effect with the Python up to the next one.
`save_checkpoint` and `record_external_action_intent` read before the `INSERT` that
begins their transaction (sqlite3 opens none for a `SELECT`, PostgreSQL locks nothing
for one), so each is two actions where another writer can come between: `SelectData`
and `Save`, `RecordIntent` and `InsertRow`.  A crash forgets `run[e]`.  An exception
from the store ends a call just as a crash does.

### State and code: an agent run

`stepData[t]` is the output of turn `t` (nothing, a pending gate, a denial, or the
history with everything seen so far), `gates` the approval queue in the order of
`requested_at` with the gates of other workflows in it, `log` the keys of
`side_effect_log`, `auto` whether the process is `run()` with its loop.  The loop reads
the list of pending gates (`ListPending`, or `ListIsEmpty`, where taking the first raises) and
decides the gate it took (`listed`) in a second step; `SomebodyDecides` is any other call of
`approve` or `reject`, of an operator or of another run's loop, of any gate and at any time.
A turn that only reads
leaves nothing behind before its checkpoint and is one action; a turn that proposes a
write, the two status writes of a decision and the commit handler are as many actions
as the code has transactions.  The engine is in line here, because what differs is
the agent: `Answers` is what an agent may say to a history, deterministic for
`MiniReActAgent` and `MockADKAgent`, anything out of a set for a free agent, which may
say something else when a crash has it asked again.  Several engines, releases and the
gateway path of a write turn are in `WorkflowEngine`.  `approved` and `others` (the gates
somebody else than the loop has decided) are history variables.

### State and code: the cloud deployment

`row` and `gate` are what `handler.py` writes, `call` what an invocation still has to
do, `queue`, `visible`, `recent`, `dead` the FIFO queue with its one message group,
the five minutes of deduplication and the dead letters.  A commit and the message that
follows it are two actions.  A worker takes the first message if none is in flight and
raises, for the reason below; the message comes back when its visibility time-out ends
and is dead after `MaxReceive` receipts.  SQS is external and modelled from how
`durableflow_stack.py` configures it.

### State and code: the sink

The threads share the bounded `queue`, `unfinished_tasks`, the flags `_stop` and
`_disabled` and the counters.  An action is one queue operation (each holds the mutex),
one read of a flag, or one call of the client; a counter's increment goes with the
step before it, which no other thread can come between in CPython.  Items are numbered
by the puts.  `known` is what the worker remembers to have created, `created`, `noted`
and `latest` what the service has seen: a call can fail before or after it took effect
there.  Payloads, redaction, sampling and back-off are left out; the size check may
reject any event.

### State and code: CLEAR

`saved` is the row of `clear_phase_state`, `mem` the same state in the memory of the
step, `source` the feature file of each phase, `logged` the keys of the writes in
`side_effect_log`, `rows` and `stamp` the ledger file, `result` the engine's
checkpoint of the step; `tested` is a history variable.  An action ends at a save, a file
write, a ledger write or a test run.  A crash forgets `mem`, and `Load` is the engine
running the step again.  `Start...` and `End...` are the two saves of a lap, `WriteSource`,
`LogWrite` and `SkipWrite` are `write_file`.  Laps are a set, which loses nothing: the code
only asks whether one is there, and adds it when it is not.  Of the workspace only the
feature source is kept, because tests and digests read nothing else; a test of what
the implementer writes may pass or fail (a plan names any command, and there is a time
limit), of the forced failure it fails.  One claim for each phase and one meta and one
deferred claim stand for all.  Time in the ledger is the number of its rows.  The CI and
whoever edits the workspace act while the step is not running; they are the parties
the ship gates are about, and the ledger file has no lock that would let them act at
other times.  Each ledger method is one step: a crash inside the rewriting of the JSON file
is not modelled.

### State and code: the colony

`now` is the clock both loops move themselves, `pool` the instance in each slot,
`healthy` those not lost, `report` the two `RunReport`s, `row` and `output` the job rows
and checkpointed outputs, `dispatched` the instance `side_effect_log` names for each
stage.  An action is a stage that ran to its end, one that was cut off, or a store call
between two stages; `ChaosSchedule` is a set of evictions chosen at the beginning.
The run is sequential and deterministic once the schedule and the budget are: what is
explored is every schedule.  `run_batch` has no way to go on after a crash of its own
process, so there is no crash.  Two branches of the controller cannot run with
`MockProvider`, the only provider: `FAILED` (`controller.py:66`) and the new instance for an
unhealthy slot (`controller.py:51`), which `PickJob` keeps all the same.

### State and code: the context ledger

`artifacts`, `events`, `decisions`, `lineage` are the ledger's tables by their unique
keys, `told` its system events, `at` how many ledger calls of the running step have
returned, `owed` the event that the second transaction of a call is about to add.
Each action is one transaction; a crash loses `at` and `owed` and the step is run
again from its first call, with an answer of the model that may differ.  What the
steps record is computed by `ContextSelector`, the module that is checked on its own.
`Shown`, `InfluenceLabel`, `Coverage` are what the audit view and the completeness
measure read out of the tables.

### The pure functions

`ContextSelector` ranks and packs, `ModelRouter` is the two loops over providers and
attempts, `EvalGate` goes from completed workflows over case files, manifest and
scorers to a verdict and an exit code, `Readiness` from scenario outcomes to scores and
a verdict.  They have no state of their own: `Decisions` asks each question about an input
out of its constants (corpora and budgets, make-case calls and gates, results, policies with
every outcome of the calls) in one step, and a property compares the answer with what it should be,
stated without the algorithm.  Nothing in the code refuses a negative weight, budget or retry
count, so neither does the model.  Scores are exact fractions rounded half to even, where the code
rounds floats: a score that lies exactly on a rounding boundary may be rounded down there.

### Abstractions of the workflow

A step's output is the part some code branches on.  Four kinds of steps stand for all:
plain steps return or raise; gate steps ask for an approval (`RecheckSteps` read the
decision, as `approval_step` does, the others pause whatever it is, as agent turns and
the CLEAR plan step do); send steps log a mock send; external steps go through the
gateway, with a gate of their own to obey (`send_reply`) or none (agent turns).
`draft` says whether there is anything to send.  The `step_results` log is left out
(nothing of the engine reads it back), as are names, payloads, telemetry and timing: the crash
detector may take any running workflow for a crashed one, which a step longer than
its cutoff justifies.  An agent turn proposes the same tool call when it is repeated;
`AgentRunner` has the agents that do not.

### Environment constants

`ExecuteFrom` are the statuses at which somebody calls `execute()` (a queue that
redelivers does at all of them), `Redecide` lets operators decide a gate again
(`approve` and `reject` do not look at the old decision), `MonitorOn` runs
`recover_crashed`, `Releases` restarts processes on other versions, `SavesOverlap`
lets a write land between the read and the write of `save_checkpoint`, `MaxCrashes`
bounds `Crash`.  `Worlds` are the failures the tools are set to, `Strangers` the gates
of other workflows in the same database, `MaxOthers` bounds the gates that others than an
agent run's loop decide (each as often as they like), `MaxResumes` bounds the approvals whose random
suffixes tell the messages apart.

## Runs

| run | instance | what it shows |
|---|---|---|
| `one_engine` | five steps of every kind, two versions, two crashes, fairness | a logged send is reported, a write is repeated only when a crash hit between it and its log, no write under another definition than the one approved; until a crash, gates hold, a rejection ends the workflow as rejected, no external step is skipped; and the workflow reaches a closed status for good |
| `two_engines` | a write turn that continues on rejection and a send, two engines, `execute` at any status, crash detector, changed decisions | no effect without approval, no step overtaken, at most one gate per engine, refinement of `DurableRun` |
| `two_clients` | plain step and gateway step, two engines, one crash, overlapping saves, releases | the recorded outcome is the gateway's |
| `external_crash` | the workflow of `one_engine`, one crash | a finding, below |
| `agent` | the two scripted agents, four worlds, a free agent with two writes for three turns, another workflow's gate, one crash, two gates that others decide at any time and again | what is written was approved for that turn in that form, the loop finds an empty list only when somebody else decided the gate its run paused at, a completed run has kept its trace |
| `agent_forgets` | an agent that is still reading in its twelfth turn | a finding, below |
| `cloud` | two workflows, two invocations, one worker, two receipts, two resumes, one dying invocation, fairness | a workflow without a message was paid for by a crash, every answer that promised a message has one, every execute message leaves the queue |
| `sink` | two threads, room for two items, two attempts, one lost reply for each run, fairness | every item is counted once, a flush means what it says, no run is created twice without a lost reply or before its root, order is kept over retries; an open sink's flush returns and a closed one's worker ends |
| `clear` | two phases, the first forced to fail once, three attempts, two crashes, three CI verdicts, fairness | a skipped write is on disk, a complete build has a fresh verdict for each phase, what ships is what was tested last and on the CI's last verdict; the step ends |
| `colony` | three jobs of two stages (two and three seconds), two slots, every schedule of up to three evictions in the first nine seconds, six budgets, fairness | every second is paid once, at most one stage is paid too much, no stage is done twice, the benchmark ends with all jobs done or the money spent |
| `context` | three mails of which two fit and one is mounted, two answers, two crashes | a checkpointed step's events, decision and lineage are complete, trails go forward, gaps were paid for by crashes, the audit shows the decision behind the checkpoint |
| `decisions` | corpora of up to three items, gates over up to two of four workflows, all outcomes of the built-in scenarios and up to three others with weights -1, 0, 1 and 4, policies of two providers and retry counts -1 to 1 | greedy packing, an earned pass is given and none over a failure, an error or a missing scorer, the verdict is fair, the first answer wins |

**Bounds.** One crash reaches every window between two store calls, two reach a
window of the recovery; two engines produce every pairwise race (the code has no
operation that takes three); two versions are enough for a changed one.  Five steps
put every kind of step before and after every other kind that interacts with it.
`two_engines` has no crash because a crashed engine is one that never takes its next
step, which safety includes already; `two_clients` has one to restart a call.  The
engines are symmetric in `two_engines` and `two_clients`, whose properties are safety
properties.

An agent run needs a turn before, at and after a write, so three turns of the free
agent; the scripted ones get the turns they need to end.  One strange gate is older than
all others; two gates decided by others are the stranger's and the run's own, which empty the
list between the pause and the loop's look at it.  Two workflows are a first message and one behind it; two receipts are a
retry and the last; the second resume is inside the five minutes of the first.  The
sink's queue is full at two items, so a put, a drop and a blocked close meet with
one thread flushing or closing and the other logging; a second attempt is a retry
and the last one, and a lost reply has a repeated creation in it.  Two phases show
what the second inherits from the first; the third attempt leaves the second phase
a remediation of its own after the forced failure; two crashes fill the ledger
three times, and the third verdict of the CI is the first whose predecessor no row
supersedes.  Three jobs on two slots share a slot; three evictions hit a stage, its
repetition and another job; the budgets are nothing, the end of a stage, the middle of one,
and enough.  Three mails are one mounted, one selected but not mounted, one rejected.
Three items and four budgets have every kind of tie and of skip in the packing.

**Deadlock** is not checked where the system may stop: a closed workflow, a completed agent
run, a drained queue, a closed sink, a blocked or shipped build, a finished benchmark, the
last checkpoint of the inbox workflow; a question of `decisions` is a single step.

### What the documents say and the code does not do

Two runs end in a counterexample:

- `external_crash`.  `resume()` of a waiting workflow writes `running` while
  `current_step` is already the waiting step; after a crash there the next `resume()`
  starts after it and the workflow completes without an outcome.
- `agent_forgets`.  The history a turn continues is the last one in the order of the
  keys of `step_data`, which is stored sorted: `agent_turn_10` comes before
  `agent_turn_2`.  From the twelfth turn on an agent has forgotten all it saw after its
  tenth, and so has the result of the run.

Seen while modelling, and modelled as they are.

- *Workflow.*  The pending checkpoint and the status `paused_approval` are two
  transactions; after a crash between them, or when `execute()` is called on a paused
  workflow (`src/engine.py:95`), the steps after the gate run (`EffectNeedsApproval` holds
  all the same: `send_reply` reads the pending output and skips, and a write turn's tool
  runs only in the commit handler).  When two `save_checkpoint` calls overlap, one restores step
  data from before a rejection, and `send_reply` may send.  A crash between the
  two status writes of a rejection that continues (`src/engine.py:151`, `:159`) leaves the
  workflow rejected for good.  `detect_crashed` can turn a completed workflow into a
  crashed one when it completes between its two statements, and an operator's early
  decision is overwritten in the status by a slower engine.  With gated external steps and
  contradictory decisions two engines can move `current_step` past a step without a trace,
  which is why `NothingUnrecorded` is claimed, and `WorkflowInvariant` stated, for
  ungated ones.
- *Agent.*  A token budget is trimmed by asking the selector for one item larger than
  the budget, which is never selected.  `run()` decides the oldest pending gate of the whole
  database, another workflow's included.  Nothing keeps others from deciding while it
  looks: when an operator or another run's loop decides its gate between the pause and
  `list_pending()[0]` (`agent/runner.py:113`) it raises `IndexError` and returns no
  result, with the workflow left paused at a decided gate, and a decision made after that
  line is overwritten by the loop's own.  `FailsOnlyIfOvertaken` shows that this is the
  only way to an empty list.  A crash between the commit's checkpoint and
  its status leaves a second entry for the write in the trace.  A later turn's identical
  write is suppressed by its idempotency key, approved or not.
- *Cloud.*  The worker builds `InboxTriageWorkflow` without the store its constructor
  requires (`worker.py:62`): every message raises and ends in the dead letter queue, though
  `infra/README.md:21` says that workers load the workflow state and run the engine.
  Approving has no condition on the old decision and approves a rejected gate.  The tables
  are only created by a worker's store.  One message group serialises all workflows.
- *Sink.*  `flush(timeout)` never looks at its timeout, and after a `close()` that left
  items behind `None` it waits for ever.  `close()` itself does when the queue is full and the
  worker has ended.  Events left behind it, and those taken while disabled, are in no counter
  (`docs/langsmith-adapter.md:22`).
- *CLEAR.*  The attempt counter belongs to the whole build, so that a second phase may be
  blocked at its first failure; a crash between the save of a passed assessment and the
  save that completes the phase costs an attempt too.  The queue of verdicts is emptied in
  memory only, so that a step that is run again after its flush stamps the build and records
  its verdicts a second time, against its docstring (`factory/clear_workflow.py:497`).  The
  ship gate never looks at the phase claims, which a later `finalize_build()` makes stale; the
  integrity check reads the first verdict of a claim, where its comment says the latest
  (`factory/verification_ledger.py:455`), which `ShipsWhatWasTested` shows to be harmless.
- *Colony.*  "Budget ceiling never exceeded" (`colony/colony-spec.md:116`) is off by up
  to one stage, because a stage is charged when it is over and `>` lets one start at exactly the
  budget.  The row of a job that is cut off by the budget stays running or recovering, and
  `save_job` keeps the first run's `run_id`.
- *Context.*  With a second crash the audit may show another answer than the checkpointed
  one: answers a, b and a again leave b's decision as the last row.
- *Pure functions.*  A required scorer that returns `skipped` passes the gate and has it
  advise to ship, though `docs/eval-gate-spec.md:300` has it passed only if every required
  scorer meets its threshold and its view (`evals/view.py:192`) says that all of them did, for
  every case.  `GateIsEarned` does not call such a pass earned and leaves it open.
  `approval_boundary` cannot fail, since only completed workflows become cases; promoting to an existing path replaces the case
  without a word.  With a total weight of zero the readiness report reads "Do not ship: None."
  When a second provider answers at its retry, `fallback_from` names that provider itself.
  The readiness score is rounded before it is compared with 80, so that a report of total
  weight 4000 or more may ship with 79.995 % of it.  With a negative weight among the scenarios,
  repairing one can turn a ship into a block.

### Fairness

`FairSpec` of the workflow assumes that a process goes on with its call (weak fairness of `Work`), that
somebody calls `execute` or `resume` on an open workflow, that operators decide, and,
strongly, that a plain step, a submit, a write tool and a poll that are tried for ever
succeed at some time and the gateway's final answer is not `unresolved` for ever.
Nothing in the code bounds those retries, so nothing weaker ends every workflow.
No fairness is assumed of crashes, releases or repeated decisions.

The sink's assumes that no thread is starved, that the client's calls return, and that a
call of `emit`, `flush` or `close` that was made goes on; nobody has to close.  That
of CLEAR assumes that the runner goes on and is started again after a crash (the engine's
`recover_crashed` and `resume`); nothing of the CI, of `ship` or of the editors.  The
colony is one loop in one process, which goes on (`WF_vars(Next)`).  In the cloud the
workers poll in an endless loop, visibility time-outs expire and SQS moves spent
messages; nobody has to call the Lambda function.

### Slips

An operator named `Slip...` stands before the definition it is a mistaken form of: a
dropped lookup, an off-by-one, a branch forgotten.  No action uses it.  Each property of
a passing run is violated when the named definition is replaced by its slip
(`PROJECT.json`, mutants), which is how the properties were tested.

## Proofs

For every value of the constants that meets the assumptions stated in the modules: any
number of engines, steps, versions, threads, events, agents, turns, workflows,
invocations, jobs, stages, evictions, phases, attempts, edits, mails, answers of the model and
crashes; and corpora, manifests, results and provider lists of any length.

| theorem | statement | besides |
|---|---|---|
| `TypeCorrect` | `Spec => []TypeOK` (workflow) | |
| `EffectsApproved` | `Spec => []EffectNeedsApproval` | `OneWriterAtATime` |
| `NothingForgotten` | `Spec => []NothingUnrecorded` | `OneWriterAtATime` |
| `Implements` | `Spec => ImplementsDurableRun` | `OneWriterAtATime` |
| `OutcomesAreTheGateways` | `Spec => []OutcomeIsTheGateways` | |
| `GatesAreBounded` | `Spec => []OneGatePerEngine` | `IsFiniteSet(Engines)` |
| `ExtraWritesPaid` | `Spec => []ExtraWritesPaidByCrashes` | one engine |
| `WritesVouchedFor` | `Spec => []WriteUnderApprovedDefinition` | `Alone(e)` |
| `SendsReported`, `PendingGatesHold` | `[]LoggedSendReported`, `[]NothingPassesAPendingGate` | `Undisturbed(e)` |
| `RejectionsEnd`, `ExternalStepsAnswered` | `[]RejectionTerminates`, `[]ExternalStepNotSkipped` | `Undisturbed(e)` |
| `SinkSafe` | `Spec => []SinkInv`, the sink's inductive invariant | |
| `Accounted`, `FlushedIsDone`, `RunsBookkept` | the sink's invariants `EveryItemCountedOnce`, `FlushMeansDone`, `RunsKept` | |
| `InQueueOrder`, `AuthSilences` | its two action properties | |
| `WritesAsApproved`, `FailureIsOvertaking` | `[]ExecutedAsApproved`, `[]FailsOnlyIfOvertaken` (agent) | |
| `TraceKept` | `[]TraceComplete` (agent) | at most ten turns |
| `StrandedBounded`, `AnswersQueued` | `[]StrandedPaidByCrashes`, `[]EveryAnswerIsQueued` (cloud) | |
| `Bounded`, `NoStageTwice` | `[]SpendBounded`, `[]WorkDoneOnce` (colony) | |
| `RunnerTypes`, `SourcesLeft` | `[]TypeOK`, `[]LapsLeaveTheirSource` (CLEAR) | |
| `CompleteIsVerified`, `ShippedAsTested`, `ShippedOnLastVerdict` | the three action properties of CLEAR | |
| `LedgerCovered`, `TypeCorrect` | `[]LedgerInv`, `[]TypeOK` (context ledger) | |
| `GapsPaid`, `TrailInOrder` | `[]GapsPaidByCrashes`, `[]LifecycleOrder` | |
| `AuditIsComplete`, `CheckpointShown` | `[]AuditComplete`, `[]AuditShowsCheckpoint` | |
| `SelectorIsGreedy` | what `Select` returns for any corpus, budget and query | |
| `SelectsGreedily`, `GateHonest` | `[]SelectionIsGreedy`, `[]GateIsEarned` (decisions) | |
| `VerdictFair`, `RouterAnswersFirst` | `[]VerdictIsFair`, `[]FirstAnswerWins` | |

`OneWriterAtATime` says that saves do not overlap (what is lost when they do is told above)
and that external steps have no gate of their own (gateway turns; two engines
and contradictory decisions can break the rest, see above).  `Alone(e)` says that `e` is
the only engine, a decided gate is not decided again, nobody calls `execute()` on a paused
workflow, and the empty hash is no version's.  `Undisturbed(e)` is `Alone(e)` where also
saves do not overlap, no crash detector runs, a gateway step sees its gate, and the key of a send
is no other step's (the code makes it of the workflow and the step); crashes, releases
and gated external steps are all in.  Each part is needed: an overlapping save restores a
step's old output, the detector reopens a completed workflow, and a write with the key of a
send puts that key in the log without a send.  It is the situation of the run `one_engine`.

**Types.** `TypeOK` of the workflow is not inductive: `effectLog` holds keys of commit and send steps
only because an engine about to log works on such a step, and a gate in hand exists
only because the queue never shrinks.  `TypeInv` adds `run \in [Engines -> Placed]`,
which says so.  One lemma for each kind of move of control, store call and change of
the queue; then one case per action.

**Safety.** `EffectNeedsApproval` and `NothingUnrecorded` speak of rows; what keeps
them is what engines have in memory.  `IInv` has three parts.  `Rows`: everything up to
`current_step` is traced, recorded outputs fit their steps (an approved gate was
approved by somebody, an external step without an intent had no draft), only external
steps have intents, approved rows of the queue were granted.  `Memory`: every engine's
record is `Sound`: the indices it holds are backed by traces, its step is of the kind
its label is about, the approval it has seen or is about to save was granted.  And
`EffectNeedsApproval` itself.  Traces, intents and approvals only grow, so the records of
the engines that do not move stay sound (`SoundGrows`); most actions leave them alone
(`Still`), the others have a lemma of their own.  The step that needs most is
`InsertGrows`: the engine that records an intent sets `current_step` to the index after
the one it loaded, which may be an old one; no step is skipped because the step it asks
for had no trace when it did, so the loaded index is below it.

**Refinement.** With `settled` the traced steps, `approvals` the gates ever approved and
`effects` the logged keys, a save and a new intent are `Settle`, a decision is `Grant`, a
log call is `Perform`, and the rest stutters; the guards of the abstract steps are what
`IInv` says at the labels where the calls are made.

**Outcomes, gates, writes.** Four invariants that need nothing of `IInv`.  `OutcomesHeard`: an
answer in an engine's hand, or in a `step_data` it has read and will write back, is the
gateway's, which revises none; so overlapping saves may lose an outcome, never falsify one.
`GatesPaid` counts an engine that found no gate with the gates there are.  `WritesPaid`: a
write that is in the log, or about to be, is the one that costs no crash, and what is about
to be executed or logged is not in the log.  `AllVouched`: the gate of a paused row carries a
hash, so the comparison at `check_definition` cannot pass for want of one; between it and
the write nothing releases the process; and the way round the comparison, a resume of a row
that says approved, leads to a write that is already logged.

**The order of the rows.** The last four properties of one engine need to know where the engine is.
`Orderly` has two halves.  Of the row, `FrontierHolds`: nothing beyond `current_step` has a
trace, and until a crash nothing before it is unfinished (an open gate, a terminating rejection,
an external action without outcome); `VerdictsStand`: a verdict in `step_data` is the
operator's; `SendsReplay`: a send that is in the log is the next to be saved, under an approval
that stands, or saved as sent, which is why running it again reports it.  Of the
engine, `WellPlaced`: at every label it works on the step after `current_step`, or on that
step again while it waits for an answer there; `Carries`: what it is about to save is
what its step is to have; and `Held`: an unfinished step holds it, because it is working on that
step or the status says why it stopped.  A workflow that completes has then
passed its last step, and `Held` says that no step is unfinished.  TLC found `Orderly`
to hold on `one_engine` and two variants before it was proved.

**Sink.** The two counts are not inductive alone.  `SinkInv` adds `Unfinished`, the same
balance for `unfinished_tasks`, since a flush is woken by that counter being zero;
`Numbered`, that the queue is in the order of the puts and behind everything the worker
holds, the service has heard of and a finished flush covers, which gives both
`FlushMeansDone` and the order of the service; `Known`, that what the worker remembers
was created and that what it does not remember was created only by lost replies; and
that the worker never exports while the sink is disabled.

**Agent.** A resumed process looks at the latest gate of the turn in `current_step`.
`AskedOnce` says it is the only one of that turn, so that the decision read, the call
carried out and the call approved are of one gate; `Granted` that an approved gate is in the
history of approvals as it stands, which holds because a repeated request leaves the gate
alone.  For the loop, `Looping` says that while it is there no gate is ahead
of the checkpoint except the one just asked for, and that a turn which pauses leaves a
gate that is pending until the loop looks, unless others have decided it.  `Traced` is about the trace: the turn that runs is the
one after the checkpoint or that one again, nothing is checkpointed ahead of it, and a
recorded history has an entry for all that was settled before its turn.  The history a turn reads then
has them all (`HistoryComplete`), if the keys come in the order of the turns: up to
ten.

**Cloud.** The argument is about `Ids`, the ids of all messages in the queue or among the
dead letters: nothing is ever deleted.  `Fresh` says that the five minutes remember only
ids that were accepted and that the invocation about to send a workflow's execute message
is the only one that ever will, so no first message is dropped as a duplicate; `Counted`
that the resume ids are as many as the answers; `Paid` counts the stranded workflows.

**Colony.** `Money` says that the report of the running loop shows the clock and that a
loop goes on only with a report that does not say halted, so that every stage begins
within the budget.  `Saved` ties outputs and dispatch log to the row's stage, `Placed`
the stage being run to a healthy instance and its log entry to that one or to a lost one.  An
eviction can be found in the schedule and lies ahead of the clock because a nonempty set of
naturals has a least element.

**CLEAR.** `Stored` says that a running runner's memory is what it saved, so that a crash
loses nothing a later lap relies on.  `Judged` ties verdicts to sources: one waits or is
recorded only for a completed phase and carries the source its tests last passed on, and no
later run tests a completed phase again.  `Written` is about the log of writes: the forced failure is
written only before `Begun`, a correct source of that phase only after, so a key in the log
is never out of date by more than somebody's edit.  `Superseding` says that a row supersedes
an older one of its claim, hence the newest is what `latest_row_for` finds.  `Flushing`: the
verdicts the flush has passed are younger than the build.

**Context.** `LedgerInv` ties the tables to the place of the running step.  `StepProgress`: every
call before that place is done, whoever made it, and the one whose event is owed.  `EventTrail`:
a source has its events in the order of the life cycle, because the calls of a step
come in that order and a lost attempt leaves a prefix of them.  `LedgerRows`: a decision is
credited only with what its response names and its step consumed.  `Checkpointed`: what a step
leaves when its last call has returned.  `GapsCovered` counts the gaps that are not being closed
right now; a crash adds the one that was.  `LastIsShown`: a step has the decision of a lost
attempt and, after it, its own; after a second crash it may have another after its own.  The calls of a step
are computed with `FlattenSeq` and the selector's fold, so what those return comes first, and
with it that every mail is selected or rejected and none both, whatever the corpus.

**Decisions.** `DecisionsAssumption` only gives the inputs their types; each theorem is a lemma
about the answer to one question.  *Selection* (`SomethingSelected`): the ranking is a permutation in
the order of score and time (`RankedInOrder`), the fold keeps `Fitted` (`AllFitted`), which says of every candidate it
has passed that it was taken exactly when the taken ones before it leave it room, and
`SumByRank` identifies what the fold has spent with the sum of tokens the property speaks of.
*Gate* (`GateIsHonest`): the results are two nested flattenings, of scorers and of cases, and
`ResultsOfChecks` says that they are the scores of exactly the checks of a case and a
registered required scorer; the verdict, exit code, blockers and rows are then read off.
A pass is shown to be exactly `Unopposed`, which an earned one is.
*Readiness* (`ReadinessIsFair`): sums over places are shown to add and to change by one weight when one
scenario is repaired (`SumFacts`, `Repaired`), `RoundedReaches` that a score reaches 80.00 exactly when
twenty thousand times what was earned is at least 15999 times the whole, `HeaviestExists` that the first
of the heaviest is there to be chosen.  *Router* (`AnswersFirst`): the loops over providers and attempts are
one sequence of calls (`CallsAre`, from sequences of equal length laid end to end), and
`RoutedAll` follows the fold over it: nothing is decided before the first call that stops
it and nothing changes afterwards.  The summary counts and the list of evidence are in no property.

**Induction over data.** The library's induction theorems take an operator and cannot be cited.
What folds and recursive functions return is shown all the same where a proof needs it
(`FlattenShape`, `PackAllSplits`, `ReadingExists`, `FoldingIsRun`, `SumIs`): the natural numbers below are well-founded, a
theorem of the library about sets; `Induction` restates it for a set that holds 0 and
every successor; and the function a fold is defined by exists for any number of places because a
longer one can be built from a shorter.

**Only model-checked.** Liveness (`EventuallyClosed`, `QueueDrains`, `FlushReturnsIfOpen`,
`WorkerEnds`, `RunnerEnds`, `BenchmarkEnds`), which is out of the provers' reach.  Every
invariant and every other action property of a passing run is a theorem, some under the assumptions
in the table.

## Plan

What could still be added: gated external steps in `IInv`, with the decisions that cannot contradict
each other.

## Not modelled

- The planning steps of CLEAR before its phase runner, its reports, notes and context
  records, `apply_patch`, evidence files and ranks: they write no state the runner's control
  reads.
- The sink's redaction and payloads, and its audit and evaluation exports, which are one
  event and one synchronous loop of client calls.
- The metrics of the readiness harness that only fill tables; latency measures and texts
  of the audit view; file locks and digests of the eval gate.
- The MCP client and server and the real ADK API: I/O without state of their own.
- Demos, notebooks and command lines, the rendering of reports and views, the database
  adapters below `connect()`, and the infrastructure code that only wires services together.
