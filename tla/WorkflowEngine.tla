--------------------------- MODULE WorkflowEngine ---------------------------
(***************************************************************************)
(* src/engine.py over WorkflowStore and ApprovalGate: the processes that   *)
(* execute and resume ONE workflow, with the step functions whose bodies   *)
(* make store calls of their own (src/workflows.py, agent/runner.py,       *)
(* integrations/aegis_client.py).                                          *)
(*                                                                         *)
(* One action is one store call (or one effect outside the store), with    *)
(* the Python between it and the next one: a crash, another engine, an     *)
(* operator or the crash detector can come between any two.  run[e].pc     *)
(* names the call engine e makes next, "idle" when it runs nothing.  An    *)
(* exception from the store itself (a lost connection) ends the call       *)
(* exactly as Crash does.                                                  *)
(*                                                                         *)
(* An operator named Slip... is a mistake the code could have made where   *)
(* the definition after it stands.  No action uses one: the properties are *)
(* tested on it (README.md, Slips).                                        *)
(***************************************************************************)
EXTENDS ApprovalGate

CONSTANTS
  Engines,        \* processes that may run the workflow (workers, CLI, tests)
  CommitSteps,    \* gates with an approval commit handler (agent turns)
  RecheckSteps,   \* gates whose function reads the decision (approval_step)
  ContinueSteps,  \* gates whose rejection policy is "continue"
  Consequential,  \* gates guarded by the function-identity check (D4)
  SendSteps,      \* steps like send_reply with the mock sender
  ExternalSteps,  \* steps like send_reply with the gateway client
  ApprovalFor,    \* the gate whose output a send or external step reads
  KeyOf,          \* the idempotency key of a send or commit step
  GateWired,      \* "approval_gate" is among the engine's dependencies
  ExecuteFrom,    \* environment: the statuses at which callers use execute()
  SavesOverlap,   \* environment: a write can land inside a save_checkpoint
  Redecide,       \* environment: operators may decide a decided gate again
  MonitorOn,      \* environment: recover_crashed() runs beside the engines
  Releases,       \* environment: a process may be restarted on another version
  MaxCrashes      \* bound on Crash

EffectSteps == SendSteps \cup CommitSteps

ASSUME EngineAssumption ==
  /\ Engines # {} /\ Versions # {}
  /\ CommitSteps \subseteq GateSteps
  /\ RecheckSteps \subseteq GateSteps \ CommitSteps
  /\ ContinueSteps \subseteq GateSteps
  /\ Consequential \subseteq GateSteps
  /\ SendSteps \subseteq Steps \ GateSteps
  /\ ExternalSteps \subseteq Steps \ (GateSteps \cup SendSteps)
  /\ ApprovalFor \in [DOMAIN ApprovalFor -> GateSteps]
  /\ SendSteps \subseteq DOMAIN ApprovalFor
  /\ DOMAIN ApprovalFor \subseteq SendSteps \cup ExternalSteps
  /\ \A s \in DOMAIN ApprovalFor : ApprovalFor[s] < s
  /\ KeyOf \in [EffectSteps -> Keys]
  /\ GateWired \in BOOLEAN /\ SavesOverlap \in BOOLEAN /\ Redecide \in BOOLEAN
  /\ MonitorOn \in BOOLEAN /\ Releases \in BOOLEAN
  /\ ExecuteFrom \subseteq Statuses
  /\ MaxCrashes \in Nat

PlainSteps == Steps \ (GateSteps \cup SendSteps \cup ExternalSteps)

VARIABLES
  run,        \* what each engine's call has in memory
  version,    \* the identity of each engine's step functions
  draft,      \* draft_reply produced a draft: fixed, it is an input of the run
  gateway,    \* external: what the gateway holds under each step's request key
  monitor,    \* detect_crashed: "seen" between its SELECT and its UPDATE
  writes,     \* history: executions of the tool behind each key
  crashes     \* history: crashes so far

envVars == <<draft, gateway, monitor, writes, crashes>>
vars == <<storeVars, gateVars, run, version, envVars>>

Labels == {"idle", "mark_running", "check_wait", "check_definition",
           "mark_stale", "read_decision", "commit_check", "commit_execute",
           "commit_log", "save_decision", "mark_decided", "mark_continued",
           "reload", "loop", "step", "gate_insert", "gate_check",
           "save_pending", "record_hash", "mark_paused", "send_log",
           "record_intent", "insert_intent", "submit", "mark_submitted", "poll",
           "mark_terminal", "set_hash", "mark_waiting", "raised",
           "save_result"}

\* idx: the index _run_from_step is at; of the last loaded WorkflowState, at: its
\* current_step, and seen: the one output a step reads, its approval (the
\* status is used at once); gate: the gate_id in hand; out: the result to save;
\* base: the step_data its save_checkpoint has read, when saves can overlap;
\* back: who called _resume_index_after_approval.
Unread == <<>>
Call == [pc: Labels, idx: Nat, at: Nat \cup {-1}, seen: Outputs, gate: Nat,
         out: Outputs, base: [Steps -> Outputs] \cup {Unread}, back: {"resume", "loop"}]

Idle == [pc |-> "idle", idx |-> 0, at |-> -1, seen |-> "absent", gate |-> 0,
         out |-> "absent", base |-> Unread, back |-> "resume"]

GatewayStates == {"unknown", "open", "confirmed", "denied", "unresolved"}

TypeOK ==
  /\ StoreTypeOK /\ GateTypeOK
  /\ run \in [Engines -> Call]
  /\ version \in [Engines -> Versions]
  /\ draft \in BOOLEAN
  /\ gateway \in [ExternalSteps -> GatewayStates]
  /\ monitor \in {"idle", "seen"}
  /\ writes \in [Keys -> Nat]
  /\ crashes \in Nat

Init ==
  /\ CreateWorkflow /\ EmptyQueue
  /\ run = [e \in Engines |-> Idle]
  /\ version \in [Engines -> Versions]
  /\ ~Releases => \A e, f \in Engines : version[e] = version[f]
  /\ draft \in BOOLEAN
  /\ gateway = [s \in ExternalSteps |-> "unknown"]
  /\ monitor = "idle"
  /\ writes = [k \in Keys |-> 0]
  /\ crashes = 0
-----------------------------------------------------------------------------
At(e, label) == run[e].pc = label
Becomes(e, call) == run' = [run EXCEPT ![e] = call]
Goto(e, label) == Becomes(e, [run[e] EXCEPT !.pc = label])
Return(e) == Becomes(e, Idle)

\* The step an engine works on, and the step whose gate it decides.
Step(e) == run[e].idx
Gate(e) == run[e].at

\* Go on with nothing in use but the step index, or the index and a result.
Enter(e, label, index) == Becomes(e, [Idle EXCEPT !.pc = label, !.idx = index])
StepTo(e, label) == Enter(e, label, Step(e))
Yield(e, output, label) ==
  Becomes(e, [Idle EXCEPT !.pc = label, !.idx = Step(e), !.out = output])

\* A read changes no table; a write changes one.
StoreRead == UNCHANGED <<storeVars, gateVars, version, envVars>>
StoreWrite == UNCHANGED <<gateVars, version, envVars>>
GateWrite == UNCHANGED <<storeVars, version, envVars>>

\* save_checkpoint, called at these labels.  With one engine nothing writes
\* step_data between its SELECT and its UPDATE, so the two are one step unless
\* SavesOverlap.
Saving == {"save_decision", "save_result", "save_pending"}

SelectData(e) ==
  /\ SavesOverlap /\ run[e].pc \in Saving /\ run[e].base = Unread
  /\ Becomes(e, [run[e] EXCEPT !.base = stepData])
  /\ StoreRead

Save(e, s, output) ==
  \/ ~SavesOverlap /\ SaveCheckpoint(s, output, stepData)
  \/ SavesOverlap /\ run[e].base # Unread /\ SaveCheckpoint(s, output, run[e].base)

\* On to the next store call after a save, with the rest still in use.
SavedTo(e, label) == Becomes(e, [run[e] EXCEPT !.pc = label, !.base = Unread])

\* _definition_is_stale: the intent's hash decides when there is an intent.
DefinitionStale(e, s) ==
  /\ s \in Steps
  /\ IF HasIntent(s)
     THEN intent[s].hash \notin {NoHash, version[e]}
     ELSE /\ s \in Consequential /\ GateWired /\ HasGate(s)
          /\ Latest(s).hash \notin {NoHash, version[e]}
-----------------------------------------------------------------------------
(* execute() and resume(): the load, and the early returns it decides. *)

SlipExecute(e) ==   \* an off-by-one in the first step to run
  /\ At(e, "idle")
  /\ status \in ExecuteFrom
  /\ status \notin Closed \cup {"waiting_external_action"}
  /\ Enter(e, "mark_running", current + 2)
  /\ StoreRead

Execute(e) ==
  /\ At(e, "idle")
  /\ status \in ExecuteFrom
  /\ status \notin Closed \cup {"waiting_external_action"}
  /\ Enter(e, "mark_running", current + 1)
  /\ StoreRead

Resume(e) ==
  /\ At(e, "idle")
  /\ status \notin Closed
  /\ \/ /\ status = "waiting_external_action"
        /\ current \in Steps
        /\ Becomes(e, [Idle EXCEPT !.pc = "check_wait", !.at = current])
     \/ /\ status = "paused_approval"
        /\ Becomes(e, [Idle EXCEPT !.pc = "check_definition", !.at = current])
     \/ /\ status = "approved"
        /\ Becomes(e, [Idle EXCEPT !.pc = "read_decision", !.at = current])
     \/ /\ status \notin {"waiting_external_action", "paused_approval", "approved"}
        /\ Enter(e, "mark_running", current + 1)
  /\ StoreRead

\* The waiting branch: no intent for the current step, no resume.
CheckWait(e) ==
  /\ At(e, "check_wait")
  /\ \/ ~HasIntent(Gate(e)) /\ Return(e)
     \/ HasIntent(Gate(e)) /\ DefinitionStale(e, Gate(e)) /\ Goto(e, "mark_stale")
     \/ /\ HasIntent(Gate(e)) /\ ~DefinitionStale(e, Gate(e))
        /\ Enter(e, "mark_running", Gate(e))
  /\ StoreRead

SlipCheckDefinition(e) ==   \* resumed without comparing identities
  /\ At(e, "check_definition")
  /\ Goto(e, "read_decision")
  /\ StoreRead

CheckDefinition(e) ==
  /\ At(e, "check_definition")
  /\ Goto(e, IF DefinitionStale(e, Gate(e)) THEN "mark_stale" ELSE "read_decision")
  /\ StoreRead

MarkStale(e) ==
  /\ At(e, "mark_stale")
  /\ UpdateStatus("stale_definition")
  /\ Return(e)
  /\ StoreWrite

MarkRunning(e) ==
  /\ At(e, "mark_running")
  /\ UpdateStatus("running")
  /\ StepTo(e, "loop")
  /\ StoreWrite
-----------------------------------------------------------------------------
(* _resume_index_after_approval, called by resume() and by the step loop.  *)

\* Its return to the caller: resume() reloads the row, the loop stops when the
\* index did not move and goes on from the new index otherwise.
Back(e, next) ==
  IF run[e].back = "resume"
  THEN Enter(e, "reload", next)
  ELSE IF next <= Gate(e)
       THEN Return(e)
       ELSE Enter(e, "loop", next)

SlipReadPending(e) ==   \* an undecided gate goes on to the next step
  /\ At(e, "read_decision")
  /\ Back(e, Gate(e) + 1)
  /\ StoreRead

SlipReadDecision(e) ==   \* whatever is not rejected counts as approved
  /\ At(e, "read_decision")
  /\ LET g == Gate(e)
         found == GateWired /\ g \in GateSteps /\ HasGate(g)
         Decided(output, label) == Becomes(e, [run[e] EXCEPT !.out = output, !.pc = label])
     IN \/ ~found /\ Back(e, g + 1)
        \/ found /\ Latest(g).decision = "rejected" /\ Decided("rejected", "save_decision")
        \/ /\ found /\ Latest(g).decision # "rejected"
           /\ Decided("approved",
                      IF g \in CommitSteps THEN "commit_check" ELSE "save_decision")
  /\ StoreRead

\* get_for_workflow, and what the newest gate's decision leads to.
ReadDecision(e) ==
  /\ At(e, "read_decision")
  /\ LET g == Gate(e)
         found == GateWired /\ g \in GateSteps /\ HasGate(g)
         decision == Latest(g).decision
         Decided(output, label) == Becomes(e, [run[e] EXCEPT !.out = output, !.pc = label])
     IN \/ GateWired /\ g >= N /\ Return(e)          \* no such step: raises
        \/ ~found /\ (GateWired => g < N) /\ Back(e, g + 1)
        \/ found /\ decision = "pending" /\ Back(e, g)
        \/ found /\ decision = "rejected" /\ Decided("rejected", "save_decision")
        \/ /\ found /\ decision = "approved"
           /\ Decided("approved",
                      IF g \in CommitSteps THEN "commit_check" ELSE "save_decision")
  /\ StoreRead

SlipCommitCheck(e) ==   \* the write is executed without looking its key up
  /\ At(e, "commit_check")
  /\ Goto(e, "commit_execute")
  /\ StoreRead

\* The commit handler (_execute_write_once): look the key up, execute the
\* write, log it; then the engine saves what it returned.
CommitCheck(e) ==
  /\ At(e, "commit_check")
  /\ Goto(e, IF KeyOf[Gate(e)] \in effectLog THEN "save_decision" ELSE "commit_execute")
  /\ StoreRead

CommitExecute(e) ==
  /\ At(e, "commit_execute")
  /\ \/ /\ writes' = [writes EXCEPT ![KeyOf[Gate(e)]] = @ + 1]
        /\ Goto(e, "commit_log")
     \/ UNCHANGED writes /\ Return(e)      \* the tool refused and raised
  /\ UNCHANGED <<storeVars, gateVars, version, draft, gateway, monitor, crashes>>

CommitLog(e) ==
  /\ At(e, "commit_log")
  /\ \/ LogSideEffect(KeyOf[Gate(e)]) /\ Goto(e, "save_decision")
     \/ KeyOf[Gate(e)] \in effectLog /\ Return(e) /\ UNCHANGED storeVars
  /\ StoreWrite

SaveDecision(e) ==
  /\ At(e, "save_decision")
  /\ Save(e, Gate(e), run[e].out)
  /\ SavedTo(e, "mark_decided")
  /\ StoreWrite

\* A rejection that continues passes through "rejected" on its way.
MarkDecided(e) ==
  /\ At(e, "mark_decided")
  /\ UpdateStatus(run[e].out)
  /\ \/ run[e].out = "approved" /\ Back(e, Gate(e) + 1)
     \/ run[e].out = "rejected" /\ Gate(e) \in ContinueSteps /\ Goto(e, "mark_continued")
     \/ run[e].out = "rejected" /\ Gate(e) \notin ContinueSteps /\ Back(e, N)
  /\ StoreWrite

MarkContinued(e) ==
  /\ At(e, "mark_continued")
  /\ UpdateStatus("approved")
  /\ Back(e, Gate(e) + 1)
  /\ StoreWrite

SlipReload(e) ==   \* the rejection just stored is not looked at
  /\ At(e, "reload")
  /\ StepTo(e, "mark_running")
  /\ StoreRead

SlipReloadStrict(e) ==   \* goes on only when the row says running
  /\ At(e, "reload")
  /\ IF status # "running" THEN Return(e) ELSE StepTo(e, "mark_running")
  /\ StoreRead

Reload(e) ==
  /\ At(e, "reload")
  /\ IF status = "rejected" THEN Return(e) ELSE StepTo(e, "mark_running")
  /\ StoreRead
-----------------------------------------------------------------------------
(* _run_from_step. *)

\* What send_reply finds in step_data about its approval.
Approval(s) == IF s \in DOMAIN ApprovalFor THEN stepData[ApprovalFor[s]] ELSE "absent"

LoadState(e) ==
  /\ At(e, "loop") /\ Step(e) < N
  /\ \/ status = "rejected" /\ Return(e)
     \/ /\ status = "paused_approval"
        /\ Becomes(e, [Idle EXCEPT !.pc = "read_decision", !.at = current, !.back = "loop"])
     \/ /\ status \notin {"rejected", "paused_approval"}
        /\ Becomes(e, [run[e] EXCEPT !.pc = "step", !.at = current, !.seen = Approval(Step(e))])
  /\ StoreRead

Complete(e) ==
  /\ At(e, "loop") /\ Step(e) >= N
  /\ UpdateStatus("completed")
  /\ Return(e)
  /\ StoreWrite

SaveResult(e) ==
  /\ At(e, "save_result")
  /\ Save(e, Step(e), run[e].out)
  /\ Enter(e, "loop", Step(e) + 1)
  /\ StoreWrite

SlipRaised(e) ==   \* a step with an intent fails like any other
  /\ At(e, "raised")
  /\ UpdateStatus("failed")
  /\ Return(e)
  /\ StoreWrite

\* The except clause: a step with an intent keeps waiting, any other fails.
Raised(e) ==
  /\ At(e, "raised")
  /\ UpdateStatus(IF HasIntent(Step(e)) THEN "waiting_external_action" ELSE "failed")
  /\ Return(e)
  /\ StoreWrite

\* The PauseForApproval branch: checkpoint, guard hash, status.
SavePending(e) ==
  /\ At(e, "save_pending")
  /\ Save(e, Step(e), "pending")
  /\ IF Step(e) \in Consequential THEN SavedTo(e, "record_hash") ELSE StepTo(e, "mark_paused")
  /\ StoreWrite

RecordHash(e) ==
  /\ At(e, "record_hash")
  /\ RecordGateHash(Step(e), run[e].gate, version[e])
  /\ StepTo(e, "mark_paused")
  /\ GateWrite

MarkPaused(e) ==
  /\ At(e, "mark_paused")
  /\ UpdateStatus("paused_approval")
  /\ Return(e)
  /\ StoreWrite

\* The WaitForExternalAction branch: the intent's hash, then the status.
SetHash(e) ==
  /\ At(e, "set_hash")
  /\ SetIntentHash(Step(e), version[e])
  /\ Goto(e, "mark_waiting")
  /\ StoreWrite

MarkWaiting(e) ==
  /\ At(e, "mark_waiting")
  /\ UpdateStatus("waiting_external_action")
  /\ Return(e)
  /\ StoreWrite
-----------------------------------------------------------------------------
(* The step functions. *)

PlainSucceeds(e) ==
  /\ At(e, "step") /\ Step(e) \in PlainSteps
  /\ Yield(e, "done", "save_result")
  /\ StoreRead

PlainRaises(e) ==
  /\ At(e, "step") /\ Step(e) \in PlainSteps
  /\ StepTo(e, "raised")
  /\ StoreRead

\* A gate step: request_approval finds a gate or inserts one.  approval_step
\* needs no gate without a draft and reads the decision; an agent turn, like
\* the CLEAR plan step, pauses whatever the decision is.
Requested(e, i) ==
  Becomes(e, [Idle EXCEPT !.idx = Step(e), !.gate = i,
                          !.pc = IF Step(e) \in RecheckSteps THEN "gate_check" ELSE "save_pending"])

SlipRunGate(e) ==   \* a gate is inserted without looking for one
  /\ At(e, "step") /\ Step(e) \in GateSteps
  /\ StepTo(e, "gate_insert")
  /\ StoreRead

RunGate(e) ==
  /\ At(e, "step") /\ Step(e) \in GateSteps
  /\ LET s == Step(e)
     IN \/ s \in RecheckSteps /\ ~draft /\ Yield(e, "skipped", "save_result")
        \/ /\ s \in RecheckSteps => draft
           /\ IF HasGate(s) THEN Requested(e, Len(queue[s])) ELSE StepTo(e, "gate_insert")
  /\ StoreRead

GateInsert(e) ==
  /\ At(e, "gate_insert")
  /\ InsertGate(Step(e))
  /\ Requested(e, Len(queue[Step(e)]) + 1)
  /\ GateWrite

GateCheck(e) ==
  /\ At(e, "gate_check")
  /\ LET decision == queue[Step(e)][run[e].gate].decision
     IN IF decision = "pending"
        THEN Goto(e, "save_pending")
        ELSE Yield(e, decision, "save_result")
  /\ StoreRead

\* send_reply has nothing to send, or is not to send it.  The approval it obeys
\* is the one in the state loaded before the step; an absent one is no refusal.
Refused(e) == ~draft \/ run[e].seen \in {"skipped", "pending", "rejected"}

SlipSendRejected(e) ==   \* a rejection does not stop the send
  /\ At(e, "step") /\ Step(e) \in SendSteps
  /\ IF ~draft \/ run[e].seen \in {"skipped", "pending"}
     THEN Yield(e, "skipped", "save_result")
     ELSE StepTo(e, "send_log")
  /\ StoreRead

SlipSendReplay(e) ==   \* a send already logged counts as skipped
  /\ At(e, "step") /\ Step(e) \in SendSteps
  /\ LET s == Step(e)
     IN IF Refused(e) \/ KeyOf[s] \in effectLog
        THEN Yield(e, "skipped", "save_result")
        ELSE StepTo(e, "send_log")
  /\ StoreRead

\* send_reply with the mock sender.
RunSend(e) ==
  /\ At(e, "step") /\ Step(e) \in SendSteps
  /\ \/ Refused(e) /\ Yield(e, "skipped", "save_result")
     \/ ~Refused(e) /\ KeyOf[Step(e)] \in effectLog /\ Yield(e, "sent", "save_result")
     \/ ~Refused(e) /\ KeyOf[Step(e)] \notin effectLog /\ StepTo(e, "send_log")
  /\ StoreRead

SendLog(e) ==
  /\ At(e, "send_log")
  /\ \/ LogSideEffect(KeyOf[Step(e)]) /\ Yield(e, "sent", "save_result")
     \/ KeyOf[Step(e)] \in effectLog /\ StepTo(e, "raised") /\ UNCHANGED storeVars
  /\ StoreWrite
-----------------------------------------------------------------------------
(* send_reply with the gateway client, and GatewayClient.run_action. *)

RunExternal(e) ==
  /\ At(e, "step") /\ Step(e) \in ExternalSteps
  /\ LET state == intent[Step(e)].state
     IN \/ Refused(e) /\ Yield(e, "skipped", "save_result")
        \/ ~Refused(e) /\ state = "none" /\ Goto(e, "record_intent")
        \/ ~Refused(e) /\ state = "intent_recorded" /\ StepTo(e, "submit")
        \/ ~Refused(e) /\ state \in {"submitted", "terminal_read"} /\ StepTo(e, "poll")
  /\ StoreRead

\* record_external_action_intent: its SELECT.  Another engine may have recorded
\* the intent since; the row must then still carry the empty hash passed here.
RecordIntent(e) ==
  /\ At(e, "record_intent")
  /\ LET s == Step(e)
     IN \/ ~HasIntent(s) /\ Goto(e, "insert_intent")
        \/ HasIntent(s) /\ intent[s].hash # NoHash /\ StepTo(e, "raised")
        \/ /\ HasIntent(s) /\ intent[s].hash = NoHash
           /\ StepTo(e, IF intent[s].state = "intent_recorded" THEN "submit" ELSE "poll")
  /\ StoreRead

\* Its INSERT, which raises when another engine's came first.
InsertRow(e) ==
  /\ At(e, "insert_intent")
  /\ \/ InsertIntent(Step(e), run[e].at + 1) /\ StepTo(e, "submit")
     \/ HasIntent(Step(e)) /\ StepTo(e, "raised") /\ UNCHANGED storeVars
  /\ StoreWrite

\* POST under the step's request key: the gateway opens one action per key; the
\* request or its reply can be lost (wait, or raise after a read timeout), and
\* the gateway can refuse (raise).
Submit(e) ==
  /\ At(e, "submit")
  /\ \/ /\ gateway' = [gateway EXCEPT ![Step(e)] = IF @ = "unknown" THEN "open" ELSE @]
        /\ \E next \in {"mark_submitted", "set_hash", "raised"} : Goto(e, next)
     \/ UNCHANGED gateway /\ \E next \in {"set_hash", "raised"} : Goto(e, next)
  /\ UNCHANGED <<storeVars, gateVars, version, draft, monitor, writes, crashes>>

MarkSubmitted(e) ==
  /\ At(e, "mark_submitted")
  /\ MarkIntent(Step(e), "submitted")
  /\ Goto(e, "poll")
  /\ StoreWrite

SlipPollAnswered(e) ==   \* an unresolved action counts as denied
  /\ At(e, "poll")
  /\ LET answer == gateway[Step(e)]
     IN IF answer \in {"confirmed", "denied", "unresolved"}
        THEN Yield(e, IF answer = "confirmed" THEN answer ELSE "denied", "mark_terminal")
        ELSE Goto(e, "set_hash")
  /\ StoreRead

\* GET the action, and its receipt when it is terminal.
PollAnswered(e) ==
  /\ At(e, "poll")
  /\ LET answer == gateway[Step(e)]
     IN IF answer \in {"confirmed", "denied"}
        THEN Yield(e, answer, "mark_terminal")
        ELSE Goto(e, "set_hash")
  /\ StoreRead

PollFails(e) ==
  /\ At(e, "poll")
  /\ \E next \in {"set_hash", "raised"} : Goto(e, next)
  /\ StoreRead

MarkTerminal(e) ==
  /\ At(e, "mark_terminal")
  /\ MarkIntent(Step(e), "terminal_read")
  /\ Goto(e, "save_result")
  /\ StoreWrite
-----------------------------------------------------------------------------
(* The environment: processes, operators, the crash detector, the gateway. *)

Crash(e) ==
  /\ ~At(e, "idle") /\ crashes < MaxCrashes
  /\ crashes' = crashes + 1
  /\ Return(e)
  /\ UNCHANGED <<storeVars, gateVars, version, draft, gateway, monitor, writes>>

Release(e) ==
  /\ Releases /\ At(e, "idle")
  /\ \E v \in Versions : version' = [version EXCEPT ![e] = v]
  /\ UNCHANGED <<storeVars, gateVars, run, envVars>>

Decide ==
  /\ \E g \in GateSteps : \E i \in 1 .. Len(queue[g]) :
       /\ Redecide \/ queue[g][i].decision = "pending"
       /\ Approve(g, i) \/ Reject(g, i)
  /\ UNCHANGED <<storeVars, run, version, envVars>>

\* detect_crashed: its SELECT is outside the transaction of its UPDATE, and a
\* running step that outlasts the cutoff looks like a crashed one.
DetectSelect ==
  /\ MonitorOn /\ monitor = "idle" /\ status = "running"
  /\ monitor' = "seen"
  /\ UNCHANGED <<storeVars, gateVars, run, version, draft, gateway, writes, crashes>>

DetectUpdate ==
  /\ monitor = "seen"
  /\ monitor' = "idle"
  /\ UpdateStatus("crashed")
  /\ UNCHANGED <<gateVars, run, version, draft, gateway, writes, crashes>>

\* An open action reaches a public terminal; only UNRESOLVED is ever revised.
GatewayDecides ==
  /\ \E s \in ExternalSteps :
       /\ gateway[s] \in {"open", "unresolved"}
       /\ \E outcome \in {"confirmed", "denied", "unresolved"} :
            gateway' = [gateway EXCEPT ![s] = outcome]
  /\ UNCHANGED <<storeVars, gateVars, run, version, draft, monitor, writes, crashes>>
-----------------------------------------------------------------------------
Deciding(e) ==
  \/ ReadDecision(e) \/ CommitCheck(e) \/ CommitExecute(e) \/ CommitLog(e)
  \/ SaveDecision(e) \/ MarkDecided(e) \/ MarkContinued(e) \/ Reload(e)

Looping(e) ==
  \/ CheckWait(e) \/ CheckDefinition(e) \/ MarkStale(e) \/ MarkRunning(e)
  \/ LoadState(e) \/ Complete(e) \/ SelectData(e) \/ SaveResult(e) \/ Raised(e)
  \/ SavePending(e) \/ RecordHash(e) \/ MarkPaused(e) \/ SetHash(e) \/ MarkWaiting(e)

Stepping(e) ==
  \/ PlainSucceeds(e) \/ PlainRaises(e)
  \/ RunGate(e) \/ GateInsert(e) \/ GateCheck(e) \/ RunSend(e) \/ SendLog(e)

Acting(e) ==
  \/ RunExternal(e) \/ RecordIntent(e) \/ InsertRow(e) \/ Submit(e) \/ MarkSubmitted(e)
  \/ PollAnswered(e) \/ PollFails(e) \/ MarkTerminal(e)

Work(e) == Deciding(e) \/ Looping(e) \/ Stepping(e) \/ Acting(e)

Next ==
  \/ \E e \in Engines : Execute(e) \/ Resume(e) \/ Work(e) \/ Crash(e) \/ Release(e)
  \/ Decide \/ DetectSelect \/ DetectUpdate \/ GatewayDecides

Spec == Init /\ [][Next]_vars
=============================================================================
