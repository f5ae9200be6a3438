------------------------- MODULE WorkflowInvariant -------------------------
(***************************************************************************)
(* The inductive invariant behind EffectNeedsApproval, NothingUnrecorded   *)
(* and ImplementsDurableRun, for any number of engines whose saves do not  *)
(* overlap and whose external steps have no gate (OneWriterAtATime).       *)
(***************************************************************************)
EXTENDS WorkflowProperties

\* The assumption on the environment and on the workflow.
OneWriterAtATime == ~SavesOverlap /\ DOMAIN ApprovalFor = SendSteps

\* The steps with a durable trace, and those with a recorded intent.
Traced == {s \in Steps : Stored(s)}
Asked == {s \in Steps : HasIntent(s)}

UpTo(n) == {s \in Steps : s <= n}

\* Results a step of each kind can be given.
GateOutputs == {"pending", "approved", "rejected", "skipped"}
Fits(s, output) ==
  /\ output # "absent"
  /\ s \in GateSteps => output \in GateOutputs /\ (output = "approved" => s \in everApproved)
  /\ s \in ExternalSteps => s \in Asked \/ ~draft
-----------------------------------------------------------------------------
\* The rows.
RowsTraced == current < N /\ UpTo(current) \subseteq Traced

OutputsFit == \A s \in Steps : stepData[s] # "absent" => Fits(s, stepData[s])

IntentsAreExternal == Asked \subseteq ExternalSteps

ApprovalsGranted ==
  \A g \in GateSteps : \A i \in 1 .. Len(queue[g]) :
    queue[g][i].decision = "approved" => g \in everApproved

Rows == RowsTraced /\ OutputsFit /\ IntentsAreExternal /\ ApprovalsGranted
-----------------------------------------------------------------------------
\* What an engine may have in memory.  Its indices are backed by durable traces:
IndicesTraced(call) ==
  /\ UpTo(call.at) \subseteq Traced
  /\ call.idx < N => UpTo(call.idx - 1) \subseteq Traced

StepLabels == {"step", "gate_insert", "gate_check", "save_pending", "record_hash",
               "mark_paused", "send_log", "record_intent", "insert_intent", "submit",
               "mark_submitted", "poll", "mark_terminal", "set_hash", "mark_waiting",
               "raised", "save_result"}

\* the step it runs is one of the kind its label is about:
StepKnown(call) ==
  /\ call.pc \in StepLabels => call.idx \in Steps
  /\ call.pc \in {"gate_insert", "gate_check", "save_pending"} => call.idx \in GateSteps
  /\ call.pc \in {"record_intent", "insert_intent"} => call.idx \in ExternalSteps /\ draft
  /\ call.pc \in {"submit", "mark_submitted", "poll", "mark_terminal"} =>
       call.idx \in ExternalSteps /\ call.idx \in Asked

\* the approval it has seen was given:
SeenGranted(call) ==
  /\ call.seen # "absent" => call.idx \in SendSteps
  /\ call.seen = "approved" => ApprovalFor[call.idx] \in everApproved
  /\ call.pc = "step" /\ call.idx \in SendSteps => call.seen \in GateOutputs

\* and so was the approval of what it is about to save, execute or log.
WorkGranted(call) ==
  /\ call.pc = "send_log" => ApprovalFor[call.idx] \in everApproved
  /\ call.pc \in {"commit_check", "commit_execute", "commit_log"} =>
       call.at \in CommitSteps /\ call.at \in everApproved /\ call.out = "approved"
  /\ call.pc \in {"save_decision", "mark_decided"} =>
       call.at \in GateSteps /\ call.out \in {"approved", "rejected"} /\ Fits(call.at, call.out)
  /\ call.pc = "mark_continued" => call.at \in GateSteps
  /\ call.pc \in {"mark_terminal", "save_result"} => Fits(call.idx, call.out)

Sound == {call \in Call : /\ IndicesTraced(call) /\ StepKnown(call)
                          /\ SeenGranted(call) /\ WorkGranted(call)}

Memory == \A e \in Engines : run[e] \in Sound

IInv == Rows /\ Memory /\ EffectNeedsApproval
=============================================================================
