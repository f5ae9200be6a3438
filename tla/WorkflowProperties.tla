------------------------- MODULE WorkflowProperties -------------------------
(***************************************************************************)
(* What WorkflowEngine is held to.  The properties are grouped by the      *)
(* assumptions on the environment under which they are claimed; README.md  *)
(* says which run checks which.                                            *)
(***************************************************************************)
EXTENDS WorkflowEngine

\* A step that leaves a durable trace: an output, or a recorded intent.
Stored(s) == stepData[s] # "absent" \/ HasIntent(s)

\* The gate an effect obeys.
ApprovalOf(s) == IF s \in CommitSteps THEN s ELSE ApprovalFor[s]
-----------------------------------------------------------------------------
(* With any number of engines, crashes, releases and operators.            *)

\* No mock send is logged, no approved tool runs and no gated external action
\* is recorded unless an operator has approved the gate of a step with that
\* key, whatever skipped the gate step.
EffectNeedsApproval ==
  /\ \A k \in effectLog :
       \E s \in EffectSteps : KeyOf[s] = k /\ ApprovalOf(s) \in everApproved
  /\ \A k \in Keys : writes[k] > 0 =>
       \E s \in CommitSteps : KeyOf[s] = k /\ s \in everApproved
  /\ \A s \in ExternalSteps \cap DOMAIN ApprovalFor :
       HasIntent(s) => ApprovalFor[s] \in everApproved

\* Checkpoint after every step: nothing up to current_step, and nothing before
\* the step an engine is about to run, lacks a durable trace, even when a slow
\* engine has moved current_step back under a fast one.
NothingUnrecorded ==
  /\ current < N /\ \A s \in Steps : s <= current => Stored(s)
  /\ \A e \in Engines, s \in Steps : At(e, "step") /\ s < Step(e) => Stored(s)

\* The engine's rows implement the abstract durable run.
Abstract == INSTANCE DurableRun WITH
  Sends <- SendSteps, Commits <- CommitSteps, GateOf <- ApprovalFor, Key <- KeyOf,
  settled <- {s \in Steps : Stored(s)}, approvals <- everApproved, effects <- effectLog

ImplementsDurableRun == Abstract!Spec

\* request_approval looks for a gate before it inserts one: only engines that
\* overlap between the two calls can leave a step with several gates, and a
\* decision on any but the newest is never read.
OneGatePerEngine ==
  \A g \in GateSteps : Len(queue[g]) <= Cardinality(Engines)

\* An external step's recorded outcome is the one the gateway reached.
OutcomeIsTheGateways ==
  \A s \in ExternalSteps :
    stepData[s] \in {"confirmed", "denied"} => stepData[s] = gateway[s]
-----------------------------------------------------------------------------
(* With one engine at a time, and crashes.                                 *)

\* A logged send is what a completed workflow reports: a crash between the log
\* and the checkpoint is repaired by replaying the logged result.
LoggedSendReported ==
  \A s \in SendSteps :
    status = "completed" /\ KeyOf[s] \in effectLog => stepData[s] = "sent"

\* A write tool runs once more than its log allows only when a crash hit the
\* window between the tool and log_side_effect.
ExtraWritesPaidByCrashes == \A k \in Keys : writes[k] <= 1 + crashes

\* D4: a write approved under one definition is not executed by a process
\* that carries another one.
WriteUnderApprovedDefinition ==
  \A e \in Engines :
    At(e, "commit_execute") /\ Gate(e) \in Consequential
      => Latest(Gate(e)).hash = version[e]
-----------------------------------------------------------------------------
(* With one engine, until a crash, unless execute() is called on a paused  *)
(* workflow.                                                               *)

\* Nothing after a gate runs while its pending checkpoint stands.
NothingPassesAPendingGate ==
  crashes = 0 =>
    \A g \in GateSteps, s \in Steps :
      g < s /\ stepData[s] # "absent" => stepData[g] # "pending"

\* A terminating rejection ends the workflow as rejected, for the gates whose
\* decision only resume() reads.
RejectionTerminates ==
  crashes = 0 /\ status = "completed" =>
    \A g \in GateSteps \ (ContinueSteps \cup RecheckSteps) : stepData[g] # "rejected"

\* A completed workflow has a gateway outcome for each external step.
ExternalStepNotSkipped ==
  crashes = 0 /\ status = "completed" =>
    \A s \in ExternalSteps : stepData[s] \in {"confirmed", "denied", "skipped"}
-----------------------------------------------------------------------------
(* What the documents say without those assumptions.                       *)

\* src/engine.py: a failure "must not let a later resume skip its step".
ExternalStepNeverSkipped ==
  status = "completed" =>
    \A s \in ExternalSteps : stepData[s] \in {"confirmed", "denied", "skipped"}
-----------------------------------------------------------------------------
(* Scheduling: a process that has started a call runs on, somebody calls   *)
(* resume() while the workflow is open, operators and the gateway decide,  *)
(* and a step or a gateway that is retried for ever succeeds in the end.   *)

FairSpec ==
  /\ Spec
  /\ \A e \in Engines :
       /\ WF_vars(Work(e)) /\ WF_vars(Execute(e)) /\ WF_vars(Resume(e))
       /\ SF_vars(PlainSucceeds(e)) /\ SF_vars(PollAnswered(e))
       /\ SF_vars(At(e, "submit") /\ Submit(e) /\ run'[e].pc = "mark_submitted")
       /\ SF_vars(At(e, "commit_execute") /\ CommitExecute(e) /\ run'[e].pc = "commit_log")
  /\ WF_vars(Decide)
  /\ SF_vars(GatewayDecides /\ \A s \in ExternalSteps : gateway'[s] # "unresolved")

\* Whatever crashed or raised, the workflow ends.
EventuallyClosed == <>[](status \in Closed)
=============================================================================
