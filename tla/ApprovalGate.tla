---------------------------- MODULE ApprovalGate ----------------------------
(***************************************************************************)
(* The approval queue of one workflow (src/approval.py): for each step the *)
(* gates requested for it, oldest first.  get_for_workflow returns the     *)
(* newest by requested_at, abstracted to the last one inserted.            *)
(*                                                                         *)
(* everApproved is a history variable: the steps for which an operator has *)
(* approved some gate.  No code reads it.                                  *)
(***************************************************************************)
EXTENDS WorkflowStore

CONSTANT GateSteps   \* the steps that ask for an approval

ASSUME GateAssumption == GateSteps \subseteq Steps

VARIABLES queue, everApproved

gateVars == <<queue, everApproved>>

Decisions == {"pending", "approved", "rejected"}
GateRow == [decision: Decisions, hash: Versions \cup {NoHash}]

GateTypeOK ==
  /\ queue \in [GateSteps -> Seq(GateRow)]
  /\ everApproved \in SUBSET GateSteps

EmptyQueue == queue = [g \in GateSteps |-> <<>>] /\ everApproved = {}

HasGate(g) == queue[g] # <<>>
Latest(g) == queue[g][Len(queue[g])]

\* The INSERT of request_approval; its SELECT is a transaction of the caller's.
InsertGate(g) ==
  /\ queue' = [queue EXCEPT ![g] = Append(@, [decision |-> "pending", hash |-> NoHash])]
  /\ UNCHANGED everApproved

\* record_approval_definition_hash (a store call on this table).
RecordGateHash(g, i, hash) ==
  /\ queue' = [queue EXCEPT ![g][i].hash = hash]
  /\ UNCHANGED everApproved

\* approve and reject: UPDATE ... WHERE gate_id, whatever the row held before.
Approve(g, i) ==
  /\ queue' = [queue EXCEPT ![g][i].decision = "approved"]
  /\ everApproved' = everApproved \cup {g}

Reject(g, i) ==
  /\ queue' = [queue EXCEPT ![g][i].decision = "rejected"]
  /\ UNCHANGED everApproved
=============================================================================
