--------------------------- MODULE WorkflowStore ---------------------------
(***************************************************************************)
(* The durable rows of ONE workflow (src/store.py) and the store calls     *)
(* that write them.  Every call of WorkflowStore opens a connection of its *)
(* own and commits it, so each operator below is one transaction: what     *)
(* happens between two of them is for the callers to interleave.  Two      *)
(* calls are not one transaction: save_checkpoint and                      *)
(* record_external_action_intent SELECT before the INSERT that opens the   *)
(* transaction (sqlite3 begins one only there, and PostgreSQL does not     *)
(* lock what a plain SELECT read), so what they read is an argument here.  *)
(*                                                                         *)
(* A step is its index in the registered list: steps are looked up by      *)
(* index, outputs and intents by name, and no workflow registers a name    *)
(* twice.  A step's output is abstracted to the part some code branches    *)
(* on.  The step_results log is left out: save_checkpoint appends to it in *)
(* the transaction that updates step_data, and neither the engine nor a    *)
(* step reads it.                                                          *)
(***************************************************************************)
EXTENDS Integers, Sequences, FiniteSets

CONSTANTS
  N,         \* how many steps the workflow registers
  Keys,      \* the idempotency keys its steps can compute
  Versions   \* identities a step function can have: a release may rename it

ASSUME StoreAssumption == N \in Nat \ {0}

Steps == 0 .. N - 1

Statuses == {"pending", "running", "paused_approval", "approved", "rejected",
             "completed", "failed", "crashed", "stale_definition",
             "waiting_external_action"}

\* The statuses execute() and resume() both return on.
Closed == {"completed", "rejected", "stale_definition"}

\* Outputs: "pending" {approved: False, pending: True}; "approved"/"rejected"
\* {approved: ...}; "skipped" {skipped: True}; "sent" a logged mock result;
\* "confirmed"/"denied" a mapped gateway terminal; "absent" no entry.
Outputs == {"absent", "done", "pending", "approved", "rejected", "skipped",
            "sent", "confirmed", "denied"}

NoHash == "no hash"
IntentStates == {"none", "intent_recorded", "submitted", "terminal_read"}

VARIABLES
  status,      \* workflows.status
  current,     \* workflows.current_step, -1 before the first checkpoint
  stepData,    \* workflows.step_data: the output recorded for each step
  effectLog,   \* the primary keys present in side_effect_log
  intent       \* external_action_intents: [state, hash] for each step

storeVars == <<status, current, stepData, effectLog, intent>>

StoreTypeOK ==
  /\ status \in Statuses
  /\ current \in Nat \cup {-1}
  /\ stepData \in [Steps -> Outputs]
  /\ effectLog \in SUBSET Keys
  /\ intent \in [Steps -> [state: IntentStates, hash: Versions \cup {NoHash}]]

\* create_workflow: the row is there before anyone calls the engine.
CreateWorkflow ==
  /\ status = "pending"
  /\ current = -1
  /\ stepData = [s \in Steps |-> "absent"]
  /\ effectLog = {}
  /\ intent = [s \in Steps |-> [state |-> "none", hash |-> NoHash]]

HasIntent(s) == intent[s].state # "none"

\* save_checkpoint: merge the output into the step_data it read, move
\* current_step (backwards too, when a slower engine saves an earlier step) and
\* set the status to running.
SaveCheckpoint(s, output, read) ==
  /\ stepData' = [read EXCEPT ![s] = output]
  /\ current' = s
  /\ status' = "running"
  /\ UNCHANGED <<effectLog, intent>>

\* update_status: an unconditional write.
UpdateStatus(new) ==
  /\ status' = new
  /\ UNCHANGED <<current, stepData, effectLog, intent>>

\* log_side_effect: a plain INSERT, which raises when the key is already there.
LogSideEffect(key) ==
  /\ key \notin effectLog
  /\ effectLog' = effectLog \cup {key}
  /\ UNCHANGED <<status, current, stepData, intent>>

\* record_external_action_intent, on its first call for the step: the intent,
\* the status and the caller's idea of the step index in one transaction.
InsertIntent(s, index) ==
  /\ ~HasIntent(s)
  /\ intent' = [intent EXCEPT ![s] = [state |-> "intent_recorded", hash |-> NoHash]]
  /\ current' = index
  /\ status' = "waiting_external_action"
  /\ UNCHANGED <<stepData, effectLog>>

\* mark_external_action_submitted and mark_external_action_terminal_read.
MarkIntent(s, state) ==
  /\ intent' = [intent EXCEPT ![s].state = state]
  /\ UNCHANGED <<status, current, stepData, effectLog>>

\* set_external_action_definition_hash: UPDATE ... WHERE, no row no effect.
SetIntentHash(s, hash) ==
  /\ intent' = IF HasIntent(s) THEN [intent EXCEPT ![s].hash = hash] ELSE intent
  /\ UNCHANGED <<status, current, stepData, effectLog>>
=============================================================================
