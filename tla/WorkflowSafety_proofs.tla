----------------------- MODULE WorkflowSafety_proofs -----------------------
(***************************************************************************)
(* Type correctness and safety of WorkflowEngine, for all values of its    *)
(* constants.                                                              *)
(*                                                                         *)
(* TypeOK alone is not inductive: the keys that are logged are those of    *)
(* commit and send steps only because an engine that is about to log one   *)
(* works on such a step, which TypeInv adds (with the like of it for the   *)
(* step that is waited for and for the gate that is checked).  The lemmas  *)
(* follow the groups of actions of Next.                                   *)
(*                                                                         *)
(* With OneWriterAtATime IInv is inductive; EffectNeedsApproval and        *)
(* NothingUnrecorded follow.  Most steps leave what IInv looks at alone    *)
(* (Still) and move one engine to another sound record; the few that write *)
(* it only add to it (Grows), so that the records of the other engines     *)
(* stay sound.                                                             *)
(*                                                                         *)
(* The sections after that have invariants of their own and need neither   *)
(* IInv nor OneWriterAtATime: the gateway's outcomes, the gates of a step, *)
(* the writes of one engine, and the definition they run under.            *)
(***************************************************************************)
EXTENDS WorkflowInvariant, SequenceTheorems, FiniteSetTheorems, TLAPS

-----------------------------------------------------------------------------
(* Types.                                                                  *)

\* The memory records in which such a label goes with its step.
CommitLabels == {"commit_check", "commit_execute", "commit_log"}
Placed == {call \in Call :
             /\ call.pc \in CommitLabels => call.at \in CommitSteps
             /\ call.pc = "send_log" => call.idx \in SendSteps
             /\ call.pc = "check_wait" => call.at \in Steps
             /\ call.pc = "gate_insert" => call.idx \in GateSteps
             /\ call.pc = "gate_check" => /\ call.idx \in GateSteps
                                         /\ call.gate \in 1 .. Len(queue[call.idx])}

TypeInv == TypeOK /\ run \in [Engines -> Placed]

\* The other labels.
Quiet == Labels \ (CommitLabels \cup {"send_log", "check_wait", "gate_insert", "gate_check"})
-----------------------------------------------------------------------------
\* The fields of an engine's record.
LEMMA FieldTypes ==
  ASSUME TypeInv, NEW e \in Engines
  PROVE  /\ Step(e) \in Nat
         /\ Gate(e) \in Nat \cup {-1}
         /\ Gate(e) + 1 \in Nat
         /\ run[e].gate \in Nat
         /\ run[e].out \in Outputs
         /\ run[e].base \in [Steps -> Outputs] \cup {Unread}
         /\ run[e].pc \in CommitLabels => Gate(e) \in CommitSteps
         /\ run[e].pc = "send_log" => Step(e) \in SendSteps
         /\ run[e].pc = "check_wait" => Gate(e) \in Steps
         /\ run[e].pc = "gate_insert" => Step(e) \in GateSteps
         /\ run[e].pc = "gate_check" => /\ Step(e) \in GateSteps
                                        /\ run[e].gate \in 1 .. Len(queue[Step(e)])
<1>1. run[e] \in Placed
  BY DEF TypeInv
<1> QED BY <1>1 DEF Placed, Call, Step, Gate

LEMMA StepsAreNat == Steps \subseteq Nat /\ GateSteps \subseteq Nat /\ N \in Nat
BY StoreAssumption, GateAssumption DEF Steps

LEMMA KeysOfSteps ==
  /\ \A s \in CommitSteps : KeyOf[s] \in Keys
  /\ \A s \in SendSteps : KeyOf[s] \in Keys
BY EngineAssumption DEF EffectSteps

\* The records the actions build are well formed.
LEMMA CallTypes ==
  ASSUME TypeInv, NEW e \in Engines
  PROVE  /\ Idle \in Placed
         /\ \A label \in Quiet :
              /\ [run[e] EXCEPT !.pc = label] \in Placed
              /\ [run[e] EXCEPT !.pc = label, !.base = Unread] \in Placed
              /\ \A output \in Outputs : [run[e] EXCEPT !.out = output, !.pc = label] \in Placed
              /\ \A index \in Nat : [Idle EXCEPT !.pc = label, !.idx = index] \in Placed
              /\ \A index \in Nat, output \in Outputs :
                   [Idle EXCEPT !.pc = label, !.idx = index, !.out = output] \in Placed
<1>1. Idle \in Placed
  BY DEF Idle, Placed, Call, Labels, CommitLabels, Outputs, Unread
<1>2. run[e] \in Placed
  BY DEF TypeInv
<1>3. ASSUME NEW label \in Quiet
      PROVE  /\ [run[e] EXCEPT !.pc = label] \in Placed
             /\ [run[e] EXCEPT !.pc = label, !.base = Unread] \in Placed
             /\ \A output \in Outputs : [run[e] EXCEPT !.out = output, !.pc = label] \in Placed
  <2>1. label \in Labels /\ label \notin CommitLabels
       /\ label \notin {"send_log", "check_wait", "gate_insert", "gate_check"}
    BY DEF Quiet
  <2>2. run[e] \in Call
    BY <1>2 DEF Placed
  <2> QED BY <2>1, <2>2 DEF Placed, Call
<1>4. ASSUME NEW label \in Quiet, NEW index \in Nat
      PROVE  /\ [Idle EXCEPT !.pc = label, !.idx = index] \in Placed
             /\ \A output \in Outputs :
                  [Idle EXCEPT !.pc = label, !.idx = index, !.out = output] \in Placed
  <2>1. label \in Labels /\ label \notin CommitLabels
       /\ label \notin {"send_log", "check_wait", "gate_insert", "gate_check"}
    BY DEF Quiet
  <2>2. Idle \in Call
    BY <1>1 DEF Placed
  <2> QED BY <2>1, <2>2 DEF Placed, Call
<1> QED BY <1>1, <1>3, <1>4

\* The moves of control the actions are made of: each leaves engine e with a
\* well formed record.
Moves(e) == \E call \in Placed : Becomes(e, call)

LEMMA MoveTypes ==
  ASSUME TypeInv, NEW e \in Engines
  PROVE  /\ Return(e) => Moves(e)
         /\ \A label \in Quiet :
              /\ Goto(e, label) => Moves(e)
              /\ StepTo(e, label) => Moves(e)
              /\ SavedTo(e, label) => Moves(e)
              /\ \A index \in Nat : Enter(e, label, index) => Moves(e)
              /\ \A output \in Outputs : Yield(e, output, label) => Moves(e)
         /\ \A next \in Nat : Back(e, next) => Moves(e)
<1>1. /\ Return(e) => Moves(e)
      /\ \A label \in Quiet : \A index \in Nat : Enter(e, label, index) => Moves(e)
  BY CallTypes DEF Moves, Return, Enter
<1>2. \A label \in Quiet :
        /\ Goto(e, label) => Moves(e)
        /\ SavedTo(e, label) => Moves(e)
  BY CallTypes DEF Moves, Goto, SavedTo
<1>3. \A label \in Quiet : StepTo(e, label) => Moves(e)
  BY FieldTypes, <1>1 DEF StepTo
<1>4. \A label \in Quiet : \A output \in Outputs : Yield(e, output, label) => Moves(e)
  BY FieldTypes, CallTypes DEF Moves, Yield
<1>5. \A next \in Nat : Back(e, next) => Moves(e)
  BY <1>1 DEF Back, Quiet, Labels, CommitLabels
<1> QED BY <1>1, <1>2, <1>3, <1>4, <1>5

\* An engine that goes on to a step, and one that goes on to a gate it has asked for.
LEMMA OnwardTypes ==
  ASSUME TypeInv, NEW e \in Engines, NEW label \in Labels, NEW index \in Nat
  PROVE  /\ [Idle EXCEPT !.pc = label, !.idx = index] \in Call
         /\ \A n \in Nat : [Idle EXCEPT !.idx = index, !.gate = n, !.pc = label] \in Call
<1>1. Idle \in Call
  BY CallTypes DEF Placed
<1> QED BY <1>1 DEF Call

\* The insertion of a gate and the logging of a send are entered with a step of their kind.
LEMMA EnterTypes ==
  ASSUME TypeInv, NEW e \in Engines, NEW label, NEW index \in Nat,
         \/ label = "gate_insert" /\ index \in GateSteps
         \/ label = "send_log" /\ index \in SendSteps
  PROVE  Enter(e, label, index) => Moves(e)
<1> DEFINE call == [Idle EXCEPT !.pc = label, !.idx = index]
<1>1. label \in Labels
  BY DEF Labels
<1>2. call \in Call
  BY <1>1, OnwardTypes
<1>3. call.pc = label /\ call.idx = index
  BY DEF Idle
<1>4. call \in Placed
  <2> HIDE DEF call
  <2> QED BY <1>2, <1>3 DEF Placed, CommitLabels
<1> QED BY <1>4 DEF Enter, Moves

LEMMA MovesType ==
  ASSUME TypeInv, NEW e \in Engines, Moves(e)
  PROVE  run' \in [Engines -> Call] /\ run' \in [Engines -> Placed]
BY DEF TypeInv, Moves, Becomes, Placed
-----------------------------------------------------------------------------
\* What the store operations write is well typed.
LEMMA SavedType ==
  ASSUME TypeInv, NEW e \in Engines, NEW s \in Nat \cup {-1}, NEW output \in Outputs,
         Save(e, s, output)
  PROVE  StoreTypeOK'
<1>1. ASSUME NEW read \in [Steps -> Outputs], SaveCheckpoint(s, output, read)
      PROVE  StoreTypeOK'
  BY <1>1 DEF SaveCheckpoint, TypeInv, TypeOK, StoreTypeOK, Statuses
<1>2. CASE SaveCheckpoint(s, output, stepData)
  BY <1>1, <1>2 DEF TypeInv, TypeOK, StoreTypeOK
<1>3. CASE run[e].base # Unread /\ SaveCheckpoint(s, output, run[e].base)
  BY <1>1, <1>3, FieldTypes
<1> QED BY <1>2, <1>3 DEF Save

LEMMA StatusType ==
  ASSUME TypeInv, NEW new \in Statuses, UpdateStatus(new)
  PROVE  StoreTypeOK'
BY DEF TypeInv, TypeOK, StoreTypeOK, UpdateStatus

LEMMA LoggedType ==
  ASSUME TypeInv, NEW key \in Keys, LogSideEffect(key) \/ UNCHANGED storeVars
  PROVE  StoreTypeOK'
BY DEF TypeInv, TypeOK, StoreTypeOK, LogSideEffect, storeVars

LEMMA IntentType ==
  ASSUME TypeInv, NEW e \in Engines, NEW s,
         \/ InsertIntent(s, Gate(e) + 1)
         \/ \E state \in {"submitted", "terminal_read"} : MarkIntent(s, state)
         \/ SetIntentHash(s, version[e])
         \/ UNCHANGED storeVars
  PROVE  StoreTypeOK'
<1>0. StoreTypeOK /\ version[e] \in Versions
  BY DEF TypeInv, TypeOK
<1>1. CASE InsertIntent(s, Gate(e) + 1)
  <2>1. Gate(e) + 1 \in Nat
    BY FieldTypes
  <2>2. [state |-> "intent_recorded", hash |-> NoHash]
          \in [state: IntentStates, hash: Versions \cup {NoHash}]
    BY DEF IntentStates
  <2> QED BY <1>0, <1>1, <2>1, <2>2 DEF InsertIntent, StoreTypeOK, Statuses
<1>2. CASE \E state \in {"submitted", "terminal_read"} : MarkIntent(s, state)
  BY <1>0, <1>2 DEF MarkIntent, StoreTypeOK, IntentStates
<1>3. CASE SetIntentHash(s, version[e])
  BY <1>0, <1>3 DEF SetIntentHash, StoreTypeOK
<1>4. CASE UNCHANGED storeVars
  BY <1>0, <1>4 DEF StoreTypeOK, storeVars
<1> QED BY <1>1, <1>2, <1>3, <1>4

\* A change of the queue that drops no row keeps the gates in hand.
LEMMA PlacedGrows ==
  ASSUME \A g \in GateSteps : Len(queue[g]) \in Nat /\ Len(queue'[g]) \in Nat
                             /\ Len(queue[g]) <= Len(queue'[g])
  PROVE  Placed \subseteq Placed'
BY DEF Placed, Call

\* The approval queue keeps its type.
LEMMA InsertedType ==
  ASSUME TypeInv, NEW g, InsertGate(g)
  PROVE  GateTypeOK' /\ Placed \subseteq Placed'
<1>1. [decision |-> "pending", hash |-> NoHash] \in GateRow
  BY DEF GateRow, Decisions
<1>2. queue \in [GateSteps -> Seq(GateRow)] /\ everApproved \in SUBSET GateSteps
  BY DEF TypeInv, TypeOK, GateTypeOK
<1>3. \A rows \in Seq(GateRow) :
        LET more == Append(rows, [decision |-> "pending", hash |-> NoHash])
        IN  more \in Seq(GateRow) /\ Len(rows) \in Nat /\ Len(more) = Len(rows) + 1
  BY <1>1, AppendProperties, LenProperties
<1>4. queue' = [queue EXCEPT ![g] = Append(@, [decision |-> "pending", hash |-> NoHash])]
      /\ everApproved' = everApproved
  BY DEF InsertGate
<1>5. queue' \in [GateSteps -> Seq(GateRow)]
  BY <1>2, <1>3, <1>4
<1>6. \A h \in GateSteps : Len(queue[h]) \in Nat /\ Len(queue'[h]) \in Nat
                          /\ Len(queue[h]) <= Len(queue'[h])
  BY <1>2, <1>3, <1>4
<1> QED BY <1>2, <1>4, <1>5, <1>6, PlacedGrows DEF GateTypeOK

LEMMA RowChanged ==
  ASSUME NEW rows \in Seq(GateRow), NEW i, NEW row, i \in 1 .. Len(rows) => row \in GateRow
  PROVE  /\ [rows EXCEPT ![i] = row] \in Seq(GateRow)
         /\ Len([rows EXCEPT ![i] = row]) = Len(rows)
<1>1. CASE i \in 1 .. Len(rows)
  BY <1>1, ExceptSeq
<1>2. CASE i \notin 1 .. Len(rows)
  <2>1. DOMAIN rows = 1 .. Len(rows) /\ rows \in [1 .. Len(rows) -> GateRow]
    BY LenProperties
  <2>2. [rows EXCEPT ![i] = row] = rows
    BY <1>2, <2>1
  <2> QED BY <2>2
<1> QED BY <1>1, <1>2

\* One row of one gate's queue is changed in place.
LEMMA QueueChanged ==
  ASSUME TypeInv, NEW g, NEW i, NEW row,
         g \in GateSteps /\ i \in 1 .. Len(queue[g]) => row \in GateRow,
         queue' = [queue EXCEPT ![g] = [queue[g] EXCEPT ![i] = row]]
  PROVE  queue' \in [GateSteps -> Seq(GateRow)] /\ Placed \subseteq Placed'
<1>1. queue \in [GateSteps -> Seq(GateRow)]
  BY DEF TypeInv, TypeOK, GateTypeOK
<1>2. g \in GateSteps => LET rows == [queue[g] EXCEPT ![i] = row]
                         IN  rows \in Seq(GateRow) /\ Len(rows) = Len(queue[g])
  BY <1>1, RowChanged
<1>3. \A h \in GateSteps : Len(queue[h]) \in Nat
  BY <1>1, LenProperties
<1>4. queue' \in [GateSteps -> Seq(GateRow)]
  BY <1>1, <1>2
<1>5. \A h \in GateSteps : Len(queue[h]) \in Nat /\ Len(queue'[h]) \in Nat
                          /\ Len(queue[h]) <= Len(queue'[h])
  BY <1>1, <1>2, <1>3
<1> QED BY <1>4, <1>5, PlacedGrows

LEMMA RowIsTyped ==
  ASSUME TypeInv, NEW g \in GateSteps, NEW i \in 1 .. Len(queue[g])
  PROVE  queue[g][i] \in GateRow /\ queue[g][i].decision \in Decisions
<1>1. queue[g] \in Seq(GateRow)
  BY DEF TypeInv, TypeOK, GateTypeOK
<1>2. queue[g][i] \in GateRow
  BY <1>1, ElementOfSeq
<1> QED BY <1>2 DEF GateRow

LEMMA HashedType ==
  ASSUME TypeInv, NEW g, NEW i, NEW hash \in Versions, RecordGateHash(g, i, hash)
  PROVE  GateTypeOK' /\ Placed \subseteq Placed'
<1> DEFINE row == [queue[g][i] EXCEPT !.hash = hash]
<1>1. g \in GateSteps /\ i \in 1 .. Len(queue[g]) => row \in GateRow
  BY RowIsTyped DEF GateRow
<1>2. queue' = [queue EXCEPT ![g] = [queue[g] EXCEPT ![i] = row]]
  BY DEF RecordGateHash
<1> HIDE DEF row
<1>3. queue' \in [GateSteps -> Seq(GateRow)] /\ Placed \subseteq Placed'
  BY <1>1, <1>2, QueueChanged
<1> QED BY <1>3 DEF RecordGateHash, GateTypeOK, TypeInv, TypeOK

LEMMA DecidedType ==
  ASSUME TypeInv, NEW g \in GateSteps, NEW i, Approve(g, i) \/ Reject(g, i)
  PROVE  GateTypeOK' /\ Placed \subseteq Placed'
<1>1. PICK decision \in {"approved", "rejected"} :
        queue' = [queue EXCEPT ![g] =
                    [queue[g] EXCEPT ![i] = [queue[g][i] EXCEPT !.decision = decision]]]
  BY DEF Approve, Reject
<1> DEFINE row == [queue[g][i] EXCEPT !.decision = decision]
<1>2. g \in GateSteps /\ i \in 1 .. Len(queue[g]) => row \in GateRow
  BY RowIsTyped DEF GateRow, Decisions
<1> HIDE DEF row
<1>3. queue' = [queue EXCEPT ![g] = [queue[g] EXCEPT ![i] = row]]
  BY <1>1 DEF row
<1>4. queue' \in [GateSteps -> Seq(GateRow)] /\ Placed \subseteq Placed'
  BY <1>2, <1>3, QueueChanged
<1> QED BY <1>4 DEF Approve, Reject, GateTypeOK, TypeInv, TypeOK

\* A call that only reads the store, and one that only writes it.
LEMMA ReadTypes ==
  ASSUME TypeInv, StoreRead, NEW e \in Engines, Moves(e)
  PROVE  TypeInv'
<1>1. Placed' = Placed
  BY DEF Placed, Call, StoreRead, gateVars
<1> QED BY <1>1, MovesType
  DEF TypeInv, TypeOK, StoreRead, StoreTypeOK, GateTypeOK, storeVars, gateVars, envVars

LEMMA WriteTypes ==
  ASSUME TypeInv, StoreTypeOK', StoreWrite, NEW e \in Engines, Moves(e)
  PROVE  TypeInv'
<1>1. Placed' = Placed
  BY DEF Placed, Call, StoreWrite, gateVars
<1> QED BY <1>1, MovesType DEF TypeInv, TypeOK, StoreWrite, GateTypeOK, gateVars, envVars

\* What else changes only the gateway, the histories or the monitor.
LEMMA OutsideTypes ==
  ASSUME TypeInv, UNCHANGED <<gateVars, version, draft>>, StoreTypeOK',
         gateway' \in [ExternalSteps -> GatewayStates], monitor' \in {"idle", "seen"},
         writes' \in [Keys -> Nat], crashes' \in Nat,
         run' \in [Engines -> Placed]
  PROVE  TypeInv'
<1>1. Placed' = Placed /\ Placed \subseteq Call
  BY DEF Placed, Call, gateVars
<1> QED BY <1>1 DEF TypeInv, TypeOK, GateTypeOK, gateVars

LEMMA GateTypes ==
  ASSUME TypeInv, GateTypeOK', UNCHANGED <<storeVars, version, envVars>>,
         run' \in [Engines -> Placed']
  PROVE  TypeInv'
BY DEF TypeInv, TypeOK, StoreTypeOK, storeVars, envVars, Placed
-----------------------------------------------------------------------------
LEMMA DecidingTypes ==
  ASSUME TypeInv, NEW e \in Engines, Deciding(e)
  PROVE  TypeInv'
<1> USE DEF Quiet, Labels, CommitLabels
<1>1. CASE ReadDecision(e)
  <2>1. \A label \in Quiet, output \in Outputs :
          Becomes(e, [run[e] EXCEPT !.out = output, !.pc = label]) => Moves(e)
    BY CallTypes DEF Moves
  <2>3. ASSUME NEW output \in Outputs, Gate(e) \in CommitSteps,
               Becomes(e, [run[e] EXCEPT !.out = output, !.pc = "commit_check"])
        PROVE  Moves(e)
    <3>1. run[e] \in Call
      BY DEF TypeInv, TypeOK
    <3> QED BY <2>3, <3>1 DEF Moves, Placed, Call, Gate
  <2>2. Moves(e)
    BY <1>1, <2>1, <2>3, FieldTypes, StepsAreNat, MoveTypes DEF ReadDecision, Outputs
  <2> QED BY <1>1, <2>2, ReadTypes DEF ReadDecision
<1>2. CASE CommitCheck(e)
  <2>1. Gate(e) \in CommitSteps
    BY <1>2, FieldTypes DEF CommitCheck, At
  <2>2. Goto(e, "commit_execute") => Moves(e)
    BY <2>1 DEF Goto, Moves, TypeInv, Placed, Call, Gate
  <2>3. Moves(e)
    BY <1>2, <2>2, MoveTypes DEF CommitCheck
  <2> QED BY <1>2, <2>3, ReadTypes DEF CommitCheck
<1>3. CASE CommitExecute(e)
  <2>1. Gate(e) \in CommitSteps
    BY <1>3, FieldTypes DEF CommitExecute, At
  <2>2. Goto(e, "commit_log") => Moves(e)
    BY <2>1 DEF Goto, Moves, TypeInv, Placed, Call, Gate
  <2>3. Moves(e)
    BY <1>3, <2>2, MoveTypes DEF CommitExecute
  <2>4. writes' \in [Keys -> Nat]
    <3>1. writes \in [Keys -> Nat]
      BY DEF TypeInv, TypeOK
    <3>2. writes' = writes \/ writes' = [writes EXCEPT ![KeyOf[Gate(e)]] = @ + 1]
      BY <1>3 DEF CommitExecute
    <3> QED BY <3>1, <3>2
  <2> QED BY <1>3, <2>3, <2>4, MovesType, OutsideTypes
          DEF CommitExecute, TypeInv, TypeOK, StoreTypeOK, storeVars
<1>4. CASE CommitLog(e)
  <2>1. Moves(e)
    BY <1>4, MoveTypes DEF CommitLog
  <2>2. StoreTypeOK'
    BY <1>4, FieldTypes, KeysOfSteps, LoggedType DEF CommitLog, At
  <2> QED BY <1>4, <2>1, <2>2, WriteTypes DEF CommitLog
<1>5. CASE SaveDecision(e)
  <2>1. Moves(e)
    BY <1>5, MoveTypes DEF SaveDecision
  <2>2. StoreTypeOK'
    BY <1>5, SavedType, FieldTypes DEF SaveDecision
  <2> QED BY <1>5, <2>1, <2>2, WriteTypes DEF SaveDecision
<1>6. CASE MarkDecided(e)
  <2>1. Moves(e)
    BY <1>6, MoveTypes, FieldTypes, StepsAreNat DEF MarkDecided
  <2>2. StoreTypeOK'
    BY <1>6, StatusType DEF MarkDecided, Statuses
  <2> QED BY <1>6, <2>1, <2>2, WriteTypes DEF MarkDecided
<1>7. CASE MarkContinued(e)
  <2>1. Moves(e)
    BY <1>7, MoveTypes, FieldTypes DEF MarkContinued
  <2>2. StoreTypeOK'
    BY <1>7, StatusType DEF MarkContinued, Statuses
  <2> QED BY <1>7, <2>1, <2>2, WriteTypes DEF MarkContinued
<1>8. CASE Reload(e)
  <2>1. Moves(e)
    BY <1>8, MoveTypes DEF Reload
  <2> QED BY <1>8, <2>1, ReadTypes DEF Reload
<1> QED BY <1>1, <1>2, <1>3, <1>4, <1>5, <1>6, <1>7, <1>8 DEF Deciding

LEMMA LoopingTypes ==
  ASSUME TypeInv, NEW e \in Engines, Looping(e)
  PROVE  TypeInv'
<1> USE DEF Quiet, Labels, CommitLabels
<1>1. CASE CheckWait(e)
  <2>1. Gate(e) \in Nat
    BY <1>1, FieldTypes, StepsAreNat DEF CheckWait, At
  <2>2. Moves(e)
    BY <1>1, <2>1, MoveTypes DEF CheckWait
  <2> QED BY <1>1, <2>2, ReadTypes DEF CheckWait
<1>2. CASE CheckDefinition(e)
  <2>1. Moves(e)
    BY <1>2, MoveTypes DEF CheckDefinition
  <2> QED BY <1>2, <2>1, ReadTypes DEF CheckDefinition
<1>3. CASE MarkStale(e)
  <2>1. StoreTypeOK'
    BY <1>3, StatusType DEF MarkStale, Statuses
  <2> QED BY <1>3, <2>1, MoveTypes, WriteTypes DEF MarkStale
<1>4. CASE MarkRunning(e)
  <2>1. StoreTypeOK'
    BY <1>4, StatusType DEF MarkRunning, Statuses
  <2> QED BY <1>4, <2>1, MoveTypes, WriteTypes DEF MarkRunning
<1>5. CASE LoadState(e)
  <2>1. current \in Nat \cup {-1} /\ Approval(Step(e)) \in Outputs
    <3>1. \A s \in DOMAIN ApprovalFor : ApprovalFor[s] \in Steps
      BY EngineAssumption, GateAssumption
    <3> QED BY <3>1 DEF Approval, TypeInv, TypeOK, StoreTypeOK, Outputs
  <2>2. [Idle EXCEPT !.pc = "read_decision", !.at = current, !.back = "loop"] \in Placed
    <3> DEFINE call == [Idle EXCEPT !.pc = "read_decision", !.at = current, !.back = "loop"]
    <3>1. call.pc = "read_decision"
      BY DEF Idle
    <3>2. call \in Call
      <4>1. Idle \in Call /\ "read_decision" \in Labels
        BY CallTypes DEF Placed
      <4> HIDE DEF Labels
      <4> QED BY <2>1, <4>1 DEF Call
    <3> HIDE DEF call
    <3>3. call \in Placed
      BY <3>1, <3>2 DEF Placed
    <3> QED BY <3>3 DEF call
  <2>3. [run[e] EXCEPT !.pc = "step", !.at = current, !.seen = Approval(Step(e))] \in Placed
    <3>1. run[e] \in Call
      BY DEF TypeInv, TypeOK
    <3> QED BY <2>1, <3>1 DEF Placed, Call
  <2>4. Moves(e)
    BY <1>5, <2>2, <2>3, MoveTypes DEF LoadState, Moves
  <2> QED BY <1>5, <2>4, ReadTypes DEF LoadState
<1>6. CASE Complete(e)
  <2>1. StoreTypeOK'
    BY <1>6, StatusType DEF Complete, Statuses
  <2> QED BY <1>6, <2>1, MoveTypes, WriteTypes DEF Complete
<1>7. CASE SelectData(e)
  <2>1. stepData \in [Steps -> Outputs] /\ run[e] \in Placed
    BY DEF TypeInv, TypeOK, StoreTypeOK
  <2>2. [run[e] EXCEPT !.base = stepData] \in Placed
    BY <2>1 DEF Placed, Call
  <2>3. Moves(e)
    BY <1>7, <2>2 DEF SelectData, Moves
  <2> QED BY <1>7, <2>3, ReadTypes DEF SelectData
<1>8. CASE SaveResult(e)
  <2>1. StoreTypeOK'
    BY <1>8, SavedType, FieldTypes DEF SaveResult
  <2>2. Step(e) + 1 \in Nat
    BY FieldTypes
  <2>3. Moves(e)
    BY <1>8, <2>2, MoveTypes DEF SaveResult
  <2> QED BY <1>8, <2>1, <2>3, WriteTypes DEF SaveResult
<1>9. CASE Raised(e)
  <2>1. StoreTypeOK'
    BY <1>9, StatusType DEF Raised, Statuses
  <2> QED BY <1>9, <2>1, MoveTypes, WriteTypes DEF Raised
<1>10. CASE SavePending(e)
  <2>1. StoreTypeOK'
    BY <1>10, SavedType, FieldTypes DEF SavePending, Outputs
  <2>2. Moves(e)
    BY <1>10, MoveTypes DEF SavePending
  <2> QED BY <1>10, <2>1, <2>2, WriteTypes DEF SavePending
<1>11. CASE RecordHash(e)
  <2>1. Moves(e)
    BY <1>11, MoveTypes DEF RecordHash
  <2>2. version[e] \in Versions
    BY DEF TypeInv, TypeOK
  <2>3. GateTypeOK' /\ Placed \subseteq Placed'
    BY <1>11, <2>2, HashedType DEF RecordHash
  <2>4. run' \in [Engines -> Placed']
    BY <2>1, <2>3, MovesType
  <2> QED BY <1>11, <2>3, <2>4, GateTypes DEF RecordHash, GateWrite
<1>12. CASE MarkPaused(e)
  <2>1. StoreTypeOK'
    BY <1>12, StatusType DEF MarkPaused, Statuses
  <2> QED BY <1>12, <2>1, MoveTypes, WriteTypes DEF MarkPaused
<1>13. CASE SetHash(e)
  <2>1. StoreTypeOK'
    BY <1>13, IntentType DEF SetHash
  <2> QED BY <1>13, <2>1, MoveTypes, WriteTypes DEF SetHash
<1>14. CASE MarkWaiting(e)
  <2>1. StoreTypeOK'
    BY <1>14, StatusType DEF MarkWaiting, Statuses
  <2> QED BY <1>14, <2>1, MoveTypes, WriteTypes DEF MarkWaiting
<1> QED BY <1>1, <1>2, <1>3, <1>4, <1>5, <1>6, <1>7, <1>8, <1>9, <1>10, <1>11, <1>12,
           <1>13, <1>14 DEF Looping

LEMMA SteppingTypes ==
  ASSUME TypeInv, NEW e \in Engines, Stepping(e)
  PROVE  TypeInv'
<1> USE DEF Quiet, Labels, CommitLabels, Outputs
<1>1. CASE PlainSucceeds(e)
  BY <1>1, MoveTypes, ReadTypes DEF PlainSucceeds
<1>2. CASE PlainRaises(e)
  BY <1>2, MoveTypes, ReadTypes DEF PlainRaises
<1>3. Idle \in Call /\ Step(e) \in Nat
  BY CallTypes, FieldTypes DEF Placed
<1>4. CASE RunGate(e)
  <2> DEFINE s == Step(e)
  <2>1. s \in GateSteps /\ Len(queue[s]) \in Nat
    BY <1>4, LenProperties DEF RunGate, TypeInv, TypeOK, GateTypeOK
  <2>2. ASSUME Requested(e, Len(queue[s])), HasGate(s)
        PROVE  Moves(e)
    <3>1. queue[s] \in Seq(GateRow) /\ queue[s] # <<>>
      BY <2>1, <2>2 DEF HasGate, TypeInv, TypeOK, GateTypeOK
    <3>2. Len(queue[s]) \in 1 .. Len(queue[s])
      BY <3>1, EmptySeq
    <3>3. \A label \in {"gate_check", "save_pending"} :
            [Idle EXCEPT !.idx = s, !.gate = Len(queue[s]), !.pc = label] \in Placed
      <4>1. \A label \in {"gate_check", "save_pending"} :
              [Idle EXCEPT !.idx = s, !.gate = Len(queue[s]), !.pc = label] \in Call
        BY <1>3, <2>1, OnwardTypes
      <4>2. \A label : LET call == [Idle EXCEPT !.idx = s, !.gate = Len(queue[s]), !.pc = label]
                       IN  call.pc = label /\ call.idx = s /\ call.gate = Len(queue[s])
        BY DEF Idle
      <4> HIDE DEF s
      <4> QED BY <2>1, <3>2, <4>1, <4>2 DEF Placed
    <3>4. PICK label \in {"gate_check", "save_pending"} :
            Becomes(e, [Idle EXCEPT !.idx = s, !.gate = Len(queue[s]), !.pc = label])
      BY <2>2 DEF Requested
    <3> QED BY <3>3, <3>4 DEF Moves
  <2>3. StepTo(e, "gate_insert") => Moves(e)
    BY <1>3, <2>1, EnterTypes DEF StepTo
  <2>4. Moves(e)
    BY <1>4, <2>2, <2>3, MoveTypes DEF RunGate
  <2> QED BY <1>4, <2>4, ReadTypes DEF RunGate
<1>5. CASE GateInsert(e)
  <2> DEFINE s == Step(e)
             n == Len(queue[s]) + 1
  <2>1. s \in GateSteps
    BY <1>5, FieldTypes DEF GateInsert, At
  <2>2. GateTypeOK' /\ Placed \subseteq Placed'
    BY <1>5, InsertedType DEF GateInsert
  <2>3. n \in Nat /\ Len(queue'[s]) = n
    <3>1. queue \in [GateSteps -> Seq(GateRow)]
      BY DEF TypeInv, TypeOK, GateTypeOK
    <3>2. [decision |-> "pending", hash |-> NoHash] \in GateRow
      BY DEF GateRow, Decisions
    <3>3. queue'[s] = Append(queue[s], [decision |-> "pending", hash |-> NoHash])
      BY <1>5, <2>1, <3>1 DEF GateInsert, InsertGate
    <3> QED BY <2>1, <3>1, <3>2, <3>3, AppendProperties, LenProperties
  <2>4. \A label \in {"gate_check", "save_pending"} :
          [Idle EXCEPT !.idx = s, !.gate = n, !.pc = label] \in Placed'
    <3>1. \A label \in {"gate_check", "save_pending"} :
            [Idle EXCEPT !.idx = s, !.gate = n, !.pc = label] \in Call
      BY <1>3, <2>3, OnwardTypes
    <3>2. n \in 1 .. Len(queue'[s])
      BY <2>3
    <3>3. ASSUME NEW label \in {"gate_check", "save_pending"}, NEW call \in Call,
                 call.pc = label, call.idx = s, call.gate = n
          PROVE  call \in Placed'
      BY <2>1, <3>2, <3>3 DEF Placed, Call
    <3>4. \A label \in {"gate_check", "save_pending"} :
            LET call == [Idle EXCEPT !.idx = s, !.gate = n, !.pc = label]
            IN  call.pc = label /\ call.idx = s /\ call.gate = n
      BY <1>3 DEF Call
    <3> HIDE DEF s, n
    <3> QED BY <3>1, <3>3, <3>4
  <2>5. run' \in [Engines -> Placed']
    BY <1>5, <2>2, <2>4 DEF GateInsert, Requested, Becomes, TypeInv
  <2> QED BY <1>5, <2>2, <2>5, GateTypes DEF GateInsert, GateWrite
<1>6. CASE GateCheck(e)
  <2>1. queue[Step(e)][run[e].gate].decision \in Decisions
    BY <1>6, FieldTypes, RowIsTyped DEF GateCheck, At
  <2>2. Moves(e)
    BY <1>6, <2>1, MoveTypes DEF GateCheck, Decisions
  <2> QED BY <1>6, <2>2, ReadTypes DEF GateCheck
<1>7. CASE RunSend(e)
  <2>1. Step(e) \in SendSteps /\ Step(e) \in Nat
    BY <1>7, FieldTypes DEF RunSend
  <2>2. StepTo(e, "send_log") => Moves(e)
    BY <2>1, EnterTypes DEF StepTo
  <2>3. Moves(e)
    BY <1>7, <2>2, MoveTypes DEF RunSend
  <2> QED BY <1>7, <2>3, ReadTypes DEF RunSend
<1>8. CASE SendLog(e)
  <2>1. Moves(e)
    BY <1>8, MoveTypes DEF SendLog
  <2>2. StoreTypeOK'
    BY <1>8, FieldTypes, KeysOfSteps, LoggedType DEF SendLog, At
  <2> QED BY <1>8, <2>1, <2>2, WriteTypes DEF SendLog
<1> QED BY <1>1, <1>2, <1>4, <1>5, <1>6, <1>7, <1>8 DEF Stepping

LEMMA ActingTypes ==
  ASSUME TypeInv, NEW e \in Engines, Acting(e)
  PROVE  TypeInv'
<1> USE DEF Quiet, Labels, CommitLabels, Outputs
<1>1. CASE RunExternal(e)
  <2>1. Moves(e)
    BY <1>1, MoveTypes DEF RunExternal
  <2> QED BY <1>1, <2>1, ReadTypes DEF RunExternal
<1>2. CASE RecordIntent(e)
  <2>1. Moves(e)
    BY <1>2, MoveTypes DEF RecordIntent
  <2> QED BY <1>2, <2>1, ReadTypes DEF RecordIntent
<1>3. CASE InsertRow(e)
  <2>1. Moves(e)
    BY <1>3, MoveTypes DEF InsertRow
  <2>2. StoreTypeOK'
    BY <1>3, IntentType DEF InsertRow, Gate
  <2> QED BY <1>3, <2>1, <2>2, WriteTypes DEF InsertRow
<1>4. CASE Submit(e)
  <2>1. Moves(e)
    BY <1>4, MoveTypes DEF Submit
  <2>2. gateway' \in [ExternalSteps -> GatewayStates]
    <3>1. gateway \in [ExternalSteps -> GatewayStates]
      BY DEF TypeInv, TypeOK
    <3>2. \/ gateway' = gateway
          \/ gateway' = [gateway EXCEPT ![Step(e)] = IF @ = "unknown" THEN "open" ELSE @]
      BY <1>4 DEF Submit
    <3> QED BY <3>1, <3>2 DEF GatewayStates
  <2> QED BY <1>4, <2>1, <2>2, MovesType, OutsideTypes
          DEF Submit, TypeInv, TypeOK, StoreTypeOK, storeVars
<1>5. CASE MarkSubmitted(e)
  <2>1. StoreTypeOK'
    BY <1>5, IntentType DEF MarkSubmitted
  <2> QED BY <1>5, <2>1, MoveTypes, WriteTypes DEF MarkSubmitted
<1>6. CASE PollAnswered(e)
  <2>1. Moves(e)
    BY <1>6, MoveTypes DEF PollAnswered
  <2> QED BY <1>6, <2>1, ReadTypes DEF PollAnswered
<1>7. CASE PollFails(e)
  <2>1. Moves(e)
    BY <1>7, MoveTypes DEF PollFails
  <2> QED BY <1>7, <2>1, ReadTypes DEF PollFails
<1>8. CASE MarkTerminal(e)
  <2>1. StoreTypeOK'
    BY <1>8, IntentType DEF MarkTerminal
  <2> QED BY <1>8, <2>1, MoveTypes, WriteTypes DEF MarkTerminal
<1> QED BY <1>1, <1>2, <1>3, <1>4, <1>5, <1>6, <1>7, <1>8 DEF Acting

LEMMA CallingTypes ==
  ASSUME TypeInv, NEW e \in Engines, Execute(e) \/ Resume(e) \/ Crash(e) \/ Release(e)
  PROVE  TypeInv'
<1> USE DEF Quiet, Labels, CommitLabels
<1>1. current + 1 \in Nat /\ current \in Nat \cup {-1}
  BY DEF TypeInv, TypeOK, StoreTypeOK
<1>2. CASE Execute(e)
  <2>1. Moves(e)
    BY <1>1, <1>2, MoveTypes DEF Execute
  <2> QED BY <1>2, <2>1, ReadTypes DEF Execute
<1>3. CASE Resume(e)
  <2>1. Idle \in Call
    BY CallTypes DEF Placed
  <2>2. \A label \in {"check_definition", "read_decision"} :
          [Idle EXCEPT !.pc = label, !.at = current] \in Placed
    BY <1>1, <2>1 DEF Placed, Call
  <2>3. current \in Steps => [Idle EXCEPT !.pc = "check_wait", !.at = current] \in Placed
    BY <1>1, <2>1 DEF Placed, Call
  <2>4. Enter(e, "mark_running", current + 1) => Moves(e)
    BY <1>1, MoveTypes
  <2>5. Moves(e)
    BY <1>3, <2>2, <2>3, <2>4 DEF Resume, Moves
  <2> QED BY <1>3, <2>5, ReadTypes DEF Resume
<1>4. CASE Crash(e)
  <2>1. Moves(e)
    BY <1>4, MoveTypes DEF Crash
  <2>2. crashes' \in Nat
    BY <1>4 DEF Crash, TypeInv, TypeOK
  <2> QED BY <1>4, <2>1, <2>2, MovesType, OutsideTypes
          DEF Crash, TypeInv, TypeOK, StoreTypeOK, storeVars
<1>5. CASE Release(e)
  <2>1. version' \in [Engines -> Versions]
    BY <1>5 DEF Release, TypeInv, TypeOK
  <2>2. Placed' = Placed
    BY <1>5 DEF Release, Placed, Call, gateVars
  <2> QED BY <1>5, <2>1, <2>2
          DEF Release, TypeInv, TypeOK, StoreTypeOK, GateTypeOK, storeVars, gateVars, envVars
<1> QED BY <1>2, <1>3, <1>4, <1>5

LEMMA EnvironmentTypes ==
  ASSUME TypeInv, Decide \/ DetectSelect \/ DetectUpdate \/ GatewayDecides
  PROVE  TypeInv'
<1>1. CASE Decide
  <2>1. GateTypeOK' /\ Placed \subseteq Placed'
    BY <1>1, DecidedType DEF Decide
  <2>2. run' \in [Engines -> Placed']
    BY <1>1, <2>1 DEF Decide, TypeInv
  <2> QED BY <1>1, <2>1, <2>2, GateTypes DEF Decide
<1>2. CASE DetectSelect
  BY <1>2, OutsideTypes DEF DetectSelect, TypeInv, TypeOK, StoreTypeOK, storeVars
<1>3. CASE DetectUpdate
  <2>1. StoreTypeOK'
    BY <1>3, StatusType DEF DetectUpdate, Statuses
  <2> QED BY <1>3, <2>1, OutsideTypes DEF DetectUpdate, TypeInv, TypeOK
<1>4. CASE GatewayDecides
  <2>1. gateway' \in [ExternalSteps -> GatewayStates]
    BY <1>4 DEF GatewayDecides, TypeInv, TypeOK, GatewayStates
  <2> QED BY <1>4, <2>1, OutsideTypes
          DEF GatewayDecides, TypeInv, TypeOK, StoreTypeOK, storeVars
<1> QED BY <1>1, <1>2, <1>3, <1>4

LEMMA InitTypes == Init => TypeInv
<1> SUFFICES ASSUME Init PROVE TypeInv
  OBVIOUS
<1>1. StoreTypeOK
  BY DEF Init, CreateWorkflow, StoreTypeOK, Statuses, Outputs, IntentStates
<1>2. GateTypeOK
  BY DEF Init, EmptyQueue, GateTypeOK
<1>3. Idle \in Placed
  BY DEF Idle, Placed, Call, Labels, CommitLabels, Outputs, Unread
<1>4. TypeOK
  BY <1>1, <1>2, <1>3 DEF Init, TypeOK, Placed, GatewayStates
<1> QED BY <1>3, <1>4 DEF Init, TypeInv

LEMMA NextTypes == TypeInv /\ [Next]_vars => TypeInv'
<1> SUFFICES ASSUME TypeInv, [Next]_vars PROVE TypeInv'
  OBVIOUS
<1>1. ASSUME NEW e \in Engines, Execute(e) \/ Resume(e) \/ Work(e) \/ Crash(e) \/ Release(e)
      PROVE  TypeInv'
  BY <1>1, CallingTypes, DecidingTypes, LoopingTypes, SteppingTypes, ActingTypes DEF Work
<1>2. CASE UNCHANGED vars
  BY <1>2 DEF vars, storeVars, gateVars, envVars, TypeInv, TypeOK, StoreTypeOK, GateTypeOK,
              Placed, Call
<1> QED BY <1>1, <1>2, EnvironmentTypes DEF Next

\* Every value of every variable has its type, in every run of any number of
\* engines, releases and crashes, whatever workflow the constants describe: in
\* particular no engine logs a key that is not a commit or send step's, and no
\* gate in hand is missing from the queue (TypeInv).
THEOREM TypeCorrect == Spec => []TypeOK
<1>1. TypeInv => TypeOK
  BY DEF TypeInv
<1> QED BY <1>1, InitTypes, NextTypes, PTL DEF Spec
-----------------------------------------------------------------------------
(* The inductive invariant.                                                *)

Safe == TypeInv /\ IInv

Grows ==
  /\ draft' = draft
  /\ everApproved \subseteq everApproved'
  /\ Traced \subseteq Traced' /\ Asked \subseteq Asked'

Still ==
  /\ draft' = draft /\ everApproved' = everApproved
  /\ Traced' = Traced /\ Asked' = Asked
  /\ current' = current /\ stepData' = stepData
-----------------------------------------------------------------------------
\* What grows keeps the records sound.
LEMMA SoundGrows ==
  ASSUME Grows
  PROVE  /\ Sound \subseteq Sound'
         /\ \A s, output : Fits(s, output) => Fits(s, output)'
<1>1. \A s, output : Fits(s, output) => Fits(s, output)'
  BY DEF Grows, Fits
<1>2. ASSUME NEW call \in Call, IndicesTraced(call), StepKnown(call), SeenGranted(call),
             WorkGranted(call)
      PROVE  /\ IndicesTraced(call)' /\ StepKnown(call)'
             /\ SeenGranted(call)' /\ WorkGranted(call)'
  <2>1. IndicesTraced(call)'
    BY <1>2 DEF Grows, IndicesTraced
  <2>2. StepKnown(call)'
    BY <1>2 DEF Grows, StepKnown
  <2>3. SeenGranted(call)'
    BY <1>2 DEF Grows, SeenGranted
  <2>4. WorkGranted(call)'
    BY <1>1, <1>2 DEF Grows, WorkGranted
  <2> QED BY <2>1, <2>2, <2>3, <2>4
<1> QED BY <1>1, <1>2 DEF Sound

\* An engine that moves to a sound record, when nothing shrinks.
LEMMA MemoryKept ==
  ASSUME Safe, NEW e \in Engines, Grows, NEW call, call \in Sound \/ call \in Sound',
         Becomes(e, call)
  PROVE  Memory'
<1>1. Sound \subseteq Sound' /\ call \in Sound'
  BY SoundGrows
<1>2. run' = [run EXCEPT ![e] = call] /\ run \in [Engines -> Call]
  BY DEF Becomes, Safe, TypeInv, TypeOK
<1>3. \A f \in Engines : run[f] \in Sound
  BY DEF Safe, IInv, Memory
<1> QED BY <1>1, <1>2, <1>3 DEF Memory

\* The rows, when only other columns change.
LEMMA RowsKept ==
  ASSUME Safe, Still, queue' = queue
  PROVE  Rows'
<1>1. RowsTraced' /\ IntentsAreExternal'
  BY DEF Safe, IInv, Rows, RowsTraced, IntentsAreExternal, Still
<1>2. OutputsFit'
  BY DEF Safe, IInv, Rows, OutputsFit, Fits, Still
<1>3. ApprovalsGranted'
  BY DEF Safe, IInv, Rows, ApprovalsGranted, Still
<1> QED BY <1>1, <1>2, <1>3 DEF Rows

LEMMA EffectsKept ==
  ASSUME Safe, OneWriterAtATime, everApproved \subseteq everApproved',
         UNCHANGED <<effectLog, writes>>
  PROVE  EffectNeedsApproval'
<1>1. ExternalSteps \cap DOMAIN ApprovalFor = {}
  BY EngineAssumption DEF OneWriterAtATime
<1> QED BY <1>1 DEF Safe, IInv, EffectNeedsApproval, ApprovalOf

\* A move to a sound record.
SoundMove(e) == \E call \in Sound : Becomes(e, call)

LEMMA StillSafe ==
  ASSUME Safe, OneWriterAtATime, Still, UNCHANGED <<queue, effectLog, writes>>,
         NEW e \in Engines, SoundMove(e)
  PROVE  IInv'
<1>1. Grows
  BY DEF Still, Grows
<1>2. Memory'
  BY <1>1, MemoryKept DEF SoundMove
<1>3. Rows'
  BY RowsKept
<1>4. EffectNeedsApproval'
  BY EffectsKept DEF Still
<1> QED BY <1>2, <1>3, <1>4 DEF IInv

\* A call that only reads, and a write of the status or of an intent's columns.
LEMMA ReadIsStill ==
  ASSUME StoreRead
  PROVE  Still /\ UNCHANGED <<queue, effectLog, writes>>
BY DEF StoreRead, Still, storeVars, gateVars, envVars, Traced, Asked, Stored, HasIntent

LEMMA StatusIsStill ==
  ASSUME StoreWrite, NEW new, UpdateStatus(new)
  PROVE  Still /\ UNCHANGED <<queue, effectLog, writes>>
BY DEF StoreWrite, UpdateStatus, Still, gateVars, envVars, Traced, Asked, Stored, HasIntent

\* A step of nobody's.
LEMMA NobodyMoves ==
  ASSUME Safe, OneWriterAtATime, Still, UNCHANGED <<queue, effectLog, writes, run>>
  PROVE  IInv'
<1>1. Grows
  BY DEF Still, Grows
<1>2. Memory'
  BY <1>1, SoundGrows DEF Safe, IInv, Memory
<1> QED BY <1>2, RowsKept, EffectsKept DEF Still, IInv

LEMMA ReadSafe ==
  ASSUME Safe, OneWriterAtATime, StoreRead, NEW e \in Engines, SoundMove(e)
  PROVE  IInv'
BY ReadIsStill, StillSafe

LEMMA StatusSafe ==
  ASSUME Safe, OneWriterAtATime, StoreWrite, NEW new, UpdateStatus(new),
         NEW e \in Engines, SoundMove(e)
  PROVE  IInv'
BY StatusIsStill, StillSafe
-----------------------------------------------------------------------------
\* The kinds of steps do not meet.
LEMMA KindsDisjoint ==
  /\ GateSteps \subseteq Steps /\ CommitSteps \subseteq GateSteps
  /\ SendSteps \subseteq Steps /\ ExternalSteps \subseteq Steps
  /\ GateSteps \cap SendSteps = {} /\ GateSteps \cap ExternalSteps = {}
  /\ SendSteps \cap ExternalSteps = {}
BY GateAssumption, EngineAssumption

LEMMA UpToGrows ==
  /\ \A n, m \in Nat \cup {-1} : n <= m => UpTo(n) \subseteq UpTo(m)
  /\ \A n \in Nat : n \in Steps => UpTo(n) = UpTo(n - 1) \cup {n}
  /\ \A n \in Nat : UpTo(n - 1) \subseteq UpTo(n)
  /\ UpTo(-1) = {} /\ UpTo(0 - 1) = {}
<1>0. \A s \in Steps : s \in Nat
  BY StoreAssumption DEF Steps
<1>1. \A n, m \in Nat \cup {-1} : n <= m => UpTo(n) \subseteq UpTo(m)
  BY <1>0 DEF UpTo
<1>2. \A n, s \in Nat : s <= n <=> s <= n - 1 \/ s = n
  OBVIOUS
<1>3. \A n \in Nat : n \in Steps => UpTo(n) = UpTo(n - 1) \cup {n}
  BY <1>0, <1>2 DEF UpTo
<1>4. UpTo(-1) = {}
  BY <1>0 DEF UpTo
<1>5. UpTo(0 - 1) = {}
  BY <1>0 DEF UpTo
<1>6. \A n \in Nat : UpTo(n - 1) \subseteq UpTo(n)
  BY <1>0 DEF UpTo
<1> QED BY <1>1, <1>3, <1>4, <1>5, <1>6

\* What an engine has in memory.
LEMMA RunIsSound ==
  ASSUME Safe, NEW e \in Engines
  PROVE  /\ run[e] \in Sound /\ run[e] \in Call
         /\ UpTo(Gate(e)) \subseteq Traced
         /\ Step(e) < N => UpTo(Step(e) - 1) \subseteq Traced /\ Step(e) \in Steps
         /\ run[e].pc \in StepLabels => Step(e) \in Steps
         /\ current < N /\ UpTo(current) \subseteq Traced
         /\ current \in Nat \cup {-1}
<1>1. run[e] \in Sound
  BY DEF Safe, IInv, Memory
<1>2. run[e] \in Call /\ Step(e) \in Nat
  BY <1>1 DEF Sound, Call, Step
<1>3. Step(e) < N => Step(e) \in Steps
  BY <1>2, StoreAssumption DEF Steps
<1>4. current < N /\ UpTo(current) \subseteq Traced /\ current \in Nat \cup {-1}
  BY DEF Safe, IInv, Rows, RowsTraced, TypeInv, TypeOK, StoreTypeOK
<1> QED BY <1>1, <1>2, <1>3, <1>4 DEF Sound, IndicesTraced, StepKnown, Step, Gate

\* The labels that make no claim but on the indices, and those of a step's end.
FreeLabels == {"idle", "mark_running", "check_wait", "check_definition", "mark_stale",
               "read_decision", "reload", "loop"}
EndLabels == {"record_hash", "mark_paused", "set_hash", "mark_waiting", "raised"}

LEMMA LabelsNamed ==
  FreeLabels \subseteq Labels /\ EndLabels \subseteq Labels /\ StepLabels \subseteq Labels
BY DEF FreeLabels, EndLabels, StepLabels, Labels

LEMMA IdleSound ==
  /\ Idle \in Call /\ Idle \in Sound
  /\ \A label \in FreeLabels :
       /\ \A n \in Nat : (n < N => UpTo(n - 1) \subseteq Traced)
                           => [Idle EXCEPT !.pc = label, !.idx = n] \in Sound
       /\ \A n \in Nat \cup {-1} : UpTo(n) \subseteq Traced
                           => [Idle EXCEPT !.pc = label, !.at = n] \in Sound
<1>1. Idle \in Call
  BY DEF Idle, Call, Labels, Outputs
<1>2. UpTo(-1) \subseteq Traced /\ UpTo(0 - 1) \subseteq Traced
  BY UpToGrows
<1>3. Idle \in Sound
  BY <1>1, <1>2 DEF Idle, Sound, IndicesTraced, StepKnown, SeenGranted, WorkGranted, StepLabels
<1>4. ASSUME NEW label \in FreeLabels, NEW n \in Nat, n < N => UpTo(n - 1) \subseteq Traced
      PROVE  [Idle EXCEPT !.pc = label, !.idx = n] \in Sound
  <2>1. [Idle EXCEPT !.pc = label, !.idx = n] \in Call
    BY <1>1, LabelsNamed DEF Call
  <2> QED BY <1>2, <1>4, <2>1
          DEF Idle, Sound, IndicesTraced, StepKnown, SeenGranted, WorkGranted, StepLabels,
              FreeLabels
<1>5. ASSUME NEW label \in FreeLabels, NEW n \in Nat \cup {-1}, UpTo(n) \subseteq Traced
      PROVE  [Idle EXCEPT !.pc = label, !.at = n] \in Sound
  <2>1. [Idle EXCEPT !.pc = label, !.at = n] \in Call
    BY <1>1, LabelsNamed DEF Call
  <2> QED BY <1>2, <1>5, <2>1
          DEF Idle, Sound, IndicesTraced, StepKnown, SeenGranted, WorkGranted, StepLabels,
              FreeLabels
<1> QED BY <1>1, <1>3, <1>4, <1>5

\* Moves that need nothing but what the record already says of its indices.
LEMMA FreeMoves ==
  ASSUME Safe, NEW e \in Engines
  PROVE  /\ Return(e) => SoundMove(e)
         /\ \A label \in FreeLabels :
              /\ \A n \in Nat : (n < N => UpTo(n - 1) \subseteq Traced) /\ Enter(e, label, n)
                                  => SoundMove(e)
              /\ \A n \in Nat \cup {-1} :
                   UpTo(n) \subseteq Traced /\ Enter(e, label, n + 1) => SoundMove(e)
              /\ StepTo(e, label) => SoundMove(e)
         /\ \A label \in FreeLabels \cup EndLabels :
              Goto(e, label) /\ (label \in EndLabels => Step(e) \in Steps) => SoundMove(e)
         /\ \A label \in EndLabels : StepTo(e, label) /\ Step(e) \in Steps => SoundMove(e)
<1>1. Return(e) => SoundMove(e)
  BY IdleSound DEF Return, SoundMove
<1>2. ASSUME NEW label \in FreeLabels, NEW n \in Nat, n < N => UpTo(n - 1) \subseteq Traced,
             Enter(e, label, n)
      PROVE  SoundMove(e)
  BY <1>2, IdleSound DEF Enter, SoundMove
<1>3. ASSUME NEW label \in FreeLabels, NEW n \in Nat \cup {-1}, UpTo(n) \subseteq Traced,
             Enter(e, label, n + 1)
      PROVE  SoundMove(e)
  <2>1. n + 1 \in Nat /\ (n + 1) - 1 = n
    OBVIOUS
  <2> QED BY <1>2, <1>3, <2>1
<1>4. ASSUME NEW label \in FreeLabels, StepTo(e, label)
      PROVE  SoundMove(e)
  <2>1. Step(e) \in Nat
    BY FieldTypes DEF Safe
  <2> QED BY <1>2, <1>4, <2>1, RunIsSound DEF StepTo
<1>5. ASSUME NEW label \in FreeLabels \cup EndLabels, Goto(e, label),
             label \in EndLabels => Step(e) \in Steps
      PROVE  SoundMove(e)
  <2> DEFINE call == [run[e] EXCEPT !.pc = label]
  <2>1. call \in Call /\ run[e] \in Sound
    BY RunIsSound, LabelsNamed DEF Call
  <2>2. IndicesTraced(call)
    BY <2>1 DEF Sound, Call, IndicesTraced
  <2>3. StepKnown(call)
    BY <1>5, <2>1 DEF Sound, Call, StepKnown, StepLabels, FreeLabels, EndLabels, Step
  <2>4. SeenGranted(call)
    BY <2>1 DEF Sound, Call, SeenGranted, FreeLabels, EndLabels
  <2>5. WorkGranted(call)
    BY <2>1 DEF Sound, Call, WorkGranted, FreeLabels, EndLabels
  <2> QED BY <1>5, <2>1, <2>2, <2>3, <2>4, <2>5 DEF Sound, SoundMove, Goto
<1>6. ASSUME NEW label \in EndLabels, StepTo(e, label), Step(e) \in Steps
      PROVE  SoundMove(e)
  <2> DEFINE call == [Idle EXCEPT !.pc = label, !.idx = Step(e)]
  <2>1. call \in Call
    BY <1>6, IdleSound, LabelsNamed, StepsAreNat DEF Call
  <2>2. IndicesTraced(call)
    <3>1. Step(e) < N => UpTo(Step(e) - 1) \subseteq Traced
      BY RunIsSound
    <3> QED BY <2>1, <3>1, UpToGrows DEF Idle, IndicesTraced
  <2>3. StepKnown(call) /\ SeenGranted(call) /\ WorkGranted(call)
    BY <1>6 DEF Idle, StepKnown, SeenGranted, WorkGranted, StepLabels, EndLabels
  <2> QED BY <1>6, <2>1, <2>2, <2>3 DEF Sound, SoundMove, StepTo, Enter
<1> QED BY <1>1, <1>2, <1>3, <1>4, <1>5, <1>6

LEMMA BackMoves ==
  ASSUME Safe, NEW e \in Engines
  PROVE  /\ Back(e, Gate(e) + 1) => SoundMove(e)
         /\ Gate(e) \in Nat /\ Back(e, Gate(e)) => SoundMove(e)
         /\ Back(e, N) => SoundMove(e)
<1>1. Gate(e) \in Nat \cup {-1} /\ UpTo(Gate(e)) \subseteq Traced
  BY RunIsSound, FieldTypes DEF Safe
<1>2. "reload" \in FreeLabels /\ "loop" \in FreeLabels
  BY DEF FreeLabels
<1>3. Back(e, Gate(e) + 1) => SoundMove(e)
  BY <1>1, <1>2, FreeMoves DEF Back
<1>4. ASSUME Gate(e) \in Nat, Back(e, Gate(e))
      PROVE  SoundMove(e)
  <2>1. UpTo(Gate(e) - 1) \subseteq Traced
    BY <1>1, <1>4, UpToGrows
  <2> QED BY <1>2, <1>4, <2>1, FreeMoves DEF Back
<1>5. ASSUME Back(e, N)
      PROVE  SoundMove(e)
  BY <1>2, <1>5, StoreAssumption, FreeMoves DEF Back
<1> QED BY <1>3, <1>4, <1>5
-----------------------------------------------------------------------------
\* A checkpoint of step s, whose earlier steps are traced, with a fitting result.
LEMMA SaveGrows ==
  ASSUME Safe, OneWriterAtATime, NEW e \in Engines, NEW s \in Steps, NEW output \in Outputs,
         StoreWrite, Save(e, s, output), Fits(s, output), UpTo(s - 1) \subseteq Traced
  PROVE  /\ Grows /\ Rows' /\ EffectNeedsApproval'
         /\ UpTo(s) \subseteq Traced' /\ Traced' = Traced \cup {s}
<1>1. /\ stepData' = [stepData EXCEPT ![s] = output]
      /\ current' = s
      /\ UNCHANGED <<effectLog, intent, queue, everApproved, draft, writes>>
  BY DEF Save, OneWriterAtATime, SaveCheckpoint, StoreWrite, gateVars, envVars
<1>2. stepData \in [Steps -> Outputs] /\ output # "absent"
  BY DEF Safe, TypeInv, TypeOK, StoreTypeOK, Fits
<1>3. Asked' = Asked /\ Traced' = Traced \cup {s}
  BY <1>1, <1>2 DEF Asked, Traced, Stored, HasIntent
<1>4. Grows
  BY <1>1, <1>3 DEF Grows
<1>5. s \in Nat /\ s < N /\ UpTo(s) = UpTo(s - 1) \cup {s}
  BY StoreAssumption, UpToGrows DEF Steps
<1>6. RowsTraced'
  BY <1>1, <1>3, <1>5 DEF RowsTraced
<1>7. OutputsFit'
  <2>1. \A t \in Steps : stepData'[t] # "absent" => Fits(t, stepData'[t])
    BY <1>1, <1>2 DEF Safe, IInv, Rows, OutputsFit
  <2> QED BY <2>1, <1>4, SoundGrows, <1>1, <1>3 DEF OutputsFit, Fits
<1>8. IntentsAreExternal' /\ ApprovalsGranted'
  BY <1>1, <1>3 DEF Safe, IInv, Rows, IntentsAreExternal, ApprovalsGranted
<1>9. EffectNeedsApproval'
  BY <1>1, EffectsKept
<1> QED BY <1>3, <1>4, <1>5, <1>6, <1>7, <1>8, <1>9 DEF Rows

-----------------------------------------------------------------------------
\* What is known at the labels where something is written.
LEMMA CommitFacts ==
  ASSUME Safe, NEW e \in Engines,
         At(e, "commit_check") \/ At(e, "commit_execute") \/ At(e, "commit_log")
  PROVE  /\ Gate(e) \in CommitSteps /\ Gate(e) \in everApproved
         /\ run[e].out = "approved" /\ Fits(Gate(e), "approved")
<1>1. run[e] \in Sound /\ Gate(e) = run[e].at
  BY RunIsSound DEF Gate
<1> QED BY <1>1, KindsDisjoint DEF At, Sound, WorkGranted, Fits, GateOutputs

LEMMA DecisionFacts ==
  ASSUME Safe, NEW e \in Engines, At(e, "save_decision") \/ At(e, "mark_decided")
  PROVE  /\ Gate(e) \in GateSteps /\ Gate(e) \in Steps
         /\ run[e].out \in {"approved", "rejected"} /\ Fits(Gate(e), run[e].out)
         /\ UpTo(Gate(e) - 1) \subseteq Traced
<1>1. run[e] \in Sound /\ Gate(e) = run[e].at /\ UpTo(Gate(e)) \subseteq Traced
  BY RunIsSound DEF Gate
<1>2. /\ Gate(e) \in GateSteps /\ run[e].out \in {"approved", "rejected"}
      /\ Fits(Gate(e), run[e].out)
  BY <1>1 DEF At, Sound, WorkGranted
<1>3. Gate(e) \in Steps /\ Gate(e) \in Nat
  BY <1>2, KindsDisjoint, StepsAreNat
<1> QED BY <1>1, <1>2, <1>3, UpToGrows

LEMMA ResultFacts ==
  ASSUME Safe, NEW e \in Engines, At(e, "save_result") \/ At(e, "save_pending")
  PROVE  /\ Step(e) \in Steps /\ Step(e) \in Nat /\ UpTo(Step(e) - 1) \subseteq Traced
         /\ At(e, "save_result") => Fits(Step(e), run[e].out)
         /\ At(e, "save_pending") => Step(e) \in GateSteps /\ Fits(Step(e), "pending")
<1>0. run[e] \in Sound /\ Step(e) = run[e].idx
  BY RunIsSound DEF Step
<1>1. Step(e) \in Steps
  BY RunIsSound DEF At, StepLabels
<1>2. Step(e) \in Nat /\ UpTo(Step(e) - 1) \subseteq Traced
  <2>1. Step(e) < N
    BY <1>1, StoreAssumption DEF Steps
  <2> QED BY <1>1, <2>1, RunIsSound, StepsAreNat
<1>3. At(e, "save_result") => Fits(Step(e), run[e].out)
  BY <1>0 DEF At, Sound, WorkGranted
<1>4. At(e, "save_pending") => Step(e) \in GateSteps
  BY <1>0 DEF At, Sound, StepKnown
<1>5. Step(e) \in GateSteps => Fits(Step(e), "pending")
  BY KindsDisjoint DEF Fits, GateOutputs
<1> QED BY <1>1, <1>2, <1>3, <1>4, <1>5

LEMMA SendFacts ==
  ASSUME Safe, NEW e \in Engines, At(e, "send_log")
  PROVE  /\ Step(e) \in SendSteps /\ Step(e) \in Steps
         /\ ApprovalFor[Step(e)] \in everApproved
         /\ UpTo(Step(e) - 1) \subseteq Traced
<1>1. Step(e) \in SendSteps /\ Step(e) \in Steps
  BY FieldTypes, KindsDisjoint DEF At, Safe
<1>2. ApprovalFor[Step(e)] \in everApproved
  BY RunIsSound DEF At, Sound, WorkGranted, Step
<1>3. Step(e) < N
  BY <1>1, StoreAssumption DEF Steps
<1> QED BY <1>1, <1>2, <1>3, RunIsSound

LEMMA AskedFacts ==
  ASSUME Safe, NEW e \in Engines,
         run[e].pc \in {"submit", "mark_submitted", "poll", "mark_terminal"}
  PROVE  Step(e) \in ExternalSteps /\ Step(e) \in Asked /\ Step(e) \in Steps
<1>1. run[e] \in Sound /\ Step(e) = run[e].idx
  BY RunIsSound DEF Step
<1> QED BY <1>1, KindsDisjoint DEF Sound, StepKnown

LEMMA AskingFacts ==
  ASSUME Safe, NEW e \in Engines, run[e].pc \in {"record_intent", "insert_intent"}
  PROVE  /\ Step(e) \in ExternalSteps /\ draft /\ Step(e) \in Steps
         /\ UpTo(Step(e) - 1) \subseteq Traced
<1>1. run[e] \in Sound /\ Step(e) = run[e].idx
  BY RunIsSound DEF Step
<1>2. Step(e) \in ExternalSteps /\ draft /\ Step(e) \in Steps
  BY <1>1, KindsDisjoint DEF Sound, StepKnown
<1>3. Step(e) < N
  BY <1>2, StoreAssumption DEF Steps
<1> QED BY <1>2, <1>3, RunIsSound

\* A change of an intent that is there changes nothing IInv looks at.
LEMMA IntentIsStill ==
  ASSUME Safe, StoreWrite, NEW s,
         \/ \E hash : SetIntentHash(s, hash)
         \/ s \in Asked /\ \E state \in {"submitted", "terminal_read"} : MarkIntent(s, state)
  PROVE  Still /\ UNCHANGED <<queue, effectLog, writes>>
<1>1. \A t \in Steps : HasIntent(t)' = HasIntent(t)
  BY DEF SetIntentHash, MarkIntent, HasIntent, Asked, Safe, TypeInv, TypeOK, StoreTypeOK
<1> QED BY <1>1 DEF SetIntentHash, MarkIntent, StoreWrite, Still, gateVars, envVars, Traced,
                    Asked, Stored

\* The record of an intent, which moves current_step to the index after the one the
\* engine loaded.
LEMMA InsertGrows ==
  ASSUME Safe, OneWriterAtATime, NEW e \in Engines, At(e, "insert_intent"), StoreWrite,
         InsertIntent(Step(e), Gate(e) + 1)
  PROVE  /\ Grows /\ Rows' /\ EffectNeedsApproval'
         /\ Traced' = Traced \cup {Step(e)} /\ Asked' = Asked \cup {Step(e)}
         /\ UpTo(Step(e) - 1) \subseteq Traced
<1> DEFINE s == Step(e)
<1>0. /\ s \in ExternalSteps /\ draft /\ s \in Steps /\ UpTo(s - 1) \subseteq Traced
      /\ UpTo(Gate(e)) \subseteq Traced
  BY AskingFacts, RunIsSound DEF At
<1>1. /\ ~HasIntent(s)
      /\ intent' = [intent EXCEPT ![s] = [state |-> "intent_recorded", hash |-> NoHash]]
      /\ current' = Gate(e) + 1
      /\ UNCHANGED <<stepData, effectLog, queue, everApproved, draft, writes>>
  BY DEF InsertIntent, StoreWrite, gateVars, envVars
<1>2. Asked' = Asked \cup {s} /\ Traced' = Traced \cup {s}
  <2>1. \A t \in Steps : HasIntent(t)' <=> HasIntent(t) \/ t = s
    BY <1>0, <1>1 DEF HasIntent, Safe, TypeInv, TypeOK, StoreTypeOK
  <2> QED BY <1>0, <1>1, <2>1 DEF Asked, Traced, Stored
<1>3. Grows
  BY <1>1, <1>2 DEF Grows
<1>4. Gate(e) \in Nat \cup {-1} /\ s \in Nat /\ s < N
  <2>1. s \in Nat /\ s < N
    BY <1>0, StoreAssumption DEF Steps
  <2> QED BY <2>1, FieldTypes DEF Safe
\* The row it loaded had not come to its step, or the step would have a trace, and
\* so an intent, as there is a draft.
<1>5. Gate(e) < s
  <2>1. s \notin Asked
    BY <1>1 DEF Asked
  <2>2. stepData[s] = "absent"
    BY <1>0, <2>1 DEF Safe, IInv, Rows, OutputsFit, Fits
  <2>3. s \notin UpTo(Gate(e))
    BY <1>0, <1>1, <2>2 DEF Traced, Stored
  <2>4. ~(s <= Gate(e))
    BY <1>0, <2>3 DEF UpTo
  <2> QED BY <1>4, <2>4
<1>6. Gate(e) + 1 \in Nat /\ Gate(e) + 1 <= s /\ Gate(e) + 1 < N
  BY <1>4, <1>5, StoreAssumption
<1>7. RowsTraced'
  <2>1. UpTo(Gate(e) + 1) \subseteq UpTo(s)
    BY <1>4, <1>6, UpToGrows
  <2>2. UpTo(s) = UpTo(s - 1) \cup {s}
    BY <1>0, <1>4, UpToGrows
  <2>3. UpTo(Gate(e) + 1) \subseteq Traced'
    BY <1>0, <1>2, <2>1, <2>2
  <2> QED BY <1>1, <1>6, <2>3 DEF RowsTraced
<1>8. OutputsFit'
  BY <1>1, <1>2 DEF Safe, IInv, Rows, OutputsFit, Fits
<1>9. IntentsAreExternal' /\ ApprovalsGranted'
  BY <1>0, <1>1, <1>2 DEF Safe, IInv, Rows, IntentsAreExternal, ApprovalsGranted
<1>10. EffectNeedsApproval'
  BY <1>1, EffectsKept
<1> QED BY <1>0, <1>2, <1>3, <1>7, <1>8, <1>9, <1>10 DEF Rows

\* The commit handler and the decision of a gate.
LEMMA DecidingSafe ==
  ASSUME Safe, OneWriterAtATime, NEW e \in Engines, Deciding(e)
  PROVE  IInv'
<1>0. /\ run[e] \in Sound /\ run[e] \in Call
      /\ UpTo(Gate(e)) \subseteq Traced /\ Gate(e) = run[e].at
  BY RunIsSound DEF Gate
<1>1. CASE ReadDecision(e)
  <2> DEFINE g == Gate(e)
             Decided(output, label) == [run[e] EXCEPT !.out = output, !.pc = label]
  <2>1. ASSUME g \in GateSteps, HasGate(g)
        PROVE  Latest(g).decision = "approved" => g \in everApproved
    <3>1. queue[g] \in Seq(GateRow) /\ queue[g] # <<>>
      BY <2>1 DEF HasGate, Safe, TypeInv, TypeOK, GateTypeOK
    <3>2. Len(queue[g]) \in 1 .. Len(queue[g])
      BY <3>1, EmptySeq, LenProperties
    <3> QED BY <2>1, <3>2 DEF Latest, Safe, IInv, Rows, ApprovalsGranted
  <2>2. ASSUME NEW output \in {"approved", "rejected"},
               NEW label \in {"save_decision", "commit_check"},
               g \in GateSteps, output = "approved" => g \in everApproved,
               label = "commit_check" => g \in CommitSteps /\ output = "approved"
        PROVE  Decided(output, label) \in Sound
    <3>0. output \in Outputs /\ label \in Labels
      BY DEF Outputs, Labels
    <3>1. Decided(output, label) \in Call
      BY <1>0, <3>0 DEF Call
    <3>2. Fits(g, output)
      BY <2>2, KindsDisjoint DEF Fits, GateOutputs
    <3>3. IndicesTraced(Decided(output, label)) /\ StepKnown(Decided(output, label))
      BY <1>0 DEF Sound, Call, IndicesTraced, StepKnown, StepLabels
    <3>4. SeenGranted(Decided(output, label))
      BY <1>0 DEF Sound, Call, SeenGranted
    <3>5. WorkGranted(Decided(output, label))
      BY <1>0, <2>2, <3>2 DEF Call, WorkGranted
    <3> QED BY <3>1, <3>3, <3>4, <3>5 DEF Sound
  <2>3. g \in GateSteps => g \in Nat
    BY StepsAreNat
  <2>4. SoundMove(e)
    <3>1. CASE Return(e) \/ Back(e, g + 1) \/ (g \in GateSteps /\ Back(e, g))
      BY <3>1, <2>3, FreeMoves, BackMoves
    <3>2. CASE /\ g \in GateSteps /\ HasGate(g) /\ Latest(g).decision = "rejected"
               /\ Becomes(e, Decided("rejected", "save_decision"))
      BY <3>2, <2>2 DEF SoundMove
    <3>3. CASE /\ g \in GateSteps /\ HasGate(g) /\ Latest(g).decision = "approved"
               /\ Becomes(e, Decided("approved", IF g \in CommitSteps THEN "commit_check"
                                                                     ELSE "save_decision"))
      BY <3>3, <2>1, <2>2 DEF SoundMove
    <3> QED BY <1>1, <3>1, <3>2, <3>3 DEF ReadDecision
  <2> QED BY <1>1, <2>4, ReadSafe DEF ReadDecision
<1>2. At(e, "commit_check") \/ At(e, "commit_execute") \/ At(e, "commit_log")
        => Gate(e) \in CommitSteps /\ Gate(e) \in everApproved /\ run[e].out = "approved"
           /\ Fits(Gate(e), "approved")
  BY CommitFacts
<1>3. ASSUME At(e, "commit_check") \/ At(e, "commit_execute") \/ At(e, "commit_log"),
             NEW label \in {"commit_execute", "commit_log", "save_decision"}, Goto(e, label)
      PROVE  SoundMove(e)
  <2> DEFINE call == [run[e] EXCEPT !.pc = label]
  <2>1. call \in Call
    BY <1>0 DEF Call, Labels
  <2>2. IndicesTraced(call) /\ StepKnown(call) /\ SeenGranted(call)
    BY <1>0 DEF Sound, Call, IndicesTraced, StepKnown, SeenGranted, StepLabels
  <2>3. WorkGranted(call)
    BY <1>0, <1>2, <1>3, KindsDisjoint DEF Call, WorkGranted
  <2> QED BY <1>3, <2>1, <2>2, <2>3 DEF Sound, SoundMove, Goto
<1>4. CASE CommitCheck(e)
  <2>1. SoundMove(e)
    BY <1>3, <1>4 DEF CommitCheck
  <2> QED BY <1>4, <2>1, ReadSafe DEF CommitCheck
<1>5. CASE CommitExecute(e)
  <2>1. Still /\ UNCHANGED <<queue, effectLog>>
    BY <1>5 DEF CommitExecute, Still, storeVars, gateVars, Traced, Asked, Stored, HasIntent
  <2>2. SoundMove(e)
    BY <1>3, <1>5, FreeMoves DEF CommitExecute
  <2>3. Grows /\ Rows' /\ Memory'
    BY <2>1, <2>2, RowsKept, MemoryKept DEF Still, Grows, SoundMove
  <2>4. \A k \in Keys : writes'[k] > 0 => writes[k] > 0 \/ k = KeyOf[Gate(e)]
    BY <1>5 DEF CommitExecute, Safe, TypeInv, TypeOK
  <2>5. EffectNeedsApproval'
    BY <1>2, <1>5, <2>1, <2>4
       DEF CommitExecute, Still, Safe, IInv, EffectNeedsApproval, ApprovalOf, HasIntent, storeVars
  <2> QED BY <2>3, <2>5 DEF IInv
<1>6. CASE CommitLog(e)
  <2>1. /\ Still /\ UNCHANGED <<queue, writes, intent>>
        /\ effectLog' \subseteq effectLog \cup {KeyOf[Gate(e)]}
    BY <1>6 DEF CommitLog, LogSideEffect, StoreWrite, Still, storeVars, gateVars, envVars,
                Traced, Asked, Stored, HasIntent
  <2>2. SoundMove(e)
    BY <1>3, <1>6, FreeMoves DEF CommitLog
  <2>3. Grows /\ Rows' /\ Memory'
    BY <2>1, <2>2, RowsKept, MemoryKept DEF Still, Grows, SoundMove
  <2>4. Gate(e) \in EffectSteps /\ ApprovalOf(Gate(e)) \in everApproved
    BY <1>2, <1>6 DEF CommitLog, EffectSteps, ApprovalOf
  <2>5. EffectNeedsApproval'
    BY <2>1, <2>4 DEF Still, Safe, IInv, EffectNeedsApproval, HasIntent
  <2> QED BY <2>3, <2>5 DEF IInv
<1>7. At(e, "save_decision") \/ At(e, "mark_decided")
        => Gate(e) \in GateSteps /\ run[e].out \in {"approved", "rejected"}
           /\ Fits(Gate(e), run[e].out)
  BY DecisionFacts
<1>8. CASE SaveDecision(e)
  <2> DEFINE call == [run[e] EXCEPT !.pc = "mark_decided", !.base = Unread]
  <2>1. call \in Call
    BY <1>0 DEF Call, Labels
  <2>2. IndicesTraced(call) /\ StepKnown(call) /\ SeenGranted(call)
    BY <1>0 DEF Sound, Call, IndicesTraced, StepKnown, SeenGranted, StepLabels
  <2>3. WorkGranted(call)
    BY <1>0, <1>7, <1>8 DEF Call, WorkGranted, SaveDecision
  <2>4. call \in Sound /\ Becomes(e, call)
    BY <1>8, <2>1, <2>2, <2>3 DEF Sound, SaveDecision, SavedTo
  <2>5. Gate(e) \in Steps /\ UpTo(Gate(e) - 1) \subseteq Traced
    BY <1>8, DecisionFacts DEF SaveDecision
  <2>6. Grows /\ Rows' /\ EffectNeedsApproval'
    BY <1>7, <1>8, <2>5, SaveGrows DEF SaveDecision, Outputs
  <2> QED BY <2>4, <2>6, MemoryKept DEF IInv
<1>9. CASE MarkDecided(e)
  <2>1. SoundMove(e)
    <3>1. ASSUME Goto(e, "mark_continued")
          PROVE  SoundMove(e)
      <4> DEFINE call == [run[e] EXCEPT !.pc = "mark_continued"]
      <4>1. call \in Call
        BY <1>0 DEF Call, Labels
      <4>2. /\ IndicesTraced(call) /\ StepKnown(call) /\ SeenGranted(call)
            /\ WorkGranted(call)
        BY <1>0, <1>7, <1>9
           DEF Sound, Call, IndicesTraced, StepKnown, SeenGranted, WorkGranted, StepLabels,
               MarkDecided
      <4> QED BY <3>1, <4>1, <4>2 DEF Sound, SoundMove, Goto
    <3> QED BY <1>9, <3>1, BackMoves DEF MarkDecided
  <2> QED BY <1>9, <2>1, StatusSafe DEF MarkDecided
<1>10. CASE MarkContinued(e)
  <2>1. SoundMove(e)
    BY <1>10, BackMoves DEF MarkContinued
  <2> QED BY <1>10, <2>1, StatusSafe DEF MarkContinued
<1>11. CASE Reload(e)
  <2>1. SoundMove(e)
    BY <1>11, FreeMoves DEF Reload, FreeLabels
  <2> QED BY <1>11, <2>1, ReadSafe DEF Reload
<1> QED BY <1>1, <1>4, <1>5, <1>6, <1>8, <1>9, <1>10, <1>11 DEF Deciding

\* A new record for the step at hand, whose result or approval may be known.
LEMMA YieldMoves ==
  ASSUME Safe, NEW e \in Engines, NEW output \in Outputs, Step(e) \in Steps
  PROVE  /\ Fits(Step(e), output) /\ Yield(e, output, "save_result") => SoundMove(e)
         /\ /\ Fits(Step(e), output) /\ Step(e) \in ExternalSteps /\ Step(e) \in Asked
            /\ Yield(e, output, "mark_terminal")
            => SoundMove(e)
<1> DEFINE call(label) == [Idle EXCEPT !.pc = label, !.idx = Step(e), !.out = output]
<1>1. Step(e) \in Nat /\ UpTo(Step(e) - 1) \subseteq Traced /\ UpTo(-1) = {}
  <2>1. Step(e) < N
    BY StoreAssumption DEF Steps
  <2> QED BY <2>1, RunIsSound, StepsAreNat, UpToGrows
<1>2. ASSUME NEW label \in {"save_result", "mark_terminal"}, Fits(Step(e), output),
             label = "mark_terminal" => Step(e) \in ExternalSteps /\ Step(e) \in Asked
      PROVE  call(label) \in Sound
  <2>0. label \in Labels
    BY DEF Labels
  <2>1. call(label) \in Call
    BY <1>1, <2>0, IdleSound DEF Call
  <2>2. IndicesTraced(call(label))
    BY <1>1 DEF Idle, IndicesTraced
  <2>3. StepKnown(call(label)) /\ SeenGranted(call(label)) /\ WorkGranted(call(label))
    BY <1>2 DEF Idle, StepKnown, SeenGranted, WorkGranted
  <2> QED BY <2>1, <2>2, <2>3 DEF Sound
<1> QED BY <1>2 DEF Yield, SoundMove

\* A recorded hash leaves every decision as it is.
LEMMA HashKeepsDecisions ==
  ASSUME Safe, NEW s, NEW i, NEW hash \in Versions, RecordGateHash(s, i, hash)
  PROVE  \A g \in GateSteps : /\ Len(queue'[g]) = Len(queue[g])
                              /\ \A j \in 1 .. Len(queue[g]) :
                                   queue'[g][j].decision = queue[g][j].decision
<1>1. queue \in [GateSteps -> Seq(GateRow)]
  BY DEF Safe, TypeInv, TypeOK, GateTypeOK
<1> DEFINE rows == [queue[s] EXCEPT ![i] = [queue[s][i] EXCEPT !.hash = hash]]
<1>2. queue' = [queue EXCEPT ![s] = rows]
  BY DEF RecordGateHash
<1>3. ASSUME s \in GateSteps
      PROVE  /\ Len(rows) = Len(queue[s])
             /\ \A j \in 1 .. Len(queue[s]) : rows[j].decision = queue[s][j].decision
  <2>1. queue[s] \in Seq(GateRow) /\ DOMAIN queue[s] = 1 .. Len(queue[s])
    BY <1>1, <1>3, LenProperties
  <2>3. \A j \in 1 .. Len(queue[s]) : queue[s][j] \in GateRow
    BY <2>1, ElementOfSeq
  <2>4. \A j \in 1 .. Len(queue[s]) : rows[j].decision = queue[s][j].decision
    BY <2>1, <2>3 DEF GateRow
  <2>5. Len(rows) = Len(queue[s])
    <3>1. i \in 1 .. Len(queue[s]) => [queue[s][i] EXCEPT !.hash = hash] \in GateRow
      BY <2>3 DEF GateRow
    <3> QED BY <2>1, <3>1, RowChanged
  <2> QED BY <2>4, <2>5
<1> HIDE DEF rows
<1> QED BY <1>1, <1>2, <1>3

\* An approved row is a granted gate.
LEMMA DecisionsGranted ==
  ASSUME Safe, NEW s \in GateSteps, NEW i, Approve(s, i) \/ Reject(s, i)
  PROVE  ApprovalsGranted'
<1>1. queue \in [GateSteps -> Seq(GateRow)]
  BY DEF Safe, TypeInv, TypeOK, GateTypeOK
<1>2. PICK decision \in {"approved", "rejected"} :
        /\ queue' = [queue EXCEPT ![s] =
                       [queue[s] EXCEPT ![i] = [queue[s][i] EXCEPT !.decision = decision]]]
        /\ everApproved \subseteq everApproved'
        /\ decision = "approved" => s \in everApproved'
  BY DEF Approve, Reject
<1> DEFINE rows == [queue[s] EXCEPT ![i] = [queue[s][i] EXCEPT !.decision = decision]]
<1>3. /\ Len(rows) = Len(queue[s])
      /\ \A j \in 1 .. Len(queue[s]) :
           rows[j].decision \in {queue[s][j].decision, decision}
  <2>1. queue[s] \in Seq(GateRow) /\ DOMAIN queue[s] = 1 .. Len(queue[s])
    BY <1>1, LenProperties
  <2>2. \A j \in 1 .. Len(queue[s]) : queue[s][j] \in GateRow
    BY <2>1, ElementOfSeq
  <2>3. i \in 1 .. Len(queue[s]) => [queue[s][i] EXCEPT !.decision = decision] \in GateRow
    BY <2>2 DEF GateRow, Decisions
  <2>4. Len(rows) = Len(queue[s])
    BY <2>1, <2>3, RowChanged
  <2>5. \A j \in 1 .. Len(queue[s]) : rows[j].decision \in {queue[s][j].decision, decision}
    BY <2>1, <2>2 DEF GateRow
  <2> QED BY <2>4, <2>5
<1>4. queue' = [queue EXCEPT ![s] = rows]
  BY <1>2
<1> HIDE DEF rows
<1> QED BY <1>1, <1>2, <1>3, <1>4 DEF Safe, IInv, Rows, ApprovalsGranted

\* A new gate is pending.
LEMMA InsertKeepsDecisions ==
  ASSUME Safe, NEW s, InsertGate(s)
  PROVE  \A g \in GateSteps : \A j \in 1 .. Len(queue'[g]) :
           queue'[g][j].decision = "approved"
             => j \in 1 .. Len(queue[g]) /\ queue[g][j].decision = "approved"
<1> DEFINE new == [decision |-> "pending", hash |-> NoHash]
<1>1. queue \in [GateSteps -> Seq(GateRow)] /\ new \in GateRow
  BY DEF Safe, TypeInv, TypeOK, GateTypeOK, GateRow, Decisions
<1>2. queue' = [queue EXCEPT ![s] = Append(queue[s], new)]
  BY DEF InsertGate
<1>3. ASSUME NEW rows \in Seq(GateRow), NEW j \in 1 .. Len(Append(rows, new)),
             Append(rows, new)[j].decision = "approved"
      PROVE  j \in 1 .. Len(rows) /\ rows[j].decision = "approved"
  <2>1. /\ Len(rows) \in Nat /\ Len(Append(rows, new)) = Len(rows) + 1
        /\ \A i \in 1 .. Len(rows) : Append(rows, new)[i] = rows[i]
        /\ Append(rows, new)[Len(rows) + 1] = new
    BY <1>1, AppendProperties, LenProperties
  <2> QED BY <1>3, <2>1
<1> HIDE DEF new
<1> QED BY <1>1, <1>2, <1>3

LEMMA LoopingSafe ==
  ASSUME Safe, OneWriterAtATime, NEW e \in Engines, Looping(e)
  PROVE  IInv'
<1>0. /\ run[e] \in Sound /\ run[e] \in Call
      /\ UpTo(Gate(e)) \subseteq Traced /\ Gate(e) = run[e].at
      /\ UpTo(current) \subseteq Traced /\ current \in Nat \cup {-1} /\ Step(e) = run[e].idx
      /\ run[e].pc \in StepLabels => Step(e) \in Steps
  BY RunIsSound DEF Gate, Step
<1>1. CASE CheckWait(e)
  <2>1. Gate(e) \in Nat /\ UpTo(Gate(e) - 1) \subseteq Traced
    <3>1. Gate(e) \in Nat
      BY <1>1, FieldTypes, StepsAreNat DEF CheckWait, At, Safe
    <3> QED BY <1>0, <3>1, UpToGrows
  <2>2. SoundMove(e)
    BY <1>1, <2>1, FreeMoves DEF CheckWait, FreeLabels, EndLabels
  <2> QED BY <1>1, <2>2, ReadSafe DEF CheckWait
<1>2. CASE CheckDefinition(e)
  <2>1. SoundMove(e)
    BY <1>2, FreeMoves DEF CheckDefinition, FreeLabels, EndLabels
  <2> QED BY <1>2, <2>1, ReadSafe DEF CheckDefinition
<1>3. CASE MarkStale(e)
  BY <1>3, FreeMoves, StatusSafe DEF MarkStale
<1>4. CASE MarkRunning(e)
  <2>1. SoundMove(e)
    BY <1>4, FreeMoves DEF MarkRunning, FreeLabels
  <2> QED BY <1>4, <2>1, StatusSafe DEF MarkRunning
<1>5. CASE LoadState(e)
  <2> DEFINE decide == [Idle EXCEPT !.pc = "read_decision", !.at = current, !.back = "loop"]
             enter == [run[e] EXCEPT !.pc = "step", !.at = current, !.seen = Approval(Step(e))]
  <2>1. decide \in Sound
    <3>1. decide \in Call
      BY <1>0, IdleSound DEF Call, Labels
    <3>2. IndicesTraced(decide)
      BY <1>0, UpToGrows DEF Idle, IndicesTraced
    <3> QED BY <3>1, <3>2 DEF Idle, Sound, StepKnown, SeenGranted, WorkGranted, StepLabels
  <2>2. Step(e) \in Steps /\ Step(e) < N /\ UpTo(Step(e) - 1) \subseteq Traced
    BY <1>5, RunIsSound DEF LoadState
  <2>3. Approval(Step(e)) # "absent" => Step(e) \in SendSteps
    BY DEF Approval, OneWriterAtATime
  <2>4. ASSUME Step(e) \in SendSteps
        PROVE  /\ Approval(Step(e)) \in GateOutputs
               /\ Approval(Step(e)) = "approved" => ApprovalFor[Step(e)] \in everApproved
    <3> DEFINE g == ApprovalFor[Step(e)]
    <3>1. g \in GateSteps /\ g \in Steps /\ g < Step(e) /\ Approval(Step(e)) = stepData[g]
      BY <2>4, KindsDisjoint, EngineAssumption DEF OneWriterAtATime, Approval
    <3>2. g <= Step(e) - 1
      <4>1. g \in Nat /\ Step(e) \in Nat
        BY <2>2, <3>1, StepsAreNat
      <4> QED BY <3>1, <4>1
    <3>3. g \in Traced
      BY <2>2, <3>1, <3>2 DEF UpTo
    <3>4. g \notin Asked
      BY <3>1, KindsDisjoint DEF Safe, IInv, Rows, IntentsAreExternal
    <3>5. stepData[g] # "absent"
      BY <3>1, <3>3, <3>4 DEF Traced, Asked, Stored
    <3>6. Fits(g, stepData[g])
      BY <3>1, <3>5 DEF Safe, IInv, Rows, OutputsFit
    <3> QED BY <3>1, <3>6 DEF Fits
  <2>5. enter \in Sound
    <3>1. Approval(Step(e)) \in Outputs
      BY <2>3, <2>4 DEF GateOutputs, Outputs
    <3>2. enter \in Call
      BY <1>0, <3>1 DEF Call, Labels
    <3>3. IndicesTraced(enter)
      BY <1>0, <2>2 DEF Call, IndicesTraced
    <3>4. StepKnown(enter) /\ WorkGranted(enter)
      BY <1>0, <2>2 DEF Call, StepKnown, WorkGranted
    <3>5. SeenGranted(enter)
      BY <1>0, <2>3, <2>4 DEF Call, SeenGranted
    <3> QED BY <3>2, <3>3, <3>4, <3>5 DEF Sound
  <2>6. SoundMove(e)
    BY <1>5, <2>1, <2>5, FreeMoves DEF LoadState, SoundMove
  <2> QED BY <1>5, <2>6, ReadSafe DEF LoadState
<1>6. CASE Complete(e)
  BY <1>6, FreeMoves, StatusSafe DEF Complete
<1>7. CASE SelectData(e)
  BY <1>7 DEF SelectData, OneWriterAtATime
<1>8. ASSUME At(e, "save_result") \/ At(e, "save_pending")
      PROVE  /\ Step(e) \in Steps /\ Step(e) \in Nat /\ UpTo(Step(e) - 1) \subseteq Traced
             /\ At(e, "save_result") => Fits(Step(e), run[e].out)
             /\ At(e, "save_pending") => Step(e) \in GateSteps /\ Fits(Step(e), "pending")
  BY <1>8, ResultFacts
<1>9. CASE SaveResult(e)
  <2>1. Grows /\ Rows' /\ EffectNeedsApproval' /\ UpTo(Step(e)) \subseteq Traced'
    <3>1. run[e].out \in Outputs
      BY FieldTypes DEF Safe
    <3> QED BY <1>8, <1>9, <3>1, SaveGrows DEF SaveResult
  <2>2. ASSUME NEW n \in Nat, UpTo(n) \subseteq Traced'
        PROVE  [Idle EXCEPT !.pc = "loop", !.idx = n + 1] \in Sound'
    <3> DEFINE call == [Idle EXCEPT !.pc = "loop", !.idx = n + 1]
    <3>0. "loop" \in Labels /\ n + 1 \in Nat
      BY DEF Labels
    <3>1. call \in Call
      BY <3>0, IdleSound DEF Call
    <3>2. IndicesTraced(call)'
      <4>1. call.at = -1 /\ call.idx = n + 1 /\ n + 1 - 1 = n
        BY DEF Idle
      <4> QED BY <2>2, <4>1, UpToGrows DEF IndicesTraced
    <3>3. StepKnown(call)' /\ SeenGranted(call)' /\ WorkGranted(call)'
      BY DEF Idle, StepKnown, SeenGranted, WorkGranted, StepLabels
    <3> QED BY <3>1, <3>2, <3>3 DEF Sound
  <2>3. [Idle EXCEPT !.pc = "loop", !.idx = Step(e) + 1] \in Sound'
    BY <1>8, <1>9, <2>1, <2>2 DEF SaveResult
  <2> QED BY <1>9, <2>1, <2>3, MemoryKept DEF SaveResult, Enter, IInv
<1>10. CASE Raised(e)
  BY <1>10, FreeMoves, StatusSafe DEF Raised
<1>11. CASE SavePending(e)
  <2>1. Grows /\ Rows' /\ EffectNeedsApproval'
    BY <1>8, <1>11, SaveGrows DEF SavePending, Outputs
  <2> DEFINE call == [run[e] EXCEPT !.pc = "record_hash", !.base = Unread]
  <2>2. call \in Sound
    <3>1. call \in Call
      BY <1>0 DEF Call, Labels
    <3>2. IndicesTraced(call) /\ SeenGranted(call) /\ WorkGranted(call)
      BY <1>0 DEF Sound, Call, IndicesTraced, SeenGranted, WorkGranted
    <3>3. StepKnown(call)
      BY <1>0, <1>8, <1>11 DEF Call, StepKnown, SavePending
    <3> QED BY <3>1, <3>2, <3>3 DEF Sound
  <2>3. SoundMove(e)
    BY <1>8, <1>11, <2>2, FreeMoves DEF SavePending, SavedTo, SoundMove, EndLabels
  <2> QED BY <2>1, <2>3, MemoryKept DEF SoundMove, IInv
<1>12. CASE RecordHash(e)
  <2>1. Still /\ UNCHANGED <<effectLog, writes>>
    BY <1>12 DEF RecordHash, RecordGateHash, GateWrite, Still, storeVars, envVars, Traced, Asked,
                 Stored, HasIntent
  <2>2. SoundMove(e)
    <3>1. Step(e) \in Steps
      BY <1>0, <1>12 DEF RecordHash, At, StepLabels
    <3> QED BY <1>12, <3>1, FreeMoves DEF RecordHash, EndLabels
  <2>3. Grows /\ Memory' /\ EffectNeedsApproval'
    BY <2>1, <2>2, MemoryKept, EffectsKept DEF Still, Grows, SoundMove
  <2>4. RowsTraced' /\ OutputsFit' /\ IntentsAreExternal'
    BY <2>1 DEF Safe, IInv, Rows, RowsTraced, OutputsFit, Fits, IntentsAreExternal, Still
  <2>5. ApprovalsGranted'
    <3>1. version[e] \in Versions
      BY DEF Safe, TypeInv, TypeOK
    <3> QED BY <1>12, <2>1, <3>1, HashKeepsDecisions
            DEF RecordHash, Still, Safe, IInv, Rows, ApprovalsGranted
  <2> QED BY <2>3, <2>4, <2>5 DEF IInv, Rows
<1>13. CASE MarkPaused(e)
  BY <1>13, FreeMoves, StatusSafe DEF MarkPaused
<1>14. CASE SetHash(e)
  <2>1. Still /\ UNCHANGED <<queue, effectLog, writes>>
    BY <1>14, IntentIsStill DEF SetHash
  <2>2. SoundMove(e)
    BY <1>0, <1>14, FreeMoves DEF SetHash, At, StepLabels, EndLabels
  <2> QED BY <2>1, <2>2, StillSafe
<1>15. CASE MarkWaiting(e)
  BY <1>15, FreeMoves, StatusSafe DEF MarkWaiting
<1> QED BY <1>1, <1>2, <1>3, <1>4, <1>5, <1>6, <1>7, <1>9, <1>10, <1>11, <1>12, <1>13, <1>14,
           <1>15 DEF Looping
-----------------------------------------------------------------------------
\* Moves to another label of the same step, of the same kind of claim.
LEMMA StepMoves ==
  ASSUME Safe, NEW e \in Engines, Step(e) \in Steps
  PROVE  /\ \A label \in {"gate_insert", "save_pending"} :
              Step(e) \in GateSteps /\ (StepTo(e, label) \/ Goto(e, label)) => SoundMove(e)
         /\ /\ Step(e) \in ExternalSteps /\ draft
            /\ Goto(e, "record_intent") \/ Goto(e, "insert_intent")
            => SoundMove(e)
         /\ \A label \in {"submit", "mark_submitted", "poll"} :
              /\ Step(e) \in ExternalSteps /\ Step(e) \in Asked
              /\ StepTo(e, label) \/ Goto(e, label)
              => SoundMove(e)
         /\ ApprovalFor[Step(e)] \in everApproved /\ StepTo(e, "send_log") => SoundMove(e)
<1> DEFINE plain == {"gate_insert", "save_pending", "record_intent", "insert_intent", "submit",
                     "mark_submitted", "poll"}
           Known(label) ==
             /\ label \in {"gate_insert", "save_pending"} => Step(e) \in GateSteps
             /\ label \in {"record_intent", "insert_intent"} => Step(e) \in ExternalSteps /\ draft
             /\ label \in {"submit", "mark_submitted", "poll"} =>
                  Step(e) \in ExternalSteps /\ Step(e) \in Asked
             /\ label = "send_log" => ApprovalFor[Step(e)] \in everApproved
<1>1. /\ run[e] \in Sound /\ run[e] \in Call /\ Step(e) = run[e].idx /\ Step(e) \in Nat
      /\ UpTo(Step(e) - 1) \subseteq Traced /\ UpTo(-1) = {}
  <2>1. Step(e) < N
    BY StoreAssumption DEF Steps
  <2> QED BY <2>1, RunIsSound, StepsAreNat, UpToGrows DEF Step
<1>2. ASSUME NEW label \in plain, Known(label), Goto(e, label)
      PROVE  SoundMove(e)
  <2> DEFINE call == [run[e] EXCEPT !.pc = label]
  <2>0. label \in Labels
    BY DEF Labels
  <2>1. call \in Call
    BY <1>1, <2>0 DEF Call
  <2>2. IndicesTraced(call) /\ SeenGranted(call) /\ WorkGranted(call)
    BY <1>1 DEF Sound, Call, IndicesTraced, SeenGranted, WorkGranted
  <2>3. StepKnown(call)
    BY <1>1, <1>2 DEF Call, StepKnown
  <2> QED BY <1>2, <2>1, <2>2, <2>3 DEF Sound, SoundMove, Goto
<1>3. ASSUME NEW label \in plain \cup {"send_log"}, Known(label), StepTo(e, label)
      PROVE  SoundMove(e)
  <2> DEFINE call == [Idle EXCEPT !.pc = label, !.idx = Step(e)]
  <2>0. label \in Labels
    BY DEF Labels
  <2>1. call \in Call
    BY <1>1, <2>0, IdleSound DEF Call
  <2>2. IndicesTraced(call)
    BY <1>1 DEF Idle, IndicesTraced
  <2>3. StepKnown(call) /\ SeenGranted(call) /\ WorkGranted(call)
    BY <1>3 DEF Idle, StepKnown, SeenGranted, WorkGranted
  <2> QED BY <1>3, <2>1, <2>2, <2>3 DEF Sound, SoundMove, StepTo, Enter
<1> QED BY <1>2, <1>3

\* A step whose function starts.
LEMMA StepStarts ==
  ASSUME Safe, NEW e \in Engines, run[e].pc \in StepLabels
  PROVE  /\ Step(e) \in Steps /\ Step(e) = run[e].idx
         /\ run[e].seen # "absent" => Step(e) \in SendSteps
         /\ run[e].seen = "approved" => ApprovalFor[Step(e)] \in everApproved
         /\ At(e, "step") /\ Step(e) \in SendSteps => run[e].seen \in GateOutputs
BY RunIsSound DEF Sound, SeenGranted, Step, At

LEMMA SteppingSafe ==
  ASSUME Safe, OneWriterAtATime, NEW e \in Engines, Stepping(e)
  PROVE  IInv'
<1>0. run[e] \in Sound /\ run[e] \in Call
  BY RunIsSound
<1>1. CASE PlainSucceeds(e)
  <2>1. Step(e) \in Steps /\ Fits(Step(e), "done")
    BY <1>1 DEF PlainSucceeds, PlainSteps, Fits
  <2>2. SoundMove(e)
    BY <1>1, <2>1, YieldMoves DEF PlainSucceeds, Outputs
  <2> QED BY <1>1, <2>2, ReadSafe DEF PlainSucceeds
<1>2. CASE PlainRaises(e)
  <2>1. SoundMove(e)
    BY <1>2, FreeMoves DEF PlainRaises, PlainSteps, EndLabels
  <2> QED BY <1>2, <2>1, ReadSafe DEF PlainRaises
<1>3. ASSUME Step(e) \in GateSteps, NEW n \in Nat, Requested(e, n)
      PROVE  SoundMove(e)
  <2>1. PICK label \in {"gate_check", "save_pending"} :
          Becomes(e, [Idle EXCEPT !.idx = Step(e), !.gate = n, !.pc = label])
    BY <1>3 DEF Requested
  <2> DEFINE call == [Idle EXCEPT !.idx = Step(e), !.gate = n, !.pc = label]
  <2>2. /\ Step(e) \in Steps /\ Step(e) \in Nat /\ UpTo(-1) = {}
        /\ UpTo(Step(e) - 1) \subseteq Traced
    <3>1. Step(e) \in Steps
      BY <1>3, KindsDisjoint
    <3>2. Step(e) < N
      BY <3>1, StoreAssumption DEF Steps
    <3> QED BY <3>1, <3>2, RunIsSound, StepsAreNat, UpToGrows
  <2>3. label \in Labels
    BY DEF Labels
  <2>4. call \in Call
    BY <2>2, <2>3, IdleSound DEF Call
  <2>5. IndicesTraced(call)
    BY <2>2 DEF Idle, IndicesTraced
  <2>6. StepKnown(call) /\ SeenGranted(call) /\ WorkGranted(call)
    BY <1>3, <2>2 DEF Idle, StepKnown, SeenGranted, WorkGranted
  <2> QED BY <2>1, <2>4, <2>5, <2>6 DEF Sound, SoundMove
<1>4. CASE RunGate(e)
  <2>1. Step(e) \in GateSteps /\ Step(e) \in Steps /\ Len(queue[Step(e)]) \in Nat
    BY <1>4, KindsDisjoint, LenProperties DEF RunGate, Safe, TypeInv, TypeOK, GateTypeOK
  <2>2. Fits(Step(e), "skipped")
    BY <2>1, KindsDisjoint DEF Fits, GateOutputs
  <2>3. SoundMove(e)
    BY <1>3, <1>4, <2>1, <2>2, YieldMoves, StepMoves DEF RunGate, Outputs
  <2> QED BY <1>4, <2>3, ReadSafe DEF RunGate
<1>5. CASE GateInsert(e)
  <2>1. Still /\ UNCHANGED <<effectLog, writes>>
    BY <1>5 DEF GateInsert, InsertGate, GateWrite, Still, storeVars, envVars, Traced, Asked,
                Stored, HasIntent
  <2>2. Step(e) \in GateSteps /\ Len(queue[Step(e)]) + 1 \in Nat
    <3>1. Step(e) \in GateSteps
      BY <1>5, FieldTypes DEF GateInsert, At, Safe
    <3>2. Len(queue[Step(e)]) \in Nat
      BY <3>1, LenProperties DEF Safe, TypeInv, TypeOK, GateTypeOK
    <3> QED BY <3>1, <3>2
  <2>3. SoundMove(e)
    BY <1>3, <1>5, <2>2 DEF GateInsert
  <2>4. Grows /\ Memory' /\ EffectNeedsApproval'
    BY <2>1, <2>3, MemoryKept, EffectsKept DEF Still, Grows, SoundMove
  <2>5. RowsTraced' /\ OutputsFit' /\ IntentsAreExternal'
    BY <2>1 DEF Safe, IInv, Rows, RowsTraced, OutputsFit, Fits, IntentsAreExternal, Still
  <2>6. ApprovalsGranted'
    BY <1>5, <2>1, InsertKeepsDecisions DEF GateInsert, Still, Safe, IInv, Rows, ApprovalsGranted
  <2> QED BY <2>4, <2>5, <2>6 DEF IInv, Rows
<1>6. CASE GateCheck(e)
  <2> DEFINE decision == queue[Step(e)][run[e].gate].decision
  <2>1. Step(e) \in GateSteps /\ run[e].gate \in 1 .. Len(queue[Step(e)])
    BY <1>6, FieldTypes DEF GateCheck, At, Safe
  <2>2. decision \in Decisions /\ (decision = "approved" => Step(e) \in everApproved)
    BY <2>1, RowIsTyped DEF Safe, IInv, Rows, ApprovalsGranted
  <2>3. Step(e) \in Steps
    BY <2>1, KindsDisjoint
  <2>4. decision # "pending" => Fits(Step(e), decision) /\ decision \in Outputs
    BY <2>1, <2>2, KindsDisjoint DEF Fits, GateOutputs, Decisions, Outputs
  <2>5. SoundMove(e)
    BY <1>6, <2>1, <2>3, <2>4, YieldMoves, StepMoves DEF GateCheck
  <2> QED BY <1>6, <2>5, ReadSafe DEF GateCheck
<1>7. CASE RunSend(e)
  <2>1. Step(e) \in SendSteps /\ Step(e) \in Steps
    BY <1>7, KindsDisjoint DEF RunSend
  <2>2. Fits(Step(e), "skipped") /\ Fits(Step(e), "sent")
    BY <2>1, KindsDisjoint DEF Fits
  <2>3. ~Refused(e) => ApprovalFor[Step(e)] \in everApproved
    BY <1>7, <2>1, StepStarts DEF RunSend, Refused, GateOutputs, At, StepLabels
  <2>4. SoundMove(e)
    BY <1>7, <2>1, <2>2, <2>3, YieldMoves, StepMoves DEF RunSend, Outputs
  <2> QED BY <1>7, <2>4, ReadSafe DEF RunSend
<1>8. CASE SendLog(e)
  <2>1. /\ Still /\ UNCHANGED <<queue, writes, intent>>
        /\ effectLog' \subseteq effectLog \cup {KeyOf[Step(e)]}
    BY <1>8 DEF SendLog, LogSideEffect, StoreWrite, Still, storeVars, gateVars, envVars,
                Traced, Asked, Stored, HasIntent
  <2>2. Step(e) \in SendSteps /\ Step(e) \in Steps /\ ApprovalFor[Step(e)] \in everApproved
    BY <1>8, SendFacts DEF SendLog
  <2>3. SoundMove(e)
    <3>1. Fits(Step(e), "sent")
      BY <2>2, KindsDisjoint DEF Fits
    <3> QED BY <1>8, <2>2, <3>1, YieldMoves, FreeMoves DEF SendLog, Outputs, EndLabels
  <2>4. Grows /\ Rows' /\ Memory'
    BY <2>1, <2>3, RowsKept, MemoryKept DEF Still, Grows, SoundMove
  <2>5. Step(e) \in EffectSteps /\ ApprovalOf(Step(e)) \in everApproved
    BY <2>2, KindsDisjoint DEF EffectSteps, ApprovalOf
  <2>6. EffectNeedsApproval'
    BY <2>1, <2>5 DEF Still, Safe, IInv, EffectNeedsApproval, HasIntent
  <2> QED BY <2>4, <2>6 DEF IInv
<1> QED BY <1>1, <1>2, <1>4, <1>5, <1>6, <1>7, <1>8 DEF Stepping

\* The gateway steps.
LEMMA ActingSafe ==
  ASSUME Safe, OneWriterAtATime, NEW e \in Engines, Acting(e)
  PROVE  IInv'
<1>0. /\ run[e] \in Sound /\ run[e] \in Call /\ Step(e) = run[e].idx /\ Gate(e) = run[e].at
      /\ UpTo(Gate(e)) \subseteq Traced
  BY RunIsSound DEF Step, Gate
<1>1. ASSUME run[e].pc \in {"submit", "mark_submitted", "poll", "mark_terminal"}
      PROVE  Step(e) \in ExternalSteps /\ Step(e) \in Asked /\ Step(e) \in Steps
  BY <1>1, AskedFacts
<1>2. ASSUME run[e].pc \in {"record_intent", "insert_intent"}
      PROVE  Step(e) \in ExternalSteps /\ draft /\ Step(e) \in Steps
  BY <1>2, AskingFacts
<1>3. CASE RunExternal(e)
  <2>1. Step(e) \in ExternalSteps /\ Step(e) \in Steps
    BY <1>3, KindsDisjoint DEF RunExternal
  <2>2. /\ Refused(e) <=> ~draft
        /\ intent[Step(e)].state # "none" => Step(e) \in Asked
    <3>1. run[e].seen = "absent"
      BY <1>3, <2>1, KindsDisjoint, StepStarts DEF RunExternal, At, StepLabels
    <3> QED BY <2>1, <3>1 DEF Refused, Asked, HasIntent
  <2>3. ~draft => Fits(Step(e), "skipped")
    BY <2>1, KindsDisjoint DEF Fits
  <2>4. SoundMove(e)
    BY <1>3, <2>1, <2>2, <2>3, YieldMoves, StepMoves DEF RunExternal, Outputs
  <2> QED BY <1>3, <2>4, ReadSafe DEF RunExternal
<1>4. CASE RecordIntent(e)
  <2>1. Step(e) \in ExternalSteps /\ draft /\ Step(e) \in Steps
    BY <1>2, <1>4 DEF RecordIntent, At
  <2>2. HasIntent(Step(e)) => Step(e) \in Asked
    BY <2>1 DEF Asked
  <2>3. SoundMove(e)
    BY <1>4, <2>1, <2>2, FreeMoves, StepMoves DEF RecordIntent, EndLabels
  <2> QED BY <1>4, <2>3, ReadSafe DEF RecordIntent
<1>5. CASE InsertRow(e)
  <2> DEFINE s == Step(e)
  <2>1. s \in ExternalSteps /\ draft /\ s \in Steps
    BY <1>2, <1>5 DEF InsertRow, At
  <2>2. CASE StepTo(e, "raised") /\ UNCHANGED storeVars
    <3>1. Still /\ UNCHANGED <<queue, effectLog, writes>>
      BY <1>5, <2>2 DEF InsertRow, StoreWrite, Still, storeVars, gateVars, envVars, Traced,
                        Asked, Stored, HasIntent
    <3>2. SoundMove(e)
      BY <2>1, <2>2, FreeMoves DEF EndLabels
    <3> QED BY <3>1, <3>2, StillSafe
  <2>3. CASE InsertIntent(s, Gate(e) + 1) /\ StepTo(e, "submit")
    <3>1. /\ Grows /\ Rows' /\ EffectNeedsApproval'
          /\ Traced' = Traced \cup {s} /\ Asked' = Asked \cup {s} /\ UpTo(s - 1) \subseteq Traced
      BY <1>5, <2>3, InsertGrows DEF InsertRow
    <3>2. ASSUME NEW n \in Steps, n \in ExternalSteps, n \in Asked', UpTo(n - 1) \subseteq Traced'
           PROVE  [Idle EXCEPT !.pc = "submit", !.idx = n] \in Sound'
      <4> DEFINE call == [Idle EXCEPT !.pc = "submit", !.idx = n]
      <4>0. "submit" \in Labels /\ n \in Nat /\ UpTo(-1) = {}
        BY StepsAreNat, UpToGrows DEF Labels
      <4>1. call \in Call
        BY <4>0, IdleSound DEF Call
      <4>2. IndicesTraced(call)'
        BY <3>2, <4>0 DEF Idle, IndicesTraced
      <4>3. StepKnown(call)' /\ SeenGranted(call)' /\ WorkGranted(call)'
        BY <3>2 DEF Idle, StepKnown, SeenGranted, WorkGranted
      <4> QED BY <4>1, <4>2, <4>3 DEF Sound
    <3>3. Memory'
      <4>1. [Idle EXCEPT !.pc = "submit", !.idx = s] \in Sound'
        BY <2>1, <3>1, <3>2
      <4> QED BY <2>3, <3>1, <4>1, MemoryKept DEF StepTo, Enter
    <3> QED BY <3>1, <3>3 DEF IInv
  <2> QED BY <1>0, <1>5, <2>2, <2>3 DEF InsertRow
<1>6. CASE Submit(e)
  <2>1. Still /\ UNCHANGED <<queue, effectLog, writes>>
    BY <1>6 DEF Submit, Still, storeVars, gateVars, Traced, Asked, Stored, HasIntent
  <2>2. SoundMove(e)
    BY <1>1, <1>6, FreeMoves, StepMoves DEF Submit, At, EndLabels
  <2> QED BY <2>1, <2>2, StillSafe
<1>7. ASSUME NEW state \in {"submitted", "terminal_read"}, MarkIntent(Step(e), state), StoreWrite,
             Step(e) \in Asked
      PROVE  Still /\ UNCHANGED <<queue, effectLog, writes>>
  BY <1>7, IntentIsStill
<1>8. CASE MarkSubmitted(e)
  <2>1. SoundMove(e)
    BY <1>1, <1>8, StepMoves DEF MarkSubmitted, At
  <2> QED BY <1>1, <1>7, <1>8, <2>1, StillSafe DEF MarkSubmitted, At
<1>9. CASE PollAnswered(e)
  <2>1. Step(e) \in ExternalSteps /\ Step(e) \in Asked /\ Step(e) \in Steps
    BY <1>1, <1>9 DEF PollAnswered, At
  <2>2. Fits(Step(e), "confirmed") /\ Fits(Step(e), "denied")
    BY <2>1, KindsDisjoint DEF Fits
  <2>3. SoundMove(e)
    BY <1>9, <2>1, <2>2, YieldMoves, FreeMoves DEF PollAnswered, Outputs, EndLabels
  <2> QED BY <1>9, <2>3, ReadSafe DEF PollAnswered
<1>10. CASE PollFails(e)
  <2>1. SoundMove(e)
    BY <1>1, <1>10, FreeMoves DEF PollFails, At, EndLabels
  <2> QED BY <1>10, <2>1, ReadSafe DEF PollFails
<1>11. CASE MarkTerminal(e)
  <2> DEFINE call == [run[e] EXCEPT !.pc = "save_result"]
  <2>1. call \in Sound
    <3>0. "save_result" \in Labels
      BY DEF Labels
    <3>1. call \in Call
      BY <1>0, <3>0 DEF Call
    <3>2. IndicesTraced(call) /\ SeenGranted(call)
      BY <1>0 DEF Sound, Call, IndicesTraced, SeenGranted
    <3>3. StepKnown(call) /\ WorkGranted(call)
      BY <1>0, <1>1, <1>11 DEF Sound, Call, StepKnown, WorkGranted, MarkTerminal, At
    <3> QED BY <3>1, <3>2, <3>3 DEF Sound
  <2>2. SoundMove(e)
    BY <1>11, <2>1 DEF MarkTerminal, Goto, SoundMove
  <2> QED BY <1>1, <1>7, <1>11, <2>2, StillSafe DEF MarkTerminal, At
<1> QED BY <1>3, <1>4, <1>5, <1>6, <1>8, <1>9, <1>10, <1>11 DEF Acting

\* The callers and the processes.
LEMMA CallingSafe ==
  ASSUME Safe, OneWriterAtATime, NEW e \in Engines,
         Execute(e) \/ Resume(e) \/ Crash(e) \/ Release(e)
  PROVE  IInv'
<1>1. current \in Nat \cup {-1} /\ UpTo(current) \subseteq Traced
  BY RunIsSound
<1>2. Enter(e, "mark_running", current + 1) => SoundMove(e)
  BY <1>1, FreeMoves DEF FreeLabels
<1>3. CASE Execute(e)
  BY <1>2, <1>3, ReadSafe DEF Execute
<1>4. CASE Resume(e)
  <2>1. \A label \in {"check_wait", "check_definition", "read_decision"} :
          [Idle EXCEPT !.pc = label, !.at = current] \in Sound
    BY <1>1, IdleSound DEF FreeLabels
  <2>2. SoundMove(e)
    BY <1>2, <1>4, <2>1 DEF Resume, SoundMove
  <2> QED BY <1>4, <2>2, ReadSafe DEF Resume
<1>5. CASE Crash(e)
  <2>1. Still /\ UNCHANGED <<queue, effectLog, writes>>
    BY <1>5 DEF Crash, Still, storeVars, gateVars, Traced, Asked, Stored, HasIntent
  <2> QED BY <1>5, <2>1, FreeMoves, StillSafe DEF Crash
<1>6. CASE Release(e)
  <2>1. Still /\ UNCHANGED <<queue, effectLog, writes, run>>
    BY <1>6 DEF Release, Still, storeVars, gateVars, envVars, Traced, Asked, Stored, HasIntent
  <2> QED BY <2>1, NobodyMoves
<1> QED BY <1>3, <1>4, <1>5, <1>6

\* The operators, the crash detector and the gateway.
LEMMA EnvironmentSafe ==
  ASSUME Safe, OneWriterAtATime, Decide \/ DetectSelect \/ DetectUpdate \/ GatewayDecides
  PROVE  IInv'
<1>1. CASE Decide
  <2>1. /\ draft' = draft /\ Traced' = Traced /\ Asked' = Asked /\ current' = current
        /\ stepData' = stepData /\ UNCHANGED <<effectLog, writes, run>>
    BY <1>1 DEF Decide, storeVars, envVars, Traced, Asked, Stored, HasIntent
  <2>2. PICK g \in GateSteps : \E i \in 1 .. Len(queue[g]) : Approve(g, i) \/ Reject(g, i)
    BY <1>1 DEF Decide
  <2>3. everApproved \subseteq everApproved'
    BY <2>2 DEF Approve, Reject
  <2>4. Grows
    BY <2>1, <2>3 DEF Grows
  <2>5. Memory'
    BY <2>1, <2>4, SoundGrows DEF Safe, IInv, Memory
  <2>6. EffectNeedsApproval'
    BY <2>1, <2>3, EffectsKept
  <2>7. RowsTraced' /\ IntentsAreExternal'
    BY <2>1 DEF Safe, IInv, Rows, RowsTraced, IntentsAreExternal
  <2>8. OutputsFit'
    BY <2>1, <2>3 DEF Safe, IInv, Rows, OutputsFit, Fits
  <2>9. ApprovalsGranted'
    BY <2>2, <2>3, DecisionsGranted
  <2> QED BY <2>5, <2>6, <2>7, <2>8, <2>9 DEF IInv, Rows
<1>2. CASE DetectSelect \/ DetectUpdate \/ GatewayDecides
  <2>1. Still /\ UNCHANGED <<queue, effectLog, writes, run>>
    BY <1>2 DEF DetectSelect, DetectUpdate, GatewayDecides, UpdateStatus, Still, storeVars,
                gateVars, Traced, Asked, Stored, HasIntent
  <2> QED BY <2>1, NobodyMoves
<1> QED BY <1>1, <1>2

LEMMA InitSafe == Init => IInv
<1> SUFFICES ASSUME Init PROVE IInv
  OBVIOUS
<1>1. Traced = {} /\ Asked = {}
  BY DEF Init, CreateWorkflow, Traced, Asked, Stored, HasIntent
<1>2. RowsTraced
  BY <1>1, StoreAssumption, UpToGrows DEF Init, CreateWorkflow, RowsTraced
<1>3. OutputsFit /\ IntentsAreExternal
  BY <1>1 DEF Init, CreateWorkflow, OutputsFit, IntentsAreExternal
<1>4. ApprovalsGranted
  BY DEF Init, EmptyQueue, ApprovalsGranted
<1>5. Memory
  BY IdleSound DEF Init, Memory
<1>6. EffectNeedsApproval
  <2>1. /\ effectLog = {} /\ \A k \in Keys : writes[k] = 0
        /\ \A s \in ExternalSteps : ~HasIntent(s)
    BY KindsDisjoint DEF Init, CreateWorkflow, HasIntent
  <2> QED BY <2>1 DEF EffectNeedsApproval
<1> QED BY <1>2, <1>3, <1>4, <1>5, <1>6 DEF IInv, Rows

LEMMA NextSafe == OneWriterAtATime /\ Safe /\ [Next]_vars => Safe'
<1> SUFFICES ASSUME OneWriterAtATime, Safe, [Next]_vars PROVE Safe'
  OBVIOUS
<1>1. TypeInv'
  BY NextTypes DEF Safe
<1>2. ASSUME NEW e \in Engines, Execute(e) \/ Resume(e) \/ Work(e) \/ Crash(e) \/ Release(e)
      PROVE  IInv'
  BY <1>2, CallingSafe, DecidingSafe, LoopingSafe, SteppingSafe, ActingSafe DEF Work
<1>3. CASE UNCHANGED vars
  <2>1. Still /\ UNCHANGED <<queue, effectLog, writes, run>>
    BY <1>3 DEF vars, storeVars, gateVars, envVars, Still, Traced, Asked, Stored, HasIntent
  <2> QED BY <1>1, <2>1, NobodyMoves DEF Safe
<1> QED BY <1>1, <1>2, <1>3, EnvironmentSafe DEF Next, Safe

LEMMA IInvSuffices ==
  Safe => NothingUnrecorded /\ EffectNeedsApproval
<1> SUFFICES ASSUME Safe PROVE NothingUnrecorded /\ EffectNeedsApproval
  OBVIOUS
<1>1. current < N /\ \A s \in Steps : s <= current => Stored(s)
  BY DEF Safe, IInv, Rows, RowsTraced, UpTo, Traced
<1>2. ASSUME NEW e \in Engines, NEW s \in Steps, At(e, "step"), s < Step(e)
      PROVE  Stored(s)
  <2>1. Step(e) \in Steps
    BY <1>2, RunIsSound DEF At, StepLabels
  <2>2. Step(e) < N /\ s <= Step(e) - 1
    BY <1>2, <2>1, StoreAssumption DEF Steps
  <2>3. s \in Traced
    BY <2>2, RunIsSound DEF UpTo
  <2> QED BY <2>3 DEF Traced
<1> QED BY <1>1, <1>2 DEF NothingUnrecorded, Safe, IInv

\* IInv is an invariant of every workflow without gated external steps whose
\* saves do not overlap.
LEMMA AlwaysSafe ==
  ASSUME OneWriterAtATime
  PROVE  Spec => []Safe
<1>1. Init => Safe
  BY InitTypes, InitSafe DEF Safe
<1>2. Safe /\ [Next]_vars => Safe'
  BY NextSafe
<1> QED BY <1>1, <1>2, PTL DEF Spec

\* No send is logged and no approved tool runs before an operator approved a gate of
\* that key, whoever runs, crashes or re-executes the workflow, and whoever decides
\* twice (send_reply, _execute_write_once, _resume_index_after_approval).
THEOREM EffectsApproved ==
  ASSUME OneWriterAtATime
  PROVE  Spec => []EffectNeedsApproval
BY AlwaysSafe, IInvSuffices, PTL

\* Everything up to current_step, and everything before a step that runs, has a
\* durable trace, though slower engines move current_step back (_run_from_step,
\* save_checkpoint, record_external_action_intent).
THEOREM NothingForgotten ==
  ASSUME OneWriterAtATime
  PROVE  Spec => []NothingUnrecorded
BY AlwaysSafe, IInvSuffices, PTL
-----------------------------------------------------------------------------
(* What the gateway answered.  No assumption on the engines: their saves   *)
(* may overlap.                                                            *)

Answers == {"confirmed", "denied"}

\* An answer in an engine's hand, or in the rows it has read, is the gateway's.
Heard(e) ==
  /\ run[e].out \in Answers =>
       /\ run[e].pc \in {"mark_terminal", "save_result"}
       /\ Step(e) \in ExternalSteps => gateway[Step(e)] = run[e].out
  /\ run[e].base # Unread =>
       \A s \in ExternalSteps : run[e].base[s] \in Answers => run[e].base[s] = gateway[s]

OutcomesHeard == OutcomeIsTheGateways /\ \A e \in Engines : Heard(e)

\* What a move leaves in the engine's hand.
LEMMA MoveFields ==
  ASSUME TypeInv, NEW e \in Engines
  PROVE  /\ \A call : Becomes(e, call) =>
              run'[e] = call /\ \A f \in Engines \ {e} : run'[f] = run[f]
         /\ Return(e) => run'[e].out = "absent" /\ run'[e].base = Unread /\ run'[e].pc = "idle"
         /\ \A label : StepTo(e, label) =>
              /\ run'[e].out = "absent" /\ run'[e].base = Unread
              /\ run'[e].pc = label /\ run'[e].idx = Step(e)
         /\ \A label, index : Enter(e, label, index) =>
              /\ run'[e].out = "absent" /\ run'[e].base = Unread
              /\ run'[e].pc = label /\ run'[e].idx = index
         /\ \A label : Goto(e, label) =>
              /\ run'[e].out = run[e].out /\ run'[e].base = run[e].base
              /\ run'[e].pc = label /\ run'[e].idx = Step(e) /\ run'[e].at = Gate(e)
         /\ \A label : SavedTo(e, label) =>
              /\ run'[e].out = run[e].out /\ run'[e].base = Unread /\ run'[e].pc = label
              /\ run'[e].idx = Step(e)
         /\ \A label, output : Yield(e, output, label) =>
              /\ run'[e].out = output /\ run'[e].base = Unread
              /\ run'[e].pc = label /\ run'[e].idx = Step(e)
         /\ \A next : Back(e, next) =>
              /\ run'[e].out = "absent" /\ run'[e].base = Unread
              /\ run'[e].pc \in {"idle", "loop", "reload"}
<1>1. \A call : Becomes(e, call) =>
        run'[e] = call /\ \A f \in Engines \ {e} : run'[f] = run[f]
  BY DEF Becomes, TypeInv, TypeOK
<1>2. run[e] \in Call
  BY DEF TypeInv, TypeOK
<1>3. Return(e) => run'[e].out = "absent" /\ run'[e].base = Unread /\ run'[e].pc = "idle"
  BY <1>1 DEF Return, Idle
<1>4. \A label, index : Enter(e, label, index) =>
        /\ run'[e].out = "absent" /\ run'[e].base = Unread
        /\ run'[e].pc = label /\ run'[e].idx = index
  <2> SUFFICES ASSUME NEW label, NEW index, Enter(e, label, index)
               PROVE  /\ run'[e].out = "absent" /\ run'[e].base = Unread
                      /\ run'[e].pc = label /\ run'[e].idx = index
    OBVIOUS
  <2>1. run'[e] = [Idle EXCEPT !.pc = label, !.idx = index]
    BY <1>1 DEF Enter
  <2>2. run'[e] = [pc |-> label, idx |-> index, at |-> -1, seen |-> "absent", gate |-> 0,
                   out |-> "absent", base |-> Unread, back |-> "resume"]
    BY <2>1 DEF Idle
  <2> QED BY <2>2
<1>5. \A label : Goto(e, label) =>
        /\ run'[e].out = run[e].out /\ run'[e].base = run[e].base
        /\ run'[e].pc = label /\ run'[e].idx = Step(e) /\ run'[e].at = Gate(e)
  BY <1>1, <1>2 DEF Goto, Call, Step, Gate
<1>6. \A label : SavedTo(e, label) =>
        /\ run'[e].out = run[e].out /\ run'[e].base = Unread /\ run'[e].pc = label
        /\ run'[e].idx = Step(e)
  <2> SUFFICES ASSUME NEW label, SavedTo(e, label)
               PROVE  /\ run'[e].out = run[e].out /\ run'[e].base = Unread
                      /\ run'[e].pc = label /\ run'[e].idx = Step(e)
    OBVIOUS
  <2>1. run'[e] = [run[e] EXCEPT !.pc = label, !.base = Unread]
    BY <1>1 DEF SavedTo
  <2>2. run'[e] = [pc |-> label, idx |-> run[e].idx, at |-> run[e].at, seen |-> run[e].seen,
                   gate |-> run[e].gate, out |-> run[e].out, base |-> Unread,
                   back |-> run[e].back]
    BY <1>2, <2>1 DEF Call
  <2> QED BY <2>2 DEF Step
<1>7. \A label, output : Yield(e, output, label) =>
        /\ run'[e].out = output /\ run'[e].base = Unread
        /\ run'[e].pc = label /\ run'[e].idx = Step(e)
  <2> SUFFICES ASSUME NEW label, NEW output, Yield(e, output, label)
               PROVE  /\ run'[e].out = output /\ run'[e].base = Unread
                      /\ run'[e].pc = label /\ run'[e].idx = Step(e)
    OBVIOUS
  <2>1. run'[e] = [Idle EXCEPT !.pc = label, !.idx = Step(e), !.out = output]
    BY <1>1 DEF Yield
  <2>2. run'[e] = [pc |-> label, idx |-> Step(e), at |-> -1, seen |-> "absent", gate |-> 0,
                   out |-> output, base |-> Unread, back |-> "resume"]
    BY <2>1 DEF Idle
  <2> QED BY <2>2
<1>8. \A label : StepTo(e, label) =>
        /\ run'[e].out = "absent" /\ run'[e].base = Unread
        /\ run'[e].pc = label /\ run'[e].idx = Step(e)
  BY <1>4, Zenon DEF StepTo
<1>9. \A next : Back(e, next) =>
        /\ run'[e].out = "absent" /\ run'[e].base = Unread
        /\ run'[e].pc \in {"idle", "loop", "reload"}
  BY <1>3, <1>4 DEF Back
<1> QED BY <1>1, <1>3, <1>4, <1>5, <1>6, <1>7, <1>8, <1>9

\* The move of an engine that hears nothing.
Deaf(e) ==
  /\ run'[e].out \notin Answers /\ (run'[e].base = Unread \/ run'[e].base = run[e].base)
  /\ \A f \in Engines \ {e} : run'[f] = run[f]

LEMMA DeafMoves ==
  ASSUME TypeInv, OutcomesHeard, NEW e \in Engines
  PROVE  /\ Return(e) => Deaf(e)
         /\ \A label : StepTo(e, label) => Deaf(e)
         /\ \A label, index : Enter(e, label, index) => Deaf(e)
         /\ \A label : run[e].pc \notin {"mark_terminal", "save_result"} =>
              (Goto(e, label) => Deaf(e)) /\ (SavedTo(e, label) => Deaf(e))
         /\ \A label, output : output \notin Answers => (Yield(e, output, label) => Deaf(e))
         /\ \A next : Back(e, next) => Deaf(e)
<1>1. \A call : Becomes(e, call) => \A f \in Engines \ {e} : run'[f] = run[f]
  BY MoveFields
<1>2. /\ \A label : Goto(e, label) \/ SavedTo(e, label) => \E call : Becomes(e, call)
      /\ \A label, output : Yield(e, output, label) => \E call : Becomes(e, call)
      /\ \A label, index : Enter(e, label, index) => \E call : Becomes(e, call)
      /\ \A next : Back(e, next) => \E call : Becomes(e, call)
      /\ Return(e) => \E call : Becomes(e, call)
  BY DEF Goto, SavedTo, Yield, Enter, Back, Return
<1>3. run[e].pc \notin {"mark_terminal", "save_result"} => run[e].out \notin Answers
  BY DEF OutcomesHeard, Heard
<1>4. "absent" \notin Answers
  BY DEF Answers
<1>5. Return(e) => Deaf(e)
  BY <1>1, <1>2, <1>4, MoveFields DEF Deaf
<1>6. \A label, index : Enter(e, label, index) => Deaf(e)
  BY <1>1, <1>2, <1>4, MoveFields DEF Deaf
<1>7. \A label : run[e].pc \notin {"mark_terminal", "save_result"} =>
        (Goto(e, label) => Deaf(e)) /\ (SavedTo(e, label) => Deaf(e))
  BY <1>1, <1>2, <1>3, MoveFields DEF Deaf
<1>8. \A label, output : output \notin Answers => (Yield(e, output, label) => Deaf(e))
  BY <1>1, <1>2, MoveFields DEF Deaf
<1>9. \A next : Back(e, next) => Deaf(e)
  BY <1>1, <1>2, <1>4, MoveFields DEF Deaf
<1> QED BY <1>5, <1>6, <1>7, <1>8, <1>9 DEF StepTo

\* The gateway revises no answer.
LEMMA AnswersLast ==
  ASSUME TypeInv, [Next]_vars
  PROVE  \A s \in ExternalSteps : gateway[s] \in Answers => gateway'[s] = gateway[s]
<1>1. gateway \in [ExternalSteps -> GatewayStates]
  BY DEF TypeInv, TypeOK
<1>2. CASE GatewayDecides
  BY <1>1, <1>2 DEF GatewayDecides, Answers
<1>3. ASSUME NEW e \in Engines, Submit(e)
      PROVE  \A s \in ExternalSteps : gateway[s] \in Answers => gateway'[s] = gateway[s]
  BY <1>1, <1>3 DEF Submit, Answers
<1>4. ASSUME NEW e \in Engines, Deciding(e) \/ Looping(e) \/ Stepping(e) PROVE gateway' = gateway
  <2>1. CASE Deciding(e)
    BY <2>1 DEF Deciding, ReadDecision, CommitCheck, CommitExecute, CommitLog, SaveDecision,
                MarkDecided, MarkContinued, Reload, StoreRead, StoreWrite, envVars
  <2>2. CASE Looping(e)
    BY <2>2 DEF Looping, CheckWait, CheckDefinition, MarkStale, MarkRunning, LoadState,
                Complete, SelectData, SaveResult, Raised, SavePending, RecordHash, MarkPaused,
                SetHash, MarkWaiting, StoreRead, StoreWrite, GateWrite, envVars
  <2>3. CASE Stepping(e)
    BY <2>3 DEF Stepping, PlainSucceeds, PlainRaises, RunGate, GateInsert, GateCheck, RunSend,
                SendLog, StoreRead, StoreWrite, GateWrite, envVars
  <2> QED BY <1>4, <2>1, <2>2, <2>3
<1>5. ASSUME NEW e \in Engines, Acting(e), ~Submit(e) PROVE gateway' = gateway
  BY <1>5 DEF Acting, RunExternal, RecordIntent, InsertRow, MarkSubmitted, PollAnswered,
              PollFails, MarkTerminal, StoreRead, StoreWrite, envVars
<1>6. ASSUME NEW e \in Engines, Execute(e) \/ Resume(e) \/ Crash(e) \/ Release(e)
      PROVE  gateway' = gateway
  BY <1>6 DEF Execute, Resume, Crash, Release, StoreRead, envVars
<1>7. CASE Decide \/ DetectSelect \/ DetectUpdate \/ UNCHANGED vars
  BY <1>7 DEF Decide, DetectSelect, DetectUpdate, vars, envVars
<1> QED BY <1>2, <1>3, <1>4, <1>5, <1>6, <1>7 DEF Next, Work

LEMMA DeafKeeps ==
  ASSUME TypeInv, OutcomesHeard, [Next]_vars, NEW e \in Engines, Deaf(e), stepData' = stepData
  PROVE  OutcomesHeard'
<1>1. \A s \in ExternalSteps : gateway[s] \in Answers => gateway'[s] = gateway[s]
  BY AnswersLast
<1>2. OutcomeIsTheGateways'
  BY <1>1 DEF OutcomesHeard, OutcomeIsTheGateways, Answers
<1>3. Heard(e)'
  BY <1>1 DEF Deaf, OutcomesHeard, Heard, Step
<1>4. ASSUME NEW f \in Engines \ {e} PROVE Heard(f)'
  <2>1. Heard(f) /\ run'[f] = run[f]
    BY DEF Deaf, OutcomesHeard
  <2> QED BY <1>1, <2>1 DEF Heard, Step
<1> QED BY <1>2, <1>3, <1>4 DEF OutcomesHeard

\* A save writes one output, over rows in which every answer is the gateway's.
LEMMA SaveHeard ==
  ASSUME TypeInv, OutcomesHeard, [Next]_vars, NEW e \in Engines, NEW s, NEW output,
         Save(e, s, output), Deaf(e),
         output \in Answers => (s \in ExternalSteps => gateway[s] = output)
  PROVE  OutcomesHeard'
<1>1. \A t \in ExternalSteps : gateway[t] \in Answers => gateway'[t] = gateway[t]
  BY AnswersLast
<1>2. PICK read \in [Steps -> Outputs] :
        /\ stepData' = [read EXCEPT ![s] = output]
        /\ \A t \in ExternalSteps : read[t] \in Answers => read[t] = gateway[t]
  <2>1. CASE SaveCheckpoint(s, output, stepData)
    BY <2>1 DEF SaveCheckpoint, OutcomesHeard, OutcomeIsTheGateways, Answers, TypeInv, TypeOK,
                StoreTypeOK
  <2>2. CASE run[e].base # Unread /\ SaveCheckpoint(s, output, run[e].base)
    <3>1. run[e].base \in [Steps -> Outputs]
      BY <2>2, FieldTypes
    <3> QED BY <2>2, <3>1 DEF SaveCheckpoint, OutcomesHeard, Heard
  <2> QED BY <2>1, <2>2 DEF Save
<1>3. ExternalSteps \subseteq Steps
  BY EngineAssumption
<1>4. ASSUME NEW t \in ExternalSteps, stepData'[t] \in Answers
      PROVE  stepData'[t] = gateway'[t]
  <2>1. CASE t = s
    <3>1. stepData'[t] = output
      BY <1>2, <1>3, <2>1
    <3> QED BY <1>1, <1>4, <2>1, <3>1
  <2>2. CASE t # s
    <3>1. stepData'[t] = read[t]
      BY <1>2, <1>3, <2>2
    <3> QED BY <1>1, <1>2, <1>4, <3>1
  <2> QED BY <2>1, <2>2
<1>5. OutcomeIsTheGateways'
  BY <1>4 DEF OutcomeIsTheGateways, Answers
<1>6. Heard(e)'
  BY <1>1 DEF Deaf, OutcomesHeard, Heard, Step
<1>7. ASSUME NEW f \in Engines \ {e} PROVE Heard(f)'
  <2>1. Heard(f) /\ run'[f] = run[f]
    BY DEF Deaf, OutcomesHeard
  <2> QED BY <1>1, <2>1 DEF Heard, Step
<1> QED BY <1>5, <1>6, <1>7 DEF OutcomesHeard
LEMMA DecidingHeard ==
  ASSUME TypeInv, OutcomesHeard, [Next]_vars, NEW e \in Engines, Deciding(e)
  PROVE  OutcomesHeard'
<1>1. run[e].pc \notin {"mark_terminal", "save_result"} => run[e].out \notin Answers
  BY DEF OutcomesHeard, Heard
<1>2. CASE ReadDecision(e)
  <2>1. ASSUME NEW output \in {"approved", "rejected"}, NEW label,
               Becomes(e, [run[e] EXCEPT !.out = output, !.pc = label])
        PROVE  Deaf(e)
    <3>1. run'[e] = [run[e] EXCEPT !.out = output, !.pc = label] /\ run[e] \in Call
      BY <2>1, MoveFields DEF TypeInv, TypeOK
    <3>2. run'[e].out = output /\ run'[e].base = run[e].base
      BY <3>1 DEF Call
    <3> QED BY <2>1, <3>2, MoveFields DEF Deaf, Answers
  <2>2. Deaf(e)
    BY <1>2, <2>1, DeafMoves DEF ReadDecision
  <2> QED BY <1>2, <2>2, DeafKeeps DEF ReadDecision, StoreRead, storeVars
<1>3. CASE CommitCheck(e) \/ CommitExecute(e) \/ CommitLog(e)
  <2>1. Deaf(e)
    BY <1>3, DeafMoves DEF CommitCheck, CommitExecute, CommitLog, At
  <2>2. stepData' = stepData
    BY <1>3 DEF CommitCheck, CommitExecute, CommitLog, LogSideEffect, StoreRead, storeVars
  <2> QED BY <2>1, <2>2, DeafKeeps
<1>4. CASE SaveDecision(e)
  <2>1. Deaf(e) /\ run[e].out \notin Answers /\ Save(e, Gate(e), run[e].out)
    BY <1>1, <1>4, DeafMoves DEF SaveDecision, At
  <2> QED BY <2>1, SaveHeard
<1>5. CASE MarkDecided(e) \/ MarkContinued(e) \/ Reload(e)
  <2>1. Deaf(e)
    BY <1>5, DeafMoves DEF MarkDecided, MarkContinued, Reload, At
  <2>2. stepData' = stepData
    BY <1>5 DEF MarkDecided, MarkContinued, Reload, UpdateStatus, StoreRead, storeVars
  <2> QED BY <2>1, <2>2, DeafKeeps
<1> QED BY <1>2, <1>3, <1>4, <1>5 DEF Deciding

LEMMA LoopingHeard ==
  ASSUME TypeInv, OutcomesHeard, [Next]_vars, NEW e \in Engines, Looping(e)
  PROVE  OutcomesHeard'
<1>1. /\ run[e] \in Call
      /\ run[e].pc \notin {"mark_terminal", "save_result"} => run[e].out \notin Answers
  BY DEF OutcomesHeard, Heard, TypeInv, TypeOK
<1>2. CASE CheckWait(e) \/ CheckDefinition(e) \/ MarkStale(e) \/ MarkRunning(e) \/ Complete(e)
  <2>1. Deaf(e)
    BY <1>2, DeafMoves DEF CheckWait, CheckDefinition, MarkStale, MarkRunning, Complete, At
  <2>2. stepData' = stepData
    BY <1>2 DEF CheckWait, CheckDefinition, MarkStale, MarkRunning, Complete, UpdateStatus,
                StoreRead, storeVars
  <2> QED BY <2>1, <2>2, DeafKeeps
<1>3. CASE LoadState(e)
  <2>1. ASSUME Becomes(e, [Idle EXCEPT !.pc = "read_decision", !.at = current, !.back = "loop"])
        PROVE  Deaf(e)
    <3>1. run'[e] = [Idle EXCEPT !.pc = "read_decision", !.at = current, !.back = "loop"]
      BY <2>1, MoveFields
    <3>2. run'[e].out = "absent" /\ run'[e].base = Unread
      BY <3>1 DEF Idle
    <3> QED BY <2>1, <3>2, MoveFields DEF Deaf, Answers
  <2>2. ASSUME Becomes(e, [run[e] EXCEPT !.pc = "step", !.at = current,
                                         !.seen = Approval(Step(e))])
        PROVE  Deaf(e)
    <3> DEFINE seen == Approval(Step(e))
    <3>1. run'[e] = [run[e] EXCEPT !.pc = "step", !.at = current, !.seen = seen]
      BY <2>2, MoveFields
    <3> HIDE DEF seen
    <3>2. run'[e].out = run[e].out /\ run'[e].base = run[e].base
      BY <1>1, <3>1 DEF Call
    <3>3. run[e].out \notin Answers
      BY <1>1, <1>3 DEF LoadState, At
    <3> QED BY <2>2, <3>2, <3>3, MoveFields DEF Deaf
  <2>3. Deaf(e)
    BY <1>3, <2>1, <2>2, DeafMoves DEF LoadState
  <2> QED BY <1>3, <2>3, DeafKeeps DEF LoadState, StoreRead, storeVars
<1>4. CASE SelectData(e)
  <2>1. run'[e] = [run[e] EXCEPT !.base = stepData] /\ stepData' = stepData /\ gateway' = gateway
        /\ \A f \in Engines \ {e} : run'[f] = run[f]
    BY <1>4, MoveFields DEF SelectData, StoreRead, storeVars, envVars
  <2>2. /\ run'[e].out = run[e].out /\ run'[e].base = stepData /\ run'[e].pc = run[e].pc
        /\ run'[e].idx = run[e].idx
    BY <1>1, <2>1 DEF Call
  <2>3. OutcomeIsTheGateways'
    BY <2>1 DEF OutcomesHeard, OutcomeIsTheGateways
  <2>4. Heard(e)'
    BY <2>1, <2>2 DEF OutcomesHeard, Heard, OutcomeIsTheGateways, Step, Answers
  <2>5. \A f \in Engines \ {e} : Heard(f)'
    BY <2>1 DEF OutcomesHeard, Heard, Step
  <2> QED BY <2>3, <2>4, <2>5 DEF OutcomesHeard
<1>5. CASE SaveResult(e)
  <2>1. Deaf(e) /\ Save(e, Step(e), run[e].out)
    BY <1>5, DeafMoves DEF SaveResult
  <2>2. run[e].out \in Answers => (Step(e) \in ExternalSteps => gateway[Step(e)] = run[e].out)
    BY DEF OutcomesHeard, Heard
  <2> QED BY <2>1, <2>2, SaveHeard
<1>6. CASE SavePending(e)
  <2>1. Deaf(e) /\ Save(e, Step(e), "pending")
    BY <1>6, DeafMoves DEF SavePending, At
  <2>2. "pending" \notin Answers
    BY DEF Answers
  <2> QED BY <2>1, <2>2, SaveHeard
<1>7. CASE Raised(e) \/ RecordHash(e) \/ MarkPaused(e) \/ SetHash(e) \/ MarkWaiting(e)
  <2>1. Deaf(e)
    BY <1>7, DeafMoves DEF Raised, RecordHash, MarkPaused, SetHash, MarkWaiting, At
  <2>2. stepData' = stepData
    BY <1>7 DEF Raised, RecordHash, MarkPaused, SetHash, MarkWaiting, UpdateStatus,
                SetIntentHash, GateWrite, storeVars
  <2> QED BY <2>1, <2>2, DeafKeeps
<1> QED BY <1>2, <1>3, <1>4, <1>5, <1>6, <1>7 DEF Looping

LEMMA SteppingHeard ==
  ASSUME TypeInv, OutcomesHeard, [Next]_vars, NEW e \in Engines, Stepping(e)
  PROVE  OutcomesHeard'
<1> USE DEF Answers
<1>1. CASE PlainSucceeds(e) \/ PlainRaises(e)
  BY <1>1, DeafMoves, DeafKeeps DEF PlainSucceeds, PlainRaises, StoreRead, storeVars
<1>2. ASSUME NEW i, Requested(e, i) PROVE Deaf(e)
  <2> DEFINE label == IF Step(e) \in RecheckSteps THEN "gate_check" ELSE "save_pending"
  <2>1. run'[e] = [Idle EXCEPT !.idx = Step(e), !.gate = i, !.pc = label]
    BY <1>2, MoveFields DEF Requested
  <2> HIDE DEF label
  <2>2. run'[e].out = "absent" /\ run'[e].base = Unread
    BY <2>1 DEF Idle
  <2> QED BY <1>2, <2>2, MoveFields DEF Deaf, Requested
<1>3. CASE RunGate(e)
  BY <1>2, <1>3, DeafMoves, DeafKeeps DEF RunGate, StoreRead, storeVars
<1>4. CASE GateInsert(e)
  BY <1>2, <1>4, DeafKeeps DEF GateInsert, GateWrite, storeVars
<1>5. CASE GateCheck(e)
  <2>1. queue[Step(e)][run[e].gate].decision \notin Answers
    BY <1>5, FieldTypes, RowIsTyped DEF GateCheck, At, Decisions
  <2>2. Deaf(e)
    BY <1>5, <2>1, DeafMoves DEF GateCheck, At
  <2> QED BY <1>5, <2>2, DeafKeeps DEF GateCheck, StoreRead, storeVars
<1>6. CASE RunSend(e)
  BY <1>6, DeafMoves, DeafKeeps DEF RunSend, StoreRead, storeVars
<1>7. CASE SendLog(e)
  BY <1>7, DeafMoves, DeafKeeps DEF SendLog, LogSideEffect, storeVars
<1> QED BY <1>1, <1>3, <1>4, <1>5, <1>6, <1>7 DEF Stepping

LEMMA ActingHeard ==
  ASSUME TypeInv, OutcomesHeard, [Next]_vars, NEW e \in Engines, Acting(e)
  PROVE  OutcomesHeard'
<1>1. CASE RunExternal(e) \/ RecordIntent(e) \/ PollFails(e)
  <2>1. Deaf(e)
    <3>1. "skipped" \notin Answers
      BY DEF Answers
    <3> QED BY <1>1, <3>1, DeafMoves DEF RunExternal, RecordIntent, PollFails, At
  <2>2. stepData' = stepData
    BY <1>1 DEF RunExternal, RecordIntent, PollFails, StoreRead, storeVars
  <2> QED BY <2>1, <2>2, DeafKeeps
<1>2. CASE InsertRow(e) \/ Submit(e) \/ MarkSubmitted(e)
  <2>1. Deaf(e)
    BY <1>2, DeafMoves DEF InsertRow, Submit, MarkSubmitted, At
  <2>2. stepData' = stepData
    BY <1>2 DEF InsertRow, InsertIntent, Submit, MarkSubmitted, MarkIntent, storeVars
  <2> QED BY <2>1, <2>2, DeafKeeps
<1>3. CASE PollAnswered(e) /\ gateway[Step(e)] \notin Answers
  <2>1. Deaf(e)
    BY <1>3, DeafMoves DEF PollAnswered, At, Answers
  <2> QED BY <1>3, <2>1, DeafKeeps DEF PollAnswered, StoreRead, storeVars
<1>4. CASE PollAnswered(e) /\ gateway[Step(e)] \in Answers
  <2>1. Yield(e, gateway[Step(e)], "mark_terminal") /\ stepData' = stepData /\ gateway' = gateway
    BY <1>4 DEF PollAnswered, Answers, StoreRead, storeVars, envVars
  <2>2. /\ run'[e].out = gateway[Step(e)] /\ run'[e].base = Unread
        /\ run'[e].pc = "mark_terminal" /\ run'[e].idx = Step(e)
        /\ \A f \in Engines \ {e} : run'[f] = run[f]
    <3>1. /\ run'[e].out = gateway[Step(e)] /\ run'[e].base = Unread
          /\ run'[e].pc = "mark_terminal" /\ run'[e].idx = Step(e)
      BY <2>1, MoveFields
    <3>2. \A f \in Engines \ {e} : run'[f] = run[f]
      BY <2>1, MoveFields DEF Yield
    <3> QED BY <3>1, <3>2
  <2>3. OutcomeIsTheGateways' /\ \A f \in Engines \ {e} : Heard(f)'
    BY <2>1, <2>2 DEF OutcomesHeard, OutcomeIsTheGateways, Heard, Step
  <2>4. Heard(e)'
    BY <2>1, <2>2 DEF Heard, Step
  <2> QED BY <2>3, <2>4 DEF OutcomesHeard
<1>5. CASE MarkTerminal(e)
  <2>1. Goto(e, "save_result") /\ stepData' = stepData /\ gateway' = gateway
    BY <1>5 DEF MarkTerminal, MarkIntent, StoreWrite, envVars
  <2>2. /\ run'[e].out = run[e].out /\ run'[e].base = run[e].base
        /\ run'[e].pc = "save_result" /\ run'[e].idx = Step(e)
        /\ \A f \in Engines \ {e} : run'[f] = run[f]
    BY <2>1, MoveFields DEF Goto
  <2>3. OutcomeIsTheGateways' /\ \A f \in Engines \ {e} : Heard(f)'
    BY <2>1, <2>2 DEF OutcomesHeard, OutcomeIsTheGateways, Heard, Step
  <2>4. Heard(e)'
    BY <2>1, <2>2 DEF OutcomesHeard, Heard, Step
  <2> QED BY <2>3, <2>4 DEF OutcomesHeard
<1> QED BY <1>1, <1>2, <1>3, <1>4, <1>5 DEF Acting

LEMMA CallingHeard ==
  ASSUME TypeInv, OutcomesHeard, [Next]_vars, NEW e \in Engines,
         Execute(e) \/ Resume(e) \/ Crash(e) \/ Release(e)
  PROVE  OutcomesHeard'
<1>1. CASE Execute(e) \/ Crash(e)
  <2>1. Deaf(e)
    BY <1>1, DeafMoves DEF Execute, Crash
  <2> QED BY <1>1, <2>1, DeafKeeps DEF Execute, Crash, StoreRead, storeVars
<1>2. CASE Resume(e)
  <2>1. ASSUME NEW label, Becomes(e, [Idle EXCEPT !.pc = label, !.at = current])
        PROVE  Deaf(e)
    <3>1. run'[e] = [Idle EXCEPT !.pc = label, !.at = current]
      BY <2>1, MoveFields
    <3>2. run'[e].out = "absent" /\ run'[e].base = Unread
      BY <3>1 DEF Idle
    <3> QED BY <2>1, <3>2, MoveFields DEF Deaf, Answers
  <2>2. Deaf(e)
    BY <1>2, <2>1, DeafMoves DEF Resume
  <2> QED BY <1>2, <2>2, DeafKeeps DEF Resume, StoreRead, storeVars
<1>3. CASE Release(e)
  BY <1>3 DEF Release, storeVars, envVars, OutcomesHeard, OutcomeIsTheGateways, Heard, Step
<1> QED BY <1>1, <1>2, <1>3

LEMMA NextHeard == TypeInv /\ OutcomesHeard /\ [Next]_vars => OutcomesHeard'
<1> SUFFICES ASSUME TypeInv, OutcomesHeard, [Next]_vars PROVE OutcomesHeard'
  OBVIOUS
<1>1. ASSUME NEW e \in Engines, Execute(e) \/ Resume(e) \/ Work(e) \/ Crash(e) \/ Release(e)
      PROVE  OutcomesHeard'
  BY <1>1, CallingHeard, DecidingHeard, LoopingHeard, SteppingHeard, ActingHeard DEF Work
<1>2. CASE Decide \/ DetectSelect \/ DetectUpdate \/ GatewayDecides \/ UNCHANGED vars
  <2>1. stepData' = stepData /\ run' = run
    BY <1>2 DEF Decide, DetectSelect, DetectUpdate, UpdateStatus, GatewayDecides, vars, storeVars
  <2>2. \A s \in ExternalSteps : gateway[s] \in Answers => gateway'[s] = gateway[s]
    BY AnswersLast
  <2> QED BY <2>1, <2>2 DEF OutcomesHeard, OutcomeIsTheGateways, Heard, Step, Answers
<1> QED BY <1>1, <1>2 DEF Next

LEMMA InitHeard == Init => OutcomesHeard
<1> SUFFICES ASSUME Init PROVE OutcomesHeard
  OBVIOUS
<1>1. \A e \in Engines : run[e].out = "absent" /\ run[e].base = Unread
  BY DEF Init, Idle
<1>2. OutcomeIsTheGateways
  <2>1. ExternalSteps \subseteq Steps
    BY EngineAssumption
  <2> QED BY <2>1 DEF Init, CreateWorkflow, OutcomeIsTheGateways
<1> QED BY <1>1, <1>2 DEF OutcomesHeard, Heard, Answers

\* An external step's recorded outcome is the one the gateway reached, whatever engines poll
\* it at once, crash or overwrite each other's rows: an answer is never revised, and every
\* record an engine holds or writes back carries it (GatewayClient.run_action, save_checkpoint).
THEOREM OutcomesAreTheGateways == Spec => []OutcomeIsTheGateways
<1>1. OutcomesHeard => OutcomeIsTheGateways
  BY DEF OutcomesHeard
<1> QED BY <1>1, InitTypes, NextTypes, InitHeard, NextHeard, PTL DEF Spec
-----------------------------------------------------------------------------
(* Where a move ends.                                                      *)

Elsewhere(e) ==
  /\ run'[e].pc \notin {"gate_insert", "commit_execute", "commit_log"}
  /\ \A f \in Engines \ {e} : run'[f] = run[f]

LEMMA ElsewhereMoves ==
  ASSUME TypeInv, NEW e \in Engines
  PROVE  /\ Return(e) => Elsewhere(e)
         /\ \A label : label \notin {"gate_insert", "commit_execute", "commit_log"} =>
              /\ Goto(e, label) => Elsewhere(e)
              /\ SavedTo(e, label) => Elsewhere(e)
              /\ StepTo(e, label) => Elsewhere(e)
              /\ \A index : Enter(e, label, index) => Elsewhere(e)
              /\ \A output : Yield(e, output, label) => Elsewhere(e)
         /\ \A next : Back(e, next) => Elsewhere(e)
<1>1. \A call : Becomes(e, call) => \A f \in Engines \ {e} : run'[f] = run[f]
  BY MoveFields
<1>2. /\ \A label : Goto(e, label) \/ SavedTo(e, label) => \E call : Becomes(e, call)
      /\ \A label, output : Yield(e, output, label) => \E call : Becomes(e, call)
      /\ \A label, index : Enter(e, label, index) => \E call : Becomes(e, call)
      /\ \A next : Back(e, next) => \E call : Becomes(e, call)
      /\ Return(e) => \E call : Becomes(e, call)
  BY DEF Goto, SavedTo, Yield, Enter, Back, Return
<1>3. Return(e) => Elsewhere(e)
  BY <1>1, <1>2, MoveFields DEF Elsewhere
<1>4. ASSUME NEW label, label \notin {"gate_insert", "commit_execute", "commit_log"}
      PROVE  /\ Goto(e, label) => Elsewhere(e)
             /\ SavedTo(e, label) => Elsewhere(e)
             /\ \A index : Enter(e, label, index) => Elsewhere(e)
             /\ \A output : Yield(e, output, label) => Elsewhere(e)
  BY <1>1, <1>2, <1>4, MoveFields DEF Elsewhere
<1>5. \A next : Back(e, next) => Elsewhere(e)
  BY <1>1, <1>2, MoveFields DEF Elsewhere
<1>6. \A label : label \notin {"gate_insert", "commit_execute", "commit_log"} =>
        (StepTo(e, label) => Elsewhere(e))
  BY <1>4, Zenon DEF StepTo
<1> QED BY <1>3, <1>4, <1>5, <1>6

\* Only these three go to a gate's insert or to a write.
LEMMA DecidingLands ==
  ASSUME TypeInv, NEW e \in Engines, Deciding(e)
  PROVE  Elsewhere(e) \/ CommitCheck(e) \/ CommitExecute(e)
<1>1. CASE ReadDecision(e)
  <2>1. ASSUME NEW output, NEW label \in {"commit_check", "save_decision"},
               Becomes(e, [run[e] EXCEPT !.out = output, !.pc = label])
        PROVE  Elsewhere(e)
    <3>1. run'[e] = [run[e] EXCEPT !.out = output, !.pc = label] /\ run[e] \in Call
      BY <2>1, MoveFields DEF TypeInv, TypeOK
    <3>2. run'[e].pc = label
      BY <3>1 DEF Call
    <3> QED BY <2>1, <3>2, MoveFields DEF Elsewhere
  <2> QED BY <1>1, <2>1, ElsewhereMoves DEF ReadDecision
<1>2. CASE CommitLog(e) \/ SaveDecision(e) \/ MarkDecided(e) \/ MarkContinued(e) \/ Reload(e)
  BY <1>2, ElsewhereMoves DEF CommitLog, SaveDecision, MarkDecided, MarkContinued, Reload
<1> QED BY <1>1, <1>2 DEF Deciding

LEMMA LoopingLands ==
  ASSUME TypeInv, NEW e \in Engines, Looping(e)
  PROVE  Elsewhere(e)
<1>0. run[e] \in Call
  BY DEF TypeInv, TypeOK
<1>1. CASE \/ CheckWait(e) \/ CheckDefinition(e) \/ MarkStale(e) \/ MarkRunning(e)
           \/ Complete(e) \/ SaveResult(e) \/ Raised(e)
  BY <1>1, ElsewhereMoves DEF CheckWait, CheckDefinition, MarkStale, MarkRunning, Complete,
     SaveResult, Raised
<1>2. CASE SavePending(e) \/ RecordHash(e) \/ MarkPaused(e) \/ SetHash(e) \/ MarkWaiting(e)
  BY <1>2, ElsewhereMoves DEF SavePending, RecordHash, MarkPaused, SetHash, MarkWaiting
<1>3. CASE LoadState(e)
  <2>1. ASSUME Becomes(e, [Idle EXCEPT !.pc = "read_decision", !.at = current, !.back = "loop"])
        PROVE  Elsewhere(e)
    <3>1. run'[e] = [Idle EXCEPT !.pc = "read_decision", !.at = current, !.back = "loop"]
      BY <2>1, MoveFields
    <3>2. run'[e].pc = "read_decision"
      BY <3>1 DEF Idle
    <3> QED BY <2>1, <3>2, MoveFields DEF Elsewhere
  <2>2. ASSUME Becomes(e, [run[e] EXCEPT !.pc = "step", !.at = current,
                                         !.seen = Approval(Step(e))])
        PROVE  Elsewhere(e)
    <3> DEFINE seen == Approval(Step(e))
    <3>1. run'[e] = [run[e] EXCEPT !.pc = "step", !.at = current, !.seen = seen]
      BY <2>2, MoveFields
    <3> HIDE DEF seen
    <3>2. run'[e].pc = "step"
      BY <1>0, <3>1 DEF Call
    <3> QED BY <2>2, <3>2, MoveFields DEF Elsewhere
  <2> QED BY <1>3, <2>1, <2>2, ElsewhereMoves DEF LoadState
<1>4. CASE SelectData(e)
  <2>1. run'[e] = [run[e] EXCEPT !.base = stepData] /\ run[e].pc \in Saving
        /\ \A f \in Engines \ {e} : run'[f] = run[f]
    BY <1>4, MoveFields DEF SelectData
  <2>2. run'[e].pc = run[e].pc
    BY <1>0, <2>1 DEF Call
  <2> QED BY <2>1, <2>2 DEF Elsewhere, Saving
<1> QED BY <1>1, <1>2, <1>3, <1>4 DEF Looping

Asks(e) == RunGate(e) /\ ~HasGate(Step(e)) /\ StepTo(e, "gate_insert")

LEMMA SteppingLands ==
  ASSUME TypeInv, NEW e \in Engines, Stepping(e)
  PROVE  Elsewhere(e) \/ Asks(e)
<1>1. ASSUME NEW i, Requested(e, i) PROVE Elsewhere(e)
  <2> DEFINE label == IF Step(e) \in RecheckSteps THEN "gate_check" ELSE "save_pending"
  <2>1. run'[e] = [Idle EXCEPT !.idx = Step(e), !.gate = i, !.pc = label]
    BY <1>1, MoveFields DEF Requested
  <2>2. label \in {"gate_check", "save_pending"}
    OBVIOUS
  <2> HIDE DEF label
  <2>3. run'[e].pc = label
    BY <2>1 DEF Idle
  <2> QED BY <1>1, <2>2, <2>3, MoveFields DEF Elsewhere, Requested
<1>2. CASE GateInsert(e)
  BY <1>1, <1>2 DEF GateInsert
<1>3. CASE PlainSucceeds(e) \/ PlainRaises(e) \/ GateCheck(e) \/ RunSend(e) \/ SendLog(e)
  BY <1>3, ElsewhereMoves DEF PlainSucceeds, PlainRaises, GateCheck, RunSend, SendLog
<1>4. CASE RunGate(e)
  BY <1>1, <1>4, ElsewhereMoves DEF RunGate, Asks
<1> QED BY <1>2, <1>3, <1>4 DEF Stepping

LEMMA ActingLands ==
  ASSUME TypeInv, NEW e \in Engines, Acting(e)
  PROVE  Elsewhere(e)
BY ElsewhereMoves DEF Acting, RunExternal, RecordIntent, InsertRow, Submit, MarkSubmitted,
   PollAnswered, PollFails, MarkTerminal

LEMMA CallingLands ==
  ASSUME TypeInv, NEW e \in Engines, Execute(e) \/ Resume(e) \/ Crash(e)
  PROVE  Elsewhere(e)
<1>1. CASE Execute(e) \/ Crash(e)
  BY <1>1, ElsewhereMoves DEF Execute, Crash
<1>2. CASE Resume(e)
  <2>1. ASSUME NEW label \in {"check_wait", "check_definition", "read_decision"},
               Becomes(e, [Idle EXCEPT !.pc = label, !.at = current])
        PROVE  Elsewhere(e)
    <3>1. run'[e] = [Idle EXCEPT !.pc = label, !.at = current]
      BY <2>1, MoveFields
    <3>2. run'[e].pc = label
      BY <3>1 DEF Idle
    <3> QED BY <2>1, <3>2, MoveFields DEF Elsewhere
  <2> QED BY <1>2, <2>1, ElsewhereMoves DEF Resume
<1> QED BY <1>1, <1>2
-----------------------------------------------------------------------------
(* The gates of a step.                                                    *)

Inserting(g) == {e \in Engines : At(e, "gate_insert") /\ Step(e) = g}

\* An engine about to insert a gate has its place in the bound.
GatesPaid ==
  \A g \in GateSteps : Len(queue[g]) + Cardinality(Inserting(g)) <= Cardinality(Engines)

LEMMA Counted ==
  ASSUME IsFiniteSet(Engines), NEW S \in SUBSET Engines
  PROVE  /\ IsFiniteSet(S) /\ Cardinality(S) \in Nat /\ Cardinality(Engines) \in Nat
         /\ Cardinality(S) <= Cardinality(Engines)
         /\ \A T \in SUBSET S : Cardinality(T) \in Nat /\ Cardinality(T) <= Cardinality(S)
         /\ \A e \in S : \A T \in SUBSET (S \ {e}) :
              Cardinality(T) \in Nat /\ Cardinality(T) + 1 <= Cardinality(S)
<1>1. \A A : IsFiniteSet(A) => Cardinality(A) \in Nat
  BY FS_CardinalityType
<1>2. \A A : \A B \in SUBSET A : IsFiniteSet(A) =>
        IsFiniteSet(B) /\ Cardinality(B) <= Cardinality(A)
  BY FS_Subset
<1>3. IsFiniteSet(S) /\ Cardinality(S) <= Cardinality(Engines)
  BY <1>2
<1>4. ASSUME NEW e \in S, NEW T \in SUBSET (S \ {e})
      PROVE  Cardinality(T) \in Nat /\ Cardinality(T) + 1 <= Cardinality(S)
  <2>1. IsFiniteSet(S \ {e}) /\ Cardinality(S \ {e}) = Cardinality(S) - 1
    BY <1>3, FS_RemoveElement
  <2>2. IsFiniteSet(T) /\ Cardinality(T) <= Cardinality(S \ {e})
    BY <1>2, <2>1
  <2> QED BY <1>1, <1>3, <2>1, <2>2
<1> QED BY <1>1, <1>2, <1>3, <1>4

\* An insert is all that makes a queue longer.
LEMMA LengthsKept ==
  ASSUME TypeInv, [Next]_vars, NEW g \in GateSteps,
         \A e \in Engines : ~GateInsert(e)
  PROVE  Len(queue'[g]) = Len(queue[g])
<1>1. queue \in [GateSteps -> Seq(GateRow)]
  BY DEF TypeInv, TypeOK, GateTypeOK
<1>2. ASSUME NEW h, NEW i, NEW row,
             h \in GateSteps /\ i \in 1 .. Len(queue[h]) => row \in GateRow,
             queue' = [queue EXCEPT ![h] = [queue[h] EXCEPT ![i] = row]]
      PROVE  Len(queue'[g]) = Len(queue[g])
  <2>1. CASE h = g
    <3>1. queue'[g] = [queue[g] EXCEPT ![i] = row] /\ queue[g] \in Seq(GateRow)
      BY <1>1, <1>2, <2>1
    <3>2. i \in 1 .. Len(queue[g]) => row \in GateRow
      BY <1>2, <2>1
    <3> QED BY <3>1, <3>2, RowChanged
  <2>2. CASE h # g
    BY <1>1, <1>2, <2>2
  <2> QED BY <2>1, <2>2
<1>3. ASSUME NEW e \in Engines, RecordHash(e) PROVE Len(queue'[g]) = Len(queue[g])
  <2> DEFINE row == [queue[Step(e)][run[e].gate] EXCEPT !.hash = version[e]]
  <2>1. Step(e) \in GateSteps /\ run[e].gate \in 1 .. Len(queue[Step(e)]) => row \in GateRow
    <3>1. version[e] \in Versions
      BY DEF TypeInv, TypeOK
    <3> QED BY <3>1, RowIsTyped DEF GateRow
  <2>2. queue' = [queue EXCEPT ![Step(e)] = [queue[Step(e)] EXCEPT ![run[e].gate] = row]]
    BY <1>3 DEF RecordHash, RecordGateHash
  <2> HIDE DEF row
  <2> QED BY <1>2, <2>1, <2>2
<1>4. CASE Decide
  <2>0. PICK h \in GateSteps : \E i \in 1 .. Len(queue[h]) : Approve(h, i) \/ Reject(h, i)
    BY <1>4 DEF Decide
  <2>1. PICK i \in 1 .. Len(queue[h]) : Approve(h, i) \/ Reject(h, i)
    BY <2>0
  <2>2. PICK decision \in {"approved", "rejected"} :
          queue' = [queue EXCEPT ![h] =
                      [queue[h] EXCEPT ![i] = [queue[h][i] EXCEPT !.decision = decision]]]
    BY <2>1 DEF Approve, Reject
  <2> DEFINE row == [queue[h][i] EXCEPT !.decision = decision]
  <2>3. row \in GateRow
    BY RowIsTyped DEF GateRow, Decisions
  <2>4. queue' = [queue EXCEPT ![h] = [queue[h] EXCEPT ![i] = row]]
    BY <2>2
  <2> HIDE DEF row
  <2> QED BY <1>2, <2>3, <2>4
<1>5. ASSUME NEW e \in Engines, Deciding(e) PROVE queue' = queue
  BY <1>5 DEF Deciding, ReadDecision, CommitCheck, CommitExecute, CommitLog, SaveDecision,
              MarkDecided, MarkContinued, Reload, StoreRead, StoreWrite, gateVars
<1>6. ASSUME NEW e \in Engines, Looping(e), ~RecordHash(e) PROVE queue' = queue
  BY <1>6 DEF Looping, CheckWait, CheckDefinition, MarkStale, MarkRunning, LoadState,
              Complete, SelectData, SaveResult, Raised, SavePending, MarkPaused,
              SetHash, MarkWaiting, StoreRead, StoreWrite, gateVars
<1>7. ASSUME NEW e \in Engines, Stepping(e) PROVE queue' = queue
  BY <1>7 DEF Stepping, PlainSucceeds, PlainRaises, RunGate, GateCheck, RunSend,
              SendLog, StoreRead, StoreWrite, gateVars
<1>8. ASSUME NEW e \in Engines, Acting(e) PROVE queue' = queue
  BY <1>8 DEF Acting, RunExternal, RecordIntent, InsertRow, Submit, MarkSubmitted,
              PollAnswered, PollFails, MarkTerminal, StoreRead, StoreWrite, gateVars
<1>9. ASSUME NEW e \in Engines, Execute(e) \/ Resume(e) \/ Crash(e) \/ Release(e)
      PROVE  queue' = queue
  BY <1>9 DEF Execute, Resume, Crash, Release, StoreRead, gateVars
<1>10. CASE DetectSelect \/ DetectUpdate \/ GatewayDecides \/ UNCHANGED vars
  <2>1. queue' = queue
    BY <1>10 DEF DetectSelect, DetectUpdate, GatewayDecides, vars, gateVars
  <2> QED BY <2>1
<1> QED BY <1>3, <1>4, <1>5, <1>6, <1>7, <1>8, <1>9, <1>10 DEF Next, Work

LEMMA NextPaid ==
  ASSUME TypeInv, IsFiniteSet(Engines), GatesPaid, [Next]_vars
  PROVE  GatesPaid'
<1> SUFFICES ASSUME NEW g \in GateSteps
             PROVE  Len(queue'[g]) + Cardinality(Inserting(g)') <= Cardinality(Engines)
  BY DEF GatesPaid
<1>1. /\ Inserting(g) \in SUBSET Engines /\ Inserting(g)' \in SUBSET Engines
      /\ Len(queue[g]) \in Nat
  BY LenProperties DEF Inserting, TypeInv, TypeOK, GateTypeOK
<1>2. Len(queue[g]) + Cardinality(Inserting(g)) <= Cardinality(Engines)
  BY DEF GatesPaid
<1>3. ASSUME Len(queue'[g]) = Len(queue[g]), Inserting(g)' \subseteq Inserting(g)
      PROVE  Len(queue'[g]) + Cardinality(Inserting(g)') <= Cardinality(Engines)
  <2>1. /\ Cardinality(Inserting(g)') <= Cardinality(Inserting(g))
        /\ Cardinality(Inserting(g)') \in Nat /\ Cardinality(Inserting(g)) \in Nat
        /\ Cardinality(Engines) \in Nat
    BY <1>1, <1>3, Counted
  <2> QED BY <1>1, <1>2, <1>3, <2>1
<1>4. ASSUME NEW e \in Engines, Elsewhere(e) PROVE Inserting(g)' \subseteq Inserting(g) \ {e}
  BY <1>4 DEF Elsewhere, Inserting, At, Step
<1>5. ASSUME NEW e \in Engines, GateInsert(e)
      PROVE  Len(queue'[g]) + Cardinality(Inserting(g)') <= Cardinality(Engines)
  <2>1. Elsewhere(e)
    BY <1>5, SteppingLands DEF Stepping, GateInsert, Asks, RunGate, At
  <2>2. CASE Step(e) = g
    <3>1. Len(queue'[g]) = Len(queue[g]) + 1
      BY <1>5, <2>2, AppendProperties DEF GateInsert, InsertGate, TypeInv, TypeOK, GateTypeOK,
         GateRow, Decisions
    <3>2. e \in Inserting(g)
      BY <1>5, <2>2 DEF Inserting, GateInsert
    <3>3. /\ Cardinality(Inserting(g)') + 1 <= Cardinality(Inserting(g))
          /\ Cardinality(Inserting(g)') \in Nat /\ Cardinality(Inserting(g)) \in Nat
          /\ Cardinality(Engines) \in Nat
      BY <1>1, <1>4, <2>1, <3>2, Counted
    <3> QED BY <1>1, <1>2, <3>1, <3>3
  <2>3. CASE Step(e) # g
    <3>1. queue'[g] = queue[g]
      BY <1>5, <2>3 DEF GateInsert, InsertGate, TypeInv, TypeOK, GateTypeOK
    <3> QED BY <1>3, <1>4, <2>1, <3>1
  <2> QED BY <2>2, <2>3
<1>6. ASSUME \A e \in Engines : ~GateInsert(e)
      PROVE  Len(queue'[g]) + Cardinality(Inserting(g)') <= Cardinality(Engines)
  <2>1. Len(queue'[g]) = Len(queue[g])
    BY <1>6, LengthsKept
  <2>2. ASSUME NEW e \in Engines, Asks(e)
        PROVE  Len(queue'[g]) + Cardinality(Inserting(g)') <= Cardinality(Engines)
    <3>1. /\ run'[e].idx = Step(e)
          /\ \A f \in Engines \ {e} : run'[f] = run[f]
      BY <2>2, MoveFields DEF Asks, StepTo, Enter
    <3>2. CASE Step(e) = g
      <4>1. Len(queue[g]) = 0
        BY <2>2, <3>2 DEF Asks, HasGate
      <4>2. /\ Cardinality(Inserting(g)') \in Nat /\ Cardinality(Engines) \in Nat
            /\ Cardinality(Inserting(g)') <= Cardinality(Engines)
        BY <1>1, Counted
      <4> QED BY <2>1, <4>1, <4>2
    <3>3. CASE Step(e) # g
      <4>1. Inserting(g)' \subseteq Inserting(g)
        BY <3>1, <3>3 DEF Inserting, At, Step
      <4> QED BY <1>3, <2>1, <4>1
    <3> QED BY <3>2, <3>3
  <2>3. ASSUME NEW e \in Engines, CommitCheck(e) \/ CommitExecute(e)
        PROVE  Inserting(g)' \subseteq Inserting(g)
    <3>1. run'[e].pc # "gate_insert" /\ \A f \in Engines \ {e} : run'[f] = run[f]
      BY <2>3, MoveFields DEF CommitCheck, CommitExecute, Goto, Return
    <3> QED BY <3>1 DEF Inserting, At, Step
  <2>4. ASSUME NEW e \in Engines, Elsewhere(e)
        PROVE  Len(queue'[g]) + Cardinality(Inserting(g)') <= Cardinality(Engines)
    BY <1>3, <1>4, <2>1, <2>4
  <2>5. ASSUME run' = run
        PROVE  Len(queue'[g]) + Cardinality(Inserting(g)') <= Cardinality(Engines)
    BY <1>3, <2>1, <2>5 DEF Inserting, At, Step
  <2>6. ASSUME NEW e \in Engines, Execute(e) \/ Resume(e) \/ Work(e) \/ Crash(e) \/ Release(e)
        PROVE  Len(queue'[g]) + Cardinality(Inserting(g)') <= Cardinality(Engines)
    <3>1. CASE Release(e)
      BY <2>5, <3>1 DEF Release
    <3>2. CASE Deciding(e)
      BY <1>3, <2>1, <2>3, <2>4, <3>2, DecidingLands
    <3>3. CASE ~Release(e) /\ ~Deciding(e)
      BY <2>2, <2>4, <2>6, <3>3, LoopingLands, SteppingLands, ActingLands, CallingLands DEF Work
    <3> QED BY <3>1, <3>2, <3>3
  <2>7. CASE Decide \/ DetectSelect \/ DetectUpdate \/ GatewayDecides \/ UNCHANGED vars
    BY <2>5, <2>7 DEF Decide, DetectSelect, DetectUpdate, GatewayDecides, vars
  <2> QED BY <2>6, <2>7 DEF Next
<1> QED BY <1>5, <1>6

\* Engines that find no gate at the same moment each insert one, and no more are ever
\* inserted for the step: an engine inserts only after its own lookup found none, and a gate
\* is never deleted (approval.py request_approval, whose SELECT and INSERT are two
\* transactions).
THEOREM GatesAreBounded ==
  ASSUME IsFiniteSet(Engines)
  PROVE  Spec => []OneGatePerEngine
<1>1. Init => GatesPaid
  <2> SUFFICES ASSUME Init, NEW g \in GateSteps
               PROVE  Len(queue[g]) + Cardinality(Inserting(g)) <= Cardinality(Engines)
    BY DEF GatesPaid
  <2>1. Len(queue[g]) = 0 /\ Inserting(g) = {}
    BY DEF Init, EmptyQueue, Inserting, At, Idle
  <2>2. Cardinality(Engines) \in Nat /\ Cardinality({}) = 0
    BY FS_CardinalityType, FS_EmptySet
  <2> QED BY <2>1, <2>2
<1>2. TypeInv /\ GatesPaid => OneGatePerEngine
  <2> SUFFICES ASSUME TypeInv, GatesPaid, NEW g \in GateSteps
               PROVE  Len(queue[g]) <= Cardinality(Engines)
    BY DEF OneGatePerEngine
  <2>1. Len(queue[g]) \in Nat /\ Inserting(g) \in SUBSET Engines
    BY LenProperties DEF Inserting, TypeInv, TypeOK, GateTypeOK
  <2>2. Cardinality(Inserting(g)) \in Nat /\ Cardinality(Engines) \in Nat
    BY <2>1, Counted
  <2> QED BY <2>1, <2>2 DEF GatesPaid
<1>3. TypeInv /\ GatesPaid /\ [Next]_vars => GatesPaid'
  BY NextPaid
<1> QED BY <1>1, <1>2, <1>3, InitTypes, NextTypes, PTL DEF Spec
-----------------------------------------------------------------------------
(* The writes of a commit step, with one engine.                           *)

Written(k) ==
  k \in effectLog \/ \E e \in Engines : At(e, "commit_log") /\ KeyOf[Gate(e)] = k

\* A write in the log, or about to be logged, is the one that needs no crash; what the
\* engine is about to execute or to log is not in the log.
WritesPaid ==
  /\ \A k \in Keys : writes[k] <= crashes + (IF Written(k) THEN 1 ELSE 0)
  /\ \A e \in Engines : run[e].pc \in {"commit_execute", "commit_log"} =>
       KeyOf[Gate(e)] \notin effectLog

Unwritten(e) ==
  /\ ~At(e, "commit_log") /\ run'[e].pc \notin {"commit_execute", "commit_log"}
  /\ writes' = writes /\ crashes' = crashes /\ effectLog \subseteq effectLog'

LEMMA DecidingWrites ==
  ASSUME TypeInv, NEW e \in Engines, Deciding(e)
  PROVE  Unwritten(e) \/ CommitCheck(e) \/ CommitExecute(e) \/ CommitLog(e)
<1>1. Elsewhere(e) \/ CommitCheck(e) \/ CommitExecute(e)
  BY DecidingLands
<1>2. CASE ReadDecision(e) \/ SaveDecision(e) \/ MarkDecided(e) \/ MarkContinued(e) \/ Reload(e)
  <2>1. CASE CommitCheck(e) \/ CommitExecute(e)
    BY <2>1
  <2>2. CASE Elsewhere(e)
    BY <1>2, <2>2 DEF Unwritten, Elsewhere, ReadDecision, SaveDecision, Save, SaveCheckpoint,
       MarkDecided, MarkContinued, Reload, UpdateStatus, StoreRead, StoreWrite, storeVars, envVars, At
  <2> QED BY <1>1, <2>1, <2>2
<1> QED BY <1>2 DEF Deciding

LEMMA LoopingWrites ==
  ASSUME TypeInv, NEW e \in Engines, Looping(e)
  PROVE  Unwritten(e)
<1>1. Elsewhere(e)
  BY LoopingLands
<1>2. CASE \/ CheckWait(e) \/ CheckDefinition(e) \/ MarkStale(e) \/ MarkRunning(e)
           \/ LoadState(e) \/ Complete(e) \/ SelectData(e) \/ SaveResult(e)
  BY <1>1, <1>2 DEF Unwritten, Elsewhere, CheckWait, CheckDefinition, MarkStale, MarkRunning,
     LoadState, Complete, SelectData, Saving, SaveResult, Save, SaveCheckpoint, UpdateStatus, StoreRead,
     StoreWrite, storeVars, envVars, At
<1>3. CASE \/ Raised(e) \/ SavePending(e) \/ RecordHash(e) \/ MarkPaused(e) \/ SetHash(e)
           \/ MarkWaiting(e)
  BY <1>1, <1>3 DEF Unwritten, Elsewhere, Raised, SavePending, RecordHash, MarkPaused, SetHash,
     MarkWaiting, Save, SaveCheckpoint, SetIntentHash, UpdateStatus, StoreWrite, GateWrite,
     storeVars, envVars, At
<1> QED BY <1>2, <1>3 DEF Looping

LEMMA SteppingWrites ==
  ASSUME TypeInv, NEW e \in Engines, Stepping(e)
  PROVE  Unwritten(e)
<1>1. run'[e].pc \notin {"commit_execute", "commit_log"}
  BY SteppingLands, MoveFields DEF Asks, Elsewhere
<1> QED BY <1>1 DEF Unwritten, Stepping, PlainSucceeds, PlainRaises, RunGate, GateInsert,
   GateCheck, RunSend, SendLog, LogSideEffect, StoreRead, StoreWrite, GateWrite, storeVars,
   envVars, At

LEMMA ActingWrites ==
  ASSUME TypeInv, NEW e \in Engines, Acting(e)
  PROVE  Unwritten(e)
<1>1. run'[e].pc \notin {"commit_execute", "commit_log"}
  BY ActingLands DEF Elsewhere
<1> QED BY <1>1 DEF Unwritten, Acting, RunExternal, RecordIntent, InsertRow, InsertIntent, Submit,
   MarkSubmitted, PollAnswered, PollFails, MarkTerminal, MarkIntent, StoreRead, StoreWrite,
   storeVars, envVars, At

LEMMA CallingWrites ==
  ASSUME TypeInv, NEW e \in Engines, Execute(e) \/ Resume(e)
  PROVE  Unwritten(e)
<1>1. run'[e].pc \notin {"commit_execute", "commit_log"}
  BY CallingLands DEF Elsewhere
<1> QED BY <1>1 DEF Unwritten, Execute, Resume, StoreRead, storeVars, envVars, At

LEMMA NextWrites ==
  ASSUME TypeInv, WritesPaid, [Next]_vars, NEW e, Engines = {e}
  PROVE  WritesPaid'
<1> DEFINE key == KeyOf[Gate(e)]
<1>1. /\ writes \in [Keys -> Nat] /\ crashes \in Nat
      /\ \A k \in Keys : writes[k] <= crashes + 1
      /\ \A k \in Keys : ~Written(k) => writes[k] <= crashes
  BY DEF TypeInv, TypeOK, WritesPaid
<1>2. \A k : Written(k) <=> k \in effectLog \/ (At(e, "commit_log") /\ key = k)
  BY DEF Written
<1>3. \A k : Written(k)' <=>
        k \in effectLog' \/ (run'[e].pc = "commit_log" /\ KeyOf[run'[e].at] = k)
  BY DEF Written, At, Gate
<1>4. run[e].pc \in {"commit_execute", "commit_log"} => key \notin effectLog
  BY DEF WritesPaid
<1>5. ASSUME run'[e].pc \in {"commit_execute", "commit_log"} => KeyOf[run'[e].at] \notin effectLog',
             \A k \in Keys : writes'[k] <= crashes' + (IF Written(k)' THEN 1 ELSE 0)
      PROVE  WritesPaid'
  BY <1>5 DEF WritesPaid, Gate
<1> HIDE DEF key
<1>6. CASE Unwritten(e)
  <2>1. /\ writes' = writes /\ crashes' = crashes
        /\ \A k \in Keys : Written(k) => Written(k)'
    BY <1>2, <1>3, <1>6 DEF Unwritten
  <2>2. \A k \in Keys : writes'[k] <= crashes' + (IF Written(k)' THEN 1 ELSE 0)
    BY <1>1, <2>1
  <2> QED BY <1>5, <1>6, <2>2 DEF Unwritten
<1>7. CASE CommitCheck(e)
  <2>1. /\ writes' = writes /\ crashes' = crashes /\ effectLog' = effectLog
        /\ run[e].pc = "commit_check"
    BY <1>7 DEF CommitCheck, StoreRead, storeVars, envVars, At
  <2>2. \/ run'[e].pc = "save_decision"
        \/ run'[e].pc = "commit_execute" /\ run'[e].at = Gate(e) /\ key \notin effectLog
    BY <1>7, MoveFields DEF CommitCheck, key
  <2>3. \A k \in Keys : Written(k) => Written(k)'
    BY <1>2, <1>3, <2>1 DEF At
  <2>4. \A k \in Keys : writes'[k] <= crashes' + (IF Written(k)' THEN 1 ELSE 0)
    BY <1>1, <2>1, <2>3
  <2> QED BY <1>5, <2>1, <2>2, <2>4 DEF key
<1>8. CASE CommitExecute(e)
  <2>1. crashes' = crashes /\ effectLog' = effectLog /\ run[e].pc = "commit_execute"
    BY <1>8 DEF CommitExecute, storeVars, At
  <2>2. key \notin effectLog /\ \A k \in Keys : Written(k) => Written(k)'
    BY <1>2, <1>3, <1>4, <2>1 DEF At
  <2>3. CASE writes' = [writes EXCEPT ![key] = @ + 1] /\ Goto(e, "commit_log")
    <3>1. run'[e].pc = "commit_log" /\ run'[e].at = Gate(e)
      BY <2>3, MoveFields
    <3>2. \A k : k = key => ~Written(k) /\ Written(k)'
      BY <1>2, <1>3, <2>1, <2>2, <3>1 DEF At, key
    <3>3. \A k \in Keys : writes'[k] <= crashes' + (IF Written(k)' THEN 1 ELSE 0)
      <4>1. \A k \in Keys \ {key} : writes'[k] = writes[k]
        BY <1>1, <2>3
      <4>2. key \in Keys => writes'[key] = writes[key] + 1
        BY <1>1, <2>3
      <4>3. ASSUME NEW k \in Keys PROVE writes'[k] <= crashes' + (IF Written(k)' THEN 1 ELSE 0)
        <5>1. CASE k = key
          <6>1. writes'[k] = writes[k] + 1 /\ writes[k] <= crashes /\ writes[k] \in Nat
            BY <1>1, <3>2, <4>2, <5>1
          <6> QED BY <1>1, <2>1, <3>2, <5>1, <6>1
        <5>2. CASE k # key
          BY <1>1, <2>1, <2>2, <4>1, <5>2
        <5> QED BY <5>1, <5>2
      <4> QED BY <4>3
    <3> QED BY <1>5, <2>1, <2>2, <3>1, <3>3 DEF key
  <2>4. CASE writes' = writes /\ Return(e)
    <3>1. run'[e].pc = "idle"
      BY <2>4, MoveFields
    <3>2. \A k \in Keys : writes'[k] <= crashes' + (IF Written(k)' THEN 1 ELSE 0)
      BY <1>1, <2>1, <2>2, <2>4
    <3> QED BY <1>5, <3>1, <3>2
  <2> QED BY <1>8, <2>3, <2>4 DEF CommitExecute, key
<1>9. CASE CommitLog(e)
  <2>1. /\ writes' = writes /\ crashes' = crashes /\ key \notin effectLog
        /\ effectLog' = effectLog \cup {key} /\ Goto(e, "save_decision")
    BY <1>4, <1>9 DEF CommitLog, LogSideEffect, StoreWrite, envVars, At, key
  <2>2. run'[e].pc = "save_decision"
    BY <2>1, MoveFields
  <2>3. \A k \in Keys : Written(k) => Written(k)'
    BY <1>2, <1>3, <2>1
  <2>4. \A k \in Keys : writes'[k] <= crashes' + (IF Written(k)' THEN 1 ELSE 0)
    BY <1>1, <2>1, <2>3
  <2> QED BY <1>5, <2>2, <2>4
<1>10. CASE Crash(e)
  <2>1. writes' = writes /\ crashes' = crashes + 1 /\ run'[e].pc = "idle"
    BY <1>10, MoveFields DEF Crash
  <2>2. \A k \in Keys : writes'[k] <= crashes' + (IF Written(k)' THEN 1 ELSE 0)
    BY <1>1, <2>1
  <2> QED BY <1>5, <2>1, <2>2
<1>11. CASE Release(e) \/ Decide \/ DetectSelect \/ DetectUpdate \/ GatewayDecides \/ UNCHANGED vars
  <2>1. UNCHANGED <<run, writes, crashes, effectLog>>
    BY <1>11 DEF Release, Decide, DetectSelect, DetectUpdate, GatewayDecides, UpdateStatus, vars,
       storeVars, envVars
  <2> QED BY <2>1 DEF WritesPaid, Written, At, Gate
<1> QED BY <1>6, <1>7, <1>8, <1>9, <1>10, <1>11, DecidingWrites, LoopingWrites, SteppingWrites,
   ActingWrites, CallingWrites DEF Next, Work

\* With one engine a write is executed once, and once more for each crash at most: the key is
\* looked up before every execution, and only a crash between the execution and the log entry
\* leaves a write that the lookup cannot see (runner.py _execute_write_once).
THEOREM ExtraWritesPaid ==
  ASSUME NEW e, Engines = {e}
  PROVE  Spec => []ExtraWritesPaidByCrashes
<1>1. Init => WritesPaid
  BY DEF Init, CreateWorkflow, WritesPaid, Written, At, Idle
<1>2. TypeInv /\ WritesPaid => ExtraWritesPaidByCrashes
  BY DEF TypeInv, TypeOK, WritesPaid, ExtraWritesPaidByCrashes
<1>3. TypeInv /\ WritesPaid /\ [Next]_vars => WritesPaid'
  BY NextWrites
<1> QED BY <1>1, <1>2, <1>3, InitTypes, NextTypes, PTL DEF Spec
-----------------------------------------------------------------------------
(* The definition a write runs under, with one engine, operators who       *)
(* decide a gate once, and nobody who calls execute() on a paused          *)
(* workflow.                                                               *)

Alone(e) ==
  /\ Engines = {e} /\ NoHash \notin Versions
  /\ ~Redecide /\ "paused_approval" \notin ExecuteFrom

\* The newest gate of g: guarded by some definition, by the engine's own, or
\* decided, with its write in the log once it is approved and past the commit.
Stamped(g) == HasGate(g) /\ Latest(g).hash # NoHash
Vouched(g, e) == HasGate(g) /\ Latest(g).hash = version[e]
Ruled(g) == HasGate(g) /\ Latest(g).decision # "pending"
Settled(g) ==
  Ruled(g) /\ (Latest(g).decision = "approved" /\ g \in CommitSteps => KeyOf[g] \in effectLog)

AskingLabels ==
  {"record_intent", "insert_intent", "submit", "mark_submitted", "poll", "mark_terminal"}
PausingLabels == {"gate_check", "save_pending", "record_hash"}
WritingLabels == {"commit_check", "commit_execute", "commit_log"}
RulingLabels == {"save_decision", "mark_decided", "mark_continued"}

\* Where the engine is while the row says paused.
PausedLabels ==
  {"idle", "check_definition", "mark_stale", "read_decision", "save_decision", "reload",
   "mark_running"} \cup WritingLabels

\* The row: what waits for a decision is guarded, what says approved is settled.
RowVouched ==
  /\ \A s \in Steps : HasIntent(s) => s \in ExternalSteps
  /\ status = "paused_approval" /\ current \in Consequential => Stamped(current)
  /\ status = "approved" /\ current \in GateSteps => Settled(current)

\* The engine's record, on the way into a pause and on the way out of one.
PauseVouched(e) ==
  /\ run[e].back = "resume"
  /\ status = "paused_approval" => run[e].pc \in PausedLabels
  /\ run[e].pc \in AskingLabels => Step(e) \in ExternalSteps
  /\ run[e].pc = "gate_insert" => ~HasGate(Step(e))
  /\ run[e].pc \in PausingLabels =>
       Step(e) \in GateSteps /\ HasGate(Step(e)) /\ run[e].gate = Len(queue[Step(e)])
  /\ run[e].pc \in {"record_hash", "mark_paused"} => Step(e) = current
  /\ run[e].pc = "mark_paused" /\ Step(e) \in Consequential => Stamped(Step(e))

DecisionVouched(e) ==
  /\ run[e].pc = "check_definition" /\ Gate(e) \in Consequential => Stamped(Gate(e))
  /\ run[e].pc = "read_decision" /\ GateWired /\ Gate(e) \in Consequential =>
       Vouched(Gate(e), e) \/ Settled(Gate(e))
  /\ run[e].pc \in WritingLabels \cup RulingLabels =>
       Gate(e) \in GateSteps /\ Ruled(Gate(e)) /\ Latest(Gate(e)).decision = run[e].out
  /\ run[e].pc = "commit_check" /\ Gate(e) \in Consequential =>
       Vouched(Gate(e), e) \/ KeyOf[Gate(e)] \in effectLog
  /\ run[e].pc = "commit_execute" /\ Gate(e) \in Consequential => Vouched(Gate(e), e)
  /\ run[e].pc \in RulingLabels => Settled(Gate(e))
  /\ run[e].pc \in {"mark_decided", "mark_continued"} => current = Gate(e)

AllVouched == RowVouched /\ \A e \in Engines : PauseVouched(e) /\ DecisionVouched(e)

\* What no step takes from a gate.
Kept ==
  /\ effectLog \subseteq effectLog'
  /\ \A g \in GateSteps : HasGate(g) =>
       /\ HasGate(g)'
       /\ Stamped(g) => Stamped(g)'
       /\ Ruled(g) => Ruled(g)' /\ Latest(g)'.decision = Latest(g).decision

LEMMA KeptRules ==
  ASSUME Kept
  PROVE  /\ \A g \in GateSteps : Stamped(g) => Stamped(g)'
         /\ \A g \in GateSteps : Ruled(g) => Ruled(g)' /\ Latest(g)'.decision = Latest(g).decision
         /\ \A g \in GateSteps : Settled(g) => Settled(g)'
<1>1. \A g \in GateSteps : Stamped(g) => Stamped(g)'
  BY DEF Kept, Stamped
<1>2. \A g \in GateSteps : Ruled(g) => Ruled(g)' /\ Latest(g)'.decision = Latest(g).decision
  BY DEF Kept, Ruled
<1>3. \A g \in GateSteps : Settled(g) => Settled(g)'
  BY <1>2 DEF Kept, Settled
<1> QED BY <1>1, <1>2, <1>3

\* Steps that leave the queue alone.
LEMMA QueueKept ==
  ASSUME queue' = queue, effectLog \subseteq effectLog'
  PROVE  Kept
BY DEF Kept, HasGate, Stamped, Ruled, Latest

\* A step on the row that neither pauses nor approves.
LEMMA RowKept ==
  ASSUME RowVouched, Kept, \A s \in Steps : HasIntent(s)' => HasIntent(s) \/ s \in ExternalSteps,
         \/ status' = status /\ current' = current
         \/ status' \notin {"paused_approval", "approved"}
  PROVE  RowVouched'
<1>1. Consequential \subseteq GateSteps
  BY EngineAssumption
<1> QED BY <1>1, KeptRules DEF RowVouched

\* What a move leaves in the engine's record.
Fresh(e, label) == run'[e].pc = label /\ run'[e].back = "resume"
Carried(e, label) ==
  /\ run'[e].pc = label
  /\ run'[e].back = run[e].back /\ run'[e].idx = run[e].idx /\ run'[e].at = run[e].at
  /\ run'[e].gate = run[e].gate /\ run'[e].out = run[e].out

LEMMA MoveRecords ==
  ASSUME TypeInv, NEW e \in Engines
  PROVE  /\ Return(e) => Fresh(e, "idle")
         /\ \A label, index : Enter(e, label, index) => Fresh(e, label)
         /\ \A label : StepTo(e, label) => Fresh(e, label) /\ run'[e].idx = Step(e)
         /\ \A label, output : Yield(e, output, label) =>
              Fresh(e, label) /\ run'[e].idx = Step(e)
         /\ \A label : Goto(e, label) \/ SavedTo(e, label) => Carried(e, label)
         /\ \A next : run[e].back = "resume" /\ Back(e, next) => Fresh(e, "reload")
<1>1. \A call : Becomes(e, call) => run'[e] = call
  BY MoveFields
<1>2. run[e] \in Call
  BY DEF TypeInv, TypeOK
<1>3. Return(e) => Fresh(e, "idle")
  BY <1>1 DEF Return, Idle, Fresh
<1>4. ASSUME NEW label, NEW index, Enter(e, label, index) PROVE Fresh(e, label)
  <2>1. run'[e] = [Idle EXCEPT !.pc = label, !.idx = index]
    BY <1>1, <1>4 DEF Enter
  <2> QED BY <2>1 DEF Idle, Fresh
<1>5. \A label : StepTo(e, label) => Fresh(e, label) /\ run'[e].idx = Step(e)
  BY <1>4, MoveFields DEF StepTo
<1>6. ASSUME NEW label, NEW output, Yield(e, output, label)
      PROVE  Fresh(e, label) /\ run'[e].idx = Step(e)
  <2>1. run'[e] = [Idle EXCEPT !.pc = label, !.idx = Step(e), !.out = output]
    BY <1>1, <1>6 DEF Yield
  <2> QED BY <2>1 DEF Idle, Fresh
<1>7. ASSUME NEW label, Goto(e, label) PROVE Carried(e, label)
  <2>1. run'[e] = [run[e] EXCEPT !.pc = label]
    BY <1>1, <1>7 DEF Goto
  <2> QED BY <1>2, <2>1 DEF Call, Carried
<1>8. ASSUME NEW label, SavedTo(e, label) PROVE Carried(e, label)
  <2>1. run'[e] = [run[e] EXCEPT !.pc = label, !.base = Unread]
    BY <1>1, <1>8 DEF SavedTo
  <2> QED BY <1>2, <2>1 DEF Call, Carried
<1>9. \A next : run[e].back = "resume" /\ Back(e, next) => Fresh(e, "reload")
  BY <1>4 DEF Back
<1> QED BY <1>3, <1>4, <1>5, <1>6, <1>7, <1>8, <1>9

\* The labels at which the engine holds nothing that needs vouching for.
LooseLabels ==
  {"idle", "mark_running", "check_wait", "mark_stale", "loop", "step", "raised",
   "save_result", "send_log", "set_hash", "mark_waiting", "reload"}

LEMMA LooseVouched ==
  ASSUME NEW e \in Engines, run'[e].pc \in LooseLabels, run'[e].back = "resume",
         status' = "paused_approval" => run'[e].pc \in PausedLabels
  PROVE  PauseVouched(e)' /\ DecisionVouched(e)'
BY DEF LooseLabels, PausedLabels, PauseVouched, DecisionVouched, AskingLabels, PausingLabels,
   WritingLabels, RulingLabels

LEMMA AloneFacts ==
  ASSUME NEW e, Alone(e), AllVouched
  PROVE  /\ e \in Engines /\ RowVouched /\ PauseVouched(e) /\ DecisionVouched(e)
         /\ run[e].back = "resume"
         /\ RowVouched' /\ PauseVouched(e)' /\ DecisionVouched(e)' => AllVouched'
         /\ Consequential \subseteq GateSteps
BY EngineAssumption DEF Alone, AllVouched, PauseVouched

LEMMA DecidingVouched ==
  ASSUME TypeInv, NEW e, Alone(e), AllVouched, Deciding(e)
  PROVE  AllVouched'
<1>1. /\ e \in Engines /\ RowVouched /\ PauseVouched(e) /\ DecisionVouched(e)
      /\ run[e].back = "resume" /\ Consequential \subseteq GateSteps
  BY AloneFacts
<1>2. Kept /\ queue' = queue /\ version' = version /\ intent' = intent
  <2>1. queue' = queue /\ version' = version /\ intent' = intent /\ effectLog \subseteq effectLog'
    BY DEF Deciding, ReadDecision, CommitCheck, CommitExecute, CommitLog, LogSideEffect,
       SaveDecision, Save, SaveCheckpoint, MarkDecided, MarkContinued, UpdateStatus, Reload,
       StoreRead, StoreWrite, storeVars, gateVars
  <2> QED BY <2>1, QueueKept
<1>3. \A g : /\ HasGate(g)' = HasGate(g) /\ Latest(g)' = Latest(g) /\ Ruled(g)' = Ruled(g)
             /\ Vouched(g, e)' = Vouched(g, e)
  BY <1>2 DEF HasGate, Latest, Ruled, Vouched
<1>4. ASSUME \/ status' = status /\ current' = current
             \/ status' \notin {"paused_approval", "approved"}
      PROVE  RowVouched'
  BY <1>1, <1>2, <1>4, RowKept DEF HasIntent
<1>5. ASSUME run'[e].pc \in LooseLabels, run'[e].back = "resume", RowVouched',
             status' = "paused_approval" => run'[e].pc \in PausedLabels
      PROVE  AllVouched'
  BY <1>1, <1>5, AloneFacts, LooseVouched
<1>6. CASE ReadDecision(e)
  <2>1. /\ status' = status /\ current' = current /\ effectLog' = effectLog
        /\ run[e].pc = "read_decision" /\ RowVouched'
    BY <1>4, <1>6 DEF ReadDecision, StoreRead, storeVars, At
  <2>2. CASE Fresh(e, "idle") \/ Fresh(e, "reload")
    BY <1>5, <2>1, <2>2 DEF Fresh, LooseLabels, PausedLabels
  <2>3. ASSUME NEW output, NEW label,
               Becomes(e, [run[e] EXCEPT !.out = output, !.pc = label])
        PROVE  /\ run'[e].out = output /\ run'[e].pc = label /\ run'[e].back = "resume"
               /\ run'[e].at = Gate(e)
    <3>1. run'[e] = [run[e] EXCEPT !.out = output, !.pc = label] /\ run[e] \in Call
      BY <1>1, <2>3, MoveFields DEF TypeInv, TypeOK
    <3> QED BY <1>1, <3>1 DEF Call, Gate
  <2>4. ASSUME NEW output, NEW label,
               Becomes(e, [run[e] EXCEPT !.out = output, !.pc = label]),
               GateWired, Gate(e) \in GateSteps, HasGate(Gate(e)),
               Latest(Gate(e)).decision = output,
               \/ label = "commit_check" /\ output = "approved" /\ Gate(e) \in CommitSteps
               \/ /\ label = "save_decision" /\ output \in {"approved", "rejected"}
                  /\ output = "approved" => Gate(e) \notin CommitSteps
        PROVE  AllVouched'
    <3>1. /\ run'[e].out = output /\ run'[e].pc = label /\ run'[e].back = "resume"
          /\ run'[e].at = Gate(e)
      BY <2>3, <2>4
    <3>2. Ruled(Gate(e))
      BY <2>4 DEF Ruled
    <3>3. PauseVouched(e)'
      BY <2>4, <3>1 DEF PauseVouched, PausedLabels, AskingLabels, PausingLabels, WritingLabels
    <3>4. label = "save_decision" => Settled(Gate(e))
      BY <2>4, <3>2 DEF Settled
    <3>5. Gate(e) \in Consequential /\ label = "commit_check" =>
            Vouched(Gate(e), e) \/ KeyOf[Gate(e)] \in effectLog
      BY <1>1, <2>1, <2>4 DEF DecisionVouched, Settled
    <3>6. \A g : g = Gate(e) /\ label = "save_decision" => Settled(g)'
      BY <1>3, <2>1, <3>4 DEF Settled
    <3>7. DecisionVouched(e)'
      BY <1>3, <2>1, <2>4, <3>1, <3>2, <3>5, <3>6 DEF DecisionVouched, Gate, WritingLabels, RulingLabels
    <3> QED BY <2>1, <3>3, <3>7, AloneFacts
  <2>5. ASSUME NEW output, NEW label,
               Becomes(e, [run[e] EXCEPT !.out = output, !.pc = label]),
               GateWired /\ Gate(e) \in GateSteps /\ HasGate(Gate(e)),
               \/ /\ Latest(Gate(e)).decision = "rejected"
                  /\ output = "rejected" /\ label = "save_decision"
               \/ /\ Latest(Gate(e)).decision = "approved" /\ output = "approved"
                  /\ label = IF Gate(e) \in CommitSteps THEN "commit_check" ELSE "save_decision"
        PROVE  AllVouched'
    BY <2>4, <2>5
  <2>6. \/ Return(e) \/ \E next : Back(e, next)
        \/ /\ GateWired /\ Gate(e) \in GateSteps /\ HasGate(Gate(e))
           /\ Latest(Gate(e)).decision = "rejected"
           /\ Becomes(e, [run[e] EXCEPT !.out = "rejected", !.pc = "save_decision"])
        \/ /\ GateWired /\ Gate(e) \in GateSteps /\ HasGate(Gate(e))
           /\ Latest(Gate(e)).decision = "approved"
           /\ Becomes(e, [run[e] EXCEPT !.out = "approved",
                            !.pc = IF Gate(e) \in CommitSteps
                                   THEN "commit_check" ELSE "save_decision"])
    BY <1>6, Zenon DEF ReadDecision
  <2>7. Return(e) \/ (\E next : Back(e, next)) => Fresh(e, "idle") \/ Fresh(e, "reload")
    BY <1>1, MoveRecords
  <2> QED BY <2>2, <2>5, <2>6, <2>7
<1>7. CASE CommitCheck(e) \/ CommitExecute(e) \/ CommitLog(e)
  <2>1. /\ status' = status /\ current' = current /\ RowVouched'
        /\ run[e].pc \in WritingLabels
    BY <1>4, <1>7 DEF CommitCheck, CommitExecute, CommitLog, LogSideEffect, StoreRead, storeVars,
       At, WritingLabels
  <2>2. CASE Return(e)
    <3>1. Fresh(e, "idle")
      BY <1>1, <2>2, MoveRecords
    <3> QED BY <1>5, <2>1, <3>1 DEF Fresh, LooseLabels, PausedLabels
  <2>3. ASSUME NEW label \in {"save_decision", "commit_execute", "commit_log"}, Goto(e, label),
               label = "save_decision" => KeyOf[Gate(e)] \in effectLog',
               label = "commit_execute" /\ Gate(e) \in Consequential => Vouched(Gate(e), e)
        PROVE  AllVouched'
    <3>1. /\ run'[e].pc = label /\ run'[e].back = "resume" /\ run'[e].at = Gate(e)
          /\ run'[e].out = run[e].out
      BY <1>1, <2>3, MoveRecords DEF Carried, Gate
    <3>2. Gate(e) \in GateSteps /\ Ruled(Gate(e)) /\ Latest(Gate(e)).decision = run[e].out
      BY <1>1, <2>1 DEF DecisionVouched
    <3>3. PauseVouched(e)'
      BY <2>3, <3>1 DEF PauseVouched, PausedLabels, AskingLabels, PausingLabels, WritingLabels
    <3>4. \A g : g = Gate(e) /\ label = "save_decision" => Settled(g)'
      BY <1>3, <2>3, <3>2 DEF Settled
    <3>5. DecisionVouched(e)'
      BY <1>3, <2>3, <3>1, <3>2, <3>4 DEF DecisionVouched, Gate, WritingLabels, RulingLabels
    <3> QED BY <2>1, <3>3, <3>5, AloneFacts
  <2>4. CASE CommitCheck(e)
    <3>1. effectLog' = effectLog /\ run[e].pc = "commit_check"
      BY <2>4 DEF CommitCheck, StoreRead, storeVars, At
    <3>2. KeyOf[Gate(e)] \notin effectLog /\ Gate(e) \in Consequential => Vouched(Gate(e), e)
      BY <1>1, <3>1 DEF DecisionVouched
    <3> QED BY <2>3, <2>4, <3>1, <3>2 DEF CommitCheck
  <2>5. CASE CommitExecute(e)
    BY <2>2, <2>3, <2>5 DEF CommitExecute
  <2>6. CASE CommitLog(e)
    BY <2>2, <2>3, <2>6 DEF CommitLog, LogSideEffect
  <2> QED BY <1>7, <2>4, <2>5, <2>6
<1>8. CASE SaveDecision(e)
  <2>1. /\ status' = "running" /\ current' = Gate(e) /\ effectLog' = effectLog
        /\ run[e].pc = "save_decision"
    BY <1>8 DEF SaveDecision, Save, SaveCheckpoint, At
  <2>2. /\ run'[e].pc = "mark_decided" /\ run'[e].back = "resume" /\ run'[e].at = Gate(e)
        /\ run'[e].out = run[e].out
    BY <1>1, <1>8, MoveRecords DEF SaveDecision, Carried, Gate
  <2>3. /\ Gate(e) \in GateSteps /\ Ruled(Gate(e)) /\ Latest(Gate(e)).decision = run[e].out
        /\ Settled(Gate(e))
    BY <1>1, <2>1 DEF DecisionVouched, RulingLabels
  <2>4. RowVouched'
    BY <1>4, <2>1
  <2>5. PauseVouched(e)'
    BY <2>1, <2>2 DEF PauseVouched, AskingLabels, PausingLabels
  <2>6. \A g : g = Gate(e) => Settled(g)'
    BY <1>3, <2>1, <2>3 DEF Settled
  <2>7. DecisionVouched(e)'
    BY <1>3, <2>1, <2>2, <2>3, <2>6 DEF DecisionVouched, Gate, WritingLabels, RulingLabels
  <2> QED BY <2>4, <2>5, <2>7, AloneFacts
<1>9. CASE MarkDecided(e) \/ MarkContinued(e)
  <2>1. /\ current' = current /\ effectLog' = effectLog /\ current = Gate(e)
        /\ run[e].pc \in {"mark_decided", "mark_continued"}
    BY <1>1, <1>9 DEF MarkDecided, MarkContinued, UpdateStatus, At, DecisionVouched
  <2>2. /\ Gate(e) \in GateSteps /\ Ruled(Gate(e)) /\ Latest(Gate(e)).decision = run[e].out
        /\ Settled(Gate(e))
    BY <1>1, <2>1 DEF DecisionVouched, RulingLabels
  <2>3. \A g : g = Gate(e) => Settled(g)'
    BY <1>3, <2>1, <2>2 DEF Settled
  <2>4. status' \in {"approved", "rejected"}
    BY <1>9 DEF MarkDecided, MarkContinued, UpdateStatus
  <2>5. RowVouched'
    <3>1. \A s \in Steps : HasIntent(s)' => s \in ExternalSteps
      BY <1>1, <1>2 DEF RowVouched, HasIntent
    <3>2. Settled(current)'
      BY <2>1, <2>3
    <3> QED BY <2>4, <3>1, <3>2 DEF RowVouched
  <2>6. CASE \E next : Back(e, next)
    <3>1. Fresh(e, "reload")
      BY <1>1, <2>6, MoveRecords
    <3> QED BY <1>5, <2>4, <2>5, <3>1 DEF Fresh, LooseLabels
  <2>7. CASE Goto(e, "mark_continued")
    <3>1. /\ run'[e].pc = "mark_continued" /\ run'[e].back = "resume" /\ run'[e].at = Gate(e)
          /\ run'[e].out = run[e].out
      BY <1>1, <2>7, MoveRecords DEF Carried, Gate
    <3>2. PauseVouched(e)'
      BY <2>4, <3>1 DEF PauseVouched, AskingLabels, PausingLabels
    <3>3. DecisionVouched(e)'
      BY <1>3, <2>1, <2>2, <2>3, <3>1 DEF DecisionVouched, Gate, WritingLabels, RulingLabels
    <3> QED BY <2>5, <3>2, <3>3, AloneFacts
  <2> QED BY <1>9, <2>6, <2>7 DEF MarkDecided, MarkContinued
<1>10. CASE Reload(e)
  <2>1. /\ status' = status /\ current' = current /\ RowVouched'
    BY <1>4, <1>10 DEF Reload, StoreRead, storeVars
  <2>2. Fresh(e, "idle") \/ Fresh(e, "mark_running")
    BY <1>1, <1>10, MoveRecords DEF Reload
  <2> QED BY <1>5, <2>1, <2>2 DEF Fresh, LooseLabels, PausedLabels
<1> QED BY <1>6, <1>7, <1>8, <1>9, <1>10 DEF Deciding

\* A step that leaves the queue alone, ends the engine's business with a gate and neither
\* pauses nor approves.
LEMMA LooseStep ==
  ASSUME TypeInv, NEW e, Alone(e), AllVouched, queue' = queue, effectLog \subseteq effectLog',
         \A s \in Steps : HasIntent(s)' => HasIntent(s) \/ s \in ExternalSteps,
         \/ status' = status /\ current' = current
         \/ status' \notin {"paused_approval", "approved"},
         run'[e].pc \in LooseLabels, run'[e].back = "resume",
         status' = "paused_approval" => run'[e].pc \in PausedLabels
  PROVE  AllVouched'
<1>1. Kept
  BY QueueKept
<1> QED BY <1>1, AloneFacts, RowKept, LooseVouched

\* One row of one gate's queue is edited.
LEMMA RowEdited ==
  ASSUME TypeInv, NEW h \in GateSteps, NEW i \in 1 .. Len(queue[h]), NEW row \in GateRow,
         queue' = [queue EXCEPT ![h] = [queue[h] EXCEPT ![i] = row]]
  PROVE  \A g \in GateSteps :
           /\ HasGate(g)' <=> HasGate(g)
           /\ Len(queue'[g]) = Len(queue[g])
           /\ g # h => Latest(g)' = Latest(g)
           /\ g = h => Latest(g)' = IF i = Len(queue[h]) THEN row ELSE Latest(h)
<1>1. queue \in [GateSteps -> Seq(GateRow)]
  BY DEF TypeInv, TypeOK, GateTypeOK
<1> DEFINE rows == [queue[h] EXCEPT ![i] = row]
<1>2. /\ queue[h] \in Seq(GateRow) /\ DOMAIN queue[h] = 1 .. Len(queue[h]) /\ Len(queue[h]) \in Nat
      /\ queue[h] \in [1 .. Len(queue[h]) -> GateRow]
  BY <1>1, LenProperties
<1>3. rows \in Seq(GateRow) /\ Len(rows) = Len(queue[h])
  BY <1>2, RowChanged
<1>4. rows[Len(rows)] = IF i = Len(queue[h]) THEN row ELSE queue[h][Len(queue[h])]
  BY <1>2, <1>3
<1>5. rows # <<>> /\ queue[h] # <<>>
  BY <1>2, <1>3
<1>6. queue'[h] = rows /\ \A g \in GateSteps \ {h} : queue'[g] = queue[g]
  BY <1>1
<1> HIDE DEF rows
<1> QED BY <1>3, <1>4, <1>5, <1>6 DEF HasGate, Latest

\* A definition hash leaves the decisions as they were, and so does a new gate, as there is
\* none of that step yet.
LEMMA HashKept ==
  ASSUME TypeInv, NEW e, Alone(e), AllVouched, RecordHash(e)
  PROVE  /\ Kept /\ Step(e) \in GateSteps /\ HasGate(Step(e)) /\ Step(e) = current
         /\ \A g : g = Step(e) => Stamped(g)'
<1>1. /\ e \in Engines /\ PauseVouched(e)
  BY AloneFacts
<1>2. /\ UNCHANGED storeVars /\ run[e].pc = "record_hash"
      /\ RecordGateHash(Step(e), run[e].gate, version[e])
  BY DEF RecordHash, GateWrite, At
<1>3. /\ Step(e) \in GateSteps /\ HasGate(Step(e)) /\ run[e].gate = Len(queue[Step(e)])
      /\ Step(e) = current
  BY <1>1, <1>2 DEF PauseVouched, PausingLabels
<1> DEFINE row == [queue[Step(e)][run[e].gate] EXCEPT !.hash = version[e]]
<1>4. run[e].gate \in 1 .. Len(queue[Step(e)])
  BY <1>3, EmptySeq, LenProperties DEF HasGate, TypeInv, TypeOK, GateTypeOK
<1>5. /\ row \in GateRow /\ row.hash = version[e] /\ version[e] # NoHash
      /\ row.decision = queue[Step(e)][run[e].gate].decision
  <2>1. version[e] \in Versions /\ NoHash \notin Versions
    BY <1>1 DEF TypeInv, TypeOK, Alone
  <2> QED BY <1>3, <1>4, <2>1, RowIsTyped DEF GateRow
<1>6. queue' = [queue EXCEPT ![Step(e)] = [queue[Step(e)] EXCEPT ![run[e].gate] = row]]
  BY <1>2 DEF RecordGateHash
<1> HIDE DEF row
<1>7. \A g \in GateSteps :
        /\ HasGate(g)' <=> HasGate(g)
        /\ g # Step(e) => Latest(g)' = Latest(g)
        /\ g = Step(e) => Latest(g)' = row
  BY <1>3, <1>4, <1>5, <1>6, RowEdited
<1>8. row.decision = Latest(Step(e)).decision
  BY <1>3, <1>5 DEF Latest
<1>9. Kept
  BY <1>2, <1>5, <1>7, <1>8 DEF Kept, Stamped, Ruled, storeVars
<1>10. \A g : g = Step(e) => Stamped(g)'
  BY <1>3, <1>5, <1>7 DEF Stamped
<1> QED BY <1>3, <1>9, <1>10

LEMMA InsertKept ==
  ASSUME TypeInv, NEW e, Alone(e), AllVouched, GateInsert(e)
  PROVE  Kept /\ Step(e) \in GateSteps
<1>1. /\ e \in Engines /\ PauseVouched(e)
  BY AloneFacts
<1>2. Step(e) \in GateSteps /\ queue[Step(e)] = <<>> /\ effectLog' = effectLog
  BY <1>1, FieldTypes DEF GateInsert, At, PauseVouched, HasGate, GateWrite, storeVars
<1>3. \A g \in GateSteps : HasGate(g) => queue'[g] = queue[g]
  BY <1>2 DEF HasGate, GateInsert, InsertGate, TypeInv, TypeOK, GateTypeOK
<1> QED BY <1>2, <1>3 DEF Kept, HasGate, Stamped, Ruled, Latest

LEMMA LoopingVouched ==
  ASSUME TypeInv, NEW e, Alone(e), AllVouched, Looping(e)
  PROVE  AllVouched'
<1>1. /\ e \in Engines /\ RowVouched /\ PauseVouched(e) /\ DecisionVouched(e)
      /\ run[e].back = "resume" /\ Consequential \subseteq GateSteps
  BY AloneFacts
<1>2. \A s \in Steps : HasIntent(s)' => HasIntent(s) \/ s \in ExternalSteps
  <2>1. intent' = intent \/ SetHash(e)
    BY DEF Looping, CheckWait, CheckDefinition, MarkStale, MarkRunning, LoadState, Complete,
       SelectData, SaveResult, Raised, SavePending, RecordHash, MarkPaused, MarkWaiting, Save,
       SaveCheckpoint, UpdateStatus, StoreRead, StoreWrite, GateWrite, storeVars
  <2>2. ASSUME SetHash(e), NEW s \in Steps PROVE intent'[s].state = intent[s].state
    <3>1. intent \in [Steps -> [state: IntentStates, hash: Versions \cup {NoHash}]]
      BY DEF TypeInv, TypeOK, StoreTypeOK
    <3> QED BY <2>2, <3>1 DEF SetHash, SetIntentHash
  <2> QED BY <2>1, <2>2 DEF HasIntent
<1>3. CASE \/ CheckWait(e) \/ MarkStale(e) \/ MarkRunning(e) \/ Complete(e) \/ SaveResult(e)
           \/ Raised(e) \/ SetHash(e) \/ MarkWaiting(e)
  <2>1. queue' = queue /\ effectLog' = effectLog
    BY <1>3 DEF CheckWait, MarkStale, MarkRunning, Complete, SaveResult, Raised, SetHash,
       SetIntentHash, MarkWaiting, Save, SaveCheckpoint, UpdateStatus, StoreRead, StoreWrite,
       storeVars, gateVars
  <2>2. /\ \/ status' = status /\ current' = current
           \/ status' \notin {"paused_approval", "approved"}
        /\ status' = "paused_approval" => status = "paused_approval" /\ (CheckWait(e) \/ SetHash(e))
    BY <1>3 DEF CheckWait, MarkStale, MarkRunning, Complete, SaveResult, Raised, SetHash,
       SetIntentHash, MarkWaiting, Save, SaveCheckpoint, UpdateStatus, StoreRead, storeVars
  <2>3. status' # "paused_approval"
    BY <1>1, <2>2 DEF PauseVouched, PausedLabels, WritingLabels, CheckWait, SetHash, At
  <2>4. run'[e].pc \in LooseLabels /\ run'[e].back = "resume"
    <3>1. CASE CheckWait(e) \/ MarkStale(e) \/ MarkRunning(e) \/ Complete(e) \/ SaveResult(e)
      BY <1>1, <3>1, MoveRecords DEF CheckWait, MarkStale, MarkRunning, Complete, SaveResult,
         Fresh, Carried, LooseLabels
    <3>2. CASE Raised(e) \/ SetHash(e) \/ MarkWaiting(e)
      BY <1>1, <3>2, MoveRecords DEF Raised, SetHash, MarkWaiting, Fresh, Carried, LooseLabels
    <3> QED BY <1>3, <3>1, <3>2
  <2> QED BY <1>2, <2>1, <2>2, <2>3, <2>4, LooseStep
<1>4. CASE LoadState(e)
  <2>1. /\ queue' = queue /\ UNCHANGED storeVars /\ run[e].pc = "loop"
        /\ status # "paused_approval"
    BY <1>1, <1>4 DEF LoadState, StoreRead, gateVars, At, PauseVouched, PausedLabels, WritingLabels
  <2>2. run'[e].pc \in {"idle", "step"} /\ run'[e].back = "resume"
    <3>1. CASE Return(e)
      BY <1>1, <3>1, MoveRecords DEF Fresh
    <3>2. CASE Becomes(e, [run[e] EXCEPT !.pc = "step", !.at = current,
                                         !.seen = Approval(Step(e))])
      <4> DEFINE seen == Approval(Step(e))
      <4>1. run'[e] = [run[e] EXCEPT !.pc = "step", !.at = current, !.seen = seen]
            /\ run[e] \in Call
        BY <1>1, <3>2, MoveFields DEF TypeInv, TypeOK
      <4> HIDE DEF seen
      <4> QED BY <1>1, <4>1 DEF Call
    <3> QED BY <1>4, <2>1, <3>1, <3>2 DEF LoadState
  <2> QED BY <1>2, <2>1, <2>2, LooseStep DEF LooseLabels, storeVars
<1>5. CASE SelectData(e)
  <2>1. /\ queue' = queue /\ UNCHANGED storeVars /\ version' = version
        /\ run'[e] = [run[e] EXCEPT !.base = stepData] /\ run[e] \in Call
    BY <1>1, <1>5, MoveFields DEF SelectData, StoreRead, gateVars, TypeInv, TypeOK
  <2>2. /\ run'[e].pc = run[e].pc /\ run'[e].back = run[e].back /\ run'[e].idx = run[e].idx
        /\ run'[e].at = run[e].at /\ run'[e].gate = run[e].gate /\ run'[e].out = run[e].out
    BY <2>1 DEF Call
  <2>3. RowVouched'
    BY <1>1, <1>2, <2>1, QueueKept, RowKept DEF storeVars
  <2>4. PauseVouched(e)'
    BY <1>1, <2>1, <2>2 DEF PauseVouched, Stamped, HasGate, Latest, Step, storeVars
  <2>5. DecisionVouched(e)'
    BY <1>1, <2>1, <2>2 DEF DecisionVouched, Stamped, Vouched, Settled, Ruled, HasGate, Latest,
       Gate, storeVars
  <2> QED BY <2>3, <2>4, <2>5, AloneFacts
<1>6. CASE CheckDefinition(e)
  <2>1. /\ queue' = queue /\ UNCHANGED storeVars /\ version' = version
        /\ run[e].pc = "check_definition"
    BY <1>6 DEF CheckDefinition, StoreRead, gateVars, At
  <2>2. CASE Goto(e, "mark_stale")
    <3>1. run'[e].pc = "mark_stale" /\ run'[e].back = "resume"
      BY <1>1, <2>2, MoveRecords DEF Carried
    <3> QED BY <1>2, <2>1, <3>1, LooseStep DEF LooseLabels, PausedLabels, storeVars
  <2>3. CASE ~DefinitionStale(e, Gate(e)) /\ Goto(e, "read_decision")
    <3>1. run'[e].pc = "read_decision" /\ run'[e].back = "resume" /\ run'[e].at = Gate(e)
      BY <1>1, <2>3, MoveRecords DEF Carried, Gate
    <3>2. GateWired /\ Gate(e) \in Consequential => Vouched(Gate(e), e) \/ Settled(Gate(e))
      <4> SUFFICES ASSUME GateWired, Gate(e) \in Consequential
                   PROVE  Vouched(Gate(e), e) \/ Settled(Gate(e))
        OBVIOUS
      <4>1. Stamped(Gate(e))
        BY <1>1, <2>1 DEF DecisionVouched
      <4>2. Gate(e) \in Steps /\ ~HasIntent(Gate(e))
        BY <1>1, EngineAssumption, GateAssumption DEF RowVouched
      <4>3. Latest(Gate(e)).hash \in {NoHash, version[e]}
        BY <2>3, <4>1, <4>2 DEF DefinitionStale, Stamped
      <4> QED BY <4>1, <4>3 DEF Stamped, Vouched
    <3>3. RowVouched'
      BY <1>1, <1>2, <2>1, QueueKept, RowKept DEF storeVars
    <3>4. PauseVouched(e)'
      BY <3>1 DEF PauseVouched, PausedLabels, AskingLabels, PausingLabels
    <3>5. DecisionVouched(e)'
      BY <2>1, <3>1, <3>2 DEF DecisionVouched, Vouched, Settled, Ruled, HasGate, Latest, Gate,
         WritingLabels, RulingLabels, storeVars
    <3> QED BY <3>3, <3>4, <3>5, AloneFacts
  <2> QED BY <1>6, <2>2, <2>3 DEF CheckDefinition
<1>7. CASE SavePending(e)
  <2>1. /\ queue' = queue /\ effectLog' = effectLog /\ status' = "running" /\ current' = Step(e)
        /\ run[e].pc = "save_pending"
    BY <1>7 DEF SavePending, Save, SaveCheckpoint, StoreWrite, gateVars, At
  <2>2. RowVouched'
    BY <1>1, <1>2, <2>1, QueueKept, RowKept
  <2>3. Step(e) \in GateSteps /\ HasGate(Step(e)) /\ run[e].gate = Len(queue[Step(e)])
    BY <1>1, <2>1 DEF PauseVouched, PausingLabels
  <2>4. CASE Step(e) \in Consequential /\ SavedTo(e, "record_hash")
    <3>1. /\ run'[e].pc = "record_hash" /\ run'[e].back = "resume" /\ run'[e].idx = Step(e)
          /\ run'[e].gate = run[e].gate
      BY <1>1, <2>4, MoveRecords DEF Carried, Step
    <3>2. PauseVouched(e)' /\ DecisionVouched(e)'
      BY <2>1, <2>3, <3>1 DEF PauseVouched, DecisionVouched, HasGate, Step, AskingLabels,
         WritingLabels, RulingLabels
    <3> QED BY <2>2, <3>2, AloneFacts
  <2>5. CASE Step(e) \notin Consequential /\ StepTo(e, "mark_paused")
    <3>1. run'[e].pc = "mark_paused" /\ run'[e].back = "resume" /\ run'[e].idx = Step(e)
      BY <1>1, <2>5, MoveRecords DEF Fresh
    <3>2. PauseVouched(e)' /\ DecisionVouched(e)'
      BY <2>1, <2>5, <3>1 DEF PauseVouched, DecisionVouched, Step, AskingLabels, PausingLabels,
         WritingLabels, RulingLabels
    <3> QED BY <2>2, <3>2, AloneFacts
  <2> QED BY <1>7, <2>4, <2>5 DEF SavePending
<1>8. CASE RecordHash(e)
  <2>1. UNCHANGED storeVars /\ status # "paused_approval"
    BY <1>1, <1>8 DEF RecordHash, GateWrite, At, PauseVouched, PausedLabels, WritingLabels
  <2>2. Kept /\ Step(e) = current /\ \A g : g = Step(e) => Stamped(g)'
    BY <1>8, HashKept
  <2>3. RowVouched'
    BY <1>1, <1>2, <2>1, <2>2, RowKept DEF storeVars
  <2>4. run'[e].pc = "mark_paused" /\ run'[e].back = "resume" /\ run'[e].idx = Step(e)
    BY <1>1, <1>8, MoveRecords DEF RecordHash, Fresh
  <2>5. PauseVouched(e)' /\ DecisionVouched(e)'
    BY <2>1, <2>2, <2>4 DEF PauseVouched, DecisionVouched, Step, AskingLabels, PausingLabels,
       WritingLabels, RulingLabels, storeVars
  <2> QED BY <2>3, <2>5, AloneFacts
<1>9. CASE MarkPaused(e)
  <2>1. /\ queue' = queue /\ effectLog' = effectLog /\ status' = "paused_approval"
        /\ current' = current /\ run[e].pc = "mark_paused"
    BY <1>9 DEF MarkPaused, UpdateStatus, StoreWrite, gateVars, At
  <2>2. Step(e) = current /\ (current \in Consequential => Stamped(current))
    BY <1>1, <2>1 DEF PauseVouched
  <2>3. RowVouched'
    BY <1>1, <1>2, <2>1, <2>2 DEF RowVouched, Stamped, HasGate, Latest
  <2>4. run'[e].pc = "idle" /\ run'[e].back = "resume"
    BY <1>1, <1>9, MoveRecords DEF MarkPaused, Fresh
  <2>5. PauseVouched(e)' /\ DecisionVouched(e)'
    BY <1>1, <2>4, LooseVouched DEF LooseLabels, PausedLabels
  <2> QED BY <2>3, <2>5, AloneFacts
<1> QED BY <1>3, <1>4, <1>5, <1>6, <1>7, <1>8, <1>9 DEF Looping

LEMMA SteppingVouched ==
  ASSUME TypeInv, NEW e, Alone(e), AllVouched, Stepping(e)
  PROVE  AllVouched'
<1>1. /\ e \in Engines /\ RowVouched /\ PauseVouched(e) /\ DecisionVouched(e)
      /\ run[e].back = "resume" /\ Consequential \subseteq GateSteps
  BY AloneFacts
<1>2. /\ status' = status /\ current' = current /\ intent' = intent /\ version' = version
      /\ effectLog \subseteq effectLog'
      /\ run[e].pc \in {"step", "gate_insert", "gate_check", "send_log"}
  BY DEF Stepping, PlainSucceeds, PlainRaises, RunGate, GateInsert, GateCheck, RunSend, SendLog,
     LogSideEffect, StoreRead, StoreWrite, GateWrite, storeVars, At
<1>3. status' # "paused_approval"
  BY <1>1, <1>2 DEF PauseVouched, PausedLabels, WritingLabels
<1>4. ASSUME Kept PROVE RowVouched'
  BY <1>1, <1>2, <1>4, RowKept DEF HasIntent
<1>5. ASSUME queue' = queue, Fresh(e, "save_result") \/ Fresh(e, "raised") \/ Fresh(e, "send_log")
      PROVE  AllVouched'
  BY <1>2, <1>3, <1>5, LooseStep DEF Fresh, LooseLabels, HasIntent
<1>6. ASSUME NEW i, Requested(e, i)
      PROVE  /\ run'[e].pc \in {"gate_check", "save_pending"} /\ run'[e].back = "resume"
             /\ run'[e].idx = Step(e) /\ run'[e].gate = i
  <2> DEFINE label == IF Step(e) \in RecheckSteps THEN "gate_check" ELSE "save_pending"
  <2>1. run'[e] = [Idle EXCEPT !.idx = Step(e), !.gate = i, !.pc = label]
    BY <1>1, <1>6, MoveFields DEF Requested
  <2>2. label \in {"gate_check", "save_pending"}
    OBVIOUS
  <2> HIDE DEF label
  <2> QED BY <2>1, <2>2 DEF Idle
<1>7. ASSUME Kept, run'[e].pc \in {"gate_check", "save_pending"}, run'[e].back = "resume",
             run'[e].idx = Step(e), Step(e) \in GateSteps,
             queue'[Step(e)] # <<>>, run'[e].gate = Len(queue'[Step(e)])
      PROVE  AllVouched'
  <2>1. PauseVouched(e)' /\ DecisionVouched(e)'
    BY <1>3, <1>7 DEF PauseVouched, DecisionVouched, HasGate, Step, AskingLabels, WritingLabels,
       RulingLabels
  <2> QED BY <1>4, <1>7, <2>1, AloneFacts
<1>8. CASE PlainSucceeds(e) \/ PlainRaises(e) \/ RunSend(e) \/ SendLog(e)
  <2>1. queue' = queue
    BY <1>8 DEF PlainSucceeds, PlainRaises, RunSend, SendLog, StoreRead, StoreWrite, gateVars
  <2>2. Fresh(e, "save_result") \/ Fresh(e, "raised") \/ Fresh(e, "send_log")
    BY <1>1, <1>8, MoveRecords DEF PlainSucceeds, PlainRaises, RunSend, SendLog
  <2> QED BY <1>5, <2>1, <2>2
<1>9. CASE RunGate(e)
  <2>1. queue' = queue /\ Kept /\ Step(e) \in GateSteps
    BY <1>2, <1>9, QueueKept DEF RunGate, StoreRead, gateVars
  <2>2. CASE Yield(e, "skipped", "save_result")
    BY <1>1, <1>5, <2>1, <2>2, MoveRecords
  <2>3. CASE HasGate(Step(e)) /\ Requested(e, Len(queue[Step(e)]))
    BY <1>6, <1>7, <2>1, <2>3 DEF HasGate
  <2>4. CASE ~HasGate(Step(e)) /\ StepTo(e, "gate_insert")
    <3>1. run'[e].pc = "gate_insert" /\ run'[e].back = "resume" /\ run'[e].idx = Step(e)
      BY <1>1, <2>4, MoveRecords DEF Fresh
    <3>2. PauseVouched(e)' /\ DecisionVouched(e)'
      BY <1>3, <2>1, <2>4, <3>1 DEF PauseVouched, DecisionVouched, HasGate, Step, AskingLabels,
         PausingLabels, WritingLabels, RulingLabels
    <3> QED BY <1>4, <2>1, <3>2, AloneFacts
  <2> QED BY <1>9, <2>2, <2>3, <2>4 DEF RunGate
<1>10. CASE GateInsert(e)
  <2>1. Step(e) \in GateSteps /\ queue[Step(e)] = <<>> /\ Requested(e, Len(queue[Step(e)]) + 1)
        /\ effectLog' = effectLog
    BY <1>1, <1>10, FieldTypes DEF GateInsert, At, PauseVouched, HasGate, GateWrite, storeVars
  <2> DEFINE row == [decision |-> "pending", hash |-> NoHash]
  <2>2. queue' = [queue EXCEPT ![Step(e)] = Append(queue[Step(e)], row)]
    BY <1>10 DEF GateInsert, InsertGate
  <2>3. queue \in [GateSteps -> Seq(GateRow)] /\ row \in GateRow
    BY DEF TypeInv, TypeOK, GateTypeOK, GateRow, Decisions
  <2> HIDE DEF row
  <2>4. queue'[Step(e)] # <<>> /\ Len(queue'[Step(e)]) = Len(queue[Step(e)]) + 1
    BY <2>1, <2>2, <2>3, AppendProperties
  <2>5. Kept
    BY <1>10, InsertKept
  <2> QED BY <1>6, <1>7, <2>1, <2>4, <2>5
<1>11. CASE GateCheck(e)
  <2>1. queue' = queue /\ Kept /\ run[e].pc = "gate_check"
    BY <1>2, <1>11, QueueKept DEF GateCheck, StoreRead, gateVars, At
  <2>2. CASE Goto(e, "save_pending")
    <3>1. Step(e) \in GateSteps /\ HasGate(Step(e)) /\ run[e].gate = Len(queue[Step(e)])
      BY <1>1, <2>1 DEF PauseVouched, PausingLabels
    <3>2. /\ run'[e].pc = "save_pending" /\ run'[e].back = "resume" /\ run'[e].idx = Step(e)
          /\ run'[e].gate = run[e].gate
      BY <1>1, <2>2, MoveRecords DEF Carried, Step
    <3> QED BY <1>7, <2>1, <3>1, <3>2 DEF HasGate
  <2>3. ASSUME NEW decision, Yield(e, decision, "save_result") PROVE AllVouched'
    BY <1>1, <1>5, <2>1, <2>3, MoveRecords
  <2> QED BY <1>11, <2>2, <2>3 DEF GateCheck
<1> QED BY <1>8, <1>9, <1>10, <1>11 DEF Stepping

LEMMA ActingVouched ==
  ASSUME TypeInv, NEW e, Alone(e), AllVouched, Acting(e)
  PROVE  AllVouched'
<1>1. /\ e \in Engines /\ RowVouched /\ PauseVouched(e) /\ run[e].back = "resume"
  BY AloneFacts
<1>2. /\ queue' = queue /\ effectLog' = effectLog /\ version' = version
      /\ run[e].pc \in AskingLabels \cup {"step"} /\ Step(e) \in ExternalSteps
  <2>1. /\ queue' = queue /\ effectLog' = effectLog /\ version' = version
        /\ run[e].pc \in AskingLabels \/ (run[e].pc = "step" /\ Step(e) \in ExternalSteps)
    BY DEF Acting, RunExternal, RecordIntent, InsertRow, InsertIntent, Submit, MarkSubmitted,
       PollAnswered, PollFails, MarkTerminal, MarkIntent, StoreRead, StoreWrite, storeVars,
       gateVars, At, AskingLabels
  <2> QED BY <1>1, <2>1 DEF PauseVouched
<1>3. status # "paused_approval"
  BY <1>1, <1>2 DEF PauseVouched, PausedLabels, AskingLabels, WritingLabels
<1>4. \/ status' = status /\ current' = current
      \/ status' = "waiting_external_action"
  BY DEF Acting, RunExternal, RecordIntent, InsertRow, InsertIntent, Submit, MarkSubmitted,
     PollAnswered, PollFails, MarkTerminal, MarkIntent, StoreRead, storeVars
<1>5. \A s \in Steps : HasIntent(s)' => HasIntent(s) \/ s \in ExternalSteps
  <2>1. \A s \in Steps : s # Step(e) => intent'[s] = intent[s]
    BY DEF Acting, RunExternal, RecordIntent, InsertRow, InsertIntent, Submit, MarkSubmitted,
       PollAnswered, PollFails, MarkTerminal, MarkIntent, StoreRead, storeVars, TypeInv, TypeOK,
       StoreTypeOK
  <2> QED BY <1>2, <2>1 DEF HasIntent
<1>6. RowVouched'
  BY <1>1, <1>2, <1>3, <1>4, <1>5, QueueKept, RowKept
<1>7. /\ run'[e].back = "resume"
      /\ \/ run'[e].pc \in {"save_result", "raised", "set_hash"}
         \/ run'[e].pc \in AskingLabels /\ run'[e].idx = Step(e)
  <2>1. CASE RunExternal(e) \/ RecordIntent(e) \/ InsertRow(e) \/ Submit(e)
    BY <1>1, <2>1, MoveRecords DEF RunExternal, RecordIntent, InsertRow, Submit, Fresh, Carried,
       Step, AskingLabels
  <2>2. CASE MarkSubmitted(e) \/ PollAnswered(e) \/ PollFails(e) \/ MarkTerminal(e)
    BY <1>1, <2>2, MoveRecords DEF MarkSubmitted, PollAnswered, PollFails, MarkTerminal, Fresh,
       Carried, Step, AskingLabels
  <2> QED BY <2>1, <2>2 DEF Acting
<1>8. status' # "paused_approval"
  BY <1>3, <1>4
<1>9. PauseVouched(e)' /\ DecisionVouched(e)'
  BY <1>2, <1>7, <1>8 DEF PauseVouched, DecisionVouched, Step, AskingLabels, PausingLabels,
     WritingLabels, RulingLabels
<1> QED BY <1>6, <1>9, AloneFacts

LEMMA CallingVouched ==
  ASSUME TypeInv, NEW e, Alone(e), AllVouched,
         Execute(e) \/ Resume(e) \/ Crash(e) \/ Release(e)
  PROVE  AllVouched'
<1>1. /\ e \in Engines /\ RowVouched /\ PauseVouched(e) /\ DecisionVouched(e)
      /\ run[e].back = "resume" /\ Consequential \subseteq GateSteps
  BY AloneFacts
<1>2. queue' = queue /\ UNCHANGED storeVars
  BY DEF Execute, Resume, Crash, Release, StoreRead, gateVars
<1>3. RowVouched' /\ Kept
  <2>1. Kept
    BY <1>2, QueueKept DEF storeVars
  <2> QED BY <1>1, <1>2, <2>1, RowKept DEF HasIntent, storeVars
<1>4. ASSUME run'[e].pc \in LooseLabels, run'[e].back = "resume",
             status = "paused_approval" => run'[e].pc = "idle"
      PROVE  AllVouched'
  BY <1>1, <1>2, <1>3, <1>4, AloneFacts, LooseVouched DEF PausedLabels, storeVars
<1>5. CASE Execute(e)
  <2>1. Fresh(e, "mark_running") /\ status # "paused_approval"
    BY <1>1, <1>5, MoveRecords DEF Execute, Alone
  <2> QED BY <1>4, <2>1 DEF Fresh, LooseLabels
<1>6. CASE Crash(e)
  <2>1. Fresh(e, "idle")
    BY <1>1, <1>6, MoveRecords DEF Crash
  <2> QED BY <1>4, <2>1 DEF Fresh, LooseLabels
<1>7. CASE Release(e)
  <2>1. run' = run /\ run[e].pc = "idle"
    BY <1>7 DEF Release, At
  <2> QED BY <1>1, <1>4, <2>1 DEF LooseLabels
<1>8. CASE Resume(e)
  <2>1. ASSUME NEW label, Becomes(e, [Idle EXCEPT !.pc = label, !.at = current])
        PROVE  run'[e].pc = label /\ run'[e].back = "resume" /\ run'[e].at = current
    <3>1. run'[e] = [Idle EXCEPT !.pc = label, !.at = current]
      BY <1>1, <2>1, MoveFields
    <3> QED BY <3>1 DEF Idle
  <2>2. CASE /\ status = "waiting_external_action"
             /\ Becomes(e, [Idle EXCEPT !.pc = "check_wait", !.at = current])
    BY <1>4, <2>1, <2>2 DEF LooseLabels
  <2>3. CASE /\ status = "paused_approval"
             /\ Becomes(e, [Idle EXCEPT !.pc = "check_definition", !.at = current])
    <3>1. run'[e].pc = "check_definition" /\ run'[e].back = "resume" /\ run'[e].at = current
      BY <2>1, <2>3
    <3>2. current \in Consequential => Stamped(current)'
      BY <1>1, <1>2, <2>3 DEF RowVouched, Stamped, HasGate, Latest, storeVars
    <3>3. PauseVouched(e)' /\ DecisionVouched(e)'
      BY <1>2, <3>1, <3>2 DEF PauseVouched, DecisionVouched, Gate, PausedLabels, AskingLabels,
         PausingLabels, WritingLabels, RulingLabels, Stamped, HasGate, Latest, storeVars
    <3> QED BY <1>3, <3>3, AloneFacts
  <2>4. CASE /\ status = "approved"
             /\ Becomes(e, [Idle EXCEPT !.pc = "read_decision", !.at = current])
    <3>1. run'[e].pc = "read_decision" /\ run'[e].back = "resume" /\ run'[e].at = current
      BY <2>1, <2>4
    <3>2. current \in Consequential => Settled(current)
      BY <1>1, <2>4 DEF RowVouched
    <3>3. \A g \in GateSteps : Settled(g) => Settled(g)'
      BY <1>3, KeptRules
    <3>4. PauseVouched(e)'
      BY <1>2, <2>4, <3>1 DEF PauseVouched, AskingLabels, PausingLabels, storeVars
    <3>5. DecisionVouched(e)'
      BY <1>1, <1>2, <3>1, <3>2, <3>3 DEF DecisionVouched, Gate, WritingLabels, RulingLabels,
         storeVars
    <3> QED BY <1>3, <3>4, <3>5, AloneFacts
  <2>5. CASE /\ status \notin {"waiting_external_action", "paused_approval", "approved"}
             /\ Enter(e, "mark_running", current + 1)
    <3>1. Fresh(e, "mark_running")
      BY <1>1, <2>5, MoveRecords
    <3> QED BY <1>4, <2>5, <3>1 DEF Fresh, LooseLabels
  <2> QED BY <1>8, <2>2, <2>3, <2>4, <2>5 DEF Resume
<1> QED BY <1>5, <1>6, <1>7, <1>8

\* An operator decides a pending gate, and edits no decided one.
LEMMA DecideKeeps ==
  ASSUME TypeInv, ~Redecide, Decide
  PROVE  /\ Kept
         /\ \A g \in GateSteps :
              /\ HasGate(g)' <=> HasGate(g)
              /\ Len(queue'[g]) = Len(queue[g])
              /\ Latest(g)'.hash = Latest(g).hash \/ ~HasGate(g)
<1>1. PICK h \in GateSteps : \E i \in 1 .. Len(queue[h]) :
        queue[h][i].decision = "pending" /\ (Approve(h, i) \/ Reject(h, i))
  BY DEF Decide
<1>2. PICK i \in 1 .. Len(queue[h]) :
        queue[h][i].decision = "pending" /\ (Approve(h, i) \/ Reject(h, i))
  BY <1>1
<1>3. PICK decision \in {"approved", "rejected"} :
        queue' = [queue EXCEPT ![h] =
                    [queue[h] EXCEPT ![i] = [queue[h][i] EXCEPT !.decision = decision]]]
  BY <1>2 DEF Approve, Reject
<1> DEFINE row == [queue[h][i] EXCEPT !.decision = decision]
<1>4. row \in GateRow /\ row.hash = queue[h][i].hash
  BY RowIsTyped DEF GateRow, Decisions
<1>5. queue' = [queue EXCEPT ![h] = [queue[h] EXCEPT ![i] = row]]
  BY <1>3
<1> HIDE DEF row
<1>6. \A g \in GateSteps :
        /\ HasGate(g)' <=> HasGate(g)
        /\ Len(queue'[g]) = Len(queue[g])
        /\ g # h => Latest(g)' = Latest(g)
        /\ g = h => Latest(g)' = IF i = Len(queue[h]) THEN row ELSE Latest(h)
  BY <1>4, <1>5, RowEdited
<1>7. \A g \in GateSteps : /\ Latest(g)'.hash = Latest(g).hash
                           /\ Latest(g)' = Latest(g) \/ Latest(g).decision = "pending"
  BY <1>2, <1>4, <1>6 DEF Latest
<1>8. effectLog' = effectLog
  BY DEF Decide, storeVars
<1>9. Kept
  BY <1>6, <1>7, <1>8 DEF Kept, Stamped, Ruled
<1> QED BY <1>6, <1>7, <1>9

LEMMA EnvironmentVouched ==
  ASSUME TypeInv, NEW e, Alone(e), AllVouched,
         Decide \/ DetectSelect \/ DetectUpdate \/ GatewayDecides \/ UNCHANGED vars
  PROVE  AllVouched'
<1>1. /\ e \in Engines /\ RowVouched /\ PauseVouched(e) /\ DecisionVouched(e)
      /\ Consequential \subseteq GateSteps
  BY AloneFacts
<1>2. /\ run' = run /\ version' = version /\ effectLog' = effectLog /\ intent' = intent
      /\ current' = current /\ (status' = status \/ status' = "crashed")
  BY DEF Decide, DetectSelect, DetectUpdate, UpdateStatus, GatewayDecides, vars, storeVars, envVars
<1>3. /\ Kept
      /\ \A g \in GateSteps :
           /\ HasGate(g)' <=> HasGate(g)
           /\ Len(queue'[g]) = Len(queue[g])
           /\ Latest(g)'.hash = Latest(g).hash \/ ~HasGate(g)
  <2>1. CASE Decide
    BY <2>1, DecideKeeps DEF Alone
  <2>2. CASE queue' = queue
    <3>1. Kept
      BY <1>2, <2>2, QueueKept
    <3> QED BY <2>2, <3>1 DEF HasGate, Latest
  <2>3. Decide \/ queue' = queue
    BY DEF DetectSelect, DetectUpdate, GatewayDecides, vars, gateVars
  <2> QED BY <2>1, <2>2, <2>3
<1>4. RowVouched'
  BY <1>1, <1>2, <1>3, RowKept DEF HasIntent
<1>5. /\ \A g \in GateSteps : Stamped(g) => Stamped(g)'
      /\ \A g \in GateSteps : Ruled(g) => Ruled(g)' /\ Latest(g)'.decision = Latest(g).decision
      /\ \A g \in GateSteps : Settled(g) => Settled(g)'
      /\ \A g \in GateSteps : Vouched(g, e) => Vouched(g, e)'
  BY <1>2, <1>3, KeptRules DEF Vouched
<1>6. PauseVouched(e)'
  <2>1. run[e].pc = "gate_insert" => Step(e) \in GateSteps
    BY <1>1, FieldTypes
  <2> QED BY <1>1, <1>2, <1>3, <1>5, <2>1 DEF PauseVouched, Step
<1>7. DecisionVouched(e)'
  BY <1>1, <1>2, <1>5 DEF DecisionVouched, Gate
<1> QED BY <1>4, <1>6, <1>7, AloneFacts

LEMMA InitVouched ==
  ASSUME NEW e, Alone(e), Init
  PROVE  AllVouched
<1>1. run[e] = Idle /\ e \in Engines
  BY DEF Init, Alone
<1>2. RowVouched
  BY DEF Init, CreateWorkflow, RowVouched, HasIntent
<1>3. PauseVouched(e) /\ DecisionVouched(e)
  BY <1>1 DEF PauseVouched, DecisionVouched, Idle, PausedLabels, AskingLabels, PausingLabels,
     WritingLabels, RulingLabels
<1> QED BY <1>2, <1>3 DEF AllVouched, Alone

LEMMA NextVouched ==
  ASSUME NEW e, Alone(e), TypeInv, AllVouched, [Next]_vars
  PROVE  AllVouched'
<1>1. Engines = {e}
  BY DEF Alone
<1> QED BY <1>1, DecidingVouched, LoopingVouched, SteppingVouched, ActingVouched,
       CallingVouched, EnvironmentVouched DEF Next, Work

\* A write is executed under the definition its approval was asked for: whoever resumes a
\* paused workflow compares them, and only a write that is already in the log gets past the
\* comparison unmatched (engine.py resume, _definition_is_stale).
THEOREM WritesVouchedFor ==
  ASSUME NEW e, Alone(e)
  PROVE  Spec => []WriteUnderApprovedDefinition
<1>1. Init => AllVouched
  BY InitVouched
<1>2. TypeInv /\ AllVouched /\ [Next]_vars => AllVouched'
  BY NextVouched
<1>3. AllVouched => WriteUnderApprovedDefinition
  BY DEF AllVouched, DecisionVouched, Vouched, WriteUnderApprovedDefinition, At
<1> QED BY <1>1, <1>2, <1>3, InitTypes, NextTypes, PTL DEF Spec
-----------------------------------------------------------------------------

(* The order of the rows while one engine runs undisturbed: what the other *)
(* four invariants of WorkflowProperties need.                             *)

\* One engine whose writes land at once, that sees the gate, beside no crash detector; and a
\* send's key is no other step's.
Undisturbed(e) ==
  /\ Alone(e) /\ ~SavesOverlap /\ ~MonitorOn /\ GateWired
  /\ \A s \in SendSteps, t \in EffectSteps : KeyOf[s] = KeyOf[t] => s = t

Verdicts == {"approved", "rejected"}
Answered == {"confirmed", "denied", "skipped"}

\* A step that needs nothing more: no open gate, no terminating rejection, no external action
\* without its outcome.
Finished(s) ==
  /\ s \in GateSteps => /\ stepData[s] # "pending"
                        /\ stepData[s] = "rejected" => s \in ContinueSteps \cup RecheckSteps
  /\ s \in ExternalSteps => stepData[s] \in Answered

Unfinished == crashes = 0 /\ current \in Steps /\ ~Finished(current)

\* What each status says of the step current_step points at.
StatusFits(new) ==
  /\ new \in {"paused_approval", "approved"} => current \in GateSteps /\ HasGate(current)
  /\ new = "waiting_external_action" => current \in Steps /\ HasIntent(current)
  /\ new = "completed" => current = N - 1

\* Nothing beyond current_step has a trace; without a crash nothing before it is unfinished.
FrontierHolds ==
  /\ current < N /\ StatusFits(status)
  /\ \A s \in Steps : s > current => stepData[s] = "absent" /\ ~HasIntent(s)
  /\ crashes = 0 => \A s \in Steps : s < current => Finished(s)

\* A gate that was passed has an output, and a verdict there is the operator's.
VerdictsStand ==
  /\ \A g \in GateSteps : g <= current => stepData[g] \in GateOutputs
  /\ \A g \in GateSteps : stepData[g] \in Verdicts =>
       Ruled(g) /\ stepData[g] = Latest(g).decision

\* A logged send was approved and is the next result to save, or saved as sent.
SendsReplay ==
  \A s \in SendSteps : KeyOf[s] \in effectLog =>
    /\ draft /\ stepData[ApprovalFor[s]] = "approved" /\ s <= current + 1
    /\ s <= current => stepData[s] = "sent"

RowsInPlace == FrontierHolds /\ VerdictsStand /\ SendsReplay /\ monitor = "idle"

\* The labels on the way from one step of the workflow to the next.
AskedLabels == {"submit", "mark_submitted", "poll", "mark_terminal", "set_hash", "mark_waiting"}
ForwardLabels ==
  {"mark_running", "loop", "step", "gate_insert", "gate_check", "save_pending", "send_log",
   "raised", "save_result", "record_intent", "insert_intent"} \cup AskedLabels
ReadingLabels == {"check_definition", "read_decision"}

\* The engine is at the step after current_step, or at that step again: it is
\* asking for the answer there, or its gate was still open.
Onward(e) ==
  \/ Step(e) = current + 1
  \/ /\ Step(e) = current /\ current \in Steps
     /\ HasIntent(current) \/ (current \in GateSteps /\ stepData[current] \notin Verdicts)

WellPlaced(e) ==
  /\ run[e].pc \in ForwardLabels => Onward(e)
  /\ run[e].pc \in ForwardLabels \ {"mark_running", "loop"} => Step(e) \in Steps
  /\ run[e].pc = "reload" => Onward(e) \/ status = "rejected"
  /\ run[e].pc \in {"check_wait", "step", "record_intent", "insert_intent"}
                   \cup ReadingLabels \cup WritingLabels \cup RulingLabels => Gate(e) = current
  /\ run[e].pc \in ReadingLabels \cup {"mark_paused"} => current \in GateSteps /\ HasGate(current)
  /\ run[e].pc = "check_wait" => current \in Steps /\ HasIntent(current)
  /\ run[e].pc \in AskedLabels => HasIntent(Step(e))
  /\ run[e].pc = "raised" =>
       Step(e) \notin GateSteps /\ (Step(e) \in ExternalSteps => HasIntent(Step(e)))
  /\ run[e].pc = "gate_check" => Step(e) \in RecheckSteps
  /\ run[e].pc # "idle" => status # "completed"

\* The verdict or outcome it carries is the one its step is to have.
Carries(e) ==
  /\ run[e].pc = "step" /\ Step(e) \in SendSteps => run[e].seen = stepData[ApprovalFor[Step(e)]]
  /\ run[e].pc = "send_log" => draft /\ stepData[ApprovalFor[Step(e)]] = "approved"
  /\ run[e].pc \in {"mark_terminal", "save_result"} /\ Step(e) \in ExternalSteps =>
       run[e].out \in Answered
  /\ run[e].pc = "save_result" /\ Step(e) \in GateSteps =>
       /\ Step(e) \in RecheckSteps
       /\ \/ run[e].out = "skipped"
          \/ run[e].out \in Verdicts /\ Ruled(Step(e)) /\ Latest(Step(e)).decision = run[e].out
  /\ run[e].pc = "save_result" /\ Step(e) \in SendSteps /\ KeyOf[Step(e)] \in effectLog =>
       run[e].out = "sent"
  /\ run[e].pc \in {"mark_decided", "mark_continued"} => stepData[current] = run[e].out
  /\ run[e].pc = "mark_continued" => run[e].out = "rejected" /\ current \in ContinueSteps

\* An unfinished step holds the engine: it works on that step, or the row says why it stopped.
Halted == {"paused_approval", "waiting_external_action", "stale_definition", "rejected"}
Held(e) ==
  Unfinished =>
    /\ run[e].pc \in ForwardLabels => Step(e) = current
    /\ run[e].pc = "reload" => Step(e) = current \/ status = "rejected"
    /\ run[e].pc \in {"idle"} \cup ReadingLabels \cup WritingLabels => status \in Halted

InPlace(e) == WellPlaced(e) /\ Carries(e) /\ Held(e)

Orderly == RowsInPlace /\ \A e \in Engines : InPlace(e)

LEMMA OrderlyFacts ==
  ASSUME TypeInv, NEW e, Undisturbed(e), AllVouched, Orderly
  PROVE  /\ e \in Engines /\ RowVouched /\ PauseVouched(e) /\ DecisionVouched(e)
         /\ run[e].back = "resume" /\ InPlace(e) /\ RowsInPlace
         /\ RowsInPlace' /\ InPlace(e)' => Orderly'
         /\ Alone(e) /\ ~SavesOverlap /\ ~MonitorOn /\ GateWired
BY AloneFacts DEF Undisturbed, Orderly, Alone

\* Steps after which the rows are in place still: they save nothing and log no effect.
LEMMA RowsStay ==
  ASSUME TypeInv, RowsInPlace, Kept, current' = current, stepData' = stepData,
         effectLog' = effectLog, draft' = draft, monitor' = monitor,
         crashes' = crashes \/ crashes' # 0,
         \A s \in Steps : HasIntent(s)' <=> HasIntent(s),
         status' = status \/ StatusFits(status')
  PROVE  RowsInPlace' /\ (Unfinished' => Unfinished)
<1>1. \A g \in GateSteps : /\ HasGate(g) => HasGate(g)'
                           /\ Ruled(g) => Ruled(g)' /\ Latest(g)'.decision = Latest(g).decision
  BY KeptRules DEF Kept
<1>2. \A s \in Steps : Finished(s)' <=> Finished(s)
  BY DEF Finished
<1>3. StatusFits(status')
  BY DEF RowsInPlace, FrontierHolds
<1>4. StatusFits(status)'
  BY <1>1, <1>3 DEF StatusFits
<1>5. FrontierHolds'
  BY <1>2, <1>4 DEF RowsInPlace, FrontierHolds
<1>6. VerdictsStand'
  BY <1>1 DEF RowsInPlace, VerdictsStand
<1>7. SendsReplay'
  BY DEF RowsInPlace, SendsReplay
<1> QED BY <1>2, <1>5, <1>6, <1>7 DEF RowsInPlace, Unfinished

\* An engine that stops.
LEMMA IdleInPlace ==
  ASSUME NEW e, run'[e].pc \in {"idle", "mark_stale"}, Unfinished' => status' \in Halted,
         status' = "completed" => run'[e].pc = "idle"
  PROVE  InPlace(e)'
BY DEF InPlace, WellPlaced, Carries, Held, ForwardLabels, AskedLabels, ReadingLabels, WritingLabels,
   RulingLabels

\* An engine on its way to a step.
LEMMA RunningInPlace ==
  ASSUME NEW e, run'[e].pc \in {"mark_running", "loop", "gate_insert", "save_pending"},
         run'[e].pc \in {"gate_insert", "save_pending"} => run'[e].idx \in Steps,
         Onward(e)', status' # "completed", Unfinished' => run'[e].idx = current'
  PROVE  InPlace(e)'
BY DEF InPlace, WellPlaced, Carries, Held, ForwardLabels, AskedLabels, ReadingLabels, WritingLabels,
   RulingLabels, Step

\* An engine that works on the same step.
LEMMA OnwardStays ==
  ASSUME NEW e, InPlace(e), run[e].pc \in ForwardLabels, run'[e].pc \in ForwardLabels,
         run'[e].idx = Step(e), current' = current, stepData' = stepData, crashes' = crashes,
         status' = status, \A s \in Steps : HasIntent(s)' <=> HasIntent(s)
  PROVE  /\ Onward(e)' /\ Held(e)' /\ status' # "completed"
         /\ run[e].pc \in {"mark_running", "loop"} \/ run'[e].idx \in Steps
<1>1. Onward(e) /\ status # "completed" /\ (Unfinished => Step(e) = current)
  BY DEF InPlace, WellPlaced, Held, ForwardLabels, AskedLabels
<1>2. Onward(e)'
  BY <1>1 DEF Onward, Step
<1>3. Unfinished' => Unfinished
  BY DEF Unfinished, Finished
<1>4. Held(e)'
  BY <1>1, <1>3 DEF Held, Step, ForwardLabels, AskedLabels, ReadingLabels, WritingLabels
<1>5. run[e].pc \in {"mark_running", "loop"} \/ run'[e].idx \in Steps
  BY DEF InPlace, WellPlaced
<1> QED BY <1>1, <1>2, <1>4, <1>5

LEMMA LatestTyped ==
  ASSUME TypeInv, NEW g \in GateSteps, HasGate(g)
  PROVE  Latest(g).decision \in {"pending", "approved", "rejected"}
<1>1. queue[g] \in Seq(GateRow)
  BY DEF TypeInv, TypeOK, GateTypeOK
<1>2. Len(queue[g]) \in 1 .. Len(queue[g])
  BY <1>1, EmptySeq, LenProperties DEF HasGate
<1>3. queue[g][Len(queue[g])] \in GateRow
  BY <1>1, <1>2, ElementOfSeq
<1> QED BY <1>3 DEF Latest, GateRow, Decisions

LEMMA CallingOrderly ==
  ASSUME TypeInv, NEW e, Undisturbed(e), AllVouched, Orderly,
         Execute(e) \/ Resume(e) \/ Crash(e) \/ Release(e)
  PROVE  Orderly'
<1>1. /\ e \in Engines /\ InPlace(e) /\ RowsInPlace /\ Alone(e)
  BY OrderlyFacts
<1>2. /\ queue' = queue /\ UNCHANGED storeVars /\ draft' = draft /\ monitor' = monitor
      /\ crashes' = crashes \/ (Crash(e) /\ crashes' = crashes + 1)
  BY DEF Execute, Resume, Crash, Release, StoreRead, gateVars, envVars
<1>3. RowsInPlace' /\ (Unfinished' => Unfinished)
  <2>1. Kept
    BY <1>2, QueueKept DEF storeVars
  <2>2. crashes' = crashes \/ crashes' # 0
    BY <1>2 DEF TypeInv, TypeOK
  <2> QED BY <1>1, <1>2, <2>1, <2>2, RowsStay DEF HasIntent, storeVars
<1>4. CASE Crash(e)
  <2>1. crashes' # 0
    BY <1>4 DEF Crash, TypeInv, TypeOK
  <2>2. run'[e].pc = "idle"
    BY <1>1, <1>4, MoveFields DEF Crash
  <2>3. InPlace(e)'
    BY <2>1, <2>2, IdleInPlace DEF Unfinished
  <2> QED BY <1>3, <2>3, OrderlyFacts
<1>5. CASE Release(e)
  <2>1. run' = run /\ run[e].pc = "idle"
    BY <1>5 DEF Release, At
  <2>2. Unfinished => status \in Halted
    BY <1>1, <2>1 DEF InPlace, Held
  <2>3. InPlace(e)'
    BY <1>2, <1>3, <2>1, <2>2, IdleInPlace DEF storeVars
  <2> QED BY <1>3, <2>3, OrderlyFacts
<1>6. ASSUME Execute(e) \/ Resume(e) PROVE /\ run[e].pc = "idle" /\ status \notin Closed
                                           /\ Unfinished => status \in Halted
  BY <1>1, <1>6 DEF Execute, Resume, At, InPlace, Held
<1>7. ASSUME Execute(e) \/ Resume(e), Enter(e, "mark_running", current + 1),
             status \notin {"waiting_external_action", "paused_approval"}
      PROVE  Orderly'
  <2>1. run'[e].pc = "mark_running" /\ run'[e].idx = current + 1
    BY <1>1, <1>7, MoveFields
  <2>2. ~Unfinished /\ status \notin Closed
    BY <1>6, <1>7 DEF Halted, Closed
  <2>3. Onward(e)' /\ status' # "completed"
    BY <1>2, <2>1, <2>2 DEF Onward, Step, Closed, storeVars
  <2>4. InPlace(e)'
    BY <1>3, <2>1, <2>2, <2>3, RunningInPlace
  <2> QED BY <1>3, <2>4, OrderlyFacts
<1>8. CASE Execute(e)
  BY <1>1, <1>7, <1>8 DEF Execute, Alone
<1>9. CASE Resume(e)
  <2>1. ASSUME NEW label \in {"check_wait", "check_definition", "read_decision"},
               Becomes(e, [Idle EXCEPT !.pc = label, !.at = current]),
               label = "check_wait" => status = "waiting_external_action",
               label # "check_wait" => status \in {"paused_approval", "approved"}
        PROVE  Orderly'
    <3>1. run'[e].pc = label /\ run'[e].at = current
      <4>1. run'[e] = [Idle EXCEPT !.pc = label, !.at = current]
        BY <1>1, <2>1, MoveFields
      <4> QED BY <4>1 DEF Idle
    <3>2. Unfinished => status \in Halted
      BY <1>6, <1>9
    <3>3. StatusFits(status)
      BY <1>1 DEF RowsInPlace, FrontierHolds
    <3>4. label = "check_wait" => current \in Steps /\ HasIntent(current)
      BY <2>1, <3>3 DEF StatusFits
    <3>5. label # "check_wait" => current \in GateSteps /\ HasGate(current)
      BY <2>1, <3>3 DEF StatusFits
    <3>6. WellPlaced(e)'
      BY <1>2, <2>1, <3>1, <3>4, <3>5 DEF WellPlaced, ForwardLabels, AskedLabels, ReadingLabels,
         WritingLabels, RulingLabels, Gate, HasGate, HasIntent, storeVars
    <3>7. Carries(e)'
      BY <2>1, <3>1 DEF Carries
    <3>8. Held(e)'
      BY <1>2, <1>3, <2>1, <3>1, <3>2 DEF Held, ForwardLabels, AskedLabels, storeVars
    <3> QED BY <1>3, <3>6, <3>7, <3>8, OrderlyFacts DEF InPlace
  <2> QED BY <1>7, <1>9, <2>1 DEF Resume
<1> QED BY <1>4, <1>5, <1>8, <1>9

\* The verdicts a gate has are kept by whoever decides another one.
LEMMA EnvironmentOrderly ==
  ASSUME TypeInv, NEW e, Undisturbed(e), AllVouched, Orderly,
         Decide \/ DetectSelect \/ DetectUpdate \/ GatewayDecides \/ UNCHANGED vars
  PROVE  Orderly'
<1>1. /\ e \in Engines /\ InPlace(e) /\ RowsInPlace /\ Alone(e) /\ ~MonitorOn
      /\ PauseVouched(e)
  BY OrderlyFacts
<1>2. ~DetectSelect /\ ~DetectUpdate
  BY <1>1 DEF DetectSelect, DetectUpdate, RowsInPlace
<1>3. /\ UNCHANGED storeVars /\ draft' = draft /\ monitor' = monitor /\ crashes' = crashes
      /\ run' = run
  BY <1>2 DEF Decide, GatewayDecides, vars, envVars
<1>4. Kept
  <2>1. Decide \/ queue' = queue
    BY <1>2 DEF GatewayDecides, vars, gateVars
  <2> QED BY <1>1, <1>3, <2>1, DecideKeeps, QueueKept DEF Alone, storeVars
<1>5. RowsInPlace'
  BY <1>1, <1>3, <1>4, RowsStay DEF HasIntent, storeVars
<1>6. /\ \A g \in GateSteps : HasGate(g) => HasGate(g)'
      /\ \A g \in GateSteps : Ruled(g) => Ruled(g)' /\ Latest(g)'.decision = Latest(g).decision
  BY <1>4, KeptRules DEF Kept
<1>7. WellPlaced(e)'
  BY <1>1, <1>3, <1>6 DEF InPlace, WellPlaced, Onward, Step, Gate, HasIntent, storeVars
<1>8. Carries(e)'
  BY <1>1, <1>3, <1>6 DEF InPlace, Carries, Step, storeVars
<1>9. Held(e)'
  BY <1>1, <1>3 DEF InPlace, Held, Unfinished, Finished, Step, storeVars
<1> QED BY <1>5, <1>7, <1>8, <1>9, OrderlyFacts DEF InPlace

\* A checkpoint of the engine's own step: current_step moves on by one, or stays.
LEMMA SavedInPlace ==
  ASSUME TypeInv, RowsInPlace, NEW s \in Steps, NEW output \in Outputs,
         SaveCheckpoint(s, output, stepData), queue' = queue, draft' = draft,
         monitor' = monitor, crashes' = crashes,
         s = current \/ (s = current + 1 /\ ~Unfinished),
         s \in GateSteps => output \in GateOutputs /\ (stepData[s] = "approved" => output = "approved"),
         s \in GateSteps /\ output \in Verdicts => Ruled(s) /\ Latest(s).decision = output,
         s \in SendSteps => s # current /\ (KeyOf[s] \in effectLog => output = "sent")
  PROVE  /\ RowsInPlace' /\ current' = s /\ stepData'[s] = output /\ status' = "running"
         /\ \A t \in Steps : HasIntent(t)' <=> HasIntent(t)
         /\ \A t \in Steps \ {s} : stepData'[t] = stepData[t]
<1>1. /\ current' = s /\ status' = "running" /\ effectLog' = effectLog /\ intent' = intent
      /\ stepData'[s] = output /\ \A t \in Steps \ {s} : stepData'[t] = stepData[t]
  BY DEF SaveCheckpoint, TypeInv, TypeOK, StoreTypeOK
<1>2. /\ s \in Nat /\ s < N /\ Steps \subseteq Nat /\ N \in Nat /\ GateSteps \subseteq Steps
      /\ SendSteps \subseteq Steps /\ GateSteps \cap SendSteps = {} /\ current \in Nat \cup {-1}
  BY StoreAssumption, KindsDisjoint DEF Steps, TypeInv, TypeOK, StoreTypeOK
<1>3. \A t \in Steps \ {s} : Finished(t)' <=> Finished(t)
  BY <1>1 DEF Finished
<1>4. FrontierHolds'
  <2>1. \A t \in Steps : t > s => stepData'[t] = "absent" /\ ~HasIntent(t)'
    <3> SUFFICES ASSUME NEW t \in Steps, t > s PROVE stepData'[t] = "absent" /\ ~HasIntent(t)'
      OBVIOUS
    <3>1. t \in Nat /\ t > current /\ t # s
      BY <1>2
    <3> QED BY <1>1, <3>1 DEF RowsInPlace, FrontierHolds, HasIntent
  <2>2. ASSUME crashes' = 0, NEW t \in Steps, t < s PROVE Finished(t)'
    <3>1. t \in Nat /\ t # s /\ (t < current \/ (t = current /\ ~Unfinished))
      BY <1>2, <2>2
    <3>2. Finished(t)
      BY <2>2, <3>1 DEF RowsInPlace, FrontierHolds, Unfinished
    <3> QED BY <1>3, <3>1, <3>2
  <2>3. StatusFits(status)'
    BY <1>1 DEF StatusFits
  <2> QED BY <1>1, <1>2, <2>1, <2>2, <2>3 DEF FrontierHolds
<1>5. VerdictsStand'
  <2> SUFFICES ASSUME NEW g \in GateSteps
               PROVE  /\ g <= s => stepData'[g] \in GateOutputs
                      /\ stepData'[g] \in Verdicts =>
                           Ruled(g) /\ stepData'[g] = Latest(g).decision
    BY <1>1 DEF VerdictsStand, Ruled, HasGate, Latest
  <2>1. CASE g = s
    BY <1>1, <2>1
  <2>2. CASE g # s
    <3>1. g \in Nat /\ stepData'[g] = stepData[g] /\ (g <= s => g <= current)
      BY <1>1, <1>2, <2>2
    <3> QED BY <3>1 DEF RowsInPlace, VerdictsStand
  <2> QED BY <2>1, <2>2
<1>6. SendsReplay'
  <2> SUFFICES ASSUME NEW t \in SendSteps, KeyOf[t] \in effectLog
               PROVE  /\ draft /\ stepData'[ApprovalFor[t]] = "approved" /\ t <= s + 1
                      /\ t <= s => stepData'[t] = "sent"
    BY <1>1 DEF SendsReplay
  <2> DEFINE a == ApprovalFor[t]
  <2>1. /\ draft /\ stepData[a] = "approved" /\ t <= current + 1
        /\ t <= current => stepData[t] = "sent"
    BY DEF RowsInPlace, SendsReplay
  <2>2. a \in GateSteps /\ t \in Nat /\ t \in Steps
    BY <1>2, EngineAssumption
  <2> HIDE DEF a
  <2>3. stepData'[a] = "approved"
    BY <1>1, <1>2, <2>1, <2>2
  <2>4. t <= s => stepData'[t] = "sent"
    BY <1>1, <1>2, <2>1, <2>2
  <2>5. t <= s + 1
    BY <1>2, <2>1, <2>2
  <2> QED BY <2>1, <2>3, <2>4, <2>5 DEF a
<1> QED BY <1>1, <1>4, <1>5, <1>6 DEF RowsInPlace, HasIntent

LEMMA DecidingOrderly ==
  ASSUME TypeInv, NEW e, Undisturbed(e), AllVouched, Orderly, Deciding(e)
  PROVE  Orderly'
<1>1. /\ e \in Engines /\ InPlace(e) /\ RowsInPlace /\ Alone(e) /\ run[e].back = "resume"
      /\ DecisionVouched(e) /\ ~SavesOverlap /\ GateWired
  BY OrderlyFacts
<1>2. /\ queue' = queue /\ intent' = intent /\ draft' = draft /\ monitor' = monitor
      /\ crashes' = crashes /\ effectLog \subseteq effectLog'
  BY DEF Deciding, ReadDecision, CommitCheck, CommitExecute, CommitLog, LogSideEffect,
     SaveDecision, Save, SaveCheckpoint, MarkDecided, MarkContinued, UpdateStatus, Reload,
     StoreRead, StoreWrite, storeVars, gateVars, envVars
<1>3. Kept /\ \A s \in Steps : HasIntent(s)' <=> HasIntent(s)
  BY <1>2, QueueKept DEF HasIntent
<1>4. ASSUME current' = current, stepData' = stepData, effectLog' = effectLog,
             status' = status \/ StatusFits(status')
      PROVE  RowsInPlace' /\ (Unfinished' => Unfinished)
  BY <1>1, <1>2, <1>3, <1>4, RowsStay
<1>5. /\ \A g : HasGate(g)' = HasGate(g) /\ Ruled(g)' = Ruled(g) /\ Latest(g)' = Latest(g)
      /\ Steps \subseteq Nat /\ GateSteps \subseteq Steps /\ current \in Nat \cup {-1} /\ N \in Nat
      /\ GateSteps \cap ExternalSteps = {} /\ GateSteps \cap SendSteps = {}
  BY <1>2, StepsAreNat, KindsDisjoint DEF HasGate, Ruled, Latest, TypeInv, TypeOK, StoreTypeOK
<1>6. CASE ReadDecision(e)
  <2>1. /\ UNCHANGED storeVars /\ run[e].pc = "read_decision" /\ Gate(e) = current
        /\ current \in GateSteps /\ HasGate(current) /\ status # "completed"
        /\ Unfinished => status \in Halted
    BY <1>1, <1>6 DEF ReadDecision, StoreRead, At, InPlace, WellPlaced, Held, ReadingLabels
  <2>2. RowsInPlace' /\ (Unfinished' => Unfinished)
    BY <1>4, <2>1 DEF storeVars
  <2>3. CASE Latest(current).decision = "pending" /\ Back(e, current)
    <3>1. run'[e].pc = "reload" /\ run'[e].idx = current
      BY <1>1, <2>3, MoveFields DEF Back
    <3>2. stepData[current] \notin Verdicts
      BY <1>1, <2>1, <2>3 DEF RowsInPlace, VerdictsStand, Ruled
    <3>3. Onward(e)'
      BY <1>5, <2>1, <3>1, <3>2 DEF Onward, Step, storeVars
    <3>4. InPlace(e)'
      BY <2>1, <3>1, <3>3 DEF InPlace, WellPlaced, Carries, Held, Step, ForwardLabels, AskedLabels,
         ReadingLabels, WritingLabels, RulingLabels, storeVars
    <3> QED BY <2>2, <3>4, OrderlyFacts
  <2>4. ASSUME NEW output, NEW label \in {"commit_check", "save_decision"},
               Becomes(e, [run[e] EXCEPT !.out = output, !.pc = label])
        PROVE  Orderly'
    <3>1. run'[e] = [run[e] EXCEPT !.out = output, !.pc = label] /\ run[e] \in Call
      BY <1>1, <2>4, MoveFields DEF TypeInv, TypeOK
    <3>2. run'[e].pc = label /\ run'[e].at = Gate(e)
      BY <3>1 DEF Call, Gate
    <3>3. InPlace(e)'
      BY <2>1, <2>2, <2>4, <3>2 DEF InPlace, WellPlaced, Carries, Held, Gate, ForwardLabels,
         AskedLabels, ReadingLabels, WritingLabels, RulingLabels, storeVars
    <3> QED BY <2>2, <3>3, OrderlyFacts
  <2>5. ~(current >= N) /\ current \in GateSteps /\ HasGate(current)
    BY <1>1, <1>5, <2>1 DEF RowsInPlace, FrontierHolds
  <2>6. \/ Latest(current).decision = "pending" /\ Back(e, current)
        \/ Becomes(e, [run[e] EXCEPT !.out = "rejected", !.pc = "save_decision"])
        \/ Becomes(e, [run[e] EXCEPT !.out = "approved",
                         !.pc = IF current \in CommitSteps
                                THEN "commit_check" ELSE "save_decision"])
    BY <1>1, <1>6, <2>1, <2>5 DEF ReadDecision
  <2> QED BY <2>3, <2>4, <2>6
<1>7. CASE CommitCheck(e) \/ CommitExecute(e) \/ CommitLog(e)
  <2>1. /\ status' = status /\ current' = current /\ stepData' = stepData /\ Gate(e) = current
        /\ run[e].pc \in WritingLabels /\ status # "completed"
        /\ Unfinished => status \in Halted
    BY <1>1, <1>7 DEF CommitCheck, CommitExecute, CommitLog, LogSideEffect, StoreRead, storeVars,
       At, WritingLabels, InPlace, WellPlaced, Held
  <2>2. RowsInPlace' /\ (Unfinished' => Unfinished)
    <3>1. CASE effectLog' = effectLog
      BY <1>4, <2>1, <3>1
    <3>2. CASE CommitLog(e) /\ effectLog' = effectLog \cup {KeyOf[Gate(e)]}
      <4>1. Gate(e) \in CommitSteps
        BY <1>1, <3>2, FieldTypes DEF CommitLog, At, CommitLabels
      <4>2. \A s \in SendSteps : KeyOf[s] \in effectLog' => KeyOf[s] \in effectLog
        <5>1. Gate(e) \in EffectSteps /\ Gate(e) \notin SendSteps
          BY <4>1, <1>5, KindsDisjoint DEF EffectSteps
        <5> QED BY <3>2, <5>1 DEF Undisturbed
      <4>3. SendsReplay'
        BY <1>1, <1>2, <2>1, <4>2 DEF RowsInPlace, SendsReplay
      <4>4. FrontierHolds' /\ (Unfinished' => Unfinished)
        BY <1>1, <1>2, <1>3, <1>5, <2>1 DEF RowsInPlace, FrontierHolds, StatusFits, Finished, Unfinished
      <4>5. VerdictsStand'
        BY <1>1, <1>5, <2>1 DEF RowsInPlace, VerdictsStand
      <4> QED BY <1>1, <1>2, <4>3, <4>4, <4>5 DEF RowsInPlace
    <3>3. effectLog' = effectLog \/ (CommitLog(e) /\ effectLog' = effectLog \cup {KeyOf[Gate(e)]})
      BY <1>7 DEF CommitCheck, CommitExecute, CommitLog, LogSideEffect, StoreRead, storeVars
    <3> QED BY <3>1, <3>2, <3>3
  <2>3. CASE Return(e)
    <3>1. run'[e].pc = "idle"
      BY <1>1, <2>3, MoveFields
    <3>2. InPlace(e)'
      BY <2>1, <2>2, <3>1, IdleInPlace
    <3> QED BY <2>2, <3>2, OrderlyFacts
  <2>4. ASSUME NEW label \in {"save_decision", "commit_execute", "commit_log"}, Goto(e, label)
        PROVE  Orderly'
    <3>1. run'[e].pc = label /\ run'[e].at = Gate(e)
      BY <1>1, <2>4, MoveFields
    <3>2. InPlace(e)'
      BY <2>1, <2>2, <2>4, <3>1 DEF InPlace, WellPlaced, Carries, Held, Gate, ForwardLabels,
         AskedLabels, ReadingLabels, WritingLabels, RulingLabels
    <3> QED BY <2>2, <3>2, OrderlyFacts
  <2>5. CASE CommitCheck(e)
    BY <2>4, <2>5 DEF CommitCheck
  <2>6. CASE CommitExecute(e) \/ CommitLog(e)
    BY <2>3, <2>4, <2>6 DEF CommitExecute, CommitLog
  <2> QED BY <1>7, <2>5, <2>6
<1>8. CASE SaveDecision(e)
  <2>1. /\ run[e].pc = "save_decision" /\ SaveCheckpoint(Gate(e), run[e].out, stepData)
        /\ SavedTo(e, "mark_decided")
    BY <1>1, <1>8 DEF SaveDecision, Save, At
  <2>2. /\ Gate(e) = current /\ Gate(e) \in GateSteps /\ Ruled(Gate(e))
        /\ Latest(Gate(e)).decision = run[e].out
    BY <1>1, <2>1 DEF InPlace, WellPlaced, DecisionVouched, RulingLabels
  <2>3. run[e].out \in Verdicts /\ run[e].out \in Outputs /\ run[e].out \in GateOutputs
    <3>1. Latest(Gate(e)).decision \in Verdicts
      BY <2>2, LatestTyped DEF Ruled, Verdicts
    <3> QED BY <2>2, <3>1 DEF Verdicts, Outputs, GateOutputs
  <2>4. stepData[current] = "approved" => run[e].out = "approved"
    BY <1>1, <2>2 DEF RowsInPlace, VerdictsStand, Verdicts
  <2>5. RowsInPlace' /\ current' = current /\ stepData'[current] = run[e].out /\ status' = "running"
    <3>1. Gate(e) \in Steps /\ Gate(e) \notin SendSteps
      BY <1>5, <2>2
    <3> QED BY <1>1, <1>2, <2>1, <2>2, <2>3, <2>4, <3>1, SavedInPlace
  <2>6. run'[e].pc = "mark_decided" /\ run'[e].at = Gate(e) /\ run'[e].out = run[e].out
    BY <1>1, <2>1, MoveRecords DEF Carried, Gate
  <2>7. InPlace(e)'
    BY <2>2, <2>5, <2>6 DEF InPlace, WellPlaced, Carries, Held, Gate, ForwardLabels,
       AskedLabels, ReadingLabels, WritingLabels, RulingLabels
  <2> QED BY <2>5, <2>7, OrderlyFacts
<1>9. CASE MarkDecided(e) \/ MarkContinued(e)
  <2>1. /\ current' = current /\ stepData' = stepData /\ effectLog' = effectLog
        /\ Gate(e) = current /\ stepData[current] = run[e].out
        /\ current \in GateSteps /\ HasGate(current)
        /\ run[e].pc \in {"mark_decided", "mark_continued"}
        /\ run[e].pc = "mark_continued" => current \in ContinueSteps /\ run[e].out = "rejected"
    BY <1>1, <1>9 DEF MarkDecided, MarkContinued, UpdateStatus, At, InPlace, WellPlaced, Carries,
       DecisionVouched, RulingLabels, Ruled
  <2>2. status' \in Verdicts
    BY <1>9 DEF MarkDecided, MarkContinued, UpdateStatus, Verdicts
  <2>3. RowsInPlace' /\ (Unfinished' => Unfinished)
    <3>1. StatusFits(status')
      BY <2>1, <2>2 DEF StatusFits, Verdicts
    <3> QED BY <1>4, <2>1, <3>1
  <2>4. \/ /\ Back(e, current + 1)
           /\ run[e].out = "approved" \/ current \in ContinueSteps
        \/ /\ Goto(e, "mark_continued") /\ run[e].out = "rejected" /\ current \in ContinueSteps
        \/ Back(e, N) /\ status' = "rejected"
    BY <1>9, <2>1 DEF MarkDecided, MarkContinued, UpdateStatus, At
  <2>5. ASSUME NEW next, Back(e, next),
               (next = current + 1 /\ ~Unfinished) \/ status' = "rejected"
        PROVE  Orderly'
    <3>1. run'[e].pc = "reload" /\ run'[e].idx = next
      BY <1>1, <2>5, MoveFields DEF Back
    <3>2. Onward(e)' \/ status' = "rejected"
      BY <2>1, <2>5, <3>1 DEF Onward, Step
    <3>3. InPlace(e)'
      BY <2>2, <2>3, <2>5, <3>1, <3>2 DEF InPlace, WellPlaced, Carries, Held, Step, ForwardLabels,
         AskedLabels, ReadingLabels, WritingLabels, RulingLabels, Verdicts
    <3> QED BY <2>3, <3>3, OrderlyFacts
  <2>6. run[e].out = "approved" \/ (current \in ContinueSteps /\ run[e].out = "rejected") => ~Unfinished
    BY <1>5, <2>1 DEF Unfinished, Finished
  <2>7. CASE Goto(e, "mark_continued") /\ run[e].out = "rejected" /\ current \in ContinueSteps
    <3>1. run'[e].pc = "mark_continued" /\ run'[e].at = Gate(e) /\ run'[e].out = run[e].out
      BY <1>1, <2>7, MoveRecords DEF Carried, Gate
    <3>2. InPlace(e)'
      BY <2>1, <2>2, <2>7, <3>1 DEF InPlace, WellPlaced, Carries, Held, Gate, ForwardLabels,
         AskedLabels, ReadingLabels, WritingLabels, RulingLabels, Verdicts
    <3> QED BY <2>3, <3>2, OrderlyFacts
  <2>8. CASE Back(e, current + 1) /\ (run[e].out = "approved" \/ current \in ContinueSteps)
    <3>1. run[e].out \in Verdicts
      BY <1>1, <2>1, LatestTyped DEF DecisionVouched, RulingLabels, Ruled, Verdicts
    <3> QED BY <2>5, <2>6, <2>8, <3>1 DEF Verdicts
  <2> QED BY <2>4, <2>5, <2>7, <2>8
<1>10. CASE Reload(e)
  <2>1. /\ UNCHANGED storeVars /\ run[e].pc = "reload" /\ status # "completed"
        /\ Onward(e) \/ status = "rejected"
        /\ Unfinished => Step(e) = current \/ status = "rejected"
    BY <1>1, <1>10 DEF Reload, StoreRead, At, InPlace, WellPlaced, Held
  <2>2. RowsInPlace' /\ (Unfinished' => Unfinished)
    BY <1>4, <2>1 DEF storeVars
  <2>3. CASE status = "rejected" /\ Return(e)
    <3>1. run'[e].pc = "idle"
      BY <1>1, <2>3, MoveFields
    <3>2. InPlace(e)'
      BY <2>1, <2>3, <3>1, IdleInPlace DEF Halted, storeVars
    <3> QED BY <2>2, <3>2, OrderlyFacts
  <2>4. CASE status # "rejected" /\ StepTo(e, "mark_running")
    <3>1. run'[e].pc = "mark_running" /\ run'[e].idx = Step(e)
      BY <1>1, <2>4, MoveFields
    <3>2. Onward(e)'
      BY <1>3, <2>1, <2>4, <3>1 DEF Onward, Step, storeVars
    <3>3. InPlace(e)'
      BY <2>1, <2>2, <2>4, <3>1, <3>2, RunningInPlace DEF storeVars
    <3> QED BY <2>2, <3>3, OrderlyFacts
  <2> QED BY <1>10, <2>3, <2>4 DEF Reload
<1> QED BY <1>6, <1>7, <1>8, <1>9, <1>10 DEF Deciding

LEMMA LoopingOrderly ==
  ASSUME TypeInv, NEW e, Undisturbed(e), AllVouched, Orderly, Looping(e)
  PROVE  Orderly'
<1>1. /\ e \in Engines /\ InPlace(e) /\ RowsInPlace /\ Alone(e) /\ run[e].back = "resume"
      /\ PauseVouched(e) /\ RowVouched /\ ~SavesOverlap
  BY OrderlyFacts
<1>2. /\ effectLog' = effectLog /\ draft' = draft /\ monitor' = monitor /\ crashes' = crashes
      /\ ~SelectData(e)
  BY <1>1 DEF Looping, CheckWait, CheckDefinition, MarkStale, MarkRunning, LoadState, Complete,
     SelectData, SaveResult, Raised, SavePending, RecordHash, MarkPaused, SetHash, SetIntentHash,
     MarkWaiting, Save, SaveCheckpoint, UpdateStatus, StoreRead, StoreWrite, GateWrite, storeVars,
     envVars
<1>3. Kept
  <2>1. queue' = queue \/ RecordHash(e)
    BY DEF Looping, CheckWait, CheckDefinition, MarkStale, MarkRunning, LoadState, Complete,
       SelectData, SaveResult, Raised, SavePending, MarkPaused, SetHash, MarkWaiting, StoreRead,
       StoreWrite, gateVars
  <2> QED BY <1>1, <1>2, <2>1, QueueKept, HashKept
<1>4. \A s \in Steps : HasIntent(s)' <=> HasIntent(s)
  <2>1. intent' = intent \/ SetHash(e)
    BY DEF Looping, CheckWait, CheckDefinition, MarkStale, MarkRunning, LoadState, Complete,
       SelectData, SaveResult, Raised, SavePending, RecordHash, MarkPaused, MarkWaiting, Save,
       SaveCheckpoint, UpdateStatus, StoreRead, StoreWrite, GateWrite, storeVars
  <2>2. ASSUME SetHash(e), NEW s \in Steps PROVE intent'[s].state = intent[s].state
    <3>1. intent \in [Steps -> [state: IntentStates, hash: Versions \cup {NoHash}]]
      BY DEF TypeInv, TypeOK, StoreTypeOK
    <3> QED BY <2>2, <3>1 DEF SetHash, SetIntentHash
  <2> QED BY <2>1, <2>2 DEF HasIntent
<1>5. ASSUME current' = current, stepData' = stepData, status' = status \/ StatusFits(status')
      PROVE  RowsInPlace' /\ (Unfinished' => Unfinished)
  BY <1>1, <1>2, <1>3, <1>4, <1>5, RowsStay
<1>6. /\ Steps \subseteq Nat /\ GateSteps \subseteq Steps /\ current \in Nat \cup {-1} /\ N \in Nat
      /\ GateSteps \cap ExternalSteps = {} /\ GateSteps \cap SendSteps = {}
      /\ ExternalSteps \cap SendSteps = {} /\ Step(e) \in Nat /\ Steps = 0 .. N - 1
  BY <1>1, StepsAreNat, KindsDisjoint, FieldTypes DEF TypeInv, TypeOK, StoreTypeOK, Steps
<1>7. CASE CheckWait(e) \/ CheckDefinition(e)
  <2>1. /\ UNCHANGED storeVars /\ run[e].pc \in {"check_wait", "check_definition"}
        /\ Gate(e) = current /\ status # "completed"
    BY <1>1, <1>7 DEF CheckWait, CheckDefinition, StoreRead, At, InPlace, WellPlaced, ReadingLabels
  <2>2. RowsInPlace' /\ (Unfinished' => Unfinished)
    BY <1>5, <2>1 DEF storeVars
  <2>3. CASE Goto(e, "mark_stale")
    <3>1. run'[e].pc = "mark_stale"
      BY <1>1, <2>3, MoveFields
    <3>2. InPlace(e)'
      BY <2>1, <3>1 DEF InPlace, WellPlaced, Carries, Held, ForwardLabels, AskedLabels, ReadingLabels,
         WritingLabels, RulingLabels, storeVars
    <3> QED BY <2>2, <3>2, OrderlyFacts
  <2>4. CASE CheckDefinition(e) /\ Goto(e, "read_decision")
    <3>1. run'[e].pc = "read_decision" /\ run'[e].at = Gate(e)
      BY <1>1, <2>4, MoveFields
    <3>2. /\ current \in GateSteps /\ HasGate(current) /\ (Unfinished => status \in Halted)
      BY <1>1, <2>4 DEF CheckDefinition, At, InPlace, WellPlaced, Held, ReadingLabels
    <3>3. HasGate(current)'
      BY <1>3, <2>1, <3>2 DEF Kept, storeVars
    <3>4. InPlace(e)'
      BY <2>1, <2>2, <3>1, <3>2, <3>3 DEF InPlace, WellPlaced, Carries, Held, Gate, ForwardLabels,
         AskedLabels, ReadingLabels, WritingLabels, RulingLabels, storeVars
    <3> QED BY <2>2, <3>4, OrderlyFacts
  <2>5. CASE CheckWait(e) /\ Enter(e, "mark_running", Gate(e))
    <3>1. run'[e].pc = "mark_running" /\ run'[e].idx = current
      BY <1>1, <2>1, <2>5, MoveFields
    <3>2. current \in Steps /\ HasIntent(current)
      BY <1>1, <2>5 DEF CheckWait, At, InPlace, WellPlaced
    <3>3. Onward(e)'
      BY <1>4, <2>1, <3>1, <3>2 DEF Onward, Step, storeVars
    <3>4. InPlace(e)'
      BY <2>1, <3>1, <3>3, RunningInPlace DEF storeVars
    <3> QED BY <2>2, <3>4, OrderlyFacts
  <2>6. CheckWait(e) => HasIntent(Gate(e))
    BY <1>1, <2>1 DEF CheckWait, At, InPlace, WellPlaced
  <2> QED BY <1>7, <2>3, <2>4, <2>5, <2>6 DEF CheckWait, CheckDefinition
<1>8. CASE MarkStale(e)
  <2>1. current' = current /\ stepData' = stepData /\ status' = "stale_definition"
    BY <1>8 DEF MarkStale, UpdateStatus
  <2>2. RowsInPlace'
    <3>1. StatusFits(status')
      BY <2>1 DEF StatusFits
    <3> QED BY <1>5, <2>1, <3>1
  <2>3. run'[e].pc = "idle"
    BY <1>1, <1>8, MoveFields DEF MarkStale
  <2>4. InPlace(e)'
    BY <2>1, <2>3, IdleInPlace DEF Halted
  <2> QED BY <2>2, <2>4, OrderlyFacts
<1>9. CASE MarkRunning(e)
  <2>1. current' = current /\ stepData' = stepData /\ status' = "running"
        /\ run[e].pc = "mark_running"
    BY <1>9 DEF MarkRunning, UpdateStatus, At
  <2>2. RowsInPlace' /\ (Unfinished' => Unfinished)
    <3>1. StatusFits(status')
      BY <2>1 DEF StatusFits
    <3> QED BY <1>5, <2>1, <3>1
  <2>3. run'[e].pc = "loop" /\ run'[e].idx = Step(e)
    BY <1>1, <1>9, MoveFields DEF MarkRunning
  <2>4. Onward(e) /\ (Unfinished => Step(e) = current)
    BY <1>1, <2>1 DEF InPlace, WellPlaced, Held, ForwardLabels
  <2>5. Onward(e)'
    BY <1>4, <2>1, <2>3, <2>4 DEF Onward, Step
  <2>6. InPlace(e)'
    BY <2>1, <2>2, <2>3, <2>4, <2>5, RunningInPlace
  <2> QED BY <2>2, <2>6, OrderlyFacts
<1>10. CASE LoadState(e)
  <2>1. /\ UNCHANGED storeVars /\ run[e].pc = "loop" /\ Step(e) < N
        /\ status # "paused_approval" /\ status # "completed"
    BY <1>1, <1>10 DEF LoadState, StoreRead, At, PauseVouched, PausedLabels, WritingLabels, InPlace,
       WellPlaced
  <2>2. RowsInPlace' /\ (Unfinished' => Unfinished)
    BY <1>5, <2>1 DEF storeVars
  <2>3. CASE status = "rejected" /\ Return(e)
    <3>1. run'[e].pc = "idle"
      BY <1>1, <2>3, MoveFields
    <3>2. InPlace(e)'
      BY <2>1, <2>3, <3>1, IdleInPlace DEF Halted, storeVars
    <3> QED BY <2>2, <3>2, OrderlyFacts
  <2>4. CASE Becomes(e, [run[e] EXCEPT !.pc = "step", !.at = current,
                                       !.seen = Approval(Step(e))])
    <3> DEFINE seen == Approval(Step(e))
    <3>1. run'[e] = [run[e] EXCEPT !.pc = "step", !.at = current, !.seen = seen]
          /\ run[e] \in Call
      BY <1>1, <2>4, MoveFields DEF TypeInv, TypeOK
    <3> HIDE DEF seen
    <3>2. run'[e].pc = "step" /\ run'[e].at = current /\ run'[e].idx = Step(e)
          /\ run'[e].seen = seen
      BY <3>1 DEF Call, Step
    <3>3. Step(e) \in SendSteps => seen = stepData[ApprovalFor[Step(e)]]
      BY EngineAssumption DEF seen, Approval
    <3>4. Onward(e)' /\ Held(e)' /\ status' # "completed"
      BY <1>1, <1>2, <1>4, <2>1, <3>2, OnwardStays DEF ForwardLabels, storeVars
    <3>5. WellPlaced(e)'
      <4>1. Step(e) \in Steps
        BY <1>6, <2>1
      <4> QED BY <2>1, <3>2, <3>4, <4>1 DEF WellPlaced, Gate, Step, ForwardLabels, AskedLabels, ReadingLabels,
         WritingLabels, RulingLabels, storeVars
    <3>6. Carries(e)'
      BY <2>1, <3>2, <3>3 DEF Carries, Step, storeVars
    <3> QED BY <2>2, <3>4, <3>5, <3>6, OrderlyFacts DEF InPlace
  <2> QED BY <1>10, <2>1, <2>3, <2>4 DEF LoadState
<1>11. CASE Complete(e)
  <2>1. /\ current' = current /\ stepData' = stepData /\ status' = "completed"
        /\ run[e].pc = "loop" /\ Step(e) >= N
    BY <1>11 DEF Complete, UpdateStatus, At
  <2>2. /\ Onward(e) /\ (Unfinished => Step(e) = current) /\ current < N
    BY <1>1, <2>1 DEF InPlace, WellPlaced, Held, ForwardLabels, RowsInPlace, FrontierHolds
  <2>3. current = N - 1 /\ ~Unfinished
    BY <1>6, <2>1, <2>2 DEF Onward
  <2>4. RowsInPlace' /\ (Unfinished' => Unfinished)
    <3>1. StatusFits(status')
      BY <2>1, <2>3 DEF StatusFits
    <3> QED BY <1>5, <2>1, <3>1
  <2>5. run'[e].pc = "idle"
    BY <1>1, <1>11, MoveFields DEF Complete
  <2>6. InPlace(e)'
    BY <2>3, <2>4, <2>5, IdleInPlace
  <2> QED BY <2>4, <2>6, OrderlyFacts
<1>12. ASSUME run[e].pc \in ForwardLabels, Step(e) \in Steps
       PROVE  /\ Step(e) = current \/ (Step(e) = current + 1 /\ ~Unfinished)
              /\ Step(e) = current =>
                   HasIntent(current) \/ (current \in GateSteps /\ stepData[current] \notin Verdicts)
  <2>1. Onward(e) /\ (Unfinished => Step(e) = current)
    BY <1>1, <1>12 DEF InPlace, WellPlaced, Held
  <2>2. Step(e) = current + 1 => Step(e) # current
    BY <1>6
  <2> QED BY <2>1, <2>2 DEF Onward
<1>13. CASE SaveResult(e)
  <2>1. /\ run[e].pc = "save_result" /\ SaveCheckpoint(Step(e), run[e].out, stepData)
        /\ Enter(e, "loop", Step(e) + 1) /\ queue' = queue
    BY <1>1, <1>13 DEF SaveResult, Save, At, StoreWrite, gateVars
  <2>2. Step(e) \in Steps /\ run[e].out \in Outputs
    BY <1>1, <2>1, FieldTypes DEF InPlace, WellPlaced, ForwardLabels
  <2>3. /\ Step(e) = current \/ (Step(e) = current + 1 /\ ~Unfinished)
        /\ Step(e) = current =>
             HasIntent(current) \/ (current \in GateSteps /\ stepData[current] \notin Verdicts)
    BY <1>12, <2>1, <2>2 DEF ForwardLabels
  <2>4. /\ Step(e) \in ExternalSteps => run[e].out \in Answered
        /\ Step(e) \in GateSteps =>
             /\ Step(e) \in RecheckSteps
             /\ \/ run[e].out = "skipped"
                \/ run[e].out \in Verdicts /\ Ruled(Step(e)) /\ Latest(Step(e)).decision = run[e].out
        /\ Step(e) \in SendSteps /\ KeyOf[Step(e)] \in effectLog => run[e].out = "sent"
    BY <1>1, <2>1 DEF InPlace, Carries
  <2>5. Step(e) = current + 1 => stepData[Step(e)] = "absent"
    BY <1>1, <1>6, <2>2 DEF RowsInPlace, FrontierHolds
  <2>6. Step(e) \in GateSteps => /\ run[e].out \in GateOutputs
                                 /\ stepData[Step(e)] = "approved" => run[e].out = "approved"
    <3>1. ASSUME Step(e) \in GateSteps PROVE ~HasIntent(Step(e))
      BY <1>1, <1>6, <3>1 DEF RowVouched
    <3> QED BY <2>3, <2>4, <2>5, <3>1 DEF Verdicts, GateOutputs
  <2>7. Step(e) \in SendSteps => Step(e) # current
    BY <1>1, <1>6, <2>2, <2>3 DEF RowVouched
  <2>8. /\ RowsInPlace' /\ current' = Step(e) /\ stepData'[Step(e)] = run[e].out
        /\ status' = "running"
    BY <1>1, <1>2, <2>1, <2>2, <2>3, <2>4, <2>6, <2>7, SavedInPlace DEF Verdicts
  <2>9. ~Unfinished'
    BY <1>6, <2>4, <2>8 DEF Unfinished, Finished, Verdicts, Answered
  <2>10. run'[e].pc = "loop" /\ run'[e].idx = Step(e) + 1
    BY <1>1, <2>1, MoveFields
  <2>11. Onward(e)'
    BY <2>8, <2>10 DEF Onward, Step
  <2>12. InPlace(e)'
    BY <2>8, <2>9, <2>10, <2>11, RunningInPlace
  <2> QED BY <2>8, <2>12, OrderlyFacts
<1>14. CASE SavePending(e)
  <2>1. /\ run[e].pc = "save_pending" /\ SaveCheckpoint(Step(e), "pending", stepData)
        /\ queue' = queue
        /\ SavedTo(e, "record_hash") \/ StepTo(e, "mark_paused")
    BY <1>1, <1>14 DEF SavePending, Save, At, StoreWrite, gateVars
  <2>2. Step(e) \in Steps /\ Step(e) \in GateSteps /\ HasGate(Step(e)) /\ "pending" \in Outputs
    BY <1>1, <2>1 DEF InPlace, WellPlaced, ForwardLabels, PauseVouched, PausingLabels, Outputs
  <2>3. /\ Step(e) = current \/ (Step(e) = current + 1 /\ ~Unfinished)
        /\ Step(e) = current =>
             HasIntent(current) \/ (current \in GateSteps /\ stepData[current] \notin Verdicts)
    BY <1>12, <2>1, <2>2 DEF ForwardLabels
  <2>4. stepData[Step(e)] # "approved"
    <3>1. Step(e) = current + 1 => stepData[Step(e)] = "absent"
      BY <1>1, <1>6, <2>2 DEF RowsInPlace, FrontierHolds
    <3>2. ~HasIntent(Step(e))
      BY <1>1, <1>6, <2>2 DEF RowVouched
    <3> QED BY <2>3, <3>1, <3>2 DEF Verdicts
  <2>5. RowsInPlace' /\ current' = Step(e) /\ status' = "running"
    <3>1. Step(e) \notin SendSteps /\ "pending" \notin Verdicts /\ "pending" \in GateOutputs
      BY <1>6, <2>2 DEF Verdicts, GateOutputs
    <3> QED BY <1>1, <1>2, <2>1, <2>2, <2>3, <2>4, <3>1, SavedInPlace
  <2>6. run'[e].pc \in {"record_hash", "mark_paused"}
    BY <1>1, <2>1, MoveFields
  <2>7. current' \in GateSteps /\ HasGate(current)'
    BY <1>3, <2>2, <2>5 DEF Kept
  <2>8. InPlace(e)'
    BY <2>5, <2>6, <2>7 DEF InPlace, WellPlaced, Carries, Held, ForwardLabels, AskedLabels,
       ReadingLabels, WritingLabels, RulingLabels
  <2> QED BY <2>5, <2>8, OrderlyFacts
<1>15. CASE RecordHash(e)
  <2>1. UNCHANGED storeVars /\ run[e].pc = "record_hash" /\ status # "completed"
    BY <1>1, <1>15 DEF RecordHash, GateWrite, At, InPlace, WellPlaced
  <2>2. RowsInPlace' /\ (Unfinished' => Unfinished)
    BY <1>5, <2>1 DEF storeVars
  <2>3. current \in GateSteps /\ HasGate(current)
    BY <1>1, <1>15, HashKept
  <2>4. current' \in GateSteps /\ HasGate(current)'
    BY <1>3, <2>1, <2>3 DEF Kept, storeVars
  <2>5. run'[e].pc = "mark_paused"
    BY <1>1, <1>15, MoveFields DEF RecordHash
  <2>6. InPlace(e)'
    BY <2>1, <2>4, <2>5 DEF InPlace, WellPlaced, Carries, Held, ForwardLabels, AskedLabels,
       ReadingLabels, WritingLabels, RulingLabels, storeVars
  <2> QED BY <2>2, <2>6, OrderlyFacts
<1>16. CASE MarkPaused(e)
  <2>1. /\ current' = current /\ stepData' = stepData /\ status' = "paused_approval"
        /\ run[e].pc = "mark_paused"
    BY <1>16 DEF MarkPaused, UpdateStatus, At
  <2>2. current \in GateSteps /\ HasGate(current)
    BY <1>1, <2>1 DEF InPlace, WellPlaced
  <2>3. RowsInPlace'
    <3>1. StatusFits(status')
      BY <2>1, <2>2 DEF StatusFits
    <3> QED BY <1>5, <2>1, <3>1
  <2>4. run'[e].pc = "idle"
    BY <1>1, <1>16, MoveFields DEF MarkPaused
  <2>5. InPlace(e)'
    BY <2>1, <2>4, IdleInPlace DEF Halted
  <2> QED BY <2>3, <2>5, OrderlyFacts
<1>17. CASE SetHash(e)
  <2>1. /\ current' = current /\ stepData' = stepData /\ status' = status /\ run[e].pc = "set_hash"
    BY <1>17 DEF SetHash, SetIntentHash, At
  <2>2. RowsInPlace'
    BY <1>5, <2>1
  <2>3. run'[e].pc = "mark_waiting" /\ run'[e].idx = Step(e)
    BY <1>1, <1>17, MoveFields DEF SetHash
  <2>4. /\ Onward(e)' /\ Held(e)' /\ status' # "completed" /\ run'[e].idx \in Steps
    BY <1>1, <1>2, <1>4, <2>1, <2>3, OnwardStays DEF ForwardLabels, AskedLabels
  <2>5. HasIntent(Step(e))
    BY <1>1, <2>1 DEF InPlace, WellPlaced, AskedLabels
  <2>6. HasIntent(Step(e))'
    BY <1>4, <2>3, <2>4, <2>5 DEF Step
  <2>7. InPlace(e)'
    BY <2>3, <2>4, <2>6 DEF InPlace, WellPlaced, Carries, Step, ForwardLabels, AskedLabels,
       ReadingLabels, WritingLabels, RulingLabels
  <2> QED BY <2>2, <2>7, OrderlyFacts
<1>18. CASE Raised(e) \/ MarkWaiting(e)
  <2>1. /\ current' = current /\ stepData' = stepData
        /\ run[e].pc \in {"raised", "mark_waiting"}
        /\ run[e].pc = "mark_waiting" => status' = "waiting_external_action"
        /\ run[e].pc = "raised" =>
             status' = IF HasIntent(Step(e)) THEN "waiting_external_action" ELSE "failed"
    BY <1>18 DEF Raised, MarkWaiting, UpdateStatus, At
  <2>2. /\ Step(e) \in Steps
        /\ Step(e) = current \/ (Step(e) = current + 1 /\ ~Unfinished)
        /\ run[e].pc = "mark_waiting" => HasIntent(Step(e))
        /\ run[e].pc = "raised" =>
             Step(e) \notin GateSteps /\ (Step(e) \in ExternalSteps => HasIntent(Step(e)))
    <3>1. Step(e) \in Steps
      BY <1>1, <2>1 DEF InPlace, WellPlaced, ForwardLabels, AskedLabels
    <3> QED BY <1>1, <1>12, <2>1, <3>1 DEF InPlace, WellPlaced, ForwardLabels, AskedLabels
  <2>3. ASSUME HasIntent(Step(e)) PROVE Step(e) = current
    BY <1>1, <1>6, <2>2, <2>3 DEF RowsInPlace, FrontierHolds
  <2>4. ASSUME ~HasIntent(Step(e)) PROVE ~Unfinished /\ status' = "failed"
    BY <2>1, <2>2, <2>4 DEF Unfinished, Finished
  <2>5. StatusFits(status')
    BY <2>1, <2>2, <2>3, <2>4 DEF StatusFits
  <2>6. RowsInPlace' /\ (Unfinished' => Unfinished)
    BY <1>5, <2>1, <2>5
  <2>7. run'[e].pc = "idle"
    BY <1>1, <1>18, MoveFields DEF Raised, MarkWaiting
  <2>8. InPlace(e)'
    BY <2>1, <2>2, <2>4, <2>6, <2>7, IdleInPlace DEF Halted
  <2> QED BY <2>6, <2>8, OrderlyFacts
<1> QED BY <1>2, <1>7, <1>8, <1>9, <1>10, <1>11, <1>13, <1>14, <1>15, <1>16, <1>17, <1>18
        DEF Looping

LEMMA SteppingOrderly ==
  ASSUME TypeInv, NEW e, Undisturbed(e), AllVouched, Orderly, Stepping(e)
  PROVE  Orderly'
<1>1. /\ e \in Engines /\ InPlace(e) /\ RowsInPlace /\ Alone(e) /\ run[e].back = "resume"
      /\ PauseVouched(e) /\ RowVouched
  BY OrderlyFacts
<1>2. /\ status' = status /\ current' = current /\ intent' = intent /\ stepData' = stepData
      /\ draft' = draft /\ monitor' = monitor /\ crashes' = crashes
      /\ effectLog' = effectLog \/ SendLog(e)
      /\ run[e].pc \in {"step", "gate_insert", "gate_check", "send_log"}
  BY DEF Stepping, PlainSucceeds, PlainRaises, RunGate, GateInsert, GateCheck, RunSend, SendLog,
     LogSideEffect, StoreRead, StoreWrite, GateWrite, storeVars, envVars, At
<1>3. Kept
  <2>1. queue' = queue \/ GateInsert(e)
    BY DEF Stepping, PlainSucceeds, PlainRaises, RunGate, GateCheck, RunSend, SendLog, StoreRead,
       StoreWrite, gateVars
  <2>2. effectLog \subseteq effectLog'
    BY <1>2 DEF SendLog, LogSideEffect, storeVars
  <2> QED BY <1>1, <2>1, <2>2, QueueKept, InsertKept
<1>4. /\ \A s \in Steps : HasIntent(s)' <=> HasIntent(s)
      /\ Step(e) \in Steps /\ Onward(e) /\ (Unfinished => Step(e) = current) /\ Step(e) \in Nat
      /\ GateSteps \cap ExternalSteps = {} /\ GateSteps \cap SendSteps = {}
      /\ ExternalSteps \cap SendSteps = {}
  BY <1>1, <1>2, KindsDisjoint, FieldTypes DEF HasIntent, InPlace, WellPlaced, Held, ForwardLabels
<1>5. ASSUME effectLog' = effectLog PROVE RowsInPlace'
  BY <1>1, <1>2, <1>3, <1>4, <1>5, RowsStay
<1>6. ASSUME run'[e].pc \in ForwardLabels, run'[e].idx = Step(e)
      PROVE  Onward(e)' /\ Held(e)' /\ status' # "completed" /\ run'[e].idx \in Steps
  BY <1>1, <1>2, <1>4, <1>6, OnwardStays DEF ForwardLabels
<1>7. ASSUME RowsInPlace', run'[e].pc \in {"gate_insert", "save_pending"}, run'[e].idx = Step(e)
      PROVE  Orderly'
  <2>1. Onward(e)' /\ Held(e)' /\ status' # "completed" /\ run'[e].idx \in Steps
    BY <1>6, <1>7 DEF ForwardLabels
  <2>2. WellPlaced(e)' /\ Carries(e)'
    BY <1>7, <2>1 DEF WellPlaced, Carries, Step, ForwardLabels, AskedLabels, ReadingLabels,
       WritingLabels, RulingLabels
  <2> QED BY <1>7, <2>1, <2>2, OrderlyFacts DEF InPlace
<1>8. ASSUME NEW output, Yield(e, output, "save_result"), RowsInPlace',
             Step(e) \in ExternalSteps => output \in Answered,
             Step(e) \in GateSteps =>
               /\ queue' = queue /\ Step(e) \in RecheckSteps
               /\ \/ output = "skipped"
                  \/ output \in Verdicts /\ Ruled(Step(e)) /\ Latest(Step(e)).decision = output,
             Step(e) \in SendSteps /\ KeyOf[Step(e)] \in effectLog' => output = "sent"
      PROVE  Orderly'
  <2>1. run'[e].pc = "save_result" /\ run'[e].idx = Step(e) /\ run'[e].out = output
    BY <1>1, <1>8, MoveFields
  <2>2. Onward(e)' /\ Held(e)' /\ status' # "completed" /\ run'[e].idx \in Steps
    BY <1>6, <2>1 DEF ForwardLabels
  <2>3. WellPlaced(e)'
    BY <2>1, <2>2 DEF WellPlaced, Step, ForwardLabels, AskedLabels, ReadingLabels,
       WritingLabels, RulingLabels
  <2>4. \A s \in GateSteps : queue' = queue /\ Ruled(s) =>
          Ruled(s)' /\ Latest(s)'.decision = Latest(s).decision
    BY DEF Ruled, HasGate, Latest
  <2>5. Carries(e)'
    BY <1>8, <2>1, <2>4 DEF Carries, Step
  <2> QED BY <1>8, <2>2, <2>3, <2>5, OrderlyFacts DEF InPlace
<1>9. ASSUME StepTo(e, "raised"), RowsInPlace', Step(e) \notin GateSteps,
             Step(e) \notin ExternalSteps
      PROVE  Orderly'
  <2>1. run'[e].pc = "raised" /\ run'[e].idx = Step(e)
    BY <1>1, <1>9, MoveFields
  <2>2. Onward(e)' /\ Held(e)' /\ status' # "completed" /\ run'[e].idx \in Steps
    BY <1>6, <2>1 DEF ForwardLabels
  <2>3. WellPlaced(e)' /\ Carries(e)'
    BY <1>9, <2>1, <2>2 DEF WellPlaced, Carries, Step, ForwardLabels, AskedLabels, ReadingLabels,
       WritingLabels, RulingLabels
  <2> QED BY <1>9, <2>2, <2>3, OrderlyFacts DEF InPlace
<1>10. CASE PlainSucceeds(e) \/ PlainRaises(e)
  <2>1. /\ effectLog' = effectLog /\ Step(e) \in PlainSteps
        /\ Yield(e, "done", "save_result") \/ StepTo(e, "raised")
    BY <1>10 DEF PlainSucceeds, PlainRaises, StoreRead, storeVars
  <2> QED BY <1>5, <1>8, <1>9, <2>1 DEF PlainSteps
<1>11. ASSUME NEW i, Requested(e, i), RowsInPlace', Step(e) \in GateSteps
       PROVE  Orderly'
  <2> DEFINE label == IF Step(e) \in RecheckSteps THEN "gate_check" ELSE "save_pending"
  <2>1. run'[e] = [Idle EXCEPT !.idx = Step(e), !.gate = i, !.pc = label]
    BY <1>1, <1>11, MoveFields DEF Requested
  <2>2. label = "save_pending" \/ (label = "gate_check" /\ Step(e) \in RecheckSteps)
    OBVIOUS
  <2> HIDE DEF label
  <2>3. run'[e].idx = Step(e) /\ run'[e].pc = label
    BY <2>1 DEF Idle
  <2>4. CASE label = "save_pending"
    BY <1>7, <1>11, <2>3, <2>4
  <2>5. CASE label = "gate_check" /\ Step(e) \in RecheckSteps
    <3>1. Onward(e)' /\ Held(e)' /\ status' # "completed" /\ run'[e].idx \in Steps
      BY <1>6, <2>3, <2>5 DEF ForwardLabels
    <3>2. WellPlaced(e)' /\ Carries(e)'
      BY <2>3, <2>5, <3>1 DEF WellPlaced, Carries, Step, ForwardLabels, AskedLabels, ReadingLabels,
         WritingLabels, RulingLabels
    <3> QED BY <1>11, <3>1, <3>2, OrderlyFacts DEF InPlace
  <2> QED BY <2>2, <2>4, <2>5
<1>12. CASE RunGate(e)
  <2>1. effectLog' = effectLog /\ queue' = queue /\ Step(e) \in GateSteps
    BY <1>12 DEF RunGate, StoreRead, storeVars, gateVars
  <2>2. \/ Step(e) \in RecheckSteps /\ Yield(e, "skipped", "save_result")
        \/ Requested(e, Len(queue[Step(e)]))
        \/ StepTo(e, "gate_insert")
    BY <1>12 DEF RunGate
  <2>3. CASE Step(e) \in RecheckSteps /\ Yield(e, "skipped", "save_result")
    BY <1>4, <1>5, <1>8, <2>1, <2>3
  <2>4. CASE Requested(e, Len(queue[Step(e)]))
    BY <1>5, <1>11, <2>1, <2>4
  <2>5. CASE StepTo(e, "gate_insert")
    <3>1. run'[e].pc = "gate_insert" /\ run'[e].idx = Step(e)
      BY <1>1, <2>5, MoveFields
    <3> QED BY <1>5, <1>7, <2>1, <3>1
  <2> QED BY <2>2, <2>3, <2>4, <2>5
<1>13. CASE GateInsert(e)
  <2>1. /\ effectLog' = effectLog /\ Step(e) \in GateSteps
        /\ Requested(e, Len(queue[Step(e)]) + 1)
    BY <1>1, <1>13, InsertKept DEF GateInsert, GateWrite, storeVars
  <2> QED BY <1>5, <1>11, <2>1
<1>14. CASE GateCheck(e)
  <2>1. /\ effectLog' = effectLog /\ queue' = queue /\ run[e].pc = "gate_check"
    BY <1>14 DEF GateCheck, StoreRead, storeVars, gateVars, At
  <2>2. /\ Step(e) \in GateSteps /\ HasGate(Step(e)) /\ run[e].gate = Len(queue[Step(e)])
        /\ Step(e) \in RecheckSteps
    BY <1>1, <2>1 DEF PauseVouched, PausingLabels, InPlace, WellPlaced
  <2>3. CASE Goto(e, "save_pending")
    <3>1. run'[e].pc = "save_pending" /\ run'[e].idx = Step(e)
      BY <1>1, <2>3, MoveFields
    <3> QED BY <1>5, <1>7, <2>1, <3>1
  <2>4. ASSUME Latest(Step(e)).decision # "pending",
               Yield(e, Latest(Step(e)).decision, "save_result")
        PROVE  Orderly'
    <3>1. Latest(Step(e)).decision \in Verdicts /\ Ruled(Step(e))
      BY <2>2, <2>4, LatestTyped DEF Verdicts, Ruled
    <3> QED BY <1>4, <1>5, <1>8, <2>1, <2>2, <2>4, <3>1
  <2>5. \/ Goto(e, "save_pending")
        \/ /\ Latest(Step(e)).decision # "pending"
           /\ Yield(e, Latest(Step(e)).decision, "save_result")
    BY <1>14, <2>2 DEF GateCheck, Latest
  <2> QED BY <2>3, <2>4, <2>5
<1>15. CASE RunSend(e)
  <2>1. /\ effectLog' = effectLog /\ Step(e) \in SendSteps /\ run[e].pc = "step"
    BY <1>15 DEF RunSend, StoreRead, storeVars, At
  <2>2. run[e].seen = stepData[ApprovalFor[Step(e)]]
    BY <1>1, <2>1 DEF InPlace, Carries
  <2>3. ApprovalFor[Step(e)] \in GateSteps /\ ApprovalFor[Step(e)] < Step(e)
    BY <2>1, EngineAssumption
  <2>4. ASSUME ~Refused(e) PROVE draft /\ stepData[ApprovalFor[Step(e)]] = "approved"
    <3>1. Step(e) = current + 1
      BY <1>1, <1>4, <2>1 DEF Onward, RowVouched
    <3> DEFINE a == ApprovalFor[Step(e)]
    <3>2. a \in GateSteps /\ a <= current
      <4>1. \A i, j, k \in Int : i < j /\ j = k + 1 => i <= k
        OBVIOUS
      <4>2. a \in Int /\ a < Step(e)
        <5>1. a \in GateSteps /\ a < Step(e)
          BY <2>3
        <5> HIDE DEF a
        <5> QED BY <5>1, StepsAreNat
      <4>3. Step(e) \in Int /\ current \in Int
        BY <1>4 DEF TypeInv, TypeOK, StoreTypeOK
      <4> HIDE DEF a
      <4>4. a <= current
        BY <3>1, <4>1, <4>2, <4>3
      <4> QED BY <2>3, <4>4 DEF a
    <3> HIDE DEF a
    <3>3. stepData[a] \in GateOutputs
      BY <1>1, <3>2 DEF RowsInPlace, VerdictsStand
    <3> QED BY <2>2, <2>4, <3>3 DEF a, Refused, GateOutputs
  <2>5. KeyOf[Step(e)] \in effectLog => ~Refused(e)
    BY <1>1, <2>1, <2>2 DEF RowsInPlace, SendsReplay, Refused
  <2>6. CASE Refused(e) /\ Yield(e, "skipped", "save_result")
    BY <1>4, <1>5, <1>8, <2>1, <2>5, <2>6
  <2>7. CASE Yield(e, "sent", "save_result")
    BY <1>4, <1>5, <1>8, <2>1, <2>7
  <2>8. CASE ~Refused(e) /\ StepTo(e, "send_log")
    <3>1. run'[e].pc = "send_log" /\ run'[e].idx = Step(e)
      BY <1>1, <2>8, MoveFields
    <3>2. Onward(e)' /\ Held(e)' /\ status' # "completed" /\ run'[e].idx \in Steps
      BY <1>6, <3>1 DEF ForwardLabels
    <3>3. WellPlaced(e)'
      BY <3>1, <3>2 DEF WellPlaced, Step, ForwardLabels, AskedLabels, ReadingLabels,
         WritingLabels, RulingLabels
    <3>4. Carries(e)'
      BY <1>2, <2>4, <2>8, <3>1 DEF Carries, Step
    <3> QED BY <1>5, <2>1, <3>2, <3>3, <3>4, OrderlyFacts DEF InPlace
  <2> QED BY <1>15, <2>6, <2>7, <2>8 DEF RunSend
<1>16. CASE SendLog(e)
  <2>1. /\ run[e].pc = "send_log" /\ Step(e) \in SendSteps
        /\ draft /\ stepData[ApprovalFor[Step(e)]] = "approved"
    BY <1>1, <1>16, FieldTypes DEF SendLog, At, InPlace, Carries
  <2>2. CASE LogSideEffect(KeyOf[Step(e)]) /\ Yield(e, "sent", "save_result")
    <3>1. effectLog' = effectLog \cup {KeyOf[Step(e)]}
      BY <2>2 DEF LogSideEffect
    <3>2. Step(e) = current + 1 /\ current \in Nat \cup {-1}
      BY <1>1, <1>4, <2>1 DEF Onward, RowVouched, TypeInv, TypeOK, StoreTypeOK
    <3>3. SendsReplay'
      <4> SUFFICES ASSUME NEW t \in SendSteps, KeyOf[t] \in effectLog'
                   PROVE  /\ draft /\ stepData[ApprovalFor[t]] = "approved" /\ t <= current + 1
                          /\ t <= current => stepData[t] = "sent"
        BY <1>2 DEF SendsReplay
      <4>1. CASE KeyOf[t] \in effectLog
        BY <1>1, <4>1 DEF RowsInPlace, SendsReplay
      <4>2. CASE KeyOf[t] = KeyOf[Step(e)]
        <5>1. t = Step(e)
          BY <2>1, <4>2 DEF Undisturbed, EffectSteps
        <5> QED BY <2>1, <3>2, <5>1
      <4> QED BY <3>1, <4>1, <4>2
    <3>4. FrontierHolds'
      <4>1. \A s \in Steps : Finished(s)' <=> Finished(s)
        BY <1>2 DEF Finished
      <4>2. StatusFits(status)'
        BY <1>1, <1>2, <1>3, <1>4 DEF RowsInPlace, FrontierHolds, StatusFits, Kept
      <4> QED BY <1>1, <1>2, <1>4, <4>1, <4>2 DEF RowsInPlace, FrontierHolds
    <3>5. VerdictsStand'
      <4>1. \A g \in GateSteps : Ruled(g) => Ruled(g)' /\ Latest(g)'.decision = Latest(g).decision
        BY <1>3, KeptRules
      <4> QED BY <1>1, <1>2, <4>1 DEF RowsInPlace, VerdictsStand
    <3>6. RowsInPlace'
      BY <1>1, <1>2, <3>3, <3>4, <3>5 DEF RowsInPlace
    <3> QED BY <1>4, <1>8, <2>1, <2>2, <3>6
  <2>3. CASE StepTo(e, "raised") /\ UNCHANGED storeVars
    BY <1>4, <1>5, <1>9, <2>1, <2>3 DEF storeVars
  <2> QED BY <1>16, <2>2, <2>3 DEF SendLog
<1> QED BY <1>10, <1>12, <1>13, <1>14, <1>15, <1>16 DEF Stepping

LEMMA ActingOrderly ==
  ASSUME TypeInv, NEW e, Undisturbed(e), AllVouched, Orderly, Acting(e)
  PROVE  Orderly'
<1>1. /\ e \in Engines /\ InPlace(e) /\ RowsInPlace /\ Alone(e) /\ run[e].back = "resume"
      /\ PauseVouched(e) /\ RowVouched
  BY OrderlyFacts
<1>2. /\ stepData' = stepData /\ draft' = draft /\ monitor' = monitor /\ crashes' = crashes
      /\ effectLog' = effectLog /\ queue' = queue
      /\ run[e].pc \in AskingLabels \/ (run[e].pc = "step" /\ Step(e) \in ExternalSteps)
  BY DEF Acting, RunExternal, RecordIntent, InsertRow, InsertIntent, Submit, MarkSubmitted,
     PollAnswered, PollFails, MarkTerminal, MarkIntent, StoreRead, StoreWrite, storeVars,
     gateVars, envVars, At, AskingLabels
<1>3. Kept /\ run[e].pc \in ForwardLabels \ {"mark_running", "loop"} /\ Step(e) \in ExternalSteps
  BY <1>1, <1>2, QueueKept DEF PauseVouched, AskingLabels, ForwardLabels, AskedLabels
<1>4. /\ Step(e) \in Steps /\ Onward(e) /\ (Unfinished => Step(e) = current) /\ Step(e) \in Nat
      /\ Step(e) \notin GateSteps /\ Step(e) \notin SendSteps
      /\ GateSteps \cap ExternalSteps = {} /\ ExternalSteps \cap SendSteps = {}
      /\ Steps \subseteq Nat /\ GateSteps \subseteq Steps /\ SendSteps \subseteq Steps
      /\ current \in Nat \cup {-1} /\ N \in Nat /\ Steps = 0 .. N - 1
      /\ status # "completed"
  <2>1. /\ Step(e) \in Nat /\ Step(e) \notin GateSteps /\ Step(e) \notin SendSteps
        /\ GateSteps \cap ExternalSteps = {} /\ ExternalSteps \cap SendSteps = {}
        /\ Steps \subseteq Nat /\ GateSteps \subseteq Steps /\ SendSteps \subseteq Steps
        /\ N \in Nat /\ Steps = 0 .. N - 1
    BY <1>1, <1>3, KindsDisjoint, StepsAreNat, FieldTypes DEF Steps
  <2>2. /\ Step(e) \in Steps /\ Onward(e) /\ (Unfinished => Step(e) = current)
        /\ status # "completed"
    BY <1>1, <1>3 DEF InPlace, WellPlaced, Held, ForwardLabels, AskedLabels
  <2>3. current \in Nat \cup {-1}
    BY DEF TypeInv, TypeOK, StoreTypeOK
  <2> QED BY <2>1, <2>2, <2>3
<1>5. ASSUME NEW label \in {"record_intent", "insert_intent", "raised", "mark_terminal", "save_result"}
                           \cup AskedLabels,
             run'[e].pc = label, run'[e].idx = Step(e),
             RowsInPlace', Onward(e)' /\ Held(e)' /\ status' # "completed",
             label \in {"record_intent", "insert_intent"} => run'[e].at = current',
             label \in AskedLabels \cup {"raised"} => intent'[Step(e)].state # "none",
             label \in {"mark_terminal", "save_result"} => run'[e].out \in Answered
      PROVE  Orderly'
  <2>1. \A s : s = Step(e) => (HasIntent(s)' <=> intent'[s].state # "none")
    BY DEF HasIntent
  <2>2. WellPlaced(e)'
    BY <1>4, <1>5, <2>1 DEF WellPlaced, Step, Gate, ForwardLabels, AskedLabels, ReadingLabels,
       WritingLabels, RulingLabels
  <2>3. Carries(e)'
    BY <1>4, <1>5 DEF Carries, Step, AskedLabels
  <2> QED BY <1>5, <2>2, <2>3, OrderlyFacts DEF InPlace
<1>6. ASSUME NEW label \in {"record_intent", "insert_intent", "raised", "mark_terminal", "save_result"}
                           \cup AskedLabels,
             run'[e].pc = label, run'[e].idx = Step(e),
             current' = current, status' = status, \A s \in Steps : HasIntent(s)' <=> HasIntent(s),
             label \in {"record_intent", "insert_intent"} => run'[e].at = current,
             label \in AskedLabels \cup {"raised"} => HasIntent(Step(e)),
             label \in {"mark_terminal", "save_result"} => run'[e].out \in Answered
      PROVE  Orderly'
  <2>1. RowsInPlace'
    BY <1>1, <1>2, <1>3, <1>6, RowsStay
  <2>2. Onward(e)' /\ Held(e)' /\ status' # "completed"
    BY <1>1, <1>2, <1>3, <1>6, OnwardStays DEF ForwardLabels, AskedLabels
  <2>3. \A s \in Steps : HasIntent(s) => intent'[s].state # "none"
    BY <1>6 DEF HasIntent
  <2> QED BY <1>4, <1>5, <1>6, <2>1, <2>2, <2>3
<1>7. intent' = intent => \A s \in Steps : HasIntent(s)' <=> HasIntent(s)
  BY DEF HasIntent
<1>8. /\ \A label : Goto(e, label) => /\ run'[e].pc = label /\ run'[e].idx = Step(e)
                                      /\ run'[e].at = Gate(e) /\ run'[e].out = run[e].out
      /\ \A label : StepTo(e, label) => run'[e].pc = label /\ run'[e].idx = Step(e)
      /\ \A label, output : Yield(e, output, label) =>
           run'[e].pc = label /\ run'[e].idx = Step(e) /\ run'[e].out = output
  BY <1>1, MoveFields
<1>9. CASE RunExternal(e)
  <2>1. /\ UNCHANGED storeVars /\ run[e].pc = "step"
    BY <1>9 DEF RunExternal, StoreRead, At
  <2>2. Gate(e) = current
    BY <1>1, <2>1 DEF InPlace, WellPlaced
  <2>3. CASE Yield(e, "skipped", "save_result")
    BY <1>6, <1>7, <1>8, <2>1, <2>3 DEF Answered, AskedLabels, storeVars
  <2>4. CASE Goto(e, "record_intent")
    BY <1>6, <1>7, <1>8, <2>1, <2>2, <2>4 DEF AskedLabels, storeVars
  <2>5. ASSUME NEW label \in {"submit", "poll"}, HasIntent(Step(e)), StepTo(e, label) PROVE Orderly'
    BY <1>6, <1>7, <1>8, <2>1, <2>5 DEF AskedLabels, storeVars
  <2> QED BY <1>9, <2>3, <2>4, <2>5 DEF RunExternal, HasIntent
<1>10. CASE RecordIntent(e)
  <2>1. /\ UNCHANGED storeVars /\ run[e].pc = "record_intent"
    BY <1>10 DEF RecordIntent, StoreRead, At
  <2>2. Gate(e) = current
    BY <1>1, <2>1 DEF InPlace, WellPlaced
  <2>3. CASE Goto(e, "insert_intent")
    BY <1>6, <1>7, <1>8, <2>1, <2>2, <2>3 DEF AskedLabels, storeVars
  <2>4. ASSUME NEW label \in {"raised", "submit", "poll"}, HasIntent(Step(e)), StepTo(e, label)
        PROVE  Orderly'
    BY <1>6, <1>7, <1>8, <2>1, <2>4 DEF AskedLabels, storeVars
  <2> QED BY <1>10, <2>3, <2>4 DEF RecordIntent
<1>11. CASE InsertRow(e)
  <2>1. run[e].pc = "insert_intent" /\ Gate(e) = current
    BY <1>1, <1>11 DEF InsertRow, At, InPlace, WellPlaced
  <2>2. CASE HasIntent(Step(e)) /\ StepTo(e, "raised") /\ UNCHANGED storeVars
    BY <1>6, <1>7, <1>8, <2>2 DEF AskedLabels, storeVars
  <2>3. CASE InsertIntent(Step(e), run[e].at + 1) /\ StepTo(e, "submit")
    <3>1. /\ ~HasIntent(Step(e)) /\ current' = current + 1 /\ status' = "waiting_external_action"
          /\ intent' = [intent EXCEPT ![Step(e)] = [state |-> "intent_recorded", hash |-> NoHash]]
      BY <2>1, <2>3 DEF InsertIntent, Gate
    <3>2. Step(e) = current + 1 /\ ~Unfinished
      BY <1>4, <3>1 DEF Onward
    <3>3. /\ intent'[Step(e)].state = "intent_recorded"
          /\ \A s \in Steps \ {Step(e)} : intent'[s] = intent[s]
      BY <1>4, <3>1 DEF TypeInv, TypeOK, StoreTypeOK
    <3>4. \A s \in Steps : Finished(s)' <=> Finished(s)
      BY <1>2 DEF Finished
    <3>5. FrontierHolds'
      <4>1. \A s \in Steps : s > current + 1 => stepData'[s] = "absent" /\ ~HasIntent(s)'
        <5> SUFFICES ASSUME NEW s \in Steps, s > current + 1
                     PROVE  stepData'[s] = "absent" /\ ~HasIntent(s)'
          OBVIOUS
        <5>1. s \in Nat /\ s > current /\ s # Step(e)
          BY <1>4, <3>2
        <5> QED BY <1>1, <1>2, <3>3, <5>1 DEF RowsInPlace, FrontierHolds, HasIntent
      <4>2. ASSUME crashes' = 0, NEW s \in Steps, s < current + 1 PROVE Finished(s)'
        <5>1. s \in Nat /\ (s < current \/ s = current)
          BY <1>4, <4>2
        <5>2. Finished(s)
          BY <1>1, <1>2, <3>2, <4>2, <5>1 DEF RowsInPlace, FrontierHolds, Unfinished
        <5> QED BY <3>4, <5>2
      <4>3. \A s : s = Step(e) => HasIntent(s)'
        BY <3>3 DEF HasIntent
      <4>4. StatusFits(status)' /\ current + 1 < N
        BY <1>4, <3>1, <3>2, <4>3 DEF StatusFits
      <4> QED BY <3>1, <4>1, <4>2, <4>4 DEF FrontierHolds
    <3>6. VerdictsStand'
      <4>1. \A g \in GateSteps : g <= current + 1 => g <= current
        BY <1>4, <3>2
      <4> QED BY <1>1, <1>2, <3>1, <4>1 DEF RowsInPlace, VerdictsStand, Ruled, HasGate, Latest
    <3>7. SendsReplay'
      <4>1. \A t \in SendSteps : /\ t <= current + 1 => t <= current
                                 /\ t <= current + 1 => t <= (current + 1) + 1
        BY <1>4, <3>2
      <4> QED BY <1>1, <1>2, <3>1, <4>1 DEF RowsInPlace, SendsReplay
    <3>8. RowsInPlace'
      BY <1>1, <1>2, <3>5, <3>6, <3>7 DEF RowsInPlace
    <3>9. run'[e].pc = "submit" /\ run'[e].idx = Step(e)
      BY <1>8, <2>3
    <3>10. Onward(e)' /\ Held(e)' /\ status' # "completed"
      <4>1. run'[e].idx = current' /\ current' \in Steps
        BY <1>4, <3>1, <3>2, <3>9
      <4>2. HasIntent(current)'
        BY <3>1, <3>2, <3>3 DEF HasIntent
      <4> QED BY <3>1, <3>9, <4>1, <4>2 DEF Onward, Held, Step, ForwardLabels, AskedLabels,
             ReadingLabels, WritingLabels
    <3> QED BY <1>5, <3>3, <3>8, <3>9, <3>10 DEF AskedLabels
  <2> QED BY <1>11, <2>2, <2>3 DEF InsertRow
<1>12. CASE Submit(e) \/ PollAnswered(e) \/ PollFails(e)
  <2>1. UNCHANGED storeVars /\ run[e].pc \in {"submit", "poll"}
    BY <1>12 DEF Submit, PollAnswered, PollFails, StoreRead, At
  <2>2. HasIntent(Step(e))
    BY <1>1, <2>1 DEF InPlace, WellPlaced, AskedLabels
  <2>3. ASSUME NEW label \in {"mark_submitted", "set_hash", "raised"}, Goto(e, label)
        PROVE  Orderly'
    BY <1>6, <1>7, <1>8, <2>1, <2>2, <2>3 DEF AskedLabels, storeVars
  <2>4. ASSUME NEW answer \in Answered, Yield(e, answer, "mark_terminal") PROVE Orderly'
    BY <1>6, <1>7, <1>8, <2>1, <2>2, <2>4 DEF AskedLabels, storeVars
  <2>5. CASE Submit(e)
    BY <2>3, <2>5 DEF Submit
  <2>6. CASE PollAnswered(e)
    BY <2>3, <2>4, <2>6 DEF PollAnswered, Answered
  <2>7. CASE PollFails(e)
    BY <2>3, <2>7 DEF PollFails
  <2> QED BY <1>12, <2>5, <2>6, <2>7
<1>13. CASE MarkSubmitted(e) \/ MarkTerminal(e)
  <2>1. /\ run[e].pc \in {"mark_submitted", "mark_terminal"} /\ current' = current
        /\ status' = status
        /\ \E state \in {"submitted", "terminal_read"} :
             intent' = [intent EXCEPT ![Step(e)].state = state]
    BY <1>13 DEF MarkSubmitted, MarkTerminal, MarkIntent, At
  <2>2. HasIntent(Step(e))
    BY <1>1, <2>1 DEF InPlace, WellPlaced, AskedLabels
  <2>3. \A s \in Steps : HasIntent(s)' <=> HasIntent(s)
    <3>1. intent \in [Steps -> [state: IntentStates, hash: Versions \cup {NoHash}]]
      BY DEF TypeInv, TypeOK, StoreTypeOK
    <3>2. \A s \in Steps \ {Step(e)} : intent'[s] = intent[s]
      BY <1>4, <2>1, <3>1
    <3>3. intent'[Step(e)].state # "none"
      BY <1>4, <2>1, <3>1
    <3> QED BY <2>2, <3>2, <3>3 DEF HasIntent
  <2>4. CASE MarkSubmitted(e)
    BY <1>6, <1>8, <2>1, <2>2, <2>3, <2>4 DEF MarkSubmitted, AskedLabels
  <2>5. CASE MarkTerminal(e)
    <3>1. run[e].out \in Answered
      BY <1>1, <1>3, <2>5 DEF MarkTerminal, At, InPlace, Carries
    <3> QED BY <1>6, <1>8, <2>1, <2>2, <2>3, <2>5, <3>1 DEF MarkTerminal, AskedLabels
  <2> QED BY <1>13, <2>4, <2>5
<1> QED BY <1>9, <1>10, <1>11, <1>12, <1>13 DEF Acting

\* Before the first checkpoint.
LEMMA InitOrderly ==
  ASSUME NEW e, Undisturbed(e), Init
  PROVE  AllVouched /\ Orderly
<1>1. run[e] = Idle /\ e \in Engines /\ Engines = {e}
  BY DEF Init, Alone, Undisturbed
<1>2. AllVouched
  BY InitVouched DEF Undisturbed
<1>3. /\ status = "pending" /\ current = -1 /\ effectLog = {} /\ monitor = "idle"
      /\ \A s \in Steps : stepData[s] = "absent" /\ ~HasIntent(s)
  BY DEF Init, CreateWorkflow, HasIntent
<1>4. Steps \subseteq Nat /\ GateSteps \subseteq Steps /\ N \in Nat /\ N # 0
  BY StepsAreNat, KindsDisjoint, StoreAssumption
<1>5. FrontierHolds
  BY <1>3, <1>4 DEF FrontierHolds, StatusFits
<1>6. VerdictsStand /\ SendsReplay
  BY <1>3, <1>4 DEF VerdictsStand, SendsReplay, Verdicts
<1>7. ~Unfinished
  BY <1>3, <1>4 DEF Unfinished
<1>8. InPlace(e)
  BY <1>1, <1>3, <1>7 DEF InPlace, WellPlaced, Carries, Held, Idle, ForwardLabels, AskedLabels,
     ReadingLabels, WritingLabels, RulingLabels
<1> QED BY <1>1, <1>2, <1>3, <1>5, <1>6, <1>8 DEF Orderly, RowsInPlace

LEMMA NextOrderly ==
  ASSUME NEW e, Undisturbed(e), TypeInv, AllVouched, Orderly, [Next]_vars
  PROVE  AllVouched' /\ Orderly'
<1>1. Engines = {e} /\ Alone(e)
  BY DEF Undisturbed, Alone
<1>2. AllVouched'
  BY <1>1, NextVouched
<1>3. Orderly'
  BY <1>1, DecidingOrderly, LoopingOrderly, SteppingOrderly, ActingOrderly, CallingOrderly,
     EnvironmentOrderly DEF Next, Work
<1> QED BY <1>2, <1>3

LEMMA AlwaysOrderly ==
  ASSUME NEW e, Undisturbed(e)
  PROVE  Spec => [](TypeInv /\ Orderly)
<1>1. Init => AllVouched /\ Orderly
  BY InitOrderly
<1>2. TypeInv /\ (AllVouched /\ Orderly) /\ [Next]_vars => (AllVouched /\ Orderly)'
  BY NextOrderly
<1> QED BY <1>1, <1>2, InitTypes, NextTypes, PTL DEF Spec

\* When a workflow is completed, every step is behind it.
LEMMA CompletedPassed ==
  ASSUME TypeInv, Orderly, status = "completed"
  PROVE  /\ \A s \in Steps : s <= current
         /\ crashes = 0 => \A s \in Steps : Finished(s)
<1>1. current = N - 1 /\ Steps = 0 .. N - 1 /\ N \in Nat
  BY StoreAssumption DEF Orderly, RowsInPlace, FrontierHolds, StatusFits, Steps
<1>2. PICK e \in Engines : InPlace(e)
  BY EngineAssumption DEF Orderly
<1>3. ~Unfinished
  BY <1>2 DEF InPlace, WellPlaced, Held, Halted
<1>4. ASSUME crashes = 0, NEW s \in Steps PROVE Finished(s)
  <2>1. s < current \/ s = current
    BY <1>1
  <2> QED BY <1>3, <1>4, <2>1 DEF Orderly, RowsInPlace, FrontierHolds, Unfinished
<1>5. \A s \in Steps : s <= current
  BY <1>1
<1> QED BY <1>4, <1>5

\* A send that was logged is what the completed workflow reports: whatever crashed between
\* log_side_effect and the checkpoint, the step that is run again finds the approval it was
\* sent under and replays the logged result (workflows.py send_reply, engine.py _run_from_step).
THEOREM SendsReported ==
  ASSUME NEW e, Undisturbed(e)
  PROVE  Spec => []LoggedSendReported
<1>1. TypeInv /\ Orderly => LoggedSendReported
  BY CompletedPassed, KindsDisjoint DEF Orderly, RowsInPlace, SendsReplay, LoggedSendReported
<1> QED BY <1>1, AlwaysOrderly, PTL

\* Until something crashes, nothing after a gate has an output while the gate's own checkpoint
\* is the pending one: resume() starts at the gate again, not after it.
THEOREM PendingGatesHold ==
  ASSUME NEW e, Undisturbed(e)
  PROVE  Spec => []NothingPassesAPendingGate
<1>1. TypeInv /\ Orderly => NothingPassesAPendingGate
  <2> SUFFICES ASSUME TypeInv, Orderly, crashes = 0, NEW g \in GateSteps, NEW s \in Steps,
                      g < s, stepData[s] # "absent"
               PROVE  stepData[g] # "pending"
    BY DEF NothingPassesAPendingGate
  <2>1. FrontierHolds /\ g \in Steps /\ g \in Int /\ s \in Int /\ current \in Int
    BY KindsDisjoint, StepsAreNat DEF Orderly, RowsInPlace, TypeInv, TypeOK, StoreTypeOK
  <2>2. g < current
    BY <2>1 DEF FrontierHolds
  <2> QED BY <2>1, <2>2 DEF FrontierHolds, Finished
<1> QED BY <1>1, AlwaysOrderly, PTL

\* Until something crashes, a workflow that completes had no terminating rejection at a gate
\* whose decision resume() reads (engine.py _resume_index_after_approval).
THEOREM RejectionsEnd ==
  ASSUME NEW e, Undisturbed(e)
  PROVE  Spec => []RejectionTerminates
<1>1. TypeInv /\ Orderly => RejectionTerminates
  BY CompletedPassed, KindsDisjoint DEF RejectionTerminates, Finished
<1> QED BY <1>1, AlwaysOrderly, PTL

\* Until something crashes, a workflow that completes has the gateway's outcome for each of its
\* external steps, or has skipped it for lack of an approval (engine.py resume, the waiting
\* branch, and the except clause that keeps a step with an intent waiting).
THEOREM ExternalStepsAnswered ==
  ASSUME NEW e, Undisturbed(e)
  PROVE  Spec => []ExternalStepNotSkipped
<1>1. TypeInv /\ Orderly => ExternalStepNotSkipped
  BY CompletedPassed, KindsDisjoint DEF ExternalStepNotSkipped, Finished, Answered
<1> QED BY <1>1, AlwaysOrderly, PTL
-----------------------------------------------------------------------------
(***************************************************************************)
(* WorkflowEngine implements DurableRun, under OneWriterAtATime: a         *)
(* checkpoint and a new intent settle a step, a decision grants an         *)
(* approval, a log call performs an effect, and all else stutters.         *)
(***************************************************************************)

\* What a step may do to the abstract state.
Abstracts == [Abstract!Next]_(Abstract!vars)

LEMMA SettledIsTraced ==
  /\ {s \in Steps : Stored(s)} = Traced
  /\ \A s \in Steps : Abstract!EarlierThan(s) = UpTo(s - 1)
<1>1. \A s, t \in Nat : t < s <=> t <= s - 1
  OBVIOUS
<1>2. \A s \in Steps : s \in Nat
  BY StepsAreNat
<1> QED BY <1>1, <1>2 DEF Traced, UpTo, Abstract!EarlierThan

LEMMA InitRefines == Init => Abstract!Init
<1> SUFFICES ASSUME Init PROVE Abstract!Init
  OBVIOUS
<1>1. {s \in Steps : Stored(s)} = {}
  BY DEF Init, CreateWorkflow, Stored, HasIntent
<1> QED BY <1>1 DEF Init, CreateWorkflow, EmptyQueue, Abstract!Init

\* The four abstract steps.
LEMMA StutterRefines ==
  ASSUME Still, effectLog' = effectLog
  PROVE  Abstracts
BY DEF Still, Traced, Abstract!vars, Abstracts

LEMMA SettleRefines ==
  ASSUME NEW s \in Steps, UpTo(s - 1) \subseteq Traced, Traced' = Traced \cup {s},
         UNCHANGED <<everApproved, effectLog>>
  PROVE  Abstracts
<1>1. Abstract!Settle(s)
  BY SettledIsTraced DEF Abstract!Settle, Traced
<1> QED BY <1>1 DEF Abstracts, Abstract!Next

LEMMA GrantRefines ==
  ASSUME NEW g \in Steps, everApproved' = everApproved \cup {g}, Traced' = Traced,
         effectLog' = effectLog
  PROVE  Abstracts
<1>1. Abstract!Grant(g)
  BY DEF Abstract!Grant, Traced
<1> QED BY <1>1 DEF Abstracts, Abstract!Next

LEMMA PerformRefines ==
  ASSUME NEW s \in Steps, StoreWrite, LogSideEffect(KeyOf[s]),
         \/ s \in CommitSteps /\ s \in everApproved
         \/ /\ s \in SendSteps /\ ApprovalFor[s] \in everApproved
            /\ UpTo(s - 1) \subseteq Traced
  PROVE  Abstracts
<1>1. Traced' = Traced /\ everApproved' = everApproved
  BY DEF LogSideEffect, StoreWrite, gateVars, Traced, Stored, HasIntent
<1>2. Abstract!Allowed(s)
  BY SettledIsTraced DEF Abstract!Allowed
<1>3. Abstract!Perform(s)
  BY <1>1, <1>2 DEF LogSideEffect, Abstract!Perform, Traced
<1> QED BY <1>3 DEF Abstracts, Abstract!Next
-----------------------------------------------------------------------------
LEMMA ReadRefines ==
  ASSUME StoreRead
  PROVE  Abstracts
BY ReadIsStill, StutterRefines

LEMMA StatusRefines ==
  ASSUME StoreWrite, NEW new, UpdateStatus(new)
  PROVE  Abstracts
BY StatusIsStill, StutterRefines

LEMMA SaveRefines ==
  ASSUME Safe, OneWriterAtATime, NEW e \in Engines, NEW s \in Steps, NEW output \in Outputs,
         StoreWrite, Save(e, s, output), Fits(s, output), UpTo(s - 1) \subseteq Traced
  PROVE  Abstracts
<1>1. Traced' = Traced \cup {s}
  BY SaveGrows
<1>2. UNCHANGED <<everApproved, effectLog>>
  BY DEF Save, SaveCheckpoint, StoreWrite, gateVars
<1> QED BY <1>1, <1>2, SettleRefines

LEMMA DecidingRefines ==
  ASSUME Safe, OneWriterAtATime, NEW e \in Engines, Deciding(e)
  PROVE  Abstracts
<1>1. CASE ReadDecision(e) \/ CommitCheck(e) \/ Reload(e)
  BY <1>1, ReadRefines DEF ReadDecision, CommitCheck, Reload
<1>2. CASE MarkDecided(e) \/ MarkContinued(e)
  BY <1>2, StatusRefines DEF MarkDecided, MarkContinued
<1>3. CASE CommitExecute(e)
  <2>1. Still /\ effectLog' = effectLog
    BY <1>3 DEF CommitExecute, Still, storeVars, gateVars, Traced, Asked, Stored, HasIntent
  <2> QED BY <2>1, StutterRefines
<1>4. CASE CommitLog(e)
  <2>1. Gate(e) \in CommitSteps /\ Gate(e) \in everApproved /\ Gate(e) \in Steps
    BY <1>4, CommitFacts, KindsDisjoint DEF CommitLog
  <2>2. UNCHANGED storeVars => Still /\ effectLog' = effectLog
    BY <1>4 DEF CommitLog, StoreWrite, Still, storeVars, gateVars, envVars, Traced, Asked, Stored,
                HasIntent
  <2> QED BY <1>4, <2>1, <2>2, PerformRefines, StutterRefines DEF CommitLog
<1>5. CASE SaveDecision(e)
  <2>1. run[e].out \in Outputs
    BY FieldTypes DEF Safe
  <2> QED BY <1>5, <2>1, DecisionFacts, SaveRefines DEF SaveDecision
<1> QED BY <1>1, <1>2, <1>3, <1>4, <1>5 DEF Deciding

LEMMA LoopingRefines ==
  ASSUME Safe, OneWriterAtATime, NEW e \in Engines, Looping(e)
  PROVE  Abstracts
<1>1. CASE CheckWait(e) \/ CheckDefinition(e) \/ LoadState(e) \/ SelectData(e)
  BY <1>1, ReadRefines DEF CheckWait, CheckDefinition, LoadState, SelectData
<1>2. CASE MarkStale(e) \/ MarkRunning(e) \/ Complete(e) \/ Raised(e) \/ MarkPaused(e)
           \/ MarkWaiting(e)
  BY <1>2, StatusRefines DEF MarkStale, MarkRunning, Complete, Raised, MarkPaused, MarkWaiting
<1>3. CASE SaveResult(e)
  <2>1. run[e].out \in Outputs
    BY FieldTypes DEF Safe
  <2> QED BY <1>3, <2>1, ResultFacts, SaveRefines DEF SaveResult
<1>4. CASE SavePending(e)
  BY <1>4, ResultFacts, SaveRefines DEF SavePending, Outputs
<1>5. CASE RecordHash(e)
  <2>1. Still /\ effectLog' = effectLog
    BY <1>5 DEF RecordHash, RecordGateHash, GateWrite, Still, storeVars, envVars, Traced, Asked,
                Stored, HasIntent
  <2> QED BY <2>1, StutterRefines
<1>6. CASE SetHash(e)
  BY <1>6, IntentIsStill, StutterRefines DEF SetHash
<1> QED BY <1>1, <1>2, <1>3, <1>4, <1>5, <1>6 DEF Looping

LEMMA SteppingRefines ==
  ASSUME Safe, NEW e \in Engines, Stepping(e)
  PROVE  Abstracts
<1>1. CASE PlainSucceeds(e) \/ PlainRaises(e) \/ RunGate(e) \/ GateCheck(e) \/ RunSend(e)
  BY <1>1, ReadRefines DEF PlainSucceeds, PlainRaises, RunGate, GateCheck, RunSend
<1>2. CASE GateInsert(e)
  <2>1. Still /\ effectLog' = effectLog
    BY <1>2 DEF GateInsert, InsertGate, GateWrite, Still, storeVars, envVars, Traced, Asked,
                Stored, HasIntent
  <2> QED BY <2>1, StutterRefines
<1>3. CASE SendLog(e)
  <2>1. UNCHANGED storeVars => Still /\ effectLog' = effectLog
    BY <1>3 DEF SendLog, StoreWrite, Still, storeVars, gateVars, envVars, Traced, Asked, Stored,
                HasIntent
  <2> QED BY <1>3, <2>1, SendFacts, PerformRefines, StutterRefines DEF SendLog
<1> QED BY <1>1, <1>2, <1>3 DEF Stepping

LEMMA ActingRefines ==
  ASSUME Safe, OneWriterAtATime, NEW e \in Engines, Acting(e)
  PROVE  Abstracts
<1>1. CASE RunExternal(e) \/ RecordIntent(e) \/ PollAnswered(e) \/ PollFails(e)
  BY <1>1, ReadRefines DEF RunExternal, RecordIntent, PollAnswered, PollFails
<1>2. CASE InsertRow(e)
  <2>1. CASE UNCHANGED storeVars
    <3>1. Still /\ effectLog' = effectLog
      BY <1>2, <2>1 DEF InsertRow, StoreWrite, Still, storeVars, gateVars, envVars, Traced, Asked,
                        Stored, HasIntent
    <3> QED BY <3>1, StutterRefines
  <2>2. CASE InsertIntent(Step(e), Gate(e) + 1)
    <3>1. /\ Step(e) \in Steps /\ UpTo(Step(e) - 1) \subseteq Traced
          /\ Traced' = Traced \cup {Step(e)}
      BY <1>2, <2>2, InsertGrows, AskingFacts DEF InsertRow, At
    <3>2. UNCHANGED <<everApproved, effectLog>>
      BY <1>2, <2>2 DEF InsertRow, InsertIntent, StoreWrite, gateVars
    <3> QED BY <3>1, <3>2, SettleRefines
  <2> QED BY <1>2, <2>1, <2>2 DEF InsertRow, Gate
<1>3. CASE Submit(e)
  <2>1. Still /\ effectLog' = effectLog
    BY <1>3 DEF Submit, Still, storeVars, gateVars, Traced, Asked, Stored, HasIntent
  <2> QED BY <2>1, StutterRefines
<1>4. CASE MarkSubmitted(e) \/ MarkTerminal(e)
  <2>1. Step(e) \in Asked
    BY <1>4, AskedFacts DEF MarkSubmitted, MarkTerminal, At
  <2>2. Still /\ effectLog' = effectLog
    BY <1>4, <2>1, IntentIsStill DEF MarkSubmitted, MarkTerminal
  <2> QED BY <2>2, StutterRefines
<1> QED BY <1>1, <1>2, <1>3, <1>4 DEF Acting

LEMMA OthersRefine ==
  /\ \A e \in Engines : Execute(e) \/ Resume(e) \/ Crash(e) \/ Release(e) => Abstracts
  /\ Decide \/ DetectSelect \/ DetectUpdate \/ GatewayDecides \/ UNCHANGED vars => Abstracts
<1>1. ASSUME NEW e \in Engines, Execute(e) \/ Resume(e)
      PROVE  Abstracts
  BY <1>1, ReadRefines DEF Execute, Resume
<1>2. ASSUME NEW e \in Engines, Crash(e) \/ Release(e)
      PROVE  Abstracts
  <2>1. Still /\ effectLog' = effectLog
    BY <1>2 DEF Crash, Release, Still, storeVars, gateVars, envVars, Traced, Asked, Stored,
                HasIntent
  <2> QED BY <2>1, StutterRefines
<1>3. CASE Decide
  <2>1. /\ draft' = draft /\ Traced' = Traced /\ Asked' = Asked /\ current' = current
        /\ stepData' = stepData /\ effectLog' = effectLog
    BY <1>3 DEF Decide, storeVars, envVars, Traced, Asked, Stored, HasIntent
  <2>2. PICK g \in GateSteps : \/ everApproved' = everApproved
                               \/ everApproved' = everApproved \cup {g}
    BY <1>3 DEF Decide, Approve, Reject
  <2>3. g \in Steps
    BY KindsDisjoint
  <2> QED BY <2>1, <2>2, <2>3, GrantRefines, StutterRefines DEF Still
<1>4. CASE DetectSelect \/ DetectUpdate \/ GatewayDecides \/ UNCHANGED vars
  <2>1. Still /\ effectLog' = effectLog
    BY <1>4 DEF DetectSelect, DetectUpdate, GatewayDecides, UpdateStatus, Still, vars, storeVars,
                gateVars, envVars, Traced, Asked, Stored, HasIntent
  <2> QED BY <2>1, StutterRefines
<1> QED BY <1>1, <1>2, <1>3, <1>4

LEMMA NextRefines == OneWriterAtATime /\ Safe /\ [Next]_vars => Abstracts
<1> SUFFICES ASSUME OneWriterAtATime, Safe, [Next]_vars PROVE Abstracts
  OBVIOUS
<1>1. ASSUME NEW e \in Engines, Execute(e) \/ Resume(e) \/ Work(e) \/ Crash(e) \/ Release(e)
      PROVE  Abstracts
  BY <1>1, OthersRefine, DecidingRefines, LoopingRefines, SteppingRefines, ActingRefines DEF Work
<1> QED BY <1>1, OthersRefine DEF Next

\* The rows of a workflow, whatever runs, crashes and decides, are those of the abstract
\* durable run: steps settle in order and for good, an effect is logged once and only with
\* its approval (save_checkpoint, record_external_action_intent, log_side_effect).
THEOREM Implements ==
  ASSUME OneWriterAtATime
  PROVE  Spec => ImplementsDurableRun
<1>1. Safe /\ [Next]_vars => [Abstract!Next]_(Abstract!vars)
  BY NextRefines DEF Abstracts
<1> QED BY <1>1, AlwaysSafe, InitRefines, PTL DEF Spec, ImplementsDurableRun, Abstract!Spec
=============================================================================
