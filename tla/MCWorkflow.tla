----------------------------- MODULE MCWorkflow -----------------------------
(***************************************************************************)
(* Three small workflows that between them have every kind of step:        *)
(*   Long    plain, approval_step, send, agent write turn, gateway step    *)
(*   Short   agent write turn that continues on rejection, send            *)
(*   Client  plain, gateway step                                           *)
(* Long is run by one engine, the others by two.                           *)
(***************************************************************************)
EXTENDS WorkflowInvariant, TLC

CONSTANTS e1, e2

OneEngine == {e1}
TwoEngines == {e1, e2}
Swap == Permutations(TwoEngines)

NoSteps == {}
NoFunction == [s \in NoSteps |-> 0]

LongGates == {1, 3}
LongRecheck == {1}
LongCommit == {3}
LongSend == {2}
LongExternal == {4}
LongApproval == 2 :> 1 @@ 4 :> 1
LongKeys == 2 :> "send" @@ 3 :> "write"

ShortGates == {0}
ShortSend == {1}
ShortApproval == 1 :> 0
ShortKeys == 0 :> "write" @@ 1 :> "send"

ClientExternal == {1}

\* Who calls execute(): whoever sees the workflow open but not paused, or
\* anyone, as a queue that redelivers its message does.
UnlessPaused == Statuses \ {"paused_approval"}
Anyone == Statuses
=============================================================================
