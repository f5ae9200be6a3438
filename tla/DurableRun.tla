----------------------------- MODULE DurableRun -----------------------------
(***************************************************************************)
(* What a durable workflow promises, whatever crashes and however many     *)
(* processes run it (docs/dflow-arch.md, Core Invariants, as the code of   *)
(* src/engine.py keeps them): steps are settled in order and stay settled, *)
(* and an effect happens at most once in the log, for a step whose gate    *)
(* was approved and, for a send, after everything before it was settled.   *)
(***************************************************************************)
EXTENDS Integers

CONSTANTS
  Steps,      \* 0 .. n - 1
  Sends,      \* the steps with an effect of their own
  Commits,    \* the gates whose approval has an effect
  GateOf,     \* the gate a send obeys
  Key         \* the key an effect is logged under

VARIABLES
  settled,    \* steps with a durable trace
  approvals,  \* gates some operator approved
  effects     \* keys of the effects that happened

vars == <<settled, approvals, effects>>

EarlierThan(s) == {t \in Steps : t < s}

Init == settled = {} /\ approvals = {} /\ effects = {}

Settle(s) ==
  /\ EarlierThan(s) \subseteq settled
  /\ settled' = settled \cup {s}
  /\ UNCHANGED <<approvals, effects>>

Grant(g) ==
  /\ approvals' = approvals \cup {g}
  /\ UNCHANGED <<settled, effects>>

Allowed(s) == \/ s \in Commits /\ s \in approvals
              \/ s \in Sends /\ GateOf[s] \in approvals /\ EarlierThan(s) \subseteq settled

Perform(s) ==
  /\ Allowed(s) /\ Key[s] \notin effects
  /\ effects' = effects \cup {Key[s]}
  /\ UNCHANGED <<settled, approvals>>

Next == \E s \in Steps : Settle(s) \/ Grant(s) \/ Perform(s)

Spec == Init /\ [][Next]_vars
=============================================================================
