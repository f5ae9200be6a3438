------------------------------- MODULE MCAgent -------------------------------
(***************************************************************************)
(* The scripted agents with enough turns to end, a free agent that may     *)
(* answer anything for three turns, and a reader that outlasts ten.        *)
(***************************************************************************)
EXTENDS AgentRunner, TLC

ShortRuns == "mini" :> 7 @@ "adk" :> 4 @@ "free" :> 3
LongRun == "reader" :> 12
Scenarios == {{}, {"injection"}, {"malformed"}, {"slow"}}
NoScenario == {{}}
SomeWrites == {Call("update_ticket", "a"), Call("escalate", "a")}
NoWrites == {}
=============================================================================
