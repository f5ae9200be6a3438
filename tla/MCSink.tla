------------------------------- MODULE MCSink -------------------------------
(***************************************************************************)
(* A sink with room for two items, two program threads and two workflows:  *)
(* a step that starts and is noted, and a step event of another workflow   *)
(* without a step name, which only makes sure of the root run.             *)
(***************************************************************************)
EXTENDS LangSmithSink

On(w, k) == [workflow |-> w, step |-> "s", kind |-> k]
SomeEvents == {On("w1", "start"), On("w1", "note"), On("w2", "bare")}
=============================================================================
