----------------------------- MODULE MCJobQueue -----------------------------
(* Two workflows behind one message group, two invocations, one worker.        *)
EXTENDS JobQueue

TwoWorkflows == {"a", "b"}
TwoCalls == {"c1", "c2"}
OneWorker == {"k1"}
=============================================================================
