------------------------------ MODULE MCColony ------------------------------
(***************************************************************************)
(* Three jobs of two stages on a pool of two slots, and every schedule of  *)
(* up to three evictions within the first nine seconds.                    *)
(***************************************************************************)
EXTENDS Colony, FiniteSetsExt, TLC

Seconds == 0 :> 2 @@ 1 :> 3
SomeSchedules == UNION {kSubset(n, [at : 1 .. 9, slot : Slots]) : n \in 0 .. 3}
SomeBudgets == {0, 2, 5, 9, 16, 40}
=============================================================================
