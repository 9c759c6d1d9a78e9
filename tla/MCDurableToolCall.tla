-------------------------- MODULE MCDurableToolCall --------------------------
(***************************************************************************)
(* DurableToolCall for TLC: one user makes two calls, each dispatched at   *)
(* most twice, with points for two holds at a time.  A bound: the month    *)
(* only changes while one of them is not made, and then it never is.       *)
(***************************************************************************)
EXTENDS DurableToolCall, TLC

CONSTANTS u1, c1, c2

MCUsers == {u1}
MCCalls == {c1, c2}
MCOwner == (c1 :> u1) @@ (c2 :> u1)

MCDurableNext == DurableNext /\ (month' = 1 \/ status'[c2] = "absent")

MCDurableSpec ==
  DurableInit /\ [][MCDurableNext]_durableVars /\ RecoveryFairness
=============================================================================
