---------------------------- MODULE MCEventBus ----------------------------
(***************************************************************************)
(* Instances of EventBus for TLC: model values for threads and keys; each  *)
(* .cfg chooses the capacity, the bounds and what callbacks may do.        *)
(***************************************************************************)
EXTENDS EventBus

CONSTANTS w1, w2, c1, c2, k1, k2

=============================================================================
