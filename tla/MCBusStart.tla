----------------------------- MODULE MCBusStart -----------------------------
(***************************************************************************)
(* The instance of BusStart for TLC: three messages from start functions   *)
(* and two later ones, for a queue of two.                                 *)
(***************************************************************************)
EXTENDS BusStart

CONSTANTS w1, w2, m1, m2, m3, m4, m5

=============================================================================
