-------------------------- MODULE MCCriticalErrors --------------------------
(***************************************************************************)
(* Instances of CriticalErrors for TLC.  The code's 63 slots and 32 bits   *)
(* become 2w - 1 slots and w bits.                                         *)
(***************************************************************************)
EXTENDS CriticalErrors

CONSTANTS p1, p2

=============================================================================
