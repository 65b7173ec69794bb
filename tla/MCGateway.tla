----------------------------- MODULE MCGateway -----------------------------
(***************************************************************************)
(* The instance of Gateway for TLC: model values for threads and libraries *)
(* and an arena for two or three messages.                                 *)
(***************************************************************************)
EXTENDS Gateway

CONSTANTS s1, s2, d, l1

=============================================================================
