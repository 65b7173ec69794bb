--------------------------- MODULE MCControlPlane ---------------------------
(***************************************************************************)
(* The instance of ControlPlane for TLC: model values for the clients.     *)
(***************************************************************************)
EXTENDS ControlPlane

CONSTANTS c1, c2

=============================================================================
