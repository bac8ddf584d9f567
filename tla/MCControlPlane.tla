--------------------------- MODULE MCControlPlane ---------------------------
(***************************************************************************)
(* The instance of ControlPlane for TLC.  All its constants are given in   *)
(* the .cfg; there is no symmetry, because the run checks liveness.        *)
(***************************************************************************)
EXTENDS ControlPlane
=============================================================================
