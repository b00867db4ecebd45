-------------------------- MODULE MCImuCalibration --------------------------
(***************************************************************************)
(* A counter that wraps between two timeouts; two saves, so that one can  *)
(* be requested while the other is claimed.                                *)
(***************************************************************************)
EXTENDS ImuCalibration
=============================================================================
