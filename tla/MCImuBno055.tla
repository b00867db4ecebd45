---------------------------- MODULE MCImuBno055 -----------------------------
(***************************************************************************)
(* The model is finite as it stands.                                       *)
(***************************************************************************)
EXTENDS ImuBno055
=============================================================================
