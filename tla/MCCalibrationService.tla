------------------------ MODULE MCCalibrationService ------------------------
(***************************************************************************)
(* Two calls, so that the second meets what the first has left behind: a   *)
(* save still under way, a stale status, a late answer.  Times are to      *)
(* scale with each other: a frame takes a fraction of a status period, a   *)
(* save less than one, and an attempt waits as long as the motor watchdog. *)
(***************************************************************************)
EXTENDS CalibrationService

\* CleanCallIsShort is checked here under the assumption it is proved from.
ASSUME PromptTimes == PromptLink
=============================================================================
