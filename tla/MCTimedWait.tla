---------------------------- MODULE MCTimedWait -----------------------------
(* Instances of TimedWait for TLC. *)
EXTENDS TimedWait
=============================================================================
