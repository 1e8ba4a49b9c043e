----------------------------- MODULE MCWaterTracker -----------------------------
(* A small instance of WaterTracker for TLC. *)
EXTENDS WaterTracker
=============================================================================
