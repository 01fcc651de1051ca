------------------------- MODULE MCTrafficScheduler -------------------------
(* Small instances of TrafficScheduler. *)
EXTENDS TrafficScheduler
=============================================================================
