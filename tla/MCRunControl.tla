---------------------------- MODULE MCRunControl ----------------------------
(* Model checking RunControl.  Runs share nothing, so one run is enough. *)
EXTENDS RunControl
=============================================================================
