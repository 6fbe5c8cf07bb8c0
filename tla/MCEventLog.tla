----------------------------- MODULE MCEventLog -----------------------------
(* Model checking EventLog: the timeline of one run. *)
EXTENDS EventLog
=============================================================================
