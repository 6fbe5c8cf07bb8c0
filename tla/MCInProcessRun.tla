--------------------------- MODULE MCInProcessRun ---------------------------
(* Model checking InProcessRun.  Runs share nothing but the mutex of the     *)
(* maps, so one run with several cancel requests is enough.                  *)
EXTENDS InProcessRun
=============================================================================
