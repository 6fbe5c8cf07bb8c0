--------------------------- MODULE MCEventStream ----------------------------
(***************************************************************************)
(* Model checking EventStream.  Readers share nothing but the timeline,    *)
(* which none of them writes, so one reader is enough.                     *)
(***************************************************************************)
EXTENDS EventStream
=============================================================================
