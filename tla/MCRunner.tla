------------------------------ MODULE MCRunner ------------------------------
(* Values for model checking Runner. *)
EXTENDS Runner
=============================================================================
