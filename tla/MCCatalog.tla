----------------------------- MODULE MCCatalog ------------------------------
(* Values for model checking Catalog. *)
EXTENDS Catalog
=============================================================================
