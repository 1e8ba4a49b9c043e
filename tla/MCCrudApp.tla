------------------------------- MODULE MCCrudApp -------------------------------
(* Small instances of CrudApp for TLC. *)
EXTENDS CrudApp
=============================================================================
