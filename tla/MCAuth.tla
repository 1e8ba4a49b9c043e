--------------------------------- MODULE MCAuth --------------------------------
(* Small instances of Auth for TLC. *)
EXTENDS Auth
=============================================================================
