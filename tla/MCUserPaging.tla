------------------------------ MODULE MCUserPaging -----------------------------
(* Small instances of UserPaging for TLC. *)
EXTENDS UserPaging
=============================================================================
