------------------------------ MODULE MCFirestore ------------------------------
(* Small instances of Firestore for TLC. *)
EXTENDS Firestore
=============================================================================
