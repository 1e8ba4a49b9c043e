------------------------------- MODULE MCStudents -------------------------------
(* A small instance of Students for TLC. *)
EXTENDS Students
=============================================================================
