---------------------------- MODULE MCStripePayment ----------------------------
(* Small instances of StripePayment for TLC. *)
EXTENDS StripePayment
=============================================================================
