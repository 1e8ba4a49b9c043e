--------------------------- MODULE MCMoneyManagement ---------------------------
(* Small instances of MoneyManagement for TLC. *)
EXTENDS MoneyManagement
=============================================================================
