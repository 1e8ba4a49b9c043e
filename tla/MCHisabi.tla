-------------------------------- MODULE MCHisabi -------------------------------
(* Small instances of Hisabi for TLC; barcodes are interchangeable. *)
EXTENDS Hisabi, TLC

Symmetry == Permutations(Barcodes)

(* Run hisabi is about submits: a list whose load failed is left to run    *)
(* hisabi_pages.                                                           *)
LoadsSucceed == list.open => list.missed = "nothing"
=============================================================================
