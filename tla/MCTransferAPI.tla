----------------------------- MODULE MCTransferAPI -----------------------------
(* Values of the constants and symmetry for the run of TransferAPI.          *)
EXTENDS Listing, TLC

Zero == {0}
One == {1}

NameSymmetry == Permutations(Users) \cup Permutations(Currencies)
===============================================================================
