----------------------------- MODULE MCTransferTx -----------------------------
(* Values of the constants and symmetry for the runs of TransferTx.          *)
EXTENDS TransferTx, TLC

NoValues == {}
Zero == {0}
One == {1}
Two == {2}

ClientSymmetry == Permutations(Clients)
===============================================================================
