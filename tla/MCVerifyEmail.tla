----------------------------- MODULE MCVerifyEmail -----------------------------
(* Symmetry for the runs of VerifyEmail.                                     *)
EXTENDS VerifyEmail, TLC

Symmetry == Permutations(Calls) \cup Permutations(Names) \cup Permutations(Emails)
===============================================================================
