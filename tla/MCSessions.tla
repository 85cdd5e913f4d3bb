------------------------------- MODULE MCSessions -------------------------------
(* Symmetry for the runs of Sessions.                                        *)
EXTENDS Sessions, TLC

Symmetry ==
  Permutations(Calls) \cup Permutations(Users) \cup Permutations(Passwords)
    \cup Permutations(Emails)
=================================================================================
