--------------------------------- MODULE Access ---------------------------------
(*****************************************************************************)
(* What log-in and tokens promise: who may act as a user, and until when.    *)
(* Access begins with a password, lasts at most Longest beyond the moment it *)
(* was checked, and is only ever lost to time.                               *)
(*****************************************************************************)
EXTENDS Naturals

CONSTANTS
  Users,
  Longest     \* how long a checked password may let its user act

VARIABLES
  now,        \* the clock
  proved,     \* when a user's password was last checked, 0 for never
  may         \* the users that somebody can act as

vars == <<now, proved, may>>

Epoch == 0

InTime(u, t) == proved[u] # Epoch /\ t <= proved[u] + Longest

Init ==
  /\ now = 1
  /\ proved = [u \in Users |-> Epoch]
  /\ may = {}

\* The right password is presented; acting begins later, or never.
Prove(u) ==
  /\ proved' = [proved EXCEPT ![u] = now]
  /\ UNCHANGED <<now, may>>

Grant(u) ==
  /\ InTime(u, now)
  /\ may' = may \cup {u}
  /\ UNCHANGED <<now, proved>>

\* Time passes; it may end somebody's access, and must when Longest is over.
Tick ==
  /\ now' = now + 1
  /\ may' \subseteq may
  /\ \A u \in may' : InTime(u, now')
  /\ UNCHANGED proved

Next == Tick \/ \E u \in Users : Prove(u) \/ Grant(u)

Spec == Init /\ [][Next]_vars
=================================================================================
