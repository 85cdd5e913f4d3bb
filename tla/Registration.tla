----------------------------- MODULE Registration ------------------------------
(*****************************************************************************)
(* What signing up promises, whatever fails in between: a call adds its user *)
(* in one step or adds nobody, is told "AlreadyExists" only while somebody   *)
(* holds the name or the address, is told "OK" only with its user added, and *)
(* mail is sent to users only.  A user is never removed and an answer is     *)
(* never taken back.                                                         *)
(*                                                                           *)
(* Redis, tasks, transactions and the process do not appear: VerifyEmail     *)
(* implements this.                                                          *)
(*****************************************************************************)

CONSTANTS Calls, User, NoUser

CONSTANT Conflict(_, _)  \* two users who cannot both be there

VARIABLES
  users,  \* the users there are
  req,    \* the user a call asks for
  reply,  \* its answer: "none", "OK", "AlreadyExists" or "Internal"
  told    \* the users' names that were mailed to

Init ==
  /\ users = {}
  /\ req = [c \in Calls |-> NoUser]
  /\ reply = [c \in Calls |-> "none"]
  /\ told = {}

Ask(c, u) ==
  /\ req[c] = NoUser
  /\ req' = [req EXCEPT ![c] = u]
  /\ UNCHANGED <<users, reply, told>>

Unanswered(c) == req[c] # NoUser /\ reply[c] = "none"

Taken(u) == \E v \in users : Conflict(u, v)

\* The user joins; the answer may get lost.
Join(c) ==
  /\ Unanswered(c)
  /\ ~Taken(req[c])
  /\ users' = users \cup {req[c]}
  /\ \E r \in {"OK", "Internal"} : reply' = [reply EXCEPT ![c] = r]
  /\ UNCHANGED <<req, told>>

Refuse(c) ==
  /\ Unanswered(c)
  /\ Taken(req[c])
  /\ reply' = [reply EXCEPT ![c] = "AlreadyExists"]
  /\ UNCHANGED <<users, req, told>>

\* The service could not do it.
GiveUp(c) ==
  /\ Unanswered(c)
  /\ reply' = [reply EXCEPT ![c] = "Internal"]
  /\ UNCHANGED <<users, req, told>>

Mail(u) ==
  /\ u \in users
  /\ told' = told \cup {u.name}
  /\ UNCHANGED <<users, req, reply>>

Next ==
  \/ \E c \in Calls :
       \/ \E u \in User : Ask(c, u)
       \/ Join(c) \/ Refuse(c) \/ GiveUp(c)
  \/ \E u \in users : Mail(u)

Spec == Init /\ [][Next]_<<users, req, reply, told>>
===============================================================================
