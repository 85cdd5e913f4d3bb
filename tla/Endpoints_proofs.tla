---------------------------- MODULE Endpoints_proofs ---------------------------
(* IInv of Endpoints is an invariant, for every set of calls and of texts.   *)
EXTENDS Endpoints, TLAPS

USE DEF Server, Registered

\* What the handlers pass on to the store has been checked by them.
LEMMA PassedIsChecked ==
  ASSUME NEW h \in Passed
  PROVE  /\ h \in Held
         /\ h.method # "UpdateUser" => h.password # Absent
         /\ h.method = "UpdateUser" => h.door # "gin"
         /\ h.password # Absent =>
              LoginAccepted(Server(h.door), h.username, h.password)
         /\ h.password # Absent /\ h.method # "LoginUser" => Hashable(h.password)
<1>1. PICK q \in Requests :
        /\ Verdict(q) = "OK"
        /\ h = [method |-> q.method, door |-> q.door, username |-> q.username,
                password |-> q.password]
  BY DEF Passed
<1>2. Accepted(q)
  BY <1>1 DEF Verdict
<1>3. q.method # "LoginUser" /\ q.password # Absent => Hashable(q.password)
  BY <1>1 DEF Verdict
<1>4. CASE q \in CreateRequest
  <2>1. q.method = "CreateUser" /\ q.door \in Doors /\ q.username \in Usernames
        /\ q.password \in Passwords
    BY <1>4 DEF CreateRequest
  <2>2. q.password # Absent
    BY <2>1, TextsAssumption
  <2>3. LoginAccepted(Server(q.door), q.username, q.password)
    BY <1>2, <2>1 DEF Accepted, CreateAccepted, LoginAccepted
  <2> QED
    BY <1>1, <1>3, <2>1, <2>2, <2>3 DEF Held
<1>5. CASE q \in LoginRequest
  <2>1. q.method = "LoginUser" /\ q.door \in Doors /\ q.username \in Usernames
        /\ q.password \in Passwords
    BY <1>5 DEF LoginRequest
  <2>2. q.password # Absent
    BY <2>1, TextsAssumption
  <2>3. LoginAccepted(Server(q.door), q.username, q.password)
    BY <1>2, <2>1 DEF Accepted
  <2> QED
    BY <1>1, <2>1, <2>2, <2>3 DEF Held
<1>6. CASE q \in UpdateRequest
  <2>1. q.method = "UpdateUser" /\ q.door \in Doors \ {"gin"}
        /\ q.username \in Usernames /\ q.password \in Passwords \cup {Absent}
    BY <1>6 DEF UpdateRequest
  <2>2. q.password # Absent => LoginAccepted(Server(q.door), q.username, q.password)
    BY <1>2, <2>1 DEF Accepted, UpdateAccepted, LoginAccepted, Doors
  <2> QED
    BY <1>1, <1>3, <2>1, <2>2 DEF Held, Doors
<1> QED
  BY <1>4, <1>5, <1>6 DEF Requests

\* The errors, and "OK", that the handlers return.
Errors == {"OK", "InvalidArgument", "NotFound", "AlreadyExists",
           "PermissionDenied", "Internal", "Unauthenticated"}

\* The record of a request has the status its caller gets, and is a piece of
\* information only if nothing went wrong.
LEMMA LoggedAsAnswered ==
  ASSUME NEW door \in Doors, NEW e \in Errors
  PROVE  /\ Status(door, e) \in Nat
         /\ LogOf(door, e) \in Record \cup {NoRecord}
         /\ door = "gin" <=> LogOf(door, e) = NoRecord
         /\ door # "gin" => /\ LogOf(door, e).status = Status(door, e)
                            /\ LogOf(door, e).level = "info" => e = "OK"
<1> DEFINE code == GRPCCode[e]  http == HTTPStatusFromCode[e]
<1>1. code \in Nat /\ http \in Nat /\ (http = 200 => e = "OK")
  BY DEF Errors, GRPCCode, HTTPStatusFromCode
<1>2. GinStatus(e) \in Nat
  BY <1>1 DEF GinStatus
<1>3. CASE door = "grpc"
  <2>1. GRPCLogger(e) \in Record
    BY <1>1 DEF GRPCLogger, Record
  <2> QED
    BY <1>1, <1>3, <2>1, RecordsAssumption DEF Status, LogOf, GRPCLogger
<1>4. CASE door = "gateway"
  <2>1. HttpLogger(e) \in Record
    BY <1>1 DEF HttpLogger, Recorded, Record
  <2> QED
    BY <1>1, <1>4, <2>1, RecordsAssumption DEF Status, LogOf, HttpLogger, Recorded
<1>5. CASE door = "gin"
  BY <1>2, <1>5 DEF Status, LogOf
<1> QED
  BY <1>3, <1>4, <1>5 DEF Doors

\* A handler refuses with an error, at one of the doors.
LEMMA RefusedIsAnError ==
  ASSUME NEW q \in Refused
  PROVE  q.door \in Doors /\ q.error \in Errors \ {"OK"}
<1>1. PICK r \in Requests : /\ Verdict(r) # "OK"
                            /\ q = [door |-> r.door, error |-> Verdict(r)]
  BY DEF Refused
<1>2. r.door \in Doors
  BY DEF Requests, CreateRequest, LoginRequest, UpdateRequest
<1>3. Verdict(r) \in Errors
  BY DEF Verdict, Errors
<1> QED
  BY <1>1, <1>2, <1>3

\* The service starts with no users, no requests and an empty log.
LEMMA InitIInv == Init => IInv
  BY DEF Init, IInv, TypeOK, PassedOK, SignedUpCanLogIn, LogTellsTruth

\* A call is answered: its caller and the log are told, the row it wrote (if
\* any) can be logged in with, and the other calls go on as they were.
LEMMA AnswerStep ==
  ASSUME IInv, NEW c \in Calls, NEW door \in Doors, NEW e \in Errors,
         Finish(c, door, e),
         users' \in [Usernames -> Row \cup {NoRow}], SignedUpCanLogIn',
         \A n \in Usernames : users[n] # NoRow => users'[n] # NoRow,
         call' \in [Calls -> Held \cup {NoRow}],
         failed' \subseteq Calls,
         \A d \in Calls \ {c} : call'[d] = call[d] /\ (d \in failed' <=> d \in failed),
         call'[c] # NoRow => call'[c].door = door,
         e = "OK" => /\ c \notin failed' /\ call'[c] # NoRow
                     /\ users'[call'[c].username] # NoRow
  PROVE  IInv'
<1>1. /\ pc' = [pc EXCEPT ![c] = "answered"]
      /\ answer' = [answer EXCEPT ![c] = Status(door, e)]
      /\ log' = [log EXCEPT ![c] = LogOf(door, e)]
  BY DEF Finish
<1>2. /\ Status(door, e) \in Nat
      /\ LogOf(door, e) \in Record \cup {NoRecord}
      /\ door = "gin" <=> LogOf(door, e) = NoRecord
      /\ door # "gin" => /\ LogOf(door, e).status = Status(door, e)
                         /\ LogOf(door, e).level = "info" => e = "OK"
  BY LoggedAsAnswered
<1>3. TypeOK /\ PassedOK /\ LogTellsTruth
  BY DEF IInv
<1>4. TypeOK'
  BY <1>1, <1>2, <1>3 DEF TypeOK
<1>5. pc'[c] = "answered" /\ answer'[c] = Status(door, e) /\ log'[c] = LogOf(door, e)
  BY <1>1, <1>3 DEF TypeOK
<1>6. \A d \in Calls \ {c} : pc'[d] = pc[d] /\ answer'[d] = answer[d] /\ log'[d] = log[d]
  BY <1>1, <1>3 DEF TypeOK
<1>7. PassedOK'
  <2> SUFFICES ASSUME NEW d \in Calls, pc'[d] = "store"
               PROVE  PassedOK!(d)'
    BY DEF PassedOK
  <2>1. d # c /\ pc[d] = "store" /\ call'[d] = call[d] /\ d \notin failed'
    BY <1>3, <1>5, <1>6 DEF PassedOK
  <2>2. call[d] \in Held
    BY <1>3, <2>1 DEF PassedOK
  <2>3. call[d].username \in Usernames
    BY <2>2 DEF Held
  <2> QED
    BY <1>3, <2>1, <2>2, <2>3 DEF PassedOK
<1>8. LogTellsTruth'
  <2> SUFFICES ASSUME NEW d \in Calls, pc'[d] = "answered"
               PROVE  LogTellsTruth!(d)'
    BY DEF LogTellsTruth
  <2>1. CASE d = c
    BY <1>2, <1>5, <2>1
  <2>2. CASE d # c
    <3>1. pc[d] = "answered" /\ call'[d] = call[d] /\ answer'[d] = answer[d]
          /\ log'[d] = log[d] /\ (d \in failed' <=> d \in failed)
      BY <1>6, <2>2
    <3>2. call[d] \in Held \cup {NoRow}
      BY <1>3 DEF TypeOK
    <3>3. call[d] # NoRow => call[d].username \in Usernames
      BY <3>2 DEF Held
    <3> QED
      BY <1>3, <3>1, <3>3 DEF LogTellsTruth
  <2> QED
    BY <2>1, <2>2
<1> QED
  BY <1>4, <1>7, <1>8 DEF IInv

\* The row of a call that passed the checks can be logged in with.
LEMMA WriteStep ==
  ASSUME IInv, NEW c \in Calls, pc[c] = "store", call[c].method # "LoginUser",
         Write(c)
  PROVE  /\ users' \in [Usernames -> Row \cup {NoRow}]
         /\ SignedUpCanLogIn'
         /\ \A n \in Usernames : users[n] # NoRow => users'[n] # NoRow
         /\ users'[call[c].username] # NoRow
<1> DEFINE h == call[c]
           row == [password |-> h.password, server |-> Server(h.door)]
<1>1. /\ h \in Held
      /\ h.method = "UpdateUser" => users[h.username] # NoRow
      /\ h.method # "UpdateUser" => h.password # Absent
      /\ h.password # Absent =>
           LoginAccepted(Server(h.door), h.username, h.password)
      /\ h.password # Absent => Hashable(h.password)
  BY DEF IInv, PassedOK
<1>2. users \in [Usernames -> Row \cup {NoRow}] /\ SignedUpCanLogIn
  BY DEF IInv, TypeOK
<1>3. CASE h.password = Absent
  <2>1. users' = users /\ h.method = "UpdateUser"
    BY <1>1, <1>3 DEF Write
  <2> QED
    BY <1>1, <1>2, <2>1 DEF SignedUpCanLogIn
<1>4. CASE h.password # Absent
  <2>1. users' = [users EXCEPT ![h.username] = row]
    BY <1>4 DEF Write
  <2>2. row \in Row /\ h.username \in Usernames /\ row # NoRow
    BY <1>1, <1>4, RecordsAssumption DEF Held, Row
  <2>3. LoginAccepted(row.server, h.username, row.password) /\ Hashable(row.password)
    BY <1>1, <1>4
  <2>4. users' \in [Usernames -> Row \cup {NoRow}]
    BY <1>2, <2>1, <2>2
  <2>5. \A n \in Usernames : users'[n] = IF n = h.username THEN row ELSE users[n]
    BY <1>2, <2>1, <2>2
  <2>6. SignedUpCanLogIn'
    <3> SUFFICES ASSUME NEW n \in Usernames, users'[n] # NoRow
                 PROVE  /\ LoginAccepted(users'[n].server, n, users'[n].password)
                        /\ Hashable(users'[n].password)
      BY DEF SignedUpCanLogIn
    <3>1. CASE n = h.username
      BY <2>3, <2>5, <3>1
    <3>2. CASE n # h.username
      BY <1>2, <2>5, <3>2 DEF SignedUpCanLogIn
    <3> QED
      BY <3>1, <3>2
  <2> QED
    BY <2>2, <2>4, <2>5, <2>6
<1> QED
  BY <1>3, <1>4

\* A request that goes on to the store keeps what the checks saw of it.
LEMMA ReceiveStep ==
  ASSUME IInv, NEW c \in Calls, NEW h \in Passed, Receive(c, h)
  PROVE  IInv'
<1>1. TypeOK /\ PassedOK /\ SignedUpCanLogIn /\ LogTellsTruth
  BY DEF IInv
<1>2. /\ h \in Held
      /\ h.method # "UpdateUser" => h.password # Absent
      /\ h.method = "UpdateUser" => h.door # "gin"
      /\ h.password # Absent =>
           LoginAccepted(Server(h.door), h.username, h.password)
      /\ h.password # Absent /\ h.method # "LoginUser" => Hashable(h.password)
  BY PassedIsChecked
<1>3. /\ pc' = [pc EXCEPT ![c] = "store"] /\ call' = [call EXCEPT ![c] = h]
      /\ answer' = [answer EXCEPT ![c] = 0] /\ log' = [log EXCEPT ![c] = NoRecord]
      /\ failed' = failed \ {c} /\ users' = users
      /\ h.method = "UpdateUser" => users[h.username] # NoRow
  BY DEF Receive
<1>4. TypeOK'
  BY <1>1, <1>2, <1>3 DEF TypeOK
<1>5. PassedOK'
  BY <1>1, <1>2, <1>3 DEF PassedOK, TypeOK
<1>6. SignedUpCanLogIn'
  BY <1>1, <1>3 DEF SignedUpCanLogIn
<1>7. LogTellsTruth'
  BY <1>1, <1>3 DEF LogTellsTruth, TypeOK
<1> QED
  BY <1>4, <1>5, <1>6, <1>7 DEF IInv

\* A request that is refused leaves nothing behind but its answer.
LEMMA RefuseStep ==
  ASSUME IInv, NEW c \in Calls, Refuse(c)
  PROVE  IInv'
<1>1. PICK q \in Refused : Finish(c, q.door, q.error)
  BY DEF Refuse
<1>2. q.door \in Doors /\ q.error \in Errors /\ q.error # "OK"
  BY RefusedIsAnError
<1>3. TypeOK /\ SignedUpCanLogIn
  BY DEF IInv
<1>4. call' = [call EXCEPT ![c] = NoRow] /\ failed' = failed \ {c} /\ users' = users
  BY DEF Refuse
<1>5. SignedUpCanLogIn'
  BY <1>3, <1>4 DEF SignedUpCanLogIn
<1> HIDE DEF Registered
<1> QED
  BY <1>1, <1>2, <1>3, <1>4, <1>5, AnswerStep DEF TypeOK

\* A request that cannot be decoded is answered, and logged unless gRPC got it.
LEMMA UndecodableStep ==
  ASSUME IInv, NEW c \in Calls, NEW door \in Doors, Undecodable(c, door)
  PROVE  IInv'
<1>1. TypeOK /\ PassedOK /\ SignedUpCanLogIn /\ LogTellsTruth
  BY DEF IInv
<1>2. /\ call' = [call EXCEPT ![c] = NoRow] /\ users' = users
      /\ failed' = failed \cup {c}
  BY DEF Undecodable
<1>3. SignedUpCanLogIn'
  BY <1>1, <1>2 DEF SignedUpCanLogIn
<1>4. CASE door = "grpc"
  <2>1. /\ pc' = [pc EXCEPT ![c] = "answered"]
        /\ answer' = [answer EXCEPT ![c] = 13]
        /\ log' = [log EXCEPT ![c] = NoRecord]
    BY <1>4 DEF Undecodable, GRPCCode
  <2>2. TypeOK'
    BY <1>1, <1>2, <2>1 DEF TypeOK
  <2>3. PassedOK'
    BY <1>1, <1>2, <2>1 DEF PassedOK, TypeOK
  <2>4. LogTellsTruth'
    BY <1>1, <1>2, <2>1 DEF LogTellsTruth, TypeOK
  <2> QED
    BY <1>3, <2>2, <2>3, <2>4 DEF IInv
<1>5. CASE door # "grpc"
  <2>1. Finish(c, door, "InvalidArgument")
    BY <1>5 DEF Undecodable
  <2> QED
    BY <1>1, <1>2, <1>3, <2>1, AnswerStep DEF Errors, TypeOK
<1> QED
  BY <1>4, <1>5

\* The store's answer becomes the caller's.
LEMMA HandlerStep ==
  ASSUME IInv, NEW c \in Calls, Handler(c)
  PROVE  IInv'
<1> DEFINE h == call[c]
<1>1. TypeOK /\ PassedOK /\ SignedUpCanLogIn
  BY DEF IInv
<1>2. pc[c] = "store" /\ call' = call
  BY DEF Handler, CreateUser, CreateRejected, UserNotFound, LoginUser, UpdateUser,
         StoreFails, Unacknowledged, Waits
<1>3. /\ h \in Held /\ h.door \in Doors /\ h.username \in Usernames
      /\ h # NoRow /\ c \notin failed
  BY <1>1, <1>2, RecordsAssumption DEF PassedOK, Held
<1>4. call' \in [Calls -> Held \cup {NoRow}] /\ failed \subseteq Calls
      /\ failed \cup {c} \subseteq Calls
  BY <1>1, <1>2 DEF TypeOK
<1>5. ASSUME users' = users
      PROVE  /\ users' \in [Usernames -> Row \cup {NoRow}] /\ SignedUpCanLogIn'
             /\ \A n \in Usernames : users[n] # NoRow => users'[n] # NoRow
  BY <1>1, <1>5 DEF TypeOK, SignedUpCanLogIn
<1>6. CASE CreateUser(c) \/ UpdateUser(c)
  <2>1. Finish(c, h.door, "OK") /\ Write(c) /\ h.method # "LoginUser"
        /\ failed' = failed
    BY <1>6 DEF CreateUser, UpdateUser, Waits
  <2> QED
    BY <1>2, <1>3, <1>4, <2>1, WriteStep, AnswerStep DEF Errors
<1>7. CASE Unacknowledged(c)
  <2>1. Finish(c, h.door, "Internal") /\ Write(c) /\ h.method # "LoginUser"
        /\ failed' = failed \cup {c}
    BY <1>7 DEF Unacknowledged, Waits
  <2> QED
    BY <1>2, <1>3, <1>4, <2>1, WriteStep, AnswerStep DEF Errors
<1>8. CASE StoreFails(c)
  <2>1. Finish(c, h.door, "Internal") /\ users' = users
        /\ failed' = failed \cup {c}
    BY <1>8 DEF StoreFails
  <2> QED
    BY <1>2, <1>3, <1>4, <1>5, <2>1, AnswerStep DEF Errors
<1>9. CASE CreateRejected(c) \/ UserNotFound(c)
  <2>1. PICK e \in Errors \ {"OK"} : Finish(c, h.door, e)
    BY <1>9 DEF CreateRejected, UserNotFound, Errors
  <2>2. users' = users /\ failed' = failed
    BY <1>9 DEF CreateRejected, UserNotFound
  <2> QED
    BY <1>2, <1>3, <1>4, <1>5, <2>1, <2>2, AnswerStep
<1>10. CASE LoginUser(c)
  <2>1. PICK e \in {"OK", "Unauthenticated"} : Finish(c, h.door, e)
    BY <1>10 DEF LoginUser
  <2>2. users' = users /\ failed' = failed /\ users[h.username] # NoRow
    BY <1>10 DEF LoginUser
  <2>3. e \in Errors
    BY DEF Errors
  <2> QED
    BY <1>2, <1>3, <1>4, <1>5, <2>1, <2>2, <2>3, AnswerStep
<1> QED
  BY <1>6, <1>7, <1>8, <1>9, <1>10 DEF Handler

\* IInv holds whatever is asked of the service, at whichever door (Endpoints).
THEOREM Invariance == Spec => []IInv
<1>1. IInv /\ [Next]_vars => IInv'
  <2> SUFFICES ASSUME IInv, [Next]_vars PROVE IInv'
    OBVIOUS
  <2>1. ASSUME NEW c \in Calls, NEW h \in Passed, Receive(c, h) PROVE IInv'
    BY <2>1, ReceiveStep
  <2>2. ASSUME NEW c \in Calls, Refuse(c) PROVE IInv'
    BY <2>2, RefuseStep
  <2>3. ASSUME NEW c \in Calls, NEW door \in Doors, Undecodable(c, door) PROVE IInv'
    BY <2>3, UndecodableStep
  <2>4. ASSUME NEW c \in Calls, Handler(c) PROVE IInv'
    BY <2>4, HandlerStep
  <2>5. CASE UNCHANGED vars
    BY <2>5 DEF vars, IInv, TypeOK, PassedOK, SignedUpCanLogIn, LogTellsTruth
  <2> QED
    BY <2>1, <2>2, <2>3, <2>4, <2>5 DEF Next
<1> QED
  BY <1>1, InitIInv, PTL DEF Spec

\* Whoever signed up or changed a password at one server can log in there with
\* it: the validators agree, for texts of every pattern and length.
THEOREM NoneLockedOut == Spec => []SignedUpCanLogIn
  BY Invariance, PTL DEF IInv

\* What is logged of a request is what its caller was answered.
THEOREM LogIsTrue == Spec => []LogTellsTruth
  BY Invariance, PTL DEF IInv
===============================================================================
