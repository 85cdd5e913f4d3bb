------------------------------- MODULE Endpoints -------------------------------
(*****************************************************************************)
(* The doors of the service, and what each makes of a request before and     *)
(* after it reaches the store: gRPC (pb/service_bank_grpc.pb.go, behind      *)
(* GRPCLogger), the HTTP gateway (pb/service_bank.pb.gw.go, behind           *)
(* HttpLogger; it calls the RPC's method itself, not through gRPC), and the  *)
(* users' routes of the gin server, which main.go does not start.            *)
(*                                                                           *)
(* Three places bound the length of a password without knowing of each       *)
(* other: package val counts bytes, gin's binding counts characters, and     *)
(* bcrypt hashes no more than 72 bytes.                                      *)
(*                                                                           *)
(* The handlers' own steps on the store are those of VerifyEmail and         *)
(* Sessions; here they are one step.                                         *)
(*****************************************************************************)
EXTENDS Naturals

CONSTANTS
  Calls,      \* requests in progress at a time
  Usernames, Passwords, FullNames, Emails,  \* what requests hold
  Absent,     \* an optional field, or a token, that is not there
  MaxBcrypt,  \* 72
  NoRow, NoRecord

\* A text is known by its length, in bytes and in characters, and by the patterns
\* it matches: those of package val (isValidUsername, isValidFullName, and
\* mail.ParseAddress), and "alphanum" and "email" of gin's bindings.
Patterns == {"username", "full_name", "address", "alphanum", "email"}

Text == [bytes : Nat, chars : Nat, matches : SUBSET Patterns]

ASSUME TextsAssumption ==
  /\ Usernames \subseteq Text /\ Passwords \subseteq Text
  /\ FullNames \subseteq Text /\ Emails \subseteq Text
  /\ Absent \notin Text
  /\ MaxBcrypt \in Nat

Doors == {"grpc", "gateway", "gin"}
Server(door) == IF door = "gin" THEN "gin" ELSE "gapi"

Row == [password : Passwords, server : {"gapi", "gin"}]
Held == [method : {"CreateUser", "LoginUser", "UpdateUser"}, door : Doors,
         username : Usernames, password : Passwords \cup {Absent}]
Record == [protocol : {"grpc", "http"}, status : Nat, level : {"info", "error"}]

ASSUME RecordsAssumption ==
  NoRow \notin Row \cup Held /\ NoRecord \notin Record

-------------------------------------------------------------------------------
(* What the servers accept.                                                  *)

\* Package val; len counts bytes.
ValidateString(t, min, max) == t.bytes \in min..max
ValidateUsername(t) == ValidateString(t, 3, 100) /\ "username" \in t.matches
ValidatePassword(t) == ValidateString(t, 6, 100)
ValidateFullName(t) == ValidateString(t, 3, 100) /\ "full_name" \in t.matches
ValidateEmail(t) == ValidateString(t, 5, 100) /\ "address" \in t.matches

\* The bindings of gin; "min" counts characters.
BindUsername(t) == t.bytes > 0 /\ "alphanum" \in t.matches
BindPassword(t) == t.chars >= 6

CreateAccepted(server, q) ==
  IF server = "gin"
  THEN /\ BindUsername(q.username) /\ BindPassword(q.password)
       /\ q.full_name.bytes > 0 /\ "email" \in q.email.matches
  ELSE /\ ValidateUsername(q.username) /\ ValidatePassword(q.password)
       /\ ValidateFullName(q.full_name) /\ ValidateEmail(q.email)

LoginAccepted(server, username, password) ==
  IF server = "gin"
  THEN BindUsername(username) /\ BindPassword(password)
  ELSE ValidateUsername(username) /\ ValidatePassword(password)

\* Mutant of UpdateAccepted: the password is checked when there is none.
UpdateUnchecked(q) ==
  /\ ValidateUsername(q.username)
  /\ q.full_name # Absent => ValidateFullName(q.full_name)
  /\ q.email # Absent => ValidateEmail(q.email)

UpdateAccepted(q) ==
  /\ ValidateUsername(q.username)
  /\ q.password # Absent => ValidatePassword(q.password)
  /\ q.full_name # Absent => ValidateFullName(q.full_name)
  /\ q.email # Absent => ValidateEmail(q.email)

Accepted(q) ==
  CASE q.method = "CreateUser" -> CreateAccepted(Server(q.door), q)
    [] q.method = "LoginUser" ->
         LoginAccepted(Server(q.door), q.username, q.password)
    [] q.method = "UpdateUser" -> UpdateAccepted(q)

\* HashPassword: bcrypt refuses what it would have to cut off.
Hashable(password) == password.bytes <= MaxBcrypt

\* CheckPassword, which cuts it off: two texts may have the first 72 bytes in
\* common.
CheckPassword(given, stored) ==
  IF given.bytes > MaxBcrypt /\ stored.bytes = MaxBcrypt THEN BOOLEAN
  ELSE {given = stored}

CreateRequest == [method : {"CreateUser"}, door : Doors, username : Usernames,
                  password : Passwords, full_name : FullNames, email : Emails]
LoginRequest == [method : {"LoginUser"}, door : Doors, username : Usernames,
                 password : Passwords]
\* token: the user the token in the request's metadata names.
UpdateRequest == [method : {"UpdateUser"}, door : Doors \ {"gin"},
                  token : Usernames \cup {Absent}, username : Usernames,
                  password : Passwords \cup {Absent},
                  full_name : FullNames \cup {Absent},
                  email : Emails \cup {Absent}]

\* Mutant of Verdict: the error of HashPassword is not looked at.
VerdictUnhashed(q) ==
  IF q.method = "UpdateUser" /\ q.token = Absent THEN "Unauthenticated"
  ELSE IF ~Accepted(q) THEN "InvalidArgument"
  ELSE IF q.method = "UpdateUser" /\ q.token # q.username THEN "PermissionDenied"
  ELSE "OK"

\* The handler up to its first call of the store: the error of the first check
\* that fails.
Verdict(q) ==
  IF q.method = "UpdateUser" /\ q.token = Absent THEN "Unauthenticated"
  ELSE IF ~Accepted(q) THEN "InvalidArgument"
  ELSE IF q.method = "UpdateUser" /\ q.token # q.username THEN "PermissionDenied"
  ELSE IF q.method # "LoginUser" /\ q.password # Absent /\ ~Hashable(q.password)
  THEN "Internal" ELSE "OK"

Requests == CreateRequest \cup LoginRequest \cup UpdateRequest

\* What becomes of the requests that are refused before the store is called,
\* and what the handler keeps of the others.
Refused == {[door |-> q.door, error |-> Verdict(q)] :
              q \in {r \in Requests : Verdict(r) # "OK"}}

Passed == {[method |-> q.method, door |-> q.door, username |-> q.username,
            password |-> q.password] : q \in {r \in Requests : Verdict(r) = "OK"}}

-------------------------------------------------------------------------------
(* Answers and log records.                                                  *)

GRPCCode == [OK |-> 0, InvalidArgument |-> 3, NotFound |-> 5,
             AlreadyExists |-> 6, PermissionDenied |-> 7, Internal |-> 13,
             Unauthenticated |-> 16]
HTTPStatusFromCode == [OK |-> 200, InvalidArgument |-> 400, NotFound |-> 404,
                       AlreadyExists |-> 409, PermissionDenied |-> 403,
                       Internal |-> 500, Unauthenticated |-> 401]

\* The gin handlers choose their statuses themselves.
GinStatus(e) ==
  IF e = "AlreadyExists" THEN 403 ELSE HTTPStatusFromCode[e]

Status(door, e) ==
  CASE door = "grpc" -> GRPCCode[e]
    [] door = "gateway" -> HTTPStatusFromCode[e]
    [] door = "gin" -> GinStatus(e)

GRPCLogger(e) == [protocol |-> "grpc", status |-> GRPCCode[e],
                  level |-> IF e = "OK" THEN "info" ELSE "error"]

\* Mutant of Recorded: ResponseRecorder without WriteHeader.
RecordedDefault(e) == 200

\* ResponseRecorder: 200 unless WriteHeader, which only an error calls, says
\* otherwise.
Recorded(e) == HTTPStatusFromCode[e]

HttpLogger(e) == [protocol |-> "http", status |-> Recorded(e),
                  level |-> IF Recorded(e) = 200 THEN "info" ELSE "error"]

LogOf(door, e) ==
  CASE door = "grpc" -> GRPCLogger(e)
    [] door = "gateway" -> HttpLogger(e)
    [] door = "gin" -> NoRecord

-------------------------------------------------------------------------------

VARIABLES
  users,   \* table users: the password behind hashed_password, and (history)
           \* the server that took it
  pc,      \* a call: "idle", "store" (it waits for the store), "answered"
  call,    \* what the handler of a waiting or answered call holds
  answer,  \* the gRPC code or HTTP status its caller got
  log,     \* the record that was logged of it
  failed   \* history: the calls that were garbled, or on which the store failed

vars == <<users, pc, call, answer, log, failed>>

TypeOK ==
  /\ users \in [Usernames -> Row \cup {NoRow}]
  /\ pc \in [Calls -> {"idle", "store", "answered"}]
  /\ call \in [Calls -> Held \cup {NoRow}]
  /\ answer \in [Calls -> Nat]
  /\ log \in [Calls -> Record \cup {NoRecord}]
  /\ failed \subseteq Calls

Init ==
  /\ users = [n \in Usernames |-> NoRow]
  /\ pc = [c \in Calls |-> "idle"]
  /\ call = [c \in Calls |-> NoRow]
  /\ answer = [c \in Calls |-> 0]
  /\ log = [c \in Calls |-> NoRecord]
  /\ failed = {}

Registered(n) == users[n] # NoRow

\* The handler returns error e (or none); the caller and the log are told.
Finish(c, door, e) ==
  /\ pc' = [pc EXCEPT ![c] = "answered"]
  /\ answer' = [answer EXCEPT ![c] = Status(door, e)]
  /\ log' = [log EXCEPT ![c] = LogOf(door, e)]

\* A request the handler refuses by itself.
Refuse(c) ==
  /\ pc[c] # "store"
  /\ \E q \in Refused : Finish(c, q.door, q.error)
  /\ call' = [call EXCEPT ![c] = NoRow]
  /\ failed' = failed \ {c}
  /\ UNCHANGED users

\* A body that cannot be decoded never reaches the handler.  gRPC answers it
\* before its interceptor runs, so that GRPCLogger does not see it.
Undecodable(c, door) ==
  /\ pc[c] # "store"
  /\ IF door = "grpc"
     THEN /\ pc' = [pc EXCEPT ![c] = "answered"]
          /\ answer' = [answer EXCEPT ![c] = GRPCCode["Internal"]]
          /\ log' = [log EXCEPT ![c] = NoRecord]
     ELSE Finish(c, door, "InvalidArgument")
  /\ call' = [call EXCEPT ![c] = NoRow]
  /\ failed' = failed \cup {c}
  /\ UNCHANGED users

\* A request that goes on to the store.  A token names a user there is, and
\* users are never deleted: UpdateUser finds its row.
Receive(c, h) ==
  /\ pc[c] # "store"
  /\ h.method = "UpdateUser" => Registered(h.username)
  /\ pc' = [pc EXCEPT ![c] = "store"]
  /\ call' = [call EXCEPT ![c] = h]
  /\ answer' = [answer EXCEPT ![c] = 0]
  /\ log' = [log EXCEPT ![c] = NoRecord]
  /\ failed' = failed \ {c}
  /\ UNCHANGED users

Waits(c, method) == pc[c] = "store" /\ call[c].method = method

\* The row that CreateUser or UpdateUser writes.
Write(c) ==
  IF call[c].password = Absent THEN UNCHANGED users
  ELSE users' = [users EXCEPT ![call[c].username] =
                   [password |-> call[c].password,
                    server |-> Server(call[c].door)]]

CreateUser(c) ==
  /\ Waits(c, "CreateUser")
  /\ ~Registered(call[c].username)
  /\ Write(c)
  /\ Finish(c, call[c].door, "OK")
  /\ UNCHANGED <<call, failed>>

\* unique_violation of the name, or of the address (which is not in the model:
\* any address may be taken).
CreateRejected(c) ==
  /\ Waits(c, "CreateUser")
  /\ Finish(c, call[c].door, "AlreadyExists")
  /\ UNCHANGED <<users, call, failed>>

UserNotFound(c) ==
  /\ Waits(c, "LoginUser")
  /\ ~Registered(call[c].username)
  /\ Finish(c, call[c].door, "NotFound")
  /\ UNCHANGED <<users, call, failed>>

\* GetUser, CheckPassword and, if that succeeds, CreateSession.
LoginUser(c) ==
  /\ Waits(c, "LoginUser")
  /\ Registered(call[c].username)
  /\ \E same \in CheckPassword(call[c].password,
                               users[call[c].username].password) :
       Finish(c, call[c].door, IF same THEN "OK" ELSE "Unauthenticated")
  /\ UNCHANGED <<users, call, failed>>

UpdateUser(c) ==
  /\ Waits(c, "UpdateUser")
  /\ Write(c)
  /\ Finish(c, call[c].door, "OK")
  /\ UNCHANGED <<call, failed>>

\* The database fails, or Redis, or (UpdateUser) the new address is taken.
StoreFails(c) ==
  /\ pc[c] = "store"
  /\ Finish(c, call[c].door, "Internal")
  /\ failed' = failed \cup {c}
  /\ UNCHANGED <<users, call>>

\* The row was written, but its acknowledgement is lost.
Unacknowledged(c) ==
  /\ \/ Waits(c, "CreateUser") /\ ~Registered(call[c].username)
     \/ Waits(c, "UpdateUser")
  /\ Write(c)
  /\ Finish(c, call[c].door, "Internal")
  /\ failed' = failed \cup {c}
  /\ UNCHANGED call

Handler(c) ==
  \/ CreateUser(c) \/ CreateRejected(c) \/ UserNotFound(c) \/ LoginUser(c)
  \/ UpdateUser(c) \/ StoreFails(c) \/ Unacknowledged(c)

Next ==
  \E c \in Calls :
    \/ \E h \in Passed : Receive(c, h)
    \/ Refuse(c)
    \/ \E door \in Doors : Undecodable(c, door)
    \/ Handler(c)

Spec == Init /\ [][Next]_vars

-------------------------------------------------------------------------------
(* Properties.                                                               *)

\* The inductive invariant: what waits for the store has passed the checks.
PassedOK ==
  \A c \in Calls : pc[c] = "store" =>
    LET h == call[c] IN
    /\ h \in Held /\ c \notin failed
    /\ h.method # "UpdateUser" => h.password # Absent
    /\ h.method = "UpdateUser" => h.door # "gin" /\ Registered(h.username)
    /\ h.password # Absent =>
         LoginAccepted(Server(h.door), h.username, h.password)
    /\ h.password # Absent /\ h.method # "LoginUser" => Hashable(h.password)

\* Nobody is locked out by the checks: whoever signed up, or changed a password,
\* at one server can log in there with it.  The checks of CreateUser, UpdateUser
\* and LoginUser are written three times in gapi and twice in gin's bindings
\* (rpc_create_user.go 73-92, rpc_update_user.go 74-99, rpc_login_user.go
\* 70-82, api/user.go 14-19 and 73-76), and the two servers share one table.
SignedUpCanLogIn ==
  \A n \in Usernames : Registered(n) =>
    /\ LoginAccepted(users[n].server, n, users[n].password)
    /\ Hashable(users[n].password)

\* The log tells what happened (gapi/logger.go): a request that is logged is
\* logged with the answer its caller got, and as information only if it did
\* succeed, on a user that exists; what the log leaves out is what gRPC could
\* not decode.
LogTellsTruth ==
  \A c \in Calls : pc[c] = "answered" =>
    /\ log[c] # NoRecord =>
         /\ log[c].status = answer[c]
         /\ log[c].level = "info" =>
              /\ c \notin failed
              /\ call[c] # NoRow
              /\ Registered(call[c].username)
    /\ log[c] = NoRecord /\ call[c] # NoRow => call[c].door = "gin"

IInv ==
  /\ TypeOK
  /\ PassedOK
  /\ SignedUpCanLogIn
  /\ LogTellsTruth

\* A request whose fields are valid is served, unless the store fails
\* (val/validator.go lines 17 and 34-36: a password must contain 6-100
\* characters).
ValidIsServed ==
  \A c \in Calls :
    pc[c] = "answered" /\ answer[c] \in {13, 500} => c \in failed
===============================================================================
