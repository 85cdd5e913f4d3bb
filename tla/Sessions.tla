-------------------------------- MODULE Sessions --------------------------------
(*****************************************************************************)
(* Log-in, sessions and tokens: LoginUser (gapi/rpc_login_user.go; the gin   *)
(* handler in api/user.go takes the same steps), renewal (api/token.go), the *)
(* check in front of every other request (gapi/authorization.go and          *)
(* api/middleware.go) and UpdateUser (gapi/rpc_update_user.go), with a clock *)
(* that ticks between any two steps.                                         *)
(*                                                                           *)
(* A token is the payload it encodes: a signature is external, and holds     *)
(* that a token which verifies was made by CreateToken.  A token does not    *)
(* say what it is for.  bcrypt is external: a hash stands for the password   *)
(* it was made from.  Reading the clock, comparing and signing, which do not *)
(* wait, take no time; every call of the store may take any.                 *)
(*****************************************************************************)
EXTENDS Naturals, FiniteSets

CONSTANTS
  Calls,                  \* the threads that serve requests, one at a time each
  Users,                  \* the usernames in table users; no query deletes a user
  Stranger,               \* a username that is not there
  Passwords,
  Emails,
  Unchanged,              \* a column that a request for UpdateUser leaves out
  AccessTokenDuration,
  RefreshTokenDuration,   \* app.env: 15 minutes and 24 hours
  Rounding,               \* half a microsecond, in ticks of the clock
  MaxToken,               \* bound: how many tokens are made
  MaxNow                  \* bound: the last tick of the clock

ASSUME DurationsAssumption ==
  /\ AccessTokenDuration \in Nat /\ RefreshTokenDuration \in Nat
  /\ AccessTokenDuration < RefreshTokenDuration
  /\ Rounding \in Nat

ASSUME BoundsAssumption == MaxToken \in Nat /\ MaxNow \in Nat

ASSUME NamesAssumption ==
  /\ Stranger \notin Users
  /\ Unchanged \notin Passwords \cup Emails

VARIABLES
  now,       \* time.Now()
  users,     \* table users
  sessions,  \* table sessions
  minted,    \* how many token ids exist (uuid.NewRandom)
  issued,    \* the tokens that a caller has been given
  pc,        \* where a call stands, or how its last request was answered
  call,      \* what its handler holds
  proved     \* history: when a user's password was last checked, 0 for never

vars == <<now, users, sessions, minted, issued, pc, call, proved>>

-------------------------------------------------------------------------------
(* Data.                                                                     *)

Time == Nat

\* password_changed_at is 0 before the first change (0001-01-01 in the schema).
User == [hashed_password : Passwords, password_changed_at : Time,
         email : Emails]

Token == [id : Nat, username : Users, issued_at : Time, expired_at : Time]

Session == [id : Nat, username : Users, refresh_token : Token,
            is_blocked : BOOLEAN, expired_at : Time]

\* known is history: the passwords its user has had since the request came.
LoginCall == [username : Users \cup {Stranger}, password : Passwords,
              known : SUBSET Passwords]
TokensCall == [username : Users, password : Passwords,
               hashed : Passwords, known : SUBSET Passwords]
InsertCall == [username : Users, password : Passwords, known : SUBSET Passwords,
               access : Token, refresh : Token]
\* wasBlocked is history: the session was blocked when the request came.
RenewCall == [token : Token, wasBlocked : BOOLEAN]
SessionCall == [token : Token, wasBlocked : BOOLEAN, session : Session]
UpdateCall == [token : Token, username : Users,
               password : Passwords \cup {Unchanged}, changed_at : Time,
               email : Emails \cup {Unchanged}]

Running == {"getUser", "checkPassword", "createSession",
            "getSession", "checkSession", "hashPassword", "updateUser"}

\* refused and noSession answer a renewal, failed is an Internal error.
Answered == {"idle", "done", "renewed", "refused", "noSession", "failed"}

\* What a handler holds at each of its steps.
Locals(stage) ==
  CASE stage = "getUser" -> LoginCall
    [] stage = "checkPassword" -> TokensCall
    [] stage = "createSession" -> InsertCall
    [] stage \in {"getSession", "noSession"} -> RenewCall
    [] stage \in {"checkSession", "renewed", "refused"} -> SessionCall
    [] stage \in {"hashPassword", "updateUser"} -> UpdateCall
    [] OTHER -> {"nothing"}

TypeOK ==
  /\ now \in Time
  /\ users \in [Users -> User]
  /\ sessions \subseteq Session
  /\ minted \in 0..MaxToken
  /\ issued \subseteq Token
  /\ pc \in [Calls -> Running \cup Answered]
  /\ DOMAIN call = Calls
  /\ \A c \in Calls : call[c] \in Locals(pc[c])
  /\ proved \in [Users -> Time]

UniqueEmails == \A u, v \in Users : users[u].email = users[v].email => u = v

Init ==
  /\ now = 1
  /\ users \in [Users -> [hashed_password : Passwords,
                          password_changed_at : {0}, email : Emails]]
  /\ UniqueEmails
  /\ sessions = {}
  /\ minted = 0
  /\ issued = {}
  /\ pc = [c \in Calls |-> "idle"]
  /\ call = [c \in Calls |-> "nothing"]
  /\ proved = [u \in Users |-> 0]

-------------------------------------------------------------------------------
(* Tokens.                                                                   *)

NewPayload(id, u, duration) ==
  [id |-> id, username |-> u, issued_at |-> now, expired_at |-> now + duration]

Valid(t) == ~(now > t.expired_at)

\* A request whose token verifies: anything a caller was given, until it expires.
VerifyToken(t) == t \in issued /\ Valid(t)

\* A call moves on, or is answered.
Goto(c, stage, local) ==
  /\ pc' = [pc EXCEPT ![c] = stage]
  /\ call' = [call EXCEPT ![c] = local]

Finish(c, answer) == Goto(c, answer, "nothing")

Free(c) == pc[c] \in Answered

-------------------------------------------------------------------------------
(* LoginUser.                                                                *)

\* A valid request (an invalid one is answered and changes nothing).
LoginUser(c, u, p) ==
  /\ Free(c)
  /\ Goto(c, "getUser",
          [username |-> u, password |-> p,
           known |-> IF u \in Users THEN {users[u].hashed_password} ELSE {}])
  /\ UNCHANGED <<now, users, sessions, minted, issued, proved>>

GetUser(c) ==
  /\ pc[c] = "getUser"
  /\ call[c].username \in Users
  /\ Goto(c, "checkPassword",
          [username |-> call[c].username, password |-> call[c].password,
           hashed |-> users[call[c].username].hashed_password,
           known |-> call[c].known])
  /\ UNCHANGED <<now, users, sessions, minted, issued, proved>>

UserNotFound(c) ==
  /\ pc[c] = "getUser"
  /\ call[c].username \notin Users
  /\ Finish(c, "done")
  /\ UNCHANGED <<now, users, sessions, minted, issued, proved>>

WrongPassword(c) ==
  /\ pc[c] = "checkPassword"
  /\ call[c].password # call[c].hashed
  /\ Finish(c, "done")
  /\ UNCHANGED <<now, users, sessions, minted, issued, proved>>

\* Two CreateToken calls.
CreateTokens(c) ==
  LET u == call[c].username
  IN /\ minted + 2 <= MaxToken
     /\ minted' = minted + 2
     /\ Goto(c, "createSession",
             [username |-> u, password |-> call[c].password,
              known |-> call[c].known,
              access |-> NewPayload(minted + 1, u, AccessTokenDuration),
              refresh |-> NewPayload(minted + 2, u, RefreshTokenDuration)])
     /\ proved' = [proved EXCEPT ![u] = now]
     /\ UNCHANGED <<now, users, sessions, issued>>

\* Mutant of CheckPassword: its error is not returned.
CheckPasswordIgnored(c) == pc[c] = "checkPassword" /\ CreateTokens(c)

CheckPassword(c) ==
  /\ pc[c] = "checkPassword"
  /\ call[c].password = call[c].hashed
  /\ CreateTokens(c)

\* timestamptz keeps whole microseconds: a time may come back a little earlier,
\* or later, than it was sent.
Stored(t) == {x \in 0..(t + Rounding) : t <= x + Rounding}

\* Mutant of NewSession: the session takes the id of the access token.
SessionOfAccessToken(c, end) ==
  [id |-> call[c].access.id, username |-> call[c].username,
   refresh_token |-> call[c].refresh, is_blocked |-> FALSE,
   expired_at |-> end]

\* The token's end is stored as the session's.
NewSession(c, end) ==
  [id |-> call[c].refresh.id, username |-> call[c].username,
   refresh_token |-> call[c].refresh, is_blocked |-> FALSE,
   expired_at |-> end]

CreateSession(c) ==
  /\ pc[c] = "createSession"
  /\ \E end \in Stored(call[c].refresh.expired_at) :
       sessions' = sessions \cup {NewSession(c, end)}
  /\ issued' = issued \cup {call[c].access, call[c].refresh}
  /\ Finish(c, "done")
  /\ UNCHANGED <<now, users, minted, proved>>

\* The store fails, perhaps after it has inserted the row: no token is given.
CreateSessionFails(c) ==
  /\ pc[c] = "createSession"
  /\ \E end \in Stored(call[c].refresh.expired_at) :
       sessions' \in {sessions, sessions \cup {NewSession(c, end)}}
  /\ Finish(c, "failed")
  /\ UNCHANGED <<now, users, minted, issued, proved>>

-------------------------------------------------------------------------------
(* reNewAccessToken.                                                         *)

SessionsOf(t) == {s \in sessions : s.id = t.id}

\* A request whose token verifies (another is answered and changes nothing).
ReNewAccessToken(c, t) ==
  /\ Free(c)
  /\ VerifyToken(t)
  /\ Goto(c, "getSession",
          [token |-> t,
           wasBlocked |-> \E s \in SessionsOf(t) : s.is_blocked])
  /\ UNCHANGED <<now, users, sessions, minted, issued, proved>>

GetSession(c) ==
  /\ pc[c] = "getSession"
  /\ \E s \in SessionsOf(call[c].token) :
       Goto(c, "checkSession",
            [token |-> call[c].token, wasBlocked |-> call[c].wasBlocked,
             session |-> s])
  /\ UNCHANGED <<now, users, sessions, minted, issued, proved>>

NoSession(c) ==
  /\ pc[c] = "getSession"
  /\ SessionsOf(call[c].token) = {}
  /\ Goto(c, "noSession", call[c])
  /\ UNCHANGED <<now, users, sessions, minted, issued, proved>>

\* Mutants of Renewable: the block, or the end, of the session is not checked
\* (VerifyToken has checked the token's end already).
RenewableBlocked(s, t) ==
  /\ s.username = t.username
  /\ s.refresh_token = t
  /\ ~(now > s.expired_at)

RenewableExpired(s, t) ==
  /\ ~s.is_blocked
  /\ s.username = t.username
  /\ s.refresh_token = t

\* The four checks of the session against the token.
Renewable(s, t) ==
  /\ ~s.is_blocked
  /\ s.username = t.username
  /\ s.refresh_token = t
  /\ ~(now > s.expired_at)

RenewalRefused(c) ==
  /\ pc[c] = "checkSession"
  /\ ~Renewable(call[c].session, call[c].token)
  /\ Goto(c, "refused", call[c])
  /\ UNCHANGED <<now, users, sessions, minted, issued, proved>>

Renew(c) ==
  /\ pc[c] = "checkSession"
  /\ Renewable(call[c].session, call[c].token)
  /\ minted + 1 <= MaxToken
  /\ minted' = minted + 1
  /\ issued' = issued \cup
       {NewPayload(minted + 1, call[c].token.username, AccessTokenDuration)}
  /\ Goto(c, "renewed", call[c])
  /\ UNCHANGED <<now, users, sessions, proved>>

-------------------------------------------------------------------------------
(* UpdateUser.                                                               *)

\* Mutant of Authorized: the name in the request is not compared.
AuthorizedAsAnyone(t, u) == VerifyToken(t)

\* authorizeUser, and the token is that of the user to be updated.
Authorized(t, u) == VerifyToken(t) /\ t.username = u

\* A valid request, which names any of the columns.  full_name, which the
\* query treats like email but for the unique index, is left out.
UpdateUser(c, t, u, p, e) ==
  /\ Free(c)
  /\ Authorized(t, u)
  /\ Goto(c, IF p = Unchanged THEN "updateUser" ELSE "hashPassword",
          [token |-> t, username |-> u, password |-> p, changed_at |-> 0,
           email |-> e])
  /\ UNCHANGED <<now, users, sessions, minted, issued, proved>>

\* HashPassword takes its time; then time.Now().
HashPassword(c) ==
  /\ pc[c] = "hashPassword"
  /\ Goto(c, "updateUser", [call[c] EXCEPT !.changed_at = now])
  /\ UNCHANGED <<now, users, sessions, minted, issued, proved>>

Coalesce(new, old) == IF new = Unchanged THEN old ELSE new

\* Each column on its own; password_changed_at comes with hashed_password.
UpdatedRow(r, row) ==
  [hashed_password |-> Coalesce(r.password, row.hashed_password),
   password_changed_at |-> IF r.password = Unchanged
                           THEN row.password_changed_at ELSE r.changed_at,
   email |-> Coalesce(r.email, row.email)]

\* Mutant of EmailTaken: the column email has no unique index.
EmailFree(c) == FALSE

EmailTaken(c) ==
  \E u \in Users \ {call[c].username} : users[u].email = call[c].email

\* The UPDATE; known of the log-ins in progress is history.
UpdateRow(c, answer) ==
  LET u == call[c].username
      row == UpdatedRow(call[c], users[u])
      Learns(d) == pc[d] \in {"getUser", "checkPassword"} /\ call[d].username = u
  IN /\ pc[c] = "updateUser"
     /\ ~EmailTaken(c)
     /\ users' = [users EXCEPT ![u] = row]
     /\ pc' = [pc EXCEPT ![c] = answer]
     /\ call' = [d \in Calls |->
          IF d = c THEN "nothing"
          ELSE IF Learns(d)
               THEN [call[d] EXCEPT !.known = @ \cup {row.hashed_password}]
               ELSE call[d]]
     /\ UNCHANGED <<now, sessions, minted, issued, proved>>

UpdateUserRow(c) == UpdateRow(c, "done")

\* The row is updated but the caller gets an error.
UpdateUnacknowledged(c) == UpdateRow(c, "failed")

\* unique_violation is an Internal error.
UpdateRejected(c) ==
  /\ pc[c] = "updateUser"
  /\ EmailTaken(c)
  /\ Finish(c, "failed")
  /\ UNCHANGED <<now, users, sessions, minted, issued, proved>>

-------------------------------------------------------------------------------
(* Anything else that happens.                                               *)

\* A query, CreateToken or HashPassword fails: Internal.
Fails(c) ==
  /\ pc[c] \in Running \ {"createSession"}
  /\ Finish(c, "failed")
  /\ UNCHANGED <<now, users, sessions, minted, issued, proved>>

\* Somebody sets is_blocked by hand; no query of the store does.
Block(s) ==
  /\ ~s.is_blocked
  /\ sessions' = (sessions \ {s}) \cup {[s EXCEPT !.is_blocked = TRUE]}
  /\ UNCHANGED <<now, users, minted, issued, pc, call, proved>>

Tick ==
  /\ now < MaxNow
  /\ now' = now + 1
  /\ UNCHANGED <<users, sessions, minted, issued, pc, call, proved>>

Request(c) ==
  \/ \E u \in Users \cup {Stranger}, p \in Passwords : LoginUser(c, u, p)
  \/ \E t \in issued : ReNewAccessToken(c, t)
  \/ \E t \in issued, u \in Users, p \in Passwords \cup {Unchanged},
        e \in Emails \cup {Unchanged} : UpdateUser(c, t, u, p, e)

Handler(c) ==
  \/ GetUser(c) \/ UserNotFound(c) \/ WrongPassword(c) \/ CheckPassword(c)
  \/ CreateSession(c) \/ CreateSessionFails(c)
  \/ GetSession(c) \/ NoSession(c) \/ RenewalRefused(c) \/ Renew(c)
  \/ HashPassword(c) \/ UpdateUserRow(c) \/ UpdateUnacknowledged(c)
  \/ UpdateRejected(c) \/ Fails(c)

Next ==
  \/ \E c \in Calls : Request(c) \/ Handler(c)
  \/ \E s \in sessions : Block(s)
  \/ Tick

Spec == Init /\ [][Next]_vars

-------------------------------------------------------------------------------
(* Properties.                                                               *)

IsRefresh(t) == t.expired_at = t.issued_at + RefreshTokenDuration

\* Nobody can act as a user whose password was not checked, nor longer after
\* the check than a refresh token and then an access token last, however slow
\* the store is between the checks of a log-in or a renewal and its answer.
\* Blocks, failures and changes of the password included; a session may end half
\* a microsecond after its token.
Longest == RefreshTokenDuration + Rounding + AccessTokenDuration

A == INSTANCE Access WITH
       Longest <- Longest,
       may <- {u \in Users : \E t \in issued : t.username = u /\ Valid(t)}

ImplementsAccess == A!Spec

\* Who logs in has presented a password that the user had at some moment since
\* the request came, whoever changes it between GetUser and CreateSession.
LoginKnowsPassword ==
  \A c \in Calls :
    pc[c] = "createSession" => call[c].password \in call[c].known

\* A renewal that comes after its session was blocked gets no token
\* (token.go line 43), and only a refresh token gets one.
BlockedStaysOut ==
  \A c \in Calls :
    pc[c] = "renewed" => ~call[c].wasBlocked /\ IsRefresh(call[c].token)

\* A refresh token that a caller was given renews until it is blocked or
\* expires, but for the last half microsecond: its session is never missing, and
\* never that of another user or token (token.go lines 36, 48 and 53).
RefusedForCause ==
  \A c \in Calls :
    LET t == call[c].token
    IN /\ pc[c] = "noSession" => ~IsRefresh(t)
       /\ pc[c] = "refused" =>
            now + Rounding > t.expired_at \/ \E s \in SessionsOf(t) : s.is_blocked

\* A user's row changes only through UpdateUser with a token of that user, and
\* only in the columns that the request names: of two concurrent updates of
\* different columns both last.  The stamp of a password is that of its request.
ChangedByOwner ==
  \A u \in Users : users'[u] # users[u] =>
    \E c \in Calls :
      /\ pc[c] = "updateUser" /\ pc'[c] # "updateUser"
      /\ call[c].token \in issued
      /\ call[c].token.username = u
      /\ users'[u].email \in {users[u].email, call[c].email}
      /\ \/ /\ users'[u].hashed_password = users[u].hashed_password
            /\ users'[u].password_changed_at = users[u].password_changed_at
         \/ /\ users'[u].hashed_password = call[c].password
            /\ users'[u].password_changed_at = call[c].changed_at

OnlyOwnersChange == [][ChangedByOwner]_vars

-------------------------------------------------------------------------------
(* The inductive invariant.                                                  *)

ClockOK == now > 0 /\ \A u \in Users : proved[u] <= now

\* A token was made after the password was checked, and a refresh token that a
\* caller has been given has its session.
IssuedOK ==
  \A t \in issued :
    LET p == proved[t.username]
    IN /\ t.id <= minted
       /\ p # 0
       /\ t.expired_at <= p + Longest
       /\ IsRefresh(t) => \E s \in sessions : s.refresh_token = t

SessionOK(s) ==
  LET t == s.refresh_token
  IN /\ s.id = t.id /\ s.username = t.username
     /\ s.expired_at \in Stored(t.expired_at)
     /\ IsRefresh(t)
     /\ t.id <= minted
     /\ proved[t.username] # 0
     /\ t.expired_at <= proved[t.username] + RefreshTokenDuration

\* Ids tell sessions and tokens apart.
IdsOK ==
  /\ \A s, r \in sessions : s.id = r.id => s = r
  /\ \A s \in sessions, t \in issued : s.id = t.id => s.refresh_token = t

Ids(c) == {call[c].access.id, call[c].refresh.id}

\* The tokens of a log-in in progress are new.
FreshOK(c) ==
  /\ \A t \in issued : t.id \notin Ids(c)
  /\ \A s \in sessions : s.id \notin Ids(c)
  /\ \A d \in Calls \ {c} : pc[d] = "createSession" => Ids(c) \cap Ids(d) = {}

InsertOK(c) ==
  LET p == proved[call[c].username]
      access == call[c].access
      refresh == call[c].refresh
  IN /\ access.username = call[c].username
     /\ refresh.username = call[c].username
     /\ access.id < refresh.id /\ refresh.id <= minted
     /\ access.expired_at = access.issued_at + AccessTokenDuration
     /\ IsRefresh(refresh)
     /\ p # 0
     /\ access.expired_at <= p + AccessTokenDuration
     /\ refresh.expired_at <= p + RefreshTokenDuration
     /\ call[c].password \in call[c].known
     /\ FreshOK(c)

\* What a renewal has found out still holds, but for a block.
FoundOK(c) ==
  LET s == call[c].session
  IN /\ s.id = call[c].token.id
     /\ call[c].wasBlocked => s.is_blocked
     /\ \E r \in sessions :
          /\ r.id = s.id /\ r.username = s.username
          /\ r.refresh_token = s.refresh_token /\ r.expired_at = s.expired_at
          /\ s.is_blocked => r.is_blocked

CallOK(c) ==
  /\ pc[c] = "getUser" /\ call[c].username \in Users =>
       users[call[c].username].hashed_password \in call[c].known
  /\ pc[c] = "checkPassword" => call[c].hashed \in call[c].known
  /\ pc[c] = "createSession" => InsertOK(c)
  /\ pc[c] \in {"getSession", "noSession", "checkSession", "renewed", "refused"}
       => call[c].token \in issued
  /\ pc[c] = "getSession" /\ call[c].wasBlocked =>
       \E s \in SessionsOf(call[c].token) : s.is_blocked
  /\ pc[c] \in {"checkSession", "renewed", "refused"} => FoundOK(c)
  /\ pc[c] = "renewed" =>
       ~call[c].session.is_blocked /\ IsRefresh(call[c].token)
  /\ pc[c] \in {"hashPassword", "updateUser"} =>
       call[c].token \in issued /\ call[c].token.username = call[c].username

CallsOK == \A c \in Calls : CallOK(c)

SessionsOK == \A s \in sessions : SessionOK(s)

IInv ==
  /\ TypeOK
  /\ UniqueEmails
  /\ ClockOK
  /\ IssuedOK
  /\ SessionsOK
  /\ IdsOK
  /\ CallsOK
  /\ RefusedForCause
=================================================================================
