---------------------------- MODULE Sessions_proofs ----------------------------
(* Proofs about log-in, renewal and UpdateUser, for any number of calls,     *)
(* users, passwords, addresses and tokens, any durations and any time.       *)
EXTENDS Sessions, TLAPS

\* What a handler holds, case by case.
LEMMA LocalsAre ==
  /\ Locals("getUser") = LoginCall
  /\ Locals("checkPassword") = TokensCall
  /\ Locals("createSession") = InsertCall
  /\ Locals("getSession") = RenewCall /\ Locals("noSession") = RenewCall
  /\ Locals("checkSession") = SessionCall
  /\ Locals("renewed") = SessionCall /\ Locals("refused") = SessionCall
  /\ Locals("hashPassword") = UpdateCall /\ Locals("updateUser") = UpdateCall
  /\ Locals("idle") = {"nothing"} /\ Locals("done") = {"nothing"}
  /\ Locals("failed") = {"nothing"}
BY DEF Locals

\* The type of what a call holds, after Goto.
LEMMA GotoType ==
  ASSUME TypeOK, NEW c \in Calls,
         NEW stage \in Running \cup Answered, NEW local \in Locals(stage),
         Goto(c, stage, local)
  PROVE  /\ pc' \in [Calls -> Running \cup Answered]
         /\ DOMAIN call' = Calls
         /\ pc'[c] = stage /\ call'[c] = local
         /\ \A d \in Calls \ {c} : pc'[d] = pc[d] /\ call'[d] = call[d]
         /\ \A d \in Calls : call'[d] \in Locals(pc'[d])
BY DEF TypeOK, Goto

\* A step of one call that leaves the rest alone, and makes no token.
LEMMA Frame ==
  ASSUME IInv, NEW c \in Calls,
         NEW stage \in Running \cup Answered, NEW local \in Locals(stage),
         Goto(c, stage, local), stage # "createSession",
         UNCHANGED <<now, users, sessions, minted, issued, proved>>,
         CallOK(c)',
         stage = "noSession" => ~IsRefresh(local.token),
         stage = "refused" =>
           \/ now + Rounding > local.token.expired_at
           \/ \E s \in SessionsOf(local.token) : s.is_blocked
  PROVE  IInv'
<1>1. /\ pc'[c] = stage /\ call'[c] = local
      /\ \A d \in Calls \ {c} : pc'[d] = pc[d] /\ call'[d] = call[d]
  BY GotoType DEF IInv
<1>2. TypeOK'
  BY GotoType DEF IInv, TypeOK
<1>3. UniqueEmails' /\ ClockOK' /\ IssuedOK' /\ SessionsOK' /\ IdsOK'
  BY DEF IInv, UniqueEmails, ClockOK, IssuedOK, SessionsOK, SessionOK, IdsOK
<1>4. ASSUME NEW d \in Calls \ {c} PROVE CallOK(d)'
  <2>1. CallOK(d)
    BY DEF IInv, CallsOK
  <2>2. pc'[d] = "createSession" => InsertOK(d)'
    BY <1>1, <2>1 DEF CallOK, InsertOK, FreshOK, Ids, IsRefresh
  <2>. QED
    BY <1>1, <2>1, <2>2 DEF CallOK, FoundOK, SessionsOf, IsRefresh
<1>5. RefusedForCause'
  BY <1>1 DEF IInv, RefusedForCause, SessionsOf, IsRefresh
<1>. QED
  BY <1>2, <1>3, <1>4, <1>5 DEF IInv, CallsOK

\* The invariant holds at the start.
LEMMA InitInv == Init => IInv
<1> SUFFICES ASSUME Init PROVE IInv
  OBVIOUS
<1>1. TypeOK
  BY LocalsAre, BoundsAssumption
     DEF Init, TypeOK, User, Time, Running, Answered, BoundsAssumption
<1>. QED
  BY <1>1 DEF Init, IInv, ClockOK, IssuedOK, SessionsOK, IdsOK, CallsOK, CallOK,
              RefusedForCause

-------------------------------------------------------------------------------
(* Log-in.                                                                   *)

\* A log-in arrives: the user's password of that moment is known.
LEMMA LoginUserInv ==
  ASSUME IInv, NEW c \in Calls, NEW u \in Users \cup {Stranger},
         NEW p \in Passwords, LoginUser(c, u, p)
  PROVE  IInv'
<1> DEFINE known == IF u \in Users THEN {users[u].hashed_password} ELSE {}
           local == [username |-> u, password |-> p, known |-> known]
<1>0. known \in SUBSET Passwords
  BY DEF IInv, TypeOK, User
<1>1. local \in Locals("getUser")
  <2> HIDE DEF known
  <2>. QED
    BY <1>0, LocalsAre DEF LoginCall
<1>2. Goto(c, "getUser", local)
  BY DEF LoginUser
<1>3. pc'[c] = "getUser" /\ call'[c] = local
  BY <1>1, <1>2, GotoType DEF IInv, Running
<1>4. CallOK(c)'
  BY <1>3 DEF CallOK, LoginUser
<1>. QED
  BY <1>1, <1>2, <1>4, Frame DEF LoginUser, Running

\* The hash that is read is one the user has had since the request came.
LEMMA GetUserInv ==
  ASSUME IInv, NEW c \in Calls, GetUser(c)
  PROVE  IInv'
<1> DEFINE u == call[c].username
           local == [username |-> u, password |-> call[c].password,
                     hashed |-> users[u].hashed_password,
                     known |-> call[c].known]
<1>1. call[c] \in LoginCall /\ CallOK(c)
  BY LocalsAre DEF GetUser, IInv, TypeOK, CallsOK
<1>2. local \in Locals("checkPassword")
  BY <1>1, LocalsAre DEF GetUser, IInv, TypeOK, User, LoginCall, TokensCall
<1>3. Goto(c, "checkPassword", local)
  BY DEF GetUser
<1>4. pc'[c] = "checkPassword" /\ call'[c] = local
  BY <1>2, <1>3, GotoType DEF IInv, Running
<1>5. CallOK(c)'
  BY <1>1, <1>4 DEF CallOK, GetUser
<1>. QED
  BY <1>2, <1>3, <1>5, Frame DEF GetUser, Running

\* A call that ends with no more than an answer.
LEMMA FinishInv ==
  ASSUME IInv, NEW c \in Calls, NEW answer \in {"done", "failed"},
         Finish(c, answer),
         UNCHANGED <<now, users, sessions, minted, issued, proved>>
  PROVE  IInv'
<1>1. "nothing" \in Locals(answer) /\ answer \in Running \cup Answered
  BY LocalsAre DEF Answered
<1>2. pc'[c] = answer
  BY <1>1, GotoType DEF IInv, Finish
<1>3. CallOK(c)'
  BY <1>2 DEF CallOK
<1>. QED
  BY <1>1, <1>3, Frame DEF Finish

\* Two new tokens: their ids are fresh, and the password has just been checked.
LEMMA CheckPasswordInv ==
  ASSUME IInv, NEW c \in Calls, CheckPassword(c)
  PROVE  IInv'
<1> DEFINE u == call[c].username
           access == NewPayload(minted + 1, u, AccessTokenDuration)
           refresh == NewPayload(minted + 2, u, RefreshTokenDuration)
           local == [username |-> u, password |-> call[c].password,
                     known |-> call[c].known,
                     access |-> access, refresh |-> refresh]
<1> USE DurationsAssumption, BoundsAssumption
    DEF DurationsAssumption, BoundsAssumption
<1>1. call[c] \in TokensCall /\ CallOK(c) /\ now \in Nat /\ minted \in Nat
  BY LocalsAre DEF CheckPassword, IInv, TypeOK, CallsOK, Time
<1>2. access \in Token /\ refresh \in Token
  BY <1>1 DEF NewPayload, Token, TokensCall, Time
<1>3. local \in Locals("createSession")
  BY <1>1, <1>2, LocalsAre DEF TokensCall, InsertCall
<1>4. Goto(c, "createSession", local)
  BY DEF CheckPassword, CreateTokens
<1>5. /\ pc'[c] = "createSession" /\ call'[c] = local
      /\ \A d \in Calls \ {c} : pc'[d] = pc[d] /\ call'[d] = call[d]
  BY <1>3, <1>4, GotoType DEF IInv, Running
<1>6. /\ minted' = minted + 2
      /\ proved' = [proved EXCEPT ![u] = now]
      /\ UNCHANGED <<now, users, sessions, issued>>
  BY DEF CheckPassword, CreateTokens
<1>7. /\ proved' \in [Users -> Nat] /\ now > 0 /\ proved'[u] = now
      /\ \A v \in Users : proved[v] <= proved'[v]
      /\ \A v \in Users : proved[v] # 0 => proved'[v] # 0
      /\ \A v \in Users : proved'[v] <= now
  BY <1>1, <1>6 DEF IInv, TypeOK, ClockOK, Time, TokensCall
<1>8. TypeOK'
  <2>1. minted' \in 0..MaxToken
    BY <1>1, <1>6 DEF CheckPassword, CreateTokens
  <2>. QED
    BY <2>1, <1>3, <1>4, <1>6, <1>7, GotoType DEF IInv, TypeOK, Time, Running
<1>9. UniqueEmails' /\ ClockOK' /\ IdsOK'
  BY <1>6, <1>7 DEF IInv, UniqueEmails, ClockOK, IdsOK
<1>10. IssuedOK'
  BY <1>1, <1>6, <1>7 DEF IInv, TypeOK, IssuedOK, Token, Time, IsRefresh, Longest
<1>11. SessionsOK'
  BY <1>1, <1>6, <1>7
     DEF IInv, TypeOK, SessionsOK, SessionOK, Session, Token, Time, IsRefresh
<1>12. InsertOK(c)'
  <2>1. Ids(c)' = {minted + 1, minted + 2}
    BY <1>5 DEF Ids, NewPayload
  <2>2. FreshOK(c)'
    <3>1. \A t \in issued' : t.id \notin Ids(c)'
      BY <2>1, <1>1, <1>6 DEF IInv, TypeOK, IssuedOK, Token
    <3>2. \A s \in sessions' : s.id \notin Ids(c)'
      BY <2>1, <1>1, <1>6 DEF IInv, TypeOK, SessionsOK, SessionOK, Session, Token
    <3>3. ASSUME NEW d \in Calls \ {c}, pc'[d] = "createSession"
          PROVE  Ids(c)' \cap Ids(d)' = {}
      <4>1. call[d] \in InsertCall /\ InsertOK(d) /\ call'[d] = call[d]
        BY <3>3, <1>5, LocalsAre DEF IInv, TypeOK, CallsOK, CallOK
      <4>2. /\ call[d].access.id \in Nat /\ call[d].refresh.id \in Nat
            /\ call[d].access.id <= minted /\ call[d].refresh.id <= minted
        BY <4>1, <1>1 DEF InsertOK, InsertCall, Token
      <4>. QED
        BY <4>1, <4>2, <2>1, <1>1 DEF Ids
    <3>. QED
      BY <3>1, <3>2, <3>3 DEF FreshOK
  <2>3. call[c].password \in call[c].known
    BY <1>1 DEF CheckPassword, CallOK
  <2>. QED
    BY <2>2, <2>3, <1>1, <1>5, <1>6, <1>7
       DEF InsertOK, NewPayload, IsRefresh, TokensCall
<1>13. ASSUME NEW d \in Calls \ {c} PROVE CallOK(d)'
  <2>1. CallOK(d)
    BY DEF IInv, CallsOK
  <2>2. CASE pc[d] = "createSession"
    <3>1. call[d] \in InsertCall /\ InsertOK(d) /\ call'[d] = call[d]
      BY <2>1, <2>2, <1>5, LocalsAre DEF IInv, TypeOK, CallOK
    <3>2. FreshOK(d)'
      <4>1. Ids(c)' \cap Ids(d)' = {}
        BY <2>2, <1>5, <1>12 DEF InsertOK, FreshOK
      <4>. QED
        BY <3>1, <4>1, <1>5, <1>6 DEF InsertOK, FreshOK, Ids
    <3>. QED
      BY <2>1, <2>2, <3>1, <3>2, <1>1, <1>5, <1>6, <1>7
         DEF IInv, TypeOK, CallOK, InsertOK, InsertCall, Token, Time, IsRefresh
  <2>3. CASE pc[d] # "createSession"
    BY <2>1, <2>3, <1>5, <1>6 DEF CallOK, FoundOK, SessionsOf, IsRefresh
  <2>. QED
    BY <2>2, <2>3
<1>14. CallOK(c)'
  BY <1>5, <1>12 DEF CallOK
<1>15. RefusedForCause'
  BY <1>5, <1>6 DEF IInv, RefusedForCause, SessionsOf, IsRefresh
<1>. QED
  BY <1>8, <1>9, <1>10, <1>11, <1>13, <1>14, <1>15 DEF IInv, CallsOK

\* The row is in the table; the tokens may be given out or not.
LEMMA CreateSessionInv ==
  ASSUME IInv, NEW c \in Calls, CreateSession(c) \/ CreateSessionFails(c)
  PROVE  IInv'
<1> DEFINE access == call[c].access
           refresh == call[c].refresh
<1> USE DurationsAssumption DEF DurationsAssumption
<1>0. PICK end \in Stored(refresh.expired_at) :
        \/ CreateSession(c) /\ sessions' = sessions \cup {NewSession(c, end)}
        \/ /\ CreateSessionFails(c)
           /\ sessions' \in {sessions, sessions \cup {NewSession(c, end)}}
  BY DEF CreateSession, CreateSessionFails
<1> DEFINE new == NewSession(c, end)
<1>1. /\ call[c] \in InsertCall /\ InsertOK(c) /\ pc[c] = "createSession"
      /\ now \in Nat /\ minted \in Nat
  BY LocalsAre, BoundsAssumption
     DEF BoundsAssumption, CreateSession, CreateSessionFails, IInv, TypeOK,
         CallsOK, CallOK, Time
<1>2. /\ access \in Token /\ refresh \in Token /\ new \in Session
      /\ new.refresh_token = refresh /\ new.id = refresh.id
      /\ ~new.is_blocked /\ end \in Nat
      /\ access.id # refresh.id /\ access.id <= minted /\ refresh.id <= minted
  <2>1. access \in Token /\ refresh \in Token
    BY <1>1 DEF InsertCall
  <2>2. end \in Nat
    BY <1>0, <2>1 DEF Stored, Token, Time
  <2>. QED
    BY <1>1, <2>1, <2>2 DEF InsertCall, NewSession, Session, Token, InsertOK, Time
<1>3. PICK answer \in {"done", "failed"} : Finish(c, answer)
  BY DEF CreateSession, CreateSessionFails
<1>4. "nothing" \in Locals(answer) /\ answer \in Running \cup Answered
  BY LocalsAre DEF Answered
<1>5. /\ pc'[c] = answer
      /\ \A d \in Calls \ {c} : pc'[d] = pc[d] /\ call'[d] = call[d]
  BY <1>3, <1>4, GotoType DEF IInv, Finish
<1>6. /\ sessions' \in {sessions, sessions \cup {new}}
      /\ issued' \in {issued, issued \cup {access, refresh}}
      /\ refresh \in issued' => new \in sessions' \/ refresh \in issued
      /\ issued' # issued => sessions' = sessions \cup {new}
      /\ UNCHANGED <<now, users, minted, proved>>
  BY <1>0 DEF CreateSession, CreateSessionFails
<1>7. TypeOK'
  BY <1>2, <1>3, <1>4, <1>6, GotoType DEF IInv, TypeOK, Finish
<1>8. UniqueEmails' /\ ClockOK'
  BY <1>6 DEF IInv, UniqueEmails, ClockOK
<1>9. access.expired_at = access.issued_at + AccessTokenDuration
      /\ ~IsRefresh(access)
  BY <1>1, <1>2 DEF InsertOK, IsRefresh, Token, Time
<1>10. IssuedOK'
  <2>1. ASSUME NEW t \in issued
        PROVE  IsRefresh(t) => \E s \in sessions' : s.refresh_token = t
    BY <1>6 DEF IInv, IssuedOK
  <2>2. proved \in [Users -> Nat] /\ call[c].username \in Users
    BY <1>1 DEF IInv, TypeOK, Time, InsertCall
  <2>3. /\ proved[access.username] # 0 /\ proved[refresh.username] # 0
        /\ access.expired_at <= proved[access.username] + Longest
        /\ refresh.expired_at <= proved[refresh.username] + Longest
    BY <1>1, <1>2, <2>2 DEF InsertOK, Token, Time, Longest
  <2>. QED
    BY <2>1, <2>3, <1>2, <1>6, <1>9 DEF IInv, IssuedOK, IsRefresh
<1>11. SessionsOK'
  <2>1. SessionOK(new)
    BY <1>0, <1>1, <1>2 DEF SessionOK, InsertOK, NewSession
  <2>. QED
    BY <2>1, <1>6 DEF IInv, SessionsOK, SessionOK, IsRefresh
<1>12. IdsOK'
  BY <1>1, <1>2, <1>6 DEF IInv, IdsOK, InsertOK, FreshOK, Ids
<1>13. ASSUME NEW d \in Calls \ {c} PROVE CallOK(d)'
  <2>1. CallOK(d)
    BY DEF IInv, CallsOK
  <2>2. CASE pc[d] = "createSession"
    <3>1. InsertOK(d) /\ call'[d] = call[d] /\ Ids(c) \cap Ids(d) = {}
      BY <2>1, <2>2, <1>1, <1>5 DEF CallOK, InsertOK, FreshOK, Ids
    <3>2. FreshOK(d)'
      <4>1. \A t \in issued' : t.id \notin Ids(d)
        BY <3>1, <1>6 DEF InsertOK, FreshOK, Ids
      <4>2. \A s \in sessions' : s.id \notin Ids(d)
        BY <3>1, <1>2, <1>6 DEF InsertOK, FreshOK, Ids
      <4>3. \A e \in Calls \ {d} : pc'[e] = "createSession" =>
              Ids(d) \cap Ids(e)' = {}
        BY <3>1, <1>3, <1>5 DEF InsertOK, FreshOK, Ids
      <4>. QED
        BY <3>1, <4>1, <4>2, <4>3 DEF FreshOK, Ids
    <3>. QED
      BY <2>1, <2>2, <3>1, <3>2, <1>5, <1>6 DEF CallOK, InsertOK, IsRefresh
  <2>3. CASE pc[d] # "createSession"
    <3>1. FoundOK(d) => call'[d] = call[d] /\ FoundOK(d)'
      BY <1>5, <1>6 DEF FoundOK
    <3>. QED
      BY <2>1, <2>3, <3>1, <1>5, <1>6 DEF CallOK, SessionsOf, IsRefresh
  <2>. QED
    BY <2>2, <2>3
<1>14. CallOK(c)'
  BY <1>3, <1>5 DEF CallOK
<1>15. RefusedForCause'
  BY <1>3, <1>5, <1>6 DEF IInv, RefusedForCause, SessionsOf, IsRefresh
<1>. QED
  BY <1>7, <1>8, <1>10, <1>11, <1>12, <1>13, <1>14, <1>15 DEF IInv, CallsOK

-------------------------------------------------------------------------------
(* Renewal.                                                                  *)

\* A renewal arrives with a token that a caller was given.
LEMMA ReNewAccessTokenInv ==
  ASSUME IInv, NEW c \in Calls, NEW t \in issued, ReNewAccessToken(c, t)
  PROVE  IInv'
<1> DEFINE was == \E s \in SessionsOf(t) : s.is_blocked
           local == [token |-> t, wasBlocked |-> was]
<1>1. local \in Locals("getSession")
  BY LocalsAre DEF IInv, TypeOK, RenewCall
<1>2. Goto(c, "getSession", local)
  BY DEF ReNewAccessToken
<1>3. pc'[c] = "getSession" /\ call'[c] = local
  BY <1>1, <1>2, GotoType DEF IInv, Running
<1>4. UNCHANGED <<sessions, issued>>
  BY DEF ReNewAccessToken
<1>5. CallOK(c)'
  BY <1>3, <1>4 DEF CallOK, SessionsOf
<1>. QED
  BY <1>1, <1>2, <1>5, Frame DEF ReNewAccessToken, Running

\* The row that is read is the only one of the token's id.
LEMMA GetSessionInv ==
  ASSUME IInv, NEW c \in Calls, GetSession(c)
  PROVE  IInv'
<1>1. PICK s \in SessionsOf(call[c].token) :
        Goto(c, "checkSession",
             [token |-> call[c].token, wasBlocked |-> call[c].wasBlocked,
              session |-> s])
  BY DEF GetSession
<1> DEFINE local == [token |-> call[c].token, wasBlocked |-> call[c].wasBlocked,
                     session |-> s]
<1>2. call[c] \in RenewCall /\ CallOK(c) /\ s \in sessions /\ s.id = call[c].token.id
  BY <1>1, LocalsAre DEF GetSession, IInv, TypeOK, CallsOK, SessionsOf
<1>3. local \in Locals("checkSession")
  BY <1>2, LocalsAre DEF IInv, TypeOK, RenewCall, SessionCall
<1>4. pc'[c] = "checkSession" /\ call'[c] = local
  BY <1>1, <1>3, GotoType DEF IInv, Running
<1>5. UNCHANGED <<sessions, issued>>
  BY DEF GetSession
<1>6. call[c].wasBlocked => s.is_blocked
  BY <1>2 DEF GetSession, CallOK, SessionsOf, IInv, IdsOK
<1>7. FoundOK(c)'
  BY <1>2, <1>4, <1>5, <1>6 DEF FoundOK
<1>8. CallOK(c)'
  BY <1>2, <1>4, <1>5, <1>7 DEF CallOK, GetSession
<1>. QED
  BY <1>1, <1>3, <1>8, Frame DEF GetSession, Running

\* Only a token that is no refresh token has no session.
LEMMA NoSessionInv ==
  ASSUME IInv, NEW c \in Calls, NoSession(c)
  PROVE  IInv'
<1>1. call[c] \in Locals("noSession") /\ call[c].token \in issued
  BY LocalsAre DEF NoSession, IInv, TypeOK, CallsOK, CallOK
<1>2. ~IsRefresh(call[c].token)
  BY <1>1 DEF NoSession, SessionsOf, IInv, IssuedOK, SessionsOK, SessionOK
<1>3. pc'[c] = "noSession" /\ call'[c] = call[c]
  BY <1>1, GotoType DEF NoSession, IInv, Answered
<1>4. CallOK(c)'
  BY <1>1, <1>3 DEF CallOK, NoSession
<1>. QED
  BY <1>1, <1>2, <1>4, Frame DEF NoSession, Answered

\* Of the four checks only the block and the end can fail.
LEMMA RenewalRefusedInv ==
  ASSUME IInv, NEW c \in Calls, RenewalRefused(c)
  PROVE  IInv'
<1> DEFINE s == call[c].session
           t == call[c].token
<1>1. call[c] \in Locals("refused") /\ t \in issued /\ FoundOK(c)
  BY LocalsAre DEF RenewalRefused, IInv, TypeOK, CallsOK, CallOK
<1>2. now + Rounding > t.expired_at \/ \E r \in SessionsOf(t) : r.is_blocked
  <2>1. PICK r \in sessions :
          /\ r.id = t.id /\ r.username = s.username
          /\ r.refresh_token = s.refresh_token /\ r.expired_at = s.expired_at
          /\ s.is_blocked => r.is_blocked
    BY <1>1 DEF FoundOK
  <2>2. r.refresh_token = t /\ s.username = t.username
        /\ s.expired_at \in Stored(t.expired_at)
    BY <2>1, <1>1 DEF IInv, IdsOK, SessionsOK, SessionOK
  <2>3. CASE s.is_blocked
    BY <2>1, <2>3 DEF SessionsOf
  <2>4. CASE now > s.expired_at
    <3>1. now \in Nat /\ t.expired_at \in Nat /\ s.expired_at \in Nat
      BY <1>1, <2>2 DEF IInv, TypeOK, Token, Time, Stored
    <3>2. t.expired_at <= s.expired_at + Rounding
      BY <2>2 DEF Stored
    <3>. QED
      BY <2>4, <3>1, <3>2, DurationsAssumption DEF DurationsAssumption
  <2>. QED
    BY <2>1, <2>2, <2>3, <2>4 DEF RenewalRefused, Renewable
<1>3. pc'[c] = "refused" /\ call'[c] = call[c]
  BY <1>1, GotoType DEF RenewalRefused, IInv, Answered
<1>4. UNCHANGED <<sessions, issued>>
  BY DEF RenewalRefused
<1>5. CallOK(c)'
  BY <1>1, <1>3, <1>4 DEF CallOK, FoundOK
<1>. QED
  BY <1>1, <1>2, <1>5, Frame DEF RenewalRefused, Answered

\* The session a renewal has read is that of its token, and in time.
LEMMA RenewableMeans ==
  ASSUME IInv, NEW c \in Calls, pc[c] = "checkSession",
         Renewable(call[c].session, call[c].token)
  PROVE  LET t == call[c].token
         IN /\ t \in issued
            /\ IsRefresh(t)
            /\ proved[t.username] # 0
            /\ now <= proved[t.username] + RefreshTokenDuration + Rounding
            /\ ~call[c].session.is_blocked
            /\ call[c].wasBlocked => call[c].session.is_blocked
<1> DEFINE s == call[c].session
           t == call[c].token
<1>1. t \in issued /\ FoundOK(c) /\ call[c] \in SessionCall
  BY LocalsAre DEF IInv, TypeOK, CallsOK, CallOK
<1>2. PICK r \in sessions :
        /\ r.id = t.id /\ r.username = s.username
        /\ r.refresh_token = s.refresh_token /\ r.expired_at = s.expired_at
  BY <1>1 DEF FoundOK
<1>3. /\ r.refresh_token = t /\ SessionOK(r)
      /\ s.expired_at \in Stored(t.expired_at)
  BY <1>2 DEF Renewable, IInv, SessionsOK, SessionOK
<1>4. now \in Nat /\ t.expired_at \in Nat /\ proved[t.username] \in Nat
  BY <1>1 DEF IInv, TypeOK, Token, Time
<1>. QED
  BY <1>1, <1>3, <1>4, DurationsAssumption
     DEF Renewable, SessionOK, Stored, FoundOK, DurationsAssumption

\* The new access token lasts no longer than its session's log-in allows.
LEMMA RenewInv ==
  ASSUME IInv, NEW c \in Calls, Renew(c)
  PROVE  IInv'
<1> DEFINE t == call[c].token
           access == NewPayload(minted + 1, t.username, AccessTokenDuration)
<1> USE DurationsAssumption, BoundsAssumption
    DEF DurationsAssumption, BoundsAssumption
<1>1. /\ t \in issued /\ IsRefresh(t)
      /\ proved[t.username] # 0
      /\ now <= proved[t.username] + RefreshTokenDuration + Rounding
      /\ ~call[c].session.is_blocked
      /\ call[c].wasBlocked => call[c].session.is_blocked
  BY RenewableMeans DEF Renew
<1>2. /\ call[c] \in SessionCall /\ CallOK(c) /\ FoundOK(c)
      /\ now \in Nat /\ minted \in Nat /\ proved[t.username] \in Nat
  BY <1>1, LocalsAre DEF Renew, IInv, TypeOK, CallsOK, CallOK, Time, Token
<1>3. access \in Token
  BY <1>1, <1>2 DEF NewPayload, Token, IInv, TypeOK, Time
<1>4. call[c] \in Locals("renewed") /\ Goto(c, "renewed", call[c])
  BY <1>2, LocalsAre DEF Renew
<1>5. /\ pc'[c] = "renewed" /\ call'[c] = call[c]
      /\ \A d \in Calls \ {c} : pc'[d] = pc[d] /\ call'[d] = call[d]
  BY <1>4, GotoType DEF IInv, Answered
<1>6. /\ minted' = minted + 1
      /\ issued' = issued \cup {access}
      /\ UNCHANGED <<now, users, sessions, proved>>
  BY DEF Renew
<1>7. TypeOK'
  <2>1. minted' \in 0..MaxToken
    BY <1>2, <1>6 DEF Renew
  <2>. QED
    BY <2>1, <1>3, <1>4, <1>6, GotoType DEF IInv, TypeOK, Answered
<1>8. UniqueEmails' /\ ClockOK'
  BY <1>6 DEF IInv, UniqueEmails, ClockOK
<1>9. access.id = minted + 1 /\ ~IsRefresh(access)
      /\ access.username = t.username
      /\ access.expired_at = now + AccessTokenDuration
  BY <1>2 DEF NewPayload, IsRefresh
<1>10. IssuedOK'
  <2>1. ASSUME NEW r \in issued
        PROVE  /\ r.id <= minted'
               /\ proved'[r.username] # 0
               /\ r.expired_at <= proved'[r.username] + Longest
               /\ IsRefresh(r)' => \E s \in sessions' : s.refresh_token = r
    BY <1>2, <1>6 DEF IInv, TypeOK, IssuedOK, Token, IsRefresh
  <2>2. /\ access.id <= minted'
        /\ proved'[access.username] # 0
        /\ access.expired_at <= proved'[access.username] + Longest
        /\ ~IsRefresh(access)
    BY <1>1, <1>2, <1>6, <1>9 DEF Longest
  <2> HIDE DEF access
  <2>. QED
    BY <2>1, <2>2, <1>6 DEF IssuedOK, IsRefresh
<1>11. SessionsOK' /\ IdsOK'
  BY <1>2, <1>6, <1>9
     DEF IInv, TypeOK, SessionsOK, SessionOK, IdsOK, Session, Token, IsRefresh
<1>12. ASSUME NEW d \in Calls \ {c} PROVE CallOK(d)'
  <2>1. CallOK(d)
    BY DEF IInv, CallsOK
  <2>2. CASE pc[d] = "createSession"
    <3>1. /\ call[d] \in InsertCall /\ InsertOK(d) /\ call'[d] = call[d]
      BY <2>1, <2>2, <1>5, LocalsAre DEF IInv, TypeOK, CallOK
    <3>2. access.id \notin Ids(d)
      BY <3>1, <1>2, <1>9 DEF InsertOK, InsertCall, Ids, Token
    <3>3. FreshOK(d)'
      BY <3>1, <3>2, <1>5, <1>6 DEF InsertOK, FreshOK, Ids
    <3>4. call[d].refresh.id <= minted'
      BY <3>1, <1>2, <1>6 DEF InsertOK, InsertCall, Token
    <3> HIDE DEF access
    <3>. QED
      BY <2>2, <3>1, <3>3, <3>4, <1>5, <1>6 DEF CallOK, InsertOK, IsRefresh
  <2>3. CASE pc[d] # "createSession"
    BY <2>1, <2>3, <1>5, <1>6 DEF CallOK, FoundOK, SessionsOf, IsRefresh
  <2>. QED
    BY <2>2, <2>3
<1>13. CallOK(c)'
  BY <1>1, <1>2, <1>5, <1>6 DEF CallOK, FoundOK, IsRefresh
<1>14. RefusedForCause'
  BY <1>5, <1>6 DEF IInv, RefusedForCause, SessionsOf, IsRefresh
<1>. QED
  BY <1>7, <1>8, <1>10, <1>11, <1>12, <1>13, <1>14 DEF IInv, CallsOK

-------------------------------------------------------------------------------
(* UpdateUser.                                                               *)

\* An update arrives with a token of the user it names.
LEMMA UpdateUserInv ==
  ASSUME IInv, NEW c \in Calls, NEW t \in issued, NEW u \in Users,
         NEW p \in Passwords \cup {Unchanged}, NEW e \in Emails \cup {Unchanged},
         UpdateUser(c, t, u, p, e)
  PROVE  IInv'
<1> DEFINE stage == IF p = Unchanged THEN "updateUser" ELSE "hashPassword"
           local == [token |-> t, username |-> u, password |-> p,
                     changed_at |-> 0, email |-> e]
<1>1. stage \in {"hashPassword", "updateUser"}
  OBVIOUS
<1>2. local \in UpdateCall
  BY DEF IInv, TypeOK, UpdateCall, Time
<1>3. Goto(c, stage, local)
  BY DEF UpdateUser
<1>4. t.username = u /\ UNCHANGED issued
  BY DEF UpdateUser, Authorized
<1> HIDE DEF stage
<1>5. local \in Locals(stage)
  BY <1>1, <1>2, LocalsAre
<1>6. pc'[c] = stage /\ call'[c] = local
  BY <1>1, <1>3, <1>5, GotoType DEF IInv, Running
<1>7. CallOK(c)'
  BY <1>1, <1>4, <1>6 DEF CallOK
<1>. QED
  BY <1>1, <1>3, <1>5, <1>7, Frame DEF UpdateUser, Running

\* The stamp is the only thing that changes.
LEMMA HashPasswordInv ==
  ASSUME IInv, NEW c \in Calls, HashPassword(c)
  PROVE  IInv'
<1> DEFINE local == [call[c] EXCEPT !.changed_at = now]
<1>1. call[c] \in UpdateCall /\ CallOK(c)
  BY LocalsAre DEF HashPassword, IInv, TypeOK, CallsOK
<1>2. local \in Locals("updateUser") /\ local.token = call[c].token
      /\ local.username = call[c].username
  BY <1>1, LocalsAre DEF IInv, TypeOK, UpdateCall
<1>3. Goto(c, "updateUser", local) /\ UNCHANGED issued
  BY DEF HashPassword
<1> HIDE DEF local
<1>4. pc'[c] = "updateUser" /\ call'[c] = local
  BY <1>2, <1>3, GotoType DEF IInv, Running
<1>5. CallOK(c)'
  BY <1>1, <1>2, <1>3, <1>4 DEF CallOK, HashPassword
<1>. QED
  BY <1>2, <1>3, <1>5, Frame DEF HashPassword, Running

\* The log-ins in progress learn the new password; nothing else moves.
LEMMA UpdateRowInv ==
  ASSUME IInv, NEW c \in Calls, NEW answer \in {"done", "failed"},
         UpdateRow(c, answer)
  PROVE  IInv'
<1> DEFINE u == call[c].username
           row == UpdatedRow(call[c], users[u])
           learns(d) == /\ pc[d] \in {"getUser", "checkPassword"}
                        /\ call[d].username = u
<1>1. call[c] \in UpdateCall
  BY LocalsAre DEF UpdateRow, IInv, TypeOK
<1>2. u \in Users /\ users[u] \in User /\ row \in User
      /\ row.email = Coalesce(call[c].email, users[u].email)
  BY <1>1 DEF IInv, TypeOK, UpdateCall, UpdatedRow, Coalesce, User
<1>3. users' = [users EXCEPT ![u] = row]
      /\ UNCHANGED <<now, sessions, minted, issued, proved>>
  BY DEF UpdateRow
<1>4. /\ pc' \in [Calls -> Running \cup Answered] /\ DOMAIN call' = Calls
      /\ pc'[c] = answer /\ call'[c] = "nothing"
      /\ \A d \in Calls \ {c} : pc'[d] = pc[d]
      /\ \A d \in Calls \ {c} : ~learns(d) => call'[d] = call[d]
      /\ \A d \in Calls \ {c} : learns(d) =>
           call'[d] = [call[d] EXCEPT !.known =
                         call[d].known \cup {row.hashed_password}]
  BY DEF UpdateRow, IInv, TypeOK, Running, Answered
<1>5. ASSUME NEW d \in Calls \ {c}, learns(d)
      PROVE  /\ call'[d] \in Locals(pc'[d])
             /\ call'[d].username = u
             /\ call'[d].known = call[d].known \cup {row.hashed_password}
             /\ pc[d] = "checkPassword" => call'[d].hashed = call[d].hashed
  <2>1. call[d] \in LoginCall \cup TokensCall
        /\ call[d] \in Locals(pc[d]) /\ row.hashed_password \in Passwords
    BY <1>2, <1>5, LocalsAre DEF IInv, TypeOK, User
  <2> DEFINE known == call[d].known \cup {row.hashed_password}
             local == [call[d] EXCEPT !.known = known]
  <2>4. call'[d] = local /\ pc'[d] = pc[d]
    BY <1>4, <1>5
  <2>5. known \in SUBSET Passwords
    BY <2>1 DEF LoginCall, TokensCall
  <2> HIDE DEF known
  <2>6. /\ local.known = known /\ local.username = u
        /\ pc[d] = "checkPassword" => local.hashed = call[d].hashed
    BY <2>1, <1>5, LocalsAre DEF LoginCall, TokensCall
  <2>2. local \in Locals(pc[d])
    <3>1. CASE pc[d] = "getUser"
      <4>1. call[d] \in LoginCall
        BY <2>1, <3>1, LocalsAre
      <4>. QED
        BY <3>1, <4>1, <2>5, LocalsAre DEF LoginCall
    <3>2. CASE pc[d] = "checkPassword"
      <4>1. call[d] \in TokensCall
        BY <2>1, <3>2, LocalsAre
      <4>. QED
        BY <3>2, <4>1, <2>5, LocalsAre DEF TokensCall
    <3>. QED
      BY <3>1, <3>2, <1>5
  <2> HIDE DEF local
  <2>. QED
    BY <2>2, <2>4, <2>6 DEF known
<1> HIDE DEF row
<1>6. TypeOK'
  <2>1. ASSUME NEW d \in Calls PROVE call'[d] \in Locals(pc'[d])
    <3>1. CASE d = c
      BY <3>1, <1>4, LocalsAre
    <3>2. CASE d # c /\ learns(d)
      BY <3>2, <1>5
    <3>3. CASE d # c /\ ~learns(d)
      BY <3>3, <1>4 DEF IInv, TypeOK
    <3>. QED
      BY <3>1, <3>2, <3>3
  <2>. QED
    BY <2>1, <1>2, <1>3, <1>4 DEF IInv, TypeOK
<1>7. UniqueEmails'
  <2>1. \A v \in Users \ {u} : users[v].email # row.email
    BY <1>2 DEF UpdateRow, EmailTaken, Coalesce, IInv, UniqueEmails
  <2>. QED
    BY <2>1, <1>2, <1>3 DEF IInv, TypeOK, UniqueEmails
<1>8. ClockOK' /\ IssuedOK' /\ SessionsOK' /\ IdsOK'
  BY <1>3 DEF IInv, ClockOK, IssuedOK, SessionsOK, SessionOK, IdsOK, IsRefresh
<1>9. ASSUME NEW d \in Calls PROVE CallOK(d)'
  <2>1. CallOK(d)
    BY DEF IInv, CallsOK
  <2>2. CASE d = c
    BY <2>2, <1>4 DEF CallOK
  <2>3. CASE d # c /\ learns(d)
    BY <2>1, <2>3, <1>2, <1>3, <1>4, <1>5 DEF CallOK, IInv, TypeOK
  <2>4. CASE d # c /\ ~learns(d)
    <3>1. pc'[d] = pc[d] /\ call'[d] = call[d]
      BY <2>4, <1>4
    <3>2. pc[d] = "getUser" /\ call[d].username \in Users =>
            users'[call[d].username] = users[call[d].username]
      BY <2>4, <1>3 DEF IInv, TypeOK
    <3>3. pc[d] = "createSession" => InsertOK(d)'
      BY <2>1, <3>1, <1>3, <1>4 DEF CallOK, InsertOK, FreshOK, Ids, IsRefresh
    <3>. QED
      BY <2>1, <3>1, <3>2, <3>3, <1>3 DEF CallOK, FoundOK, SessionsOf, IsRefresh
  <2>. QED
    BY <2>2, <2>3, <2>4
<1>10. RefusedForCause'
  <2>1. \A d \in Calls : pc'[d] \in {"noSession", "refused"} =>
          pc'[d] = pc[d] /\ call'[d] = call[d]
    BY <1>4
  <2>. QED
    BY <2>1, <1>3 DEF IInv, RefusedForCause, SessionsOf, IsRefresh
<1>. QED
  BY <1>6, <1>7, <1>8, <1>9, <1>10 DEF IInv, CallsOK

-------------------------------------------------------------------------------
(* Block, Tick, and all of them together.                                    *)

\* A block changes one column of one row.
LEMMA BlockInv ==
  ASSUME IInv, NEW b \in sessions, Block(b)
  PROVE  IInv'
<1> DEFINE new == [b EXCEPT !.is_blocked = TRUE]
<1>1. /\ new \in Session /\ new.is_blocked
      /\ new.id = b.id /\ new.username = b.username
      /\ new.refresh_token = b.refresh_token /\ new.expired_at = b.expired_at
  BY DEF IInv, TypeOK, Session
<1>2. /\ sessions' = (sessions \ {b}) \cup {new}
      /\ UNCHANGED <<now, users, minted, issued, pc, call, proved>>
  BY DEF Block
<1> HIDE DEF new
\* Every row is there still, blocked if it was.
<1>3. ASSUME NEW s \in sessions
      PROVE  \E r \in sessions' :
               /\ r.id = s.id /\ r.username = s.username
               /\ r.refresh_token = s.refresh_token
               /\ r.expired_at = s.expired_at
               /\ s.is_blocked => r.is_blocked
  BY <1>1, <1>2
<1>4. TypeOK' /\ UniqueEmails' /\ ClockOK'
  BY <1>1, <1>2 DEF IInv, TypeOK, UniqueEmails, ClockOK
<1>5. IssuedOK'
  BY <1>2, <1>3 DEF IInv, IssuedOK, IsRefresh
<1>6. SessionsOK' /\ IdsOK'
  BY <1>1, <1>2 DEF IInv, SessionsOK, SessionOK, IdsOK, IsRefresh
<1>7. ASSUME NEW c \in Calls PROVE CallOK(c)'
  <2>1. CallOK(c)
    BY DEF IInv, CallsOK
  <2>2. pc[c] = "createSession" => InsertOK(c)'
    BY <2>1, <1>1, <1>2 DEF CallOK, InsertOK, FreshOK, Ids, IsRefresh
  <2>3. FoundOK(c) => FoundOK(c)'
    BY <1>2, <1>3 DEF FoundOK
  <2>4. ASSUME \E s \in SessionsOf(call[c].token) : s.is_blocked
        PROVE  \E s \in SessionsOf(call[c].token)' : s.is_blocked
    BY <2>4, <1>2, <1>3 DEF SessionsOf
  <2>. QED
    BY <2>1, <2>2, <2>3, <2>4, <1>2 DEF CallOK, IsRefresh
<1>8. RefusedForCause'
  BY <1>2, <1>3 DEF IInv, RefusedForCause, SessionsOf, IsRefresh
<1>. QED
  BY <1>4, <1>5, <1>6, <1>7, <1>8 DEF IInv, CallsOK

\* Time passes: what has been checked stays checked, what has expired stays so.
LEMMA TickInv == ASSUME IInv, Tick PROVE IInv'
<1>1. now \in Nat /\ now' = now + 1
      /\ UNCHANGED <<users, sessions, minted, issued, pc, call, proved>>
  BY DEF IInv, TypeOK, Tick, Time
<1>2. TypeOK' /\ UniqueEmails' /\ IssuedOK' /\ SessionsOK' /\ IdsOK'
  BY <1>1 DEF IInv, TypeOK, UniqueEmails, IssuedOK, SessionsOK, SessionOK, IdsOK,
              IsRefresh, Time
<1>3. ClockOK'
  BY <1>1 DEF IInv, TypeOK, ClockOK, Time
<1>4. CallsOK'
  BY <1>1 DEF IInv, CallsOK, CallOK, InsertOK, FreshOK, Ids, FoundOK, SessionsOf,
              IsRefresh
<1>5. RefusedForCause'
  <2>1. ASSUME NEW c \in Calls, pc[c] = "refused",
               now + Rounding > call[c].token.expired_at
        PROVE  (now + Rounding > call[c].token.expired_at)'
    <3>1. call[c].token.expired_at \in Nat
      BY <2>1, LocalsAre DEF IInv, TypeOK, SessionCall, Token, Time
    <3>. QED
      BY <2>1, <3>1, <1>1, DurationsAssumption DEF DurationsAssumption
  <2>. QED
    BY <2>1, <1>1 DEF IInv, RefusedForCause, SessionsOf, IsRefresh
<1>. QED
  BY <1>2, <1>3, <1>4, <1>5 DEF IInv

\* Every step preserves the invariant.
LEMMA StepInv == IInv /\ [Next]_vars => IInv'
<1> SUFFICES ASSUME IInv, [Next]_vars PROVE IInv'
  OBVIOUS
<1>1. ASSUME NEW c \in Calls, Request(c) PROVE IInv'
  BY <1>1, LoginUserInv, ReNewAccessTokenInv, UpdateUserInv DEF Request
<1>2. ASSUME NEW c \in Calls, Handler(c) PROVE IInv'
  <2>1. CASE GetUser(c) \/ CheckPassword(c)
    BY <2>1, GetUserInv, CheckPasswordInv
  <2>2. CASE UserNotFound(c) \/ WrongPassword(c) \/ UpdateRejected(c) \/ Fails(c)
    BY <2>2, FinishInv DEF UserNotFound, WrongPassword, UpdateRejected, Fails
  <2>3. CASE CreateSession(c) \/ CreateSessionFails(c)
    BY <2>3, CreateSessionInv
  <2>4. CASE GetSession(c) \/ NoSession(c) \/ RenewalRefused(c) \/ Renew(c)
    BY <2>4, GetSessionInv, NoSessionInv, RenewalRefusedInv, RenewInv
  <2>5. CASE HashPassword(c)
    BY <2>5, HashPasswordInv
  <2>6. CASE UpdateUserRow(c) \/ UpdateUnacknowledged(c)
    BY <2>6, UpdateRowInv DEF UpdateUserRow, UpdateUnacknowledged
  <2>. QED
    BY <1>2, <2>1, <2>2, <2>3, <2>4, <2>5, <2>6 DEF Handler
<1>3. ASSUME NEW s \in sessions, Block(s) PROVE IInv'
  BY <1>3, BlockInv
<1>4. CASE Tick
  BY <1>4, TickInv
<1>5. CASE UNCHANGED vars
  BY <1>5 DEF vars, IInv, TypeOK, UniqueEmails, ClockOK, IssuedOK, SessionsOK,
              SessionOK, IdsOK, CallsOK, CallOK, InsertOK, FreshOK, Ids, FoundOK,
              SessionsOf, RefusedForCause, IsRefresh
<1>. QED
  BY <1>1, <1>2, <1>3, <1>4, <1>5 DEF Next

\* The invariant of log-in, renewal and UpdateUser, for every instance.
THEOREM Invariance == Spec => []IInv
BY InitInv, StepInv, PTL DEF Spec

-------------------------------------------------------------------------------
(* What follows.                                                             *)

\* A log-in presents a password that its user had while it was in progress.
THEOREM PasswordWasKnown == Spec => []LoginKnowsPassword
<1>1. IInv => LoginKnowsPassword
  BY DEF IInv, CallsOK, CallOK, InsertOK, LoginKnowsPassword
<1>. QED
  BY <1>1, Invariance, PTL

\* No renewal goes on with a session that was blocked when it was read.
THEOREM NoBlockedRenewal == Spec => []BlockedStaysOut
<1>1. IInv => BlockedStaysOut
  BY DEF IInv, CallsOK, CallOK, FoundOK, BlockedStaysOut
<1>. QED
  BY <1>1, Invariance, PTL

\* A refresh token is refused for a cause only.
THEOREM RefusalsHaveCause == Spec => []RefusedForCause
BY Invariance, PTL DEF IInv

\* A step that leaves users alone changes no row; an UPDATE obeys the request.
LEMMA StepOwner == IInv /\ [Next]_vars => [ChangedByOwner]_vars
<1> SUFFICES ASSUME IInv, Next PROVE ChangedByOwner
  BY DEF vars, ChangedByOwner
<1>1. CASE UNCHANGED users
  BY <1>1 DEF ChangedByOwner
<1>2. ASSUME NEW c \in Calls, NEW answer \in {"done", "failed"},
             UpdateRow(c, answer)
      PROVE  ChangedByOwner
  <2> DEFINE u == call[c].username
             row == UpdatedRow(call[c], users[u])
  <2>1. call[c] \in UpdateCall /\ CallOK(c) /\ pc[c] = "updateUser"
    BY <1>2, LocalsAre DEF UpdateRow, IInv, TypeOK, CallsOK
  <2>2. call[c].token \in issued /\ call[c].token.username = u
    BY <2>1 DEF CallOK
  <2>3. u \in Users /\ pc'[c] = answer
    BY <1>2, <2>1 DEF UpdateCall, UpdateRow, IInv, TypeOK
  <2>4. users' = [users EXCEPT ![u] = row]
    BY <1>2 DEF UpdateRow
  <2>5. users'[u] = row /\ \A v \in Users \ {u} : users'[v] = users[v]
    BY <2>3, <2>4 DEF IInv, TypeOK
  <2>6. /\ row.email \in {users[u].email, call[c].email}
        /\ \/ /\ row.hashed_password = users[u].hashed_password
              /\ row.password_changed_at = users[u].password_changed_at
           \/ /\ row.hashed_password = call[c].password
              /\ row.password_changed_at = call[c].changed_at
    BY DEF UpdatedRow, Coalesce
  <2> HIDE DEF row
  <2>. QED
    BY <2>1, <2>2, <2>3, <2>5, <2>6 DEF ChangedByOwner
<1>3. UNCHANGED users
      \/ \E c \in Calls, answer \in {"done", "failed"} : UpdateRow(c, answer)
  BY DEF Next, Request, LoginUser, ReNewAccessToken, UpdateUser, Handler, GetUser,
         UserNotFound, WrongPassword, CheckPassword, CreateTokens, CreateSession,
         CreateSessionFails, GetSession, NoSession, RenewalRefused, Renew,
         HashPassword, UpdateUserRow, UpdateUnacknowledged, UpdateRejected, Fails,
         Block, Tick
<1>. QED
  BY <1>1, <1>2, <1>3

\* Rows of users change only through UpdateUser with a token of their user, and
\* only in the columns that were named.
THEOREM OwnersChange == Spec => OnlyOwnersChange
BY Invariance, StepOwner, PTL DEF Spec, OnlyOwnersChange

-------------------------------------------------------------------------------
(* Refinement of Access.                                                     *)

\* Those whom somebody can act as: may, in the refinement.
MayAct == {u \in Users : \E t \in issued : t.username = u /\ Valid(t)}

\* At first nobody can act.
LEMMA RefineInit == Init => A!Init
BY DEF Init, A!Init, A!Epoch

\* A renewal gives access no later than its session ends.
LEMMA RefineStep == IInv /\ [Next]_vars => [A!Next]_(A!vars)
<1> SUFFICES ASSUME IInv, [Next]_vars PROVE A!Next \/ UNCHANGED A!vars
  BY DEF A!vars
<1>1. UNCHANGED <<now, proved, MayAct>> => UNCHANGED A!vars
  BY DEF A!vars, MayAct
<1>2. CASE UNCHANGED <<now, issued, proved>>
  <2>1. UNCHANGED MayAct
    BY <1>2 DEF MayAct, Valid
  <2>. QED
    BY <1>1, <1>2, <2>1
<1>3. ASSUME NEW c \in Calls, CheckPassword(c) PROVE A!Next
  <2>1. call[c] \in TokensCall
    BY <1>3, LocalsAre DEF CheckPassword, IInv, TypeOK
  <2>2. call[c].username \in Users
    BY <2>1 DEF TokensCall
  <2>3. A!Prove(call[c].username)
    BY <1>3 DEF CheckPassword, CreateTokens, A!Prove, Valid
  <2>. QED
    BY <2>2, <2>3 DEF A!Next
<1>4. ASSUME NEW c \in Calls, CreateSession(c)
      PROVE  A!Next \/ UNCHANGED A!vars
  <2> DEFINE u == call[c].username
  <2>1. call[c] \in InsertCall /\ InsertOK(c)
    BY <1>4, LocalsAre DEF CreateSession, IInv, TypeOK, CallsOK, CallOK
  <2>2. /\ u \in Users /\ proved[u] \in Nat /\ now \in Nat
        /\ call[c].access.expired_at \in Nat /\ call[c].refresh.expired_at \in Nat
    BY <2>1 DEF InsertCall, Token, Time, IInv, TypeOK
  <2>3. /\ issued' = issued \cup {call[c].access, call[c].refresh}
        /\ UNCHANGED <<now, proved>>
        /\ call[c].access.username = u /\ call[c].refresh.username = u
    BY <1>4, <2>1 DEF CreateSession, InsertOK
  <2>4. CASE Valid(call[c].access) \/ Valid(call[c].refresh)
    <3>1. MayAct' = MayAct \cup {u}
      BY <2>2, <2>3, <2>4 DEF MayAct, Valid
    <3>2. A!InTime(u, now)
      BY <2>1, <2>2, <2>4, DurationsAssumption
         DEF A!InTime, A!Epoch, InsertOK, Valid, DurationsAssumption, Longest
    <3>. QED
      BY <2>2, <2>3, <3>1, <3>2 DEF A!Next, A!Grant, MayAct
  <2>5. CASE ~Valid(call[c].access) /\ ~Valid(call[c].refresh)
    <3>1. MayAct' = MayAct
      BY <2>2, <2>3, <2>5 DEF MayAct, Valid
    <3>. QED
      BY <2>3, <3>1, <1>1
  <2>. QED
    BY <2>4, <2>5
<1>5. ASSUME NEW c \in Calls, Renew(c) PROVE A!Next
  <2> DEFINE t == call[c].token
             access == NewPayload(minted + 1, t.username, AccessTokenDuration)
  <2>1. /\ t \in issued /\ proved[t.username] # 0
        /\ now <= proved[t.username] + RefreshTokenDuration + Rounding
    BY <1>5, RenewableMeans DEF Renew
  <2>2. t.username \in Users /\ now \in Nat /\ proved[t.username] \in Nat
    BY <2>1 DEF IInv, TypeOK, Token, Time
  <2>3. access.username = t.username /\ ~(now > access.expired_at)
    BY <2>2, DurationsAssumption DEF NewPayload, DurationsAssumption
  <2>4. issued' = issued \cup {access} /\ UNCHANGED <<now, proved>>
    BY <1>5 DEF Renew
  <2> HIDE DEF access
  <2>5. MayAct' = MayAct \cup {t.username}
    BY <2>2, <2>3, <2>4 DEF MayAct, Valid
  <2>6. A!InTime(t.username, now)
    BY <2>1, <2>2, DurationsAssumption
       DEF A!InTime, A!Epoch, Longest, DurationsAssumption
  <2>. QED
    BY <2>2, <2>4, <2>5, <2>6 DEF A!Next, A!Grant, MayAct
<1>6. CASE Tick
  <2>1. now \in Nat /\ now' = now + 1 /\ UNCHANGED <<issued, proved>>
    BY <1>6 DEF Tick, IInv, TypeOK, Time
  <2>2. MayAct' \subseteq MayAct
    BY <2>1 DEF MayAct, Valid, IInv, TypeOK, Token, Time
  <2>3. ASSUME NEW u \in MayAct' PROVE A!InTime(u, now')
    <3>1. PICK t \in issued : t.username = u /\ ~(now' > t.expired_at)
      BY <2>1, <2>3 DEF MayAct, Valid
    <3>2. /\ proved[u] # 0
          /\ t.expired_at <= proved[u] + Longest
          /\ t.expired_at \in Nat /\ proved[u] \in Nat
      BY <3>1 DEF IInv, TypeOK, IssuedOK, Token, Time
    <3>. QED
      BY <2>1, <3>1, <3>2, DurationsAssumption
         DEF A!InTime, A!Epoch, DurationsAssumption, Longest
  <2>. QED
    BY <2>1, <2>2, <2>3 DEF A!Next, A!Tick, MayAct
<1>7. \/ UNCHANGED <<now, issued, proved>>
      \/ \E c \in Calls : CheckPassword(c) \/ CreateSession(c) \/ Renew(c)
      \/ Tick
  BY DEF vars, Next, Request, LoginUser, ReNewAccessToken, UpdateUser, Handler,
         GetUser, UserNotFound, WrongPassword, CreateSessionFails, GetSession,
         NoSession, RenewalRefused, HashPassword, UpdateUserRow,
         UpdateUnacknowledged, UpdateRow, UpdateRejected, Fails, Block
<1>. QED
  BY <1>2, <1>3, <1>4, <1>5, <1>6, <1>7

\* Nobody can act as a user without that user's password, nor longer after it
\* was checked than a refresh token and an access token last.
THEOREM Refinement == Spec => ImplementsAccess
BY Invariance, RefineInit, RefineStep, PTL DEF Spec, ImplementsAccess, A!Spec

\* At any moment, whoever holds a valid token of a user came by it after that
\* user's password was checked, and within Longest of that check: no
\* chain of renewals carries access further (token.go 21-75).
THEOREM AccessIsEarned ==
  Spec => [](\A t \in issued :
               Valid(t) => /\ proved[t.username] # 0
                           /\ now <= proved[t.username] + Longest)
<1>1. ASSUME IInv, NEW t \in issued, Valid(t)
      PROVE  /\ proved[t.username] # 0
             /\ now <= proved[t.username] + Longest
  <2>1. /\ proved[t.username] # 0
        /\ t.expired_at <= proved[t.username] + Longest
        /\ t.expired_at \in Nat /\ proved[t.username] \in Nat /\ now \in Nat
    BY <1>1 DEF IInv, TypeOK, IssuedOK, Token, Time
  <2> QED
    BY <1>1, <2>1, DurationsAssumption DEF Valid, DurationsAssumption, Longest
<1>2. IInv => \A t \in issued :
                Valid(t) => /\ proved[t.username] # 0
                            /\ now <= proved[t.username] + Longest
  BY <1>1
<1> QED
  BY <1>2, Invariance, PTL
================================================================================
