---------------------------- MODULE SystemAccounts ----------------------------
(***************************************************************************)
(* The system accounts (kiosks) of one organization:                        *)
(* src/src/system/system.service.ts, the limit on their number set in       *)
(* src/src/organization/organization.service.ts, and the guard that admits  *)
(* their requests, src/src/guard/auth.guard.ts.                             *)
(*                                                                         *)
(* Handlers are modelled as in Visits.  A handler that only reads whether   *)
(* a row exists before one write that checks it again is a single step.     *)
(* Left out: secret codes, passwords and the values of refresh tokens.      *)
(***************************************************************************)
EXTENDS Integers, FiniteSets

CONSTANTS
  Handlers,     \* requests the server may be serving at once
  AccountIds,   \* the uuids account rows may get
  SessionIds,   \* the uuids sessions may get, each with its refresh token's row
  MaxLimit,     \* highest account limit the root user sets
  MaxCodes,     \* bound on the one-time passwords sent
  Null

ASSUME HandlerAssumption == IsFiniteSet(Handlers) /\ Handlers # {}
ASSUME AccountAssumption == IsFiniteSet(AccountIds)
ASSUME LimitAssumption   == MaxLimit \in Nat \ {0} /\ MaxCodes \in Nat
ASSUME NullAssumption    == Null \notin AccountIds \cup SessionIds \cup Nat

VARIABLES
  account,    \* table SystemCredential; uuids not used yet included
  refresh,    \* table RefreshToken
  limit,      \* accountLimit of the organization, Null once it is deleted
  otp,        \* table ResetTokenSystem, one row at most for an account
  codes,      \* one-time passwords sent so far
  resets,     \* resets reported successful, by the one-time password used
  issued,     \* access tokens handed out
  req         \* requests in flight

vars == <<account, refresh, limit, otp, codes, resets, issued, req>>
-----------------------------------------------------------------------------
(* Rows, tokens and requests *)

Codes  == 1..MaxCodes
Limits == 1..MaxLimit

WithoutSession(status) == [status |-> status, session |-> Null]

AccountRow == [status : {"unused", "LoggedOut", "deleted"}, session : {Null}]
              \cup [status : {"LoggedIn"}, session : SessionIds]

TokenRow == [row : {"unused", "deleted"}, account : {Null}]
            \cup [row : {"stored"}, account : AccountIds]

\* A row is known by the code it was created with.
OtpRow == [row : Codes, code : Codes]

AccessToken == [account : AccountIds, session : SessionIds \cup {Null}]

Labels == {"idle", "countAccounts", "createAccount", "setLimit",
           "createToken", "login", "rotate",
           "logout", "dropTokens", "dropTokensOfAll", "logoutAll",
           "setPassword", "deleteOtp"}

Request == [pc       : Labels,
            account  : AccountIds \cup {Null},
            session  : SessionIds \cup {Null},
            limit    : Limits \cup {0},
            otp      : OtpRow \cup {Null},
            accounts : SUBSET AccountIds]

Idle == [pc |-> "idle", account |-> Null, session |-> Null, limit |-> 0,
         otp |-> Null, accounts |-> {}]

\* What a request needs for the calls it is still to make.
RequestOK(r) ==
  /\ r.pc \in {"countAccounts", "setLimit"} => r.limit \in Limits
  /\ r.pc \in {"createToken", "login", "rotate", "logout", "dropTokens",
              "setPassword", "deleteOtp"} => r.account \in AccountIds
  /\ r.pc \in {"login", "rotate"} => r.session \in SessionIds
  /\ r.pc \in {"setPassword", "deleteOtp"} => r.otp \in OtpRow

Existing         == {a \in AccountIds : account[a].status \in {"LoggedOut", "LoggedIn"}}
Active           == {a \in AccountIds : account[a].status = "LoggedIn"}
At(h, label)     == req[h].pc = label
Reply(h)         == req' = [req EXCEPT ![h] = Idle]
GoOn(h, label)   == req' = [req EXCEPT ![h] = [@ EXCEPT !.pc = label]]
Take(h, r)       == At(h, "idle") /\ req' = [req EXCEPT ![h] = r]
DropTokens(as)   == [s \in SessionIds |->
                       IF refresh[s].row = "stored" /\ refresh[s].account \in as
                       THEN [row |-> "deleted", account |-> Null]
                       ELSE refresh[s]]

Init ==
  /\ account = [a \in AccountIds |-> WithoutSession("unused")]
  /\ refresh = [s \in SessionIds |-> [row |-> "unused", account |-> Null]]
  /\ limit \in Limits
  /\ otp     = [a \in AccountIds |-> Null]
  /\ codes   = 0
  /\ resets  = [c \in Codes |-> 0]
  /\ issued  = {}
  /\ req     = [h \in Handlers |-> Idle]
-----------------------------------------------------------------------------
(* AuthGuard: an access token names the account and, when it was issued by a *)
(* login, the session                                                        *)

AcceptsAnySession(t) ==   \* mutant: the sessions are not compared
  account[t.account].status = "LoggedIn"

Accepts(t) ==
  /\ account[t.account].status = "LoggedIn"
  /\ account[t.account].session # Null
  /\ t.session # Null
  /\ account[t.account].session = t.session
-----------------------------------------------------------------------------
(* registerSystemUser, and the limit in editOrganizationDetails *)

RegisterReadLimit(h) ==
  /\ limit # Null
  /\ Take(h, [Idle EXCEPT !.pc = "countAccounts", !.limit = limit])
  /\ UNCHANGED <<account, refresh, limit, otp, codes, resets, issued>>

LimitPassed(l)  == Cardinality(Existing) > l   \* mutant: one account too many
LimitReached(l) == Cardinality(Existing) >= l

RegisterCount(h) ==
  /\ At(h, "countAccounts")
  /\ \/ LimitReached(req[h].limit) /\ Reply(h)
     \/ ~LimitReached(req[h].limit) /\ GoOn(h, "createAccount")
  /\ UNCHANGED <<account, refresh, limit, otp, codes, resets, issued>>

\* The organization may be gone, or the e-mail address taken: see Abort.
RegisterCreate(h) ==
  /\ At(h, "createAccount")
  /\ limit # Null
  /\ \E a \in AccountIds :
       /\ account[a].status = "unused"
       /\ account' = [account EXCEPT ![a] = WithoutSession("LoggedOut")]
  /\ Reply(h)
  /\ UNCHANGED <<refresh, limit, otp, codes, resets, issued>>

EditLimitCount(h) ==
  /\ limit # Null
  /\ \E l \in Limits :
       /\ ~(Cardinality(Existing) > l)
       /\ Take(h, [Idle EXCEPT !.pc = "setLimit", !.limit = l])
  /\ UNCHANGED <<account, refresh, limit, otp, codes, resets, issued>>

EditLimit(h) ==
  /\ At(h, "setLimit")
  /\ limit # Null
  /\ limit' = req[h].limit
  /\ Reply(h)
  /\ UNCHANGED <<account, refresh, otp, codes, resets, issued>>
-----------------------------------------------------------------------------
(* loginSystemUser: read; store a refresh token; log in, answer the tokens *)

LoginRead(h) ==
  /\ \E a \in Existing \ Active : Take(h, [Idle EXCEPT !.pc = "createToken", !.account = a])
  /\ UNCHANGED <<account, refresh, limit, otp, codes, resets, issued>>

LoginCreateToken(h) ==
  /\ At(h, "createToken")
  /\ req[h].account \in Existing
  /\ \E s \in SessionIds :
       /\ refresh[s].row = "unused"
       /\ refresh' = [refresh EXCEPT ![s] = [row |-> "stored", account |-> req[h].account]]
       /\ req' = [req EXCEPT ![h] = [@ EXCEPT !.pc = "login", !.session = s]]
  /\ UNCHANGED <<account, limit, otp, codes, resets, issued>>

Login(h) ==
  /\ At(h, "login")
  /\ req[h].account \in Existing
  /\ account' = [account EXCEPT ![req[h].account] =
                               [status |-> "LoggedIn", session |-> req[h].session]]
  /\ issued' = issued \cup {[account |-> req[h].account, session |-> req[h].session]}
  /\ Reply(h)
  /\ UNCHANGED <<refresh, limit, otp, codes, resets>>

\* refreshSystemAccessToken, with the token that a login has answered: the new
\* access token has no session.
RefreshRead(h) ==
  /\ \E s \in SessionIds :
       /\ refresh[s].row = "stored"
       /\ [account |-> refresh[s].account, session |-> s] \in issued
       /\ Take(h, [Idle EXCEPT !.pc = "rotate", !.session = s, !.account = refresh[s].account])
  /\ UNCHANGED <<account, refresh, limit, otp, codes, resets, issued>>

RefreshRotate(h) ==
  /\ At(h, "rotate")
  /\ refresh[req[h].session].row = "stored"
  /\ issued' = issued \cup {[account |-> req[h].account, session |-> Null]}
  /\ Reply(h)
  /\ UNCHANGED <<account, refresh, limit, otp, codes, resets>>
-----------------------------------------------------------------------------
(* Logging out: by the kiosk, by the SuperAdmin, and of all accounts *)

StatusOut(row) == [row EXCEPT !.status = "LoggedOut"]   \* mutant: keeps the session
SignedOut(row) == WithoutSession("LoggedOut")

LogoutRead(h) ==
  /\ \E t \in issued :
       /\ Accepts(t)
       /\ Take(h, [Idle EXCEPT !.pc = "logout", !.account = t.account])
  /\ UNCHANGED <<account, refresh, limit, otp, codes, resets, issued>>

Logout(h) ==
  /\ At(h, "logout")
  /\ req[h].account \in Existing
  /\ account' = [account EXCEPT ![req[h].account] = SignedOut(@)]
  /\ GoOn(h, "dropTokens")
  /\ UNCHANGED <<refresh, limit, otp, codes, resets, issued>>

LogoutDropTokens(h) ==
  /\ At(h, "dropTokens")
  /\ refresh' = DropTokens({req[h].account})
  /\ Reply(h)
  /\ UNCHANGED <<account, limit, otp, codes, resets, issued>>

\* logoutSystemAccountWeb leaves the refresh tokens.  Its update is the only
\* write; on an account that is logged out by then it changes nothing.
LogoutWeb ==
  /\ \E a \in Active : account' = [account EXCEPT ![a] = SignedOut(@)]
  /\ UNCHANGED <<refresh, limit, otp, codes, resets, issued, req>>

LogoutAllRead(h) ==
  /\ limit # Null
  /\ Active # {}
  /\ Take(h, [Idle EXCEPT !.pc = "dropTokensOfAll", !.accounts = Active])
  /\ UNCHANGED <<account, refresh, limit, otp, codes, resets, issued>>

LogoutAllDropTokens(h) ==
  /\ At(h, "dropTokensOfAll")
  /\ refresh' = DropTokens(req[h].accounts)
  /\ GoOn(h, "logoutAll")
  /\ UNCHANGED <<account, limit, otp, codes, resets, issued>>

LogoutAll(h) ==
  /\ At(h, "logoutAll")
  /\ account' = [a \in AccountIds |-> IF a \in Active THEN SignedOut(account[a])
                                                    ELSE account[a]]
  /\ Reply(h)
  /\ UNCHANGED <<refresh, limit, otp, codes, resets, issued>>
-----------------------------------------------------------------------------
(* forgotPassword and resetPassword *)

\* The upsert keeps the row of the account when there is one.  When the mail
\* with the code is lost, no reset follows.
ForgotPassword ==
  /\ codes < MaxCodes
  /\ codes' = codes + 1
  /\ \E a \in Existing :
       otp' = [otp EXCEPT ![a] =
                 [row |-> IF @ = Null THEN codes + 1 ELSE @.row, code |-> codes + 1]]
  /\ UNCHANGED <<account, refresh, limit, resets, issued, req>>

\* The request carries the code that is stored.
ResetRead(h) ==
  /\ \E a \in Existing :
       /\ otp[a] # Null
       /\ Take(h, [Idle EXCEPT !.pc = "setPassword", !.account = a, !.otp = otp[a]])
  /\ UNCHANGED <<account, refresh, limit, otp, codes, resets, issued>>

ResetPassword(h) ==
  /\ At(h, "setPassword")
  /\ req[h].account \in Existing
  /\ GoOn(h, "deleteOtp")
  /\ UNCHANGED <<account, refresh, limit, otp, codes, resets, issued>>

AnyOtp(a, row)   == a \in Existing   \* mutant: deletes by account, if there is a row
StoredOtp(a, row) == otp[a] # Null /\ otp[a].row = row

\* The row is deleted by its id; when it is gone the request fails.
ResetDeleteOtp(h) ==
  /\ At(h, "deleteOtp")
  /\ LET a == req[h].account IN
       /\ StoredOtp(a, req[h].otp.row)
       /\ otp' = [otp EXCEPT ![a] = Null]
  /\ resets' = [resets EXCEPT ![req[h].otp.code] = @ + 1]
  /\ Reply(h)
  /\ UNCHANGED <<account, refresh, limit, codes, issued>>
-----------------------------------------------------------------------------
(* Deletions and failures *)

Remove(as) ==
  /\ account' = [a \in AccountIds |-> IF a \in as THEN WithoutSession("deleted")
                                                ELSE account[a]]
  /\ refresh' = DropTokens(as)
  /\ otp' = [a \in AccountIds |-> IF a \in as THEN Null ELSE otp[a]]
  /\ UNCHANGED <<codes, resets, issued, req>>

DeleteAccount == \E a \in Existing : Remove({a}) /\ UNCHANGED limit

DeleteOrganization == limit # Null /\ limit' = Null /\ Remove(Existing)

\* A call fails, on a row or a constraint that is not met or for any other
\* reason, or the server stops: what was written stays.
Abort(h) ==
  /\ ~At(h, "idle")
  /\ Reply(h)
  /\ UNCHANGED <<account, refresh, limit, otp, codes, resets, issued>>

Step(h) == \/ RegisterReadLimit(h) \/ RegisterCount(h) \/ RegisterCreate(h)
           \/ EditLimitCount(h) \/ EditLimit(h)
           \/ LoginRead(h) \/ LoginCreateToken(h) \/ Login(h)
           \/ RefreshRead(h) \/ RefreshRotate(h)
           \/ LogoutRead(h) \/ Logout(h) \/ LogoutDropTokens(h)
           \/ LogoutAllRead(h) \/ LogoutAllDropTokens(h) \/ LogoutAll(h)
           \/ ResetRead(h) \/ ResetPassword(h) \/ ResetDeleteOtp(h)
           \/ Abort(h)

Next == \/ \E h \in Handlers : Step(h)
        \/ LogoutWeb \/ ForgotPassword \/ DeleteAccount \/ DeleteOrganization

Spec == Init /\ [][Next]_vars
-----------------------------------------------------------------------------
(* Properties *)

\* Rows and requests have their types; in particular an account is logged in
\* exactly when it has a session, and no handler reaches a statement without
\* the ids it passes.
TypeOK ==
  /\ account \in [AccountIds -> AccountRow]
  /\ refresh \in [SessionIds -> TokenRow]
  /\ limit \in Limits \cup {Null}
  /\ otp \in [AccountIds -> OtpRow \cup {Null}]
  /\ codes \in 0..MaxCodes
  /\ resets \in [Codes -> Nat]
  /\ issued \subseteq AccessToken
  /\ req \in [Handlers -> Request]
  /\ \A h \in Handlers : RequestOK(req[h])

\* "Maximum number of system account limit have been exceeded.": registrations
\* that count at the same time, and a limit lowered meanwhile, exceed the
\* highest limit by no more than the other requests being served.
AccountsBounded == Cardinality(Existing) < MaxLimit + Cardinality(Handlers)

\* An access token the guard refuses, because its account was logged out by
\* anyone or logged in elsewhere, is refused for good: no later login, however
\* it races with a logout or another login, brings it back.
RefusedForGood == [][\A t \in issued : Accepts(t)' => Accepts(t)]_vars

\* At most one request is told that it reset the password with a given one-time
\* password, although the code is checked before and deleted after the update,
\* and a new one may be stored in the same row in between.  Requests that race may
\* all write their password; the others are answered with an error.
OtpSucceedsOnce == \A c \in Codes : resets[c] <= 1

\* "New access token issued.": the guard accepts an access token got by a
\* refresh as long as the account is logged in.
RefreshedTokenAccepted ==
  \A t \in issued : t.session = Null /\ t.account \in Active => Accepts(t)
-----------------------------------------------------------------------------
(* Their inductive strengthening *)

Registering   == {h \in Handlers : At(h, "createAccount")}
Resetting     == {h \in Handlers : req[h].pc \in {"setPassword", "deleteOtp"}}
HasOtp        == {a \in AccountIds : otp[a] # Null}

\* Registrations past the check count as accounts.
RegistrationsBounded ==
  Cardinality(Existing) + Cardinality(Registering) < MaxLimit + Cardinality(Handlers)

\* The session of a login that is not finished was given to nobody else.
SessionsFresh ==
  /\ \A t \in issued : t.session # Null => refresh[t.session].row # "unused"
  /\ \A h \in Handlers : At(h, "login") =>
       /\ refresh[req[h].session].row # "unused"
       /\ \A t \in issued : t.session # req[h].session
       /\ \A g \in Handlers : At(g, "login") /\ req[g].session = req[h].session => g = h

\* A code was stored in one row, and has reset nothing while that row is stored.
OtpsUnspent ==
  /\ \A c \in Codes : resets[c] <= 1 /\ (c > codes => resets[c] = 0)
  /\ \A a \in HasOtp : /\ otp[a].row <= codes /\ otp[a].code <= codes
                       /\ resets[otp[a].code] = 0
                       /\ \A b \in HasOtp : \/ otp[a].row = otp[b].row
                                            \/ otp[a].code = otp[b].code
                                            => a = b
  /\ \A h \in Resetting :
       LET o == req[h].otp IN
       /\ o.row <= codes /\ o.code <= codes
       /\ \A a \in HasOtp : /\ otp[a].row = o.row => a = req[h].account /\ resets[o.code] = 0
                            /\ otp[a].code = o.code => otp[a].row = o.row
       /\ \A g \in Resetting : req[g].otp.code = o.code => req[g].otp.row = o.row

IInv == TypeOK /\ RegistrationsBounded /\ SessionsFresh /\ OtpsUnspent
=============================================================================
