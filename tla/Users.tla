-------------------------------- MODULE Users --------------------------------
(***************************************************************************)
(* The credentials of people, and their logins: src/src/auth/auth.service.ts*)
(* with what src/src/staff/staff.service.ts does to a credential.           *)
(*                                                                         *)
(* Handlers are modelled as in Visits.  A handler that only reads whether   *)
(* rows exist before one write that checks them again is a single step; so  *)
(* is a read of the status, which may change right after it.  A client      *)
(* sends the password, the code or the refresh token that is stored when    *)
(* its request reads it: others are refused at that read.  Left out: access *)
(* tokens, which are signed and kept nowhere, and the expiry of refresh     *)
(* tokens.                                                                  *)
(***************************************************************************)
EXTENDS Integers, FiniteSets

CONSTANTS
  Handlers,     \* requests the server may be serving at once
  UserIds,      \* the uuids credentials may get
  SessionIds,   \* the uuids rows of RefreshToken may get
  Words,        \* passwords: people may choose the one they were mailed
  MaxTokens,    \* bound on the refresh tokens handed out
  MaxCodes,     \* bound on the one-time passwords sent
  Null

ASSUME HandlerAssumption == IsFiniteSet(Handlers) /\ Handlers # {}
ASSUME UserAssumption    == IsFiniteSet(UserIds)
ASSUME BoundAssumption   == MaxTokens \in Nat /\ MaxCodes \in Nat
ASSUME NullAssumption    == Null \notin UserIds \cup SessionIds \cup Words \cup Nat

VARIABLES
  user,       \* table UserCredential; uuids not used yet included
  session,    \* table RefreshToken
  tokens,     \* refresh tokens generated so far
  rotated,    \* history: refreshes answered, by the token they were asked with
  otp,        \* table ResetToken, one row at most for a user
  codes,      \* one-time passwords sent so far
  req         \* requests in flight

vars == <<user, session, tokens, rotated, otp, codes, req>>
-----------------------------------------------------------------------------
(* Rows and requests *)

Tokens == 1..MaxTokens
Codes  == 1..MaxCodes

\* A salted hash of a password; history: whether its user sent the password, or the
\* service of staff made it up and mailed it.
Hash      == [word : Words, by : {"user", "staff"}]
Own(p)    == [word |-> p, by |-> "user"]
Mailed(p) == [word |-> p, by |-> "staff"]

NoUser(row) == [row |-> row, root |-> FALSE, active |-> FALSE, first |-> FALSE,
                password |-> Null]

UserRow == {NoUser("unused"), NoUser("deleted")}
           \cup [row : {"stored"}, root : BOOLEAN, active : BOOLEAN, first : BOOLEAN,
                 password : Hash]

NoSession(row) == [row |-> row, user |-> Null, token |-> Null]

SessionRow == {NoSession("unused"), NoSession("deleted")}
              \cup [row : {"stored"}, user : UserIds, token : Tokens]

\* A row is known by the code it was created with.
OtpRow == [row : Codes, code : Codes]

Labels == {"idle", "createRoot",
           "firstPassword", "clearFlag", "readAgain", "createToken",
           "rotate", "setPassword", "deleteOtp"}

Request == [pc       : Labels,
            user     : UserIds \cup {Null},
            password : Words \cup {Null},
            session  : SessionIds \cup {Null},
            token    : Tokens \cup {Null},
            otp      : OtpRow \cup {Null}]

Idle == [pc |-> "idle", user |-> Null, password |-> Null, session |-> Null,
         token |-> Null, otp |-> Null]

\* What a request needs for the calls it is still to make.
RequestOK(r) ==
  /\ r.pc \notin {"idle", "createRoot"} => r.user \in UserIds
  /\ r.pc \in {"firstPassword", "clearFlag", "readAgain", "setPassword"}
       => r.password \in Words
  /\ r.pc = "rotate" => r.session \in SessionIds /\ r.token \in Tokens
  /\ r.pc \in {"setPassword", "deleteOtp"} => r.otp \in OtpRow

Stored         == {u \in UserIds : user[u].row = "stored"}
Active         == {u \in Stored : user[u].active}
Roots          == {u \in Stored : user[u].root}
Unused         == {u \in UserIds : user[u].row = "unused"}
Sessions       == {s \in SessionIds : session[s].row = "stored"}
At(h, label)   == req[h].pc = label
Take(h, r)     == At(h, "idle") /\ req' = [req EXCEPT ![h] = r]
GoOn(h, label) == req' = [req EXCEPT ![h] = [@ EXCEPT !.pc = label]]
Reply(h)       == req' = [req EXCEPT ![h] = Idle]

SetPassword(u, p) == [user EXCEPT ![u] = [@ EXCEPT !.password = Own(p)]]

Init ==
  /\ user    = [u \in UserIds |-> NoUser("unused")]
  /\ session = [s \in SessionIds |-> NoSession("unused")]
  /\ tokens  = 0
  /\ rotated = [t \in Tokens |-> 0]
  /\ otp     = [u \in UserIds |-> Null]
  /\ codes   = 0
  /\ req     = [h \in Handlers |-> Idle]
-----------------------------------------------------------------------------
(* registerRootUser *)

EmailFree == Unused # {}                        \* mutant: no look for another root
NoRoot    == Roots = {}

RootRead(h) ==
  /\ NoRoot
  /\ Take(h, [Idle EXCEPT !.pc = "createRoot"])
  /\ UNCHANGED <<user, session, tokens, rotated, otp, codes>>

RootCreate(h) ==
  /\ At(h, "createRoot")
  /\ \E u \in Unused, p \in Words :
       user' = [user EXCEPT ![u] = [row |-> "stored", root |-> TRUE, active |-> TRUE,
                                    first |-> FALSE, password |-> Own(p)]]
  /\ Reply(h)
  /\ UNCHANGED <<session, tokens, rotated, otp, codes>>
-----------------------------------------------------------------------------
(* loginUser: on the first login the password is changed, the flag cleared   *)
(* and the row read again; every login stores a refresh token                *)

LoginRead(h) ==
  /\ \E u \in Stored :
       \/ /\ user[u].first
          /\ \E p \in Words :
               Take(h, [Idle EXCEPT !.pc = "firstPassword", !.user = u, !.password = p])
       \/ /\ ~user[u].first
          /\ user[u].active
          /\ Take(h, [Idle EXCEPT !.pc = "createToken", !.user = u])
  /\ UNCHANGED <<user, session, tokens, rotated, otp, codes>>

FlagCleared(row, p) == [row EXCEPT !.first = FALSE]   \* mutant: the flag is cleared first
FirstChange(row, p) == [row EXCEPT !.password = Own(p)]

LoginFirstPassword(h) ==
  /\ At(h, "firstPassword")
  /\ LET u == req[h].user IN
       /\ u \in Stored
       /\ user' = [user EXCEPT ![u] = FirstChange(@, req[h].password)]
  /\ GoOn(h, "clearFlag")
  /\ UNCHANGED <<session, tokens, rotated, otp, codes>>

LoginClearFlag(h) ==
  /\ At(h, "clearFlag")
  /\ req[h].user \in Stored
  /\ user' = [user EXCEPT ![req[h].user] = [@ EXCEPT !.first = FALSE]]
  /\ GoOn(h, "readAgain")
  /\ UNCHANGED <<session, tokens, rotated, otp, codes>>

LoginReadAgain(h) ==
  /\ At(h, "readAgain")
  /\ req[h].user \in Active
  /\ user[req[h].user].password.word = req[h].password
  /\ GoOn(h, "createToken")
  /\ UNCHANGED <<user, session, tokens, rotated, otp, codes>>

LoginCreateToken(h) ==
  /\ At(h, "createToken")
  /\ req[h].user \in Stored
  /\ tokens < MaxTokens
  /\ tokens' = tokens + 1
  /\ \E s \in SessionIds :
       /\ session[s].row = "unused"
       /\ session' = [session EXCEPT ![s] = [row |-> "stored", user |-> req[h].user,
                                             token |-> tokens + 1]]
  /\ Reply(h)
  /\ UNCHANGED <<user, rotated, otp, codes>>
-----------------------------------------------------------------------------
(* refreshAccessToken, and logout *)

\* Whether the account is active is not asked.
RefreshRead(h) ==
  /\ \E s \in Sessions :
       Take(h, [Idle EXCEPT !.pc = "rotate", !.session = s, !.user = session[s].user,
                            !.token = session[s].token])
  /\ UNCHANGED <<user, session, tokens, rotated, otp, codes>>

AnyRow(s)     == session[s].row # "unused"            \* mutant: an upsert
StoredRow(s)  == s \in Sessions

SameToken(r)  == [row |-> "stored", user |-> r.user, token |-> r.token]   \* mutant: no rotation
NewToken(r)   == [row |-> "stored", user |-> r.user, token |-> tokens + 1]

\* The row is updated by its id, whatever token it has by then.
RefreshRotate(h) ==
  /\ At(h, "rotate")
  /\ StoredRow(req[h].session)
  /\ tokens < MaxTokens
  /\ tokens' = tokens + 1
  /\ session' = [session EXCEPT ![req[h].session] = NewToken(req[h])]
  /\ rotated' = [rotated EXCEPT ![req[h].token] = @ + 1]
  /\ Reply(h)
  /\ UNCHANGED <<user, otp, codes>>

Logout ==
  /\ \E u \in Stored :
       session' = [s \in SessionIds |-> IF session[s].user = u THEN NoSession("deleted")
                                                               ELSE session[s]]
  /\ UNCHANGED <<user, tokens, rotated, otp, codes, req>>
-----------------------------------------------------------------------------
(* forgotPassword, resetPassword and changeOldPassword *)

\* The upsert keeps the row of the user when there is one.  When the mail with
\* the code is lost, no reset follows.
ForgotPassword ==
  /\ codes < MaxCodes
  /\ codes' = codes + 1
  /\ \E u \in Active :
       otp' = [otp EXCEPT ![u] =
                 [row |-> IF @ = Null THEN codes + 1 ELSE @.row, code |-> codes + 1]]
  /\ UNCHANGED <<user, session, tokens, rotated, req>>

ResetRead(h) ==
  /\ \E u \in Active, p \in Words :
       /\ otp[u] # Null
       /\ Take(h, [Idle EXCEPT !.pc = "setPassword", !.user = u, !.password = p,
                               !.otp = otp[u]])
  /\ UNCHANGED <<user, session, tokens, rotated, otp, codes>>

ResetPassword(h) ==
  /\ At(h, "setPassword")
  /\ req[h].user \in Stored
  /\ user' = SetPassword(req[h].user, req[h].password)
  /\ GoOn(h, "deleteOtp")
  /\ UNCHANGED <<session, tokens, rotated, otp, codes>>

StoredOtp(u, row) == otp[u] # Null /\ otp[u].row = row

\* The row is deleted by its id; when it is gone the request fails.
ResetDeleteOtp(h) ==
  /\ At(h, "deleteOtp")
  /\ LET u == req[h].user IN
       /\ StoredOtp(u, req[h].otp.row)
       /\ otp' = [otp EXCEPT ![u] = Null]
  /\ Reply(h)
  /\ UNCHANGED <<user, session, tokens, rotated, codes>>

ChangeOldPassword ==
  /\ \E u \in Stored, p \in Words : user' = SetPassword(u, p)
  /\ UNCHANGED <<session, tokens, rotated, otp, codes, req>>
-----------------------------------------------------------------------------
(* What the service of staff does to credentials; the root has no row there *)

AddUser ==
  /\ \E u \in Unused, p \in Words :
       user' = [user EXCEPT ![u] = [row |-> "stored", root |-> FALSE, active |-> TRUE,
                                    first |-> TRUE, password |-> Mailed(p)]]
  /\ UNCHANGED <<session, tokens, rotated, otp, codes, req>>

SetStatus ==
  /\ \E u \in Stored \ Roots : user' = [user EXCEPT ![u].active = ~@]
  /\ UNCHANGED <<session, tokens, rotated, otp, codes, req>>

Orphaned(row) == [row EXCEPT !.user = Null]     \* mutant: the relation is optional
Cascaded(row) == NoSession("deleted")

RemoveUser ==
  /\ \E u \in Stored \ Roots :
       /\ user' = [user EXCEPT ![u] = NoUser("deleted")]
       /\ session' = [s \in SessionIds |-> IF session[s].user = u THEN Cascaded(session[s])
                                                               ELSE session[s]]
       /\ otp' = [otp EXCEPT ![u] = Null]
  /\ UNCHANGED <<tokens, rotated, codes, req>>

\* A check refuses, a call fails, on a row or a constraint that is not met or
\* for any other reason, or the server stops: what was written stays.
Abort(h) ==
  /\ ~At(h, "idle")
  /\ Reply(h)
  /\ UNCHANGED <<user, session, tokens, rotated, otp, codes>>

Step(h) == \/ RootRead(h) \/ RootCreate(h)
           \/ LoginRead(h) \/ LoginFirstPassword(h) \/ LoginClearFlag(h)
           \/ LoginReadAgain(h) \/ LoginCreateToken(h)
           \/ RefreshRead(h) \/ RefreshRotate(h)
           \/ ResetRead(h) \/ ResetPassword(h) \/ ResetDeleteOtp(h)
           \/ Abort(h)

Next == \/ \E h \in Handlers : Step(h)
        \/ Logout \/ ForgotPassword \/ ChangeOldPassword
        \/ AddUser \/ SetStatus \/ RemoveUser

Spec == Init /\ [][Next]_vars
-----------------------------------------------------------------------------
(* Properties *)

\* Rows and requests have their types, and no handler reaches a statement
\* without the ids and values it passes; a stored session belongs to somebody.
TypeOK ==
  /\ user \in [UserIds -> UserRow]
  /\ session \in [SessionIds -> SessionRow]
  /\ tokens \in 0..MaxTokens
  /\ rotated \in [Tokens -> Nat]
  /\ otp \in [UserIds -> OtpRow \cup {Null}]
  /\ codes \in 0..MaxCodes
  /\ req \in [Handlers -> Request]
  /\ \A h \in Handlers : RequestOK(req[h])

\* "Root user already exists.": registrations that look at the same time store
\* no more roots than there were requests being served.
RootsBounded == Cardinality(Roots) <= Cardinality(Handlers)

\* A refresh token is answered with a new one by requests that read it before
\* the first of them replaced it, hence by no more than are served at once:
\* it is used up, although the row is updated by its id.
RefreshesBounded == \A t \in Tokens : rotated[t] <= Cardinality(Handlers)

\* A session ended by a logout or with its user is over: a refresh that read its
\* row before does not store it again.
SessionsEndForGood ==
  [][\A s \in SessionIds : session[s].row = "deleted" => session'[s].row = "deleted"]_vars

\* Whose first login is done has a hash of a password he sent, not the one that was
\* mailed to him, wherever a first login stops and whatever resets, changes and other
\* first logins it races with.  What he sent may be the mailed password again: no
\* handler compares the two.
FirstPasswordIsSent == \A u \in Stored : ~user[u].first => user[u].password.by = "user"

\* The inductive strengthening of these invariants.  A registration that found no
\* root is counted with the roots:
Creating == {h \in Handlers : At(h, "createRoot")}

RootsCounted ==
  Roots # {} => Cardinality(Roots) + Cardinality(Creating) <= Cardinality(Handlers)

\* a refresh that read a token is counted with those answered for it, and since no
\* two rows ever have one token, a token that was answered for is nobody's;
Rotating(t) == {h \in Handlers : At(h, "rotate") /\ req[h].token = t}

RefreshesCounted ==
  \A t \in Tokens : rotated[t] + Cardinality(Rotating(t)) <= Cardinality(Handlers)

TokensUnique ==
  /\ \A t \in Tokens : t > tokens => rotated[t] = 0
  /\ \A h \in Handlers : At(h, "rotate") => req[h].token <= tokens
  /\ \A s \in Sessions :
       /\ session[s].token <= tokens
       /\ rotated[session[s].token] = 0
       /\ \A x \in Sessions : session[x].token = session[s].token => x = s
       /\ \A h \in Handlers : At(h, "rotate") /\ req[h].token = session[s].token
                                => req[h].session = s

\* and a first login clears the flag of a user whose password it has written.
PasswordsSent ==
  \A h \in Handlers :
    At(h, "clearFlag") => LET row == user[req[h].user] IN
                            \/ row.row = "deleted"
                            \/ row.row = "stored" /\ row.password.by = "user"

IInv == /\ TypeOK
        /\ RootsCounted
        /\ RefreshesCounted
        /\ TokensUnique
        /\ FirstPasswordIsSent
        /\ PasswordsSent
=============================================================================
