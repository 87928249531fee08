------------------------ MODULE SystemAccountsProofs ------------------------
(* Theorems about SystemAccounts, for every value of its constants. *)
EXTENDS SystemAccounts, FiniteSetTheorems, TLAPS

\* The initial tables are typed.
LEMMA TypeInit == Init => TypeOK
<1> SUFFICES ASSUME Init PROVE TypeOK
  OBVIOUS
<1>1. Idle \in Request /\ RequestOK(Idle)
  BY DEF Idle, Request, Labels, RequestOK
<1>2. /\ account \in [AccountIds -> AccountRow] /\ refresh \in [SessionIds -> TokenRow]
      /\ codes \in 0..MaxCodes /\ resets \in [Codes -> Nat]
  BY LimitAssumption DEF Init, WithoutSession, AccountRow, TokenRow
<1> QED BY <1>1, <1>2 DEF Init, TypeOK

\* A handler that takes a request or moves on to a label keeps all requests
\* typed, when what the label needs is there.
LEMMA RequestStep ==
  ASSUME TypeOK, NEW h \in Handlers, NEW r \in Request, RequestOK(r),
         req' = [req EXCEPT ![h] = r]
  PROVE  req' \in [Handlers -> Request] /\ \A g \in Handlers : RequestOK(req'[g])
BY DEF TypeOK

\* So does one that replies.
LEMMA IdleStep ==
  ASSUME TypeOK, NEW h \in Handlers, Reply(h)
  PROVE  req' \in [Handlers -> Request] /\ \A g \in Handlers : RequestOK(req'[g])
<1>1. Idle \in Request /\ RequestOK(Idle)
  BY DEF Idle, Request, Labels, RequestOK
<1> QED BY <1>1, RequestStep DEF Reply

\* And one that moves on with what it carries.
LEMMA GoOnStep ==
  ASSUME TypeOK, NEW h \in Handlers, NEW label \in Labels, GoOn(h, label),
         RequestOK([req[h] EXCEPT !.pc = label])
  PROVE  req' \in [Handlers -> Request] /\ \A g \in Handlers : RequestOK(req'[g])
<1>1. [req[h] EXCEPT !.pc = label] \in Request
  BY DEF TypeOK, Request
<1>2. req' = [req EXCEPT ![h] = [req[h] EXCEPT !.pc = label]]
  BY DEF GoOn, TypeOK
<1> QED BY <1>1, <1>2, RequestStep

\* Dropping the refresh tokens of accounts leaves the table typed.
LEMMA DropTokensTyped ==
  ASSUME TypeOK, NEW as PROVE DropTokens(as) \in [SessionIds -> TokenRow]
BY DEF TypeOK, DropTokens, TokenRow

\* Every step keeps rows and requests typed.
LEMMA TypeStep == TypeOK /\ [Next]_vars => TypeOK'
<1> SUFFICES ASSUME TypeOK, [Next]_vars PROVE TypeOK'
  OBVIOUS
<1> DEFINE ReqOK == req' \in [Handlers -> Request] /\ \A g \in Handlers : RequestOK(req'[g])
           Tables == UNCHANGED <<account, refresh, limit, otp, codes, resets, issued>>
<1>o. \A row \in AccountRow : SignedOut(row) \in AccountRow
  BY DEF SignedOut, WithoutSession, AccountRow
<1>q. ASSUME ReqOK, Tables PROVE TypeOK'
  BY <1>q DEF TypeOK, RequestOK
<1>1. ASSUME NEW h \in Handlers, RegisterReadLimit(h) PROVE TypeOK'
  <2>1. [Idle EXCEPT !.pc = "countAccounts", !.limit = limit] \in Request
        /\ RequestOK([Idle EXCEPT !.pc = "countAccounts", !.limit = limit])
    BY <1>1 DEF RegisterReadLimit, Idle, Request, Labels, RequestOK, TypeOK
  <2> QED BY <1>1, <2>1, <1>q, RequestStep DEF RegisterReadLimit, Take
<1>2. ASSUME NEW h \in Handlers, RegisterCount(h) PROVE TypeOK'
  <2>1. CASE Reply(h)
    BY <1>2, <2>1, <1>q, IdleStep DEF RegisterCount
  <2>2. CASE GoOn(h, "createAccount")
    <3>1. RequestOK([req[h] EXCEPT !.pc = "createAccount"]) /\ "createAccount" \in Labels
      BY DEF TypeOK, Request, RequestOK, Labels
    <3> QED BY <1>2, <2>2, <3>1, <1>q, GoOnStep DEF RegisterCount
  <2> QED BY <1>2, <2>1, <2>2 DEF RegisterCount
<1>3. ASSUME NEW h \in Handlers, RegisterCreate(h) PROVE TypeOK'
  <2>1. ReqOK
    BY <1>3, IdleStep DEF RegisterCreate
  <2>2. account' \in [AccountIds -> AccountRow]
    BY <1>3 DEF RegisterCreate, TypeOK, WithoutSession, AccountRow
  <2> QED BY <1>3, <2>1, <2>2 DEF RegisterCreate, TypeOK, RequestOK
<1>4. ASSUME NEW h \in Handlers, EditLimitCount(h) PROVE TypeOK'
  <2>1. PICK l \in Limits : Take(h, [Idle EXCEPT !.pc = "setLimit", !.limit = l])
    BY <1>4 DEF EditLimitCount
  <2>2. [Idle EXCEPT !.pc = "setLimit", !.limit = l] \in Request
        /\ RequestOK([Idle EXCEPT !.pc = "setLimit", !.limit = l])
    BY DEF Idle, Request, Labels, RequestOK
  <2> QED BY <1>4, <2>1, <2>2, <1>q, RequestStep DEF EditLimitCount, Take
<1>5. ASSUME NEW h \in Handlers, EditLimit(h) PROVE TypeOK'
  <2>1. ReqOK
    BY <1>5, IdleStep DEF EditLimit
  <2>2. limit' \in Limits
    BY <1>5 DEF EditLimit, At, TypeOK, RequestOK
  <2> QED BY <1>5, <2>1, <2>2 DEF EditLimit, TypeOK, RequestOK
<1>6. ASSUME NEW h \in Handlers, LoginRead(h) PROVE TypeOK'
  <2>1. PICK a \in AccountIds : Take(h, [Idle EXCEPT !.pc = "createToken", !.account = a])
    BY <1>6 DEF LoginRead, Existing
  <2>2. [Idle EXCEPT !.pc = "createToken", !.account = a] \in Request
        /\ RequestOK([Idle EXCEPT !.pc = "createToken", !.account = a])
    BY DEF Idle, Request, Labels, RequestOK
  <2> QED BY <1>6, <2>1, <2>2, <1>q, RequestStep DEF LoginRead, Take
<1>7. ASSUME NEW h \in Handlers, LoginCreateToken(h) PROVE TypeOK'
  <2>1. PICK s \in SessionIds :
          /\ refresh' = [refresh EXCEPT ![s] = [row |-> "stored", account |-> req[h].account]]
          /\ req' = [req EXCEPT ![h] = [@ EXCEPT !.pc = "login", !.session = s]]
    BY <1>7 DEF LoginCreateToken
  <2> DEFINE r == [req[h] EXCEPT !.pc = "login", !.session = s]
  <2>2. req[h].account \in AccountIds
    BY <1>7 DEF LoginCreateToken, Existing
  <2>3. r \in Request /\ RequestOK(r)
    BY <2>2 DEF TypeOK, Request, Labels, RequestOK
  <2>4. req' = [req EXCEPT ![h] = r]
    BY <2>1 DEF TypeOK
  <2>5. ReqOK
    BY <2>3, <2>4, RequestStep
  <2>6. refresh' \in [SessionIds -> TokenRow]
    BY <2>1, <2>2 DEF TypeOK, TokenRow
  <2> QED BY <1>7, <2>5, <2>6 DEF LoginCreateToken, TypeOK, RequestOK
<1>8. ASSUME NEW h \in Handlers, Login(h) PROVE TypeOK'
  <2>1. ReqOK
    BY <1>8, IdleStep DEF Login
  <2>2. req[h].session \in SessionIds /\ req[h].account \in AccountIds
    BY <1>8 DEF Login, At, TypeOK, RequestOK
  <2>3. account' \in [AccountIds -> AccountRow]
    BY <1>8, <2>2 DEF Login, TypeOK, AccountRow
  <2>4. issued' \subseteq AccessToken
    BY <1>8, <2>2 DEF Login, TypeOK, AccessToken
  <2> QED BY <1>8, <2>1, <2>3, <2>4 DEF Login, TypeOK, RequestOK
<1>9. ASSUME NEW h \in Handlers, RefreshRead(h) PROVE TypeOK'
  <2>1. PICK s \in SessionIds :
          /\ refresh[s].row = "stored"
          /\ Take(h, [Idle EXCEPT !.pc = "rotate", !.session = s,
                                  !.account = refresh[s].account])
    BY <1>9 DEF RefreshRead
  <2> DEFINE r == [Idle EXCEPT !.pc = "rotate", !.session = s, !.account = refresh[s].account]
  <2>2. refresh[s].account \in AccountIds
    BY <2>1 DEF TypeOK, TokenRow
  <2>3. r \in Request /\ RequestOK(r)
    BY <2>2 DEF Idle, Request, Labels, RequestOK
  <2> QED BY <1>9, <2>1, <2>3, <1>q, RequestStep DEF RefreshRead, Take
<1>10. ASSUME NEW h \in Handlers, RefreshRotate(h) PROVE TypeOK'
  <2>1. ReqOK
    BY <1>10, IdleStep DEF RefreshRotate
  <2>2. req[h].account \in AccountIds
    BY <1>10 DEF RefreshRotate, At, TypeOK, RequestOK
  <2>3. issued' \subseteq AccessToken
    BY <1>10, <2>2 DEF RefreshRotate, TypeOK, AccessToken
  <2> QED BY <1>10, <2>1, <2>3 DEF RefreshRotate, TypeOK, RequestOK
<1>11. ASSUME NEW h \in Handlers, LogoutRead(h) PROVE TypeOK'
  <2>1. PICK t \in issued : Take(h, [Idle EXCEPT !.pc = "logout", !.account = t.account])
    BY <1>11 DEF LogoutRead
  <2>2. t.account \in AccountIds
    BY DEF TypeOK, AccessToken
  <2>3. [Idle EXCEPT !.pc = "logout", !.account = t.account] \in Request
        /\ RequestOK([Idle EXCEPT !.pc = "logout", !.account = t.account])
    BY <2>2 DEF Idle, Request, Labels, RequestOK
  <2> QED BY <1>11, <2>1, <2>3, <1>q, RequestStep DEF LogoutRead, Take
<1>12. ASSUME NEW h \in Handlers, Logout(h) PROVE TypeOK'
  <2>1. RequestOK([req[h] EXCEPT !.pc = "dropTokens"]) /\ "dropTokens" \in Labels
    BY <1>12 DEF Logout, Existing, TypeOK, Request, RequestOK, Labels
  <2>2. ReqOK
    BY <1>12, <2>1, GoOnStep DEF Logout
  <2>3. account' \in [AccountIds -> AccountRow]
    BY <1>12, <1>o DEF Logout, TypeOK
  <2> QED BY <1>12, <2>2, <2>3 DEF Logout, TypeOK, RequestOK
<1>13. ASSUME NEW h \in Handlers, LogoutDropTokens(h) PROVE TypeOK'
  <2>1. ReqOK /\ refresh' \in [SessionIds -> TokenRow]
    BY <1>13, IdleStep, DropTokensTyped DEF LogoutDropTokens
  <2> QED BY <1>13, <2>1 DEF LogoutDropTokens, TypeOK, RequestOK
<1>14. ASSUME LogoutWeb PROVE TypeOK'
  <2>0. PICK a : account' = [account EXCEPT ![a] = SignedOut(@)]
    BY <1>14 DEF LogoutWeb
  <2>1. account' \in [AccountIds -> AccountRow]
    BY <1>o, <2>0 DEF TypeOK
  <2> QED BY <1>14, <2>1 DEF LogoutWeb, TypeOK, RequestOK
<1>15. ASSUME NEW h \in Handlers, LogoutAllRead(h) PROVE TypeOK'
  <2>1. [Idle EXCEPT !.pc = "dropTokensOfAll", !.accounts = Active] \in Request
        /\ RequestOK([Idle EXCEPT !.pc = "dropTokensOfAll", !.accounts = Active])
    BY DEF Idle, Request, Labels, RequestOK, Active
  <2> QED BY <1>15, <2>1, <1>q, RequestStep DEF LogoutAllRead, Take
<1>16. ASSUME NEW h \in Handlers, LogoutAllDropTokens(h) PROVE TypeOK'
  <2>1. RequestOK([req[h] EXCEPT !.pc = "logoutAll"]) /\ "logoutAll" \in Labels
    BY DEF TypeOK, Request, RequestOK, Labels
  <2>2. ReqOK /\ refresh' \in [SessionIds -> TokenRow]
    BY <1>16, <2>1, GoOnStep, DropTokensTyped DEF LogoutAllDropTokens
  <2> QED BY <1>16, <2>2 DEF LogoutAllDropTokens, TypeOK, RequestOK
<1>17. ASSUME NEW h \in Handlers, LogoutAll(h) PROVE TypeOK'
  <2>1. ReqOK
    BY <1>17, IdleStep DEF LogoutAll
  <2>2. account' \in [AccountIds -> AccountRow]
    BY <1>17, <1>o DEF LogoutAll, TypeOK
  <2> QED BY <1>17, <2>1, <2>2 DEF LogoutAll, TypeOK, RequestOK
<1>18. ASSUME ForgotPassword PROVE TypeOK'
  <2>1. codes + 1 \in Codes
    BY <1>18, LimitAssumption DEF ForgotPassword, TypeOK, Codes
  <2>2. PICK a \in AccountIds : otp' = [otp EXCEPT ![a] =
             [row |-> IF @ = Null THEN codes + 1 ELSE @.row, code |-> codes + 1]]
    BY <1>18 DEF ForgotPassword, Existing
  <2>3. [row |-> IF otp[a] = Null THEN codes + 1 ELSE otp[a].row, code |-> codes + 1] \in OtpRow
    BY <2>1 DEF TypeOK, OtpRow
  <2>4. otp' \in [AccountIds -> OtpRow \cup {Null}]
    BY <2>2, <2>3 DEF TypeOK
  <2> QED BY <1>18, <2>1, <2>4 DEF ForgotPassword, TypeOK, RequestOK, Codes
<1>19. ASSUME NEW h \in Handlers, ResetRead(h) PROVE TypeOK'
  <2>1. PICK a \in AccountIds :
          /\ otp[a] # Null
          /\ Take(h, [Idle EXCEPT !.pc = "setPassword", !.account = a, !.otp = otp[a]])
    BY <1>19 DEF ResetRead, Existing
  <2> DEFINE r == [Idle EXCEPT !.pc = "setPassword", !.account = a, !.otp = otp[a]]
  <2>2. r \in Request /\ RequestOK(r)
    BY <2>1 DEF Idle, Request, Labels, RequestOK, TypeOK
  <2> QED BY <1>19, <2>1, <2>2, <1>q, RequestStep DEF ResetRead, Take
<1>20. ASSUME NEW h \in Handlers, ResetPassword(h) PROVE TypeOK'
  <2>1. RequestOK([req[h] EXCEPT !.pc = "deleteOtp"]) /\ "deleteOtp" \in Labels
    BY <1>20 DEF ResetPassword, At, TypeOK, Request, RequestOK, Labels
  <2> QED BY <1>20, <2>1, <1>q, GoOnStep DEF ResetPassword
<1>21. ASSUME NEW h \in Handlers, ResetDeleteOtp(h) PROVE TypeOK'
  <2>1. ReqOK
    BY <1>21, IdleStep DEF ResetDeleteOtp
  <2>2. otp' \in [AccountIds -> OtpRow \cup {Null}] /\ resets' \in [Codes -> Nat]
    <3> DEFINE c == req[h].otp.code
    <3>1. otp' = [otp EXCEPT ![req[h].account] = Null]
          /\ resets' = [resets EXCEPT ![c] = @ + 1]
      BY <1>21 DEF ResetDeleteOtp
    <3>2. c \in Codes /\ resets[c] + 1 \in Nat
      BY <1>21 DEF ResetDeleteOtp, At, TypeOK, RequestOK, OtpRow
    <3>3. resets' \in [Codes -> Nat]
      BY <3>1, <3>2 DEF TypeOK
    <3>4. otp' \in [AccountIds -> OtpRow \cup {Null}]
      BY <3>1 DEF TypeOK
    <3> QED BY <3>3, <3>4
  <2> QED BY <1>21, <2>1, <2>2 DEF ResetDeleteOtp, TypeOK, RequestOK
<1>22. ASSUME NEW as, Remove(as), limit' \in {limit, Null} PROVE TypeOK'
  <2>1. account' \in [AccountIds -> AccountRow]
    BY <1>22 DEF Remove, TypeOK, WithoutSession, AccountRow
  <2>2. refresh' \in [SessionIds -> TokenRow] /\ otp' \in [AccountIds -> OtpRow \cup {Null}]
    BY <1>22, DropTokensTyped DEF Remove, TypeOK
  <2> QED BY <1>22, <2>1, <2>2 DEF Remove, TypeOK, RequestOK
<1>23. ASSUME NEW h \in Handlers, Abort(h) PROVE TypeOK'
  BY <1>23, <1>q, IdleStep DEF Abort
<1>24. CASE UNCHANGED vars
  BY <1>24, <1>q DEF vars, TypeOK
<1>25. ASSUME NEW h \in Handlers, Step(h) PROVE TypeOK'
  BY <1>25, <1>1, <1>2, <1>3, <1>4, <1>5, <1>6, <1>7, <1>8, <1>9, <1>10, <1>11, <1>12,
     <1>13, <1>15, <1>16, <1>17, <1>19, <1>20, <1>21, <1>23 DEF Step
<1> QED BY <1>14, <1>18, <1>22, <1>24, <1>25 DEF Next, DeleteAccount, DeleteOrganization

-----------------------------------------------------------------------------
(* The number of accounts *)

\* Accounts and registering handlers are finitely many.
LEMMA Counted ==
  /\ IsFiniteSet(Existing) /\ Cardinality(Existing) \in Nat
  /\ IsFiniteSet(Registering) /\ Cardinality(Registering) \in Nat
  /\ Cardinality(Registering) <= Cardinality(Handlers) /\ Cardinality(Handlers) \in Nat
<1>1. Existing \in SUBSET AccountIds /\ Registering \in SUBSET Handlers
  BY DEF Existing, Registering
<1>2. IsFiniteSet(Existing) /\ IsFiniteSet(Registering)
      /\ Cardinality(Registering) <= Cardinality(Handlers)
  BY <1>1, FS_Subset, AccountAssumption, HandlerAssumption
<1> QED BY <1>2, FS_CardinalityType, HandlerAssumption

\* Steps that register nobody leave no more accounts and registrations.
LEMMA BoundKept ==
  ASSUME RegistrationsBounded, Existing' \subseteq Existing, Registering' \subseteq Registering
  PROVE  RegistrationsBounded'
<1>1. Cardinality(Existing') <= Cardinality(Existing)
      /\ Cardinality(Registering') <= Cardinality(Registering)
  BY Counted, FS_Subset
<1>2. Cardinality(Existing') \in Nat /\ Cardinality(Registering') \in Nat
  BY Counted, FS_Subset, FS_CardinalityType
<1> QED BY <1>1, <1>2, Counted, LimitAssumption DEF RegistrationsBounded

\* The check of one registration, however stale its limit, makes room for it and
\* for those that every other handler may have passed.
LEMMA BoundStep == TypeOK /\ RegistrationsBounded /\ [Next]_vars => RegistrationsBounded'
<1> SUFFICES ASSUME TypeOK, RegistrationsBounded, [Next]_vars PROVE RegistrationsBounded'
  OBVIOUS
<1>k. ASSUME NEW h \in Handlers, NEW r, req' = [req EXCEPT ![h] = r], r.pc # "createAccount"
      PROVE  Registering' \subseteq Registering \ {h}
  BY <1>k DEF Registering, At, TypeOK
<1>a. ASSUME account' = account PROVE Existing' = Existing
  BY <1>a DEF Existing
<1>o. ASSUME NEW as, account' = [a \in AccountIds |-> IF a \in as THEN SignedOut(account[a])
                                                     ELSE account[a]],
             as \subseteq Existing
      PROVE  Existing' \subseteq Existing
  BY <1>o DEF Existing, SignedOut, WithoutSession
<1>i. Idle.pc = "idle"
  BY DEF Idle
<1>1. ASSUME NEW h \in Handlers, RegisterCount(h) PROVE RegistrationsBounded'
  <2>1. CASE Reply(h)
    BY <1>1, <2>1, <1>k, <1>a, <1>i, BoundKept DEF RegisterCount, Reply
  <2>2. CASE ~LimitReached(req[h].limit)
    <3>1. Cardinality(Existing) < MaxLimit
      <4>1. req[h].limit \in Limits
        BY <1>1 DEF RegisterCount, At, TypeOK, RequestOK
      <4> QED BY <2>2, <4>1, Counted, LimitAssumption DEF LimitReached, Limits
    <3>2. Existing' = Existing
      BY <1>1, <1>a DEF RegisterCount
    <3>3. Registering' \in SUBSET Handlers
      BY DEF Registering
    <3>4. Cardinality(Registering') <= Cardinality(Handlers) /\ Cardinality(Registering') \in Nat
      BY <3>3, FS_Subset, FS_CardinalityType, HandlerAssumption
    <3> QED BY <3>1, <3>2, <3>4, Counted, LimitAssumption DEF RegistrationsBounded
  <2> QED BY <1>1, <2>1, <2>2 DEF RegisterCount
<1>2. ASSUME NEW h \in Handlers, RegisterCreate(h) PROVE RegistrationsBounded'
  <2>1. PICK a \in AccountIds : account' = [account EXCEPT ![a] = WithoutSession("LoggedOut")]
    BY <1>2 DEF RegisterCreate
  <2>2. Existing' \subseteq Existing \cup {a}
    BY <2>1 DEF Existing, TypeOK
  <2>3. h \in Registering /\ Registering' \subseteq Registering \ {h}
    BY <1>2, <1>k, <1>i DEF RegisterCreate, Registering, Reply
  <2>4. Cardinality(Existing') <= Cardinality(Existing) + 1 /\ Cardinality(Existing') \in Nat
    <3>1. IsFiniteSet(Existing \cup {a})
          /\ Cardinality(Existing \cup {a}) <= Cardinality(Existing) + 1
          /\ Cardinality(Existing \cup {a}) \in Nat
      <4>1. IsFiniteSet(Existing \cup {a})
            /\ Cardinality(Existing \cup {a})
                 = IF a \in Existing THEN Cardinality(Existing) ELSE Cardinality(Existing) + 1
        BY Counted, FS_AddElement
      <4>2. Cardinality(Existing \cup {a}) \in Nat
        BY <4>1, FS_CardinalityType
      <4>3. Cardinality(Existing) \in Nat
        BY Counted
      <4> QED BY <4>1, <4>2, <4>3
    <3>2. IsFiniteSet(Existing') /\ Cardinality(Existing') <= Cardinality(Existing \cup {a})
      BY <2>2, <3>1, FS_Subset
    <3> QED BY <3>1, <3>2, Counted, FS_CardinalityType
  <2>5. Cardinality(Registering') <= Cardinality(Registering) - 1
        /\ Cardinality(Registering') \in Nat
    <3>1. IsFiniteSet(Registering \ {h})
          /\ Cardinality(Registering \ {h}) = Cardinality(Registering) - 1
      BY <2>3, Counted, FS_RemoveElement
    <3>2. IsFiniteSet(Registering')
          /\ Cardinality(Registering') <= Cardinality(Registering \ {h})
      BY <2>3, <3>1, FS_Subset
    <3> QED BY <3>1, <3>2, FS_CardinalityType
  <2> QED BY <2>4, <2>5, Counted, LimitAssumption DEF RegistrationsBounded
<1>3. ASSUME NEW h \in Handlers, NEW r, req' = [req EXCEPT ![h] = r], r.pc # "createAccount",
             account' = account
      PROVE  RegistrationsBounded'
  BY <1>3, <1>k, <1>a, BoundKept
<1>4. ASSUME NEW h \in Handlers,
             \/ RegisterReadLimit(h) \/ EditLimitCount(h) \/ EditLimit(h)
             \/ LoginRead(h) \/ RefreshRead(h) \/ RefreshRotate(h)
             \/ LogoutRead(h) \/ LogoutDropTokens(h) \/ LogoutAllRead(h)
             \/ ResetRead(h) \/ ResetDeleteOtp(h) \/ Abort(h)
      PROVE  RegistrationsBounded'
  <2>1. account' = account
    BY <1>4 DEF RegisterReadLimit, EditLimitCount, EditLimit, LoginRead, RefreshRead,
       RefreshRotate, LogoutRead, LogoutDropTokens, LogoutAllRead, ResetRead,
       ResetDeleteOtp, Abort
  <2>2. CASE Reply(h)
    BY <2>1, <2>2, <1>3, <1>i DEF Reply
  <2>3. ASSUME NEW r, Take(h, r), r.pc # "createAccount" PROVE RegistrationsBounded'
    BY <2>1, <2>3, <1>3 DEF Take
  <2>4. CASE RegisterReadLimit(h) \/ EditLimitCount(h) \/ LoginRead(h) \/ RefreshRead(h)
    BY <2>3, <2>4 DEF RegisterReadLimit, EditLimitCount, LoginRead, RefreshRead, Idle
  <2>5. CASE LogoutRead(h) \/ LogoutAllRead(h) \/ ResetRead(h)
    BY <2>3, <2>5 DEF LogoutRead, LogoutAllRead, ResetRead, Idle
  <2> QED BY <1>4, <2>2, <2>4, <2>5 DEF EditLimit, RefreshRotate, LogoutDropTokens,
             ResetDeleteOtp, Abort
<1>5. ASSUME NEW h \in Handlers, NEW label \in Labels, label # "createAccount", GoOn(h, label)
      PROVE  Registering' \subseteq Registering \ {h}
  BY <1>5 DEF GoOn, TypeOK, Request, Registering, At
<1>6. ASSUME NEW h \in Handlers, LogoutAllDropTokens(h) \/ ResetPassword(h)
      PROVE  RegistrationsBounded'
  BY <1>6, <1>5, <1>a, BoundKept DEF LogoutAllDropTokens, ResetPassword, Labels
<1>7. ASSUME NEW h \in Handlers, LoginCreateToken(h) PROVE RegistrationsBounded'
  <2>1. Registering' \subseteq Registering
    BY <1>7 DEF LoginCreateToken, TypeOK, Request, Registering, At
  <2> QED BY <1>7, <2>1, <1>a, BoundKept DEF LoginCreateToken
<1>8. ASSUME NEW h \in Handlers, Login(h) PROVE RegistrationsBounded'
  <2>1. Existing' \subseteq Existing
    BY <1>8 DEF Login, Existing, TypeOK
  <2> QED BY <1>8, <2>1, <1>k, <1>i, BoundKept DEF Login, Reply
<1>9. ASSUME NEW h \in Handlers, Logout(h) PROVE RegistrationsBounded'
  <2>1. Existing' \subseteq Existing
    BY <1>9 DEF Logout, Existing, TypeOK
  <2> QED BY <1>9, <2>1, <1>5, BoundKept DEF Logout, Labels
<1>10. ASSUME NEW h \in Handlers, LogoutAll(h) PROVE RegistrationsBounded'
  <2>1. Active \subseteq Existing
    BY DEF Active, Existing
  <2> QED BY <1>10, <2>1, <1>o, <1>k, <1>i, BoundKept DEF LogoutAll, Reply
<1>11. ASSUME req' = req, Existing' \subseteq Existing PROVE RegistrationsBounded'
  <2>1. Registering' = Registering
    BY <1>11 DEF Registering, At
  <2> QED BY <1>11, <2>1, BoundKept
<1>12. ASSUME LogoutWeb PROVE RegistrationsBounded'
  <2>1. Existing' \subseteq Existing
    BY <1>12 DEF LogoutWeb, Active, Existing, TypeOK
  <2> QED BY <1>12, <2>1, <1>11 DEF LogoutWeb
<1>13. ASSUME NEW as, Remove(as) PROVE RegistrationsBounded'
  <2>1. Existing' \subseteq Existing
    BY <1>13 DEF Remove, Existing, WithoutSession
  <2> QED BY <1>13, <2>1, <1>11 DEF Remove
<1>14. CASE ForgotPassword \/ UNCHANGED vars
  BY <1>14, <1>11, <1>a DEF ForgotPassword, vars
<1>15. ASSUME NEW h \in Handlers, Step(h) PROVE RegistrationsBounded'
  BY <1>15, <1>1, <1>2, <1>4, <1>6, <1>7, <1>8, <1>9, <1>10 DEF Step
<1> QED BY <1>12, <1>13, <1>14, <1>15 DEF Next, DeleteAccount, DeleteOrganization
-----------------------------------------------------------------------------
(* Sessions *)

\* No step invents or uses twice the session of a login that is under way.
LEMMA FreshStep == TypeOK /\ SessionsFresh /\ [Next]_vars => SessionsFresh'
<1> SUFFICES ASSUME TypeOK, SessionsFresh, [Next]_vars PROVE SessionsFresh'
  OBVIOUS
<1> DEFINE RowsKept == \A s \in SessionIds : refresh[s].row # "unused" => refresh'[s].row # "unused"
           NoneStarted == \A g \in Handlers : At(g, "login")' => req'[g] = req[g]
<1>t. \A t \in issued : t.session \in SessionIds \cup {Null}
  BY DEF TypeOK, AccessToken
<1>l. \A g \in Handlers : At(g, "login") => req[g].session \in SessionIds
  BY DEF At, TypeOK, RequestOK
<1>k. ASSUME RowsKept, NoneStarted,
             \A t \in issued' : \/ t \in issued \/ t.session = Null
      PROVE  SessionsFresh'
  <2>1. \A t \in issued' : t.session # Null => t \in issued
    BY <1>k
  <2>2. \A t \in issued' : t.session # Null => refresh'[t.session].row # "unused"
    BY <2>1, <1>k, <1>t DEF SessionsFresh
  <2>3. ASSUME NEW g \in Handlers, At(g, "login")'
        PROVE  /\ At(g, "login") /\ req'[g] = req[g]
               /\ refresh'[req'[g].session].row # "unused"
               /\ \A t \in issued' : t.session # req'[g].session
    <3>1. At(g, "login") /\ req'[g] = req[g]
      BY <1>k, <2>3 DEF At
    <3>2. req[g].session \in SessionIds /\ req[g].session # Null
      BY <3>1, <1>l, NullAssumption
    <3> QED BY <1>k, <2>1, <3>1, <3>2 DEF SessionsFresh
  <2> QED BY <2>2, <2>3 DEF SessionsFresh
<1>d. ASSUME NEW as, refresh' = DropTokens(as) PROVE RowsKept
  BY <1>d DEF DropTokens
<1>r. ASSUME NEW h \in Handlers, NEW r, req' = [req EXCEPT ![h] = r], r.pc # "login"
      PROVE  NoneStarted
  BY <1>r DEF At, TypeOK
<1>i. Idle.pc = "idle"
  BY DEF Idle
<1>g. ASSUME NEW h \in Handlers, NEW label \in Labels, GoOn(h, label), label # "login"
      PROVE  NoneStarted
  BY <1>g DEF GoOn, At, TypeOK, Request
<1>1. ASSUME NEW h \in Handlers, NEW r, req' = [req EXCEPT ![h] = r], r.pc # "login",
             refresh' = refresh, issued' = issued
      PROVE  SessionsFresh'
  BY <1>1, <1>r, <1>k
<1>2. ASSUME NEW h \in Handlers,
             \/ RegisterReadLimit(h) \/ EditLimitCount(h) \/ LoginRead(h) \/ RefreshRead(h)
             \/ LogoutRead(h) \/ LogoutAllRead(h) \/ ResetRead(h)
      PROVE  SessionsFresh'
  <2>1. refresh' = refresh /\ issued' = issued
    BY <1>2 DEF RegisterReadLimit, EditLimitCount, LoginRead, RefreshRead,
       LogoutRead, LogoutAllRead, ResetRead
  <2>2. ASSUME NEW r, Take(h, r), r.pc # "login" PROVE SessionsFresh'
    BY <2>1, <2>2, <1>1 DEF Take
  <2>3. CASE RegisterReadLimit(h) \/ EditLimitCount(h) \/ LoginRead(h) \/ RefreshRead(h)
    BY <2>2, <2>3 DEF RegisterReadLimit, EditLimitCount, LoginRead, RefreshRead, Idle
  <2>4. CASE LogoutRead(h) \/ LogoutAllRead(h) \/ ResetRead(h)
    BY <2>2, <2>4 DEF LogoutRead, LogoutAllRead, ResetRead, Idle
  <2> QED BY <1>2, <2>3, <2>4
<1>3. ASSUME NEW h \in Handlers, Reply(h), refresh' = refresh, issued' = issued
      PROVE  SessionsFresh'
  BY <1>3, <1>1, <1>i DEF Reply
<1>4. ASSUME NEW h \in Handlers, NEW label \in Labels, GoOn(h, label), label # "login",
             refresh' = refresh, issued' = issued
      PROVE  SessionsFresh'
  BY <1>4, <1>g, <1>k
<1>5. ASSUME NEW h \in Handlers, RegisterCount(h) PROVE SessionsFresh'
  BY <1>5, <1>3, <1>4 DEF RegisterCount, Labels
<1>6. ASSUME NEW h \in Handlers, Logout(h) \/ ResetPassword(h) PROVE SessionsFresh'
  BY <1>6, <1>4 DEF Logout, ResetPassword, Labels
<1>7. ASSUME NEW h \in Handlers,
             \/ RegisterCreate(h) \/ EditLimit(h) \/ LogoutAll(h) \/ ResetDeleteOtp(h) \/ Abort(h)
      PROVE  SessionsFresh'
  BY <1>7, <1>3 DEF RegisterCreate, EditLimit, LogoutAll, ResetDeleteOtp, Abort
<1>8. ASSUME NEW h \in Handlers, LogoutDropTokens(h) PROVE SessionsFresh'
  BY <1>8, <1>d, <1>r, <1>i, <1>k DEF LogoutDropTokens, Reply
<1>9. ASSUME NEW h \in Handlers, LogoutAllDropTokens(h) PROVE SessionsFresh'
  BY <1>9, <1>d, <1>g, <1>k DEF LogoutAllDropTokens, Labels
<1>10. ASSUME NEW h \in Handlers, RefreshRotate(h) PROVE SessionsFresh'
  <2>1. \A t \in issued' : t \in issued \/ t.session = Null
    BY <1>10 DEF RefreshRotate
  <2>2. NoneStarted
    BY <1>10, <1>r, <1>i DEF RefreshRotate, Reply
  <2>3. RowsKept
    BY <1>10 DEF RefreshRotate
  <2> QED BY <2>1, <2>2, <2>3, <1>k
<1>11. ASSUME NEW as, Remove(as) PROVE SessionsFresh'
  BY <1>11, <1>d, <1>k DEF Remove
<1>12. CASE LogoutWeb \/ ForgotPassword \/ UNCHANGED vars
  BY <1>12, <1>k DEF LogoutWeb, ForgotPassword, vars
\* The session of a new login comes from an unused row.
<1>13. ASSUME NEW h \in Handlers, LoginCreateToken(h) PROVE SessionsFresh'
  <2>1. PICK s \in SessionIds :
          /\ refresh[s].row = "unused"
          /\ refresh' = [refresh EXCEPT ![s] = [row |-> "stored", account |-> req[h].account]]
          /\ req' = [req EXCEPT ![h] = [@ EXCEPT !.pc = "login", !.session = s]]
    BY <1>13 DEF LoginCreateToken
  <2>2. issued' = issued
    BY <1>13 DEF LoginCreateToken
  <2>3. RowsKept /\ refresh'[s].row # "unused"
    BY <2>1 DEF TypeOK
  <2>4. req'[h].session = s /\ \A g \in Handlers : g # h => req'[g] = req[g]
    BY <2>1 DEF TypeOK, Request
  <2>5. \A t \in issued : t.session # s
    BY <2>1, NullAssumption DEF SessionsFresh
  <2>6. \A g \in Handlers : At(g, "login") => req[g].session # s
    BY <2>1 DEF SessionsFresh
  <2>7. \A t \in issued : t.session # Null => refresh'[t.session].row # "unused"
    BY <2>3, <1>t DEF SessionsFresh
  <2>8. ASSUME NEW g \in Handlers, At(g, "login")'
        PROVE  /\ refresh'[req'[g].session].row # "unused"
               /\ \A t \in issued : t.session # req'[g].session
               /\ \A f \in Handlers : At(f, "login")' /\ req'[f].session = req'[g].session
                                        => f = g
    <3>1. CASE g = h
      BY <2>3, <2>4, <2>5, <2>6, <3>1 DEF At
    <3>2. CASE g # h
      <4>1. At(g, "login") /\ req'[g] = req[g]
        BY <2>4, <2>8, <3>2 DEF At
      <4>2. refresh'[req'[g].session].row # "unused" /\ \A t \in issued : t.session # req'[g].session
        BY <2>3, <4>1, <1>l DEF SessionsFresh
      <4>3. \A f \in Handlers : At(f, "login")' /\ req'[f].session = req'[g].session => f = g
        BY <2>4, <2>6, <4>1 DEF SessionsFresh, At
      <4> QED BY <4>2, <4>3
    <3> QED BY <3>1, <3>2
  <2> QED BY <2>2, <2>7, <2>8 DEF SessionsFresh
\* It is handed out once, to a request that ends.
<1>14. ASSUME NEW h \in Handlers, Login(h) PROVE SessionsFresh'
  <2> DEFINE s == req[h].session
             t0 == [account |-> req[h].account, session |-> s]
  <2>1. At(h, "login") /\ issued' = issued \cup {t0} /\ refresh' = refresh
    BY <1>14 DEF Login
  <2>2. NoneStarted /\ ~At(h, "login")'
    BY <1>14, <1>r, <1>i DEF Login, Reply, At, TypeOK
  <2>3. \A t \in issued' : t.session # Null => refresh'[t.session].row # "unused"
    BY <2>1 DEF SessionsFresh
  <2>4. ASSUME NEW g \in Handlers, At(g, "login")'
        PROVE  /\ At(g, "login") /\ req'[g] = req[g]
               /\ refresh'[req'[g].session].row # "unused"
               /\ \A t \in issued' : t.session # req'[g].session
    <3>1. At(g, "login") /\ req'[g] = req[g] /\ g # h
      BY <2>2, <2>4 DEF At
    <3>2. req[g].session # s
      BY <2>1, <3>1 DEF SessionsFresh
    <3> QED BY <2>1, <3>1, <3>2 DEF SessionsFresh
  <2> QED BY <2>3, <2>4 DEF SessionsFresh
<1>15. ASSUME NEW h \in Handlers, Step(h) PROVE SessionsFresh'
  BY <1>15, <1>2, <1>5, <1>6, <1>7, <1>8, <1>9, <1>10, <1>13, <1>14 DEF Step
<1> QED BY <1>11, <1>12, <1>15 DEF Next, DeleteAccount, DeleteOrganization

\* No step makes the guard accept an access token that it refused.
LEMMA RefusedStep ==
  ASSUME TypeOK, SessionsFresh, [Next]_vars, NEW t \in issued, Accepts(t)'
  PROVE  Accepts(t)
<1> DEFINE a == t.account
<1>t. a \in AccountIds /\ t \in AccessToken
  BY DEF TypeOK, AccessToken
<1>k. account'[a] = account[a] => Accepts(t)
  BY DEF Accepts
<1>o. account'[a].status = "LoggedIn"
  BY DEF Accepts
<1>1. ASSUME NEW h \in Handlers, Login(h) PROVE Accepts(t)
  <2>1. CASE req[h].account = a
    <3>1. account'[a].session = req[h].session
      BY <1>1, <1>t, <2>1 DEF Login, TypeOK
    <3>2. t.session # req[h].session
      BY <1>1 DEF Login, SessionsFresh
    <3> QED BY <3>1, <3>2 DEF Accepts
  <2>2. CASE req[h].account # a
    BY <1>1, <1>t, <1>k, <2>2 DEF Login, TypeOK
  <2> QED BY <2>1, <2>2
<1>2. ASSUME NEW b, account' = [account EXCEPT ![b] = SignedOut(@)] PROVE Accepts(t)
  BY <1>2, <1>t, <1>k, <1>o DEF SignedOut, WithoutSession, TypeOK
<1>3. ASSUME NEW h \in Handlers, Logout(h) PROVE Accepts(t)
  BY <1>3, <1>2 DEF Logout
<1>4. CASE LogoutWeb
  BY <1>4, <1>2 DEF LogoutWeb
<1>5. ASSUME NEW h \in Handlers, LogoutAll(h) PROVE Accepts(t)
  BY <1>5, <1>t, <1>k, <1>o DEF LogoutAll, SignedOut, WithoutSession
<1>6. ASSUME NEW h \in Handlers, RegisterCreate(h) PROVE Accepts(t)
  BY <1>6, <1>t, <1>k, <1>o DEF RegisterCreate, WithoutSession, TypeOK
<1>7. ASSUME NEW as, Remove(as) PROVE Accepts(t)
  BY <1>7, <1>t, <1>k, <1>o DEF Remove, WithoutSession
<1>8. ASSUME account' = account PROVE Accepts(t)
  BY <1>8, <1>k
<1>9. ASSUME NEW h \in Handlers, Step(h) PROVE Accepts(t)
  BY <1>9, <1>1, <1>3, <1>5, <1>6, <1>8 DEF Step, RegisterReadLimit, RegisterCount,
     EditLimitCount, EditLimit, LoginRead, LoginCreateToken, RefreshRead, RefreshRotate,
     LogoutRead, LogoutDropTokens, LogoutAllRead, LogoutAllDropTokens,
     ResetRead, ResetPassword, ResetDeleteOtp, Abort
<1> QED BY <1>4, <1>7, <1>8, <1>9 DEF Next, DeleteAccount, DeleteOrganization,
           ForgotPassword, vars
-----------------------------------------------------------------------------
(* One-time passwords *)

\* What OtpsUnspent says of the request of a handler that resets a password.
Unspent(r) ==
  LET o == r.otp IN
  /\ o.row <= codes /\ o.code <= codes
  /\ \A a \in HasOtp : /\ otp[a].row = o.row => a = r.account /\ resets[o.code] = 0
                       /\ otp[a].code = o.code => otp[a].row = o.row

\* Steps that leave codes alone, except that some may be removed unused, and
\* start no reset keep them unspent.
LEMMA OtpsKept ==
  ASSUME TypeOK, OtpsUnspent, codes' = codes, resets' = resets,
         \A a \in AccountIds : otp'[a] \in {otp[a], Null},
         \A h \in Handlers : h \in Resetting' =>
           /\ h \in Resetting
           /\ req'[h].otp = req[h].otp /\ req'[h].account = req[h].account
  PROVE  OtpsUnspent'
<1>1. \A a \in HasOtp' : a \in HasOtp /\ otp'[a] = otp[a]
  BY DEF HasOtp
<1>2. \A h \in Resetting' : /\ h \in Resetting
                            /\ req'[h].otp = req[h].otp /\ req'[h].account = req[h].account
  BY DEF Resetting
<1> QED BY <1>1, <1>2 DEF OtpsUnspent

\* Every step keeps the codes that may still succeed unspent.
LEMMA OtpStep == TypeOK /\ OtpsUnspent /\ [Next]_vars => OtpsUnspent'
<1> SUFFICES ASSUME TypeOK, OtpsUnspent, [Next]_vars PROVE OtpsUnspent'
  OBVIOUS
<1> DEFINE NoneStarted == \A g \in Handlers : g \in Resetting' =>
                            /\ g \in Resetting
                            /\ req'[g].otp = req[g].otp /\ req'[g].account = req[g].account
           OtpsSame == codes' = codes /\ resets' = resets /\ otp' = otp
<1>c. codes \in Nat /\ \A a \in HasOtp : a \in AccountIds /\ otp[a] \in OtpRow
  BY LimitAssumption DEF TypeOK, HasOtp
<1>e. \A h \in Resetting : /\ req[h].otp \in OtpRow /\ req[h].account \in AccountIds
                           /\ h \in Handlers
  BY DEF Resetting, TypeOK, RequestOK
<1>i. Idle.pc = "idle"
  BY DEF Idle
<1>k. ASSUME NoneStarted, OtpsSame PROVE OtpsUnspent'
  BY <1>k, OtpsKept
<1>r. ASSUME NEW h \in Handlers, NEW r, req' = [req EXCEPT ![h] = r],
             r.pc \notin {"setPassword", "deleteOtp"}
      PROVE  NoneStarted
  BY <1>r DEF Resetting, TypeOK
<1>p. ASSUME NEW h \in Handlers, Reply(h) PROVE NoneStarted
  BY <1>p, <1>r, <1>i DEF Reply
<1>g. ASSUME NEW h \in Handlers, NEW label \in Labels, GoOn(h, label),
             label \notin {"setPassword", "deleteOtp"} \/ h \in Resetting
      PROVE  NoneStarted
  BY <1>g DEF GoOn, Resetting, TypeOK, Request
<1>2. ASSUME NEW h \in Handlers,
             \/ RegisterReadLimit(h) \/ EditLimitCount(h) \/ LoginRead(h) \/ RefreshRead(h)
             \/ LogoutRead(h) \/ LogoutAllRead(h)
      PROVE  OtpsUnspent'
  <2>1. OtpsSame
    BY <1>2 DEF RegisterReadLimit, EditLimitCount, LoginRead, RefreshRead,
       LogoutRead, LogoutAllRead
  <2>2. ASSUME NEW r, Take(h, r), r.pc \notin {"setPassword", "deleteOtp"} PROVE OtpsUnspent'
    BY <2>1, <2>2, <1>r, <1>k DEF Take
  <2>3. CASE RegisterReadLimit(h) \/ EditLimitCount(h) \/ LoginRead(h)
    BY <2>2, <2>3 DEF RegisterReadLimit, EditLimitCount, LoginRead, Idle
  <2>4. CASE RefreshRead(h) \/ LogoutRead(h) \/ LogoutAllRead(h)
    BY <2>2, <2>4 DEF RefreshRead, LogoutRead, LogoutAllRead, Idle
  <2> QED BY <1>2, <2>3, <2>4
<1>3. ASSUME NEW h \in Handlers, RegisterCount(h) PROVE OtpsUnspent'
  BY <1>3, <1>p, <1>g, <1>k DEF RegisterCount, Labels
<1>4. ASSUME NEW h \in Handlers, Logout(h) \/ LogoutAllDropTokens(h) PROVE OtpsUnspent'
  BY <1>4, <1>g, <1>k DEF Logout, LogoutAllDropTokens, Labels
<1>5. ASSUME NEW h \in Handlers, ResetPassword(h) PROVE OtpsUnspent'
  BY <1>5, <1>g, <1>k DEF ResetPassword, At, Resetting, Labels
<1>6. ASSUME NEW h \in Handlers,
             \/ RegisterCreate(h) \/ EditLimit(h) \/ Login(h) \/ RefreshRotate(h)
             \/ LogoutDropTokens(h) \/ LogoutAll(h) \/ Abort(h)
      PROVE  OtpsUnspent'
  BY <1>6, <1>p, <1>k DEF RegisterCreate, EditLimit, Login, RefreshRotate,
     LogoutDropTokens, LogoutAll, Abort
<1>7. ASSUME NEW h \in Handlers, LoginCreateToken(h) PROVE OtpsUnspent'
  <2>1. NoneStarted
    BY <1>7 DEF LoginCreateToken, Resetting, TypeOK, Request
  <2> QED BY <1>7, <2>1, <1>k DEF LoginCreateToken
<1>8. ASSUME NEW as, Remove(as) PROVE OtpsUnspent'
  BY <1>8, OtpsKept DEF Remove, Resetting
<1>9. CASE LogoutWeb \/ UNCHANGED vars
  BY <1>9, <1>k DEF LogoutWeb, vars, Resetting
\* A new code is larger than every code before it.
<1>10. ASSUME ForgotPassword PROVE OtpsUnspent'
  <2>1. PICK a \in AccountIds : otp' = [otp EXCEPT ![a] =
             [row |-> IF @ = Null THEN codes + 1 ELSE @.row, code |-> codes + 1]]
    BY <1>10 DEF ForgotPassword, Existing
  <2> DEFINE new == otp'[a]
  <2>2. /\ codes' = codes + 1 /\ codes + 1 \in Codes /\ resets' = resets
        /\ Resetting' = Resetting /\ req' = req
    BY <1>10, LimitAssumption DEF ForgotPassword, TypeOK, Codes, Resetting
  <2>3. /\ new.code = codes + 1
        /\ \/ a \notin HasOtp /\ new.row = codes + 1
           \/ a \in HasOtp /\ new.row = otp[a].row
    BY <2>1 DEF TypeOK, HasOtp
  <2>4. \A b \in HasOtp' : b # a => b \in HasOtp /\ otp'[b] = otp[b]
    BY <2>1 DEF TypeOK, HasOtp
  <2>5. resets[codes + 1] = 0
    BY <2>2, <1>c DEF OtpsUnspent
  <2>6. \A b \in HasOtp : otp[b].row \in Nat /\ otp[b].code \in Nat
                          /\ otp[b].row <= codes /\ otp[b].code <= codes
    BY <1>c DEF OtpsUnspent, OtpRow, Codes
  <2>7. new.row <= codes + 1 /\ new.row \in Nat
    BY <2>3, <2>6, <1>c
  <2> HIDE DEF new
  <2>8. \A b \in HasOtp' : /\ otp'[b].row <= codes' /\ otp'[b].code <= codes'
                           /\ resets'[otp'[b].code] = 0
    <3>1. ASSUME NEW b \in HasOtp' PROVE /\ otp'[b].row <= codes' /\ otp'[b].code <= codes'
                                         /\ resets'[otp'[b].code] = 0
      <4>1. CASE b = a
        BY <4>1, <2>2, <2>3, <2>5, <2>7, <1>c DEF new
      <4>2. CASE b # a
        BY <4>2, <2>2, <2>4, <2>6, <1>c DEF OtpsUnspent
      <4> QED BY <4>1, <4>2
    <3> QED BY <3>1
  <2>9. \A b \in HasOtp' : b # a => otp'[b].row # new.row /\ otp'[b].code # new.code
    <3>1. ASSUME NEW b \in HasOtp, b # a PROVE otp[b].row # new.row /\ otp[b].code # new.code
      BY <3>1, <2>3, <2>6, <1>c DEF OtpsUnspent
    <3> QED BY <3>1, <2>4
  <2>10. \A b, d \in HasOtp' : otp'[b].row = otp'[d].row \/ otp'[b].code = otp'[d].code => b = d
    BY <2>4, <2>9 DEF OtpsUnspent, new
  <2>11. ASSUME NEW h \in Resetting PROVE Unspent(req[h])'
    <3> DEFINE o == req[h].otp
    <3>1. /\ o.row <= codes /\ o.code <= codes /\ o.row \in Nat /\ o.code \in Nat
          /\ \A b \in HasOtp : /\ otp[b].row = o.row => b = req[h].account /\ resets[o.code] = 0
                               /\ otp[b].code = o.code => otp[b].row = o.row
      BY <1>e DEF OtpsUnspent, OtpRow, Codes
    <3>2. new.row = o.row => a = req[h].account /\ resets[o.code] = 0
      BY <2>3, <3>1, <1>c
    <3>3. new.code # o.code
      BY <2>3, <3>1, <1>c
    <3>4. \A b \in HasOtp' : /\ otp'[b].row = o.row => b = req[h].account /\ resets[o.code] = 0
                             /\ otp'[b].code = o.code => otp'[b].row = o.row
      BY <2>4, <3>1, <3>2, <3>3 DEF new
    <3> QED BY <2>2, <3>1, <3>4, <1>c DEF Unspent
  <2>12. \A c \in Codes : resets'[c] <= 1 /\ (c > codes' => resets'[c] = 0)
    <3>1. ASSUME NEW c \in Codes, c > codes + 1 PROVE resets[c] = 0
      BY <3>1, <1>c DEF OtpsUnspent, Codes
    <3> QED BY <3>1, <2>2 DEF OtpsUnspent
  <2> QED BY <2>2, <2>8, <2>10, <2>11, <2>12 DEF OtpsUnspent, Unspent
\* A reset starts with a stored code.
<1>11. ASSUME NEW h \in Handlers, ResetRead(h) PROVE OtpsUnspent'
  <2>1. PICK a \in AccountIds :
          /\ otp[a] # Null
          /\ req' = [req EXCEPT ![h] = [Idle EXCEPT !.pc = "setPassword", !.account = a,
                                                    !.otp = otp[a]]]
    BY <1>11 DEF ResetRead, Existing, Take
  <2>2. codes' = codes /\ resets' = resets /\ otp' = otp /\ HasOtp' = HasOtp
    BY <1>11 DEF ResetRead, HasOtp
  <2>3. a \in HasOtp /\ req'[h].otp = otp[a] /\ req'[h].account = a
    BY <2>1 DEF HasOtp, TypeOK, Idle
  <2>4. \A g \in Handlers : g # h => req'[g] = req[g]
    BY <2>1 DEF TypeOK
  <2>5. \A g \in Resetting' : g = h \/ (g \in Resetting /\ req'[g] = req[g])
    BY <2>4 DEF Resetting
  <2>6. Unspent(req'[h])
    BY <2>3 DEF OtpsUnspent, Unspent
  <2>7. \A g \in Resetting : Unspent(req[g])
    BY DEF OtpsUnspent, Unspent
  <2>8. \A g \in Resetting' : Unspent(req[g])'
    BY <2>2, <2>5, <2>6, <2>7 DEF Unspent
  <2>9. \A f, g \in Resetting' : req'[f].otp.code = req'[g].otp.code
                                   => req'[f].otp.row = req'[g].otp.row
    <3>1. \A g \in Resetting : req[g].otp.code = otp[a].code => req[g].otp.row = otp[a].row
      BY <2>3 DEF OtpsUnspent
    <3> QED BY <2>3, <2>5, <3>1 DEF OtpsUnspent
  <2> QED BY <2>2, <2>8, <2>9 DEF OtpsUnspent, Unspent
\* It succeeds by removing the only row that could let the code succeed again.
<1>12. ASSUME NEW h \in Handlers, ResetDeleteOtp(h) PROVE OtpsUnspent'
  <2> DEFINE o == req[h].otp
             a == req[h].account
  <2>1. /\ h \in Resetting /\ otp[a] # Null /\ otp[a].row = o.row
        /\ otp' = [otp EXCEPT ![a] = Null]
        /\ resets' = [resets EXCEPT ![o.code] = @ + 1]
        /\ codes' = codes /\ Reply(h)
    BY <1>12 DEF ResetDeleteOtp, At, Resetting, StoredOtp
  <2>2. a \in HasOtp /\ o \in OtpRow /\ o.code \in Codes
    BY <2>1, <1>e DEF HasOtp, OtpRow
  <2>3. resets[o.code] = 0 /\ o.code <= codes
    BY <2>1, <2>2 DEF OtpsUnspent
  <2>4. \A b \in HasOtp' : b \in HasOtp /\ b # a /\ otp'[b] = otp[b]
    BY <2>1, <2>2, <1>c DEF HasOtp, TypeOK
  <2>5. \A b \in HasOtp' : otp[b].row # o.row
    BY <2>1, <2>2, <2>4 DEF OtpsUnspent
  <2>6. \A b \in HasOtp' : otp[b].code # o.code
    BY <2>1, <2>4, <2>5 DEF OtpsUnspent
  <2>7. \A c \in Codes : resets'[c] = IF c = o.code THEN 1 ELSE resets[c]
    BY <2>1, <2>2, <2>3 DEF TypeOK
  <2>8. \A g \in Resetting' : g \in Resetting /\ req'[g].otp = req[g].otp
                              /\ req'[g].account = req[g].account
    BY <2>1, <1>p DEF Resetting
  <2> HIDE DEF o, a
  <2>9. \A b \in HasOtp' : /\ otp'[b].row <= codes' /\ otp'[b].code <= codes'
                           /\ resets'[otp'[b].code] = 0
    BY <2>1, <2>4, <2>6, <2>7, <1>c DEF OtpsUnspent, OtpRow
  <2>10. ASSUME NEW g \in Resetting', NEW b \in HasOtp', otp[b].row = req[g].otp.row
         PROVE  b = req[g].account /\ resets'[req[g].otp.code] = 0
    <3>1. g \in Resetting /\ b \in HasOtp
      BY <2>4, <2>8
    <3>2. req[g].otp.code # o.code
      <4>1. req[g].otp.code = o.code => req[g].otp.row = o.row
        BY <2>1, <3>1 DEF OtpsUnspent, o
      <4> QED BY <4>1, <2>5, <2>10
    <3>3. b = req[g].account /\ resets[req[g].otp.code] = 0 /\ req[g].otp.code \in Codes
      BY <2>10, <3>1, <1>e DEF OtpsUnspent, OtpRow
    <3> QED BY <2>7, <3>2, <3>3
  <2>11. ASSUME NEW g \in Resetting'
         PROVE  /\ Unspent(req[g])'
                /\ \A f \in Resetting' : req'[f].otp.code = req'[g].otp.code
                                           => req'[f].otp.row = req'[g].otp.row
    <3>1. /\ req[g].otp.row <= codes /\ req[g].otp.code <= codes
          /\ \A b \in HasOtp : otp[b].code = req[g].otp.code => otp[b].row = req[g].otp.row
      BY <2>8 DEF OtpsUnspent
    <3>2. Unspent(req[g])'
      BY <2>1, <2>4, <2>8, <2>10, <3>1 DEF Unspent
    <3> QED BY <2>8, <3>2 DEF OtpsUnspent
  <2>12. \A c \in Codes : resets'[c] <= 1 /\ (c > codes' => resets'[c] = 0)
    BY <2>1, <2>2, <2>3, <2>7, <1>c DEF OtpsUnspent, Codes
  <2>13. \A b, d \in HasOtp' : otp'[b].row = otp'[d].row \/ otp'[b].code = otp'[d].code => b = d
    BY <2>4 DEF OtpsUnspent
  <2> QED BY <2>9, <2>11, <2>12, <2>13 DEF OtpsUnspent, Unspent
<1>13. ASSUME NEW h \in Handlers, Step(h) PROVE OtpsUnspent'
  BY <1>13, <1>2, <1>3, <1>4, <1>5, <1>6, <1>7, <1>11, <1>12 DEF Step
<1> QED BY <1>8, <1>9, <1>10, <1>13 DEF Next, DeleteAccount, DeleteOrganization
-----------------------------------------------------------------------------
(* The theorems *)

\* With empty tables nothing is registered, issued or spent.
LEMMA InvInit == Init => IInv
<1> SUFFICES ASSUME Init PROVE IInv
  OBVIOUS
<1>1. Existing = {} /\ Registering = {} /\ Resetting = {} /\ HasOtp = {}
  BY DEF Init, Existing, Registering, Resetting, HasOtp, At, Idle, WithoutSession
<1>2. RegistrationsBounded
  <2>1. Cardinality(Handlers) \in Nat /\ Cardinality(Handlers) # 0
    BY HandlerAssumption, FS_CardinalityType, FS_EmptySet
  <2>2. Cardinality(Existing) = 0 /\ Cardinality(Registering) = 0
    BY <1>1, FS_EmptySet
  <2> QED BY <2>1, <2>2, LimitAssumption DEF RegistrationsBounded
<1>3. SessionsFresh
  BY DEF Init, SessionsFresh, At, Idle
<1>4. OtpsUnspent
  BY <1>1 DEF Init, OtpsUnspent
<1> QED BY <1>2, <1>3, <1>4, TypeInit DEF IInv

\* The four parts of the invariant are kept together.
LEMMA InvStep == IInv /\ [Next]_vars => IInv'
BY TypeStep, BoundStep, FreshStep, OtpStep DEF IInv

LEMMA Inductive == Spec => []IInv
BY InvInit, InvStep, PTL DEF Spec

\* Rows, sessions and requests have their types, whatever races.
THEOREM AccountsTyped == Spec => []TypeOK
<1>1. IInv => TypeOK
  BY DEF IInv
<1> QED BY <1>1, Inductive, PTL

\* The number of accounts exceeds the highest limit by less than the number of
\* requests served at once.
THEOREM AccountsSafe == Spec => []AccountsBounded
<1>1. IInv => AccountsBounded
  BY Counted, LimitAssumption DEF IInv, RegistrationsBounded, AccountsBounded
<1> QED BY <1>1, Inductive, PTL

\* At most one of the requests that use a one-time password is answered with success,
\* however many race.  (Several may have written their password by then.)
THEOREM OtpsAreSpentOnce == Spec => []OtpSucceedsOnce
<1>1. IInv => OtpSucceedsOnce
  BY DEF IInv, OtpsUnspent, OtpSucceedsOnce
<1> QED BY <1>1, Inductive, PTL

\* An access token of a kiosk that the guard has refused is refused for good.
THEOREM RefusalIsFinal == Spec => RefusedForGood
<1> DEFINE NoneRevived == \A t \in issued : Accepts(t)' => Accepts(t)
<1>1. IInv /\ [Next]_vars => NoneRevived
  BY RefusedStep DEF IInv
<1>2. IInv /\ [Next]_vars => [NoneRevived]_vars
  BY <1>1
<1>3. RefusedForGood <=> [][NoneRevived]_vars
  BY DEF RefusedForGood
<1> HIDE DEF NoneRevived
<1> QED BY <1>2, <1>3, InvInit, InvStep, PTL DEF Spec
=============================================================================
