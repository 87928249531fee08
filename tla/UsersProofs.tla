----------------------------- MODULE UsersProofs -----------------------------
(* Theorems about Users, for every value of its constants. *)
EXTENDS Users, FiniteSetTheorems, TLAPS

LEMMA IdleTyped == Idle \in Request /\ RequestOK(Idle) /\ Idle.pc = "idle"
BY DEF Idle, Request, Labels, RequestOK

\* What a stored row is.
LEMMA StoredTyped ==
  ASSUME TypeOK, NEW u \in Stored
  PROVE  /\ u \in UserIds
         /\ user[u] \in [row : {"stored"}, root : BOOLEAN, active : BOOLEAN, first : BOOLEAN,
                         password : Hash]
BY DEF TypeOK, Stored, UserRow, NoUser

LEMMA SessionTyped ==
  ASSUME TypeOK, NEW s \in Sessions
  PROVE  /\ s \in SessionIds
         /\ session[s] \in [row : {"stored"}, user : UserIds, token : Tokens]
BY DEF TypeOK, Sessions, SessionRow, NoSession
-----------------------------------------------------------------------------
(* What a step may do to a request *)

\* One request changes; registrations, refreshes and first logins begin in one way.
Becomes(h, r) ==
  /\ req' = [req EXCEPT ![h] = r]
  /\ r \in Request
  /\ RequestOK(r)
  /\ r.pc = "createRoot" => RootRead(h)
  /\ r.pc = "rotate" => RefreshRead(h)
  /\ r.pc = "clearFlag" => LoginFirstPassword(h)

LEMMA GoOnBecomes ==
  ASSUME TypeOK, NEW h \in Handlers, NEW label \in Labels \ {"createRoot", "rotate"},
         GoOn(h, label), RequestOK([req[h] EXCEPT !.pc = label]),
         label = "clearFlag" => LoginFirstPassword(h)
  PROVE  \E r : Becomes(h, r)
<1> DEFINE r == [req[h] EXCEPT !.pc = label]
<1>1. r \in Request /\ r.pc = label
  BY DEF TypeOK, Request
<1>2. req' = [req EXCEPT ![h] = r]
  BY DEF GoOn, TypeOK
<1> QED BY <1>1, <1>2 DEF Becomes

LEMMA StepBecomes ==
  ASSUME TypeOK, NEW h \in Handlers, Step(h)
  PROVE  \E r : Becomes(h, r)
<1>0. req[h] \in Request /\ RequestOK(req[h])
  BY DEF TypeOK
<1>t. ASSUME NEW r \in Request, RequestOK(r), Take(h, r),
             r.pc = "createRoot" => RootRead(h),
             r.pc = "rotate" => RefreshRead(h), r.pc # "clearFlag"
      PROVE  \E x : Becomes(h, x)
  BY <1>t DEF Take, Becomes
<1>1. CASE RootRead(h)
  <2> DEFINE r == [Idle EXCEPT !.pc = "createRoot"]
  <2>1. r \in Request /\ RequestOK(r) /\ r.pc = "createRoot"
    BY DEF Idle, Request, Labels, RequestOK
  <2> QED BY <1>1, <1>t, <2>1 DEF RootRead
<1>2. CASE RootCreate(h) \/ LoginCreateToken(h) \/ RefreshRotate(h) \/ ResetDeleteOtp(h) \/ Abort(h)
  <2>1. Reply(h)
    BY <1>2 DEF RootCreate, LoginCreateToken, RefreshRotate, ResetDeleteOtp, Abort
  <2> QED BY <2>1, IdleTyped DEF Reply, Becomes
<1>3. CASE LoginRead(h)
  <2>1. PICK u \in Stored :
          \/ \E p \in Words :
               Take(h, [Idle EXCEPT !.pc = "firstPassword", !.user = u, !.password = p])
          \/ Take(h, [Idle EXCEPT !.pc = "createToken", !.user = u])
    BY <1>3 DEF LoginRead
  <2>2. u \in UserIds
    BY DEF Stored
  <2>3. ASSUME NEW p \in Words,
               Take(h, [Idle EXCEPT !.pc = "firstPassword", !.user = u, !.password = p])
        PROVE  \E x : Becomes(h, x)
    <3> DEFINE r == [Idle EXCEPT !.pc = "firstPassword", !.user = u, !.password = p]
    <3>1. r \in Request /\ RequestOK(r) /\ r.pc = "firstPassword"
      BY <2>2 DEF Idle, Request, Labels, RequestOK
    <3> QED BY <1>t, <2>3, <3>1
  <2>4. CASE Take(h, [Idle EXCEPT !.pc = "createToken", !.user = u])
    <3> DEFINE r == [Idle EXCEPT !.pc = "createToken", !.user = u]
    <3>1. r \in Request /\ RequestOK(r) /\ r.pc = "createToken"
      BY <2>2 DEF Idle, Request, Labels, RequestOK
    <3> QED BY <1>t, <2>4, <3>1
  <2> QED BY <2>1, <2>3, <2>4
<1>4. CASE LoginFirstPassword(h)
  <2>1. req[h].pc = "firstPassword" /\ GoOn(h, "clearFlag")
    BY <1>4 DEF LoginFirstPassword, At
  <2>2. RequestOK([req[h] EXCEPT !.pc = "clearFlag"])
    BY <1>0, <2>1 DEF Request, RequestOK
  <2> QED BY <1>4, <2>1, <2>2, GoOnBecomes DEF Labels
<1>5. CASE LoginClearFlag(h)
  <2>1. req[h].pc = "clearFlag" /\ GoOn(h, "readAgain")
    BY <1>5 DEF LoginClearFlag, At
  <2>2. RequestOK([req[h] EXCEPT !.pc = "readAgain"])
    BY <1>0, <2>1 DEF Request, RequestOK
  <2> QED BY <2>1, <2>2, GoOnBecomes DEF Labels
<1>6. CASE LoginReadAgain(h)
  <2>1. req[h].pc = "readAgain" /\ GoOn(h, "createToken")
    BY <1>6 DEF LoginReadAgain, At
  <2>2. RequestOK([req[h] EXCEPT !.pc = "createToken"])
    BY <1>0, <2>1 DEF Request, RequestOK
  <2> QED BY <2>1, <2>2, GoOnBecomes DEF Labels
<1>7. CASE RefreshRead(h)
  <2>1. PICK s \in Sessions :
          Take(h, [Idle EXCEPT !.pc = "rotate", !.session = s, !.user = session[s].user,
                               !.token = session[s].token])
    BY <1>7 DEF RefreshRead
  <2> DEFINE r == [Idle EXCEPT !.pc = "rotate", !.session = s, !.user = session[s].user,
                               !.token = session[s].token]
  <2>2. s \in SessionIds /\ session[s].user \in UserIds /\ session[s].token \in Tokens
    BY SessionTyped
  <2>3. r \in Request /\ RequestOK(r) /\ r.pc = "rotate"
    BY <2>2 DEF Idle, Request, Labels, RequestOK
  <2> QED BY <1>t, <1>7, <2>1, <2>3
<1>8. CASE ResetRead(h)
  <2>1. PICK u \in Active, p \in Words :
          /\ otp[u] # Null
          /\ Take(h, [Idle EXCEPT !.pc = "setPassword", !.user = u, !.password = p,
                                  !.otp = otp[u]])
    BY <1>8 DEF ResetRead
  <2> DEFINE r == [Idle EXCEPT !.pc = "setPassword", !.user = u, !.password = p, !.otp = otp[u]]
  <2>2. u \in UserIds /\ otp[u] \in OtpRow
    BY <2>1 DEF Active, Stored, TypeOK
  <2>3. r \in Request /\ RequestOK(r) /\ r.pc = "setPassword"
    BY <2>2 DEF Idle, Request, Labels, RequestOK
  <2> QED BY <1>t, <2>1, <2>3
<1>9. CASE ResetPassword(h)
  <2>1. req[h].pc = "setPassword" /\ GoOn(h, "deleteOtp")
    BY <1>9 DEF ResetPassword, At
  <2>2. RequestOK([req[h] EXCEPT !.pc = "deleteOtp"])
    BY <1>0, <2>1 DEF Request, RequestOK
  <2> QED BY <2>1, <2>2, GoOnBecomes DEF Labels
<1> QED BY <1>1, <1>2, <1>3, <1>4, <1>5, <1>6, <1>7, <1>8, <1>9 DEF Step

\* The operations that are one step.
AtOnce == Logout \/ ForgotPassword \/ ChangeOldPassword \/ AddUser \/ SetStatus \/ RemoveUser

LEMMA AtOnceKeepsRequests == AtOnce => req' = req /\ tokens' = tokens /\ rotated' = rotated
BY DEF AtOnce, Logout, ForgotPassword, ChangeOldPassword, AddUser, SetStatus, RemoveUser

\* Who is where after a step: whoever was there, or the handler that made it.
LEMMA ArrivesBy ==
  ASSUME TypeOK, [Next]_vars, NEW g \in Handlers
  PROVE  /\ req'[g].pc = "createRoot" => req'[g] = req[g] \/ RootRead(g)
         /\ req'[g].pc = "rotate" => req'[g] = req[g] \/ RefreshRead(g)
         /\ req'[g].pc = "clearFlag" => req'[g] = req[g] \/ LoginFirstPassword(g)
<1>1. ASSUME NEW h \in Handlers, Step(h)
      PROVE  /\ req'[g].pc = "createRoot" => req'[g] = req[g] \/ RootRead(g)
             /\ req'[g].pc = "rotate" => req'[g] = req[g] \/ RefreshRead(g)
             /\ req'[g].pc = "clearFlag" => req'[g] = req[g] \/ LoginFirstPassword(g)
  <2>1. PICK r : Becomes(h, r)
    BY <1>1, StepBecomes
  <2>2. IF g = h THEN req'[g] = r ELSE req'[g] = req[g]
    BY <2>1 DEF Becomes, TypeOK
  <2> QED BY <2>1, <2>2 DEF Becomes
<1>2. CASE AtOnce \/ UNCHANGED vars
  BY <1>2, AtOnceKeepsRequests DEF vars
<1> QED BY <1>1, <1>2 DEF Next, AtOnce
-----------------------------------------------------------------------------
(* What a step may do to the table of users *)

\* A user is stored once, keeps his role of root, and keeps a password he sent.
UsersAge ==
  \A u \in UserIds :
    /\ user[u].row = "deleted" => user'[u].row = "deleted"
    /\ user[u].row = "stored"  =>
         \/ user'[u].row = "deleted"
         \/ /\ user'[u].row = "stored"
            /\ user'[u].root = user[u].root
            /\ user[u].password.by = "user" => user'[u].password.by = "user"

\* Nobody gets to lose the flag with the hash that was mailed.
FlagsAgree == \A u \in UserIds : user'[u].row = "stored" /\ ~user'[u].first
                                 => user'[u].password.by = "user"

LEMMA SetPasswordIsSound ==
  ASSUME TypeOK, FirstPasswordIsSent, NEW u \in Stored, NEW p \in Words,
         user' = SetPassword(u, p)
  PROVE  user' \in [UserIds -> UserRow] /\ UsersAge /\ FlagsAgree
         /\ user'[u].row = "stored" /\ user'[u].password.by = "user"
<1> DEFINE new == [user[u] EXCEPT !.password = Own(p)]
<1>1. u \in UserIds /\ new \in UserRow /\ new.row = "stored" /\ new.root = user[u].root
      /\ new.password = Own(p)
  <2>1. Own(p) \in Hash
    BY DEF Own, Hash
  <2> QED BY <2>1, StoredTyped DEF UserRow
<1>2. Own(p).by = "user"
  BY DEF Own
<1>3. \A v \in UserIds : user'[v] = IF v = u THEN new ELSE user[v]
  BY <1>1 DEF SetPassword, TypeOK
<1>4. user' \in [UserIds -> UserRow]
  BY <1>1 DEF SetPassword, TypeOK
<1> HIDE DEF new
<1> QED BY <1>1, <1>2, <1>3, <1>4 DEF UsersAge, FlagsAgree, FirstPasswordIsSent, Stored

LEMMA UserStep ==
  ASSUME IInv, [Next]_vars
  PROVE  user' \in [UserIds -> UserRow] /\ UsersAge /\ FlagsAgree
<1>0. TypeOK /\ FirstPasswordIsSent
  BY DEF IInv
<1>a. ASSUME NEW u \in Unused, NEW new \in UserRow, user' = [user EXCEPT ![u] = new],
             new.row = "stored", ~new.first => new.password.by = "user"
      PROVE  user' \in [UserIds -> UserRow] /\ UsersAge /\ FlagsAgree
  BY <1>0, <1>a DEF TypeOK, UsersAge, FlagsAgree, Unused, FirstPasswordIsSent, Stored
<1>1. ASSUME NEW h \in Handlers, RootCreate(h)
      PROVE  user' \in [UserIds -> UserRow] /\ UsersAge /\ FlagsAgree
  <2>1. PICK u \in Unused, p \in Words :
          user' = [user EXCEPT ![u] = [row |-> "stored", root |-> TRUE, active |-> TRUE,
                                       first |-> FALSE, password |-> Own(p)]]
    BY <1>1 DEF RootCreate
  <2> DEFINE new == [row |-> "stored", root |-> TRUE, active |-> TRUE, first |-> FALSE,
                     password |-> Own(p)]
  <2>2. new \in UserRow /\ new.row = "stored" /\ new.password.by = "user"
    BY DEF UserRow, Hash, Own
  <2> QED BY <1>a, <2>1, <2>2
<1>2. ASSUME NEW h \in Handlers, LoginFirstPassword(h)
      PROVE  user' \in [UserIds -> UserRow] /\ UsersAge /\ FlagsAgree
  <2>1. req[h].user \in Stored /\ req[h].password \in Words
    BY <1>0, <1>2 DEF LoginFirstPassword, TypeOK, RequestOK, At
  <2>2. user' = SetPassword(req[h].user, req[h].password)
    BY <1>2 DEF LoginFirstPassword, FirstChange, SetPassword
  <2> QED BY <1>0, <2>1, <2>2, SetPasswordIsSound
<1>3. ASSUME NEW h \in Handlers, LoginClearFlag(h)
      PROVE  user' \in [UserIds -> UserRow] /\ UsersAge /\ FlagsAgree
  <2> DEFINE u == req[h].user
             new == [user[u] EXCEPT !.first = FALSE]
  <2>1. u \in Stored /\ user' = [user EXCEPT ![u] = new]
    BY <1>0, <1>3 DEF LoginClearFlag, TypeOK
  <2>2. user[u].password.by = "user" /\ user[u].row = "stored"
    BY <1>3, <2>1 DEF IInv, PasswordsSent, LoginClearFlag, Stored
  <2>3. u \in UserIds /\ new \in UserRow /\ new.row = "stored" /\ new.root = user[u].root
        /\ new.password = user[u].password
    BY <1>0, <2>1, StoredTyped DEF UserRow
  <2>4. \A v \in UserIds : user'[v] = IF v = u THEN new ELSE user[v]
    BY <1>0, <2>1 DEF TypeOK
  <2>5. user' \in [UserIds -> UserRow]
    BY <1>0, <2>1, <2>3 DEF TypeOK
  <2> HIDE DEF new, u
  <2> QED BY <1>0, <2>2, <2>3, <2>4, <2>5 DEF UsersAge, FlagsAgree, FirstPasswordIsSent, Stored
<1>4. ASSUME NEW h \in Handlers, ResetPassword(h)
      PROVE  user' \in [UserIds -> UserRow] /\ UsersAge /\ FlagsAgree
  <2>1. req[h].user \in Stored /\ req[h].password \in Words
    BY <1>0, <1>4 DEF ResetPassword, TypeOK, RequestOK, At
  <2> QED BY <1>0, <1>4, <2>1, SetPasswordIsSound DEF ResetPassword
<1>5. CASE ChangeOldPassword
  BY <1>0, <1>5, SetPasswordIsSound DEF ChangeOldPassword
<1>6. CASE AddUser
  <2>1. PICK u \in Unused, p \in Words :
          user' = [user EXCEPT ![u] = [row |-> "stored", root |-> FALSE, active |-> TRUE,
                                       first |-> TRUE, password |-> Mailed(p)]]
    BY <1>6 DEF AddUser
  <2> DEFINE new == [row |-> "stored", root |-> FALSE, active |-> TRUE, first |-> TRUE,
                     password |-> Mailed(p)]
  <2>2. new \in UserRow /\ new.row = "stored" /\ new.first
    BY DEF UserRow, Hash, Mailed
  <2> QED BY <1>a, <2>1, <2>2
<1>7. CASE SetStatus
  <2>1. PICK u \in Stored : user' = [user EXCEPT ![u].active = ~@]
    BY <1>7 DEF SetStatus
  <2> DEFINE new == [user[u] EXCEPT !.active = ~user[u].active]
  <2>3. u \in UserIds /\ new \in UserRow /\ new.row = "stored" /\ new.root = user[u].root
        /\ new.password = user[u].password /\ new.first = user[u].first /\ user[u].row = "stored"
    BY <1>0, StoredTyped DEF UserRow
  <2>2. user' = [user EXCEPT ![u] = new]
    BY <1>0, <2>1, <2>3 DEF TypeOK
  <2>4. \A v \in UserIds : user'[v] = IF v = u THEN new ELSE user[v]
    BY <1>0, <2>2 DEF TypeOK
  <2>5. user' \in [UserIds -> UserRow]
    BY <1>0, <2>2, <2>3 DEF TypeOK
  <2> HIDE DEF new
  <2> QED BY <1>0, <2>3, <2>4, <2>5 DEF UsersAge, FlagsAgree, FirstPasswordIsSent, Stored
<1>8. CASE RemoveUser
  <2>1. PICK u \in Stored : user' = [user EXCEPT ![u] = NoUser("deleted")]
    BY <1>8 DEF RemoveUser
  <2>2. NoUser("deleted") \in UserRow /\ NoUser("deleted").row = "deleted"
    BY DEF UserRow, NoUser
  <2> QED BY <1>0, <2>1, <2>2 DEF TypeOK, UsersAge, FlagsAgree, FirstPasswordIsSent, Stored
<1>9. ASSUME user' = user PROVE user' \in [UserIds -> UserRow] /\ UsersAge /\ FlagsAgree
  BY <1>0, <1>9 DEF TypeOK, UsersAge, FlagsAgree, FirstPasswordIsSent, Stored
<1>10. ASSUME NEW h \in Handlers, Step(h), ~RootCreate(h), ~LoginFirstPassword(h),
              ~LoginClearFlag(h), ~ResetPassword(h)
       PROVE  user' = user
  BY <1>10 DEF Step, RootRead, LoginRead, LoginReadAgain, LoginCreateToken, RefreshRead,
               RefreshRotate, ResetRead, ResetDeleteOtp, Abort
<1>11. CASE Logout \/ ForgotPassword \/ UNCHANGED vars
  BY <1>9, <1>11 DEF Logout, ForgotPassword, vars
<1> QED BY <1>1, <1>2, <1>3, <1>4, <1>5, <1>6, <1>7, <1>8, <1>9, <1>10, <1>11 DEF Next

LEMMA PasswordsStep == IInv /\ [Next]_vars => FirstPasswordIsSent' /\ PasswordsSent'
<1> SUFFICES ASSUME IInv, [Next]_vars PROVE FirstPasswordIsSent' /\ PasswordsSent'
  OBVIOUS
<1>0. TypeOK /\ FirstPasswordIsSent /\ PasswordsSent /\ UsersAge /\ FlagsAgree
  BY UserStep DEF IInv
<1>1. FirstPasswordIsSent'
  BY <1>0 DEF FlagsAgree, FirstPasswordIsSent, Stored
<1>2. ASSUME NEW g \in Handlers, At(g, "clearFlag")'
      PROVE  LET row == user'[req'[g].user] IN
               row.row = "deleted" \/ (row.row = "stored" /\ row.password.by = "user")
  <2>1. CASE req'[g] = req[g]
    <3>1. req[g].user \in UserIds
      BY <1>0, <1>2, <2>1 DEF TypeOK, RequestOK, At
    <3> QED BY <1>0, <1>2, <2>1, <3>1 DEF PasswordsSent, UsersAge, At
  <2>2. CASE LoginFirstPassword(g)
    <3>1. req[g].user \in Stored /\ req[g].password \in Words
      BY <1>0, <2>2 DEF LoginFirstPassword, TypeOK, RequestOK, At
    <3>2. user' = SetPassword(req[g].user, req[g].password)
      BY <2>2 DEF LoginFirstPassword, FirstChange, SetPassword
    <3>3. req'[g].user = req[g].user
      BY <1>0, <2>2 DEF LoginFirstPassword, GoOn, TypeOK, Request
    <3> QED BY <1>0, <3>1, <3>2, <3>3, SetPasswordIsSound
  <2> QED BY <1>0, <1>2, <2>1, <2>2, ArrivesBy DEF At
<1> QED BY <1>1, <1>2 DEF PasswordsSent
-----------------------------------------------------------------------------
(* Roots *)

LEMMA Counted ==
  /\ IsFiniteSet(Roots) /\ Cardinality(Roots) \in Nat
  /\ IsFiniteSet(Creating) /\ Cardinality(Creating) \in Nat
  /\ Cardinality(Creating) <= Cardinality(Handlers) /\ Cardinality(Handlers) \in Nat
<1>1. Roots \in SUBSET UserIds /\ Creating \in SUBSET Handlers
  BY DEF Roots, Stored, Creating
<1>2. IsFiniteSet(Roots) /\ IsFiniteSet(Creating)
      /\ Cardinality(Creating) <= Cardinality(Handlers)
  BY <1>1, FS_Subset, UserAssumption, HandlerAssumption
<1> QED BY <1>2, FS_CardinalityType, HandlerAssumption

\* Only a registration stores a root: other steps leave no more of them.
LEMMA RootsShrink ==
  ASSUME IInv, [Next]_vars, \A h \in Handlers : ~RootCreate(h)
  PROVE  Roots' \subseteq Roots
<1> SUFFICES ASSUME NEW u \in UserIds, user'[u].row = "stored", user'[u].root
             PROVE  user[u].row = "stored" /\ user[u].root
  BY DEF Roots, Stored
<1>0. TypeOK /\ UsersAge /\ user[u].row \in {"unused", "deleted", "stored"}
  BY UserStep DEF IInv, TypeOK, UserRow, NoUser
<1>1. CASE AddUser
  BY <1>0, <1>1 DEF AddUser, Unused, UsersAge, TypeOK
<1>2. CASE user' = user
  BY <1>2
<1>3. CASE user[u].row # "unused"
  BY <1>0, <1>3 DEF UsersAge
<1>4. ASSUME user' # user, ~AddUser
      PROVE  user[u].row = "unused" => user'[u].row # "stored"
  <2>1. PICK v \in Stored : \A w \in UserIds \ {v} : user'[w] = user[w]
    <3>1. CASE \E h \in Handlers : LoginFirstPassword(h) \/ LoginClearFlag(h) \/ ResetPassword(h)
      BY <1>0, <3>1 DEF LoginFirstPassword, LoginClearFlag, ResetPassword, SetPassword, TypeOK
    <3>2. CASE ChangeOldPassword \/ SetStatus \/ RemoveUser
      BY <1>0, <3>2 DEF ChangeOldPassword, SetStatus, RemoveUser, SetPassword, TypeOK
    <3>3. CASE Logout \/ ForgotPassword \/ UNCHANGED vars
      BY <1>4, <3>3 DEF Logout, ForgotPassword, vars
    <3>4. ASSUME NEW h \in Handlers, Step(h), ~RootCreate(h), ~LoginFirstPassword(h),
                  ~LoginClearFlag(h), ~ResetPassword(h)
           PROVE  FALSE
      BY <1>4, <3>4 DEF Step, RootRead, LoginRead, LoginReadAgain, LoginCreateToken, RefreshRead,
                   RefreshRotate, ResetRead, ResetDeleteOtp, Abort
    <3> QED BY <1>4, <3>1, <3>2, <3>3, <3>4 DEF Next
  <2> QED BY <2>1 DEF Stored
<1> QED BY <1>0, <1>1, <1>2, <1>3, <1>4

LEMMA RootsStep == IInv /\ [Next]_vars => RootsCounted'
<1> SUFFICES ASSUME IInv, [Next]_vars, Roots' # {}
             PROVE  Cardinality(Roots') + Cardinality(Creating') <= Cardinality(Handlers)
  BY DEF RootsCounted
<1>0. TypeOK /\ RootsCounted
  BY DEF IInv
<1>1. ASSUME NEW h \in Handlers, RootCreate(h)
      PROVE  Cardinality(Roots') + Cardinality(Creating') <= Cardinality(Handlers)
  <2>1. PICK u \in Unused, p \in Words :
          user' = [user EXCEPT ![u] = [row |-> "stored", root |-> TRUE, active |-> TRUE,
                                       first |-> FALSE, password |-> Own(p)]]
    BY <1>1 DEF RootCreate
  <2>2. Roots' \subseteq Roots \cup {u}
    BY <1>0, <2>1 DEF Roots, Stored, TypeOK
  <2>3. h \in Creating /\ Creating' \subseteq Creating \ {h}
    BY <1>0, <1>1, IdleTyped DEF RootCreate, Creating, Reply, At, TypeOK
  <2>4. Cardinality(Roots') <= Cardinality(Roots) + 1 /\ Cardinality(Roots') \in Nat
    <3>1. IsFiniteSet(Roots \cup {u})
          /\ Cardinality(Roots \cup {u})
               = IF u \in Roots THEN Cardinality(Roots) ELSE Cardinality(Roots) + 1
      BY Counted, FS_AddElement
    <3>2. Cardinality(Roots') <= Cardinality(Roots \cup {u}) /\ IsFiniteSet(Roots')
      BY <2>2, <3>1, FS_Subset
    <3> QED BY <3>1, <3>2, Counted, FS_CardinalityType
  <2>5. Cardinality(Creating') <= Cardinality(Creating) - 1 /\ Cardinality(Creating') \in Nat
    <3>1. IsFiniteSet(Creating \ {h}) /\ Cardinality(Creating \ {h}) = Cardinality(Creating) - 1
      BY <2>3, Counted, FS_RemoveElement
    <3>2. Cardinality(Creating') <= Cardinality(Creating \ {h}) /\ IsFiniteSet(Creating')
      BY <2>3, <3>1, FS_Subset
    <3> QED BY <3>1, <3>2, Counted, FS_CardinalityType
  <2>6. CASE Roots = {}
    <3>1. Cardinality(Roots) = 0
      BY <2>6, FS_EmptySet
    <3> QED BY <2>4, <2>5, <3>1, Counted
  <2>7. CASE Roots # {}
    BY <1>0, <2>4, <2>5, <2>7, Counted DEF RootsCounted
  <2> QED BY <2>6, <2>7
<1>2. CASE \A h \in Handlers : ~RootCreate(h)
  <2>1. Roots' \subseteq Roots
    BY <1>2, RootsShrink
  <2>2. Roots # {}
    BY <2>1
  <2>3. Creating' \subseteq Creating
    BY <1>0, <2>2, ArrivesBy DEF Creating, At, RootRead, NoRoot
  <2>4. Cardinality(Roots') <= Cardinality(Roots) /\ Cardinality(Roots') \in Nat
        /\ Cardinality(Creating') <= Cardinality(Creating) /\ Cardinality(Creating') \in Nat
    BY <2>1, <2>3, Counted, FS_Subset, FS_CardinalityType
  <2> QED BY <1>0, <2>2, <2>4, Counted DEF RootsCounted
<1> QED BY <1>1, <1>2
-----------------------------------------------------------------------------
(* Sessions and refresh tokens *)

\* A row of a session is given out once.
SessionsAge ==
  \A s \in SessionIds : session[s].row = "deleted" => session'[s].row = "deleted"

\* Sessions may end, and stay what they are.
SessionsEnd ==
  \A s \in SessionIds : session'[s] = session[s] \/ session'[s] = NoSession("deleted")

LEMMA EndTyped ==
  NoSession("deleted") \in SessionRow /\ NoSession("deleted").row = "deleted"
BY DEF SessionRow, NoSession

\* Two steps store a session, with the token they have just made.
LEMMA NewSession ==
  ASSUME TypeOK, NEW h \in Handlers, LoginCreateToken(h) \/ RefreshRotate(h)
  PROVE  \E s \in SessionIds, u \in UserIds :
           /\ session[s].row # "deleted"
           /\ session[s].row = "stored" <=> RefreshRotate(h)
           /\ RefreshRotate(h) => s = req[h].session
           /\ tokens + 1 \in Tokens /\ tokens' = tokens + 1
           /\ session' = [session EXCEPT ![s] = [row |-> "stored", user |-> u,
                                                 token |-> tokens + 1]]
<1>0. RequestOK(req[h]) /\ tokens \in 0..MaxTokens /\ MaxTokens \in Nat
  BY BoundAssumption DEF TypeOK
<1>1. CASE LoginCreateToken(h)
  <2>1. PICK s \in SessionIds :
          /\ session[s].row = "unused"
          /\ session' = [session EXCEPT ![s] = [row |-> "stored", user |-> req[h].user,
                                                token |-> tokens + 1]]
    BY <1>1 DEF LoginCreateToken
  <2>2. req[h].user \in UserIds /\ tokens + 1 \in Tokens /\ tokens' = tokens + 1
    BY <1>0, <1>1 DEF LoginCreateToken, Stored, Tokens
  <2>3. ~RefreshRotate(h)
    BY <1>1 DEF LoginCreateToken, RefreshRotate, At
  <2> QED BY <2>1, <2>2, <2>3
<1>2. CASE RefreshRotate(h)
  <2>1. req[h].session \in Sessions /\ req[h].user \in UserIds
        /\ tokens + 1 \in Tokens /\ tokens' = tokens + 1
    BY <1>0, <1>2 DEF RefreshRotate, StoredRow, At, RequestOK, Tokens
  <2>2. session' = [session EXCEPT ![req[h].session] =
                      [row |-> "stored", user |-> req[h].user, token |-> tokens + 1]]
    BY <1>2 DEF RefreshRotate, NewToken
  <2> QED BY <1>2, <2>1, <2>2 DEF Sessions
<1> QED BY <1>1, <1>2

LEMMA OthersEnd ==
  ASSUME TypeOK, [Next]_vars, \A h \in Handlers : ~LoginCreateToken(h) /\ ~RefreshRotate(h)
  PROVE  /\ SessionsEnd /\ tokens' = tokens /\ rotated' = rotated
         /\ session' \in [SessionIds -> SessionRow]
<1>1. ASSUME NEW h \in Handlers, Step(h)
      PROVE  session' = session /\ tokens' = tokens /\ rotated' = rotated
  BY <1>1 DEF Step, RootRead, RootCreate, LoginRead, LoginFirstPassword, LoginClearFlag,
              LoginReadAgain, RefreshRead, ResetRead, ResetPassword, ResetDeleteOtp, Abort
<1>2. ASSUME AtOnce
      PROVE  SessionsEnd /\ session' \in [SessionIds -> SessionRow]
  <2>1. CASE Logout \/ RemoveUser
    BY <2>1, EndTyped DEF Logout, RemoveUser, Cascaded, SessionsEnd, TypeOK
  <2>2. CASE session' = session
    BY <2>2 DEF SessionsEnd, TypeOK
  <2> QED BY <1>2, <2>1, <2>2 DEF AtOnce, ForgotPassword, ChangeOldPassword, AddUser, SetStatus
<1>3. ASSUME session' = session PROVE SessionsEnd /\ session' \in [SessionIds -> SessionRow]
  BY <1>3 DEF SessionsEnd, TypeOK
<1> QED BY <1>1, <1>2, <1>3, AtOnceKeepsRequests DEF Next, AtOnce, vars

LEMMA SessionsAgeStep == TypeOK /\ [Next]_vars => SessionsAge
<1> SUFFICES ASSUME TypeOK, [Next]_vars PROVE SessionsAge
  OBVIOUS
<1>1. CASE \E h \in Handlers : LoginCreateToken(h) \/ RefreshRotate(h)
  BY <1>1, NewSession DEF SessionsAge, TypeOK
<1>2. CASE \A h \in Handlers : ~LoginCreateToken(h) /\ ~RefreshRotate(h)
  BY <1>2, OthersEnd, EndTyped DEF SessionsEnd, SessionsAge
<1> QED BY <1>1, <1>2

LEMMA TokensStep == IInv /\ [Next]_vars => TokensUnique'
<1> SUFFICES ASSUME IInv, [Next]_vars PROVE TokensUnique'
  OBVIOUS
<1>0. TypeOK /\ TokensUnique /\ tokens \in 0..MaxTokens /\ MaxTokens \in Nat
  BY BoundAssumption DEF IInv, TypeOK
<1>t. \A s \in Sessions : s \in SessionIds /\ session[s].token \in Tokens
  BY <1>0, SessionTyped
<1>r. ASSUME NEW h \in Handlers, At(h, "rotate")
      PROVE  req[h].token \in Tokens /\ req[h].token <= tokens
             /\ req[h].token \in Nat /\ tokens \in Nat
  BY <1>0, <1>r DEF TokensUnique, TypeOK, RequestOK, At, Tokens
<1>1. ASSUME NEW h \in Handlers, LoginCreateToken(h) \/ RefreshRotate(h)
      PROVE  TokensUnique'
  <2>1. PICK s \in SessionIds, u \in UserIds :
           /\ session[s].row # "deleted"
           /\ session[s].row = "stored" <=> RefreshRotate(h)
           /\ RefreshRotate(h) => s = req[h].session
           /\ tokens + 1 \in Tokens /\ tokens' = tokens + 1
           /\ session' = [session EXCEPT ![s] = [row |-> "stored", user |-> u,
                                                 token |-> tokens + 1]]
    BY <1>0, <1>1, NewSession
  <2>2. /\ session'[s].row = "stored" /\ session'[s].token = tokens + 1
        /\ \A x \in SessionIds \ {s} : session'[x] = session[x]
    BY <1>0, <2>1 DEF TypeOK
  <2>3. \A x \in Sessions' \ {s} : x \in Sessions /\ session'[x].token = session[x].token
    BY <2>2 DEF Sessions
  <2>4. \A g \in Handlers : At(g, "rotate")' => req'[g] = req[g] /\ At(g, "rotate") /\ g # h
    <3>1. req' = [req EXCEPT ![h] = Idle]
      BY <1>1 DEF LoginCreateToken, RefreshRotate, Reply
    <3> QED BY <1>0, <3>1, IdleTyped DEF At, TypeOK
  <2>5. /\ \A t \in Tokens : t > tokens => rotated'[t] = 0
        /\ \A x \in Sessions' \ {s} : rotated'[session[x].token] = 0
    <3>1. CASE LoginCreateToken(h)
      BY <1>0, <2>3, <3>1 DEF LoginCreateToken, TokensUnique
    <3>2. CASE RefreshRotate(h)
      <4>1. At(h, "rotate") /\ s = req[h].session
            /\ rotated' = [rotated EXCEPT ![req[h].token] = @ + 1]
        BY <2>1, <3>2 DEF RefreshRotate
      <4>2. \A t \in Tokens : t > tokens => t # req[h].token
        BY <1>r, <4>1 DEF Tokens
      <4>3. \A x \in Sessions' \ {s} : session[x].token # req[h].token
        BY <1>0, <2>3, <4>1 DEF TokensUnique
      <4>4. \A t \in Tokens : t # req[h].token => rotated'[t] = rotated[t]
        BY <1>0, <4>1 DEF TypeOK
      <4>5. \A t \in Tokens : t > tokens => rotated'[t] = 0
        BY <1>0, <4>2, <4>4 DEF TokensUnique
      <4>6. \A x \in Sessions' \ {s} : rotated'[session[x].token] = 0
        BY <1>0, <1>t, <2>3, <4>3, <4>4 DEF TokensUnique
      <4> QED BY <4>5, <4>6
    <3> QED BY <1>1, <3>1, <3>2
  <2>6. \A t \in Tokens : t > tokens' => rotated'[t] = 0
    BY <1>0, <2>1, <2>5 DEF Tokens
  <2>7. \A g \in Handlers : At(g, "rotate")' => req'[g].token <= tokens'
    BY <1>r, <2>1, <2>4
  <2>8. ASSUME NEW x \in Sessions'
        PROVE  /\ session'[x].token <= tokens'
               /\ rotated'[session'[x].token] = 0
               /\ \A y \in Sessions' : session'[y].token = session'[x].token => y = x
               /\ \A g \in Handlers : At(g, "rotate")' /\ req'[g].token = session'[x].token
                                      => req'[g].session = x
    <3>0. \A y \in Sessions : session[y].token <= tokens /\ session[y].token \in Nat
      BY <1>0, <1>t DEF TokensUnique, Tokens
    <3>1. CASE x = s
      <4>1. \A y \in Sessions' : session'[y].token = session'[x].token => y = x
        BY <1>0, <2>2, <2>3, <3>0, <3>1
      <4>2. \A g \in Handlers : At(g, "rotate")' => req'[g].token # session'[x].token
        BY <1>r, <2>2, <2>4, <3>1
      <4> QED BY <1>0, <2>1, <2>2, <2>5, <3>1, <4>1, <4>2
    <3>2. CASE x # s
      <4>1. x \in Sessions /\ session'[x].token = session[x].token
        BY <2>3, <3>2
      <4>2. \A y \in Sessions' : session'[y].token = session'[x].token => y = x
        BY <1>0, <2>2, <2>3, <3>0, <4>1 DEF TokensUnique
      <4>3. \A g \in Handlers : At(g, "rotate")' /\ req'[g].token = session'[x].token
                                => req'[g].session = x
        BY <1>0, <2>4, <4>1 DEF TokensUnique
      <4> QED BY <1>0, <2>1, <2>5, <3>0, <3>2, <4>1, <4>2, <4>3
    <3> QED BY <3>1, <3>2
  <2> QED BY <2>6, <2>7, <2>8 DEF TokensUnique
<1>2. CASE \A h \in Handlers : ~LoginCreateToken(h) /\ ~RefreshRotate(h)
  <2>1. /\ tokens' = tokens /\ rotated' = rotated
        /\ \A x \in Sessions' : x \in Sessions /\ session'[x] = session[x]
    BY <1>0, <1>2, OthersEnd, EndTyped DEF SessionsEnd, Sessions
  <2>2. ASSUME NEW g \in Handlers, At(g, "rotate")'
        PROVE  /\ req'[g].token <= tokens
               /\ \A s \in Sessions : req'[g].token = session[s].token => req'[g].session = s
    <3>1. CASE req'[g] = req[g]
      BY <1>0, <1>r, <2>2, <3>1 DEF TokensUnique, At
    <3>2. CASE RefreshRead(g)
      <4>1. PICK s \in Sessions :
              req' = [req EXCEPT ![g] =
                        [Idle EXCEPT !.pc = "rotate", !.session = s, !.user = session[s].user,
                                     !.token = session[s].token]]
        BY <3>2 DEF RefreshRead, Take
      <4>2. req'[g].token = session[s].token /\ req'[g].session = s
        BY <1>0, <4>1 DEF TypeOK, Idle
      <4> QED BY <1>0, <4>2 DEF TokensUnique
    <3> QED BY <1>0, <2>2, <3>1, <3>2, ArrivesBy DEF At
  <2> QED BY <1>0, <2>1, <2>2 DEF TokensUnique
<1> QED BY <1>1, <1>2

LEMMA RotatingCounted ==
  ASSUME NEW t
  PROVE  /\ IsFiniteSet(Rotating(t)) /\ Cardinality(Rotating(t)) \in Nat
         /\ Cardinality(Rotating(t)) <= Cardinality(Handlers) /\ Cardinality(Handlers) \in Nat
<1>1. Rotating(t) \in SUBSET Handlers
  BY DEF Rotating
<1> QED BY <1>1, FS_Subset, FS_CardinalityType, HandlerAssumption

LEMMA RefreshesStep == IInv /\ [Next]_vars => RefreshesCounted'
<1> SUFFICES ASSUME IInv, [Next]_vars, NEW t \in Tokens
             PROVE  rotated'[t] + Cardinality(Rotating(t)') <= Cardinality(Handlers)
  BY DEF RefreshesCounted
<1>0. TypeOK /\ RefreshesCounted /\ TokensUnique /\ rotated[t] \in Nat
  BY DEF IInv, TypeOK
<1>c. /\ IsFiniteSet(Rotating(t)') /\ Cardinality(Rotating(t)') \in Nat
      /\ Cardinality(Rotating(t)') <= Cardinality(Handlers)
  <2>1. Rotating(t)' \in SUBSET Handlers
    BY DEF Rotating
  <2> QED BY <2>1, FS_Subset, FS_CardinalityType, HandlerAssumption
<1>k. ASSUME Rotating(t)' \subseteq Rotating(t), rotated'[t] = rotated[t]
      PROVE  rotated'[t] + Cardinality(Rotating(t)') <= Cardinality(Handlers)
  <2>1. Cardinality(Rotating(t)') <= Cardinality(Rotating(t))
    BY <1>k, RotatingCounted, FS_Subset
  <2> QED BY <1>0, <1>c, <1>k, <2>1, RotatingCounted DEF RefreshesCounted
<1>1. ASSUME NEW h \in Handlers, RefreshRotate(h)
      PROVE  rotated'[t] + Cardinality(Rotating(t)') <= Cardinality(Handlers)
  <2>1. /\ At(h, "rotate") /\ req' = [req EXCEPT ![h] = Idle]
        /\ rotated' = [rotated EXCEPT ![req[h].token] = @ + 1]
    BY <1>1 DEF RefreshRotate, Reply
  <2>2. Rotating(t)' \subseteq Rotating(t) \ {h}
    BY <1>0, <2>1, IdleTyped DEF Rotating, At, TypeOK
  <2>3. CASE req[h].token = t
    <3>1. h \in Rotating(t) /\ rotated'[t] = rotated[t] + 1
      BY <1>0, <2>1, <2>3 DEF Rotating, TypeOK
    <3>2. IsFiniteSet(Rotating(t) \ {h})
          /\ Cardinality(Rotating(t) \ {h}) = Cardinality(Rotating(t)) - 1
      BY <3>1, RotatingCounted, FS_RemoveElement
    <3>3. Cardinality(Rotating(t)') <= Cardinality(Rotating(t)) - 1
      BY <2>2, <3>2, FS_Subset
    <3> QED BY <1>0, <1>c, <3>1, <3>3, RotatingCounted DEF RefreshesCounted
  <2>4. CASE req[h].token # t
    BY <1>0, <1>k, <2>1, <2>2, <2>4 DEF TypeOK
  <2> QED BY <2>3, <2>4
<1>2. CASE \A h \in Handlers : ~RefreshRotate(h)
  <2>1. rotated' = rotated
    <3>1. ASSUME NEW h \in Handlers, Step(h) PROVE rotated' = rotated
      BY <1>2, <3>1 DEF Step, RootRead, RootCreate, LoginRead, LoginFirstPassword, LoginClearFlag,
              LoginReadAgain, LoginCreateToken, RefreshRead, ResetRead, ResetPassword,
              ResetDeleteOtp, Abort
    <3> QED BY <3>1, AtOnceKeepsRequests DEF Next, AtOnce, vars
  <2>2. CASE Rotating(t)' \subseteq Rotating(t)
    BY <1>k, <2>1, <2>2
  <2>3. CASE ~(Rotating(t)' \subseteq Rotating(t))
    <3>1. PICK g \in Handlers : /\ req'[g].pc = "rotate" /\ req'[g].token = t
                                /\ g \notin Rotating(t)
      BY <2>3 DEF Rotating, At
    <3>2. RefreshRead(g)
      BY <1>0, <3>1, ArrivesBy DEF Rotating, At
    <3>3. PICK s \in Sessions :
            req' = [req EXCEPT ![g] =
                      [Idle EXCEPT !.pc = "rotate", !.session = s, !.user = session[s].user,
                                   !.token = session[s].token]]
      BY <3>2 DEF RefreshRead, Take
    <3>4. session[s].token = t
      BY <1>0, <3>1, <3>3 DEF TypeOK, Idle
    <3>5. rotated[t] = 0
      BY <1>0, <3>4 DEF TokensUnique
    <3> QED BY <1>c, <2>1, <3>5
  <2> QED BY <2>2, <2>3
<1> QED BY <1>1, <1>2
-----------------------------------------------------------------------------
(* The invariant *)

LEMMA TypeStep == IInv /\ [Next]_vars => TypeOK'
<1> SUFFICES ASSUME IInv, [Next]_vars PROVE TypeOK'
  OBVIOUS
<1>0. TypeOK /\ user' \in [UserIds -> UserRow]
  BY UserStep DEF IInv
<1>1. /\ session' \in [SessionIds -> SessionRow] /\ tokens' \in 0..MaxTokens
  <2>1. CASE \A h \in Handlers : ~LoginCreateToken(h) /\ ~RefreshRotate(h)
    BY <1>0, <2>1, OthersEnd DEF TypeOK
  <2>2. ASSUME NEW h \in Handlers, LoginCreateToken(h) \/ RefreshRotate(h)
        PROVE  session' \in [SessionIds -> SessionRow] /\ tokens' \in 0..MaxTokens
    <3>1. PICK s \in SessionIds, u \in UserIds :
           /\ tokens + 1 \in Tokens /\ tokens' = tokens + 1
           /\ session' = [session EXCEPT ![s] = [row |-> "stored", user |-> u,
                                                 token |-> tokens + 1]]
      BY <1>0, <2>2, NewSession
    <3>2. [row |-> "stored", user |-> u, token |-> tokens + 1] \in SessionRow
      BY <3>1 DEF SessionRow
    <3>3. tokens + 1 \in 0..MaxTokens
      BY <3>1, BoundAssumption DEF Tokens
    <3> QED BY <1>0, <3>1, <3>2, <3>3 DEF TypeOK
  <2> QED BY <2>1, <2>2
<1>2. rotated' \in [Tokens -> Nat]
  <2>1. ASSUME NEW h \in Handlers, RefreshRotate(h) PROVE rotated' \in [Tokens -> Nat]
    <3>1. req[h].token \in Tokens
      BY <1>0, <2>1 DEF RefreshRotate, TypeOK, RequestOK, At
    <3>2. rotated' = [rotated EXCEPT ![req[h].token] = rotated[req[h].token] + 1]
          /\ rotated[req[h].token] + 1 \in Nat
      BY <1>0, <2>1, <3>1 DEF RefreshRotate, TypeOK
    <3> QED BY <1>0, <3>2 DEF TypeOK
  <2>2. ASSUME NEW h \in Handlers, LoginCreateToken(h) PROVE rotated' \in [Tokens -> Nat]
    BY <1>0, <2>2 DEF LoginCreateToken, TypeOK
  <2>3. CASE \A h \in Handlers : ~LoginCreateToken(h) /\ ~RefreshRotate(h)
    BY <1>0, <2>3, OthersEnd DEF TypeOK
  <2> QED BY <2>1, <2>2, <2>3
<1>3. otp' \in [UserIds -> OtpRow \cup {Null}] /\ codes' \in 0..MaxCodes
  <2>1. CASE ForgotPassword
    <3>1. codes < MaxCodes /\ codes \in Nat /\ MaxCodes \in Nat /\ codes' = codes + 1
      BY <1>0, <2>1, BoundAssumption DEF ForgotPassword, TypeOK
    <3>2. codes + 1 \in Codes
      BY <3>1 DEF Codes
    <3>3. PICK u \in UserIds : otp' =
            [otp EXCEPT ![u] = [row |-> IF otp[u] = Null THEN codes + 1 ELSE otp[u].row,
                                code |-> codes + 1]]
      BY <1>0, <2>1 DEF ForgotPassword, TypeOK, Active, Stored
    <3>4. [row |-> IF otp[u] = Null THEN codes + 1 ELSE otp[u].row, code |-> codes + 1] \in OtpRow
      BY <1>0, <3>2 DEF OtpRow, TypeOK
    <3>5. codes' \in 0..MaxCodes
      BY <3>1
    <3> QED BY <1>0, <3>3, <3>4, <3>5 DEF TypeOK
  <2>2. CASE RemoveUser
    BY <1>0, <2>2 DEF RemoveUser, TypeOK
  <2>3. ASSUME NEW h \in Handlers, ResetDeleteOtp(h)
        PROVE  otp' \in [UserIds -> OtpRow \cup {Null}] /\ codes' \in 0..MaxCodes
    BY <1>0, <2>3 DEF ResetDeleteOtp, TypeOK
  <2>4. ASSUME NEW h \in Handlers, Step(h), ~ResetDeleteOtp(h)
        PROVE  otp' = otp /\ codes' = codes
    BY <2>4 DEF Step, RootRead, RootCreate, LoginRead, LoginFirstPassword, LoginClearFlag,
              LoginReadAgain, LoginCreateToken, RefreshRead, RefreshRotate, ResetRead,
              ResetPassword, Abort
  <2>5. CASE Logout \/ ChangeOldPassword \/ AddUser \/ SetStatus \/ UNCHANGED vars
    BY <1>0, <2>5 DEF Logout, ChangeOldPassword, AddUser, SetStatus, vars, TypeOK
  <2> QED BY <1>0, <2>1, <2>2, <2>3, <2>4, <2>5 DEF Next, TypeOK
<1>4. req' \in [Handlers -> Request] /\ \A g \in Handlers : RequestOK(req'[g])
  <2>1. ASSUME NEW h \in Handlers, Step(h)
        PROVE  req' \in [Handlers -> Request] /\ \A g \in Handlers : RequestOK(req'[g])
    BY <1>0, <2>1, StepBecomes DEF Becomes, TypeOK
  <2>2. CASE AtOnce \/ UNCHANGED vars
    BY <1>0, <2>2, AtOnceKeepsRequests DEF vars, TypeOK
  <2> QED BY <2>1, <2>2 DEF Next, AtOnce
<1> QED BY <1>0, <1>1, <1>2, <1>3, <1>4 DEF TypeOK

LEMMA InvInit == Init => IInv
<1> SUFFICES ASSUME Init PROVE IInv
  OBVIOUS
<1>0. Roots = {} /\ Sessions = {} /\ Stored = {} /\ \A h \in Handlers : req[h].pc = "idle"
  BY IdleTyped DEF Init, Roots, Stored, Sessions, NoUser, NoSession
<1>1. TypeOK
  BY IdleTyped, BoundAssumption DEF Init, TypeOK, UserRow, SessionRow
<1>2. RefreshesCounted
  <2>1. ASSUME NEW t \in Tokens PROVE rotated[t] + Cardinality(Rotating(t)) <= Cardinality(Handlers)
    BY RotatingCounted DEF Init
  <2> QED BY <2>1 DEF RefreshesCounted
<1>3. RootsCounted /\ TokensUnique /\ FirstPasswordIsSent /\ PasswordsSent
  BY <1>0 DEF Init, RootsCounted, TokensUnique, FirstPasswordIsSent, PasswordsSent, At
<1> QED BY <1>1, <1>2, <1>3 DEF IInv

LEMMA InvStep == IInv /\ [Next]_vars => IInv'
BY TypeStep, RootsStep, RefreshesStep, TokensStep, PasswordsStep DEF IInv

LEMMA InvBounds == IInv => RootsBounded /\ RefreshesBounded
<1> SUFFICES ASSUME IInv PROVE RootsBounded /\ RefreshesBounded
  OBVIOUS
<1>1. RootsBounded
  <2>1. CASE Roots = {}
    BY <2>1, Counted, FS_EmptySet DEF RootsBounded
  <2>2. CASE Roots # {}
    BY <2>2, Counted DEF IInv, RootsCounted, RootsBounded
  <2> QED BY <2>1, <2>2
<1>2. RefreshesBounded
  <2> SUFFICES ASSUME NEW t \in Tokens PROVE rotated[t] <= Cardinality(Handlers)
    BY DEF RefreshesBounded
  <2>1. rotated[t] \in Nat /\ rotated[t] + Cardinality(Rotating(t)) <= Cardinality(Handlers)
    BY DEF IInv, TypeOK, RefreshesCounted
  <2> QED BY <2>1, RotatingCounted
<1> QED BY <1>1, <1>2

LEMMA Inductive == Spec => []IInv
BY InvInit, InvStep, PTL DEF Spec

\* Rows, sessions and requests have their types, whatever races.
THEOREM UsersTyped == Spec => []TypeOK
<1>1. IInv => TypeOK
  BY DEF IInv
<1> QED BY <1>1, Inductive, PTL

\* Requests that race register no more roots than they are.
THEOREM RootsStayBounded == Spec => []RootsBounded
<1>1. IInv => RootsBounded
  BY InvBounds DEF IInv
<1> QED BY <1>1, Inductive, PTL

\* A refresh token is used no more often than requests are served at once.
THEOREM UsersSafe == Spec => []RefreshesBounded
<1>1. IInv => RefreshesBounded
  BY InvBounds DEF IInv
<1> QED BY <1>1, Inductive, PTL

\* Whoever has done his first login has sent the password whose hash is stored, be
\* it the one he was mailed.
THEOREM FirstPasswordsAreSent == Spec => []FirstPasswordIsSent
<1>1. IInv => FirstPasswordIsSent
  BY InvBounds DEF IInv
<1> QED BY <1>1, Inductive, PTL

\* A session that ended is not stored again, whatever refresh had read its row.
THEOREM SessionsAreOver == Spec => SessionsEndForGood
<1>1. IInv /\ [Next]_vars =>
        [\A s \in SessionIds : session[s].row = "deleted" => session'[s].row = "deleted"]_vars
  BY SessionsAgeStep DEF IInv, SessionsAge
<1> QED BY <1>1, InvInit, InvStep, PTL DEF Spec, SessionsEndForGood
=============================================================================
