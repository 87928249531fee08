----------------------------- MODULE StaffProofs -----------------------------
(* Theorems about Staff, for every value of its constants. *)
EXTENDS Staff, TLAPS

\* What an idle handler carries.
LEMMA IdleTyped ==
  /\ Idle \in Request /\ RequestOK(Idle) /\ Idle.pc = "idle"
  /\ Idle.held = {} /\ Idle.holder = Null
BY DEF Idle, Request, Labels, RequestOK

\* The rows of a transaction, by their position.
LEMMA UpdatesListed ==
  ASSUME NEW r
  PROVE  /\ r.holder = Null =>
              /\ DOMAIN Updates(r) = 1..2
              /\ Updates(r)[1] = <<"staff", r.person>>
              /\ Updates(r)[2] = <<"credential", r.person>>
         /\ r.holder # Null =>
              /\ DOMAIN Updates(r) = 1..4
              /\ Updates(r)[1] = <<"credential", r.holder>>
              /\ Updates(r)[2] = <<"staff", r.holder>>
              /\ Updates(r)[3] = <<"staff", r.person>>
              /\ Updates(r)[4] = <<"credential", r.person>>
BY DEF Updates, OwnRows

LEMMA UpdatesRange ==
  ASSUME NEW r
  PROVE  {Updates(r)[i] : i \in DOMAIN Updates(r)} =
           {<<"staff", r.person>>, <<"credential", r.person>>}
           \cup IF r.holder = Null THEN {} ELSE {<<"staff", r.holder>>, <<"credential", r.holder>>}
<1>1. CASE r.holder = Null
  <2>1. DOMAIN Updates(r) = {1, 2}
    BY <1>1, UpdatesListed
  <2>2. {Updates(r)[i] : i \in {1, 2}} = {Updates(r)[1], Updates(r)[2]}
    OBVIOUS
  <2> QED BY <1>1, <2>1, <2>2, UpdatesListed
<1>2. CASE r.holder # Null
  <2>1. DOMAIN Updates(r) = {1, 2, 3, 4}
    BY <1>2, UpdatesListed
  <2>2. {Updates(r)[i] : i \in {1, 2, 3, 4}}
          = {Updates(r)[1], Updates(r)[2], Updates(r)[3], Updates(r)[4]}
    OBVIOUS
  <2> QED BY <1>2, <2>1, <2>2, UpdatesListed
<1> QED BY <1>1, <1>2

\* The next row is the first that is not locked yet.
LEMMA NextRowIsFirst ==
  ASSUME NEW r, Pending(r) # {}
  PROVE  \E i \in Pending(r) : /\ NextRow(r) = Updates(r)[i]
                               /\ \A j \in Pending(r) : i <= j
<1> DEFINE First(i) == \A j \in Pending(r) : i <= j
<1>1. Pending(r) \subseteq 1..4
  BY UpdatesListed DEF Pending
<1>2. \E i \in Pending(r) : First(i)
  <2>1. CASE 1 \in Pending(r)
    BY <1>1, <2>1
  <2>2. CASE 1 \notin Pending(r) /\ 2 \in Pending(r)
    BY <1>1, <2>2
  <2>3. CASE 1 \notin Pending(r) /\ 2 \notin Pending(r) /\ 3 \in Pending(r)
    BY <1>1, <2>3
  <2>4. CASE 1 \notin Pending(r) /\ 2 \notin Pending(r) /\ 3 \notin Pending(r)
    BY <1>1, <2>4
  <2> QED BY <2>1, <2>2, <2>3, <2>4
<1> DEFINE k == CHOOSE i \in Pending(r) : First(i)
<1>3. k \in Pending(r) /\ First(k)
  BY <1>2
<1>4. NextRow(r) = Updates(r)[k]
  BY DEF NextRow
<1> QED BY <1>3, <1>4

\* A row that a transaction is still to lock is one of its four.
LEMMA NextRowTyped ==
  ASSUME TypeOK, NEW h \in Handlers, At(h, "update"), Pending(req[h]) # {}
  PROVE  /\ NextRow(req[h]) \in Rows \ req[h].held
         /\ req[h].holder = Null => NextRow(req[h]) \in {<<"staff", req[h].person>>,
                                                         <<"credential", req[h].person>>}
<1> DEFINE r == req[h]
<1>1. r.person \in People /\ r.holder \in People \cup {Null}
  BY DEF TypeOK, Request, RequestOK, At
<1>2. PICK i \in Pending(r) : NextRow(r) = Updates(r)[i]
  BY NextRowIsFirst
<1>3. i \in DOMAIN Updates(r) /\ Updates(r)[i] \notin r.held
  BY DEF Pending
<1>4. NextRow(r) \in {<<"staff", r.person>>, <<"credential", r.person>>}
        \cup IF r.holder = Null THEN {} ELSE {<<"staff", r.holder>>, <<"credential", r.holder>>}
  BY <1>2, <1>3, UpdatesRange
<1>5. \A p \in People : <<"staff", p>> \in Rows /\ <<"credential", p>> \in Rows
  BY DEF Rows
<1> QED BY <1>1, <1>2, <1>3, <1>4, <1>5

\* Without a transfer the login is next only when the member is locked.
LEMMA FirstIsStaff ==
  ASSUME NEW r, r.holder = Null, Pending(r) # {}
  PROVE  NextRow(r) = <<"credential", r.person>> => <<"staff", r.person>> \in r.held
<1>1. PICK i \in Pending(r) : /\ NextRow(r) = Updates(r)[i]
                              /\ \A j \in Pending(r) : i <= j
  BY NextRowIsFirst
<1>2. DOMAIN Updates(r) = 1..2 /\ Updates(r)[1] = <<"staff", r.person>>
      /\ Updates(r)[2] = <<"credential", r.person>>
  BY UpdatesListed
<1>3. CASE 1 \in Pending(r)
  <2>1. i \in 1..2 /\ i <= 1
    BY <1>1, <1>2, <1>3 DEF Pending
  <2>2. i = 1
    BY <2>1
  <2>3. NextRow(r)[1] = "staff"
    BY <1>1, <1>2, <2>2
  <2> QED BY <2>3
<1>4. CASE 1 \notin Pending(r)
  BY <1>2, <1>4 DEF Pending
<1> QED BY <1>3, <1>4

\* A transaction that commits has locked the rows it writes.
LEMMA CommitHolds ==
  ASSUME TypeOK, NEW h \in Handlers, At(h, "update"), Pending(req[h]) = {}
  PROVE  \A p \in {req[h].person, req[h].holder} \ {Null} :
           <<"staff", p>> \in req[h].held /\ <<"credential", p>> \in req[h].held
<1> DEFINE r == req[h]
<1>1. \A i \in DOMAIN Updates(r) : Updates(r)[i] \in r.held
  BY DEF Pending
<1>2. {Updates(r)[i] : i \in DOMAIN Updates(r)} =
           {<<"staff", r.person>>, <<"credential", r.person>>}
           \cup IF r.holder = Null THEN {} ELSE {<<"staff", r.holder>>, <<"credential", r.holder>>}
  BY UpdatesRange
<1> QED BY <1>1, <1>2

\* So nobody becomes a member, or gets a login, by an edit.
LEMMA CommitKeepsRows ==
  ASSUME TypeOK, LocksHold, NEW h \in Handlers, EditCommit(h)
  PROVE  /\ Employed' = Employed /\ Enrolled' = Enrolled
         /\ staff' \in [People -> Roles \cup NoRow]
         /\ credential' \in [People -> Login \cup Nobody]
<1> DEFINE r == req[h]
<1>1. At(h, "update") /\ Pending(r) = {}
  BY DEF EditCommit
<1>2. r \in Request /\ r.person \in People /\ r.holder # r.person
  BY <1>1 DEF TypeOK, At, RequestOK
<1>3. \A p \in {r.person, r.holder} \ {Null} : p \in Employed /\ p \in Enrolled
  <2> SUFFICES ASSUME NEW p \in {r.person, r.holder} \ {Null} PROVE p \in Employed /\ p \in Enrolled
    OBVIOUS
  <2>1. <<"staff", p>> \in r.held /\ <<"credential", p>> \in r.held
    BY <1>1, CommitHolds
  <2>2. IsStored(<<"staff", p>>) /\ IsStored(<<"credential", p>>)
    BY <2>1 DEF LocksHold
  <2> QED BY <2>2 DEF IsStored
<1>4. r.holder \in People \cup {Null} /\ r.role \in Roles \cup {Null} /\ Null \notin People
      /\ Null \notin Roles
  BY <1>2, NullAssumption DEF Request
<1>5. \A p \in People : staff'[p] = StaffRole(r, p)
  BY DEF EditCommit
<1>6. \A p \in People : staff'[p] \in Roles <=> staff[p] \in Roles
  BY <1>2, <1>3, <1>4, <1>5 DEF StaffRole, Employed, Roles
<1>7. staff' \in [People -> Roles \cup NoRow]
  BY <1>4 DEF EditCommit, StaffRole, TypeOK, Roles
<1>8. \A p \in People : credential'[p] =
          IF p = r.person
          THEN [role   |-> IF r.role = Null THEN credential[p].role ELSE r.role,
                status |-> NewStatus(r, credential[p].status)]
          ELSE IF p = r.holder THEN [credential[p] EXCEPT !.role = "Admin"]
          ELSE credential[p]
  BY DEF EditCommit
<1>9. ASSUME NEW p \in People, p \in Enrolled PROVE credential[p] \in Login
  BY <1>9 DEF Enrolled, TypeOK, Login, Nobody, NoRow, Roles
<1>10. \A status \in {"Active", "Disabled"} : NewStatus(r, status) \in {"Active", "Disabled"}
  BY DEF NewStatus
<1>11. ASSUME NEW p \in People
       PROVE  /\ credential'[p] \in Login \cup Nobody
              /\ credential'[p].role \in Roles <=> credential[p].role \in Roles
  <2>1. CASE p = r.person
    <3>1. credential[p] \in Login
      BY <1>3, <1>4, <1>9, <2>1
    <3>2. credential'[p] = [role   |-> IF r.role = Null THEN credential[p].role ELSE r.role,
                            status |-> NewStatus(r, credential[p].status)]
      BY <1>8, <2>1
    <3> QED BY <1>4, <1>10, <3>1, <3>2 DEF Login
  <2>2. CASE p # r.person /\ p = r.holder
    <3>1. credential[p] \in Login
      BY <1>3, <1>4, <1>9, <2>2
    <3> QED BY <1>8, <2>2, <3>1 DEF Login, Roles
  <2>3. CASE p # r.person /\ p # r.holder
    BY <1>8, <2>3 DEF TypeOK
  <2> QED BY <2>1, <2>2, <2>3
<1>12. credential' \in [People -> Login \cup Nobody]
  BY <1>11 DEF EditCommit
<1> QED BY <1>6, <1>7, <1>11, <1>12 DEF Employed, Enrolled
-----------------------------------------------------------------------------
(* Type correctness *)

LEMMA TypeInit == Init => TypeOK
BY IdleTyped DEF Init, TypeOK, Roles, NoRow, Login, Nobody

\* Requests stay typed when one handler's does.
LEMMA RequestStep ==
  ASSUME TypeOK, NEW h \in Handlers, NEW r \in Request, RequestOK(r),
         req' = [req EXCEPT ![h] = r]
  PROVE  req' \in [Handlers -> Request] /\ \A g \in Handlers : RequestOK(req'[g])
BY DEF TypeOK

LEMMA ReplyStep ==
  ASSUME TypeOK, NEW h \in Handlers, Reply(h)
  PROVE  req' \in [Handlers -> Request] /\ \A g \in Handlers : RequestOK(req'[g])
BY IdleTyped, RequestStep DEF Reply

\* The credential of who is deleted, or added, is one.
LEMMA LoginTyped ==
  /\ [role |-> "deleted", status |-> "Disabled"] \in Nobody
  /\ [role |-> "Staff", status |-> "Active"] \in Login
  /\ "deleted" \in NoRow /\ "Staff" \in Roles
BY DEF Nobody, Login, NoRow, Roles

LEMMA TypeStep == TypeOK /\ LocksHold /\ [Next]_vars => TypeOK'
<1> SUFFICES ASSUME TypeOK, LocksHold, [Next]_vars PROVE TypeOK'
  OBVIOUS
<1> DEFINE ReqOK == req' \in [Handlers -> Request] /\ \A g \in Handlers : RequestOK(req'[g])
<1>q. ASSUME ReqOK, calm' \in BOOLEAN, UNCHANGED <<org, staff, credential, hours, halfDeleted>>
      PROVE  TypeOK'
  BY <1>q DEF TypeOK, Employed
<1>c. ASSUME Arrives PROVE calm' \in BOOLEAN
  BY <1>c DEF Arrives, TypeOK
<1>1. ASSUME NEW ps \in SUBSET People, Enrol(ps) PROVE TypeOK'
  <2>1. staff' \in [People -> Roles \cup NoRow] /\ credential' \in [People -> Login \cup Nobody]
    BY <1>1, LoginTyped DEF Enrol, TypeOK
  <2>2. Employed \subseteq Employed'
    BY <1>1, LoginTyped DEF Enrol, Employed
  <2> QED BY <1>1, <1>c, <2>1, <2>2 DEF Enrol, TypeOK
<1>2. ASSUME NEW h \in Handlers, EditRead(h) PROVE TypeOK'
  <2>1. PICK p \in Employed, role \in Roles \cup {Null},
             pc \in {"upsertHours", "findSuperAdmin", "update"} :
          Take(h, [Idle EXCEPT !.pc = pc, !.person = p, !.was = staff[p], !.role = role])
    BY <1>2 DEF EditRead, AfterHours
  <2> DEFINE r == [Idle EXCEPT !.pc = pc, !.person = p, !.was = staff[p], !.role = role]
  <2>2. p \in People /\ staff[p] \in Roles
    BY DEF Employed
  <2>3. r \in Request /\ RequestOK(r)
    BY <2>2, NullAssumption DEF Idle, Request, Labels, RequestOK
  <2>4. ReqOK
    BY <2>1, <2>3, RequestStep DEF Take
  <2> QED BY <1>2, <1>q, <1>c, <2>1, <2>4 DEF EditRead, Take
<1>13. ASSUME NEW h \in Handlers, EditHours(h) PROVE TypeOK'
  <2>1. PICK pc \in {"findSuperAdmin", "update"} :
          req' = [req EXCEPT ![h] = [@ EXCEPT !.pc = pc, !.held = {<<"hours", req[h].person>>}]]
    BY <1>13 DEF EditHours, AfterHours
  <2> DEFINE r == [req[h] EXCEPT !.pc = pc, !.held = {<<"hours", req[h].person>>}]
  <2>2. req[h] \in Request /\ RequestOK(req[h]) /\ req[h].pc = "upsertHours"
    BY <1>13 DEF EditHours, At, TypeOK
  <2>3. {<<"hours", req[h].person>>} \in SUBSET Rows
    BY <2>2 DEF RequestOK, Rows
  <2>4. r \in Request /\ RequestOK(r)
    BY <2>2, <2>3 DEF Request, RequestOK, Labels
  <2>5. ReqOK
    BY <2>1, <2>4, RequestStep DEF TypeOK
  <2> QED BY <1>13, <1>q, <2>5 DEF EditHours, TypeOK
<1>3. ASSUME NEW h \in Handlers, EditFindSuperAdmin(h) PROVE TypeOK'
  <2>1. PICK q \in People \cup {Null} :
          req' = [req EXCEPT ![h] = [@ EXCEPT !.pc = "update",
                                              !.holder = Demoted(req[h].person, q)]]
    BY <1>3 DEF EditFindSuperAdmin
  <2> DEFINE r == [req[h] EXCEPT !.pc = "update", !.holder = Demoted(req[h].person, q)]
  <2>2. req[h] \in Request /\ RequestOK(req[h]) /\ req[h].pc = "findSuperAdmin"
    BY <1>3 DEF EditFindSuperAdmin, At, TypeOK
  <2>3. Demoted(req[h].person, q) \in (People \cup {Null}) \ {req[h].person}
    BY <2>2, NullAssumption DEF Demoted, Employed, RequestOK
  <2>4. r \in Request /\ RequestOK(r)
    BY <2>2, <2>3 DEF Request, RequestOK, Labels
  <2>5. ReqOK
    BY <2>1, <2>4, RequestStep DEF TypeOK
  <2> QED BY <1>3, <1>q, <2>5 DEF EditFindSuperAdmin, TypeOK
<1>4. ASSUME NEW h \in Handlers, EditUpdate(h) PROVE TypeOK'
  <2> DEFINE row == NextRow(req[h])
             r == [req[h] EXCEPT !.held = req[h].held \cup {row}]
  <2>1. row \in Rows
    BY <1>4, NextRowTyped DEF EditUpdate
  <2>2. req[h] \in Request /\ RequestOK(req[h]) /\ req[h].pc = "update"
    BY <1>4 DEF EditUpdate, At, TypeOK
  <2>h. req[h].held \cup {row} \in SUBSET Rows
    BY <2>1, <2>2 DEF Request
  <2>4. req' = [req EXCEPT ![h] = r]
    BY <1>4 DEF EditUpdate, TypeOK
  <2> HIDE DEF row
  <2>3. r \in Request /\ RequestOK(r)
    BY <2>h, <2>2 DEF Request, RequestOK
  <2>5. ReqOK
    BY <2>3, <2>4, RequestStep
  <2> QED BY <1>4, <1>q, <2>5 DEF EditUpdate, TypeOK
<1>5. ASSUME NEW h \in Handlers, EditCommit(h) PROVE TypeOK'
  <2>1. ReqOK
    BY <1>5, ReplyStep DEF EditCommit
  <2>2. \A row \in req[h].held : IsStored(row)
    BY DEF LocksHold
  <2>3. hours' \subseteq Employed
    BY <1>5, <2>2 DEF EditCommit, IsStored, TypeOK
  <2> QED BY <1>5, <2>1, <2>3, CommitKeepsRows DEF EditCommit, Reply, TypeOK
<1>6. ASSUME NEW h \in Handlers, DeleteRead(h) PROVE TypeOK'
  <2>1. PICK p \in People : Take(h, [Idle EXCEPT !.pc = "deleteStaff", !.person = p])
    BY <1>6 DEF DeleteRead, MayDelete, Employed
  <2> DEFINE r == [Idle EXCEPT !.pc = "deleteStaff", !.person = p]
  <2>2. r \in Request /\ RequestOK(r)
    BY DEF Idle, Request, Labels, RequestOK
  <2>3. ReqOK
    BY <2>1, <2>2, RequestStep DEF Take
  <2> QED BY <1>6, <1>q, <1>c, <2>1, <2>3 DEF DeleteRead, Take
<1>7. ASSUME NEW h \in Handlers, DeleteStaff(h) PROVE TypeOK'
  <2> DEFINE r == [req[h] EXCEPT !.pc = "cascade", !.held = {<<"staff", req[h].person>>}]
  <2>1. req[h] \in Request /\ RequestOK(req[h]) /\ req[h].pc = "deleteStaff"
    BY <1>7 DEF DeleteStaff, At, TypeOK
  <2>2. {<<"staff", req[h].person>>} \in SUBSET Rows
    BY <2>1 DEF RequestOK, Rows
  <2>3. r \in Request /\ RequestOK(r)
    BY <2>1, <2>2 DEF Request, RequestOK, Labels
  <2>4. ReqOK
    BY <1>7, <2>3, RequestStep DEF DeleteStaff, TypeOK
  <2> QED BY <1>7, <1>q, <2>4 DEF DeleteStaff, TypeOK
<1>14. ASSUME NEW h \in Handlers, CascadeStaff(h) PROVE TypeOK'
  <2> DEFINE r == [req[h] EXCEPT !.pc = "deleteCredential", !.held = {}]
  <2>1. req[h] \in Request /\ RequestOK(req[h]) /\ req[h].pc = "cascade"
    BY <1>14 DEF CascadeStaff, At, TypeOK
  <2>2. r \in Request /\ RequestOK(r)
    BY <2>1 DEF Request, RequestOK, Labels
  <2>3. ReqOK
    BY <1>14, <2>2, RequestStep DEF CascadeStaff, AfterStaff, TypeOK
  <2>4. staff' \in [People -> Roles \cup NoRow]
    BY <1>14, LoginTyped DEF CascadeStaff, TypeOK
  <2>5. hours' \subseteq Employed'
    BY <1>14, <2>4 DEF CascadeStaff, TypeOK, Employed
  <2> QED BY <1>14, <2>3, <2>4, <2>5 DEF CascadeStaff, TypeOK
<1>8. ASSUME NEW h \in Handlers, DeleteCredential(h) PROVE TypeOK'
  <2>1. ReqOK
    BY <1>8, ReplyStep DEF DeleteCredential
  <2>2. credential' \in [People -> Login \cup Nobody]
    BY <1>8, LoginTyped DEF DeleteCredential, TypeOK
  <2> QED BY <1>8, <2>1, <2>2 DEF DeleteCredential, Reply, TypeOK, Employed
<1>9. ASSUME DeleteOrganization PROVE TypeOK'
  <2>1. staff' \in [People -> Roles \cup NoRow] /\ credential' \in [People -> Login \cup Nobody]
    BY <1>9, LoginTyped DEF DeleteOrganization, TypeOK
  <2> QED BY <1>9, <1>c, <2>1 DEF DeleteOrganization, TypeOK
<1>10. ASSUME NEW h \in Handlers, Abort(h) PROVE TypeOK'
  <2>1. ReqOK
    BY <1>10, IdleTyped, RequestStep DEF Abort
  <2>2. halfDeleted' \subseteq People /\ calm' \in BOOLEAN
    BY <1>10 DEF Abort, At, TypeOK, RequestOK
  <2> QED BY <1>10, <2>1, <2>2 DEF Abort, TypeOK, Employed
<1>11. CASE UNCHANGED vars
  BY <1>11, <1>q DEF vars, TypeOK
<1>12. ASSUME AddStaffMember \/ AddStaffBulk PROVE TypeOK'
  BY <1>1, <1>12 DEF AddStaffMember, AddStaffBulk, Unused
<1> QED BY <1>2, <1>3, <1>4, <1>5, <1>6, <1>7, <1>8, <1>9, <1>10, <1>11, <1>12, <1>13, <1>14
        DEF Next, Step
-----------------------------------------------------------------------------
(* Locks *)

\* What a request holds before its updates, or without any.
LEMMA HeldBefore ==
  ASSUME TypeOK, NEW h \in Handlers, req[h].pc # "update"
  PROVE  /\ req[h].holder = Null
         /\ req[h].pc \in {"idle", "upsertHours", "deleteStaff", "deleteCredential"}
              => req[h].held = {}
         /\ req[h].pc = "cascade" => req[h].held = {<<"staff", req[h].person>>}
BY DEF TypeOK, RequestOK

\* The rows of one person.
LEMMA OwnedRows ==
  ASSUME NEW p
  PROVE  {"hours", "staff", "credential"} \X {p}
           = {<<"hours", p>>, <<"staff", p>>, <<"credential", p>>}
OBVIOUS

LEMMA LocksStep ==
  TypeOK /\ LocksHold /\ LocksInOrder /\ [Next]_vars => LocksHold' /\ LocksInOrder'
<1> SUFFICES ASSUME TypeOK, LocksHold, LocksInOrder, [Next]_vars
             PROVE  LocksHold' /\ LocksInOrder'
  OBVIOUS
<1> DEFINE RowsKept == \A h \in Handlers : \A row \in req[h].held : IsStored(row) => IsStored(row)'
<1>k. ASSUME RowsKept, \A h \in Handlers : req'[h].held = {} \/ req'[h] = req[h]
      PROVE  LocksHold' /\ LocksInOrder'
  <2>1. LocksHold'
    <3>1. \A h \in Handlers : \A row \in req'[h].held : req'[h] = req[h] /\ IsStored(row)'
      BY <1>k DEF LocksHold
    <3>2. ASSUME NEW h \in Handlers, NEW g \in Handlers, h # g
          PROVE  req'[h].held \cap req'[g].held = {}
      BY <1>k, <3>2 DEF LocksHold
    <3> QED BY <3>1, <3>2 DEF LocksHold
  <2>2. LocksInOrder'
    BY <1>k DEF LocksInOrder
  <2> QED BY <2>1, <2>2
<1>r. ASSUME NEW h \in Handlers, NEW r, req' = [req EXCEPT ![h] = r], r.held = {}
      PROVE  \A g \in Handlers : req'[g].held = {} \/ req'[g] = req[g]
  BY <1>r DEF TypeOK
<1>u. ASSUME staff' = staff, credential' = credential PROVE RowsKept
  BY <1>u DEF IsStored, Employed, Enrolled
<1>e. ASSUME Employed \subseteq Employed', Enrolled \subseteq Enrolled' PROVE RowsKept
  BY <1>e DEF IsStored
<1>i. Idle.held = {}
  BY IdleTyped
<1> DEFINE InOrder(r) == /\ r.held \subseteq {"hours", "staff", "credential"} \X {r.person}
                         /\ <<"credential", r.person>> \in r.held => <<"staff", r.person>> \in r.held
<1>g. ASSUME NEW h \in Handlers, NEW r, req' = [req EXCEPT ![h] = r],
             UNCHANGED <<staff, credential>>,
             \A row \in r.held : row \notin req[h].held => IsStored(row) /\ Free(row, h),
             r.holder = Null => InOrder(r)
      PROVE  LocksHold' /\ LocksInOrder'
  <2>1. req'[h] = r /\ \A g \in Handlers \ {h} : req'[g] = req[g]
    BY <1>g DEF TypeOK
  <2>2. \A row : IsStored(row)' <=> IsStored(row)
    BY <1>g DEF IsStored, Employed, Enrolled
  <2>3. \A f \in Handlers : \A row \in req'[f].held : IsStored(row)'
    BY <1>g, <2>1, <2>2 DEF LocksHold
  <2>4. \A f \in Handlers \ {h} : req[f].held \cap r.held = {}
    BY <1>g DEF LocksHold, Free
  <2>5. \A f, g \in Handlers : f # g => req'[f].held \cap req'[g].held = {}
    BY <2>1, <2>4 DEF LocksHold
  <2>6. LocksHold'
    BY <2>3, <2>5 DEF LocksHold
  <2>7. ASSUME NEW f \in Handlers, req'[f].holder = Null PROVE InOrder(req'[f])
    <3>1. CASE f = h
      BY <1>g, <2>1, <2>7, <3>1
    <3>2. CASE f # h
      BY <2>1, <2>7, <3>2 DEF LocksInOrder
    <3> QED BY <3>1, <3>2
  <2> QED BY <2>6, <2>7 DEF LocksInOrder
<1>1. ASSUME NEW ps \in SUBSET Unused, Enrol(ps) PROVE LocksHold' /\ LocksInOrder'
  <2>1. Employed \subseteq Employed' /\ Enrolled \subseteq Enrolled'
    BY <1>1, LoginTyped DEF Enrol, Employed, Enrolled, Unused
  <2> QED BY <1>1, <1>k, <1>e, <2>1 DEF Enrol
<1>2. ASSUME NEW h \in Handlers, EditRead(h) \/ DeleteRead(h) PROVE LocksHold' /\ LocksInOrder'
  <2>1. ASSUME NEW r, Take(h, r), r.held = {} PROVE \A g \in Handlers : req'[g].held = {} \/ req'[g] = req[g]
    BY <2>1, <1>r DEF Take
  <2>2. \A g \in Handlers : req'[g].held = {} \/ req'[g] = req[g]
    BY <1>2, <2>1 DEF EditRead, DeleteRead, Idle
  <2> QED BY <1>2, <1>k, <1>u, <2>2 DEF EditRead, DeleteRead
<1>3. ASSUME NEW h \in Handlers, EditFindSuperAdmin(h) PROVE LocksHold' /\ LocksInOrder'
  <2>1. PICK holder : req' = [req EXCEPT ![h] = [@ EXCEPT !.pc = "update", !.holder = holder]]
    BY <1>3 DEF EditFindSuperAdmin
  <2> DEFINE r == [req[h] EXCEPT !.pc = "update", !.holder = holder]
  <2>2. /\ req[h] \in Request /\ RequestOK(req[h]) /\ req[h].pc = "findSuperAdmin"
        /\ UNCHANGED <<staff, credential>>
    BY <1>3 DEF EditFindSuperAdmin, At, TypeOK
  <2>3. r.held = req[h].held /\ r.person = req[h].person /\ req' = [req EXCEPT ![h] = r]
    BY <2>1, <2>2 DEF Request, TypeOK
  <2>4. r.held \subseteq {<<"hours", r.person>>}
    BY <2>2, <2>3 DEF RequestOK
  <2>5. InOrder(r)
    BY <2>4, OwnedRows
  <2> QED BY <1>g, <2>2, <2>3, <2>5
<1>12. ASSUME NEW h \in Handlers, EditHours(h) PROVE LocksHold' /\ LocksInOrder'
  <2>1. PICK pc : req' = [req EXCEPT ![h] = [@ EXCEPT !.pc = pc, !.held = {<<"hours", req[h].person>>}]]
    BY <1>12 DEF EditHours
  <2> DEFINE r == [req[h] EXCEPT !.pc = pc, !.held = {<<"hours", req[h].person>>}]
  <2>2. /\ req[h] \in Request /\ UNCHANGED <<staff, credential>>
        /\ req[h].person \in Employed /\ Free(<<"hours", req[h].person>>, h)
    BY <1>12 DEF EditHours, TypeOK
  <2>3. /\ r.held = {<<"hours", req[h].person>>} /\ r.person = req[h].person
        /\ req' = [req EXCEPT ![h] = r]
    BY <2>1, <2>2 DEF Request, TypeOK
  <2>4. IsStored(<<"hours", req[h].person>>)
    BY <2>2 DEF IsStored
  <2>5. InOrder(r)
    BY <2>3, OwnedRows
  <2>6. \A row \in r.held : IsStored(row) /\ Free(row, h)
    BY <2>2, <2>3, <2>4
  <2> HIDE DEF r
  <2> QED BY <1>g, <2>2, <2>3, <2>5, <2>6
<1>4. ASSUME NEW h \in Handlers, EditUpdate(h) PROVE LocksHold' /\ LocksInOrder'
  <2> DEFINE row == NextRow(req[h])
             r == [req[h] EXCEPT !.held = req[h].held \cup {row}]
  <2>1. /\ At(h, "update") /\ Pending(req[h]) # {} /\ Free(row, h) /\ IsStored(row)
        /\ req' = [req EXCEPT ![h] = r]
        /\ UNCHANGED <<staff, credential>>
    BY <1>4 DEF EditUpdate, TypeOK
  <2>2. r.held = req[h].held \cup {row} /\ r.person = req[h].person /\ r.holder = req[h].holder
    <3> HIDE DEF row
    <3> QED BY DEF TypeOK, Request
  <2>3. ASSUME r.holder = Null PROVE InOrder(r)
    <3>1. row \in {<<"staff", r.person>>, <<"credential", r.person>>}
      BY <2>1, <2>2, <2>3, NextRowTyped
    <3>2. InOrder(req[h])
      BY <2>2, <2>3 DEF LocksInOrder
    <3>3. row = <<"credential", r.person>> => <<"staff", r.person>> \in req[h].held
      BY <2>1, <2>2, <2>3, FirstIsStaff
    <3> HIDE DEF row, r
    <3> QED BY <2>2, <3>1, <3>2, <3>3, OwnedRows
  <2> HIDE DEF row, r
  <2>4. \A x \in r.held : x \notin req[h].held => IsStored(x) /\ Free(x, h)
    BY <2>1, <2>2
  <2> QED BY <1>g, <2>1, <2>3, <2>4
<1>5. ASSUME NEW h \in Handlers, EditCommit(h) PROVE LocksHold' /\ LocksInOrder'
  <2>1. \A g \in Handlers : req'[g].held = {} \/ req'[g] = req[g]
    BY <1>5, <1>i, <1>r DEF EditCommit, Reply
  <2> QED BY <1>5, <1>k, <1>e, <2>1, CommitKeepsRows
<1>13. ASSUME NEW h \in Handlers, DeleteStaff(h) PROVE LocksHold' /\ LocksInOrder'
  <2> DEFINE row == <<"staff", req[h].person>>
             r == [req[h] EXCEPT !.pc = "cascade", !.held = {row}]
  <2>1. /\ req[h] \in Request /\ UNCHANGED <<staff, credential>>
        /\ req[h].person \in Employed /\ Free(row, h)
        /\ req' = [req EXCEPT ![h] = r]
    BY <1>13 DEF DeleteStaff, TypeOK, Locks, Free
  <2>2. r.held = {row} /\ r.person = req[h].person
    BY <2>1 DEF Request
  <2>3. IsStored(row)
    BY <2>1 DEF IsStored
  <2>4. InOrder(r)
    BY <2>2, OwnedRows
  <2>5. \A x \in r.held : IsStored(x) /\ Free(x, h)
    BY <2>1, <2>2, <2>3
  <2> HIDE DEF row, r
  <2> QED BY <1>g, <2>1, <2>4, <2>5
<1>6. ASSUME NEW h \in Handlers, CascadeStaff(h) PROVE LocksHold' /\ LocksInOrder'
  <2> DEFINE p == req[h].person
  <2>1. req[h].held = {<<"staff", p>>} /\ p \in People
    BY <1>6, HeldBefore DEF CascadeStaff, At, TypeOK, RequestOK
  <2>2. \A g \in Handlers \ {h} : <<"staff", p>> \notin req[g].held /\ <<"hours", p>> \notin req[g].held
    BY <1>6, <2>1 DEF CascadeStaff, Free, LocksHold
  <2>3. ASSUME NEW g \in Handlers \ {h}, NEW row \in req[g].held PROVE IsStored(row)'
    <3>1. row \in Rows /\ row # <<"staff", p>> /\ row # <<"hours", p>> /\ IsStored(row)
      BY <2>2 DEF TypeOK, Request, LocksHold
    <3>2. Employed' = Employed \ {p} /\ Enrolled' = Enrolled
      BY <1>6, LoginTyped DEF CascadeStaff, Employed, Enrolled, TypeOK, Roles
    <3> QED BY <2>1, <3>1, <3>2 DEF IsStored, Rows
  <2>4. req'[h].held = {} /\ \A g \in Handlers \ {h} : req'[g] = req[g]
    BY <1>6 DEF CascadeStaff, AfterStaff, TypeOK, Request
  <2>5. LocksHold'
    BY <2>3, <2>4 DEF LocksHold
  <2>6. LocksInOrder'
    BY <2>4 DEF LocksInOrder
  <2> QED BY <2>5, <2>6
<1>7. ASSUME NEW h \in Handlers, DeleteCredential(h) PROVE LocksHold' /\ LocksInOrder'
  <2>1. req[h].held = {} /\ req[h].person \in People
    BY <1>7, HeldBefore DEF DeleteCredential, At, TypeOK, RequestOK
  <2>2. \A g \in Handlers : <<"credential", req[h].person>> \notin req[g].held
    BY <1>7, <2>1 DEF DeleteCredential, Free
  <2>3. RowsKept
    <3> SUFFICES ASSUME NEW g \in Handlers, NEW row \in req[g].held, IsStored(row)
                 PROVE  IsStored(row)'
      OBVIOUS
    <3>1. row \in Rows /\ row # <<"credential", req[h].person>>
      BY <2>2 DEF TypeOK, Request
    <3>2. Enrolled' = Enrolled \ {req[h].person} /\ Employed' = Employed
      BY <1>7 DEF DeleteCredential, Employed, Enrolled, TypeOK, Roles
    <3> QED BY <2>1, <3>1, <3>2 DEF IsStored, Rows
  <2>4. \A g \in Handlers : req'[g].held = {} \/ req'[g] = req[g]
    BY <1>7, <1>i, <1>r DEF DeleteCredential, Reply
  <2> QED BY <1>k, <2>3, <2>4
<1>8. ASSUME DeleteOrganization PROVE LocksHold' /\ LocksInOrder'
  <2>1. \A h \in Handlers : req'[h].held = {} /\ req[h].held = {}
    BY <1>8 DEF DeleteOrganization
  <2> QED BY <1>k, <2>1
<1>9. ASSUME NEW h \in Handlers, Abort(h) PROVE LocksHold' /\ LocksInOrder'
  BY <1>9, <1>i, <1>k, <1>r, <1>u DEF Abort
<1>10. CASE UNCHANGED vars
  BY <1>10, <1>k, <1>u DEF vars
<1>11. ASSUME AddStaffMember \/ AddStaffBulk PROVE LocksHold' /\ LocksInOrder'
  BY <1>1, <1>11 DEF AddStaffMember, AddStaffBulk
<1> QED BY <1>2, <1>3, <1>4, <1>5, <1>6, <1>7, <1>8, <1>9, <1>10, <1>11, <1>12, <1>13
        DEF Next, Step
-----------------------------------------------------------------------------
(* Roles, and logins without a member *)

\* An edit writes one role to both rows of the person, and of the old holder.
LEMMA CommitRoles ==
  ASSUME TypeOK, LocksHold, RolesAgree, NEW h \in Handlers, EditCommit(h)
  PROVE  RolesAgree'
<1> DEFINE r == req[h]
<1>1. Employed' = Employed
  BY CommitKeepsRows
<1>2. r.holder # r.person /\ r.person \in People
  BY DEF EditCommit, TypeOK, At, RequestOK
<1>3. ASSUME NEW p \in Employed PROVE credential'[p].role = staff'[p]
  <2>1. p \in People /\ credential[p].role = staff[p]
    BY DEF Employed, RolesAgree
  <2>2. staff'[p] = StaffRole(r, p)
    BY <2>1 DEF EditCommit
  <2>3. CASE p = r.person
    <3>1. credential'[p].role = IF r.role = Null THEN credential[p].role ELSE r.role
      BY <2>1, <2>3 DEF EditCommit
    <3> QED BY <1>2, <2>1, <2>2, <2>3, <3>1 DEF StaffRole
  <2>4. CASE p # r.person /\ p = r.holder
    <3>1. credential'[p] = [credential[p] EXCEPT !.role = "Admin"]
      BY <2>1, <2>4 DEF EditCommit
    <3>2. credential[p] \in Login \cup Nobody
      BY <2>1 DEF TypeOK
    <3>3. credential'[p].role = "Admin"
      BY <3>1, <3>2 DEF Login, Nobody
    <3> QED BY <2>2, <2>4, <3>3 DEF StaffRole
  <2>5. CASE p # r.person /\ p # r.holder
    BY <2>1, <2>2, <2>5 DEF EditCommit, StaffRole
  <2> QED BY <2>3, <2>4, <2>5
<1> QED BY <1>1, <1>3 DEF RolesAgree

\* A deleted member is not added again, so the second delete removes a login
\* that belongs to nobody.
LEMMA DeletedStep ==
  TypeOK /\ LocksHold /\ MemberDeletedFirst /\ [Next]_vars => MemberDeletedFirst'
<1> SUFFICES ASSUME TypeOK, LocksHold, MemberDeletedFirst, [Next]_vars PROVE MemberDeletedFirst'
  OBVIOUS
<1> DEFINE StayDeleted == \A p \in People : staff[p] = "deleted" => staff'[p] = "deleted"
<1>p. \A h \in Handlers : At(h, "deleteCredential") => req[h].person \in People
  BY DEF At, TypeOK, RequestOK
<1>k. ASSUME StayDeleted, \A h \in Handlers : req'[h] = req[h] \/ req'[h].pc # "deleteCredential"
      PROVE  MemberDeletedFirst'
  BY <1>k, <1>p DEF MemberDeletedFirst, At
<1>r. ASSUME NEW h \in Handlers, NEW r, req' = [req EXCEPT ![h] = r], r.pc # "deleteCredential"
      PROVE  \A g \in Handlers : req'[g] = req[g] \/ req'[g].pc # "deleteCredential"
  BY <1>r DEF TypeOK
<1>i. Idle.pc # "deleteCredential"
  BY IdleTyped
<1>1. ASSUME NEW ps \in SUBSET Unused, Enrol(ps) PROVE MemberDeletedFirst'
  <2>1. StayDeleted
    BY <1>1 DEF Enrol, Unused
  <2> QED BY <1>1, <1>k, <2>1 DEF Enrol
<1>2. ASSUME NEW h \in Handlers, EditRead(h) \/ DeleteRead(h) PROVE MemberDeletedFirst'
  <2>1. ASSUME NEW r, Take(h, r), r.pc # "deleteCredential"
        PROVE  \A g \in Handlers : req'[g] = req[g] \/ req'[g].pc # "deleteCredential"
    BY <2>1, <1>r DEF Take
  <2>2. \A g \in Handlers : req'[g] = req[g] \/ req'[g].pc # "deleteCredential"
    BY <1>2, <2>1 DEF EditRead, AfterHours, DeleteRead, Idle
  <2> QED BY <1>2, <1>k, <2>2 DEF EditRead, DeleteRead
<1>3. ASSUME NEW h \in Handlers,
             EditHours(h) \/ EditFindSuperAdmin(h) \/ EditUpdate(h) \/ DeleteStaff(h)
      PROVE  MemberDeletedFirst'
  <2>1. \A g \in Handlers : req'[g] = req[g] \/ req'[g].pc # "deleteCredential"
    BY <1>3 DEF EditHours, AfterHours, EditFindSuperAdmin, EditUpdate, DeleteStaff, At, TypeOK, Request
  <2> QED BY <1>3, <1>k, <2>1 DEF EditHours, EditFindSuperAdmin, EditUpdate, DeleteStaff
<1>4. ASSUME NEW h \in Handlers, EditCommit(h) PROVE MemberDeletedFirst'
  <2>1. \A p \in People : staff'[p] = StaffRole(req[h], p)
    BY <1>4 DEF EditCommit
  <2>2. Employed' = Employed
    BY <1>4, CommitKeepsRows
  <2>3. req[h].role \in Roles \cup {Null}
    BY <1>4 DEF TypeOK, Request
  <2>4. StayDeleted
    BY <2>1, <2>2, <2>3 DEF StaffRole, Employed, Roles
  <2> QED BY <1>4, <1>i, <1>k, <1>r, <2>4 DEF EditCommit, Reply
<1>5. ASSUME NEW h \in Handlers, CascadeStaff(h) PROVE MemberDeletedFirst'
  <2>1. StayDeleted /\ staff'[req[h].person] = "deleted"
    BY <1>5 DEF CascadeStaff, At, TypeOK, RequestOK
  <2>2. \A g \in Handlers \ {h} : req'[g] = req[g]
    BY <1>5 DEF CascadeStaff, TypeOK
  <2>3. req'[h].person = req[h].person
    BY <1>5 DEF CascadeStaff, AfterStaff, TypeOK, Request
  <2>4. ASSUME NEW g \in Handlers, At(g, "deleteCredential")'
        PROVE  staff'[req'[g].person] = "deleted"
    BY <1>p, <2>1, <2>2, <2>3, <2>4 DEF MemberDeletedFirst, At
  <2> QED BY <2>4 DEF MemberDeletedFirst
<1>6. ASSUME NEW h \in Handlers, DeleteCredential(h) \/ Abort(h) PROVE MemberDeletedFirst'
  BY <1>6, <1>i, <1>k, <1>r DEF DeleteCredential, Abort, Reply
<1>7. ASSUME DeleteOrganization PROVE MemberDeletedFirst'
  BY <1>7, <1>k DEF DeleteOrganization
<1>8. CASE UNCHANGED vars
  BY <1>8, <1>k DEF vars
<1>9. ASSUME AddStaffMember \/ AddStaffBulk PROVE MemberDeletedFirst'
  BY <1>1, <1>9 DEF AddStaffMember, AddStaffBulk
<1> QED BY <1>2, <1>3, <1>4, <1>5, <1>6, <1>7, <1>8, <1>9 DEF Next, Step

\* Only a member's two deletes leave a login without a member, until the second.
LEMMA PeopleStep ==
  TypeOK /\ LocksHold /\ MemberDeletedFirst /\ RolesAgree /\ OnlyStaffLogsIn /\ [Next]_vars
    => RolesAgree' /\ OnlyStaffLogsIn'
<1> SUFFICES ASSUME TypeOK, LocksHold, MemberDeletedFirst, RolesAgree, OnlyStaffLogsIn,
                    [Next]_vars
             PROVE  RolesAgree' /\ OnlyStaffLogsIn'
  OBVIOUS
<1> DEFINE Deleting(p) == \E h \in Handlers : At(h, "deleteCredential") /\ req[h].person = p
<1>d. ASSUME NEW p \in Enrolled \ Employed PROVE p \in halfDeleted \/ Deleting(p)
  BY DEF OnlyStaffLogsIn
<1>k. ASSUME NEW h \in Handlers, ~At(h, "deleteCredential"), halfDeleted' = halfDeleted,
             \A g \in Handlers \ {h} : req'[g] = req[g],
             Enrolled' \ Employed' \subseteq Enrolled \ Employed
      PROVE  OnlyStaffLogsIn'
  <2> SUFFICES ASSUME NEW p \in Enrolled' \ Employed'
               PROVE  \/ p \in halfDeleted'
                      \/ \E g \in Handlers : At(g, "deleteCredential")' /\ req'[g].person = p
    BY DEF OnlyStaffLogsIn
  <2>1. CASE p \in halfDeleted
    BY <1>k, <2>1
  <2>2. CASE p \notin halfDeleted
    <3>1. PICK g \in Handlers : At(g, "deleteCredential") /\ req[g].person = p
      BY <1>k, <1>d, <2>2
    <3>2. g # h /\ req'[g] = req[g]
      BY <1>k, <3>1
    <3> QED BY <3>1, <3>2 DEF At
  <2> QED BY <2>1, <2>2
<1>u. ASSUME staff' = staff, credential' = credential
      PROVE  RolesAgree' /\ Enrolled' \ Employed' \subseteq Enrolled \ Employed
  BY <1>u DEF RolesAgree, Employed, Enrolled
<1>r. ASSUME NEW h \in Handlers, NEW r, req' = [req EXCEPT ![h] = r]
      PROVE  \A g \in Handlers \ {h} : req'[g] = req[g]
  BY <1>r DEF TypeOK
<1>1. ASSUME NEW ps \in SUBSET Unused, Enrol(ps) PROVE RolesAgree' /\ OnlyStaffLogsIn'
  <2>1. \A p \in People : p \notin ps => staff'[p] = staff[p] /\ credential'[p] = credential[p]
    BY <1>1 DEF Enrol
  <2>2. \A p \in ps : p \in People /\ staff'[p] = "Staff" /\ credential'[p].role = "Staff"
    BY <1>1 DEF Enrol, Unused
  <2>3. RolesAgree'
    BY <2>1, <2>2 DEF RolesAgree, Employed
  <2>4. Enrolled' \ Employed' \subseteq Enrolled \ Employed
    BY <2>1, <2>2 DEF Enrolled, Employed, Roles
  <2>5. OnlyStaffLogsIn'
    BY <1>1, <2>4 DEF OnlyStaffLogsIn, Enrol, At
  <2> QED BY <2>3, <2>5
<1>2. ASSUME NEW h \in Handlers, EditRead(h) \/ DeleteRead(h) PROVE RolesAgree' /\ OnlyStaffLogsIn'
  <2>1. ASSUME NEW r, Take(h, r) PROVE ~At(h, "deleteCredential") /\ \A g \in Handlers \ {h} : req'[g] = req[g]
    BY <2>1, <1>r DEF Take, At
  <2>2. ~At(h, "deleteCredential") /\ \A g \in Handlers \ {h} : req'[g] = req[g]
    BY <1>2, <2>1 DEF EditRead, DeleteRead
  <2> QED BY <1>2, <1>k, <1>u, <2>2 DEF EditRead, DeleteRead
<1>3. ASSUME NEW h \in Handlers,
             EditHours(h) \/ EditFindSuperAdmin(h) \/ EditUpdate(h) \/ DeleteStaff(h)
      PROVE  RolesAgree' /\ OnlyStaffLogsIn'
  <2>1. ~At(h, "deleteCredential") /\ \A g \in Handlers \ {h} : req'[g] = req[g]
    BY <1>3 DEF EditHours, EditFindSuperAdmin, EditUpdate, DeleteStaff, At, TypeOK
  <2> QED BY <1>3, <1>k, <1>u, <2>1 DEF EditHours, EditFindSuperAdmin, EditUpdate, DeleteStaff
<1>4. ASSUME NEW h \in Handlers, EditCommit(h) PROVE RolesAgree' /\ OnlyStaffLogsIn'
  <2>1. ~At(h, "deleteCredential") /\ \A g \in Handlers \ {h} : req'[g] = req[g]
    BY <1>4, <1>r DEF EditCommit, Reply, At
  <2>2. OnlyStaffLogsIn'
    BY <1>4, <1>k, <2>1, CommitKeepsRows DEF EditCommit
  <2> QED BY <1>4, <2>2, CommitRoles
<1>5. ASSUME NEW h \in Handlers, CascadeStaff(h) PROVE RolesAgree' /\ OnlyStaffLogsIn'
  <2>1. req[h] \in Request /\ req[h].person \in People
    BY <1>5 DEF CascadeStaff, At, TypeOK, RequestOK
  <2>2. Employed' = Employed \ {req[h].person} /\ Enrolled' = Enrolled
    BY <1>5, LoginTyped DEF CascadeStaff, Employed, Enrolled, TypeOK, Roles
  <2>3. RolesAgree'
    BY <1>5, <2>2 DEF RolesAgree, CascadeStaff, TypeOK, Employed
  <2>4. At(h, "deleteCredential")' /\ req'[h].person = req[h].person
    BY <1>5, <2>1 DEF CascadeStaff, AfterStaff, At, TypeOK, Request
  <2>5. \A g \in Handlers \ {h} : req'[g] = req[g]
    BY <1>5 DEF CascadeStaff, TypeOK
  <2>6. ASSUME NEW p \in Enrolled' \ Employed'
        PROVE  \/ p \in halfDeleted'
               \/ \E g \in Handlers : At(g, "deleteCredential")' /\ req'[g].person = p
    <3>1. CASE p = req[h].person
      BY <2>4, <3>1
    <3>2. CASE p # req[h].person /\ p \in halfDeleted
      BY <1>5, <3>2 DEF CascadeStaff
    <3>3. CASE p # req[h].person /\ p \notin halfDeleted
      <4>1. PICK g \in Handlers : At(g, "deleteCredential") /\ req[g].person = p
        BY <1>d, <2>2, <3>3
      <4> QED BY <2>5, <3>3, <4>1 DEF At
    <3> QED BY <3>1, <3>2, <3>3
  <2> QED BY <2>3, <2>6 DEF OnlyStaffLogsIn
<1>6. ASSUME NEW h \in Handlers, DeleteCredential(h) PROVE RolesAgree' /\ OnlyStaffLogsIn'
  <2> DEFINE q == req[h].person
  <2>1. q \in People /\ q \in Enrolled
    BY <1>6 DEF DeleteCredential, Enrolled
  <2>2. Enrolled' = Enrolled \ {q} /\ Employed' = Employed
    BY <1>6 DEF DeleteCredential, Employed, Enrolled, TypeOK, Roles
  <2>3. q \notin Employed
    BY <1>6 DEF DeleteCredential, MemberDeletedFirst, Employed, Roles
  <2>4. RolesAgree'
    BY <1>6, <2>2, <2>3 DEF RolesAgree, DeleteCredential, TypeOK, Employed
  <2>5. \A g \in Handlers \ {h} : req'[g] = req[g]
    BY <1>6, <1>r DEF DeleteCredential, Reply
  <2>6. ASSUME NEW p \in Enrolled' \ Employed'
        PROVE  \/ p \in halfDeleted'
               \/ \E g \in Handlers : At(g, "deleteCredential")' /\ req'[g].person = p
    <3>1. p \in Enrolled \ Employed /\ p # q
      BY <2>2
    <3>2. CASE p \in halfDeleted
      BY <1>6, <3>2 DEF DeleteCredential
    <3>3. CASE p \notin halfDeleted
      <4>1. PICK g \in Handlers : At(g, "deleteCredential") /\ req[g].person = p
        BY <1>d, <3>1, <3>3
      <4> QED BY <2>5, <3>1, <4>1 DEF At
    <3> QED BY <3>2, <3>3
  <2> QED BY <2>4, <2>6 DEF OnlyStaffLogsIn
<1>7. ASSUME DeleteOrganization PROVE RolesAgree' /\ OnlyStaffLogsIn'
  <2>1. Employed' = {} /\ Enrolled' = {}
    BY <1>7 DEF DeleteOrganization, Employed, Enrolled, Roles
  <2> QED BY <2>1 DEF RolesAgree, OnlyStaffLogsIn
<1>8. ASSUME NEW h \in Handlers, Abort(h) PROVE RolesAgree' /\ OnlyStaffLogsIn'
  <2>1. RolesAgree' /\ Enrolled' \ Employed' \subseteq Enrolled \ Employed
    BY <1>8, <1>u DEF Abort
  <2>2. CASE ~At(h, "deleteCredential")
    BY <1>8, <1>k, <1>r, <2>1, <2>2 DEF Abort
  <2>3. CASE At(h, "deleteCredential")
    <3>1. halfDeleted' = halfDeleted \cup {req[h].person}
          /\ \A g \in Handlers \ {h} : req'[g] = req[g]
      BY <1>8, <1>r, <2>3 DEF Abort
    <3>2. ASSUME NEW p \in Enrolled' \ Employed'
          PROVE  \/ p \in halfDeleted'
                 \/ \E g \in Handlers : At(g, "deleteCredential")' /\ req'[g].person = p
      <4>1. CASE p \in halfDeleted \/ p = req[h].person
        BY <3>1, <4>1
      <4>2. CASE p \notin halfDeleted /\ p # req[h].person
        <5>1. PICK g \in Handlers : At(g, "deleteCredential") /\ req[g].person = p
          BY <1>d, <2>1, <4>2
        <5> QED BY <3>1, <4>2, <5>1 DEF At
      <4> QED BY <4>1, <4>2
    <3> QED BY <2>1, <3>2 DEF OnlyStaffLogsIn
  <2> QED BY <2>2, <2>3, <2>1
<1>9. CASE UNCHANGED vars
  BY <1>9 DEF vars, RolesAgree, OnlyStaffLogsIn, Employed, Enrolled, At
<1>10. ASSUME AddStaffMember \/ AddStaffBulk PROVE RolesAgree' /\ OnlyStaffLogsIn'
  BY <1>1, <1>10 DEF AddStaffMember, AddStaffBulk
<1> QED BY <1>2, <1>3, <1>4, <1>5, <1>6, <1>7, <1>8, <1>9, <1>10 DEF Next, Step
-----------------------------------------------------------------------------
(* The theorems *)

LEMMA Inductive == Spec => []IInv
<1>1. Init => IInv
  <2> SUFFICES ASSUME Init PROVE IInv
    OBVIOUS
  <2>1. \A h \in Handlers : req[h] = Idle
    BY DEF Init
  <2>2. Employed = {} /\ Enrolled = {}
    BY DEF Init, Employed, Enrolled, Roles
  <2>3. LocksHold /\ LocksInOrder /\ MemberDeletedFirst /\ RolesAgree /\ OnlyStaffLogsIn
    BY <2>1, <2>2, IdleTyped
       DEF LocksHold, LocksInOrder, MemberDeletedFirst, RolesAgree, OnlyStaffLogsIn, At
  <2> QED BY <2>3, TypeInit DEF IInv
<1>2. IInv /\ [Next]_vars => IInv'
  BY TypeStep, LocksStep, DeletedStep, PeopleStep DEF IInv
<1> QED BY <1>1, <1>2, PTL DEF Spec

\* Rows and requests have their types, for any number of handlers and people.
THEOREM StaffTyped == Spec => []TypeOK
<1>1. IInv => TypeOK
  BY DEF IInv
<1> QED BY <1>1, Inductive, PTL

\* The role a login has is the role of the member once no transaction is between
\* its writes.
THEOREM RolesSafe == Spec => []RolesAgree
<1>1. IInv => RolesAgree
  BY DEF IInv
<1> QED BY <1>1, Inductive, PTL

\* A login outlives its member only while the deletion is under way or when it
\* failed half way.
THEOREM LoginsAreStaff == Spec => []OnlyStaffLogsIn
<1>1. IInv => OnlyStaffLogsIn
  BY DEF IInv
<1> QED BY <1>1, Inductive, PTL

\* Edits that demote nobody lock working hours, the member and the login in this
\* order, and a deletion that has not reached its cascade holds nothing.  So whoever
\* is waited for among them waits for the member himself, whose key another has
\* locked by inserting his working hours, and only one can have.
THEOREM DeadlocksAreKnown == Spec => []DeadlockNeedsTransferOrCascade
<1>1. ASSUME IInv PROVE DeadlockNeedsTransferOrCascade
  <2> SUFFICES ASSUME NEW circle \in SUBSET Handlers, Deadlocked(circle),
                      \A h \in circle : req[h].holder = Null /\ ~At(h, "cascade")
               PROVE  FALSE
    BY DEF DeadlockNeedsTransferOrCascade
  <2> DEFINE P(h) == req[h].person
             Updating(h) == At(h, "update") /\ Pending(req[h]) # {}
  <2>0. TypeOK /\ LocksHold /\ LocksInOrder
    BY <1>1 DEF IInv
  <2>1. ASSUME NEW h \in circle, NEW g \in circle, Waits(h, g) PROVE Updating(g)
    <3>1. Needs(req[g]) # {}
      BY DEF Deadlocked, Waits
    <3>2. req[g].held # {}
      BY <2>1 DEF Waits, Locks
    <3>3. req[g].pc \notin {"idle", "upsertHours", "deleteStaff", "deleteCredential", "cascade"}
      BY <2>0, <3>2, HeldBefore DEF At
    <3> QED BY <3>1, <3>3 DEF Needs, At
  <2>2. ASSUME NEW g \in circle, NEW k \in circle, Waits(g, k), Updating(g)
        PROVE  /\ NextRow(req[g]) = <<"staff", P(g)>> /\ P(k) = P(g)
               /\ <<"staff", P(g)>> \in req[k].held \/ <<"hours", P(g)>> \in req[k].held
    <3>1. NextRow(req[g]) \in Locks(req[k]) /\ k # g
      BY <2>2 DEF Waits, Needs, At
    <3>2. NextRow(req[g]) \in {<<"staff", P(g)>>, <<"credential", P(g)>>}
      BY <2>0, <2>2, NextRowTyped
    <3>3. /\ req[k].held \subseteq {<<"hours", P(k)>>, <<"staff", P(k)>>, <<"credential", P(k)>>}
          /\ <<"credential", P(k)>> \in req[k].held => <<"staff", P(k)>> \in req[k].held
      BY <2>0, OwnedRows DEF LocksInOrder
    <3>4. CASE NextRow(req[g]) = <<"credential", P(g)>>
      <4>1. <<"credential", P(g)>> \in req[k].held
        BY <3>1, <3>4 DEF Locks
      <4>2. <<"staff", P(g)>> \in req[k].held
        BY <3>3, <4>1
      <4>3. <<"staff", P(g)>> \in req[g].held
        BY <2>2, <3>4, FirstIsStaff
      <4> QED BY <2>0, <3>1, <4>2, <4>3 DEF LocksHold
    <3>5. CASE NextRow(req[g]) = <<"staff", P(g)>>
      <4>1. \/ <<"staff", P(g)>> \in req[k].held
            \/ <<"hours", P(g)>> \in req[k].held
        <5>1. CASE <<"staff", P(g)>> \in req[k].held
          BY <5>1
        <5>2. CASE <<"staff", P(g)>> \notin req[k].held
          <6>1. PICK p \in People : <<"hours", p>> \in req[k].held /\ <<"staff", P(g)>> = <<"staff", p>>
            BY <3>1, <3>5, <5>2 DEF Locks
          <6>2. p = P(g)
            BY <6>1
          <6> QED BY <6>1, <6>2
        <5> QED BY <5>1, <5>2
      <4>2. P(k) = P(g)
        BY <3>3, <4>1
      <4> QED BY <3>5, <4>1, <4>2
    <3> QED BY <3>2, <3>4, <3>5
  <2>3. ASSUME NEW g \in circle, NEW k \in circle, Waits(g, k), Updating(g)
        PROVE  Updating(k) /\ P(k) = P(g) /\ <<"hours", P(g)>> \in req[k].held
    <3>1. PICK l \in circle : Waits(k, l)
      BY DEF Deadlocked
    <3>2. Updating(k)
      BY <2>1, <2>3
    <3>3. NextRow(req[k]) = <<"staff", P(k)>>
      BY <2>2, <3>1, <3>2
    <3>4. <<"staff", P(k)>> \notin req[k].held
      BY <2>0, <3>2, <3>3, NextRowTyped
    <3> QED BY <2>2, <2>3, <3>2, <3>4
  <2>4. PICK h \in circle, g \in circle : Waits(h, g)
    BY DEF Deadlocked
  <2>5. PICK k \in circle : Waits(g, k)
    BY DEF Deadlocked
  <2>6. PICK l \in circle : Waits(k, l)
    BY DEF Deadlocked
  <2>7. P(k) = P(g) /\ <<"hours", P(g)>> \in req[k].held /\ Updating(k)
    BY <2>1, <2>3, <2>4, <2>5
  <2>8. <<"hours", P(k)>> \in req[l].held /\ l # k
    BY <2>3, <2>6, <2>7 DEF Waits
  <2> QED BY <2>0, <2>7, <2>8 DEF LocksHold
<1> QED BY <1>1, Inductive, PTL
-----------------------------------------------------------------------------
(* Requests that come one at a time *)

Busy(h) == ~At(h, "idle")

Serial == \A g, h \in Handlers : Busy(g) /\ Busy(h) => g = h

\* What the edit in flight has read, and still holds: the role of the person,
\* and who was the SuperAdmin.
KnowsRole(r) ==
  r.pc \in {"upsertHours", "findSuperAdmin", "update"} =>
    /\ r.person \in Employed /\ staff[r.person] = r.was
    /\ r.pc = "findSuperAdmin" => Transfers(r.was, r.role)

KnowsHolder(r) ==
  r.pc = "update" =>
    /\ r.holder # Null => /\ Transfers(r.was, r.role)
                          /\ r.holder \in Employed /\ staff[r.holder] = "SuperAdmin"
    /\ r.holder = Null /\ Transfers(r.was, r.role) =>
         \A p \in Employed : staff[p] # "SuperAdmin"

Knows(r) == KnowsRole(r) /\ KnowsHolder(r)

Sound ==
  /\ Serial /\ halfDeleted = {}
  /\ OneSuperAdmin /\ AdminsAreActive
  /\ \A h \in Handlers : Knows(req[h])

CInv == IInv /\ (calm => Sound)

LEMMA CalmFalls == [Next]_vars /\ calm' => calm
BY DEF Next, vars, Step, EditRead, EditHours, EditFindSuperAdmin, EditUpdate, EditCommit,
       DeleteRead, DeleteStaff, CascadeStaff, DeleteCredential, Abort, AddStaffMember, AddStaffBulk, Enrol,
       DeleteOrganization, Take, Reply, Arrives

LEMMA OnlyOne ==
  ASSUME Serial, NEW h \in Handlers, Step(h), calm'
  PROVE  \A g \in Handlers : g # h => ~Busy(g)
<1>1. Quiet \/ Busy(h)
  BY DEF Busy, At, Step, EditRead, EditHours, EditFindSuperAdmin, EditUpdate, EditCommit,
       DeleteRead, DeleteStaff, CascadeStaff, DeleteCredential, Abort, Take, Arrives
<1> QED BY <1>1 DEF Quiet, Busy, Serial

\* The request moves on and the tables stay.
LEMMA SoundMoves ==
  ASSUME TypeOK, Sound, NEW h \in Handlers, \A g \in Handlers : g # h => ~Busy(g),
         NEW r, req' = [req EXCEPT ![h] = r], Knows(r),
         UNCHANGED <<staff, credential>>, halfDeleted' = {}
  PROVE  Sound'
<1>1. req'[h] = r /\ \A g \in Handlers : g # h => req'[g] = req[g] /\ req[g].pc = "idle"
  BY DEF TypeOK, Busy, At
<1>2. Employed' = Employed
  BY DEF Employed
<1>3. Serial'
  BY <1>1 DEF Serial, Busy, At
<1>4. ASSUME NEW g \in Handlers PROVE Knows(req[g])'
  <2>1. CASE g = h
    BY <1>1, <1>2, <2>1 DEF Knows, KnowsRole, KnowsHolder
  <2>2. CASE g # h
    <3>1. req'[g].pc = "idle"
      BY <1>1, <2>2
    <3> QED BY <3>1 DEF Knows, KnowsRole, KnowsHolder
  <2> QED BY <2>1, <2>2
<1>5. OneSuperAdmin' /\ AdminsAreActive'
  BY <1>2 DEF Sound, OneSuperAdmin, AdminsAreActive
<1> QED BY <1>3, <1>4, <1>5 DEF Sound

\* No edit is in flight afterwards, and the roles are sound.
LEMMA SoundEnds ==
  ASSUME Serial', halfDeleted' = {}, OneSuperAdmin', AdminsAreActive',
         \A g \in Handlers : req'[g].pc \notin {"upsertHours", "findSuperAdmin", "update"}
  PROVE  Sound'
BY DEF Sound, Knows, KnowsRole, KnowsHolder

\* Fewer members are as sound.
LEMMA FewerAreSound ==
  ASSUME Sound, Employed' \subseteq Employed,
         \A p \in Employed' : staff'[p] = staff[p] /\ credential'[p] = credential[p]
  PROVE  OneSuperAdmin' /\ AdminsAreActive'
BY DEF Sound, OneSuperAdmin, AdminsAreActive

\* The edit commits: the roles and logins it leaves.
LEMMA CommitIsSound ==
  ASSUME IInv, Sound, NEW h \in Handlers, EditCommit(h)
  PROVE  OneSuperAdmin' /\ AdminsAreActive'
<1>1. PICK r, was, role : r = req[h] /\ was = r.was /\ role = r.role
  OBVIOUS
<1>2. /\ r.pc = "update" /\ Knows(r) /\ r \in Request /\ r.was \in Roles
      /\ r.holder # r.person /\ r.person \in People
  BY <1>1 DEF EditCommit, At, Sound, IInv, TypeOK, RequestOK
<1>3. /\ Employed' = Employed /\ Employed \subseteq People
      /\ \A p \in Employed : staff'[p] = StaffRole(r, p)
  BY <1>1, CommitKeepsRows DEF IInv, EditCommit, Employed
<1>4. /\ r.person \in Employed /\ staff[r.person] = was
      /\ r.holder # Null => Transfers(was, role) /\ r.holder \in Employed
                            /\ staff[r.holder] = "SuperAdmin"
      /\ r.holder = Null /\ Transfers(was, role) =>
           \A p \in Employed : staff[p] # "SuperAdmin"
  BY <1>1, <1>2 DEF Knows, KnowsRole, KnowsHolder
<1>5. Null \notin Roles /\ Null \notin People
  BY NullAssumption
<1>6. OneSuperAdmin'
  <2>1. CASE Transfers(was, role)
    <3>1. \A p \in Employed : staff'[p] = "SuperAdmin" => p = r.person
      <4>1. ASSUME NEW p \in Employed, staff'[p] = "SuperAdmin", p # r.person PROVE FALSE
        <5>1. p # r.holder /\ staff[p] = "SuperAdmin"
          BY <1>3, <4>1 DEF StaffRole
        <5>2. r.holder # Null
          BY <1>4, <2>1, <5>1
        <5> QED BY <1>4, <5>1, <5>2 DEF Sound, OneSuperAdmin
      <4> QED BY <4>1
    <3> QED BY <1>3, <3>1 DEF OneSuperAdmin
  <2>2. CASE ~Transfers(was, role)
    <3>1. r.holder = Null
      BY <1>4, <2>2
    <3>2. \A p \in Employed : staff'[p] = "SuperAdmin" => staff[p] = "SuperAdmin"
      <4>1. ASSUME NEW p \in Employed, staff'[p] = "SuperAdmin" PROVE staff[p] = "SuperAdmin"
        <5>1. CASE p = r.person
          BY <1>1, <1>3, <1>4, <2>2, <4>1, <5>1 DEF StaffRole, Transfers
        <5>2. CASE p # r.person
          BY <1>3, <1>5, <3>1, <4>1, <5>2 DEF StaffRole
        <5> QED BY <5>1, <5>2
      <4> QED BY <4>1
    <3> QED BY <1>3, <3>2 DEF Sound, OneSuperAdmin
  <2> QED BY <2>1, <2>2
<1>7. ASSUME NEW p \in Employed, staff'[p] \in {"SuperAdmin", "Admin"}
      PROVE  credential'[p].status = "Active"
  <2>1. p \in People
    BY <1>3
  <2>2. credential'[p] =
          IF p = r.person
          THEN [role   |-> IF r.role = Null THEN credential[p].role ELSE r.role,
                status |-> NewStatus(r, credential[p].status)]
          ELSE IF p = r.holder THEN [credential[p] EXCEPT !.role = "Admin"]
          ELSE credential[p]
    BY <1>1, <2>1 DEF EditCommit
  <2>3. credential[p] \in Login \cup Nobody
    BY <2>1 DEF IInv, TypeOK
  <2>4. staff[p] \in {"SuperAdmin", "Admin"} => credential[p].status = "Active"
    BY DEF Sound, AdminsAreActive
  <2>5. CASE p = r.person
    <3>1. credential'[p].status = NewStatus(r, credential[p].status)
      BY <2>2, <2>5
    <3>2. staff'[p] = IF role # Null THEN role ELSE was
      BY <1>1, <1>2, <1>3, <1>4, <2>5 DEF StaffRole
    <3>3. staff[p] = r.was /\ r.was \in Roles
      BY <1>1, <1>2, <1>4, <2>5
    <3>4. staff'[p] = IF r.role # Null THEN r.role ELSE r.was
      BY <1>1, <3>2
    <3>5. CASE r.role = Null
      BY <1>5, <1>7, <2>4, <3>1, <3>3, <3>4, <3>5 DEF NewStatus, Roles
    <3>6. CASE r.role # Null
      <4>1. r.role \in {"SuperAdmin", "Admin"}
        BY <1>7, <3>4, <3>6
      <4> QED BY <2>4, <3>1, <3>3, <4>1 DEF NewStatus, Roles
    <3> QED BY <3>5, <3>6
  <2>6. CASE p # r.person /\ p = r.holder
    <3>1. credential[p].status = "Active"
      BY <1>4, <1>5, <2>1, <2>4, <2>6
    <3>2. credential'[p].status = credential[p].status
      BY <2>2, <2>3, <2>6 DEF Login, Nobody
    <3> QED BY <3>1, <3>2
  <2>7. CASE p # r.person /\ p # r.holder
    BY <1>3, <1>7, <2>2, <2>4, <2>7 DEF StaffRole
  <2> QED BY <2>5, <2>6, <2>7
<1> QED BY <1>3, <1>6, <1>7 DEF AdminsAreActive

LEMMA SoundStep ==
  ASSUME CInv, calm, calm', NEW h \in Handlers, Step(h)
  PROVE  Sound'
<1>0. /\ TypeOK /\ IInv /\ Sound /\ Serial /\ halfDeleted = {} /\ Knows(req[h])
      /\ KnowsRole(req[h]) /\ KnowsHolder(req[h])
      /\ RequestOK(req[h]) /\ req[h] \in Request /\ req \in [Handlers -> Request]
  BY DEF CInv, IInv, Sound, TypeOK, Knows
<1>1. \A g \in Handlers : g # h => ~Busy(g)
  BY <1>0, OnlyOne
<1>m. ASSUME NEW r, req' = [req EXCEPT ![h] = r], Knows(r),
             UNCHANGED <<staff, credential>>, halfDeleted' = {}
      PROVE  Sound'
  BY <1>0, <1>1, <1>m, SoundMoves
<1>e. ASSUME NEW r, req' = [req EXCEPT ![h] = r], 
             r.pc \notin {"upsertHours", "findSuperAdmin", "update"},
             OneSuperAdmin', AdminsAreActive', halfDeleted' = {}
      PROVE  Sound'
  <2>1. req'[h] = r /\ \A g \in Handlers : g # h => req'[g].pc = "idle"
    BY <1>0, <1>1, <1>e DEF Busy, At
  <2>2. Serial'
    BY <2>1 DEF Serial, Busy, At
  <2> QED BY <1>e, <2>1, <2>2, SoundEnds
\* An edit reads the role, and the SuperAdmin.
<1>2. CASE EditRead(h)
  <2>0. PICK p \in Employed, role \in Roles \cup {Null} :
          \E pc \in {"upsertHours", AfterHours(staff[p], role)} :
            Take(h, [Idle EXCEPT !.pc = pc, !.person = p, !.was = staff[p], !.role = role])
    BY <1>2 DEF EditRead
  <2>1. PICK pc \in {"upsertHours", AfterHours(staff[p], role)} :
          Take(h, [Idle EXCEPT !.pc = pc, !.person = p, !.was = staff[p], !.role = role])
    BY <2>0
  <2>2. PICK r : r = [Idle EXCEPT !.pc = pc, !.person = p, !.was = staff[p], !.role = role]
    OBVIOUS
  <2>3. /\ r.pc = pc /\ r.person = p /\ r.was = staff[p] /\ r.role = role /\ r.holder = Null
    BY <2>2 DEF Idle
  <2>4. Knows(r)
    BY <2>3 DEF Knows, KnowsRole, KnowsHolder, AfterHours
  <2> QED BY <1>0, <1>2, <1>m, <2>1, <2>2, <2>4 DEF EditRead, Take
<1>10. CASE EditHours(h)
  <2>1. PICK r : r = [req[h] EXCEPT !.pc = AfterHours(req[h].was, req[h].role),
                                    !.held = {<<"hours", req[h].person>>}]
    OBVIOUS
  <2>2. /\ r.pc = AfterHours(r.was, r.role) /\ r.person = req[h].person /\ r.was = req[h].was
        /\ r.role = req[h].role /\ r.holder = req[h].holder
    BY <1>0, <2>1 DEF Request
  <2>3. req[h].pc = "upsertHours" /\ req[h].holder = Null
    BY <1>0, <1>10 DEF EditHours, At, RequestOK
  <2>4. Knows(r)
    BY <1>0, <2>2, <2>3 DEF Knows, KnowsRole, KnowsHolder, AfterHours
  <2>5. req' = [req EXCEPT ![h] = r] /\ UNCHANGED <<staff, credential, halfDeleted>>
    BY <1>0, <1>10, <2>1 DEF EditHours
  <2> QED BY <1>0, <1>m, <2>4, <2>5
<1>3. CASE EditFindSuperAdmin(h)
  <2> DEFINE found == {q \in People : credential[q].role = "SuperAdmin"}
  <2>1. PICK q \in IF found = {} THEN {Null} ELSE found :
          req' = [req EXCEPT ![h] = [@ EXCEPT !.pc = "update",
                                              !.holder = Demoted(req[h].person, q)]]
    BY <1>3 DEF EditFindSuperAdmin
  <2>2. PICK r : r = [req[h] EXCEPT !.pc = "update", !.holder = Demoted(req[h].person, q)]
    OBVIOUS
  <2>3. /\ r.pc = "update" /\ r.person = req[h].person /\ r.was = req[h].was
        /\ r.role = req[h].role /\ r.holder = Demoted(r.person, q)
    BY <1>0, <2>2 DEF Request
  <2>4. req[h].pc = "findSuperAdmin" /\ UNCHANGED <<staff, credential, halfDeleted>>
    BY <1>3 DEF EditFindSuperAdmin, At
  <2>5. r.person \in Employed /\ staff[r.person] = r.was /\ Transfers(r.was, r.role)
    BY <1>0, <2>3, <2>4 DEF KnowsRole
  <2>6. \A p \in Employed : p \in found <=> staff[p] = "SuperAdmin"
    BY <1>0 DEF IInv, RolesAgree, Employed
  <2>7. found \subseteq Employed
    <3>1. \A g \in Handlers : ~At(g, "deleteCredential")
      BY <1>1, <2>4 DEF Busy, At
    <3> QED BY <1>0, <3>1 DEF IInv, OnlyStaffLogsIn, Enrolled, Roles
  <2>8. r.person \notin found
    BY <2>5, <2>6 DEF Transfers
  <2>9. KnowsHolder(r)
    <3>1. CASE found = {}
      <4>1. r.holder = Null
        BY <2>1, <2>3, <3>1 DEF Demoted
      <4>2. \A p \in Employed : staff[p] # "SuperAdmin"
        BY <2>6, <3>1
      <4> QED BY <4>1, <4>2 DEF KnowsHolder
    <3>2. CASE found # {}
      <4>1. q \in found /\ q \in Employed /\ q # r.person /\ staff[q] = "SuperAdmin"
        BY <2>1, <2>6, <2>7, <2>8, <3>2
      <4>2. r.holder = q /\ q # Null
        BY <2>3, <4>1, NullAssumption DEF Demoted, Employed
      <4> QED BY <2>5, <4>1, <4>2 DEF KnowsHolder
    <3> QED BY <3>1, <3>2
  <2>10. Knows(r)
    BY <2>3, <2>5, <2>9 DEF Knows, KnowsRole
  <2> QED BY <1>0, <1>m, <2>1, <2>2, <2>4, <2>10
<1>4. CASE EditUpdate(h)
  <2>1. PICK held : req' = [req EXCEPT ![h].held = held]
    BY <1>4 DEF EditUpdate
  <2>2. PICK r : r = [req[h] EXCEPT !.held = held]
    OBVIOUS
  <2>3. /\ r.pc = req[h].pc /\ r.person = req[h].person /\ r.was = req[h].was
        /\ r.role = req[h].role /\ r.holder = req[h].holder
    BY <1>0, <2>2 DEF Request
  <2>4. Knows(r)
    BY <1>0, <2>3 DEF Knows, KnowsRole, KnowsHolder
  <2>5. req' = [req EXCEPT ![h] = r] /\ UNCHANGED <<staff, credential, halfDeleted>>
    BY <1>0, <1>4, <2>1, <2>2 DEF EditUpdate
  <2> QED BY <1>0, <1>m, <2>4, <2>5
<1>5. CASE EditCommit(h)
  <2>1. OneSuperAdmin' /\ AdminsAreActive'
    BY <1>0, <1>5, CommitIsSound
  <2>2. req' = [req EXCEPT ![h] = Idle] /\ halfDeleted' = {}
    BY <1>0, <1>5 DEF EditCommit, Reply
  <2> QED BY <1>e, <2>1, <2>2, IdleTyped
\* A member and his login are deleted.
<1>6. CASE DeleteRead(h)
  <2>1. PICK p : Take(h, [Idle EXCEPT !.pc = "deleteStaff", !.person = p])
    BY <1>6 DEF DeleteRead
  <2>2. PICK r : r = [Idle EXCEPT !.pc = "deleteStaff", !.person = p]
    OBVIOUS
  <2>3. r.pc = "deleteStaff"
    BY <2>2 DEF Idle
  <2>4. Knows(r)
    BY <2>3 DEF Knows, KnowsRole, KnowsHolder
  <2> QED BY <1>0, <1>6, <1>m, <2>1, <2>2, <2>4 DEF DeleteRead, Take
<1>11. CASE DeleteStaff(h)
  <2>1. PICK r : r = [req[h] EXCEPT !.pc = "cascade", !.held = {<<"staff", req[h].person>>}]
    OBVIOUS
  <2>2. r.pc = "cascade"
    BY <1>0, <2>1 DEF Request
  <2>3. Knows(r)
    BY <2>2 DEF Knows, KnowsRole, KnowsHolder
  <2> QED BY <1>0, <1>11, <1>m, <2>1, <2>3 DEF DeleteStaff
<1>7. CASE CascadeStaff(h)
  <2>1. PICK p \in People :
          /\ staff' = [staff EXCEPT ![p] = "deleted"]
          /\ req' = [req EXCEPT ![h] = [@ EXCEPT !.pc = "deleteCredential", !.held = {}]]
          /\ UNCHANGED <<credential, halfDeleted>>
    BY <1>0, <1>7 DEF CascadeStaff, AfterStaff, At, RequestOK
  <2>2. Employed' = Employed \ {p} /\ \A q \in Employed' : staff'[q] = staff[q]
    BY <1>0, <2>1 DEF Employed, TypeOK, Roles
  <2>3. OneSuperAdmin' /\ AdminsAreActive'
    BY <1>0, <2>1, <2>2, FewerAreSound
  <2>4. PICK r : r = [req[h] EXCEPT !.pc = "deleteCredential", !.held = {}]
    OBVIOUS
  <2>5. r.pc = "deleteCredential" /\ req' = [req EXCEPT ![h] = r]
    BY <1>0, <2>1, <2>4 DEF Request
  <2> QED BY <1>0, <1>e, <2>1, <2>3, <2>5
<1>8. CASE DeleteCredential(h)
  <2>1. PICK p \in People : p = req[h].person /\ p \notin Employed
    <3>1. /\ req[h].person \in People
          /\ staff[req[h].person] = "deleted"
      BY <1>0, <1>8 DEF DeleteCredential, IInv, MemberDeletedFirst, At, RequestOK
    <3> QED BY <3>1 DEF Employed, Roles
  <2>2. /\ staff' = staff /\ halfDeleted' = {} /\ req' = [req EXCEPT ![h] = Idle]
        /\ \A q \in People : q # p => credential'[q] = credential[q]
    BY <1>0, <1>8, <2>1 DEF DeleteCredential, Reply, TypeOK
  <2>3. Employed' = Employed /\ \A q \in Employed : q \in People /\ q # p
    BY <2>1, <2>2 DEF Employed
  <2>4. OneSuperAdmin' /\ AdminsAreActive'
    BY <1>0, <2>2, <2>3, FewerAreSound
  <2> QED BY <1>e, <2>2, <2>4, IdleTyped
<1>9. CASE Abort(h)
  <2>1. /\ req' = [req EXCEPT ![h] = Idle] /\ halfDeleted' = {}
        /\ UNCHANGED <<staff, credential>>
    BY <1>0, <1>9 DEF Abort
  <2>2. Knows(Idle)
    BY IdleTyped DEF Knows, KnowsRole, KnowsHolder
  <2> QED BY <1>m, <2>1, <2>2
<1> QED BY <1>2, <1>3, <1>4, <1>5, <1>6, <1>7, <1>8, <1>9, <1>10, <1>11 DEF Step

\* Members are added, and the organization deleted, when no request is in flight.
LEMMA SoundOthers ==
  ASSUME CInv, calm, calm', AddStaffMember \/ AddStaffBulk \/ DeleteOrganization
  PROVE  Sound'
<1>0. TypeOK /\ IInv /\ Sound /\ Quiet /\ req' = req /\ halfDeleted' = {}
  BY DEF CInv, IInv, Sound, AddStaffMember, AddStaffBulk, Enrol, DeleteOrganization, Arrives
<1>1. \A g \in Handlers : req'[g].pc = "idle"
  BY <1>0 DEF Quiet, At
<1>2. Serial'
  BY <1>1 DEF Serial, Busy, At
<1>3. ASSUME NEW ps \in SUBSET Unused, Enrol(ps) PROVE OneSuperAdmin' /\ AdminsAreActive'
  <2>1. \A p \in People :
          /\ staff'[p] = IF p \in ps THEN "Staff" ELSE staff[p]
          /\ p \notin ps => credential'[p] = credential[p]
    BY <1>3 DEF Enrol
  <2>2. ASSUME NEW p \in Employed', staff'[p] \in {"SuperAdmin", "Admin"}
        PROVE  p \in Employed /\ staff'[p] = staff[p] /\ credential'[p] = credential[p]
    BY <2>1, <2>2 DEF Employed
  <2> QED BY <1>0, <2>2 DEF Sound, OneSuperAdmin, AdminsAreActive
<1>4. CASE DeleteOrganization
  <2>1. Employed' = {}
    BY <1>4 DEF DeleteOrganization, Employed, Roles
  <2>2. OneSuperAdmin' /\ AdminsAreActive'
    BY <2>1 DEF OneSuperAdmin, AdminsAreActive
  <2> QED BY <1>0, <1>1, <1>2, <2>2, SoundEnds
<1>5. CASE AddStaffMember \/ AddStaffBulk
  <2>1. PICK ps \in SUBSET Unused : Enrol(ps)
    BY <1>5 DEF AddStaffMember, AddStaffBulk
  <2> QED BY <1>0, <1>1, <1>2, <1>3, <2>1, SoundEnds
<1> QED BY <1>4, <1>5

LEMMA CalmAlways == Spec => []CInv
<1>1. Init => Sound
  <2> SUFFICES ASSUME Init PROVE Sound
    OBVIOUS
  <2>1. \A h \in Handlers : req[h].pc = "idle"
    BY IdleTyped DEF Init
  <2>2. Employed = {}
    BY DEF Init, Employed, Roles
  <2> QED BY <2>1, <2>2 DEF Init, Sound, Serial, Busy, At, OneSuperAdmin, AdminsAreActive,
               Knows, KnowsRole, KnowsHolder
<1>2. IInv /\ (calm => Sound) /\ [Next]_vars => (calm => Sound)'
  <2> SUFFICES ASSUME CInv, [Next]_vars, calm' PROVE Sound'
    BY DEF CInv
  <2>1. calm /\ Sound
    BY CalmFalls DEF CInv
  <2>2. CASE UNCHANGED vars
    BY <2>1, <2>2 DEF vars, Sound, Serial, Busy, At, OneSuperAdmin, AdminsAreActive,
                      Knows, KnowsRole, KnowsHolder, Employed
  <2> QED BY <2>1, <2>2, SoundStep, SoundOthers DEF Next
<1> QED BY <1>1, <1>2, Inductive, PTL DEF Spec, CInv

\* Edits and deletions that come one at a time, in any order, keep one SuperAdmin
\* at most and every Admin's login active: AdministrationIsSound.
THEOREM AdministrationStaysSound == Spec => []AdministrationIsSound
<1>1. CInv => AdministrationIsSound
  BY DEF CInv, Sound, AdministrationIsSound
<1> QED BY <1>1, CalmAlways, PTL
=============================================================================
