----------------------------- MODULE TeamsProofs -----------------------------
(* Theorems about Teams, for every value of its constants. *)
EXTENDS Teams, TLAPS

LEMMA IdleTyped ==
  Idle \in Request /\ RequestOK(Idle) /\ Idle.pc = "idle" /\ AssignmentRemembers(Idle)
BY DEF Idle, Request, Labels, RequestOK, AssignmentRemembers

\* The row of a member is one of hers.
LEMMA RowOfMember ==
  ASSUME NEW s \in MemberStaff
  PROVE  RowOf(s) \in Members /\ member[RowOf(s)].staff = s
BY DEF MemberStaff, RowOf

LEMMA MembersTyped ==
  ASSUME TypeOK
  PROVE  /\ MemberStaff \subseteq StaffIds
         /\ \A m \in Members : m \in MemberIds /\ member[m].staff \in StaffIds
                               /\ member[m] = [row |-> "stored", staff |-> member[m].staff]
BY DEF TypeOK, MemberRow, Members, MemberStaff

LEMMA NoMember == [row |-> "deleted", staff |-> Null] \in MemberRow
BY DEF MemberRow

-----------------------------------------------------------------------------
(* What a step may do to the table of members *)

\* A row is given out once: it goes from unused to stored to deleted.
RowsAge ==
  \A m \in MemberIds :
    /\ member[m].row = "deleted" => member'[m].row = "deleted"
    /\ member[m].row = "stored"  => member'[m] = member[m] \/ member'[m].row = "deleted"

LEMMA UnmemberAges ==
  ASSUME TypeOK, NEW ms, member' = Unmember(ms)
  PROVE  /\ member' \in [MemberIds -> MemberRow]
         /\ RowsAge
         /\ \A m \in MemberIds \ ms : member'[m] = member[m]
BY NoMember DEF TypeOK, Unmember, RowsAge

\* An added member gets a row of her own.
NewRowsOnly == \A m \in MemberIds : member[m].row # "unused" => member'[m] = member[m]

LEMMA AddMasterAges ==
  ASSUME TypeOK, NEW h \in Handlers, AddMaster(h)
  PROVE  member' \in [MemberIds -> MemberRow] /\ RowsAge /\ NewRowsOnly
<1>1. PICK m \in MemberIds :
        /\ member[m].row = "unused"
        /\ member' = [member EXCEPT ![m] = [row |-> "stored", staff |-> req[h].staff]]
  BY DEF AddMaster
<1>2. req[h].staff \in StaffIds
  BY DEF AddMaster, TypeOK
<1>3. [row |-> "stored", staff |-> req[h].staff] \in MemberRow
  BY <1>2 DEF MemberRow
<1> QED BY <1>1, <1>3 DEF TypeOK, RowsAge, NewRowsOnly

LEMMA AddMembersAges ==
  ASSUME TypeOK, NEW h \in Handlers, AddMembers(h)
  PROVE  member' \in [MemberIds -> MemberRow] /\ RowsAge /\ NewRowsOnly
<1> DEFINE new == req[h].managers \ MemberStaff
           free == {m \in MemberIds : member[m].row = "unused"}
<1>1. PICK row \in Injection(new, free) :
        member' = [m \in MemberIds |->
                     IF m \in Range(row)
                     THEN [row |-> "stored", staff |-> CHOOSE s \in DOMAIN row : row[s] = m]
                     ELSE member[m]]
  BY DEF AddMembers
<1>2. row \in [new -> free] /\ new \subseteq StaffIds
  BY <1>1 DEF Injection, TypeOK, Request
<1>3. ASSUME NEW m \in Range(row)
      PROVE  /\ (CHOOSE s \in DOMAIN row : row[s] = m) \in StaffIds
             /\ m \in MemberIds /\ member[m].row = "unused"
  <2>1. \E s \in DOMAIN row : row[s] = m
    BY DEF Range
  <2> DEFINE t == CHOOSE s \in DOMAIN row : row[s] = m
  <2>2. t \in DOMAIN row /\ row[t] = m
    BY <2>1
  <2> QED BY <1>2, <2>2
<1>4. \A m \in Range(row) :
        [row |-> "stored", staff |-> CHOOSE s \in DOMAIN row : row[s] = m] \in MemberRow
  BY <1>3 DEF MemberRow
<1>5. member' \in [MemberIds -> MemberRow]
  BY <1>1, <1>4 DEF TypeOK
<1>6. \A m \in MemberIds : member[m].row # "unused" => member'[m] = member[m]
  BY <1>1, <1>3
<1> QED BY <1>5, <1>6 DEF RowsAge, NewRowsOnly

LEMMA DropTeamAges ==
  ASSUME TypeOK, DropTeam
  PROVE  member' \in [MemberIds -> MemberRow] /\ RowsAge /\ team' \in TeamRow /\ reporting' = {}
<1>1. team' \in TeamRow
  BY DEF DropTeam, TypeOK, TeamRow, Stored
<1> QED BY <1>1, UnmemberAges DEF DropTeam

LEMMA DropStaffAges ==
  ASSUME TypeOK, NEW s, DropStaff(s)
  PROVE  member' \in [MemberIds -> MemberRow] /\ RowsAge /\ team' \in TeamRow
         /\ reporting' \subseteq reporting
BY UnmemberAges DEF DropStaff, Cascade, TypeOK

\* Deletions at the level of the organization.
LEMMA DeletionsAge ==
  ASSUME TypeOK, DeleteTeam \/ DeleteStaff \/ DeleteOrganization
  PROVE  /\ member' \in [MemberIds -> MemberRow] /\ RowsAge /\ team' \in TeamRow
         /\ reporting' \subseteq reporting /\ staff' \subseteq staff
         /\ req' = req /\ Arrives
BY DropTeamAges, DropStaffAges DEF DeleteTeam, DeleteStaff, DeleteOrganization

\* The other steps of a request leave the rows alone.
LEMMA OthersKeepMembers ==
  ASSUME NEW h \in Handlers, Step(h), ~AddMaster(h), ~AddMembers(h), ~RemoveMember(h)
  PROVE  member' = member
BY DEF Step, AddTeam, EditTeamRead, EditTeamCheck, EditTeam, AddMembersRead,
       RemoveMemberRead, RemoveRelations, AssignRead, AssignReadMember,
       AssignReadManagers, AssignReadExisting, AssignReadReverse, AssignCreate,
       UnassignRead, UnassignReadRelation, Unassign, Abort

LEMMA RowsAgeStep == TypeOK /\ [Next]_vars => member' \in [MemberIds -> MemberRow] /\ RowsAge
<1> SUFFICES ASSUME TypeOK, [Next]_vars
             PROVE  member' \in [MemberIds -> MemberRow] /\ RowsAge
  OBVIOUS
<1>1. ASSUME NEW h \in Handlers, AddMaster(h)
      PROVE  member' \in [MemberIds -> MemberRow] /\ RowsAge
  BY <1>1, AddMasterAges
<1>2. ASSUME NEW h \in Handlers, AddMembers(h)
      PROVE  member' \in [MemberIds -> MemberRow] /\ RowsAge
  BY <1>2, AddMembersAges
<1>3. ASSUME NEW h \in Handlers, RemoveMember(h)
      PROVE  member' \in [MemberIds -> MemberRow] /\ RowsAge
  BY <1>3, UnmemberAges DEF RemoveMember
<1>4. ASSUME DeleteTeam \/ DeleteStaff \/ DeleteOrganization
      PROVE  member' \in [MemberIds -> MemberRow] /\ RowsAge
  BY <1>4, DeletionsAge
<1>5. ASSUME member' = member PROVE member' \in [MemberIds -> MemberRow] /\ RowsAge
  BY <1>5 DEF TypeOK, RowsAge
<1>6. ASSUME NEW h \in Handlers, Step(h), ~AddMaster(h), ~AddMembers(h), ~RemoveMember(h)
      PROVE  member' = member
  BY <1>6, OthersKeepMembers
<1> QED BY <1>1, <1>2, <1>3, <1>4, <1>5, <1>6 DEF Next, vars
-----------------------------------------------------------------------------
(* What a step may do to a request *)

\* One request changes, into one that is typed and remembers its member.
Becomes(h, r) ==
  /\ req' = [req EXCEPT ![h] = r]
  /\ r \in Request
  /\ RequestOK(r)
  /\ AssignmentRemembers(r)

LEMMA ReplyBecomes ==
  ASSUME NEW h \in Handlers, Reply(h) \/ req' = [req EXCEPT ![h] = Idle]
  PROVE  Becomes(h, Idle)
BY IdleTyped DEF Reply, Becomes

\* A handler that goes on with what it has.
LEMMA GoOnBecomes ==
  ASSUME TypeOK, NEW h \in Handlers, NEW label \in Labels,
         GoOn(h, label),
         RequestOK([req[h] EXCEPT !.pc = label]),
         AssignmentRemembers([req[h] EXCEPT !.pc = label])
  PROVE  \E r : Becomes(h, r)
<1>1. [req[h] EXCEPT !.pc = label] \in Request
  BY DEF TypeOK, Request
<1> QED BY <1>1 DEF Becomes, GoOn, TypeOK

LEMMA ArrivalBecomes ==
  ASSUME TypeOK, NEW h \in Handlers,
         \/ AddTeam(h) \/ EditTeamRead(h) \/ AddMembersRead(h) \/ RemoveMemberRead(h)
         \/ AssignRead(h) \/ UnassignRead(h)
  PROVE  (\E r : Becomes(h, r)) /\ Arrives
<1>0. ASSUME NEW r \in Request, RequestOK(r), AssignmentRemembers(r), Take(h, r)
      PROVE  (\E x : Becomes(h, x)) /\ Arrives
  BY <1>0 DEF Take, Becomes
<1>1. CASE AddTeam(h)
  <2>1. PICK s \in staff : Take(h, [Idle EXCEPT !.pc = "addMaster", !.staff = s])
    BY <1>1 DEF AddTeam
  <2> DEFINE r == [Idle EXCEPT !.pc = "addMaster", !.staff = s]
  <2>2. r \in Request /\ RequestOK(r) /\ AssignmentRemembers(r)
    BY DEF TypeOK, Idle, Request, Labels, RequestOK, AssignmentRemembers
  <2> QED BY <1>0, <2>1, <2>2
<1>2. CASE EditTeamRead(h)
  <2>1. PICK new \in StaffIds \cup {Null} :
          Take(h, [Idle EXCEPT !.pc = IF new = Null THEN "editTeam" ELSE "checkMaster",
                               !.staff = new, !.master = team.master])
    BY <1>2 DEF EditTeamRead
  <2> DEFINE r == [Idle EXCEPT !.pc = IF new = Null THEN "editTeam" ELSE "checkMaster",
                               !.staff = new, !.master = team.master]
  <2>2. team.master \in StaffIds \cup {Null}
    BY DEF TypeOK, TeamRow
  <2>3. r \in Request /\ RequestOK(r) /\ AssignmentRemembers(r)
    BY <2>2 DEF Idle, Request, Labels, RequestOK, AssignmentRemembers
  <2> QED BY <1>0, <2>1, <2>3
<1>3. CASE AddMembersRead(h)
  <2>1. PICK ids \in SUBSET staff :
          Take(h, [Idle EXCEPT !.pc = "addMembers", !.managers = ids \ {team.master}])
    BY <1>3 DEF AddMembersRead
  <2> DEFINE r == [Idle EXCEPT !.pc = "addMembers", !.managers = ids \ {team.master}]
  <2>2. ids \ {team.master} \in SUBSET StaffIds
    BY DEF TypeOK
  <2>3. r \in Request /\ RequestOK(r) /\ AssignmentRemembers(r)
    BY <2>2 DEF Idle, Request, Labels, RequestOK, AssignmentRemembers
  <2> QED BY <1>0, <2>1, <2>3
<1>4. CASE RemoveMemberRead(h)
  <2>1. PICK m \in Members :
          Take(h, [Idle EXCEPT !.pc = "deleteMember", !.member = m, !.staff = member[m].staff])
    BY <1>4 DEF RemoveMemberRead
  <2> DEFINE r == [Idle EXCEPT !.pc = "deleteMember", !.member = m, !.staff = member[m].staff]
  <2>2. m \in MemberIds /\ member[m].staff \in StaffIds
    BY MembersTyped
  <2>3. r \in Request /\ RequestOK(r) /\ AssignmentRemembers(r)
    BY <2>2 DEF Idle, Request, Labels, RequestOK, AssignmentRemembers
  <2> QED BY <1>0, <2>1, <2>3
<1>5. CASE AssignRead(h)
  <2>1. PICK s \in StaffIds, managers \in SUBSET StaffIds :
          /\ s \notin managers
          /\ Take(h, [Idle EXCEPT !.pc = "readMember", !.staff = s, !.managers = managers])
    BY <1>5 DEF AssignRead, MayReport
  <2> DEFINE r == [Idle EXCEPT !.pc = "readMember", !.staff = s, !.managers = managers]
  <2>2. r \in Request /\ RequestOK(r) /\ AssignmentRemembers(r)
    BY <2>1 DEF Idle, Request, Labels, RequestOK, AssignmentRemembers
  <2> QED BY <1>0, <2>1, <2>2
<1>6. CASE UnassignRead(h)
  <2>1. PICK s \in MemberStaff, manager \in MemberStaff :
          Take(h, [Idle EXCEPT !.pc = "readRelation", !.staff = s, !.managers = {manager}])
    BY <1>6 DEF UnassignRead
  <2> DEFINE r == [Idle EXCEPT !.pc = "readRelation", !.staff = s, !.managers = {manager}]
  <2>2. r \in Request /\ RequestOK(r) /\ AssignmentRemembers(r)
    BY MembersTyped DEF Idle, Request, Labels, RequestOK, AssignmentRemembers
  <2> QED BY <1>0, <2>1, <2>2
<1> QED BY <1>1, <1>2, <1>3, <1>4, <1>5, <1>6

LEMMA StepBecomes ==
  ASSUME IInv, NEW h \in Handlers, Step(h)
  PROVE  (\E r : Becomes(h, r)) /\ calm' \in BOOLEAN
<1>0. TypeOK /\ req[h] \in Request /\ RequestOK(req[h]) /\ AssignmentRemembers(req[h])
      /\ calm \in BOOLEAN
  BY DEF IInv, TypeOK
<1>1. CASE \/ AddTeam(h) \/ EditTeamRead(h) \/ AddMembersRead(h) \/ RemoveMemberRead(h)
           \/ AssignRead(h) \/ UnassignRead(h)
  BY <1>0, <1>1, ArrivalBecomes DEF Arrives
<1>2. CASE \/ AddMaster(h) \/ EditTeam(h) \/ AddMembers(h) \/ RemoveRelations(h)
           \/ AssignCreate(h) \/ Unassign(h) \/ Abort(h)
  <2>1. req' = [req EXCEPT ![h] = Idle] /\ calm' \in BOOLEAN
    BY <1>0, <1>2 DEF AddMaster, EditTeam, AddMembers, RemoveRelations, AssignCreate, Unassign,
                      Abort, Reply
  <2> QED BY <2>1, ReplyBecomes
<1>3. CASE EditTeamCheck(h)
  <2> DEFINE r == [req[h] EXCEPT !.pc = "editTeam", !.member = RowOf(req[h].staff)]
  <2>1. At(h, "checkMaster") /\ req[h].staff \in MemberStaff
        /\ req' = [req EXCEPT ![h] = r] /\ calm' = calm
    BY <1>0, <1>3 DEF EditTeamCheck, TypeOK
  <2>2. RowOf(req[h].staff) \in MemberIds
    BY <1>0, <2>1, RowOfMember, MembersTyped
  <2>3. r \in Request /\ RequestOK(r) /\ AssignmentRemembers(r)
    BY <1>0, <2>2 DEF Request, Labels, RequestOK, AssignmentRemembers
  <2> QED BY <1>0, <2>1, <2>3 DEF Becomes
<1>4. CASE AssignReadMember(h)
  <2> DEFINE row == RowOf(req[h].staff)
             r == [req[h] EXCEPT !.pc = "readManagers", !.member = row]
  <2>1. At(h, "readMember") /\ req[h].staff \in MemberStaff
        /\ req' = [req EXCEPT ![h] = r] /\ calm' = calm
    BY <1>0, <1>4 DEF AssignReadMember, TypeOK
  <2>2. row \in MemberIds /\ member[row] = [row |-> "stored", staff |-> req[h].staff]
    BY <1>0, <2>1, RowOfMember, MembersTyped
  <2>4. req[h].staff \in StaffIds /\ req[h].staff \notin req[h].managers
    BY <1>0, <2>1 DEF At, RequestOK, AssignmentRemembers
  <2> HIDE DEF row
  <2>3. r \in Request /\ RequestOK(r) /\ AssignmentRemembers(r)
    BY <1>0, <2>2, <2>4 DEF Request, Labels, RequestOK, AssignmentRemembers
  <2> QED BY <1>0, <2>1, <2>3 DEF Becomes, row
<1>5. CASE AssignReadManagers(h)
  <2> DEFINE r == [req[h] EXCEPT !.pc = "readExisting"]
  <2>1. req[h].pc = "readManagers" /\ GoOn(h, "readExisting")
    BY <1>5 DEF AssignReadManagers, At
  <2>2. r \in Request /\ RequestOK(r) /\ AssignmentRemembers(r)
    BY <1>0, <2>1 DEF Request, Labels, RequestOK, AssignmentRemembers
  <2> QED BY <1>0, <2>1, <2>2 DEF Becomes, GoOn, TypeOK
<1>6. CASE AssignReadExisting(h)
  <2> DEFINE new == Unassigned(req[h])
             r == [req[h] EXCEPT !.pc = "readReverse", !.managers = new]
  <2>1. req[h].pc = "readExisting" /\ calm' = calm
    BY <1>6 DEF AssignReadExisting, At, Reply
  <2>2. CASE Reply(h)
    BY <1>0, <2>1, <2>2, ReplyBecomes
  <2>3. CASE new # {} /\ req' = [req EXCEPT ![h] = [@ EXCEPT !.pc = "readReverse", !.managers = new]]
    <3>1. new \subseteq req[h].managers /\ new \in SUBSET StaffIds
      BY <1>0 DEF Unassigned, Request
    <3>3. req' = [req EXCEPT ![h] = r]
      BY <1>0, <2>3 DEF TypeOK
    <3> HIDE DEF new
    <3>2. r \in Request /\ RequestOK(r) /\ AssignmentRemembers(r)
      BY <1>0, <2>1, <2>3, <3>1 DEF Request, Labels, RequestOK, AssignmentRemembers
    <3> QED BY <1>0, <2>1, <3>2, <3>3 DEF Becomes
  <2> QED BY <1>6, <2>2, <2>3 DEF AssignReadExisting
<1>7. CASE AssignReadReverse(h)
  <2> DEFINE r == [req[h] EXCEPT !.pc = "createRelations"]
  <2>1. req[h].pc = "readReverse" /\ (GoOn(h, "createRelations") \/ Reply(h))
    BY <1>7 DEF AssignReadReverse, At
  <2>2. r \in Request /\ RequestOK(r) /\ AssignmentRemembers(r)
    BY <1>0, <2>1 DEF Request, Labels, RequestOK, AssignmentRemembers
  <2>3. CASE GoOn(h, "createRelations")
    BY <1>0, <2>2, <2>3 DEF Becomes, GoOn, TypeOK
  <2>4. CASE Reply(h)
    BY <1>0, <2>4, ReplyBecomes DEF Reply
  <2> QED BY <2>1, <2>3, <2>4
<1>8. CASE UnassignReadRelation(h)
  <2> DEFINE r == [req[h] EXCEPT !.pc = "unassign"]
  <2>1. req[h].pc = "readRelation" /\ GoOn(h, "unassign")
    BY <1>8 DEF UnassignReadRelation, At
  <2>2. r \in Request /\ RequestOK(r) /\ AssignmentRemembers(r)
    BY <1>0, <2>1 DEF Request, Labels, RequestOK, AssignmentRemembers
  <2> QED BY <1>0, <2>1, <2>2 DEF Becomes, GoOn, TypeOK
<1>9. CASE RemoveMember(h)
  <2> DEFINE r == [req[h] EXCEPT !.pc = "deleteRelations"]
  <2>1. req[h].pc = "deleteMember" /\ GoOn(h, "deleteRelations")
    BY <1>9 DEF RemoveMember, At
  <2>2. r \in Request /\ RequestOK(r) /\ AssignmentRemembers(r)
    BY <1>0, <2>1 DEF Request, Labels, RequestOK, AssignmentRemembers
  <2> QED BY <1>0, <2>1, <2>2 DEF Becomes, GoOn, TypeOK
<1> QED BY <1>1, <1>2, <1>3, <1>4, <1>5, <1>6, <1>7, <1>8, <1>9 DEF Step

\* What an assignment remembers stays true while rows age.
LEMMA RemembersStep ==
  ASSUME IInv, RowsAge, NEW r \in Request, RequestOK(r), AssignmentRemembers(r)
  PROVE  AssignmentRemembers(r)'
<1> DEFINE found == {"readManagers", "readExisting", "readReverse", "createRelations"}
<1>1. ASSUME r.pc \in found
      PROVE  member'[r.member].row = "deleted"
             \/ member'[r.member] = [row |-> "stored", staff |-> r.staff]
  <2>1. r.member \in MemberIds
    BY <1>1 DEF RequestOK
  <2>2. \/ member[r.member].row = "deleted"
        \/ member[r.member] = [row |-> "stored", staff |-> r.staff]
    BY <1>1 DEF AssignmentRemembers
  <2> QED BY <2>1, <2>2 DEF RowsAge
<1> QED BY <1>1 DEF AssignmentRemembers
-----------------------------------------------------------------------------
(* What a step may do to the relations *)

\* An assignment stores relations of members, to others.
LEMMA CreateIsSound ==
  ASSUME IInv, NEW h \in Handlers, AssignCreate(h)
  PROVE  \A x \in reporting' \ reporting :
           /\ x \in Relation /\ x.staff # x.manager
           /\ x.member \in Members /\ member[x.member].staff = x.staff
<1> DEFINE r == req[h]
<1>1. r.pc = "createRelations" /\ r.member \in Members
  BY DEF AssignCreate, At
<1>2. r \in Request /\ RequestOK(r) /\ AssignmentRemembers(r)
  BY DEF IInv, TypeOK
<1>3. r.staff \in StaffIds /\ r.managers \subseteq StaffIds /\ r.member \in MemberIds
  BY <1>1, <1>2 DEF Request, RequestOK
<1>4. r.staff \notin r.managers /\ member[r.member].staff = r.staff
  BY <1>1, <1>2 DEF AssignmentRemembers, Members
<1>5. \A x \in reporting' \ reporting :
        \E s \in r.managers : x = [staff |-> r.staff, manager |-> s, member |-> r.member]
  BY DEF AssignCreate
<1> QED BY <1>1, <1>3, <1>4, <1>5 DEF Relation

\* Every other step only deletes some, and all of a row that it deletes.
LEMMA OthersDelete ==
  ASSUME IInv, [Next]_vars, \A h \in Handlers : ~AssignCreate(h)
  PROVE  reporting' \subseteq reporting
<1>1. ASSUME NEW h \in Handlers, Step(h) PROVE reporting' \subseteq reporting
  BY <1>1 DEF Step, AddTeam, AddMaster, EditTeamRead, EditTeamCheck, EditTeam, AddMembersRead,
              AddMembers, RemoveMemberRead, RemoveMember, Cascade, RemoveRelations, AssignRead,
              AssignReadMember, AssignReadManagers, AssignReadExisting, AssignReadReverse,
              UnassignRead, UnassignReadRelation, Unassign, Abort
<1>2. CASE DeleteTeam \/ DeleteStaff \/ DeleteOrganization
  BY <1>2, DeletionsAge DEF IInv
<1> QED BY <1>1, <1>2 DEF Next, vars

LEMMA ReporteesStep == IInv /\ [Next]_vars => ReporteesAreMembers'
<1> SUFFICES ASSUME IInv, [Next]_vars, NEW x \in reporting'
             PROVE  x.member \in Members' /\ member'[x.member].staff = x.staff
  BY DEF ReporteesAreMembers
<1>0. TypeOK /\ ReporteesAreMembers /\ RowsAge /\ member' \in [MemberIds -> MemberRow]
  BY RowsAgeStep DEF IInv
<1>1. ASSUME NEW h \in Handlers, AssignCreate(h)
      PROVE  x.member \in Members' /\ member'[x.member].staff = x.staff
  <2>1. x.member \in Members /\ member[x.member].staff = x.staff
    BY <1>0, <1>1, CreateIsSound DEF ReporteesAreMembers
  <2>2. member' = member
    BY <1>1 DEF AssignCreate
  <2> QED BY <2>1, <2>2 DEF Members
<1>2. CASE \A h \in Handlers : ~AssignCreate(h)
  <2>1. x \in reporting /\ x.member \in Members /\ member[x.member].staff = x.staff
    BY <1>0, <1>2, OthersDelete DEF ReporteesAreMembers
  <2> SUFFICES member'[x.member] = member[x.member]
    BY <2>1 DEF Members
  <2>2. ASSUME NEW ms, member' = Unmember(ms), x.member \notin ms
        PROVE  member'[x.member] = member[x.member]
    BY <1>0, <2>1, <2>2, UnmemberAges DEF Members
  <2>3. CASE \E h \in Handlers : RemoveMember(h)
    BY <2>2, <2>3 DEF RemoveMember, Cascade
  <2>4. CASE DeleteTeam \/ DeleteOrganization
    BY <2>4 DEF DeleteTeam, DeleteOrganization, DropTeam
  <2>5. CASE DeleteStaff
    BY <2>2, <2>5 DEF DeleteStaff, DropTeam, DropStaff, Cascade
  <2>6. CASE \E h \in Handlers : AddMaster(h) \/ AddMembers(h)
    <3>1. NewRowsOnly
      BY <1>0, <2>6, AddMasterAges, AddMembersAges
    <3> QED BY <2>1, <3>1 DEF Members, NewRowsOnly
  <2>7. ASSUME NEW h \in Handlers, Step(h), ~AddMaster(h), ~AddMembers(h), ~RemoveMember(h)
        PROVE  member' = member
    BY <2>7, OthersKeepMembers
  <2> QED BY <2>3, <2>4, <2>5, <2>6, <2>7 DEF Next, vars
<1>3. CASE \E h \in Handlers : AssignCreate(h)
  BY <1>1, <1>3
<1> QED BY <1>2, <1>3
-----------------------------------------------------------------------------
(* The invariant *)

LEMMA TypeStep == IInv /\ [Next]_vars => TypeOK'
<1> SUFFICES ASSUME IInv, [Next]_vars PROVE TypeOK'
  OBVIOUS
<1>0. TypeOK /\ member' \in [MemberIds -> MemberRow]
  BY RowsAgeStep DEF IInv
<1>1. reporting' \subseteq Relation /\ \A x \in reporting' : x.staff # x.manager
  BY <1>0, CreateIsSound, OthersDelete DEF TypeOK
<1>2. team' \in TeamRow
  <2>1. ASSUME NEW h \in Handlers, AddTeam(h) PROVE team' \in TeamRow
    BY <1>0, <2>1 DEF AddTeam, TypeOK, TeamRow
  <2>2. ASSUME NEW h \in Handlers, EditTeam(h) PROVE team' \in TeamRow
    BY <1>0, <2>2 DEF EditTeam, TypeOK, TeamRow, Stored
  <2>3. CASE DeleteTeam \/ DeleteStaff \/ DeleteOrganization
    BY <1>0, <2>3, DeletionsAge
  <2>4. ASSUME NEW h \in Handlers, Step(h), ~AddTeam(h), ~EditTeam(h) PROVE team' = team
    BY <2>4 DEF Step, AddMaster, EditTeamRead, EditTeamCheck, AddMembersRead,
              AddMembers, RemoveMemberRead, RemoveMember, RemoveRelations, AssignRead,
              AssignReadMember, AssignReadManagers, AssignReadExisting, AssignReadReverse,
              AssignCreate, UnassignRead, UnassignReadRelation, Unassign, Abort
  <2> QED BY <1>0, <2>1, <2>2, <2>3, <2>4 DEF Next, vars, TypeOK
<1>3. staff' \subseteq StaffIds
  <2>1. ASSUME NEW h \in Handlers, Step(h) PROVE staff' = staff
    BY <2>1 DEF Step, AddTeam, AddMaster, EditTeamRead, EditTeamCheck, EditTeam, AddMembersRead,
              AddMembers, RemoveMemberRead, RemoveMember, RemoveRelations, AssignRead,
              AssignReadMember, AssignReadManagers, AssignReadExisting, AssignReadReverse,
              AssignCreate, UnassignRead, UnassignReadRelation, Unassign, Abort
  <2>2. CASE DeleteTeam \/ DeleteStaff \/ DeleteOrganization
    BY <1>0, <2>2, DeletionsAge DEF TypeOK
  <2> QED BY <1>0, <2>1, <2>2 DEF Next, vars, TypeOK
<1>4. /\ req' \in [Handlers -> Request] /\ calm' \in BOOLEAN
      /\ \A g \in Handlers : RequestOK(req'[g])
  <2>1. ASSUME NEW h \in Handlers, Step(h)
        PROVE  /\ req' \in [Handlers -> Request] /\ calm' \in BOOLEAN
               /\ \A g \in Handlers : RequestOK(req'[g])
    BY <1>0, <2>1, StepBecomes DEF Becomes, TypeOK
  <2>2. CASE DeleteTeam \/ DeleteStaff \/ DeleteOrganization
    BY <1>0, <2>2, DeletionsAge DEF TypeOK, Arrives
  <2> QED BY <1>0, <2>1, <2>2 DEF Next, vars, TypeOK
<1> QED BY <1>0, <1>1, <1>2, <1>3, <1>4 DEF TypeOK

LEMMA AssignmentsStep ==
  IInv /\ [Next]_vars => \A h \in Handlers : AssignmentRemembers(req[h])'
<1> SUFFICES ASSUME IInv, [Next]_vars, NEW h \in Handlers PROVE AssignmentRemembers(req[h])'
  OBVIOUS
<1>0. RowsAge /\ req \in [Handlers -> Request]
      /\ \A g \in Handlers : RequestOK(req[g]) /\ AssignmentRemembers(req[g])
  BY RowsAgeStep DEF IInv, TypeOK
<1>1. PICK r \in Request : RequestOK(r) /\ AssignmentRemembers(r) /\ req'[h] = r
  <2>1. ASSUME NEW g \in Handlers, Step(g)
        PROVE  \E r \in Request : RequestOK(r) /\ AssignmentRemembers(r) /\ req'[h] = r
    BY <1>0, <2>1, StepBecomes DEF Becomes
  <2>2. CASE req' = req
    BY <1>0, <2>2
  <2>3. CASE DeleteTeam \/ DeleteStaff \/ DeleteOrganization
    BY <1>0, <2>3, <2>2, DeletionsAge DEF IInv
  <2> QED BY <2>1, <2>2, <2>3 DEF Next, vars
<1>2. AssignmentRemembers(r)'
  BY <1>0, <1>1, RemembersStep
<1> QED BY <1>1, <1>2 DEF AssignmentRemembers

LEMMA InvInit == Init => IInv
BY IdleTyped DEF Init, IInv, TypeOK, TeamRow, MemberRow, ReporteesAreMembers

LEMMA InvStep == IInv /\ [Next]_vars => IInv'
BY TypeStep, ReporteesStep, AssignmentsStep DEF IInv

LEMMA Inductive == Spec => []IInv
BY InvInit, InvStep, PTL DEF Spec

\* Rows and requests have their types, whatever the staff, the size of the team
\* and the number of requests served at once.
THEOREM TeamsTyped == Spec => []TypeOK
<1>1. IInv => TypeOK
  BY DEF IInv
<1> QED BY <1>1, Inductive, PTL

\* A relation belongs to a stored row of the member who reports, however
\* assignments race with removals and deletions, and nobody reports to himself.
THEOREM ReportingSafe == Spec => []ReporteesAreMembers
<1>1. IInv => ReporteesAreMembers
  BY DEF IInv
<1> QED BY <1>1, Inductive, PTL
-----------------------------------------------------------------------------
(* Requests that come one at a time *)

Busy(h) == ~At(h, "idle")

Serial == \A g, h \in Handlers : Busy(g) /\ Busy(h) => g = h

\* A manager is a member of the team, or about to lose the relations.
Managed(x) ==
  \/ x.manager \in MemberStaff
  \/ \E h \in Handlers : At(h, "deleteRelations") /\ req[h].staff = x.manager

\* What the request in flight has found out, and still holds.
Assigning == {"readMember", "readManagers", "readExisting", "readReverse", "createRelations"}

Knows(r) ==
  /\ r.pc \in Assigning => r.staff # team.master
  /\ r.pc \in {"readExisting", "readReverse", "createRelations"} => r.managers \subseteq MemberStaff
  /\ r.pc = "createRelations" => Reverse(r) = {}
  /\ r.pc = "deleteMember" /\ r.member \in Members => member[r.member].staff = r.staff

Sound ==
  /\ Serial
  /\ NoMutualReporting /\ MasterReportsToNobody
  /\ \A x \in reporting : Managed(x)
  /\ \A h \in Handlers : Knows(req[h])

\* A team that is not stored has no members.
NoTeamNoMembers == ~Stored => Members = {}

CInv == IInv /\ NoTeamNoMembers /\ (calm => Sound)

LEMMA NoTeamInit == Init => NoTeamNoMembers
BY DEF Init, NoTeamNoMembers, Members

LEMMA NoTeamStep == IInv /\ NoTeamNoMembers /\ [Next]_vars => NoTeamNoMembers'
<1> SUFFICES ASSUME IInv, NoTeamNoMembers, [Next]_vars, ~Stored' PROVE Members' = {}
  BY DEF NoTeamNoMembers
<1>0. TypeOK
  BY DEF IInv
<1>1. ASSUME DropTeam PROVE Members' = {}
  BY <1>0, <1>1 DEF DropTeam, Unmember, Members
<1>2. ASSUME team' = team, ~(\E h \in Handlers : AddMaster(h) \/ AddMembers(h))
      PROVE  Members' = {}
  <2>1. Members = {}
    BY <1>2 DEF NoTeamNoMembers, Stored
  <2>2. ASSUME NEW ms, member' = Unmember(ms) PROVE Members' = {}
    BY <2>1, <2>2 DEF Unmember, Members
  <2>3. ASSUME NEW h \in Handlers, Step(h), ~RemoveMember(h) PROVE Members' = {}
    <3>1. member' = member
      BY <1>2, <2>3, OthersKeepMembers
    <3> QED BY <2>1, <3>1 DEF Members
  <2>4. ASSUME NEW h \in Handlers, RemoveMember(h) PROVE Members' = {}
    BY <2>2, <2>4 DEF RemoveMember
  <2>5. CASE DeleteTeam \/ DeleteStaff \/ DeleteOrganization
    BY <2>2, <2>5, <1>1 DEF DeleteTeam, DeleteStaff, DeleteOrganization, DropStaff
  <2>6. CASE UNCHANGED vars
    BY <2>1, <2>6 DEF vars, Members
  <2> QED BY <2>3, <2>4, <2>5, <2>6 DEF Next
<1>3. ASSUME NEW h \in Handlers, AddMaster(h) PROVE Members' = {}
  BY <1>3 DEF AddMaster, Stored
<1>4. ASSUME NEW h \in Handlers, AddMembers(h) PROVE Members' = {}
  <2>1. ~Stored /\ req[h].managers = {} /\ Members = {}
    BY <1>4 DEF AddMembers, Stored, NoTeamNoMembers
  <2>2. PICK row \in Injection({} \ MemberStaff, {m \in MemberIds : member[m].row = "unused"}) :
          member' = [m \in MemberIds |->
                       IF m \in Range(row)
                       THEN [row |-> "stored", staff |-> CHOOSE s \in DOMAIN row : row[s] = m]
                       ELSE member[m]]
    BY <1>4, <2>1 DEF AddMembers
  <2>3. Range(row) = {}
    BY <2>2 DEF Injection, Range
  <2> QED BY <2>1, <2>2, <2>3 DEF Members
<1>5. ASSUME NEW h \in Handlers, AddTeam(h) \/ EditTeam(h) PROVE FALSE
  <2>1. CASE AddTeam(h)
    <3>1. PICK s : team' = [row |-> "stored", master |-> s]
      BY <2>1 DEF AddTeam
    <3> QED BY <3>1 DEF Stored
  <2>2. CASE EditTeam(h)
    <3>1. PICK s : team' = [team EXCEPT !.master = s]
      BY <2>2 DEF EditTeam
    <3>2. team'.row = team.row
      BY <1>0, <3>1 DEF TypeOK, TeamRow
    <3> QED BY <2>2, <3>2 DEF EditTeam, Stored
  <2> QED BY <1>5, <2>1, <2>2
<1>6. CASE DeleteTeam \/ DeleteOrganization
  BY <1>1, <1>6 DEF DeleteTeam, DeleteOrganization
<1>7. CASE DeleteStaff
  <2>1. CASE DropTeam
    BY <1>1, <2>1
  <2>2. CASE ~DropTeam
    <3>1. PICK s \in staff : DropStaff(s)
      BY <1>7, <2>2 DEF DeleteStaff
    <3>2. team' = team /\ \E ms : member' = Unmember(ms)
      BY <3>1 DEF DropStaff
    <3>3. Members = {}
      BY <3>2 DEF NoTeamNoMembers, Stored
    <3> QED BY <3>2, <3>3 DEF Unmember, Members
  <2> QED BY <2>1, <2>2
<1>8. ASSUME NEW h \in Handlers, Step(h), ~AddTeam(h), ~EditTeam(h) PROVE team' = team
  BY <1>8 DEF Step, AddMaster, EditTeamRead, EditTeamCheck, AddMembersRead,
            AddMembers, RemoveMemberRead, RemoveMember, RemoveRelations, AssignRead,
            AssignReadMember, AssignReadManagers, AssignReadExisting, AssignReadReverse,
            AssignCreate, UnassignRead, UnassignReadRelation, Unassign, Abort
<1> QED BY <1>2, <1>3, <1>4, <1>5, <1>6, <1>7, <1>8 DEF Next, vars

LEMMA CalmFalls == [Next]_vars /\ calm' => calm
<1> SUFFICES ASSUME [Next]_vars, calm' PROVE calm
  OBVIOUS
<1>1. ASSUME NEW h \in Handlers, Step(h) PROVE calm
  BY <1>1 DEF Step, AddTeam, AddMaster, EditTeamRead, EditTeamCheck, EditTeam, AddMembersRead,
            AddMembers, RemoveMemberRead, RemoveMember, RemoveRelations, AssignRead,
            AssignReadMember, AssignReadManagers, AssignReadExisting, AssignReadReverse,
            AssignCreate, UnassignRead, UnassignReadRelation, Unassign, Abort,
            Take, GoOn, Reply, Arrives
<1>2. CASE DeleteTeam \/ DeleteStaff \/ DeleteOrganization
  BY <1>2 DEF DeleteTeam, DeleteStaff, DeleteOrganization, Arrives
<1> QED BY <1>1, <1>2 DEF Next, vars

\* The request that takes a step is the only one.
LEMMA OnlyOne ==
  ASSUME Serial, NEW h \in Handlers, Step(h), calm'
  PROVE  \A g \in Handlers : g # h => ~Busy(g)
<1>1. Quiet \/ Busy(h)
  BY DEF Busy, At, Step, AddTeam, AddMaster, EditTeamRead, EditTeamCheck, EditTeam, AddMembersRead,
            AddMembers, RemoveMemberRead, RemoveMember, RemoveRelations, AssignRead,
            AssignReadMember, AssignReadManagers, AssignReadExisting, AssignReadReverse,
            AssignCreate, UnassignRead, UnassignReadRelation, Unassign, Abort,
            Take, Arrives
<1> QED BY <1>1 DEF Quiet, Busy, Serial

\* It moves on, and the tables stay.
LEMMA SoundMoves ==
  ASSUME TypeOK, Sound, NEW h \in Handlers, \A g \in Handlers : g # h => ~Busy(g),
         ~At(h, "deleteRelations"), NEW r, req' = [req EXCEPT ![h] = r], Knows(r),
         UNCHANGED <<team, member, reporting>>
  PROVE  Sound'
<1>1. req'[h] = r /\ \A g \in Handlers : g # h => req'[g] = req[g] /\ req[g].pc = "idle"
  BY DEF TypeOK, Busy, At
<1>2. Members' = Members /\ MemberStaff' = MemberStaff
  BY DEF Members, MemberStaff
<1>3. Serial'
  BY <1>1 DEF Serial, Busy, At
<1>4. \A x \in reporting' : Managed(x)'
  <2>1. ASSUME NEW x \in reporting PROVE x.manager \in MemberStaff
    <3>1. \A g \in Handlers : ~At(g, "deleteRelations")
      BY <1>1 DEF At
    <3> QED BY <3>1 DEF Sound, Managed
  <2> QED BY <1>2, <2>1 DEF Managed
<1>5. ASSUME NEW g \in Handlers PROVE Knows(req[g])'
  <2>1. CASE g = h
    BY <1>1, <1>2, <2>1 DEF Knows, Reverse
  <2>2. CASE g # h
    <3>1. req'[g].pc = "idle"
      BY <1>1, <2>2
    <3> QED BY <3>1 DEF Knows, Assigning
  <2> QED BY <2>1, <2>2
<1>6. NoMutualReporting' /\ MasterReportsToNobody'
  BY DEF Sound, NoMutualReporting, MasterReportsToNobody
<1> QED BY <1>3, <1>4, <1>5, <1>6 DEF Sound

\* It ends, and the relations are sound.
LEMMA SoundEnds ==
  ASSUME TypeOK, NEW h \in Handlers, \A g \in Handlers : g # h => ~Busy(g),
         req' = [req EXCEPT ![h] = Idle], NoMutualReporting', MasterReportsToNobody',
         \A x \in reporting' : x.manager \in MemberStaff'
  PROVE  Sound'
<1>1. \A g \in Handlers : req'[g].pc = "idle"
  BY IdleTyped DEF TypeOK, Busy, At
<1>2. Serial'
  BY <1>1 DEF Serial, Busy, At
<1>3. ASSUME NEW g \in Handlers PROVE Knows(req[g])'
  BY <1>1 DEF Knows, Assigning
<1> QED BY <1>2, <1>3 DEF Sound, Managed

\* Fewer relations are as sound.
LEMMA FewerAreSound ==
  ASSUME Sound, reporting' \subseteq reporting
  PROVE  /\ NoMutualReporting'
         /\ team'.master = team.master => MasterReportsToNobody'
BY DEF Sound, NoMutualReporting, MasterReportsToNobody

\* When no request is removing a member, every manager is one.
LEMMA ManagersAre ==
  ASSUME Sound, \A g \in Handlers : ~At(g, "deleteRelations")
  PROVE  \A x \in reporting : x.manager \in MemberStaff
BY DEF Sound, Managed

LEMMA MembersStay ==
  ASSUME TypeOK, NewRowsOnly PROVE MemberStaff \subseteq MemberStaff'
BY DEF NewRowsOnly, MemberStaff, Members, TypeOK

\* Without a team there are no relations.
LEMMA NoTeamNoRelations ==
  ASSUME IInv, NoTeamNoMembers, ~Stored PROVE reporting = {}
BY DEF IInv, NoTeamNoMembers, ReporteesAreMembers

LEMMA SoundStep ==
  ASSUME CInv, calm, calm', NEW h \in Handlers, Step(h)
  PROVE  Sound'
<1>0. /\ TypeOK /\ IInv /\ Sound /\ NoTeamNoMembers /\ Serial /\ Knows(req[h])
      /\ AssignmentRemembers(req[h]) /\ RequestOK(req[h]) /\ req[h] \in Request
      /\ req \in [Handlers -> Request]
  BY DEF CInv, IInv, Sound, TypeOK
<1>1. \A g \in Handlers : g # h => ~Busy(g)
  BY <1>0, OnlyOne
<1>m. ASSUME NEW r, req' = [req EXCEPT ![h] = r], Knows(r), ~At(h, "deleteRelations"),
             UNCHANGED <<team, member, reporting>>
      PROVE  Sound'
  BY <1>0, <1>1, <1>m, SoundMoves
<1>r. ASSUME Reply(h), ~At(h, "deleteRelations"), UNCHANGED <<team, member, reporting>>
      PROVE  Sound'
  <2>1. Knows(Idle)
    BY IdleTyped DEF Knows, Assigning
  <2> QED BY <1>m, <1>r, <2>1 DEF Reply
<1>g. ASSUME NEW label, GoOn(h, label), ~At(h, "deleteRelations"),
             UNCHANGED <<team, member, reporting>>,
             NEW r, r = [req[h] EXCEPT !.pc = label], Knows(r)
      PROVE  Sound'
  <2>1. req' = [req EXCEPT ![h] = r]
    BY <1>0, <1>g DEF GoOn
  <2> QED BY <1>g, <1>m, <2>1
<1>w. ASSUME ~At(h, "deleteRelations")
      PROVE  \A x \in reporting : x.manager \in MemberStaff
  <2>1. \A g \in Handlers : ~At(g, "deleteRelations")
    BY <1>1, <1>w DEF Busy, At
  <2> QED BY <1>0, <2>1, ManagersAre
\* Requests arrive.
<1>2. CASE AddTeam(h)
  <2>1. PICK s \in staff : /\ team' = [row |-> "stored", master |-> s]
                           /\ req' = [req EXCEPT ![h] = [Idle EXCEPT !.pc = "addMaster", !.staff = s]]
    BY <1>2 DEF AddTeam, Take
  <2>2. ~Stored /\ UNCHANGED <<member, reporting>>
    BY <1>2 DEF AddTeam, Stored
  <2>3. reporting = {}
    BY <1>0, <2>2, NoTeamNoRelations
  <2>4. /\ req'[h].pc = "addMaster"
        /\ \A g \in Handlers : g # h => req'[g].pc = "idle"
    BY <1>0, <1>1, <2>1 DEF Idle, Busy, At
  <2>5. Serial'
    BY <2>4 DEF Serial, Busy, At
  <2>6. ASSUME NEW g \in Handlers PROVE Knows(req[g])'
    BY <2>4 DEF Knows, Assigning
  <2> QED BY <2>2, <2>3, <2>5, <2>6 DEF Sound, NoMutualReporting, MasterReportsToNobody
<1>3. CASE EditTeamRead(h) \/ AddMembersRead(h) \/ RemoveMemberRead(h) \/ AssignRead(h)
           \/ UnassignRead(h)
  <2>1. PICK r : /\ At(h, "idle") /\ req' = [req EXCEPT ![h] = r]
                 /\ r.pc \in Assigning => r.pc = "readMember" /\ r.staff # team.master
                 /\ r.pc = "deleteMember" => r.member \in Members /\ member[r.member].staff = r.staff
                 /\ UNCHANGED <<team, member, reporting>>
    <3>1. CASE EditTeamRead(h)
      <4>1. PICK new : Take(h, [Idle EXCEPT !.pc = IF new = Null THEN "editTeam" ELSE "checkMaster",
                                            !.staff = new, !.master = team.master])
        BY <3>1 DEF EditTeamRead
      <4>2. PICK r : r = [Idle EXCEPT !.pc = IF new = Null THEN "editTeam" ELSE "checkMaster",
                                      !.staff = new, !.master = team.master]
        OBVIOUS
      <4>3. r.pc \in {"editTeam", "checkMaster"}
        BY <4>2 DEF Idle
      <4> QED BY <3>1, <4>1, <4>2, <4>3 DEF EditTeamRead, Take, Assigning
    <3>2. CASE AddMembersRead(h)
      <4>1. PICK ids : Take(h, [Idle EXCEPT !.pc = "addMembers", !.managers = ids])
        BY <3>2 DEF AddMembersRead
      <4>2. [Idle EXCEPT !.pc = "addMembers", !.managers = ids].pc = "addMembers"
        BY DEF Idle
      <4> QED BY <3>2, <4>1, <4>2 DEF AddMembersRead, Take, Assigning
    <3>3. CASE RemoveMemberRead(h)
      <4>1. PICK m \in Members : Take(h, [Idle EXCEPT !.pc = "deleteMember", !.member = m,
                                                      !.staff = member[m].staff])
        BY <3>3 DEF RemoveMemberRead
      <4>2. PICK r : r = [Idle EXCEPT !.pc = "deleteMember", !.member = m,
                                      !.staff = member[m].staff]
        OBVIOUS
      <4>3. r.pc = "deleteMember" /\ r.member = m /\ r.staff = member[m].staff
        BY <4>2 DEF Idle
      <4> QED BY <3>3, <4>1, <4>2, <4>3 DEF RemoveMemberRead, Take, Assigning
    <3>4. CASE AssignRead(h)
      <4>1. PICK s, managers :
              /\ MayReport(s, managers)
              /\ Take(h, [Idle EXCEPT !.pc = "readMember", !.staff = s, !.managers = managers])
        BY <3>4 DEF AssignRead
      <4>2. PICK r : r = [Idle EXCEPT !.pc = "readMember", !.staff = s, !.managers = managers]
        OBVIOUS
      <4>3. r.pc = "readMember" /\ r.staff = s
        BY <4>2 DEF Idle
      <4> QED BY <3>4, <4>1, <4>2, <4>3 DEF AssignRead, Take, MayReport
    <3>5. CASE UnassignRead(h)
      <4>1. PICK s, manager : Take(h, [Idle EXCEPT !.pc = "readRelation", !.staff = s,
                                                   !.managers = {manager}])
        BY <3>5 DEF UnassignRead
      <4>2. [Idle EXCEPT !.pc = "readRelation", !.staff = s, !.managers = {manager}].pc
              = "readRelation"
        BY DEF Idle
      <4> QED BY <3>5, <4>1, <4>2 DEF UnassignRead, Take, Assigning
    <3> QED BY <1>3, <3>1, <3>2, <3>3, <3>4, <3>5
  <2>2. Knows(r)
    BY <2>1 DEF Knows, Assigning
  <2>3. ~At(h, "deleteRelations")
    BY <2>1 DEF At
  <2> QED BY <1>m, <2>1, <2>2, <2>3
\* Members are added.
<1>4. CASE AddMaster(h) \/ AddMembers(h)
  <2>1. /\ ~At(h, "deleteRelations") /\ req' = [req EXCEPT ![h] = Idle]
        /\ UNCHANGED <<team, reporting>>
    BY <1>4 DEF AddMaster, AddMembers, At, Reply
  <2>2. MemberStaff \subseteq MemberStaff'
    BY <1>0, <1>4, AddMasterAges, AddMembersAges, MembersStay
  <2>3. \A x \in reporting' : x.manager \in MemberStaff'
    BY <1>w, <2>1, <2>2
  <2>4. NoMutualReporting' /\ MasterReportsToNobody'
    BY <1>0, <2>1, FewerAreSound
  <2> QED BY <1>0, <1>1, <2>1, <2>3, <2>4, SoundEnds
\* A new master: his relations go.
<1>5. CASE EditTeamCheck(h)
  <2>1. PICK r : r = [req[h] EXCEPT !.pc = "editTeam", !.member = RowOf(req[h].staff)]
    OBVIOUS
  <2>2. r.pc = "editTeam"
    BY <1>0, <2>1 DEF Request
  <2>3. Knows(r)
    BY <2>2 DEF Knows, Assigning
  <2>4. req' = [req EXCEPT ![h] = r] /\ ~At(h, "deleteRelations")
        /\ UNCHANGED <<team, member, reporting>>
    BY <1>0, <1>5, <2>1 DEF EditTeamCheck, At
  <2> QED BY <1>m, <2>3, <2>4
<1>6. CASE EditTeam(h)
  <2>1. PICK r, new : r = req[h] /\ new = IF r.staff = Null THEN team.master ELSE r.staff
    OBVIOUS
  <2>2. /\ At(h, "editTeam") /\ reporting' \subseteq reporting /\ member' = member
        /\ team' = [team EXCEPT !.master = new] /\ req' = [req EXCEPT ![h] = Idle]
    BY <1>6, <2>1 DEF EditTeam, Reply
  <2>3. r.staff # Null => \A x \in reporting' : x.staff # r.staff
    <3>1. reporting' = reporting
            \ (UNION {Relations(s, r.member) : s \in NewMaster(r)}
               \cup UNION {Relations(s, RowOf(s)) : s \in OldMaster(r) \cap MemberStaff})
      BY <1>6, <2>1 DEF EditTeam
    <3>2. \A x \in reporting' : x \in reporting /\ \A s \in NewMaster(r) : x \notin Relations(s, r.member)
      BY <3>1
    <3> QED BY <3>2 DEF Relations, NewMaster
  <2>4. team'.master = new
    BY <1>0, <2>2 DEF TypeOK, TeamRow
  <2>5. NoMutualReporting' /\ MasterReportsToNobody'
    <3>1. CASE r.staff = Null
      BY <1>0, <2>1, <2>2, <2>4, <3>1, FewerAreSound
    <3>2. CASE r.staff # Null
      <4>1. MasterReportsToNobody'
        BY <2>1, <2>3, <2>4, <3>2 DEF MasterReportsToNobody
      <4> QED BY <1>0, <2>2, <4>1, FewerAreSound
    <3> QED BY <3>1, <3>2
  <2>6. \A x \in reporting' : x.manager \in MemberStaff'
    BY <1>w, <2>2 DEF At, MemberStaff, Members
  <2> QED BY <1>0, <1>1, <2>2, <2>5, <2>6, SoundEnds
\* A member is removed: whoever reports to her still does, until the next call.
<1>7. CASE RemoveMember(h)
  <2>1. PICK r, m, s : r = req[h] /\ m = r.member /\ s = r.staff
    OBVIOUS
  <2>2. /\ r.pc = "deleteMember" /\ m \in Members /\ member' = Unmember({m})
        /\ reporting' \subseteq reporting /\ UNCHANGED <<staff, team>>
        /\ req' = [req EXCEPT ![h] = [@ EXCEPT !.pc = "deleteRelations"]]
    BY <1>7, <2>1 DEF RemoveMember, Cascade, GoOn, At
  <2>3. member[m].staff = s
    BY <1>0, <2>1, <2>2 DEF Knows
  <2>4. req'[h].pc = "deleteRelations" /\ req'[h].staff = s
        /\ \A g \in Handlers : g # h => req'[g].pc = "idle"
    BY <1>0, <1>1, <2>1, <2>2 DEF Request, Busy, At
  <2>5. ASSUME NEW x \in reporting' PROVE Managed(x)'
    <3>1. x.manager \in MemberStaff
      BY <1>w, <2>1, <2>2, <2>5 DEF At
    <3>2. PICK n \in Members : member[n].staff = x.manager
      BY <3>1 DEF MemberStaff
    <3>3. CASE n = m
      <4>1. x.manager = s
        BY <2>3, <3>2, <3>3
      <4> QED BY <2>4, <4>1 DEF Managed, At
    <3>4. CASE n # m
      <4>1. n \in Members' /\ member'[n] = member[n]
        BY <1>0, <2>2, <3>4, UnmemberAges DEF Members
      <4> QED BY <3>2, <4>1 DEF Managed, MemberStaff
    <3> QED BY <3>3, <3>4
  <2>6. Serial'
    BY <2>4 DEF Serial, Busy, At
  <2>7. ASSUME NEW g \in Handlers PROVE Knows(req[g])'
    BY <2>4 DEF Knows, Assigning
  <2>8. NoMutualReporting' /\ MasterReportsToNobody'
    BY <1>0, <2>2, FewerAreSound
  <2> QED BY <2>5, <2>6, <2>7, <2>8 DEF Sound
<1>8. CASE RemoveRelations(h)
  <2>1. PICK r : r = req[h]
    OBVIOUS
  <2>2. /\ r.pc = "deleteRelations" /\ reporting' = reporting \ Relations(r.staff, r.member)
        /\ UNCHANGED <<staff, team, member>> /\ req' = [req EXCEPT ![h] = Idle]
    BY <1>8, <2>1 DEF RemoveRelations, AllRelations, Reply, At
  <2>3. ASSUME NEW x \in reporting' PROVE x.manager \in MemberStaff'
    <3>1. x \in reporting /\ x.manager # r.staff
      BY <2>2, <2>3 DEF Relations
    <3>2. \A g \in Handlers : At(g, "deleteRelations") => g = h
      BY <1>1 DEF Busy, At
    <3>3. x.manager \in MemberStaff
      BY <1>0, <2>1, <3>1, <3>2 DEF Sound, Managed
    <3> QED BY <2>2, <3>3 DEF MemberStaff, Members
  <2>4. NoMutualReporting' /\ MasterReportsToNobody'
    BY <1>0, <2>2, FewerAreSound
  <2> QED BY <1>0, <1>1, <2>2, <2>3, <2>4, SoundEnds
\* An assignment reads.
<1>9. CASE AssignReadMember(h)
  <2>1. PICK r : r = [req[h] EXCEPT !.pc = "readManagers", !.member = RowOf(req[h].staff)]
    OBVIOUS
  <2>2. /\ At(h, "readMember") /\ req' = [req EXCEPT ![h] = r]
        /\ UNCHANGED <<team, member, reporting>>
    BY <1>0, <1>9, <2>1 DEF AssignReadMember
  <2>3. r.pc = "readManagers" /\ r.staff = req[h].staff
    BY <1>0, <2>1 DEF Request
  <2>4. Knows(r)
    BY <1>0, <2>2, <2>3 DEF Knows, Assigning, At
  <2> QED BY <1>m, <2>2, <2>4 DEF At
<1>10. CASE AssignReadManagers(h)
  <2>1. PICK r : r = [req[h] EXCEPT !.pc = "readExisting"]
    OBVIOUS
  <2>2. /\ At(h, "readManagers") /\ GoOn(h, "readExisting")
        /\ UNCHANGED <<team, member, reporting>> /\ req[h].managers \subseteq MemberStaff
    BY <1>10 DEF AssignReadManagers
  <2>3. r.pc = "readExisting" /\ r.staff = req[h].staff /\ r.managers = req[h].managers
    BY <1>0, <2>1 DEF Request
  <2>4. Knows(r)
    BY <1>0, <2>2, <2>3 DEF Knows, Assigning, At
  <2> QED BY <1>g, <2>1, <2>2, <2>4 DEF At
<1>11. CASE AssignReadExisting(h)
  <2>1. PICK new : new = Unassigned(req[h])
    OBVIOUS
  <2>2. PICK r : r = [req[h] EXCEPT !.pc = "readReverse", !.managers = new]
    OBVIOUS
  <2>3. /\ At(h, "readExisting") /\ UNCHANGED <<team, member, reporting>>
        /\ Reply(h) \/ req' = [req EXCEPT ![h] = r]
    BY <1>0, <1>11, <2>1, <2>2 DEF AssignReadExisting
  <2>4. /\ r.pc = "readReverse" /\ r.staff = req[h].staff /\ r.managers = new
        /\ new \subseteq req[h].managers
    BY <1>0, <2>1, <2>2 DEF Request, Unassigned
  <2>5. Knows(r)
    BY <1>0, <2>3, <2>4 DEF Knows, Assigning, At
  <2> QED BY <1>m, <1>r, <2>3, <2>5 DEF At
<1>12. CASE AssignReadReverse(h)
  <2>1. PICK r : r = [req[h] EXCEPT !.pc = "createRelations"]
    OBVIOUS
  <2>2. /\ At(h, "readReverse") /\ UNCHANGED <<team, member, reporting>>
        /\ \/ Reply(h)
           \/ Reverse(req[h]) = {} /\ GoOn(h, "createRelations")
    BY <1>12 DEF AssignReadReverse
  <2>3. r.pc = "createRelations" /\ r.staff = req[h].staff /\ r.managers = req[h].managers
    BY <1>0, <2>1 DEF Request
  <2>4. Reverse(req[h]) = {} => Knows(r)
    BY <1>0, <2>2, <2>3 DEF Knows, Assigning, At, Reverse
  <2> QED BY <1>g, <1>r, <2>1, <2>2, <2>4 DEF At
\* It stores relations of a member who is not the master, to members who do not
\* report to her.
<1>13. CASE AssignCreate(h)
  <2>1. PICK r : r = req[h]
    OBVIOUS
  <2>2. /\ r.pc = "createRelations" /\ UNCHANGED <<staff, team, member>>
        /\ req' = [req EXCEPT ![h] = Idle]
        /\ reporting' = reporting \cup
             {[staff |-> r.staff, manager |-> s, member |-> r.member] : s \in r.managers}
    BY <1>13, <2>1 DEF AssignCreate, Reply, At
  <2>3. /\ r.staff # team.master /\ r.managers \subseteq MemberStaff /\ r.staff \notin r.managers
        /\ \A x \in reporting : ~(x.staff \in r.managers /\ x.manager = r.staff)
    BY <1>0, <2>1, <2>2 DEF Knows, Assigning, AssignmentRemembers, Reverse
  <2>4. ASSUME NEW x \in reporting', x \notin reporting
        PROVE  x.staff = r.staff /\ x.manager \in r.managers
    BY <2>2, <2>4
  <2>5. MasterReportsToNobody'
    <3>1. MasterReportsToNobody
      BY <1>0 DEF Sound
    <3> QED BY <2>2, <2>3, <2>4, <3>1 DEF MasterReportsToNobody
  <2>6. NoMutualReporting'
    <3>1. NoMutualReporting
      BY <1>0 DEF Sound
    <3>2. ASSUME NEW x \in reporting', NEW y \in reporting'
          PROVE  ~(x.staff = y.manager /\ x.manager = y.staff)
      <4>1. CASE x \in reporting /\ y \in reporting
        BY <3>1, <4>1 DEF NoMutualReporting
      <4>2. CASE x \notin reporting
        BY <2>3, <2>4, <4>2
      <4>3. CASE y \notin reporting
        BY <2>3, <2>4, <4>3
      <4> QED BY <4>1, <4>2, <4>3
    <3> QED BY <3>2 DEF NoMutualReporting
  <2>7. \A x \in reporting' : x.manager \in MemberStaff'
    <3>1. \A x \in reporting : x.manager \in MemberStaff
      BY <1>w, <2>1, <2>2 DEF At
    <3> QED BY <2>2, <2>3, <2>4, <3>1 DEF MemberStaff, Members
  <2> QED BY <1>0, <1>1, <2>2, <2>5, <2>6, <2>7, SoundEnds
\* A relation is removed.
<1>14. CASE UnassignReadRelation(h)
  <2>1. PICK r : r = [req[h] EXCEPT !.pc = "unassign"]
    OBVIOUS
  <2>2. r.pc = "unassign"
    BY <1>0, <2>1 DEF Request
  <2>3. Knows(r)
    BY <2>2 DEF Knows, Assigning
  <2> QED BY <1>14, <1>g, <2>1, <2>3 DEF UnassignReadRelation, At
<1>15. CASE Unassign(h)
  <2>1. /\ At(h, "unassign") /\ reporting' \subseteq reporting
        /\ UNCHANGED <<staff, team, member>> /\ req' = [req EXCEPT ![h] = Idle]
    BY <1>15 DEF Unassign, Reply
  <2>2. \A x \in reporting' : x.manager \in MemberStaff'
    BY <1>w, <2>1 DEF At, MemberStaff, Members
  <2>3. NoMutualReporting' /\ MasterReportsToNobody'
    BY <1>0, <2>1, FewerAreSound
  <2> QED BY <1>0, <1>1, <2>1, <2>2, <2>3, SoundEnds
<1>16. CASE Abort(h)
  <2>1. /\ ~At(h, "deleteRelations") /\ req' = [req EXCEPT ![h] = Idle]
        /\ UNCHANGED <<team, member, reporting>>
    BY <1>16 DEF Abort, At
  <2>2. Knows(Idle)
    BY IdleTyped DEF Knows, Assigning
  <2> QED BY <1>m, <2>1, <2>2
<1> QED BY <1>2, <1>3, <1>4, <1>5, <1>6, <1>7, <1>8, <1>9, <1>10, <1>11, <1>12, <1>13,
           <1>14, <1>15, <1>16 DEF Step

\* Deletions come when no request is in flight, and take the relations along.
LEMMA SoundDeletions ==
  ASSUME CInv, calm, calm', DeleteTeam \/ DeleteStaff \/ DeleteOrganization
  PROVE  Sound'
<1>0. TypeOK /\ IInv /\ Sound /\ Quiet /\ req' = req
  BY DEF CInv, IInv, DeleteTeam, DeleteStaff, DeleteOrganization, Arrives
<1>1. \A g \in Handlers : req'[g].pc = "idle"
  BY <1>0 DEF Quiet, At
<1>2. Serial'
  BY <1>1 DEF Serial, Busy, At
<1>3. ASSUME NEW g \in Handlers PROVE Knows(req[g])'
  BY <1>1 DEF Knows, Assigning
<1>4. CASE reporting' = {}
  BY <1>2, <1>3, <1>4 DEF Sound, NoMutualReporting, MasterReportsToNobody
<1>5. ASSUME NEW s \in staff, DropStaff(s) PROVE Sound'
  <2> DEFINE rows == {m \in Members : member[m].staff = s}
  <2>1. /\ member' = Unmember(rows) /\ team' = team /\ reporting' \subseteq reporting
        /\ \A x \in reporting' : x.manager # s
    BY <1>5 DEF DropStaff, Cascade
  <2>2. NoMutualReporting' /\ MasterReportsToNobody'
    BY <1>0, <2>1, FewerAreSound
  <2>3. ASSUME NEW x \in reporting' PROVE Managed(x)'
    <3>1. x.manager \in MemberStaff /\ x.manager # s
      BY <1>0, <2>1, <2>3, ManagersAre DEF Quiet, At
    <3>2. PICK n \in Members : member[n].staff = x.manager
      BY <3>1 DEF MemberStaff
    <3>3. n \notin rows
      BY <3>1, <3>2
    <3>4. n \in Members' /\ member'[n] = member[n]
      BY <1>0, <2>1, <3>3, UnmemberAges DEF Members
    <3> QED BY <3>2, <3>4 DEF Managed, MemberStaff
  <2> QED BY <1>2, <1>3, <2>2, <2>3 DEF Sound
<1> QED BY <1>4, <1>5 DEF DeleteTeam, DeleteStaff, DeleteOrganization, DropTeam

LEMMA CalmAlways == Spec => []CInv
<1>1. Init => CInv
  <2> SUFFICES ASSUME Init PROVE CInv
    OBVIOUS
  <2>1. IInv /\ NoTeamNoMembers
    BY InvInit, NoTeamInit
  <2>2. \A h \in Handlers : req[h].pc = "idle"
    BY IdleTyped DEF Init
  <2>3. Sound
    BY <2>2 DEF Init, Sound, Serial, Busy, At, NoMutualReporting, MasterReportsToNobody,
                Knows, Assigning
  <2> QED BY <2>1, <2>3 DEF CInv
<1>2. CInv /\ [Next]_vars => CInv'
  <2> SUFFICES ASSUME CInv, [Next]_vars PROVE CInv'
    OBVIOUS
  <2>1. IInv' /\ NoTeamNoMembers'
    BY InvStep, NoTeamStep DEF CInv
  <2>2. ASSUME calm' PROVE Sound'
    <3>1. calm /\ Sound
      BY <2>2, CalmFalls DEF CInv
    <3>2. CASE UNCHANGED vars
      BY <3>1, <3>2 DEF vars, Sound, Serial, Busy, At, NoMutualReporting, MasterReportsToNobody,
                Knows, Assigning, Managed, MemberStaff, Members, Reverse
    <3> QED BY <2>2, <3>1, <3>2, SoundStep, SoundDeletions DEF Next
  <2> QED BY <2>1, <2>2 DEF CInv
<1> QED BY <1>1, <1>2, PTL DEF Spec

\* Requests that come one at a time, in any order and with any deletions between
\* them, leave no two members who report to each other, no master who reports,
\* and no manager who is not a member: ReportingIsSound.
THEOREM ReportingStaysSound == Spec => []ReportingIsSound
<1>1. CInv => ReportingIsSound
  BY ManagersAre DEF CInv, Sound, ReportingIsSound, ManagersAreMembers, Quiet, At
<1> QED BY <1>1, CalmAlways, PTL
=============================================================================
