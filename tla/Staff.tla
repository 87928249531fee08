-------------------------------- MODULE Staff --------------------------------
(***************************************************************************)
(* The members of staff of one organization, their roles and the            *)
(* credentials they log in with: src/src/staff/staff.service.ts.            *)
(*                                                                         *)
(* Handlers are modelled as in Visits.  The transaction of an edit runs     *)
(* statement by statement: each update waits for the row's lock, which is   *)
(* held until the end; what it writes is read by others once it commits.    *)
(* The deletion of a member locks his row, then cascades.                   *)
(* Every member gets his credential when he is added, by one transaction,   *)
(* so a person stands for both rows, and the code that creates a missing    *)
(* credential is never reached.  The seven rows of his working hours, which *)
(* edits upsert in one order, are one.  Left out: names, hours and mails.   *)
(***************************************************************************)
EXTENDS Integers, Sequences, FiniteSets

CONSTANTS
  Handlers,     \* requests the server may be serving at once
  People,       \* those who may become members of staff
  Null

VARIABLES
  org,          \* whether the organization is stored
  staff,        \* table Staff: the role, or that there is no row
  credential,   \* table UserCredential
  hours,        \* table WorkingHours: the members who have rows there
  req,          \* requests in flight
  halfDeleted,  \* history: those whose deletion stopped between its two deletes
  calm          \* history: requests came one at a time and none stopped half done

vars == <<org, staff, credential, hours, req, halfDeleted, calm>>
-----------------------------------------------------------------------------
(* Rows and requests *)

Roles  == {"SuperAdmin", "Admin", "Staff"}
NoRow  == {"unused", "deleted"}

ASSUME NullAssumption == Null \notin People \cup Roles

Login  == [role : Roles, status : {"Active", "Disabled"}]
Nobody == [role : NoRow, status : {"Disabled"}]

\* A row of one of the three tables, by the person it belongs to.
Rows == {"hours", "staff", "credential"} \X People

Labels == {"idle", "upsertHours", "findSuperAdmin", "update",
           "deleteStaff", "cascade", "deleteCredential"}

Request == [pc     : Labels,
            person : People \cup {Null},
            was    : Roles \cup {Null},    \* the role read before the transaction
            role   : Roles \cup {Null},    \* the role asked for, if any
            holder : People \cup {Null},   \* the SuperAdmin to demote, if any
            held   : SUBSET Rows]          \* rows written, and locked

Idle == [pc |-> "idle", person |-> Null, was |-> Null, role |-> Null,
         holder |-> Null, held |-> {}]

RequestOK(r) ==
  /\ r.pc # "idle" => r.person \in People
  /\ r.pc # "update" => r.holder = Null
  /\ r.pc \in {"upsertHours", "findSuperAdmin", "update"} => r.was \in Roles /\ r.holder # r.person
  /\ r.pc \in {"idle", "upsertHours", "deleteStaff", "deleteCredential"} => r.held = {}
  /\ r.pc = "findSuperAdmin" => r.held \subseteq {<<"hours", r.person>>}
  /\ r.pc = "cascade" => r.held = {<<"staff", r.person>>}

Employed       == {p \in People : staff[p] \in Roles}
Enrolled       == {p \in People : credential[p].role \in Roles}
Unused         == {p \in People : staff[p] = "unused"}
At(h, label)   == req[h].pc = label
Quiet          == \A h \in Handlers : At(h, "idle")
Arrives        == calm' = (calm /\ Quiet)
Take(h, r)     == At(h, "idle") /\ req' = [req EXCEPT ![h] = r] /\ Arrives
Reply(h)       == req' = [req EXCEPT ![h] = Idle] /\ UNCHANGED calm
Free(row, h)   == \A g \in Handlers \ {h} : row \notin req[g].held

\* Inserting working hours also locks the row of the member they refer to, against
\* his deletion but not against an update that leaves its keys.
Locks(r) == r.held \cup {<<"staff", p>> : p \in {p \in People \ hours : <<"hours", p>> \in r.held}}

BeingDeleted(p) == \E h \in Handlers : At(h, "cascade") /\ req[h].person = p

Init ==
  /\ org         = TRUE
  /\ staff       = [p \in People |-> "unused"]
  /\ credential  = [p \in People |-> [role |-> "unused", status |-> "Disabled"]]
  /\ hours       = {}
  /\ req         = [h \in Handlers |-> Idle]
  /\ halfDeleted = {}
  /\ calm        = TRUE
-----------------------------------------------------------------------------
(* addStaffMember and addStaffBulk: both rows of everyone added are stored   *)
(* by one transaction                                                        *)

Enrol(ps) ==
  /\ staff' = [p \in People |-> IF p \in ps THEN "Staff" ELSE staff[p]]
  /\ credential' = [p \in People |-> IF p \in ps THEN [role |-> "Staff", status |-> "Active"]
                                                 ELSE credential[p]]
  /\ Arrives
  /\ UNCHANGED <<org, hours, req, halfDeleted>>

AddStaffMember == org /\ \E p \in Unused : Enrol({p})

AddStaffBulk == org /\ \E ps \in SUBSET Unused : Cardinality(ps) > 1 /\ Enrol(ps)
-----------------------------------------------------------------------------
(* editStaffMemberDetails *)

FromStaff(was, role) == role = "SuperAdmin" /\ was = "Staff"   \* mutant: not from Admin
Transfers(was, role) == role = "SuperAdmin" /\ was # "SuperAdmin"

AfterHours(was, role) == IF Transfers(was, role) THEN "findSuperAdmin" ELSE "update"

\* The request may name working hours, which the transaction writes first.
EditRead(h) ==
  /\ org
  /\ \E p \in Employed, role \in Roles \cup {Null} :
       \E pc \in {"upsertHours", AfterHours(staff[p], role)} :
         Take(h, [Idle EXCEPT !.pc = pc, !.person = p, !.was = staff[p], !.role = role])
  /\ UNCHANGED <<org, staff, credential, hours, halfDeleted>>

\* Rows that are not there yet are inserted, which waits for a deletion of the
\* member they refer to.
EditHours(h) ==
  LET r   == req[h]
      row == <<"hours", r.person>> IN
  /\ At(h, "upsertHours")
  /\ r.person \in Employed
  /\ Free(row, h)
  /\ r.person \in hours \/ ~BeingDeleted(r.person)
  /\ req' = [req EXCEPT ![h] = [@ EXCEPT !.pc = AfterHours(r.was, r.role), !.held = {row}]]
  /\ UNCHANGED <<org, staff, credential, hours, halfDeleted, calm>>

\* Any credential of a SuperAdmin may be found first; nobody is demoted for one
\* that belongs to the person, or to no member of staff any more.
AnyDemoted(p, q) == q                           \* mutant: whoever is found
Demoted(p, q)    == IF q # p /\ q \in Employed THEN q ELSE Null

EditFindSuperAdmin(h) ==
  LET found == {q \in People : credential[q].role = "SuperAdmin"} IN
  /\ At(h, "findSuperAdmin")
  /\ \E q \in IF found = {} THEN {Null} ELSE found :
       req' = [req EXCEPT ![h] = [@ EXCEPT !.pc = "update",
                                           !.holder = Demoted(req[h].person, q)]]
  /\ UNCHANGED <<org, staff, credential, hours, halfDeleted, calm>>

StatusFirst(p, role) ==                         \* mutant: a new role, credential first
  IF role = Null THEN <<<<"staff", p>>, <<"credential", p>>>>
                 ELSE <<<<"credential", p>>, <<"staff", p>>>>
OwnRows(p, role) == <<<<"staff", p>>, <<"credential", p>>>>

\* The rows a transaction updates after the working hours, in order: the old
\* SuperAdmin's, then its own.
Updates(r) ==
  LET own == OwnRows(r.person, r.role) IN
  IF r.holder = Null THEN own
  ELSE <<<<"credential", r.holder>>, <<"staff", r.holder>>, own[1], own[2]>>

Pending(r) == {i \in DOMAIN Updates(r) : Updates(r)[i] \notin r.held}
NextRow(r) == Updates(r)[CHOOSE i \in Pending(r) : \A j \in Pending(r) : i <= j]

IsStored(row) == IF row[1] = "credential" THEN row[2] \in Enrolled ELSE row[2] \in Employed

\* Waits while another transaction holds the row, and fails when it is gone.
EditUpdate(h) ==
  LET row == NextRow(req[h]) IN
  /\ At(h, "update")
  /\ Pending(req[h]) # {}
  /\ Free(row, h)
  /\ IsStored(row)
  /\ req' = [req EXCEPT ![h].held = @ \cup {row}]
  /\ UNCHANGED <<org, staff, credential, hours, halfDeleted, calm>>

NewStatus(r, status) ==
  IF r.was \in {"Admin", "SuperAdmin"} /\ r.role = "Staff" THEN "Disabled"
  ELSE IF (r.was = "Staff" /\ r.role = "Admin") \/ r.role = "SuperAdmin" THEN "Active"
  ELSE status

StaffKeptAs(r, p) ==                            \* mutant: the old SuperAdmin's row is forgotten
  IF p = r.person /\ r.role # Null THEN r.role ELSE staff[p]
StaffRole(r, p) == IF p = r.person /\ r.role # Null THEN r.role
                   ELSE IF p = r.holder THEN "Admin"
                   ELSE staff[p]

EditCommit(h) ==
  LET r == req[h] IN
  /\ At(h, "update")
  /\ Pending(r) = {}
  /\ staff' = [p \in People |-> StaffRole(r, p)]
  /\ credential' =
       [p \in People |->
          IF p = r.person
          THEN [role   |-> IF r.role = Null THEN credential[p].role ELSE r.role,
                status |-> NewStatus(r, credential[p].status)]
          ELSE IF p = r.holder THEN [credential[p] EXCEPT !.role = "Admin"]
          ELSE credential[p]]
  /\ hours' = hours \cup {p \in {r.person} : <<"hours", p>> \in r.held}
  /\ Reply(h)
  /\ UNCHANGED <<org, halfDeleted>>
-----------------------------------------------------------------------------
(* deleteStaffMember: the member, then the credential *)

MayDelete(role) ==
  {p \in Employed : \/ role = "Root"
                    \/ role = "SuperAdmin" /\ staff[p] # "SuperAdmin"
                    \/ role = "Admin" /\ staff[p] = "Staff"}

DeleteRead(h) ==
  /\ org
  /\ \E role \in {"Root", "SuperAdmin", "Admin"} : \E p \in MayDelete(role) :
       Take(h, [Idle EXCEPT !.pc = "deleteStaff", !.person = p])
  /\ UNCHANGED <<org, staff, credential, hours, halfDeleted>>

DeletedIfActive(r) ==                           \* mutant: a disabled login is kept
  IF credential[r.person].status = "Active"
  THEN [r EXCEPT !.pc = "deleteCredential", !.held = {}] ELSE Idle
AfterStaff(r) == [r EXCEPT !.pc = "deleteCredential", !.held = {}]

\* staff.delete locks the member's row, and then waits, holding it, for the
\* working hours it cascades to.
DeleteStaff(h) ==
  LET row == <<"staff", req[h].person>> IN
  /\ At(h, "deleteStaff")
  /\ req[h].person \in Employed
  /\ \A g \in Handlers \ {h} : row \notin Locks(req[g])
  /\ req' = [req EXCEPT ![h] = [@ EXCEPT !.pc = "cascade", !.held = {row}]]
  /\ UNCHANGED <<org, staff, credential, hours, halfDeleted, calm>>

CascadeStaff(h) ==
  LET p == req[h].person IN
  /\ At(h, "cascade")
  /\ Free(<<"hours", p>>, h)
  /\ staff' = [staff EXCEPT ![p] = "deleted"]
  /\ hours' = hours \ {p}
  /\ req' = [req EXCEPT ![h] = AfterStaff(@)]
  /\ UNCHANGED <<org, credential, halfDeleted, calm>>

DeleteCredential(h) ==
  /\ At(h, "deleteCredential")
  /\ LET p == req[h].person IN
       /\ p \in Enrolled
       /\ Free(<<"credential", p>>, h)
       /\ credential' = [credential EXCEPT ![p] = [role |-> "deleted", status |-> "Disabled"]]
  /\ Reply(h)
  /\ UNCHANGED <<org, staff, hours, halfDeleted>>
-----------------------------------------------------------------------------
(* The deletion of the organization, which cascades once no row is locked,   *)
(* and failures                                                              *)

DeleteOrganization ==
  /\ org
  /\ \A h \in Handlers : req[h].held = {}
  /\ org' = FALSE
  /\ staff' = [p \in People |-> IF p \in Employed THEN "deleted" ELSE staff[p]]
  /\ credential' = [p \in People |-> IF p \in Enrolled
                                     THEN [role |-> "deleted", status |-> "Disabled"]
                                     ELSE credential[p]]
  /\ hours' = {}
  /\ Arrives
  /\ UNCHANGED <<req, halfDeleted>>

\* A call fails, on a row that is gone, a deadlock the database breaks or for
\* any other reason, or the server stops: a transaction is undone, what a single
\* call deleted stays deleted.
Abort(h) ==
  /\ ~At(h, "idle")
  /\ halfDeleted' = IF At(h, "deleteCredential") THEN halfDeleted \cup {req[h].person}
                                                 ELSE halfDeleted
  /\ calm' = (calm /\ ~At(h, "deleteCredential"))
  /\ req' = [req EXCEPT ![h] = Idle]
  /\ UNCHANGED <<org, staff, credential, hours>>

Step(h) == \/ EditRead(h) \/ EditHours(h) \/ EditFindSuperAdmin(h)
           \/ EditUpdate(h) \/ EditCommit(h)
           \/ DeleteRead(h) \/ DeleteStaff(h) \/ CascadeStaff(h) \/ DeleteCredential(h)
           \/ Abort(h)

Next == \/ \E h \in Handlers : Step(h)
        \/ AddStaffMember \/ AddStaffBulk \/ DeleteOrganization

Spec == Init /\ [][Next]_vars
-----------------------------------------------------------------------------
(* Properties *)

\* Rows and requests have their types, a transaction locks the rows of the person
\* it edits and of a SuperAdmin who is somebody else, and working hours belong to
\* members.
TypeOK ==
  /\ org \in BOOLEAN
  /\ staff \in [People -> Roles \cup NoRow]
  /\ credential \in [People -> Login \cup Nobody]
  /\ hours \subseteq Employed
  /\ req \in [Handlers -> Request]
  /\ \A h \in Handlers : RequestOK(req[h])
  /\ halfDeleted \subseteq People
  /\ calm \in BOOLEAN

\* The role the guards read, in the credential, is the role the organization
\* sees, in the row of Staff: edits that race, transfer the SuperAdmin's role
\* away from each other, or race with deletions never tell them apart.
RolesAgree == \A p \in Employed : credential[p].role = staff[p]

\* Who is no member of staff any more cannot log in, except while the deletion
\* is under way, or when it failed between its two deletes.
OnlyStaffLogsIn ==
  \A p \in Enrolled \ Employed :
    p \in halfDeleted \/ \E h \in Handlers : At(h, "deleteCredential") /\ req[h].person = p

\* "SuperAdmin uniqueness": there is one SuperAdmin at most.
OneSuperAdmin ==
  \A p, q \in Employed : staff[p] = "SuperAdmin" /\ staff[q] = "SuperAdmin" => p = q

\* "account status handling": the login of an Admin or SuperAdmin is not disabled.
AdminsAreActive ==
  \A p \in Employed : staff[p] \in {"SuperAdmin", "Admin"} => credential[p].status = "Active"

\* Edits that come one at a time keep both, in any order.  Two transfers that find
\* the same holder make two SuperAdmins; with the role read before the
\* transaction, two edits of one Admin can leave an Admin who cannot log in.
AdministrationIsSound == calm => OneSuperAdmin /\ AdminsAreActive

\* The rows the next statement of a request locks.  An update that changes the
\* member's keys waits for hours that refer to them, too: Waits says who may have to.
Needs(r) ==
  LET row(table) == <<table, r.person>> IN
  CASE r.pc = "upsertHours" -> IF r.person \in hours THEN {row("hours")}
                                                     ELSE {row("hours"), row("staff")}
    [] r.pc = "update" /\ Pending(r) # {} -> {NextRow(r)}
    [] r.pc = "deleteStaff" -> {row("staff")}
    [] r.pc = "cascade" -> {row("hours")}
    [] r.pc = "deleteCredential" -> {row("credential")}
    [] OTHER -> {}

Waits(h, g) == g # h /\ Needs(req[h]) \cap Locks(req[g]) # {}

\* Everyone in the circle waits for somebody in it.
Deadlocked(circle) == circle # {} /\ \A h \in circle : \E g \in circle : Waits(h, g)

\* Edits and deletions of members wait for each other in a circle only if one
\* demotes a SuperAdmin, whose credential it updates first and all others last, or
\* deletes a member whose working hours an edit has written: the edit goes on to the
\* member's row, the deletion came from there.
DeadlockNeedsTransferOrCascade ==
  \A circle \in SUBSET Handlers :
    Deadlocked(circle) => \E h \in circle : req[h].holder # Null \/ At(h, "cascade")

\* The inductive strengthening of the invariants above: what the locks of the
\* transactions protect.  A row that is locked stays stored, for one transaction
\* at a time, and without a transfer the member's row is locked before the login.
LocksHold ==
  /\ \A h \in Handlers : \A row \in req[h].held : IsStored(row)
  /\ \A h, g \in Handlers : h # g => req[h].held \cap req[g].held = {}

LocksInOrder ==
  \A h \in Handlers :
    LET r == req[h] IN
    r.holder = Null => /\ r.held \subseteq {"hours", "staff", "credential"} \X {r.person}
                       /\ <<"credential", r.person>> \in r.held
                            => <<"staff", r.person>> \in r.held

\* A login is deleted after its member, who is not added again.
MemberDeletedFirst ==
  \A h \in Handlers : At(h, "deleteCredential") => staff[req[h].person] = "deleted"

IInv == /\ TypeOK
        /\ LocksHold /\ LocksInOrder
        /\ MemberDeletedFirst
        /\ RolesAgree /\ OnlyStaffLogsIn
=============================================================================
