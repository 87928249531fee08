-------------------------------- MODULE Teams --------------------------------
(***************************************************************************)
(* One team of one organization, its members and who reports to whom:       *)
(* src/src/team/team.service.ts, and the cascades of the tables Team,       *)
(* TeamMember and TeamReporting in src/prisma/schema.prisma.                *)
(*                                                                         *)
(* Handlers are modelled as in Visits.  setReportingBulk makes the requests *)
(* of setReporting one after another and catches their errors: a handler    *)
(* that takes one request after another behaves like it.  Left out: names,  *)
(* and copies of a relation (they are deleted together).                    *)
(***************************************************************************)
EXTENDS Integers, FiniteSets, Functions

CONSTANTS
  Handlers,    \* requests the server may be serving at once
  StaffIds,    \* the members of staff of the organization
  MemberIds,   \* the uuids rows of TeamMember may get
  Null

ASSUME NullAssumption == Null \notin StaffIds \cup MemberIds

VARIABLES
  staff,       \* table Staff
  team,        \* the team's row
  member,      \* table TeamMember; uuids not used yet included
  reporting,   \* table TeamReporting
  req,         \* requests in flight
  calm         \* history: requests came one at a time, none stopped half done

vars == <<staff, team, member, reporting, req, calm>>
-----------------------------------------------------------------------------
(* Rows and requests *)

TeamRow == [row : {"unused", "deleted"}, master : {Null}]
           \cup [row : {"stored"}, master : StaffIds]

MemberRow == [row : {"unused", "deleted"}, staff : {Null}]
             \cup [row : {"stored"}, staff : StaffIds]

\* staff reports to manager; member is the row of staff in the team.
Relation == [staff : StaffIds, manager : StaffIds, member : MemberIds]

Labels == {"idle", "addMaster", "checkMaster", "editTeam", "addMembers",
           "deleteMember", "deleteRelations",
           "readMember", "readManagers", "readExisting", "readReverse", "createRelations",
           "readRelation", "unassign"}

Request == [pc       : Labels,
            staff    : StaffIds \cup {Null},
            managers : SUBSET StaffIds,   \* or the ids of addMembers
            member   : MemberIds \cup {Null},
            master   : StaffIds \cup {Null}]

Idle == [pc |-> "idle", staff |-> Null, managers |-> {}, member |-> Null, master |-> Null]

\* What a request needs for the calls it is still to make.
RequestOK(r) ==
  /\ r.pc \in {"addMaster", "readMember", "readManagers", "readExisting", "readReverse",
              "createRelations", "readRelation", "unassign"} => r.staff \in StaffIds
  /\ r.pc \in {"deleteMember", "deleteRelations", "readManagers", "readExisting",
              "readReverse", "createRelations"} => r.member \in MemberIds
  /\ r.pc \in {"readReverse", "createRelations"} => r.managers # {}

Stored          == team.row = "stored"
Members         == {m \in MemberIds : member[m].row = "stored"}
MemberStaff     == {member[m].staff : m \in Members}
RowOf(s)        == CHOOSE m \in Members : member[m].staff = s
Relations(s, m) == {r \in reporting : r.staff = s \/ r.manager = s \/ r.member = m}

At(h, label)   == req[h].pc = label
Quiet          == \A h \in Handlers : At(h, "idle")
Arrives        == calm' = (calm /\ Quiet)
Take(h, r)     == At(h, "idle") /\ req' = [req EXCEPT ![h] = r] /\ Arrives
GoOn(h, label) == req' = [req EXCEPT ![h] = [@ EXCEPT !.pc = label]] /\ UNCHANGED calm
Reply(h)       == req' = [req EXCEPT ![h] = Idle] /\ UNCHANGED calm

Unmember(ms) == [m \in MemberIds |-> IF m \in ms THEN [row |-> "deleted", staff |-> Null]
                                               ELSE member[m]]

Init ==
  /\ staff     = StaffIds
  /\ team      = [row |-> "unused", master |-> Null]
  /\ member    = [m \in MemberIds |-> [row |-> "unused", staff |-> Null]]
  /\ reporting = {}
  /\ req       = [h \in Handlers |-> Idle]
  /\ calm      = TRUE
-----------------------------------------------------------------------------
(* addTeam: the team, then its master as a member *)

AddTeam(h) ==
  /\ team.row = "unused"
  /\ \E s \in staff : /\ team' = [row |-> "stored", master |-> s]
                      /\ Take(h, [Idle EXCEPT !.pc = "addMaster", !.staff = s])
  /\ UNCHANGED <<staff, member, reporting>>

AddMaster(h) ==
  /\ At(h, "addMaster")
  /\ Stored
  /\ req[h].staff \in staff \ MemberStaff
  /\ \E m \in MemberIds :
       /\ member[m].row = "unused"
       /\ member' = [member EXCEPT ![m] = [row |-> "stored", staff |-> req[h].staff]]
  /\ Reply(h)
  /\ UNCHANGED <<staff, team, reporting>>
-----------------------------------------------------------------------------
(* editTeam: the master is read before the transaction.  The transaction's   *)
(* deletions and update are one step: a relation stored between them is      *)
(* stored after them, and nobody reads what is not committed                 *)

\* The new master, or Null when only the name changes.
EditTeamRead(h) ==
  /\ Stored
  /\ \E new \in StaffIds \cup {Null} :
       Take(h, [Idle EXCEPT !.pc = IF new = Null THEN "editTeam" ELSE "checkMaster",
                            !.staff = new, !.master = team.master])
  /\ UNCHANGED <<staff, team, member, reporting>>

EditTeamCheck(h) ==
  /\ At(h, "checkMaster")
  /\ req[h].staff \in staff \cap MemberStaff
  /\ req' = [req EXCEPT ![h] = [@ EXCEPT !.pc = "editTeam", !.member = RowOf(req[h].staff)]]
  /\ UNCHANGED <<staff, team, member, reporting, calm>>

\* "(only if changed)", says the comment; a new name alone counts as a change.
OldMaster(r) == {r.master} \ {r.staff}

NewMaster(r) == {r.staff} \ {Null}

EditTeam(h) ==
  /\ At(h, "editTeam")
  /\ Stored
  /\ LET r == req[h] IN
       /\ r.staff # Null => r.staff \in staff
       /\ reporting' = reporting
            \ (UNION {Relations(s, r.member) : s \in NewMaster(r)}
               \cup UNION {Relations(s, RowOf(s)) : s \in OldMaster(r) \cap MemberStaff})
       /\ team' = [team EXCEPT !.master = IF r.staff = Null THEN @ ELSE r.staff]
  /\ Reply(h)
  /\ UNCHANGED <<staff, member>>

-----------------------------------------------------------------------------
(* addMembers and removeMember *)

\* Only existing staff is added; one deleted before the insert makes it fail.
AddMembersRead(h) ==
  /\ Stored
  /\ \E ids \in (SUBSET staff) \ {{}} :
       Take(h, [Idle EXCEPT !.pc = "addMembers", !.managers = ids \ {team.master}])
  /\ UNCHANGED <<staff, team, member, reporting>>

AddMembers(h) ==
  /\ At(h, "addMembers")
  /\ Stored \/ req[h].managers = {}
  /\ req[h].managers \subseteq staff
  /\ \E row \in Injection(req[h].managers \ MemberStaff,
                          {m \in MemberIds : member[m].row = "unused"}) :
       member' = [m \in MemberIds |->
                    IF m \in Range(row)
                    THEN [row |-> "stored", staff |-> CHOOSE s \in DOMAIN row : row[s] = m]
                    ELSE member[m]]
  /\ Reply(h)
  /\ UNCHANGED <<staff, team, reporting>>

RemoveMemberRead(h) ==
  /\ \E m \in Members : Take(h, [Idle EXCEPT !.pc = "deleteMember", !.member = m,
                                             !.staff = member[m].staff])
  /\ UNCHANGED <<staff, team, member, reporting>>

NoCascade(ms) == reporting              \* mutant: relations are not linked to members
Cascade(ms)   == {r \in reporting : r.member \notin ms}

RemoveMember(h) ==
  /\ At(h, "deleteMember")
  /\ req[h].member \in Members
  /\ member' = Unmember({req[h].member})
  /\ reporting' = Cascade({req[h].member})
  /\ GoOn(h, "deleteRelations")
  /\ UNCHANGED <<staff, team>>

OwnRelations(r) ==                      \* mutant: relations as manager are forgotten
  {x \in reporting : x.staff = r.staff \/ x.member = r.member}
AllRelations(r) == Relations(r.staff, r.member)

RemoveRelations(h) ==
  /\ At(h, "deleteRelations")
  /\ reporting' = reporting \ AllRelations(req[h])
  /\ Reply(h)
  /\ UNCHANGED <<staff, team, member>>
-----------------------------------------------------------------------------
(* setReporting: five reads, then one insert of all new relations *)

NotMaster(s, managers) == s # team.master   \* mutant: reports to itself
MayReport(s, managers) == s # team.master /\ s \notin managers

AssignRead(h) ==
  /\ Stored
  /\ \E s \in StaffIds, managers \in SUBSET StaffIds :
       /\ MayReport(s, managers)
       /\ Take(h, [Idle EXCEPT !.pc = "readMember", !.staff = s, !.managers = managers])
  /\ UNCHANGED <<staff, team, member, reporting>>

AssignReadMember(h) ==
  /\ At(h, "readMember")
  /\ req[h].staff \in MemberStaff
  /\ req' = [req EXCEPT ![h] = [@ EXCEPT !.pc = "readManagers", !.member = RowOf(req[h].staff)]]
  /\ UNCHANGED <<staff, team, member, reporting, calm>>

AssignReadManagers(h) ==
  /\ At(h, "readManagers")
  /\ req[h].managers \subseteq MemberStaff
  /\ GoOn(h, "readExisting")
  /\ UNCHANGED <<staff, team, member, reporting>>

Unassigned(r) == {s \in r.managers : \A x \in reporting : ~(x.staff = r.staff /\ x.manager = s)}

AssignReadExisting(h) ==
  /\ At(h, "readExisting")
  /\ LET new == Unassigned(req[h]) IN
       \/ new = {} /\ Reply(h)
       \/ /\ new # {}
          /\ req' = [req EXCEPT ![h] = [@ EXCEPT !.pc = "readReverse", !.managers = new]]
          /\ UNCHANGED calm
  /\ UNCHANGED <<staff, team, member, reporting>>

Reverse(r) == {x \in reporting : x.staff \in r.managers /\ x.manager = r.staff}

AssignReadReverse(h) ==
  /\ At(h, "readReverse")
  /\ \/ Reverse(req[h]) = {} /\ GoOn(h, "createRelations")
     \/ Reverse(req[h]) # {} /\ Reply(h)
  /\ UNCHANGED <<staff, team, member, reporting>>

\* The row of the member, and the staff, must still be there.
AssignCreate(h) ==
  /\ At(h, "createRelations")
  /\ Stored
  /\ LET r == req[h] IN
       /\ r.member \in Members
       /\ r.managers \subseteq staff
       /\ reporting' = reporting \cup
            {[staff |-> r.staff, manager |-> s, member |-> r.member] : s \in r.managers}
  /\ Reply(h)
  /\ UNCHANGED <<staff, team, member>>
-----------------------------------------------------------------------------
(* removeReporting *)

UnassignRead(h) ==
  /\ Stored
  /\ \E s, manager \in MemberStaff :
       Take(h, [Idle EXCEPT !.pc = "readRelation", !.staff = s, !.managers = {manager}])
  /\ UNCHANGED <<staff, team, member, reporting>>

Asked(r) == {x \in reporting : x.staff = r.staff /\ x.manager \in r.managers}

UnassignReadRelation(h) ==
  /\ At(h, "readRelation")
  /\ Asked(req[h]) # {}
  /\ GoOn(h, "unassign")
  /\ UNCHANGED <<staff, team, member, reporting>>

Unassign(h) ==
  /\ At(h, "unassign")
  /\ reporting' = reporting \ Asked(req[h])
  /\ Reply(h)
  /\ UNCHANGED <<staff, team, member>>
-----------------------------------------------------------------------------
(* Deletions, which cascade, and failures *)

DropTeam ==
  /\ team' = [row |-> IF Stored THEN "deleted" ELSE team.row, master |-> Null]
  /\ member' = Unmember(Members)
  /\ reporting' = {}

DeleteTeam == Stored /\ DropTeam /\ Arrives /\ UNCHANGED <<staff, req>>

DropStaff(s) ==
  LET rows == {m \in Members : member[m].staff = s} IN
  /\ member' = Unmember(rows)
  /\ reporting' = Cascade(rows) \ {r \in reporting : s \in {r.staff, r.manager}}
  /\ UNCHANGED team

DeleteStaff ==
  /\ \E s \in staff : /\ staff' = staff \ {s}
                      /\ IF team.master = s THEN DropTeam ELSE DropStaff(s)
  /\ Arrives
  /\ UNCHANGED req

DeleteOrganization ==
  staff # {} /\ staff' = {} /\ DropTeam /\ Arrives /\ UNCHANGED req

\* A call fails, on a row or a constraint that is not met or for any other
\* reason, or the server stops: what was written stays.
Abort(h) ==
  /\ ~At(h, "idle")
  /\ req' = [req EXCEPT ![h] = Idle]
  /\ calm' = (calm /\ req[h].pc \notin {"addMaster", "deleteRelations"})
  /\ UNCHANGED <<staff, team, member, reporting>>

Step(h) == \/ AddTeam(h) \/ AddMaster(h)
           \/ EditTeamRead(h) \/ EditTeamCheck(h) \/ EditTeam(h)
           \/ AddMembersRead(h) \/ AddMembers(h)
           \/ RemoveMemberRead(h) \/ RemoveMember(h) \/ RemoveRelations(h)
           \/ AssignRead(h) \/ AssignReadMember(h) \/ AssignReadManagers(h)
           \/ AssignReadExisting(h) \/ AssignReadReverse(h) \/ AssignCreate(h)
           \/ UnassignRead(h) \/ UnassignReadRelation(h) \/ Unassign(h)
           \/ Abort(h)

Next == \/ \E h \in Handlers : Step(h)
        \/ DeleteTeam \/ DeleteStaff \/ DeleteOrganization

Spec == Init /\ [][Next]_vars
-----------------------------------------------------------------------------
(* Properties *)

\* Rows and requests have their types, no handler reaches a statement without
\* the ids it passes, and nobody reports to himself ("A staff member cannot
\* report to themselves.").
TypeOK ==
  /\ staff \subseteq StaffIds
  /\ team \in TeamRow
  /\ member \in [MemberIds -> MemberRow]
  /\ reporting \subseteq Relation
  /\ req \in [Handlers -> Request]
  /\ \A h \in Handlers : RequestOK(req[h])
  /\ calm \in BOOLEAN
  /\ \A r \in reporting : r.staff # r.manager

\* However assignments race with removals, new masters and deletions, whoever
\* reports to a manager is at that moment a member of the team, in the very row
\* the relation was stored for: no relation of a removed member outlives the row,
\* or comes back when the same person is added again.
ReporteesAreMembers ==
  \A r \in reporting : r.member \in Members /\ member[r.member].staff = r.staff

\* The rest is promised by checks that precede the write.  "Reverse reporting
\* relationship detected.": no two members report to each other.
NoMutualReporting ==
  \A r, x \in reporting : ~(r.staff = x.manager /\ r.manager = x.staff)

\* "Master manager cannot report to other managers.", whether he was made master
\* after or before the relation was asked for.
MasterReportsToNobody == \A r \in reporting : r.staff # team.master

\* "One or more managers are not members of the team.": once the request that
\* removes a manager is answered, nobody reports to him.
ManagersAreMembers == Quiet => \A r \in reporting : r.manager \in MemberStaff

\* Requests served one at a time, whatever their order, keep these promises: what
\* each of them deletes makes up for what the others do not look at.  Two requests
\* that race break every one of the three.
ReportingIsSound ==
  calm => NoMutualReporting /\ MasterReportsToNobody /\ ManagersAreMembers

\* The inductive strengthening of the invariants above: what an assignment knows
\* of the relation it is about to store.  The row of the member it read is still
\* that of the same person, or gone for good.
AssignmentRemembers(r) ==
  LET found == {"readManagers", "readExisting", "readReverse", "createRelations"} IN
  /\ r.pc \in found \cup {"readMember"} => r.staff \notin r.managers
  /\ r.pc \in found => \/ member[r.member].row = "deleted"
                       \/ member[r.member] = [row |-> "stored", staff |-> r.staff]

IInv == /\ TypeOK
        /\ ReporteesAreMembers
        /\ \A h \in Handlers : AssignmentRemembers(req[h])
=============================================================================
