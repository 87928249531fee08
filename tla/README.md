# TLA+ models of the visitor management backend

The backend (NestJS, Prisma, PostgreSQL) registers visitors at kiosks, asks
their hosts, records the attendance of staff and keeps organizations, teams,
plans and accounts. Everything that lasts is a row of PostgreSQL. Node serves
many requests at once: a handler is a sequence of awaited calls, and between
two of them any other handler may run. Transactions run at READ COMMITTED, so
inside a transaction, too, what was read may have changed when it is used; only
row locks, conditional updates and foreign keys protect anything. There are few
unique constraints. That is where the hard behaviour of this code is: not in
any one handler, but in what two of them do to the same rows.

Paths below are relative to `src/` of the repository unless they start with
`prisma/`. "Line" means a line of the file named last.

## 1. Inventory

| component | state | operations | what makes it correct | modelled in |
|---|---|---|---|---|
| Visits and notifications (`src/visit/visit.service.ts`, `src/notifications`) | `Visit`, `Notification` | startVisit, acceptVisit, rejectVisit, endVisit, endVisitQr, resendVisitNotification, deleteNotification | a visit is decided once; row, notifications and mails agree; a waiting visitor is announced; one active visit of a visitor; reminders keep their distance | `Visits`, `MeetingLifecycle` |
| Attendance (`src/attendance/attendance.service.ts`) | `AttendanceSession`, `AttendanceEvent` | scan, punch-in, break start and end, punch-out, late punch-out | one open session; row and events agree; no second is counted twice; scan and handlers agree | `Attendance`, `Timesheet` |
| Totals of attendance (same file) | none | recalcTotals, recalcTotalsLocal | work and break partition the day | `WorkTime`, `RecalcTotals` |
| System accounts (`src/system/system.service.ts`, `src/guard/auth.guard.ts`) | `SystemCredential`, `RefreshToken`, `ResetTokenSystem` | register, edit, login, refresh, verify, logout (one, web, all), forgot and reset password, delete | the account limit; a logged-out session is refused for good; a one-time password is used once | `SystemAccounts` |
| Teams (`src/team/team.service.ts`) | `Team`, `TeamMember`, `TeamReporting` | add, edit, delete, members, reporting single and bulk | who reports is a member; no two report to each other; the master reports to nobody; managers are members | `Teams` |
| Staff and roles (`src/staff/staff.service.ts`) | `Staff`, `UserCredential`, `WorkingHours` | add, bulk add, edit with transfer of SuperAdmin, delete | one SuperAdmin; role of staff and credential agree; only staff logs in; what may deadlock is known | `Staff`; the credential also in `Users` |
| User accounts (`src/auth/auth.service.ts`) | `UserCredential`, `RefreshToken`, `ResetToken` | register the root, login, refresh, forgot, reset and change password, logout | one root; a refresh token is used up; an ended session stays ended; a first login ends with a password its user sent | `Users` |
| Organizations, plans, subscriptions (`src/organization`, `src/plan`) | `Organization`, `Plan`, `PlanFeature`, `Subscription` | create, edit, delete, subscribe; create, update, disable plan | an organization is subscribed while it is stored; updates of a plan do not mix; no plan with subscribers is disabled; the limit is not below the accounts | `Organizations`; the limit in `SystemAccounts` |
| Departments, reasons (`src/department`, `src/reason`) | two tables | create, bulk, delete | names distinct in an organization | `Organizations` |
| Visit analytics, exports | none | read-only | | no: nothing to go wrong between steps |
| Mail, files, sockets | external | send, upload, push | | only that a mail may be sent or fail, after the commit |
| Controllers, DTOs, role guards, configuration | none | | | no: the models start from requests that passed them |

Components interact through the database only: a handler of one deletes rows
(staff, organizations) that handlers of another are working on, and foreign
keys cascade. Each model has the deletions that reach its tables as actions of
its own (`DeleteStaff`, `DeleteOrganization`, `RemoveUser`), so that the race of
a handler with a deletion elsewhere is in every one of them. `PROJECT.json` lists the hazards, each at its line.

## 2. How the models are built

A handler `h` holds its request in `req[h]`: a program counter named for the
call it is about to make, and what it read so far. One action is the code
between two awaits. Tables are functions from the uuids a row may get; a row
not yet inserted is `UNUSED`; a deleted one is marked deleted, and in Visits keeps
its last values, so that properties can speak of visits that are gone. A request that
is refused changes nothing and is left out, or ends with `Reply`. A committed
transaction is one step when its first write locks the row it depends on
(acceptVisit's conditional update), and several when it reads without locking
(all of attendance) or locks rows one after another (edits of staff and of
plans: what it has locked is in `req[h]`, and its writes show when it commits).
Ids, names and mails are model values; authentication has
passed; the role of a request is that it comes from the host or an admin.

`calm` in `Teams`, `Staff` and `Organizations` remembers whether requests have come
one at a time so far and none stopped between two writes. Some promises the code
keeps only then, and the properties say so; each is violated without `calm`
(section 4).

### Visits

| action | code in `src/visit/visit.service.ts` |
|---|---|
| `CheckIn`, `CreateVisit`, `CreateNotification`, mail | startVisit 28-162: look for an active visit; upload and insert; insert the notification; two mails |
| `AcceptRead`, `SendAccept`, `Accept`, mail | acceptVisit 703-825: read and check; send the update, with the time (762); one transaction with that conditional update and the visit's notifications; mails |
| `RejectRead`, `Reject`, mail | rejectVisit 827-933, the same without a time |
| `EndVisitRead` / `EndVisitQrRead`, `SendEnd`, `CompleteVisit`, mail | endVisit 164-237, endVisitQr 239-312: read; send the update, with the time (218, 292); it lands by id whatever the row has become |
| `ResendRead`, `CheckGap`, `CreateReminder` | resendVisitNotification 1018-1103: read the visit; read the last notification; insert |
| `DeleteNotification` | deleteNotification of `src/notifications/notifications.service.ts` 114-159 |
| `DeleteStaff`, `DeleteOrganization` | `src/staff/staff.service.ts` 782, `src/organization/organization.service.ts` 537, and the cascades of `prisma/schema.prisma` |
| `Abort` | a call fails or the server stops: the rest of the request is lost |

`new Date()` is evaluated in Node when a statement is sent, which may be long before it
takes effect, so a request keeps that time in `at`: the row gets it however the clock
and other requests have moved on.

`mailed` records which decisions visitors were mailed. `MeetingLifecycle` is the
promise without handlers and rows: a meeting waits, is started or declined at
most once, is over for good, and the visitor is told only the decision taken.
`Visits` implements it under the mapping `phaseOf`, `beganOf`, `toldOf`.

### Attendance

One member of staff, since the service never relates two. `AskPunchIn`,
`AskOnSession`, `AskLatePunch` are `action` (350-399) and the checks of a handler
before its transaction; a client may send the id of any session it was given.
Then each read and the commit of a transaction is a step: handlePunchIn
(`PunchInReadOld`, `PunchInReadToday`, `PunchIn`), handleBreakStart and
handleBreakEnd (`ReadLast`, `AppendEvent`), handlePunchOut (`PunchOutRead`,
`PunchOut`), handleLatePunchOutAndPunchIn (`LateRead`, `LatePunch`). `Scan(t)` is
the set of answers getStateForScan may give at time `t`; today's session is read
without an order, so with several it is any of them. `ExportedTotals` is what the export
(834-915) makes of the events of a session: it reads them by timestamp (841) and counts
them with a copy of the algorithm of its own.

Time is counted in ticks, `SecondLength` to the second and `DayLength` to the day
of the organization. The time of a request comes from the client. With
`HonestClock` each request carries a later time than every one before; without,
times are arbitrary. A session and its events are read in one step, although
Prisma sends one statement for each; the time zone does not change; ties in the
database's order of events are broken by insertion, except for the last event of
a session, where every choice is taken.

`Timesheet` is the promise to a member whose requests come one at a time, without
handlers, events or breaks: a stint begins when all others are over, at a time
that is counted in none; who leaves in time is counted every second since; who says
late that he had left is counted no more than until he says so, which is when the
next stint begins; a stint that is over never changes, until all are forgotten.
`Attendance` implements it under the mapping `stintOf`.

### WorkTime and RecalcTotals

`WorkTime` has the pure operators: flooring, the stable sort, one turn of the
loop (`CountEvent`) and the whole function. `Attendance` calls it at each close. The copy
in the export (863-915) is translated separately, as `CountLocally` and
`RecalcTotalsLocal`.
`RecalcTotals` runs the loop one event a step. The sort is defined by the place each
event takes: how many events come before it, with those of the same second in the
order they were read.

### SystemAccounts

| action | code in `src/system/system.service.ts` |
|---|---|
| `RegisterReadLimit`, `RegisterCount`, `RegisterCreate` | registerSystemUser 27-104: read the organization and its limit; count the accounts; insert |
| `EditLimitCount`, `EditLimit` | editOrganizationDetails of `src/organization/organization.service.ts` 139-304: count the accounts; update, after an upload |
| `LoginRead`, `LoginCreateToken`, `Login` | loginSystemUser 106-169: read; insert a refresh token; set status and session, answer the tokens |
| `RefreshRead`, `RefreshRotate` | refreshSystemAccessToken 278-316 |
| `LogoutRead`, `Logout`, `LogoutDropTokens` | logoutSystemAccount 557-611, for a request that the guard let pass |
| `LogoutWeb` | logoutSystemAccountWeb 613-673 |
| `LogoutAllRead`, `LogoutAllDropTokens`, `LogoutAll` | logoutAllSystemAccounts 675-741 |
| `ForgotPassword` | forgotPassword 448-498 |
| `ResetRead`, `ResetPassword`, `ResetDeleteOtp` | resetPassword 500-555: check the code; update the password; delete the code's row |
| `DeleteAccount`, `DeleteOrganization` | deleteSystemAccount 398-446, deleteOrganization, with the cascades to tokens and codes |
| `Accepts` | `src/guard/auth.guard.ts` 32-62 |

One organization, since the handlers never relate two. logoutSystemAccountWeb,
forgotPassword and deleteSystemAccount are one step each: their single write
fails, or changes nothing, when the row they read has changed in a way that
matters. An e-mail address that is taken is a call that fails (`Abort`). `issued`
keeps every access token that was handed out, `resets` counts the successful
answers of resetPassword by the code they used; neither is state of the
program. A session and the refresh token of the same login share an id. Password
and token values are left out, so a rotation only says that the row was still
there. The reset code of an account is a row with an id and a code, because
forgotPassword replaces the code and keeps the row, and resetPassword deletes by
the row's id.

### Teams

| action | code in `src/team/team.service.ts` |
|---|---|
| `AddTeam`, `AddMaster` | addTeam 19-75: insert the team; insert its master as a member |
| `EditTeamRead`, `EditTeamCheck`, `EditTeam` | editTeam 78-187: read the team; look for the new master among the members; delete relations and update the team |
| `AddMembersRead`, `AddMembers` | addMembers 190-263: drop the master and unknown staff; insert, skipping those who are members |
| `RemoveMemberRead`, `RemoveMember`, `RemoveRelations` | removeMember 266-322: read; delete the member, with a cascade; delete the relations |
| `AssignRead`, `AssignReadMember`, `AssignReadManagers`, `AssignReadExisting`, `AssignReadReverse`, `AssignCreate` | setReporting 325-454: five reads and one insert; setReportingBulk makes such requests one after another |
| `UnassignRead`, `UnassignReadRelation`, `Unassign` | removeReporting 497-567 |
| `DeleteTeam`, `DeleteStaff`, `DeleteOrganization` | deleteTeam 732-756, and the cascades of `prisma/schema.prisma` |

One team: no handler relates two.

### Staff

| action | code in `src/staff/staff.service.ts` |
|---|---|
| `AddStaffMember`, `AddStaffBulk` | addStaffMember 65-150, addStaffBulk 189-310: both rows of each person in one transaction |
| `EditRead`, `EditHours`, `EditFindSuperAdmin`, `EditUpdate`, `EditCommit` | editStaffMemberDetails 583-747: read the role; upsert the working hours, if the request has any (637-675); find the SuperAdmin to demote; the updates, each taking a row lock; the commit |
| `DeleteRead`, `DeleteStaff`, `CascadeStaff`, `DeleteCredential` | deleteStaffMember 782-849: read; lock the member's row; cascade to the working hours (`prisma/schema.prisma` 103), with which the delete is done; delete the login |
| `DeleteOrganization` | deleteOrganization, with the cascades |
| `Abort` | a failing call, or the deadlock the database breaks: a transaction is undone, a single delete is not |

A person stands for the row of `Staff` and the row of `UserCredential`, which one
transaction stores together, and for the seven rows of `WorkingHours`, which every edit
upserts in the order of the week: they are one row. Inserting them locks the
member's row against his deletion (`Locks`), as a foreign key does. `Needs` is the rows
the next statement of a request waits for, `Waits` who waits for whom.

### Users

| action | code in `src/auth/auth.service.ts` |
|---|---|
| `RootRead`, `RootCreate` | registerRootUser 25-68 |
| `LoginRead`, `LoginFirstPassword`, `LoginClearFlag`, `LoginReadAgain`, `LoginCreateToken` | loginUser 71-160: on a first login the password is changed, the flag cleared and the row read again, in three calls |
| `RefreshRead`, `RefreshRotate` | refreshAccessToken 172-225: find by token; update by id |
| `ForgotPassword`, `ResetRead`, `ResetPassword`, `ResetDeleteOtp` | forgotPassword 228-275, resetPassword 278-332 |
| `ChangeOldPassword`, `Logout` | 335-371, 374-398 |
| `AddUser`, `SetStatus`, `RemoveUser` | what `src/staff/staff.service.ts` does to a credential |

`rotated` counts the answers to each refresh token and is not state of the
program. A hash of a password is the word and who sent it (`Hash`): its user (`Own`), or
the service of staff, which made it up and mailed it (`Mailed`). The second is not in the
database; it tells the hash of a new password from that of the mailed one when both are
of the same word, as salted hashes are told apart. Access tokens of people are signed and kept nowhere.

### Organizations

| action | code |
|---|---|
| `CreateOrganization`, `DeleteOrganization` | `src/organization/organization.service.ts` 29-127, 537-565 |
| `SubscribeRead`, `Subscribe` | updateSubscription of the same file, 640-705 |
| `CreatePlan` | `src/plan/plan.service.ts` 17-63 |
| `DisableRead`, `Disable` | softDeletePlan 195-232: count the subscribers; update |
| `UpdatePlan`, `UpdateReadFeatures`, `UpdateFeature`, `UpdateFindOld`, `UpdateCommit` | updatePlan 162-192 and updatePlanFeatures 113-159: update the plan's row, if anything of it changes; read its features; upsert each; delete the others; commit |
| `AddDepartment`, `AddReason`, `CreateRow` | `src/department/department.service.ts` 13-138, `src/reason/reason.service.ts` 14-140: look for the name; insert; an import does so for each entry |
| `DeleteDepartment`, `DeleteReason` | 217-267 and 198-248 of these files |

`rows` counts the rows of one name, since two names do not meet. `asked` keeps the
features that the plan update answered last asked for; it is not state of the
program.

## 3. Runs

| run | instance | shows |
|---|---|---|
| `VisitsConcurrent` | 2 handlers, 1 visit, 3 notifications, host and admin, gap 2, clock to 2, failures, updates that land later than they are sent | `TypeOK`, `StatusFieldsAgree`, `NotificationsAgree`, `RemindersBounded`, and that the visit implements `MeetingLifecycle` |
| `VisitsAdmission` | 2 handlers, 3 visits, 1 visitor, 2 organizations | at most as many active visits of a visitor as requests are served at once |
| `VisitsLive` | 2 handlers, 1 visit, 3 notifications, no failing call, fairness | a waiting visit is announced, and its host is eventually notified |
| `AttendanceConcurrent` | 2 handlers, 2 sessions, 6 times in 3 days, honest clock | `TypeOK`, `SessionsAgree`, `TotalsWithinEvents`, `ScanIsHonoured` under every race |
| `AttendanceSequential` | 1 handler, 3 sessions, 9 times (0 to 8) in 2 days, requests while a session has fewer than 8 events | days are well formed, totals add up and equal those of the export's copy, no second is counted in two sessions, and sessions implement `Timesheet` |
| `RecalcTotals` | all sorted logs of at most 5 events at 3 times | the totals count each stretch once, to the right total |
| `SystemAccounts` | 2 handlers, 3 accounts, 2 sessions, limit 1, 2 one-time passwords | the limit is exceeded by no more than the other requests in flight, a refused token stays refused, a code succeeds once |
| `SystemRefresh` | 1 handler, 1 account, 1 session | violated: a refreshed access token is refused |
| `Teams` | 2 handlers, 3 members of staff, 3 rows of members | relations never outlive the membership they were stored for (`ReporteesAreMembers`); while calm, no pair reports to each other, the master to nobody, nobody to one who left (`ReportingIsSound`) |
| `Staff` | 2 handlers, 3 people, working hours for one of them while there is one other at most | roles agree and only staff logs in under every race; while calm, one SuperAdmin and no disabled Admin; no circle of waiting edits and deletions without a transfer, or a deletion that cascades to working hours |
| `Users` | 2 handlers, 3 credentials, one of them at most a member of staff's, 2 passwords, 1 session, 4 refresh tokens, 1 code | roots and answers to one refresh token bounded by the requests served at once; ended sessions stay ended; a first login that is done has stored a password its user sent |
| `Organizations` | 2 handlers, 1 organization, 2 plans, the 2 feature codes, 3 rows of a name | subscribed while stored; features are those of one update; names bounded; while calm, no plan with subscribers is disabled |

Bounds. Two handlers are enough for every race found in the code, which is
always between one read and one write; the properties that count say so in
terms of `Handlers`. A pool of uuids one larger than the bound of a counting
property lets it be exceeded; so three accounts for a limit of 1, which
two handlers may turn into two, three roots, three rows of a name and four refresh
tokens, of which the first may then be rotated three times. A limit that is
lowered needs a larger one, and is covered by the theorem, as is any number of
codes. One visit suffices for what happens to a visit,
because only check-in looks at others. Nine times let a day hold a punch-in, two
breaks and a punch-out, and a late punch-out the day after; two ticks to the
second make flooring matter. `MaxEvents` bounds the events of a session when a
request arrives. Three members of staff let one report to another, and either to a
master who changes; three rows let one of them leave and come back. Three people
are an editor's target, the holder and a second candidate. Working hours of one
member, while one other at most has been added (`MCHoursOfOne`), are enough for a
circle of an edit and a deletion of that member, and for a transfer between the two; an
edit writes the hours of its own member only. One member of staff
(`MCOneMember`) besides the roots has the first login that is to race with resets,
changes and other first logins of the same credential. Two plans let a
subscription move. Deadlock is not checked:
the pools of uuids and the clocks run out, where the program would not.

Fairness. `VisitsLive` assumes weak fairness of the steps of a handler whose
request has begun: Node runs each continuation once its call has returned. No
new request, deletion or clock tick is assumed to happen. It also assumes that
no call fails, and the property needs it: if the server stops between lines 113
and 115 of `visit.service.ts`, the visit waits and nobody is told. No other
component promises that something happens later.

Every property of a passing run has a mutant: a definition next to the one it
replaces, commented "mutant", with a plausible mistake that the run refutes.

## 4. What the checks found

One finding: `refreshSystemAccessToken` (295) signs an access token without a
session, which the guard (50) refuses: "New access token issued." (312) is of no
use to the kiosk, which stays LoggedIn and, when the token of its login has
expired, can neither log out nor log in (`SystemRefresh`).

What the code does that a reader may not expect. No text promises otherwise, and
the properties were fitted to it:

- Visits. `startVisit` (70) may store two active visits of one visitor, one for
  each request that races. `resendVisitNotification` (1075) may remind of a visit
  that has been answered since (1050), and the reminder stays unread, since
  deleteNotification refuses unread ones. endVisitQr takes its time (292) before its
  update lands, by id: when an acceptance that takes a later time commits in between, the
  visit ends before it begins. `StatusFieldsAgree` orders the two times only for endVisit,
  which waits for a visit that has begun.
- Attendance. `handlePunchIn` (441) lets two racing punch-ins through, and opens a
  second session on a day whose session is closed, although scan says that the day
  is done (321). A late punch-out is compared with the punch-in only, so breaks
  recorded after it are still counted (`NormalTotalsAddUp` speaks of normal
  closings). The stored and the exported totals may differ when a late punch-out falls at
  or before another event within the second of that event: recalcTotals (195) cuts to
  seconds and leaves the closing event, which is appended, last in that second, while
  the export reads by millisecond (841) and so counts it first
  (`StoredTotalsAreExported` excepts these closings, `ClosedInSecondOf`). A break that races with a closing is missing from the stored totals.
  Two late punch-outs of one session open two new ones.
- System accounts. registerSystemUser (63) may store an account more than the limit
  for each further request that races. Two resets with one code both write their
  password, one of them is answered with an error. Logging out drops the refresh
  token of a login that came in between.
- Teams. Of two racing requests each may find that the other's relation is not
  stored, so that two members report to each other, or the new master to somebody
  (`ReportingIsSound` needs `calm`). A new name alone removes the master's own
  relations (150), although the comment there says "only if changed". A master who
  was removed as a member is not added again.
- Staff. Two transfers that find one holder make two SuperAdmins. As the role is
  read before the transaction (723), two edits of one Admin may leave an Admin whose
  login is disabled. A transfer locks the old holder's credential before his row of
  staff (681), other edits the reverse: they may deadlock, and the database aborts
  one. So may an edit and a deletion of one member: the edit holds his working hours
  (637-675) and wants his row (709), the deletion (839) holds the row and cascades to the
  hours. A deletion that fails between its two deletes leaves a login without a
  member.
- Users. The password of a first login (95), of a reset and of a change is not
  compared with the one it replaces, so a user may keep the one that was mailed to him:
  `FirstPasswordIsSent` only says that he sent it himself. Two registrations may store two
  roots. A refresh does not ask whether the
  account is active. One refresh token may be answered twice, and the first answer's
  token is then gone.
- Organizations. createOrganization accepts a disabled plan. The look for a
  department compares the lower case of names but asks the database for the exact
  one (51). `FeaturesAreAsked` holds because there are two feature codes: with three,
  two updates that change features only, which lock no row of the plan, could leave a
  mixture of both.

## 5. Proofs

TLAPS checks these for every value of the constants that satisfies the
assumptions named in the modules: any number of handlers, rows, times and codes.
Every property of a passing run is the subject of a theorem, but for
`HostEventuallyTold`, which is a liveness property. Three hypotheses occur.
`HonestClock` and `~Faulty` are the values of the constants in the runs of those
properties; `Alone` says that there is one handler, that is, one request at a time.

- `VisitsProofs`: `TypeCorrect`, `Safety` (`StatusFieldsAgree`) and
  `NotificationsTellTheTruth` (`NotificationsAgree`) rest on the invariant `IInv`. The
  properties alone are not inductive: what a handler learnt before an await has to be
  remembered. `RequestRemembers` says that a handler about to insert a notification
  carries the host of the visit, and that one about to mail a decision belongs to a
  visit that was so decided; `MailsAreTrue` keeps the latter when the mail has left;
  that no visit began, and no statement was sent, after `now` gives the order of the
  times of a visit that endVisit ends.
  `ImplementsLifecycle` (`FollowsLifecycle`) is proved step by step: each action changes
  at most one meeting the way `MeetingLifecycle` lets it, or stutters. `BoundsHold`
  (`ActiveVisitsBounded`) and `RemindersHold` (`RemindersBounded`) need a second
  invariant, `CInv`: once a visitor has an active visit, his active visits and the
  handlers past the check for one are together no more than the handlers
  (`VisitsCounted`), and so for the notifications within one gap and the handlers past
  the wait (`NotifsCounted`). A check lets a handler pass only while there is no row,
  and every row stored takes its handler out of the count.
  `WaitingVisitsAreAnnounced`, for a system without failing calls, is inductive with
  `TypeOK`: `AnnouncedStays` says what has to stay for a visit to stay announced, and
  each action leaves it, or takes the visit out of the waiting.
- `RecalcTotalsProofs`: `TotalsNeverExceedSpan` says of the loop that no total is negative
  and that together they fit in the time spanned (`TotalsFitSpan`); it adds to this
  that a running start time is the time of the last event counted, and that only one
  is running (`StartIsLastEvent`), so one turn adds at most the time since that event.
  `StretchesAreCounted` (`TotalsCountStretches`) needs more: which start time runs is
  told by the type of the last event. `LoopIsRecalcTotals` says that the loop, turn by
  turn, computes the operator `RecalcTotals` that attendance uses, whose accumulator is
  a recursive function. `CopiesAgree` says that the copy in the export computes the same
  on every log: the two accumulators are equal at every turn. The module also has the lemmas on that operator: `SortPermutes`,
  `SortOrders` and `SortOfOrdered` (the sort permutes, orders, and is stable),
  `TotalsFit` (no total is negative, and together they fit between two events, whatever
  the order and the times) and `WholeDayCounts` (in a day of work and breaks in turn
  every second counts). These are inductions over the length of a log. An induction
  rule with a predicate as its parameter cannot be instantiated by the provers, so
  `SetInduction` states it for a set of naturals, and each use names the set of lengths
  for which its claim holds; it rests on `LeastNumber`, that is on a minimal element of
  a finite set. `FiniteRecursion` gives the existence of what is defined by recursion.
  The sort is written with the place of each event (`Places`), not as a recursion, so
  that it can be reasoned about.
- `AttendanceProofs`: `AttendanceTyped` (`TypeOK`) and `TotalsNeverExceedEvents`
  (`TotalsWithinEvents`) rest on `TInv`, for any clock and any races: what a closing read
  of the events is still among them when it commits (`AskOK`), so the totals, by
  `TotalsFit`, fit between two events of the session. The module uses the lemmas of
  `RecalcTotalsProofs` through an INSTANCE (`SameOperators`).
  `SessionsAlwaysAgree` (`SessionsAgree`) needs an honest clock; without it a client's
  time may lie before the punch-in. `AInv` adds that sessions began no later than the
  latest request, that no request carries a later time than that, and
  `AsksAfterFirst`: a request on a session belongs to one that was opened before it. The
  proof lists what a step can do to one session (`Kept`, `Removed`, `Opened`,
  `Paused`, `Ended`), shows that these keep the invariant (`RowsStep`), and that every
  action does nothing else (`Effects`). `ScansAreHonoured` (`ScanIsHonoured`) adds
  `TimesDistinct`: the events of an open session have times of their own, which no
  request in flight shares, so the last event that scan reads is the one a handler
  reads. `DaysStayWellFormed` (`DaysAreWellFormed`), `EverySecondCounts`
  (`NormalTotalsAddUp`) and `ExportAgrees` (`StoredTotalsAreExported`) hold of requests
  one at a time (`Alone`), and all follow from `QInv`. `ExportAgrees` combines it with `CopiesAgree`: unless
  `ClosedInSecondOf`, the export's order by time changes nothing that remains once the
  times are cut to seconds. `DayOK` says that the events of an open session rise in time and that
  the totals of a closed one are those of its events; `Apart` that two sessions
  are; `Knows` that what the only request in flight has read is what is stored: it
  saw no open session, or the events it is about to add to. `ImplementsTimesheet`
  (`FollowsTimesheet`) is proved from `QInv` and from the fact that the clock stands
  at the time of the request in flight (`AtNow`), action by action: a punch-in is
  `Begin`, a punch-out `Leave`, a late one `LeaveLate`, an arrival `Tick`, a deletion
  `Forget`, and all else a stutter. `SessionsNeverOverlap` (`SessionsDisjoint`) then
  reasons about the steps of `Timesheet` alone: `CountedInv` says that what is counted
  of a stint has passed and that no later stint began before it had.
- `SystemAccountsProofs`: `AccountsTyped` (`TypeOK`), `AccountsSafe`
  (`AccountsBounded`), `OtpsAreSpentOnce` (`OtpSucceedsOnce`) and `RefusalIsFinal`
  (`RefusedForGood`). `IInv` counts a registration past its check as an account
  (`RegistrationsBounded`): a check lets a handler pass only below a limit, and at most
  the other handlers are past theirs, so the sum stays below `MaxLimit` plus the
  handlers. Lemmas on the cardinality of the two sets rest on `FiniteSetTheorems`.
  `SessionsFresh` says that the session of an unfinished login was handed out to
  nobody, from which a login revives no token; `OtpsUnspent` that a stored code has
  reset nothing, and that requests holding one code hold one row, which only one of
  them deletes.
- `StaffProofs`: `StaffTyped` (`TypeOK`), `RolesSafe` (`RolesAgree`), `LoginsAreStaff`
  (`OnlyStaffLogsIn`) and `DeadlocksAreKnown` (`DeadlockNeedsTransferOrCascade`). `IInv`
  says what locks are for (`LocksHold`): a row a transaction has updated is stored, and
  nobody else's, so at the commit both rows of a person change together;
  `LocksInOrder`: without a transfer a member's row is locked before the login, so
  in no circle, of any length, of edits without one and of deletions before their
  cascade, can all wait for each other: whoever is waited for wants
  the member's row, because another has inserted his working hours, and only one
  can have; `MemberDeletedFirst`: a login about to be deleted
  belongs to one who is not a member any more. `AdministrationStaysSound`
  (`AdministrationIsSound`) speaks of requests one at a time. Its invariant `CInv` says
  that as long as they have (`calm`) one handler at most is busy (`Serial`), and what
  it has read still holds (`Knows`): the role of the person, and that the holder it
  found is the SuperAdmin, or that there is none.
- `TeamsProofs`: `TeamsTyped` (`TypeOK`) and `ReportingSafe` (`ReporteesAreMembers`). A row
  of members only ages, from unused to stored to deleted; `AssignmentRemembers` says
  that the row an assignment found is still that of the same person, or deleted, in
  which case its insert fails. `ReportingStaysSound` (`ReportingIsSound`) has a `CInv` of
  the same form: whoever is reported to is a member, or the request in flight is about
  to delete those relations (`Managed`), and an assignment past its checks has found
  no master, no stranger and no reverse relation that is not there now.
- `UsersProofs`: `UsersTyped` (`TypeOK`), `RootsStayBounded` (`RootsBounded`), `UsersSafe`
  (`RefreshesBounded`), `FirstPasswordsAreSent` (`FirstPasswordIsSent`) and
  `SessionsAreOver` (`SessionsEndForGood`). `RootsCounted` and `RefreshesCounted` count
  those past a check as above; `TokensUnique` says that no two rows have one token and
  that a token once answered for is in no row, so nobody reads it again;
  `PasswordsSent` that who clears the flag has written a password its user sent.
- `OrganizationsProofs`: `OrganizationsTyped` (`TypeOK`), `OrganizationsSafe`
  (`SubscribedWhileStored`), `NamesStayBounded` (`NamesBounded`), `UpdatesAreWhole`
  (`FeaturesAreAsked`) and `DisablingIsSafe` (`DisabledUnused`). `NamesCounted` counts;
  `CalmDisables` says that while requests come one at a time a plan about to be
  disabled has no subscribers. For the updates, `LocksDisjoint` and `OldFound`: the
  features two updates have written are disjoint, and what one did not ask for and did
  not find when it deletes, it does not leave either. Who could store such a feature
  meanwhile would have to delete, and so to wait for, a feature the first has written;
  there is no third code (`FeatureAssumption`, `prisma/schema.prisma` 383).

Only model-checked: `HostEventuallyTold`, since fairness and ENABLED are out of the
prover's reach, and the violated property of `SystemRefresh`, whose counterexample is
the result.

## 6. Not modelled, and what is left

Visit analytics, lists, charts and exports read and change nothing; only the
export's totals are modelled, in `WorkTime`. Controllers, validation and role guards
pass or refuse a request before a handler runs, and the models start after them.
Names, pictures, addresses, the values of working hours, prices and the limits of features are
columns that no handler relates to another row. What a caller is answered is not
state, so a lost answer, and an answer that tells an error after the row was stored,
are not in the models; nor are the texts of mails. editSystemAccount and the
verification of codes without their use change nothing that the properties of
`SystemAccounts` speak of. Of the locks, `Staff` has those of edits and of the deletion
of members. The deletion of an organization is one step, taken when no row is
locked, and is in no circle; nor are the locks that deletions take in the tables of other
components.

Left: departments and reasons as the references of visits and staff, whose foreign
keys are so far a call that may fail; and a detailed run of the mails that fail after
a visit is stored, once what a caller is answered is part of a model.
