------------------------------- MODULE Visits -------------------------------
(***************************************************************************)
(* The visit workflow: src/src/visit/visit.service.ts, the deletion of      *)
(* notifications and the cascades of prisma/schema.prisma.                  *)
(*                                                                         *)
(* A handler of the server serves one HTTP request at a time: it is a       *)
(* sequence of awaited calls, and between two of them the handlers of other *)
(* requests run.  req[h] holds where handler h stands and what it read.     *)
(* Each action is the code between two awaits; consecutive reads that no    *)
(* later write depends on are one step.  A refused request changes nothing  *)
(* and is a stuttering step.  The times of an update are taken by the       *)
(* handler when it sends the statement, which takes effect later.           *)
(***************************************************************************)
EXTENDS Integers, FiniteSets

CONSTANTS
  Handlers,    \* requests the server may be serving at once
  VisitIds,    \* the uuids visit rows may get
  NotifIds,    \* the uuids notification rows may get
  Staff,       \* members of staff present at the start
  Admins,      \* those whose token says Admin or SuperAdmin
  Orgs,
  OrgOf,       \* the organization of a member of staff
  Visitors,    \* visitors, as identified by their e-mail address
  ResendGap,   \* ticks a reminder has to wait (five minutes in the code)
  MaxTime,     \* bound on the clock
  Faulty,      \* whether a database call may fail or the server stop
  Null

ASSUME StaffAssumption == OrgOf \in [Staff -> Orgs] /\ Admins \subseteq Staff
ASSUME TimeAssumption  == ResendGap \in Nat /\ MaxTime \in Nat
ASSUME FaultAssumption == Faulty \in BOOLEAN
ASSUME HandlerAssumption == IsFiniteSet(Handlers)

VARIABLES
  visit,   \* table Visit; uuids not used yet and deleted rows included
  notif,   \* table Notification, likewise
  staff,   \* ids of the rows of table Staff
  req,     \* requests in flight
  mailed,  \* <<decision, visit>>: what visitors have been told by mail
  now

vars == <<visit, notif, staff, req, mailed, now>>

NoTime == -1
Time   == 0..MaxTime

-----------------------------------------------------------------------------
(* Rows and requests *)

MeetingStatus == {"PENDING", "ACCEPTED", "ONGOING", "COMPLETED", "REJECTED"}
ActiveStatus  == {"PENDING", "ACCEPTED", "ONGOING"}

UnusedVisit == [status |-> "UNUSED", org |-> Null, staff |-> Null,
                visitor |-> Null, start |-> NoTime, end |-> NoTime]

UsedVisit == [status : MeetingStatus \cup {"DELETED"},
              org : Orgs, staff : Staff, visitor : Visitors,
              start : Time \cup {NoTime}, end : Time \cup {NoTime}]
VisitRow  == UsedVisit \cup {UnusedVisit}

UnusedNotif == [row |-> "unused", visit |-> Null, staff |-> Null,
                type |-> "VISIT_REQUEST", action |-> "PENDING",
                isRead |-> FALSE, at |-> NoTime]

UsedNotif == [row : {"stored", "deleted"}, visit : VisitIds, staff : Staff,
              type   : {"VISIT_REQUEST", "REMINDER"},
              action : {"PENDING", "ACCEPTED", "REJECTED"},
              isRead : BOOLEAN, at : Time]
NotifRow  == UsedNotif \cup {UnusedNotif}

\* What a handler is about to do.
Labels == {"idle", "createVisit", "createNotification", "mailRequest",
           "sendAccept", "accept", "mailAccept", "reject", "mailReject",
           "sendEnd", "end", "sendEndQr", "endQr", "mailEnd",
           "checkGap", "createReminder"}

\* A statement that carries a time has been sent and has not taken effect.
TimedLabels == {"accept", "end", "endQr"}

Request == [pc      : Labels,
            org     : Orgs \cup {Null},
            staff   : Staff \cup {Null},
            visitor : Visitors \cup {Null},
            visit   : VisitIds \cup {Null},
            at      : Time \cup {NoTime}]   \* new Date() of the statement sent

Idle == [pc |-> "idle", org |-> Null, staff |-> Null, visitor |-> Null,
         visit |-> Null, at |-> NoTime]

Exists(v)     == visit[v].status \in MeetingStatus
Stored(n)     == notif[n].row = "stored"
NotifsOf(v)   == {n \in NotifIds : Stored(n) /\ notif[n].visit = v}
At(h, label)  == req[h].pc = label
Reply(h)      == req' = [req EXCEPT ![h] = Idle]
GoOn(h, label)== req' = [req EXCEPT ![h] = [@ EXCEPT !.pc = label, !.at = NoTime]]
OnVisit(label, v) == [Idle EXCEPT !.pc = label, !.visit = v]

Init ==
  /\ visit  = [v \in VisitIds |-> UnusedVisit]
  /\ notif  = [n \in NotifIds |-> UnusedNotif]
  /\ staff  = Staff
  /\ req    = [h \in Handlers |-> Idle]
  /\ mailed = {}
  /\ now    = 0

-----------------------------------------------------------------------------
(* startVisit: a kiosk of organization o announces visitor p to host s *)

HasAdmittedVisit(p, o) ==   \* mutant: overlooks the visits still waiting
  \E v \in VisitIds : /\ visit[v].visitor = p
                      /\ visit[v].org = o
                      /\ visit[v].status \in ActiveStatus \ {"PENDING"}

HasActiveVisit(p, o) ==
  \E v \in VisitIds : /\ visit[v].visitor = p
                      /\ visit[v].org = o
                      /\ visit[v].status \in ActiveStatus

CheckIn(h) ==
  /\ At(h, "idle")
  /\ \E o \in Orgs, s \in staff, p \in Visitors :
       /\ OrgOf[s] = o
       /\ ~HasActiveVisit(p, o)
       /\ req' = [req EXCEPT ![h] = [pc |-> "createVisit", org |-> o, staff |-> s,
                                     visitor |-> p, visit |-> Null, at |-> NoTime]]
  /\ UNCHANGED <<visit, notif, staff, mailed, now>>

\* The upload of the picture, or the foreign key on the reason, may fail; the
\* foreign key on the host fails when the host has been deleted meanwhile.
CreateVisit(h) ==
  /\ At(h, "createVisit")
  /\ \/ /\ req[h].staff \in staff
        /\ \E v \in VisitIds :
             /\ visit[v].status = "UNUSED"
             /\ visit' = [visit EXCEPT ![v] =
                            [status |-> "PENDING", org |-> req[h].org,
                             staff |-> req[h].staff, visitor |-> req[h].visitor,
                             start |-> NoTime, end |-> NoTime]]
             /\ req' = [req EXCEPT ![h] = [@ EXCEPT !.pc = "createNotification",
                                                    !.visit = v]]
     \/ Reply(h) /\ UNCHANGED visit
  /\ UNCHANGED <<notif, staff, mailed, now>>

InsertNotification(type, v, s) ==
  \E n \in NotifIds :
    /\ notif[n].row = "unused"
    /\ notif' = [notif EXCEPT ![n] =
                   [row |-> "stored", visit |-> v, staff |-> s, type |-> type,
                    action |-> "PENDING", isRead |-> FALSE, at |-> now]]

CreateNotificationOrFail(h) ==   \* mutant: an error before the insert is dropped
  /\ At(h, "createNotification")
  /\ \/ /\ Exists(req[h].visit)
        /\ InsertNotification("VISIT_REQUEST", req[h].visit, req[h].staff)
        /\ GoOn(h, "mailRequest")
     \/ /\ Reply(h)
        /\ UNCHANGED notif
  /\ UNCHANGED <<visit, staff, mailed, now>>

CreateNotification(h) ==
  /\ At(h, "createNotification")
  /\ \/ /\ Exists(req[h].visit)
        /\ InsertNotification("VISIT_REQUEST", req[h].visit, req[h].staff)
        /\ GoOn(h, "mailRequest")
     \/ /\ ~Exists(req[h].visit)
        /\ Reply(h)
        /\ UNCHANGED notif
  /\ UNCHANGED <<visit, staff, mailed, now>>

\* Mails leave after the row is stored, and sending one may fail; only the
\* mails that tell the visitor a decision are recorded.
SendMail(h, label, told) ==
  /\ At(h, label)
  /\ mailed' \in {mailed, mailed \cup (told \X {req[h].visit})}
  /\ Reply(h)
  /\ UNCHANGED <<visit, notif, staff, now>>

-----------------------------------------------------------------------------
(* acceptVisit, rejectVisit: the host, or an admin, answers *)

MayDecide(a, v) ==
  /\ visit[v].org = OrgOf[a]
  /\ visit[v].staff = a \/ a \in Admins

ReadForDecision(h, label) ==
  /\ At(h, "idle")
  /\ \E a \in staff, v \in VisitIds :
       /\ visit[v].status = "PENDING"
       /\ MayDecide(a, v)
       /\ req' = [req EXCEPT ![h] = OnVisit(label, v)]
  /\ UNCHANGED <<visit, notif, staff, mailed, now>>

\* The handler takes the time and sends the update: inside the transaction of
\* acceptVisit, after the read of endVisit and endVisitQr.
SendUpdate(h, label, sent) ==
  /\ At(h, label)
  /\ req' = [req EXCEPT ![h] = [@ EXCEPT !.pc = sent, !.at = now]]
  /\ UNCHANGED <<visit, notif, staff, mailed, now>>

\* The transaction: a conditional update, then every notification of the visit.
\* The row lock of the update is held until the commit, so it is one step.
AnsweredUndated(row, status, t) == [row EXCEPT !.status = status]   \* mutant: no startTime

Answered(row, status, t) ==
  [row EXCEPT !.status = status,
              !.start  = IF status = "ONGOING" THEN t ELSE @]

MarkNotifications(v, action) ==
  notif' = [n \in NotifIds |->
              IF n \in NotifsOf(v)
              THEN [notif[n] EXCEPT !.action = action, !.isRead = TRUE]
              ELSE notif[n]]

StillExists(v) == Exists(v)   \* mutant: the update is by id alone

StillPending(v) == visit[v].status = "PENDING"

Decide(h, label, status, action, next) ==
  /\ At(h, label)
  /\ LET v == req[h].visit IN
       \/ /\ StillPending(v)
          /\ visit' = [visit EXCEPT ![v] = Answered(@, status, req[h].at)]
          /\ MarkNotifications(v, action)
          /\ GoOn(h, next)
       \/ /\ ~StillPending(v)
          /\ Reply(h)
          /\ UNCHANGED <<visit, notif>>
  /\ UNCHANGED <<staff, mailed, now>>

AcceptRead(h) == ReadForDecision(h, "sendAccept")
SendAccept(h) == SendUpdate(h, "sendAccept", "accept")
Accept(h)     == Decide(h, "accept", "ONGOING", "ACCEPTED", "mailAccept")
RejectRead(h) == ReadForDecision(h, "reject")
Reject(h)     == Decide(h, "reject", "REJECTED", "REJECTED", "mailReject")

-----------------------------------------------------------------------------
(* endVisit, endVisitQr: the visitor checks out *)

ReadForCheckout(h, label, statuses) ==
  /\ At(h, "idle")
  /\ \E v \in VisitIds : /\ visit[v].status \in statuses
                         /\ req' = [req EXCEPT ![h] = OnVisit(label, v)]
  /\ UNCHANGED <<visit, notif, staff, mailed, now>>

\* endVisit looks for an on-going visit of the visitor; endVisitQr takes the
\* id off the QR code and only refuses a completed visit.
EndVisitRead(h)   == ReadForCheckout(h, "sendEnd", {"ONGOING"})
EndVisitQrRead(h) == ReadForCheckout(h, "sendEndQr", MeetingStatus \ {"COMPLETED"})

SendEnd(h) == SendUpdate(h, "sendEnd", "end") \/ SendUpdate(h, "sendEndQr", "endQr")

\* The update is by id alone, whatever the status has become since.
Completed(row, t) == [row EXCEPT !.status = "COMPLETED", !.end = t]

CompleteVisit(h) ==
  /\ At(h, "end") \/ At(h, "endQr")
  /\ LET v == req[h].visit IN
       \/ /\ Exists(v)
          /\ visit' = [visit EXCEPT ![v] = Completed(@, req[h].at)]
          /\ GoOn(h, "mailEnd")
       \/ /\ ~Exists(v)
          /\ Reply(h)
          /\ UNCHANGED visit
  /\ UNCHANGED <<notif, staff, mailed, now>>

-----------------------------------------------------------------------------
(* resendVisitNotification, deleteNotification *)

ResendReadPlain(h) ==   \* mutant: the host is not read with the visit
  /\ At(h, "idle")
  /\ \E v \in VisitIds :
       /\ visit[v].status = "PENDING"
       /\ req' = [req EXCEPT ![h] = OnVisit("checkGap", v)]
  /\ UNCHANGED <<visit, notif, staff, mailed, now>>

ResendRead(h) ==
  /\ At(h, "idle")
  /\ \E v \in VisitIds :
       /\ visit[v].status = "PENDING"
       /\ req' = [req EXCEPT ![h] = [OnVisit("checkGap", v)
                                       EXCEPT !.staff = visit[v].staff]]
  /\ UNCHANGED <<visit, notif, staff, mailed, now>>

\* mutant: waits for the last reminder only, not for the first request
ReminderGapElapsed(v) ==
  \A n \in NotifsOf(v) :
    notif[n].type = "REMINDER" => now - notif[n].at >= ResendGap

GapElapsed(v) == \A n \in NotifsOf(v) : now - notif[n].at >= ResendGap

CheckGap(h) ==
  /\ At(h, "checkGap")
  /\ \/ GapElapsed(req[h].visit) /\ GoOn(h, "createReminder")
     \/ ~GapElapsed(req[h].visit) /\ Reply(h)
  /\ UNCHANGED <<visit, notif, staff, mailed, now>>

CreateReminder(h) ==
  /\ At(h, "createReminder")
  /\ \/ /\ Exists(req[h].visit)
        /\ InsertNotification("REMINDER", req[h].visit, req[h].staff)
     \/ /\ ~Exists(req[h].visit)
        /\ UNCHANGED notif
  /\ Reply(h)
  /\ UNCHANGED <<visit, staff, mailed, now>>

\* A notification that is read never becomes unread, so the find and the
\* delete of the transaction are one step.
AnyNotif(n) == TRUE   \* mutant: deletes whatever the id names

Settled(n) == notif[n].isRead /\ notif[n].action # "PENDING"

DeleteNotification ==
  /\ \E n \in NotifIds :
       /\ Stored(n)
       /\ notif[n].staff \in staff
       /\ Settled(n)
       /\ notif' = [notif EXCEPT ![n].row = "deleted"]
  /\ UNCHANGED <<visit, staff, req, mailed, now>>

-----------------------------------------------------------------------------
(* Deletions that cascade to visits and notifications *)

VisitsOf(ss) == {v \in VisitIds : Exists(v) /\ visit[v].staff \in ss}

RemoveStaff(ss) ==
  /\ staff' = staff \ ss
  /\ visit' = [v \in VisitIds |-> IF v \in VisitsOf(ss)
                                  THEN [visit[v] EXCEPT !.status = "DELETED"]
                                  ELSE visit[v]]
  /\ notif' = [n \in NotifIds |-> IF Stored(n) /\ notif[n].visit \in VisitsOf(ss)
                                  THEN [notif[n] EXCEPT !.row = "deleted"]
                                  ELSE notif[n]]
  /\ UNCHANGED <<req, mailed, now>>

DeleteStaff        == \E s \in staff : RemoveStaff({s})
DeleteOrganization == \E o \in Orgs : RemoveStaff({s \in staff : OrgOf[s] = o})

-----------------------------------------------------------------------------
(* Environment *)

\* A database call fails, or the server stops: the rest of the request is lost.
Abort(h) ==
  /\ Faulty
  /\ ~At(h, "idle")
  /\ Reply(h)
  /\ UNCHANGED <<visit, notif, staff, mailed, now>>

Tick == /\ now < MaxTime
        /\ now' = now + 1
        /\ UNCHANGED <<visit, notif, staff, req, mailed>>

Begin(h) == CheckIn(h) \/ AcceptRead(h) \/ RejectRead(h) \/ EndVisitRead(h)
            \/ EndVisitQrRead(h) \/ ResendRead(h)

Step(h) == CreateVisit(h) \/ CreateNotification(h)
           \/ SendMail(h, "mailRequest", {})
           \/ SendAccept(h) \/ Accept(h) \/ SendMail(h, "mailAccept", {"start"})
           \/ Reject(h) \/ SendMail(h, "mailReject", {"reject"})
           \/ SendEnd(h) \/ CompleteVisit(h) \/ SendMail(h, "mailEnd", {})
           \/ CheckGap(h) \/ CreateReminder(h)

Next == \/ \E h \in Handlers : Begin(h) \/ Step(h) \/ Abort(h)
        \/ DeleteNotification \/ DeleteStaff \/ DeleteOrganization \/ Tick

Spec == Init /\ [][Next]_vars

\* Node runs every continuation whose awaited call has returned.
Fairness == \A h \in Handlers : WF_vars(Step(h))
FairSpec == Spec /\ Fairness
-----------------------------------------------------------------------------
(* Properties *)

\* A request in flight carries what its remaining steps use.
RequestOK(r) ==
  /\ r.pc = "createVisit" => r.org \in Orgs /\ r.visitor \in Visitors
  /\ r.pc \in {"createVisit", "createNotification", "checkGap", "createReminder"}
       => r.staff \in Staff
  /\ r.pc \notin {"idle", "createVisit"}
       => r.visit \in VisitIds /\ visit[r.visit].status # "UNUSED"
  /\ r.pc \in TimedLabels => r.at \in Time

\* Tables, requests and clock have their types; a handler never reaches a step
\* without the ids that step passes to the database.
TypeOK ==
  /\ visit \in [VisitIds -> VisitRow]
  /\ notif \in [NotifIds -> NotifRow]
  /\ staff \subseteq Staff
  /\ req \in [Handlers -> Request]
  /\ \A h \in Handlers : RequestOK(req[h])
  /\ mailed \subseteq {"start", "reject"} \X VisitIds
  /\ now \in Time

\* The status of a visit and its two timestamps tell one story, whatever the
\* order in which accept, reject and both kinds of check-out hit the row: a
\* visit has begun exactly when it was accepted and ended exactly when it is
\* COMPLETED.  The times were taken before the updates took effect, so nothing
\* orders them in general (endVisitQr may end a visit before its beginning);
\* but the time endVisit sends is never before the beginning of its visit.
StatusAgrees(row) ==
  /\ row.status \in {"PENDING", "REJECTED"} => row.start = NoTime /\ row.end = NoTime
  /\ row.status = "ONGOING" => row.start # NoTime /\ row.end = NoTime
  /\ row.status = "COMPLETED" => row.end # NoTime
  /\ row.status # "ACCEPTED"
EndsAfterStart(r) == r.pc = "end" => visit[r.visit].start \in 0..r.at
StatusFieldsAgree == /\ \A v \in VisitIds : StatusAgrees(visit[v])
                     /\ \A h \in Handlers : EndsAfterStart(req[h])

\* What a stored notification says was decided is what the visit went through,
\* and a waiting visit has no notification that says otherwise: accept and
\* reject of two handlers never mix (the transactions of visit.service.ts).
NotificationAgrees(n) ==
  LET row == visit[notif[n].visit] IN
  /\ row.status \in MeetingStatus /\ row.staff = notif[n].staff
  /\ notif[n].isRead <=> notif[n].action # "PENDING"
  /\ notif[n].action = "ACCEPTED"
       => row.status \in {"ONGOING", "COMPLETED"} /\ row.start # NoTime
  /\ notif[n].action = "REJECTED"
       => row.status \in {"REJECTED", "COMPLETED"} /\ row.start = NoTime
NotificationsAgree == \A n \in NotifIds : Stored(n) => NotificationAgrees(n)

\* As long as no call fails, every waiting visit is announced to its host by an
\* unanswered notification, or is about to be: nothing deletes it early.
WaitingVisitIsAnnounced ==
  \A v \in VisitIds : visit[v].status = "PENDING" =>
    \/ \E n \in NotifsOf(v) : notif[n].action = "PENDING"
    \/ \E h \in Handlers : At(h, "createNotification") /\ req[h].visit = v

\* The check for an active visit bounds a visitor's active visits by the number
\* of requests served at once (by one when they are served one at a time).
ActiveVisits(p, o) == {v \in VisitIds : /\ visit[v].visitor = p /\ visit[v].org = o
                                        /\ visit[v].status \in ActiveStatus}
ActiveVisitsBounded ==
  \A p \in Visitors, o \in Orgs :
    Cardinality(ActiveVisits(p, o)) <= Cardinality(Handlers)

\* The five-minute rule of resendVisitNotification: within ResendGap of each
\* other a host gets at most one notification of a visit per request served
\* at once.
Recent(v, t) == {n \in NotifsOf(v) : t <= notif[n].at /\ notif[n].at < t + ResendGap}
RemindersBounded ==
  \A v \in VisitIds, t \in Time : Cardinality(Recent(v, t)) <= Cardinality(Handlers)

\* The meeting as the visitor sees it goes through the lifecycle of
\* MeetingLifecycle: decided at most once, over for good, and the visitor is
\* only mailed the decision that was taken.
Phase(status) ==
  CASE status = "UNUSED"    -> "none"
    [] status = "PENDING"   -> "waiting"
    [] status = "ACCEPTED"  -> "meeting"
    [] status = "ONGOING"   -> "meeting"
    [] status = "REJECTED"  -> "declined"
    [] status = "COMPLETED" -> "over"
    [] status = "DELETED"   -> "deleted"
phaseOf == [v \in VisitIds |-> Phase(visit[v].status)]
beganOf == [v \in VisitIds |-> visit[v].start # NoTime]
toldOf  == [v \in VisitIds |-> {k \in {"start", "reject"} : <<k, v>> \in mailed}]

Lifecycle == INSTANCE MeetingLifecycle
               WITH Meetings <- VisitIds, phase <- phaseOf, began <- beganOf,
                    told <- toldOf
FollowsLifecycle == Lifecycle!Spec

\* A visitor who was checked in does not stay waiting without the host having
\* been notified (the host learns of the visit only from the notification).
HostEventuallyTold ==
  \A v \in VisitIds :
    visit[v].status = "PENDING" ~> (visit[v].status # "PENDING" \/ NotifsOf(v) # {})

\* The inductive strengthening of the invariants above: what a handler learnt
\* before its last await and still relies on after it, and what the mails say.
WasRejected(v) == /\ visit[v].start = NoTime
                  /\ visit[v].status \in {"REJECTED", "COMPLETED", "DELETED"}

RequestRemembers(r) ==
  /\ r.pc \in {"createNotification", "checkGap", "createReminder"}
       => visit[r.visit].staff = r.staff
  /\ r.pc \in {"sendEnd", "mailAccept"} => visit[r.visit].start # NoTime
  /\ r.pc = "mailReject" => WasRejected(r.visit)

MailsAreTrue ==
  \A v \in VisitIds : /\ <<"start", v>> \in mailed => visit[v].start # NoTime
                      /\ <<"reject", v>> \in mailed => WasRejected(v)

IInv == /\ TypeOK
        /\ StatusFieldsAgree
        /\ NotificationsAgree
        /\ \A h \in Handlers : RequestRemembers(req[h])
        /\ MailsAreTrue
        /\ \A v \in VisitIds : visit[v].start <= now
        /\ \A h \in Handlers : req[h].at <= now

\* The strengthening of the two bounds: who is past a check that found nothing
\* counts as if its row were stored already.
Arriving(p, o) == {h \in Handlers : /\ At(h, "createVisit")
                                    /\ req[h].visitor = p /\ req[h].org = o}
Notifying(v)   == {h \in Handlers : /\ req[h].pc \in {"createNotification", "createReminder"}
                                    /\ req[h].visit = v}

Counted(rows, hs) ==
  IsFiniteSet(rows) /\ Cardinality(rows) + Cardinality(hs) <= Cardinality(Handlers)

VisitsCounted ==
  \A p \in Visitors, o \in Orgs :
    ActiveVisits(p, o) # {} => Counted(ActiveVisits(p, o), Arriving(p, o))

NotifsCounted ==
  \A v \in VisitIds, t \in Time :
    Recent(v, t) # {} =>
      Counted(Recent(v, t), IF now < t + ResendGap THEN Notifying(v) ELSE {})

CInv == VisitsCounted /\ NotifsCounted
=============================================================================
