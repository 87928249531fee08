---------------------------- MODULE VisitsProofs ----------------------------
(* Theorems about Visits, for every value of its constants. *)
EXTENDS Visits, FiniteSetTheorems, TLAPS

\* The records handlers are set to are requests.
LEMMA IdleRequest == Idle \in Request
BY DEF Idle, Request, Labels

\* The time of a statement that has been sent is one the clock has shown.
LEMMA SentTime ==
  ASSUME TypeOK, NEW h \in Handlers, req[h].pc \in TimedLabels
  PROVE  req[h].at \in Time /\ req[h].at # NoTime
BY TimeAssumption DEF TypeOK, RequestOK, Time, NoTime

\* A request that names a visit is one.
LEMMA OnVisitRequest ==
  ASSUME NEW label \in Labels, NEW v \in VisitIds
  PROVE  /\ OnVisit(label, v) \in Request
         /\ OnVisit(label, v).pc = label
         /\ OnVisit(label, v).visit = v
BY DEF OnVisit, Idle, Request

\* Moving a request to another label leaves it a request.
LEMMA NextLabelRequest ==
  ASSUME NEW r \in Request, NEW label \in Labels
  PROVE  LET q == [r EXCEPT !.pc = label, !.at = NoTime] IN
         /\ q \in Request /\ q.pc = label /\ q.org = r.org /\ q.staff = r.staff
         /\ q.visitor = r.visitor /\ q.visit = r.visit
BY DEF Request

\* A step of one handler keeps the requests well formed when the handler's new
\* request is, and no visit is undone.
LEMMA RequestsStep ==
  ASSUME TypeOK, NEW h \in Handlers, NEW r \in Request,
         req' = [req EXCEPT ![h] = r], RequestOK(r)',
         \A v \in VisitIds : visit[v].status # "UNUSED" => visit'[v].status # "UNUSED"
  PROVE  /\ (req \in [Handlers -> Request])'
         /\ (\A g \in Handlers : RequestOK(req[g]))'
<1>1. req' \in [Handlers -> Request] /\ req'[h] = r
      /\ \A g \in Handlers : g # h => req'[g] = req[g]
  BY DEF TypeOK
<1>2. \A g \in Handlers : RequestOK(req[g])
  BY DEF TypeOK
<1>3. ASSUME NEW g \in Handlers PROVE RequestOK(req[g])'
  <2>1. CASE g = h
    BY <1>1, <2>1 DEF RequestOK
  <2>2. CASE g # h
    <3>1. RequestOK(req[g]) /\ req'[g] = req[g]
      BY <1>1, <1>2, <2>2
    <3> QED BY <3>1 DEF RequestOK
  <2> QED BY <2>1, <2>2
<1> QED BY <1>1, <1>3

\* The initial tables are empty and satisfy the whole inductive invariant.
LEMMA InitInv == Init => IInv
<1> SUFFICES ASSUME Init PROVE IInv
  OBVIOUS
<1> USE StaffAssumption, TimeAssumption
    DEF Init, UnusedVisit, UnusedNotif, Idle, NoTime, Time
<1>1. TypeOK
  BY DEF TypeOK, VisitRow, NotifRow, RequestOK, TimedLabels, Request, Labels, MeetingStatus
<1>2. StatusFieldsAgree
  BY DEF StatusFieldsAgree, StatusAgrees, EndsAfterStart
<1>3. NotificationsAgree
  BY DEF NotificationsAgree, Stored
<1>4. (\A h \in Handlers : RequestRemembers(req[h])) /\ MailsAreTrue
  BY DEF RequestRemembers, MailsAreTrue
<1>5. /\ \A v \in VisitIds : visit[v].start <= now
      /\ \A h \in Handlers : req[h].at <= now
  OBVIOUS
<1> QED BY <1>1, <1>2, <1>3, <1>4, <1>5 DEF IInv

\* Where a handler stands, its request is typed.
LEMMA RequestTyped ==
  ASSUME TypeOK, NEW h \in Handlers
  PROVE  /\ req[h] \in Request /\ RequestOK(req[h])
         /\ req[h].staff \in Staff \cup {Null} /\ req[h].org \in Orgs \cup {Null}
         /\ req[h].visitor \in Visitors \cup {Null}
BY DEF TypeOK, Request

\* An inserted visit has the types of its columns.
LEMMA UsedVisitTyped ==
  ASSUME TypeOK, NEW v \in VisitIds, visit[v].status # "UNUSED"
  PROVE  visit[v] \in UsedVisit
BY DEF TypeOK, VisitRow, UnusedVisit

\* So has a stored notification.
LEMMA UsedNotifTyped ==
  ASSUME TypeOK, NEW n \in NotifIds, Stored(n)
  PROVE  notif[n] \in UsedNotif
BY DEF TypeOK, NotifRow, UnusedNotif, Stored

\* Inserting a row of the right types keeps the table typed.
LEMMA InsertTyped ==
  ASSUME TypeOK, NEW type \in {"VISIT_REQUEST", "REMINDER"}, NEW v \in VisitIds,
         NEW s \in Staff, InsertNotification(type, v, s)
  PROVE  notif' \in [NotifIds -> NotifRow]
BY DEF TypeOK, InsertNotification, NotifRow, UsedNotif

\* Going on to a later label keeps what the request carries.
LEMMA GoOnOK ==
  ASSUME TypeOK, NEW h \in Handlers, NEW label \in Labels, req[h].visit \in VisitIds,
         visit[req[h].visit].status # "UNUSED", label # "createVisit",
         label \notin TimedLabels,
         label \in {"createNotification", "checkGap", "createReminder"}
           => req[h].staff \in Staff
  PROVE  LET r == [req[h] EXCEPT !.pc = label, !.at = NoTime] IN r \in Request /\ RequestOK(r)
<1> DEFINE r == [req[h] EXCEPT !.pc = label, !.at = NoTime]
<1>1. /\ r \in Request /\ r.pc = label /\ r.visit = req[h].visit
      /\ r.staff = req[h].staff
  BY RequestTyped, NextLabelRequest
<1>2. RequestOK(r)
  BY <1>1 DEF RequestOK
<1> QED BY <1>1, <1>2

\* Every step leaves the tables, the requests and the clock well typed.
LEMMA TypeStep == TypeOK /\ [Next]_vars => TypeOK'
<1> SUFFICES ASSUME TypeOK, [Next]_vars PROVE TypeOK'
  OBVIOUS
<1>a. ASSUME NEW h \in Handlers, NEW r \in Request,
             req' = [req EXCEPT ![h] = r], RequestOK(r),
             UNCHANGED <<visit, notif, staff, now>>,
             mailed' \subseteq {"start", "reject"} \X VisitIds
      PROVE  TypeOK'
  <2>1. RequestOK(r)'
    BY <1>a DEF RequestOK
  <2>2. /\ (req \in [Handlers -> Request])'
        /\ (\A g \in Handlers : RequestOK(req[g]))'
    BY <1>a, <2>1, RequestsStep
  <2> QED BY <1>a, <2>2 DEF TypeOK
<1>b. RequestOK(Idle)
  BY DEF Idle, RequestOK, TimedLabels
<1>c. mailed \subseteq {"start", "reject"} \X VisitIds
  BY DEF TypeOK
<1>1. ASSUME NEW h \in Handlers, CheckIn(h) PROVE TypeOK'
  <2>1. PICK o \in Orgs, s \in staff, p \in Visitors :
          req' = [req EXCEPT ![h] = [pc |-> "createVisit", org |-> o, staff |-> s,
                                     visitor |-> p, visit |-> Null, at |-> NoTime]]
    BY <1>1 DEF CheckIn
  <2> DEFINE r == [pc |-> "createVisit", org |-> o, staff |-> s,
                   visitor |-> p, visit |-> Null, at |-> NoTime]
  <2>2. r \in Request /\ RequestOK(r)
    BY DEF TypeOK, Request, Labels, RequestOK, TimedLabels
  <2> QED BY <1>1, <1>a, <1>c, <2>1, <2>2 DEF CheckIn
<1>2. ASSUME NEW h \in Handlers, CreateVisit(h) PROVE TypeOK'
  <2>1. CASE Reply(h) /\ UNCHANGED visit
    BY <1>2, <1>a, <1>b, <1>c, <2>1, IdleRequest DEF CreateVisit, Reply
  <2>2. CASE ~(Reply(h) /\ UNCHANGED visit)
    <3> DEFINE row == [status |-> "PENDING", org |-> req[h].org,
                       staff |-> req[h].staff, visitor |-> req[h].visitor,
                       start |-> NoTime, end |-> NoTime]
    <3>0. req[h].pc = "createVisit"
      BY <1>2 DEF CreateVisit, At
    <3>1. PICK v \in VisitIds :
            /\ visit' = [visit EXCEPT ![v] = row]
            /\ req' = [req EXCEPT ![h] = [req[h] EXCEPT !.pc = "createNotification",
                                                        !.visit = v]]
      BY <1>2, <2>2, RequestTyped DEF CreateVisit, TypeOK
    <3>2. PICK r \in Request : /\ req' = [req EXCEPT ![h] = r]
                               /\ r.pc = "createNotification"
                               /\ r.visit = v /\ r.staff = req[h].staff
      <4> DEFINE q == [req[h] EXCEPT !.pc = "createNotification", !.visit = v]
      <4>1. q \in Request /\ q.pc = "createNotification" /\ q.visit = v
            /\ q.staff = req[h].staff
        BY RequestTyped DEF Request, Labels
      <4> QED BY <3>1, <4>1
    <3>3. row \in VisitRow /\ req[h].staff \in Staff
      BY <3>0, RequestTyped DEF RequestOK, TimedLabels, UsedVisit, VisitRow, MeetingStatus, NoTime
    <3>4. visit' \in [VisitIds -> VisitRow] /\ visit'[v].status = "PENDING"
      BY <3>1, <3>3 DEF TypeOK
    <3>6. RequestOK(r)'
      BY <3>2, <3>3, <3>4 DEF RequestOK, TimedLabels
    <3>7. \A w \in VisitIds : visit[w].status # "UNUSED" => visit'[w].status # "UNUSED"
      BY <3>1, <3>4 DEF TypeOK
    <3>8. /\ (req \in [Handlers -> Request])'
          /\ (\A g \in Handlers : RequestOK(req[g]))'
      BY <3>2, <3>6, <3>7, RequestsStep
    <3> QED BY <1>2, <3>4, <3>8 DEF TypeOK, CreateVisit
  <2> QED BY <2>1, <2>2
<1>3. ASSUME NEW h \in Handlers, CreateNotification(h) PROVE TypeOK'
  <2>0. /\ req[h].visit \in VisitIds /\ visit[req[h].visit].status # "UNUSED"
        /\ req[h].staff \in Staff
    BY <1>3, RequestTyped DEF CreateNotification, At, RequestOK
  <2>1. notif' \in [NotifIds -> NotifRow]
    BY <1>3, <2>0, InsertTyped DEF CreateNotification, TypeOK
  <2>2. PICK r \in Request : RequestOK(r) /\ req' = [req EXCEPT ![h] = r]
    BY <1>3, <1>b, <2>0, IdleRequest, GoOnOK
    DEF CreateNotification, Reply, GoOn, Labels, TimedLabels
  <2>3. RequestOK(r)'
    BY <1>3, <2>2 DEF RequestOK, CreateNotification
  <2>4. /\ (req \in [Handlers -> Request])'
        /\ (\A g \in Handlers : RequestOK(req[g]))'
    BY <1>3, <2>2, <2>3, RequestsStep DEF CreateNotification
  <2> QED BY <1>3, <2>1, <2>4 DEF CreateNotification, TypeOK
<1>4. ASSUME NEW h \in Handlers, NEW label, NEW told \in SUBSET {"start", "reject"},
             label \in {"mailRequest", "mailAccept", "mailReject", "mailEnd"},
             SendMail(h, label, told)
      PROVE  TypeOK'
  <2>1. req[h].visit \in VisitIds
    BY <1>4, RequestTyped DEF SendMail, At, RequestOK
  <2>2. mailed' \subseteq {"start", "reject"} \X VisitIds
    BY <1>4, <1>c, <2>1 DEF SendMail
  <2> QED BY <1>4, <1>a, <1>b, <2>2, IdleRequest DEF SendMail, Reply
<1>d. ASSUME NEW h \in Handlers, NEW v \in VisitIds, visit[v].status # "UNUSED",
             NEW label \in {"sendAccept", "reject", "sendEnd", "sendEndQr"},
             req' = [req EXCEPT ![h] = OnVisit(label, v)],
             UNCHANGED <<visit, notif, staff, mailed, now>>
      PROVE  TypeOK'
  <2>1. OnVisit(label, v) \in Request /\ RequestOK(OnVisit(label, v))
    BY <1>d, OnVisitRequest DEF Labels, RequestOK, TimedLabels
  <2> QED BY <1>a, <1>c, <1>d, <2>1
<1>s. ASSUME NEW h \in Handlers, NEW label \in {"sendAccept", "sendEnd", "sendEndQr"},
             NEW sent \in TimedLabels, SendUpdate(h, label, sent)
      PROVE  TypeOK'
  <2>1. /\ req[h].visit \in VisitIds /\ visit[req[h].visit].status # "UNUSED"
        /\ req[h] \in Request /\ now \in Time
    BY <1>s, RequestTyped DEF SendUpdate, At, RequestOK, TypeOK
  <2> DEFINE r == [req[h] EXCEPT !.pc = sent, !.at = now]
  <2>2. /\ r \in Request /\ r.pc = sent /\ r.visit = req[h].visit /\ r.at = now
    BY <2>1 DEF Request, Labels, TimedLabels
  <2>3. RequestOK(r)
    BY <2>1, <2>2 DEF RequestOK, TimedLabels
  <2>4. req' = [req EXCEPT ![h] = r]
    BY <1>s DEF SendUpdate
  <2> QED BY <1>s, <1>a, <1>c, <2>2, <2>3, <2>4 DEF SendUpdate
<1>5. ASSUME NEW h \in Handlers, NEW label \in {"sendAccept", "reject"},
             ReadForDecision(h, label)
      PROVE  TypeOK'
  BY <1>5, <1>d DEF ReadForDecision
<1>6. ASSUME NEW h \in Handlers, NEW label \in {"accept", "reject"},
             NEW status \in {"ONGOING", "REJECTED"}, NEW action \in {"ACCEPTED", "REJECTED"},
             NEW next \in {"mailAccept", "mailReject"},
             status = "ONGOING" => label = "accept",
             Decide(h, label, status, action, next)
      PROVE TypeOK'
  <2>0. req[h].visit \in VisitIds /\ visit[req[h].visit].status # "UNUSED"
    BY <1>6, RequestTyped DEF Decide, At, RequestOK
  <2>1. /\ visit' \in [VisitIds -> VisitRow]
        /\ \A w \in VisitIds : visit[w].status # "UNUSED" => visit'[w].status # "UNUSED"
    <3>0. /\ visit[req[h].visit] \in UsedVisit
          /\ status = "ONGOING" => req[h].at \in Time
      BY <1>6, <2>0, UsedVisitTyped, SentTime DEF Decide, At, TimedLabels
    <3>1. Answered(visit[req[h].visit], status, req[h].at) \in UsedVisit
          /\ Answered(visit[req[h].visit], status, req[h].at).status = status
      BY <3>0 DEF UsedVisit, MeetingStatus, Answered
    <3>2. \/ visit' = visit
          \/ visit' = [visit EXCEPT ![req[h].visit] =
                                Answered(visit[req[h].visit], status, req[h].at)]
      BY <1>6, <2>0 DEF Decide, TypeOK
    <3> QED BY <2>0, <3>1, <3>2 DEF TypeOK, VisitRow
  <2>2. notif' \in [NotifIds -> NotifRow]
    <3>1. ASSUME NEW n \in NotifIds, Stored(n)
          PROVE  [notif[n] EXCEPT !.action = action, !.isRead = TRUE] \in NotifRow
      <4>1. notif[n] \in UsedNotif
        BY <3>1, UsedNotifTyped
      <4> QED BY <4>1 DEF UsedNotif, NotifRow
    <3>2. notif' = notif \/ MarkNotifications(req[h].visit, action)
      BY <1>6 DEF Decide
    <3>3. CASE MarkNotifications(req[h].visit, action)
      <4>1. \A n \in NotifIds : notif'[n] \in NotifRow
        BY <3>1, <3>3 DEF MarkNotifications, NotifsOf, TypeOK
      <4> QED BY <3>3, <4>1 DEF MarkNotifications
    <3> QED BY <3>2, <3>3 DEF TypeOK
  <2>3. PICK r \in Request : RequestOK(r) /\ req' = [req EXCEPT ![h] = r]
    BY <1>6, <1>b, <2>0, IdleRequest, GoOnOK
    DEF Decide, Reply, GoOn, Labels, TimedLabels
  <2>4. RequestOK(r)'
    BY <2>1, <2>3 DEF RequestOK
  <2>5. /\ (req \in [Handlers -> Request])'
        /\ (\A g \in Handlers : RequestOK(req[g]))'
    BY <2>1, <2>3, <2>4, RequestsStep
  <2> QED BY <1>6, <2>1, <2>2, <2>5 DEF Decide, TypeOK
<1>7. ASSUME NEW h \in Handlers, EndVisitRead(h) \/ EndVisitQrRead(h) PROVE TypeOK'
  BY <1>7, <1>d DEF EndVisitRead, EndVisitQrRead, ReadForCheckout, MeetingStatus
<1>8. ASSUME NEW h \in Handlers, CompleteVisit(h) PROVE TypeOK'
  <2>0. req[h].visit \in VisitIds /\ visit[req[h].visit].status # "UNUSED"
    BY <1>8, RequestTyped DEF CompleteVisit, At, RequestOK
  <2>1. /\ visit' \in [VisitIds -> VisitRow]
        /\ \A w \in VisitIds : visit[w].status # "UNUSED" => visit'[w].status # "UNUSED"
    <3>0. req[h].at \in Time /\ visit[req[h].visit] \in UsedVisit
      BY <1>8, <2>0, UsedVisitTyped, SentTime DEF CompleteVisit, At, TimedLabels
    <3>1. /\ Completed(visit[req[h].visit], req[h].at) \in UsedVisit
          /\ Completed(visit[req[h].visit], req[h].at).status = "COMPLETED"
      BY <3>0 DEF Completed, UsedVisit, MeetingStatus
    <3>2. \/ visit' = visit
          \/ visit' = [visit EXCEPT ![req[h].visit] =
                                Completed(visit[req[h].visit], req[h].at)]
      BY <1>8, <2>0 DEF CompleteVisit, TypeOK
    <3> QED BY <2>0, <3>1, <3>2 DEF TypeOK, VisitRow
  <2>3. PICK r \in Request : RequestOK(r) /\ req' = [req EXCEPT ![h] = r]
    BY <1>8, <1>b, <2>0, IdleRequest, GoOnOK
    DEF CompleteVisit, Reply, GoOn, Labels, TimedLabels
  <2>4. RequestOK(r)'
    BY <2>1, <2>3 DEF RequestOK
  <2>5. /\ (req \in [Handlers -> Request])'
        /\ (\A g \in Handlers : RequestOK(req[g]))'
    BY <2>1, <2>3, <2>4, RequestsStep
  <2> QED BY <1>8, <2>1, <2>5 DEF CompleteVisit, TypeOK
<1>9. ASSUME NEW h \in Handlers, ResendRead(h) PROVE TypeOK'
  <2>1. PICK v \in VisitIds : /\ visit[v].status = "PENDING"
                              /\ req' = [req EXCEPT ![h] = [OnVisit("checkGap", v)
                                                             EXCEPT !.staff = visit[v].staff]]
    BY <1>9 DEF ResendRead
  <2> DEFINE r == [OnVisit("checkGap", v) EXCEPT !.staff = visit[v].staff]
  <2>2. visit[v].staff \in Staff
    BY <2>1, UsedVisitTyped DEF UsedVisit
  <2>3. r \in Request /\ RequestOK(r)
    BY <2>1, <2>2 DEF OnVisit, Idle, Request, Labels, RequestOK, TimedLabels
  <2> QED BY <1>9, <1>a, <1>c, <2>1, <2>3 DEF ResendRead
<1>10. ASSUME NEW h \in Handlers, CheckGap(h) PROVE TypeOK'
  <2>0. /\ req[h].visit \in VisitIds /\ visit[req[h].visit].status # "UNUSED"
        /\ req[h].staff \in Staff
    BY <1>10, RequestTyped DEF CheckGap, At, RequestOK
  <2>3. PICK r \in Request : RequestOK(r) /\ req' = [req EXCEPT ![h] = r]
    BY <1>10, <1>b, <2>0, IdleRequest, GoOnOK
    DEF CheckGap, Reply, GoOn, Labels, TimedLabels
  <2> QED BY <1>10, <1>a, <1>c, <2>3 DEF CheckGap
<1>11. ASSUME NEW h \in Handlers, CreateReminder(h) PROVE TypeOK'
  <2>0. req[h].visit \in VisitIds /\ req[h].staff \in Staff
    BY <1>11, RequestTyped DEF CreateReminder, At, RequestOK
  <2>1. notif' \in [NotifIds -> NotifRow]
    BY <1>11, <2>0, InsertTyped DEF CreateReminder, TypeOK
  <2>2. RequestOK(Idle)'
    BY DEF RequestOK, Idle, TimedLabels
  <2>3. /\ (req \in [Handlers -> Request])'
        /\ (\A g \in Handlers : RequestOK(req[g]))'
    BY <1>11, <2>2, IdleRequest, RequestsStep DEF CreateReminder, Reply
  <2> QED BY <1>11, <2>1, <2>3 DEF CreateReminder, TypeOK
<1>12. ASSUME NEW h \in Handlers, Abort(h) PROVE TypeOK'
  BY <1>12, <1>a, <1>b, <1>c, IdleRequest DEF Abort, Reply
<1>13. CASE DeleteNotification
  <2>1. PICK n \in NotifIds : /\ Stored(n)
                              /\ notif' = [notif EXCEPT ![n].row = "deleted"]
    BY <1>13 DEF DeleteNotification
  <2>2. [notif[n] EXCEPT !.row = "deleted"] \in NotifRow
    BY <2>1, UsedNotifTyped DEF UsedNotif, NotifRow
  <2>3. notif' \in [NotifIds -> NotifRow]
    BY <2>1, <2>2 DEF TypeOK
  <2> QED BY <1>13, <2>3 DEF DeleteNotification, TypeOK, RequestOK
<1>14. ASSUME NEW ss, RemoveStaff(ss) PROVE TypeOK'
  <2>0. ASSUME NEW v \in VisitIds, visit[v].status # "UNUSED"
        PROVE  [visit[v] EXCEPT !.status = "DELETED"] \in UsedVisit
    BY <2>0, UsedVisitTyped DEF UsedVisit
  <2>1. visit' \in [VisitIds -> VisitRow]
    BY <1>14, <2>0 DEF RemoveStaff, VisitsOf, Exists, MeetingStatus, VisitRow, TypeOK
  <2>2. notif' \in [NotifIds -> NotifRow]
    <3>1. ASSUME NEW n \in NotifIds, Stored(n)
          PROVE  [notif[n] EXCEPT !.row = "deleted"] \in NotifRow
      BY <3>1, UsedNotifTyped DEF UsedNotif, NotifRow
    <3> QED BY <1>14, <3>1 DEF RemoveStaff, TypeOK
  <2>3. \A w \in VisitIds : visit[w].status # "UNUSED" => visit'[w].status # "UNUSED"
    BY <1>14, <2>0 DEF RemoveStaff, UsedVisit, MeetingStatus
  <2>4. \A g \in Handlers : RequestOK(req[g])'
    <3>1. ASSUME NEW g \in Handlers PROVE RequestOK(req[g])'
      BY <1>14, <2>3, RequestTyped DEF RemoveStaff, RequestOK
    <3> QED BY <3>1
  <2> QED BY <1>14, <2>1, <2>2, <2>4 DEF RemoveStaff, TypeOK
<1>15. CASE Tick
  BY <1>15, TimeAssumption DEF Tick, TypeOK, RequestOK, Time
<1>16. CASE UNCHANGED vars
  BY <1>16 DEF vars, TypeOK, RequestOK
<1> QED
  BY <1>1, <1>2, <1>3, <1>4, <1>s, <1>5, <1>6, <1>7, <1>8, <1>9, <1>10, <1>11, <1>12,
     <1>13, <1>14, <1>15, <1>16
  DEF Next, Begin, Step, AcceptRead, RejectRead, Accept, Reject, SendAccept, SendEnd,
      TimedLabels, DeleteStaff, DeleteOrganization

\* TypeOK, which also says that a handler never reaches a database call without
\* the ids that call needs, holds for any number of handlers, rows and ticks.
THEOREM TypeCorrect == Spec => []TypeOK
<1>1. Init => TypeOK
  BY InitInv DEF IInv
<1> QED BY <1>1, TypeStep, PTL DEF Spec
-----------------------------------------------------------------------------
(* What a step may do to the row of a visit *)

Created(v)  == /\ visit[v].status = "UNUSED" /\ visit'[v].status = "PENDING"
               /\ visit'[v].start = NoTime /\ visit'[v].end = NoTime
Started(v)  == /\ visit[v].status = "PENDING"
               /\ \E h \in Handlers : /\ At(h, "accept")
                                      /\ visit'[v] = Answered(visit[v], "ONGOING", req[h].at)
Declined(v) == /\ visit[v].status = "PENDING"
               /\ \E t : visit'[v] = Answered(visit[v], "REJECTED", t)
Ended(v)    == /\ Exists(v)
               /\ \E h \in Handlers : /\ At(h, "end") \/ At(h, "endQr")
                                      /\ visit'[v] = Completed(visit[v], req[h].at)
Removed(v)  == Exists(v) /\ visit'[v] = [visit[v] EXCEPT !.status = "DELETED"]

RowStep(v) == \/ visit'[v] = visit[v] \/ Created(v) \/ Started(v)
              \/ Declined(v) \/ Ended(v) \/ Removed(v)

\* A row is only ever created, started, declined, ended or removed.
LEMMA RowSteps ==
  ASSUME TypeOK, Next
  PROVE  \A v \in VisitIds : RowStep(v)
<1> SUFFICES ASSUME NEW v \in VisitIds PROVE RowStep(v)
  OBVIOUS
<1>1. CASE UNCHANGED visit
  BY <1>1 DEF RowStep
<1>2. ASSUME NEW h \in Handlers, CreateVisit(h) PROVE RowStep(v)
  <2> DEFINE row == [status |-> "PENDING", org |-> req[h].org,
                     staff |-> req[h].staff, visitor |-> req[h].visitor,
                     start |-> NoTime, end |-> NoTime]
  <2>1. CASE visit' = visit
    BY <1>1, <2>1
  <2>2. CASE visit' # visit
    <3>1. PICK w \in VisitIds : /\ visit[w].status = "UNUSED"
                                /\ visit' = [visit EXCEPT ![w] = row]
      BY <1>2, <2>2 DEF CreateVisit
    <3>2. /\ row.status = "PENDING" /\ row.start = NoTime /\ row.end = NoTime
      OBVIOUS
    <3>3. visit'[v] = IF v = w THEN row ELSE visit[v]
      BY <3>1 DEF TypeOK
    <3> QED BY <3>1, <3>2, <3>3 DEF RowStep, Created
  <2> QED BY <2>1, <2>2
<1>3. ASSUME NEW h \in Handlers, Accept(h) PROVE RowStep(v)
  BY <1>3 DEF Accept, Decide, StillPending, TypeOK, RowStep, Started
<1>4. ASSUME NEW h \in Handlers, Reject(h) PROVE RowStep(v)
  BY <1>4 DEF Reject, Decide, StillPending, TypeOK, RowStep, Declined
<1>5. ASSUME NEW h \in Handlers, CompleteVisit(h) PROVE RowStep(v)
  BY <1>5 DEF CompleteVisit, TypeOK, RowStep, Ended
<1>6. ASSUME NEW ss, RemoveStaff(ss) PROVE RowStep(v)
  BY <1>6 DEF RemoveStaff, VisitsOf, RowStep, Removed
<1>7. ASSUME NEW h \in Handlers, Begin(h) PROVE UNCHANGED visit
  BY <1>7 DEF Begin, CheckIn, AcceptRead, RejectRead, ReadForDecision, EndVisitRead,
              EndVisitQrRead, ReadForCheckout, ResendRead
<1>8. ASSUME NEW h \in Handlers, Step(h)
      PROVE  CreateVisit(h) \/ Accept(h) \/ Reject(h) \/ CompleteVisit(h)
             \/ UNCHANGED visit
  BY <1>8 DEF Step, CreateNotification, SendMail, SendAccept, SendEnd, SendUpdate,
              CheckGap, CreateReminder
<1>9. DeleteNotification \/ Tick => UNCHANGED visit
  BY DEF DeleteNotification, Tick
<1>10. ASSUME NEW h \in Handlers, Abort(h) PROVE UNCHANGED visit
  BY <1>10 DEF Abort
<1> QED BY <1>1, <1>2, <1>3, <1>4, <1>5, <1>6, <1>7, <1>8, <1>9, <1>10
        DEF Next, DeleteStaff, DeleteOrganization

\* Only Tick moves the clock.
LEMMA ClockStep == ASSUME TypeOK, Next PROVE now' \in Nat /\ now <= now'
<1>0. now \in Nat
  BY TimeAssumption DEF TypeOK, Time
<1>1. ASSUME NEW h \in Handlers, Begin(h) PROVE UNCHANGED now
  BY <1>1 DEF Begin, CheckIn, AcceptRead, RejectRead, ReadForDecision, EndVisitRead,
              EndVisitQrRead, ReadForCheckout, ResendRead
<1>2. ASSUME NEW h \in Handlers, Step(h) PROVE UNCHANGED now
  BY <1>2 DEF Step, CreateVisit, CreateNotification, SendMail, Accept, Reject, Decide,
              SendAccept, SendEnd, SendUpdate, CompleteVisit, CheckGap, CreateReminder
<1>3. ASSUME NEW h \in Handlers, Abort(h) PROVE UNCHANGED now
  BY <1>3 DEF Abort
<1>4. DeleteNotification \/ DeleteStaff \/ DeleteOrganization => UNCHANGED now
  BY DEF DeleteNotification, DeleteStaff, DeleteOrganization, RemoveStaff
<1>5. Tick => now' = now + 1
  BY DEF Tick
<1> QED BY <1>0, <1>1, <1>2, <1>3, <1>4, <1>5 DEF Next

\* The status and times of a row stay in agreement, and it keeps its host, its
\* start once it has one, and a rejection once it has one.
LEMMA RowFacts ==
  ASSUME TypeOK, NEW v \in VisitIds, RowStep(v), StatusAgrees(visit[v])
  PROVE  /\ StatusAgrees(visit[v])'
         /\ visit[v].status # "UNUSED" => visit'[v].staff = visit[v].staff
         /\ visit[v].start # NoTime => visit'[v].start = visit[v].start
         /\ WasRejected(v) => WasRejected(v)'
<1> USE DEF StatusAgrees, WasRejected
<1>1. CASE visit'[v] = visit[v]
  BY <1>1
<1>2. CASE Created(v)
  <2>1. visit[v] = UnusedVisit
    BY <1>2 DEF Created, TypeOK, VisitRow, UsedVisit, MeetingStatus
  <2> QED BY <1>2, <2>1 DEF Created, UnusedVisit
<1>3. CASE visit[v].status # "UNUSED" /\ ~Created(v)
  <2>1. visit[v] \in UsedVisit
    BY <1>3, UsedVisitTyped
  <2>2. CASE Started(v)
    <3>1. PICK t \in Time : t # NoTime /\ visit'[v] = Answered(visit[v], "ONGOING", t)
      BY <2>2, SentTime DEF Started, At, TimedLabels
    <3> QED BY <2>1, <2>2, <3>1 DEF Started, Answered, UsedVisit
  <2>3. CASE Declined(v)
    BY <2>1, <2>3 DEF Declined, Answered, UsedVisit
  <2>4. CASE Ended(v)
    <3>1. PICK t \in Time : t # NoTime /\ visit'[v] = Completed(visit[v], t)
      BY <2>4, SentTime DEF Ended, At, TimedLabels
    <3> QED BY <2>1, <2>4, <3>1 DEF Ended, Completed, Exists, MeetingStatus, UsedVisit
  <2>5. CASE Removed(v)
    BY <2>1, <2>5 DEF Removed, Exists, MeetingStatus, UsedVisit
  <2> QED BY <1>1, <1>3, <2>2, <2>3, <2>4, <2>5 DEF RowStep
<1> QED BY <1>1, <1>2, <1>3 DEF RowStep, Started, Declined, Ended, Removed, Exists,
                                MeetingStatus

\* A visit begins at a time the clock has shown.
LEMMA StartsPast ==
  ASSUME IInv, TypeOK', Next, NEW v \in VisitIds PROVE visit'[v].start <= now'
<1>t. TypeOK
  BY DEF IInv
<1>1. now \in Nat /\ now' \in Nat /\ now <= now'
  BY <1>t, ClockStep, TimeAssumption DEF TypeOK, Time
<1>2. RowStep(v) /\ visit[v].start <= now /\ visit[v].start \in Int
  BY <1>t, RowSteps, TimeAssumption
  DEF IInv, TypeOK, VisitRow, UsedVisit, UnusedVisit, Time, NoTime
<1>3. CASE visit'[v].start = visit[v].start \/ visit'[v].start = NoTime
  BY <1>1, <1>2, <1>3 DEF NoTime
<1>4. CASE Started(v)
  <2>1. PICK h \in Handlers :
          req[h].pc = "accept" /\ visit'[v] = Answered(visit[v], "ONGOING", req[h].at)
    BY <1>4 DEF Started, At
  <2>2. req[h].at \in Nat /\ req[h].at <= now
    BY <1>t, <2>1, SentTime, TimeAssumption DEF IInv, TimedLabels, Time
  <2>3. visit'[v].start = req[h].at
    BY <1>t, <2>1, <1>4, UsedVisitTyped DEF Started, Answered, UsedVisit
  <2> QED BY <1>1, <2>2, <2>3
<1>5. CASE Declined(v) \/ Ended(v) \/ Removed(v)
  <2>1. visit[v] \in UsedVisit
    BY <1>t, <1>5, UsedVisitTyped DEF Declined, Ended, Removed, Exists, MeetingStatus
  <2>2. visit'[v].start = visit[v].start
    BY <1>5, <2>1 DEF Declined, Ended, Removed, Answered, Completed, UsedVisit
  <2> QED BY <1>3, <2>2
<1> QED BY <1>2, <1>3, <1>4, <1>5 DEF RowStep, Created
-----------------------------------------------------------------------------
(* What a step may do to a notification *)

\* A step leaves the row of every visit with a notification as it found it, or
\* stores, marks or deletes notifications in the ways listed here.
LEMMA NotificationsStep ==
  ASSUME IInv, TypeOK', Next PROVE NotificationsAgree'
<1> SUFFICES ASSUME NEW n \in NotifIds, Stored(n)' PROVE NotificationAgrees(n)'
  BY DEF NotificationsAgree
<1>t. TypeOK
  BY DEF IInv
<1>0. Stored(n) => /\ notif[n] \in UsedNotif /\ NotificationAgrees(n)
                   /\ notif[n].visit \in VisitIds
  BY <1>t, UsedNotifTyped DEF IInv, NotificationsAgree, UsedNotif
<1>s. \A v \in VisitIds : StatusAgrees(visit[v])
  BY DEF IInv, StatusFieldsAgree
<1>1. CASE UNCHANGED visit /\ notif'[n] = notif[n]
  BY <1>0, <1>1 DEF NotificationAgrees, Stored
<1>2. ASSUME UNCHANGED visit, NEW h \in Handlers, NEW type,
             InsertNotification(type, req[h].visit, req[h].staff),
             Exists(req[h].visit), req[h].visit \in VisitIds,
             visit[req[h].visit].staff = req[h].staff
      PROVE  NotificationAgrees(n)'
  <2>1. CASE notif'[n] = notif[n]
    BY <1>1, <1>2, <2>1
  <2>2. CASE notif'[n] # notif[n]
    <3>1. /\ notif'[n].visit = req[h].visit /\ notif'[n].staff = req[h].staff
          /\ notif'[n].action = "PENDING" /\ notif'[n].isRead = FALSE
      BY <1>t, <1>2, <2>2 DEF InsertNotification, TypeOK
    <3> QED BY <1>2, <3>1 DEF NotificationAgrees, Exists
  <2> QED BY <2>1, <2>2
<1>3. ASSUME NEW h \in Handlers, CreateVisit(h) PROVE NotificationAgrees(n)'
  <2>1. Stored(n) /\ notif'[n] = notif[n]
    BY <1>3 DEF CreateVisit, Stored
  <2>2. visit[notif[n].visit].status # "UNUSED"
    BY <1>0, <2>1 DEF NotificationAgrees, MeetingStatus
  <2>3. visit'[notif[n].visit] = visit[notif[n].visit]
    BY <1>t, <1>0, <1>3, <2>1, <2>2 DEF CreateVisit, TypeOK
  <2> QED BY <1>0, <2>1, <2>3 DEF NotificationAgrees
<1>4. ASSUME NEW h \in Handlers, NEW label, NEW next,
             NEW status, NEW action,
             \/ status = "ONGOING" /\ action = "ACCEPTED" /\ label = "accept"
             \/ status = "REJECTED" /\ action = "REJECTED",
             Decide(h, label, status, action, next)
      PROVE  NotificationAgrees(n)'
  <2> DEFINE v == req[h].visit
  <2>1. CASE UNCHANGED <<visit, notif>>
    BY <1>1, <2>1
  <2>2. CASE /\ visit[v].status = "PENDING"
             /\ visit' = [visit EXCEPT ![v] = Answered(visit[v], status, req[h].at)]
             /\ MarkNotifications(v, action)
    <3>1. Stored(n) /\ notif'[n].visit = notif[n].visit /\ notif'[n].staff = notif[n].staff
      BY <1>0, <2>2 DEF MarkNotifications, Stored, NotifsOf, UsedNotif
    <3>2. CASE notif[n].visit = v
      <4>1. notif'[n].action = action /\ notif'[n].isRead = TRUE
        BY <1>0, <2>2, <3>1, <3>2 DEF MarkNotifications, NotifsOf, UsedNotif
      <4>2. visit[v] \in UsedVisit
        BY <1>0, <1>t, <2>2, <3>1, <3>2, UsedVisitTyped
      <4>3. visit'[v] = Answered(visit[v], status, req[h].at)
        BY <1>t, <1>0, <2>2, <3>1, <3>2 DEF TypeOK
      <4>4. /\ visit'[v].status = status /\ visit'[v].staff = visit[v].staff
            /\ status = "ONGOING" => visit'[v].start # NoTime
            /\ status = "REJECTED" => visit'[v].start = NoTime
        <5>1. visit[v].start = NoTime
          BY <1>0, <1>s, <2>2, <3>1, <3>2 DEF StatusAgrees
        <5>2. status = "ONGOING" => req[h].at # NoTime
          BY <1>t, <1>4, SentTime DEF Decide, At, TimedLabels
        <5> HIDE DEF v
        <5> QED BY <1>4, <4>2, <4>3, <5>1, <5>2 DEF Answered, UsedVisit
      <4> QED BY <1>4, <1>0, <3>1, <3>2, <4>1, <4>4
              DEF NotificationAgrees, MeetingStatus
    <3>3. CASE notif[n].visit # v
      <4>1. notif'[n] = notif[n] /\ visit'[notif[n].visit] = visit[notif[n].visit]
        BY <1>t, <1>0, <2>2, <3>1, <3>3 DEF MarkNotifications, NotifsOf, TypeOK
      <4> QED BY <1>0, <3>1, <4>1 DEF NotificationAgrees
    <3> QED BY <3>2, <3>3
  <2> QED BY <1>4, <2>1, <2>2 DEF Decide, StillPending
<1>5. ASSUME NEW h \in Handlers, CompleteVisit(h) PROVE NotificationAgrees(n)'
  <2> DEFINE v == req[h].visit
  <2>1. Stored(n) /\ notif'[n] = notif[n]
    BY <1>5 DEF CompleteVisit, Stored
  <2>2. CASE notif[n].visit = v /\ visit' # visit
    <3>1. Exists(v) /\ visit'[v] = Completed(visit[v], req[h].at) /\ visit[v] \in UsedVisit
      BY <1>t, <1>0, <1>5, <2>1, <2>2, UsedVisitTyped
      DEF CompleteVisit, TypeOK, Exists, MeetingStatus
    <3>2. /\ visit'[v].status = "COMPLETED" /\ visit'[v].staff = visit[v].staff
          /\ visit'[v].start = visit[v].start
      BY <3>1 DEF Completed, UsedVisit
    <3> QED BY <1>0, <2>1, <2>2, <3>2 DEF NotificationAgrees, MeetingStatus
  <2>3. CASE ~(notif[n].visit = v /\ visit' # visit)
    <3>1. visit'[notif[n].visit] = visit[notif[n].visit]
      BY <1>t, <1>0, <1>5, <2>1, <2>3 DEF CompleteVisit, TypeOK
    <3> QED BY <1>0, <2>1, <3>1 DEF NotificationAgrees
  <2> QED BY <2>2, <2>3
<1>6. ASSUME NEW ss, RemoveStaff(ss) PROVE NotificationAgrees(n)'
  <2>1. Stored(n) /\ notif[n].visit \notin VisitsOf(ss) /\ notif'[n] = notif[n]
    BY <1>0, <1>6 DEF RemoveStaff, Stored, UsedNotif
  <2>2. visit'[notif[n].visit] = visit[notif[n].visit]
    BY <1>0, <1>6, <2>1 DEF RemoveStaff
  <2> QED BY <1>0, <2>1, <2>2 DEF NotificationAgrees
<1>7. CASE DeleteNotification
  <2>1. UNCHANGED visit /\ notif'[n] = notif[n]
    BY <1>t, <1>7 DEF DeleteNotification, Stored, TypeOK
  <2> QED BY <1>1, <2>1
<1>8. ASSUME NEW h \in Handlers, Begin(h) \/ Abort(h) \/ Tick
      PROVE UNCHANGED <<visit, notif>>
  BY <1>8 DEF Begin, Abort, Tick, CheckIn, AcceptRead, RejectRead, ReadForDecision,
              EndVisitRead, EndVisitQrRead, ReadForCheckout, ResendRead
<1>9. ASSUME NEW h \in Handlers, Step(h) PROVE NotificationAgrees(n)'
  <2>1. CASE CreateNotification(h) \/ CreateReminder(h)
    <3>1. req[h].visit \in VisitIds /\ visit[req[h].visit].staff = req[h].staff
      BY <1>t, <2>1, RequestTyped
      DEF CreateNotification, CreateReminder, At, RequestOK, IInv, RequestRemembers
    <3> QED BY <1>1, <1>2, <2>1, <3>1 DEF CreateNotification, CreateReminder
  <2>2. CASE Accept(h)
    BY <1>4, <2>2 DEF Accept
  <2>3. CASE Reject(h)
    BY <1>4, <2>3 DEF Reject
  <2>4. ASSUME NEW label, NEW told, SendMail(h, label, told) \/ CheckGap(h)
        PROVE  UNCHANGED <<visit, notif>>
    BY <2>4 DEF SendMail, CheckGap
  <2>5. SendAccept(h) \/ SendEnd(h) => UNCHANGED <<visit, notif>>
    BY DEF SendAccept, SendEnd, SendUpdate
  <2> QED BY <1>1, <1>3, <1>5, <1>9, <2>1, <2>2, <2>3, <2>4, <2>5 DEF Step
<1> QED BY <1>1, <1>6, <1>7, <1>8, <1>9 DEF Next, DeleteStaff, DeleteOrganization, Tick
-----------------------------------------------------------------------------
(* What a handler remembers, and what the visitor has been told *)

\* After the step that brought it there, a handler's knowledge of the visit is
\* true, and it stays true whatever the other handlers do.
LEMMA RemembersStep ==
  ASSUME IInv, Next PROVE \A g \in Handlers : RequestRemembers(req[g])'
<1>t. TypeOK
  BY DEF IInv
<1>1. ASSUME NEW g \in Handlers, req'[g] = req[g] PROVE RequestRemembers(req[g])'
  <2>1. CASE req[g].pc \in {"idle", "createVisit"}
    BY <1>1, <2>1 DEF RequestRemembers
  <2>2. CASE req[g].pc \notin {"idle", "createVisit"}
    <3>1. PICK v \in VisitIds : v = req[g].visit /\ visit[v].status # "UNUSED"
      BY <1>t, <2>2, RequestTyped DEF RequestOK
    <3>2. RowStep(v)
      BY <1>t, RowSteps
    <3>3. RequestRemembers(req[g])
      BY DEF IInv
    <3>4. StatusAgrees(visit[v])
      BY DEF IInv, StatusFieldsAgree
    <3>5. /\ visit'[v].staff = visit[v].staff
          /\ visit[v].start # NoTime => visit'[v].start # NoTime
          /\ WasRejected(v) => WasRejected(v)'
      BY <1>t, <3>1, <3>2, <3>4, RowFacts
    <3> QED BY <1>1, <3>1, <3>3, <3>5 DEF RequestRemembers, WasRejected
  <2> QED BY <2>1, <2>2
<1>2. ASSUME NEW g \in Handlers, req'[g].pc \notin {"createNotification", "checkGap",
               "createReminder", "sendEnd", "mailAccept", "mailReject"}
      PROVE  RequestRemembers(req[g])'
  BY <1>2 DEF RequestRemembers
<1>3. ASSUME NEW h \in Handlers,
             \A g \in Handlers : g # h => req'[g] = req[g],
             RequestRemembers(req[h])'
      PROVE  \A g \in Handlers : RequestRemembers(req[g])'
  BY <1>1, <1>3
<1>4. ASSUME NEW h \in Handlers, NEW r, req' = [req EXCEPT ![h] = r]
      PROVE  req'[h] = r /\ \A g \in Handlers : g # h => req'[g] = req[g]
  BY <1>t, <1>4 DEF TypeOK
<1>f. req \in [Handlers -> Request]
  BY <1>t DEF TypeOK
<1>5. ASSUME NEW h \in Handlers, Reply(h)
      PROVE  \A g \in Handlers : RequestRemembers(req[g])'
  <2>1. req'[h].pc = "idle"
    BY <1>f, <1>5 DEF Reply, Idle
  <2>2. \A g \in Handlers : g # h => req'[g] = req[g]
    BY <1>f, <1>5 DEF Reply
  <2> QED BY <1>2, <1>3, <2>1, <2>2
<1>6. ASSUME NEW h \in Handlers, Begin(h)
      PROVE  \A g \in Handlers : RequestRemembers(req[g])'
  <2>1. CASE ResendRead(h)
    <3>1. PICK v \in VisitIds :
            req' = [req EXCEPT ![h] = [OnVisit("checkGap", v) EXCEPT !.staff = visit[v].staff]]
      BY <2>1 DEF ResendRead
    <3>2. /\ req'[h].pc = "checkGap" /\ req'[h].visit = v
          /\ req'[h].staff = visit[v].staff
      BY <1>f, <3>1 DEF OnVisit, Idle
    <3>3. RequestRemembers(req[h])'
      BY <2>1, <3>2 DEF RequestRemembers, ResendRead
    <3>4. \A g \in Handlers : g # h => req'[g] = req[g]
      BY <1>f, <3>1
    <3> QED BY <1>3, <3>3, <3>4
  <2>2. CASE CheckIn(h)
    <3>1. PICK o \in Orgs, s \in staff, p \in Visitors :
            req' = [req EXCEPT ![h] = [pc |-> "createVisit", org |-> o, staff |-> s,
                                       visitor |-> p, visit |-> Null, at |-> NoTime]]
      BY <2>2 DEF CheckIn
    <3>2. /\ req'[h].pc = "createVisit"
          /\ \A g \in Handlers : g # h => req'[g] = req[g]
      BY <1>f, <3>1
    <3> QED BY <1>2, <1>3, <3>2
  <2>3. CASE EndVisitRead(h)
    <3>1. PICK v \in VisitIds : /\ visit[v].status = "ONGOING" /\ UNCHANGED visit
                                /\ req' = [req EXCEPT ![h] = OnVisit("sendEnd", v)]
      BY <2>3 DEF EndVisitRead, ReadForCheckout
    <3>2. req'[h].pc = "sendEnd" /\ req'[h].visit = v
      BY <1>f, <3>1 DEF OnVisit, Idle
    <3>3. visit[v].start # NoTime
      BY <3>1 DEF IInv, StatusFieldsAgree, StatusAgrees
    <3>4. RequestRemembers(req[h])'
      BY <3>1, <3>2, <3>3 DEF RequestRemembers
    <3> QED BY <1>3, <1>4, <3>1, <3>4
  <2>4. CASE ~(ResendRead(h) \/ CheckIn(h) \/ EndVisitRead(h))
    <3>1. PICK v \in VisitIds, label \in {"sendAccept", "reject", "sendEndQr"} :
            req' = [req EXCEPT ![h] = OnVisit(label, v)]
      BY <1>6, <2>4 DEF Begin, AcceptRead, RejectRead, ReadForDecision,
                        EndVisitQrRead, ReadForCheckout
    <3>2. req'[h].pc = label
      BY <1>f, <3>1 DEF OnVisit, Idle
    <3> QED BY <1>2, <1>3, <1>4, <3>1, <3>2
  <2> QED BY <2>1, <2>2, <2>3, <2>4
<1>7. ASSUME NEW h \in Handlers, NEW label \in Labels, GoOn(h, label)
      PROVE  /\ req'[h].pc = label /\ req'[h].visit = req[h].visit
             /\ req'[h].staff = req[h].staff
             /\ \A g \in Handlers : g # h => req'[g] = req[g]
  <2>1. /\ req'[h] = [req[h] EXCEPT !.pc = label, !.at = NoTime]
        /\ \A g \in Handlers : g # h => req'[g] = req[g]
    BY <1>f, <1>7 DEF GoOn
  <2>2. req[h] \in Request
    BY <1>f
  <2> QED BY <2>1, <2>2 DEF Request
<1>8. ASSUME NEW h \in Handlers, CreateVisit(h)
      PROVE  \A g \in Handlers : RequestRemembers(req[g])'
  <2>1. CASE Reply(h)
    BY <1>5, <2>1
  <2>2. CASE ~Reply(h)
    <3>1. PICK v \in VisitIds :
            /\ visit' = [visit EXCEPT ![v] =
                           [status |-> "PENDING", org |-> req[h].org,
                            staff |-> req[h].staff, visitor |-> req[h].visitor,
                            start |-> NoTime, end |-> NoTime]]
            /\ req' = [req EXCEPT ![h] = [req[h] EXCEPT !.pc = "createNotification",
                                                        !.visit = v]]
      BY <1>8, <1>t, <2>2 DEF CreateVisit, TypeOK
    <3>2. /\ req'[h].pc = "createNotification" /\ req'[h].visit = v
          /\ req'[h].staff = req[h].staff
      <4>1. req[h] \in Request
        BY <1>f
      <4>2. req'[h] = [req[h] EXCEPT !.pc = "createNotification", !.visit = v]
        BY <1>f, <3>1
      <4> QED BY <4>1, <4>2 DEF Request
    <3>3. visit'[v].staff = req[h].staff
      BY <1>t, <3>1 DEF TypeOK
    <3>4. RequestRemembers(req[h])'
      BY <3>2, <3>3 DEF RequestRemembers
    <3> QED BY <1>3, <1>4, <3>1, <3>4
  <2> QED BY <2>1, <2>2
<1>9. ASSUME NEW h \in Handlers, CheckGap(h)
      PROVE  \A g \in Handlers : RequestRemembers(req[g])'
  <2>1. CASE GoOn(h, "createReminder")
    <3>1. req[h].pc = "checkGap" /\ RequestRemembers(req[h])
      BY <1>9 DEF CheckGap, At, IInv
    <3>2. RequestRemembers(req[h])'
      BY <1>7, <1>9, <2>1, <3>1 DEF RequestRemembers, Labels, CheckGap
    <3> QED BY <1>3, <1>7, <2>1, <3>2 DEF Labels
  <2> QED BY <1>5, <1>9, <2>1 DEF CheckGap
<1>10. ASSUME NEW h \in Handlers, NEW label \in {"mailRequest", "mailEnd"}, GoOn(h, label)
       PROVE  \A g \in Handlers : RequestRemembers(req[g])'
  BY <1>2, <1>3, <1>7, <1>10 DEF Labels
<1>11. ASSUME NEW h \in Handlers, Accept(h)
       PROVE  \A g \in Handlers : RequestRemembers(req[g])'
  <2>1. CASE GoOn(h, "mailAccept")
    <3>1. PICK v \in VisitIds : v = req[h].visit /\ visit[v].status # "UNUSED"
      BY <1>t, <1>11, RequestTyped DEF Accept, Decide, At, RequestOK
    <3>2. req'[h].pc = "mailAccept" /\ req'[h].visit = v
      BY <1>7, <2>1, <3>1 DEF Labels
    <3>3. visit'[v] = Answered(visit[v], "ONGOING", req[h].at)
      BY <1>t, <1>11, <2>1, <3>1, <3>2 DEF Accept, Decide, Reply, Idle, TypeOK
    <3>4. visit[v] \in UsedVisit /\ req[h].at # NoTime
      BY <1>t, <1>11, <3>1, UsedVisitTyped, SentTime DEF Accept, Decide, At, TimedLabels
    <3>5. visit'[v].start # NoTime
      BY <3>3, <3>4 DEF Answered, UsedVisit
    <3>6. RequestRemembers(req[h])'
      BY <3>2, <3>5 DEF RequestRemembers
    <3> QED BY <1>3, <1>7, <2>1, <3>6 DEF Labels
  <2> QED BY <1>5, <1>11, <2>1 DEF Accept, Decide
<1>12. ASSUME NEW h \in Handlers, Reject(h)
       PROVE  \A g \in Handlers : RequestRemembers(req[g])'
  <2>1. CASE GoOn(h, "mailReject")
    <3>1. PICK v \in VisitIds : v = req[h].visit /\ visit[v].status # "UNUSED"
      BY <1>t, <1>12, RequestTyped DEF Reject, Decide, At, RequestOK
    <3>2. req'[h].pc = "mailReject" /\ req'[h].visit = v
      BY <1>7, <2>1, <3>1 DEF Labels
    <3>3. visit[v].status = "PENDING" /\ visit'[v] = Answered(visit[v], "REJECTED", req[h].at)
      BY <1>t, <1>12, <2>1, <3>1, <3>2 DEF Reject, Decide, StillPending, Reply, Idle, TypeOK
    <3>4. visit[v] \in UsedVisit /\ visit[v].start = NoTime
      BY <1>t, <3>1, <3>3, UsedVisitTyped DEF IInv, StatusFieldsAgree, StatusAgrees
    <3>5. WasRejected(v)'
      BY <3>3, <3>4 DEF Answered, UsedVisit, WasRejected
    <3>6. RequestRemembers(req[h])'
      BY <3>2, <3>5 DEF RequestRemembers, WasRejected
    <3> QED BY <1>3, <1>7, <2>1, <3>6 DEF Labels
  <2> QED BY <1>5, <1>12, <2>1 DEF Reject, Decide
<1>13. ASSUME NEW h \in Handlers, Step(h)
       PROVE  \A g \in Handlers : RequestRemembers(req[g])'
  <2>1. CASE CreateNotification(h) \/ CreateReminder(h) \/ CompleteVisit(h)
    BY <1>5, <1>10, <2>1 DEF CreateNotification, CreateReminder, CompleteVisit
  <2>2. ASSUME NEW label, NEW told, SendMail(h, label, told)
        PROVE  \A g \in Handlers : RequestRemembers(req[g])'
    BY <1>5, <2>2 DEF SendMail
  <2>3. ASSUME NEW label, NEW sent \in TimedLabels, SendUpdate(h, label, sent)
        PROVE  \A g \in Handlers : RequestRemembers(req[g])'
    <3>1. req'[h].pc = sent /\ \A g \in Handlers : g # h => req'[g] = req[g]
      BY <1>f, <2>3 DEF SendUpdate, Request
    <3> QED BY <1>2, <1>3, <3>1 DEF TimedLabels
  <2> QED BY <1>8, <1>9, <1>11, <1>12, <1>13, <2>1, <2>2, <2>3
          DEF Step, SendAccept, SendEnd, TimedLabels
<1>14. (DeleteNotification \/ DeleteStaff \/ DeleteOrganization \/ Tick) => UNCHANGED req
  BY DEF DeleteNotification, DeleteStaff, DeleteOrganization, RemoveStaff, Tick
<1>15. ASSUME NEW h \in Handlers, Abort(h)
       PROVE  \A g \in Handlers : RequestRemembers(req[g])'
  BY <1>5, <1>15 DEF Abort
<1> QED BY <1>1, <1>6, <1>13, <1>14, <1>15 DEF Next

\* Only a decision that the row still shows is mailed: MailsAreTrue is kept.
LEMMA MailsStep == ASSUME IInv, Next PROVE MailsAreTrue'
<1>t. TypeOK
  BY DEF IInv
<1> SUFFICES ASSUME NEW v \in VisitIds
             PROVE  /\ <<"start", v>> \in mailed' => visit'[v].start # NoTime
                    /\ <<"reject", v>> \in mailed' => WasRejected(v)'
  BY DEF MailsAreTrue
<1>0. StatusAgrees(visit[v]) /\ RowStep(v)
  BY <1>t, RowSteps DEF IInv, StatusFieldsAgree
<1>1. /\ visit[v].start # NoTime => visit'[v].start # NoTime
      /\ WasRejected(v) => WasRejected(v)'
  BY <1>t, <1>0, RowFacts
<1>2. /\ <<"start", v>> \in mailed => visit[v].start # NoTime
      /\ <<"reject", v>> \in mailed => WasRejected(v)
  BY DEF IInv, MailsAreTrue
<1>3. CASE UNCHANGED mailed
  BY <1>1, <1>2, <1>3
<1>4. ASSUME NEW h \in Handlers, SendMail(h, "mailAccept", {"start"})
      PROVE  \/ UNCHANGED mailed
             \/ visit[req[h].visit].start # NoTime
                /\ mailed' = mailed \cup {<<"start", req[h].visit>>}
  BY <1>4 DEF SendMail, At, IInv, RequestRemembers
<1>5. ASSUME NEW h \in Handlers, SendMail(h, "mailReject", {"reject"})
      PROVE  \/ UNCHANGED mailed
             \/ WasRejected(req[h].visit)
                /\ mailed' = mailed \cup {<<"reject", req[h].visit>>}
  BY <1>5 DEF SendMail, At, IInv, RequestRemembers
<1>6. ASSUME NEW h \in Handlers, NEW label, SendMail(h, label, {})
      PROVE  UNCHANGED mailed
  BY <1>6 DEF SendMail
<1>7. ASSUME NEW h \in Handlers, Begin(h) \/ Abort(h) PROVE UNCHANGED mailed
  BY <1>7 DEF Begin, Abort, CheckIn, AcceptRead, RejectRead, ReadForDecision,
              EndVisitRead, EndVisitQrRead, ReadForCheckout, ResendRead
<1>8. (DeleteNotification \/ DeleteStaff \/ DeleteOrganization \/ Tick) => UNCHANGED mailed
  BY DEF DeleteNotification, DeleteStaff, DeleteOrganization, RemoveStaff, Tick
<1>9. ASSUME NEW h \in Handlers, Step(h)
      PROVE  \/ UNCHANGED mailed \/ SendMail(h, "mailAccept", {"start"})
             \/ SendMail(h, "mailReject", {"reject"})
  BY <1>6, <1>9 DEF Step, CreateVisit, CreateNotification, Accept, Reject, Decide,
     SendAccept, SendEnd, SendUpdate, CompleteVisit, CheckGap, CreateReminder
<1>10. ASSUME NEW h \in Handlers, Step(h)
       PROVE  /\ <<"start", v>> \in mailed' => visit'[v].start # NoTime
              /\ <<"reject", v>> \in mailed' => WasRejected(v)'
  BY <1>1, <1>2, <1>3, <1>4, <1>5, <1>9, <1>10
<1> QED BY <1>3, <1>7, <1>8, <1>10 DEF Next

\* A request moves by answering, by going on to a step that has no time, or by
\* sending a statement with the time it is sent at.
LEMMA TimesSent ==
  ASSUME TypeOK, Next, NEW g \in Handlers, req'[g] # req[g]
  PROVE  \/ req'[g].pc \notin TimedLabels /\ req'[g].at \in {NoTime, req[g].at}
         \/ /\ req'[g].at = now /\ UNCHANGED visit
            /\ req'[g].visit = req[g].visit
            /\ req'[g].pc = "end" => req[g].pc = "sendEnd"
<1> DEFINE Plain(r) == r.pc \notin TimedLabels /\ r.at \in {NoTime, req[g].at}
<1>f. req \in [Handlers -> Request]
  BY DEF TypeOK
<1>a. ASSUME NEW h \in Handlers, NEW r, req' = [req EXCEPT ![h] = r] PROVE h = g /\ req'[g] = r
  BY <1>f, <1>a
<1>r. ASSUME NEW h \in Handlers, Reply(h) PROVE Plain(req'[g])
  <2>1. Plain(Idle)
    BY DEF Idle, TimedLabels
  <2> QED BY <1>a, <1>r, <2>1 DEF Reply
<1>g. ASSUME NEW h \in Handlers, NEW label \in Labels \ TimedLabels, GoOn(h, label)
      PROVE  Plain(req'[g])
  <2>1. req'[g] = [req[h] EXCEPT !.pc = label, !.at = NoTime] /\ req[h] \in Request
    BY <1>f, <1>a, <1>g DEF GoOn
  <2> QED BY <2>1 DEF Request
<1>o. ASSUME NEW h \in Handlers, NEW label \in Labels \ TimedLabels, NEW v \in VisitIds,
             req' = [req EXCEPT ![h] = OnVisit(label, v)]
      PROVE  Plain(req'[g])
  BY <1>a, <1>o DEF OnVisit, Idle
<1>1. ASSUME NEW h \in Handlers, Begin(h) PROVE Plain(req'[g])
  <2>1. CASE CheckIn(h)
    <3>1. PICK o \in Orgs, s \in staff, p \in Visitors :
            req' = [req EXCEPT ![h] = [pc |-> "createVisit", org |-> o, staff |-> s,
                                       visitor |-> p, visit |-> Null, at |-> NoTime]]
      BY <2>1 DEF CheckIn
    <3> QED BY <1>a, <3>1 DEF TimedLabels
  <2>2. CASE ResendRead(h)
    <3>1. PICK v \in VisitIds :
            req' = [req EXCEPT ![h] = [OnVisit("checkGap", v) EXCEPT !.staff = visit[v].staff]]
      BY <2>2 DEF ResendRead
    <3> QED BY <1>a, <3>1 DEF OnVisit, Idle, TimedLabels
  <2>3. CASE ~(CheckIn(h) \/ ResendRead(h))
    <3>1. PICK v \in VisitIds, label \in {"sendAccept", "reject", "sendEnd", "sendEndQr"} :
            req' = [req EXCEPT ![h] = OnVisit(label, v)]
      BY <1>1, <2>3 DEF Begin, AcceptRead, RejectRead, ReadForDecision, EndVisitRead,
                        EndVisitQrRead, ReadForCheckout
    <3> QED BY <1>o, <3>1 DEF Labels, TimedLabels
  <2> QED BY <2>1, <2>2, <2>3
<1>2. ASSUME NEW h \in Handlers, CreateVisit(h), ~Reply(h) PROVE Plain(req'[g])
  <2>1. PICK v \in VisitIds :
          req' = [req EXCEPT ![h] = [req[h] EXCEPT !.pc = "createNotification", !.visit = v]]
    BY <1>2 DEF CreateVisit
  <2>2. req[h] \in Request /\ h = g
    BY <1>f, <1>a, <2>1
  <2>3. req'[g] = [req[h] EXCEPT !.pc = "createNotification", !.visit = v]
    BY <1>a, <2>1
  <2> QED BY <2>2, <2>3 DEF Request, TimedLabels
<1>3. ASSUME NEW h \in Handlers, NEW label, NEW sent \in TimedLabels, SendUpdate(h, label, sent),
             sent = "end" => label = "sendEnd"
      PROVE  /\ req'[g].at = now /\ UNCHANGED visit /\ req'[g].visit = req[g].visit
             /\ req'[g].pc = "end" => req[g].pc = "sendEnd"
  <2>1. h = g /\ req'[g] = [req[h] EXCEPT !.pc = sent, !.at = now] /\ req[h] \in Request
    BY <1>f, <1>a, <1>3 DEF SendUpdate
  <2> QED BY <1>3, <2>1 DEF SendUpdate, At, Request
<1>4. ASSUME NEW h \in Handlers, Step(h),
             ~SendAccept(h), ~SendEnd(h), ~(CreateVisit(h) /\ ~Reply(h))
      PROVE  Plain(req'[g])
  BY <1>4, <1>r, <1>g DEF Step, CreateNotification, SendMail, Accept, Reject, Decide,
     CompleteVisit, CheckGap, CreateReminder, Labels, TimedLabels
<1>5. ASSUME NEW h \in Handlers, SendAccept(h) \/ SendEnd(h)
      PROVE  /\ req'[g].at = now /\ UNCHANGED visit /\ req'[g].visit = req[g].visit
             /\ req'[g].pc = "end" => req[g].pc = "sendEnd"
  BY <1>3, <1>5 DEF SendAccept, SendEnd, TimedLabels
<1>6. ASSUME NEW h \in Handlers, Abort(h) PROVE Plain(req'[g])
  BY <1>r, <1>6 DEF Abort
<1>7. DeleteNotification \/ DeleteStaff \/ DeleteOrganization \/ Tick => UNCHANGED req
  BY DEF DeleteNotification, DeleteStaff, DeleteOrganization, RemoveStaff, Tick
<1> HIDE DEF Plain
<1>8. \/ Plain(req'[g])
      \/ /\ req'[g].at = now /\ UNCHANGED visit /\ req'[g].visit = req[g].visit
         /\ req'[g].pc = "end" => req[g].pc = "sendEnd"
  BY <1>1, <1>2, <1>4, <1>5, <1>6, <1>7 DEF Next
<1> QED BY <1>8 DEF Plain

\* The statements in flight carry past times, and those of endVisit times after
\* the beginning of their visit, which no other request moves.
LEMMA TimesStep ==
  ASSUME IInv, TypeOK', Next, NEW g \in Handlers
  PROVE  req'[g].at <= now' /\ EndsAfterStart(req[g])'
<1>t. TypeOK
  BY DEF IInv
<1>1. now \in Nat /\ now' \in Nat /\ now <= now'
  BY <1>t, ClockStep, TimeAssumption DEF TypeOK, Time
<1>2. req[g].at <= now /\ req[g].at \in Int /\ EndsAfterStart(req[g])
  BY <1>t, TimeAssumption DEF IInv, TypeOK, Request, Time, NoTime, StatusFieldsAgree
<1>3. CASE req'[g] = req[g]
  <2>1. req'[g].at <= now'
    BY <1>1, <1>2, <1>3
  <2>2. ASSUME req[g].pc = "end" PROVE visit'[req[g].visit].start = visit[req[g].visit].start
    <3>1. PICK v \in VisitIds : v = req[g].visit
      BY <1>t, <2>2, RequestTyped DEF RequestOK
    <3>2. visit[v].start # NoTime
      BY <1>2, <2>2, <3>1 DEF EndsAfterStart, NoTime
    <3>3. RowStep(v) /\ StatusAgrees(visit[v])
      BY <1>t, RowSteps DEF IInv, StatusFieldsAgree
    <3> QED BY <1>t, <3>1, <3>2, <3>3, RowFacts
  <2> QED BY <1>2, <1>3, <2>1, <2>2 DEF EndsAfterStart
<1>4. CASE req'[g].pc \notin TimedLabels /\ req'[g].at \in {NoTime, req[g].at}
  BY <1>1, <1>2, <1>4 DEF EndsAfterStart, TimedLabels, NoTime
<1>5. CASE /\ req'[g].at = now /\ UNCHANGED visit
           /\ req'[g].visit = req[g].visit
           /\ req'[g].pc = "end" => req[g].pc = "sendEnd"
  <2>1. ASSUME req[g].pc = "sendEnd" PROVE visit[req[g].visit].start \in 0..now
    <3>1. PICK v \in VisitIds : v = req[g].visit
      BY <1>t, <2>1, RequestTyped DEF RequestOK
    <3>2. visit[v].start # NoTime /\ visit[v].start <= now
      BY <2>1, <3>1 DEF IInv, RequestRemembers
    <3>3. visit[v].start \in Time \cup {NoTime}
      BY <1>t DEF TypeOK, VisitRow, UsedVisit, UnusedVisit
    <3> QED BY <1>1, <3>1, <3>2, <3>3, TimeAssumption DEF Time, NoTime
  <2> QED BY <1>1, <1>5, <2>1 DEF EndsAfterStart
<1> QED BY <1>t, <1>3, <1>4, <1>5, TimesSent

-----------------------------------------------------------------------------
(* The inductive invariant *)

\* Every step keeps the conjunction of all of these.
LEMMA InvStep == IInv /\ [Next]_vars => IInv'
<1> SUFFICES ASSUME IInv, [Next]_vars PROVE IInv'
  OBVIOUS
<1>1. CASE UNCHANGED vars
  BY <1>1 DEF IInv, vars, TypeOK, RequestOK, StatusFieldsAgree, EndsAfterStart,
     NotificationsAgree, NotificationAgrees, Stored, RequestRemembers, WasRejected, MailsAreTrue
<1>2. CASE Next
  <2>1. TypeOK /\ TypeOK'
    BY TypeStep DEF IInv
  <2>2. ASSUME NEW v \in VisitIds PROVE StatusAgrees(visit[v])'
    BY <1>2, <2>1, RowSteps, RowFacts DEF IInv, StatusFieldsAgree
  <2>3. /\ \A v \in VisitIds : visit'[v].start <= now'
        /\ \A h \in Handlers : req'[h].at <= now' /\ EndsAfterStart(req[h])'
    BY <1>2, <2>1, StartsPast, TimesStep
  <2> QED BY <1>2, <2>1, <2>2, <2>3, NotificationsStep, RemembersStep, MailsStep
          DEF IInv, StatusFieldsAgree
<1> QED BY <1>1, <1>2

LEMMA Inductive == Spec => []IInv
BY InitInv, InvStep, PTL DEF Spec

\* The status of a visit tells which of its two timestamps it has, whatever the
\* order of the updates, and endVisit never ends a visit before its beginning.
THEOREM Safety == Spec => []StatusFieldsAgree
<1>1. IInv => StatusFieldsAgree
  BY DEF IInv
<1> QED BY <1>1, Inductive, PTL

\* Stored notifications tell what was decided about their visit.
THEOREM NotificationsTellTheTruth == Spec => []NotificationsAgree
<1>1. IInv => NotificationsAgree
  BY DEF IInv
<1> QED BY <1>1, Inductive, PTL
-----------------------------------------------------------------------------
(* A waiting visit is announced *)

Announced(v) == \/ \E n \in NotifsOf(v) : notif[n].action = "PENDING"
                \/ \E h \in Handlers : At(h, "createNotification") /\ req[h].visit = v

\* A visit stays announced while the notifications that wait for an answer stay,
\* and the request that is about to store one does not move.
LEMMA AnnouncedStays ==
  ASSUME NEW v \in VisitIds, Announced(v),
         \A n \in NotifsOf(v) : notif[n].action = "PENDING" => notif'[n] = notif[n],
         \A h \in Handlers : At(h, "createNotification") /\ req[h].visit = v
                               => req'[h] = req[h]
  PROVE  Announced(v)'
BY DEF Announced, NotifsOf, Stored, At

\* As long as no call fails nothing takes the announcement of a waiting visit
\* away: an answer settles the notifications of its own visit only, only settled
\* ones are deleted, and a request that stored a visit stores its notification.
LEMMA AnnouncedStep ==
  ASSUME ~Faulty, TypeOK, WaitingVisitIsAnnounced, Next
  PROVE  WaitingVisitIsAnnounced'
<1> SUFFICES ASSUME NEW v \in VisitIds, visit'[v].status = "PENDING" PROVE Announced(v)'
  BY DEF WaitingVisitIsAnnounced, Announced
<1>a. visit[v].status = "PENDING" => Announced(v)
  BY DEF WaitingVisitIsAnnounced, Announced
<1>s. "status" \in DOMAIN visit[v]
  BY DEF TypeOK, VisitRow, UnusedVisit, UsedVisit
<1>m. ASSUME NEW h \in Handlers, ~At(h, "createNotification") \/ req[h].visit # v,
             NEW r, req' = [req EXCEPT ![h] = r], UNCHANGED notif,
             visit[v].status = "PENDING"
      PROVE  Announced(v)'
  BY <1>a, <1>m, AnnouncedStays DEF At, TypeOK
<1>1. ASSUME NEW h \in Handlers, Begin(h) PROVE Announced(v)'
  <2>1. /\ At(h, "idle") /\ UNCHANGED <<visit, notif>>
        /\ \E r : req' = [req EXCEPT ![h] = r]
    BY <1>1 DEF Begin, CheckIn, AcceptRead, RejectRead, ReadForDecision, EndVisitRead,
                EndVisitQrRead, ReadForCheckout, ResendRead
  <2> QED BY <2>1, <1>m DEF At
<1>2. ASSUME NEW h \in Handlers, CreateVisit(h) PROVE Announced(v)'
  <2>1. ~At(h, "createNotification") /\ UNCHANGED notif
    BY <1>2 DEF CreateVisit, At
  <2>2. CASE Reply(h) /\ UNCHANGED visit
    BY <1>m, <2>1, <2>2 DEF Reply
  <2>3. CASE ~(Reply(h) /\ UNCHANGED visit)
    <3>1. PICK w \in VisitIds :
            /\ \E row : visit' = [visit EXCEPT ![w] = row]
            /\ req' = [req EXCEPT ![h] = [req[h] EXCEPT !.pc = "createNotification",
                                                        !.visit = w]]
      BY <1>2, <2>3 DEF CreateVisit
    <3>2. CASE w = v
      <4>1. req'[h].pc = "createNotification" /\ req'[h].visit = v
        BY <3>1, <3>2, RequestTyped DEF TypeOK, Request
      <4> QED BY <4>1 DEF Announced, At
    <3>3. CASE w # v
      <4>1. visit[v].status = "PENDING"
        BY <3>1, <3>3 DEF TypeOK
      <4> QED BY <1>m, <2>1, <3>1, <4>1
    <3> QED BY <3>2, <3>3
  <2> QED BY <2>2, <2>3
<1>3. ASSUME NEW h \in Handlers, NEW type, InsertNotification(type, req[h].visit, req[h].staff),
             NEW r, req' = [req EXCEPT ![h] = r], UNCHANGED visit
      PROVE  Announced(v)'
  <2>1. PICK n \in NotifIds :
          /\ notif[n].row = "unused"
          /\ notif' = [notif EXCEPT ![n] =
                   [row |-> "stored", visit |-> req[h].visit, staff |-> req[h].staff,
                    type |-> type, action |-> "PENDING", isRead |-> FALSE, at |-> now]]
    BY <1>3 DEF InsertNotification
  <2>2. CASE req[h].visit = v
    <3>1. /\ notif'[n].row = "stored" /\ notif'[n].visit = v
          /\ notif'[n].action = "PENDING"
      BY <2>1, <2>2 DEF TypeOK
    <3> QED BY <3>1 DEF Announced, NotifsOf, Stored
  <2>3. CASE req[h].visit # v
    <3>1. \A k \in NotifsOf(v) : notif'[k] = notif[k]
      BY <2>1 DEF NotifsOf, Stored, TypeOK
    <3>2. \A g \in Handlers : At(g, "createNotification") /\ req[g].visit = v
                                => req'[g] = req[g]
      BY <1>3, <2>3 DEF TypeOK
    <3> QED BY <1>3, <1>a, <3>1, <3>2, AnnouncedStays
  <2> QED BY <2>2, <2>3
<1>4. ASSUME NEW h \in Handlers, CreateNotification(h) PROVE Announced(v)'
  <2>1. CASE Exists(req[h].visit)
    BY <1>4, <2>1, <1>3 DEF CreateNotification, GoOn
  <2>2. CASE ~Exists(req[h].visit)
    <3>1. /\ req' = [req EXCEPT ![h] = Idle] /\ UNCHANGED <<visit, notif>>
          /\ req[h].visit # v
      BY <1>4, <2>2 DEF CreateNotification, Reply, Exists, MeetingStatus
    <3> QED BY <1>m, <3>1
  <2> QED BY <2>1, <2>2
<1>5. ASSUME NEW h \in Handlers, Accept(h) \/ Reject(h) PROVE Announced(v)'
  <2> DEFINE w == req[h].visit
  <2>0. ~At(h, "createNotification") /\ \E r : req' = [req EXCEPT ![h] = r]
    BY <1>5 DEF Accept, Reject, Decide, At, GoOn, Reply
  <2>1. CASE UNCHANGED <<visit, notif>>
    BY <1>m, <2>0, <2>1
  <2>2. CASE ~UNCHANGED <<visit, notif>>
    <3>1. PICK status \in {"ONGOING", "REJECTED"}, action \in {"ACCEPTED", "REJECTED"} :
            /\ visit' = [visit EXCEPT ![w] = Answered(@, status, req[h].at)]
            /\ MarkNotifications(w, action)
      BY <1>5, <2>2 DEF Accept, Reject, Decide
    <3>2. w # v
      <4>1. w = v => visit'[v] = Answered(visit[v], status, req[h].at)
        BY <3>1 DEF TypeOK
      <4>2. Answered(visit[v], status, req[h].at).status = status
        BY DEF Answered, TypeOK, VisitRow
      <4> QED BY <4>1, <4>2
    <3>3. visit[v].status = "PENDING"
      BY <3>1, <3>2 DEF TypeOK
    <3>4. \A n \in NotifsOf(v) : notif'[n] = notif[n]
      BY <3>1, <3>2 DEF MarkNotifications, NotifsOf
    <3>5. \A g \in Handlers : At(g, "createNotification") /\ req[g].visit = v
                                => req'[g] = req[g]
      BY <2>0 DEF TypeOK
    <3> QED BY <1>a, <3>3, <3>4, <3>5, AnnouncedStays
  <2> QED BY <2>1, <2>2
<1>6. ASSUME NEW h \in Handlers, CompleteVisit(h) PROVE Announced(v)'
  <2>1. /\ ~At(h, "createNotification") /\ \E r : req' = [req EXCEPT ![h] = r]
        /\ UNCHANGED notif
    BY <1>6 DEF CompleteVisit, At, GoOn, Reply
  <2>2. visit[v].status = "PENDING"
    BY <1>6, <1>s DEF CompleteVisit, TypeOK, Completed
  <2> QED BY <1>m, <2>1, <2>2
<1>7. ASSUME NEW h \in Handlers, CreateReminder(h) PROVE Announced(v)'
  <2>1. req' = [req EXCEPT ![h] = Idle] /\ UNCHANGED visit /\ ~At(h, "createNotification")
    BY <1>7 DEF CreateReminder, Reply, At
  <2>2. CASE Exists(req[h].visit)
    BY <1>7, <2>1, <2>2, <1>3 DEF CreateReminder
  <2>3. CASE ~Exists(req[h].visit)
    BY <1>7, <2>1, <2>3, <1>m DEF CreateReminder
  <2> QED BY <2>2, <2>3
<1>8. ASSUME NEW h \in Handlers,
             \/ CheckGap(h) \/ SendAccept(h) \/ SendEnd(h)
             \/ \E label \in {"mailRequest", "mailAccept", "mailReject", "mailEnd"} :
                  \E told : SendMail(h, label, told)
      PROVE  Announced(v)'
  <2>1. /\ ~At(h, "createNotification") /\ \E r : req' = [req EXCEPT ![h] = r]
        /\ UNCHANGED <<visit, notif>>
    BY <1>8 DEF CheckGap, SendMail, SendAccept, SendEnd, SendUpdate, At, GoOn, Reply
  <2> QED BY <1>m, <2>1
<1>9. ASSUME NEW h \in Handlers, Step(h) PROVE Announced(v)'
  BY <1>9, <1>2, <1>4, <1>5, <1>6, <1>7, <1>8 DEF Step
<1>10. ASSUME DeleteNotification PROVE Announced(v)'
  <2>1. PICK n \in NotifIds : Settled(n) /\ notif' = [notif EXCEPT ![n].row = "deleted"]
    BY <1>10 DEF DeleteNotification
  <2>2. \A k \in NotifsOf(v) : notif[k].action = "PENDING" => notif'[k] = notif[k]
    BY <2>1 DEF Settled, NotifsOf, TypeOK
  <2> QED BY <1>10, <1>a, <2>2, AnnouncedStays DEF DeleteNotification
<1>11. ASSUME NEW ss, RemoveStaff(ss) PROVE Announced(v)'
  <2>1. v \notin VisitsOf(ss) /\ visit[v].status = "PENDING"
    <3>1. visit'[v].status \in {visit[v].status, "DELETED"}
      BY <1>11, <1>s DEF RemoveStaff
    <3>2. v \in VisitsOf(ss) => visit'[v].status = "DELETED"
      BY <1>11, <1>s DEF RemoveStaff
    <3> QED BY <3>1, <3>2
  <2>2. \A k \in NotifsOf(v) : notif'[k] = notif[k]
    BY <1>11, <2>1 DEF RemoveStaff, NotifsOf
  <2> QED BY <1>11, <1>a, <2>1, <2>2, AnnouncedStays DEF RemoveStaff
<1>12. ASSUME Tick PROVE Announced(v)'
  BY <1>12, <1>a, AnnouncedStays DEF Tick
<1> QED BY <1>1, <1>9, <1>10, <1>11, <1>12 DEF Next, Abort, DeleteStaff, DeleteOrganization

\* Unless calls fail or the server stops, a visit that waits is announced to its
\* host, or the request that stored it is about to, however answers, deletions
\* and reminders race.
THEOREM WaitingVisitsAreAnnounced == ~Faulty /\ Spec => []WaitingVisitIsAnnounced
<1> SUFFICES ASSUME ~Faulty PROVE Spec => []WaitingVisitIsAnnounced
  OBVIOUS
<1>1. Init => WaitingVisitIsAnnounced
  BY DEF Init, WaitingVisitIsAnnounced, UnusedVisit
<1>2. TypeOK /\ WaitingVisitIsAnnounced /\ [Next]_vars => WaitingVisitIsAnnounced'
  <2>1. ASSUME TypeOK, WaitingVisitIsAnnounced, UNCHANGED vars
        PROVE  WaitingVisitIsAnnounced'
    BY <2>1 DEF vars, WaitingVisitIsAnnounced, NotifsOf, Stored, At
  <2> QED BY <2>1, AnnouncedStep
<1> QED BY <1>1, <1>2, TypeCorrect, PTL DEF Spec
-----------------------------------------------------------------------------
(* Counting: a row is stored by a handler that found the way free *)

\* Fewer rows and fewer handlers on their way stay within the bound.
LEMMA CountedLess ==
  ASSUME NEW rows, NEW hs \in SUBSET Handlers, Counted(rows, hs),
         NEW rows2 \in SUBSET rows, NEW hs2 \in SUBSET hs
  PROVE  Counted(rows2, hs2)
<1>1. IsFiniteSet(rows2) /\ Cardinality(rows2) <= Cardinality(rows)
  BY FS_Subset DEF Counted
<1>2. IsFiniteSet(hs)
  BY HandlerAssumption, FS_Subset
<1>3. IsFiniteSet(hs2) /\ Cardinality(hs2) <= Cardinality(hs)
  BY <1>2, FS_Subset
<1>4. /\ Cardinality(rows) \in Nat /\ Cardinality(rows2) \in Nat /\ Cardinality(hs) \in Nat
      /\ Cardinality(hs2) \in Nat /\ Cardinality(Handlers) \in Nat
  BY <1>1, <1>2, <1>3, HandlerAssumption, FS_CardinalityType DEF Counted
<1> QED BY <1>1, <1>3, <1>4 DEF Counted

\* A handler on its way that stores its row is exchanged for the row.
LEMMA CountedMore ==
  ASSUME NEW rows, NEW hs \in SUBSET Handlers, rows # {} => Counted(rows, hs),
         NEW x, NEW h \in hs, NEW rows2 \in SUBSET (rows \cup {x}),
         NEW hs2 \in SUBSET (hs \ {h})
  PROVE  Counted(rows2, hs2)
<1>1. IsFiniteSet(rows) /\ Cardinality(rows) + Cardinality(hs) <= Cardinality(Handlers)
  <2>1. Cardinality(hs) <= Cardinality(Handlers)
    BY HandlerAssumption, FS_Subset
  <2>2. IsFiniteSet({}) /\ Cardinality({}) = 0
    BY FS_EmptySet
  <2>3. IsFiniteSet(hs) /\ Cardinality(hs) \in Nat
    BY HandlerAssumption, FS_Subset, FS_CardinalityType
  <2>4. CASE rows = {}
    BY <2>1, <2>2, <2>3, <2>4
  <2>5. CASE rows # {}
    BY <2>5 DEF Counted
  <2> QED BY <2>4, <2>5
<1>2. IsFiniteSet(hs) /\ IsFiniteSet(hs \ {h}) /\ Cardinality(hs \ {h}) = Cardinality(hs) - 1
  BY HandlerAssumption, FS_Subset, FS_RemoveElement
<1>3. IsFiniteSet(rows \cup {x}) /\ Cardinality(rows \cup {x}) <= Cardinality(rows) + 1
  <2>1. Cardinality(rows) \in Nat
    BY <1>1, FS_CardinalityType
  <2> QED BY <1>1, <2>1, FS_AddElement
<1>4. /\ Cardinality(rows) \in Nat /\ Cardinality(rows \cup {x}) \in Nat
      /\ Cardinality(hs) \in Nat /\ Cardinality(hs \ {h}) \in Nat
      /\ Cardinality(Handlers) \in Nat
  BY <1>1, <1>2, <1>3, HandlerAssumption, FS_CardinalityType
<1>5. Counted(rows \cup {x}, hs \ {h})
  BY <1>1, <1>2, <1>3, <1>4 DEF Counted
<1>6. hs \ {h} \in SUBSET Handlers
  OBVIOUS
<1> QED BY <1>5, <1>6, CountedLess

\* One handler at a time moves, and where it stands before an insert it has
\* just made the check that comes before it, with nothing stored meanwhile.
LEMMA RequestMoves ==
  ASSUME TypeOK, Next, ~UNCHANGED req
  PROVE  \E h \in Handlers, r \in Request :
           /\ req' = [req EXCEPT ![h] = r]
           /\ r.pc = "createVisit" => ~HasActiveVisit(r.visitor, r.org) /\ UNCHANGED visit
           /\ r.pc = "createNotification" =>
                visit[r.visit].status = "UNUSED" /\ UNCHANGED notif
           /\ r.pc = "createReminder" => GapElapsed(r.visit) /\ UNCHANGED <<notif, now>>
<1> DEFINE Moves(h, r) == 
           /\ req' = [req EXCEPT ![h] = r]
           /\ r.pc = "createVisit" => ~HasActiveVisit(r.visitor, r.org) /\ UNCHANGED visit
           /\ r.pc = "createNotification" =>
                visit[r.visit].status = "UNUSED" /\ UNCHANGED notif
           /\ r.pc = "createReminder" => GapElapsed(r.visit) /\ UNCHANGED <<notif, now>>
           Moved == \E h \in Handlers, r \in Request : Moves(h, r)
<1> SUFFICES Moved
  OBVIOUS
<1>i. ASSUME NEW h \in Handlers, Reply(h) PROVE Moved
  <2>1. Idle \in Request /\ Idle.pc = "idle"
    BY IdleRequest DEF Idle
  <2>2. Moves(h, Idle)
    BY <1>i, <2>1 DEF Reply
  <2> QED BY <2>1, <2>2
<1>g. ASSUME NEW h \in Handlers, NEW label \in Labels, GoOn(h, label),
             label \notin {"createVisit", "createNotification"},
             label = "createReminder" => GapElapsed(req[h].visit) /\ UNCHANGED <<notif, now>>
      PROVE  Moved
  <2> DEFINE r == [req[h] EXCEPT !.pc = label, !.at = NoTime]
  <2>1. r \in Request /\ r.pc = label /\ r.visit = req[h].visit
    BY RequestTyped, NextLabelRequest
  <2>2. req' = [req EXCEPT ![h] = r]
    BY <1>g DEF GoOn, TypeOK
  <2> HIDE DEF r
  <2>3. Moves(h, r)
    BY <1>g, <2>1, <2>2
  <2> QED BY <2>1, <2>3
<1>o. ASSUME NEW h \in Handlers, NEW label \in {"sendAccept", "reject", "sendEnd", "sendEndQr"},
             NEW v \in VisitIds, req' = [req EXCEPT ![h] = OnVisit(label, v)]
      PROVE  Moved
  <2>1. OnVisit(label, v) \in Request /\ OnVisit(label, v).pc = label
    BY OnVisitRequest DEF Labels
  <2>2. Moves(h, OnVisit(label, v))
    BY <1>o, <2>1
  <2> QED BY <2>1, <2>2
<1>1. ASSUME NEW h \in Handlers, CheckIn(h) PROVE Moved
  <2>1. PICK o \in Orgs, s \in staff, p \in Visitors :
          /\ ~HasActiveVisit(p, o)
          /\ req' = [req EXCEPT ![h] = [pc |-> "createVisit", org |-> o, staff |-> s,
                                        visitor |-> p, visit |-> Null, at |-> NoTime]]
    BY <1>1 DEF CheckIn
  <2> DEFINE r == [pc |-> "createVisit", org |-> o, staff |-> s, visitor |-> p,
                   visit |-> Null, at |-> NoTime]
  <2>2. r \in Request /\ r.pc = "createVisit" /\ r.visitor = p /\ r.org = o
    BY DEF TypeOK, Request, Labels
  <2>3. req' = [req EXCEPT ![h] = r]
    BY <2>1
  <2> HIDE DEF r
  <2>4. Moves(h, r)
    BY <1>1, <2>1, <2>2, <2>3 DEF CheckIn
  <2> QED BY <2>2, <2>4
<1>2. ASSUME NEW h \in Handlers, CreateVisit(h) PROVE Moved
  <2>1. CASE Reply(h)
    BY <1>i, <2>1
  <2>2. CASE ~Reply(h)
    <3>1. PICK v \in VisitIds :
            /\ visit[v].status = "UNUSED"
            /\ req' = [req EXCEPT ![h] = [req[h] EXCEPT !.pc = "createNotification",
                                                        !.visit = v]]
      BY <1>2, <2>2 DEF CreateVisit, TypeOK
    <3> DEFINE r == [req[h] EXCEPT !.pc = "createNotification", !.visit = v]
    <3>2. r \in Request /\ r.pc = "createNotification" /\ r.visit = v
      BY RequestTyped DEF Request, Labels
    <3>3. req' = [req EXCEPT ![h] = r]
      BY <3>1
    <3> HIDE DEF r
    <3>4. Moves(h, r)
      BY <1>2, <3>1, <3>2, <3>3 DEF CreateVisit
    <3> QED BY <3>2, <3>4
  <2> QED BY <2>1, <2>2
<1>3. ASSUME NEW h \in Handlers, ResendRead(h) PROVE Moved
  <2>1. PICK v \in VisitIds : /\ visit[v].status = "PENDING"
                              /\ req' = [req EXCEPT ![h] = [OnVisit("checkGap", v)
                                                             EXCEPT !.staff = visit[v].staff]]
    BY <1>3 DEF ResendRead
  <2> DEFINE r == [OnVisit("checkGap", v) EXCEPT !.staff = visit[v].staff]
  <2>2. visit[v].staff \in Staff
    BY <2>1, UsedVisitTyped DEF UsedVisit
  <2>3. r \in Request /\ r.pc = "checkGap"
    BY <2>2 DEF OnVisit, Idle, Request, Labels
  <2>4. req' = [req EXCEPT ![h] = r]
    BY <2>1
  <2> HIDE DEF r
  <2>5. Moves(h, r)
    BY <2>3, <2>4
  <2> QED BY <2>3, <2>5
<1>4. ASSUME NEW h \in Handlers, Begin(h) PROVE Moved
  BY <1>o, <1>1, <1>3, <1>4 DEF Begin, AcceptRead, RejectRead, ReadForDecision,
     EndVisitRead, EndVisitQrRead, ReadForCheckout
<1>5. ASSUME NEW h \in Handlers, CreateNotification(h) PROVE Moved
  BY <1>i, <1>g, <1>5 DEF CreateNotification, Labels
<1>6. ASSUME NEW h \in Handlers, Accept(h) \/ Reject(h) PROVE Moved
  BY <1>i, <1>g, <1>6 DEF Accept, Reject, Decide, Labels
<1>7. ASSUME NEW h \in Handlers, CompleteVisit(h) PROVE Moved
  BY <1>i, <1>g, <1>7 DEF CompleteVisit, Labels
<1>8. ASSUME NEW h \in Handlers, CheckGap(h) PROVE Moved
  BY <1>i, <1>g, <1>8 DEF CheckGap, Labels
<1>u. ASSUME NEW h \in Handlers, NEW label, NEW sent \in TimedLabels, SendUpdate(h, label, sent)
      PROVE  Moved
  <2> DEFINE r == [req[h] EXCEPT !.pc = sent, !.at = now]
  <2>1. req[h] \in Request /\ now \in Time
    BY DEF TypeOK
  <2>2. r \in Request /\ r.pc = sent
    BY <2>1 DEF Request, Labels, TimedLabels
  <2>3. req' = [req EXCEPT ![h] = r]
    BY <1>u DEF SendUpdate
  <2> HIDE DEF r
  <2>4. Moves(h, r)
    BY <2>2, <2>3 DEF TimedLabels
  <2> QED BY <2>2, <2>4
<1>9. ASSUME NEW h \in Handlers, Step(h) PROVE Moved
  BY <1>i, <1>2, <1>5, <1>6, <1>7, <1>8, <1>u, <1>9
  DEF Step, SendMail, CreateReminder, SendAccept, SendEnd, TimedLabels
<1>10. ASSUME NEW h \in Handlers, Abort(h) PROVE Moved
  BY <1>i, <1>10 DEF Abort
<1>11. DeleteNotification \/ DeleteStaff \/ DeleteOrganization \/ Tick => UNCHANGED req
  BY DEF DeleteNotification, DeleteStaff, DeleteOrganization, RemoveStaff, Tick
<1> QED BY <1>4, <1>9, <1>10, <1>11 DEF Next

\* Only CreateVisit stores a visit.
LEMMA OnlyCreateVisitInserts ==
  ASSUME TypeOK, Next, \A h \in Handlers : ~CreateVisit(h), NEW v \in VisitIds,
         visit[v].status = "UNUSED"
  PROVE  visit'[v] = visit[v]
<1>1. ASSUME NEW h \in Handlers, Begin(h) PROVE visit' = visit
  BY <1>1 DEF Begin, CheckIn, AcceptRead, RejectRead, ReadForDecision, EndVisitRead,
              EndVisitQrRead, ReadForCheckout, ResendRead
<1>2. ASSUME NEW h \in Handlers, Accept(h) \/ Reject(h) PROVE visit'[v] = visit[v]
  BY <1>2 DEF Accept, Reject, Decide, StillPending, TypeOK
<1>3. ASSUME NEW h \in Handlers, CompleteVisit(h) PROVE visit'[v] = visit[v]
  BY <1>3 DEF CompleteVisit, Exists, MeetingStatus, TypeOK
<1>4. ASSUME NEW h \in Handlers, Step(h) PROVE visit'[v] = visit[v]
  BY <1>2, <1>3, <1>4 DEF Step, CreateNotification, SendMail, CheckGap, CreateReminder,
     SendAccept, SendEnd, SendUpdate
<1>5. ASSUME NEW ss, RemoveStaff(ss) PROVE visit'[v] = visit[v]
  BY <1>5 DEF RemoveStaff, VisitsOf, Exists, MeetingStatus
<1>6. DeleteNotification \/ Tick => visit' = visit
  BY DEF DeleteNotification, Tick
<1>7. ASSUME NEW h \in Handlers, Abort(h) PROVE visit' = visit
  BY <1>7 DEF Abort
<1> QED BY <1>1, <1>4, <1>5, <1>6, <1>7 DEF Next, DeleteStaff, DeleteOrganization

\* Every other step leaves a visitor no more active visits than there were.
LEMMA NoMoreActive ==
  ASSUME TypeOK, Next, \A h \in Handlers : ~CreateVisit(h), NEW p, NEW o
  PROVE  ActiveVisits(p, o)' \subseteq ActiveVisits(p, o)
<1> SUFFICES ASSUME NEW v \in VisitIds, v \in ActiveVisits(p, o)'
             PROVE  v \in ActiveVisits(p, o)
  BY DEF ActiveVisits
<1>1. visit[v].status # "UNUSED"
  BY OnlyCreateVisitInserts DEF ActiveVisits, ActiveStatus
<1>2. visit[v] \in UsedVisit /\ RowStep(v)
  BY <1>1, UsedVisitTyped, RowSteps
<1>3. CASE visit'[v] = visit[v]
  BY <1>3 DEF ActiveVisits
<1>4. CASE Started(v) \/ Declined(v)
  BY <1>2, <1>4 DEF Started, Declined, Answered, ActiveVisits, ActiveStatus, UsedVisit
<1>5. CASE Ended(v) \/ Removed(v)
  BY <1>2, <1>5 DEF Ended, Removed, Completed, ActiveVisits, ActiveStatus, UsedVisit
<1> QED BY <1>1, <1>2, <1>3, <1>4, <1>5 DEF RowStep, Created

\* A check-in lets a handler on its way only while no visit is active, and a
\* handler that stores a visit is on its way no more.
LEMMA VisitsCountedStep == ASSUME TypeOK, VisitsCounted, Next PROVE VisitsCounted'
<1> SUFFICES ASSUME NEW p \in Visitors, NEW o \in Orgs, (ActiveVisits(p, o) # {})'
             PROVE  Counted(ActiveVisits(p, o), Arriving(p, o))'
  BY DEF VisitsCounted
<1> DEFINE act == ActiveVisits(p, o)
           arr == Arriving(p, o)
<1>0. /\ arr \in SUBSET Handlers
      /\ act # {} => Counted(act, arr)
  BY DEF VisitsCounted, Arriving
<1>c. ASSUME NEW rows, NEW hs PROVE Counted(rows, hs)' <=> Counted(rows', hs')
  BY DEF Counted
<1>1. ASSUME NEW h \in Handlers, CreateVisit(h)
      PROVE  Counted(act', arr')
  <2>1. CASE Reply(h) /\ UNCHANGED visit
    <3>1. act' = act
      BY <2>1 DEF ActiveVisits
    <3>2. arr' \subseteq arr
      BY <2>1 DEF Arriving, At, Reply, Idle, TypeOK
    <3> QED BY <1>0, <3>1, <3>2, CountedLess
  <2>2. CASE ~(Reply(h) /\ UNCHANGED visit)
    <3> DEFINE row == [status |-> "PENDING", org |-> req[h].org,
                       staff |-> req[h].staff, visitor |-> req[h].visitor,
                       start |-> NoTime, end |-> NoTime]
    <3>1. PICK v \in VisitIds :
            /\ visit[v].status = "UNUSED"
            /\ visit' = [visit EXCEPT ![v] = row]
            /\ req' = [req EXCEPT ![h] = [req[h] EXCEPT !.pc = "createNotification",
                                                        !.visit = v]]
      BY <1>1, <2>2 DEF CreateVisit, TypeOK
    <3>2. req'[h].pc = "createNotification" /\ \A g \in Handlers : g # h => req'[g] = req[g]
      BY <3>1, RequestTyped DEF TypeOK, Request
    <3>3. arr' \subseteq arr \ {h}
      BY <3>2 DEF Arriving, At
    <3>4. \A w \in VisitIds : visit'[w] = IF w = v THEN row ELSE visit[w]
      BY <3>1 DEF TypeOK
    <3>5. act' \subseteq act \cup {v}
      BY <3>4 DEF ActiveVisits
    <3>6. CASE h \in arr
      <4> HIDE DEF act, arr
      <4>1. act' \in SUBSET (act \cup {v}) /\ arr' \in SUBSET (arr \ {h})
        BY <3>3, <3>5
      <4> QED BY <1>0, <3>6, <4>1, CountedMore
    <3>7. CASE h \notin arr
      <4>0. req[h].pc = "createVisit"
        BY <1>1 DEF CreateVisit, At
      <4>3. req[h].visitor # p \/ req[h].org # o
        BY <3>7, <4>0 DEF Arriving, At
      <4>4. visit'[v].visitor = req[h].visitor /\ visit'[v].org = req[h].org
        BY <3>4
      <4>1. v \notin act'
        BY <4>3, <4>4 DEF ActiveVisits
      <4>2. act' \subseteq act
        BY <3>5, <4>1
      <4> QED BY <1>0, <3>3, <4>2, CountedLess
    <3> QED BY <3>6, <3>7
  <2> QED BY <2>1, <2>2
<1>2. CASE \A h \in Handlers : ~CreateVisit(h)
  <2>1. act' \subseteq act /\ act # {}
    BY <1>2, NoMoreActive
  <2>2. arr' \subseteq arr
    <3>1. CASE UNCHANGED req
      BY <3>1 DEF Arriving, At
    <3>2. CASE ~UNCHANGED req
      <4>1. PICK h \in Handlers, r \in Request :
              /\ req' = [req EXCEPT ![h] = r]
              /\ r.pc = "createVisit" => ~HasActiveVisit(r.visitor, r.org)
        BY <3>2, RequestMoves
      <4>2. \A g \in Handlers : req'[g] = IF g = h THEN r ELSE req[g]
        BY <4>1 DEF TypeOK
      <4>3. ~(r.pc = "createVisit" /\ r.visitor = p /\ r.org = o)
        BY <2>1, <4>1 DEF HasActiveVisit, ActiveVisits
      <4> QED BY <4>2, <4>3 DEF Arriving, At
    <3> QED BY <3>1, <3>2
  <2> QED BY <1>0, <2>1, <2>2, CountedLess
<1> QED BY <1>1, <1>2, <1>c

\* Only a handler on its way to an insert stores a notification, dated now.
LEMMA RecentStep ==
  ASSUME TypeOK, Next, NEW v \in VisitIds, NEW t \in Time
  PROVE  \/ Recent(v, t)' \subseteq Recent(v, t)
         \/ \E h \in Handlers, n \in NotifIds :
              /\ req[h].pc \in {"createNotification", "createReminder"}
              /\ req'[h].pc \in {"idle", "mailRequest"}
              /\ Recent(v, t)' \subseteq Recent(v, t) \cup {n}
              /\ req[h].visit = v /\ now < t + ResendGap /\ now' = now
<1> DEFINE Fewer == Recent(v, t)' \subseteq Recent(v, t)
           Stores == \E h \in Handlers, n \in NotifIds :
              /\ req[h].pc \in {"createNotification", "createReminder"}
              /\ req'[h].pc \in {"idle", "mailRequest"}
              /\ Recent(v, t)' \subseteq Recent(v, t) \cup {n}
              /\ req[h].visit = v /\ now < t + ResendGap /\ now' = now
<1> SUFFICES Fewer \/ Stores
  OBVIOUS
<1>u. ASSUME UNCHANGED notif PROVE Fewer
  BY <1>u DEF Recent, NotifsOf, Stored
<1>1. ASSUME NEW h \in Handlers, CreateNotification(h) \/ CreateReminder(h)
      PROVE  Fewer \/ Stores
  <2>1. CASE UNCHANGED notif
    BY <1>u, <2>1
  <2>2. CASE ~UNCHANGED notif
    <3>1. PICK type \in {"VISIT_REQUEST", "REMINDER"} :
            InsertNotification(type, req[h].visit, req[h].staff)
      BY <1>1, <2>2 DEF CreateNotification, CreateReminder
    <3> DEFINE row == [row |-> "stored", visit |-> req[h].visit, staff |-> req[h].staff,
                       type |-> type, action |-> "PENDING", isRead |-> FALSE, at |-> now]
    <3>2. PICK n \in NotifIds : notif' = [notif EXCEPT ![n] = row]
      BY <3>1 DEF InsertNotification
    <3>3. /\ row.visit = req[h].visit /\ row.at = now
          /\ \A m \in NotifIds : notif'[m] = IF m = n THEN row ELSE notif[m]
      BY <3>2 DEF TypeOK
    <3> HIDE DEF row
    <3>4. Recent(v, t)' \subseteq Recent(v, t) \cup {n}
      BY <3>3 DEF Recent, NotifsOf, Stored
    <3>5. n \in Recent(v, t)' => req[h].visit = v /\ now < t + ResendGap
      BY <3>3 DEF Recent, NotifsOf
    <3>6. req[h].pc \in {"createNotification", "createReminder"} /\ now' = now
      BY <1>1 DEF CreateNotification, CreateReminder, At
    <3>7. req'[h].pc \in {"idle", "mailRequest"}
      <4>1. CASE Reply(h)
        BY <4>1 DEF Reply, Idle, TypeOK
      <4>2. CASE GoOn(h, "mailRequest")
        BY <4>2, RequestTyped DEF GoOn, Request, TypeOK
      <4> QED BY <1>1, <4>1, <4>2 DEF CreateNotification, CreateReminder
    <3> QED BY <3>4, <3>5, <3>6, <3>7
  <2> QED BY <2>1, <2>2
<1>2. ASSUME NEW h \in Handlers, Accept(h) \/ Reject(h) PROVE Fewer
  <2>1. UNCHANGED notif \/ \E action : MarkNotifications(req[h].visit, action)
    BY <1>2 DEF Accept, Reject, Decide
  <2>2. ASSUME NEW action, MarkNotifications(req[h].visit, action)
        PROVE  \A n \in NotifIds : /\ notif'[n].row = notif[n].row
                                   /\ notif'[n].visit = notif[n].visit
                                   /\ notif'[n].at = notif[n].at
    <3> TAKE n \in NotifIds
    <3>1. CASE Stored(n)
      BY <2>2, <3>1, UsedNotifTyped DEF MarkNotifications, UsedNotif
    <3>2. CASE ~Stored(n)
      BY <2>2, <3>2 DEF MarkNotifications, NotifsOf
    <3> QED BY <3>1, <3>2
  <2> QED BY <1>u, <2>1, <2>2 DEF Recent, NotifsOf, Stored
<1>3. ASSUME NEW h \in Handlers, Step(h) PROVE Fewer \/ Stores
  BY <1>u, <1>1, <1>2, <1>3 DEF Step, CreateVisit, SendMail, CompleteVisit, CheckGap,
     SendAccept, SendEnd, SendUpdate
<1>4. ASSUME NEW h \in Handlers, Begin(h) \/ Abort(h) PROVE Fewer
  BY <1>u, <1>4 DEF Begin, Abort, CheckIn, AcceptRead, RejectRead, ReadForDecision,
     EndVisitRead, EndVisitQrRead, ReadForCheckout, ResendRead
<1>5. CASE Tick
  BY <1>u, <1>5 DEF Tick
<1>6. ASSUME \A n \in NotifIds : \/ notif'[n] = notif[n]
                                 \/ notif'[n] = [notif[n] EXCEPT !.row = "deleted"]
                                      /\ Stored(n)
      PROVE  Fewer
  <2> SUFFICES ASSUME NEW n \in NotifIds, n \in Recent(v, t)' PROVE n \in Recent(v, t)
    BY DEF Recent, NotifsOf
  <2>1. notif'[n] = notif[n]
    BY <1>6, UsedNotifTyped DEF Recent, NotifsOf, Stored, UsedNotif
  <2> QED BY <2>1 DEF Recent, NotifsOf, Stored
<1>7. CASE DeleteNotification
  BY <1>6, <1>7 DEF DeleteNotification, TypeOK
<1>8. ASSUME NEW ss, RemoveStaff(ss) PROVE Fewer
  BY <1>6, <1>8 DEF RemoveStaff
<1> QED BY <1>3, <1>4, <1>5, <1>7, <1>8 DEF Next, DeleteStaff, DeleteOrganization

\* The wait lets a handler on its way only while no notification is recent, and
\* one that stores a notification is on its way no more.
LEMMA NotifsCountedStep ==
  ASSUME TypeOK, NotificationsAgree, NotifsCounted, Next
  PROVE  NotifsCounted'
<1> SUFFICES ASSUME NEW v \in VisitIds, NEW t \in Time, (Recent(v, t) # {})'
             PROVE  Counted(Recent(v, t), IF now < t + ResendGap THEN Notifying(v) ELSE {})'
  BY DEF NotifsCounted
<1> DEFINE rows == Recent(v, t)
           hs   == IF now < t + ResendGap THEN Notifying(v) ELSE {}
<1>0. hs \in SUBSET Handlers /\ (rows # {} => Counted(rows, hs))
  BY DEF NotifsCounted, Notifying
<1>c. Counted(rows, hs)' <=> Counted(rows', hs')
  BY DEF Counted
<1>n. now \in Nat /\ now' \in Nat /\ now <= now' /\ t \in Nat /\ ResendGap \in Nat
  BY TimeAssumption, ClockStep DEF TypeOK, Time
\* Who is on its way after the step was before, or has just found nothing.
<1>1. rows # {} => hs' \subseteq hs
  <2> SUFFICES ASSUME rows # {}, NEW g \in Handlers, g \in hs' PROVE g \in hs
    BY DEF Notifying
  <2>1. /\ now' < t + ResendGap /\ now < t + ResendGap
        /\ req'[g].pc \in {"createNotification", "createReminder"} /\ req'[g].visit = v
    BY <1>n DEF Notifying
  <2>2. CASE req'[g] = req[g]
    BY <2>1, <2>2 DEF Notifying
  <2>3. CASE req'[g] # req[g]
    <3>1. PICK h \in Handlers, r \in Request :
            /\ req' = [req EXCEPT ![h] = r]
            /\ r.pc = "createNotification" => visit[r.visit].status = "UNUSED"
            /\ r.pc = "createReminder" => GapElapsed(r.visit)
      BY <2>3, RequestMoves
    <3>2. h = g /\ req'[g] = r
      BY <2>3, <3>1 DEF TypeOK
    <3>3. PICK n \in NotifIds : n \in rows
      BY DEF Recent, NotifsOf
    <3>4. visit[v].status # "UNUSED"
      BY <3>3 DEF Recent, NotifsOf, NotificationsAgree, NotificationAgrees, MeetingStatus
    <3>5. ~GapElapsed(v)
      <4>1. notif[n].at \in Nat
        BY <3>3, UsedNotifTyped, TimeAssumption DEF Recent, NotifsOf, UsedNotif, Time
      <4>2. n \in NotifsOf(v) /\ t <= notif[n].at
        BY <3>3 DEF Recent
      <4> QED BY <1>n, <2>1, <4>1, <4>2 DEF GapElapsed
    <3> QED BY <2>1, <3>1, <3>2, <3>4, <3>5
  <2> QED BY <2>2, <2>3
<1>2. CASE rows' \subseteq rows
  BY <1>0, <1>1, <1>2, <1>c, CountedLess
<1>3. ASSUME NEW h \in Handlers, NEW n \in NotifIds,
             req[h].pc \in {"createNotification", "createReminder"},
             req'[h].pc \in {"idle", "mailRequest"},
             rows' \subseteq rows \cup {n},
             req[h].visit = v, now < t + ResendGap, now' = now
      PROVE  Counted(rows, hs)'
  <2>1. h \in hs /\ h \notin hs'
    BY <1>3 DEF Notifying
  <2>2. hs' \subseteq hs
    <3>1. ~UNCHANGED req
      BY <1>3
    <3>2. PICK k \in Handlers, r \in Request : req' = [req EXCEPT ![k] = r]
      BY <3>1, RequestMoves
    <3>3. \A g \in Handlers : g # k => req'[g] = req[g]
      BY <3>2 DEF TypeOK
    <3>4. k = h
      BY <1>3, <3>3
    <3> QED BY <1>3, <3>3, <3>4 DEF Notifying
  <2>3. hs' \in SUBSET (hs \ {h})
    BY <2>1, <2>2
  <2> HIDE DEF rows, hs
  <2>4. rows' \in SUBSET (rows \cup {n})
    BY <1>3
  <2>5. Counted(rows', hs')
    BY <1>0, <2>1, <2>3, <2>4, CountedMore
  <2> QED BY <2>5, <1>c
<1> QED BY <1>2, <1>3, RecentStep

\* Two sets of the bound are both within it.
LEMMA CountedBounds ==
  ASSUME NEW rows, NEW hs \in SUBSET Handlers, rows # {} => Counted(rows, hs)
  PROVE  Cardinality(rows) <= Cardinality(Handlers)
<1>1. CASE rows = {}
  BY <1>1, FS_EmptySet, FS_CardinalityType, HandlerAssumption
<1>2. CASE rows # {}
  <2>1. IsFiniteSet(rows) /\ IsFiniteSet(hs)
    BY <1>2, HandlerAssumption, FS_Subset DEF Counted
  <2>2. Cardinality(rows) \in Nat /\ Cardinality(hs) \in Nat /\ Cardinality(Handlers) \in Nat
    BY <2>1, HandlerAssumption, FS_CardinalityType
  <2> QED BY <1>2, <2>2 DEF Counted
<1> QED BY <1>1, <1>2

LEMMA CountsHold == Spec => [](ActiveVisitsBounded /\ RemindersBounded)
<1>1. Init => CInv
  <2> SUFFICES ASSUME Init PROVE CInv
    OBVIOUS
  <2>1. \A v \in VisitIds : visit[v].status = "UNUSED"
    BY DEF Init, UnusedVisit
  <2>2. \A n \in NotifIds : ~Stored(n)
    BY DEF Init, UnusedNotif, Stored
  <2> QED BY <2>1, <2>2 DEF CInv, VisitsCounted, NotifsCounted, ActiveVisits,
          ActiveStatus, Recent, NotifsOf
<1>2. IInv /\ CInv /\ [Next]_vars => CInv'
  <2> SUFFICES ASSUME IInv, CInv, [Next]_vars PROVE CInv'
    OBVIOUS
  <2>1. CASE UNCHANGED vars
    <3>1. VisitsCounted'
      BY <2>1 DEF vars, CInv, VisitsCounted, ActiveVisits, Arriving, At, Counted
    <3>2. NotifsCounted'
      BY <2>1 DEF vars, CInv, NotifsCounted, Recent, NotifsOf, Stored, Notifying, Counted
    <3> QED BY <3>1, <3>2 DEF CInv
  <2>2. CASE Next
    BY <2>2, VisitsCountedStep, NotifsCountedStep DEF IInv, CInv
  <2> QED BY <2>1, <2>2
<1>3. CInv => ActiveVisitsBounded /\ RemindersBounded
  <2> SUFFICES ASSUME CInv PROVE ActiveVisitsBounded /\ RemindersBounded
    OBVIOUS
  <2>1. ASSUME NEW p \in Visitors, NEW o \in Orgs
        PROVE  Cardinality(ActiveVisits(p, o)) <= Cardinality(Handlers)
    <3>1. Arriving(p, o) \in SUBSET Handlers
      BY DEF Arriving
    <3> QED BY <3>1, CountedBounds DEF CInv, VisitsCounted
  <2>2. ASSUME NEW v \in VisitIds, NEW t \in Time
        PROVE  Cardinality(Recent(v, t)) <= Cardinality(Handlers)
    <3> DEFINE hs == IF now < t + ResendGap THEN Notifying(v) ELSE {}
    <3>1. hs \in SUBSET Handlers
      BY DEF Notifying
    <3>2. Recent(v, t) # {} => Counted(Recent(v, t), hs)
      BY DEF CInv, NotifsCounted
    <3> HIDE DEF hs
    <3> QED BY <3>1, <3>2, CountedBounds
  <2> QED BY <2>1, <2>2 DEF ActiveVisitsBounded, RemindersBounded
<1> QED BY <1>1, <1>2, <1>3, InitInv, InvStep, PTL DEF Spec

\* Requests that race may store two active visits of a visitor, but never more
\* than there are requests served at once.
THEOREM BoundsHold == Spec => []ActiveVisitsBounded
BY CountsHold, PTL

\* They may send two reminders of one visit at once, but within the gap between
\* reminders never more than there are requests served at once.
THEOREM RemindersHold == Spec => []RemindersBounded
BY CountsHold, PTL
-----------------------------------------------------------------------------
(* Visits implements MeetingLifecycle *)

\* The phases a status is mapped to are those of MeetingLifecycle.
LEMMA Phases ==
  /\ Phase("UNUSED") = "none" /\ Phase("PENDING") = "waiting"
  /\ Phase("ONGOING") = "meeting" /\ Phase("ACCEPTED") = "meeting"
  /\ Phase("REJECTED") = "declined" /\ Phase("COMPLETED") = "over"
  /\ Phase("DELETED") = "deleted"
BY DEF Phase

\* A step that leaves the visits alone leaves the meetings alone.
LEMMA MapUnchanged ==
  UNCHANGED <<visit, mailed>> => UNCHANGED <<phaseOf, beganOf, toldOf>>
BY DEF phaseOf, beganOf, toldOf

\* An update of one row updates the meeting it is mapped to.
LEMMA MapStatus ==
  ASSUME NEW v \in VisitIds, NEW status \in MeetingStatus,
         \A w \in VisitIds : visit'[w].status = IF w = v THEN status ELSE visit[w].status
  PROVE  phaseOf' = [phaseOf EXCEPT ![v] = Phase(status)]
BY DEF phaseOf

\* An update that keeps the start of a visit keeps that of its meeting.
LEMMA MapSameStart ==
  ASSUME \A w \in VisitIds : visit'[w].start = visit[w].start
  PROVE  beganOf' = beganOf
BY DEF beganOf

\* One that sets it sets that of its meeting.
LEMMA MapStart ==
  ASSUME NEW v \in VisitIds,
         \A w \in VisitIds : w # v => visit'[w].start = visit[w].start,
         visit'[v].start # NoTime
  PROVE  beganOf' = [beganOf EXCEPT ![v] = TRUE]
<1>1. \A w \in VisitIds : (visit'[w].start # NoTime)
                          = (IF w = v THEN TRUE ELSE visit[w].start # NoTime)
  OBVIOUS
<1> QED BY <1>1 DEF beganOf

\* While no mail leaves, nobody is told anything.
LEMMA MapMails == UNCHANGED mailed => toldOf' = toldOf
BY DEF toldOf

\* No visit exists at first, and no meeting.
LEMMA LifecycleInit == Init => Lifecycle!Init
<1> SUFFICES ASSUME Init PROVE Lifecycle!Init
  OBVIOUS
<1>1. \A v \in VisitIds : visit[v].status = "UNUSED" /\ visit[v].start = NoTime
  BY DEF Init, UnusedVisit
<1>2. phaseOf = [v \in VisitIds |-> "none"]
  BY <1>1, Phases DEF phaseOf
<1>3. beganOf = [v \in VisitIds |-> FALSE]
  BY <1>1 DEF beganOf
<1>4. toldOf = [v \in VisitIds |-> {}]
  BY DEF Init, toldOf
<1> QED BY <1>2, <1>3, <1>4 DEF Lifecycle!Init

\* Every step of Visits is a step of MeetingLifecycle or leaves the meeting alone.
LEMMA LifecycleStep ==
  ASSUME IInv, [Next]_vars PROVE [Lifecycle!Next]_Lifecycle!lifecycleVars
<1> USE DEF Lifecycle!lifecycleVars
<1>t. TypeOK /\ visit \in [VisitIds -> VisitRow]
  BY DEF IInv, TypeOK
<1>s. \A v \in VisitIds : StatusAgrees(visit[v])
  BY DEF IInv, StatusFieldsAgree
<1>p. \A v \in VisitIds : phaseOf[v] = Phase(visit[v].status)
                          /\ beganOf[v] = (visit[v].start # NoTime)
  BY DEF phaseOf, beganOf
<1>1. CASE UNCHANGED <<visit, mailed>>
  BY <1>1, MapUnchanged
<1>m. "PENDING" \in MeetingStatus /\ "ONGOING" \in MeetingStatus
      /\ "REJECTED" \in MeetingStatus /\ "COMPLETED" \in MeetingStatus
  BY DEF MeetingStatus
<1>2. ASSUME NEW h \in Handlers, CreateVisit(h), visit' # visit
      PROVE  Lifecycle!Next
  <2>0. PICK v \in VisitIds :
          /\ visit[v].status = "UNUSED"
          /\ visit' = [visit EXCEPT ![v] =
                         [status |-> "PENDING", org |-> req[h].org,
                          staff |-> req[h].staff, visitor |-> req[h].visitor,
                          start |-> NoTime, end |-> NoTime]]
    BY <1>2 DEF CreateVisit
  <2>1. \A w \in VisitIds : visit'[w].status = IF w = v THEN "PENDING" ELSE visit[w].status
    BY <1>t, <2>0
  <2>2. visit[v].start = NoTime
    BY <1>t, <2>0 DEF VisitRow, UsedVisit, MeetingStatus, UnusedVisit
  <2>3. \A w \in VisitIds : visit'[w].start = visit[w].start
    BY <1>t, <2>0, <2>2
  <2>4. phaseOf' = [phaseOf EXCEPT ![v] = "waiting"] /\ beganOf' = beganOf
    BY <1>m, <2>1, <2>3, MapStatus, MapSameStart, Phases
  <2>5. toldOf' = toldOf
    BY <1>2, MapMails DEF CreateVisit
  <2>6. Lifecycle!Request(v)
    BY <1>p, <2>0, <2>4, <2>5, Phases DEF Lifecycle!Request, Lifecycle!Move
  <2> QED BY <2>6 DEF Lifecycle!Next
<1>3. ASSUME NEW h \in Handlers, Accept(h), visit' # visit PROVE Lifecycle!Next
  <2>1. PICK v \in VisitIds :
          /\ visit[v].status = "PENDING"
          /\ visit' = [visit EXCEPT ![v] = Answered(visit[v], "ONGOING", req[h].at)]
    BY <1>3, <1>t, RequestTyped DEF Accept, Decide, StillPending, At, RequestOK
  <2>2. visit[v] \in UsedVisit /\ req[h].at # NoTime
    BY <1>3, <1>t, <2>1, UsedVisitTyped, SentTime DEF Accept, Decide, At, TimedLabels
  <2>3. visit'[v].status = "ONGOING" /\ visit'[v].start # NoTime
    BY <1>t, <2>1, <2>2 DEF Answered, UsedVisit
  <2>4. \A w \in VisitIds : w # v => visit'[w] = visit[w]
    BY <1>t, <2>1
  <2>5. phaseOf' = [phaseOf EXCEPT ![v] = "meeting"]
    BY <1>m, <2>3, <2>4, MapStatus, Phases
  <2>6. beganOf' = [beganOf EXCEPT ![v] = TRUE] /\ toldOf' = toldOf
    BY <1>3, <2>3, <2>4, MapStart, MapMails DEF Accept, Decide
  <2>7. Lifecycle!Start(v)
    BY <1>p, <2>1, <2>5, <2>6, Phases DEF Lifecycle!Start, Lifecycle!Move
  <2> QED BY <2>7 DEF Lifecycle!Next
<1>4. ASSUME NEW h \in Handlers, Reject(h), visit' # visit PROVE Lifecycle!Next
  <2>1. PICK v \in VisitIds :
          /\ visit[v].status = "PENDING"
          /\ visit' = [visit EXCEPT ![v] = Answered(visit[v], "REJECTED", req[h].at)]
    BY <1>4, <1>t, RequestTyped DEF Reject, Decide, StillPending, At, RequestOK
  <2>2. visit[v] \in UsedVisit
    BY <1>t, <2>1, UsedVisitTyped
  <2>3. visit'[v].status = "REJECTED" /\ visit'[v].start = visit[v].start
    BY <1>t, <2>1, <2>2 DEF Answered, UsedVisit
  <2>4. \A w \in VisitIds : w # v => visit'[w] = visit[w]
    BY <1>t, <2>1
  <2>5. phaseOf' = [phaseOf EXCEPT ![v] = "declined"]
    BY <1>m, <2>3, <2>4, MapStatus, Phases
  <2>6. beganOf' = beganOf /\ toldOf' = toldOf
    BY <1>4, <2>3, <2>4, MapSameStart, MapMails DEF Reject, Decide
  <2>7. Lifecycle!Decline(v)
    BY <1>p, <2>1, <2>5, <2>6, Phases DEF Lifecycle!Decline, Lifecycle!Move
  <2> QED BY <2>7 DEF Lifecycle!Next
<1>5. ASSUME NEW h \in Handlers, CompleteVisit(h), visit' # visit
      PROVE  [Lifecycle!Next]_Lifecycle!lifecycleVars
  <2>1. PICK v \in VisitIds :
          Exists(v) /\ visit' = [visit EXCEPT ![v] = Completed(visit[v], req[h].at)]
    BY <1>5, <1>t, RequestTyped DEF CompleteVisit, At, RequestOK
  <2>2. visit[v] \in UsedVisit
    BY <1>t, <2>1, UsedVisitTyped DEF Exists, MeetingStatus
  <2>3. /\ visit'[v].status = "COMPLETED" /\ visit'[v].start = visit[v].start
        /\ \A w \in VisitIds : w # v => visit'[w] = visit[w]
    BY <1>t, <2>1, <2>2 DEF Completed, UsedVisit
  <2>4. /\ phaseOf' = [phaseOf EXCEPT ![v] = "over"]
        /\ beganOf' = beganOf /\ toldOf' = toldOf
    BY <1>m, <1>5, <2>3, MapStatus, MapSameStart, MapMails, Phases DEF CompleteVisit
  <2>5. CASE visit[v].status = "COMPLETED"
    BY <1>p, <2>4, <2>5, Phases DEF phaseOf
  <2>6. CASE visit[v].status # "COMPLETED"
    <3>1. phaseOf[v] \in {"waiting", "meeting", "declined"}
      BY <1>p, <2>1, <2>6, Phases DEF Exists, MeetingStatus
    <3>2. Lifecycle!Leave(v)
      BY <2>4, <3>1 DEF Lifecycle!Leave, Lifecycle!Move
    <3> QED BY <3>2 DEF Lifecycle!Next
  <2> QED BY <2>5, <2>6
<1>6. ASSUME NEW ss, RemoveStaff(ss) PROVE Lifecycle!Next
  <2> DEFINE gone == VisitsOf(ss)
  <2>1. PICK ms \in SUBSET VisitIds : ms = gone
    BY DEF VisitsOf
  <2>2. \A v \in ms : Exists(v) /\ phaseOf[v] # "none"
    BY <1>p, <2>1, Phases DEF VisitsOf, Exists, MeetingStatus
  <2>3. ASSUME NEW v \in VisitIds
        PROVE  /\ v \in ms => visit'[v].status = "DELETED"
               /\ v \notin ms => visit'[v] = visit[v]
               /\ visit'[v].start = visit[v].start
    <3>1. CASE v \in ms
      <4>1. visit[v] \in UsedVisit
        BY <1>t, <2>2, <3>1, UsedVisitTyped DEF Exists, MeetingStatus
      <4>2. visit'[v] = [visit[v] EXCEPT !.status = "DELETED"]
        BY <1>6, <2>1, <3>1 DEF RemoveStaff
      <4> QED BY <3>1, <4>1, <4>2 DEF UsedVisit
    <3>2. CASE v \notin ms
      BY <1>6, <2>1, <3>2 DEF RemoveStaff
    <3> QED BY <3>1, <3>2
  <2>4. phaseOf' = [v \in VisitIds |-> IF v \in ms THEN "deleted" ELSE phaseOf[v]]
    BY <2>3, Phases DEF phaseOf
  <2>5. beganOf' = beganOf /\ toldOf' = toldOf
    BY <1>6, <2>3 DEF RemoveStaff, beganOf, toldOf
  <2>6. Lifecycle!Delete(ms)
    BY <2>2, <2>4, <2>5 DEF Lifecycle!Delete
  <2> QED BY <2>6 DEF Lifecycle!Next
<1>7. ASSUME NEW h \in Handlers, NEW label, NEW kind \in {"start", "reject"},
             \/ label = "mailAccept" /\ kind = "start"
             \/ label = "mailReject" /\ kind = "reject",
             SendMail(h, label, {kind}), mailed' # mailed
      PROVE  Lifecycle!Next
  <2>1. PICK v \in VisitIds : v = req[h].visit /\ mailed' = mailed \cup {<<kind, v>>}
    BY <1>7, <1>t, RequestTyped DEF SendMail, At, RequestOK
  <2>2. phaseOf' = phaseOf /\ beganOf' = beganOf
    BY <1>7 DEF SendMail, phaseOf, beganOf
  <2>3. toldOf' = [toldOf EXCEPT ![v] = @ \cup {kind}]
    BY <2>1 DEF toldOf
  <2>4. RequestRemembers(req[h]) /\ req[h].pc = label
    BY <1>7 DEF IInv, SendMail, At
  <2>5. CASE kind = "start"
    <3>1. beganOf[v]
      BY <1>7, <1>p, <2>1, <2>4, <2>5 DEF RequestRemembers
    <3>2. Lifecycle!TellStart(v)
      BY <2>2, <2>3, <2>5, <3>1 DEF Lifecycle!TellStart
    <3> QED BY <3>2 DEF Lifecycle!Next
  <2>6. CASE kind = "reject"
    <3>1. ~beganOf[v] /\ phaseOf[v] \in {"declined", "over", "deleted"}
      BY <1>7, <1>p, <2>1, <2>4, <2>6, Phases DEF RequestRemembers, WasRejected
    <3>2. Lifecycle!TellReject(v)
      BY <2>2, <2>3, <2>6, <3>1 DEF Lifecycle!TellReject
    <3> QED BY <3>2 DEF Lifecycle!Next
  <2> QED BY <2>5, <2>6
<1>8. ASSUME NEW h \in Handlers, Begin(h) \/ Abort(h) PROVE UNCHANGED <<visit, mailed>>
  BY <1>8 DEF Begin, Abort, CheckIn, AcceptRead, RejectRead, ReadForDecision,
              EndVisitRead, EndVisitQrRead, ReadForCheckout, ResendRead
<1>9. ASSUME NEW h \in Handlers, Step(h) PROVE [Lifecycle!Next]_Lifecycle!lifecycleVars
  <2>1. CASE CreateVisit(h) \/ Accept(h) \/ Reject(h) \/ CompleteVisit(h)
    BY <1>1, <1>2, <1>3, <1>4, <1>5, <2>1
    DEF CreateVisit, Accept, Reject, Decide, CompleteVisit
  <2>2. CASE SendMail(h, "mailAccept", {"start"}) \/ SendMail(h, "mailReject", {"reject"})
    BY <1>1, <1>7, <2>2 DEF SendMail
  <2>3. ASSUME NEW label, SendMail(h, label, {}) PROVE UNCHANGED <<visit, mailed>>
    BY <2>3 DEF SendMail
  <2>4. CASE \/ CreateNotification(h) \/ CheckGap(h) \/ CreateReminder(h)
             \/ SendAccept(h) \/ SendEnd(h)
    BY <1>1, <2>4 DEF CreateNotification, CheckGap, CreateReminder, SendAccept, SendEnd,
                      SendUpdate
  <2> QED BY <1>1, <1>9, <2>1, <2>2, <2>3, <2>4 DEF Step
<1>10. DeleteNotification \/ Tick => UNCHANGED <<visit, mailed>>
  BY DEF DeleteNotification, Tick
<1>11. UNCHANGED vars => UNCHANGED <<visit, mailed>>
  BY DEF vars
<1> QED BY <1>1, <1>6, <1>8, <1>9, <1>10, <1>11 DEF Next, DeleteStaff, DeleteOrganization

\* The service implements the lifecycle it promises its visitors, for any number
\* of requests in flight and with failures at any point: decided at most once,
\* over for good, and told only what was decided.
THEOREM ImplementsLifecycle == Spec => FollowsLifecycle
<1>1. Init => Lifecycle!Init
  BY LifecycleInit
<1>2. IInv /\ [Next]_vars => [Lifecycle!Next]_Lifecycle!lifecycleVars
  BY LifecycleStep
<1>3. Spec => []IInv
  BY InitInv, InvStep, PTL DEF Spec
<1> QED BY <1>1, <1>2, <1>3, PTL DEF Spec, FollowsLifecycle, Lifecycle!Spec
=============================================================================
