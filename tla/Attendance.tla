----------------------------- MODULE Attendance -----------------------------
(***************************************************************************)
(* Punching in and out: src/src/attendance/attendance.service.ts, for one   *)
(* member of staff.  The service never relates the sessions of two members. *)
(*                                                                         *)
(* As in Visits a handler serves one request at a time and other handlers   *)
(* run between its awaited calls.  The transactions run at PostgreSQL's     *)
(* READ COMMITTED: a read sees what is committed when it runs, the writes   *)
(* of a transaction appear together when it commits, and nothing that was   *)
(* read stays true in between.                                             *)
(***************************************************************************)
EXTENDS WorkTime, FiniteSets

CONSTANTS
  Handlers,     \* requests the server may be serving at once
  SessionIds,   \* the uuids session rows may get
  DayLength,    \* ticks of a day of the organization
  MaxTime,      \* bound on the times of requests
  MaxEvents,    \* bound on the events of a session when a request arrives
  HonestClock   \* whether every request carries a later time than the last

ASSUME DayAssumption   == DayLength \in Nat \ {0}
ASSUME BoundAssumption == MaxTime \in Nat /\ MaxEvents \in Nat
ASSUME ClockAssumption == HonestClock \in BOOLEAN

VARIABLES
  session,    \* table AttendanceSession; uuids not used yet included
  events,     \* table AttendanceEvent: the events of a session as inserted
  employed,   \* whether the row of the member of staff exists
  req,        \* requests in flight
  now         \* latest time a request carried

vars == <<session, events, employed, req, now>>

Time == 0..MaxTime
-----------------------------------------------------------------------------
(* Rows and requests *)

UnusedSession == [status |-> "UNUSED", date |-> NoTime, first |-> NoTime,
                  last |-> NoTime, work |-> 0, break |-> 0,
                  closure |-> "none", late |-> FALSE]

SessionRow == [status  : {"UNUSED", "OPEN", "CLOSED", "DELETED"},
               date    : Nat \cup {NoTime},
               first   : Time \cup {NoTime},
               last    : Time \cup {NoTime},
               work    : Nat,
               break   : Nat,
               closure : {"none", "NORMAL", "LATE"},
               late    : BOOLEAN]

EventRow == [type : EventType, at : Time]

DeletedSession == [UnusedSession EXCEPT !.status = "DELETED"]

\* A handler's program counter names the call it is about to make.
Labels == {"idle", "punchInOld", "punchInToday", "punchIn",
           "breakStartRead", "breakStart", "breakEndRead", "breakEnd",
           "punchOutRead", "punchOut", "lateRead", "latePunch"}

Request == [pc      : Labels,
            session : SessionIds \cup {"none"},   \* the id sent by the client
            at      : Time,
            out     : Time,                       \* punch-out time of the late flow
            seen    : Seq(EventRow)]              \* the events read

Idle == [pc |-> "idle", session |-> "none", at |-> 0, out |-> 0, seen |-> <<>>]

StartOfDay(t)    == t \div DayLength
At(h, label)     == req[h].pc = label
Reply(h)         == req' = [req EXCEPT ![h] = Idle]
GoOn(h, label)   == req' = [req EXCEPT ![h].pc = label]
IsOpen(s)        == session[s].status = "OPEN"
Used             == {s \in SessionIds : session[s].status \in {"OPEN", "CLOSED"}}
EventsOf(s)      == {events[s][i] : i \in 1..Len(events[s])}
Entry(type, t)   == [type |-> type, at |-> t]

\* The first of the events by descending time; which one, of several at the
\* same time, is up to the database.
LastEvents(s) == {e \in EventsOf(s) : \A f \in EventsOf(s) : f.at <= e.at}

Init ==
  /\ session  = [s \in SessionIds |-> UnusedSession]
  /\ events   = [s \in SessionIds |-> <<>>]
  /\ employed = TRUE
  /\ req      = [h \in Handlers |-> Idle]
  /\ now      = 0
-----------------------------------------------------------------------------
(* A request arrives: action, up to the transaction of the handler *)

\* The time comes from the client, or is the server's clock.  A client sends
\* ids of sessions it was given before.
Arrive(h, t, r) ==
  /\ At(h, "idle")
  /\ employed
  /\ HonestClock => t > now
  /\ \A s \in SessionIds : Len(events[s]) < MaxEvents
  /\ req' = [req EXCEPT ![h] = r]
  /\ now' = IF HonestClock THEN t ELSE now
  /\ UNCHANGED <<session, events, employed>>

AskPunchIn(h) ==
  \E t \in Time : Arrive(h, t, [Idle EXCEPT !.pc = "punchInOld", !.at = t])

AskOnSession(h, label) ==
  \E t \in Time, s \in Used :
    Arrive(h, t, [Idle EXCEPT !.pc = label, !.session = s, !.at = t])

LateTimesOverlap(out, t) == out <= t + 1   \* mutant: the two times are hardly compared

LateTimesOK(out, t) == out < t

AskLatePunch(h) ==
  \E t, out \in Time, s \in Used :
    /\ LateTimesOK(out, t)
    /\ Arrive(h, t, [Idle EXCEPT !.pc = "lateRead", !.session = s, !.at = t, !.out = out])
-----------------------------------------------------------------------------
(* Session and event rows *)

OpenSession(t) ==
  [UnusedSession EXCEPT !.status = "OPEN", !.date = StartOfDay(t), !.first = t]

Closed(row, kind, t, totals) ==
  [status |-> "CLOSED", date |-> row.date, first |-> row.first, last |-> t,
   work |-> totals.work, break |-> totals.break,
   closure |-> kind, late |-> (row.late \/ kind = "LATE")]

\* handlePunchIn: two reads, then a session and its first event.
OpenBeforeThat(day) ==   \* mutant: a session of the day before does not count
  \E s \in SessionIds : IsOpen(s) /\ session[s].date < day - 1
OpenBefore(day) == \E s \in SessionIds : IsOpen(s) /\ session[s].date < day
OpenOn(day)     == \E s \in SessionIds : IsOpen(s) /\ session[s].date = day

Check(h, label, refused, next) ==
  /\ At(h, label)
  /\ \/ refused /\ Reply(h)
     \/ ~refused /\ GoOn(h, next)
  /\ UNCHANGED <<session, events, employed, now>>

PunchInReadOld(h)   == Check(h, "punchInOld", OpenBefore(StartOfDay(req[h].at)), "punchInToday")
PunchInReadToday(h) == Check(h, "punchInToday", OpenOn(StartOfDay(req[h].at)), "punchIn")

PunchIn(h) ==
  /\ At(h, "punchIn")
  /\ \/ /\ employed
        /\ \E s \in SessionIds :
             /\ session[s].status = "UNUSED"
             /\ session' = [session EXCEPT ![s] = OpenSession(req[h].at)]
             /\ events'  = [events EXCEPT ![s] = <<Entry("PUNCH_IN", req[h].at)>>]
     \/ ~employed /\ UNCHANGED <<session, events>>
  /\ Reply(h)
  /\ UNCHANGED <<employed, now>>

\* handleBreakStart, handleBreakEnd: read the session and its last event, then
\* append an event.
MayFollowPunchIn(last)    == last.type = "PUNCH_IN"   \* mutant: one break a day
MayStartAnyTime(last)     == TRUE                     \* mutant: the last event is not checked
MayStartBreak(last)       == last.type \in {"PUNCH_IN", "BREAK_END"}
MayEndBreak(last)         == last.type = "BREAK_START"

ReadLast(h, label, fits, next) ==
  /\ At(h, label)
  /\ LET s == req[h].session IN
       \/ IsOpen(s) /\ fits # {} /\ GoOn(h, next)
       \/ (IsOpen(s) => LastEvents(s) \ fits # {}) /\ Reply(h)
  /\ UNCHANGED <<session, events, employed, now>>

AppendEvent(h, label, type) ==
  /\ At(h, label)
  /\ LET s == req[h].session IN
       \/ /\ s \in Used
          /\ events' = [events EXCEPT ![s] = Append(@, Entry(type, req[h].at))]
       \/ s \notin Used /\ UNCHANGED events
  /\ Reply(h)
  /\ UNCHANGED <<session, employed, now>>

BreakStartRead(h) ==
  ReadLast(h, "breakStartRead", {e \in LastEvents(req[h].session) : MayStartBreak(e)}, "breakStart")
BreakStart(h)     == AppendEvent(h, "breakStart", "BREAK_START")
BreakEndRead(h)   ==
  ReadLast(h, "breakEndRead", {e \in LastEvents(req[h].session) : MayEndBreak(e)}, "breakEnd")
BreakEnd(h)       == AppendEvent(h, "breakEnd", "BREAK_END")

\* handlePunchOut, handleLatePunchOutAndPunchIn: read the session and all its
\* events; append the closing event and close the session, by id alone, with
\* the totals of the events read.
ReadOpen(h, label, refused, next) ==
  /\ At(h, label)
  /\ LET s == req[h].session IN
       \/ /\ IsOpen(s) /\ ~refused
          /\ req' = [req EXCEPT ![h] = [@ EXCEPT !.pc = next, !.seen = events[s]]]
       \/ /\ ~IsOpen(s) \/ refused
          /\ Reply(h)
  /\ UNCHANGED <<session, events, employed, now>>

TotalsSeen(seen, e) == RecalcTotals(SortByTime(seen))   \* mutant: without the closing event

\* The events were read in ascending order of time, the closing event is added.
TotalsAtClose(seen, e) == RecalcTotals(Append(SortByTime(seen), e))

Close(s, kind, e, seen) ==
  /\ s \in Used
  /\ session' = [session EXCEPT ![s] = Closed(@, kind, e.at, TotalsAtClose(seen, e))]
  /\ events'  = [events EXCEPT ![s] = Append(@, e)]

PunchOutRead(h) == ReadOpen(h, "punchOutRead", FALSE, "punchOut")

PunchOut(h) ==
  /\ At(h, "punchOut")
  /\ LET r == req[h] IN
       \/ Close(r.session, "NORMAL", Entry("PUNCH_OUT", r.at), r.seen)
       \/ r.session \notin Used /\ UNCHANGED <<session, events>>
  /\ Reply(h)
  /\ UNCHANGED <<employed, now>>

OutBeforeIn(out, first)   == out < first   \* mutant: accepts the punch-in's own time
OutNotAfterIn(out, first) == out <= first

LateRead(h) ==
  ReadOpen(h, "lateRead", OutNotAfterIn(req[h].out, session[req[h].session].first),
           "latePunch")

LatePunch(h) ==
  /\ At(h, "latePunch")
  /\ LET r == req[h]
         e == Entry("LATE_PUNCH_OUT", r.out) IN
       \/ /\ r.session \in Used
          /\ \E s \in SessionIds :
               /\ session[s].status = "UNUSED"
               /\ session' = [session EXCEPT
                     ![r.session] = Closed(@, "LATE", r.out, TotalsAtClose(r.seen, e)),
                     ![s] = OpenSession(r.at)]
               /\ events' = [events EXCEPT ![r.session] = Append(@, e),
                                           ![s] = <<Entry("PUNCH_IN", r.at)>>]
       \/ r.session \notin Used /\ UNCHANGED <<session, events>>
  /\ Reply(h)
  /\ UNCHANGED <<employed, now>>
-----------------------------------------------------------------------------
(* Environment *)

\* deleteStaff or deleteOrganization: the rows of the member go by cascade.
DeleteStaff ==
  /\ employed
  /\ employed' = FALSE
  /\ session' = [s \in SessionIds |-> IF s \in Used
                                      THEN DeletedSession
                                      ELSE session[s]]
  /\ events' = [s \in SessionIds |-> <<>>]
  /\ UNCHANGED <<req, now>>

\* A call fails or the server stops: the transaction is rolled back.
Abort(h) ==
  /\ ~At(h, "idle")
  /\ Reply(h)
  /\ UNCHANGED <<session, events, employed, now>>

Ask(h) == \/ AskPunchIn(h)
          \/ AskOnSession(h, "breakStartRead") \/ AskOnSession(h, "breakEndRead")
          \/ AskOnSession(h, "punchOutRead") \/ AskLatePunch(h)

Step(h) == \/ PunchInReadOld(h) \/ PunchInReadToday(h) \/ PunchIn(h)
           \/ BreakStartRead(h) \/ BreakStart(h)
           \/ BreakEndRead(h) \/ BreakEnd(h)
           \/ PunchOutRead(h) \/ PunchOut(h)
           \/ LateRead(h) \/ LatePunch(h)

Next == \/ \E h \in Handlers : Ask(h) \/ Step(h) \/ Abort(h)
        \/ DeleteStaff

Spec == Init /\ [][Next]_vars
-----------------------------------------------------------------------------
(* scan: what the kiosk is told it may do next *)

SessionsOn(day) == {s \in Used : session[s].date = day}

LatestOpenBefore(day) ==   \* orderBy date desc
  {s \in SessionIds : /\ IsOpen(s) /\ session[s].date < day
                      /\ \A r \in SessionIds : IsOpen(r) /\ session[r].date < day
                                                 => session[r].date <= session[s].date}

Told(state, s) == [state |-> state, session |-> s]

StateOf(s, last) ==
  CASE session[s].status = "CLOSED" -> "DAY_COMPLETED"
    [] IsOpen(s) /\ last.type = "BREAK_START" -> "ON_BREAK"
    [] IsOpen(s) /\ last.type \in StartsWork  -> "WORKING"
    [] OTHER -> "NO_SESSION_TODAY"

\* Everything getStateForScan may answer at time t; today's session is any one
\* when there are several.
Scan(t) ==
  LET day == StartOfDay(t) IN
  IF OpenBefore(day) THEN {Told("PREVIOUS_SESSION_OPEN", s) : s \in LatestOpenBefore(day)}
  ELSE IF SessionsOn(day) = {} THEN {Told("NO_SESSION_TODAY", "none")}
  ELSE UNION {{Told(StateOf(s, last), s) : last \in LastEvents(s)} : s \in SessionsOn(day)}
-----------------------------------------------------------------------------
(* exportAttendance: the totals of a session, computed again from its events *)

\* The events are read by ascending time, and only then cut to seconds.
ExportedTotals(log) == RecalcTotalsLocal(SortByTime(log))
-----------------------------------------------------------------------------
(* Properties *)

\* Rows and requests have their types; in particular no stored total is
\* negative.
TypeOK ==
  /\ session \in [SessionIds -> SessionRow]
  /\ events \in [SessionIds -> Seq(EventRow)]
  /\ employed \in BOOLEAN
  /\ req \in [Handlers -> Request]
  /\ now \in Time

\* However closings and breaks race on a session, its row and its events tell
\* one story: it is closed exactly when an event closed it, at the time and in
\* the way of such an event, after it was opened.
KindOf(e) == IF e.type = "PUNCH_OUT" THEN "NORMAL" ELSE "LATE"

RowAgrees(row, evs) ==
  LET closing == {e \in evs : e.type \in EndsDay} IN
  /\ Entry("PUNCH_IN", row.first) \in evs
  /\ row.date = StartOfDay(row.first)
  /\ row.status = "OPEN"   => closing = {} /\ row.last = NoTime
  /\ row.status = "CLOSED" => \E e \in closing : row.last = e.at /\ row.closure = KindOf(e)
  /\ row.late <=> \E e \in closing : KindOf(e) = "LATE"
  /\ row.status = "CLOSED" => row.first < row.last
SessionsAgree == \A s \in Used : RowAgrees(session[s], EventsOf(s))

\* Its inductive strengthening, with an honest clock: sessions began before now,
\* and a request on a session belongs to one that was opened before it.
AsksAfterFirst ==
  \A h \in Handlers :
    LET r == req[h] IN
    /\ r.pc \notin {"idle", "punchInOld", "punchInToday", "punchIn"}
         => r.session \in SessionIds /\ session[r.session].status # "UNUSED"
    /\ r.session \in Used /\ r.pc \in {"punchOutRead", "punchOut"}
         => session[r.session].first < r.at
    /\ r.session \in Used /\ r.pc = "latePunch" => session[r.session].first < r.out

AInv ==
  /\ DOMAIN session = SessionIds
  /\ events \in [SessionIds -> Seq(EventRow)]
  /\ req \in [Handlers -> Request]
  /\ now \in Time
  /\ \A s \in Used : session[s].first \in 0..now
  /\ \A h \in Handlers : req[h].at <= now
  /\ \A s \in SessionIds : session[s].status \in {"UNUSED", "OPEN", "CLOSED", "DELETED"}
  /\ SessionsAgree
  /\ AsksAfterFirst

\* The stored totals never pay more time than the events of the session span,
\* whatever the clients' clocks say and whatever raced with the closing.
TotalsWithinEvents ==
  \A s \in Used : session[s].status = "CLOSED" =>
    \E e, f \in EventsOf(s) :
      session[s].work + session[s].break <= FloorToSecond(f.at) - FloorToSecond(e.at)

\* What scan offers the kiosk the handler then accepts: a member of staff is
\* never offered an action that is refused.
ScanIsHonoured ==
  \A t \in Time : \A told \in Scan(t) :
    LET s == told.session
        lasts == LastEvents(s) IN
    CASE told.state = "NO_SESSION_TODAY" -> ~OpenBefore(StartOfDay(t)) /\ ~OpenOn(StartOfDay(t))
      [] told.state = "WORKING"  -> IsOpen(s) /\ \A last \in lasts : MayStartBreak(last)
      [] told.state = "ON_BREAK" -> IsOpen(s) /\ \A last \in lasts : MayEndBreak(last)
      [] told.state = "PREVIOUS_SESSION_OPEN" -> IsOpen(s) /\ session[s].first < t
      [] told.state = "DAY_COMPLETED" -> TRUE

\* Served one at a time, the requests of a day form breaks between a punch-in
\* and a punch-out, each later than the one before; a late punch-out ends the day
\* wherever it stands, at any time after the punch-in.
MayFollow == ({"PUNCH_IN", "BREAK_END"} \X {"BREAK_START", "PUNCH_OUT"})
             \cup ({"BREAK_START"} \X {"BREAK_END", "PUNCH_OUT"})

WellFormed(day) ==
  /\ day[1].type = "PUNCH_IN"
  /\ \A i \in 1..Len(day)-1 :
       LET e == day[i]
           f == day[i+1] IN
       \/ <<e.type, f.type>> \in MayFollow /\ e.at < f.at
       \/ e.type \notin EndsDay /\ f.type = "LATE_PUNCH_OUT" /\ day[1].at < f.at

DaysAreWellFormed == \A s \in Used : WellFormed(events[s])

\* Served one at a time, a punch-out accounts for every second since the
\* punch-in, as work or as break.
NormalTotalsAddUp ==
  \A s \in Used : session[s].status = "CLOSED" /\ session[s].closure = "NORMAL" =>
    session[s].work + session[s].break
      = FloorToSecond(session[s].last) - FloorToSecond(session[s].first)

\* Served one at a time, the totals stored at closing are those the export
\* computes later with its own copy of the algorithm: nothing is added to a closed
\* session, and the two agree on its events.  They may differ after a late
\* punch-out at, or before, an event of the same second: recalcTotals counts the
\* closing event last of that second, the export by its millisecond.
ClosedInSecondOf(row, evs) ==
  \E e \in evs : /\ e.type \notin EndsDay /\ row.last <= e.at
                 /\ FloorToSecond(row.last) = FloorToSecond(e.at)

StoredTotalsAreExported ==
  \A s \in Used :
    session[s].status = "CLOSED" /\ ~ClosedInSecondOf(session[s], EventsOf(s)) =>
      ExportedTotals(events[s]) = [work |-> session[s].work, break |-> session[s].break]

\* Served one at a time, two sessions never overlap: the earlier one is closed
\* before the later one begins, and so no second is counted twice, not even after
\* a late punch-out, which counts the breaks recorded after it.
CountedUntil(row) == FloorToSecond(row.first) + row.work + row.break

Precedes(row, later) == /\ row.status = "CLOSED" /\ row.last < later.first
                        /\ CountedUntil(row) <= FloorToSecond(later.first)

SessionsDisjoint ==
  \A r, s \in Used :
    r # s => Precedes(session[r], session[s]) \/ Precedes(session[s], session[r])

\* Served one at a time, sessions are the stints of Timesheet: one is begun only
\* when all others are over, a closed one never changes until the member's rows go,
\* and its totals lie between its punch-in and the request that closed it, later
\* than which the next one begins.
Phase(status) ==
  CASE status = "UNUSED"  -> "none"
    [] status = "OPEN"    -> "working"
    [] status = "CLOSED"  -> "over"
    [] status = "DELETED" -> "forgotten"

StintOf(row) == [phase |-> Phase(row.status), began |-> row.first, ended |-> row.last,
                 counted |-> row.work + row.break]
stintOf == [s \in SessionIds |-> StintOf(session[s])]

Sheet == INSTANCE Timesheet WITH Stints <- SessionIds, stint <- stintOf, clock <- now
FollowsTimesheet == Sheet!Spec
=============================================================================
