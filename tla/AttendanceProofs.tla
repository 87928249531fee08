-------------------------- MODULE AttendanceProofs --------------------------
(* Theorems about Attendance, for every value of its constants. *)
EXTENDS Attendance, TLAPS

\* A session as it is opened, extended by a break and closed agrees with its
\* events.
LEMMA OpenedAgrees ==
  ASSUME NEW t \in Time
  PROVE  RowAgrees(OpenSession(t), {Entry("PUNCH_IN", t)})
BY DEF RowAgrees, OpenSession, UnusedSession, Entry, EndsDay

\* So does one that a break was started or ended in: the entry closes nothing.
LEMMA BreakAgrees ==
  ASSUME NEW row, NEW evs, RowAgrees(row, evs), NEW t,
         NEW type \in {"BREAK_START", "BREAK_END"}
  PROVE  RowAgrees(row, evs \cup {Entry(type, t)})
BY DEF RowAgrees, Entry, EndsDay

\* And one that is closed, or closed again, at the time of the added entry.
LEMMA ClosedAgrees ==
  ASSUME NEW row, NEW evs, RowAgrees(row, evs), NEW e, e.type \in EndsDay,
         row.first < e.at, NEW totals
  PROVE  RowAgrees(Closed(row, KindOf(e), e.at, totals), evs \cup {e})
<1> DEFINE new == Closed(row, KindOf(e), e.at, totals)
           closing == {f \in evs : f.type \in EndsDay}
<1>1. /\ new.status = "CLOSED" /\ new.date = row.date /\ new.first = row.first
      /\ new.last = e.at /\ new.closure = KindOf(e)
      /\ new.late = (row.late \/ KindOf(e) = "LATE")
  BY DEF Closed
<1>2. {f \in evs \cup {e} : f.type \in EndsDay} = closing \cup {e}
  OBVIOUS
<1>3. /\ Entry("PUNCH_IN", row.first) \in evs
      /\ row.date = StartOfDay(row.first)
      /\ row.late <=> \E f \in closing : KindOf(f) = "LATE"
  BY DEF RowAgrees
<1>4. new.late <=> \E f \in closing \cup {e} : KindOf(f) = "LATE"
  BY <1>1, <1>3
<1> HIDE DEF new, closing
<1>5. RowAgrees(new, evs \cup {e})
  BY <1>1, <1>2, <1>3, <1>4 DEF RowAgrees
<1> QED BY <1>5 DEF new

\* What the log of one event and a longer log hold.
LEMMA LogOfOne ==
  ASSUME NEW e PROVE {<<e>>[i] : i \in 1..Len(<<e>>)} = {e}
OBVIOUS

\* Appending to a log adds one entry and keeps the others.
LEMMA LogAppended ==
  ASSUME NEW log \in Seq(EventRow), NEW e \in EventRow
  PROVE  /\ Append(log, e) \in Seq(EventRow)
         /\ {Append(log, e)[i] : i \in 1..Len(Append(log, e))}
              = {log[i] : i \in 1..Len(log)} \cup {e}
<1>1. /\ Append(log, e) \in Seq(EventRow) /\ Len(log) \in Nat
      /\ Len(Append(log, e)) = Len(log) + 1
      /\ \A i \in 1..Len(log) : Append(log, e)[i] = log[i]
      /\ Append(log, e)[Len(log) + 1] = e
  OBVIOUS
<1>2. 1..Len(Append(log, e)) = 1..Len(log) \cup {Len(log) + 1}
  BY <1>1
<1> HIDE <1>1
<1> QED BY <1>1, <1>2

LEMMA EventsAppended ==
  ASSUME NEW s, NEW e \in EventRow, events[s] \in Seq(EventRow),
         events'[s] = Append(events[s], e)
  PROVE  EventsOf(s)' = EventsOf(s) \cup {e} /\ events'[s] \in Seq(EventRow)
<1>1. PICK log \in Seq(EventRow) : log = events[s]
  OBVIOUS
<1>2. PICK grown : grown = Append(log, e)
  OBVIOUS
<1>3. grown \in Seq(EventRow)
      /\ {grown[i] : i \in 1..Len(grown)} = {log[i] : i \in 1..Len(log)} \cup {e}
  BY <1>2, LogAppended
<1>4. events'[s] = grown
  BY <1>1, <1>2
<1>5. EventsOf(s)' = {grown[i] : i \in 1..Len(grown)}
  BY <1>4 DEF EventsOf
<1>6. EventsOf(s) = {log[i] : i \in 1..Len(log)}
  BY <1>1 DEF EventsOf
<1> QED BY <1>3, <1>4, <1>5, <1>6

\* The initial tables satisfy the invariant.
LEMMA AInit == Init => AInv
<1> SUFFICES ASSUME Init PROVE AInv
  OBVIOUS
<1>1. Used = {}
  BY DEF Init, Used, UnusedSession
<1>2. req \in [Handlers -> Request] /\ now \in Time
  BY BoundAssumption DEF Init, Idle, Request, Labels, Time
<1>3. AsksAfterFirst
  BY <1>1 DEF AsksAfterFirst, Init, Idle
<1>4. events \in [SessionIds -> Seq(EventRow)]
  BY DEF Init
<1>5. SessionsAgree
  BY <1>1 DEF SessionsAgree
<1>6. \A h \in Handlers : req[h].at <= now
  BY DEF Init, Idle
<1> QED BY <1>1, <1>2, <1>3, <1>4, <1>5, <1>6 DEF AInv, Init, UnusedSession

\* What a handler may go on with, when the tables stay as they are.
RequestOK(r) ==
  /\ r.pc \notin {"idle", "punchInOld", "punchInToday", "punchIn"}
       => r.session \in SessionIds /\ session[r.session].status # "UNUSED"
  /\ r.session \in Used /\ r.pc \in {"punchOutRead", "punchOut"}
       => session[r.session].first < r.at
  /\ r.session \in Used /\ r.pc = "latePunch" => session[r.session].first < r.out

\* A step that only moves one request on, to another that may go on, keeps the
\* invariant: the reads of all handlers, and their replies.
LEMMA ReadStep ==
  ASSUME AInv, NEW h \in Handlers, NEW r \in Request, RequestOK(r),
         req' = [req EXCEPT ![h] = r], UNCHANGED <<session, events>>,
         now' \in Time, now <= now', r.at <= now'
  PROVE  AInv'
<1>1. Used' = Used /\ \A s \in SessionIds : EventsOf(s)' = EventsOf(s)
  <2>1. Used' = Used
    BY DEF Used
  <2>2. ASSUME NEW s \in SessionIds PROVE EventsOf(s)' = EventsOf(s)
    BY DEF EventsOf
  <2> QED BY <2>1, <2>2
<1>2. SessionsAgree'
  <2>1. Used \subseteq SessionIds
    BY DEF Used
  <2>2. ASSUME NEW s \in Used PROVE RowAgrees(session'[s], EventsOf(s)')
    BY <1>1, <2>1 DEF AInv, SessionsAgree
  <2> QED BY <1>1, <2>2 DEF SessionsAgree
<1>3. \A s \in Used : session[s].first \in 0..now'
  BY BoundAssumption DEF AInv, Time
<1>4. AsksAfterFirst'
  <2>1. \A g \in Handlers : req'[g] = r \/ req'[g] = req[g]
    BY DEF AInv
  <2>2. \A g \in Handlers : RequestOK(req'[g])
    BY <2>1 DEF AInv, AsksAfterFirst, RequestOK
  <2> QED BY <1>1, <2>2 DEF AsksAfterFirst, RequestOK
<1>5. \A g \in Handlers : req'[g].at <= now'
  <2>1. ASSUME NEW g \in Handlers PROVE req'[g].at <= now'
    <3>1. CASE g = h
      BY <3>1 DEF AInv
    <3>2. CASE g # h
      <4>1. req'[g].at = req[g].at /\ req[g].at \in Nat /\ req[g].at <= now
        BY <3>2, BoundAssumption DEF AInv, Request, Time
      <4> QED BY <4>1, BoundAssumption DEF AInv, Time
    <3> QED BY <3>1, <3>2
  <2> QED BY <2>1
<1> QED BY <1>1, <1>2, <1>3, <1>4, <1>5 DEF AInv

\* A handler that has replied relies on nothing.
LEMMA IdleOK == Idle \in Request /\ RequestOK(Idle) /\ Idle.pc = "idle"
                /\ Idle.session = "none" /\ Idle.at = 0
BY BoundAssumption DEF Idle, Request, Labels, Time, RequestOK

\* What a step may do to a session and its events.
Kept(s)    == session'[s] = session[s] /\ (s \in Used => events'[s] = events[s])
Removed(s) == session[s].status # "UNUSED" /\ session'[s].status = "DELETED"
Opened(s, t) == /\ session[s].status = "UNUSED"
                /\ session'[s] = OpenSession(t)
                /\ events'[s] = <<Entry("PUNCH_IN", t)>>
Paused(s, t) == \E type \in {"BREAK_START", "BREAK_END"} :
                  /\ session[s].status # "UNUSED"
                  /\ session'[s] = session[s]
                  /\ events'[s] = Append(events[s], Entry(type, t))
Ended(s)   == \E e \in EventRow : \E totals :
                /\ s \in Used /\ e.type \in EndsDay /\ session[s].first < e.at
                /\ session'[s] = Closed(session[s], KindOf(e), e.at, totals)
                /\ events'[s] = Append(events[s], e)

\* A step that does nothing else keeps the invariant.
LEMMA RowsStep ==
  ASSUME AInv, DOMAIN session' = SessionIds, events' \in [SessionIds -> Seq(EventRow)],
         now' = now, req' \in [Handlers -> Request],
         \A g \in Handlers : req'[g] \in {req[g], Idle},
         NEW t \in Time, t <= now,
         \A s \in SessionIds : \/ Kept(s) \/ Removed(s) \/ Ended(s)
                               \/ Opened(s, t) \/ Paused(s, t)
  PROVE  AInv'
<1>t. now \in Nat /\ Time \subseteq Nat
  BY BoundAssumption DEF AInv, Time
<1>1. ASSUME NEW s \in SessionIds
      PROVE  /\ session'[s].status \in {"UNUSED", "OPEN", "CLOSED", "DELETED"}
             /\ session[s].status # "UNUSED" =>
                  /\ session'[s].status # "UNUSED"
                  /\ s \in Used' => s \in Used /\ session'[s].first = session[s].first
             /\ s \in Used' => /\ session'[s].first \in 0..now
                               /\ RowAgrees(session'[s], EventsOf(s)')
  <2>1. CASE Kept(s)
    <3>1. s \in Used => EventsOf(s)' = EventsOf(s)
      BY <2>1 DEF Kept, EventsOf
    <3> QED BY <2>1, <3>1 DEF Kept, AInv, Used, SessionsAgree
  <2>2. CASE Removed(s)
    BY <2>2 DEF Removed, Used
  <2>3. CASE Opened(s, t)
    <3>1. /\ session[s].status = "UNUSED"
          /\ session'[s] = OpenSession(t)
          /\ events'[s] = <<Entry("PUNCH_IN", t)>>
      BY <2>3 DEF Opened
    <3>2. EventsOf(s)' = {Entry("PUNCH_IN", t)}
      BY <3>1, LogOfOne DEF EventsOf
    <3>3. RowAgrees(session'[s], EventsOf(s)')
      BY <3>1, <3>2, OpenedAgrees
    <3>4. session'[s].first = t /\ session'[s].status = "OPEN"
      BY <3>1 DEF OpenSession, UnusedSession
    <3> QED BY <1>t, <3>1, <3>3, <3>4
  <2>4. CASE Paused(s, t)
    <3>1. PICK type \in {"BREAK_START", "BREAK_END"} :
            /\ session[s].status # "UNUSED" /\ session'[s] = session[s]
            /\ events'[s] = Append(events[s], Entry(type, t))
      BY <2>4 DEF Paused
    <3>2. Entry(type, t) \in EventRow /\ events[s] \in Seq(EventRow)
      BY DEF Entry, EventRow, EventType, StartsWork, AInv
    <3>3. EventsOf(s)' = EventsOf(s) \cup {Entry(type, t)}
      BY <3>1, <3>2, EventsAppended
    <3>4. s \in Used => RowAgrees(session'[s], EventsOf(s)')
      <4>1. s \in Used => RowAgrees(session[s], EventsOf(s))
        BY DEF AInv, SessionsAgree
      <4> HIDE DEF EventsOf
      <4>2. s \in Used => RowAgrees(session[s], EventsOf(s) \cup {Entry(type, t)})
        BY <4>1, BreakAgrees
      <4> QED BY <3>1, <3>3, <4>2
    <3> QED BY <3>1, <3>4 DEF AInv, Used
  <2>5. CASE Ended(s)
    <3>0. PICK e \in EventRow : \E totals :
            /\ s \in Used /\ e.type \in EndsDay /\ session[s].first < e.at
            /\ session'[s] = Closed(session[s], KindOf(e), e.at, totals)
            /\ events'[s] = Append(events[s], e)
      BY <2>5 DEF Ended
    <3>1. PICK totals :
            /\ s \in Used /\ e.type \in EndsDay /\ session[s].first < e.at
            /\ session'[s] = Closed(session[s], KindOf(e), e.at, totals)
            /\ events'[s] = Append(events[s], e)
      BY <3>0
    <3>2. EventsOf(s)' = EventsOf(s) \cup {e}
      <4>1. events[s] \in Seq(EventRow)
        BY DEF AInv
      <4> QED BY <3>1, <4>1, EventsAppended
    <3>3. RowAgrees(session'[s], EventsOf(s)')
      <4>1. RowAgrees(session[s], EventsOf(s))
        BY <3>1 DEF AInv, SessionsAgree
      <4>2. RowAgrees(Closed(session[s], KindOf(e), e.at, totals), EventsOf(s) \cup {e})
        BY <3>1, <4>1, ClosedAgrees
      <4> QED BY <3>1, <3>2, <4>2
    <3>4. session'[s].first = session[s].first /\ session'[s].status = "CLOSED"
      BY <3>1 DEF Closed
    <3> QED BY <3>1, <3>3, <3>4 DEF AInv
  <2> QED BY <2>1, <2>2, <2>3, <2>4, <2>5
<1>2. Used' \subseteq SessionIds
  BY DEF Used
<1>3. SessionsAgree'
  BY <1>1, <1>2 DEF SessionsAgree
<1>4. \A g \in Handlers : RequestOK(req[g])'
  <2>1. ASSUME NEW g \in Handlers PROVE RequestOK(req[g])'
    <3>1. CASE req'[g] = req[g]
      <4>1. RequestOK(req[g])
        BY DEF AInv, AsksAfterFirst, RequestOK
      <4> QED BY <1>1, <3>1, <4>1 DEF RequestOK
    <3>2. CASE req'[g] = Idle
      BY <3>2, IdleOK DEF RequestOK
    <3> QED BY <3>1, <3>2
  <2> QED BY <2>1
<1>5. AsksAfterFirst'
  BY <1>4 DEF AsksAfterFirst, RequestOK
<1>6. \A g \in Handlers : req'[g].at <= now'
  <2>1. \A g \in Handlers : req[g].at <= now
    BY DEF AInv
  <2> QED BY <1>t, <2>1, IdleOK
<1> QED BY <1>1, <1>2, <1>3, <1>5, <1>6 DEF AInv

\* The three things a step may do, given that times of requests only grow: move
\* a request on, or answer it, with the tables as they are; answer it and write
\* rows; or delete the rows of the member of staff.
Moves ==
  \E h \in Handlers, r \in Request :
    /\ RequestOK(r) /\ req' = [req EXCEPT ![h] = r] /\ UNCHANGED <<session, events>>
    /\ now' \in Time /\ now <= now' /\ r.at <= now'
    /\ \/ r = Idle
       \/ r.pc # "idle" /\ r.at > now
       \/ r.pc # "idle" /\ req[h].pc # "idle" /\ r.at = req[h].at

Writes ==
  \E h \in Handlers :
    /\ req[h].pc # "idle" /\ req' = [req EXCEPT ![h] = Idle] /\ now' = now
    /\ DOMAIN session' = SessionIds /\ events' \in [SessionIds -> Seq(EventRow)]
    /\ \A s \in SessionIds : \/ Kept(s) \/ Ended(s)
                             \/ Opened(s, req[h].at) \/ Paused(s, req[h].at)

Deletes ==
  /\ UNCHANGED <<req, now>>
  /\ DOMAIN session' = SessionIds /\ events' \in [SessionIds -> Seq(EventRow)]
  /\ \A s \in SessionIds : Kept(s) \/ Removed(s)

Effect == Moves \/ Writes \/ Deletes

LEMMA Effects ==
  ASSUME HonestClock, AInv, [Next]_vars PROVE Effect
<1>u. Used \subseteq SessionIds /\ Used' \subseteq SessionIds
  BY DEF Used
<1>t. Time \subseteq Nat /\ now \in Time /\ Idle \in Request
  BY BoundAssumption, IdleOK DEF Time, AInv
<1>r. \A h \in Handlers : req[h] \in Request /\ RequestOK(req[h])
  BY DEF AInv, AsksAfterFirst, RequestOK
\* A request arrives.
<1>1. ASSUME NEW h \in Handlers, Ask(h) PROVE Effect
  <2>1. ASSUME NEW t \in Time, NEW r \in Request, Arrive(h, t, r), RequestOK(r),
               r.at = t, r.pc # "idle"
        PROVE  Effect
    <3>1. now' = t /\ t > now
      BY <2>1 DEF Arrive
    <3>2. now' \in Time /\ now <= now'
      BY <3>1, <1>t
    <3>3. req' = [req EXCEPT ![h] = r] /\ UNCHANGED <<session, events>>
      BY <2>1 DEF Arrive
    <3>4. r.at <= now'
      BY <2>1, <3>1, <1>t
    <3>5. r.at > now
      BY <2>1, <3>1
    <3> QED BY <2>1, <3>2, <3>3, <3>4, <3>5 DEF Effect, Moves
  <2>2. CASE AskPunchIn(h)
    <3>1. PICK t \in Time : Arrive(h, t, [Idle EXCEPT !.pc = "punchInOld", !.at = t])
      BY <2>2 DEF AskPunchIn
    <3>2. /\ [Idle EXCEPT !.pc = "punchInOld", !.at = t] \in Request
          /\ RequestOK([Idle EXCEPT !.pc = "punchInOld", !.at = t])
          /\ [Idle EXCEPT !.pc = "punchInOld", !.at = t].at = t
          /\ [Idle EXCEPT !.pc = "punchInOld", !.at = t].pc # "idle"
      BY <1>t DEF Idle, Request, Labels, RequestOK
    <3> QED BY <2>1, <3>1, <3>2
  <2>3. ASSUME NEW label \in {"breakStartRead", "breakEndRead", "punchOutRead"},
               AskOnSession(h, label)
        PROVE  Effect
    <3>1. PICK t \in Time, s \in Used :
            Arrive(h, t, [Idle EXCEPT !.pc = label, !.session = s, !.at = t])
      BY <2>3 DEF AskOnSession
    <3> DEFINE r == [Idle EXCEPT !.pc = label, !.session = s, !.at = t]
    <3>2. r \in Request /\ r.pc = label /\ r.session = s /\ r.at = t
      BY <1>t, <1>u DEF Idle, Request, Labels
    <3>3. session[s].first < t /\ session[s].status # "UNUSED" /\ s \in SessionIds
      <4>1. now < t
        BY <3>1 DEF Arrive
      <4> QED BY <4>1, <1>t, <1>u DEF AInv, Used
    <3>4. RequestOK(r)
      BY <3>2, <3>3 DEF RequestOK
    <3> QED BY <2>1, <3>1, <3>2, <3>4
  <2>4. CASE AskLatePunch(h)
    <3>1. PICK t \in Time, out \in Time, s \in Used :
            Arrive(h, t, [Idle EXCEPT !.pc = "lateRead", !.session = s, !.at = t,
                                      !.out = out])
      BY <2>4 DEF AskLatePunch
    <3> DEFINE r == [Idle EXCEPT !.pc = "lateRead", !.session = s, !.at = t, !.out = out]
    <3>2. r \in Request /\ r.pc = "lateRead" /\ r.session = s /\ r.at = t
      BY <1>t, <1>u DEF Idle, Request, Labels
    <3>3. RequestOK(r)
      BY <3>2, <1>u DEF RequestOK, Used
    <3> QED BY <2>1, <3>1, <3>2, <3>3
  <2> QED BY <1>1, <2>2, <2>3, <2>4 DEF Ask
\* A handler reads: its request goes on or ends.
<1>2. ASSUME NEW h \in Handlers, NEW r \in Request, RequestOK(r),
             req' = [req EXCEPT ![h] = r], UNCHANGED <<session, events, now>>,
             r.at <= now,
             r = Idle \/ (r.pc # "idle" /\ req[h].pc # "idle" /\ r.at = req[h].at)
      PROVE  Effect
  <2>1. now' \in Time /\ now <= now' /\ r.at <= now'
    BY <1>2, <1>t
  <2> QED BY <1>2, <2>1 DEF Effect, Moves
<1>3. ASSUME NEW h \in Handlers, Reply(h), UNCHANGED <<session, events, now>>
      PROVE  Effect
  <2>1. Idle \in Request /\ RequestOK(Idle) /\ Idle.at <= now
    BY <1>t, IdleOK
  <2> QED BY <1>2, <1>3, <2>1 DEF Reply
<1>4. ASSUME NEW h \in Handlers, NEW label \in Labels, GoOn(h, label),
             UNCHANGED <<session, events, now>>,
             req[h].pc # "idle",
             \/ label \in {"punchInToday", "punchIn"}
             \/ /\ label \in {"breakStart", "breakEnd"}
                /\ req[h].session \in SessionIds
                /\ session[req[h].session].status # "UNUSED"
      PROVE  Effect
  <2> DEFINE r == [req[h] EXCEPT !.pc = label]
  <2>1. /\ r \in Request /\ r.pc = label /\ r.session = req[h].session
        /\ r.at <= now /\ r.at = req[h].at /\ r.pc # "idle"
    <3>1. req[h] \in Request /\ req[h].at <= now
      BY <1>r DEF AInv
    <3> QED BY <1>4, <3>1 DEF Request
  <2>2. req' = [req EXCEPT ![h] = r]
    BY <1>4, <2>1 DEF GoOn
  <2>3. RequestOK(r)
    BY <1>4, <2>1 DEF RequestOK
  <2> QED BY <1>2, <1>4, <2>1, <2>2, <2>3
<1>5. ASSUME NEW h \in Handlers, PunchInReadOld(h) \/ PunchInReadToday(h) PROVE Effect
  BY <1>5, <1>3, <1>4 DEF PunchInReadOld, PunchInReadToday, Check, Labels, At
<1>6. ASSUME NEW h \in Handlers, BreakStartRead(h) \/ BreakEndRead(h) PROVE Effect
  <2>1. req[h].pc \in {"breakStartRead", "breakEndRead"}
    BY <1>6 DEF BreakStartRead, BreakEndRead, ReadLast, At
  <2>2. req[h].session \in SessionIds /\ session[req[h].session].status # "UNUSED"
    BY <2>1, <1>r DEF RequestOK
  <2> QED BY <1>6, <2>1, <2>2, <1>3, <1>4 DEF BreakStartRead, BreakEndRead, ReadLast, Labels
<1>7. ASSUME NEW h \in Handlers, PunchOutRead(h) \/ LateRead(h) PROVE Effect
  <2>1. req[h].pc \in {"punchOutRead", "lateRead"}
    BY <1>7 DEF PunchOutRead, LateRead, ReadOpen, At
  <2> DEFINE s == req[h].session
  <2>2. s \in SessionIds /\ session[s].status # "UNUSED"
    BY <2>1, <1>r DEF RequestOK
  <2>3. CASE Reply(h)
    BY <1>7, <2>3, <1>3 DEF PunchOutRead, LateRead, ReadOpen
  <2>4. CASE ~Reply(h)
    <3> DEFINE next == IF req[h].pc = "punchOutRead" THEN "punchOut" ELSE "latePunch"
               r == [req[h] EXCEPT !.pc = next, !.seen = events[s]]
    <3>1. /\ req' = [req EXCEPT ![h] = r] /\ IsOpen(s)
          /\ UNCHANGED <<session, events, now>>
          /\ req[h].pc = "lateRead" => ~(req[h].out <= session[s].first)
      BY <1>7, <2>4 DEF PunchOutRead, LateRead, ReadOpen, At, OutNotAfterIn
    <3>2. /\ r \in Request /\ r.pc = next /\ r.session = s
          /\ r.at = req[h].at /\ r.out = req[h].out /\ r.out \in Nat
      BY <1>r, <1>t, <2>2 DEF Request, Labels, AInv
    <3>3. s \in Used /\ session[s].first \in Nat
      BY <3>1, <2>2, <1>t DEF Used, IsOpen, AInv
    <3>4. req[h].pc = "punchOutRead" => session[s].first < r.at
      BY <1>r, <3>2, <3>3 DEF RequestOK
    <3>5. RequestOK(r)
      BY <2>1, <2>2, <3>1, <3>2, <3>3, <3>4 DEF RequestOK
    <3>6. r.at <= now
      BY <3>2 DEF AInv
    <3>7. req[h].pc # "idle" /\ r.pc # "idle"
      BY <2>1, <3>2
    <3> HIDE DEF r
    <3> QED BY <1>2, <3>1, <3>2, <3>5, <3>6, <3>7
  <2> QED BY <2>3, <2>4
\* A session is opened: its id was unused.
<1>8. ASSUME NEW h \in Handlers, PunchIn(h) PROVE Effect
  <2>1. CASE UNCHANGED <<session, events>>
    BY <1>8, <2>1, <1>3 DEF PunchIn
  <2>2. CASE ~UNCHANGED <<session, events>>
    <3> DEFINE t == req[h].at
               e == Entry("PUNCH_IN", t)
    <3>1. PICK s \in SessionIds :
            /\ session[s].status = "UNUSED"
            /\ session' = [session EXCEPT ![s] = OpenSession(t)]
            /\ events'  = [events EXCEPT ![s] = <<e>>]
      BY <1>8, <2>2 DEF PunchIn
    <3>2. req' = [req EXCEPT ![h] = Idle] /\ now' = now
      BY <1>8 DEF PunchIn, Reply
    <3>3. t \in Time /\ e \in EventRow
      BY <1>r DEF Request, Entry, EventRow, EventType, StartsWork
    <3>4. t <= now
      BY DEF AInv
    <3>5. Opened(s, t)
      BY <3>1 DEF Opened, AInv
    <3>6. \A r \in SessionIds : r # s => Kept(r)
      BY <3>1 DEF Kept, AInv
    <3>7. DOMAIN session' = SessionIds /\ events' \in [SessionIds -> Seq(EventRow)]
      BY <3>1, <3>3 DEF AInv
    <3>8. req[h].pc # "idle"
      BY <1>8 DEF PunchIn, At
    <3> QED BY <3>2, <3>5, <3>6, <3>7, <3>8 DEF Effect, Writes
  <2> QED BY <2>1, <2>2
\* An event is appended to a session, or the session has been deleted.
<1>9. ASSUME NEW h \in Handlers, BreakStart(h) \/ BreakEnd(h) PROVE Effect
  <2> DEFINE s == req[h].session
             t == req[h].at
  <2>1. PICK type \in {"BREAK_START", "BREAK_END"} :
          /\ \/ s \in Used /\ events' = [events EXCEPT ![s] = Append(@, Entry(type, t))]
             \/ UNCHANGED events
          /\ req' = [req EXCEPT ![h] = Idle] /\ UNCHANGED <<session, now>>
    BY <1>9 DEF BreakStart, BreakEnd, AppendEvent, Reply
  <2>2. CASE UNCHANGED events
    BY <2>1, <2>2, <1>3 DEF Reply
  <2>3. CASE ~UNCHANGED events
    <3>1. s \in Used /\ events' = [events EXCEPT ![s] = Append(@, Entry(type, t))]
      BY <2>1, <2>3
    <3>2. t \in Time /\ Entry(type, t) \in EventRow
      BY <1>r DEF Request, Entry, EventRow, EventType, StartsWork
    <3>3. /\ s \in SessionIds /\ session[s].status # "UNUSED"
          /\ events'[s] = Append(events[s], Entry(type, t))
          /\ \A r \in SessionIds : r # s => events'[r] = events[r]
          /\ events' \in [SessionIds -> Seq(EventRow)]
      BY <3>1, <3>2, LogAppended DEF Used, AInv
    <3>4. Paused(s, t) /\ \A r \in SessionIds : r # s => Kept(r)
      BY <2>1, <3>2, <3>3 DEF Paused, Kept
    <3>5. DOMAIN session' = SessionIds
      BY <2>1 DEF AInv
    <3>6. req[h].pc # "idle"
      BY <1>9 DEF BreakStart, BreakEnd, AppendEvent, At
    <3> QED BY <2>1, <3>3, <3>4, <3>5, <3>6 DEF Effect, Writes
  <2> QED BY <2>2, <2>3
\* A session is closed, by a punch-out or by a late punch-out that opens another.
<1>10. ASSUME NEW h \in Handlers, PunchOut(h) PROVE Effect
  <2> DEFINE s == req[h].session
             e == Entry("PUNCH_OUT", req[h].at)
             totals == TotalsAtClose(req[h].seen, e)
  <2>1. /\ req[h].pc = "punchOut" /\ req' = [req EXCEPT ![h] = Idle] /\ now' = now
        /\ \/ Close(s, "NORMAL", e, req[h].seen)
           \/ UNCHANGED <<session, events>>
    BY <1>10 DEF PunchOut, At, Reply
  <2>2. CASE UNCHANGED <<session, events>>
    BY <2>1, <2>2, <1>3 DEF Reply
  <2>3. CASE Close(s, "NORMAL", e, req[h].seen)
    <3>1. /\ s \in Used /\ session' = [session EXCEPT ![s] = Closed(@, "NORMAL", e.at, totals)]
          /\ events' = [events EXCEPT ![s] = Append(@, e)]
      BY <2>3 DEF Close
    <3>2. e \in EventRow /\ e.type \in EndsDay /\ KindOf(e) = "NORMAL" /\ e.at = req[h].at
      BY <1>r DEF Request, Entry, EventRow, EventType, EndsDay, KindOf
    <3>3. session[s].first < e.at /\ s \in SessionIds
      BY <1>r, <1>u, <2>1, <3>1, <3>2 DEF RequestOK
    <3> HIDE DEF e, totals
    <3>4. /\ session'[s] = Closed(session[s], "NORMAL", e.at, totals)
          /\ events'[s] = Append(events[s], e)
          /\ \A r \in SessionIds : r # s => Kept(r)
          /\ DOMAIN session' = SessionIds
          /\ events' \in [SessionIds -> Seq(EventRow)]
      BY <3>1, <3>2, <3>3, LogAppended DEF AInv, Kept
    <3>5. Ended(s)
      BY <3>1, <3>2, <3>3, <3>4 DEF Ended
    <3> QED BY <2>1, <3>4, <3>5 DEF Effect, Writes
  <2> QED BY <2>1, <2>2, <2>3
<1>11. ASSUME NEW h \in Handlers, LatePunch(h) PROVE Effect
  <2> DEFINE p == req[h].session
             t == req[h].at
             e == Entry("LATE_PUNCH_OUT", req[h].out)
             totals == TotalsAtClose(req[h].seen, e)
             first == Entry("PUNCH_IN", t)
  <2>1. req[h].pc = "latePunch" /\ req' = [req EXCEPT ![h] = Idle] /\ now' = now
    BY <1>11 DEF LatePunch, At, Reply
  <2>2. CASE UNCHANGED <<session, events>>
    BY <2>1, <2>2, <1>3 DEF Reply
  <2>3. CASE ~UNCHANGED <<session, events>>
    <3>1. /\ p \in Used
          /\ \E s \in SessionIds :
               /\ session[s].status = "UNUSED"
               /\ session' = [session EXCEPT ![p] = Closed(@, "LATE", req[h].out, totals),
                                             ![s] = OpenSession(t)]
               /\ events' = [events EXCEPT ![p] = Append(@, e), ![s] = <<first>>]
      BY <1>11, <2>3 DEF LatePunch
    <3>2. PICK s \in SessionIds :
            /\ session[s].status = "UNUSED"
            /\ session' = [session EXCEPT ![p] = Closed(@, "LATE", req[h].out, totals),
                                          ![s] = OpenSession(t)]
            /\ events' = [events EXCEPT ![p] = Append(@, e), ![s] = <<first>>]
      BY <3>1
    <3>3. /\ e \in EventRow /\ e.type \in EndsDay /\ KindOf(e) = "LATE" /\ e.at = req[h].out
          /\ t \in Time /\ first \in EventRow /\ t <= now
      BY <1>r DEF Request, Entry, EventRow, EventType, EndsDay, StartsWork, KindOf, AInv
    <3>4. session[p].first < e.at /\ p \in SessionIds /\ p # s
      <4>1. p # s /\ p \in SessionIds
        BY <3>1, <3>2 DEF Used
      <4> QED BY <1>r, <2>1, <3>1, <3>3, <4>1 DEF RequestOK
    <3> HIDE DEF e, totals, first, t, p
    <3>5. /\ session'[p] = Closed(session[p], "LATE", e.at, totals)
          /\ events'[p] = Append(events[p], e)
          /\ session'[s] = OpenSession(t) /\ events'[s] = <<first>>
          /\ \A r \in SessionIds : r # s /\ r # p => Kept(r)
          /\ DOMAIN session' = SessionIds
      BY <3>2, <3>3, <3>4 DEF AInv, Kept
    <3>6. events' \in [SessionIds -> Seq(EventRow)]
      <4>1. Append(events[p], e) \in Seq(EventRow) /\ <<first>> \in Seq(EventRow)
        BY <3>3, <3>4, LogAppended DEF AInv
      <4> QED BY <3>2, <4>1 DEF AInv
    <3>7. Ended(p)
      <4>1. session'[p] = Closed(session[p], KindOf(e), e.at, totals)
        BY <3>3, <3>5
      <4>2. e \in EventRow /\ p \in Used /\ e.type \in EndsDay
        BY <3>1, <3>3
      <4> QED BY <3>4, <3>5, <4>1, <4>2 DEF Ended
    <3>8. Opened(s, t)
      BY <3>2, <3>5 DEF Opened, first
    <3> QED BY <2>1, <3>5, <3>6, <3>7, <3>8 DEF Effect, Writes, t
  <2> QED BY <2>2, <2>3
<1>12. ASSUME DeleteStaff PROVE Effect
  <2>1. \A s \in SessionIds : Kept(s) \/ Removed(s)
    <3>1. ASSUME NEW s \in Used PROVE Removed(s)
      BY <1>12, <1>u, <3>1 DEF DeleteStaff, Removed, Used, DeletedSession, UnusedSession
    <3>2. ASSUME NEW s \in SessionIds, s \notin Used PROVE Kept(s)
      BY <1>12, <3>2 DEF DeleteStaff, Kept
    <3> QED BY <3>1, <3>2
  <2>2. DOMAIN session' = SessionIds /\ events' \in [SessionIds -> Seq(EventRow)]
    BY <1>12 DEF DeleteStaff
  <2> QED BY <1>12, <2>1, <2>2 DEF DeleteStaff, Effect, Deletes
<1>13. ASSUME UNCHANGED vars PROVE Effect
  <2>1. \A s \in SessionIds : Kept(s)
    BY <1>13 DEF vars, Kept
  <2> QED BY <1>13, <2>1 DEF vars, AInv, Effect, Deletes
<1>14. ASSUME NEW h \in Handlers, Step(h) PROVE Effect
  BY <1>14, <1>5, <1>6, <1>7, <1>8, <1>9, <1>10, <1>11 DEF Step
<1>15. ASSUME NEW h \in Handlers, Abort(h) PROVE Effect
  BY <1>15, <1>3 DEF Abort
<1> QED BY <1>1, <1>12, <1>13, <1>14, <1>15 DEF Next

\* So every step keeps the invariant.
LEMMA AStep ==
  ASSUME HonestClock PROVE AInv /\ [Next]_vars => AInv'
<1> SUFFICES ASSUME AInv, [Next]_vars PROVE AInv'
  OBVIOUS
<1>t. Time \subseteq Nat /\ now \in Time /\ Idle \in Request
  BY BoundAssumption, IdleOK DEF Time, AInv
<1>1. CASE Moves
  <2>1. PICK h \in Handlers, r \in Request :
          /\ RequestOK(r) /\ req' = [req EXCEPT ![h] = r] /\ UNCHANGED <<session, events>>
          /\ now' \in Time /\ now <= now' /\ r.at <= now'
    BY <1>1 DEF Moves
  <2> QED BY <2>1, ReadStep
<1>2. CASE Writes
  <2>1. PICK h \in Handlers :
          /\ req' = [req EXCEPT ![h] = Idle] /\ now' = now
          /\ DOMAIN session' = SessionIds /\ events' \in [SessionIds -> Seq(EventRow)]
          /\ \A s \in SessionIds : \/ Kept(s) \/ Ended(s)
                                   \/ Opened(s, req[h].at) \/ Paused(s, req[h].at)
    BY <1>2 DEF Writes
  <2>2. PICK t \in Time : t = req[h].at /\ t <= now
    BY DEF AInv, Request
  <2>3. /\ req' \in [Handlers -> Request]
        /\ \A g \in Handlers : req'[g] \in {req[g], Idle}
    BY <1>t, <2>1 DEF AInv
  <2>4. \A s \in SessionIds : \/ Kept(s) \/ Removed(s) \/ Ended(s)
                              \/ Opened(s, t) \/ Paused(s, t)
    BY <2>1, <2>2
  <2> QED BY <2>1, <2>2, <2>3, <2>4, RowsStep
<1>3. CASE Deletes
  <2>1. /\ req' \in [Handlers -> Request]
        /\ \A g \in Handlers : req'[g] \in {req[g], Idle}
    BY <1>3 DEF Deletes, AInv
  <2>2. now \in Time /\ now <= now
    BY <1>t
  <2> QED BY <1>3, <2>1, <2>2, RowsStep DEF Deletes
<1> QED BY <1>1, <1>2, <1>3, Effects DEF Effect

\* With request times that only grow, a session and its events tell one story
\* however many handlers close, pause and delete it at once: SessionsAgree.
THEOREM SessionsAlwaysAgree == HonestClock /\ Spec => []SessionsAgree
<1> SUFFICES ASSUME HonestClock PROVE Spec => []SessionsAgree
  OBVIOUS
<1>1. Init => AInv
  BY AInit
<1>2. AInv /\ [Next]_vars => AInv'
  BY AStep
<1>3. AInv => SessionsAgree
  BY DEF AInv
<1> QED BY <1>1, <1>2, <1>3, PTL DEF Spec
-----------------------------------------------------------------------------
(* Totals: the lemmas about recalcTotals, for the times of this module *)

Work == INSTANCE RecalcTotalsProofs
          WITH Times <- Nat, Logs <- {}, log <- events, next <- now, acc <- req

\* The accumulators of RecalcTotals, here and there.
After(evs) ==
  LET after[i \in 0..Len(evs)] == IF i = 0 THEN Nothing ELSE CountEvent(after[i-1], evs[i])
  IN after

LocalAfter(evs) ==
  LET after[i \in 0..Len(evs)] == IF i = 0 THEN Nothing ELSE CountLocally(after[i-1], evs[i])
  IN after

\* The operators of WorkTime mean the same in both modules.
LEMMA SameOperators ==
  /\ \A evs : SortByTime(evs) = Work!SortByTime(evs)
  /\ \A raw : Floored(raw) = Work!Floored(raw)
  /\ \A raw : RecalcTotals(raw) = Work!RecalcTotals(raw)
  /\ \A raw : RecalcTotalsLocal(raw) = Work!RecalcTotalsLocal(raw)
<1>1. ASSUME NEW evs PROVE SortByTime(evs) = Work!SortByTime(evs)
  BY DEF SortByTime, Work!SortByTime, Places, Work!Places, ComesFirst, Work!ComesFirst,
         Before, Work!Before, Cardinality, Work!Cardinality
<1>2. ASSUME NEW raw PROVE Floored(raw) = Work!Floored(raw)
  BY DEF Floored, Work!Floored, FloorToSecond, Work!FloorToSecond
<1>3. ASSUME NEW evs PROVE After(evs) = Work!After(evs)
  BY DEF After, Work!After, Nothing, Work!Nothing, CountEvent, Work!CountEvent,
         Elapsed, Work!Elapsed, NoTime, Work!NoTime, StartsWork, Work!StartsWork,
         EndsDay, Work!EndsDay
<1>4. ASSUME NEW raw PROVE RecalcTotals(raw) = Work!RecalcTotals(raw)
  <2> DEFINE evs == SortByTime(Floored(raw))
             ews == Work!SortByTime(Work!Floored(raw))
  <2>1. RecalcTotals(raw) = [work |-> After(evs)[Len(evs)].work,
                             break |-> After(evs)[Len(evs)].break]
    BY DEF RecalcTotals, After
  <2>2. Work!RecalcTotals(raw) = [work |-> Work!After(ews)[Len(ews)].work,
                                  break |-> Work!After(ews)[Len(ews)].break]
    BY DEF Work!RecalcTotals, Work!After
  <2>3. evs = ews /\ After(evs) = Work!After(ews)
    BY <1>1, <1>2, <1>3
  <2> HIDE DEF evs, ews
  <2> QED BY <2>1, <2>2, <2>3
<1>5. ASSUME NEW evs PROVE LocalAfter(evs) = Work!LocalAfter(evs)
  BY DEF LocalAfter, Work!LocalAfter, Nothing, Work!Nothing, CountLocally, Work!CountLocally,
         Rested, Work!Rested, Worked, Work!Worked, NoTime, Work!NoTime, StartsWork,
         Work!StartsWork, EndsDay, Work!EndsDay
<1>6. ASSUME NEW raw PROVE RecalcTotalsLocal(raw) = Work!RecalcTotalsLocal(raw)
  <2> DEFINE evs == SortByTime(Floored(raw))
             ews == Work!SortByTime(Work!Floored(raw))
  <2>1. RecalcTotalsLocal(raw) = [work |-> LocalAfter(evs)[Len(evs)].work,
                                  break |-> LocalAfter(evs)[Len(evs)].break]
    BY DEF RecalcTotalsLocal, LocalAfter
  <2>2. Work!RecalcTotalsLocal(raw) = [work |-> Work!LocalAfter(ews)[Len(ews)].work,
                                       break |-> Work!LocalAfter(ews)[Len(ews)].break]
    BY DEF Work!RecalcTotalsLocal, Work!LocalAfter
  <2>3. evs = ews /\ LocalAfter(evs) = Work!LocalAfter(ews)
    BY <1>1, <1>2, <1>5
  <2> HIDE DEF evs, ews
  <2> QED BY <2>1, <2>2, <2>3
<1> QED BY <1>1, <1>2, <1>4, <1>6

\* Times keep their order when they are cut to seconds.
LEMMA FloorOrders ==
  ASSUME NEW t \in Nat, NEW u \in Nat
  PROVE  /\ FloorToSecond(t) \in Nat
         /\ t <= u => FloorToSecond(t) <= FloorToSecond(u)
BY SecondAssumption DEF FloorToSecond

LEMMA DayTyped == ASSUME NEW t \in Nat PROVE StartOfDay(t) \in Nat
BY DayAssumption DEF StartOfDay

\* A log of the table is one the lemmas are about, and stays as long when it is
\* cut to seconds.
LEMMA FlooredTyped ==
  ASSUME NEW raw \in Seq(EventRow)
  PROVE  /\ raw \in Seq(Work!Event) /\ Floored(raw) \in Seq(Work!Event)
         /\ Len(Floored(raw)) = Len(raw) /\ Len(raw) \in Nat
         /\ \A i \in 1..Len(raw) : /\ raw[i] \in EventRow /\ raw[i].at \in Nat
                                   /\ Floored(raw)[i].type = raw[i].type
                                   /\ Floored(raw)[i].at = FloorToSecond(raw[i].at)
<1>1. Work!Event = [type : EventType, at : Nat]
  BY DEF Work!Event, EventType, Work!EventType, StartsWork, Work!StartsWork,
         EndsDay, Work!EndsDay
<1>2. Len(raw) \in Nat /\ \A i \in 1..Len(raw) : raw[i] \in EventRow
  OBVIOUS
<1>3. EventRow \subseteq Work!Event /\ \A e \in EventRow : e.at \in Nat
  BY <1>1, BoundAssumption DEF EventRow, Time
<1>4. raw \in Seq(Work!Event)
  BY <1>3
<1>5. ASSUME NEW i \in 1..Len(raw)
      PROVE  /\ Floored(raw)[i] \in Work!Event
             /\ Floored(raw)[i].type = raw[i].type
             /\ Floored(raw)[i].at = FloorToSecond(raw[i].at)
  <2>1. Floored(raw)[i] = [raw[i] EXCEPT !.at = FloorToSecond(raw[i].at)]
    BY DEF Floored
  <2>2. FloorToSecond(raw[i].at) \in Nat /\ raw[i] \in EventRow
    BY <1>2, <1>3, FloorOrders
  <2> QED BY <1>1, <2>1, <2>2 DEF EventRow
<1>6. Floored(raw) \in [1..Len(raw) -> Work!Event]
  <2>1. Floored(raw) = [i \in 1..Len(raw) |-> Floored(raw)[i]]
    BY DEF Floored
  <2> QED BY <1>5, <2>1
<1> QED BY <1>2, <1>3, <1>4, <1>5, <1>6

\* Sorting the events of a session changes neither what they are nor, when they
\* are in order, the log.
InOrder(log) == \A i, j \in 1..Len(log) : i < j => log[i].at <= log[j].at

LEMMA SortTyped ==
  ASSUME NEW log \in Seq(EventRow)
  PROVE  /\ SortByTime(log) \in Seq(EventRow)
         /\ Len(SortByTime(log)) = Len(log)
         /\ \A n \in 1..Len(log) : \E i \in 1..Len(log) : SortByTime(log)[n] = log[i]
         /\ InOrder(log) => SortByTime(log) = log
<1>1. log \in Seq(Work!Event) /\ Len(log) \in Nat
  BY FlooredTyped
<1>2. /\ Work!SortByTime(log) \in Seq(Work!Event)
      /\ Len(Work!SortByTime(log)) = Len(log)
      /\ \A n \in 1..Len(log) : \E i \in 1..Len(log) : Work!SortByTime(log)[n] = log[i]
  BY <1>1, SecondAssumption, Work!SortOrders
<1>3. InOrder(log) => Work!SortByTime(log) = log
  <2>1. Work!Ordered(log) <=> InOrder(log)
    BY DEF Work!Ordered, InOrder
  <2> QED BY <1>1, <2>1, SecondAssumption, Work!SortOfOrdered
<1>5. Work!SortByTime(log) \in Seq(EventRow)
  <2>1. PICK sorted : sorted = Work!SortByTime(log)
    OBVIOUS
  <2>2. \A n \in 1..Len(log) : sorted[n] \in EventRow
    BY <1>2, <2>1, FlooredTyped
  <2>3. sorted \in Seq(Work!Event) /\ Len(sorted) = Len(log)
    BY <1>2, <2>1
  <2> HIDE DEF EventRow, Work!Event
  <2>4. sorted = [n \in 1..Len(log) |-> sorted[n]]
    BY <2>3
  <2>5. sorted \in [1..Len(log) -> EventRow]
    BY <2>2, <2>4
  <2>6. sorted \in Seq(EventRow)
    BY <1>1, <2>5
  <2> QED BY <2>1, <2>6
<1> QED BY <1>2, <1>3, <1>5, SameOperators

\* The totals of any events are not negative and fit between two of them.
LEMMA TotalsFitEvents ==
  ASSUME NEW raw \in Seq(EventRow), Len(raw) # 0
  PROVE  /\ RecalcTotals(raw).work \in Nat /\ RecalcTotals(raw).break \in Nat
         /\ \E i, j \in 1..Len(raw) :
              RecalcTotals(raw).work + RecalcTotals(raw).break
                <= FloorToSecond(raw[j].at) - FloorToSecond(raw[i].at)
<1>1. /\ Floored(raw) \in Seq(Work!Event) /\ Len(Floored(raw)) = Len(raw)
      /\ \A i \in 1..Len(raw) : Floored(raw)[i].at = FloorToSecond(raw[i].at)
  BY FlooredTyped
<1>2. Work!Floored(raw) = Floored(raw) /\ Work!RecalcTotals(raw) = RecalcTotals(raw)
  BY SameOperators
<1>3. Work!Floored(raw) \in Seq(Work!Event) /\ Len(Work!Floored(raw)) # 0
  BY <1>1, <1>2
<1>4. /\ Work!RecalcTotals(raw).work \in Nat /\ Work!RecalcTotals(raw).break \in Nat
      /\ \E i, j \in 1..Len(Work!Floored(raw)) :
           Work!RecalcTotals(raw).work + Work!RecalcTotals(raw).break
             <= Work!Floored(raw)[j].at - Work!Floored(raw)[i].at
  BY <1>3, SecondAssumption, Work!TotalsFit
<1> QED BY <1>1, <1>2, <1>4

\* So do the totals stored at closing.
LEMMA CloseFits ==
  ASSUME NEW seen \in Seq(EventRow), NEW e \in EventRow
  PROVE  LET totals == TotalsAtClose(seen, e)
             evs == {seen[i] : i \in 1..Len(seen)} \cup {e} IN
         /\ totals.work \in Nat /\ totals.break \in Nat
         /\ \E f, g \in evs :
              totals.work + totals.break <= FloorToSecond(g.at) - FloorToSecond(f.at)
<1> DEFINE sorted == SortByTime(seen)
           raw == Append(sorted, e)
           evs == {seen[i] : i \in 1..Len(seen)} \cup {e}
<1>1. /\ sorted \in Seq(EventRow) /\ Len(sorted) = Len(seen)
      /\ \A n \in 1..Len(seen) : \E i \in 1..Len(seen) : sorted[n] = seen[i]
  BY SortTyped
<1> HIDE DEF sorted
<1>2. /\ raw \in Seq(EventRow) /\ Len(raw) # 0
      /\ \A n \in 1..Len(raw) : n \in 1..Len(seen) \/ raw[n] = e
      /\ \A n \in 1..Len(seen) : n \in 1..Len(raw) => raw[n] = sorted[n]
  BY <1>1
<1>3. \A n \in 1..Len(raw) : raw[n] \in evs
  <2> SUFFICES ASSUME NEW n \in 1..Len(raw) PROVE raw[n] \in evs
    OBVIOUS
  <2> HIDE DEF raw
  <2> QED BY <1>1, <1>2
<1>4. TotalsAtClose(seen, e) = RecalcTotals(raw)
  BY DEF TotalsAtClose, sorted
<1> HIDE DEF raw, evs
<1>5. /\ RecalcTotals(raw).work \in Nat /\ RecalcTotals(raw).break \in Nat
      /\ \E i, j \in 1..Len(raw) :
           RecalcTotals(raw).work + RecalcTotals(raw).break
             <= FloorToSecond(raw[j].at) - FloorToSecond(raw[i].at)
  BY <1>2, TotalsFitEvents
<1>6. \E f, g \in evs :
        RecalcTotals(raw).work + RecalcTotals(raw).break
          <= FloorToSecond(g.at) - FloorToSecond(f.at)
  BY <1>3, <1>5
<1> QED BY <1>4, <1>5, <1>6 DEF evs
-----------------------------------------------------------------------------
(* Types and totals, whatever the clocks say *)

Asked == Labels \ {"idle", "punchInOld", "punchInToday", "punchIn"}

\* A request is about a session that has been opened, and what a closing has read
\* of it is still there.
AskOK(r) ==
  /\ r.pc \in Asked => r.session \in SessionIds /\ session[r.session].status # "UNUSED"
  /\ r.pc \in {"punchOut", "latePunch"} /\ r.session \in Used =>
       \A i \in 1..Len(r.seen) : r.seen[i] \in EventsOf(r.session)

TotalsFitRow(row, evs) ==
  row.status = "CLOSED" =>
    \E e, f \in evs : row.work + row.break <= FloorToSecond(f.at) - FloorToSecond(e.at)

\* The invariant that does without the clock.
TInv ==
  /\ TypeOK
  /\ \A h \in Handlers : AskOK(req[h])
  /\ \A s \in Used : TotalsFitRow(session[s], EventsOf(s))

\* The initial tables satisfy it.
LEMMA TInit == Init => TInv
<1> SUFFICES ASSUME Init PROVE TInv
  OBVIOUS
<1>1. Used = {}
  BY DEF Init, Used, UnusedSession
<1>2. session \in [SessionIds -> SessionRow]
  BY DEF Init, UnusedSession, SessionRow
<1>3. req \in [Handlers -> Request] /\ now \in Time
  BY BoundAssumption DEF Init, Idle, Request, Labels, Time
<1>4. events \in [SessionIds -> Seq(EventRow)] /\ employed \in BOOLEAN
  BY DEF Init
<1>5. \A h \in Handlers : AskOK(req[h])
  BY DEF Init, Idle, AskOK, Asked
<1> QED BY <1>1, <1>2, <1>3, <1>4, <1>5 DEF TInv, TypeOK

\* A step that moves one request on and leaves the tables keeps it.
LEMMA TMoves ==
  ASSUME TInv, NEW h \in Handlers, NEW r \in Request, AskOK(r),
         req' = [req EXCEPT ![h] = r], UNCHANGED <<session, events, employed>>,
         now' \in Time
  PROVE  TInv'
<1>1. Used' = Used /\ Used \subseteq SessionIds
      /\ \A s \in SessionIds : EventsOf(s)' = EventsOf(s)
  BY DEF Used, EventsOf
<1>2. TypeOK'
  BY DEF TInv, TypeOK
<1>3. \A g \in Handlers : AskOK(req'[g])
  BY DEF TInv, TypeOK
<1>4. ASSUME NEW g \in Handlers PROVE AskOK(req[g])'
  BY <1>1, <1>3 DEF AskOK
<1>5. \A s \in Used : TotalsFitRow(session'[s], EventsOf(s)')
  BY <1>1 DEF TInv
<1> QED BY <1>1, <1>2, <1>4, <1>5 DEF TInv, TotalsFitRow

\* What a step may do to the row and the events of a session.
Grows(s) ==
  /\ session[s].status # "UNUSED" => session'[s].status # "UNUSED"
  /\ s \in Used' => /\ \/ s \in Used /\ EventsOf(s) \subseteq EventsOf(s)'
                       \/ session[s].status = "UNUSED"
                    /\ TotalsFitRow(session'[s], EventsOf(s)')

\* A step that answers requests and does that keeps it too.
LEMMA TRows ==
  ASSUME TInv, TypeOK', \A g \in Handlers : req'[g] \in {req[g], Idle},
         \A s \in SessionIds : Grows(s)
  PROVE  TInv'
<1>1. Used \subseteq SessionIds /\ Used' \subseteq SessionIds
  BY DEF Used
<1>2. ASSUME NEW g \in Handlers PROVE AskOK(req[g])'
  <2>1. CASE req'[g] = req[g]
    <3>1. AskOK(req[g])
      BY DEF TInv
    <3>2. req[g].pc \in Asked => Grows(req[g].session)
      BY <3>1 DEF AskOK
    <3>3. req[g].pc \in Asked =>
            req[g].session \in SessionIds /\ session'[req[g].session].status # "UNUSED"
      BY <3>1, <3>2 DEF AskOK, Grows
    <3>4. ASSUME req[g].pc \in {"punchOut", "latePunch"}, req[g].session \in Used'
          PROVE  \A i \in 1..Len(req[g].seen) : req[g].seen[i] \in EventsOf(req[g].session)'
      <4>1. req[g].pc \in Asked
        BY <3>4 DEF Asked, Labels
      <4>2. req[g].session \in Used
            /\ EventsOf(req[g].session) \subseteq EventsOf(req[g].session)'
        BY <3>1, <3>2, <3>4, <4>1 DEF Grows, AskOK
      <4> QED BY <3>1, <3>4, <4>2 DEF AskOK
    <3> QED BY <2>1, <3>3, <3>4 DEF AskOK
  <2>2. CASE req'[g] = Idle
    BY <2>2 DEF AskOK, Idle, Asked
  <2> QED BY <2>1, <2>2
<1>3. \A s \in Used' : TotalsFitRow(session'[s], EventsOf(s)')
  BY <1>1 DEF Grows
<1> QED BY <1>2, <1>3 DEF TInv, TotalsFitRow

\* Rows that may be stored.
LEMMA OpenTyped ==
  ASSUME NEW t \in Time
  PROVE  OpenSession(t) \in SessionRow /\ OpenSession(t).status = "OPEN"
<1>1. t \in Nat
  BY BoundAssumption DEF Time
<1>2. OpenSession(t) = [status |-> "OPEN", date |-> StartOfDay(t), first |-> t,
                        last |-> NoTime, work |-> 0, break |-> 0,
                        closure |-> "none", late |-> FALSE]
  <2>1. PICK d : d = StartOfDay(t)
    OBVIOUS
  <2>2. OpenSession(t) = [UnusedSession EXCEPT !.status = "OPEN", !.date = d, !.first = t]
    BY <2>1 DEF OpenSession
  <2> QED BY <2>1, <2>2 DEF UnusedSession
<1>3. StartOfDay(t) \in Nat
  BY <1>1, DayTyped
<1> QED BY <1>2, <1>3 DEF SessionRow

LEMMA ClosedTyped ==
  ASSUME NEW row \in SessionRow, NEW kind \in {"NORMAL", "LATE"}, NEW t \in Time,
         NEW totals, totals.work \in Nat, totals.break \in Nat
  PROVE  /\ Closed(row, kind, t, totals) \in SessionRow
         /\ Closed(row, kind, t, totals).status = "CLOSED"
         /\ Closed(row, kind, t, totals).work = totals.work
         /\ Closed(row, kind, t, totals).break = totals.break
BY DEF Closed, SessionRow

LEMMA DeletedTyped == DeletedSession \in SessionRow /\ DeletedSession.status = "DELETED"
BY DEF DeletedSession, UnusedSession, SessionRow

\* Closing a session with the totals of what was read of it.
LEMMA CloseGrows ==
  ASSUME TInv, NEW h \in Handlers, req[h].pc \in {"punchOut", "latePunch"},
         NEW s \in Used, s = req[h].session,
         NEW e \in EventRow, NEW kind \in {"NORMAL", "LATE"},
         session'[s] = Closed(session[s], kind, e.at, TotalsAtClose(req[h].seen, e)),
         events'[s] = Append(events[s], e)
  PROVE  /\ Grows(s)
         /\ session'[s] \in SessionRow
         /\ events'[s] \in Seq(EventRow)
<1> DEFINE seen == req[h].seen
           totals == TotalsAtClose(seen, e)
<1>1. /\ seen \in Seq(EventRow) /\ s \in SessionIds /\ session[s] \in SessionRow
      /\ events[s] \in Seq(EventRow) /\ e.at \in Time
  BY DEF TInv, TypeOK, Request, Used, EventRow
<1>2. EventsOf(s)' = EventsOf(s) \cup {e} /\ events'[s] \in Seq(EventRow)
  BY <1>1, EventsAppended
<1>3. /\ totals.work \in Nat /\ totals.break \in Nat
      /\ \E f, g \in {seen[i] : i \in 1..Len(seen)} \cup {e} :
           totals.work + totals.break <= FloorToSecond(g.at) - FloorToSecond(f.at)
  BY <1>1, CloseFits
<1>4. {seen[i] : i \in 1..Len(seen)} \cup {e} \subseteq EventsOf(s)'
  <2>1. AskOK(req[h])
    BY DEF TInv
  <2> QED BY <1>2, <2>1 DEF AskOK
<1> HIDE DEF totals
<1>5. /\ session'[s] \in SessionRow /\ session'[s].status = "CLOSED"
      /\ session'[s].work = totals.work /\ session'[s].break = totals.break
  <2>1. session'[s] = Closed(session[s], kind, e.at, totals)
    BY DEF totals
  <2> QED BY <1>1, <1>3, <2>1, ClosedTyped
<1>6. TotalsFitRow(session'[s], EventsOf(s)')
  BY <1>3, <1>4, <1>5 DEF TotalsFitRow
<1> QED BY <1>2, <1>5, <1>6 DEF Grows

\* A session whose row and events stay.
LEMMA KeptGrows ==
  ASSUME TInv, NEW s \in SessionIds, session'[s] = session[s],
         s \in Used => EventsOf(s) \subseteq EventsOf(s)'
  PROVE  Grows(s)
<1>1. s \in Used' <=> s \in Used
  BY DEF Used
<1>2. s \in Used => TotalsFitRow(session[s], EventsOf(s)')
  BY DEF TInv, TotalsFitRow
<1> QED BY <1>1, <1>2 DEF Grows

LEMMA UnusedGrows ==
  ASSUME NEW s \in SessionIds, session[s].status = "UNUSED",
         NEW t, session'[s] = OpenSession(t)
  PROVE  Grows(s)
BY DEF Grows, OpenSession, UnusedSession, TotalsFitRow

\* Every step keeps the invariant.
LEMMA TStep == TInv /\ [Next]_vars => TInv'
<1> SUFFICES ASSUME TInv, [Next]_vars PROVE TInv'
  OBVIOUS
<1>t. /\ session \in [SessionIds -> SessionRow] /\ events \in [SessionIds -> Seq(EventRow)]
      /\ employed \in BOOLEAN /\ req \in [Handlers -> Request] /\ now \in Time
  BY DEF TInv, TypeOK
<1>i. Idle \in Request /\ AskOK(Idle) /\ Used \subseteq SessionIds
  BY IdleOK DEF AskOK, Idle, Asked, Used
\* A request arrives.
<1>1. ASSUME NEW h \in Handlers, NEW t \in Time, NEW r \in Request, Arrive(h, t, r),
             r.pc \in {"punchInOld", "breakStartRead", "breakEndRead", "punchOutRead",
                       "lateRead"},
             r.pc # "punchInOld" => r.session \in Used
      PROVE  TInv'
  <2>1. AskOK(r)
    BY <1>1, <1>i DEF AskOK, Used, Asked
  <2>2. /\ req' = [req EXCEPT ![h] = r] /\ UNCHANGED <<session, events, employed>>
        /\ now' \in Time
    BY <1>1, <1>t DEF Arrive
  <2> QED BY <2>1, <2>2, TMoves
<1>2. ASSUME NEW h \in Handlers, Ask(h) PROVE TInv'
  <2>1. CASE AskPunchIn(h)
    <3>1. PICK t \in Time : Arrive(h, t, [Idle EXCEPT !.pc = "punchInOld", !.at = t])
      BY <2>1 DEF AskPunchIn
    <3>2. /\ [Idle EXCEPT !.pc = "punchInOld", !.at = t] \in Request
          /\ [Idle EXCEPT !.pc = "punchInOld", !.at = t].pc = "punchInOld"
      BY <1>i DEF Request, Labels, Idle
    <3> QED BY <1>1, <3>1, <3>2
  <2>2. ASSUME NEW label \in {"breakStartRead", "breakEndRead", "punchOutRead"},
               AskOnSession(h, label)
        PROVE  TInv'
    <3>1. PICK t \in Time, s \in Used :
            Arrive(h, t, [Idle EXCEPT !.pc = label, !.session = s, !.at = t])
      BY <2>2 DEF AskOnSession
    <3> DEFINE r == [Idle EXCEPT !.pc = label, !.session = s, !.at = t]
    <3>2. r \in Request /\ r.pc = label /\ r.session = s
      BY <1>i DEF Request, Labels, Idle
    <3> QED BY <1>1, <3>1, <3>2
  <2>3. CASE AskLatePunch(h)
    <3>1. PICK t \in Time, out \in Time, s \in Used :
            Arrive(h, t, [Idle EXCEPT !.pc = "lateRead", !.session = s, !.at = t,
                                      !.out = out])
      BY <2>3 DEF AskLatePunch
    <3> DEFINE r == [Idle EXCEPT !.pc = "lateRead", !.session = s, !.at = t, !.out = out]
    <3>2. r \in Request /\ r.pc = "lateRead" /\ r.session = s
      BY <1>i DEF Request, Labels, Idle
    <3> QED BY <1>1, <3>1, <3>2
  <2> QED BY <1>2, <2>1, <2>2, <2>3 DEF Ask
\* A handler answers or goes on with its tables unchanged.
<1>3. ASSUME NEW h \in Handlers, Reply(h), UNCHANGED <<session, events, employed, now>>
      PROVE  TInv'
  BY <1>3, <1>i, <1>t, TMoves DEF Reply
<1>4. ASSUME NEW h \in Handlers, NEW label \in Labels, GoOn(h, label),
             UNCHANGED <<session, events, employed, now>>,
             \/ label \in {"punchInToday", "punchIn"}
             \/ label \in {"breakStart", "breakEnd"} /\ req[h].pc \in Asked
      PROVE  TInv'
  <2> DEFINE r == [req[h] EXCEPT !.pc = label]
  <2>1. r \in Request /\ r.pc = label /\ r.session = req[h].session
    <3>1. req[h] \in Request
      BY <1>t
    <3> QED BY <3>1 DEF Request
  <2>2. req' = [req EXCEPT ![h] = r]
    BY <1>4, <1>t DEF GoOn
  <2>3. AskOK(r)
    <3>1. AskOK(req[h])
      BY DEF TInv
    <3> HIDE DEF r
    <3> QED BY <1>4, <2>1, <3>1 DEF AskOK, Asked
  <2>4. now' \in Time /\ UNCHANGED <<session, events, employed>>
    BY <1>4, <1>t
  <2> HIDE DEF r
  <2> QED BY <2>1, <2>2, <2>3, <2>4, TMoves
<1>5. ASSUME NEW h \in Handlers, PunchInReadOld(h) \/ PunchInReadToday(h) PROVE TInv'
  BY <1>5, <1>3, <1>4 DEF PunchInReadOld, PunchInReadToday, Check, Labels
<1>6. ASSUME NEW h \in Handlers, BreakStartRead(h) \/ BreakEndRead(h) PROVE TInv'
  <2>1. req[h].pc \in Asked
    BY <1>6 DEF BreakStartRead, BreakEndRead, ReadLast, At, Asked, Labels
  <2> QED BY <1>6, <2>1, <1>3, <1>4 DEF BreakStartRead, BreakEndRead, ReadLast, Labels
\* It reads the events of its session.
<1>7. ASSUME NEW h \in Handlers, PunchOutRead(h) \/ LateRead(h) PROVE TInv'
  <2>1. CASE Reply(h)
    BY <1>7, <2>1, <1>3 DEF PunchOutRead, LateRead, ReadOpen
  <2>2. CASE ~Reply(h)
    <3> DEFINE s == req[h].session
               next == IF req[h].pc = "punchOutRead" THEN "punchOut" ELSE "latePunch"
               r == [req[h] EXCEPT !.pc = next, !.seen = events[s]]
    <3>1. /\ req' = [req EXCEPT ![h] = r] /\ req[h].pc \in Asked
          /\ UNCHANGED <<session, events, employed, now>>
      BY <1>7, <2>2 DEF PunchOutRead, LateRead, ReadOpen, At, Asked, Labels
    <3>2. s \in SessionIds /\ session[s].status # "UNUSED"
      BY <3>1 DEF TInv, AskOK
    <3>3. r \in Request /\ r.pc = next /\ r.session = s /\ r.seen = events[s]
      <4>1. req[h] \in Request /\ events[s] \in Seq(EventRow)
        BY <1>t, <3>2
      <4> QED BY <3>1, <4>1 DEF Request, Labels
    <3>4. AskOK(r)
      <4> HIDE DEF r
      <4> QED BY <3>2, <3>3 DEF AskOK, EventsOf
    <3> HIDE DEF r
    <3> QED BY <1>t, <3>1, <3>3, <3>4, TMoves DEF r
  <2> QED BY <2>1, <2>2
<1>r. ASSUME NEW h \in Handlers, Reply(h)
      PROVE  req' \in [Handlers -> Request] /\ \A g \in Handlers : req'[g] \in {req[g], Idle}
  BY <1>r, <1>i, <1>t DEF Reply
\* A session is opened.
<1>8. ASSUME NEW h \in Handlers, PunchIn(h) PROVE TInv'
  <2>1. CASE UNCHANGED <<session, events>>
    BY <1>8, <2>1, <1>3 DEF PunchIn
  <2>2. CASE ~UNCHANGED <<session, events>>
    <3>0. PICK t : t = req[h].at
      OBVIOUS
    <3>1. PICK s \in SessionIds :
            /\ session[s].status = "UNUSED"
            /\ session' = [session EXCEPT ![s] = OpenSession(t)]
            /\ events'  = [events EXCEPT ![s] = <<Entry("PUNCH_IN", t)>>]
      BY <1>8, <2>2, <3>0 DEF PunchIn
    <3>2. t \in Time /\ Entry("PUNCH_IN", t) \in EventRow
      BY <1>t, <3>0 DEF Request, Entry, EventRow, EventType, StartsWork
    <3>3. OpenSession(t) \in SessionRow
      BY <3>2, OpenTyped
    <3>4. TypeOK'
      BY <1>8, <1>t, <1>r, <3>1, <3>2, <3>3 DEF TypeOK, PunchIn
    <3>5. \A r \in SessionIds : Grows(r)
      <4>1. Grows(s)
        BY <1>t, <3>1, UnusedGrows
      <4>2. ASSUME NEW r \in SessionIds, r # s PROVE Grows(r)
        <5>1. session'[r] = session[r] /\ events'[r] = events[r]
          BY <1>t, <3>1, <4>2
        <5>2. EventsOf(r)' = EventsOf(r)
          BY <5>1 DEF EventsOf
        <5> QED BY <5>1, <5>2, KeptGrows
      <4> QED BY <4>1, <4>2
    <3> QED BY <1>8, <1>r, <3>4, <3>5, TRows DEF PunchIn
  <2> QED BY <2>1, <2>2
\* An event is appended.
<1>9. ASSUME NEW h \in Handlers, BreakStart(h) \/ BreakEnd(h) PROVE TInv'
  <2>1. PICK s, e :
          /\ e.type \in {"BREAK_START", "BREAK_END"} /\ e = Entry(e.type, req[h].at)
          /\ \/ s \in Used /\ events' = [events EXCEPT ![s] = Append(@, e)]
             \/ UNCHANGED events
          /\ Reply(h) /\ UNCHANGED <<session, employed, now>>
    <3>1. \A type : Entry(type, req[h].at).type = type
      BY DEF Entry
    <3> QED BY <1>9, <3>1 DEF BreakStart, BreakEnd, AppendEvent
  <2>2. CASE UNCHANGED events
    BY <2>1, <2>2, <1>3
  <2>3. CASE ~UNCHANGED events
    <3>1. s \in SessionIds /\ events' = [events EXCEPT ![s] = Append(@, e)]
      BY <1>i, <2>1, <2>3
    <3>2. e \in EventRow
      BY <1>t, <2>1 DEF Request, Entry, EventRow, EventType, StartsWork
    <3>3. Append(events[s], e) \in Seq(EventRow)
          /\ EventsOf(s) \subseteq EventsOf(s)'
      BY <1>t, <3>1, <3>2, LogAppended DEF EventsOf
    <3>4. TypeOK'
      BY <1>t, <1>r, <2>1, <3>1, <3>3 DEF TypeOK
    <3>5. \A r \in SessionIds : Grows(r)
      <4>1. ASSUME NEW r \in SessionIds PROVE EventsOf(r) \subseteq EventsOf(r)'
        <5>1. CASE r = s
          BY <3>3, <5>1
        <5>2. CASE r # s
          <6>1. events'[r] = events[r]
            BY <1>t, <3>1, <5>2
          <6> QED BY <6>1 DEF EventsOf
        <5> QED BY <5>1, <5>2
      <4> QED BY <2>1, <4>1, KeptGrows
    <3> QED BY <1>r, <2>1, <3>4, <3>5, TRows
  <2> QED BY <2>2, <2>3
\* A session is closed.
<1>10. ASSUME NEW h \in Handlers, PunchOut(h) PROVE TInv'
  <2>0. PICK s, e : s = req[h].session /\ e = Entry("PUNCH_OUT", req[h].at)
    OBVIOUS
  <2>1. /\ req[h].pc = "punchOut" /\ Reply(h) /\ UNCHANGED <<employed, now>>
        /\ \/ Close(s, "NORMAL", e, req[h].seen)
           \/ UNCHANGED <<session, events>>
    BY <1>10, <2>0 DEF PunchOut, At
  <2>2. CASE UNCHANGED <<session, events>>
    BY <2>1, <2>2, <1>3
  <2>3. CASE Close(s, "NORMAL", e, req[h].seen)
    <3> DEFINE row == Closed(session[s], "NORMAL", e.at, TotalsAtClose(req[h].seen, e))
    <3>1. /\ s \in Used /\ session' = [session EXCEPT ![s] = row]
          /\ events' = [events EXCEPT ![s] = Append(@, e)]
      BY <2>3 DEF Close
    <3>2. e \in EventRow
      BY <1>t, <2>0 DEF Request, Entry, EventRow, EventType, EndsDay
    <3> HIDE DEF row
    <3>3. s \in SessionIds /\ session'[s] = row /\ events'[s] = Append(events[s], e)
      BY <1>i, <1>t, <3>1
    <3>4. Grows(s) /\ session'[s] \in SessionRow /\ events'[s] \in Seq(EventRow)
      <4>1. session'[s] = Closed(session[s], "NORMAL", e.at, TotalsAtClose(req[h].seen, e))
        BY <3>3 DEF row
      <4>2. req[h].pc \in {"punchOut", "latePunch"} /\ "NORMAL" \in {"NORMAL", "LATE"}
        BY <2>1
      <4> QED BY <2>0, <3>1, <3>2, <3>3, <4>1, <4>2, CloseGrows
    <3>5. TypeOK'
      <4>1. session' \in [SessionIds -> SessionRow] /\ events' \in [SessionIds -> Seq(EventRow)]
        BY <1>t, <3>1, <3>3, <3>4
      <4>2. req' \in [Handlers -> Request]
        BY <1>t, <1>i, <2>1 DEF Reply
      <4> QED BY <1>t, <2>1, <4>1, <4>2 DEF TypeOK
    <3>6. ASSUME NEW r \in SessionIds, r # s PROVE Grows(r)
      <4>1. session'[r] = session[r] /\ events'[r] = events[r]
        BY <1>t, <3>1, <3>6
      <4>2. EventsOf(r)' = EventsOf(r)
        BY <4>1 DEF EventsOf
      <4> QED BY <4>1, <4>2, KeptGrows
    <3> QED BY <1>r, <2>1, <3>4, <3>5, <3>6, TRows
  <2> QED BY <2>1, <2>2, <2>3
\* A session is closed late and another opened.
<1>11. ASSUME NEW h \in Handlers, LatePunch(h) PROVE TInv'
  <2>0. PICK p, e, t : /\ p = req[h].session /\ t = req[h].at
                       /\ e = Entry("LATE_PUNCH_OUT", req[h].out)
    OBVIOUS
  <2>1. req[h].pc = "latePunch" /\ Reply(h) /\ UNCHANGED <<employed, now>>
    BY <1>11 DEF LatePunch, At
  <2>2. CASE UNCHANGED <<session, events>>
    BY <2>1, <2>2, <1>3
  <2>3. CASE ~UNCHANGED <<session, events>>
    <3> DEFINE row == Closed(session[p], "LATE", e.at, TotalsAtClose(req[h].seen, e))
    <3>0. e.at = req[h].out /\ e \in EventRow
      BY <1>t, <2>0 DEF Request, Entry, EventRow, EventType, EndsDay
    <3>1. /\ p \in Used
          /\ \E s \in SessionIds :
               /\ session[s].status = "UNUSED"
               /\ session' = [session EXCEPT ![p] = row, ![s] = OpenSession(t)]
               /\ events' = [events EXCEPT ![p] = Append(@, e),
                                           ![s] = <<Entry("PUNCH_IN", t)>>]
      BY <1>11, <2>0, <2>3, <3>0 DEF LatePunch
    <3> HIDE DEF row
    <3>2. PICK s \in SessionIds :
            /\ session[s].status = "UNUSED"
            /\ session' = [session EXCEPT ![p] = row, ![s] = OpenSession(t)]
            /\ events' = [events EXCEPT ![p] = Append(@, e),
                                        ![s] = <<Entry("PUNCH_IN", t)>>]
      BY <3>1
    <3>3. t \in Time /\ Entry("PUNCH_IN", t) \in EventRow /\ OpenSession(t) \in SessionRow
      <4>1. t \in Time /\ Entry("PUNCH_IN", t) \in EventRow
        BY <1>t, <2>0 DEF Request, Entry, EventRow, EventType, StartsWork
      <4> QED BY <4>1, OpenTyped
    <3>4. p # s /\ p \in SessionIds
      BY <1>i, <3>1, <3>2 DEF Used
    <3>5. /\ session'[p] = row /\ events'[p] = Append(events[p], e)
          /\ session'[s] = OpenSession(t)
      BY <1>t, <3>2, <3>4
    <3>6. Grows(p) /\ session'[p] \in SessionRow /\ events'[p] \in Seq(EventRow)
      <4>1. session'[p] = Closed(session[p], "LATE", e.at, TotalsAtClose(req[h].seen, e))
        BY <3>5 DEF row
      <4>2. req[h].pc \in {"punchOut", "latePunch"} /\ "LATE" \in {"NORMAL", "LATE"}
        BY <2>1
      <4>3. p \in Used /\ p = req[h].session /\ e \in EventRow /\ TInv
            /\ events'[p] = Append(events[p], e)
        BY <2>0, <3>0, <3>1, <3>5
      <4> QED BY <4>1, <4>2, <4>3, CloseGrows
    <3>7. TypeOK'
      <4>1. session' \in [SessionIds -> SessionRow]
        BY <1>t, <3>2, <3>3, <3>5, <3>6
      <4>2. events' \in [SessionIds -> Seq(EventRow)]
        <5>1. <<Entry("PUNCH_IN", t)>> \in Seq(EventRow)
          BY <3>3
        <5> QED BY <1>t, <3>2, <3>5, <3>6, <5>1
      <4> QED BY <1>t, <1>r, <2>1, <4>1, <4>2 DEF TypeOK
    <3>8. Grows(s)
      BY <3>2, <3>5, UnusedGrows
    <3>9. ASSUME NEW r \in SessionIds, r # s, r # p PROVE Grows(r)
      <4>1. session'[r] = session[r] /\ events'[r] = events[r]
        BY <1>t, <3>2, <3>9
      <4>2. EventsOf(r)' = EventsOf(r)
        BY <4>1 DEF EventsOf
      <4> QED BY <4>1, <4>2, KeptGrows
    <3> QED BY <1>r, <2>1, <3>6, <3>7, <3>8, <3>9, TRows
  <2> QED BY <2>2, <2>3
\* The rows of the member of staff are deleted.
<1>12. ASSUME DeleteStaff PROVE TInv'
  <2>1. TypeOK'
    <3>1. session' \in [SessionIds -> SessionRow]
      BY <1>12, <1>t, DeletedTyped DEF DeleteStaff
    <3>2. events' \in [SessionIds -> Seq(EventRow)]
      BY <1>12 DEF DeleteStaff
    <3> QED BY <1>12, <1>t, <3>1, <3>2 DEF DeleteStaff, TypeOK
  <2>2. \A s \in SessionIds : Grows(s)
    <3>1. ASSUME NEW s \in SessionIds PROVE
            /\ s \notin Used'
            /\ session[s].status # "UNUSED" => session'[s].status # "UNUSED"
      <4>1. session'[s] = IF s \in Used THEN DeletedSession ELSE session[s]
        BY <1>12 DEF DeleteStaff
      <4> QED BY <4>1, DeletedTyped DEF Used
    <3> QED BY <3>1 DEF Grows
  <2> QED BY <1>12, <2>1, <2>2, TRows DEF DeleteStaff
<1>13. ASSUME UNCHANGED vars PROVE TInv'
  <2>1. TypeOK'
    BY <1>13, <1>t DEF vars, TypeOK
  <2>2. \A s \in SessionIds : Grows(s)
    <3>1. ASSUME NEW s \in SessionIds PROVE Grows(s)
      <4>1. session'[s] = session[s] /\ EventsOf(s)' = EventsOf(s)
        BY <1>13 DEF vars, EventsOf
      <4> QED BY <4>1, KeptGrows
    <3> QED BY <3>1
  <2> QED BY <1>13, <2>1, <2>2, TRows DEF vars
<1>14. ASSUME NEW h \in Handlers, Step(h) PROVE TInv'
  BY <1>14, <1>5, <1>6, <1>7, <1>8, <1>9, <1>10, <1>11 DEF Step
<1>15. ASSUME NEW h \in Handlers, Abort(h) PROVE TInv'
  BY <1>15, <1>3 DEF Abort
<1> QED BY <1>2, <1>12, <1>13, <1>14, <1>15 DEF Next

LEMMA TAlways == Spec => []TInv
BY TInit, TStep, PTL DEF Spec

\* Rows and requests keep their types and no stored total is ever negative,
\* whatever times the clients send.
THEOREM AttendanceTyped == Spec => []TypeOK
<1>1. TInv => TypeOK
  BY DEF TInv
<1> QED BY <1>1, TAlways, PTL

\* The totals stored at closing never pay more than the time between two events
\* of the session, whatever the clocks say and whatever races with the closing.
THEOREM TotalsNeverExceedEvents == Spec => []TotalsWithinEvents
<1>1. TInv => TotalsWithinEvents
  BY DEF TInv, TotalsFitRow, TotalsWithinEvents
<1> QED BY <1>1, TAlways, PTL
-----------------------------------------------------------------------------
(* Scanning, with an honest clock *)

\* The events of an open session have times of their own, which no request in
\* flight has, and no two of these share a time.
Busy(h) == req[h].pc # "idle"

TimesDistinct ==
  /\ \A s \in Used : IsOpen(s) =>
       \A e \in EventsOf(s) :
         /\ e.at <= now
         /\ \A f \in EventsOf(s) : e.at = f.at => e = f
         /\ \A h \in Handlers : Busy(h) => req[h].at # e.at
  /\ \A g, h \in Handlers : g # h /\ Busy(g) /\ Busy(h) => req[g].at # req[h].at

DInv == AInv /\ TimesDistinct

\* What TimesDistinct says of one session.
DistinctIn(s) ==
  \A e \in EventsOf(s) :
    /\ e.at <= now
    /\ \A f \in EventsOf(s) : e.at = f.at => e = f
    /\ \A h \in Handlers : Busy(h) => req[h].at # e.at

LEMMA DInit == Init => DInv
<1>1. Init => TimesDistinct
  BY DEF Init, TimesDistinct, Used, UnusedSession, Busy, Idle
<1> QED BY <1>1, AInit DEF DInv

LEMMA DStep ==
  ASSUME HonestClock PROVE DInv /\ [Next]_vars => DInv'
<1> SUFFICES ASSUME DInv, [Next]_vars PROVE DInv'
  OBVIOUS
<1>a. AInv /\ AInv' /\ Effect /\ TimesDistinct
  BY AStep, Effects DEF DInv
<1>t. /\ Time \subseteq Nat /\ now \in Nat
      /\ \A h \in Handlers : req[h].at \in Nat /\ req[h].at <= now
      /\ \A s \in Used : s \in SessionIds
  BY <1>a, BoundAssumption DEF Time, AInv, Request, Used
<1>e. \A s \in SessionIds : \A e \in EventsOf(s) : e.at \in Nat
  <2> SUFFICES ASSUME NEW s \in SessionIds, NEW e \in EventsOf(s) PROVE e.at \in Nat
    OBVIOUS
  <2>1. events[s] \in Seq(EventRow)
    BY <1>a DEF AInv
  <2>2. PICK i \in 1..Len(events[s]) : e = events[s][i]
    BY DEF EventsOf
  <2>3. e \in EventRow
    BY <2>1, <2>2
  <2> QED BY <1>t, <2>3 DEF EventRow
<1>s. ASSUME \A s \in SessionIds : s \in Used' /\ IsOpen(s)' => DistinctIn(s)',
             \A g, h \in Handlers : g # h /\ Busy(g)' /\ Busy(h)' => req'[g].at # req'[h].at
      PROVE  DInv'
  <2>1. Used' \subseteq SessionIds
    BY DEF Used
  <2>2. TimesDistinct'
    BY <1>s, <2>1 DEF TimesDistinct, DistinctIn
  <2> QED BY <1>a, <2>2 DEF DInv
\* The tables stay and one request moves on, or arrives with a later time.
<1>1. CASE Moves
  <2>1. PICK h \in Handlers, r \in Request :
          /\ req' = [req EXCEPT ![h] = r] /\ UNCHANGED <<session, events>>
          /\ now' \in Time /\ now <= now'
          /\ \/ r = Idle
             \/ r.pc # "idle" /\ r.at > now
             \/ r.pc # "idle" /\ Busy(h) /\ r.at = req[h].at
    BY <1>1 DEF Moves, Busy
  <2>2. /\ req'[h] = r /\ \A g \in Handlers : g # h => req'[g] = req[g]
        /\ now' \in Nat
    BY <1>a, <1>t, <2>1 DEF AInv
  <2>3. \/ ~Busy(h)'
        \/ Busy(h)' /\ req'[h].at > now
        \/ Busy(h)' /\ Busy(h) /\ req'[h].at = req[h].at
    BY <2>1, <2>2, IdleOK DEF Busy
  <2>4. ASSUME NEW s \in SessionIds, s \in Used', IsOpen(s)' PROVE DistinctIn(s)'
    <3>1. s \in Used /\ IsOpen(s) /\ EventsOf(s)' = EventsOf(s)
      BY <2>1, <2>4 DEF Used, IsOpen, EventsOf
    <3>2. DistinctIn(s)
      BY <1>a, <3>1 DEF TimesDistinct, DistinctIn
    <3>3. ASSUME NEW e \in EventsOf(s), NEW g \in Handlers, Busy(g)' PROVE req'[g].at # e.at
      <4>1. CASE g = h
        <5>1. e.at \in Nat /\ e.at <= now /\ (Busy(h) => req[h].at # e.at)
          BY <1>e, <3>2 DEF DistinctIn
        <5> QED BY <1>t, <2>3, <3>3, <4>1, <5>1
      <4>2. CASE g # h
        BY <2>2, <3>2, <3>3, <4>2 DEF DistinctIn, Busy
      <4> QED BY <4>1, <4>2
    <3>4. ASSUME NEW e \in EventsOf(s) PROVE e.at <= now'
      <4>1. e.at \in Nat /\ e.at <= now
        BY <1>e, <3>2 DEF DistinctIn
      <4> QED BY <1>t, <2>1, <2>2, <4>1
    <3> QED BY <3>1, <3>2, <3>3, <3>4 DEF DistinctIn
  <2>5. ASSUME NEW f \in Handlers, NEW g \in Handlers, f # g, Busy(f)', Busy(g)'
        PROVE  req'[f].at # req'[g].at
    <3>1. \A p \in Handlers : p # h /\ Busy(p)' => Busy(p) /\ req'[p].at = req[p].at
      BY <2>2 DEF Busy
    <3>2. \A p, q \in Handlers : p # q /\ Busy(p) /\ Busy(q) => req[p].at # req[q].at
      BY <1>a DEF TimesDistinct
    <3>3. ASSUME NEW p \in Handlers, p # h, Busy(p)', Busy(h)'
          PROVE  req'[p].at # req'[h].at
      BY <1>t, <2>3, <3>1, <3>2, <3>3
    <3> QED BY <2>5, <3>1, <3>2, <3>3
  <2> QED BY <1>s, <2>4, <2>5
\* A request writes an event with its own time and is answered.
<1>2. CASE Writes
  <2>1. PICK h \in Handlers :
          /\ Busy(h) /\ req' = [req EXCEPT ![h] = Idle] /\ now' = now
          /\ \A s \in SessionIds : \/ Kept(s) \/ Ended(s)
                                   \/ Opened(s, req[h].at) \/ Paused(s, req[h].at)
    BY <1>2 DEF Writes, Busy
  <2>2. ASSUME NEW g \in Handlers, Busy(g)' PROVE g # h /\ Busy(g) /\ req'[g] = req[g]
    BY <1>a, <2>1, <2>2, IdleOK DEF AInv, Busy
  <2>3. \A f, g \in Handlers : f # g /\ Busy(f)' /\ Busy(g)' => req'[f].at # req'[g].at
    <3>1. \A p, q \in Handlers : p # q /\ Busy(p) /\ Busy(q) => req[p].at # req[q].at
      BY <1>a DEF TimesDistinct
    <3> QED BY <2>2, <3>1
  <2>4. ASSUME NEW s \in SessionIds, s \in Used', IsOpen(s)' PROVE DistinctIn(s)'
    <3>0. PICK t \in Nat : t = req[h].at /\ t <= now
      BY <1>t
    <3>1. \A g \in Handlers : Busy(g)' => req'[g].at # t
      <4>1. \A p, q \in Handlers : p # q /\ Busy(p) /\ Busy(q) => req[p].at # req[q].at
        BY <1>a DEF TimesDistinct
      <4> QED BY <2>1, <2>2, <3>0, <4>1
    <3>2. \/ Kept(s) \/ Ended(s)
          \/ Opened(s, t) \/ Paused(s, t)
      BY <2>1, <3>0
    <3>3. CASE Kept(s)
      <4>1. s \in Used /\ IsOpen(s) /\ EventsOf(s)' = EventsOf(s)
        BY <2>4, <3>3 DEF Kept, Used, IsOpen, EventsOf
      <4>2. DistinctIn(s)
        BY <1>a, <4>1 DEF TimesDistinct, DistinctIn
      <4> QED BY <2>1, <2>2, <4>1, <4>2 DEF DistinctIn
    <3>4. CASE Ended(s)
      <4>1. session'[s].status = "CLOSED"
        BY <3>4 DEF Ended, Closed
      <4> QED BY <2>4, <4>1 DEF IsOpen
    <3>5. CASE Opened(s, t)
      <4>1. EventsOf(s)' = {Entry("PUNCH_IN", t)}
        BY <3>5, LogOfOne DEF Opened, EventsOf
      <4>2. Entry("PUNCH_IN", t).at = t
        BY DEF Entry
      <4> QED BY <2>1, <3>0, <3>1, <4>1, <4>2 DEF DistinctIn
    <3>6. CASE Paused(s, t)
      <4>1. PICK type \in {"BREAK_START", "BREAK_END"} :
              /\ session'[s] = session[s]
              /\ events'[s] = Append(events[s], Entry(type, t))
        BY <3>6 DEF Paused
      <4>2. s \in Used /\ IsOpen(s) /\ Entry(type, t) \in EventRow /\ events[s] \in Seq(EventRow)
        <5>1. req[h].at \in Time
          BY <1>a DEF AInv, Request
        <5> QED BY <1>a, <2>4, <3>0, <4>1, <5>1
                DEF Used, IsOpen, Entry, EventRow, EventType, StartsWork, AInv
      <4>3. EventsOf(s)' = EventsOf(s) \cup {Entry(type, t)}
        BY <4>1, <4>2, LogAppended DEF EventsOf
      <4>4. DistinctIn(s)
        BY <1>a, <4>2 DEF TimesDistinct, DistinctIn
      <4>5. \A e \in EventsOf(s) : e.at # t
        BY <2>1, <3>0, <4>4 DEF DistinctIn
      <4>6. Entry(type, t).at = t
        BY DEF Entry
      <4>7. PICK new : new = Entry(type, t)
        OBVIOUS
      <4>8. ASSUME NEW e \in EventsOf(s)' PROVE
              /\ e.at <= now'
              /\ \A f \in EventsOf(s)' : e.at = f.at => e = f
              /\ \A g \in Handlers : Busy(g)' => req'[g].at # e.at
        <5>1. e \in EventsOf(s) \cup {new} /\ EventsOf(s)' = EventsOf(s) \cup {new}
              /\ new.at = t /\ now' = now
          BY <2>1, <4>3, <4>6, <4>7, <4>8
        <5>2. CASE e = new
          BY <3>0, <3>1, <4>5, <5>1, <5>2
        <5>3. CASE e \in EventsOf(s)
          <6>1. /\ e.at <= now /\ \A f \in EventsOf(s) : e.at = f.at => e = f
                /\ \A g \in Handlers : Busy(g) => req[g].at # e.at
            BY <4>4, <5>3 DEF DistinctIn
          <6> QED BY <2>2, <4>5, <5>1, <5>3, <6>1
        <5> QED BY <5>1, <5>2, <5>3
      <4> QED BY <4>8 DEF DistinctIn
    <3> QED BY <3>2, <3>3, <3>4, <3>5, <3>6
  <2> QED BY <1>s, <2>3, <2>4
<1>3. CASE Deletes
  <2>1. UNCHANGED <<req, now>> /\ \A s \in SessionIds : Kept(s) \/ Removed(s)
    BY <1>3 DEF Deletes
  <2>2. ASSUME NEW s \in SessionIds, s \in Used', IsOpen(s)' PROVE DistinctIn(s)'
    <3>1. s \in Used /\ IsOpen(s) /\ EventsOf(s)' = EventsOf(s)
      BY <2>1, <2>2 DEF Kept, Removed, Used, IsOpen, EventsOf
    <3>2. DistinctIn(s)
      BY <1>a, <3>1 DEF TimesDistinct, DistinctIn
    <3> QED BY <2>1, <3>1, <3>2 DEF DistinctIn, Busy
  <2>3. \A f, g \in Handlers : f # g /\ Busy(f)' /\ Busy(g)' => req'[f].at # req'[g].at
    BY <1>a, <2>1 DEF TimesDistinct, Busy
  <2> QED BY <1>s, <2>2, <2>3
<1> QED BY <1>1, <1>2, <1>3, <1>a DEF Effect

LEMMA DayOrders ==
  ASSUME NEW t \in Nat, NEW u \in Nat, t <= u
  PROVE  StartOfDay(t) <= StartOfDay(u) /\ StartOfDay(t) \in Nat /\ StartOfDay(u) \in Nat
BY DayAssumption DEF StartOfDay

\* What the answer of scan rests on.
LEMMA ScanRests ==
  ASSUME DInv PROVE ScanIsHonoured
<1> SUFFICES ASSUME NEW t \in Time, NEW told \in Scan(t)
             PROVE  LET s == told.session
                        lasts == LastEvents(s) IN
                    CASE told.state = "NO_SESSION_TODAY" ->
                           ~OpenBefore(StartOfDay(t)) /\ ~OpenOn(StartOfDay(t))
                      [] told.state = "WORKING"  ->
                           IsOpen(s) /\ \A last \in lasts : MayStartBreak(last)
                      [] told.state = "ON_BREAK" ->
                           IsOpen(s) /\ \A last \in lasts : MayEndBreak(last)
                      [] told.state = "PREVIOUS_SESSION_OPEN" ->
                           IsOpen(s) /\ session[s].first < t
                      [] told.state = "DAY_COMPLETED" -> TRUE
  BY DEF ScanIsHonoured
<1> DEFINE day == StartOfDay(t)
<1>1. t \in Nat /\ AInv /\ TimesDistinct
  BY BoundAssumption DEF DInv, Time
<1>2. CASE OpenBefore(day)
  <2>1. PICK s \in LatestOpenBefore(day) : told = Told("PREVIOUS_SESSION_OPEN", s)
    BY <1>2 DEF Scan
  <2>2. s \in Used /\ IsOpen(s) /\ session[s].date < day
    BY <2>1 DEF LatestOpenBefore, Used, IsOpen
  <2>3. session[s].date = StartOfDay(session[s].first) /\ session[s].first \in Nat
    BY <1>1, <2>2, BoundAssumption DEF AInv, SessionsAgree, RowAgrees, Time
  <2>4. session[s].first < t
    <3>1. t <= session[s].first => day <= StartOfDay(session[s].first)
      BY <1>1, <2>3, DayOrders
    <3>2. day \in Nat /\ StartOfDay(session[s].first) \in Nat
      BY <1>1, <2>3, DayTyped
    <3> HIDE DEF day
    <3> QED BY <1>1, <2>2, <2>3, <3>1, <3>2
  <2>5. told.state = "PREVIOUS_SESSION_OPEN" /\ told.session = s
    BY <2>1 DEF Told
  <2> QED BY <2>2, <2>4, <2>5
<1>3. CASE ~OpenBefore(day) /\ SessionsOn(day) = {}
  <2>1. told = Told("NO_SESSION_TODAY", "none")
    BY <1>3 DEF Scan
  <2>2. told.state = "NO_SESSION_TODAY"
    BY <2>1 DEF Told
  <2>3. ~OpenOn(day)
    BY <1>3 DEF OpenOn, SessionsOn, Used, IsOpen
  <2> QED BY <1>3, <2>2, <2>3
<1>4. CASE ~OpenBefore(day) /\ SessionsOn(day) # {}
  <2>0. PICK s \in SessionsOn(day) : \E last \in LastEvents(s) : told = Told(StateOf(s, last), s)
    BY <1>4 DEF Scan
  <2>1. PICK last \in LastEvents(s) : told = Told(StateOf(s, last), s)
    BY <2>0
  <2>2. told.state = StateOf(s, last) /\ told.session = s /\ s \in Used /\ s \in SessionIds
    BY <2>1 DEF Told, SessionsOn, Used
  <2>3. CASE session[s].status = "CLOSED"
    <3>1. told.state = "DAY_COMPLETED"
      BY <2>2, <2>3 DEF StateOf, IsOpen
    <3> QED BY <3>1
  <2>4. CASE session[s].status # "CLOSED"
    <3>1. IsOpen(s)
      BY <2>2, <2>4 DEF IsOpen, Used
    <3>2. \A other \in LastEvents(s) : other = last
      <4>1. ASSUME NEW other \in LastEvents(s) PROVE other = last
        <5>1. other \in EventsOf(s) /\ last \in EventsOf(s) /\ other.at <= last.at /\ last.at <= other.at
          BY DEF LastEvents
        <5>2. events[s] \in Seq(EventRow)
          BY <1>1, <2>2 DEF AInv
        <5>3. other \in EventRow /\ last \in EventRow
          BY <5>1, <5>2 DEF EventsOf
        <5>4. other.at \in Nat /\ last.at \in Nat
          BY <5>3, BoundAssumption DEF EventRow, Time
        <5>5. other.at = last.at
          BY <5>1, <5>4
        <5> QED BY <1>1, <2>2, <3>1, <5>1, <5>5 DEF TimesDistinct
      <4> QED BY <4>1
    <3>3. last \in EventsOf(s) /\ last.type \in EventType
      <4>1. events[s] \in Seq(EventRow) /\ last \in EventsOf(s)
        BY <1>1, <2>2 DEF AInv, LastEvents
      <4>2. last \in EventRow
        BY <4>1 DEF EventsOf
      <4> QED BY <4>1, <4>2 DEF EventRow
    <3>4. last.type \notin EndsDay
      <4>1. RowAgrees(session[s], EventsOf(s)) /\ session[s].status = "OPEN"
        BY <1>1, <2>2, <3>1 DEF AInv, SessionsAgree, IsOpen
      <4> QED BY <3>3, <4>1 DEF RowAgrees
    <3>5. CASE last.type = "BREAK_START"
      <4>1. told.state = "ON_BREAK"
        BY <2>2, <2>4, <3>1, <3>5 DEF StateOf, StartsWork
      <4> QED BY <2>2, <3>1, <3>2, <3>5, <4>1 DEF MayEndBreak
    <3>6. CASE last.type \in StartsWork
      <4>1. told.state = "WORKING"
        BY <2>2, <2>4, <3>1, <3>6 DEF StateOf, StartsWork
      <4>2. \A other \in LastEvents(s) : MayStartBreak(other)
        BY <3>2, <3>6 DEF MayStartBreak, StartsWork
      <4> QED BY <2>2, <3>1, <4>1, <4>2
    <3> QED BY <3>3, <3>4, <3>5, <3>6 DEF EventType
  <2> QED BY <2>3, <2>4
<1> QED BY <1>2, <1>3, <1>4

\* With request times that only grow, what scan offers a member of staff is what
\* the handler then accepts: ScanIsHonoured.
THEOREM ScansAreHonoured == HonestClock /\ Spec => []ScanIsHonoured
<1> SUFFICES ASSUME HonestClock PROVE Spec => []ScanIsHonoured
  OBVIOUS
<1>1. Init => DInv
  BY DInit
<1>2. DInv /\ [Next]_vars => DInv'
  BY DStep
<1>3. DInv => ScanIsHonoured
  BY ScanRests
<1> QED BY <1>1, <1>2, <1>3, PTL DEF Spec
-----------------------------------------------------------------------------
(* Requests served one at a time, with an honest clock *)

Alone == \A g, h \in Handlers : g = h

\* What holds of the row and the events of a session at time t: the events are
\* well formed; while the session is open each is later than the one before; and
\* the totals of a closed session are those of its events, of which the last one
\* closed it.
Rising(day) == \A i, j \in 1..Len(day) : i < j => day[i].at < day[j].at

ClosedByLast(row, day) ==
  /\ day[Len(day)].at = row.last
  /\ \A i, j \in 1..Len(day)-1 : i < j => day[i].at < day[j].at
  /\ \A i \in 1..Len(day)-1 : day[i].type \notin EndsDay

DayOK(row, day, t) ==
  /\ Len(day) # 0 /\ WellFormed(day) /\ day[1].at = row.first
  /\ row.status = "OPEN" => Rising(day) /\ \A i \in 1..Len(day) : day[i].at <= t
  /\ row.status = "CLOSED" =>
       /\ row.last <= t
       /\ ClosedByLast(row, day)
       /\ RecalcTotals(day) = [work |-> row.work, break |-> row.break]
       /\ row.closure = "NORMAL" =>
            row.work + row.break = FloorToSecond(row.last) - FloorToSecond(row.first)

\* The events of a log to which one is appended.
LEMMA Appended ==
  ASSUME NEW day \in Seq(EventRow), Len(day) # 0, NEW e \in EventRow
  PROVE  /\ Append(day, e) \in Seq(EventRow)
         /\ Len(day) \in Nat /\ Len(day) \in 1..Len(day) /\ 1 \in 1..Len(day)
         /\ Len(Append(day, e)) = Len(day) + 1
         /\ \A i \in 1..Len(day) : Append(day, e)[i] = day[i]
         /\ Append(day, e)[Len(day) + 1] = e
         /\ \A i \in 1..Len(day) : day[i] \in EventRow /\ day[i].at \in Nat
         /\ e.at \in Nat
<1>1. Time \subseteq Nat
  BY BoundAssumption DEF Time
<1>2. /\ Len(day) \in Nat /\ Append(day, e) \in Seq(EventRow)
      /\ Len(Append(day, e)) = Len(day) + 1
      /\ Append(day, e)[Len(day) + 1] = e
      /\ \A i \in 1..Len(day) : Append(day, e)[i] = day[i] /\ day[i] \in EventRow
  OBVIOUS
<1>3. \A f \in EventRow : f.at \in Nat
  BY <1>1 DEF EventRow
<1> HIDE DEF EventRow
<1> QED BY <1>2, <1>3

\* A log stays well formed when an event is appended that may follow its last.
LEMMA StaysWellFormed ==
  ASSUME NEW day \in Seq(EventRow), Len(day) # 0, NEW e \in EventRow, WellFormed(day),
         \/ <<day[Len(day)].type, e.type>> \in MayFollow /\ day[Len(day)].at < e.at
         \/ /\ day[Len(day)].type \notin EndsDay /\ e.type = "LATE_PUNCH_OUT"
            /\ day[1].at < e.at
  PROVE  WellFormed(Append(day, e))
<1> DEFINE new == Append(day, e)
           N   == Len(day)
<1>1. /\ N \in Nat /\ 1 \in 1..N /\ N \in 1..N /\ Len(new) = N + 1 /\ new[N+1] = e
      /\ \A i \in 1..N : new[i] = day[i]
  BY Appended
<1> HIDE DEF new
<1>2. \A i \in 1..N-1 : i \in 1..N /\ i+1 \in 1..N
  BY <1>1
<1>3. 1..Len(new)-1 = 1..N-1 \cup {N}
  BY <1>1
<1>4. new[1].type = "PUNCH_IN" /\ new[1] = day[1]
  BY <1>1 DEF WellFormed
<1>5. ASSUME NEW i \in 1..N-1
      PROVE  \/ <<new[i].type, new[i+1].type>> \in MayFollow /\ new[i].at < new[i+1].at
             \/ /\ new[i].type \notin EndsDay /\ new[i+1].type = "LATE_PUNCH_OUT"
                /\ new[1].at < new[i+1].at
  BY <1>1, <1>2, <1>4 DEF WellFormed
<1>6. \/ <<new[N].type, new[N+1].type>> \in MayFollow /\ new[N].at < new[N+1].at
      \/ /\ new[N].type \notin EndsDay /\ new[N+1].type = "LATE_PUNCH_OUT"
         /\ new[1].at < new[N+1].at
  BY <1>1, <1>4
<1>7. \A i \in 1..Len(new)-1 :
        \/ <<new[i].type, new[i+1].type>> \in MayFollow /\ new[i].at < new[i+1].at
        \/ /\ new[i].type \notin EndsDay /\ new[i+1].type = "LATE_PUNCH_OUT"
           /\ new[1].at < new[i+1].at
  BY <1>3, <1>5, <1>6
<1>8. WellFormed(new)
  BY <1>4, <1>7 DEF WellFormed
<1> QED BY <1>8 DEF new

\* A session as it is opened.
LEMMA OpenedDay ==
  ASSUME NEW t \in Time, NEW n \in Nat, t <= n
  PROVE  DayOK(OpenSession(t), <<Entry("PUNCH_IN", t)>>, n)
<1> DEFINE row == OpenSession(t)
           e == Entry("PUNCH_IN", t)
           day == <<e>>
<1>1. Len(day) = 1 /\ day[1] = e /\ 1..Len(day) = {1}
  OBVIOUS
<1>2. e.type = "PUNCH_IN" /\ e.at = t
  BY DEF Entry
<1>3. row.status = "OPEN" /\ row.first = t
  BY DEF OpenSession, UnusedSession
<1> HIDE DEF row, e, day
<1>4. WellFormed(day)
  BY <1>1, <1>2 DEF WellFormed
<1>5. Rising(day)
  BY <1>1 DEF Rising
<1>6. DayOK(row, day, n)
  BY <1>1, <1>2, <1>3, <1>4, <1>5 DEF DayOK
<1> QED BY <1>6 DEF row, day, e

\* A session in which a break starts or ends.
LEMMA PausedDay ==
  ASSUME NEW row, NEW day \in Seq(EventRow), NEW n \in Nat, DayOK(row, day, n),
         row.status = "OPEN", NEW e \in EventRow, e.at <= n,
         \A i \in 1..Len(day) : day[i].at < e.at,
         <<day[Len(day)].type, e.type>> \in MayFollow
  PROVE  DayOK(row, Append(day, e), n)
<1> DEFINE new == Append(day, e)
           N   == Len(day)
<1>1. /\ N \in Nat /\ 1 \in 1..N /\ N \in 1..N /\ Len(new) = N + 1 /\ new[N+1] = e
      /\ \A i \in 1..N : new[i] = day[i]
  BY Appended DEF DayOK
<1>2. WellFormed(new)
  BY <1>1, StaysWellFormed DEF DayOK
<1> HIDE DEF new
<1>3. 1..Len(new) = 1..N \cup {N+1}
  BY <1>1
<1>4. Rising(new)
  BY <1>1, <1>3 DEF DayOK, Rising
<1>5. \A i \in 1..Len(new) : new[i].at <= n
  BY <1>1, <1>3 DEF DayOK
<1>6. DayOK(row, new, n)
  BY <1>1, <1>2, <1>4, <1>5 DEF DayOK
<1> QED BY <1>6 DEF new

\* The totals stored at closing are those of all the events.
LEMMA TotalsOfAll ==
  ASSUME NEW day \in Seq(EventRow), Rising(day), NEW e \in EventRow
  PROVE  /\ TotalsAtClose(day, e) = RecalcTotals(Append(day, e))
         /\ RecalcTotals(Append(day, e)) = [work  |-> TotalsAtClose(day, e).work,
                                            break |-> TotalsAtClose(day, e).break]
<1>1. InOrder(day)
  <2>1. \A i \in 1..Len(day) : day[i].at \in Nat
    BY FlooredTyped
  <2> QED BY <2>1 DEF InOrder, Rising
<1>2. SortByTime(day) = day
  BY <1>1, SortTyped
<1>3. TotalsAtClose(day, e) = RecalcTotals(Append(day, e))
  BY <1>2 DEF TotalsAtClose
<1>4. \A raw : RecalcTotals(raw) = [work  |-> RecalcTotals(raw).work,
                                    break |-> RecalcTotals(raw).break]
  BY DEF RecalcTotals
<1> QED BY <1>3, <1>4

\* A punch-out after every other event accounts for every second of the day.
LEMMA PunchedOutAddsUp ==
  ASSUME NEW day \in Seq(EventRow), Len(day) # 0, Rising(day), WellFormed(day),
         \A i \in 1..Len(day) : day[i].type \notin EndsDay,
         NEW e \in EventRow, e.type = "PUNCH_OUT", \A i \in 1..Len(day) : day[i].at < e.at
  PROVE  RecalcTotals(Append(day, e)).work + RecalcTotals(Append(day, e)).break
           = FloorToSecond(e.at) - FloorToSecond(day[1].at)
<1> DEFINE new == Append(day, e)
           flo == Floored(new)
           N   == Len(day)
<1>1. /\ N \in Nat /\ 1 \in 1..N /\ N \in 1..N /\ Len(new) = N + 1 /\ new[N+1] = e
      /\ new \in Seq(EventRow) /\ e.at \in Nat
      /\ \A i \in 1..N : new[i] = day[i] /\ day[i] \in EventRow /\ day[i].at \in Nat
  BY Appended
<1> HIDE DEF new
<1>2. /\ flo \in Seq(Work!Event) /\ Len(flo) = N + 1
      /\ \A i \in 1..N+1 : /\ flo[i].type = new[i].type
                           /\ flo[i].at = FloorToSecond(new[i].at)
                           /\ new[i].at \in Nat
  BY <1>1, FlooredTyped
<1> HIDE DEF flo
<1>3. 1..N+1 = 1..N \cup {N+1} /\ 1..Len(flo)-1 = 1..N-1 \cup {N}
  BY <1>1, <1>2
<1>4. Work!Ordered(flo)
  <2>1. \A i, j \in 1..N+1 : i < j => new[i].at <= new[j].at
    <3>1. ASSUME NEW i \in 1..N+1, NEW j \in 1..N+1, i < j PROVE new[i].at <= new[j].at
      <4>1. i \in 1..N /\ day[i].at \in Nat
        BY <1>1, <3>1
      <4>2. CASE j \in 1..N
        BY <1>1, <3>1, <4>1, <4>2 DEF Rising
      <4>3. CASE j = N+1
        BY <1>1, <4>1, <4>3
      <4> QED BY <1>3, <4>2, <4>3
    <3> QED BY <3>1
  <2>2. \A i, j \in 1..N+1 : i < j => flo[i].at <= flo[j].at
    BY <1>2, <2>1, FloorOrders
  <2> QED BY <1>2, <2>2 DEF Work!Ordered
<1>5. Work!Alternates(flo)
  <2>1. flo[1].type = "PUNCH_IN"
    BY <1>1, <1>2, <1>3 DEF WellFormed
  <2>2. ASSUME NEW i \in 1..N-1
        PROVE  <<flo[i].type, flo[i+1].type>> \in MayFollow
    <3>1. i \in 1..N /\ i+1 \in 1..N
      BY <1>1
    <3>2. flo[i].type = day[i].type /\ flo[i+1].type = day[i+1].type
      BY <1>1, <1>2, <1>3, <3>1
    <3>3. day[i+1].type # "LATE_PUNCH_OUT"
      BY <3>1 DEF EndsDay
    <3> QED BY <3>2, <3>3 DEF WellFormed
  <2>3. <<flo[N].type, flo[N+1].type>> \in MayFollow
    <3>1. flo[N].type = day[N].type /\ flo[N+1].type = "PUNCH_OUT"
      BY <1>1, <1>2, <1>3
    <3>2. day[N].type \in EventType \ EndsDay
      BY <1>1 DEF EventRow
    <3> QED BY <3>1, <3>2 DEF EventType, StartsWork, MayFollow
  <2>4. \A i \in 1..Len(flo)-1 : <<flo[i].type, flo[i+1].type>> \in MayFollow
    BY <1>3, <2>2, <2>3
  <2> QED BY <2>1, <2>4 DEF Work!Alternates, MayFollow, Work!StartsWork
<1>6. Work!Floored(new) = flo /\ Work!RecalcTotals(new) = RecalcTotals(new)
  BY SameOperators DEF flo
<1>7. Work!RecalcTotals(new).work + Work!RecalcTotals(new).break
        = Work!Floored(new)[Len(Work!Floored(new))].at - Work!Floored(new)[1].at
  <2>1. Len(Work!Floored(new)) # 0
    BY <1>1, <1>2, <1>6
  <2> QED BY <1>2, <1>4, <1>5, <1>6, <2>1, SecondAssumption, Work!WholeDayCounts
<1>8. flo[N+1].at = FloorToSecond(e.at) /\ flo[1].at = FloorToSecond(day[1].at)
  BY <1>1, <1>2, <1>3
<1>9. RecalcTotals(new).work + RecalcTotals(new).break = flo[N+1].at - flo[1].at
  BY <1>2, <1>6, <1>7
<1>10. RecalcTotals(new).work + RecalcTotals(new).break
         = FloorToSecond(e.at) - FloorToSecond(day[1].at)
  BY <1>8, <1>9
<1> QED BY <1>10 DEF new

\* A session that is closed, by a punch-out after every other event or late.
LEMMA ClosedDay ==
  ASSUME NEW row, NEW day \in Seq(EventRow), NEW n \in Nat, DayOK(row, day, n),
         row.status = "OPEN", \A i \in 1..Len(day) : day[i].type \notin EndsDay,
         NEW e \in EventRow, e.at <= n,
         \/ e.type = "PUNCH_OUT" /\ \A i \in 1..Len(day) : day[i].at < e.at
         \/ e.type = "LATE_PUNCH_OUT" /\ row.first < e.at
  PROVE  DayOK(Closed(row, KindOf(e), e.at, TotalsAtClose(day, e)), Append(day, e), n)
<1> DEFINE totals == TotalsAtClose(day, e)
           new == Append(day, e)
           closed == Closed(row, KindOf(e), e.at, totals)
           N == Len(day)
<1>1. /\ N \in Nat /\ 1 \in 1..N /\ N \in 1..N /\ Len(new) = N + 1
      /\ new[1] = day[1] /\ day[N] \in EventRow
  BY Appended DEF DayOK
<1>2. Len(day) # 0 /\ Rising(day) /\ WellFormed(day) /\ day[1].at = row.first
  BY DEF DayOK
<1>3. WellFormed(new)
  <2>1. CASE e.type = "PUNCH_OUT"
    <3>1. day[N].type \in EventType \ EndsDay /\ day[N].at < e.at
      BY <1>1, <2>1 DEF EventRow
    <3>2. <<day[N].type, e.type>> \in MayFollow
      BY <2>1, <3>1 DEF EventType, StartsWork, MayFollow
    <3> QED BY <1>2, <3>1, <3>2, StaysWellFormed
  <2>2. CASE e.type = "LATE_PUNCH_OUT"
    <3>1. day[N].type \notin EndsDay
      BY <1>1
    <3> QED BY <1>2, <2>2, <3>1, StaysWellFormed
  <2> QED BY <2>1, <2>2
<1>4. RecalcTotals(new) = totals /\ totals = [work |-> totals.work, break |-> totals.break]
  BY <1>2, TotalsOfAll
<1>5. KindOf(e) = "NORMAL" =>
        RecalcTotals(new).work + RecalcTotals(new).break
          = FloorToSecond(e.at) - FloorToSecond(row.first)
  <2> SUFFICES ASSUME KindOf(e) = "NORMAL"
               PROVE  RecalcTotals(new).work + RecalcTotals(new).break
                        = FloorToSecond(e.at) - FloorToSecond(row.first)
    OBVIOUS
  <2>1. e.type = "PUNCH_OUT"
    BY DEF KindOf
  <2> QED BY <1>2, <2>1, PunchedOutAddsUp
<1> HIDE DEF totals, new
<1>6. /\ closed.status = "CLOSED" /\ closed.first = row.first /\ closed.last = e.at
      /\ closed.work = totals.work /\ closed.break = totals.break
      /\ closed.closure = KindOf(e)
  BY DEF Closed
<1> HIDE DEF closed
<1>7. ClosedByLast(closed, new)
  <2>1. Len(new) - 1 = N /\ new[Len(new)] = e /\ \A i \in 1..N : new[i] = day[i]
    BY <1>1, Appended DEF new
  <2> QED BY <1>2, <1>6, <2>1 DEF ClosedByLast, Rising
<1>8. DayOK(closed, new, n)
  BY <1>1, <1>2, <1>3, <1>4, <1>5, <1>6, <1>7 DEF DayOK
<1> QED BY <1>8 DEF closed, new, totals

\* What the export computes of a closed session: where the closing event comes
\* first by its millisecond it does so by its second too, unless the session was
\* closed in the second of a later event.
LEMMA ExportedDay ==
  ASSUME NEW row, NEW day \in Seq(EventRow), Len(day) # 0, ClosedByLast(row, day),
         ~ClosedInSecondOf(row, {day[i] : i \in 1..Len(day)})
  PROVE  ExportedTotals(day) = RecalcTotals(day)
<1> DEFINE N == Len(day)
           flo == Floored(day)
<1>1. /\ day \in Seq(Work!Event) /\ flo \in Seq(Work!Event) /\ Len(flo) = N /\ N \in Nat
      /\ \A i \in 1..N : day[i].at \in Nat /\ flo[i].at = FloorToSecond(day[i].at)
  BY FlooredTyped
<1> HIDE DEF flo
<1>2. /\ N \in 1..N /\ 1..N = 1..N-1 \cup {N} /\ day[N].at = row.last
      /\ \A i, j \in 1..N-1 : i < j => day[i].at < day[j].at
  BY <1>1 DEF ClosedByLast
<1>3. \A i \in 1..N-1 : day[N].at <= day[i].at => flo[N].at # flo[i].at
  BY <1>1, <1>2 DEF ClosedByLast, ClosedInSecondOf
<1>4. \A i, j \in 1..N : day[i].at <= day[j].at => flo[i].at <= flo[j].at
  BY <1>1, FloorOrders
<1>5. \A i \in 1..N : flo[i].at \in Nat
  BY <1>1, FloorOrders
<1>6. ASSUME NEW i \in 1..N, NEW j \in 1..N
      PROVE  ComesFirst(day, i, j) <=> ComesFirst(flo, i, j)
  <2>1. PICK t, u, f, g \in Nat : /\ t = day[i].at /\ u = day[j].at
                                  /\ f = flo[i].at /\ g = flo[j].at
    BY <1>1, <1>5
  <2>2. (t <= u => f <= g) /\ (u <= t => g <= f)
    BY <1>4, <2>1
  <2>3. /\ ComesFirst(day, i, j) <=> t < u \/ (t = u /\ i <= j)
        /\ ComesFirst(flo, i, j) <=> f < g \/ (f = g /\ i <= j)
    BY <2>1 DEF ComesFirst, Before
  <2>4. CASE i = j
    BY <2>1, <2>3, <2>4
  <2>5. CASE i # j /\ i \in 1..N-1 /\ j \in 1..N-1
    <3>1. (i < j => t < u) /\ (j < i => u < t) /\ (i < j \/ j < i)
      BY <1>1, <1>2, <2>1, <2>5
    <3> QED BY <1>1, <2>2, <2>3, <3>1
  <2>6. CASE i = N /\ j \in 1..N-1
    <3>1. (t <= u => f # g) /\ ~(i <= j)
      BY <1>1, <1>3, <2>1, <2>6
    <3> QED BY <2>2, <2>3, <3>1
  <2>7. CASE i \in 1..N-1 /\ j = N
    <3>1. (u <= t => g # f) /\ i <= j
      BY <1>1, <1>3, <2>1, <2>7
    <3> QED BY <2>2, <2>3, <3>1
  <2> QED BY <1>2, <2>4, <2>5, <2>6, <2>7
<1>7. Work!Floored(day) = flo
  BY SameOperators DEF flo
<1>8. \A i, j \in 1..N : Work!ComesFirst(day, i, j) <=> Work!ComesFirst(flo, i, j)
  BY <1>6 DEF ComesFirst, Work!ComesFirst, Before, Work!Before
<1>9. Work!RecalcTotalsLocal(Work!SortByTime(day)) = Work!RecalcTotals(day)
  BY <1>1, <1>7, <1>8, SecondAssumption, Work!SortedTotals
<1>10. RecalcTotalsLocal(SortByTime(day)) = RecalcTotals(day)
  BY <1>9, SameOperators
<1> QED BY <1>10 DEF ExportedTotals

\* Everything that happened in a session is earlier than t.
EarlierThan(s, t) ==
  IF IsOpen(s) THEN \A i \in 1..Len(events[s]) : events[s][i].at < t
               ELSE session[s].last < t

LastType(s) == events[s][Len(events[s])].type

\* What the only request in flight has found out, and still holds.
KnowsTimes(r) ==
  r.pc # "idle" =>
    /\ \A s \in Used : EarlierThan(s, r.at)
    /\ r.pc \in {"lateRead", "latePunch"} => r.out < r.at

KnowsOpen(r) ==
  /\ r.pc = "punchInToday" => ~OpenBefore(StartOfDay(r.at))
  /\ r.pc = "punchIn" => \A s \in Used : ~IsOpen(s)

KnowsSession(r) ==
  r.session \in Used =>
    /\ r.pc \in {"breakStart", "breakEnd", "punchOut", "latePunch"} => IsOpen(r.session)
    /\ r.pc = "breakStart" => LastType(r.session) \in StartsWork
    /\ r.pc = "breakEnd"   => LastType(r.session) = "BREAK_START"
    /\ r.pc \in {"punchOut", "latePunch"} => r.seen = events[r.session]

Knows(r) == KnowsTimes(r) /\ KnowsOpen(r) /\ KnowsSession(r)

\* Two sessions of one member of staff.
Apart(r, s) ==
  /\ IsOpen(r) => ~IsOpen(s)
  /\ \/ session[r].status = "CLOSED" /\ session[r].last < session[s].first
     \/ session[s].status = "CLOSED" /\ session[s].last < session[r].first

SInv ==
  /\ \A s \in Used : DayOK(session[s], events[s], now)
  /\ \A r, s \in Used : r # s => Apart(r, s)
  /\ \A h \in Handlers : Knows(req[h])

QInv == AInv /\ TInv /\ SInv

LEMMA SInit == Init => SInv
<1>1. Init => Used = {}
  BY DEF Init, Used, UnusedSession
<1>2. \A r : r = Idle => r.pc = "idle" /\ r.session = "none"
  BY DEF Idle
<1>3. ASSUME Init, NEW h \in Handlers PROVE Knows(req[h])
  BY <1>1, <1>2, <1>3 DEF Init, Knows, KnowsTimes, KnowsOpen, KnowsSession
<1> QED BY <1>1, <1>3 DEF SInv

\* An event that is later than the last is so with a later clock.
LEMMA LaterDay ==
  ASSUME NEW row, NEW day \in Seq(EventRow), NEW m \in Nat, NEW n \in Nat, m <= n,
         DayOK(row, day, m), row.status = "CLOSED" => row.last \in Time
  PROVE  DayOK(row, day, n)
<1>1. \A i \in 1..Len(day) : day[i].at \in Nat
  BY FlooredTyped
<1>2. row.status = "CLOSED" => row.last <= n
  BY BoundAssumption DEF DayOK, Time
<1>3. row.status = "OPEN" => \A i \in 1..Len(day) : day[i].at <= n
  BY <1>1 DEF DayOK
<1> QED BY <1>2, <1>3 DEF DayOK

\* The rows and times of sessions in use are typed, and a closed one has ended.
LEMMA UsedTyped ==
  ASSUME AInv, TInv, NEW s \in Used
  PROVE  /\ s \in SessionIds /\ events[s] \in Seq(EventRow) /\ session[s] \in SessionRow
         /\ session[s].first \in Time /\ session[s].first <= now
         /\ session[s].date = StartOfDay(session[s].first)
         /\ IsOpen(s) => \A i \in 1..Len(events[s]) : events[s][i].type \notin EndsDay
         /\ session[s].status = "CLOSED" => /\ session[s].last \in Time
                                            /\ session[s].first < session[s].last
<1>1. /\ s \in SessionIds /\ events[s] \in Seq(EventRow) /\ session[s] \in SessionRow
      /\ RowAgrees(session[s], EventsOf(s)) /\ session[s].first \in 0..now
      /\ now \in Time
  BY DEF Used, AInv, TInv, TypeOK, SessionsAgree
<1>2. session[s].first \in Time /\ session[s].first <= now
  BY <1>1, BoundAssumption DEF Time
<1>3. session[s].date = StartOfDay(session[s].first)
  BY <1>1 DEF RowAgrees
<1>4. IsOpen(s) => \A i \in 1..Len(events[s]) : events[s][i].type \notin EndsDay
  BY <1>1 DEF RowAgrees, IsOpen, EventsOf
<1>5. session[s].status = "CLOSED" =>
        session[s].last \in Time /\ session[s].first < session[s].last
  <2> SUFFICES ASSUME session[s].status = "CLOSED"
               PROVE  session[s].last \in Time /\ session[s].first < session[s].last
    OBVIOUS
  <2>1. PICK e \in EventsOf(s) : session[s].last = e.at
    BY <1>1 DEF RowAgrees
  <2>2. e \in EventRow
    BY <1>1 DEF EventsOf
  <2> QED BY <1>1, <2>1, <2>2 DEF RowAgrees, EventRow
<1> QED BY <1>1, <1>2, <1>3, <1>4, <1>5

\* A step that moves the request on, to one that knows as much, keeps SInv.
LEMMA SMoves ==
  ASSUME QInv, NEW h \in Handlers, NEW r, Knows(r), req' = [req EXCEPT ![h] = r],
         UNCHANGED <<session, events>>, now' \in Time, now <= now'
  PROVE  SInv'
<1>1. Used' = Used /\ Used \subseteq SessionIds
  BY DEF Used
<1>2. ASSUME NEW s \in Used PROVE DayOK(session[s], events[s], now')
  <2>1. now \in Nat /\ now' \in Nat
    BY BoundAssumption DEF QInv, AInv, Time
  <2>2. /\ events[s] \in Seq(EventRow)
        /\ session[s].status = "CLOSED" => session[s].last \in Time
    BY UsedTyped DEF QInv
  <2>3. DayOK(session[s], events[s], now)
    BY DEF QInv, SInv
  <2> QED BY <2>1, <2>2, <2>3, LaterDay
<1>3. \A g \in Handlers : Knows(req'[g])
  BY DEF QInv, SInv, AInv
<1>4. ASSUME NEW g \in Handlers PROVE Knows(req[g])'
  BY <1>1, <1>3 DEF Knows, KnowsTimes, KnowsOpen, KnowsSession, EarlierThan, LastType,
                    IsOpen, OpenBefore
<1>5. \A p, s \in Used' : p # s => Apart(p, s)'
  BY <1>1 DEF QInv, SInv, Apart, IsOpen
<1>6. \A s \in Used' : DayOK(session[s], events[s], now)'
  <2>1. ASSUME NEW s \in Used' PROVE DayOK(session'[s], events'[s], now')
    BY <1>1, <1>2
  <2> QED BY <2>1 DEF DayOK
<1> QED BY <1>4, <1>5, <1>6 DEF SInv

\* The only request is answered and rows are written.
LEMMA SWrites ==
  ASSUME Alone, QInv, NEW h \in Handlers, Reply(h),
         \A s \in Used' : DayOK(session'[s], events'[s], now'),
         \A p, s \in Used' : p # s => Apart(p, s)'
  PROVE  SInv'
<1>1. \A g \in Handlers : req'[g] = Idle
  BY DEF Alone, Reply, QInv, AInv
<1>2. \A r : r = Idle => r.pc = "idle" /\ r.session = "none"
  BY DEF Idle
<1>3. ASSUME NEW g \in Handlers PROVE Knows(req[g])'
  <2>1. req'[g].pc = "idle"
    BY <1>1, <1>2
  <2>2. req'[g].pc \notin {"lateRead", "latePunch", "breakStart", "breakEnd", "punchOut",
                           "punchIn", "punchInToday"}
    BY <2>1
  <2> QED BY <2>1, <2>2 DEF Knows, KnowsTimes, KnowsOpen, KnowsSession
<1> QED BY <1>3 DEF SInv, DayOK

\* The latest of the events of an open session is the last of its log.
LEMMA LatestIsLast ==
  ASSUME QInv, NEW s \in Used, IsOpen(s), NEW e \in LastEvents(s)
  PROVE  e.type = LastType(s)
<1> DEFINE day == events[s]
           N   == Len(day)
<1>1. /\ day \in Seq(EventRow) /\ N # 0 /\ Rising(day)
  BY UsedTyped DEF QInv, SInv, DayOK, IsOpen
<1>2. N \in 1..N /\ \A i \in 1..N : day[i].at \in Nat
  BY <1>1, FlooredTyped
<1>3. PICK i \in 1..N : e = day[i]
  BY DEF LastEvents, EventsOf
<1>4. day[N].at <= day[i].at
  BY <1>2, <1>3 DEF LastEvents, EventsOf
<1>5. i = N
  <2>1. i < N => day[i].at < day[N].at
    BY <1>1, <1>2 DEF Rising
  <2> HIDE DEF day
  <2> QED BY <1>1, <1>2, <1>4, <2>1
<1> QED BY <1>3, <1>5 DEF LastType

\* When a request arrives, everything that happened is earlier.
LEMMA ArrivesLater ==
  ASSUME QInv, NEW t \in Time, now < t, NEW s \in Used
  PROVE  EarlierThan(s, t)
<1>1. now \in Nat /\ t \in Nat
  BY BoundAssumption DEF QInv, AInv, Time
<1>2. DayOK(session[s], events[s], now) /\ session[s].status \in {"OPEN", "CLOSED"}
  BY DEF QInv, SInv, Used
<1>3. CASE IsOpen(s)
  <2>1. \A i \in 1..Len(events[s]) : events[s][i].at \in Nat /\ events[s][i].at <= now
    <3>1. events[s] \in Seq(EventRow)
      BY UsedTyped DEF QInv
    <3> QED BY <1>2, <1>3, <3>1, FlooredTyped DEF DayOK, IsOpen
  <2> QED BY <1>1, <1>3, <2>1 DEF EarlierThan
<1>4. CASE ~IsOpen(s)
  <2>1. session[s].last \in Nat /\ session[s].last <= now
    <3>1. session[s].last \in Time
      BY <1>2, <1>4, UsedTyped DEF QInv, IsOpen
    <3> QED BY <1>2, <1>4, <3>1, BoundAssumption DEF DayOK, IsOpen, Time
  <2> QED BY <1>1, <1>4, <2>1 DEF EarlierThan
<1> QED BY <1>3, <1>4

\* An open session that began before today is found by the first read of a
\* punch-in, one of today by the second: after both there is none.
LEMMA NoneOpen ==
  ASSUME QInv, NEW t \in Time, \A s \in Used : EarlierThan(s, t),
         ~OpenBefore(StartOfDay(t)), ~OpenOn(StartOfDay(t))
  PROVE  \A s \in Used : ~IsOpen(s)
<1> SUFFICES ASSUME NEW s \in Used, IsOpen(s) PROVE FALSE
  OBVIOUS
<1>1. /\ s \in SessionIds /\ session[s].first \in Time
      /\ session[s].date = StartOfDay(session[s].first)
  BY UsedTyped DEF QInv
<1>2. session[s].first < t
  <2>1. Len(events[s]) # 0 /\ events[s][1].at = session[s].first
    BY DEF QInv, SInv, DayOK
  <2>2. 1 \in 1..Len(events[s])
    <3>1. events[s] \in Seq(EventRow)
      BY UsedTyped DEF QInv
    <3> QED BY <2>1, <3>1
  <2> QED BY <2>1, <2>2 DEF EarlierThan
<1>3. /\ session[s].date <= StartOfDay(t)
      /\ session[s].date \in Nat /\ StartOfDay(t) \in Nat
  <2>1. session[s].first \in Nat /\ t \in Nat /\ session[s].first <= t
    BY <1>1, <1>2, BoundAssumption DEF Time
  <2> QED BY <1>1, <2>1, DayOrders
<1>4. PICK day \in Nat : day = StartOfDay(t)
  BY <1>3
<1>5. session[s].date < day \/ session[s].date = day
  BY <1>3, <1>4
<1> QED BY <1>1, <1>4, <1>5 DEF OpenBefore, OpenOn

\* Every step keeps what holds of requests served one at a time.
LEMMA SStep ==
  ASSUME Alone, HonestClock PROVE QInv /\ [Next]_vars => SInv'
<1> SUFFICES ASSUME QInv, [Next]_vars PROVE SInv'
  OBVIOUS
<1>t. /\ AInv /\ TInv /\ SInv /\ now \in Time /\ now \in Nat /\ Time \subseteq Nat
      /\ session \in [SessionIds -> SessionRow] /\ events \in [SessionIds -> Seq(EventRow)]
      /\ req \in [Handlers -> Request] /\ Used \subseteq SessionIds
  BY BoundAssumption DEF QInv, TInv, TypeOK, Time, Used
<1>k. ASSUME NEW h \in Handlers
      PROVE  /\ Knows(req[h]) /\ KnowsTimes(req[h]) /\ KnowsOpen(req[h]) /\ KnowsSession(req[h])
             /\ req[h] \in Request /\ req[h].at \in Time /\ req[h].at <= now
             /\ req[h].out \in Time
  BY <1>t DEF SInv, Knows, AInv, Request
\* A request arrives.
<1>1. ASSUME NEW h \in Handlers, NEW t \in Time, NEW r, Arrive(h, t, r), r.at = t,
             r.pc \in {"punchInOld", "breakStartRead", "breakEndRead", "punchOutRead",
                       "lateRead"},
             r.pc = "lateRead" => r.out < t
      PROVE  SInv'
  <2>1. /\ req' = [req EXCEPT ![h] = r] /\ UNCHANGED <<session, events>>
        /\ now' = t /\ now < t
    BY <1>1 DEF Arrive
  <2>2. \A s \in Used : EarlierThan(s, t)
    BY <2>1, ArrivesLater
  <2>3. Knows(r)
    BY <1>1, <2>2 DEF Knows, KnowsTimes, KnowsOpen, KnowsSession
  <2>4. now' \in Time /\ now <= now'
    BY <1>t, <2>1
  <2> QED BY <2>1, <2>3, <2>4, SMoves
<1>2. ASSUME NEW h \in Handlers, Ask(h) PROVE SInv'
  <2>1. CASE AskPunchIn(h)
    <3>1. PICK t \in Time : Arrive(h, t, [Idle EXCEPT !.pc = "punchInOld", !.at = t])
      BY <2>1 DEF AskPunchIn
    <3>2. /\ [Idle EXCEPT !.pc = "punchInOld", !.at = t].at = t
          /\ [Idle EXCEPT !.pc = "punchInOld", !.at = t].pc = "punchInOld"
      BY DEF Idle
    <3> QED BY <1>1, <3>1, <3>2
  <2>2. ASSUME NEW label \in {"breakStartRead", "breakEndRead", "punchOutRead"},
               AskOnSession(h, label)
        PROVE  SInv'
    <3>1. PICK t \in Time, s \in Used :
            Arrive(h, t, [Idle EXCEPT !.pc = label, !.session = s, !.at = t])
      BY <2>2 DEF AskOnSession
    <3> DEFINE r == [Idle EXCEPT !.pc = label, !.session = s, !.at = t]
    <3>2. r.pc = label /\ r.at = t
      BY DEF Idle
    <3> QED BY <1>1, <3>1, <3>2
  <2>3. CASE AskLatePunch(h)
    <3>1. PICK t \in Time, out \in Time, s \in Used :
            /\ LateTimesOK(out, t)
            /\ Arrive(h, t, [Idle EXCEPT !.pc = "lateRead", !.session = s, !.at = t,
                                         !.out = out])
      BY <2>3 DEF AskLatePunch
    <3> DEFINE r == [Idle EXCEPT !.pc = "lateRead", !.session = s, !.at = t, !.out = out]
    <3>2. r.pc = "lateRead" /\ r.at = t /\ r.out = out /\ out < t
      BY <3>1 DEF Idle, LateTimesOK
    <3> QED BY <1>1, <3>1, <3>2
  <2> QED BY <1>2, <2>1, <2>2, <2>3 DEF Ask
\* A handler answers or goes on with its tables unchanged.
<1>m. ASSUME NEW h \in Handlers, NEW r, Knows(r), req' = [req EXCEPT ![h] = r],
             UNCHANGED <<session, events, now>>
      PROVE  SInv'
  <2>1. now' \in Time /\ now <= now' /\ UNCHANGED <<session, events>>
    BY <1>m, <1>t
  <2> QED BY <1>m, <2>1, SMoves
<1>3. ASSUME NEW h \in Handlers, Reply(h), UNCHANGED <<session, events, now>>
      PROVE  SInv'
  <2>1. Idle.pc = "idle"
    BY DEF Idle
  <2>2. Knows(Idle)
    BY <2>1 DEF Knows, KnowsTimes, KnowsOpen, KnowsSession
  <2> QED BY <1>3, <1>m, <2>2 DEF Reply
<1>4. ASSUME NEW h \in Handlers, NEW r, r = [req[h] EXCEPT !.pc = r.pc], req[h].pc # "idle",
             r.pc \in {"punchInToday", "punchIn", "breakStart", "breakEnd"},
             KnowsOpen(r), KnowsSession(r), GoOn(h, r.pc), UNCHANGED <<session, events, now>>
      PROVE  SInv'
  <2>1. r.at = req[h].at
    <3>1. \A l : [req[h] EXCEPT !.pc = l].at = req[h].at
      BY <1>k DEF Request
    <3> QED BY <1>4, <3>1
  <2>2. Knows(r)
    BY <1>4, <1>k, <2>1 DEF Knows, KnowsTimes
  <2>3. req' = [req EXCEPT ![h] = r]
    BY <1>4, <1>t DEF GoOn
  <2> QED BY <1>4, <1>m, <2>2, <2>3
<1>5. ASSUME NEW h \in Handlers, PunchInReadOld(h) PROVE SInv'
  <2>1. CASE Reply(h)
    BY <1>5, <2>1, <1>3 DEF PunchInReadOld, Check
  <2>2. CASE ~Reply(h)
    <3>1. PICK r : r = [req[h] EXCEPT !.pc = "punchInToday"]
      OBVIOUS
    <3>2. r.pc = "punchInToday" /\ r.at = req[h].at
      BY <3>1, <1>k DEF Request
    <3>3. /\ ~OpenBefore(StartOfDay(req[h].at)) /\ req[h].pc # "idle"
          /\ GoOn(h, "punchInToday") /\ UNCHANGED <<session, events, now>>
      BY <1>5, <2>2 DEF PunchInReadOld, Check, At
    <3>4. KnowsOpen(r) /\ KnowsSession(r)
      BY <3>2, <3>3 DEF KnowsOpen, KnowsSession
    <3> QED BY <1>4, <3>1, <3>2, <3>3, <3>4
  <2> QED BY <2>1, <2>2
<1>6. ASSUME NEW h \in Handlers, PunchInReadToday(h) PROVE SInv'
  <2>1. CASE Reply(h)
    BY <1>6, <2>1, <1>3 DEF PunchInReadToday, Check
  <2>2. CASE ~Reply(h)
    <3>1. PICK r : r = [req[h] EXCEPT !.pc = "punchIn"]
      OBVIOUS
    <3>2. r.pc = "punchIn" /\ r.at = req[h].at
      BY <3>1, <1>k DEF Request
    <3>3. /\ ~OpenOn(StartOfDay(req[h].at)) /\ req[h].pc = "punchInToday"
          /\ GoOn(h, "punchIn") /\ UNCHANGED <<session, events, now>>
      BY <1>6, <2>2 DEF PunchInReadToday, Check, At
    <3>4. \A s \in Used : ~IsOpen(s)
      <4>1. PICK t \in Time : t = req[h].at
        BY <1>k
      <4>2. ~OpenBefore(StartOfDay(t)) /\ ~OpenOn(StartOfDay(t))
        BY <1>k, <3>3, <4>1 DEF KnowsOpen
      <4>3. \A s \in Used : EarlierThan(s, t)
        BY <1>k, <3>3, <4>1 DEF KnowsTimes
      <4> QED BY <4>2, <4>3, NoneOpen
    <3>5. KnowsOpen(r) /\ KnowsSession(r)
      BY <3>2, <3>4 DEF KnowsOpen, KnowsSession
    <3> QED BY <1>4, <3>1, <3>2, <3>3, <3>5
  <2> QED BY <2>1, <2>2
<1>7. ASSUME NEW h \in Handlers, BreakStartRead(h) \/ BreakEndRead(h) PROVE SInv'
  <2>1. CASE Reply(h)
    BY <1>7, <2>1, <1>3 DEF BreakStartRead, BreakEndRead, ReadLast
  <2>2. CASE ~Reply(h)
    <3>0. PICK s, next : /\ s = req[h].session
                         /\ next = IF req[h].pc = "breakStartRead" THEN "breakStart" ELSE "breakEnd"
      OBVIOUS
    <3>1. PICK r : r = [req[h] EXCEPT !.pc = next]
      OBVIOUS
    <3>2. r.pc = next /\ r.at = req[h].at /\ r.session = s
      BY <3>0, <3>1, <1>k DEF Request
    <3>3. /\ IsOpen(s) /\ req[h].pc # "idle"
          /\ GoOn(h, next) /\ UNCHANGED <<session, events, now>>
          /\ \E e \in LastEvents(s) : /\ next = "breakStart" => MayStartBreak(e)
                                      /\ next = "breakEnd"   => MayEndBreak(e)
      BY <1>7, <2>2, <3>0 DEF BreakStartRead, BreakEndRead, ReadLast, At
    <3>4. s \in Used => /\ next = "breakStart" => LastType(s) \in StartsWork
                        /\ next = "breakEnd"   => LastType(s) = "BREAK_START"
      BY <3>3, LatestIsLast DEF MayStartBreak, MayEndBreak, StartsWork
    <3>5. KnowsOpen(r) /\ KnowsSession(r) /\ r.pc \in {"breakStart", "breakEnd"}
      BY <3>0, <3>2, <3>3, <3>4 DEF KnowsOpen, KnowsSession
    <3> QED BY <1>4, <3>1, <3>2, <3>3, <3>5
  <2> QED BY <2>1, <2>2
\* It reads the events of its session.
<1>8. ASSUME NEW h \in Handlers, PunchOutRead(h) \/ LateRead(h) PROVE SInv'
  <2>1. CASE Reply(h)
    BY <1>8, <2>1, <1>3 DEF PunchOutRead, LateRead, ReadOpen
  <2>2. CASE ~Reply(h)
    <3>0. PICK s, next : /\ s = req[h].session
                         /\ next = IF req[h].pc = "punchOutRead" THEN "punchOut" ELSE "latePunch"
      OBVIOUS
    <3>1. PICK r : r = [req[h] EXCEPT !.pc = next, !.seen = events[s]]
      OBVIOUS
    <3>2. /\ r.pc = next /\ r.at = req[h].at /\ r.out = req[h].out /\ r.session = s
          /\ r.seen = events[s]
      BY <3>0, <3>1, <1>k DEF Request
    <3>3. /\ IsOpen(s) /\ req[h].pc \in {"punchOutRead", "lateRead"}
          /\ req' = [req EXCEPT ![h] = r] /\ UNCHANGED <<session, events, now>>
      BY <1>8, <2>2, <3>0, <3>1 DEF PunchOutRead, LateRead, ReadOpen, At
    <3>4. Knows(r)
      BY <1>k, <3>0, <3>2, <3>3 DEF Knows, KnowsTimes, KnowsOpen, KnowsSession
    <3> QED BY <1>m, <3>3, <3>4
  <2> QED BY <2>1, <2>2

\* A session is opened: none was open, and the others ended before.
<1>9. ASSUME NEW h \in Handlers, PunchIn(h) PROVE SInv'
  <2>1. CASE UNCHANGED <<session, events>>
    BY <1>9, <2>1, <1>3 DEF PunchIn
  <2>2. CASE ~UNCHANGED <<session, events>>
    <3>0. PICK t \in Time : t = req[h].at /\ t <= now
      BY <1>k
    <3>1. PICK s \in SessionIds :
            /\ session[s].status = "UNUSED"
            /\ session' = [session EXCEPT ![s] = OpenSession(t)]
            /\ events'  = [events EXCEPT ![s] = <<Entry("PUNCH_IN", t)>>]
      BY <1>9, <2>2, <3>0 DEF PunchIn
    <3>2. /\ session'[s] = OpenSession(t) /\ events'[s] = <<Entry("PUNCH_IN", t)>>
          /\ \A q \in SessionIds : q # s => session'[q] = session[q] /\ events'[q] = events[q]
      BY <1>t, <3>1
    <3>3. Used' = Used \cup {s} /\ s \notin Used
      BY <3>1, <3>2, OpenTyped DEF Used
    <3>4. req[h].pc = "punchIn" /\ Reply(h) /\ now' = now
      BY <1>9 DEF PunchIn, At
    <3>5. DayOK(session'[s], events'[s], now')
      BY <1>t, <3>0, <3>2, <3>4, OpenedDay
    <3>6. ASSUME NEW q \in Used
          PROVE  /\ DayOK(session'[q], events'[q], now')
                 /\ session'[q].status = "CLOSED" /\ session'[q].last < t
      <4>1. session'[q] = session[q] /\ events'[q] = events[q]
        BY <1>t, <3>2, <3>3
      <4>2. EarlierThan(q, t) /\ ~IsOpen(q)
        BY <1>k, <3>0, <3>4 DEF KnowsTimes, KnowsOpen
      <4> QED BY <1>t, <3>4, <4>1, <4>2 DEF SInv, EarlierThan, IsOpen, Used
    <3>7. session'[s].first = t
      BY <3>2 DEF OpenSession, UnusedSession
    <3>8. \A p, q \in Used' : p # q => Apart(p, q)'
      <4>1. ASSUME NEW p \in Used', NEW q \in Used', p # q PROVE Apart(p, q)'
        <5>1. CASE p \in Used /\ q \in Used
          <6>1. session'[p] = session[p] /\ session'[q] = session[q]
            BY <1>t, <3>2, <3>3, <5>1
          <6> QED BY <1>t, <4>1, <5>1, <6>1 DEF SInv, Apart, IsOpen
        <5>2. CASE p = s /\ q \in Used
          BY <3>6, <3>7, <5>2 DEF Apart, IsOpen
        <5>3. CASE p \in Used /\ q = s
          BY <3>6, <3>7, <5>3 DEF Apart, IsOpen
        <5> QED BY <3>3, <4>1, <5>1, <5>2, <5>3
      <4> QED BY <4>1
    <3>9. \A q \in Used' : DayOK(session'[q], events'[q], now')
      BY <3>3, <3>5, <3>6
    <3> QED BY <3>4, <3>8, <3>9, SWrites
  <2> QED BY <2>1, <2>2
\* A break starts or ends.
<1>10. ASSUME NEW h \in Handlers, BreakStart(h) \/ BreakEnd(h) PROVE SInv'
  <2>0. PICK s, t, type :
          /\ s = req[h].session /\ t = req[h].at
          /\ type = IF req[h].pc = "breakStart" THEN "BREAK_START" ELSE "BREAK_END"
    OBVIOUS
  <2>1. /\ req[h].pc \in {"breakStart", "breakEnd"} /\ Reply(h)
        /\ UNCHANGED <<session, now>>
        /\ \/ s \in Used /\ events' = [events EXCEPT ![s] = Append(@, Entry(type, t))]
           \/ UNCHANGED events
    BY <1>10, <2>0 DEF BreakStart, BreakEnd, AppendEvent, At
  <2>2. CASE UNCHANGED events
    BY <2>1, <2>2, <1>3
  <2>3. CASE ~UNCHANGED events
    <3>1. PICK e : e = Entry(type, t)
      OBVIOUS
    <3>2. /\ e \in EventRow /\ e.at = t /\ e.type = type /\ t <= now
      BY <1>k, <2>0, <3>1 DEF Entry, EventRow, EventType, StartsWork
    <3>3. /\ s \in Used /\ s \in SessionIds /\ events'[s] = Append(events[s], e)
          /\ \A q \in SessionIds : q # s => events'[q] = events[q]
      BY <1>t, <2>1, <2>3, <3>1
    <3>4. IsOpen(s) /\ EarlierThan(s, t) /\ <<LastType(s), type>> \in MayFollow
      <4>1. IsOpen(s) /\ EarlierThan(s, t)
        BY <1>k, <2>0, <2>1, <3>3 DEF KnowsTimes, KnowsSession
      <4>2. /\ req[h].pc = "breakStart" => LastType(s) \in StartsWork
            /\ req[h].pc = "breakEnd" => LastType(s) = "BREAK_START"
        BY <1>k, <2>0, <3>3 DEF KnowsSession
      <4> QED BY <2>0, <2>1, <4>1, <4>2 DEF MayFollow, StartsWork
    <3>5. DayOK(session'[s], events'[s], now')
      <4>1. PICK day \in Seq(EventRow), row \in SessionRow : day = events[s] /\ row = session[s]
        BY <1>t, <3>3
      <4>2. DayOK(row, day, now) /\ row.status = "OPEN"
        BY <1>t, <3>3, <3>4, <4>1 DEF SInv, IsOpen
      <4>3. /\ \A i \in 1..Len(day) : day[i].at < e.at
            /\ <<day[Len(day)].type, e.type>> \in MayFollow /\ e.at <= now
        BY <3>2, <3>4, <4>1 DEF EarlierThan, LastType
      <4>4. DayOK(row, Append(day, e), now)
        BY <1>t, <3>2, <4>2, <4>3, PausedDay
      <4> QED BY <2>1, <3>3, <4>1, <4>4
    <3>6. Used' = Used
      BY <2>1 DEF Used
    <3>7. \A q \in Used' : DayOK(session'[q], events'[q], now')
      BY <1>t, <2>1, <3>3, <3>5, <3>6 DEF SInv
    <3>8. \A p, q \in Used' : p # q => Apart(p, q)'
      BY <1>t, <2>1, <3>6 DEF SInv, Apart, IsOpen
    <3> QED BY <2>1, <3>7, <3>8, SWrites
  <2> QED BY <2>2, <2>3
\* A session is closed: what was read of it is all there is.
<1>c. ASSUME NEW h \in Handlers, NEW p, p = req[h].session, p \in Used, NEW e \in EventRow,
             \/ req[h].pc = "punchOut" /\ e = Entry("PUNCH_OUT", req[h].at)
             \/ req[h].pc = "latePunch" /\ e = Entry("LATE_PUNCH_OUT", req[h].out),
             session'[p] = Closed(session[p], KindOf(e), e.at, TotalsAtClose(req[h].seen, e)),
             events'[p] = Append(events[p], e), now' = now
      PROVE  /\ DayOK(session'[p], events'[p], now')
             /\ session'[p].status = "CLOSED" /\ session'[p].last = e.at
             /\ session'[p].first = session[p].first
             /\ IsOpen(p) /\ session[p].first < e.at
  <2>1. PICK day \in Seq(EventRow), row \in SessionRow : day = events[p] /\ row = session[p]
    BY <1>t, <1>c
  <2>2. /\ DayOK(row, day, now) /\ row.status = "OPEN" /\ req[h].seen = day
        /\ EarlierThan(p, req[h].at)
    BY <1>k, <1>t, <1>c, <2>1 DEF SInv, KnowsSession, KnowsTimes, IsOpen
  <2>3. \A i \in 1..Len(day) : day[i].type \notin EndsDay /\ day[i].at < req[h].at
    BY <1>c, <1>t, <2>1, <2>2, UsedTyped DEF EarlierThan, IsOpen
  <2>4. Len(day) # 0 /\ day[1].at = row.first /\ 1 \in 1..Len(day)
    BY <2>1, <2>2 DEF DayOK
  <2>5. /\ e.at <= now /\ row.first < e.at
        /\ \/ e.type = "PUNCH_OUT" /\ \A i \in 1..Len(day) : day[i].at < e.at
           \/ e.type = "LATE_PUNCH_OUT" /\ row.first < e.at
    <3>1. CASE req[h].pc = "punchOut"
      <4>1. e.type = "PUNCH_OUT" /\ e.at = req[h].at
        BY <1>c, <3>1 DEF Entry
      <4> QED BY <1>k, <2>3, <2>4, <4>1
    <3>2. CASE req[h].pc = "latePunch"
      <4>1. e.type = "LATE_PUNCH_OUT" /\ e.at = req[h].out
        BY <1>c, <3>2 DEF Entry
      <4>2. req[h].out < req[h].at /\ req[h].out \in Nat /\ req[h].at \in Nat
        BY <1>k, <1>t, <3>2 DEF KnowsTimes
      <4>3. session[p].first < req[h].out
        BY <1>c, <1>t, <3>2 DEF AInv, AsksAfterFirst
      <4> QED BY <1>k, <1>t, <2>1, <4>1, <4>2, <4>3
    <3> QED BY <1>c, <3>1, <3>2
  <2>6. DayOK(Closed(row, KindOf(e), e.at, TotalsAtClose(day, e)), Append(day, e), now)
    BY <1>t, <2>2, <2>3, <2>5, ClosedDay
  <2>7. session'[p] = Closed(row, KindOf(e), e.at, TotalsAtClose(day, e))
    BY <1>c, <2>1, <2>2
  <2>8. /\ session'[p].status = "CLOSED" /\ session'[p].last = e.at
        /\ session'[p].first = row.first
    BY <2>7 DEF Closed
  <2> QED BY <1>c, <2>1, <2>2, <2>5, <2>6, <2>7, <2>8 DEF IsOpen
<1>11. ASSUME NEW h \in Handlers, PunchOut(h) PROVE SInv'
  <2>0. PICK p, e : p = req[h].session /\ e = Entry("PUNCH_OUT", req[h].at)
    OBVIOUS
  <2>1. /\ req[h].pc = "punchOut" /\ Reply(h) /\ now' = now
        /\ \/ Close(p, "NORMAL", e, req[h].seen)
           \/ UNCHANGED <<session, events>>
    BY <1>11, <2>0 DEF PunchOut, At
  <2>2. CASE UNCHANGED <<session, events>>
    BY <2>1, <2>2, <1>3
  <2>3. CASE Close(p, "NORMAL", e, req[h].seen)
    <3> DEFINE row == Closed(session[p], "NORMAL", e.at, TotalsAtClose(req[h].seen, e))
    <3>1. /\ p \in Used /\ session' = [session EXCEPT ![p] = row]
          /\ events' = [events EXCEPT ![p] = Append(@, e)]
      BY <2>3 DEF Close
    <3>2. e \in EventRow /\ KindOf(e) = "NORMAL"
      BY <1>k, <2>0 DEF Entry, EventRow, EventType, EndsDay, KindOf
    <3> HIDE DEF row
    <3>3. /\ session'[p] = row /\ events'[p] = Append(events[p], e)
          /\ \A q \in SessionIds : q # p => session'[q] = session[q] /\ events'[q] = events[q]
      BY <1>t, <3>1
    <3>4. /\ DayOK(session'[p], events'[p], now')
          /\ session'[p].status = "CLOSED" /\ session'[p].last = e.at
          /\ session'[p].first = session[p].first
          /\ IsOpen(p) /\ session[p].first < e.at
      <4>1. session'[p] = Closed(session[p], KindOf(e), e.at, TotalsAtClose(req[h].seen, e))
        BY <3>2, <3>3 DEF row
      <4>2. req[h].pc = "punchOut" /\ p = req[h].session /\ p \in Used /\ now' = now
            /\ e = Entry("PUNCH_OUT", req[h].at) /\ events'[p] = Append(events[p], e)
        BY <2>0, <2>1, <3>1, <3>3
      <4> QED BY <1>c, <3>2, <4>1, <4>2
    <3>5. Used' = Used
      <4>1. ASSUME NEW q \in SessionIds PROVE q \in Used' <=> q \in Used
        BY <3>1, <3>3, <3>4, <4>1 DEF Used
      <4> QED BY <4>1 DEF Used
    <3>6. \A q \in Used' : DayOK(session'[q], events'[q], now')
      BY <1>t, <2>1, <3>3, <3>4, <3>5 DEF SInv
    <3>7. ASSUME NEW q \in Used, q # p
          PROVE  /\ session'[q] = session[q] /\ session[q].status = "CLOSED"
                 /\ session[q].last < session[p].first
      <4>1. session'[q] = session[q] /\ Apart(p, q)
        BY <1>t, <3>1, <3>3, <3>7 DEF SInv
      <4>2. ~IsOpen(q) /\ session[p].status # "CLOSED"
        BY <3>4, <4>1 DEF Apart, IsOpen
      <4> QED BY <4>1, <4>2 DEF Apart, IsOpen, Used
    <3>8. \A q, r \in Used' : q # r => Apart(q, r)'
      <4>1. ASSUME NEW q \in Used, NEW r \in Used, q # r PROVE Apart(q, r)'
        <5>1. CASE q = p
          BY <3>4, <3>7, <4>1, <5>1 DEF Apart, IsOpen
        <5>2. CASE r = p
          BY <3>4, <3>7, <4>1, <5>2 DEF Apart, IsOpen
        <5>3. CASE q # p /\ r # p
          BY <1>t, <3>7, <4>1, <5>3 DEF SInv, Apart, IsOpen
        <5> QED BY <5>1, <5>2, <5>3
      <4> QED BY <3>5, <4>1
    <3> QED BY <2>1, <3>6, <3>8, SWrites
  <2> QED BY <2>1, <2>2, <2>3
\* A session is closed late, and another opened after that.
<1>12. ASSUME NEW h \in Handlers, LatePunch(h) PROVE SInv'
  <2>0. PICK p, e, t : /\ p = req[h].session /\ t = req[h].at
                       /\ e = Entry("LATE_PUNCH_OUT", req[h].out)
    OBVIOUS
  <2>1. req[h].pc = "latePunch" /\ Reply(h) /\ now' = now
    BY <1>12 DEF LatePunch, At
  <2>2. CASE UNCHANGED <<session, events>>
    BY <2>1, <2>2, <1>3
  <2>3. CASE ~UNCHANGED <<session, events>>
    <3> DEFINE row == Closed(session[p], "LATE", e.at, TotalsAtClose(req[h].seen, e))
    <3>0. /\ e.at = req[h].out /\ e \in EventRow /\ KindOf(e) = "LATE"
          /\ t \in Time /\ t <= now
      BY <1>k, <2>0 DEF Entry, EventRow, EventType, EndsDay, KindOf
    <3>1. /\ p \in Used
          /\ \E s \in SessionIds :
               /\ session[s].status = "UNUSED"
               /\ session' = [session EXCEPT ![p] = row, ![s] = OpenSession(t)]
               /\ events' = [events EXCEPT ![p] = Append(@, e),
                                           ![s] = <<Entry("PUNCH_IN", t)>>]
      BY <1>12, <2>0, <2>3, <3>0 DEF LatePunch
    <3> HIDE DEF row
    <3>2. PICK s \in SessionIds :
            /\ session[s].status = "UNUSED"
            /\ session' = [session EXCEPT ![p] = row, ![s] = OpenSession(t)]
            /\ events' = [events EXCEPT ![p] = Append(@, e),
                                        ![s] = <<Entry("PUNCH_IN", t)>>]
      BY <3>1
    <3>3. p # s /\ p \in SessionIds
      BY <1>t, <3>1, <3>2 DEF Used
    <3>4. /\ session'[p] = row /\ events'[p] = Append(events[p], e)
          /\ session'[s] = OpenSession(t) /\ events'[s] = <<Entry("PUNCH_IN", t)>>
          /\ \A q \in SessionIds : q # p /\ q # s =>
               session'[q] = session[q] /\ events'[q] = events[q]
      BY <1>t, <3>2, <3>3
    <3>5. /\ DayOK(session'[p], events'[p], now')
          /\ session'[p].status = "CLOSED" /\ session'[p].last = e.at
          /\ session'[p].first = session[p].first
          /\ IsOpen(p) /\ session[p].first < e.at
      <4>1. session'[p] = Closed(session[p], KindOf(e), e.at, TotalsAtClose(req[h].seen, e))
        BY <3>0, <3>4 DEF row
      <4>2. req[h].pc = "latePunch" /\ e = Entry("LATE_PUNCH_OUT", req[h].out)
        BY <2>0, <2>1
      <4>3. p = req[h].session /\ p \in Used /\ e \in EventRow /\ now' = now
            /\ events'[p] = Append(events[p], e)
        BY <2>0, <2>1, <3>0, <3>1, <3>4
      <4> HIDE <2>0, <2>1, <3>0, <3>1, <3>4
      <4> QED BY <1>c, <4>1, <4>2, <4>3
    <3>6. /\ DayOK(session'[s], events'[s], now')
          /\ session'[s].status = "OPEN" /\ session'[s].first = t
      <4>1. session'[s].status = "OPEN" /\ session'[s].first = t
        BY <3>4 DEF OpenSession, UnusedSession
      <4> QED BY <1>t, <2>1, <3>0, <3>4, <4>1, OpenedDay
    <3>7. e.at < t
      BY <1>k, <2>0, <2>1, <3>0 DEF KnowsTimes
    <3>8. Used' = Used \cup {s} /\ s \notin Used
      <4>1. ASSUME NEW q \in SessionIds PROVE q \in Used' <=> q \in Used \/ q = s
        BY <3>1, <3>4, <3>5, <3>6, <4>1 DEF Used
      <4> QED BY <3>2, <4>1 DEF Used
    <3>9. ASSUME NEW q \in Used, q # p
          PROVE  /\ session'[q] = session[q] /\ session[q].status = "CLOSED"
                 /\ session[q].last < session[p].first /\ session[q].last < t
                 /\ DayOK(session'[q], events'[q], now')
      <4>1. /\ session'[q] = session[q] /\ events'[q] = events[q] /\ Apart(p, q)
            /\ DayOK(session[q], events[q], now)
        BY <1>t, <3>1, <3>4, <3>8, <3>9 DEF SInv
      <4>2. ~IsOpen(q) /\ session[p].status # "CLOSED"
        BY <3>5, <4>1 DEF Apart, IsOpen
      <4>3. EarlierThan(q, t)
        BY <1>k, <2>0, <2>1 DEF KnowsTimes
      <4> QED BY <2>1, <4>1, <4>2, <4>3 DEF Apart, IsOpen, Used, EarlierThan
    <3>10. \A q \in Used' : DayOK(session'[q], events'[q], now')
      BY <3>5, <3>6, <3>8, <3>9
    <3>11. ASSUME NEW q \in Used PROVE session'[q].status = "CLOSED" /\ session'[q].last < t
      BY <3>5, <3>7, <3>9
    <3>12. \A q, r \in Used' : q # r => Apart(q, r)'
      <4>1. ASSUME NEW q \in Used, NEW r \in Used, q # r PROVE Apart(q, r)'
        <5>1. CASE q = p
          BY <3>5, <3>9, <4>1, <5>1 DEF Apart, IsOpen
        <5>2. CASE r = p
          BY <3>5, <3>9, <4>1, <5>2 DEF Apart, IsOpen
        <5>3. CASE q # p /\ r # p
          BY <1>t, <3>9, <4>1, <5>3 DEF SInv, Apart, IsOpen
        <5> QED BY <5>1, <5>2, <5>3
      <4>2. ASSUME NEW q \in Used PROVE Apart(q, s)' /\ Apart(s, q)'
        BY <3>6, <3>11 DEF Apart, IsOpen
      <4> QED BY <3>8, <4>1, <4>2
    <3> QED BY <2>1, <3>10, <3>12, SWrites
  <2> QED BY <2>2, <2>3
\* The rows of the member of staff are deleted; its request goes on.
<1>13. ASSUME DeleteStaff PROVE SInv'
  <2>1. Used' = {}
    <3>1. ASSUME NEW s \in SessionIds PROVE s \notin Used'
      <4>1. session'[s] = IF s \in Used THEN DeletedSession ELSE session[s]
        BY <1>13 DEF DeleteStaff
      <4> QED BY <4>1, DeletedTyped DEF Used
    <3> QED BY <3>1 DEF Used
  <2>2. \A s \in SessionIds : ~IsOpen(s)'
    BY <2>1 DEF Used, IsOpen
  <2>3. ASSUME NEW h \in Handlers PROVE Knows(req[h])'
    <3>1. req'[h] = req[h]
      BY <1>13 DEF DeleteStaff
    <3>2. KnowsTimes(req[h])'
      BY <1>k, <2>1, <3>1 DEF KnowsTimes
    <3>3. KnowsOpen(req[h])'
      BY <2>1, <2>2 DEF KnowsOpen, OpenBefore
    <3>4. KnowsSession(req[h])'
      BY <2>1 DEF KnowsSession
    <3> QED BY <3>2, <3>3, <3>4 DEF Knows
  <2> QED BY <2>1, <2>3 DEF SInv
<1>14. ASSUME UNCHANGED vars PROVE SInv'
  <2>1. Used' = Used
    BY <1>14 DEF vars, Used
  <2>2. \A s \in Used : DayOK(session[s], events[s], now)'
    BY <1>14, <1>t DEF vars, SInv
  <2>3. \A r, s \in Used : r # s => Apart(r, s)'
    BY <1>14, <1>t DEF vars, SInv, Apart, IsOpen
  <2>4. ASSUME NEW h \in Handlers PROVE Knows(req[h])'
    <3>1. req'[h] = req[h] /\ Knows(req[h])
      BY <1>14, <1>t DEF vars, SInv
    <3>2. KnowsTimes(req[h])'
      BY <1>14, <2>1, <3>1 DEF vars, Knows, KnowsTimes, EarlierThan, IsOpen
    <3>3. KnowsOpen(req[h])' /\ KnowsSession(req[h])'
      BY <1>14, <2>1, <3>1 DEF vars, Knows, KnowsOpen, KnowsSession, OpenBefore, LastType, IsOpen
    <3> QED BY <3>2, <3>3 DEF Knows
  <2> QED BY <2>1, <2>2, <2>3, <2>4 DEF SInv
<1>15. ASSUME NEW h \in Handlers, Step(h) PROVE SInv'
  BY <1>15, <1>5, <1>6, <1>7, <1>8, <1>9, <1>10, <1>11, <1>12 DEF Step
<1>16. ASSUME NEW h \in Handlers, Abort(h) PROVE SInv'
  BY <1>16, <1>3 DEF Abort
<1> QED BY <1>2, <1>13, <1>14, <1>15, <1>16 DEF Next

LEMMA SAlways == Alone /\ HonestClock /\ Spec => []QInv
<1> SUFFICES ASSUME Alone, HonestClock PROVE Spec => []QInv
  OBVIOUS
<1>1. Init => QInv
  BY AInit, TInit, SInit DEF QInv
<1>2. QInv /\ [Next]_vars => QInv'
  BY AStep, TStep, SStep DEF QInv
<1> QED BY <1>1, <1>2, PTL DEF Spec

\* Served one at a time, the events of every session are a well-formed day.
THEOREM DaysStayWellFormed == Alone /\ HonestClock /\ Spec => []DaysAreWellFormed
<1>1. QInv => DaysAreWellFormed
  BY DEF QInv, SInv, DaysAreWellFormed, DayOK
<1> QED BY <1>1, SAlways, PTL

\* Served one at a time, a punch-out pays every second since the punch-in, as
\* work or as break.
THEOREM EverySecondCounts == Alone /\ HonestClock /\ Spec => []NormalTotalsAddUp
<1>1. QInv => NormalTotalsAddUp
  BY DEF QInv, SInv, NormalTotalsAddUp, DayOK
<1> QED BY <1>1, SAlways, PTL

\* Served one at a time, the export's copy computes the totals that were stored, from
\* the events by time, unless the closing fell in the second of another event.
THEOREM ExportAgrees == Alone /\ HonestClock /\ Spec => []StoredTotalsAreExported
<1>1. QInv => StoredTotalsAreExported
  <2> SUFFICES ASSUME QInv, NEW s \in Used, session[s].status = "CLOSED",
                      ~ClosedInSecondOf(session[s], EventsOf(s))
               PROVE  ExportedTotals(events[s])
                        = [work |-> session[s].work, break |-> session[s].break]
    BY DEF StoredTotalsAreExported
  <2>1. events[s] \in Seq(EventRow) /\ DayOK(session[s], events[s], now)
    BY UsedTyped DEF QInv, SInv
  <2>2. /\ Len(events[s]) # 0 /\ ClosedByLast(session[s], events[s])
        /\ RecalcTotals(events[s]) = [work |-> session[s].work, break |-> session[s].break]
    BY <2>1 DEF DayOK
  <2>3. ~ClosedInSecondOf(session[s], {events[s][i] : i \in 1..Len(events[s])})
    BY DEF EventsOf
  <2> QED BY <2>1, <2>2, <2>3, ExportedDay
<1> QED BY <1>1, SAlways, PTL
-----------------------------------------------------------------------------
(* Attendance, served one request at a time, implements Timesheet *)

\* The request in flight is the latest: the clock stands at its time.
AtNow == \A h \in Handlers : Busy(h) => req[h].at = now

RInv == QInv /\ AtNow

\* A request arrives at a new time, and only its own steps follow.
LEMMA NowStep ==
  ASSUME Alone, HonestClock, QInv, AtNow, [Next]_vars PROVE AtNow'
<1>q. req \in [Handlers -> Request] /\ Idle.pc = "idle"
  BY DEF QInv, AInv, Idle
<1>1. ASSUME NEW h \in Handlers, NEW t, NEW r, r.at = t, Arrive(h, t, r) PROVE AtNow'
  BY <1>1, <1>q DEF Arrive, Alone, AtNow
<1>2. ASSUME NEW h \in Handlers, Ask(h) PROVE AtNow'
  <2>1. CASE AskPunchIn(h)
    BY <1>1, <2>1 DEF AskPunchIn, Idle
  <2>2. ASSUME NEW label, AskOnSession(h, label) PROVE AtNow'
    BY <1>1, <2>2 DEF AskOnSession, Idle
  <2>3. CASE AskLatePunch(h)
    BY <1>1, <2>3 DEF AskLatePunch, Idle
  <2> QED BY <1>2, <2>1, <2>2, <2>3 DEF Ask
\* The request goes on, or is answered.
<1>3. ASSUME NEW h \in Handlers, NEW r, req' = [req EXCEPT ![h] = r], now' = now,
             r.pc = "idle" \/ (Busy(h) /\ r.at = req[h].at)
      PROVE  AtNow'
  BY <1>3, <1>q DEF Alone, AtNow, Busy
<1>4. ASSUME NEW h \in Handlers, Reply(h), now' = now PROVE AtNow'
  BY <1>3, <1>4, <1>q DEF Reply
<1>5. ASSUME NEW h \in Handlers, Busy(h), NEW label, GoOn(h, label), now' = now PROVE AtNow'
  <2>1. /\ req' = [req EXCEPT ![h] = [req[h] EXCEPT !.pc = label]]
        /\ [req[h] EXCEPT !.pc = label].at = req[h].at
    BY <1>5, <1>q DEF GoOn, Request
  <2> QED BY <1>3, <1>5, <2>1
<1>6. ASSUME NEW h \in Handlers,
             \/ PunchInReadOld(h) \/ PunchInReadToday(h) \/ BreakStartRead(h) \/ BreakEndRead(h)
      PROVE  AtNow'
  <2>1. Busy(h) /\ now' = now /\ (Reply(h) \/ \E label : GoOn(h, label))
    BY <1>6 DEF PunchInReadOld, PunchInReadToday, BreakStartRead, BreakEndRead, Check, ReadLast,
                At, Busy
  <2> QED BY <1>4, <1>5, <2>1
<1>7. ASSUME NEW h \in Handlers, PunchOutRead(h) \/ LateRead(h) PROVE AtNow'
  <2>1. CASE Reply(h)
    BY <1>4, <1>7, <2>1 DEF PunchOutRead, LateRead, ReadOpen
  <2>2. CASE ~Reply(h)
    <3>1. PICK label, seen :
            req' = [req EXCEPT ![h] = [req[h] EXCEPT !.pc = label, !.seen = seen]]
      BY <1>7, <2>2 DEF PunchOutRead, LateRead, ReadOpen
    <3>2. [req[h] EXCEPT !.pc = label, !.seen = seen].at = req[h].at
      BY <1>q DEF Request
    <3>3. Busy(h) /\ now' = now
      BY <1>7 DEF PunchOutRead, LateRead, ReadOpen, At, Busy
    <3> QED BY <1>3, <3>1, <3>2, <3>3
  <2> QED BY <2>1, <2>2
<1>8. ASSUME NEW h \in Handlers,
             \/ PunchIn(h) \/ BreakStart(h) \/ BreakEnd(h) \/ PunchOut(h) \/ LatePunch(h)
             \/ Abort(h)
      PROVE  AtNow'
  BY <1>4, <1>8 DEF PunchIn, BreakStart, BreakEnd, AppendEvent, PunchOut, LatePunch, Abort
<1>9. CASE DeleteStaff \/ UNCHANGED vars
  BY <1>9 DEF DeleteStaff, vars, AtNow, Busy
<1> QED BY <1>2, <1>6, <1>7, <1>8, <1>9 DEF Next, Step

\* So it is from the start.
LEMMA RAlways == Alone /\ HonestClock /\ Spec => []RInv
<1> SUFFICES ASSUME Alone, HonestClock PROVE Spec => []RInv
  OBVIOUS
<1>1. Init => AtNow
  BY DEF Init, AtNow, Busy, Idle
<1>2. QInv /\ AtNow /\ [Next]_vars => AtNow'
  BY NowStep
<1>3. Alone /\ HonestClock /\ Spec => []QInv
  BY SAlways
<1> QED BY <1>1, <1>2, <1>3, PTL DEF Spec, RInv

\* Times and seconds mean the same in both modules.
LEMMA SheetOperators ==
  /\ \A t : Sheet!FloorToSecond(t) = FloorToSecond(t)
  /\ Sheet!NoTime = NoTime
BY DEF Sheet!FloorToSecond, FloorToSecond, Sheet!NoTime, NoTime

\* A row and the stint it is.
LEMMA StintsTyped ==
  /\ \A s \in SessionIds : stintOf[s] = StintOf(session[s])
  /\ Phase("UNUSED") = "none" /\ Phase("OPEN") = "working"
  /\ Phase("CLOSED") = "over" /\ Phase("DELETED") = "forgotten"
BY DEF stintOf, Phase

\* The stints of the rows that a step writes.
LEMMA StintsWritten ==
  /\ StintOf(UnusedSession) = Sheet!None
  /\ StintOf(DeletedSession) = Sheet!Forgotten
  /\ StintOf(OpenSession(now)) = Sheet!Working
<1>1. StintOf(UnusedSession) = Sheet!None
  BY StintsTyped, SheetOperators DEF StintOf, UnusedSession, Sheet!Stint, Sheet!None
<1>2. StintOf(DeletedSession) = Sheet!Forgotten
  BY StintsTyped, SheetOperators
     DEF StintOf, DeletedSession, UnusedSession, Sheet!Stint, Sheet!Forgotten
<1>3. StintOf(OpenSession(now)) = Sheet!Working
  <2>0. PICK row : row = OpenSession(now)
    OBVIOUS
  <2>1. /\ row.status = "OPEN" /\ row.first = now /\ row.last = NoTime
        /\ row.work = 0 /\ row.break = 0
    BY <2>0 DEF OpenSession, UnusedSession
  <2>2. Sheet!Working = [phase |-> "working", began |-> now, ended |-> NoTime, counted |-> 0]
    BY SheetOperators DEF Sheet!Stint, Sheet!Working
  <2>3. row.work + row.break = 0
    BY <2>1
  <2> QED BY <2>0, <2>1, <2>2, <2>3, StintsTyped DEF StintOf
<1> QED BY <1>1, <1>2, <1>3

\* A session that is closed is a stint that is over.
LEMMA StintEnds ==
  ASSUME NEW s \in SessionIds, NEW kind, NEW t, NEW totals,
         IsOpen(s), NEW row, row = Closed(session[s], kind, t, totals)
  PROVE  StintOf(row) = Sheet!Over(s, t, row.work + row.break)
<1>1. row.status = "CLOSED" /\ row.first = session[s].first /\ row.last = t
  BY DEF Closed
<1>2. StintOf(row) = [phase |-> "over", began |-> session[s].first, ended |-> t,
                      counted |-> row.work + row.break]
  BY <1>1, StintsTyped DEF StintOf
<1>3. stintOf[s].began = session[s].first
  <2>1. \A r : StintOf(r).began = r.first
    BY DEF StintOf
  <2> QED BY <2>1, StintsTyped
<1> QED BY <1>2, <1>3 DEF Sheet!Over, Sheet!Stint

\* A step that writes one row changes one stint.
LEMMA OneStint ==
  ASSUME NEW s \in SessionIds, NEW row, session \in [SessionIds -> SessionRow],
         session' = [session EXCEPT ![s] = row]
  PROVE  stintOf' = [stintOf EXCEPT ![s] = StintOf(row)]
BY DEF stintOf

\* No session exists at first, and no stint.
LEMMA SheetInit == Init => Sheet!Init
BY StintsWritten DEF Init, Sheet!Init, stintOf

\* What Timesheet knows of a stint is what the row says.
LEMMA StintMeans ==
  ASSUME session \in [SessionIds -> SessionRow], NEW s \in SessionIds
  PROVE  /\ stintOf[s].began = session[s].first /\ stintOf[s].ended = session[s].last
         /\ stintOf[s].phase = "none" <=> session[s].status = "UNUSED"
         /\ Sheet!IsWorking(s) <=> IsOpen(s)
         /\ stintOf[s].phase = "over" <=> session[s].status = "CLOSED"
<1>1. /\ stintOf[s].began = session[s].first /\ stintOf[s].ended = session[s].last
      /\ stintOf[s].phase = Phase(session[s].status)
  <2>1. \A r : /\ StintOf(r).began = r.first /\ StintOf(r).ended = r.last
               /\ StintOf(r).phase = Phase(r.status)
    BY DEF StintOf
  <2> QED BY <2>1, StintsTyped
<1>2. session[s].status \in {"UNUSED", "OPEN", "CLOSED", "DELETED"}
  BY DEF SessionRow
<1> QED BY <1>1, <1>2, StintsTyped DEF Sheet!IsWorking, IsOpen

\* The totals of a session whose events lie between its punch-in and time t.
LEMMA CountedFits ==
  ASSUME NEW row \in SessionRow, NEW evs \in SUBSET EventRow, NEW t \in Nat,
         row.status = "CLOSED", TotalsFitRow(row, evs), row.first \in Nat,
         \A e \in evs : row.first <= e.at /\ e.at <= t
  PROVE  row.work + row.break \in 0..(FloorToSecond(t) - FloorToSecond(row.first))
<1>1. PICK e \in evs, f \in evs :
        row.work + row.break <= FloorToSecond(f.at) - FloorToSecond(e.at)
  BY DEF TotalsFitRow
<1>2. /\ e.at \in Nat /\ f.at \in Nat /\ row.first <= e.at /\ f.at <= t
      /\ row.work \in Nat /\ row.break \in Nat
  BY BoundAssumption DEF EventRow, SessionRow, Time
<1>3. /\ FloorToSecond(f.at) \in Nat /\ FloorToSecond(t) \in Nat
      /\ FloorToSecond(f.at) <= FloorToSecond(t)
  BY <1>2, FloorOrders
<1>4. /\ FloorToSecond(row.first) \in Nat /\ FloorToSecond(e.at) \in Nat
      /\ FloorToSecond(row.first) <= FloorToSecond(e.at)
  BY <1>2, FloorOrders
<1> QED BY <1>1, <1>2, <1>3, <1>4

\* When the request in flight writes, all closed sessions are over before now.
LEMMA ClosedBefore ==
  ASSUME RInv, NEW h \in Handlers, Busy(h), NEW s \in SessionIds
  PROVE  Sheet!Earlier(s)
<1>1. session \in [SessionIds -> SessionRow] /\ Knows(req[h]) /\ req[h].at = now
  BY DEF RInv, QInv, TInv, TypeOK, SInv, AtNow
<1>2. session[s].status = "CLOSED" => session[s].last < now
  BY <1>1 DEF Knows, KnowsTimes, Busy, EarlierThan, IsOpen, Used
<1> QED BY <1>1, <1>2, StintMeans DEF Sheet!Earlier

\* A punch-in begins a stint, or finds the member gone.
LEMMA PunchInBegins ==
  ASSUME RInv, NEW h \in Handlers, PunchIn(h)
  PROVE  UNCHANGED <<stintOf, now>> \/ \E s \in SessionIds : Sheet!Begin(s)
<1>t. /\ session \in [SessionIds -> SessionRow] /\ Knows(req[h]) /\ req[h].pc = "punchIn"
      /\ Busy(h) /\ req[h].at = now
  BY DEF RInv, QInv, TInv, TypeOK, SInv, AtNow, PunchIn, At, Busy
<1>1. CASE UNCHANGED session
  BY <1>1 DEF PunchIn, stintOf
<1>2. CASE ~UNCHANGED session
  <2>1. PICK s \in SessionIds : /\ session[s].status = "UNUSED"
                                /\ session' = [session EXCEPT ![s] = OpenSession(now)]
    BY <1>2, <1>t DEF PunchIn
  <2>2. stintOf' = [stintOf EXCEPT ![s] = Sheet!Working]
    BY <1>t, <2>1, OneStint, StintsWritten
  <2>3. ASSUME NEW r \in SessionIds PROVE ~Sheet!IsWorking(r) /\ Sheet!Earlier(r)
    <3>1. ~IsOpen(r)
      BY <1>t DEF Knows, KnowsOpen, Used, IsOpen
    <3> QED BY <1>t, <3>1, StintMeans, ClosedBefore
  <2>4. stintOf[s].phase = "none" /\ now' = now
    BY <1>t, <2>1, StintMeans DEF PunchIn
  <2> QED BY <2>2, <2>3, <2>4 DEF Sheet!Begin
<1> QED BY <1>1, <1>2

\* A punch-out leaves, or finds the session gone.
LEMMA PunchOutLeaves ==
  ASSUME RInv, NEW h \in Handlers, PunchOut(h), RInv'
  PROVE  UNCHANGED <<stintOf, now>> \/ \E s \in SessionIds : Sheet!Leave(s)
<1>0. PICK s, e : s = req[h].session /\ e = Entry("PUNCH_OUT", req[h].at)
  OBVIOUS
<1>t. /\ session \in [SessionIds -> SessionRow] /\ Knows(req[h]) /\ req[h].pc = "punchOut"
      /\ Busy(h) /\ req[h].at = now /\ now' = now /\ Used \subseteq SessionIds
  BY DEF RInv, QInv, TInv, TypeOK, SInv, AtNow, PunchOut, At, Busy, Used
<1>1. CASE UNCHANGED session
  BY <1>1 DEF PunchOut, stintOf
<1>2. CASE ~UNCHANGED session
  <2> DEFINE totals == TotalsAtClose(req[h].seen, e)
  <2>1. Close(s, "NORMAL", e, req[h].seen) /\ e.at = now
    BY <1>0, <1>2, <1>t DEF PunchOut, Entry
  <2>2. /\ s \in Used /\ s \in SessionIds
        /\ session' = [session EXCEPT ![s] = Closed(session[s], "NORMAL", now, totals)]
    BY <1>t, <2>1 DEF Close
  <2> HIDE DEF totals
  <2>3. IsOpen(s) /\ session[s].first < now
    <3>1. IsOpen(s)
      BY <1>0, <1>t, <2>2 DEF Knows, KnowsSession
    <3>2. AsksAfterFirst
      BY DEF RInv, QInv, AInv
    <3> QED BY <1>0, <1>t, <2>2, <3>1, <3>2 DEF AsksAfterFirst
  <2>4. PICK row : row = Closed(session[s], "NORMAL", now, totals)
    OBVIOUS
  <2>5. /\ session'[s] = row /\ row.status = "CLOSED" /\ row.closure = "NORMAL"
        /\ row.last = now /\ row.first = session[s].first
    BY <1>t, <2>2, <2>4 DEF Closed
  <2>6. row.work + row.break = FloorToSecond(now) - FloorToSecond(session[s].first)
    <3>1. s \in Used'
      BY <2>2, <2>5 DEF Used
    <3>2. DayOK(session'[s], events'[s], now')
      BY <3>1 DEF RInv, QInv, SInv
    <3> QED BY <2>5, <3>2 DEF DayOK
  <2>7. stintOf' = [stintOf EXCEPT ![s] = StintOf(row)]
    BY <1>t, <2>2, <2>4, OneStint
  <2>8. StintOf(row) = Sheet!Over(s, now, row.work + row.break)
    BY <2>2, <2>3, <2>4, StintEnds
  <2>9. /\ Sheet!IsWorking(s) /\ stintOf[s].began = session[s].first
        /\ row.work + row.break = Sheet!SecondsSince(stintOf[s].began)
    BY <1>t, <2>2, <2>3, <2>6, StintMeans, SheetOperators DEF Sheet!SecondsSince
  <2> QED BY <1>t, <2>2, <2>3, <2>7, <2>8, <2>9 DEF Sheet!Leave
<1> QED BY <1>1, <1>2

\* So does a late one, which begins another stint.
LEMMA LatePunchLeaves ==
  ASSUME Alone, RInv, NEW h \in Handlers, LatePunch(h), RInv'
  PROVE  UNCHANGED <<stintOf, now>> \/ \E s, r \in SessionIds : Sheet!LeaveLate(s, r)
<1>0. PICK s, e, out : /\ s = req[h].session /\ out = req[h].out
                       /\ e = Entry("LATE_PUNCH_OUT", req[h].out)
  OBVIOUS
<1>t. /\ session \in [SessionIds -> SessionRow] /\ events \in [SessionIds -> Seq(EventRow)]
      /\ Knows(req[h]) /\ req[h].pc = "latePunch" /\ Busy(h) /\ req[h].at = now
      /\ now' = now /\ Used \subseteq SessionIds /\ out \in Time /\ now \in Time
      /\ Time \subseteq Nat
  <2>1. req[h].pc = "latePunch" /\ Busy(h) /\ now' = now
    BY DEF LatePunch, At, Busy
  <2>2. req[h].at = now /\ Knows(req[h]) /\ Used \subseteq SessionIds
    BY <2>1 DEF RInv, QInv, SInv, AtNow, Used
  <2>3. TypeOK
    BY DEF RInv, QInv, TInv
  <2>4. out \in Time
    BY <1>0, <2>3 DEF TypeOK, Request
  <2>5. Time \subseteq Nat
    BY BoundAssumption DEF Time
  <2> QED BY <2>1, <2>2, <2>3, <2>4, <2>5 DEF TypeOK
<1>n. now \in Nat /\ out \in Nat
  BY <1>t
<1>1. CASE UNCHANGED session
  BY <1>1 DEF LatePunch, stintOf
<1>2. CASE ~UNCHANGED session
  <2> DEFINE totals == TotalsAtClose(req[h].seen, e)
  <2>1. /\ s \in Used /\ s \in SessionIds
        /\ \E r \in SessionIds :
             /\ session[r].status = "UNUSED"
             /\ session' = [session EXCEPT ![s] = Closed(session[s], "LATE", out, totals),
                                           ![r] = OpenSession(now)]
             /\ events' = [events EXCEPT ![s] = Append(events[s], e),
                                         ![r] = <<Entry("PUNCH_IN", now)>>]
    BY <1>0, <1>2, <1>t DEF LatePunch
  <2> HIDE DEF totals
  <2>2. PICK r \in SessionIds :
          /\ session[r].status = "UNUSED"
          /\ session' = [session EXCEPT ![s] = Closed(session[s], "LATE", out, totals),
                                        ![r] = OpenSession(now)]
          /\ events' = [events EXCEPT ![s] = Append(events[s], e),
                                      ![r] = <<Entry("PUNCH_IN", now)>>]
    BY <2>1
  <2>3. PICK row : row = Closed(session[s], "LATE", out, totals)
    OBVIOUS
  <2>4. s # r
    BY <2>1, <2>2 DEF Used
  <2>5. /\ session'[s] = row /\ row.status = "CLOSED" /\ row.last = out
        /\ row.first = session[s].first /\ events'[s] = Append(events[s], e)
    BY <1>t, <2>1, <2>2, <2>3, <2>4 DEF Closed
  <2>6. IsOpen(s) /\ session[s].first < out /\ out < now
    <3>1. IsOpen(s) /\ out < now
      BY <1>0, <1>t, <2>1 DEF Knows, KnowsSession, KnowsTimes, Busy
    <3>2. AsksAfterFirst
      BY DEF RInv, QInv, AInv
    <3> QED BY <1>0, <1>t, <2>1, <3>1, <3>2 DEF AsksAfterFirst
  <2>7. row.work + row.break \in 0..(FloorToSecond(now) - FloorToSecond(session[s].first))
    <3>1. s \in Used'
      BY <2>1, <2>5 DEF Used
    <3>2. /\ session' \in [SessionIds -> SessionRow] /\ events' \in [SessionIds -> Seq(EventRow)]
          /\ TotalsFitRow(session'[s], EventsOf(s)')
      BY <3>1 DEF RInv, QInv, TInv, TypeOK
    <3>3. /\ events[s] \in Seq(EventRow) /\ Len(events[s]) # 0
          /\ events[s][1].at = session[s].first
          /\ \A i \in 1..Len(events[s]) : events[s][i].at < now
          /\ Rising(events[s])
      <4>1. DayOK(session[s], events[s], now) /\ EarlierThan(s, now)
        BY <1>t, <2>1 DEF RInv, QInv, SInv, Knows, KnowsTimes, Busy
      <4> QED BY <1>t, <2>1, <2>6, <4>1 DEF DayOK, IsOpen, EarlierThan
    <3>4. e \in EventRow /\ e.at = out
      <4>1. "LATE_PUNCH_OUT" \in EventType
        BY DEF EventType, EndsDay
      <4> QED BY <1>0, <1>t, <4>1 DEF Entry, EventRow
    <3>5. EventsOf(s)' = EventsOf(s) \cup {e}
      <4>1. events[s] \in Seq(EventRow) /\ events'[s] = Append(events[s], e)
        BY <2>5, <3>3
      <4> QED BY <3>4, <4>1, EventsAppended
    <3>6. ASSUME NEW f \in EventsOf(s)
          PROVE  f \in EventRow /\ session[s].first <= f.at /\ f.at <= now
      <4>1. PICK i \in 1..Len(events[s]) : f = events[s][i]
        BY DEF EventsOf
      <4>2. f \in EventRow /\ f.at \in Nat
        BY <3>3, <4>1, FlooredTyped
      <4>n. session[s].first \in Nat
        BY <1>t, <2>1, UsedTyped DEF RInv, QInv
      <4>3. i = 1 \/ events[s][1].at < f.at
        BY <3>3, <4>1 DEF Rising
      <4>4. f.at < now /\ (i = 1 => f.at = session[s].first)
        BY <3>3, <4>1
      <4>5. session[s].first <= f.at
        BY <3>3, <4>2, <4>n, <4>3, <4>4
      <4> QED BY <1>n, <4>2, <4>4, <4>5
    <3>7. row \in SessionRow /\ session[s].first \in Nat
      BY <1>t, <2>1, <2>5, <3>2, UsedTyped DEF RInv, QInv
    <3>8. \A f \in EventsOf(s)' : f \in EventRow /\ row.first <= f.at /\ f.at <= now
      BY <1>t, <2>5, <2>6, <3>4, <3>5, <3>6, <3>7
    <3> QED BY <1>t, <2>5, <3>2, <3>7, <3>8, CountedFits
  <2>8. stintOf' = [stintOf EXCEPT ![s] = StintOf(row), ![r] = Sheet!Working]
    BY <1>t, <2>1, <2>2, <2>3, <2>4, StintsWritten DEF stintOf
  <2>9. StintOf(row) = Sheet!Over(s, out, row.work + row.break)
    BY <2>1, <2>3, <2>6, StintEnds
  <2>10. /\ Sheet!IsWorking(s) /\ stintOf[s].began = session[s].first
         /\ Sheet!SecondsSince(stintOf[s].began)
              = FloorToSecond(now) - FloorToSecond(session[s].first)
         /\ stintOf[r].phase = "none"
    BY <1>t, <2>1, <2>2, <2>6, StintMeans, SheetOperators DEF Sheet!SecondsSince
  <2>11. ASSUME NEW q \in SessionIds \ {s} PROVE ~Sheet!IsWorking(q) /\ Sheet!Earlier(q)
    <3>1. ~IsOpen(q)
      BY <2>1, <2>6 DEF RInv, QInv, SInv, Apart, Used, IsOpen
    <3> QED BY <1>t, <3>1, StintMeans, ClosedBefore
  <2>12. out \in session[s].first + 1 .. now - 1
    <3>1. session[s].first \in Nat
      BY <1>t, <2>1, UsedTyped DEF RInv, QInv
    <3>2. session[s].first < out /\ out < now
      BY <2>6
    <3> QED BY <1>n, <3>1, <3>2
  <2>13. PICK seconds : seconds = row.work + row.break
    OBVIOUS
  <2>14. stintOf' = [stintOf EXCEPT ![s] = Sheet!Over(s, out, seconds), ![r] = Sheet!Working]
    BY <2>8, <2>9, <2>13
  <2>15. out \in stintOf[s].began + 1 .. now - 1
    BY <2>10, <2>12
  <2>16. seconds \in 0..Sheet!SecondsSince(stintOf[s].began)
    BY <2>7, <2>10, <2>13
  <2>17. Sheet!LeaveLate(s, r)
    BY <1>t, <2>10, <2>11, <2>14, <2>15, <2>16 DEF Sheet!LeaveLate
  <2> QED BY <2>1, <2>2, <2>17
<1> QED BY <1>1, <1>2

\* The deletion of the member forgets all stints.
LEMMA DeletionForgets ==
  ASSUME RInv, DeleteStaff PROVE Sheet!Forget
<1>1. session \in [SessionIds -> SessionRow] /\ now' = now
  BY DEF RInv, QInv, TInv, TypeOK, DeleteStaff
<1>2. ASSUME NEW s \in SessionIds
      PROVE  StintOf(session'[s]) = IF stintOf[s].phase \in {"working", "over"}
                                    THEN Sheet!Forgotten ELSE stintOf[s]
  <2>1. s \in Used <=> stintOf[s].phase \in {"working", "over"}
    BY <1>1, StintMeans DEF Used, Sheet!IsWorking, IsOpen
  <2>2. session'[s] = IF s \in Used THEN DeletedSession ELSE session[s]
    BY DEF DeleteStaff
  <2> QED BY <2>1, <2>2, StintsWritten, StintsTyped
<1> QED BY <1>1, <1>2 DEF Sheet!Forget, stintOf

\* Every step of attendance is a step of Timesheet or leaves it alone.
LEMMA SheetStep ==
  ASSUME Alone, HonestClock, RInv, RInv', [Next]_vars
  PROVE  [Sheet!Next]_Sheet!sheetVars
<1>0. UNCHANGED <<session, now>> => UNCHANGED Sheet!sheetVars
  BY DEF stintOf, Sheet!sheetVars
<1>1. ASSUME NEW h \in Handlers, Ask(h) PROVE Sheet!Tick
  <2>1. \A t, r : Arrive(h, t, r) => now' = t /\ t > now /\ UNCHANGED session
    BY DEF Arrive
  <2>2. now' > now /\ UNCHANGED session
    BY <1>1, <2>1 DEF Ask, AskPunchIn, AskOnSession, AskLatePunch
  <2> QED BY <2>2 DEF Sheet!Tick, stintOf
<1>2. ASSUME NEW h \in Handlers,
             \/ PunchInReadOld(h) \/ PunchInReadToday(h)
             \/ BreakStartRead(h) \/ BreakStart(h) \/ BreakEndRead(h) \/ BreakEnd(h)
             \/ PunchOutRead(h) \/ LateRead(h) \/ Abort(h)
      PROVE  UNCHANGED Sheet!sheetVars
  BY <1>0, <1>2 DEF PunchInReadOld, PunchInReadToday, Check, BreakStartRead, BreakEndRead,
     ReadLast, BreakStart, BreakEnd, AppendEvent, PunchOutRead, LateRead, ReadOpen, Abort
<1>3. ASSUME NEW h \in Handlers, PunchIn(h) PROVE [Sheet!Next]_Sheet!sheetVars
  BY <1>3, PunchInBegins DEF Sheet!Next, Sheet!sheetVars
<1>4. ASSUME NEW h \in Handlers, PunchOut(h) PROVE [Sheet!Next]_Sheet!sheetVars
  BY <1>4, PunchOutLeaves DEF Sheet!Next, Sheet!sheetVars
<1>5. ASSUME NEW h \in Handlers, LatePunch(h) PROVE [Sheet!Next]_Sheet!sheetVars
  BY <1>5, LatePunchLeaves DEF Sheet!Next, Sheet!sheetVars
<1>6. CASE DeleteStaff
  BY <1>6, DeletionForgets DEF Sheet!Next
<1>7. CASE UNCHANGED vars
  BY <1>0, <1>7 DEF vars
<1>8. ASSUME NEW h \in Handlers, Ask(h) PROVE Sheet!Next
  BY <1>1, <1>8 DEF Sheet!Next
<1> QED BY <1>2, <1>3, <1>4, <1>5, <1>6, <1>7, <1>8 DEF Next, Step

\* Served one at a time, with an honest clock, attendance implements Timesheet:
\* stints follow one another, a finished one never changes, and each counts the
\* time from its beginning until the member left, or at most until he said so.
THEOREM ImplementsTimesheet == Alone /\ HonestClock /\ Spec => FollowsTimesheet
<1> SUFFICES ASSUME Alone, HonestClock PROVE Spec => FollowsTimesheet
  OBVIOUS
<1>1. Init => Sheet!Init
  BY SheetInit
<1>2. RInv /\ RInv' /\ [Next]_vars => [Sheet!Next]_Sheet!sheetVars
  BY SheetStep
<1>3. Alone /\ HonestClock /\ Spec => []RInv
  BY RAlways
<1> QED BY <1>1, <1>2, <1>3, PTL DEF Spec, FollowsTimesheet, Sheet!Spec
-----------------------------------------------------------------------------
(* What follows of Timesheet: no second is counted twice *)

CountedTo(s) == FloorToSecond(stintOf[s].began) + stintOf[s].counted
IsOver(s)    == stintOf[s].phase = "over"
Begun(s)     == Sheet!IsWorking(s) \/ IsOver(s)

\* What is counted of a stint has passed, and none began before it had.
CountedInv ==
  /\ \A s \in SessionIds : IsOver(s) => CountedTo(s) <= FloorToSecond(now)
  /\ \A r, s \in SessionIds :
       IsOver(r) /\ Begun(s) /\ stintOf[r].began < stintOf[s].began
         => CountedTo(r) <= FloorToSecond(stintOf[s].began)

\* Stints that have begun, and the one that lasts.
LEMMA StintsKnown ==
  ASSUME RInv
  PROVE  /\ now \in Nat /\ FloorToSecond(now) \in Nat
         /\ \A s \in SessionIds : Begun(s) =>
              /\ stintOf[s].began \in Nat /\ FloorToSecond(stintOf[s].began) \in Nat
              /\ stintOf[s].began <= now /\ CountedTo(s) \in Nat
         /\ \A s, q \in SessionIds : Sheet!IsWorking(s) /\ Begun(q) /\ q # s =>
              IsOver(q) /\ stintOf[q].began < stintOf[s].began
<1>t. session \in [SessionIds -> SessionRow] /\ now \in Nat /\ Time \subseteq Nat
  BY BoundAssumption DEF RInv, QInv, AInv, TInv, TypeOK, Time
<1>1. \A s \in SessionIds : /\ Begun(s) <=> s \in Used
                            /\ IsOver(s) <=> session[s].status = "CLOSED"
                            /\ Sheet!IsWorking(s) <=> session[s].status = "OPEN"
                            /\ stintOf[s].began = session[s].first
  BY <1>t, StintMeans DEF Begun, IsOver, Used, IsOpen
<1>2. \A s \in Used : /\ session[s].first \in Nat /\ session[s].first <= now
                      /\ session[s].status = "CLOSED" =>
                           session[s].last \in Nat /\ session[s].first < session[s].last
  BY <1>t, UsedTyped DEF RInv, QInv
<1>3. ASSUME NEW s \in SessionIds, NEW q \in SessionIds, Sheet!IsWorking(s), Begun(q), q # s
      PROVE  IsOver(q) /\ stintOf[q].began < stintOf[s].began
  <2>1. s \in Used /\ q \in Used /\ Apart(s, q) /\ session[s].status = "OPEN"
    BY <1>1, <1>3 DEF RInv, QInv, SInv, Used
  <2>2. session[q].status = "CLOSED" /\ session[q].last < session[s].first
    BY <2>1 DEF Apart, IsOpen, Used
  <2> QED BY <1>1, <1>2, <2>1, <2>2
<1>4. ASSUME NEW s \in SessionIds PROVE stintOf[s].counted \in Nat
  <2>1. \A r : StintOf(r).counted = r.work + r.break
    BY DEF StintOf
  <2>2. session[s].work \in Nat /\ session[s].break \in Nat
    BY <1>t DEF SessionRow
  <2> QED BY <2>1, <2>2, StintsTyped
<1>5. ASSUME NEW s \in SessionIds, Begun(s)
      PROVE  /\ stintOf[s].began \in Nat /\ FloorToSecond(stintOf[s].began) \in Nat
             /\ stintOf[s].began <= now /\ CountedTo(s) \in Nat
  BY <1>1, <1>2, <1>4, <1>5, FloorOrders DEF CountedTo
<1> QED BY <1>t, <1>3, <1>5, FloorOrders

\* No stint has been counted at first.
LEMMA CountedInit == Init => CountedInv
<1>1. Init => \A s \in SessionIds : stintOf[s].phase = "none"
  BY StintsTyped, StintsWritten, SheetInit DEF Sheet!Init, Sheet!None, Sheet!Stint
<1> QED BY <1>1 DEF CountedInv, IsOver

\* The stint that lasts is over: it is the latest, and counts no more than has passed.
LEMMA CountedOver ==
  ASSUME RInv, CountedInv, NEW s \in SessionIds, Sheet!IsWorking(s),
         NEW t, NEW seconds \in Nat, seconds <= Sheet!SecondsSince(stintOf[s].began),
         NEW st, st = Sheet!Over(s, t, seconds)
  PROVE  /\ st.phase = "over" /\ st.began = stintOf[s].began
         /\ FloorToSecond(st.began) + st.counted <= FloorToSecond(now)
<1>1. st.phase = "over" /\ st.began = stintOf[s].began /\ st.counted = seconds
  BY DEF Sheet!Over, Sheet!Stint
<1>2. seconds <= FloorToSecond(now) - FloorToSecond(stintOf[s].began)
  BY SheetOperators DEF Sheet!SecondsSince
<1>3. FloorToSecond(now) \in Nat /\ FloorToSecond(stintOf[s].began) \in Nat
  BY StintsKnown DEF Begun
<1> QED BY <1>1, <1>2, <1>3

\* A step that keeps stints, or forgets them, while time goes on.
LEMMA CountedKept ==
  ASSUME RInv, CountedInv, now \in Nat, now' \in Nat, now <= now',
         \A s \in SessionIds : stintOf'[s] = stintOf[s] \/ stintOf'[s] = Sheet!Forgotten
  PROVE  CountedInv'
<1>1. Sheet!Forgotten.phase = "forgotten"
  BY DEF Sheet!Forgotten, Sheet!Stint
<1>2. ASSUME NEW s \in SessionIds, IsOver(s)' \/ Begun(s)'
      PROVE  /\ stintOf'[s] = stintOf[s] /\ Begun(s) /\ IsOver(s)' = IsOver(s)
             /\ CountedTo(s)' = CountedTo(s)
  <2>1. stintOf'[s] = stintOf[s]
    BY <1>1, <1>2 DEF IsOver, Begun, Sheet!IsWorking
  <2> QED BY <1>2, <2>1 DEF IsOver, Begun, Sheet!IsWorking, CountedTo
<1>3. FloorToSecond(now) <= FloorToSecond(now') /\ FloorToSecond(now') \in Nat
      /\ FloorToSecond(now) \in Nat
  BY FloorOrders
<1>4. ASSUME NEW s \in SessionIds, IsOver(s)' PROVE CountedTo(s)' <= FloorToSecond(now')
  <2>1. CountedTo(s)' = CountedTo(s) /\ CountedTo(s) \in Nat
        /\ CountedTo(s) <= FloorToSecond(now)
    BY <1>2, <1>4, StintsKnown DEF CountedInv
  <2> QED BY <1>3, <2>1
<1>5. ASSUME NEW r \in SessionIds, NEW s \in SessionIds, IsOver(r)', Begun(s)',
             stintOf'[r].began < stintOf'[s].began
      PROVE  CountedTo(r)' <= FloorToSecond(stintOf'[s].began)
  <2>1. /\ IsOver(r) /\ Begun(s) /\ CountedTo(r)' = CountedTo(r)
        /\ stintOf'[r] = stintOf[r] /\ stintOf'[s] = stintOf[s]
    BY <1>2, <1>5
  <2> QED BY <1>5, <2>1 DEF CountedInv
<1> QED BY <1>4, <1>5 DEF CountedInv

\* One that lets a stint be over, and may begin another, now.
LEMMA CountedWritten ==
  ASSUME RInv, CountedInv, now' = now,
         NEW new \in SUBSET SessionIds, NEW old \in SUBSET SessionIds,
         \A s \in SessionIds \ (new \cup old) : stintOf'[s] = stintOf[s],
         \A s \in new : stintOf[s].phase = "none" /\ stintOf'[s] = Sheet!Working,
         \A s \in old : /\ Sheet!IsWorking(s) /\ stintOf'[s].began = stintOf[s].began
                        /\ stintOf'[s].phase = "over"
                        /\ CountedTo(s)' <= FloorToSecond(now)
  PROVE  CountedInv'
<1>1. Sheet!Working.phase = "working" /\ Sheet!Working.began = now
  BY DEF Sheet!Working, Sheet!Stint
<1>2. ASSUME NEW s \in SessionIds, Begun(s)'
      PROVE  \/ s \in new /\ ~IsOver(s)' /\ stintOf'[s].began = now
             \/ s \in old /\ Begun(s) /\ stintOf'[s].began = stintOf[s].began
             \/ /\ s \notin new \cup old /\ Begun(s)
                /\ stintOf'[s] = stintOf[s] /\ IsOver(s)' = IsOver(s)
                /\ CountedTo(s)' = CountedTo(s)
  BY <1>1, <1>2 DEF IsOver, Begun, Sheet!IsWorking, CountedTo
<1>n. ASSUME NEW s \in new PROVE ~IsOver(s)' /\ stintOf'[s].began = now /\ s \notin old
  BY <1>1, <1>n DEF IsOver, Sheet!IsWorking
<1>3. \A s : IsOver(s)' => Begun(s)'
  BY DEF IsOver, Begun
<1>4. ASSUME NEW s \in SessionIds, IsOver(s)' PROVE CountedTo(s)' <= FloorToSecond(now)
  <2>1. Begun(s)'
    BY <1>3, <1>4
  <2>2. s \in old \/ (IsOver(s) /\ CountedTo(s)' = CountedTo(s))
    BY <1>2, <1>4, <2>1
  <2> QED BY <2>2 DEF CountedInv
<1>5. ASSUME NEW r \in SessionIds, NEW s \in SessionIds, IsOver(r)', Begun(s)',
             stintOf'[r].began < stintOf'[s].began
      PROVE  CountedTo(r)' <= FloorToSecond(stintOf'[s].began)
  <2>1. Begun(r)' /\ r \notin new
    BY <1>3, <1>5, <1>n
  <2>2. CASE s \in new
    BY <1>4, <1>5, <1>n, <2>2
  <2>3. CASE s \notin new
    <3>1. Begun(s) /\ stintOf'[s].began = stintOf[s].began
      BY <1>2, <1>5, <2>3
    <3>2. CASE r \in old
      <4>1. Sheet!IsWorking(r) /\ stintOf[r].began < stintOf[s].began /\ s # r
        BY <1>5, <3>1, <3>2, StintsKnown
      <4>2. stintOf[s].began < stintOf[r].began
        BY <3>1, <4>1, StintsKnown
      <4>3. stintOf[s].began \in Nat /\ stintOf[r].began \in Nat
        BY <3>1, <4>1, StintsKnown DEF Begun
      <4> QED BY <4>1, <4>2, <4>3
    <3>3. CASE r \notin old
      BY <1>2, <1>5, <2>1, <3>1, <3>3 DEF CountedInv
    <3> QED BY <3>2, <3>3
  <2> QED BY <2>2, <2>3
<1> QED BY <1>4, <1>5 DEF CountedInv

\* Every step of Timesheet, from a state of attendance, keeps it.
LEMMA CountedStep ==
  ASSUME RInv, CountedInv, RInv', [Sheet!Next]_Sheet!sheetVars
  PROVE  CountedInv'
<1>n. now \in Nat /\ now' \in Nat
  BY BoundAssumption DEF RInv, QInv, AInv, Time
<1>d. DOMAIN stintOf = SessionIds
  BY DEF stintOf
<1>1. CASE UNCHANGED Sheet!sheetVars \/ Sheet!Tick
  BY <1>1, <1>n, CountedKept DEF Sheet!sheetVars, Sheet!Tick
<1>2. CASE Sheet!Forget
  <2>1. now' = now /\ \A s \in SessionIds : stintOf'[s] = stintOf[s] \/ stintOf'[s] = Sheet!Forgotten
    BY <1>2 DEF Sheet!Forget
  <2> QED BY <1>n, <2>1, CountedKept
<1>3. ASSUME NEW s \in SessionIds, Sheet!Begin(s) PROVE CountedInv'
  <2>1. /\ stintOf[s].phase = "none" /\ now' = now /\ stintOf'[s] = Sheet!Working
        /\ \A q \in SessionIds \ {s} : stintOf'[q] = stintOf[q]
    BY <1>3, <1>d DEF Sheet!Begin
  <2> DEFINE new == {s}
             old == {}
  <2>2. /\ \A q \in SessionIds \ (new \cup old) : stintOf'[q] = stintOf[q]
        /\ \A q \in new : stintOf[q].phase = "none" /\ stintOf'[q] = Sheet!Working
        /\ \A q \in old : /\ Sheet!IsWorking(q) /\ stintOf'[q].began = stintOf[q].began
                          /\ stintOf'[q].phase = "over" /\ CountedTo(q)' <= FloorToSecond(now)
        /\ new \in SUBSET SessionIds /\ old \in SUBSET SessionIds
    BY <2>1
  <2> HIDE DEF new, old
  <2> QED BY <2>1, <2>2, CountedWritten
<1>4. ASSUME NEW s \in SessionIds, Sheet!Leave(s) PROVE CountedInv'
  <2> DEFINE begun   == stintOf[s].began
             seconds == Sheet!SecondsSince(begun)
  <2>1. /\ Sheet!IsWorking(s) /\ now' = now /\ stintOf[s].began < now
        /\ stintOf'[s] = Sheet!Over(s, now, seconds)
        /\ \A q \in SessionIds \ {s} : stintOf'[q] = stintOf[q]
    BY <1>4, <1>d DEF Sheet!Leave
  <2>2. seconds \in Nat /\ seconds <= seconds
    <3>1. begun \in Nat
      BY <2>1, StintsKnown DEF Begun
    <3>2. seconds = FloorToSecond(now) - FloorToSecond(begun)
      BY SheetOperators DEF Sheet!SecondsSince
    <3>3. begun <= now
      BY <1>n, <2>1, <3>1
    <3> HIDE DEF begun, seconds
    <3> QED BY <1>n, <3>1, <3>2, <3>3, FloorOrders
  <2>3. /\ stintOf'[s].phase = "over" /\ stintOf'[s].began = stintOf[s].began
        /\ CountedTo(s)' <= FloorToSecond(now)
    BY <2>1, <2>2, CountedOver DEF CountedTo
  <2> DEFINE new == {}
             old == {s}
  <2>4. /\ \A q \in SessionIds \ (new \cup old) : stintOf'[q] = stintOf[q]
        /\ \A q \in new : stintOf[q].phase = "none" /\ stintOf'[q] = Sheet!Working
        /\ \A q \in old : /\ Sheet!IsWorking(q) /\ stintOf'[q].began = stintOf[q].began
                          /\ stintOf'[q].phase = "over" /\ CountedTo(q)' <= FloorToSecond(now)
        /\ new \in SUBSET SessionIds /\ old \in SUBSET SessionIds
    BY <2>1, <2>3
  <2> HIDE DEF new, old
  <2> QED BY <2>1, <2>4, CountedWritten
<1>5. ASSUME NEW s \in SessionIds, NEW r \in SessionIds, Sheet!LeaveLate(s, r)
      PROVE  CountedInv'
  <2>1. PICK t \in stintOf[s].began + 1 .. now - 1,
             seconds \in 0..Sheet!SecondsSince(stintOf[s].began) :
               stintOf' = [stintOf EXCEPT ![s] = Sheet!Over(s, t, seconds), ![r] = Sheet!Working]
    BY <1>5 DEF Sheet!LeaveLate
  <2>2. /\ Sheet!IsWorking(s) /\ now' = now /\ stintOf[r].phase = "none" /\ s # r
    BY <1>5 DEF Sheet!LeaveLate, Sheet!IsWorking
  <2>3. /\ stintOf'[s] = Sheet!Over(s, t, seconds) /\ stintOf'[r] = Sheet!Working
        /\ \A q \in SessionIds \ {s, r} : stintOf'[q] = stintOf[q]
    BY <1>d, <2>1, <2>2
  <2>4. seconds \in Nat /\ seconds <= Sheet!SecondsSince(stintOf[s].began)
    <3>1. Sheet!SecondsSince(stintOf[s].began) \in Int
      BY <2>2, SheetOperators, StintsKnown DEF Sheet!SecondsSince, Begun
    <3> QED BY <3>1
  <2>5. /\ stintOf'[s].phase = "over" /\ stintOf'[s].began = stintOf[s].began
        /\ CountedTo(s)' <= FloorToSecond(now)
    BY <2>2, <2>3, <2>4, CountedOver DEF CountedTo
  <2> DEFINE new == {r}
             old == {s}
  <2>6. /\ \A q \in SessionIds \ (new \cup old) : stintOf'[q] = stintOf[q]
        /\ \A q \in new : stintOf[q].phase = "none" /\ stintOf'[q] = Sheet!Working
        /\ \A q \in old : /\ Sheet!IsWorking(q) /\ stintOf'[q].began = stintOf[q].began
                          /\ stintOf'[q].phase = "over" /\ CountedTo(q)' <= FloorToSecond(now)
        /\ new \in SUBSET SessionIds /\ old \in SUBSET SessionIds
    BY <2>2, <2>3, <2>5
  <2> HIDE DEF new, old
  <2> QED BY <2>2, <2>6, CountedWritten
<1> QED BY <1>1, <1>2, <1>3, <1>4, <1>5 DEF Sheet!Next

\* Served one at a time, the sessions of a member of staff never overlap, and no
\* second is counted in two of them.
THEOREM SessionsNeverOverlap == Alone /\ HonestClock /\ Spec => []SessionsDisjoint
<1> SUFFICES ASSUME Alone, HonestClock PROVE Spec => []SessionsDisjoint
  OBVIOUS
<1>1. Init => CountedInv
  BY CountedInit
<1>2. RInv /\ RInv' /\ CountedInv /\ [Next]_vars => CountedInv'
  BY SheetStep, CountedStep
<1>3. ASSUME RInv, CountedInv PROVE SessionsDisjoint
  <2>1. \A s \in Used : /\ s \in SessionIds /\ stintOf[s].began = session[s].first
                        /\ session[s].status = "CLOSED" <=> IsOver(s)
                        /\ Begun(s)
    <3>1. session \in [SessionIds -> SessionRow]
      BY <1>3 DEF RInv, QInv, TInv, TypeOK
    <3> QED BY <3>1, StintMeans DEF Used, IsOver, Begun, IsOpen
  <2>2. ASSUME NEW r \in Used, NEW s \in Used, session[r].status = "CLOSED",
               session[r].last < session[s].first
        PROVE  Precedes(session[r], session[s])
    <3>1. session[r].first < session[s].first
      <4>1. /\ session[r].first \in Nat /\ session[r].last \in Nat /\ session[s].first \in Nat
            /\ session[r].first < session[r].last
        BY <1>3, <2>2, UsedTyped, BoundAssumption DEF RInv, QInv, Time
      <4> QED BY <2>2, <4>1
    <3>2. CountedTo(r) <= FloorToSecond(session[s].first)
      BY <1>3, <2>1, <2>2, <3>1 DEF CountedInv
    <3>3. CountedUntil(session[r]) = CountedTo(r)
      <4>1. \A row : StintOf(row).counted = row.work + row.break
        BY DEF StintOf
      <4>2. session[r].work \in Nat /\ session[r].break \in Nat
            /\ FloorToSecond(session[r].first) \in Nat
        <5>1. session[r] \in SessionRow /\ session[r].first \in Nat
          BY <1>3, UsedTyped, BoundAssumption DEF RInv, QInv, Time
        <5> QED BY <5>1, FloorOrders DEF SessionRow
      <4> QED BY <2>1, <4>1, <4>2, StintsTyped DEF CountedUntil, CountedTo
    <3> QED BY <2>2, <3>2, <3>3 DEF Precedes
  <2> QED BY <1>3, <2>2 DEF RInv, QInv, SInv, Apart, SessionsDisjoint
<1>4. Alone /\ HonestClock /\ Spec => []RInv
  BY RAlways
<1> QED BY <1>1, <1>2, <1>3, <1>4, PTL DEF Spec
=============================================================================
