---------------------------- MODULE RecalcTotals ----------------------------
(***************************************************************************)
(* The loop of recalcTotals (attendance.service.ts), one event per step,    *)
(* over any log of floored and sorted events: also the logs that racing or  *)
(* backdated requests leave, where a break ends that never began or a day   *)
(* ends twice.                                                              *)
(***************************************************************************)
EXTENDS WorkTime

CONSTANTS
  Times,   \* seconds of events
  Logs     \* the sorted logs the loop is run on

Event == [type : EventType, at : Times]

Ordered(evs) == \A i, j \in 1..Len(evs) : i < j => evs[i].at <= evs[j].at

ASSUME TimesAssumption == Times \subseteq Nat
ASSUME LogsAssumption  == Logs \subseteq {evs \in Seq(Event) : Ordered(evs)}

VARIABLES
  log,    \* sorted
  next,   \* index of the next event
  acc     \* totals so far and the two start times

vars == <<log, next, acc>>

Init == log \in Logs /\ next = 1 /\ acc = Nothing

Count ==
  /\ next <= Len(log)
  /\ acc' = CountEvent(acc, log[next])
  /\ next' = next + 1
  /\ UNCHANGED log

Spec == Init /\ [][Count]_vars
-----------------------------------------------------------------------------
(* What the totals should be, told without start times *)

\* The stretch between two consecutive events belongs to work, to break, or,
\* after the day ended or when a request was repeated, to neither.
Stretch(e, f) ==
  CASE e.type \in StartsWork /\ f.type \notin StartsWork -> "work"
    [] e.type = "BREAK_START" /\ f.type # "BREAK_START"  -> "break"
    [] OTHER -> "none"

TimeOf(kind, n) ==
  LET sum[i \in 0..Len(log)] ==
        IF i <= 1 THEN 0
        ELSE sum[i-1] + IF Stretch(log[i-1], log[i]) = kind
                        THEN log[i].at - log[i-1].at ELSE 0
  IN sum[n]

\* Every stretch is counted once and to the right total, for logs in any order
\* of event types, however the start times were left by earlier events.
TotalsCountStretches ==
  /\ acc.work  = TimeOf("work", next - 1)
  /\ acc.break = TimeOf("break", next - 1)

\* The running start, if any, is the time of the last event.
StartIsLastEvent ==
  /\ acc.workStart # NoTime /\ acc.breakStart # NoTime => FALSE
  /\ \A start \in {acc.workStart, acc.breakStart} :
       start # NoTime => next > 1 /\ start = log[next - 1].at

\* Neither total is negative and together they never exceed the time between
\* the first event and the last one counted: no second is paid twice.
Span(n) == IF n = 0 THEN 0 ELSE log[n].at - log[1].at

TotalsFitSpan ==
  acc.work >= 0 /\ acc.break >= 0 /\ acc.work + acc.break <= Span(next - 1)
=============================================================================
