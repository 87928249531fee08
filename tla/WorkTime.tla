------------------------------ MODULE WorkTime ------------------------------
(***************************************************************************)
(* recalcTotals of src/src/attendance/attendance.service.ts: how much of a  *)
(* session was work and how much was break.  The Excel export has a copy of *)
(* it, recalcTotalsLocal, which is translated on its own.  CountEvent and   *)
(* CountLocally are one turn of the two loops.                              *)
(***************************************************************************)
EXTENDS Integers, Sequences, FiniteSets

CONSTANT SecondLength   \* clock ticks per second (1000 in the code)

ASSUME SecondAssumption == SecondLength \in Nat \ {0}

NoTime == -1

StartsWork == {"PUNCH_IN", "BREAK_END"}
EndsDay    == {"PUNCH_OUT", "LATE_PUNCH_OUT"}
EventType  == StartsWork \cup EndsDay \cup {"BREAK_START"}

FloorToSecond(t) == t \div SecondLength

Before(e, f) == e.at < f.at

\* Array.prototype.sort is stable: events of the same second keep their order.
ComesFirst(log, i, j) == Before(log[i], log[j]) \/ (log[i].at = log[j].at /\ i <= j)

Places(log) ==   \* where each event goes
  [i \in 1..Len(log) |-> Cardinality({j \in 1..Len(log) : ComesFirst(log, j, i)})]

SortByTime(log) ==
  LET place == Places(log)
  IN [n \in 1..Len(log) |-> log[CHOOSE i \in 1..Len(log) : place[i] = n]]

Floored(log) == [i \in 1..Len(log) |-> [log[i] EXCEPT !.at = FloorToSecond(@)]]

Nothing == [work |-> 0, break |-> 0, workStart |-> NoTime, breakStart |-> NoTime]

Elapsed(start, t) == IF start = NoTime THEN 0 ELSE t - start

CountEventForgetful(acc, e) ==   \* mutant: going back to work leaves the break running
  CASE e.type \in StartsWork ->
         [acc EXCEPT !.break = @ + Elapsed(acc.breakStart, e.at), !.workStart = e.at]
    [] e.type = "BREAK_START" ->
         [acc EXCEPT !.work = @ + Elapsed(acc.workStart, e.at),
                     !.workStart = NoTime, !.breakStart = e.at]
    [] e.type \in EndsDay /\ acc.breakStart # NoTime ->
         [acc EXCEPT !.break = @ + Elapsed(acc.breakStart, e.at), !.breakStart = NoTime]
    [] e.type \in EndsDay /\ acc.breakStart = NoTime ->
         [acc EXCEPT !.work = @ + Elapsed(acc.workStart, e.at), !.workStart = NoTime]

CountEvent(acc, e) ==
  CASE e.type \in StartsWork ->
         [acc EXCEPT !.break = @ + Elapsed(acc.breakStart, e.at),
                     !.breakStart = NoTime, !.workStart = e.at]
    [] e.type = "BREAK_START" ->
         [acc EXCEPT !.work = @ + Elapsed(acc.workStart, e.at),
                     !.workStart = NoTime, !.breakStart = e.at]
    [] e.type \in EndsDay /\ acc.breakStart # NoTime ->
         [acc EXCEPT !.break = @ + Elapsed(acc.breakStart, e.at), !.breakStart = NoTime]
    [] e.type \in EndsDay /\ acc.breakStart = NoTime ->
         [acc EXCEPT !.work = @ + Elapsed(acc.workStart, e.at), !.workStart = NoTime]

\* mutant: the events are counted in the order they were read and appended
UnsortedTotals(log) ==
  LET evs == Floored(log)
      after[i \in 0..Len(evs)] == IF i = 0 THEN Nothing ELSE CountEvent(after[i-1], evs[i])
  IN [work |-> after[Len(evs)].work, break |-> after[Len(evs)].break]

RecalcTotals(log) ==
  LET evs == SortByTime(Floored(log))
      after[i \in 0..Len(evs)] == IF i = 0 THEN Nothing ELSE CountEvent(after[i-1], evs[i])
  IN [work |-> after[Len(evs)].work, break |-> after[Len(evs)].break]
-----------------------------------------------------------------------------
(* The copy of the export *)

\* mutant: the break stays open when work goes on
RestedOn(acc, t) == [acc EXCEPT !.break = @ + t - acc.breakStart]

Rested(acc, t) == [acc EXCEPT !.break = @ + t - acc.breakStart, !.breakStart = NoTime]
Worked(acc, t) == [acc EXCEPT !.work = @ + t - acc.workStart, !.workStart = NoTime]

CountLocally(acc, e) ==
  CASE e.type \in StartsWork ->
         [(IF acc.breakStart # NoTime THEN Rested(acc, e.at) ELSE acc) EXCEPT !.workStart = e.at]
    [] e.type = "BREAK_START" ->
         [(IF acc.workStart # NoTime THEN Worked(acc, e.at) ELSE acc) EXCEPT !.breakStart = e.at]
    [] e.type \in EndsDay /\ acc.breakStart # NoTime -> Rested(acc, e.at)
    [] e.type \in EndsDay /\ acc.breakStart = NoTime ->
         IF acc.workStart # NoTime THEN Worked(acc, e.at) ELSE acc

RecalcTotalsLocal(log) ==
  LET evs == SortByTime(Floored(log))
      after[i \in 0..Len(evs)] == IF i = 0 THEN Nothing ELSE CountLocally(after[i-1], evs[i])
  IN [work |-> after[Len(evs)].work, break |-> after[Len(evs)].break]
=============================================================================
