------------------------- MODULE RecalcTotalsProofs -------------------------
(* Theorems about the loop of recalcTotals, for every sorted log. *)
EXTENDS RecalcTotals, FiniteSetTheorems, TLAPS
-----------------------------------------------------------------------------
(* Induction and recursion *)

\* A set of naturals that is not empty has a least element: the intervals 0..n of
\* its elements n have a minimal one.
LEMMA LeastNumber ==
  ASSUME NEW T \in SUBSET Nat, T # {}
  PROVE  \E n \in T : \A m \in T : n <= m
<1> DEFINE F == {0..n : n \in T}
<1>1. F \subseteq FiniteSubsetsOf(Nat)
  <2>1. ASSUME NEW n \in T PROVE 0..n \in FiniteSubsetsOf(Nat)
    <3>1. IsFiniteSet(0..n)
      BY FS_Interval
    <3> QED BY <3>1 DEF FiniteSubsetsOf
  <2> QED BY <2>1
<1>2. F # {}
  OBVIOUS
<1>3. PICK x \in F : \A y \in F : <<y, x>> \notin StrictSubsetOrdering(Nat)
  <2> HIDE DEF F
  <2> QED BY <1>1, <1>2, FS_StrictSubsetOrderingWellFounded, WFMin
<1>4. PICK n \in T : x = 0..n
  OBVIOUS
<1>5. ASSUME NEW m \in T, ~(n <= m) PROVE FALSE
  <2>1. <<0..m, 0..n>> \in StrictSubsetOrdering(Nat)
    <3>1. 0..m \subseteq 0..n /\ n \in 0..n /\ n \notin 0..m
      BY <1>5
    <3>2. 0..m \in SUBSET Nat /\ 0..n \in SUBSET Nat
      OBVIOUS
    <3> QED BY <3>1, <3>2 DEF StrictSubsetOrdering
  <2>2. 0..m \in F
    OBVIOUS
  <2> QED BY <1>3, <1>4, <2>1, <2>2
<1> QED BY <1>5

\* Induction, told with sets: a set of naturals with 0 and the successor of each of its elements is Nat.
LEMMA SetInduction ==
  ASSUME NEW T \in SUBSET Nat, 0 \in T, \A n \in T : n + 1 \in T
  PROVE  T = Nat
<1> SUFFICES ASSUME Nat \ T # {} PROVE FALSE
  OBVIOUS
<1>1. PICK n \in Nat \ T : \A m \in Nat \ T : n <= m
  <2>1. Nat \ T \in SUBSET Nat
    OBVIOUS
  <2> QED BY <2>1, LeastNumber
<1>2. n # 0 /\ n - 1 \in Nat /\ n - 1 \notin Nat \ T
  BY <1>1
<1> QED BY <1>2

\* A function defined by recursion over an interval exists.
LEMMA FiniteRecursion ==
  ASSUME NEW S, NEW c \in S, NEW n \in Nat, NEW step \in [(1..n) \X S -> S]
  PROVE  \E f \in [0..n -> S] : /\ f[0] = c
                                /\ \A i \in 1..n : f[i] = step[<<i, f[i-1]>>]
<1> DEFINE Upto(m) == {f \in [0..m -> S] : /\ f[0] = c
                                          /\ \A i \in 1..m : f[i] = step[<<i, f[i-1]>>]}
           T == {m \in Nat : m <= n => Upto(m) # {}}
<1>1. 0 \in T
  <2>1. [i \in 0..0 |-> c] \in Upto(0)
    OBVIOUS
  <2> QED BY <2>1
<1>2. ASSUME NEW m \in T PROVE m + 1 \in T
  <2> SUFFICES ASSUME m + 1 <= n PROVE Upto(m + 1) # {}
    OBVIOUS
  <2>1. PICK f \in [0..m -> S] : /\ f[0] = c
                                /\ \A i \in 1..m : f[i] = step[<<i, f[i-1]>>]
    OBVIOUS
  <2> DEFINE g == [i \in 0..m+1 |-> IF i = m + 1 THEN step[<<m + 1, f[m]>>] ELSE f[i]]
  <2>2. <<m + 1, f[m]>> \in (1..n) \X S
    BY <2>1
  <2>3. g \in [0..m+1 -> S] /\ g[0] = c
    BY <2>1, <2>2
  <2>4. ASSUME NEW i \in 1..m+1 PROVE g[i] = step[<<i, g[i-1]>>]
    <3>1. CASE i = m + 1
      <4>1. g[i-1] = f[m] /\ g[i] = step[<<m + 1, f[m]>>]
        BY <3>1
      <4> HIDE DEF g
      <4> QED BY <3>1, <4>1
    <3>2. CASE i # m + 1
      <4>1. i \in 1..m /\ g[i] = f[i] /\ g[i-1] = f[i-1]
        BY <3>2
      <4> QED BY <2>1, <4>1
    <3> QED BY <3>1, <3>2
  <2> HIDE DEF g
  <2> QED BY <2>3, <2>4
<1>3. T = Nat
  <2> HIDE DEF T
  <2>1. T \in SUBSET Nat
    BY DEF T
  <2> QED BY <1>1, <1>2, <2>1, SetInduction
<1> QED BY <1>3

\* So does a running sum.
LEMMA Sums ==
  ASSUME NEW n \in Nat, NEW d \in [1..n -> Int]
  PROVE  \E f \in [0..n -> Int] : f[0] = 0 /\ \A i \in 1..n : f[i] = f[i-1] + d[i]
<1>1. PICK step \in [(1..n) \X Int -> Int] :
        \A i \in 1..n, v \in Int : step[<<i, v>>] = v + d[i]
  <2> DEFINE g == [p \in (1..n) \X Int |-> p[2] + d[p[1]]]
  <2>1. g \in [(1..n) \X Int -> Int] /\ \A i \in 1..n, v \in Int : g[<<i, v>>] = v + d[i]
    OBVIOUS
  <2> HIDE DEF g
  <2> QED BY <2>1
<1>2. PICK c \in Int : c = 0
  OBVIOUS
<1>3. PICK f \in [0..n -> Int] : f[0] = c /\ \A i \in 1..n : f[i] = step[<<i, f[i-1]>>]
  <2>1. PICK S : S = Int
    OBVIOUS
  <2>2. c \in S /\ step \in [(1..n) \X S -> S]
    BY <2>1
  <2>3. \E f \in [0..n -> S] : f[0] = c /\ \A i \in 1..n : f[i] = step[<<i, f[i-1]>>]
    BY <2>2, FiniteRecursion
  <2> QED BY <2>1, <2>3
<1>4. ASSUME NEW i \in 1..n PROVE f[i] = f[i-1] + d[i]
  <2>1. f[i-1] \in Int
    OBVIOUS
  <2> QED BY <1>1, <1>3, <2>1
<1> QED BY <1>2, <1>3, <1>4
-----------------------------------------------------------------------------
(* The loop *)


Accumulator == [work : Int, break : Int, workStart : Nat \cup {NoTime},
                breakStart : Nat \cup {NoTime}]

\* The loop invariant: while a start time runs, it is the time of the last
\* event counted, so the stretches counted so far end there.
LoopInv ==
  /\ log \in Seq(Event) /\ Ordered(log)
  /\ next \in 1..Len(log) + 1
  /\ acc \in Accumulator
  /\ StartIsLastEvent
  /\ TotalsFitSpan

\* What one event makes of the totals, by its type.
LEMMA CountEventCases ==
  ASSUME NEW a \in Accumulator, NEW e \in Event
  PROVE  LET worked == Elapsed(a.workStart, e.at)
             rested == Elapsed(a.breakStart, e.at)
             b      == CountEvent(a, e) IN
         /\ e.type \in StartsWork =>
              b = [work |-> a.work, break |-> a.break + rested,
                   workStart |-> e.at, breakStart |-> NoTime]
         /\ e.type = "BREAK_START" =>
              b = [work |-> a.work + worked, break |-> a.break,
                   workStart |-> NoTime, breakStart |-> e.at]
         /\ e.type \in EndsDay /\ a.breakStart # NoTime =>
              b = [work |-> a.work, break |-> a.break + rested,
                   workStart |-> a.workStart, breakStart |-> NoTime]
         /\ e.type \in EndsDay /\ a.breakStart = NoTime =>
              b = [work |-> a.work + worked, break |-> a.break,
                   workStart |-> NoTime, breakStart |-> a.breakStart]
         /\ \/ e.type \in StartsWork \/ e.type = "BREAK_START"
            \/ e.type \in EndsDay /\ a.breakStart # NoTime
            \/ e.type \in EndsDay /\ a.breakStart = NoTime
<1> DEFINE worked == Elapsed(a.workStart, e.at)
           rested == Elapsed(a.breakStart, e.at)
<1>a. /\ a = [work |-> a.work, break |-> a.break, workStart |-> a.workStart,
              breakStart |-> a.breakStart]
      /\ e.type \in EventType
  BY DEF Accumulator, Event
<1>1. CASE e.type \in StartsWork
  <2>1. CountEvent(a, e) = [work |-> a.work, break |-> a.break + rested,
                            workStart |-> e.at, breakStart |-> NoTime]
    BY <1>1, <1>a DEF CountEvent, StartsWork, EndsDay
  <2> QED BY <1>1, <2>1 DEF StartsWork, EndsDay
<1>2. CASE e.type = "BREAK_START"
  <2>1. CountEvent(a, e) = [work |-> a.work + worked, break |-> a.break,
                            workStart |-> NoTime, breakStart |-> e.at]
    BY <1>2, <1>a DEF CountEvent, StartsWork, EndsDay
  <2> QED BY <1>2, <2>1 DEF StartsWork, EndsDay
<1>3. CASE e.type \in EndsDay /\ a.breakStart # NoTime
  <2>1. CountEvent(a, e) = [work |-> a.work, break |-> a.break + rested,
                            workStart |-> a.workStart, breakStart |-> NoTime]
    BY <1>3, <1>a DEF CountEvent, StartsWork, EndsDay
  <2> QED BY <1>3, <2>1 DEF StartsWork, EndsDay
<1>4. CASE e.type \in EndsDay /\ a.breakStart = NoTime
  <2>1. CountEvent(a, e) = [work |-> a.work + worked, break |-> a.break,
                            workStart |-> NoTime, breakStart |-> a.breakStart]
    BY <1>4, <1>a DEF CountEvent, StartsWork, EndsDay
  <2> QED BY <1>4, <2>1 DEF StartsWork, EndsDay
<1> QED BY <1>a, <1>1, <1>2, <1>3, <1>4 DEF EventType

\* One event adds to one total at most the time since the running start.
LEMMA CountEventAdds ==
  ASSUME NEW a \in Accumulator, NEW e \in Event, NEW last \in Nat,
         last <= e.at, a.workStart \in {NoTime, last}, a.breakStart \in {NoTime, last},
         ~(a.workStart # NoTime /\ a.breakStart # NoTime)
  PROVE  LET b == CountEvent(a, e) IN
         /\ b \in Accumulator
         /\ b.work >= a.work /\ b.break >= a.break
         /\ b.work + b.break <= a.work + a.break + (e.at - last)
         /\ b.workStart \in {NoTime, e.at} /\ b.breakStart \in {NoTime, e.at}
         /\ ~(b.workStart # NoTime /\ b.breakStart # NoTime)
<1> DEFINE worked == Elapsed(a.workStart, e.at)
           rested == Elapsed(a.breakStart, e.at)
           b == CountEvent(a, e)
<1>1. /\ e.at \in Nat
      /\ a.work \in Int /\ a.break \in Int
      /\ a.workStart \in Nat \cup {NoTime} /\ a.breakStart \in Nat \cup {NoTime}
  BY TimesAssumption DEF Accumulator, Event
<1>2. worked \in Nat /\ worked <= e.at - last /\ rested \in Nat /\ rested <= e.at - last
  BY <1>1 DEF Elapsed
<1>3. \/ b = [work |-> a.work, break |-> a.break + rested,
              workStart |-> e.at, breakStart |-> NoTime]
      \/ b = [work |-> a.work + worked, break |-> a.break,
              workStart |-> NoTime, breakStart |-> e.at]
      \/ /\ b = [work |-> a.work, break |-> a.break + rested,
                 workStart |-> a.workStart, breakStart |-> NoTime]
         /\ a.breakStart # NoTime
      \/ /\ b = [work |-> a.work + worked, break |-> a.break,
                 workStart |-> NoTime, breakStart |-> a.breakStart]
         /\ a.breakStart = NoTime
  BY CountEventCases
<1> HIDE DEF b, worked, rested
<1>4. b \in Accumulator
  BY <1>1, <1>2, <1>3 DEF Accumulator
<1>5. /\ b.work >= a.work /\ b.break >= a.break
      /\ b.work + b.break <= a.work + a.break + (e.at - last)
  BY <1>1, <1>2, <1>3
<1>6. /\ b.workStart \in {NoTime, e.at} /\ b.breakStart \in {NoTime, e.at}
      /\ ~(b.workStart # NoTime /\ b.breakStart # NoTime)
  BY <1>1, <1>3
<1> QED BY <1>4, <1>5, <1>6 DEF b

\* The invariant holds before the loop and is kept by every turn of it.
LEMMA LoopInit == Init => LoopInv
BY LogsAssumption
   DEF Init, LoopInv, Nothing, Accumulator, NoTime, StartIsLastEvent, TotalsFitSpan, Span

LEMMA LoopStep == LoopInv /\ [Count]_vars => LoopInv'
<1> SUFFICES ASSUME LoopInv, [Count]_vars PROVE LoopInv'
  OBVIOUS
<1>1. CASE UNCHANGED vars
  BY <1>1 DEF LoopInv, vars, StartIsLastEvent, TotalsFitSpan, Span
<1>2. CASE Count
  <2> DEFINE e == log[next]
             last == IF next = 1 THEN e.at ELSE log[next - 1].at
  <2>1. /\ next \in 1..Len(log) /\ next' = next + 1 /\ log' = log
        /\ acc' = CountEvent(acc, e)
        /\ Len(log) \in Nat /\ e \in Event
    BY <1>2 DEF LoopInv, Count
  <2>2. \A i \in 1..Len(log) : log[i] \in Event /\ log[i].at \in Nat
    <3>1. \A ev \in Event : ev.at \in Nat
      BY TimesAssumption DEF Event
    <3> QED BY <3>1 DEF LoopInv
  <2>3. last \in Nat /\ last <= e.at
    BY <2>1, <2>2 DEF LoopInv, Ordered
  <2>4. /\ acc.workStart \in {NoTime, last} /\ acc.breakStart \in {NoTime, last}
        /\ ~(acc.workStart # NoTime /\ acc.breakStart # NoTime)
    BY <2>1 DEF LoopInv, StartIsLastEvent
  <2>5. /\ acc' \in Accumulator
        /\ acc'.work >= acc.work /\ acc'.break >= acc.break
        /\ acc'.work + acc'.break <= acc.work + acc.break + (e.at - last)
        /\ acc'.workStart \in {NoTime, e.at} /\ acc'.breakStart \in {NoTime, e.at}
        /\ ~(acc'.workStart # NoTime /\ acc'.breakStart # NoTime)
    <3>1. acc \in Accumulator
      BY DEF LoopInv
    <3> HIDE DEF e, last
    <3> QED BY <2>1, <2>3, <2>4, <3>1, CountEventAdds
  <2>6. StartIsLastEvent'
    BY <2>1, <2>5 DEF StartIsLastEvent
  <2>7. TotalsFitSpan'
    <3>1. Span(next - 1) + (e.at - last) = log[next].at - log[1].at
      BY <2>1, <2>2 DEF Span
    <3>2. Span(next - 1)' = log[next].at - log[1].at
      BY <2>1, <2>2 DEF Span
    <3>3. /\ acc.work >= 0 /\ acc.break >= 0 /\ acc.work + acc.break <= Span(next - 1)
          /\ acc.work \in Int /\ acc.break \in Int
          /\ acc'.work \in Int /\ acc'.break \in Int
      BY <2>5 DEF LoopInv, TotalsFitSpan, Accumulator
    <3>4. Span(next - 1) \in Int /\ e.at \in Int /\ last \in Int
      BY <2>1, <2>2, <2>3 DEF Span
    <3> HIDE DEF e, last
    <3>5. \A a \in Int, b \in Int, span \in Int :
            a >= acc.work /\ b >= acc.break
            /\ a + b <= acc.work + acc.break + (e.at - last)
            /\ span = Span(next - 1) + (e.at - last)
              => a >= 0 /\ b >= 0 /\ a + b <= span
      BY <3>3, <3>4
    <3>6. Span(next - 1)' \in Int /\ Span(next - 1)' = Span(next - 1) + (e.at - last)
      BY <3>1, <3>2, <3>4
    <3> QED BY <2>5, <3>3, <3>5, <3>6 DEF TotalsFitSpan
  <2> QED BY <2>1, <2>5, <2>6, <2>7 DEF LoopInv
<1> QED BY <1>1, <1>2 DEF vars

-----------------------------------------------------------------------------
(* The totals count the stretches *)

\* What the stretch that ends at the n-th event adds to one of the totals.
Adds(kind, n) == IF Stretch(log[n-1], log[n]) = kind THEN log[n].at - log[n-1].at ELSE 0

LEMMA EventsTyped ==
  ASSUME NEW evs \in Seq(Event)
  PROVE  /\ Len(evs) \in Nat
         /\ \A i \in 1..Len(evs) : evs[i] \in Event /\ evs[i].type \in EventType
                                   /\ evs[i].at \in Nat
<1>1. \A e \in Event : e.type \in EventType /\ e.at \in Nat
  BY TimesAssumption DEF Event
<1> QED BY <1>1

\* TimeOf adds up the stretches: its recursion is well-founded.
LEMMA TimeOfRecursion ==
  ASSUME log \in Seq(Event), NEW kind
  PROVE  /\ \A n \in 0..Len(log) : TimeOf(kind, n) \in Int
         /\ TimeOf(kind, 0) = 0 /\ (1 <= Len(log) => TimeOf(kind, 1) = 0)
         /\ \A n \in 2..Len(log) : TimeOf(kind, n) = TimeOf(kind, n - 1) + Adds(kind, n)
<1> DEFINE N == Len(log)
           d == [n \in 1..N |-> IF n <= 1 THEN 0 ELSE Adds(kind, n)]
           Body(f) == [i \in 0..N |->
                        IF i <= 1 THEN 0
                        ELSE f[i-1] + IF Stretch(log[i-1], log[i]) = kind
                                      THEN log[i].at - log[i-1].at ELSE 0]
           Sum(f) == f = Body(f)
           sum == CHOOSE f : Sum(f)
<1>1. N \in Nat /\ \A n \in 1..N : log[n].at \in Int
  BY EventsTyped
<1>2. d \in [1..N -> Int]
  BY <1>1 DEF Adds
<1>3. \E f : Sum(f)
  <2>3. \A i \in 1..N : d[i] = IF i <= 1 THEN 0 ELSE Adds(kind, i)
    OBVIOUS
  <2> HIDE DEF d
  <2>4. PICK f \in [0..N -> Int] : f[0] = 0 /\ \A i \in 1..N : f[i] = f[i-1] + d[i]
    <3> HIDE DEF N
    <3> QED BY <1>1, <1>2, Sums
  <2>6. \A i \in 0..N : f[i] = Body(f)[i]
    BY <1>1, <2>3, <2>4 DEF Adds
  <2>7. Sum(f)
    BY <2>4, <2>6
  <2> QED BY <2>7
<1>4. Sum(sum)
  <2> HIDE DEF Sum
  <2> QED BY <1>3
<1>5. \A n : TimeOf(kind, n) = sum[n]
  BY DEF TimeOf
<1>6. \A n \in 0..N : sum[n] = IF n <= 1 THEN 0 ELSE sum[n-1] + Adds(kind, n)
  <2> HIDE DEF sum
  <2> QED BY <1>4 DEF Adds
<1>7. \A n \in 0..N : sum[n] \in Int
  <2> DEFINE T == {n \in Nat : n <= N => sum[n] \in Int}
  <2> HIDE DEF sum
  <2>1. 0 \in T
    BY <1>1, <1>6
  <2>2. ASSUME NEW n \in T PROVE n + 1 \in T
    <3>1. n + 1 \in 2..N => Adds(kind, n + 1) \in Int
      BY <1>1 DEF Adds
    <3> QED BY <1>1, <1>6, <3>1
  <2>3. T = Nat
    <3> HIDE DEF T
    <3>1. T \in SUBSET Nat
      BY DEF T
    <3> QED BY <2>1, <2>2, <3>1, SetInduction
  <2> QED BY <1>1, <2>3
<1> HIDE DEF sum
<1> QED BY <1>1, <1>5, <1>6, <1>7

\* Which start time runs is told by the type of the last event.
StartTellsLast ==
  LET last == log[next - 1] IN
  /\ next = 1 => acc.workStart = NoTime /\ acc.breakStart = NoTime
  /\ next > 1 => /\ acc.workStart  = IF last.type \in StartsWork THEN last.at ELSE NoTime
                 /\ acc.breakStart = IF last.type = "BREAK_START" THEN last.at ELSE NoTime

StretchInv == LoopInv /\ TotalsCountStretches /\ StartTellsLast

LEMMA StretchInit == Init => StretchInv
<1> SUFFICES ASSUME Init PROVE StretchInv
  OBVIOUS
<1>1. LoopInv
  BY LoopInit
<1>2. \A kind : TimeOf(kind, 0) = 0
  <2>1. log \in Seq(Event) /\ 0 \in 0..Len(log)
    BY <1>1 DEF LoopInv
  <2> QED BY <2>1, TimeOfRecursion
<1> QED BY <1>1, <1>2 DEF StretchInv, Init, Nothing, NoTime, TotalsCountStretches, StartTellsLast

LEMMA StretchStep == StretchInv /\ [Count]_vars => StretchInv'
<1> SUFFICES ASSUME StretchInv, [Count]_vars PROVE StretchInv'
  OBVIOUS
<1>i. LoopInv /\ LoopInv'
  BY LoopStep DEF StretchInv
<1>1. CASE UNCHANGED vars
  BY <1>1, <1>i DEF StretchInv, vars, TotalsCountStretches, StartTellsLast, TimeOf
<1>2. CASE Count
  <2> DEFINE e == log[next]
             last == log[next - 1]
  <2>1. /\ next \in 1..Len(log) /\ next' = next + 1 /\ log' = log
        /\ acc' = CountEvent(acc, e)
        /\ Len(log) \in Nat /\ e \in Event
    BY <1>2, <1>i DEF LoopInv, Count
  <2>2. \A i \in 1..Len(log) : log[i].type \in EventType /\ log[i].at \in Nat
    BY <1>i, EventsTyped DEF LoopInv
  <2>3. \A kind : TimeOf(kind, next - 1)' = TimeOf(kind, next)
    BY <2>1 DEF TimeOf
  <2>4. \A kind : TimeOf(kind, next) = TimeOf(kind, next - 1)
                                       + IF next = 1 THEN 0 ELSE Adds(kind, next)
    <3> SUFFICES ASSUME NEW kind
                 PROVE  TimeOf(kind, next) = TimeOf(kind, next - 1)
                                             + IF next = 1 THEN 0 ELSE Adds(kind, next)
      OBVIOUS
    <3>1. /\ next \in 0..Len(log) /\ next - 1 \in 0..Len(log)
          /\ next # 1 => next \in 2..Len(log)
          /\ log \in Seq(Event)
      BY <1>i, <2>1 DEF LoopInv
    <3>2. next = 1 => TimeOf(kind, next) = 0 /\ TimeOf(kind, next - 1) = 0
      BY <3>1, TimeOfRecursion
    <3>3. next # 1 => TimeOf(kind, next) = TimeOf(kind, next - 1) + Adds(kind, next)
      BY <3>1, TimeOfRecursion
    <3> QED BY <3>2, <3>3
  <2> DEFINE worked == Elapsed(acc.workStart, e.at)
             rested == Elapsed(acc.breakStart, e.at)
  <2>5. /\ acc \in Accumulator /\ StartTellsLast /\ TotalsCountStretches
        /\ acc.work \in Int /\ acc.break \in Int
    BY <1>i DEF StretchInv, LoopInv, Accumulator
  <2>6. /\ e.type \in EventType /\ e.at \in Nat
        /\ next # 1 => last.type \in EventType /\ last.at \in Nat
    BY <2>1, <2>2
  <2>7. /\ e.type \in StartsWork =>
             acc' = [work |-> acc.work, break |-> acc.break + rested,
                     workStart |-> e.at, breakStart |-> NoTime]
        /\ e.type = "BREAK_START" =>
             acc' = [work |-> acc.work + worked, break |-> acc.break,
                     workStart |-> NoTime, breakStart |-> e.at]
        /\ e.type \in EndsDay /\ acc.breakStart # NoTime =>
             acc' = [work |-> acc.work, break |-> acc.break + rested,
                     workStart |-> acc.workStart, breakStart |-> NoTime]
        /\ e.type \in EndsDay /\ acc.breakStart = NoTime =>
             acc' = [work |-> acc.work + worked, break |-> acc.break,
                     workStart |-> NoTime, breakStart |-> acc.breakStart]
    <3> HIDE DEF e
    <3> QED BY <2>1, <2>5, CountEventCases
  <2>8. /\ worked = IF next # 1 /\ last.type \in StartsWork THEN e.at - last.at ELSE 0
        /\ rested = IF next # 1 /\ last.type = "BREAK_START" THEN e.at - last.at ELSE 0
        /\ acc.workStart # NoTime => next # 1 /\ last.type \in StartsWork
        /\ acc.breakStart # NoTime <=> next # 1 /\ last.type = "BREAK_START"
    BY <2>1, <2>5, <2>6 DEF StartTellsLast, Elapsed, NoTime
  <2>9. /\ Adds("work", next) = IF last.type \in StartsWork /\ e.type \notin StartsWork
                                THEN e.at - last.at ELSE 0
        /\ Adds("break", next) = IF last.type = "BREAK_START" /\ e.type # "BREAK_START"
                                 THEN e.at - last.at ELSE 0
    BY DEF Adds, Stretch, StartsWork
  <2>10. /\ acc.work = TimeOf("work", next - 1) /\ acc.break = TimeOf("break", next - 1)
    BY <2>5 DEF TotalsCountStretches
  <2> HIDE DEF e, last, worked, rested
  <2>11. /\ acc'.work = acc.work + IF next = 1 THEN 0 ELSE Adds("work", next)
         /\ acc'.break = acc.break + IF next = 1 THEN 0 ELSE Adds("break", next)
         /\ acc'.workStart  = IF e.type \in StartsWork THEN e.at ELSE NoTime
         /\ acc'.breakStart = IF e.type = "BREAK_START" THEN e.at ELSE NoTime
    BY <2>5, <2>6, <2>7, <2>8, <2>9 DEF EventType, StartsWork, EndsDay
  <2>12. next' - 1 = next /\ next' > 1 /\ next' # 1 /\ log'[next' - 1] = e
    BY <2>1 DEF e
  <2>13. StartTellsLast'
    BY <2>11, <2>12 DEF StartTellsLast
  <2>14. TotalsCountStretches'
    <3>1. /\ acc'.work = TimeOf("work", next) /\ acc'.break = TimeOf("break", next)
      BY <2>4, <2>10, <2>11
    <3> QED BY <2>3, <3>1 DEF TotalsCountStretches
  <2> QED BY <1>i, <2>13, <2>14 DEF StretchInv
<1> QED BY <1>1, <1>2 DEF vars

\* For every sorted log, of any length and in any order of event types, no total
\* is negative and no second is paid twice, at every turn of the loop.
THEOREM TotalsNeverExceedSpan == Spec => []TotalsFitSpan
<1>1. LoopInv => TotalsFitSpan
  BY DEF LoopInv
<1> QED BY <1>1, LoopInit, LoopStep, PTL DEF Spec

\* The loop counts every stretch between two events once and to the right total,
\* for every sorted log, however the start times were left by earlier events.
THEOREM StretchesAreCounted == Spec => []TotalsCountStretches
<1>1. StretchInv => TotalsCountStretches
  BY DEF StretchInv
<1> QED BY <1>1, StretchInit, StretchStep, PTL DEF Spec
-----------------------------------------------------------------------------
(* The loop and RecalcTotals *)

\* The accumulator of RecalcTotals after each event.
After(evs) ==
  LET after[i \in 0..Len(evs)] == IF i = 0 THEN Nothing ELSE CountEvent(after[i-1], evs[i])
  IN after

LEMMA NothingCounted == Nothing \in Accumulator
BY DEF Nothing, Accumulator

\* Counting an event keeps the type of the accumulator.
LEMMA CountEventTyped ==
  ASSUME NEW a \in Accumulator, NEW e \in Event
  PROVE  CountEvent(a, e) \in Accumulator
<1> DEFINE worked == Elapsed(a.workStart, e.at)
           rested == Elapsed(a.breakStart, e.at)
           b == CountEvent(a, e)
<1>1. /\ e.at \in Nat
      /\ a.work \in Int /\ a.break \in Int
      /\ a.workStart \in Nat \cup {NoTime} /\ a.breakStart \in Nat \cup {NoTime}
  BY TimesAssumption DEF Accumulator, Event
<1>2. worked \in Int /\ rested \in Int
  BY <1>1 DEF Elapsed
<1>3. \/ b = [work |-> a.work, break |-> a.break + rested,
              workStart |-> e.at, breakStart |-> NoTime]
      \/ b = [work |-> a.work + worked, break |-> a.break,
              workStart |-> NoTime, breakStart |-> e.at]
      \/ b = [work |-> a.work, break |-> a.break + rested,
              workStart |-> a.workStart, breakStart |-> NoTime]
      \/ b = [work |-> a.work + worked, break |-> a.break,
              workStart |-> NoTime, breakStart |-> a.breakStart]
  BY CountEventCases
<1> HIDE DEF b, worked, rested
<1>4. b \in Accumulator
  BY <1>1, <1>2, <1>3 DEF Accumulator
<1> QED BY <1>4 DEF b

\* Counting the events of a log one after the other is a function.
LEMMA CountingRecursion ==
  ASSUME NEW n \in Nat, NEW ev \in [1..n -> Event]
  PROVE  \E f \in [0..n -> Accumulator] :
           f[0] = Nothing /\ \A i \in 1..n : f[i] = CountEvent(f[i-1], ev[i])
<1> DEFINE Upto(m) == {f \in [0..m -> Accumulator] :
                         /\ f[0] = Nothing
                         /\ \A i \in 1..m : f[i] = CountEvent(f[i-1], ev[i])}
           T == {m \in Nat : m <= n => Upto(m) # {}}
<1>1. 0 \in T
  <2>1. [i \in 0..0 |-> Nothing] \in Upto(0)
    BY NothingCounted
  <2> QED BY <2>1
<1>2. ASSUME NEW m \in T PROVE m + 1 \in T
  <2> SUFFICES ASSUME m + 1 <= n PROVE Upto(m + 1) # {}
    OBVIOUS
  <2>1. PICK f \in [0..m -> Accumulator] :
          f[0] = Nothing /\ \A i \in 1..m : f[i] = CountEvent(f[i-1], ev[i])
    OBVIOUS
  <2>2. PICK c \in Accumulator : c = CountEvent(f[m], ev[m+1])
    BY CountEventTyped
  <2> DEFINE g == [i \in 0..m+1 |-> IF i = m + 1 THEN c ELSE f[i]]
  <2>3. g \in [0..m+1 -> Accumulator] /\ g[0] = Nothing
    BY <2>1
  <2>4. ASSUME NEW i \in 1..m+1 PROVE g[i] = CountEvent(g[i-1], ev[i])
    <3>1. CASE i = m + 1
      <4>1. g[i-1] = f[m] /\ g[i] = c
        BY <3>1
      <4> HIDE DEF g
      <4> QED BY <2>2, <3>1, <4>1
    <3>2. CASE i # m + 1
      <4>1. i \in 1..m /\ g[i] = f[i] /\ g[i-1] = f[i-1]
        BY <3>2
      <4> QED BY <2>1, <4>1
    <3> QED BY <3>1, <3>2
  <2> HIDE DEF g
  <2> QED BY <2>3, <2>4
<1>3. T = Nat
  <2> HIDE DEF T
  <2>1. T \in SUBSET Nat
    BY DEF T
  <2> QED BY <1>1, <1>2, <2>1, SetInduction
<1> QED BY <1>3

\* Its recursion is well-founded.
LEMMA AfterRecursion ==
  ASSUME NEW evs \in Seq(Event)
  PROVE  /\ After(evs)[0] = Nothing
         /\ \A i \in 1..Len(evs) : After(evs)[i] = CountEvent(After(evs)[i-1], evs[i])
         /\ \A i \in 0..Len(evs) : After(evs)[i] \in Accumulator
         /\ After(evs) = [i \in 0..Len(evs) |-> After(evs)[i]]
<1> DEFINE N == Len(evs)
           Body(f) == [i \in 0..N |-> IF i = 0 THEN Nothing ELSE CountEvent(f[i-1], evs[i])]
           Solves(f) == f = Body(f)
           after == CHOOSE f : Solves(f)
<1>1. N \in Nat /\ \A i \in 1..N : evs[i] \in Event
  BY EventsTyped
<1>2. \E f : Solves(f)
  <2>1. evs \in [1..N -> Event]
    OBVIOUS
  <2>2. PICK f \in [0..N -> Accumulator] :
          f[0] = Nothing /\ \A i \in 1..N : f[i] = CountEvent(f[i-1], evs[i])
    <3> HIDE DEF N
    <3> QED BY <1>1, <2>1, CountingRecursion
  <2>3. \A i \in 1..N : f[i] = CountEvent(f[i-1], evs[i])
    BY <2>2
  <2>4. Solves(f)
    <3>1. \A i \in 0..N : f[i] = Body(f)[i]
      BY <1>1, <2>2, <2>3
    <3> QED BY <2>2, <3>1
  <2> QED BY <2>4
<1>3. Solves(after)
  <2> HIDE DEF Solves
  <2> QED BY <1>2
<1>4. After(evs) = after
  BY DEF After
<1>5. \A i \in 0..N : after[i] = IF i = 0 THEN Nothing ELSE CountEvent(after[i-1], evs[i])
  <2> HIDE DEF after
  <2> QED BY <1>3
<1>6. \A i \in 0..N : after[i] \in Accumulator
  <2> DEFINE T == {i \in Nat : i <= N => after[i] \in Accumulator}
  <2> HIDE DEF after, N
  <2>1. 0 \in T
    BY <1>1, <1>5, NothingCounted
  <2>2. ASSUME NEW i \in T PROVE i + 1 \in T
    BY <1>1, <1>5, CountEventTyped
  <2>3. T = Nat
    <3> HIDE DEF T
    <3>1. T \in SUBSET Nat
      BY DEF T
    <3> QED BY <2>1, <2>2, <3>1, SetInduction
  <2> QED BY <1>1, <2>3
<1>7. after = [i \in 0..N |-> after[i]]
  <2> HIDE DEF after
  <2>1. after = Body(after)
    BY <1>3
  <2> HIDE DEF N
  <2> QED BY <2>1
<1> HIDE DEF after
<1> QED BY <1>1, <1>4, <1>5, <1>6, <1>7

\* While the loop runs its accumulator is the one RecalcTotals has there.
LoopFollows == LoopInv /\ acc = After(log)[next - 1]

\* What the loop leaves is what RecalcTotals says of every log that sorts to the
\* log of the loop.
LoopComputes ==
  next > Len(log) =>
    \A raw : SortByTime(Floored(raw)) = log =>
               RecalcTotals(raw) = [work |-> acc.work, break |-> acc.break]

\* The loop of the source, turn by turn, computes the operator RecalcTotals that
\* Attendance uses for it.
THEOREM LoopIsRecalcTotals == Spec => []LoopComputes
<1>1. Init => LoopFollows
  <2> SUFFICES ASSUME Init PROVE LoopFollows
    OBVIOUS
  <2>1. LoopInv
    BY LoopInit
  <2>2. next - 1 = 0 /\ acc = Nothing
    BY DEF Init
  <2> QED BY <2>1, <2>2, AfterRecursion DEF LoopFollows, LoopInv
<1>2. LoopFollows /\ [Count]_vars => LoopFollows'
  <2> SUFFICES ASSUME LoopFollows, [Count]_vars PROVE LoopFollows'
    OBVIOUS
  <2>1. LoopInv'
    BY LoopStep DEF LoopFollows
  <2>2. CASE UNCHANGED vars
    BY <2>1, <2>2 DEF LoopFollows, vars
  <2>3. CASE Count
    <3>1. /\ next \in 1..Len(log) /\ next' - 1 = next /\ log' = log
          /\ acc' = CountEvent(After(log)[next - 1], log[next])
      BY <2>3 DEF LoopFollows, LoopInv, Count
    <3>2. acc' = After(log)[next]
      BY <3>1, AfterRecursion DEF LoopFollows, LoopInv
    <3> QED BY <2>1, <3>1, <3>2 DEF LoopFollows
  <2> QED BY <2>2, <2>3 DEF vars
<1>3. LoopFollows => LoopComputes
  <2> SUFFICES ASSUME LoopFollows, next > Len(log), NEW raw, SortByTime(Floored(raw)) = log
               PROVE  RecalcTotals(raw) = [work |-> acc.work, break |-> acc.break]
    BY DEF LoopComputes
  <2>1. acc = After(log)[Len(log)]
    <3>1. next - 1 = Len(log)
      BY DEF LoopFollows, LoopInv
    <3> QED BY <3>1 DEF LoopFollows
  <2>2. RecalcTotals(raw) = [work |-> After(log)[Len(log)].work,
                             break |-> After(log)[Len(log)].break]
    BY DEF RecalcTotals, After
  <2> QED BY <2>1, <2>2
<1> QED BY <1>1, <1>2, <1>3, PTL DEF Spec
-----------------------------------------------------------------------------
(* Sorting *)

\* An event that comes first has the smaller place: fewer events come before it.
LEMMA PlaceBelow ==
  ASSUME NEW evs \in Seq(Event), NEW i \in 1..Len(evs), NEW j \in 1..Len(evs),
         i # j, ComesFirst(evs, i, j)
  PROVE  Places(evs)[i] < Places(evs)[j]
<1> DEFINE N == Len(evs)
           Below(k) == {m \in 1..N : ComesFirst(evs, m, k)}
<1>1. N \in Nat /\ \A k \in 1..N : evs[k].at \in Nat
  BY EventsTyped, TimesAssumption DEF Event
<1>2. Below(i) \subseteq Below(j) /\ j \in Below(j) /\ j \notin Below(i)
  BY <1>1 DEF ComesFirst, Before
<1>3. IsFiniteSet(Below(j))
  <2>1. IsFiniteSet(1..N)
    BY <1>1, FS_Interval
  <2>2. Below(j) \in SUBSET (1..N)
    OBVIOUS
  <2> HIDE DEF Below
  <2> QED BY <2>1, <2>2, FS_Subset
<1>4. Places(evs)[i] = Cardinality(Below(i)) /\ Places(evs)[j] = Cardinality(Below(j))
  BY DEF Places
<1> HIDE DEF Below
<1>5. Cardinality(Below(i)) <= Cardinality(Below(j)) /\ Cardinality(Below(j)) # Cardinality(Below(i))
  BY <1>2, <1>3, FS_Subset
<1>6. IsFiniteSet(Below(i))
  BY <1>2, <1>3, FS_Subset
<1>7. Cardinality(Below(i)) \in Nat /\ Cardinality(Below(j)) \in Nat
  BY <1>3, <1>6, FS_CardinalityType
<1> QED BY <1>4, <1>5, <1>7

\* The places are the indices of the log, each taken once.
LEMMA PlacesAreIndices ==
  ASSUME NEW evs \in Seq(Event)
  PROVE  Places(evs) \in Injection(1..Len(evs), 1..Len(evs))
         /\ Places(evs) \in Surjection(1..Len(evs), 1..Len(evs))
<1> DEFINE N == Len(evs)
           place == Places(evs)
<1>1. N \in Nat /\ IsFiniteSet(1..N) /\ Cardinality(1..N) = N
  <2>1. N \in Nat
    BY EventsTyped
  <2> QED BY <2>1, FS_Interval
<1>2. ASSUME NEW i \in 1..N PROVE place[i] \in 1..N
  <2> DEFINE below == {m \in 1..N : ComesFirst(evs, m, i)}
  <2>1. place[i] = Cardinality(below)
    BY DEF Places
  <2>2. below \in SUBSET (1..N) /\ i \in below
    <3>1. evs[i].at = evs[i].at /\ i <= i
      BY <1>1
    <3> QED BY <3>1 DEF ComesFirst
  <2> HIDE DEF below
  <2>3. IsFiniteSet(below) /\ Cardinality(below) <= N
    BY <1>1, <2>2, FS_Subset
  <2>4. Cardinality(below) \in Nat /\ Cardinality(below) # 0
    BY <2>2, <2>3, FS_CardinalityType, FS_EmptySet
  <2> QED BY <1>1, <2>1, <2>3, <2>4
<1>3. place \in [1..N -> 1..N]
  <2>1. place = [i \in 1..N |-> place[i]]
    BY DEF Places
  <2> HIDE DEF place
  <2> QED BY <1>2, <2>1
<1>4. ASSUME NEW i \in 1..N, NEW j \in 1..N, place[i] = place[j] PROVE i = j
  <2>1. evs[i].at \in Nat /\ evs[j].at \in Nat
    BY EventsTyped, TimesAssumption DEF Event
  <2>2. ComesFirst(evs, i, j) \/ ComesFirst(evs, j, i)
    BY <1>1, <2>1 DEF ComesFirst, Before
  <2>3. place[i] \in Nat /\ place[j] \in Nat
    BY <1>2
  <2> QED BY <1>4, <2>2, <2>3, PlaceBelow
<1> HIDE DEF place
<1>5. place \in Injection(1..N, 1..N)
  BY <1>3, <1>4 DEF Injection, IsInjective
<1>6. place \in Surjection(1..N, 1..N)
  BY <1>1, <1>5, FS_Injection
<1> QED BY <1>5, <1>6 DEF place

\* Sorting permutes a log: each event is there once, and those that come first
\* come first.
LEMMA SortPermutes ==
  ASSUME NEW evs \in Seq(Event)
  PROVE  \E p \in [1..Len(evs) -> 1..Len(evs)] :
           /\ SortByTime(evs) = [n \in 1..Len(evs) |-> evs[p[n]]]
           /\ \A i \in 1..Len(evs) : \E n \in 1..Len(evs) : p[n] = i
           /\ \A m, n \in 1..Len(evs) : m < n =>
                p[m] # p[n] /\ ComesFirst(evs, p[m], p[n])
<1> DEFINE N == Len(evs)
           place == Places(evs)
           p == [n \in 1..N |-> CHOOSE i \in 1..N : place[i] = n]
<1>1. /\ place \in [1..N -> 1..N]
      /\ \A i, j \in 1..N : place[i] = place[j] => i = j
      /\ \A n \in 1..N : \E i \in 1..N : place[i] = n
  <2>1. place \in Injection(1..N, 1..N) /\ place \in Surjection(1..N, 1..N)
    BY PlacesAreIndices
  <2> HIDE DEF place
  <2> QED BY <2>1 DEF Injection, IsInjective, Surjection
<1>2. SortByTime(evs) = [n \in 1..N |-> evs[p[n]]]
  BY DEF SortByTime
<1>3. \A n \in 1..N : p[n] \in 1..N /\ place[p[n]] = n
  <2> HIDE DEF place
  <2> QED BY <1>1
<1>4. p \in [1..N -> 1..N]
  BY <1>3
<1>5. \A i \in 1..N : \E n \in 1..N : p[n] = i
  <2> SUFFICES ASSUME NEW i \in 1..N PROVE \E n \in 1..N : p[n] = i
    OBVIOUS
  <2>1. place[i] \in 1..N
    BY <1>1
  <2>2. p[place[i]] = i
    <3> HIDE DEF place, p
    <3> QED BY <1>1, <1>3, <2>1
  <2> HIDE DEF place, p
  <2> QED BY <2>1, <2>2
<1>6. ASSUME NEW m \in 1..N, NEW n \in 1..N, m < n
      PROVE  p[m] # p[n] /\ ComesFirst(evs, p[m], p[n])
  <2> HIDE DEF p
  <2>1. p[m] \in 1..N /\ p[n] \in 1..N /\ place[p[m]] = m /\ place[p[n]] = n /\ m \in Nat /\ n \in Nat
    BY <1>3, EventsTyped
  <2>2. p[m] # p[n]
    <3> HIDE DEF place
    <3> QED BY <1>6, <2>1
  <2>3. PICK i \in 1..N, j \in 1..N : i = p[m] /\ j = p[n]
    BY <2>1
  <2>4. i # j /\ ~(place[j] < place[i])
    <3> HIDE DEF place
    <3> QED BY <1>6, <2>1, <2>2, <2>3
  <2>5. ~ComesFirst(evs, j, i)
    <3> HIDE DEF N
    <3> QED BY <2>4, PlaceBelow DEF N
  <2>6. N \in Nat /\ evs[i].at \in Nat /\ evs[j].at \in Nat
    BY EventsTyped
  <2>7. ComesFirst(evs, i, j)
    BY <2>5, <2>6 DEF ComesFirst, Before
  <2> QED BY <2>2, <2>3, <2>7
<1> HIDE DEF p
<1> QED BY <1>2, <1>4, <1>5, <1>6

\* So a sorted log is ordered, and holds what the log holds.
LEMMA SortOrders ==
  ASSUME NEW evs \in Seq(Event)
  PROVE  /\ SortByTime(evs) \in Seq(Event)
         /\ Len(SortByTime(evs)) = Len(evs)
         /\ Ordered(SortByTime(evs))
         /\ \A n \in 1..Len(evs) : \E i \in 1..Len(evs) : SortByTime(evs)[n] = evs[i]
<1>1. PICK p \in [1..Len(evs) -> 1..Len(evs)] :
        /\ SortByTime(evs) = [n \in 1..Len(evs) |-> evs[p[n]]]
        /\ \A m, n \in 1..Len(evs) : m < n => ComesFirst(evs, p[m], p[n])
  BY SortPermutes
<1>2. Len(evs) \in Nat /\ \A i \in 1..Len(evs) : evs[i] \in Event /\ evs[i].at \in Nat
  BY EventsTyped, TimesAssumption DEF Event
<1>3. SortByTime(evs) \in [1..Len(evs) -> Event]
  BY <1>1, <1>2
<1>4. SortByTime(evs) \in Seq(Event) /\ Len(SortByTime(evs)) = Len(evs)
  BY <1>2, <1>3
<1>5. Ordered(SortByTime(evs))
  <2> SUFFICES ASSUME NEW i \in 1..Len(evs), NEW j \in 1..Len(evs), i < j
               PROVE  SortByTime(evs)[i].at <= SortByTime(evs)[j].at
    BY <1>4 DEF Ordered
  <2>1. ComesFirst(evs, p[i], p[j])
    BY <1>1
  <2>2. evs[p[i]].at <= evs[p[j]].at
    BY <1>2, <2>1 DEF ComesFirst, Before
  <2> QED BY <1>1, <2>2
<1>6. \A n \in 1..Len(evs) : SortByTime(evs)[n] = evs[p[n]] /\ p[n] \in 1..Len(evs)
  BY <1>1
<1> QED BY <1>4, <1>5, <1>6

\* Sorting leaves an ordered log as it is: the sort is stable.
LEMMA SortOfOrdered ==
  ASSUME NEW evs \in Seq(Event), Ordered(evs)
  PROVE  SortByTime(evs) = evs
<1> DEFINE N == Len(evs)
<1>1. PICK p \in [1..N -> 1..N] :
        /\ SortByTime(evs) = [n \in 1..N |-> evs[p[n]]]
        /\ \A i \in 1..N : \E n \in 1..N : p[n] = i
        /\ \A m, n \in 1..N : m < n => p[m] # p[n] /\ ComesFirst(evs, p[m], p[n])
  BY SortPermutes
<1>2. N \in Nat /\ \A i \in 1..N : evs[i].at \in Nat
  BY EventsTyped, TimesAssumption DEF Event
<1>3. ASSUME NEW m \in 1..N, NEW n \in 1..N, m < n PROVE p[m] < p[n]
  <2>1. p[m] \in 1..N /\ p[n] \in 1..N /\ p[m] # p[n] /\ ComesFirst(evs, p[m], p[n])
    BY <1>1, <1>3
  <2>2. p[n] < p[m] => evs[p[n]].at <= evs[p[m]].at
    BY <2>1 DEF Ordered
  <2> QED BY <1>2, <2>1, <2>2 DEF ComesFirst, Before
<1>4. \A n \in 1..N : p[n] >= n
  <2> DEFINE T == {n \in Nat : n \in 1..N => p[n] >= n}
  <2>1. 0 \in T
    BY <1>2
  <2>2. ASSUME NEW n \in T PROVE n + 1 \in T
    <3>1. CASE n \in 1..N /\ n + 1 \in 1..N
      <4>1. p[n] < p[n+1] /\ p[n] >= n /\ p[n] \in Nat /\ p[n+1] \in Nat
        BY <1>3, <3>1
      <4> QED BY <4>1
    <3>2. CASE n = 0
      BY <3>2
    <3> QED BY <1>2, <3>1, <3>2
  <2>3. T = Nat
    <3> HIDE DEF T
    <3>1. T \in SUBSET Nat
      BY DEF T
    <3> QED BY <2>1, <2>2, <3>1, SetInduction
  <2> QED BY <1>2, <2>3
<1>5. \A n \in 1..N : p[n] <= n
  <2> DEFINE T == {k \in Nat : k < N => p[N - k] <= N - k}
  <2>1. 0 \in T
    BY <1>2
  <2>2. ASSUME NEW k \in T PROVE k + 1 \in T
    <3> SUFFICES ASSUME k + 1 < N PROVE p[N - (k + 1)] <= N - (k + 1)
      OBVIOUS
    <3>1. p[N - k] <= N - k /\ N - k \in 1..N /\ N - (k+1) \in 1..N
          /\ N - (k+1) < N - k
      BY <1>2
    <3>2. p[N - (k+1)] < p[N - k]
      BY <1>3, <3>1
    <3>3. p[N - (k+1)] \in Nat /\ p[N - k] \in Nat
      BY <3>1
    <3> QED BY <1>2, <3>1, <3>2, <3>3
  <2>3. T = Nat
    <3> HIDE DEF T
    <3>1. T \in SUBSET Nat
      BY DEF T
    <3> QED BY <2>1, <2>2, <3>1, SetInduction
  <2>4. ASSUME NEW n \in 1..N PROVE p[n] <= n
    <3>1. N - n \in Nat /\ N - n < N /\ N - (N - n) = n
      BY <1>2
    <3>2. N - n \in T
      BY <2>3, <3>1
    <3> QED BY <3>1, <3>2
  <2> QED BY <2>4
<1>6. \A n \in 1..N : p[n] = n
  BY <1>2, <1>4, <1>5
<1>7. SortByTime(evs) = [n \in 1..N |-> evs[n]]
  BY <1>1, <1>6
<1> QED BY <1>7
-----------------------------------------------------------------------------
(* The copy of the export *)

\* The copy tests a start time before it adds; the other adds nothing when there is
\* none.
LEMMA TurnsAgree ==
  ASSUME NEW a \in Accumulator, NEW e \in Event
  PROVE  CountLocally(a, e) = CountEvent(a, e)
<1>1. /\ a = [work |-> a.work, break |-> a.break, workStart |-> a.workStart,
              breakStart |-> a.breakStart]
      /\ a.work \in Int /\ a.break \in Int /\ e.at \in Nat /\ e.type \in EventType
      /\ a.workStart \in Nat \cup {NoTime} /\ a.breakStart \in Nat \cup {NoTime}
  BY TimesAssumption DEF Accumulator, Event
<1> DEFINE worked == Elapsed(a.workStart, e.at)
           rested == Elapsed(a.breakStart, e.at)
<1>2. /\ a.breakStart # NoTime =>
           Rested(a, e.at) = [work |-> a.work, break |-> a.break + rested,
                              workStart |-> a.workStart, breakStart |-> NoTime]
      /\ a.workStart # NoTime =>
           Worked(a, e.at) = [work |-> a.work + worked, break |-> a.break,
                              workStart |-> NoTime, breakStart |-> a.breakStart]
      /\ a.breakStart = NoTime => a.break + rested = a.break
      /\ a.workStart = NoTime => a.work + worked = a.work
  <2>1. /\ a.breakStart # NoTime => rested = e.at - a.breakStart
        /\ a.workStart # NoTime => worked = e.at - a.workStart
        /\ a.breakStart = NoTime => rested = 0
        /\ a.workStart = NoTime => worked = 0
    BY DEF Elapsed
  <2>2. /\ a.breakStart # NoTime => a.break + e.at - a.breakStart = a.break + rested
        /\ a.workStart # NoTime => a.work + e.at - a.workStart = a.work + worked
    BY <1>1, <2>1
  <2> HIDE DEF worked, rested
  <2>3. ASSUME a.breakStart # NoTime
        PROVE  (IF a.breakStart # NoTime THEN Rested(a, e.at) ELSE a)
                 = [work |-> a.work, break |-> a.break + rested,
                    workStart |-> a.workStart, breakStart |-> NoTime]
    BY <1>1, <2>2, <2>3 DEF Rested
  <2>4. ASSUME a.workStart # NoTime
        PROVE  (IF a.workStart # NoTime THEN Worked(a, e.at) ELSE a)
                 = [work |-> a.work + worked, break |-> a.break,
                    workStart |-> NoTime, breakStart |-> a.breakStart]
    BY <1>1, <2>2, <2>4 DEF Worked
  <2> QED BY <1>1, <2>1, <2>3, <2>4
<1>3. CASE e.type \in StartsWork
  <2>1. CountEvent(a, e) = [work |-> a.work, break |-> a.break + rested,
                            workStart |-> e.at, breakStart |-> NoTime]
    BY <1>3, CountEventCases
  <2>2. CountLocally(a, e)
          = [(IF a.breakStart # NoTime THEN Rested(a, e.at) ELSE a) EXCEPT !.workStart = e.at]
    BY <1>3 DEF CountLocally, StartsWork, EndsDay
  <2> HIDE DEF rested
  <2>3. CountLocally(a, e) = [work |-> a.work, break |-> a.break + rested,
                              workStart |-> e.at, breakStart |-> NoTime]
    <3>1. CASE a.breakStart # NoTime
      BY <1>2, <2>2, <3>1
    <3>2. CASE a.breakStart = NoTime
      BY <1>1, <1>2, <2>2, <3>2
    <3> QED BY <3>1, <3>2
  <2> QED BY <2>1, <2>3
<1>4. CASE e.type = "BREAK_START"
  <2>1. CountEvent(a, e) = [work |-> a.work + worked, break |-> a.break,
                            workStart |-> NoTime, breakStart |-> e.at]
    BY <1>4, CountEventCases
  <2>2. CountLocally(a, e)
          = [(IF a.workStart # NoTime THEN Worked(a, e.at) ELSE a) EXCEPT !.breakStart = e.at]
    BY <1>4 DEF CountLocally, StartsWork, EndsDay
  <2> HIDE DEF worked
  <2>3. CountLocally(a, e) = [work |-> a.work + worked, break |-> a.break,
                              workStart |-> NoTime, breakStart |-> e.at]
    <3>1. CASE a.workStart # NoTime
      BY <1>2, <2>2, <3>1
    <3>2. CASE a.workStart = NoTime
      BY <1>1, <1>2, <2>2, <3>2
    <3> QED BY <3>1, <3>2
  <2> QED BY <2>1, <2>3
<1>5. CASE e.type \in EndsDay /\ a.breakStart # NoTime
  <2>1. CountEvent(a, e) = [work |-> a.work, break |-> a.break + rested,
                            workStart |-> a.workStart, breakStart |-> NoTime]
    BY <1>5, CountEventCases
  <2>2. CountLocally(a, e) = Rested(a, e.at)
    BY <1>5 DEF CountLocally, StartsWork, EndsDay
  <2> QED BY <1>2, <1>5, <2>1, <2>2
<1>6. CASE e.type \in EndsDay /\ a.breakStart = NoTime
  <2>1. CountEvent(a, e) = [work |-> a.work + worked, break |-> a.break,
                            workStart |-> NoTime, breakStart |-> a.breakStart]
    BY <1>6, CountEventCases
  <2>2. CountLocally(a, e) = IF a.workStart # NoTime THEN Worked(a, e.at) ELSE a
    BY <1>6 DEF CountLocally, StartsWork, EndsDay
  <2> HIDE DEF worked
  <2> QED BY <1>1, <1>2, <2>1, <2>2
<1> QED BY <1>1, <1>3, <1>4, <1>5, <1>6 DEF EventType

\* The accumulator of the copy after each event.
LocalAfter(evs) ==
  LET after[i \in 0..Len(evs)] == IF i = 0 THEN Nothing ELSE CountLocally(after[i-1], evs[i])
  IN after

LEMMA LoopsAgree ==
  ASSUME NEW evs \in Seq(Event)
  PROVE  LocalAfter(evs)[Len(evs)] = After(evs)[Len(evs)]
<1> DEFINE N == Len(evs)
           Body(f) == [i \in 0..N |-> IF i = 0 THEN Nothing ELSE CountLocally(f[i-1], evs[i])]
           Solves(f) == f = Body(f)
           local == CHOOSE f : Solves(f)
           after == After(evs)
<1>1. N \in Nat /\ \A i \in 1..N : evs[i] \in Event
  BY EventsTyped
<1>2. /\ after[0] = Nothing
      /\ \A i \in 1..N : after[i] = CountEvent(after[i-1], evs[i])
      /\ \A i \in 0..N : after[i] \in Accumulator
      /\ after = [i \in 0..N |-> after[i]]
  BY AfterRecursion
<1> HIDE DEF after
<1>3. \A i \in 1..N : after[i] = CountLocally(after[i-1], evs[i])
  BY <1>1, <1>2, TurnsAgree
<1>4. Solves(after)
  <2>1. \A i \in 0..N : after[i] = Body(after)[i]
    BY <1>1, <1>2, <1>3
  <2> QED BY <1>2, <2>1
<1>5. Solves(local)
  <2> HIDE DEF Solves
  <2> QED BY <1>4
<1>6. \A i \in 0..N : local[i] = IF i = 0 THEN Nothing ELSE CountLocally(local[i-1], evs[i])
  <2> HIDE DEF local
  <2> QED BY <1>5
<1>7. LocalAfter(evs) = local
  BY DEF LocalAfter
<1> DEFINE T == {i \in Nat : i <= N => local[i] = after[i]}
<1> HIDE DEF local, N
<1>8. 0 \in T
  BY <1>1, <1>2, <1>6
<1>9. ASSUME NEW i \in T PROVE i + 1 \in T
  BY <1>1, <1>3, <1>6
<1>10. T = Nat
  <2> HIDE DEF T
  <2>1. T \in SUBSET Nat
    BY DEF T
  <2> QED BY <1>8, <1>9, <2>1, SetInduction
<1>11. local[N] = after[N]
  BY <1>1, <1>10
<1> QED BY <1>7, <1>11 DEF after, N

\* The two copies of the algorithm agree on every log: a change to one alone
\* would break this.
THEOREM CopiesAgree ==
  ASSUME NEW raw, Floored(raw) \in Seq(Event)
  PROVE  RecalcTotalsLocal(raw) = RecalcTotals(raw)
<1> DEFINE evs == SortByTime(Floored(raw))
<1>1. evs \in Seq(Event)
  BY SortOrders
<1>2. RecalcTotals(raw) = [work |-> After(evs)[Len(evs)].work,
                           break |-> After(evs)[Len(evs)].break]
  BY DEF RecalcTotals, After
<1>3. RecalcTotalsLocal(raw) = [work |-> LocalAfter(evs)[Len(evs)].work,
                                break |-> LocalAfter(evs)[Len(evs)].break]
  BY DEF RecalcTotalsLocal, LocalAfter
<1> HIDE DEF evs
<1> QED BY <1>1, <1>2, <1>3, LoopsAgree

\* Where cutting the times to seconds leaves which event comes first, it makes no
\* difference whether it is done before or after sorting.
LEMMA SortCommutes ==
  ASSUME NEW raw \in Seq(Event), Floored(raw) \in Seq(Event),
         \A i, j \in 1..Len(raw) : ComesFirst(raw, i, j) <=> ComesFirst(Floored(raw), i, j)
  PROVE  Floored(SortByTime(raw)) = SortByTime(Floored(raw))
<1> DEFINE N == Len(raw)
           flo == Floored(raw)
           place == Places(raw)
           p == [n \in 1..N |-> CHOOSE i \in 1..N : place[i] = n]
<1>1. /\ N \in Nat /\ Len(flo) = N
      /\ \A i \in 1..N : flo[i] = [raw[i] EXCEPT !.at = FloorToSecond(@)]
  BY EventsTyped DEF Floored
<1>2. Places(flo) = place
  <2>1. \A i \in 1..N : {j \in 1..N : ComesFirst(flo, j, i)} = {j \in 1..N : ComesFirst(raw, j, i)}
    OBVIOUS
  <2> HIDE DEF flo
  <2> QED BY <1>1, <2>1 DEF Places
<1>3. \A n \in 1..N : p[n] \in 1..N
  <2>1. place \in Surjection(1..N, 1..N)
    BY PlacesAreIndices
  <2> HIDE DEF place
  <2>2. \A n \in 1..N : \E i \in 1..N : place[i] = n
    BY <2>1 DEF Surjection
  <2> QED BY <2>2
<1>4. SortByTime(raw) = [n \in 1..N |-> raw[p[n]]]
  BY DEF SortByTime
<1>5. SortByTime(flo) = [n \in 1..N |-> flo[p[n]]]
  <2> HIDE DEF flo, place
  <2> QED BY <1>1, <1>2 DEF SortByTime
<1> HIDE DEF p, flo, place
<1>6. Len(SortByTime(raw)) = N
  BY <1>1, <1>4
<1>7. Floored(SortByTime(raw))
        = [n \in 1..N |-> [raw[p[n]] EXCEPT !.at = FloorToSecond(@)]]
  <2>1. \A n \in 1..N : SortByTime(raw)[n] = raw[p[n]]
    BY <1>4
  <2> QED BY <1>6, <2>1 DEF Floored
<1>8. Floored(SortByTime(raw)) = [n \in 1..N |-> flo[p[n]]]
  BY <1>1, <1>3, <1>7
<1> QED BY <1>5, <1>8 DEF flo

\* Then sorting a log before it is counted makes no difference either.
LEMMA SortedTotals ==
  ASSUME NEW raw \in Seq(Event), Floored(raw) \in Seq(Event),
         \A i, j \in 1..Len(raw) : ComesFirst(raw, i, j) <=> ComesFirst(Floored(raw), i, j)
  PROVE  RecalcTotalsLocal(SortByTime(raw)) = RecalcTotals(raw)
<1> DEFINE evs == SortByTime(Floored(raw))
           sorted == SortByTime(raw)
<1>1. evs \in Seq(Event) /\ Ordered(evs)
  BY SortOrders
<1>2. Floored(sorted) = evs
  BY SortCommutes
<1>3. SortByTime(Floored(sorted)) = evs
  <2>1. SortByTime(evs) = evs
    <3> HIDE DEF evs
    <3> QED BY <1>1, SortOfOrdered
  <2> HIDE DEF evs, sorted
  <2> QED BY <1>2, <2>1
<1>4. RecalcTotalsLocal(sorted) = RecalcTotals(sorted)
  <2> HIDE DEF evs, sorted
  <2> QED BY <1>1, <1>2, CopiesAgree
<1>5. RecalcTotals(sorted) = [work |-> After(evs)[Len(evs)].work,
                              break |-> After(evs)[Len(evs)].break]
  <2>1. PICK flo : flo = SortByTime(Floored(sorted))
    OBVIOUS
  <2>2. RecalcTotals(sorted) = [work |-> After(flo)[Len(flo)].work,
                                break |-> After(flo)[Len(flo)].break]
    <3> HIDE DEF sorted
    <3> QED BY <2>1 DEF RecalcTotals, After
  <2> HIDE DEF evs, sorted
  <2> QED BY <1>3, <2>1, <2>2
<1>6. RecalcTotals(raw) = [work |-> After(evs)[Len(evs)].work,
                           break |-> After(evs)[Len(evs)].break]
  BY DEF RecalcTotals, After
<1> HIDE DEF evs, sorted
<1> QED BY <1>4, <1>5, <1>6 DEF sorted
-----------------------------------------------------------------------------
(* What RecalcTotals makes of a whole log *)

\* After each event of an ordered log the totals are not negative and fit the
\* time since the first event, and a running start is the time of the last one.
LEMMA AfterFits ==
  ASSUME NEW evs \in Seq(Event), Ordered(evs), NEW n \in 1..Len(evs)
  PROVE  LET a == After(evs)[n] IN
         /\ a \in Accumulator
         /\ a.work >= 0 /\ a.break >= 0
         /\ a.work + a.break <= evs[n].at - evs[1].at
         /\ a.workStart \in {NoTime, evs[n].at} /\ a.breakStart \in {NoTime, evs[n].at}
         /\ ~(a.workStart # NoTime /\ a.breakStart # NoTime)
<1> DEFINE Fits(k) == LET a == After(evs)[k] IN
             /\ a.work >= 0 /\ a.break >= 0
             /\ a.work + a.break <= evs[k].at - evs[1].at
             /\ a.workStart \in {NoTime, evs[k].at} /\ a.breakStart \in {NoTime, evs[k].at}
             /\ ~(a.workStart # NoTime /\ a.breakStart # NoTime)
           T == {k \in Nat : k \in 1..Len(evs) => Fits(k)}
<1>1. /\ Len(evs) \in Nat
      /\ \A k \in 1..Len(evs) : evs[k] \in Event /\ evs[k].at \in Nat
  BY EventsTyped
<1>2. /\ After(evs)[0] = Nothing
      /\ \A k \in 1..Len(evs) : After(evs)[k] = CountEvent(After(evs)[k-1], evs[k])
      /\ \A k \in 0..Len(evs) : After(evs)[k] \in Accumulator
  BY AfterRecursion
<1>3. 0 \in T
  BY <1>1
<1>4. ASSUME NEW k \in T PROVE k + 1 \in T
  <2> SUFFICES ASSUME k + 1 \in 1..Len(evs) PROVE Fits(k + 1)
    OBVIOUS
  <2> DEFINE a == After(evs)[k]
             e == evs[k+1]
             last == IF k = 0 THEN e.at ELSE evs[k].at
  <2>1. After(evs)[k+1] = CountEvent(a, e) /\ a \in Accumulator /\ e \in Event
    BY <1>1, <1>2
  <2>2. last \in Nat /\ last <= e.at /\ e.at \in Nat /\ evs[1].at \in Nat
    BY <1>1 DEF Ordered
  <2>3. /\ a.workStart \in {NoTime, last} /\ a.breakStart \in {NoTime, last}
        /\ ~(a.workStart # NoTime /\ a.breakStart # NoTime)
        /\ a.work >= 0 /\ a.break >= 0
        /\ a.work + a.break <= last - evs[1].at
    <3>1. CASE k = 0
      <4>1. a = Nothing /\ last = evs[1].at
        BY <1>2, <3>1
      <4> HIDE DEF a, last
      <4> QED BY <2>2, <4>1 DEF Nothing
    <3>2. CASE k # 0
      <4>1. Fits(k) /\ last = evs[k].at
        BY <1>1, <3>2
      <4> QED BY <4>1
    <3> QED BY <3>1, <3>2
  <2> DEFINE b == CountEvent(a, e)
  <2>4. /\ b \in Accumulator
        /\ b.work >= a.work /\ b.break >= a.break
        /\ b.work + b.break <= a.work + a.break + (e.at - last)
        /\ b.workStart \in {NoTime, e.at} /\ b.breakStart \in {NoTime, e.at}
        /\ ~(b.workStart # NoTime /\ b.breakStart # NoTime)
    <3> HIDE DEF a, e, last
    <3> QED BY <2>1, <2>2, <2>3, CountEventAdds
  <2>5. /\ a.work \in Int /\ a.break \in Int /\ b.work \in Int /\ b.break \in Int
    BY <2>1, <2>4 DEF Accumulator
  <2>6. After(evs)[k+1] = b /\ evs[k+1] = e
    BY <2>1
  <2> HIDE DEF a, b, e, last
  <2>7. b.work >= 0 /\ b.break >= 0 /\ b.work + b.break <= e.at - evs[1].at
    <3>1. PICK aw, ab, bw, bb \in Int, t, l, f \in Nat :
            /\ aw = a.work /\ ab = a.break /\ bw = b.work /\ bb = b.break
            /\ t = e.at /\ l = last /\ f = evs[1].at
      BY <2>2, <2>5
    <3>2. aw >= 0 /\ ab >= 0 /\ aw + ab <= l - f
      BY <2>3, <3>1
    <3>3. bw >= aw /\ bb >= ab /\ bw + bb <= aw + ab + (t - l)
      BY <2>4, <3>1
    <3>4. bw >= 0 /\ bb >= 0 /\ bw + bb <= t - f
      BY <3>2, <3>3
    <3> QED BY <3>1, <3>4
  <2> QED BY <2>4, <2>6, <2>7
<1>5. T = Nat
  <2> HIDE DEF T
  <2>1. T \in SUBSET Nat
    BY DEF T
  <2> QED BY <1>3, <1>4, <2>1, SetInduction
<1>6. Fits(n)
  BY <1>1, <1>5
<1> QED BY <1>1, <1>2, <1>6

\* Whatever the clocks said and in whatever order the events were written, no
\* total is negative and together they fit between two of the events.
LEMMA TotalsFit ==
  ASSUME NEW raw, Floored(raw) \in Seq(Event), Len(Floored(raw)) # 0
  PROVE  LET totals == RecalcTotals(raw) IN
         /\ totals.work \in Nat /\ totals.break \in Nat
         /\ \E i, j \in 1..Len(Floored(raw)) :
              totals.work + totals.break <= Floored(raw)[j].at - Floored(raw)[i].at
<1> DEFINE flo == Floored(raw)
           evs == SortByTime(flo)
           N   == Len(flo)
           a   == After(evs)[N]
<1>1. /\ evs \in Seq(Event) /\ Len(evs) = N /\ Ordered(evs)
      /\ \A n \in 1..N : \E i \in 1..N : evs[n] = flo[i]
  BY SortOrders
<1>2. N \in Nat /\ N \in 1..N /\ 1 \in 1..N
  <2>1. N \in Nat
    BY EventsTyped
  <2> QED BY <2>1
<1>3. RecalcTotals(raw) = [work |-> After(evs)[Len(evs)].work,
                           break |-> After(evs)[Len(evs)].break]
  BY DEF RecalcTotals, After
<1>4. /\ a \in Accumulator /\ a.work >= 0 /\ a.break >= 0
      /\ a.work + a.break <= evs[N].at - evs[1].at
  <2> HIDE DEF evs, N
  <2> QED BY <1>1, <1>2, AfterFits
<1>5. PICK i \in 1..N, j \in 1..N : evs[1] = flo[i] /\ evs[N] = flo[j]
  BY <1>1, <1>2
<1> HIDE DEF a, evs
<1>6. RecalcTotals(raw).work = a.work /\ RecalcTotals(raw).break = a.break
  BY <1>1, <1>3 DEF a
<1>7. a.work \in Nat /\ a.break \in Nat
  BY <1>4 DEF Accumulator
<1> QED BY <1>4, <1>5, <1>6, <1>7

\* A day of work and breaks in turn.
Alternates(evs) ==
  /\ evs[1].type \in StartsWork
  /\ \A i \in 1..Len(evs)-1 :
       \/ evs[i].type \in StartsWork /\ evs[i+1].type \notin StartsWork
       \/ evs[i].type = "BREAK_START" /\ evs[i+1].type # "BREAK_START"

\* Every second of such a day counts as work or as break.
LEMMA WholeDayCounts ==
  ASSUME NEW raw, Floored(raw) \in Seq(Event), Len(Floored(raw)) # 0,
         Ordered(Floored(raw)), Alternates(Floored(raw))
  PROVE  RecalcTotals(raw).work + RecalcTotals(raw).break
           = Floored(raw)[Len(Floored(raw))].at - Floored(raw)[1].at
<1> DEFINE evs == Floored(raw)
           N   == Len(evs)
           Full(k) == LET a == After(evs)[k] IN
             /\ a.work + a.break = evs[k].at - evs[1].at
             /\ evs[k].type \in StartsWork =>
                  a.workStart = evs[k].at /\ a.breakStart = NoTime
             /\ evs[k].type = "BREAK_START" =>
                  a.workStart = NoTime /\ a.breakStart = evs[k].at
           T == {k \in Nat : k \in 1..N => Full(k)}
<1>1. /\ N \in Nat
      /\ \A k \in 1..N : evs[k] \in Event /\ evs[k].at \in Nat /\ evs[k].type \in EventType
  BY EventsTyped
<1>2. /\ After(evs)[0] = Nothing
      /\ \A k \in 1..N : After(evs)[k] = CountEvent(After(evs)[k-1], evs[k])
      /\ \A k \in 0..N : After(evs)[k] \in Accumulator
  BY AfterRecursion
<1>3. SortByTime(evs) = evs
  BY SortOfOrdered
<1>4. RecalcTotals(raw) = [work |-> After(evs)[N].work, break |-> After(evs)[N].break]
  <2>1. RecalcTotals(raw) = [work |-> After(SortByTime(evs))[Len(SortByTime(evs))].work,
                             break |-> After(SortByTime(evs))[Len(SortByTime(evs))].break]
    BY DEF RecalcTotals, After
  <2> HIDE DEF evs
  <2> QED BY <1>3, <2>1
<1>a. /\ evs[1].type \in StartsWork
      /\ \A i \in 1..N-1 :
           \/ evs[i].type \in StartsWork /\ evs[i+1].type \notin StartsWork
           \/ evs[i].type = "BREAK_START" /\ evs[i+1].type # "BREAK_START"
  BY DEF Alternates
<1>5. 0 \in T
  BY <1>1
<1>6. ASSUME NEW k \in T PROVE k + 1 \in T
  <2> SUFFICES ASSUME k + 1 \in 1..N PROVE Full(k + 1)
    OBVIOUS
  <2> DEFINE a == After(evs)[k]
             e == evs[k+1]
             worked == Elapsed(a.workStart, e.at)
             rested == Elapsed(a.breakStart, e.at)
             b == CountEvent(a, e)
  <2>1. After(evs)[k+1] = b /\ a \in Accumulator /\ e \in Event
        /\ e.at \in Nat /\ e.type \in EventType /\ evs[1].at \in Nat
    BY <1>1, <1>2
  <2>2. /\ e.type \in StartsWork =>
             b = [work |-> a.work, break |-> a.break + rested,
                  workStart |-> e.at, breakStart |-> NoTime]
        /\ e.type = "BREAK_START" =>
             b = [work |-> a.work + worked, break |-> a.break,
                  workStart |-> NoTime, breakStart |-> e.at]
        /\ e.type \in EndsDay /\ a.breakStart # NoTime =>
             b = [work |-> a.work, break |-> a.break + rested,
                  workStart |-> a.workStart, breakStart |-> NoTime]
        /\ e.type \in EndsDay /\ a.breakStart = NoTime =>
             b = [work |-> a.work + worked, break |-> a.break,
                  workStart |-> NoTime, breakStart |-> a.breakStart]
    <3> HIDE DEF a, e
    <3> QED BY <2>1, CountEventCases
  <2>3. CASE k = 0
    <3>1. a = Nothing /\ e = evs[1] /\ e.type \in StartsWork
      BY <1>2, <1>a, <2>3
    <3> HIDE DEF a, e
    <3>2. rested = 0
      BY <3>1 DEF Nothing, Elapsed
    <3> HIDE DEF b, rested, worked
    <3>3. b = [work |-> 0, break |-> 0, workStart |-> e.at, breakStart |-> NoTime]
      BY <2>2, <3>1, <3>2 DEF Nothing
    <3>4. After(evs)[k+1] = b /\ evs[k+1] = e /\ e.at - evs[1].at = 0 /\ e.type # "BREAK_START"
      BY <2>1, <3>1 DEF e, StartsWork
    <3> QED BY <3>1, <3>3, <3>4
  <2>4. CASE k # 0
    <3>1. k \in 1..N-1 /\ k \in 1..N /\ evs[k].at \in Nat
      BY <1>1, <2>4
    <3>2. /\ a.work + a.break = evs[k].at - evs[1].at
          /\ \/ /\ e.type \notin StartsWork
                /\ a.workStart = evs[k].at /\ a.breakStart = NoTime
             \/ /\ e.type # "BREAK_START"
                /\ a.workStart = NoTime /\ a.breakStart = evs[k].at
      <4>1. Full(k)
        BY <3>1
      <4>2. \/ evs[k].type \in StartsWork /\ e.type \notin StartsWork
            \/ evs[k].type = "BREAK_START" /\ e.type # "BREAK_START"
        BY <1>a, <3>1
      <4> QED BY <4>1, <4>2
    <3>3. PICK last \in Nat : last = evs[k].at
      BY <3>1
    <3>4. a.workStart = last => worked = e.at - last
      BY <2>1, <3>3 DEF Elapsed, NoTime
    <3>5. a.breakStart = last => rested = e.at - last
      BY <2>1, <3>3 DEF Elapsed, NoTime
    <3>6. After(evs)[k+1] = b /\ evs[k+1] = e /\ a.work \in Int /\ a.break \in Int
      BY <2>1 DEF Accumulator
    <3>7. last # NoTime
      BY DEF NoTime
    <3> HIDE DEF a, e, b, worked, rested
    <3>8. /\ b.work + b.break = a.work + a.break + (e.at - last)
          /\ e.type \in StartsWork => b.workStart = e.at /\ b.breakStart = NoTime
          /\ e.type = "BREAK_START" => b.workStart = NoTime /\ b.breakStart = e.at
      <4>1. CASE e.type \in StartsWork
        <5>1. a.breakStart = last /\ e.type # "BREAK_START"
          BY <3>2, <3>3, <4>1 DEF StartsWork
        <5>2. b = [work |-> a.work, break |-> a.break + (e.at - last),
                   workStart |-> e.at, breakStart |-> NoTime]
          BY <2>2, <3>5, <4>1, <5>1
        <5> QED BY <2>1, <3>6, <5>1, <5>2
      <4>2. CASE e.type = "BREAK_START"
        <5>1. a.workStart = last /\ e.type \notin StartsWork
          BY <3>2, <3>3, <4>2 DEF StartsWork
        <5>2. b = [work |-> a.work + (e.at - last), break |-> a.break,
                   workStart |-> NoTime, breakStart |-> e.at]
          BY <2>2, <3>4, <4>2, <5>1
        <5> QED BY <2>1, <3>6, <5>1, <5>2
      <4>3. CASE e.type \in EndsDay
        <5>1. e.type \notin StartsWork /\ e.type # "BREAK_START"
          BY <4>3 DEF StartsWork, EndsDay
        <5>2. \/ a.workStart = last /\ a.breakStart = NoTime
              \/ a.breakStart = last
          BY <3>2, <3>3
        <5>3. \/ b.work = a.work + (e.at - last) /\ b.break = a.break
              \/ b.work = a.work /\ b.break = a.break + (e.at - last)
          BY <2>2, <3>4, <3>5, <3>7, <4>3, <5>2
        <5> QED BY <2>1, <3>6, <5>1, <5>3
      <4> QED BY <2>1, <4>1, <4>2, <4>3 DEF EventType
    <3>9. b.work + b.break = e.at - evs[1].at
      BY <2>1, <3>2, <3>3, <3>6, <3>8
    <3> QED BY <3>6, <3>8, <3>9
  <2> QED BY <2>3, <2>4
<1>7. T = Nat
  <2> HIDE DEF T
  <2>1. T \in SUBSET Nat
    BY DEF T
  <2> QED BY <1>5, <1>6, <2>1, SetInduction
<1>8. Full(N)
  <2>1. N \in 1..N
    BY <1>1
  <2> QED BY <1>7, <2>1
<1> HIDE DEF T
<1>9. RecalcTotals(raw).work + RecalcTotals(raw).break = evs[N].at - evs[1].at
  <2>1. RecalcTotals(raw).work = After(evs)[N].work /\ RecalcTotals(raw).break = After(evs)[N].break
    BY <1>4
  <2> QED BY <1>8, <2>1
<1> QED BY <1>9
=============================================================================
