------------------------------ MODULE Timesheet ------------------------------
(***************************************************************************)
(* What attendance promises a member of staff whose requests come one at a  *)
(* time, without handlers, events or breaks: stints follow one another, a   *)
(* finished one never changes, and what is counted of it is the time until  *)
(* he left, or at most the time until he said, later, when he had left.     *)
(* Attendance.tla implements this specification.                            *)
(***************************************************************************)
EXTENDS WorkTime

CONSTANT Stints

VARIABLES
  stint,   \* [Stints -> phase, begin, end and seconds counted]
  clock    \* the latest time heard of

sheetVars == <<stint, clock>>

Stint(phase, began, ended, counted) ==
  [phase |-> phase, began |-> began, ended |-> ended, counted |-> counted]

None      == Stint("none", NoTime, NoTime, 0)
Forgotten == Stint("forgotten", NoTime, NoTime, 0)
Working   == Stint("working", clock, NoTime, 0)

Over(s, t, seconds) == Stint("over", stint[s].began, t, seconds)

IsWorking(s)    == stint[s].phase = "working"
Earlier(s)      == stint[s].phase = "over" => stint[s].ended < clock
SecondsSince(t) == FloorToSecond(clock) - FloorToSecond(t)

Init == stint = [s \in Stints |-> None] /\ clock = 0

Tick == clock' > clock /\ UNCHANGED stint

\* Nobody begins while another stint lasts, or at a time that is counted in one.
Begin(s) ==
  /\ stint[s].phase = "none"
  /\ \A r \in Stints : ~IsWorking(r) /\ Earlier(r)
  /\ stint' = [stint EXCEPT ![s] = Working]
  /\ UNCHANGED clock

\* Who leaves in time is counted every second since the beginning.
Leave(s) ==
  /\ IsWorking(s)
  /\ stint[s].began < clock
  /\ stint' = [stint EXCEPT ![s] = Over(s, clock, SecondsSince(stint[s].began))]
  /\ UNCHANGED clock

\* Who had left before he says so begins again; what he did in between may count.
LeaveLate(s, r) ==
  /\ IsWorking(s)
  /\ stint[r].phase = "none"
  /\ \A q \in Stints \ {s} : ~IsWorking(q) /\ Earlier(q)
  /\ \E t \in stint[s].began + 1 .. clock - 1, seconds \in 0..SecondsSince(stint[s].began) :
       stint' = [stint EXCEPT ![s] = Over(s, t, seconds), ![r] = Working]
  /\ UNCHANGED clock

Forget ==
  /\ stint' = [s \in Stints |-> IF stint[s].phase \in {"working", "over"} THEN Forgotten
                                                                        ELSE stint[s]]
  /\ UNCHANGED clock

Next == \/ Tick \/ Forget
        \/ \E s \in Stints : Begin(s) \/ Leave(s)
        \/ \E s, r \in Stints : LeaveLate(s, r)

Spec == Init /\ [][Next]_sheetVars
=============================================================================
