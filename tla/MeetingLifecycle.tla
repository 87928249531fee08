-------------------------- MODULE MeetingLifecycle --------------------------
(***************************************************************************)
(* What the visit service promises a visitor, without handlers, rows or    *)
(* clocks: a meeting waits for its host, is started or declined at most     *)
(* once, is over for good once it is over, and the visitor is only told of *)
(* a decision that was taken.  Visits.tla implements this specification.   *)
(***************************************************************************)
CONSTANT Meetings

Phases == {"none", "waiting", "meeting", "declined", "over", "deleted"}

VARIABLES
  phase,   \* [Meetings -> Phases]
  began,   \* [Meetings -> BOOLEAN], the host has let the visitor in
  told     \* [Meetings -> SUBSET {"start", "reject"}], decisions mailed

lifecycleVars == <<phase, began, told>>

Init ==
  /\ phase = [m \in Meetings |-> "none"]
  /\ began = [m \in Meetings |-> FALSE]
  /\ told  = [m \in Meetings |-> {}]

Move(m, from, to) ==
  /\ phase[m] \in from
  /\ phase' = [phase EXCEPT ![m] = to]

Request(m) == Move(m, {"none"}, "waiting") /\ UNCHANGED <<began, told>>

Start(m) ==
  /\ Move(m, {"waiting"}, "meeting")
  /\ began' = [began EXCEPT ![m] = TRUE]
  /\ UNCHANGED told

Decline(m) == Move(m, {"waiting"}, "declined") /\ UNCHANGED <<began, told>>

\* A visitor may be checked out before the host has answered.
Leave(m) ==
  Move(m, {"waiting", "meeting", "declined"}, "over") /\ UNCHANGED <<began, told>>

Delete(ms) ==
  /\ \A m \in ms : phase[m] # "none"
  /\ phase' = [m \in Meetings |-> IF m \in ms THEN "deleted" ELSE phase[m]]
  /\ UNCHANGED <<began, told>>

TellStart(m) ==
  /\ began[m]
  /\ told' = [told EXCEPT ![m] = @ \cup {"start"}]
  /\ UNCHANGED <<phase, began>>

TellReject(m) ==
  /\ ~began[m]
  /\ phase[m] \in {"declined", "over", "deleted"}
  /\ told' = [told EXCEPT ![m] = @ \cup {"reject"}]
  /\ UNCHANGED <<phase, began>>

Next ==
  \/ \E m \in Meetings : \/ Request(m) \/ Start(m) \/ Decline(m) \/ Leave(m)
                         \/ TellStart(m) \/ TellReject(m)
  \/ \E ms \in SUBSET Meetings : Delete(ms)

Spec == Init /\ [][Next]_lifecycleVars
=============================================================================
