------------------------------- MODULE MCStaff -------------------------------
(* Small instances of Staff for TLC. *)
EXTENDS Staff, TLC

\* The bound: one member has working hours, or is being given them, and only while
\* there is one other at most.
MCHoursOf == hours \cup {p \in People : \E h \in Handlers :
                           /\ req[h].person = p
                           /\ At(h, "upsertHours") \/ <<"hours", p>> \in req[h].held}
MCHoursOfOne == \/ MCHoursOf = {}
                \/ Cardinality(MCHoursOf) = 1 /\ Cardinality(People \ Unused) <= 2

MCSymmetry == Permutations(Handlers) \cup Permutations(People)
=============================================================================
