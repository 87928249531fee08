------------------------------ MODULE MCVisits ------------------------------
(* Small instances of Visits for TLC. *)
EXTENDS Visits, TLC

CONSTANTS host, admin, other,   \* members of staff: other works elsewhere
          org, branch

MCOrgOf    == [s \in Staff |-> IF s = other THEN branch ELSE org]
MCSymmetry == Permutations(Handlers) \cup Permutations(VisitIds)
              \cup Permutations(NotifIds)
=============================================================================
