------------------------------- MODULE MCUsers -------------------------------
(* Small instances of Users for TLC. *)
EXTENDS Users, TLC

\* The bound: one member of staff is added at most, and roots as the code lets them.
MCOneMember ==
  Cardinality({u \in UserIds : user[u].row # "unused" /\ ~user[u].root}) <= 1

MCSymmetry == Permutations(Handlers) \cup Permutations(UserIds)
              \cup Permutations(SessionIds) \cup Permutations(Words)
=============================================================================
