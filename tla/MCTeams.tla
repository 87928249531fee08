------------------------------- MODULE MCTeams -------------------------------
(* Small instances of Teams for TLC. *)
EXTENDS Teams, TLC

MCSymmetry == Permutations(Handlers) \cup Permutations(StaffIds)
              \cup Permutations(MemberIds)
=============================================================================
