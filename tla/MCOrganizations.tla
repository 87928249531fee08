--------------------------- MODULE MCOrganizations ---------------------------
(* Small instances of Organizations for TLC. *)
EXTENDS Organizations, TLC

MCSymmetry == Permutations(Handlers) \cup Permutations(Orgs) \cup Permutations(Plans)
              \cup Permutations(Features)
=============================================================================
