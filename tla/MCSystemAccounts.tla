--------------------------- MODULE MCSystemAccounts ---------------------------
(* Small instances of SystemAccounts for TLC. *)
EXTENDS SystemAccounts, TLC

MCSymmetry == Permutations(Handlers) \cup Permutations(AccountIds)
              \cup Permutations(SessionIds)
=============================================================================
