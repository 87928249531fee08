---------------------------- MODULE MCAttendance ----------------------------
(* Small instances of Attendance for TLC. *)
EXTENDS Attendance, TLC

MCSymmetry == Permutations(Handlers) \cup Permutations(SessionIds)
=============================================================================
