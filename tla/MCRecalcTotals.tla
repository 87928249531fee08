--------------------------- MODULE MCRecalcTotals ---------------------------
(* Every sorted log of at most MaxEvents events, whatever their types. *)
EXTENDS RecalcTotals

CONSTANT MaxEvents

MCLogs == {evs \in UNION {[1..n -> Event] : n \in 0..MaxEvents} : Ordered(evs)}
=============================================================================
