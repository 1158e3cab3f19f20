--------------------------- MODULE MCPgReservation ---------------------------
(* Instances of PgReservation for TLC.  Tickets are numbers, ordered like   *)
(* the ids in the table; workers and attempts are interchangeable.          *)
EXTENDS PgReservation, TLC

ThreeTickets == 1 .. 3
TwoTickets == 1 .. 2
Symmetry == Permutations(Workers) \cup Permutations(Matches)
=============================================================================
