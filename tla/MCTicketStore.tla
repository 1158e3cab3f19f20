---------------------------- MODULE MCTicketStore ----------------------------
(* The in-memory ticket store on a small instance. *)
EXTENDS TicketStore, TLC

CONSTANTS t1, t2, t3

MCCreated == t1 :> 1 @@ t2 :> 2 @@ t3 :> 3

\* No action of the store asks for the order of the tickets, and ids are only
\* compared, so each set of ids is symmetric.  The properties are invariants
\* and action properties: symmetry is sound for them.
Symmetry ==
  Permutations(Tickets) \cup Permutations(Players) \cup Permutations(Keys) \cup Permutations(PoolKeys)
    \cup Permutations(Reservations) \cup Permutations(Matches)
=============================================================================
