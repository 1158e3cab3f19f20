---------------------------- MODULE MCMatchmaking -----------------------------
(* The matchmaking service on small instances. *)
EXTENDS Matchmaking, TLC

CONSTANTS t1, t2, t3, p1, p2, p3

\* The ticket that p1 gets is the youngest.
MCCreated == t1 :> 1 @@ t2 :> 2 @@ t3 :> 3
MCYoungest == p1 :> {t3} @@ p2 :> {t1} @@ p3 :> {t2}

MCAnyId == [p \in Players |-> Tickets]

MCServerCount == [g \in Regions |-> 1]

\* For runs without liveness whose snapshots hold all the tickets: the order of
\* the tickets then says nothing, and ids are only compared.
Symmetry ==
  Permutations(Tickets) \cup Permutations(Players) \cup Permutations(PoolKeys)
    \cup Permutations(Matches) \cup Permutations(Regions)
    \cup Permutations(Results) \cup Permutations(Workers) \cup Permutations(Callers)
=============================================================================
