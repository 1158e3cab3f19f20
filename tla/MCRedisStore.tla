---------------------------- MODULE MCRedisStore -----------------------------
(* The hybrid ticket store on small instances. *)
EXTENDS RedisStore, TLC

Symmetry == Permutations(Tickets) \cup Permutations(Reservations)
              \cup Permutations(Workers)
=============================================================================
