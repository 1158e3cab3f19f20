------------------------------- MODULE Backends -------------------------------
(***************************************************************************)
(* The three in-memory back ends that the workers, the match service and   *)
(* the ticket requests share: the ticket store, the match store and the    *)
(* server allocator.  A method of any of them is atomic; what a caller     *)
(* does between two methods is not.                                        *)
(*                                                                         *)
(* The worker draws one id for the reservation and one for the match of an *)
(* attempt.  Both are fresh UUIDs and are never compared with each other,  *)
(* so the model uses one value for the two.                                *)
(***************************************************************************)
EXTENDS MatchStore, LocalAllocator

CONSTANTS Players, PoolKeys, Keys, Created, SnapshotLimit

\* The empty id is not a UUID.
ASSUME NoneAssumption == None \notin Matches

\* As the ticket store has it.
ASSUME OrderAssumption ==
  /\ Created \in [Tickets -> Nat]
  /\ \A t, u \in Tickets : Created[t] = Created[u] => t = u

ASSUME LimitAssumption == SnapshotLimit \in Nat \ {0}

VARIABLES tickets, activeByPlayer, createIdempotency, cancelIdempotency,
          pools, reservations, lapsed

Store == INSTANCE TicketStore WITH Reservations <- Matches

storeVars == <<tickets, activeByPlayer, createIdempotency, cancelIdempotency,
               pools, reservations, lapsed>>

BackendsInit ==
  /\ Store!Init
  /\ matches = << >>
  /\ allocations = << >>
=============================================================================
