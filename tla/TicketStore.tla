----------------------------- MODULE TicketStore -----------------------------
(***************************************************************************)
(* The in-memory ticket repository of the matchmaking service              *)
(* (internal/matchmaking/repository/memory/ticket_store.go) together with  *)
(* the ticket life cycle it drives (internal/matchmaking/domain/ticket.go).*)
(*                                                                         *)
(* Every method of the store runs under one mutex, so each is one action.  *)
(* The callers (client requests and matching workers) are unconstrained    *)
(* here: any of them may call any method at any time.  A call that fails   *)
(* or that replays a recorded result changes nothing and is a stutter.     *)
(*                                                                         *)
(* Go maps are partial functions.  Time is abstracted to one fact per      *)
(* reservation: whether its TTL has passed (lapsed).  A pool is the set of *)
(* the tickets listed in it; the list is kept sorted by (createdAt, id),   *)
(* which never change, so the set determines it.  The service draws both   *)
(* before it calls the store, and any time may pass in between: the place  *)
(* of a ticket in that order belongs to its id.                            *)
(***************************************************************************)
EXTENDS FiniteSets, GoMaps, Naturals

CONSTANTS
  Tickets,        \* ticket ids (UUIDs drawn by TicketService.CreateTicket)
  Created,        \* ticket id -> its place in the order by (createdAt, id)
  SnapshotLimit,  \* tickets a snapshot returns at most (CandidateLimit)
  Players,        \* player ids
  PoolKeys,       \* mode, client version and region
  Keys,           \* idempotency keys chosen by clients
  Reservations,   \* reservation ids (UUIDs drawn by the worker)
  Matches,        \* match ids (UUIDs drawn by the worker)
  None            \* the empty id

ASSUME NoneAssumption == None \notin Reservations \cup Matches

ASSUME OrderAssumption ==
  /\ Created \in [Tickets -> Nat]
  /\ \A t, u \in Tickets : Created[t] = Created[u] => t = u

ASSUME LimitAssumption == SnapshotLimit \in Nat \ {0}

VARIABLES
  tickets,            \* ticket id -> ticket
  activeByPlayer,     \* player -> id of the ticket that blocks a second one
  createIdempotency,  \* <<player, key>> -> ticket created under that key
  cancelIdempotency,  \* <<player, key>> -> ticket cancelled under that key
  pools,              \* pool key -> ids listed in the pool
  reservations,       \* reservation id -> ids of the tickets it holds
  lapsed              \* outstanding reservations whose TTL has passed

storeVars == <<tickets, activeByPlayer, createIdempotency, cancelIdempotency,
               pools, reservations, lapsed>>
ledgers == <<createIdempotency, cancelIdempotency>>

-----------------------------------------------------------------------------
(* Values *)

TicketState == {"CREATED", "QUEUED", "RESERVED", "ASSIGNED", "CANCELLED",
                "EXPIRED", "FAILED"}

Ticket == [state : TicketState, player : Players, pool : PoolKeys,
           reservationID : Reservations \cup {None},
           matchID : Matches \cup {None}]

\* The idempotency key under which the worker cancels ticket t
\* ("system-ineligible-" + id) is distinct for every ticket.
SystemKey(t) == t
CancelKeys == Keys \cup {SystemKey(t) : t \in Tickets}

-----------------------------------------------------------------------------
(* The ticket life cycle: guards and effects of domain.MatchTicket *)

IsQueueCandidate(x) == x.state = "QUEUED"
IsActive(x) == x.state \in {"CREATED", "QUEUED", "RESERVED", "ASSIGNED"}

\* What NewTicket followed by Queue builds.
QueuedTicket(p, k) ==
  [state |-> "QUEUED", player |-> p, pool |-> k,
   reservationID |-> None, matchID |-> None]

\* Fault: any active ticket may be cancelled.
Fault_CanCancel(x) == IsActive(x) \/ x.state = "CANCELLED"

CanCancel(x) == x.state \in {"CREATED", "QUEUED", "CANCELLED"}
Cancelled(x) == [x EXCEPT !.state = "CANCELLED", !.reservationID = None]

Reserved(x, r) == [x EXCEPT !.state = "RESERVED", !.reservationID = r]

\* The guard Assign and ReleaseReservation share.
HeldBy(x, r) == x.state = "RESERVED" /\ x.reservationID = r
Assigned(x, m) == [x EXCEPT !.state = "ASSIGNED", !.matchID = m]

Released(x) == [x EXCEPT !.state = "QUEUED", !.reservationID = None]

-----------------------------------------------------------------------------
(* The store *)

Init ==
  /\ tickets = << >>
  /\ activeByPlayer = << >>
  /\ createIdempotency = << >>
  /\ cancelIdempotency = << >>
  /\ pools = [k \in PoolKeys |-> {}]
  /\ reservations = << >>
  /\ lapsed = {}

\* The tickets of S take the value After(ticket); the others keep theirs.
Rewrite(S, After(_)) ==
  [t \in DOMAIN tickets |-> IF t \in S THEN After(tickets[t]) ELSE tickets[t]]

\* Fault: a reserved ticket does not count as active.
Fault_MayQueue(p) ==
  p \in DOMAIN activeByPlayer => ~IsQueueCandidate(tickets[activeByPlayer[p]])

\* No active ticket blocks player p: the index has no entry for p, or it
\* names a ticket that is no longer active.
MayQueue(p) ==
  p \in DOMAIN activeByPlayer => ~IsActive(tickets[activeByPlayer[p]])

\* Fault: the pool keeps the ticket.
Fault_WithoutTickets(S) == pools

\* removeFromPool for every ticket of S.
WithoutTickets(S) == [k \in PoolKeys |-> pools[k] \ S]

\* activeByPlayer after the entries that name a ticket of S are deleted.
ForgetActive(S) ==
  Restrict(activeByPlayer,
           {p \in DOMAIN activeByPlayer : activeByPlayer[p] \notin S})

\* No ticket was created under this key (scopedKey) yet.
IsNewRequest(p, key) == <<p, key>> \notin DOMAIN createIdempotency

\* CreateQueued: t is a fresh id, so the "ticket id exists" error cannot
\* occur; a key already used replays the recorded ticket.
CreateQueued(t, p, k, key) ==
  /\ t \notin DOMAIN tickets
  /\ IsNewRequest(p, key)
  /\ MayQueue(p)
  /\ tickets' = Put(tickets, t, QueuedTicket(p, k))
  /\ activeByPlayer' = Put(activeByPlayer, p, t)
  /\ createIdempotency' = Put(createIdempotency, <<p, key>>, t)
  /\ pools' = [pools EXCEPT ![k] = @ \cup {t}]
  /\ UNCHANGED <<cancelIdempotency, reservations, lapsed>>

\* A ticket someone else owns, a ticket that is RESERVED or ASSIGNED and a
\* key already used are refused (the key's own ticket is replayed).
CancelAllowed(t, p, key) ==
  /\ <<p, key>> \notin DOMAIN cancelIdempotency
  /\ t \in DOMAIN tickets
  /\ tickets[t].player = p
  /\ CanCancel(tickets[t])

Cancel(t, p, key) ==
  /\ CancelAllowed(t, p, key)
  /\ tickets' = Rewrite({t}, Cancelled)
  /\ cancelIdempotency' = Put(cancelIdempotency, <<p, key>>, t)
  /\ activeByPlayer' = ForgetActive({t})
  /\ pools' = WithoutTickets({t})
  /\ UNCHANGED <<createIdempotency, reservations, lapsed>>

\* The tickets of pool k that may be matched; PoolKeys lists the pools that
\* have one.
Candidates(k) ==
  {t \in pools[k] : t \in DOMAIN tickets /\ IsQueueCandidate(tickets[t])}

\* The SnapshotLimit oldest tickets of S.
Oldest(S) ==
  {t \in S : Cardinality({u \in S : Created[u] < Created[t]}) < SnapshotLimit}

QueueSnapshot(k) == Oldest(Candidates(k))

\* Fault: any active ticket may be reserved.
Fault_Reservable(S) ==
  /\ S # {}
  /\ \A t \in S : t \in DOMAIN tickets /\ IsActive(tickets[t])
  /\ \A t, u \in S : tickets[t].player = tickets[u].player => t = u

\* The checks of the loop in ReserveAll: every ticket exists and is queued
\* and no player occurs twice.
Reservable(S) ==
  /\ S # {}
  /\ \A t \in S : t \in DOMAIN tickets /\ IsQueueCandidate(tickets[t])
  /\ \A t, u \in S : tickets[t].player = tickets[u].player => t = u

\* ReserveAll: all of S or nothing.  The tickets stay listed in their pools.
ReserveAll(S, r) ==
  /\ r \notin DOMAIN reservations
  /\ Reservable(S)
  /\ tickets' = Rewrite(S, LAMBDA x : Reserved(x, r))
  /\ reservations' = Put(reservations, r, S)
  /\ UNCHANGED <<activeByPlayer, ledgers, pools, lapsed>>

\* r is outstanding and the store's tickets still carry it.
Outstanding(r) ==
  /\ r \in DOMAIN reservations
  /\ \A t \in reservations[r] : HeldBy(tickets[t], r)

\* The deletion of reservation record r, with the deadline it carried.
DropReservation(r) ==
  /\ reservations' = Delete(reservations, r)
  /\ lapsed' = lapsed \ {r}

ReleaseAll(r) ==
  /\ Outstanding(r)
  /\ tickets' = Rewrite(reservations[r], Released)
  /\ DropReservation(r)
  /\ UNCHANGED <<activeByPlayer, ledgers, pools>>

\* AssignAll does not look at the TTL: a lapsed reservation that nobody has
\* recovered yet can still be assigned.
AssignAll(r, m) ==
  /\ Outstanding(r)
  /\ tickets' = Rewrite(reservations[r], LAMBDA x : Assigned(x, m))
  /\ pools' = WithoutTickets(reservations[r])
  /\ DropReservation(r)
  /\ UNCHANGED <<activeByPlayer, ledgers>>

AssignedTo(m) ==
  {t \in DOMAIN tickets : tickets[t].state = "ASSIGNED" /\ tickets[t].matchID = m}

\* CompleteAssignedTickets: the tickets stay ASSIGNED; only their players'
\* active-ticket entries go.
CompleteAssignedTickets(m) ==
  /\ activeByPlayer' = ForgetActive(AssignedTo(m))
  /\ UNCHANGED <<tickets, ledgers, pools, reservations, lapsed>>

\* Fault: only the ticket whose deadline was tested is released.
Fault_LapsedTickets == {CHOOSE t \in reservations[r] : TRUE : r \in lapsed}

\* Tickets of the lapsed reservations.  The code tests the deadline of the
\* first ticket of each reservation: ReserveAll gives all of them the same.
LapsedTickets == UNION {reservations[r] : r \in lapsed}

\* RecoverExpiredReservations: every lapsed reservation in one call.
RecoverExpiredReservations ==
  /\ tickets' = Rewrite(LapsedTickets, Released)
  /\ reservations' = Restrict(reservations, DOMAIN reservations \ lapsed)
  /\ lapsed' = {}
  /\ UNCHANGED <<activeByPlayer, ledgers, pools>>

\* Time: the TTL of an outstanding reservation passes.
Lapse(r) ==
  /\ r \in DOMAIN reservations \ lapsed
  /\ lapsed' = lapsed \cup {r}
  /\ UNCHANGED <<tickets, activeByPlayer, ledgers, pools, reservations>>

Next ==
  \/ \E t \in Tickets, p \in Players, k \in PoolKeys, key \in Keys :
        CreateQueued(t, p, k, key)
  \/ \E t \in Tickets, p \in Players, key \in CancelKeys : Cancel(t, p, key)
  \/ \E S \in SUBSET Tickets, r \in Reservations : ReserveAll(S, r)
  \/ \E r \in Reservations : ReleaseAll(r) \/ Lapse(r)
  \/ \E r \in Reservations, m \in Matches : AssignAll(r, m)
  \/ \E m \in Matches : CompleteAssignedTickets(m)
  \/ RecoverExpiredReservations

Spec == Init /\ [][Next]_storeVars

-----------------------------------------------------------------------------
(* Properties *)

\* The id fields agree with the state as RestoreTicket demands of a stored
\* ticket, and CREATED, EXPIRED and FAILED tickets are never stored.
WellFormed(x) ==
  /\ x.state \in {"QUEUED", "RESERVED", "ASSIGNED", "CANCELLED"}
  /\ x.reservationID # None <=> x.state \in {"RESERVED", "ASSIGNED"}
  /\ x.matchID # None <=> x.state = "ASSIGNED"

\* Every variable has the shape of the Go field it stands for, and the ids a
\* stored ticket carries are those its state allows.
TypeOK ==
  /\ IsMap(tickets, Tickets, Ticket)
  /\ \A t \in DOMAIN tickets : WellFormed(tickets[t])
  /\ IsMap(activeByPlayer, Players, Tickets)
  /\ IsMap(createIdempotency, Players \X Keys, Tickets)
  /\ IsMap(cancelIdempotency, Players \X CancelKeys, Tickets)
  /\ pools \in [PoolKeys -> SUBSET Tickets]
  /\ IsMap(reservations, Reservations, SUBSET Tickets)
  /\ lapsed \in SUBSET Reservations

\* The reservation table and the tickets tell the same story: a ticket is
\* RESERVED under r exactly when the record of r lists it, so no ticket is
\* in two reservations and none is reserved with nobody left to release it
\* (ticket_store.go ReserveAll, ReleaseAll, AssignAll and recovery).
ReservationAgreement ==
  /\ \A r \in DOMAIN reservations : \A t \in reservations[r] :
        t \in DOMAIN tickets /\ HeldBy(tickets[t], r)
  /\ \A t \in DOMAIN tickets : tickets[t].state = "RESERVED" =>
        /\ tickets[t].reservationID \in DOMAIN reservations
        /\ t \in reservations[tickets[t].reservationID]
  /\ lapsed \subseteq DOMAIN reservations

\* The active index names the ticket of every player who waits for a match,
\* and never a ticket that has ended (activeByPlayer in every method).
ActiveIndexAgreement ==
  /\ \A t \in DOMAIN tickets : tickets[t].state \in {"QUEUED", "RESERVED"} =>
        /\ tickets[t].player \in DOMAIN activeByPlayer
        /\ activeByPlayer[tickets[t].player] = t
  /\ \A p \in DOMAIN activeByPlayer :
        /\ activeByPlayer[p] \in DOMAIN tickets
        /\ tickets[activeByPlayer[p]].player = p
        /\ IsActive(tickets[activeByPlayer[p]])

\* One player has at most one ticket waiting for a match, whatever ids, keys
\* and pools the requests use (FR-TICKET-001, CreateQueued's guard).
OneWaitingTicketPerPlayer ==
  \A t, u \in DOMAIN tickets :
     /\ tickets[t].state \in {"QUEUED", "RESERVED"}
     /\ tickets[u].state \in {"QUEUED", "RESERVED"}
     /\ tickets[t].player = tickets[u].player
     => t = u

\* A ticket is listed in its own pool, and in no other, exactly while it may
\* still be matched: a released or recovered ticket is found again without a
\* re-insertion, a cancelled or assigned one is never offered.
PoolAgreement ==
  \A k \in PoolKeys, t \in Tickets :
     t \in pools[k] <=> /\ t \in DOMAIN tickets
                        /\ tickets[t].pool = k
                        /\ tickets[t].state \in {"QUEUED", "RESERVED"}

\* Each ticket was created under exactly one key of its own player, and a
\* cancel key only ever names a cancelled ticket of the player who used it.
LedgerAgreement ==
  /\ \A e \in DOMAIN createIdempotency :
        /\ createIdempotency[e] \in DOMAIN tickets
        /\ tickets[createIdempotency[e]].player = e[1]
  /\ \A e, f \in DOMAIN createIdempotency :
        createIdempotency[e] = createIdempotency[f] => e = f
  /\ \A t \in DOMAIN tickets : \E e \in DOMAIN createIdempotency :
        createIdempotency[e] = t
  /\ \A e \in DOMAIN cancelIdempotency :
        /\ cancelIdempotency[e] \in DOMAIN tickets
        /\ tickets[cancelIdempotency[e]].player = e[1]
        /\ tickets[cancelIdempotency[e]].state = "CANCELLED"

\* All that the store keeps beside its tickets says of them what they are:
\* whatever is looked up in a reservation, in the index of the players, in a
\* pool or by a key is there, and nothing else is (ticket_store.go, where each
\* method changes several of the tables).
TablesAgree ==
  /\ ReservationAgreement
  /\ ActiveIndexAgreement
  /\ PoolAgreement
  /\ LedgerAgreement

\* The step that ends reservation r treats all its tickets alike.
MovesTogether(r) ==
  \A t, u \in reservations[r] :
     /\ tickets'[t].state = tickets'[u].state
     /\ tickets'[t].reservationID = tickets'[u].reservationID
     /\ tickets'[t].matchID = tickets'[u].matchID

\* The tickets of one reservation leave it together and the same way: all
\* back to the queue or all into one match (ARCHITECTURE.md, "all succeed or
\* all fail").
ReservationMovesTogether ==
  [][\A r \in DOMAIN reservations : MovesTogether(r)]_storeVars

\* What a step may do to ticket t: nobody else's reservation is overwritten,
\* and nothing that has ended, or is in a match, changes.
KeepsItsHolder(t) ==
  /\ t \in DOMAIN tickets'
  /\ tickets'[t].player = tickets[t].player
  /\ tickets[t].state = "RESERVED" /\ tickets'[t] # tickets[t] =>
        \/ tickets'[t].state = "QUEUED"
        \/ /\ tickets'[t].state = "ASSIGNED"
           /\ tickets'[t].reservationID = tickets[t].reservationID
  /\ tickets[t].state \in {"ASSIGNED", "CANCELLED"} => tickets'[t] = tickets[t]

\* A reservation is never taken over: a RESERVED ticket that changes goes
\* back to QUEUED or into a match, and a ticket that is ASSIGNED or CANCELLED
\* stays so for ever, in the same match.
NoTakeover == [][\A t \in DOMAIN tickets : KeepsItsHolder(t)]_storeVars

\* The tickets of match m that keep their players from queueing again.
Blocking(m) ==
  {t \in DOMAIN tickets :
     /\ tickets[t].state = "ASSIGNED" /\ tickets[t].matchID = m
     /\ tickets[t].player \in DOMAIN activeByPlayer
     /\ activeByPlayer[tickets[t].player] = t}

\* The players of a match are freed all at once and only those: a step that
\* removes the active entry of an assigned ticket removes the entries of all
\* the tickets of one match and of no other (CompleteAssignedTickets; no
\* cancellation or later ticket may free a player who is in a match).
FreedTogether ==
  [][\A m \in Matches : ~(Blocking(m) \subseteq Blocking(m)') =>
        /\ Blocking(m)' = {}
        /\ \A n \in Matches \ {m} : Blocking(n)' = Blocking(n)]_storeVars
=============================================================================
