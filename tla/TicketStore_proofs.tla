-------------------------- MODULE TicketStore_proofs --------------------------
(***************************************************************************)
(* Proofs about the in-memory ticket store, for any sets of tickets,       *)
(* players, pools, keys, reservations and matches.                         *)
(***************************************************************************)
EXTENDS TicketStore, TLAPS

\* The five agreements are inductive only together: what one method relies
\* on (a reservation record whose tickets all carry it) is what another
\* method keeps for it.
IInv ==
  /\ TypeOK
  /\ ReservationAgreement
  /\ ActiveIndexAgreement
  /\ PoolAgreement
  /\ LedgerAgreement

\* The empty store satisfies the agreements.
LEMMA InitIInv == Init => IInv
  BY DEF Init, IInv, TypeOK, IsMap, ReservationAgreement, ActiveIndexAgreement,
         PoolAgreement, LedgerAgreement

-----------------------------------------------------------------------------
(* The ticket life cycle *)

\* A new ticket is QUEUED and carries no reservation and no match.
LEMMA QueuedTicketShape ==
  ASSUME NEW p \in Players, NEW k \in PoolKeys
  PROVE  /\ QueuedTicket(p, k) \in Ticket
         /\ WellFormed(QueuedTicket(p, k))
  BY DEF QueuedTicket, Ticket, WellFormed, TicketState

\* Cancelling keeps the owner and the pool and leaves a ticket RestoreTicket accepts.
LEMMA CancelledShape ==
  ASSUME NEW x \in Ticket, WellFormed(x), CanCancel(x)
  PROVE  /\ Cancelled(x) \in Ticket
         /\ WellFormed(Cancelled(x))
         /\ Cancelled(x).state = "CANCELLED"
         /\ Cancelled(x).player = x.player
         /\ Cancelled(x).pool = x.pool
  BY DEF Cancelled, CanCancel, Ticket, WellFormed, TicketState

\* A reserved ticket carries exactly the id it was reserved under.
LEMMA ReservedShape ==
  ASSUME NEW x \in Ticket, WellFormed(x), IsQueueCandidate(x),
         NEW r \in Reservations
  PROVE  /\ Reserved(x, r) \in Ticket
         /\ WellFormed(Reserved(x, r))
         /\ Reserved(x, r).state = "RESERVED"
         /\ Reserved(x, r).reservationID = r
         /\ Reserved(x, r).player = x.player
         /\ Reserved(x, r).pool = x.pool
  BY NoneAssumption DEF Reserved, IsQueueCandidate, Ticket, WellFormed, TicketState

\* An assigned ticket keeps its reservation id and carries its match.
LEMMA AssignedShape ==
  ASSUME NEW x \in Ticket, WellFormed(x), x.state = "RESERVED",
         NEW m \in Matches
  PROVE  /\ Assigned(x, m) \in Ticket
         /\ WellFormed(Assigned(x, m))
         /\ Assigned(x, m).state = "ASSIGNED"
         /\ Assigned(x, m).matchID = m
         /\ Assigned(x, m).reservationID = x.reservationID
         /\ Assigned(x, m).player = x.player
         /\ Assigned(x, m).pool = x.pool
  BY NoneAssumption DEF Assigned, Ticket, WellFormed, TicketState

\* A released ticket is QUEUED again and carries neither id.
LEMMA ReleasedShape ==
  ASSUME NEW x \in Ticket, WellFormed(x), x.state = "RESERVED"
  PROVE  /\ Released(x) \in Ticket
         /\ WellFormed(Released(x))
         /\ Released(x).state = "QUEUED"
         /\ Released(x).reservationID = None
         /\ Released(x).matchID = None
         /\ Released(x).player = x.player
         /\ Released(x).pool = x.pool
  BY DEF Released, Ticket, WellFormed, TicketState

-----------------------------------------------------------------------------
(* Every method preserves the agreements *)

\* CreateQueued keeps IInv: the player it queues had no entry in the index.
LEMMA CreateQueuedIInv ==
  ASSUME IInv, NEW t \in Tickets, NEW p \in Players, NEW k \in PoolKeys,
         NEW key \in Keys, CreateQueued(t, p, k, key)
  PROVE  IInv'
<1> DEFINE x == QueuedTicket(p, k)
<1>0. x \in Ticket /\ WellFormed(x)
  BY QueuedTicketShape
<1>1. /\ x.state = "QUEUED" /\ x.player = p /\ x.pool = k
      /\ x.reservationID = None
  BY DEF QueuedTicket
<1> HIDE DEF x
<1>2. p \notin DOMAIN activeByPlayer
  BY DEF CreateQueued, MayQueue, IInv, ActiveIndexAgreement
<1>3. /\ DOMAIN tickets' = DOMAIN tickets \cup {t}
      /\ t \notin DOMAIN tickets
      /\ tickets'[t] = x
      /\ \A u \in DOMAIN tickets : tickets'[u] = tickets[u]
      /\ tickets' = [u \in DOMAIN tickets \cup {t} |-> tickets'[u]]
  BY DEF CreateQueued, Put, x
<1>4. /\ DOMAIN activeByPlayer' = DOMAIN activeByPlayer \cup {p}
      /\ activeByPlayer'[p] = t
      /\ \A q \in DOMAIN activeByPlayer : activeByPlayer'[q] = activeByPlayer[q]
      /\ activeByPlayer' = [q \in DOMAIN activeByPlayer \cup {p} |-> activeByPlayer'[q]]
  BY <1>2 DEF CreateQueued, Put
<1>5. /\ DOMAIN createIdempotency' = DOMAIN createIdempotency \cup {<<p, key>>}
      /\ <<p, key>> \notin DOMAIN createIdempotency
      /\ createIdempotency'[<<p, key>>] = t
      /\ \A e \in DOMAIN createIdempotency :
            createIdempotency'[e] = createIdempotency[e]
      /\ createIdempotency' = [e \in DOMAIN createIdempotency \cup {<<p, key>>} |->
                                 createIdempotency'[e]]
  BY DEF CreateQueued, IsNewRequest, Put
<1>6. UNCHANGED <<cancelIdempotency, reservations, lapsed>>
  BY DEF CreateQueued
<1>7. TypeOK'
  <2>1. pools' \in [PoolKeys -> SUBSET Tickets]
    BY DEF CreateQueued, IInv, TypeOK
  <2>2. IsMap(tickets, Tickets, Ticket)'
    BY <1>0, <1>3 DEF IInv, TypeOK, IsMap
  <2>3. IsMap(activeByPlayer, Players, Tickets)'
    BY <1>4 DEF IInv, TypeOK, IsMap
  <2>4. IsMap(createIdempotency, Players \X Keys, Tickets)'
    BY <1>5 DEF IInv, TypeOK, IsMap
  <2>5. \A u \in DOMAIN tickets' : WellFormed(tickets'[u])
    BY <1>0, <1>3 DEF IInv, TypeOK
  <2>6. /\ IsMap(cancelIdempotency, Players \X CancelKeys, Tickets)'
        /\ IsMap(reservations, Reservations, SUBSET Tickets)'
        /\ (lapsed \in SUBSET Reservations)'
    BY <1>6 DEF IInv, TypeOK, IsMap
  <2>7. QED
    BY <2>1, <2>2, <2>3, <2>4, <2>5, <2>6 DEF TypeOK
<1>8. ReservationAgreement'
  BY <1>1, <1>3, <1>6 DEF IInv, ReservationAgreement, HeldBy
<1>9. ActiveIndexAgreement'
  BY <1>1, <1>2, <1>3, <1>4 DEF IInv, ActiveIndexAgreement, IsActive
<1>10. PoolAgreement'
  <2>1. pools' = [pools EXCEPT ![k] = @ \cup {t}]
    BY DEF CreateQueued
  <2>2. pools \in [PoolKeys -> SUBSET Tickets]
    BY DEF IInv, TypeOK
  <2> SUFFICES ASSUME NEW l \in PoolKeys, NEW u \in Tickets
               PROVE  u \in pools'[l] <=> /\ u \in DOMAIN tickets'
                                          /\ tickets'[u].pool = l
                                          /\ tickets'[u].state \in {"QUEUED", "RESERVED"}
    BY DEF PoolAgreement
  <2>3. u \in pools[l] <=> /\ u \in DOMAIN tickets
                           /\ tickets[u].pool = l
                           /\ tickets[u].state \in {"QUEUED", "RESERVED"}
    BY DEF IInv, PoolAgreement
  <2>4. pools'[l] = IF l = k THEN pools[l] \cup {t} ELSE pools[l]
    BY <2>1, <2>2
  <2>5. QED
    BY <1>1, <1>3, <2>3, <2>4
<1>11. LedgerAgreement'
  <2>1. \A e \in DOMAIN createIdempotency : createIdempotency[e] # t
    BY <1>3 DEF IInv, LedgerAgreement
  <2>2. \A e \in DOMAIN cancelIdempotency : cancelIdempotency[e] # t
    BY <1>3 DEF IInv, LedgerAgreement
  <2>3. <<p, key>>[1] = p
    OBVIOUS
  <2>4. QED
    BY <1>1, <1>3, <1>5, <1>6, <2>1, <2>2, <2>3 DEF IInv, LedgerAgreement
<1>12. QED
  BY <1>7, <1>8, <1>9, <1>10, <1>11 DEF IInv

\* Cancel keeps IInv: it ends a waiting ticket and removes every trace of it.
LEMMA CancelIInv ==
  ASSUME IInv, NEW t \in Tickets, NEW p \in Players, NEW key \in CancelKeys,
         Cancel(t, p, key)
  PROVE  IInv'
<1> DEFINE x == Cancelled(tickets[t])
<1>1. /\ t \in DOMAIN tickets /\ tickets[t].player = p /\ CanCancel(tickets[t])
      /\ <<p, key>> \notin DOMAIN cancelIdempotency
  BY DEF Cancel, CancelAllowed
<1>2. tickets[t] \in Ticket /\ WellFormed(tickets[t])
  BY <1>1 DEF IInv, TypeOK, IsMap
<1>3. /\ x \in Ticket /\ WellFormed(x)
      /\ x.state = "CANCELLED" /\ x.player = p /\ x.pool = tickets[t].pool
  BY <1>1, <1>2, CancelledShape
<1>4. tickets[t].state \in {"QUEUED", "CANCELLED"}
  BY <1>1, <1>2 DEF CanCancel, WellFormed
<1> HIDE DEF x
<1>5. /\ DOMAIN tickets' = DOMAIN tickets
      /\ tickets'[t] = x
      /\ \A u \in DOMAIN tickets : u # t => tickets'[u] = tickets[u]
      /\ tickets' = [u \in DOMAIN tickets |-> tickets'[u]]
  BY <1>1 DEF Cancel, Rewrite, x
<1>6. /\ DOMAIN activeByPlayer' = {q \in DOMAIN activeByPlayer : activeByPlayer[q] # t}
      /\ \A q \in DOMAIN activeByPlayer' : activeByPlayer'[q] = activeByPlayer[q]
      /\ activeByPlayer' = [q \in DOMAIN activeByPlayer' |-> activeByPlayer'[q]]
  BY DEF Cancel, ForgetActive, Restrict
<1>7. /\ DOMAIN cancelIdempotency' = DOMAIN cancelIdempotency \cup {<<p, key>>}
      /\ cancelIdempotency'[<<p, key>>] = t
      /\ \A e \in DOMAIN cancelIdempotency :
            cancelIdempotency'[e] = cancelIdempotency[e]
      /\ cancelIdempotency' = [e \in DOMAIN cancelIdempotency \cup {<<p, key>>} |->
                                 cancelIdempotency'[e]]
  BY <1>1 DEF Cancel, Put
<1>8. \A k \in PoolKeys : pools'[k] = pools[k] \ {t}
  BY DEF Cancel, WithoutTickets
<1>9. UNCHANGED <<createIdempotency, reservations, lapsed>>
  BY DEF Cancel
<1>10. TypeOK'
  <2>1. pools' \in [PoolKeys -> SUBSET Tickets]
    BY DEF Cancel, WithoutTickets, IInv, TypeOK
  <2>2. IsMap(tickets, Tickets, Ticket)'
    BY <1>1, <1>3, <1>5 DEF IInv, TypeOK, IsMap
  <2>3. IsMap(activeByPlayer, Players, Tickets)'
    BY <1>6 DEF IInv, TypeOK, IsMap
  <2>4. IsMap(cancelIdempotency, Players \X CancelKeys, Tickets)'
    BY <1>7 DEF IInv, TypeOK, IsMap
  <2>5. \A u \in DOMAIN tickets' : WellFormed(tickets'[u])
    BY <1>3, <1>5 DEF IInv, TypeOK
  <2>6. /\ IsMap(createIdempotency, Players \X Keys, Tickets)'
        /\ IsMap(reservations, Reservations, SUBSET Tickets)'
        /\ (lapsed \in SUBSET Reservations)'
    BY <1>9 DEF IInv, TypeOK, IsMap
  <2>7. QED
    BY <2>1, <2>2, <2>3, <2>4, <2>5, <2>6 DEF TypeOK
<1>11. ReservationAgreement'
  BY <1>3, <1>4, <1>5, <1>9 DEF IInv, ReservationAgreement, HeldBy
<1>12. ActiveIndexAgreement'
  BY <1>1, <1>3, <1>5, <1>6 DEF IInv, ActiveIndexAgreement, IsActive
<1>13. PoolAgreement'
  BY <1>1, <1>3, <1>5, <1>8 DEF IInv, PoolAgreement
<1>14. LedgerAgreement'
  <2>1. <<p, key>>[1] = p
    OBVIOUS
  <2>2. QED
    BY <1>1, <1>3, <1>5, <1>7, <1>9, <2>1 DEF IInv, LedgerAgreement
<1>15. QED
  BY <1>10, <1>11, <1>12, <1>13, <1>14 DEF IInv

\* ReserveAll keeps IInv: only waiting tickets, under an id nobody uses.
LEMMA ReserveAllIInv ==
  ASSUME IInv, NEW S \in SUBSET Tickets, NEW r \in Reservations, ReserveAll(S, r)
  PROVE  IInv'
<1>1. /\ r \notin DOMAIN reservations
      /\ \A t \in S : t \in DOMAIN tickets /\ tickets[t].state = "QUEUED"
  BY DEF ReserveAll, Reservable, IsQueueCandidate
<1>2. ASSUME NEW t \in DOMAIN tickets
      PROVE  tickets[t] \in Ticket /\ WellFormed(tickets[t])
  BY DEF IInv, TypeOK, IsMap
<1>3. /\ DOMAIN tickets' = DOMAIN tickets
      /\ \A t \in S : tickets'[t] = Reserved(tickets[t], r)
      /\ \A t \in DOMAIN tickets : t \notin S => tickets'[t] = tickets[t]
      /\ tickets' = [t \in DOMAIN tickets |-> tickets'[t]]
  BY <1>1 DEF ReserveAll, Rewrite
<1>4. ASSUME NEW t \in S
      PROVE  /\ tickets'[t] \in Ticket /\ WellFormed(tickets'[t])
             /\ tickets'[t].state = "RESERVED"
             /\ tickets'[t].reservationID = r
             /\ tickets'[t].player = tickets[t].player
             /\ tickets'[t].pool = tickets[t].pool
  BY <1>1, <1>2, <1>3, ReservedShape DEF IsQueueCandidate
<1>5. /\ DOMAIN reservations' = DOMAIN reservations \cup {r}
      /\ reservations'[r] = S
      /\ \A q \in DOMAIN reservations : reservations'[q] = reservations[q]
      /\ reservations' = [q \in DOMAIN reservations \cup {r} |-> reservations'[q]]
  BY <1>1 DEF ReserveAll, Put
<1>6. UNCHANGED <<activeByPlayer, createIdempotency, cancelIdempotency, pools, lapsed>>
  BY DEF ReserveAll, ledgers
<1>7. TypeOK'
  <2>1. IsMap(tickets, Tickets, Ticket)'
    BY <1>2, <1>3, <1>4 DEF IInv, TypeOK, IsMap
  <2>2. IsMap(reservations, Reservations, SUBSET Tickets)'
    BY <1>5 DEF IInv, TypeOK, IsMap
  <2>3. \A t \in DOMAIN tickets' : WellFormed(tickets'[t])
    BY <1>2, <1>3, <1>4
  <2>4. QED
    BY <1>6, <2>1, <2>2, <2>3 DEF IInv, TypeOK, IsMap
<1>8. ReservationAgreement'
  BY <1>1, <1>3, <1>4, <1>5, <1>6 DEF IInv, ReservationAgreement, HeldBy
<1>9. ActiveIndexAgreement'
  BY <1>1, <1>3, <1>4, <1>6 DEF IInv, ActiveIndexAgreement, IsActive
<1>10. PoolAgreement'
  BY <1>1, <1>3, <1>4, <1>6 DEF IInv, PoolAgreement
<1>11. LedgerAgreement'
  BY <1>1, <1>3, <1>4, <1>6 DEF IInv, LedgerAgreement
<1>12. QED
  BY <1>7, <1>8, <1>9, <1>10, <1>11 DEF IInv

\* The reservations of R end and all their tickets go back to the queue: what
\* ReleaseAll and RecoverExpiredReservations have in common.
Requeue(R) ==
  /\ tickets' = Rewrite(UNION {reservations[r] : r \in R}, Released)
  /\ reservations' = Restrict(reservations, DOMAIN reservations \ R)
  /\ lapsed' = lapsed \ R
  /\ UNCHANGED <<activeByPlayer, ledgers, pools>>

\* Sending whole reservations back to the queue keeps IInv.
LEMMA RequeueIInv ==
  ASSUME IInv, NEW R \in SUBSET DOMAIN reservations, Requeue(R)
  PROVE  IInv'
<1> DEFINE S == UNION {reservations[r] : r \in R}
<1>1. ASSUME NEW t \in DOMAIN tickets
      PROVE  tickets[t] \in Ticket /\ WellFormed(tickets[t])
  BY DEF IInv, TypeOK, IsMap
<1>2. \A t \in S : t \in DOMAIN tickets /\ tickets[t].state = "RESERVED"
  BY DEF IInv, ReservationAgreement, HeldBy
<1>3. /\ DOMAIN tickets' = DOMAIN tickets
      /\ \A t \in S : tickets'[t] = Released(tickets[t])
      /\ \A t \in DOMAIN tickets : t \notin S => tickets'[t] = tickets[t]
      /\ tickets' = [t \in DOMAIN tickets |-> tickets'[t]]
  BY <1>2 DEF Requeue, Rewrite
<1> HIDE DEF S
<1>4. ASSUME NEW t \in S
      PROVE  /\ tickets'[t] \in Ticket /\ WellFormed(tickets'[t])
             /\ tickets'[t].state = "QUEUED"
             /\ tickets'[t].player = tickets[t].player
             /\ tickets'[t].pool = tickets[t].pool
  BY <1>1, <1>2, <1>3, ReleasedShape
<1>5. /\ DOMAIN reservations' = DOMAIN reservations \ R
      /\ \A r \in DOMAIN reservations' : reservations'[r] = reservations[r]
      /\ reservations' = [r \in DOMAIN reservations' |-> reservations'[r]]
  BY DEF Requeue, Restrict
<1>6. UNCHANGED <<activeByPlayer, createIdempotency, cancelIdempotency, pools>>
  BY DEF Requeue, ledgers
<1>7. TypeOK'
  <2>1. IsMap(tickets, Tickets, Ticket)'
    BY <1>1, <1>3, <1>4 DEF IInv, TypeOK, IsMap
  <2>2. IsMap(reservations, Reservations, SUBSET Tickets)'
    BY <1>5 DEF IInv, TypeOK, IsMap
  <2>3. \A t \in DOMAIN tickets' : WellFormed(tickets'[t])
    BY <1>1, <1>3, <1>4
  <2>4. QED
    BY <1>6, <2>1, <2>2, <2>3 DEF IInv, TypeOK, IsMap, Requeue
<1>8. ReservationAgreement'
  <2>1. ASSUME NEW r \in DOMAIN reservations', NEW t \in reservations'[r]
        PROVE  t \in DOMAIN tickets' /\ HeldBy(tickets'[t], r)
    <3>1. t \in DOMAIN tickets /\ HeldBy(tickets[t], r) /\ r \notin R
      BY <1>5 DEF IInv, ReservationAgreement
    <3>2. t \notin S
      BY <3>1 DEF IInv, ReservationAgreement, HeldBy, S
    <3>3. QED
      BY <1>3, <3>1, <3>2
  <2>2. ASSUME NEW t \in DOMAIN tickets', tickets'[t].state = "RESERVED"
        PROVE  /\ tickets'[t].reservationID \in DOMAIN reservations'
               /\ t \in reservations'[tickets'[t].reservationID]
    <3>1. t \in DOMAIN tickets /\ t \notin S /\ tickets'[t] = tickets[t]
      BY <1>3, <1>4, <2>2
    <3>2. /\ tickets[t].reservationID \in DOMAIN reservations
          /\ t \in reservations[tickets[t].reservationID]
      BY <2>2, <3>1 DEF IInv, ReservationAgreement
    <3>3. tickets[t].reservationID \notin R
      BY <3>1, <3>2 DEF S
    <3>4. QED
      BY <1>5, <3>1, <3>2, <3>3
  <2>3. lapsed' \subseteq DOMAIN reservations'
    BY <1>5 DEF IInv, ReservationAgreement, Requeue
  <2>4. QED
    BY <2>1, <2>2, <2>3 DEF ReservationAgreement
<1>9. ActiveIndexAgreement'
  BY <1>2, <1>3, <1>4, <1>6 DEF IInv, ActiveIndexAgreement, IsActive
<1>10. PoolAgreement'
  BY <1>2, <1>3, <1>4, <1>6 DEF IInv, PoolAgreement
<1>11. LedgerAgreement'
  BY <1>2, <1>3, <1>4, <1>6 DEF IInv, LedgerAgreement
<1>12. QED
  BY <1>7, <1>8, <1>9, <1>10, <1>11 DEF IInv

\* ReleaseAll requeues one reservation.
LEMMA ReleaseAllRequeues ==
  ASSUME NEW r \in Reservations, ReleaseAll(r)
  PROVE  {r} \in SUBSET DOMAIN reservations /\ Requeue({r})
<1>1. UNION {reservations[q] : q \in {r}} = reservations[r]
  OBVIOUS
<1>2. QED
  BY <1>1 DEF ReleaseAll, Outstanding, DropReservation, Delete, Requeue

\* Recovery requeues the reservations whose TTL has passed.
LEMMA RecoveryRequeues ==
  ASSUME IInv, RecoverExpiredReservations
  PROVE  lapsed \in SUBSET DOMAIN reservations /\ Requeue(lapsed)
  BY DEF RecoverExpiredReservations, LapsedTickets, Requeue, IInv,
         ReservationAgreement

\* ReleaseAll keeps IInv.
LEMMA ReleaseAllIInv ==
  ASSUME IInv, NEW r \in Reservations, ReleaseAll(r)
  PROVE  IInv'
  BY ReleaseAllRequeues, RequeueIInv

\* Recovery keeps IInv.
LEMMA RecoverExpiredReservationsIInv ==
  ASSUME IInv, RecoverExpiredReservations
  PROVE  IInv'
  BY RecoveryRequeues, RequeueIInv

\* AssignAll keeps IInv: the reservation ends and its tickets leave the pools.
LEMMA AssignAllIInv ==
  ASSUME IInv, NEW r \in Reservations, NEW m \in Matches, AssignAll(r, m)
  PROVE  IInv'
<1> DEFINE S == reservations[r]
<1>1. r \in DOMAIN reservations /\ \A t \in S : HeldBy(tickets[t], r)
  BY DEF AssignAll, Outstanding
<1>2. ASSUME NEW t \in DOMAIN tickets
      PROVE  tickets[t] \in Ticket /\ WellFormed(tickets[t])
  BY DEF IInv, TypeOK, IsMap
<1>3. \A t \in S : t \in DOMAIN tickets /\ tickets[t].state = "RESERVED"
  BY <1>1 DEF IInv, ReservationAgreement, HeldBy
<1>4. /\ DOMAIN tickets' = DOMAIN tickets
      /\ \A t \in S : tickets'[t] = Assigned(tickets[t], m)
      /\ \A t \in DOMAIN tickets : t \notin S => tickets'[t] = tickets[t]
      /\ tickets' = [t \in DOMAIN tickets |-> tickets'[t]]
  BY <1>3 DEF AssignAll, Rewrite
<1>5. ASSUME NEW t \in S
      PROVE  /\ tickets'[t] \in Ticket /\ WellFormed(tickets'[t])
             /\ tickets'[t].state = "ASSIGNED"
             /\ tickets'[t].player = tickets[t].player
             /\ tickets'[t].pool = tickets[t].pool
  BY <1>2, <1>3, <1>4, AssignedShape
<1>6. /\ DOMAIN reservations' = DOMAIN reservations \ {r}
      /\ \A q \in DOMAIN reservations' : reservations'[q] = reservations[q]
      /\ reservations' = [q \in DOMAIN reservations' |-> reservations'[q]]
      /\ lapsed' = lapsed \ {r}
  BY DEF AssignAll, DropReservation, Delete, Restrict
<1>7. /\ \A k \in PoolKeys : pools'[k] = pools[k] \ S
      /\ pools' = [k \in PoolKeys |-> pools[k] \ S]
  BY DEF AssignAll, WithoutTickets
<1>8. UNCHANGED <<activeByPlayer, createIdempotency, cancelIdempotency>>
  BY DEF AssignAll, ledgers
<1>9. TypeOK'
  <2>1. IsMap(tickets, Tickets, Ticket)'
    BY <1>2, <1>4, <1>5 DEF IInv, TypeOK, IsMap
  <2>2. IsMap(reservations, Reservations, SUBSET Tickets)'
    BY <1>6 DEF IInv, TypeOK, IsMap
  <2>3. \A t \in DOMAIN tickets' : WellFormed(tickets'[t])
    BY <1>2, <1>4, <1>5
  <2>4. pools' \in [PoolKeys -> SUBSET Tickets]
    BY <1>7 DEF IInv, TypeOK
  <2>5. QED
    BY <1>6, <1>8, <2>1, <2>2, <2>3, <2>4 DEF IInv, TypeOK, IsMap
<1>10. ReservationAgreement'
  <2>1. ASSUME NEW q \in DOMAIN reservations', NEW t \in reservations'[q]
        PROVE  t \in DOMAIN tickets' /\ HeldBy(tickets'[t], q)
    <3>1. t \in DOMAIN tickets /\ HeldBy(tickets[t], q) /\ q # r
      BY <1>6 DEF IInv, ReservationAgreement
    <3>2. t \notin S
      BY <1>1, <3>1 DEF HeldBy
    <3>3. QED
      BY <1>4, <3>1, <3>2
  <2>2. ASSUME NEW t \in DOMAIN tickets', tickets'[t].state = "RESERVED"
        PROVE  /\ tickets'[t].reservationID \in DOMAIN reservations'
               /\ t \in reservations'[tickets'[t].reservationID]
    <3>1. t \in DOMAIN tickets /\ t \notin S /\ tickets'[t] = tickets[t]
      BY <1>4, <1>5, <2>2
    <3>2. QED
      BY <1>6, <2>2, <3>1 DEF IInv, ReservationAgreement
  <2>3. lapsed' \subseteq DOMAIN reservations'
    BY <1>6 DEF IInv, ReservationAgreement
  <2>4. QED
    BY <2>1, <2>2, <2>3 DEF ReservationAgreement
<1>11. ActiveIndexAgreement'
  BY <1>3, <1>4, <1>5, <1>8 DEF IInv, ActiveIndexAgreement, IsActive
<1>12. PoolAgreement'
  BY <1>3, <1>4, <1>5, <1>7 DEF IInv, PoolAgreement
<1>13. LedgerAgreement'
  BY <1>3, <1>4, <1>5, <1>8 DEF IInv, LedgerAgreement
<1>14. QED
  BY <1>9, <1>10, <1>11, <1>12, <1>13 DEF IInv

\* Ending a match only shortens the active index, by entries of assigned
\* tickets: no waiting ticket loses its entry.
LEMMA CompleteAssignedTicketsIInv ==
  ASSUME IInv, NEW m \in Matches, CompleteAssignedTickets(m)
  PROVE  IInv'
<1>1. UNCHANGED <<tickets, createIdempotency, cancelIdempotency, pools,
                  reservations, lapsed>>
  BY DEF CompleteAssignedTickets, ledgers
<1>2. /\ DOMAIN activeByPlayer' =
           {p \in DOMAIN activeByPlayer : activeByPlayer[p] \notin AssignedTo(m)}
      /\ \A p \in DOMAIN activeByPlayer' : activeByPlayer'[p] = activeByPlayer[p]
      /\ activeByPlayer' = [p \in DOMAIN activeByPlayer' |-> activeByPlayer'[p]]
  BY DEF CompleteAssignedTickets, ForgetActive, Restrict
<1>3. \A t \in AssignedTo(m) : tickets[t].state = "ASSIGNED"
  BY DEF AssignedTo
<1>4. TypeOK'
  <2>1. IsMap(activeByPlayer, Players, Tickets)'
    BY <1>2 DEF IInv, TypeOK, IsMap
  <2>2. QED
    BY <1>1, <2>1 DEF IInv, TypeOK, IsMap, WellFormed
<1>5. ReservationAgreement'
  BY <1>1 DEF IInv, ReservationAgreement, HeldBy
<1>6. ActiveIndexAgreement'
  BY <1>1, <1>2, <1>3 DEF IInv, ActiveIndexAgreement
<1>7. PoolAgreement' /\ LedgerAgreement'
  BY <1>1 DEF IInv, PoolAgreement, LedgerAgreement
<1>8. QED
  BY <1>4, <1>5, <1>6, <1>7 DEF IInv

\* The passing of a deadline touches only the outstanding reservation.
LEMMA LapseIInv ==
  ASSUME IInv, NEW r \in Reservations, Lapse(r)
  PROVE  IInv'
<1>1. UNCHANGED <<tickets, activeByPlayer, createIdempotency,
                  cancelIdempotency, pools, reservations>>
  BY DEF Lapse, ledgers
<1>2. r \in DOMAIN reservations /\ lapsed' = lapsed \cup {r}
  BY DEF Lapse
<1>3. TypeOK'
  BY <1>1, <1>2 DEF IInv, TypeOK, IsMap, WellFormed
<1>4. ReservationAgreement'
  BY <1>1, <1>2 DEF IInv, ReservationAgreement, HeldBy
<1>5. ActiveIndexAgreement' /\ PoolAgreement' /\ LedgerAgreement'
  BY <1>1 DEF IInv, ActiveIndexAgreement, IsActive, PoolAgreement, LedgerAgreement
<1>6. QED
  BY <1>3, <1>4, <1>5 DEF IInv

\* Every step of the store, and every step that leaves it alone, keeps IInv.
LEMMA NextIInv == IInv /\ [Next]_storeVars => IInv'
<1> SUFFICES ASSUME IInv, [Next]_storeVars PROVE IInv'
  OBVIOUS
<1>1. ASSUME NEW t \in Tickets, NEW p \in Players, NEW k \in PoolKeys,
             NEW key \in Keys, CreateQueued(t, p, k, key)
      PROVE  IInv'
  BY <1>1, CreateQueuedIInv
<1>2. ASSUME NEW t \in Tickets, NEW p \in Players, NEW key \in CancelKeys,
             Cancel(t, p, key)
      PROVE  IInv'
  BY <1>2, CancelIInv
<1>3. ASSUME NEW S \in SUBSET Tickets, NEW r \in Reservations, ReserveAll(S, r)
      PROVE  IInv'
  BY <1>3, ReserveAllIInv
<1>4. ASSUME NEW r \in Reservations, ReleaseAll(r) PROVE IInv'
  BY <1>4, ReleaseAllIInv
<1>5. ASSUME NEW r \in Reservations, Lapse(r) PROVE IInv'
  BY <1>5, LapseIInv
<1>6. ASSUME NEW r \in Reservations, NEW m \in Matches, AssignAll(r, m)
      PROVE  IInv'
  BY <1>6, AssignAllIInv
<1>7. ASSUME NEW m \in Matches, CompleteAssignedTickets(m) PROVE IInv'
  BY <1>7, CompleteAssignedTicketsIInv
<1>8. CASE RecoverExpiredReservations
  BY <1>8, RecoverExpiredReservationsIInv
<1>9. CASE UNCHANGED storeVars
  BY <1>9 DEF storeVars, IInv, TypeOK, IsMap, WellFormed, ReservationAgreement,
              HeldBy, ActiveIndexAgreement, IsActive, PoolAgreement, LedgerAgreement
<1>10. QED
  BY <1>1, <1>2, <1>3, <1>4, <1>5, <1>6, <1>7, <1>8, <1>9 DEF Next

\* The inductive invariant holds in every reachable state of the store.
THEOREM StoreInvariant == Spec => []IInv
<1>1. Init => IInv
  BY InitIInv
<1>2. IInv /\ [Next]_storeVars => IInv'
  BY NextIInv
<1>3. QED
  BY <1>1, <1>2, PTL DEF Spec

\* Type correctness: every stored ticket is one RestoreTicket would accept.
THEOREM TypeCorrect == Spec => []TypeOK
<1>1. IInv => TypeOK
  BY DEF IInv
<1>2. QED
  BY <1>1, StoreInvariant, PTL

\* The reservations, the index of the players, the pools and the keys never
\* disagree with the tickets, whatever calls the workers and clients make and
\* however deadlines fall.
THEOREM TablesAlwaysAgree == Spec => []TablesAgree
<1>1. IInv => TablesAgree
  BY DEF IInv, TablesAgree
<1>2. QED
  BY <1>1, StoreInvariant, PTL

\* FR-TICKET-001 for waiting tickets: two of one player would both have to be
\* the one ticket the player's active entry names.
THEOREM OneWaitingTicket == Spec => []OneWaitingTicketPerPlayer
<1>1. IInv => OneWaitingTicketPerPlayer
  BY DEF IInv, ActiveIndexAgreement, OneWaitingTicketPerPlayer
<1>2. QED
  BY <1>1, StoreInvariant, PTL

-----------------------------------------------------------------------------
(* What a step may never do *)

\* Every method rewrites only tickets in the state its guard demands, and
\* whole reservations.
LEMMA StepOnTicket ==
  ASSUME IInv, Next, NEW t \in DOMAIN tickets
  PROVE  /\ t \in DOMAIN tickets'
         /\ \/ tickets'[t] = tickets[t]
            \/ tickets[t].state \in {"QUEUED", "CANCELLED"} /\ tickets'[t] = Cancelled(tickets[t])
            \/ /\ tickets[t].state = "QUEUED"
               /\ \E r \in Reservations : tickets'[t] = Reserved(tickets[t], r)
            \/ /\ tickets[t].state = "RESERVED"
               /\ \A u \in reservations[tickets[t].reservationID] :
                     tickets'[u] = Released(tickets[u])
            \/ /\ tickets[t].state = "RESERVED"
               /\ \E m \in Matches : \A u \in reservations[tickets[t].reservationID] :
                     tickets'[u] = Assigned(tickets[u], m)
<1> DEFINE Goal ==
         /\ t \in DOMAIN tickets'
         /\ \/ tickets'[t] = tickets[t]
            \/ tickets[t].state \in {"QUEUED", "CANCELLED"} /\ tickets'[t] = Cancelled(tickets[t])
            \/ /\ tickets[t].state = "QUEUED"
               /\ \E r \in Reservations : tickets'[t] = Reserved(tickets[t], r)
            \/ /\ tickets[t].state = "RESERVED"
               /\ \A u \in reservations[tickets[t].reservationID] :
                     tickets'[u] = Released(tickets[u])
            \/ /\ tickets[t].state = "RESERVED"
               /\ \E m \in Matches : \A u \in reservations[tickets[t].reservationID] :
                     tickets'[u] = Assigned(tickets[u], m)
<1>0. \A r \in DOMAIN reservations : \A u \in reservations[r] :
         /\ u \in DOMAIN tickets /\ tickets[u].state = "RESERVED"
         /\ tickets[u].reservationID = r
  BY DEF IInv, ReservationAgreement, HeldBy
<1>1. ASSUME NEW c \in Tickets, NEW p \in Players, NEW k \in PoolKeys,
             NEW key \in Keys, CreateQueued(c, p, k, key)
      PROVE  Goal
  BY <1>1 DEF CreateQueued, Put
<1>2. ASSUME NEW c \in Tickets, NEW p \in Players, NEW key \in CancelKeys,
             Cancel(c, p, key)
      PROVE  Goal
  <2>1. tickets[c].state \in {"QUEUED", "CANCELLED"}
    BY <1>2 DEF Cancel, CancelAllowed, CanCancel, IInv, TypeOK, WellFormed
  <2>2. /\ t \in DOMAIN tickets'
        /\ tickets'[t] = IF t = c THEN Cancelled(tickets[t]) ELSE tickets[t]
    BY <1>2 DEF Cancel, Rewrite
  <2>3. QED
    BY <2>1, <2>2
<1>3. ASSUME NEW S \in SUBSET Tickets, NEW r \in Reservations, ReserveAll(S, r)
      PROVE  Goal
  <2>1. \A u \in S : tickets[u].state = "QUEUED"
    BY <1>3 DEF ReserveAll, Reservable, IsQueueCandidate
  <2>2. /\ t \in DOMAIN tickets'
        /\ tickets'[t] = IF t \in S THEN Reserved(tickets[t], r) ELSE tickets[t]
    BY <1>3 DEF ReserveAll, Rewrite
  <2>3. QED
    BY <2>1, <2>2
<1>4. ASSUME NEW R \in SUBSET DOMAIN reservations, Requeue(R)
      PROVE  Goal
  <2> DEFINE S == UNION {reservations[r] : r \in R}
  <2>1. \A u \in DOMAIN tickets :
           /\ u \in DOMAIN tickets'
           /\ tickets'[u] = IF u \in S THEN Released(tickets[u]) ELSE tickets[u]
    BY <1>4 DEF Requeue, Rewrite
  <2>2. CASE t \in S
    <3>1. PICK r \in R : t \in reservations[r]
      BY <2>2
    <3>2. tickets[t].state = "RESERVED" /\ tickets[t].reservationID = r
      BY <1>0, <3>1
    <3>3. \A u \in reservations[r] : u \in DOMAIN tickets /\ u \in S
      BY <1>0, <3>1
    <3> HIDE DEF S
    <3>4. \A u \in reservations[r] : tickets'[u] = Released(tickets[u])
      BY <2>1, <3>3
    <3>5. QED
      BY <2>1, <3>2, <3>4
  <2>3. CASE t \notin S
    <3> HIDE DEF S
    <3>1. QED
      BY <2>1, <2>3
  <2>4. QED
    BY <2>2, <2>3
<1>5. ASSUME NEW r \in Reservations, ReleaseAll(r) PROVE Goal
  <2>1. {r} \in SUBSET DOMAIN reservations /\ Requeue({r})
    BY <1>5, ReleaseAllRequeues
  <2>2. QED
    BY <1>4, <2>1
<1>6. CASE RecoverExpiredReservations
  <2>1. lapsed \in SUBSET DOMAIN reservations /\ Requeue(lapsed)
    BY <1>6, RecoveryRequeues
  <2>2. QED
    BY <1>4, <2>1
<1>7. ASSUME NEW r \in Reservations, NEW m \in Matches, AssignAll(r, m)
      PROVE  Goal
  <2>1. r \in DOMAIN reservations
    BY <1>7 DEF AssignAll, Outstanding
  <2>2. \A u \in DOMAIN tickets :
           /\ u \in DOMAIN tickets'
           /\ tickets'[u] = IF u \in reservations[r] THEN Assigned(tickets[u], m)
                                                     ELSE tickets[u]
    BY <1>7 DEF AssignAll, Rewrite
  <2>3. CASE t \in reservations[r]
    <3>1. tickets[t].state = "RESERVED" /\ tickets[t].reservationID = r
      BY <1>0, <2>1, <2>3
    <3>2. \A u \in reservations[r] : tickets'[u] = Assigned(tickets[u], m)
      BY <1>0, <2>1, <2>2
    <3>3. QED
      BY <2>2, <3>1, <3>2
  <2>4. CASE t \notin reservations[r]
    BY <2>2, <2>4
  <2>5. QED
    BY <2>3, <2>4
<1>8. ASSUME UNCHANGED tickets PROVE Goal
  BY <1>8
<1>9. QED
  BY <1>1, <1>2, <1>3, <1>5, <1>6, <1>7, <1>8
     DEF Next, Lapse, CompleteAssignedTickets

\* Members of one reservation stay alike: a step that touches one of them
\* rewrites the whole reservation.
THEOREM ReservationAtomic == Spec => ReservationMovesTogether
<1>1. ASSUME IInv, [Next]_storeVars
      PROVE  [\A r \in DOMAIN reservations : MovesTogether(r)]_storeVars
  <2> SUFFICES ASSUME Next, NEW r \in DOMAIN reservations,
                      NEW t \in reservations[r], NEW u \in reservations[r]
               PROVE  /\ tickets'[t].state = tickets'[u].state
                      /\ tickets'[t].reservationID = tickets'[u].reservationID
                      /\ tickets'[t].matchID = tickets'[u].matchID
    BY <1>1 DEF MovesTogether
  <2>1. \A v \in reservations[r] :
           /\ v \in DOMAIN tickets
           /\ tickets[v].state = "RESERVED" /\ tickets[v].reservationID = r
    BY <1>1 DEF IInv, ReservationAgreement, HeldBy
  <2>2. \A v \in reservations[r] : tickets[v] \in Ticket /\ WellFormed(tickets[v])
    BY <1>1, <2>1 DEF IInv, TypeOK, IsMap
  <2>3. CASE tickets'[t] = tickets[t] /\ tickets'[u] = tickets[u]
    BY <2>1, <2>2, <2>3 DEF WellFormed
  <2>4. CASE \A v \in reservations[r] : tickets'[v] = Released(tickets[v])
    BY <2>1, <2>2, <2>4, ReleasedShape
  <2>5. ASSUME NEW m \in Matches,
               \A v \in reservations[r] : tickets'[v] = Assigned(tickets[v], m)
        PROVE  /\ tickets'[t].state = tickets'[u].state
               /\ tickets'[t].reservationID = tickets'[u].reservationID
               /\ tickets'[t].matchID = tickets'[u].matchID
    BY <2>1, <2>2, <2>5, AssignedShape
  <2>6. QED
    BY <1>1, <2>1, <2>3, <2>4, <2>5, StepOnTicket
<1>2. QED
  BY <1>1, StoreInvariant, PTL DEF Spec, ReservationMovesTogether

\* No step overwrites another worker's reservation, and a ticket that is in
\* a match or has been cancelled never changes again.
THEOREM ReservationKept == Spec => NoTakeover
<1>1. ASSUME IInv, [Next]_storeVars
      PROVE  [\A t \in DOMAIN tickets : KeepsItsHolder(t)]_storeVars
  <2> SUFFICES ASSUME Next, NEW t \in DOMAIN tickets
               PROVE  KeepsItsHolder(t)
    BY <1>1
  <2>1. tickets[t] \in Ticket /\ WellFormed(tickets[t])
    BY <1>1 DEF IInv, TypeOK, IsMap
  <2>2. ASSUME tickets[t].state = "RESERVED"
        PROVE  t \in reservations[tickets[t].reservationID]
    BY <1>1, <2>2 DEF IInv, ReservationAgreement
  <2>3. CASE tickets'[t] = tickets[t]
    BY <1>1, <2>3, StepOnTicket DEF KeepsItsHolder
  <2>4. CASE /\ tickets[t].state \in {"QUEUED", "CANCELLED"}
             /\ tickets'[t] = Cancelled(tickets[t])
    <3>1. CASE tickets[t].state = "QUEUED"
      BY <1>1, <2>1, <2>4, <3>1, StepOnTicket DEF KeepsItsHolder, Cancelled, Ticket
    <3>2. CASE tickets[t].state = "CANCELLED"
      <4>1. tickets[t].reservationID = None
        BY <2>1, <3>2 DEF WellFormed
      <4>2. Cancelled(tickets[t]) = tickets[t]
        BY <2>1, <3>2, <4>1 DEF Cancelled, Ticket
      <4>3. QED
        BY <1>1, <2>4, <3>2, <4>2, StepOnTicket DEF KeepsItsHolder
    <3>3. QED
      BY <2>4, <3>1, <3>2
  <2>5. CASE /\ tickets[t].state = "QUEUED"
             /\ \E r \in Reservations : tickets'[t] = Reserved(tickets[t], r)
    BY <1>1, <2>1, <2>5, StepOnTicket DEF KeepsItsHolder, Reserved, Ticket
  <2>6. CASE tickets[t].state = "RESERVED" /\ tickets'[t] = Released(tickets[t])
    BY <1>1, <2>1, <2>6, StepOnTicket DEF KeepsItsHolder, Released, Ticket
  <2>7. CASE /\ tickets[t].state = "RESERVED"
             /\ \E m \in Matches : tickets'[t] = Assigned(tickets[t], m)
    BY <1>1, <2>1, <2>7, StepOnTicket DEF KeepsItsHolder, Assigned, Ticket
  <2>8. QED
    BY <1>1, <2>2, <2>3, <2>4, <2>5, <2>6, <2>7, StepOnTicket
<1>2. QED
  BY <1>1, StoreInvariant, PTL DEF Spec, NoTakeover

\* The only step that forgets the active entry of an ASSIGNED ticket is the
\* completion of its match: a new ticket needs a player nothing blocks, and a
\* cancellation forgets the cancelled ticket's own entry.
LEMMA ActiveEntryKept ==
  ASSUME IInv, Next, NEW t \in DOMAIN tickets, tickets[t].state = "ASSIGNED",
         tickets[t].player \in DOMAIN activeByPlayer,
         activeByPlayer[tickets[t].player] = t
  PROVE  \/ /\ tickets[t].player \in DOMAIN activeByPlayer'
            /\ activeByPlayer'[tickets[t].player] = t
         \/ \E m \in Matches : CompleteAssignedTickets(m)
<1> DEFINE Kept == /\ tickets[t].player \in DOMAIN activeByPlayer'
                   /\ activeByPlayer'[tickets[t].player] = t
<1>1. ASSUME NEW u \in Tickets, NEW p \in Players, NEW k \in PoolKeys,
             NEW key \in Keys, CreateQueued(u, p, k, key)
      PROVE  Kept
  <2>1. tickets[t].player # p
    BY <1>1 DEF CreateQueued, MayQueue, IsActive
  <2>2. activeByPlayer' = Put(activeByPlayer, p, u)
    BY <1>1 DEF CreateQueued
  <2>3. QED
    BY <2>1, <2>2 DEF Put
<1>2. ASSUME NEW u \in Tickets, NEW p \in Players, NEW key \in CancelKeys,
             Cancel(u, p, key)
      PROVE  Kept
  <2>1. u # t
    BY <1>2 DEF Cancel, CancelAllowed, CanCancel, IsActive, IsQueueCandidate
  <2>2. activeByPlayer' = ForgetActive({u})
    BY <1>2 DEF Cancel
  <2>3. QED
    BY <2>1, <2>2 DEF ForgetActive, Restrict
<1>3. CASE UNCHANGED activeByPlayer
  BY <1>3
<1>4. QED
  BY <1>1, <1>2, <1>3
     DEF Next, ReserveAll, ReleaseAll, AssignAll, Lapse, RecoverExpiredReservations

\* A step that is not a completion keeps every blocking ticket blocking.
LEMMA BlockingKept ==
  ASSUME IInv, Next, NEW m \in Matches,
         \A n \in Matches : ~CompleteAssignedTickets(n)
  PROVE  Blocking(m) \subseteq Blocking(m)'
<1> SUFFICES ASSUME NEW t \in Blocking(m)
             PROVE  t \in Blocking(m)'
  OBVIOUS
<1>1. /\ t \in DOMAIN tickets
      /\ tickets[t].state = "ASSIGNED" /\ tickets[t].matchID = m
      /\ tickets[t].player \in DOMAIN activeByPlayer
      /\ activeByPlayer[tickets[t].player] = t
  BY DEF Blocking
<1>2. t \in DOMAIN tickets' /\ tickets'[t] = tickets[t]
  BY <1>1, StepOnTicket
<1>3. /\ tickets[t].player \in DOMAIN activeByPlayer'
      /\ activeByPlayer'[tickets[t].player] = t
  BY <1>1, ActiveEntryKept
<1>4. QED
  BY <1>1, <1>2, <1>3 DEF Blocking

\* The completion of one match unblocks all its tickets and no others.
LEMMA CompletionUnblocks ==
  ASSUME NEW c \in Matches, CompleteAssignedTickets(c)
  PROVE  /\ Blocking(c)' = {}
         /\ \A n \in Matches \ {c} : Blocking(n)' = Blocking(n)
<1>1. tickets' = tickets
  BY DEF CompleteAssignedTickets
<1>2. /\ DOMAIN activeByPlayer' =
           {p \in DOMAIN activeByPlayer : activeByPlayer[p] \notin AssignedTo(c)}
      /\ \A p \in DOMAIN activeByPlayer' : activeByPlayer'[p] = activeByPlayer[p]
  BY DEF CompleteAssignedTickets, ForgetActive, Restrict
<1>3. Blocking(c)' = {}
  BY <1>1, <1>2 DEF Blocking, AssignedTo
<1>4. ASSUME NEW n \in Matches \ {c}
      PROVE  Blocking(n)' = Blocking(n)
  BY <1>1, <1>2 DEF Blocking, AssignedTo
<1>5. QED
  BY <1>3, <1>4

\* The players of a match are freed by its completion only, and together.
THEOREM PlayersFreedTogether == Spec => FreedTogether
<1> DEFINE Goal == \A m \in Matches : ~(Blocking(m) \subseteq Blocking(m)') =>
                     /\ Blocking(m)' = {}
                     /\ \A n \in Matches \ {m} : Blocking(n)' = Blocking(n)
<1>1. ASSUME IInv, [Next]_storeVars
      PROVE  [Goal]_storeVars
  <2> SUFFICES ASSUME Next PROVE Goal
    BY <1>1
  <2> SUFFICES ASSUME NEW m \in Matches, ~(Blocking(m) \subseteq Blocking(m)')
               PROVE  /\ Blocking(m)' = {}
                      /\ \A n \in Matches \ {m} : Blocking(n)' = Blocking(n)
    OBVIOUS
  <2>1. PICK c \in Matches : CompleteAssignedTickets(c)
    BY <1>1, BlockingKept
  <2>2. c = m
    BY <2>1, CompletionUnblocks
  <2>3. QED
    BY <2>1, <2>2, CompletionUnblocks
<1>2. QED
  BY <1>1, StoreInvariant, PTL DEF Spec, FreedTogether

-----------------------------------------------------------------------------
(* What a method does to the tickets of one match, for the modules that     *)
(* compose the store with its callers                                       *)

\* The tickets stay, and stay with their players.
TicketsStay ==
  \A t \in DOMAIN tickets : t \in DOMAIN tickets' /\ tickets'[t].player = tickets[t].player

\* A step that leaves the tickets of match m as they are, and reservation m
\* too, unless it forgets it.
Untouched(m) ==
  /\ m \in DOMAIN reservations' =>
       m \in DOMAIN reservations /\ reservations'[m] = reservations[m]
  /\ AssignedTo(m)' = AssignedTo(m)
  /\ Blocking(m)' = Blocking(m)

\* Ticket t is in match m.
InMatch(t, m) ==
  t \in DOMAIN tickets /\ tickets[t].state = "ASSIGNED" /\ tickets[t].matchID = m

\* The index names ticket t for player p.
Names(p, t) == p \in DOMAIN activeByPlayer /\ activeByPlayer[p] = t

\* A step leaves match m alone when it writes none of its tickets, puts none
\* into it and keeps their entries in the index.
LEMMA LeftAlone ==
  ASSUME NEW m,
         m \in DOMAIN reservations' =>
           m \in DOMAIN reservations /\ reservations'[m] = reservations[m],
         \A t : InMatch(t, m)' => InMatch(t, m),
         \A t : InMatch(t, m) =>
           /\ InMatch(t, m)' /\ tickets'[t] = tickets[t]
           /\ \A p : Names(p, t)' <=> Names(p, t)
  PROVE  Untouched(m)
<1>1. \A t : InMatch(t, m)' <=> InMatch(t, m)
  OBVIOUS
<1>2. AssignedTo(m)' = AssignedTo(m)
  BY <1>1 DEF AssignedTo, InMatch
<1>3. Blocking(m)' = Blocking(m)
  BY <1>1 DEF Blocking, InMatch, Names
<1>4. QED
  BY <1>2, <1>3 DEF Untouched

\* A step after which the tickets of S have another state, and none is in m.
LEMMA LeftAloneByRewrite ==
  ASSUME NEW m, NEW S,
         m \in DOMAIN reservations' =>
           m \in DOMAIN reservations /\ reservations'[m] = reservations[m],
         DOMAIN tickets' = DOMAIN tickets,
         \A t \in DOMAIN tickets \ S : tickets'[t] = tickets[t],
         \A t \in S : ~InMatch(t, m) /\ ~InMatch(t, m)',
         \A t : InMatch(t, m) => \A p : Names(p, t)' <=> Names(p, t)
  PROVE  Untouched(m)
<1>1. \A t : InMatch(t, m)' => t \in DOMAIN tickets \ S
  BY DEF InMatch
<1>2. \A t : InMatch(t, m) => t \in DOMAIN tickets \ S
  BY DEF InMatch
<1>3. \A t : InMatch(t, m)' => InMatch(t, m)
  BY <1>1 DEF InMatch
<1>4. \A t : InMatch(t, m) => InMatch(t, m)' /\ tickets'[t] = tickets[t]
  BY <1>2 DEF InMatch
<1>5. QED
  BY <1>3, <1>4, LeftAlone

\* A new ticket is in no match, and its player was in none that is not over.
LEMMA CreateQueuedElsewhere ==
  ASSUME IInv, NEW t \in Tickets, NEW p \in Players, NEW k \in PoolKeys,
         NEW key \in Keys, CreateQueued(t, p, k, key), NEW m \in Matches
  PROVE  Untouched(m) /\ DOMAIN tickets' = DOMAIN tickets \cup {t}
<1>1. /\ DOMAIN tickets' = DOMAIN tickets \cup {t} /\ t \notin DOMAIN tickets
      /\ tickets'[t].state = "QUEUED"
      /\ \A u \in DOMAIN tickets : tickets'[u] = tickets[u]
      /\ UNCHANGED reservations
  BY DEF CreateQueued, Put, QueuedTicket
<1>2. \A q : q # p =>
        /\ q \in DOMAIN activeByPlayer' <=> q \in DOMAIN activeByPlayer
        /\ q \in DOMAIN activeByPlayer => activeByPlayer'[q] = activeByPlayer[q]
  BY DEF CreateQueued, Put
<1>3. p \in DOMAIN activeByPlayer' /\ activeByPlayer'[p] = t
  BY DEF CreateQueued, Put
<1>4. \A u \in DOMAIN tickets : Names(p, u) => tickets[u].state # "ASSIGNED"
  BY DEF CreateQueued, MayQueue, IsActive, Names
<1>5. \A u : InMatch(u, m)' => InMatch(u, m)
  BY <1>1 DEF InMatch
<1>6. \A u : InMatch(u, m) => InMatch(u, m)' /\ tickets'[u] = tickets[u]
  BY <1>1 DEF InMatch
<1>7. ASSUME NEW u, InMatch(u, m), NEW q
      PROVE  Names(q, u)' <=> Names(q, u)
  <2>1. u \in DOMAIN tickets /\ u # t /\ tickets'[u] = tickets[u]
    BY <1>1, <1>7 DEF InMatch
  <2>2. tickets[u].state = "ASSIGNED"
    BY <1>7 DEF InMatch
  <2>3. CASE q = p
    BY <1>3, <1>4, <2>1, <2>2, <2>3 DEF Names
  <2>4. CASE q # p
    BY <1>2, <2>1, <2>4 DEF Names
  <2>5. QED
    BY <2>3, <2>4
<1>8. Untouched(m)
  BY <1>1, <1>5, <1>6, <1>7, LeftAlone
<1>9. QED
  BY <1>1, <1>8

\* A ticket that can be cancelled is in no match.
LEMMA CancelElsewhere ==
  ASSUME IInv, NEW t \in Tickets, NEW p \in Players, NEW key \in CancelKeys,
         Cancel(t, p, key), NEW m \in Matches
  PROVE  Untouched(m) /\ DOMAIN tickets' = DOMAIN tickets
<1>1. /\ t \in DOMAIN tickets /\ tickets[t].state # "ASSIGNED"
      /\ UNCHANGED reservations
      /\ activeByPlayer' = ForgetActive({t})
      /\ DOMAIN tickets' = DOMAIN tickets
      /\ \A u \in DOMAIN tickets \ {t} : tickets'[u] = tickets[u]
  BY DEF Cancel, CancelAllowed, CanCancel, Rewrite
<1>2. tickets'[t].state = "CANCELLED"
  BY <1>1, CancelledShape DEF Cancel, CancelAllowed, Rewrite, IInv, TypeOK, IsMap
<1>3. \A u : u # t => \A q : Names(q, u)' <=> Names(q, u)
  BY <1>1 DEF ForgetActive, Restrict, Names
<1>4. ~InMatch(t, m) /\ ~InMatch(t, m)'
  BY <1>1, <1>2 DEF InMatch
<1>5. \A u : InMatch(u, m) => u # t /\ tickets'[u] = tickets[u]
  BY <1>1, <1>4 DEF InMatch
<1>6. Untouched(m)
  BY <1>1, <1>3, <1>4, <1>5, LeftAloneByRewrite
<1>7. QED
  BY <1>1, <1>6

\* A reservation takes queued tickets, which are in no match, of as many
\* players as there are tickets.
LEMMA ReserveAllElsewhere ==
  ASSUME IInv, NEW S \in SUBSET Tickets, NEW r \in Reservations, ReserveAll(S, r)
  PROVE  /\ DOMAIN tickets' = DOMAIN tickets
         /\ \A m \in Matches : m # r => Untouched(m)
         /\ AssignedTo(r)' = AssignedTo(r) /\ Blocking(r)' = Blocking(r)
         /\ r \notin DOMAIN reservations
         /\ r \in DOMAIN reservations' /\ reservations'[r] = S
         /\ S \subseteq DOMAIN tickets
         /\ \A t, u \in S : tickets[t].player = tickets[u].player => t = u
<1>1. /\ DOMAIN tickets' = DOMAIN tickets
      /\ \A t \in DOMAIN tickets \ S : tickets'[t] = tickets[t]
      /\ \A t \in S : tickets'[t] = Reserved(tickets[t], r)
      /\ S \subseteq DOMAIN tickets /\ \A t \in S : IsQueueCandidate(tickets[t])
      /\ \A t, u \in S : tickets[t].player = tickets[u].player => t = u
      /\ UNCHANGED activeByPlayer
  BY DEF ReserveAll, Reservable, Rewrite
<1>2. \A t \in S : tickets'[t].state = "RESERVED"
  BY <1>1, ReservedShape DEF IInv, TypeOK, IsMap
<1>3. \A t \in S : \A m : ~InMatch(t, m) /\ ~InMatch(t, m)'
  BY <1>1, <1>2 DEF InMatch, IsQueueCandidate
<1>4. /\ r \notin DOMAIN reservations
      /\ DOMAIN reservations' = DOMAIN reservations \cup {r}
      /\ reservations'[r] = S
      /\ \A q \in DOMAIN reservations : reservations'[q] = reservations[q]
  BY DEF ReserveAll, Put
<1>5. \A p, t : Names(p, t)' <=> Names(p, t)
  BY <1>1 DEF Names
<1>6. ASSUME NEW m \in Matches, m # r PROVE Untouched(m)
  BY <1>1, <1>3, <1>4, <1>5, <1>6, LeftAloneByRewrite
<1>7. \A t, m : InMatch(t, m)' <=> InMatch(t, m)
  BY <1>1, <1>3 DEF InMatch
<1>8. AssignedTo(r)' = AssignedTo(r)
  BY <1>7 DEF AssignedTo, InMatch
<1>9. Blocking(r)' = Blocking(r)
  <2>1. \A t : InMatch(t, r) => tickets'[t] = tickets[t]
    BY <1>1, <1>3 DEF InMatch
  <2>2. UNCHANGED activeByPlayer
    BY <1>1
  <2>3. Blocking(r) = {t \in DOMAIN tickets : InMatch(t, r) /\ Names(tickets[t].player, t)}
    BY DEF Blocking, InMatch, Names
  <2>4. Blocking(r)' = {t \in DOMAIN tickets : InMatch(t, r) /\ Names(tickets[t].player, t)}'
    BY DEF Blocking, InMatch, Names
  <2>5. QED
    BY <1>1, <1>7, <2>1, <2>2, <2>3, <2>4 DEF Names
<1>10. QED
  BY <1>1, <1>4, <1>6, <1>8, <1>9

\* Tickets that go back to the queue are in no match.
LEMMA RequeueElsewhere ==
  ASSUME IInv, NEW R \in SUBSET DOMAIN reservations, Requeue(R), NEW m \in Matches
  PROVE  /\ Untouched(m) /\ DOMAIN tickets' = DOMAIN tickets
         /\ DOMAIN reservations' = DOMAIN reservations \ R
<1> DEFINE S == UNION {reservations[r] : r \in R}
<1>1. \A t \in S : t \in DOMAIN tickets /\ tickets[t].state = "RESERVED"
  BY DEF IInv, ReservationAgreement, HeldBy
<1>2. /\ DOMAIN tickets' = DOMAIN tickets
      /\ \A t \in S : tickets'[t] = Released(tickets[t])
      /\ \A t \in DOMAIN tickets \ S : tickets'[t] = tickets[t]
      /\ UNCHANGED activeByPlayer
  BY <1>1 DEF Requeue, Rewrite
<1>3. /\ DOMAIN reservations' = DOMAIN reservations \ R
      /\ \A r \in DOMAIN reservations' : reservations'[r] = reservations[r]
  BY DEF Requeue, Restrict
<1> HIDE DEF S
<1>4. \A t \in S : tickets'[t].state = "QUEUED"
  BY <1>1, <1>2, ReleasedShape DEF IInv, TypeOK, IsMap
<1>5. \A t \in S : ~InMatch(t, m) /\ ~InMatch(t, m)'
  BY <1>1, <1>4 DEF InMatch
<1>6. \A p, t : Names(p, t)' <=> Names(p, t)
  BY <1>2 DEF Names
<1>7. Untouched(m)
  BY <1>2, <1>3, <1>5, <1>6, LeftAloneByRewrite
<1>8. QED
  BY <1>2, <1>3, <1>7

\* An assignment moves a whole reservation into one match, and each of its
\* tickets keeps its player from queueing.
LEMMA AssignAllMoves ==
  ASSUME IInv, NEW r \in Reservations, NEW n \in Matches, AssignAll(r, n)
  PROVE  /\ DOMAIN tickets' = DOMAIN tickets
         /\ \A m \in Matches : m # n => Untouched(m)
         /\ AssignedTo(n) = {} =>
              AssignedTo(n)' = reservations[r] /\ Blocking(n)' = reservations[r]
         /\ r \in DOMAIN reservations /\ DOMAIN reservations' = DOMAIN reservations \ {r}
<1> DEFINE S == reservations[r]
<1>1. r \in DOMAIN reservations /\ \A t \in S : HeldBy(tickets[t], r)
  BY DEF AssignAll, Outstanding
<1>2. \A t \in S : t \in DOMAIN tickets /\ tickets[t].state = "RESERVED"
  BY <1>1 DEF IInv, ReservationAgreement, HeldBy
<1>3. /\ DOMAIN tickets' = DOMAIN tickets
      /\ \A t \in S : tickets'[t] = Assigned(tickets[t], n)
      /\ \A t \in DOMAIN tickets \ S : tickets'[t] = tickets[t]
      /\ UNCHANGED activeByPlayer
  BY <1>2 DEF AssignAll, Rewrite
<1>4. /\ DOMAIN reservations' = DOMAIN reservations \ {r}
      /\ \A q \in DOMAIN reservations' : reservations'[q] = reservations[q]
  BY DEF AssignAll, DropReservation, Delete, Restrict
<1> HIDE DEF S
<1>5. \A t \in S : /\ tickets'[t].state = "ASSIGNED" /\ tickets'[t].matchID = n
                   /\ tickets'[t].player = tickets[t].player
  BY <1>2, <1>3, AssignedShape DEF IInv, TypeOK, IsMap
<1>6. \A p, t : Names(p, t)' <=> Names(p, t)
  BY <1>3 DEF Names
<1>7. ASSUME NEW m \in Matches, m # n PROVE Untouched(m)
  <2>1. \A t \in S : ~InMatch(t, m) /\ ~InMatch(t, m)'
    BY <1>2, <1>5, <1>7 DEF InMatch
  <2>2. QED
    BY <1>3, <1>4, <1>6, <2>1, LeftAloneByRewrite
<1>8. ASSUME AssignedTo(n) = {}
      PROVE  AssignedTo(n)' = S /\ Blocking(n)' = S
  <2>1. \A t \in DOMAIN tickets \ S :
          ~(tickets'[t].state = "ASSIGNED" /\ tickets'[t].matchID = n)
    BY <1>3, <1>8 DEF AssignedTo
  <2>2. \A t \in S : Names(tickets[t].player, t)
    BY <1>2 DEF IInv, ActiveIndexAgreement, Names
  <2>3. AssignedTo(n)' = S
    BY <1>2, <1>3, <1>5, <2>1 DEF AssignedTo
  <2>4. Blocking(n)' = S
    <3>1. \A t \in S : /\ tickets'[t].player \in DOMAIN activeByPlayer'
                       /\ activeByPlayer'[tickets'[t].player] = t
      BY <1>3, <1>5, <2>2 DEF Names
    <3>2. QED
      BY <1>2, <1>3, <1>5, <2>1, <3>1 DEF Blocking
  <2>5. QED
    BY <2>3, <2>4
<1>9. QED
  BY <1>1, <1>3, <1>4, <1>7, <1>8 DEF S

\* A completion lets the players of one match go, and of no other.
LEMMA CompletionElsewhere ==
  ASSUME NEW n \in Matches, CompleteAssignedTickets(n)
  PROVE  /\ UNCHANGED <<tickets, reservations>>
         /\ \A m \in Matches : m # n => Untouched(m)
         /\ AssignedTo(n)' = AssignedTo(n) /\ Blocking(n)' = {}
<1>1. UNCHANGED <<tickets, reservations>>
  BY DEF CompleteAssignedTickets
<1>2. \A m : AssignedTo(m)' = AssignedTo(m)
  BY <1>1 DEF AssignedTo
<1>3. QED
  BY <1>1, <1>2, CompletionUnblocks DEF Untouched

\* Tickets are never deleted and never change hands.
LEMMA TicketsStayWithTheirPlayers ==
  ASSUME IInv, [Next]_storeVars
  PROVE  TicketsStay
<1> SUFFICES ASSUME NEW t \in DOMAIN tickets
             PROVE  t \in DOMAIN tickets' /\ tickets'[t].player = tickets[t].player
  BY DEF TicketsStay
<1>1. CASE UNCHANGED storeVars
  BY <1>1 DEF storeVars
<1>2. CASE Next
  <2>1. tickets[t] \in Ticket /\ WellFormed(tickets[t])
    BY DEF IInv, TypeOK, IsMap
  <2>2. tickets[t].state = "RESERVED" => t \in reservations[tickets[t].reservationID]
    BY DEF IInv, ReservationAgreement
  <2>3. /\ Cancelled(tickets[t]).player = tickets[t].player
        /\ Released(tickets[t]).player = tickets[t].player
        /\ \A r \in Reservations : Reserved(tickets[t], r).player = tickets[t].player
        /\ \A m \in Matches : Assigned(tickets[t], m).player = tickets[t].player
    BY <2>1 DEF Cancelled, Released, Reserved, Assigned, Ticket
  <2>4. QED
    BY <1>2, <2>2, <2>3, StepOnTicket
<1>3. QED
  BY <1>1, <1>2
===============================================================================
