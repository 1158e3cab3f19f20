----------------------------- MODULE RedisQueue ------------------------------
(***************************************************************************)
(* The Redis keys of the matchmaking queue and the commands that change    *)
(* them (internal/matchmaking/repository/redis, queue.go and scripts.go).  *)
(* A Lua script and a MULTI/EXEC pipeline are one step each; two commands  *)
(* sent one after the other are two.                                       *)
(*                                                                         *)
(* A ticket belongs to one pool for ever, so the pools are the one set of  *)
(* tickets that are in a pool.  An entry of the expiry index is stored     *)
(* with the reservation whose deadline is its score.  The hash of match    *)
(* ids is written and never read, and the LIMIT of 1000 is never reached.  *)
(***************************************************************************)
EXTENDS FiniteSetsExt, GoMaps, Naturals

CONSTANTS
  Tickets,       \* ticket ids
  Reservations,  \* reservation ids, which also name the match of the attempt
  None           \* no reservation

ASSUME NoneAssumption == None \notin Reservations

VARIABLES
  states,        \* hash: ticket -> the last state written for it
  known,         \* tickets with a snapshot, a pool name and a score
  pools,         \* sorted sets: tickets that can be drawn
  reservations,  \* hash: ticket -> the reservation that holds it
  expiry,        \* sorted set: ticket -> reservation whose deadline it waits for
  members        \* set per reservation: its tickets; gone after its TTL

redisVars == <<states, known, pools, reservations, expiry, members>>

RedisInit ==
  /\ states = << >>
  /\ known = {}
  /\ pools = {}
  /\ reservations = << >>
  /\ expiry = << >>
  /\ members = [r \in Reservations |-> {}]

\* FLUSHALL, or the loss of an instance without persistence.
RedisEmptied ==
  /\ states' = << >>
  /\ known' = {}
  /\ pools' = {}
  /\ reservations' = << >>
  /\ expiry' = << >>
  /\ members' = [r \in Reservations |-> {}]

-----------------------------------------------------------------------------
(* Hashes *)

InState(t, s) == t \in DOMAIN states /\ states[t] = s

\* HGETALL of the reservations, filtered by value.
HeldBy(r) == {t \in DOMAIN reservations : reservations[t] = r}

ReservedBy(t, r) == InState(t, "RESERVED") /\ t \in HeldBy(r)

-----------------------------------------------------------------------------
(* The scripts *)

\* All of S is QUEUED and r is new, or this is a repetition of the call that
\* reserved S.  Anything in between is a conflict.
CanReserve(S, r) ==
  /\ S \subseteq known
  /\ \/ HeldBy(r) = {} /\ \A t \in S : InState(t, "QUEUED")
     \/ HeldBy(r) = S /\ \A t \in S : InState(t, "RESERVED")

ReserveScript(S, r) ==
  /\ CanReserve(S, r)
  /\ pools' = pools \ S
  /\ states' = PutAll(states, S, "RESERVED")
  /\ reservations' = PutAll(reservations, S, r)
  /\ expiry' = PutAll(expiry, S, r)
  /\ members' = [members EXCEPT ![r] = @ \cup S]
  /\ UNCHANGED known

\* The tickets of r: its set or, when that has expired, the hash.
TicketsOf(r) == IF members[r] # {} THEN members[r] ELSE HeldBy(r)

\* The tickets of S may be drawn again.
Requeue(S) ==
  /\ states' = PutAll(states, S, "QUEUED")
  /\ reservations' = DeleteAll(reservations, S)
  /\ pools' = pools \cup S

\* One ticket that moved on makes the whole release a conflict, without effect.
CanRelease(r) == \A t \in TicketsOf(r) : t \in known /\ ReservedBy(t, r)

ReleaseScript(r) ==
  /\ CanRelease(r)
  /\ Requeue(TicketsOf(r))
  /\ expiry' = DeleteAll(expiry, TicketsOf(r))
  /\ members' = [members EXCEPT ![r] = {}]
  /\ UNCHANGED known

\* A ticket that moved on is passed over.
FinalizeScript(r) ==
  LET assigned == {t \in TicketsOf(r) : ReservedBy(t, r)} IN
  /\ states' = PutAll(states, assigned, "ASSIGNED")
  /\ reservations' = DeleteAll(reservations, assigned)
  /\ expiry' = DeleteAll(expiry, assigned)
  /\ members' = [members EXCEPT ![r] = {}]
  /\ UNCHANGED <<known, pools>>

\* Fault: expired tickets leave the index and nothing else happens.
Fault_RecoverScript(lapsed) ==
  /\ expiry' = DeleteAll(expiry, {t \in DOMAIN expiry : expiry[t] \in lapsed})
  /\ UNCHANGED <<states, known, pools, reservations, members>>

RecoverScript(lapsed) ==
  LET due == {t \in DOMAIN expiry : expiry[t] \in lapsed}
      back == {t \in due : /\ InState(t, "RESERVED")
                           /\ t \in DOMAIN reservations
                           /\ t \in known}
  IN  /\ Requeue(back)
      /\ members' = [r \in Reservations |->
                       members[r] \ {t \in back : reservations[t] = r}]
      /\ expiry' = DeleteAll(expiry, due)
      /\ UNCHANGED known

-----------------------------------------------------------------------------
(* The pipelines *)

\* Fault: a reserved ticket is put into its pool like a queued one.
Fault_UpsertTicket(t, row) ==
  /\ known' = known \cup {t}
  /\ states' = Put(states, t, row.state)
  /\ pools' = pools \cup {t}
  /\ reservations' = Delete(reservations, t)
  /\ expiry' = Delete(expiry, t)
  /\ UNCHANGED members

\* UpsertTicket: what row says of t, whatever Redis held before.  The set of
\* a former reservation keeps the ticket.
UpsertTicket(t, row) ==
  /\ row.state \in {"QUEUED", "RESERVED"}
  /\ known' = known \cup {t}
  /\ states' = Put(states, t, row.state)
  /\ IF row.state = "QUEUED"
     THEN /\ pools' = pools \cup {t}
          /\ reservations' = Delete(reservations, t)
          /\ expiry' = Delete(expiry, t)
          /\ UNCHANGED members
     ELSE /\ pools' = pools \ {t}
          /\ reservations' = Put(reservations, t, row.id)
          /\ expiry' = Put(expiry, t, row.id)
          /\ members' = [members EXCEPT ![row.id] = @ \cup {t}]

\* Fault: the index keeps the deadline of the ticket.
Fault_RemoveTicket(t, state, inPool, heldBy) ==
  /\ pools' = IF inPool THEN pools \ {t} ELSE pools
  /\ members' = [r \in Reservations |->
                   IF r = heldBy THEN members[r] \ {t} ELSE members[r]]
  /\ states' = Put(states, t, state)
  /\ reservations' = Delete(reservations, t)
  /\ UNCHANGED <<known, expiry>>

\* The pipeline of RemoveTicket, with the pool and the reservation read before.
RemoveTicket(t, state, inPool, heldBy) ==
  /\ pools' = IF inPool THEN pools \ {t} ELSE pools
  /\ members' = [r \in Reservations |->
                   IF r = heldBy THEN members[r] \ {t} ELSE members[r]]
  /\ states' = Put(states, t, state)
  /\ reservations' = Delete(reservations, t)
  /\ expiry' = Delete(expiry, t)
  /\ UNCHANGED known

\* PEXPIRE: the set of a reservation disappears after its deadline.
ExpireSet(r) ==
  /\ members[r] # {}
  /\ members' = [members EXCEPT ![r] = {}]
  /\ UNCHANGED <<states, known, pools, reservations, expiry>>

-----------------------------------------------------------------------------
(* Agreement of the keys *)

\* The keys agree, whatever commands were interleaved, repeated or given up:
\* exactly the RESERVED tickets have a reservation, with its deadline in the
\* index, so that the TTL finds them; every QUEUED ticket is in its pool and
\* no RESERVED one is.
RedisAgrees ==
  /\ DOMAIN reservations = {t \in Tickets : InState(t, "RESERVED")}
  /\ expiry = reservations
  /\ \A t \in Tickets :
       /\ InState(t, "QUEUED") => t \in pools
       /\ InState(t, "RESERVED") => t \notin pools
=============================================================================
