----------------------------- MODULE RedisStore ------------------------------
(***************************************************************************)
(* The ticket store of the deployed service: PostgreSQL keeps the tickets  *)
(* and Redis the queue (internal/matchmaking/repository/redis/store.go),   *)
(* used by ticket requests and by the workers of one process, which        *)
(* rebuilds the queue when it starts (cmd/matchmaking-service/main.go).    *)
(*                                                                         *)
(* The two databases are updated one after the other.  Between the two     *)
(* updates anything else may happen, the process may die, and a call may   *)
(* fail, before or after the database did what it was asked; the Redis     *)
(* client repeats a command whose reply it did not get.                    *)
(*                                                                         *)
(* A PostgreSQL method is one step here (PgReservation.tla takes it        *)
(* apart).  Every ticket has its own player.  The completion of a match    *)
(* touches no queue and is left out.                                       *)
(***************************************************************************)
EXTENDS RedisQueue

CONSTANTS
  Workers,    \* matching loops of the process
  Clients,    \* ticket requests served at the same time
  MatchSize,  \* tickets per match (ten in the program)
  MaxFaults   \* bound on failed calls and restarts

VARIABLES
  rows,      \* tickets table: ticket -> [state, id]
  lapsed,    \* reservations whose deadline is past
  worker,    \* worker -> [pc, id, roster]
  client,    \* client -> [pc, ticket, row, pool, held]
  boot,      \* [pc, todo]: the rebuild, "up" when it is over
  accepted,  \* history: tickets whose creation was answered with success
  faults

vars == <<redisVars, rows, lapsed, worker, client, boot, accepted, faults>>

-----------------------------------------------------------------------------
(* Values *)

Absent == [state |-> "ABSENT", id |-> None]

\* The combinations RestoreTicket accepts, and no row.
Row ==
  {Absent} \cup [state : {"QUEUED", "CANCELLED"}, id : {None}]
           \cup [state : {"RESERVED", "ASSIGNED"}, id : Reservations]

WorkerPC == {"idle", "recover", "pick", "reserve", "reservePg", "make",
             "assign", "finalize", "release", "releaseRedis"}

ClientPC == {"idle", "get", "upsert", "look", "remove"}

BootPC == {"recoverPg", "recoverRedis", "read", "restore", "up"}

IdleWorker == [pc |-> "idle", id |-> None, roster |-> {}]

IdleClient ==
  [pc |-> "idle", ticket |-> None, row |-> Absent, pool |-> FALSE, held |-> None]

Up == [pc |-> "up", todo |-> {}]

Init ==
  /\ RedisInit
  /\ rows = [t \in Tickets |-> Absent]
  /\ lapsed = {}
  /\ worker = [w \in Workers |-> IdleWorker]
  /\ client = [c \in Clients |-> IdleClient]
  /\ boot = [pc |-> "recoverPg", todo |-> {}]
  /\ accepted = {}
  /\ faults = 0

Works == UNCHANGED faults
Fails == faults < MaxFaults /\ faults' = faults + 1

InTable(S) == {t \in Tickets : rows[t].state \in S}

\* Rows of S are updated to state s of reservation or match id.
Updated(S, s, id) ==
  [t \in Tickets |-> IF t \in S THEN [state |-> s, id |-> id] ELSE rows[t]]

ExpiredRows == {t \in InTable({"RESERVED"}) : rows[t].id \in lapsed}

ReservationRows(id) == {t \in InTable({"RESERVED"}) : rows[t].id = id}

-----------------------------------------------------------------------------
(* Workers *)

Serving == boot = Up

At(w, pc) == Serving /\ worker[w].pc = pc

GoTo(w, pc) == worker' = [worker EXCEPT ![w].pc = pc]

GoIdle(w) == worker' = [worker EXCEPT ![w] = IdleWorker]

\* Store.RecoverExpiredReservations, PostgreSQL first.
RecoverPg(w) ==
  /\ At(w, "idle")
  /\ rows' = Updated(ExpiredRows, "QUEUED", None)
  /\ \/ Works /\ GoTo(w, "recover")
     \/ Fails /\ UNCHANGED worker
  /\ UNCHANGED <<redisVars, lapsed, client, boot, accepted>>

RecoverRedis(w) ==
  /\ At(w, "recover")
  /\ \/ Works /\ RecoverScript(lapsed) /\ GoTo(w, "pick")
     \/ Fails /\ UNCHANGED redisVars /\ GoIdle(w)
  /\ UNCHANGED <<rows, lapsed, client, boot, accepted>>

\* Ids no attempt has drawn.
FreshIds ==
  {r \in Reservations \ lapsed :
     /\ \A w \in Workers : worker[w].id # r
     /\ \A c \in Clients : client[c].row.id # r
     /\ \A t \in Tickets : rows[t].id # r
     /\ HeldBy(r) = {} /\ members[r] = {}}

\* QueueSnapshot reads the pool; the states are not asked.
PickTickets(w) ==
  /\ At(w, "pick")
  /\ \E S \in kSubset(MatchSize, pools), r \in FreshIds :
       worker' = [worker EXCEPT ![w] = [pc |-> "reserve", id |-> r, roster |-> S]]
  /\ Works
  /\ UNCHANGED <<redisVars, rows, lapsed, client, boot, accepted>>

NoMatch(w) ==
  /\ At(w, "pick")
  /\ GoIdle(w)
  /\ Works
  /\ UNCHANGED <<redisVars, rows, lapsed, client, boot, accepted>>

\* Store.ReserveAll: first in Redis.  When the reply is lost, the client runs
\* the script again or gives up.
ReserveInRedis(w) ==
  /\ At(w, "reserve")
  /\ ReserveScript(worker[w].roster, worker[w].id)
  /\ \/ Works /\ GoTo(w, "reservePg")
     \/ Fails /\ (UNCHANGED worker \/ GoIdle(w))
  /\ UNCHANGED <<rows, lapsed, client, boot, accepted>>

RedisRefuses(w) ==
  /\ At(w, "reserve")
  /\ (Works /\ ~CanReserve(worker[w].roster, worker[w].id)) \/ Fails
  /\ GoIdle(w)
  /\ UNCHANGED <<redisVars, rows, lapsed, client, boot, accepted>>

\* Fault: PostgreSQL trusts the reservation made in Redis.
Fault_AllCandidates(S) == TRUE

AllCandidates(S) == S \subseteq InTable({"QUEUED"})

\* Then in PostgreSQL, which may commit without the reply coming through.
ReserveInPg(w) ==
  /\ At(w, "reservePg")
  /\ AllCandidates(worker[w].roster)
  /\ rows' = Updated(worker[w].roster, "RESERVED", worker[w].id)
  /\ \/ Works /\ GoTo(w, "make")
     \/ Fails /\ GoTo(w, "releaseRedis")
  /\ UNCHANGED <<redisVars, lapsed, client, boot, accepted>>

\* PostgreSQL rejects: the reservation in Redis is rolled back.
PgRefuses(w) ==
  /\ At(w, "reservePg")
  /\ (Works /\ ~AllCandidates(worker[w].roster)) \/ Fails
  /\ GoTo(w, "releaseRedis")
  /\ UNCHANGED <<redisVars, rows, lapsed, client, boot, accepted>>

\* The release in Redis, whose error is logged or ignored.
ReleaseInRedis(w) ==
  /\ At(w, "releaseRedis")
  /\ \/ Works /\ ReleaseScript(worker[w].id)
     \/ Works /\ ~CanRelease(worker[w].id) /\ UNCHANGED redisVars
     \/ Fails /\ UNCHANGED redisVars
  /\ GoIdle(w)
  /\ UNCHANGED <<rows, lapsed, client, boot, accepted>>

\* The match is stored and a server allocated, or one of the two fails.
MakeMatch(w) ==
  /\ At(w, "make")
  /\ GoTo(w, "assign") \/ GoTo(w, "release")
  /\ Works
  /\ UNCHANGED <<redisVars, rows, lapsed, client, boot, accepted>>

\* AssignReservedTickets of the match store.
AssignInPg(w) ==
  /\ At(w, "assign")
  /\ ReservationRows(worker[w].id) # {}
  /\ rows' = Updated(ReservationRows(worker[w].id), "ASSIGNED", worker[w].id)
  /\ \/ Works /\ GoTo(w, "finalize")
     \/ Fails /\ GoTo(w, "release")
  /\ UNCHANGED <<redisVars, lapsed, client, boot, accepted>>

AssignRefused(w) ==
  /\ At(w, "assign")
  /\ (Works /\ ReservationRows(worker[w].id) = {}) \/ Fails
  /\ GoTo(w, "release")
  /\ UNCHANGED <<redisVars, rows, lapsed, client, boot, accepted>>

\* FinalizeAssignment, whose error is only logged.
Finalize(w) ==
  /\ At(w, "finalize")
  /\ \/ Works /\ FinalizeScript(worker[w].id)
     \/ Fails /\ UNCHANGED redisVars
  /\ GoIdle(w)
  /\ UNCHANGED <<rows, lapsed, client, boot, accepted>>

\* Store.ReleaseAll: an error of PostgreSQL leaves Redis as it is.
ReleaseInPg(w) ==
  /\ At(w, "release")
  /\ \/ /\ ReservationRows(worker[w].id) # {}
        /\ rows' = Updated(ReservationRows(worker[w].id), "QUEUED", None)
        /\ (Works /\ GoTo(w, "releaseRedis")) \/ (Fails /\ GoIdle(w))
     \/ /\ (Works /\ ReservationRows(worker[w].id) = {}) \/ Fails
        /\ GoIdle(w)
        /\ UNCHANGED rows
  /\ UNCHANGED <<redisVars, lapsed, client, boot, accepted>>

-----------------------------------------------------------------------------
(* Ticket requests *)

ClientAt(c, pc) == Serving /\ client[c].pc = pc

Finish(c) == client' = [client EXCEPT ![c] = IdleClient]

\* CreateQueued: the row is inserted, or it is there already under this key.
InsertTicket(c, t) ==
  /\ ClientAt(c, "idle")
  /\ rows' = IF rows[t] = Absent THEN Updated({t}, "QUEUED", None) ELSE rows
  /\ client' = [client EXCEPT ![c].pc = "get", ![c].ticket = t]
  /\ Works
  /\ UNCHANGED <<redisVars, lapsed, worker, boot, accepted>>

\* The row is read back in a statement of its own.
GetTicket(c) ==
  /\ ClientAt(c, "get")
  /\ LET row == rows[client[c].ticket] IN
       client' = [client EXCEPT
         ![c].row = row,
         ![c].pc = IF row.state \in {"QUEUED", "RESERVED"} THEN "upsert" ELSE "look"]
  /\ Works
  /\ UNCHANGED <<redisVars, rows, lapsed, worker, boot, accepted>>

Upsert(c) ==
  /\ ClientAt(c, "upsert")
  /\ UpsertTicket(client[c].ticket, client[c].row)
  /\ accepted' = accepted \cup {client[c].ticket}
  /\ Finish(c)
  /\ Works
  /\ UNCHANGED <<rows, lapsed, worker, boot>>

\* Cancel: first in PostgreSQL; a repeated cancellation succeeds again.  The
\* worker cancels the tickets of banned players the same way.
CancelInPg(c, t) ==
  /\ ClientAt(c, "idle")
  /\ rows[t].state \in {"QUEUED", "CANCELLED"}
  /\ rows' = Updated({t}, "CANCELLED", None)
  /\ client' = [client EXCEPT ![c].pc = "look", ![c].ticket = t,
                              ![c].row = rows'[t]]
  /\ Works
  /\ UNCHANGED <<redisVars, lapsed, worker, boot, accepted>>

\* RemoveTicket reads the pool and the reservation of the ticket, one after
\* the other, and takes a failed read for an absent entry.
Look(c) ==
  /\ ClientAt(c, "look")
  /\ LET t == client[c].ticket
         heldBy == IF t \in DOMAIN reservations THEN reservations[t] ELSE None
         Reads(p, h) == client' = [client EXCEPT
           ![c].pc = "remove", ![c].pool = p, ![c].held = h]
     IN \/ Works /\ Reads(t \in known, heldBy)
        \/ Fails /\ (Reads(FALSE, heldBy) \/ Reads(t \in known, None))
  /\ UNCHANGED <<redisVars, rows, lapsed, worker, boot, accepted>>

Remove(c) ==
  /\ ClientAt(c, "remove")
  /\ RemoveTicket(client[c].ticket, client[c].row.state, client[c].pool,
                  client[c].held)
  /\ Finish(c)
  /\ Works
  /\ UNCHANGED <<rows, lapsed, worker, boot, accepted>>

\* A call of the request fails, or its context is cancelled.
AbortRequest(c) ==
  /\ Serving /\ client[c] # IdleClient
  /\ Finish(c)
  /\ Fails
  /\ UNCHANGED <<redisVars, rows, lapsed, worker, boot, accepted>>

-----------------------------------------------------------------------------
(* Start-up and time *)

\* Store.Rebuild.  A failed call ends the process, which is Restart.
RebuildRecoversPg ==
  /\ boot.pc = "recoverPg"
  /\ rows' = Updated(ExpiredRows, "QUEUED", None)
  /\ boot' = [boot EXCEPT !.pc = "recoverRedis"]
  /\ UNCHANGED <<redisVars, lapsed, worker, client, accepted, faults>>

RebuildRecoversRedis ==
  /\ boot.pc = "recoverRedis"
  /\ RecoverScript(lapsed)
  /\ boot' = [boot EXCEPT !.pc = "read"]
  /\ UNCHANGED <<rows, lapsed, worker, client, accepted, faults>>

\* ActiveTickets.
RebuildReads ==
  /\ boot.pc = "read"
  /\ boot' = [pc |-> "restore", todo |-> InTable({"QUEUED", "RESERVED"})]
  /\ UNCHANGED <<redisVars, rows, lapsed, worker, client, accepted, faults>>

\* The rows do not change before the service is up.
RebuildRestores(t) ==
  /\ boot.pc = "restore"
  /\ t \in boot.todo
  /\ UpsertTicket(t, rows[t])
  /\ boot' = [boot EXCEPT !.todo = @ \ {t}]
  /\ UNCHANGED <<rows, lapsed, worker, client, accepted, faults>>

RebuildEnds ==
  /\ boot.pc = "restore"
  /\ boot.todo = {}
  /\ boot' = Up
  /\ UNCHANGED <<redisVars, rows, lapsed, worker, client, accepted, faults>>

\* The process dies and starts again; Redis may have lost its data meanwhile.
Restart ==
  /\ Fails
  /\ worker' = [w \in Workers |-> IdleWorker]
  /\ client' = [c \in Clients |-> IdleClient]
  /\ boot' = [pc |-> "recoverPg", todo |-> {}]
  /\ RedisEmptied \/ UNCHANGED redisVars
  /\ UNCHANGED <<rows, lapsed, accepted>>

\* The deadline of a reservation passes.
Lapse(r) ==
  /\ r \notin lapsed
  /\ HeldBy(r) # {} \/ ReservationRows(r) # {}
  /\ lapsed' = lapsed \cup {r}
  /\ UNCHANGED <<redisVars, rows, worker, client, boot, accepted, faults>>

SetExpires(r) ==
  /\ r \in lapsed
  /\ ExpireSet(r)
  /\ UNCHANGED <<rows, lapsed, worker, client, boot, accepted, faults>>

-----------------------------------------------------------------------------
WorkerStep(w) ==
  \/ RecoverPg(w) \/ RecoverRedis(w) \/ PickTickets(w) \/ NoMatch(w)
  \/ ReserveInRedis(w) \/ RedisRefuses(w) \/ ReserveInPg(w) \/ PgRefuses(w)
  \/ MakeMatch(w) \/ AssignInPg(w) \/ AssignRefused(w) \/ Finalize(w)
  \/ ReleaseInPg(w) \/ ReleaseInRedis(w)

ClientStep(c) == GetTicket(c) \/ Upsert(c) \/ Look(c) \/ Remove(c)

Rebuild ==
  \/ RebuildRecoversPg \/ RebuildRecoversRedis \/ RebuildReads
  \/ \E t \in Tickets : RebuildRestores(t)
  \/ RebuildEnds

Next ==
  \/ \E w \in Workers : WorkerStep(w)
  \/ \E c \in Clients :
       \/ \E t \in Tickets : InsertTicket(c, t) \/ CancelInPg(c, t)
       \/ ClientStep(c)
       \/ AbortRequest(c)
  \/ \E r \in Reservations : Lapse(r) \/ SetExpires(r)
  \/ Rebuild
  \/ Restart

Spec == Init /\ [][Next]_vars

-----------------------------------------------------------------------------
(* Properties *)

\* The table, the workers and the requests hold values of their types.
TypeOK ==
  /\ rows \in [Tickets -> Row]
  /\ lapsed \subseteq Reservations
  /\ worker \in [Workers -> [pc : WorkerPC, id : Reservations \cup {None},
                             roster : SUBSET Tickets]]
  /\ client \in [Clients -> [pc : ClientPC, ticket : Tickets \cup {None},
                             row : Row, pool : BOOLEAN,
                             held : Reservations \cup {None}]]
  /\ boot \in [pc : BootPC, todo : SUBSET Tickets]
  /\ accepted \subseteq Tickets

\* PostgreSQL decides, whatever Redis shows: a reservation that has not
\* lapsed keeps its whole roster in the table until its worker assigns or
\* releases it, even when the queue offers the same tickets to the others.
LiveReservationIsWhole ==
  \A w \in Workers :
    worker[w].pc \in {"make", "assign"} /\ worker[w].id \notin lapsed =>
      ReservationRows(worker[w].id) = worker[w].roster

\* A ticket that Redis still offers although it was cancelled or matched (a
\* failed removal, a late update, a lost reply) is never matched again.
Decided(t) == rows[t].state \in {"CANCELLED", "ASSIGNED"}
DecisionsStand == [][\A t \in Tickets : Decided(t) => rows'[t] = rows[t]]_vars

\* A ticket whose creation was answered with success is not forgotten: while
\* it waits in PostgreSQL it is in its pool or in the expiry index, which
\* gives it back, through lost replies, failed rollbacks and late updates.
NoTicketForgotten ==
  Serving => \A t \in accepted :
    rows[t].state \in {"QUEUED", "RESERVED"} => t \in pools \cup DOMAIN expiry

\* When a rebuild ends, every waiting ticket can be drawn and every
\* reservation of the table holds its tickets in Redis too, even after Redis
\* lost all its data or the process died in the middle of an update.
RebuildIsComplete ==
  [][RebuildEnds => \A t \in Tickets :
       /\ rows[t].state = "QUEUED" => InState(t, "QUEUED") /\ t \in pools
       /\ rows[t].state = "RESERVED" => ReservedBy(t, rows[t].id)]_vars
=============================================================================
