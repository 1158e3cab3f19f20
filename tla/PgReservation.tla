---------------------------- MODULE PgReservation ----------------------------
(***************************************************************************)
(* The PostgreSQL ticket and match repositories of the matchmaking service *)
(* (internal/matchmaking/repository/postgres), driven by the pipeline of   *)
(* internal/matchmaking/application/worker.go.                             *)
(*                                                                         *)
(* Here a store method is not one step.  It is a READ COMMITTED            *)
(* transaction whose SELECT ... FOR UPDATE takes its rows from a snapshot, *)
(* locks them one by one in id order, waits for each row another           *)
(* transaction holds, and re-checks its WHERE clause on the version it     *)
(* finally locks: a row that no longer qualifies is dropped from the       *)
(* result, although it stays locked.  Recovery uses SKIP LOCKED instead of *)
(* waiting.                                                                *)
(*                                                                         *)
(* The worker draws one reservation id and one match id per attempt, so    *)
(* one id stands for both.  Server allocation only succeeds or fails, and  *)
(* a match goes through CREATED within CreateMatch: nobody but its worker  *)
(* touches a match before it is READY.  The rows start QUEUED.             *)
(***************************************************************************)
EXTENDS FiniteSetsExt, GoMaps, Naturals

CONSTANTS
  Tickets,     \* ticket ids; their order is the order of FOR UPDATE
  Matches,     \* ids of attempts: reservation id and match id
  Workers,     \* matching loops, in one process or in several
  Clients,     \* client transactions, each of which locks one ticket once
  MatchSize,   \* tickets per match (ten in the program)
  MaxCrashes,  \* bound on the worker crashes considered
  None,        \* the NULL id, and no lock holder
  Done         \* a client that has had its transaction

ASSUME TicketsAssumption == Tickets \subseteq Nat /\ IsFiniteSet(Tickets)
ASSUME NobodyAssumption ==
  /\ None \notin Tickets \cup Matches \cup Workers \cup Clients
  /\ Done \notin Tickets
ASSUME TransactionsAssumption == Workers \cap Clients = {}
ASSUME CrashesAssumption == MaxCrashes \in Nat

VARIABLES
  rows,     \* tickets table: ticket -> [state, id, active]
  lock,     \* ticket -> the transaction that holds its row lock
  matches,  \* matches table: match -> [state, roster]
  lapsed,   \* reservations with reservation_expires_at in the past
  worker,   \* worker -> [pc, id, roster, todo, got]
  client,   \* client -> the ticket it has locked, None before, Done after
  crashes

vars == <<rows, lock, matches, lapsed, worker, client, crashes>>

-----------------------------------------------------------------------------
(* Values *)

\* The combinations RestoreTicket accepts.
Row ==
  [state : {"QUEUED"}, id : {None}, active : {TRUE}]
    \cup [state : {"RESERVED"}, id : Matches, active : {TRUE}]
    \cup [state : {"ASSIGNED"}, id : Matches, active : BOOLEAN]
    \cup [state : {"CANCELLED"}, id : {None}, active : {FALSE}]

MatchState == {"ALLOCATING", "READY", "RUNNING", "FINISHED", "FAILED"}

\* The transaction a worker is in, or the point between two transactions.
PC == {"idle", "recover", "pick", "reserve", "create", "allocate", "assign",
       "fail", "releasing", "release"}

\* todo: rows of the statement's snapshot not locked yet; got: rows it returns.
Idle == [pc |-> "idle", id |-> None, roster |-> {}, todo |-> {}, got |-> {}]

Held(x, id) == x.state = "RESERVED" /\ x.id = id

Queued(x) == [x EXCEPT !.state = "QUEUED", !.id = None]

Init ==
  /\ rows = [t \in Tickets |->
               [state |-> "QUEUED", id |-> None, active |-> TRUE]]
  /\ lock = [t \in Tickets |-> None]
  /\ matches = << >>
  /\ lapsed = {}
  /\ worker = [w \in Workers |-> Idle]
  /\ client = [c \in Clients |-> None]
  /\ crashes = 0

-----------------------------------------------------------------------------
(* Transactions *)

At(w, pc) == worker[w].pc = pc
Free(t) == lock[t] = None

\* The transaction of x ends and gives its row locks up.
Unlocked(x) == [t \in Tickets |-> IF lock[t] = x THEN None ELSE lock[t]]

\* A commit that turns the rows of S into After(row).
Rewritten(S, After(_)) ==
  [t \in Tickets |-> IF t \in S THEN After(rows[t]) ELSE rows[t]]

\* ORDER BY id FOR UPDATE: the row to lock next.
NextRows(S) == {t \in S : \A u \in S : t <= u}

\* The rows lockReservation's snapshot returns for reservation id.
ReservationRows(id) == {t \in Tickets : Held(rows[t], id)}

\* Fault: every row of the snapshot is returned, whatever it became.
Fault_StillWanted(w, t) == TRUE

\* The WHERE clause on the version that is locked: ReserveAll selects by
\* ticket id, lockReservation by state and reservation id.
StillWanted(w, t) == At(w, "reserve") \/ Held(rows[t], worker[w].id)

\* lockTicketsByID and lockReservation lock their next row.
LockRow(w) ==
  /\ worker[w].pc \in {"reserve", "assign", "release"}
  /\ \E t \in NextRows(worker[w].todo) :
       /\ Free(t)
       /\ lock' = [lock EXCEPT ![t] = w]
       /\ worker' = [worker EXCEPT
            ![w].todo = @ \ {t},
            ![w].got = IF StillWanted(w, t) THEN @ \cup {t} ELSE @]
  /\ UNCHANGED <<rows, matches, lapsed, client, crashes>>

Ready(w, pc) == At(w, pc) /\ worker[w].todo = {}

\* The worker's transaction ends and the worker goes to pc.
EndTransaction(w, pc) ==
  /\ worker' = [worker EXCEPT ![w].pc = pc, ![w].todo = {}, ![w].got = {}]
  /\ lock' = Unlocked(w)

GoIdle(w) ==
  /\ worker' = [worker EXCEPT ![w] = Idle]
  /\ lock' = Unlocked(w)

-----------------------------------------------------------------------------
(* RecoverExpiredReservations *)

\* Fault: a reservation whose match was stored is left alone.
Fault_ExpiredRows ==
  {t \in Tickets : /\ rows[t].state = "RESERVED"
                   /\ rows[t].id \in lapsed \ DOMAIN matches}

ExpiredRows ==
  {t \in Tickets : rows[t].state = "RESERVED" /\ rows[t].id \in lapsed}

BeginRecovery(w) ==
  /\ At(w, "idle")
  /\ worker' = [worker EXCEPT ![w].pc = "recover", ![w].todo = ExpiredRows]
  /\ UNCHANGED <<rows, lock, matches, lapsed, client, crashes>>

\* ORDER BY reservation_expires_at, id: by id within one reservation.
\* SKIP LOCKED: a locked row is passed over; a free one that changed since
\* the snapshot no longer qualifies.
RecoverRow(w) ==
  /\ At(w, "recover")
  /\ \E t \in worker[w].todo :
       /\ \A u \in worker[w].todo : rows[u].id = rows[t].id => t <= u
       /\ lock' = IF Free(t) THEN [lock EXCEPT ![t] = w] ELSE lock
       /\ worker' = [worker EXCEPT
            ![w].todo = @ \ {t},
            ![w].got = IF Free(t) /\ t \in ExpiredRows THEN @ \cup {t} ELSE @]
  /\ UNCHANGED <<rows, matches, lapsed, client, crashes>>

\* ReleaseExpiredReservation for each row, then the commit.
CommitRecovery(w) ==
  /\ Ready(w, "recover")
  /\ rows' = Rewritten(worker[w].got, Queued)
  /\ EndTransaction(w, "pick")
  /\ UNCHANGED <<matches, lapsed, client, crashes>>

-----------------------------------------------------------------------------
(* ReserveAll *)

\* Ids no attempt has drawn (they are random UUIDs).
FreshIds ==
  {m \in Matches \ (DOMAIN matches \cup lapsed) :
     /\ \A w \in Workers : worker[w].id # m
     /\ \A t \in Tickets : rows[t].id # m}

\* QueueSnapshot and formation: a full roster of tickets that are QUEUED now
\* and may no longer be when they are locked.  Which of them the formation
\* takes is left open.
PickTickets(w) ==
  /\ At(w, "pick")
  /\ \E S \in kSubset(MatchSize, {t \in Tickets : rows[t].state = "QUEUED"}),
        m \in FreshIds :
       worker' = [worker EXCEPT
         ![w] = [Idle EXCEPT !.pc = "reserve", !.id = m, !.roster = S,
                             !.todo = S]]
  /\ UNCHANGED <<rows, lock, matches, lapsed, client, crashes>>

\* ErrNoMatchAvailable, and every other early return of tryPool.
NoMatch(w) ==
  /\ At(w, "pick")
  /\ GoIdle(w)
  /\ UNCHANGED <<rows, matches, lapsed, client, crashes>>

\* Fault: the state of the locked rows is not looked at.
Fault_AllCandidates(S) == TRUE

AllCandidates(S) == \A t \in S : rows[t].state = "QUEUED"

CommitReserve(w) ==
  /\ Ready(w, "reserve")
  /\ AllCandidates(worker[w].got)
  /\ LET Reserve(x) == [x EXCEPT !.state = "RESERVED", !.id = worker[w].id]
     IN  rows' = Rewritten(worker[w].got, Reserve)
  /\ EndTransaction(w, "create")
  /\ UNCHANGED <<matches, lapsed, client, crashes>>

\* Fault: the worker tries the same tickets again.
Fault_ReserveConflict(w) ==
  /\ Ready(w, "reserve")
  /\ ~AllCandidates(worker[w].got)
  /\ worker' = [worker EXCEPT ![w].todo = worker[w].roster, ![w].got = {}]
  /\ lock' = Unlocked(w)
  /\ UNCHANGED <<rows, matches, lapsed, client, crashes>>

\* A ticket stopped being a candidate: rollback.
ReserveConflict(w) ==
  /\ Ready(w, "reserve")
  /\ ~AllCandidates(worker[w].got)
  /\ GoIdle(w)
  /\ UNCHANGED <<rows, matches, lapsed, client, crashes>>

-----------------------------------------------------------------------------
(* Match creation, allocation and assignment *)

\* matches.Create, StartAllocation and matches.Update.
CreateMatch(w) ==
  /\ At(w, "create")
  /\ matches' = Put(matches, worker[w].id,
                    [state |-> "ALLOCATING", roster |-> worker[w].roster])
  /\ worker' = [worker EXCEPT ![w].pc = "allocate"]
  /\ UNCHANGED <<rows, lock, lapsed, client, crashes>>

AllocationFails(w) ==
  /\ At(w, "allocate")
  /\ worker' = [worker EXCEPT ![w].pc = "fail"]
  /\ UNCHANGED <<rows, lock, matches, lapsed, client, crashes>>

\* Allocate returns and AssignReservedTickets takes its snapshot.
BeginAssign(w) ==
  /\ At(w, "allocate")
  /\ worker' = [worker EXCEPT ![w].pc = "assign",
                              ![w].todo = ReservationRows(worker[w].id)]
  /\ UNCHANGED <<rows, lock, matches, lapsed, client, crashes>>

\* lockReservation: an empty result is a conflict.
Locked(S) == S # {}

\* One commit makes the match READY and the locked rows ASSIGNED.  How many
\* rows there are is not compared with the roster.
CommitAssign(w) ==
  /\ Ready(w, "assign")
  /\ Locked(worker[w].got)
  /\ matches' = [matches EXCEPT ![worker[w].id].state = "READY"]
  /\ LET Assign(x) == [x EXCEPT !.state = "ASSIGNED"]
     IN  rows' = Rewritten(worker[w].got, Assign)
  /\ GoIdle(w)
  /\ UNCHANGED <<lapsed, client, crashes>>

AssignConflict(w) ==
  /\ Ready(w, "assign")
  /\ ~Locked(worker[w].got)
  /\ EndTransaction(w, "fail")
  /\ UNCHANGED <<rows, matches, lapsed, client, crashes>>

\* failStoredMatch.
FailMatch(w) ==
  /\ At(w, "fail")
  /\ matches' = [matches EXCEPT ![worker[w].id].state = "FAILED"]
  /\ worker' = [worker EXCEPT ![w].pc = "releasing"]
  /\ UNCHANGED <<rows, lock, lapsed, client, crashes>>

\* ReleaseAll takes its snapshot.
BeginRelease(w) ==
  /\ At(w, "releasing")
  /\ worker' = [worker EXCEPT ![w].pc = "release",
                              ![w].todo = ReservationRows(worker[w].id)]
  /\ UNCHANGED <<rows, lock, matches, lapsed, client, crashes>>

\* An empty result is a conflict, which the worker ignores.
CommitRelease(w) ==
  /\ Ready(w, "release")
  /\ rows' = Rewritten(worker[w].got, Queued)
  /\ GoIdle(w)
  /\ UNCHANGED <<matches, lapsed, client, crashes>>

-----------------------------------------------------------------------------
(* Match service *)

StartMatch(m) ==
  /\ m \in DOMAIN matches
  /\ matches[m].state = "READY"
  /\ matches' = [matches EXCEPT ![m].state = "RUNNING"]
  /\ UNCHANGED <<rows, lock, lapsed, worker, client, crashes>>

\* The rows CompleteMatchAndReleaseTickets deactivates.
AssignedRows(m) ==
  {t \in Tickets : /\ rows[t].state = "ASSIGNED"
                   /\ rows[t].id = m
                   /\ rows[t].active}

\* Fault: the rows affected are not counted.
Fault_EveryTicket(m) == TRUE

\* RowsAffected is compared with the roster's size.
EveryTicket(m) == Cardinality(AssignedRows(m)) = Cardinality(matches[m].roster)

\* The UPDATE waits for its rows.  No other transaction changes an ASSIGNED
\* row, so they are taken together; a wrong count rolls back.
CompleteMatch(m) ==
  /\ m \in DOMAIN matches
  /\ matches[m].state = "RUNNING"
  /\ \A t \in AssignedRows(m) : Free(t)
  /\ EveryTicket(m)
  /\ matches' = [matches EXCEPT ![m].state = "FINISHED"]
  /\ LET Complete(x) == [x EXCEPT !.active = FALSE]
     IN  rows' = Rewritten(AssignedRows(m), Complete)
  /\ UNCHANGED <<lock, lapsed, worker, client, crashes>>

-----------------------------------------------------------------------------
(* Clients, time and crashes *)

\* Cancel selects the ticket FOR UPDATE.  A replayed CreateQueued (ON CONFLICT
\* DO UPDATE) locks it too.
ClientLocks(c, t) ==
  /\ client[c] = None
  /\ Free(t)
  /\ lock' = [lock EXCEPT ![t] = c]
  /\ client' = [client EXCEPT ![c] = t]
  /\ UNCHANGED <<rows, matches, lapsed, worker, crashes>>

CanCancel(x) == x.state \in {"QUEUED", "CANCELLED"}

ClientCancels(c) ==
  /\ client[c] \in Tickets
  /\ CanCancel(rows[client[c]])
  /\ LET Cancel(x) == [x EXCEPT !.state = "CANCELLED", !.id = None,
                                !.active = FALSE]
     IN  rows' = Rewritten({client[c]}, Cancel)
  /\ lock' = Unlocked(c)
  /\ client' = [client EXCEPT ![c] = Done]
  /\ UNCHANGED <<matches, lapsed, worker, crashes>>

\* The replayed creation commits; a refused cancellation rolls back.
ClientLeaves(c) ==
  /\ client[c] \in Tickets
  /\ lock' = Unlocked(c)
  /\ client' = [client EXCEPT ![c] = Done]
  /\ UNCHANGED <<rows, matches, lapsed, worker, crashes>>

Lapse(r) ==
  /\ r \notin lapsed
  /\ \E t \in Tickets : Held(rows[t], r)
  /\ lapsed' = lapsed \cup {r}
  /\ UNCHANGED <<rows, lock, matches, worker, client, crashes>>

\* The worker's process dies: its transaction rolls back, what it committed
\* stays.  A new loop starts with the recovery.
Crash(w) ==
  /\ crashes < MaxCrashes
  /\ ~At(w, "idle")
  /\ GoIdle(w)
  /\ crashes' = crashes + 1
  /\ UNCHANGED <<rows, matches, lapsed, client>>

-----------------------------------------------------------------------------
WorkerStep(w) ==
  \/ BeginRecovery(w) \/ RecoverRow(w) \/ CommitRecovery(w)
  \/ PickTickets(w) \/ NoMatch(w)
  \/ LockRow(w) \/ CommitReserve(w) \/ ReserveConflict(w)
  \/ CreateMatch(w) \/ AllocationFails(w) \/ BeginAssign(w)
  \/ CommitAssign(w) \/ AssignConflict(w)
  \/ FailMatch(w) \/ BeginRelease(w) \/ CommitRelease(w)

ClientStep(c) ==
  (\E t \in Tickets : ClientLocks(c, t)) \/ ClientCancels(c) \/ ClientLeaves(c)

Next ==
  \/ \E w \in Workers : WorkerStep(w) \/ Crash(w)
  \/ \E c \in Clients : ClientStep(c)
  \/ \E m \in Matches : StartMatch(m) \/ CompleteMatch(m) \/ Lapse(m)

Spec == Init /\ [][Next]_vars

\* The worker loops run, an open transaction ends, and time passes.
LiveSpec ==
  /\ Spec
  /\ \A w \in Workers : WF_vars(WorkerStep(w))
  /\ \A c \in Clients : WF_vars(ClientCancels(c) \/ ClientLeaves(c))
  /\ \A m \in Matches : WF_vars(Lapse(m))

-----------------------------------------------------------------------------
(* Properties *)

\* Every table and every transaction holds values of its type.
TypeOK ==
  /\ rows \in [Tickets -> Row]
  /\ lock \in [Tickets -> Workers \cup Clients \cup {None}]
  /\ IsMap(matches, Matches,
           [state : MatchState, roster : SUBSET Tickets])
  /\ lapsed \subseteq Matches
  /\ worker \in [Workers -> [pc : PC, id : Matches \cup {None},
                             roster : SUBSET Tickets, todo : SUBSET Tickets,
                             got : SUBSET Tickets]]
  /\ client \in [Clients -> Tickets \cup {None, Done}]
  /\ crashes \in 0 .. MaxCrashes

Open(m) == m \in DOMAIN matches /\ matches[m].state \in {"READY", "RUNNING"}

\* An ASSIGNED ticket that still blocks its player is on the roster of a
\* match that is READY or RUNNING, whatever transactions crossed each other.
AssignedToLivingMatch ==
  \A t \in Tickets :
    rows[t].state = "ASSIGNED" /\ rows[t].active =>
      Open(rows[t].id) /\ t \in matches[rows[t].id].roster

\* CompleteMatchAndReleaseTickets is all or nothing: a FINISHED match has
\* released its whole roster, and only a FINISHED match has released a ticket.
CompletionAllOrNothing ==
  /\ \A m \in DOMAIN matches : matches[m].state = "FINISHED" =>
       \A t \in matches[m].roster :
         rows[t] = [state |-> "ASSIGNED", id |-> m, active |-> FALSE]
  /\ \A t \in Tickets : rows[t].state = "ASSIGNED" /\ ~rows[t].active =>
       matches[rows[t].id].state = "FINISHED"

\* A match assigned before its reservation lapsed has every ticket of its
\* roster: the order of row locks and the re-checks alone lose none.
OnTimeMatchIsComplete ==
  \A m \in DOMAIN matches :
    Open(m) /\ m \notin lapsed =>
      \A t \in matches[m].roster : rows[t].state = "ASSIGNED" /\ rows[t].id = m

\* No commit overwrites what another transaction decided about a ticket: an
\* ASSIGNED row keeps its match and a CANCELLED row stays cancelled.
KeepsDecisions(t) ==
  /\ rows[t].state = "ASSIGNED" =>
       rows'[t].state = "ASSIGNED" /\ rows'[t].id = rows[t].id
  /\ rows[t].state = "CANCELLED" => rows'[t] = rows[t]
NoLostUpdate == [][\A t \in Tickets : KeepsDecisions(t)]_vars

\* Workers neither wait for each other's row locks nor contend for the same
\* tickets for ever: every attempt ends, whoever crashes or cancels.
AttemptsEnd == \A w \in Workers : ~At(w, "idle") ~> At(w, "idle")

\* Whatever its worker was doing when it died, a lapsed reservation gives its
\* tickets back (or they were assigned just in time).
ExpiredReservationsRecover ==
  \A t \in Tickets, m \in Matches :
    Held(rows[t], m) /\ m \in lapsed ~> ~Held(rows[t], m)

\* No player is on the roster of two matches that are not over.
NoTicketInTwoOpenMatches ==
  \A t \in Tickets, m, n \in DOMAIN matches :
    Open(m) /\ Open(n) /\ t \in matches[m].roster /\ t \in matches[n].roster
    => m = n
=============================================================================
