# A TLA+ model of MatchMind

MatchMind groups players into ten-player matches, gives each match a game
server, and settles the match afterwards. It is five Go services: player,
matchmaking, simulation, agent and an HTTP gateway. This directory holds the
TLA+ modules that model its core, the TLC configurations that check them on
small instances, and the TLAPS proofs about eight of its parts. `PROJECT.json`
maps every definition to the lines it models and lists runs, mutants, findings,
hazards and theorems.

Run `tlc -config X.cfg M.tla` for a pair of the table under *Runs*, and
`tlapm M.tla` for each `M_proofs`.

## 1. Inventory

Paths are relative to `src/internal/`.

| Component | State | Operations | What is hard | What makes it correct |
|---|---|---|---|---|
| Ticket store, memory (`matchmaking/repository/memory/ticket_store.go`, `domain/ticket.go`) | tickets, active ticket per player, create and cancel keys, pools, reservations with a deadline | CreateQueued, Cancel, ReserveAll, ReleaseAll, AssignAll, CompleteAssignedTickets, RecoverExpiredReservations | seven tables changed together; calls on a reservation arrive late; retried requests | the tables agree; a reservation's tickets move together; one waiting ticket per player |
| Match store, memory (`match_store.go`, `domain/match.go`) | match id to match with revision | Create, Update (compare-and-swap on the revision) | lost updates between requests and worker | no backward move; the first result stays |
| Local allocator (`application/local_allocator.go`) | match id to allocation | Capacities, Allocate, Release | capacity is read long before it is used | every server in use belongs to a match that needs it |
| Matching worker (`application/worker.go`) | local variables of `tryPool` | RunOnce: recover, list pools, filter, select, reserve, create, allocate, assign, publish | a pipeline of ten calls with clean-up after each failure; other workers, requests and deadlines in between | no half-made match, no leak, no player in two matches |
| Match service (`application/match_service.go`) | none | StartMatch, CompleteMatch | cancelled contexts between three stores; competing results | success means settled; the first result stays; no completion is refused because of another |
| Ticket service (`application/ticket_service.go`) | none | CreateTicket, GetTicket, CancelTicket | the ban flag lives in another service; repeated requests | a banned player's ticket goes if a snapshot reaches it; a repeated request does no harm |
| PostgreSQL stores (`repository/postgres`) | tables `tickets`, `matches`, row locks | the same methods as transactions | READ COMMITTED snapshots, row-lock order, SKIP LOCKED, crashes | atomic per reservation; no deadlock; recovery |
| Redis queue (`repository/redis`) | a copy of the queue beside PostgreSQL: states, pools, reservations, expiry index | CreateQueued, Cancel, ReserveAll, ReleaseAll, AssignAll, recovery, Rebuild | two databases updated one after the other; lost replies; restarts | PostgreSQL decides; the keys agree; no accepted ticket is forgotten; a rebuild restores the queue |
| Policy registry (`application/policy_manager.go`, `operations_service.go`) | policies, one active experiment | ActivateApprovedPolicy, StopExperiment, SelectPolicy | two lock sections per call; lost at restart | what runs is what was approved |
| Agent service (`agent/`) | analysis runs, policy proposals | RunAnalysis, Review, Activate, Rollback, start-up recovery | RPC between two compare-and-swaps, time-outs, retries, restarts | runs end once; decisions stand; interrupted steps can be retried |
| Simulation (`simulation/`) | results, a mutex | SimulateMatch: start, play, rate, complete, store | a saga of three services with no log | a finished ranked match is rated; a whole match that is asked for again finishes |
| Player and rating (`player/`, `rating/`) | players, bans, latencies, rating history | CreatePlayer, SetPlayerBan, UpdateRegionLatency, RecordMatchResult | rows read and written in two statements; ten ratings read, computed and compared at once; SERIALIZABLE transaction with an advisory lock | a ban stands; each match counts once, for all its players |
| Matching engine (`matchmaking/engine`) | none | candidates, teams (greedy, beam), quality, region | search limits; only the oldest ticket is an anchor | limits hold, parties stay together, the searches miss nothing they promise to find |
| Match analysis (`application/analysis_service.go`, `agent/application/service.go`) | none: it reads finished matches | analysis, replay under a candidate policy, candidate, risk report | tickets replayed out of their surroundings, at another time; matches without a replay | a replay finds the match again; a report that passes speaks for its whole sample; the candidate is a valid policy |
| Agones allocator (`matchmaking/gateway/agones`) | labels in Kubernetes | Allocate, Release | an external system | as the local one |
| Gateway (`api/transport/http`) | none | HTTP to gRPC | who may ask for what; time-outs of 3 s, 30 s and 2 min; an error crosses three processes | an answer says what became of the request |
| Service processes (`cmd/*-service`, `platform/grpcserver`, `platform/httpserver`) | two servers each | start, signal, stop, crash | two servers that stop in any order while calls run | a stop lets calls finish |
| Metrics, tracing, configuration, load test | none | measure, name, read the environment | nothing | not modelled |

Interaction: clients reach the ticket, match and agent services through the
gateway. Ticket requests and match requests run in their own goroutines beside
the worker loops (`cmd/matchmaking-service/main.go`, one goroutine per worker,
a 250 ms ticker). All of them share the ticket store, the match store and the
allocator, whose methods are atomic in memory (one mutex each) and transactions
in PostgreSQL. The worker and the ticket service ask the player service for
bans by RPC. The simulation service ends a match by an RPC to the player
service (ratings) and one to the match service (CompleteMatch). The agent
service moves a proposal in its own database and calls the policy registry in
the matchmaking service by RPC.

Everything hard to test in this code is listed, at its line, under `hazards`
in `PROJECT.json`, with the properties that cover it.

## 2. Modules

| Module | Models | Depends on |
|---|---|---|
| `GoMaps` | Go maps as partial functions | |
| `TicketStore` | the in-memory ticket store, one action per method | `GoMaps` |
| `TicketStore_proofs` | theorems about it | `TicketStore`, TLAPS |
| `MatchStore` | match states and the compare-and-swap of Update | `GoMaps` |
| `LocalAllocator` | servers per region | `MatchStore` |
| `Backends` | the three back ends side by side | `INSTANCE TicketStore` |
| `Worker` | the worker loop over the back ends | `Backends` |
| `MatchService` | StartMatch and CompleteMatch over the back ends | `Backends` |
| `Matchmaking` | everything above running concurrently, with ticket requests, bans and time | `Worker`, `MatchService` |
| `Matchmaking_proofs` | theorems about it, the refinement of `Assignment` included | `Matchmaking`, `INSTANCE TicketStore_proofs`, TLAPS |
| `Assignment` | the abstract promise: players enter a match together and leave it together | |
| `PgReservation` | the PostgreSQL stores as row-locking transactions, driven by the worker | `GoMaps` |
| `PgReservation_proofs` | theorems about it | `PgReservation`, TLAPS |
| `RedisQueue` | the Redis keys and the scripts and pipelines that change them | `GoMaps` |
| `RedisStore` | PostgreSQL and Redis together, used by workers and requests, with faults, restarts and the rebuild | `RedisQueue` |
| `RedisStore_proofs` | theorems about it | `RedisStore`, TLAPS |
| `PostMatch` | simulation, ratings and completion of matches, over three services | `GoMaps` |
| `PostMatch_proofs` | theorems about it | `PostMatch`, TLAPS |
| `PolicyRollout` | analysis runs, proposals, their review, activation and rollback, and the registry | |
| `PolicyRollout_proofs` | theorems about it | `PolicyRollout`, TLAPS |
| `Policies` | when a policy is valid, what a mode makes of it, the candidate an analysis proposes | |
| `Engine` | what the matching engine computes from a pool; no state | `GoMaps` |
| `PoolMatching` | one pool while its tickets wait, are matched and play | `Policies`, `INSTANCE Engine` |
| `MatchAnalysis` | samples, replays and risk reports of its finished matches | `PoolMatching` |
| `PoolMatching_proofs` | theorems about both, the policies and the searches of the engine | `MatchAnalysis`, TLAPS |
| `Gateway` | who may ask for what, and how errors become codes and statuses | |
| `ServiceProcess` | the two servers of a service process, from start to stop | |
| `FrontDoor` | requests of players and operators from HTTP down to their statements | `Gateway`, `ServiceProcess`, `GoMaps` |
| `FrontDoor_proofs` | theorems about it | `FrontDoor`, TLAPS |
| `MC*` | instances for TLC | |

### TicketStore

One variable per field of the Go struct, plus `lapsed`, the reservations whose
deadline has passed; `Lapse` is time. A method that returns an error changes
nothing, so only successful calls are actions. `CreateQueued` is called with a
fresh ticket id, as the service does (UUIDs). A pool is the set of its tickets:
its list is sorted by creation time and id, which the service draws before it
calls the store, so `Created` gives each id its place, whenever the ticket
arrives. `QueueSnapshot` reads the `SnapshotLimit` oldest tickets of a pool that
are QUEUED (`Candidates`, `Oldest`).
`ReserveAll`, `ReleaseAll`, `AssignAll` and the recovery rewrite all tickets of
a reservation in one step because the Go methods hold the mutex throughout.
Tickets of the in-memory store are never deleted, so the instance's ids are
the bound of its behaviours.

### Backends, Worker, MatchService, Matchmaking

Each call of a back end or of the player service is one step of its caller.
Between two steps anything may happen. A worker keeps what it read (`picked`,
`match`, `region`) like the locals of `tryPool`, and each `return` of the code
is an action that goes to the next pool or ends the iteration. The clean-up
calls of the error paths (`releaseServer`, `failMatch`, `releaseTickets`) are
steps too, and their errors are ignored as in the code. Which tickets form a
match is left open: the engine only chooses among the tickets of the snapshot.
A request of the match service keeps the copy of the match it read, and
`AbortCall` is the cancellation of its context between any two steps. Nothing
says that somebody calls again: the only caller, the simulation service, does not.
`IdsOf` lets an instance choose whose ticket is the oldest; in the proofs, and in
all other instances, a player's ticket may get any id.
The worker draws one id for the reservation and one for the match; both are
fresh UUIDs that are never compared with each other, so one value stands for
both.

### Assignment and the refinement

`Matchmaking` is checked, and proved, to implement `Assignment` (`ImplementsAssignment`):
`place[p]` is read off the active index and the player's ticket, and a match is
formed from the moment its tickets are assigned, one step before it is READY.

### PgReservation

A store method is a sequence of steps: the snapshot of its SELECT, one step per
row lock (in id order, waiting), the re-check of the WHERE clause on the locked
version, and the commit. Recovery takes free rows only (SKIP LOCKED). A worker
may die at any point: its transaction rolls back, what it committed stays.
Left out: insertion of tickets (rows start QUEUED), the idempotency tables, the
limit of 1000 rows of a recovery, which the instances do not reach, and the
identity of servers (allocation succeeds or fails). `CompleteMatch` is one step
because no other transaction changes an ASSIGNED row; it waits for locks.

### RedisQueue and RedisStore

`RedisQueue` has one variable per Redis key (those of all tickets that are only
ever written together are one) and one action per Lua script or MULTI/EXEC
pipeline. `RedisStore` puts a table of rows beside it, with a PostgreSQL method
as one step, since `PgReservation` takes those apart, and models each method of
`redis/store.go` as the two or three steps it makes in the two databases.
Around it are the worker loop (from the store's point of view), the ticket
requests, and the start-up of the process, which serves nothing before the
rebuild is over.

A fault is a call that fails: it took effect and the reply was lost, or it did
not. The Redis client repeats a script whose reply it did not get, so a lost
reply of a reservation is followed by another run of the script or by none.
`RemoveTicket` reads two keys before its pipeline and takes a failed read for
an absent entry, as the code does. `Restart` kills the process between any two
steps, with or without the data of Redis.

### PostMatch

A request of the simulation service waits for its mutex, reads the match, and
makes its calls one by one. A call is a handler in another service, which has
its own steps: `LoadPlayers` and `ApplyChanges` of the rating service; in the
match service the match is read, the result is stored by one transaction, a
conflict is resolved by reading again, and the server is released (`step`). The
transaction is refused when another completion came first, which is resolved
(`RevisionConflict`), and when it releases fewer tickets than the roster has,
which is not (`RosterIncomplete`): `FormMatch` makes matches that are whole and
matches that are not, as `pg_two_matches` shows they arise. A request that
is abandoned leaves its handler behind, to run on or to stop. A rating is the
sequence of matches counted in it, so a lost or repeated update shows
whatever the formula is. A seed is the winner it produces, and the gateway draws a new
one for each request without a seed: `Play` chooses again at every retry.
`ApplyChanges` is a SERIALIZABLE transaction: it replays the changes it finds,
or it commits when no rating has changed, or it is refused, as a transaction
whose snapshot is older than the lock it waited for may be even where a later
one would find the replay.

### PolicyRollout

A call to the agent service reads the proposal, decides on that copy, stores
its decision with a compare-and-swap on the state, sends an RPC, and stores the
outcome with another. The RPC handlers ignore their context and use the
registry in two lock sections. An analysis creates a run, calls its tools, and
ends the run, with its proposal if it succeeded, in one conditional
transaction. `Abandon` is a time-out or a cancellation: a request or a
COMMIT that was sent takes effect all the same. `RestartAgent` fails the runs it
finds RUNNING; `Restart` of the matchmaking service loses the registry and the
requests being served. The policy table (a policy belongs to one proposal and
never changes) and bucketing are left out.

### Policies, Engine, PoolMatching and MatchAnalysis

The engine's functions are operators of `Engine`: the groups of a snapshot, the
windows that widen while the anchor waits, the candidates, the subset selection
and the best split of the greedy search, and the beam search with its heuristic,
its pruning and its cut. What a loop of the code carries from group to group is
a recursive function over the positions of the groups, with an operator for its
body (`Added`, `Extended`, `NextBeam`). The queue, the
time and the policy are constants of the module, as they are arguments in the
code. The arithmetic is that of the code on small whole numbers; the module's
head lists the places where it is simplified. `Policies` has the three functions that make one policy of
another: `ForMode`, `Validate` and `generateCandidatePolicy`.

`PoolMatching` instantiates the engine with a *view*: the tickets that wait and
since when, the time, and the policy (`Pool(view)`). `View(P)` is the view a worker
has of the pool under policy P. The pool's tickets come, go and wait, so the operators are evaluated on every queue that can arise, not only on
full ones, and for every base policy, fitted to the mode. The reference
definitions they are compared with (`FullSets`, `Splits`) enumerate all subsets.
`FinishMatch` puts the last match into the history, with the one bit of its
result that an analysis acts on.

`MatchAnalysis` looks at each finished match as another view, with nothing but
its tickets and at its time (`Replay`). An analysis reads a history
that only grows, so no actions are needed: `RiskReportIsSound` is evaluated for
every sample, candidate and outcome of the replays in every state. Where several
pairs of teams are equally good each of them is an outcome. That is why
`ReplayReproduces` compares total qualities: two pairs of the same total may have
different parts, say a better skill score for a worse role score, and a replay may
find either.

### Gateway, ServiceProcess and FrontDoor

`Gateway` holds the decisions of the edge that need no state: the two checks of
identities and roles, and the four tables that an error passes on its way out
(`playerError`, the player client of matchmaking, `ticketError`, `writeError`).
`ServiceProcess` has a pair of server states per process and the steps of
`main`, `grpcserver.Run` and `httpserver.Run`.

`FrontDoor` composes them with the tables `players`, `tickets` and
`ticket_cancel_idempotency`. A request of `Clients` enters with any of the
headers and bodies that make a difference (`Enter`: the gateway's checks, then
the reachability of the service, then those of the service that need no data)
and goes on one statement at a time: `ReadCurrent` and `WriteColumn` for bans
and latencies; `ReadPlayer`, `FindTicket` and `StoreTicket` for a new ticket;
`LockKey` and `CancelRow` for a cancellation; `Reply`. `answers` are the
statuses that a step sent. `Sweep` is the worker that cancels tickets of banned
players, under a key of its own; `Matchmake` is everything that else happens to
a ticket, in the detail that requests can see.

`INSERT ... ON CONFLICT` on one of two unique indexes is two steps, as in
PostgreSQL: it looks for a row with the key, then inserts, and either index may
have got an entry in between; which of them it meets first is left open. The
transaction of `Cancel` holds its advisory lock while its request is at
`CancelRow`; a repeated key needs no second step.

`Abandon` is the deadline of the gateway. It is sent on with the call, so a
handler stops between two statements, but the statement that is under way may
still be carried out: only requests at such a statement are kept, and `Drop` is
the case that it is not. A service that returns from `main` or dies takes its
requests with it (`Cut`), and the gateway answers 503 for them.

## 3. Runs

| Run | Module / cfg | Question | Result |
|---|---|---|---|
| `ticket_store` | `MCTicketStore` | do the tables agree under every order of calls? | holds |
| `matchmaking` | `MCMatchmaking` | two workers, scarce servers, lapses, and overlapping, cancelled, competing requests: consistent, nothing left behind, the first result wins, success means settled, no completion refused because of another, refines `Assignment`? | holds |
| `queue_liveness` | `MCMatchmaking` / `MCQueueLiveness` | reservations end, and a banned player's ticket leaves the reach of the snapshots (liveness) | holds |
| `pg_transactions` | `MCPgReservation` | what do row locks and re-checks guarantee, with cancellations and a crash? Every attempt ends, and lapsed reservations come back (liveness) | holds |
| `pg_two_matches` | `MCPgReservation` / `MCPgTwoMatches` | no player in two open matches (REQUIREMENTS.md) | violated |
| `front_door` | `MCFrontDoor` | repeated, overlapping and abandoned requests do no harm, answers are true, a ban stands | holds |
| `graceful_stop` | `MCFrontDoor` / `MCGracefulStop` | a stop lets the calls finish (REQUIREMENTS_TRACEABILITY.md) | violated |
| `redis_store` | `MCRedisStore` | two databases, lost replies, restarts: keys agree, no ticket forgotten, decisions stand, rebuild complete | holds |
| `post_match` | `MCPostMatch` | each ranked match is rated once and before it is finished; a whole match finishes (liveness) | holds |
| `policy_rollout` | `MCPolicyRollout` | what runs was approved and persisted; runs end once; decisions stand; a retried activation completes (liveness) | holds |
| `policy_rolled_back` | `MCPolicyRollout` / `MCPolicyRolledBack` | a rolled-back policy stays off | violated |
| `pool_matching` | `MCPoolMatching` | limits and parties are kept, the two searches agree with the reference, replays find the matches again, and a risk report speaks for its whole sample | holds |

Each property of a passing run has a mutant, a plausible bug in a mapped
definition (`Fault_...` beside it) under which TLC finds the property violated.

### What the violated runs show

* *A split reservation (PostgreSQL).* The reservation lapses while
  `AssignReservedTickets` is locking its rows; recovery skips the locked rows
  and releases the others; the assignment commits a READY match with the rest.
  The released ticket can be matched again, so that its player is on two open
  rosters (`NoTicketInTwoOpenMatches`). With reservations that have not lapsed
  this cannot happen (`OnTimeMatchIsComplete`, which is proved). The in-memory store does not have the problem:
  `AssignAll` checks every ticket of the record (`OpenMatchHoldsItsRoster`).
* *A late activation* (`RolledBackStaysOff`). A retry that read ACTIVATING
  restarts the experiment after the proposal has been rolled back.
* *A stop that does not wait* (`StopsGracefully`). `main` waits for the first of
  its two servers. On SIGTERM the HTTP server for health checks has nothing to
  wait for and returns first, and the process ends while `grpcserver.Run` is
  still letting calls finish. They are cut, except for their open transactions.
  `AnswersAreTrue` holds all the same: their clients are told 503.

More places where the code does less than a reader may expect have no run of
their own; they are listed under `hazards`, with the reason:

* nothing calls `Expire`, so an overdue ticket never expires;
* a completion that is cut off between its two writes is resumed by nobody: a
  retried simulation answers from the stored result without another
  CompleteMatch, and the server, and in memory the players, stay bound, although
  ARCHITECTURE.md (step 11) says that a completion frees them;
* a match with a part of its roster is played and rated, but never completed;
* a banned player's ticket beyond the limit of the snapshot is not looked at, and
  stays where it is while the head of its pool blocks, although ARCHITECTURE.md
  (step 3) says that it is cancelled;
* the second ban check and the reservation are two calls, so a player banned
  between them is matched;
* of two overlapping activations one may record the other's experiment id, and
  after a second activation the first proposal cannot be rolled back;
* a ticket that Redis still offers after it ended is refused by PostgreSQL at
  every attempt, which also ends the iteration for the pools behind it;
* a retried simulation may store another winner than the one that was rated;
* a lost COMMIT reply of an assignment makes the clean-up fail a READY match;
* a replay asks neither for the least quality nor for the windows of the region,
  so it may report teams that a worker would refuse, and a match that was made
  without the oldest ticket of its pool may not be found again.

Smaller ones, seen while modelling the edge, are in no list:

* the HTTP server of the gateway has a write time-out of 15 seconds, so that its
  own deadlines of 30 seconds and 2 minutes are never told to the client;
* the registration of a player has no idempotency key: a repeated one is refused
  with 409 though it is the client's own;
* a conflict of two reservations or two revisions has no case in `ticketError`
  and is answered 500.

### Bounds

* `ticket_store`: three tickets, two players, pools, keys, reservations and
  matches. A player can have a ticket in each stage and queue again, two
  reservations can compete and lapse, and each key can be replayed. Deadlock is
  not checked: once every id and key is used the store has nothing left to do.
* `matchmaking`: three players with a ticket each over two pools, two regions
  with one server each, two workers, matches of two, two requests with different
  results. The workers can collide on tickets, on servers, and on a lapsed
  reservation, in either order; the two requests
  overlap in every way on one match. The limit of the snapshot is the number of
  tickets, so the order of the ids does not matter and all ids are symmetric;
  nobody is banned. Some 91,000 states.
* `queue_liveness`: three tickets in one pool, of which a snapshot reads two, so
  that a ticket is in reach and out of it; the player who may be banned has the
  youngest. Two workers compete for one match and its reservation, which lapses.
  No requests for matches; no symmetry, as it checks liveness. Some 86,000 states.
* PostgreSQL: matches of two instead of ten; one crash; one client transaction.
  `pg_transactions` has two tickets, which two workers lock in every order, and
  no symmetry, as it checks liveness; `pg_two_matches` has three, so that a
  ticket that is left out of a match finds another partner.
* `front_door`: one player, an intruder, a sender without a header, and an
  operator; two requests at a time and any number one after the other; two
  keys and two tickets, so that a key is repeated, taken for another ticket, and
  met by a request with another key; the matchmaking service stops, dies and
  restarts any number of times (`Stopping`: the player service does not, a
  bound). Two players would not meet: every row, key and lock belongs to one
  player, and the intruder covers the requests for what is another's. The
  VIEW leaves out what no later step reads: `answers`, how a process that is
  gone has ended, the body of a request once it is validated and a value once
  it is written. Some 1.3 million states.
* `redis_store`: matches of two over two tickets, so that two workers and a
  client always compete for the same ones; two reservation ids; two faults
  (`MaxFaults`), so that a failed call can be followed by a failed clean-up or
  a restart. A ticket can be created again under its key, cancelled, reserved
  and recovered without bound. Some 1.2 million states.
* `post_match`: two matches with one common player and one player each of
  their own, ranked or not, whole or not; two requests, so that a retry meets
  what an abandoned request left; one fault. Some 419,000 states.
* `policy_rollout`: two proposals, whose risk report may block, two operators of
  whom one is the requester, two rollout settings, two callers, one failure
  (`MaxFailures`). Two callers are what the races need; calls of one caller
  follow each other without bound. Some 517,000 states. `policy_rolled_back`
  needs no failure.
* `pool_matching`: teams of two; six tickets, a party of two and four single ones,
  two of them of one player. A snapshot reads five, so the sixth waits outside it;
  the first rating window rejects groups that a later one accepts. Three
  policies: greedy, a beam of width 8, which loses none of the sets of four groups,
  and a beam of width 2, which cuts. Two regions; a normal mode, which widens the windows; one
  tick, which widens them further and relaxes the roles. Groups that just fit,
  ties, and queues without an acceptable anchor all occur. Two earlier matches,
  one of high ratings, and samples of two make reports over old and new matches.
  There are reports that pass, that fail with every match replayed, and that fail
  because the candidate caps the latency and a match cannot be replayed; anchors
  that are in the match and that are not. `BeamIsOptimal` says nothing of a beam
  that is too narrow for its groups; that the wide one loses nothing is compared
  with all splits. Some 9,900 states, and five properties on each.

### Fairness

* Workers (`WorkersRun`): weak fairness of every worker's steps, because `Run`
  loops until shutdown and the calls it makes return; strong fairness of the
  successful player-service query, because the service is asked again at every
  tick and is assumed to answer at some time. The calls of a worker carry no
  time-out of their own (hazard at `worker.go:212`): a call that hangs would
  break the assumption, and the loop.
* Match requests: nothing is assumed. None has to be made, to go on, or to be
  made again.
* PostgreSQL: weak fairness of worker steps, of the end of a client's
  transaction, and of the passing of a deadline. Waiting for a row lock is not
  fair by itself.
* PostMatch: requests and handlers that are not abandoned get on; the mutex
  is granted to a request that asks for it again and again (Go's mutex hands
  over to a waiter that starves); and every match is asked for again and again,
  as nothing in the code retries. This fairness is strong. It does not stand for a
  retry of CompleteMatch: a match whose result is stored is not completed again,
  and `MatchesFinish` asks for no more than the result.
* Policy rollout: calls get on, and an administrator repeats a request for as
  long as the proposal is in a transitional state. Nothing in the code retries.

## 4. Proofs

Eight modules are proved about, each for any values of its constants: no bound
on tickets, workers, callers, requests, crashes, faults or restarts. The argument is the
same in the seven that have state: an inductive invariant `IInv` that TLC checked first, one
lemma per action or group of actions, and the properties from `IInv`.

`TicketStore_proofs` proves, for any sets of tickets, players, pools, keys,
reservations and matches:

* `StoreInvariant`: `Spec => []IInv`, where `IInv` is the conjunction of
  `TypeOK`, `ReservationAgreement`, `ActiveIndexAgreement`, `PoolAgreement` and
  `LedgerAgreement`. None of them is inductive alone. Releasing a reservation
  keeps the tickets well formed only because its record lists RESERVED tickets
  (ReservationAgreement); reserving is only safe for the record because a
  QUEUED ticket is in no record; a released ticket is found in its pool because
  it was never removed (PoolAgreement); and a new ticket gets the player's
  active entry only if the one it replaces has ended (ActiveIndexAgreement).
* `TypeCorrect`, `TablesAlwaysAgree`, `OneWaitingTicket`: type correctness and
  the invariants the run checks.
* `ReservationAtomic`, `ReservationKept`, `PlayersFreedTogether`: three
  action properties, of which the run checks the second and the others are
  proved only, from `IInv` and the lemma `StepOnTicket`, which says what
  a step can do to one ticket. The last one rests on `ActiveEntryKept`: no step
  but the completion of a match forgets the active entry of an ASSIGNED ticket.

The proof that a step preserves `IInv` has one lemma per action. Release and
recovery are one lemma (`RequeueIInv`) about requeueing a set of reservations.
The assumptions are those of `TicketStore.tla`.

`Matchmaking_proofs` takes what the ticket store keeps by itself from
`TicketStore_proofs`, instantiated with the matches as reservations, and proves
of the whole in-memory service, for any number of workers and callers:

* `InvariantHolds`. Each actor works on ids and copies that it drew earlier, and
  the invariant says what it may still rely on. `WorkerFits`: all that is stored
  under the id of an attempt was put there by its worker, except that the
  reservation may have been recovered meanwhile; so the worker's copy of the
  match is current until it publishes it, and its clean-ups hit only what is its
  own. That needs `IdsDiffer` (ids are fresh). `CallFits`: the match of a request
  has not moved back since it was read, and the revision of the copy is the one
  of its state (`RevisionFits`), which is why a copy that was overtaken is
  refused by the compare-and-swap. `MatchFits` ties a match to its tickets, its
  reservation and its server; `ServersFit` bounds the servers in use.
* The proof has a lemma for what is left alone (`Undisturbed`: another attempt's
  match, tickets and server; `Forward`: the match of a request only moves on),
  from which what the other actors rely on follows at once, and a lemma for what
  each action does to its own actor.
* `OpenMatchesHoldTheirRosters`, `PlayersAreInOneMatch`,
  `ServersAreAccountedFor`, `AttemptsLeaveNothingBehind`: the invariants of the
  run `matchmaking`. `ResultsAreFinal`, `SuccessIsSettled`: its action properties.
* `ConflictsAreResolved`: a completion that loses the compare-and-swap finds the
  match FINISHED. It read the match when it was RUNNING, and the revision of its
  copy is the one of that state (`RevisionFits`): what is stored under another
  revision has moved on, and from RUNNING there is one way (`ConflictImplied`).
* `ServiceImplementsPromise`: `Spec => ImplementsAssignment`, the refinement.
  The initial state maps to that of `Assignment` (`InitImplements`), and every
  step maps to one of its steps or to a stutter (`StepImplements`): the call
  that assigns the tickets of a reservation forms the match, because the roster
  is full, of different players and still reserved; the call that completes
  them ends it; a ticket that is created, cancelled or recovered moves one
  player between free and waiting; everything else leaves all places alone.

`PgReservation_proofs` is about transactions, statement by statement:

* `InvariantHolds`. `LocksHold`: the rows a transaction has read are locked by
  it, so `Returned` can say what they are like at its end although others ran in
  between. `Attempt` says what the tables hold of an attempt. `OnTime` is the
  heart: as long as its reservation has not lapsed, nobody takes a ticket away
  from the attempt, and the rows that the last statement has found, or has yet
  to look at, are the whole roster.
* `MatchesMadeInTimeAreComplete` follows from it, and shows what the missing row
  count of AssignReservedTickets costs: nothing, unless the reservation lapses
  (then two matches share a player, see `pg_two_matches`).
* `CompletionIsAllOrNothing` and `AssignedTicketsAreInLivingMatches` need
  `OnRoster`: a row that points at a match is on the roster of that match, also
  when the match lost some of its tickets to a recovery.
* `NoUpdateIsLost`: an action property, with the re-check of the WHERE clause on
  the locked version as its reason. `TypeCorrect`: the types.

`FrontDoor_proofs` is about any number of concurrent requests of any players,
with stops and crashes of any service at any time:

* `InvariantHolds`. `TablesFit` says that rows refer to rows that exist and are
  never deleted; `CallFits` what each handler is at; `ReplyFits` that what a
  request is about to be told has come true and stays so; `LockHeldOnce` that
  two transactions never hold one advisory lock, and with it a transaction that
  found no cancellation under its key still finds none at its commit.
* `OneTicketForAKey`: the invariant of the run.
* `CommittedCancellationsAreAccepted`: the second transaction of two with one key
  waits, and finds the row of the first. That no other error meets a committed
  cancellation is `RefusedIsNotCommitted`.
* `ClientsAreToldTheTruth`: every answer is given in a step that leaves the
  tables alone (`AnswersFit`), so a 4xx is one; a 2xx rests on `ReplyFits`.
* `BansStandUntilLifted`: only the two statements that write players could lift a
  ban, and the one of a latency update leaves the column alone.

`RedisStore_proofs` (its `IInv` has the types, `RedisAgrees` and what the
processes know):

* `KeysAgree`, `ReservationsAreWhole`, `TicketsAreNotForgotten`: the invariants
  of the run; `DecisionsAreFinal`, `RebuildsAreComplete`: its action properties.
* `NoTicketForgotten` is about the two databases, but it is inductive only with
  what the processes may still do. A worker may release or assign a
  reservation only within its own roster (`AttemptOK`), and an id is never
  drawn twice (`IdsAreFresh`); a request removes a ticket from Redis only
  after the row was decided for ever (`RequestOK`), which is why a removal that
  comes late, or removes only half, forgets nobody; and a rebuild has restored
  what it has passed (`BootOK`).
* `LiveReservationIsWhole` rests on the second half of `AttemptOK`: until its
  worker is done with it a reservation has its whole roster in the table or, once it has
  lapsed, nothing.

`PostMatch_proofs` (its `IInv` has the types, `CallOK`, `HandlersOK` for both
kinds of handlers, `FinishedIsRated` and `LedgerIsExact`):

* `LedgerHolds`: a transaction that commits found each rating as it was read, and
  found no changes of its match, so the match is counted once for all its players.
* `RatedBeforeFinished`: whoever may still finish a match, the request that
  asks for the completion and every handler that was left behind, knows that
  the match has been rated. That is what `CallOK` and `HandlersOK` add.
* `ResultStands`: the first result is never replaced.

`PolicyRollout_proofs` (its `IInv` has the types, `RunsOwnProposals`, `Sound` of
every proposal, `CallOK` and `ExperimentIsAudited`):

* `ExperimentAudited`: a late handler may put an experiment in force long after
  the proposal moved on. It stays audited because the copy a call works on is
  an earlier version of the proposal (`Follows`), and what a review and an
  activation decided is in every later version.
* `RunEndsOnce`, `DecisionStands`: from `IInv` and the conditional updates.

`PoolMatching_proofs` is about the policies and the matches made under them, for
any tickets, parties, ratings and latencies, any set of valid policies and any
history:

* `EveryModeIsValid`: what a mode makes of a valid policy is valid, so no pool
  is ever refused its policy (`tryPool` returns an error if it is not).
* `CandidateIsValid`: so is the candidate of an analysis, whatever was wrong with
  the sample, because what one weight gains two others lose (`MovedWeights`). It
  needs a base whose first latency window is at most 220 ms: the code caps the
  last window at that and does not look at the first.
* The loops over groups. `Recursion` shows that a recursive function over
  positions exists, and `StepByStep` that it stays within sets of values when
  each step leads from one to the next. Three lemmas follow the three loops
  that way: `CandidatesAre` (groups of the snapshot, disjoint and accepted),
  `SelectedGroupsAre` and `BeamSetsAre`.
* `MatchesAreLegal`: the groups are a partition of the snapshot (`GroupsPartition`),
  so a party that enters a team enters it whole, two teams share no player, and a
  window that has grown still ends at the hard limit (`WindowIsBounded`). The
  inductive invariant `IInv` adds that all tickets waiting have a creation time
  (`PoolFits`): without it there might be no oldest one. For the two results on
  finished matches it also says what the record of a match contains (`FormedFits`,
  `HistoryFits`).
* `SelectionsAreComplete`: the search keeps one set of groups for each number of
  players. That is enough because the groups are disjoint: whether a set can be
  completed depends on the number of its players only (`NextSelection`).
* `WideBeamsAreOptimal`: what the pruning gives up could not be completed, as not
  even all the players that follow suffice (`NextBeamHolds`); after i groups there
  are at most 2^(i-1) sets (`SetsAreCounted`), and where they fit into the beam
  the cut keeps them all (`CutKeeps`). So all full sets are split, and the best
  of their splits is the best there is. The greedy search splits one of them.
* `ReplaysReproduce`: a replay runs the search on fewer tickets, and might take
  other groups, another anchor or other windows. It does not. The order of the tickets
  and the anchor stay (`ReplayOrders`), so the windows do, and no ticket that was
  accepted is rejected now. The groups stay whole, all of them are candidates, and
  that of the anchor is the first (`ReplayCandidates`). Their players are just
  enough for a match, so no fewer groups make one (`OnlyAllTogether`): the greedy
  search can only select them all, and a beam of any width holds the one set that
  can still be completed (`TightBeam`). Both then choose among the splits of the
  very groups that were matched (`ReplayFinds`), which have the quality they had
  (`SameQuality`). The worker chose among these and more, and what is best
  among more is best among these (`ReplayAgrees`). All this is proved of one match as it
  is formed (`FormedReproduces`); that no step forgets what it needs is the
  invariant.
* `RiskReportsAreSound`: every step of the code that computes a score gives a
  number (`QualityType`), for which a team needs an assignment of roles
  (`AssignmentsExist`); the means are compared through sums over the sample
  (`NoWorseHolds`). A sum over a finite set is a function on its subsets
  (`Sum`), and that it exists, and grows with its summands, is an induction
  over the finite set (`FiniteInduction`, `Summed`, `SumOfShifted`).

The assumptions are those named in the modules, and TLC evaluates them in the
runs:

* ids: the empty id, a NULL or a missing header is no UUID (`NoneAssumption`,
  `NobodyAssumption`), and no match id is the word for a place of the abstract
  specification (`MatchIdsAssumption`);
* transactions: a worker is no client (`TransactionsAssumption`), as two
  transactions are different even if one process runs them;
* queues: no two tickets have the same place in the order of their pool
  (`OrderAssumption`: it is by creation time and id), a snapshot reads at least as
  many tickets as a match has (`LimitAssumption`, and `SnapshotAssumption` of
  `Worker`, which MatchPolicy.Validate asks for), and a player's tickets have ids
  (`IdsAssumption`);
* sets and numbers: the tickets of `PgReservation` and `PoolMatching` are a finite
  set of numbers (`TicketsAssumption`; row locks are taken, and tickets of one
  moment are sorted, in id order, and a table is finite),
  the bounds are natural numbers (`CrashesAssumption`, `Bounds`), a match has at
  least one ticket (`MatchSizeAssumption`), servers are counted
  (`CapacityAssumption`), a team has at least one player (`TeamSizeAssumption`), a
  rating and a latency are whole numbers (`RatingAssumption`, `LatencyAssumption`, as
  everywhere in `Engine`; a region that a player has not measured counts as further
  away than any limit, as the code rejects it), the limit of a snapshot
  is a natural number (`SnapshotAssumption` of `PoolMatching`), and there are as many roles as players in
  a team (`RolesAssumption`; five of each in the code);
* an earlier match was stored with the times, the region and the quality that a
  replay reads (`PastAssumption`);
* the base policies of a pool are valid (`PolicyAssumption`): the worker and the policy
  manager refuse others when they get them;
* `RequesterAssumption` in `PolicyRollout`.

Only model-checked:

* liveness (`queue_liveness`, `pg_transactions`, `post_match`, `policy_rollout`): it
  rests on fairness, and the enabledness of a fair action is out of the
  prover's reach.

Every other property of a passing run is a theorem. The library's induction theorems
take an operator, which the prover cannot instantiate; where an induction
over numbers, positions or finite sets is needed it is made from sets instead
(`SetInduction`, `Carried`, `FiniteInduction` in `PoolMatching_proofs`).

## 5. Not modelled

* The code generated from `src/proto` (9045 lines of messages, clients and
  servers, more than a third of the Go code) and the conversion of messages in
  the transports. How they map errors is in `Gateway`; where a handler passes its
  context on, or not, is in the models of what it calls.
* The Agones allocator: its state is in Kubernetes.
* The summaries per policy of an analysis (durations, prediction errors, rates),
  the comparison of line-ups and the rationale of a candidate: reports.
* The gateway's handlers for simulations, reports and agents, which pass a
  request on; metrics, tracing, configuration, the order of migrations, the
  load test, the catalogue of heroes: input, output or tables.
* The batch simulation, which plays matches that are stored nowhere, and the
  queries of the player service.
* The ticket cloned outside the lock in the in-memory `Get`
  (`ticket_store.go:86`), and the worker whose context is cancelled at shutdown
  between assignment and publication.
* Elo, Glicko-2 and the quality score as real numbers: `PostMatch` takes a rating
  as a function of what was read, and `Engine` computes with small whole
  numbers.

## 6. Plan

Done: the ticket store; back ends, worker, match service and their
composition with the abstract promise; the PostgreSQL transactions; the Redis
store; what follows a match; analysis runs and policy rollout; the requests of
players and operators; the matching engine, replays and risk reports; all of
these with proofs of the safety properties that the passing runs check.

Next, in this order:

1. `RedisStore` over the row-locking transactions of `PgReservation` instead of
   atomic ones.
2. The lost COMMIT reply in `PgReservation`, once it is decided what the service
   should promise then.
