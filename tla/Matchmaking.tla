----------------------------- MODULE Matchmaking ------------------------------
(***************************************************************************)
(* The matchmaking service with in-memory back ends: ticket requests,      *)
(* matching workers and match requests, all concurrent, over one ticket    *)
(* store, one match store and one server allocator; and the player         *)
(* service's ban flag, which the other parts read by RPC.                  *)
(***************************************************************************)
EXTENDS Worker, MatchService

CONSTANTS
  Bannable,   \* players an administrator may ban and unban
  IdsOf       \* player -> the ids its tickets may get

ASSUME IdsAssumption == IdsOf \in [Players -> SUBSET Tickets]

\* Match ids are UUIDs: none is a place of the abstract specification.
ASSUME MatchIdsAssumption == {"free", "waiting"} \cap Matches = {}

vars == <<storeVars, matches, allocations, banned, worker, call>>

Init ==
  /\ BackendsInit
  /\ WorkerInit
  /\ CallInit
  /\ banned = {}

-----------------------------------------------------------------------------
(* The player service *)

\* SetPlayerBan, either way.
Ban(p) ==
  /\ p \notin banned
  /\ banned' = banned \cup {p}
Unban(p) ==
  /\ p \in banned
  /\ banned' = banned \ {p}

-----------------------------------------------------------------------------
(* Ticket requests (ticket_service.go) *)

\* CreateTicket reads the player, refuses a banned one, and later queues the
\* ticket under the key the client chose.  Any number of requests may have
\* passed the check before a ban and still be under way after it, so the
\* flag does not restrict the second step, which is the one modelled here.
\* IdsOf lets an instance fix which player's ticket is the older one.
CreateTicket(p) ==
  \E t \in IdsOf[p], k \in PoolKeys, key \in Keys :
     Store!CreateQueued(t, p, k, key)

CancelTicket(p) ==
  \E t \in Tickets, key \in Keys : Store!Cancel(t, p, key)

-----------------------------------------------------------------------------

Next ==
  \/ \E p \in Players :
        /\ CreateTicket(p) \/ CancelTicket(p)
        /\ UNCHANGED <<matches, allocations, banned, worker, call>>
  \/ \E p \in Bannable :
        /\ Ban(p) \/ Unban(p)
        /\ UNCHANGED <<storeVars, matches, allocations, worker, call>>
  \/ \E w \in Workers : WorkerStep(w) /\ UNCHANGED call
  \/ \E c \in Callers :
        /\ Request(c) \/ CallStep(c) \/ AbortCall(c)
        /\ UNCHANGED <<banned, worker>>
  \/ \E r \in Matches :
        /\ Store!Lapse(r)
        /\ UNCHANGED <<matches, allocations, banned, worker, call>>

Spec == Init /\ [][Next]_vars

\* Every worker goroutine loops until shutdown and its calls return; a player
\* service that is asked again and again answers at some time.
WorkersRun ==
  \A w \in Workers :
     /\ WF_vars(WorkerStep(w) /\ UNCHANGED call)
     /\ SF_vars(Filter(w, "check", "cancel") /\ UNCHANGED call)

LiveSpec == Spec /\ WorkersRun

-----------------------------------------------------------------------------
(* What the states mean *)

\* The players of a match.
PlayersOf(m) == {tickets[t].player : t \in matches[m].roster}

\* A worker is still making match m.
InTheMaking(m) == \E w \in Workers : worker[w].match = m

Open(m) == m \in DOMAIN matches /\ matches[m].state \in {"READY", "RUNNING"}

Over(m) == m \in DOMAIN matches /\ matches[m].state = "FINISHED"

TicketIn(t, states) == t \in DOMAIN tickets /\ tickets[t].state \in states

\* Ticket t is one of the SnapshotLimit oldest of its pool, the reserved ones
\* counted, so that no release can push it out of the next snapshot.
InReach(t) == \E k \in PoolKeys : t \in Store!Oldest(pools[k])

-----------------------------------------------------------------------------
(* Properties *)

\* A match players can join holds exactly the tickets of its roster,
\* MatchSize of them, each of which keeps its player from queueing again:
\* the tickets, the roster and the active index come from three different
\* calls of the worker (worker.go tryPool).
OpenMatchHoldsItsRoster ==
  \A m \in Matches : Open(m) =>
     /\ Store!AssignedTo(m) = matches[m].roster
     /\ Cardinality(PlayersOf(m)) = MatchSize
     /\ Store!Blocking(m) = matches[m].roster

\* No player is in two matches that are not over (FR-RESERVE-005), although
\* lapsed reservations let two workers make matches of the same players.
NoPlayerInTwoMatches ==
  \A m, n \in Matches : m # n /\ Open(m) /\ Open(n) =>
     PlayersOf(m) \cap PlayersOf(n) = {}

\* Every server in use belongs to a match that is being made, can be joined,
\* or is over (its release is still to come, or the request that stored the
\* result was cut off before it); every match that can be joined has one; and
\* no region hands out more servers than it has.
ServersAccountedFor ==
  /\ \A m \in DOMAIN allocations : InTheMaking(m) \/ Open(m) \/ Over(m)
  /\ \A m \in Matches : Open(m) => m \in DOMAIN allocations
  /\ \A g \in Regions : InUse(g) <= ServerCount[g]

\* A worker that has gone idle left nothing behind: its match was published
\* or failed, and a reservation of its attempts is one that can still lapse.
NothingLeftBehind ==
  /\ \A m \in DOMAIN matches :
        matches[m].state \in {"CREATED", "ALLOCATING"} => InTheMaking(m)
  /\ \A r \in DOMAIN reservations : InTheMaking(r)

\* What a step may do to match m: the roster is fixed, a FAILED match stays
\* as it is, and the first result that is stored is the result for ever.
KeepsItsOutcome(m) ==
  /\ m \in DOMAIN matches'
  /\ matches'[m].roster = matches[m].roster
  /\ matches[m].state \in {"FINISHED", "FAILED"} => matches'[m] = matches[m]
  /\ matches'[m].state = "FINISHED" => matches[m].state \in {"RUNNING", "FINISHED"}

\* Overlapping Start and Complete requests cannot move a match backwards or
\* change a result (match_store.go, the revision check of Update).
FirstResultWins == [][\A m \in DOMAIN matches : KeepsItsOutcome(m)]_vars

\* When CompleteMatch succeeds, the match has a result, none of its players
\* is kept from queueing, and it holds no server, whatever the interrupted
\* and overlapping requests before it did.
SuccessMeansSettled ==
  [][\A c \in Callers, m \in Matches :
        call[c].match = m /\ ReleaseMatchServer(c) =>
           /\ Over(m)
           /\ Store!Blocking(m)' = {}
           /\ m \notin DOMAIN allocations']_vars

\* A completion that loses the compare-and-swap finds the match over and goes
\* on to free its players and its server: only a cancelled context, never
\* another request, makes it fail (match_service.go
\* resolveCompletionConflict, which answers with the conflict otherwise).
CompletionsAreNotRefused ==
  \A c \in Callers : InCall(c, "resolve") => Over(call[c].match)

\* No reservation waits for its TTL: the worker that made it assigns its
\* tickets or gives them back, in every outcome of the attempt.
ReservationsResolve ==
  \A t \in Tickets : TicketIn(t, {"RESERVED"}) ~> ~TicketIn(t, {"RESERVED"})


-----------------------------------------------------------------------------
(* The service implements its promise to the players *)

\* The match whose ticket keeps player p from queueing, the waiting room, or
\* neither.
Place(p) ==
  IF p \notin DOMAIN activeByPlayer THEN "free"
  ELSE LET x == tickets[activeByPlayer[p]]
       IN  IF x.state = "ASSIGNED" THEN x.matchID ELSE "waiting"

\* A match counts as formed from the moment its tickets are assigned, before
\* it is READY.
Phase(m) ==
  CASE Over(m) -> "over"
    [] Store!AssignedTo(m) # {} /\ ~Over(m) -> "formed"
    [] OTHER -> "unused"

Promise == INSTANCE Assignment WITH
  place <- [p \in Players |-> Place(p)],
  phase <- [m \in Matches |-> Phase(m)]

\* Players enter matches MatchSize at a time, all at once, and leave them
\* together, only after the result (Assignment.tla).
ImplementsAssignment == Promise!Spec
=============================================================================
