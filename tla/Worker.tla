-------------------------------- MODULE Worker --------------------------------
(***************************************************************************)
(* The matching workers (internal/matchmaking/application/worker.go).      *)
(*                                                                         *)
(* One iteration (RunOnce) recovers lapsed reservations, lists the pools   *)
(* and tries each of them (tryPool).  Each call of a back end or of the    *)
(* player service is one step, and anything may happen between two steps:  *)
(* the tickets a worker holds are clones it read earlier.                  *)
(*                                                                         *)
(* Which MatchSize of the candidates form a match, and whether any do, is  *)
(* left open: candidate windows, team search, scores and policies only     *)
(* choose among the tickets of the snapshot.                               *)
(***************************************************************************)
EXTENDS Backends

CONSTANTS
  Workers,
  MatchSize   \* tickets in a match: TeamSize * 2

ASSUME MatchSizeAssumption == MatchSize \in Nat \ {0}

\* What MatchPolicy.Validate asks of the limit.
ASSUME SnapshotAssumption == SnapshotLimit >= MatchSize

VARIABLES
  banned,   \* players CheckPlayersEligibility reports as not eligible
  worker    \* worker -> where it is in its iteration, and what it holds

\* pc      the next call the worker makes
\* todo    pools of this iteration still to be tried
\* picked  tickets the worker goes on with (snapshot, later the formation)
\* dropped tickets found ineligible and still to be cancelled
\* match   the id of the attempt (None before one is drawn)
\* region  the server region chosen
PC == {"idle", "poolKeys", "pools", "check", "cancel", "select", "recheck",
       "recancel", "reserve", "create", "startAllocation", "allocate",
       "assign", "publish", "releaseServer", "failMatch", "releaseTickets"}

WorkerState ==
  [pc : PC, todo : SUBSET PoolKeys, picked : SUBSET Tickets,
   dropped : SUBSET Tickets, match : Matches \cup {None},
   region : Regions \cup {None}]

Idle == [pc |-> "idle", todo |-> {}, picked |-> {}, dropped |-> {},
         match |-> None, region |-> None]

WorkerInit == worker = [w \in Workers |-> Idle]

At(w, pc) == worker[w].pc = pc
Become(w, state) == worker' = [worker EXCEPT ![w] = state]
Goto(w, pc) == Become(w, [worker[w] EXCEPT !.pc = pc])

\* tryPool returns; RunOnce goes on with the pools P.
TryPools(w, P) ==
  Become(w, IF P = {} THEN Idle ELSE [Idle EXCEPT !.pc = "pools", !.todo = P])

\* An error RunOnce treats as "nothing in this pool": the next pool is tried.
NextPool(w) == TryPools(w, worker[w].todo)
\* Any other error ends the iteration.
Abandon(w) == TryPools(w, {})

-----------------------------------------------------------------------------
(* RunOnce *)

RecoverReservations(w) ==
  /\ At(w, "idle")
  /\ Store!RecoverExpiredReservations
  /\ Goto(w, "poolKeys")
  /\ UNCHANGED <<matches, allocations, banned>>

\* PoolKeys lists the pools with a queued ticket.
ListPools(w) ==
  /\ At(w, "poolKeys")
  /\ TryPools(w, {k \in PoolKeys : Store!Candidates(k) # {}})
  /\ UNCHANGED <<storeVars, matches, allocations, banned>>

-----------------------------------------------------------------------------
(* tryPool: choosing the tickets *)

\* The pools are tried in the order of their keys; any order is allowed here.
Snapshot(w) ==
  /\ At(w, "pools")
  /\ \E k \in worker[w].todo :
        LET found == Store!QueueSnapshot(k)
            rest == worker[w].todo \ {k}
        IN  IF found = {} THEN TryPools(w, rest)
            ELSE Become(w, [worker[w] EXCEPT !.pc = "check", !.todo = rest,
                                             !.picked = found])
  /\ UNCHANGED <<storeVars, matches, allocations, banned>>


\* The tickets of S whose players are not eligible now.
Ineligible(S) == {t \in S : tickets[t].player \in banned}

\* filterEligibleTickets, the RPC: the worker goes on with the eligible
\* tickets once the others have been cancelled (at "cancelling").
Filter(w, here, cancelling) ==
  /\ At(w, here)
  /\ LET out == Ineligible(worker[w].picked)
     IN  Become(w, [worker[w] EXCEPT !.pc = cancelling, !.dropped = out,
                                     !.picked = @ \ out])
  /\ UNCHANGED <<storeVars, matches, allocations, banned>>

\* The RPC fails: no ticket is matched without an answer.
FilterFails(w, here) ==
  /\ At(w, here)
  /\ Abandon(w)
  /\ UNCHANGED <<storeVars, matches, allocations, banned>>

\* filterEligibleTickets, the loop: one Cancel per ineligible ticket.  The
\* ticket may have been cancelled, reserved or assigned since; those errors
\* are ignored.
CancelDropped(w, cancelling) ==
  /\ At(w, cancelling)
  /\ \E t \in worker[w].dropped :
        /\ LET p == tickets[t].player
           IN  \/ Store!Cancel(t, p, Store!SystemKey(t))
               \/ /\ ~Store!CancelAllowed(t, p, Store!SystemKey(t))
                  /\ UNCHANGED storeVars
        /\ Become(w, [worker[w] EXCEPT !.dropped = @ \ {t}])
  /\ UNCHANGED <<matches, allocations, banned>>

\* The pool still has enough tickets after the first check.
FilterDone(w) ==
  /\ At(w, "cancel") /\ worker[w].dropped = {}
  /\ IF Cardinality(worker[w].picked) >= MatchSize THEN Goto(w, "select")
     ELSE NextPool(w)
  /\ UNCHANGED <<storeVars, matches, allocations, banned>>

\* Ids nothing refers to: what a fresh UUID is.
FreshIds ==
  Matches \ (DOMAIN matches \cup DOMAIN reservations \cup DOMAIN allocations
             \cup {worker[w].match : w \in Workers})

\* GenerateCandidates, selectServerRegion and OptimizeTeams find a formation
\* for a region that has a server to offer; the ids of the attempt are drawn.
SelectFormation(w) ==
  /\ At(w, "select")
  /\ \E S \in SUBSET worker[w].picked, g \in Regions, m \in FreshIds :
        /\ Cardinality(S) = MatchSize
        /\ \A t, u \in S : tickets[t].player = tickets[u].player => t = u
        /\ AvailableServers(g) > 0
        /\ Become(w, [worker[w] EXCEPT !.pc = "recheck", !.picked = S,
                                       !.region = g, !.match = m])
  /\ UNCHANGED <<storeVars, matches, allocations, banned>>

\* No formation: too few candidates, no valid split, no region with a server
\* within the latency limits, or a quality below the minimum.
NoFormation(w) ==
  /\ At(w, "select")
  /\ NextPool(w)
  /\ UNCHANGED <<storeVars, matches, allocations, banned>>

\* The second check must not have removed any ticket of the formation.
RecheckDone(w) ==
  /\ At(w, "recancel") /\ worker[w].dropped = {}
  /\ IF Cardinality(worker[w].picked) = MatchSize THEN Goto(w, "reserve")
     ELSE NextPool(w)
  /\ UNCHANGED <<storeVars, matches, allocations, banned>>

-----------------------------------------------------------------------------
(* tryPool: making the match *)

ReserveFormation(w) ==
  /\ At(w, "reserve")
  /\ Store!ReserveAll(worker[w].picked, worker[w].match)
  /\ Goto(w, "create")
  /\ UNCHANGED <<matches, allocations, banned>>

\* ErrReservationConflict: a ticket was reserved or cancelled since the
\* snapshot.
ReservationConflict(w) ==
  /\ At(w, "reserve")
  /\ ~Store!Reservable(worker[w].picked)
  /\ Abandon(w)
  /\ UNCHANGED <<storeVars, matches, allocations, banned>>

CreateMatch(w) ==
  /\ At(w, "create")
  /\ Create(worker[w].match, NewMatch(worker[w].picked))
  /\ Goto(w, "startAllocation")
  /\ UNCHANGED <<storeVars, allocations, banned>>

\* The worker's own copy of its match after StartAllocation.
AllocatingCopy(w) == Moved(NewMatch(worker[w].picked), "ALLOCATING")
\* ... and after MarkReady.
ReadyCopy(w) == Moved(AllocatingCopy(w), "READY")

StartAllocation(w) ==
  /\ At(w, "startAllocation")
  /\ Update(worker[w].match, AllocatingCopy(w))
  /\ Goto(w, "allocate")
  /\ UNCHANGED <<storeVars, allocations, banned>>

AllocateServer(w) ==
  /\ At(w, "allocate")
  /\ Allocate(worker[w].match, worker[w].region)
  /\ Goto(w, "assign")
  /\ UNCHANGED <<storeVars, matches, banned>>

\* Fault: the stored match is not failed.
Fault_NoServerCapacity(w) ==
  /\ At(w, "allocate")
  /\ ~CanAllocate(worker[w].match, worker[w].region)
  /\ Goto(w, "releaseTickets")
  /\ UNCHANGED <<storeVars, matches, allocations, banned>>

\* ErrNoServerCapacity: another match took the server since it was offered.
\* The match fails, the tickets go back and the next pool is tried.
NoServerCapacity(w) ==
  /\ At(w, "allocate")
  /\ ~CanAllocate(worker[w].match, worker[w].region)
  /\ Goto(w, "failMatch")
  /\ UNCHANGED <<storeVars, matches, allocations, banned>>

\* Fault: the error of AssignAll is ignored.
Fault_AssignTickets(w) ==
  /\ At(w, "assign")
  /\ \/ Store!AssignAll(worker[w].match, worker[w].match)
     \/ ~Store!Outstanding(worker[w].match) /\ UNCHANGED storeVars
  /\ Goto(w, "publish")
  /\ UNCHANGED <<matches, allocations, banned>>

AssignTickets(w) ==
  /\ At(w, "assign")
  /\ Store!AssignAll(worker[w].match, worker[w].match)
  /\ Goto(w, "publish")
  /\ UNCHANGED <<matches, allocations, banned>>

\* The reservation is gone: it lapsed and was recovered meanwhile.  After the
\* cleanup the iteration ends (no pool is left to try).
AssignmentConflict(w) ==
  /\ At(w, "assign")
  /\ ~Store!Outstanding(worker[w].match)
  /\ Become(w, [worker[w] EXCEPT !.pc = "releaseServer", !.todo = {}])
  /\ UNCHANGED <<storeVars, matches, allocations, banned>>

\* The local READY copy is stored; the iteration returns the match.
PublishMatch(w) ==
  /\ At(w, "publish")
  /\ Update(worker[w].match, ReadyCopy(w))
  /\ Abandon(w)
  /\ UNCHANGED <<storeVars, allocations, banned>>

-----------------------------------------------------------------------------
(* tryPool: cleaning up *)

\* Fault: releaseAllocation is not called.
Fault_ReleaseServer(w) ==
  /\ At(w, "releaseServer")
  /\ Goto(w, "failMatch")
  /\ UNCHANGED <<storeVars, matches, allocations, banned>>

ReleaseServer(w) ==
  /\ At(w, "releaseServer")
  /\ Release(worker[w].match)
  /\ Goto(w, "failMatch")
  /\ UNCHANGED <<storeVars, matches, banned>>

\* failStoredMatch: Get, Fail and Update.  Only its worker writes a match
\* that is not READY, so nothing comes between the three.
FailMatch(w) ==
  /\ At(w, "failMatch")
  /\ LET m == worker[w].match
     IN  CanFail(matches[m]) /\ Update(m, Failed(matches[m]))
  /\ Goto(w, "releaseTickets")
  /\ UNCHANGED <<storeVars, allocations, banned>>

\* ReleaseAll; its error (the reservation is gone) is ignored.
ReleaseTickets(w) ==
  /\ At(w, "releaseTickets")
  /\ \/ Store!ReleaseAll(worker[w].match)
     \/ ~Store!Outstanding(worker[w].match) /\ UNCHANGED storeVars
  /\ NextPool(w)
  /\ UNCHANGED <<matches, allocations, banned>>

-----------------------------------------------------------------------------

WorkerStep(w) ==
  \/ RecoverReservations(w)
  \/ ListPools(w)
  \/ Snapshot(w)
  \/ Filter(w, "check", "cancel")
  \/ FilterFails(w, "check")
  \/ CancelDropped(w, "cancel")
  \/ FilterDone(w)
  \/ SelectFormation(w)
  \/ NoFormation(w)
  \/ Filter(w, "recheck", "recancel")
  \/ FilterFails(w, "recheck")
  \/ CancelDropped(w, "recancel")
  \/ RecheckDone(w)
  \/ ReserveFormation(w)
  \/ ReservationConflict(w)
  \/ CreateMatch(w)
  \/ StartAllocation(w)
  \/ AllocateServer(w)
  \/ NoServerCapacity(w)
  \/ AssignTickets(w)
  \/ AssignmentConflict(w)
  \/ PublishMatch(w)
  \/ ReleaseServer(w)
  \/ FailMatch(w)
  \/ ReleaseTickets(w)
=============================================================================
