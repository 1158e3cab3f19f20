------------------------- MODULE Matchmaking_proofs -------------------------
(***************************************************************************)
(* Proofs about the matchmaking service with in-memory back ends, for any  *)
(* number of players, tickets, matches, workers and callers, any size of a *)
(* match and any number of servers.                                        *)
(*                                                                         *)
(* What the ticket store keeps by itself is taken from its own proofs.     *)
(***************************************************************************)
EXTENDS Matchmaking, FiniteSetTheorems, TLAPS

StoreProofs == INSTANCE TicketStore_proofs WITH Reservations <- Matches

\* The store is as its proofs say, and has a ticket per creation so far.
StoreFits ==
  /\ StoreProofs!IInv
  /\ IsFiniteSet(DOMAIN tickets)

\* No region has more servers in use than it has.
ServersFit ==
  /\ IsMap(allocations, Matches, Regions)
  /\ IsFiniteSet(DOMAIN allocations)
  /\ \A g \in Regions : InUse(g) <= ServerCount[g]

\* The tickets of a full match: MatchSize of them, of as many players.
FullRoster(S) ==
  /\ S \subseteq DOMAIN tickets
  /\ Cardinality(S) = MatchSize
  /\ \A t, u \in S : tickets[t].player = tickets[u].player => t = u

\* A match is stored with the revision of its state: that is why a copy that
\* was read before another request's Update is refused afterwards.
RevisionFits(x) ==
  /\ x.state = "CREATED" => x.revision = 1
  /\ x.state = "ALLOCATING" => x.revision = 2
  /\ x.state \in {"READY", "FAILED"} => x.revision = 3
  /\ x.state = "RUNNING" => x.revision = 4
  /\ x.state = "FINISHED" => x.revision = 5

\* What is stored of attempt m, and what its tickets say.
MatchFits(m) ==
  /\ m \notin DOMAIN matches => Store!AssignedTo(m) = {}
  /\ m \in DOMAIN matches =>
       /\ matches[m] \in Match
       /\ RevisionFits(matches[m])
       /\ FullRoster(matches[m].roster)
       /\ matches[m].state \in {"CREATED", "ALLOCATING"} => InTheMaking(m)
  /\ Open(m) =>
       /\ m \in DOMAIN allocations
       /\ Store!AssignedTo(m) = matches[m].roster
       /\ Store!Blocking(m) = matches[m].roster
  /\ m \in DOMAIN reservations => InTheMaking(m)
  /\ m \in DOMAIN allocations => InTheMaking(m) \/ Open(m) \/ Over(m)

\* A worker's iteration before it has drawn the ids of an attempt.
Choosing == {"idle", "poolKeys", "pools", "check", "cancel", "select"}
\* Nothing is stored of its attempt yet.
Checking == {"recheck", "recancel", "reserve"}
\* It has made a reservation.
Making == {"create", "startAllocation", "allocate", "assign", "publish",
           "releaseServer", "failMatch", "releaseTickets"}

\* What worker w relies on: everything stored under the id of its attempt was
\* stored by itself, except that its reservation may have been recovered.
WorkerFits(w) ==
  LET x == worker[w]
      m == worker[w].match
  IN
  /\ x \in WorkerState
  /\ m = None <=> x.pc \in Choosing
  /\ x.pc \notin Choosing => x.region \in Regions
  /\ x.picked \subseteq DOMAIN tickets
  /\ x.pc \in Checking =>
       m \notin DOMAIN matches \cup DOMAIN reservations \cup DOMAIN allocations
  /\ x.pc = "reserve" => Cardinality(x.picked) = MatchSize
  /\ x.pc \in Making => FullRoster(x.picked)
  /\ x.pc \in Making \ {"publish"} =>
       /\ m \in DOMAIN reservations => reservations[m] = x.picked
       /\ Store!AssignedTo(m) = {}
  /\ x.pc = "create" => m \notin DOMAIN matches
  /\ x.pc = "startAllocation" => m \in DOMAIN matches /\ matches[m] = NewMatch(x.picked)
  /\ x.pc \in {"allocate", "assign", "publish", "releaseServer", "failMatch"} =>
       m \in DOMAIN matches /\ matches[m] = AllocatingCopy(w)
  /\ x.pc = "releaseTickets" => m \in DOMAIN matches /\ matches[m].state = "FAILED"
  /\ x.pc \in {"create", "startAllocation", "allocate", "failMatch", "releaseTickets"} =>
       m \notin DOMAIN allocations
  /\ x.pc \in {"assign", "publish"} => m \in DOMAIN allocations
  /\ x.pc = "publish" =>
       /\ m \notin DOMAIN reservations
       /\ Store!AssignedTo(m) = x.picked
       /\ Store!Blocking(m) = x.picked

\* Every attempt has an id of its own.
IdsDiffer ==
  \A v, w \in Workers : worker[v].match = worker[w].match /\ v # w => worker[v].match = None

\* What a request relies on: the match has not moved back since it was read.
CallFits(c) ==
  LET m == call[c].match
      copy == call[c].copy
  IN
  /\ call[c] \in CallState
  /\ ~InCall(c, "none") =>
       m \in DOMAIN matches /\ matches[m].state \in {"READY", "RUNNING", "FINISHED"}
  /\ InCall(c, "storeStarted") =>
       copy \in Match /\ copy.state = "RUNNING" /\ copy.revision = 4
       /\ copy.roster = matches[m].roster
  /\ InCall(c, "storeCompleted") =>
       /\ copy \in Match /\ copy.state = "FINISHED" /\ copy.revision = 5
       /\ copy.roster = matches[m].roster
       /\ matches[m].state \in {"RUNNING", "FINISHED"}
  /\ call[c].pc \in {"resolve", "completeTickets", "releaseServer"} =>
       matches[m].state = "FINISHED"
  /\ InCall(c, "releaseServer") => Store!Blocking(m) = {}

IInv ==
  /\ StoreFits
  /\ ServersFit
  /\ DOMAIN matches \subseteq Matches
  /\ worker \in [Workers -> WorkerState]
  /\ call \in [Callers -> CallState]
  /\ \A m \in Matches : MatchFits(m)
  /\ \A w \in Workers : WorkerFits(w)
  /\ IdsDiffer
  /\ \A c \in Callers : CallFits(c)

-----------------------------------------------------------------------------
(* What is not disturbed *)

\* The tickets stay, and stay with their players.
TicketsStay ==
  \A t \in DOMAIN tickets : t \in DOMAIN tickets' /\ tickets'[t].player = tickets[t].player

\* The store says the same of m, unless its reservation is forgotten.
Untouched(m) ==
  /\ m \in DOMAIN reservations' =>
       m \in DOMAIN reservations /\ reservations'[m] = reservations[m]
  /\ Store!AssignedTo(m)' = Store!AssignedTo(m)
  /\ Store!Blocking(m)' = Store!Blocking(m)

\* Match m and its server stay as they are.
Undisturbed(m) ==
  /\ Untouched(m)
  /\ m \in DOMAIN matches' <=> m \in DOMAIN matches
  /\ m \in DOMAIN matches => matches'[m] = matches[m]
  /\ m \in DOMAIN allocations' <=> m \in DOMAIN allocations

\* Match m moves on, or stays as it is.
Forward(m) ==
  /\ m \in DOMAIN matches'
  /\ matches'[m].roster = matches[m].roster
  /\ matches[m].state = "READY" => matches'[m].state \in {"READY", "RUNNING"}
  /\ matches[m].state = "RUNNING" => matches'[m].state \in {"RUNNING", "FINISHED"}
  /\ matches[m].state = "FINISHED" => matches'[m].state = "FINISHED"
  /\ Store!Blocking(m) = {} => Store!Blocking(m)' = {}

\* A full roster stays full.
LEMMA FullRosterStays ==
  ASSUME TicketsStay, NEW S, FullRoster(S)
  PROVE  FullRoster(S)'
  BY DEF TicketsStay, FullRoster

LEMMA WorkerUndisturbed ==
  ASSUME IInv, TicketsStay, NEW v \in Workers, worker'[v] = worker[v],
         \A n \in Matches : n = worker[v].match => Undisturbed(n)
  PROVE  WorkerFits(v)'
<1> DEFINE m == worker[v].match
           x == worker[v]
<1>1. WorkerFits(v)
  BY DEF IInv
<1>2. x.pc \in Checking \cup Making =>
        /\ m \in DOMAIN reservations' =>
             m \in DOMAIN reservations /\ reservations'[m] = reservations[m]
        /\ Store!AssignedTo(m)' = Store!AssignedTo(m)
        /\ Store!Blocking(m)' = Store!Blocking(m)
        /\ m \in DOMAIN matches' <=> m \in DOMAIN matches
        /\ m \in DOMAIN matches => matches'[m] = matches[m]
        /\ m \in DOMAIN allocations' <=> m \in DOMAIN allocations
  <2> SUFFICES ASSUME x.pc \in Checking \cup Making
               PROVE  /\ m \in DOMAIN reservations' =>
                           m \in DOMAIN reservations /\ reservations'[m] = reservations[m]
                      /\ Store!AssignedTo(m)' = Store!AssignedTo(m)
                      /\ Store!Blocking(m)' = Store!Blocking(m)
                      /\ m \in DOMAIN matches' <=> m \in DOMAIN matches
                      /\ m \in DOMAIN matches => matches'[m] = matches[m]
                      /\ m \in DOMAIN allocations' <=> m \in DOMAIN allocations
    OBVIOUS
  <2>1. m \in Matches
    BY <1>1 DEF WorkerFits, WorkerState, Choosing, Checking, Making
  <2>2. PICK n \in Matches : n = m
    BY <2>1
  <2>3. Undisturbed(n)
    BY <2>2
  <2>4. m' = n
    BY <2>2
  <2>5. QED
    BY <2>2, <2>3, <2>4 DEF Undisturbed, Untouched
<1>3. AllocatingCopy(v)' = AllocatingCopy(v)
  BY DEF AllocatingCopy
<1>4. x.picked \subseteq DOMAIN tickets'
  BY <1>1 DEF WorkerFits, TicketsStay
<1>5. x.pc \in Checking =>
        m \notin DOMAIN matches' \cup DOMAIN reservations' \cup DOMAIN allocations'
  BY <1>1, <1>2 DEF WorkerFits
<1>6. x.pc \in Making => FullRoster(x.picked)'
  BY <1>1, FullRosterStays DEF WorkerFits
<1>7. x.pc \in Making \ {"publish"} =>
        /\ m \in DOMAIN reservations' => reservations'[m] = x.picked
        /\ Store!AssignedTo(m)' = {}
  BY <1>1, <1>2 DEF WorkerFits
<1>8. /\ x.pc = "create" => m \notin DOMAIN matches'
      /\ x.pc = "startAllocation" =>
           m \in DOMAIN matches' /\ matches'[m] = NewMatch(x.picked)
      /\ x.pc \in {"allocate", "assign", "publish", "releaseServer", "failMatch"} =>
           m \in DOMAIN matches' /\ matches'[m] = AllocatingCopy(v)'
      /\ x.pc = "releaseTickets" => m \in DOMAIN matches' /\ matches'[m].state = "FAILED"
  BY <1>1, <1>2, <1>3 DEF WorkerFits, Making
<1>9. /\ x.pc \in {"create", "startAllocation", "allocate", "failMatch", "releaseTickets"} =>
           m \notin DOMAIN allocations'
      /\ x.pc \in {"assign", "publish"} => m \in DOMAIN allocations'
  BY <1>1, <1>2 DEF WorkerFits, Making
<1>10. x.pc = "publish" =>
         /\ m \notin DOMAIN reservations'
         /\ Store!AssignedTo(m)' = x.picked
         /\ Store!Blocking(m)' = x.picked
  BY <1>1, <1>2 DEF WorkerFits, Making
<1>11. /\ x \in WorkerState /\ (m = None <=> x.pc \in Choosing)
       /\ x.pc \notin Choosing => x.region \in Regions
       /\ x.pc = "reserve" => Cardinality(x.picked) = MatchSize
  BY <1>1 DEF WorkerFits
<1>12. QED
  BY <1>4, <1>5, <1>6, <1>7, <1>8, <1>9, <1>10, <1>11 DEF WorkerFits

LEMMA MatchUndisturbed ==
  ASSUME IInv, TicketsStay, NEW m \in Matches, Undisturbed(m),
         InTheMaking(m) => InTheMaking(m)'
  PROVE  MatchFits(m)'
<1>1. MatchFits(m)
  BY DEF IInv
<1>2. m \notin DOMAIN matches' => Store!AssignedTo(m)' = {}
  BY <1>1 DEF MatchFits, Undisturbed, Untouched
<1>3. m \in DOMAIN matches' =>
        /\ matches'[m] \in Match
        /\ RevisionFits(matches'[m])
        /\ FullRoster(matches[m].roster)'
        /\ matches'[m].state \in {"CREATED", "ALLOCATING"} => InTheMaking(m)'
  BY <1>1, FullRosterStays DEF MatchFits, Undisturbed
<1>4. /\ Open(m)' <=> Open(m)
      /\ Over(m)' <=> Over(m)
  BY DEF Open, Over, Undisturbed
<1>5. Open(m)' =>
       /\ m \in DOMAIN allocations'
       /\ Store!AssignedTo(m)' = matches'[m].roster
       /\ Store!Blocking(m)' = matches'[m].roster
  BY <1>1, <1>4 DEF MatchFits, Undisturbed, Untouched, Open
<1>6. /\ m \in DOMAIN reservations' => InTheMaking(m)'
      /\ m \in DOMAIN allocations' => InTheMaking(m)' \/ Open(m)' \/ Over(m)'
  BY <1>1, <1>4 DEF MatchFits, Undisturbed, Untouched
<1>7. QED
  BY <1>2, <1>3, <1>5, <1>6 DEF MatchFits

LEMMA CallUndisturbed ==
  ASSUME IInv, NEW c \in Callers, call'[c] = call[c],
         \A n \in Matches : n = call[c].match /\ ~InCall(c, "none") => Forward(n)
  PROVE  CallFits(c)'
<1>1. CallFits(c)
  BY DEF IInv
<1>2. CASE InCall(c, "none")
  BY <1>1, <1>2 DEF CallFits, InCall
<1>3. CASE ~InCall(c, "none")
  <2>1. call[c].match \in Matches
    BY <1>1, <1>3 DEF CallFits, InCall, CallState, NoCall
  <2>2. PICK n \in Matches : n = call[c].match
    BY <2>1
  <2>3. Forward(n)
    BY <1>3, <2>2
  <2>4. QED
    BY <1>1, <2>2, <2>3 DEF CallFits, Forward, InCall
<1>4. QED
  BY <1>2, <1>3

\* What is undisturbed does not move back.
LEMMA UndisturbedForward ==
  ASSUME NEW m \in DOMAIN matches, Undisturbed(m)
  PROVE  Forward(m)
  BY DEF Undisturbed, Untouched, Forward

\* A match that requests work on is in no worker's hands.
LEMMA NotInTheMaking ==
  ASSUME IInv, NEW m \in DOMAIN matches,
         matches[m].state \in {"READY", "RUNNING", "FINISHED"},
         NEW v \in Workers
  PROVE  worker[v].match # m
<1> SUFFICES ASSUME worker[v].match = m PROVE FALSE
  OBVIOUS
<1>1. WorkerFits(v) /\ m \in Matches
  BY DEF IInv
<1>2. worker[v].pc \in Checking \cup Making
  BY <1>1, NoneAssumption DEF WorkerFits, WorkerState, PC, Choosing, Checking, Making
<1>3. NewMatch(worker[v].picked).state = "CREATED"
  BY DEF NewMatch
<1>4. AllocatingCopy(v).state = "ALLOCATING"
  BY DEF AllocatingCopy, Moved, NewMatch
<1>5. QED
  BY <1>1, <1>2, <1>3, <1>4 DEF WorkerFits, Checking, Making

\* A step of worker w touches the match of its own attempt only.
LEMMA WorkerMoves ==
  ASSUME IInv, NEW w \in Workers, NEW x \in WorkerState,
         worker' = [worker EXCEPT ![w] = x], UNCHANGED call,
         TicketsStay, StoreFits', ServersFit',
         DOMAIN matches' \subseteq Matches,
         \A n \in Matches : n # worker[w].match => Undisturbed(n),
         \A n \in Matches : n = worker[w].match => MatchFits(n)',
         WorkerFits(w)',
         \/ x.match \in {worker[w].match, None}
         \/ \A v \in Workers : worker[v].match # x.match
  PROVE  IInv'
<1>1. /\ worker'[w] = x
      /\ \A v \in Workers \ {w} : worker'[v] = worker[v]
      /\ worker' \in [Workers -> WorkerState]
  BY DEF IInv
<1>2. ASSUME NEW v \in Workers \ {w}, NEW n \in Matches, n = worker[v].match
      PROVE  n # worker[w].match
  BY <1>2, NoneAssumption DEF IInv, IdsDiffer
<1>3. \A v \in Workers : WorkerFits(v)'
  BY <1>1, <1>2, WorkerUndisturbed
<1>4. IdsDiffer'
  <2>1. ASSUME NEW v \in Workers \ {w}, worker[v].match = x.match PROVE x.match = None
    BY <2>1 DEF IInv, IdsDiffer
  <2>2. QED
    BY <1>1, <2>1 DEF IInv, IdsDiffer
<1>5. ASSUME NEW n \in Matches PROVE MatchFits(n)'
  <2>1. CASE n = worker[w].match
    BY <2>1
  <2>2. CASE n # worker[w].match
    <3>1. InTheMaking(n) => InTheMaking(n)'
      BY <1>1, <2>2 DEF InTheMaking
    <3>2. QED
      BY <2>2, <3>1, MatchUndisturbed
  <2>3. QED
    BY <2>1, <2>2
<1>6. ASSUME NEW c \in Callers PROVE CallFits(c)'
  <2>1. ~InCall(c, "none") =>
          /\ call[c].match \in DOMAIN matches
          /\ matches[call[c].match].state \in {"READY", "RUNNING", "FINISHED"}
    BY DEF IInv, CallFits
  <2>2. ASSUME NEW n \in Matches, n = call[c].match, ~InCall(c, "none") PROVE Forward(n)
    <3>1. n # worker[w].match
      BY <2>1, <2>2, NotInTheMaking
    <3>2. QED
      BY <2>1, <2>2, <3>1, UndisturbedForward
  <2>3. QED
    BY <2>2, CallUndisturbed
<1>7. QED
  BY <1>1, <1>3, <1>4, <1>5, <1>6 DEF IInv

\* A step of worker w that is seen by nobody else: if it gives its attempt up,
\* nothing is stored of that.
LEMMA WorkerPrivate ==
  ASSUME IInv, NEW w \in Workers, NEW x \in WorkerState,
         worker' = [worker EXCEPT ![w] = x],
         UNCHANGED <<storeVars, matches, allocations, call>>,
         WorkerFits(w)',
         \/ x.match = worker[w].match
         \/ worker[w].match = None /\ \A v \in Workers : worker[v].match # x.match
         \/ worker[w].pc \in Checking /\ x.match = None
  PROVE  IInv'
<1>1. UNCHANGED <<tickets, activeByPlayer, createIdempotency, cancelIdempotency,
                  pools, reservations, lapsed>>
  BY DEF storeVars
<1>2. TicketsStay
  BY <1>1 DEF TicketsStay
<1>3. \A n \in Matches : Undisturbed(n)
  BY <1>1 DEF Undisturbed, Untouched, Store!AssignedTo, Store!Blocking
<1>4. StoreFits' /\ ServersFit' /\ DOMAIN matches' \subseteq Matches
  <2>1. StoreFits'
    BY <1>1, SMT DEF IInv, StoreFits, StoreProofs!IInv, StoreProofs!TypeOK,
       StoreProofs!ReservationAgreement, StoreProofs!ActiveIndexAgreement,
       StoreProofs!PoolAgreement, StoreProofs!LedgerAgreement
  <2>2. ServersFit' /\ DOMAIN matches' \subseteq Matches
    BY DEF IInv, ServersFit, InUse
  <2>3. QED
    BY <2>1, <2>2
<1>5. ASSUME NEW m \in Matches, m = worker[w].match PROVE MatchFits(m)'
  <2>1. m # None
    BY NoneAssumption
  <2>2. CASE x.match = m
    <3>1. InTheMaking(m)'
      BY <1>5, <2>2 DEF InTheMaking, IInv
    <3>2. QED
      BY <1>2, <1>3, <3>1, MatchUndisturbed
  <2>3. CASE worker[w].pc \in Checking
    <3>1. m \notin DOMAIN matches \cup DOMAIN reservations \cup DOMAIN allocations
      BY <1>5, <2>3 DEF IInv, WorkerFits
    <3>2. Store!AssignedTo(m) = {}
      BY <3>1 DEF IInv, MatchFits
    <3>3. Store!AssignedTo(m)' = {}
      BY <1>3, <3>2 DEF Undisturbed, Untouched
    <3>4. QED
      BY <1>1, <3>1, <3>3 DEF MatchFits, Open
  <2>4. QED
    BY <1>5, <2>1, <2>2, <2>3
<1>6. x.match \in {worker[w].match, None} \/ \A v \in Workers : worker[v].match # x.match
  OBVIOUS
<1>7. QED
  BY <1>2, <1>3, <1>4, <1>5, <1>6, WorkerMoves

\* A step of a request moves its match forward, and touches no other.
LEMMA CallMoves ==
  ASSUME IInv, NEW c \in Callers, NEW x \in CallState,
         call' = [call EXCEPT ![c] = x], UNCHANGED worker,
         TicketsStay, StoreFits', ServersFit',
         NEW m \in DOMAIN matches, matches[m].state \in {"READY", "RUNNING", "FINISHED"},
         DOMAIN matches' = DOMAIN matches,
         \A n \in Matches : n # m => Undisturbed(n),
         Forward(m), MatchFits(m)', CallFits(c)'
  PROVE  IInv'
<1>1. /\ \A d \in Callers \ {c} : call'[d] = call[d]
      /\ call' \in [Callers -> CallState]
  BY DEF IInv
<1>2. ASSUME NEW v \in Workers PROVE WorkerFits(v)'
  <2>1. \A n \in Matches : n = worker[v].match => Undisturbed(n)
    BY NotInTheMaking
  <2>2. QED
    BY <2>1, WorkerUndisturbed
<1>3. ASSUME NEW n \in Matches PROVE MatchFits(n)'
  <2>1. CASE n = m
    BY <2>1
  <2>2. CASE n # m
    <3>1. InTheMaking(n) => InTheMaking(n)'
      BY DEF InTheMaking
    <3>2. QED
      BY <2>2, <3>1, MatchUndisturbed
  <2>3. QED
    BY <2>1, <2>2
<1>4. ASSUME NEW d \in Callers PROVE CallFits(d)'
  <2>1. ~InCall(d, "none") => call[d].match \in DOMAIN matches
    BY DEF IInv, CallFits
  <2>2. \A n \in Matches : n = call[d].match /\ ~InCall(d, "none") => Forward(n)
    BY <2>1, UndisturbedForward
  <2>3. QED
    BY <1>1, <2>2, CallUndisturbed
<1>5. IdsDiffer' /\ worker' \in [Workers -> WorkerState] /\ DOMAIN matches' \subseteq Matches
  BY DEF IInv, IdsDiffer
<1>6. QED
  BY <1>1, <1>2, <1>3, <1>4, <1>5 DEF IInv

\* A step that touches no attempt and no request.
LEMMA OthersMove ==
  ASSUME IInv, UNCHANGED <<matches, allocations, worker, call>>,
         TicketsStay, StoreFits', \A n \in Matches : Untouched(n)
  PROVE  IInv'
<1>1. \A n \in Matches : Undisturbed(n)
  BY DEF Undisturbed
<1>2. ASSUME NEW v \in Workers PROVE WorkerFits(v)'
  <2>1. \A n \in Matches : n = worker[v].match => Undisturbed(n)
    BY <1>1
  <2>2. QED
    BY <2>1, WorkerUndisturbed
<1>3. ASSUME NEW n \in Matches PROVE MatchFits(n)'
  <2>1. InTheMaking(n) => InTheMaking(n)'
    BY DEF InTheMaking
  <2>2. QED
    BY <1>1, <2>1, MatchUndisturbed
<1>4. ASSUME NEW d \in Callers PROVE CallFits(d)'
  <2>1. ~InCall(d, "none") => call[d].match \in DOMAIN matches
    BY DEF IInv, CallFits
  <2>2. \A n \in Matches : n = call[d].match /\ ~InCall(d, "none") => Forward(n)
    BY <1>1, <2>1, UndisturbedForward
  <2>3. QED
    BY <2>2, CallUndisturbed
<1>5. IdsDiffer' /\ worker' \in [Workers -> WorkerState] /\ DOMAIN matches' \subseteq Matches
      /\ call' \in [Callers -> CallState] /\ ServersFit'
  BY DEF IInv, IdsDiffer, ServersFit, InUse
<1>6. QED
  BY <1>2, <1>3, <1>4, <1>5 DEF IInv

-----------------------------------------------------------------------------
(* What the methods of the ticket store do to the matches *)

\* The store of the model and the store of the proofs are the same.
LEMMA SameStore ==
  /\ \A m : StoreProofs!Untouched(m) => Untouched(m)
  /\ StoreProofs!TicketsStay => TicketsStay
<1>1. ASSUME NEW m, StoreProofs!Untouched(m) PROVE Untouched(m)
  BY <1>1 DEF Untouched, StoreProofs!Untouched, Store!AssignedTo, StoreProofs!AssignedTo,
     Store!Blocking, StoreProofs!Blocking
<1>2. StoreProofs!TicketsStay => TicketsStay
  BY DEF TicketsStay, StoreProofs!TicketsStay
<1>3. QED
  BY <1>1, <1>2

LEMMA StoreStepStays ==
  ASSUME IInv, StoreProofs!Next
  PROVE  TicketsStay
  BY SameStore, NoneAssumption, OrderAssumption, LimitAssumption,
     StoreProofs!TicketsStayWithTheirPlayers DEF IInv, StoreFits

LEMMA CreateTicketTouches ==
  ASSUME IInv, NEW p \in Players, CreateTicket(p)
  PROVE  StoreFits' /\ TicketsStay /\ \A n \in Matches : Untouched(n)
<1>1. PICK t \in Tickets, k \in PoolKeys, key \in Keys : Store!CreateQueued(t, p, k, key)
  BY IdsAssumption DEF CreateTicket
<1>2. StoreProofs!CreateQueued(t, p, k, key)
  BY <1>1 DEF Store!CreateQueued, StoreProofs!CreateQueued, Store!IsNewRequest,
     StoreProofs!IsNewRequest, Store!MayQueue, StoreProofs!MayQueue, Store!IsActive,
     StoreProofs!IsActive, Store!QueuedTicket, StoreProofs!QueuedTicket,
     Store!Put, StoreProofs!Put
<1>3. StoreProofs!IInv'
  BY <1>2, NoneAssumption, OrderAssumption, LimitAssumption,
     StoreProofs!CreateQueuedIInv DEF IInv, StoreFits
<1>4. \A n \in Matches : StoreProofs!Untouched(n)
  BY <1>2, NoneAssumption, OrderAssumption, LimitAssumption,
     StoreProofs!CreateQueuedElsewhere DEF IInv, StoreFits
<1>5. IsFiniteSet(DOMAIN tickets')
  <2>1. DOMAIN tickets' = DOMAIN tickets \cup {t}
    BY <1>1 DEF Store!CreateQueued, Store!Put
  <2>2. QED
    BY <2>1, FS_AddElement DEF IInv, StoreFits
<1>6. TicketsStay
  BY <1>2, StoreStepStays DEF StoreProofs!Next
<1>7. QED
  BY <1>3, <1>4, <1>5, <1>6, SameStore DEF StoreFits

LEMMA CancelTouches ==
  ASSUME IInv, NEW t \in Tickets, NEW p \in Players, NEW key \in Store!CancelKeys,
         Store!Cancel(t, p, key)
  PROVE  StoreFits' /\ TicketsStay /\ \A n \in Matches : Untouched(n)
<1>1. key \in StoreProofs!CancelKeys
  BY DEF Store!CancelKeys, StoreProofs!CancelKeys, Store!SystemKey, StoreProofs!SystemKey
<1>2. StoreProofs!Cancel(t, p, key)
  BY DEF Store!Cancel, StoreProofs!Cancel, Store!CancelAllowed, StoreProofs!CancelAllowed,
     Store!CanCancel, StoreProofs!CanCancel, Store!Rewrite, StoreProofs!Rewrite,
     Store!Cancelled, StoreProofs!Cancelled, Store!ForgetActive, StoreProofs!ForgetActive,
     Store!WithoutTickets, StoreProofs!WithoutTickets, Store!Put, StoreProofs!Put,
     Store!Restrict, StoreProofs!Restrict
<1>3. StoreProofs!IInv'
  BY <1>1, <1>2, NoneAssumption, OrderAssumption, LimitAssumption,
     StoreProofs!CancelIInv DEF IInv, StoreFits
<1>4. \A n \in Matches : StoreProofs!Untouched(n)
  BY <1>1, <1>2, NoneAssumption, OrderAssumption, LimitAssumption,
     StoreProofs!CancelElsewhere DEF IInv, StoreFits
<1>5. DOMAIN tickets' = DOMAIN tickets
  BY DEF Store!Cancel, Store!Rewrite
<1>6. TicketsStay
  BY <1>1, <1>2, StoreStepStays DEF StoreProofs!Next
<1>7. QED
  BY <1>3, <1>4, <1>5, <1>6, SameStore DEF IInv, StoreFits

LEMMA LapseTouches ==
  ASSUME IInv, NEW r \in Matches, Store!Lapse(r)
  PROVE  StoreFits' /\ TicketsStay /\ \A n \in Matches : Untouched(n)
<1>1. StoreProofs!Lapse(r)
  BY DEF Store!Lapse, StoreProofs!Lapse, Store!ledgers, StoreProofs!ledgers
<1>2. StoreProofs!IInv'
  BY <1>1, NoneAssumption, OrderAssumption, LimitAssumption,
     StoreProofs!LapseIInv DEF IInv, StoreFits
<1>3. UNCHANGED <<tickets, activeByPlayer, reservations>>
  BY DEF Store!Lapse, Store!ledgers
<1>4. QED
  BY <1>2, <1>3 DEF IInv, StoreFits, TicketsStay, Untouched, Store!AssignedTo, Store!Blocking

LEMMA RecoveryTouches ==
  ASSUME IInv, Store!RecoverExpiredReservations
  PROVE  StoreFits' /\ TicketsStay /\ \A n \in Matches : Untouched(n)
<1>1. StoreProofs!RecoverExpiredReservations
  BY DEF Store!RecoverExpiredReservations, StoreProofs!RecoverExpiredReservations,
     Store!Rewrite, StoreProofs!Rewrite, Store!LapsedTickets, StoreProofs!LapsedTickets,
     Store!Released, StoreProofs!Released, Store!Restrict, StoreProofs!Restrict,
     Store!ledgers, StoreProofs!ledgers
<1>2. StoreProofs!IInv'
  BY <1>1, NoneAssumption, OrderAssumption, LimitAssumption,
     StoreProofs!RecoverExpiredReservationsIInv DEF IInv, StoreFits
<1>3. lapsed \in SUBSET DOMAIN reservations /\ StoreProofs!Requeue(lapsed)
  BY <1>1, NoneAssumption, OrderAssumption, LimitAssumption,
     StoreProofs!RecoveryRequeues DEF IInv, StoreFits
<1>4. \A n \in Matches : StoreProofs!Untouched(n)
  BY <1>3, NoneAssumption, OrderAssumption, LimitAssumption,
     StoreProofs!RequeueElsewhere DEF IInv, StoreFits
<1>5. DOMAIN tickets' = DOMAIN tickets
  BY DEF Store!RecoverExpiredReservations, Store!Rewrite
<1>6. TicketsStay
  BY <1>1, StoreStepStays DEF StoreProofs!Next
<1>7. QED
  BY <1>2, <1>4, <1>5, <1>6, SameStore DEF IInv, StoreFits

LEMMA ReleaseAllTouches ==
  ASSUME IInv, NEW r \in Matches, Store!ReleaseAll(r)
  PROVE  /\ StoreFits' /\ TicketsStay /\ \A n \in Matches : Untouched(n)
         /\ r \notin DOMAIN reservations'
<1>1. StoreProofs!ReleaseAll(r)
  BY DEF Store!ReleaseAll, StoreProofs!ReleaseAll, Store!Outstanding, StoreProofs!Outstanding,
     Store!HeldBy, StoreProofs!HeldBy, Store!Rewrite, StoreProofs!Rewrite,
     Store!Released, StoreProofs!Released, Store!DropReservation,
     StoreProofs!DropReservation, Store!Delete, StoreProofs!Delete,
     Store!Restrict, StoreProofs!Restrict, Store!ledgers, StoreProofs!ledgers
<1>2. StoreProofs!IInv'
  BY <1>1, NoneAssumption, OrderAssumption, LimitAssumption,
     StoreProofs!ReleaseAllIInv DEF IInv, StoreFits
<1>3. {r} \in SUBSET DOMAIN reservations /\ StoreProofs!Requeue({r})
  BY <1>1, NoneAssumption, OrderAssumption, LimitAssumption,
     StoreProofs!ReleaseAllRequeues
<1>4. /\ \A n \in Matches : StoreProofs!Untouched(n)
      /\ DOMAIN reservations' = DOMAIN reservations \ {r}
  BY <1>3, NoneAssumption, OrderAssumption, LimitAssumption,
     StoreProofs!RequeueElsewhere DEF IInv, StoreFits
<1>5. DOMAIN tickets' = DOMAIN tickets
  BY DEF Store!ReleaseAll, Store!Rewrite
<1>6. TicketsStay
  BY <1>1, StoreStepStays DEF StoreProofs!Next
<1>7. QED
  BY <1>2, <1>4, <1>5, <1>6, SameStore DEF IInv, StoreFits

LEMMA ReserveAllTouches ==
  ASSUME IInv, NEW S \in SUBSET Tickets, NEW r \in Matches, Store!ReserveAll(S, r)
  PROVE  /\ StoreFits' /\ TicketsStay
         /\ \A n \in Matches : n # r => Untouched(n)
         /\ Store!AssignedTo(r)' = Store!AssignedTo(r)
         /\ r \in DOMAIN reservations' /\ reservations'[r] = S
         /\ S \subseteq DOMAIN tickets
         /\ \A t, u \in S : tickets[t].player = tickets[u].player => t = u
<1>1. StoreProofs!ReserveAll(S, r)
  BY DEF Store!ReserveAll, StoreProofs!ReserveAll, Store!Reservable, StoreProofs!Reservable,
     Store!IsQueueCandidate, StoreProofs!IsQueueCandidate, Store!Rewrite,
     StoreProofs!Rewrite, Store!Reserved, StoreProofs!Reserved, Store!Put, StoreProofs!Put,
     Store!ledgers, StoreProofs!ledgers
<1>2. StoreProofs!IInv'
  BY <1>1, NoneAssumption, OrderAssumption, LimitAssumption,
     StoreProofs!ReserveAllIInv DEF IInv, StoreFits
<1>3. /\ DOMAIN tickets' = DOMAIN tickets
      /\ \A n \in Matches : n # r => StoreProofs!Untouched(n)
      /\ StoreProofs!AssignedTo(r)' = StoreProofs!AssignedTo(r)
      /\ r \in DOMAIN reservations' /\ reservations'[r] = S
      /\ S \subseteq DOMAIN tickets
      /\ \A t, u \in S : tickets[t].player = tickets[u].player => t = u
  BY <1>1, NoneAssumption, OrderAssumption, LimitAssumption,
     StoreProofs!ReserveAllElsewhere DEF IInv, StoreFits
<1>4. TicketsStay
  BY <1>1, StoreStepStays DEF StoreProofs!Next
<1>5. Store!AssignedTo(r)' = Store!AssignedTo(r)
  BY <1>3 DEF Store!AssignedTo, StoreProofs!AssignedTo
<1>6. QED
  BY <1>2, <1>3, <1>4, <1>5, SameStore DEF IInv, StoreFits

LEMMA AssignAllTouches ==
  ASSUME IInv, NEW m \in Matches, Store!AssignAll(m, m)
  PROVE  /\ StoreFits' /\ TicketsStay
         /\ \A n \in Matches : n # m => Untouched(n)
         /\ m \in DOMAIN reservations /\ m \notin DOMAIN reservations'
         /\ Store!AssignedTo(m) = {} =>
              /\ Store!AssignedTo(m)' = reservations[m]
              /\ Store!Blocking(m)' = reservations[m]
<1>1. StoreProofs!AssignAll(m, m)
  BY DEF Store!AssignAll, StoreProofs!AssignAll, Store!Outstanding, StoreProofs!Outstanding,
     Store!HeldBy, StoreProofs!HeldBy, Store!Rewrite, StoreProofs!Rewrite,
     Store!Assigned, StoreProofs!Assigned, Store!DropReservation,
     StoreProofs!DropReservation, Store!Delete, StoreProofs!Delete,
     Store!Restrict, StoreProofs!Restrict, Store!ledgers, StoreProofs!ledgers,
     Store!WithoutTickets, StoreProofs!WithoutTickets
<1>2. StoreProofs!IInv'
  BY <1>1, NoneAssumption, OrderAssumption, LimitAssumption,
     StoreProofs!AssignAllIInv DEF IInv, StoreFits
<1>3. /\ DOMAIN tickets' = DOMAIN tickets
      /\ \A n \in Matches : n # m => StoreProofs!Untouched(n)
      /\ StoreProofs!AssignedTo(m) = {} =>
           /\ StoreProofs!AssignedTo(m)' = reservations[m]
           /\ StoreProofs!Blocking(m)' = reservations[m]
      /\ m \in DOMAIN reservations /\ DOMAIN reservations' = DOMAIN reservations \ {m}
  BY <1>1, NoneAssumption, OrderAssumption, LimitAssumption,
     StoreProofs!AssignAllMoves DEF IInv, StoreFits
<1>4. TicketsStay
  BY <1>1, StoreStepStays DEF StoreProofs!Next
<1>5. Store!AssignedTo(m) = {} =>
        /\ Store!AssignedTo(m)' = reservations[m]
        /\ Store!Blocking(m)' = reservations[m]
  BY <1>3 DEF Store!AssignedTo, StoreProofs!AssignedTo, Store!Blocking, StoreProofs!Blocking
<1>6. QED
  BY <1>2, <1>3, <1>4, <1>5, SameStore DEF IInv, StoreFits

LEMMA CompletionTouches ==
  ASSUME IInv, NEW m \in Matches, Store!CompleteAssignedTickets(m)
  PROVE  /\ StoreFits' /\ TicketsStay /\ UNCHANGED <<tickets, reservations>>
         /\ \A n \in Matches : n # m => Untouched(n)
         /\ Store!AssignedTo(m)' = Store!AssignedTo(m)
         /\ Store!Blocking(m)' = {}
<1>1. StoreProofs!CompleteAssignedTickets(m)
  BY DEF Store!CompleteAssignedTickets, StoreProofs!CompleteAssignedTickets,
     Store!ForgetActive, StoreProofs!ForgetActive, Store!AssignedTo, StoreProofs!AssignedTo,
     Store!Restrict, StoreProofs!Restrict, Store!ledgers, StoreProofs!ledgers
<1>2. StoreProofs!IInv'
  BY <1>1, NoneAssumption, OrderAssumption, LimitAssumption,
     StoreProofs!CompleteAssignedTicketsIInv DEF IInv, StoreFits
<1>3. /\ UNCHANGED <<tickets, reservations>>
      /\ \A n \in Matches : n # m => StoreProofs!Untouched(n)
      /\ StoreProofs!Blocking(m)' = {}
  BY <1>1, NoneAssumption, OrderAssumption, LimitAssumption,
     StoreProofs!CompletionElsewhere
<1>4. Store!AssignedTo(m)' = Store!AssignedTo(m) /\ TicketsStay
  BY <1>3 DEF Store!AssignedTo, TicketsStay
<1>5. Store!Blocking(m)' = {}
  BY <1>3 DEF Store!Blocking, StoreProofs!Blocking
<1>6. QED
  BY <1>2, <1>3, <1>4, <1>5, SameStore DEF IInv, StoreFits

-----------------------------------------------------------------------------
(* The workers *)

\* The worker of a step: it becomes x.
Becomes(w, x) == x \in WorkerState /\ worker' = [worker EXCEPT ![w] = x]

\* A worker moves on and keeps what it holds.
LEMMA GoesTo ==
  ASSUME IInv, NEW w \in Workers, NEW pc \in PC, Goto(w, pc)
  PROVE  \E x : /\ Becomes(w, x) /\ x.pc = pc
                /\ x.match = worker[w].match /\ x.picked = worker[w].picked
                /\ x.todo = worker[w].todo /\ x.region = worker[w].region
<1> DEFINE x == [worker[w] EXCEPT !.pc = pc]
<1>1. /\ x \in WorkerState /\ x.pc = pc
      /\ x.match = worker[w].match /\ x.picked = worker[w].picked
      /\ x.todo = worker[w].todo /\ x.region = worker[w].region
  BY DEF IInv, WorkerState
<1>2. worker' = [worker EXCEPT ![w] = x]
  BY DEF Goto, Become
<1>3. QED
  BY <1>1, <1>2 DEF Becomes

\* An iteration that goes on with some pools, or ends, has no attempt.
Restarted(x) ==
  /\ x \in WorkerState
  /\ x.pc \in Choosing /\ x.match = None /\ x.picked = {}

LEMMA TryPoolsRestarts ==
  ASSUME IInv, NEW w \in Workers, NEW K \in SUBSET PoolKeys, TryPools(w, K)
  PROVE  \E x : Restarted(x) /\ Becomes(w, x)
<1> DEFINE y == [Idle EXCEPT !.pc = "pools", !.todo = K]
<1>1. Idle \in WorkerState /\ y \in WorkerState
  BY DEF Idle, WorkerState, PC
<1>2. Restarted(Idle) /\ Restarted(y)
  BY <1>1 DEF Restarted, Idle, Choosing
<1>3. worker' = [worker EXCEPT ![w] = IF K = {} THEN Idle ELSE y]
  BY DEF TryPools, Become
<1> HIDE DEF y
<1>4. QED
  BY <1>1, <1>2, <1>3 DEF Becomes

\* An iteration that has no attempt yet goes on, privately.
LEMMA ChoosingPrivate ==
  ASSUME IInv, NEW w \in Workers, NEW x, Restarted(x), Becomes(w, x),
         UNCHANGED <<storeVars, matches, allocations, call>>,
         worker[w].pc \in Choosing \cup Checking
  PROVE  IInv'
<1>1. worker'[w] = x
  BY DEF IInv, Becomes
<1>2. WorkerFits(w)'
  BY <1>1 DEF Restarted, WorkerFits, Choosing, Checking, Making
<1>3. \/ x.match = worker[w].match
      \/ worker[w].pc \in Checking /\ x.match = None
  BY DEF Restarted, IInv, WorkerFits
<1>4. QED
  BY <1>2, <1>3, WorkerPrivate DEF Becomes

\* An iteration without an attempt keeps its tickets, which stay in the store.
LEMMA ChoosingFits ==
  ASSUME IInv, TicketsStay, NEW w \in Workers, NEW x, Becomes(w, x), x.pc \in Choosing,
         x.match = None, x.picked \subseteq DOMAIN tickets
  PROVE  WorkerFits(w)'
<1>1. worker'[w] = x
  BY DEF IInv, Becomes
<1>2. QED
  BY <1>1 DEF Becomes, TicketsStay, WorkerFits, Choosing, Checking, Making

LEMMA RecoverReservationsIInv ==
  ASSUME IInv, NEW w \in Workers, RecoverReservations(w), UNCHANGED call
  PROVE  IInv'
<1>1. /\ worker[w].pc = "idle" /\ Store!RecoverExpiredReservations
      /\ Goto(w, "poolKeys") /\ UNCHANGED <<matches, allocations>>
  BY DEF RecoverReservations, At
<1>2. PICK x : Becomes(w, x) /\ x.pc = "poolKeys" /\ x.match = worker[w].match
               /\ x.picked = worker[w].picked
  BY <1>1, GoesTo DEF PC
<1>3. worker[w].match = None /\ worker[w].picked \subseteq DOMAIN tickets
  BY <1>1 DEF IInv, WorkerFits, Choosing
<1>4. StoreFits' /\ TicketsStay /\ \A n \in Matches : Untouched(n)
  BY <1>1, RecoveryTouches
<1>5. WorkerFits(w)'
  BY <1>2, <1>3, <1>4, ChoosingFits DEF Choosing
<1>6. ServersFit' /\ DOMAIN matches' \subseteq Matches
  BY <1>1 DEF IInv, ServersFit, InUse
<1>7. /\ \A n \in Matches : Undisturbed(n)
      /\ \A n \in Matches : n # worker[w].match
  BY <1>1, <1>3, <1>4, NoneAssumption DEF Undisturbed
<1>8. QED
  BY <1>2, <1>4, <1>5, <1>6, <1>7, WorkerMoves DEF Becomes

LEMMA ListPoolsIInv ==
  ASSUME IInv, NEW w \in Workers, ListPools(w), UNCHANGED call
  PROVE  IInv'
  BY TryPoolsRestarts, ChoosingPrivate DEF ListPools, At, Choosing

LEMMA SnapshotIInv ==
  ASSUME IInv, NEW w \in Workers, Snapshot(w), UNCHANGED call
  PROVE  IInv'
<1>1. PICK k \in worker[w].todo :
        LET found == Store!QueueSnapshot(k)
            rest == worker[w].todo \ {k}
        IN  IF found = {} THEN TryPools(w, rest)
            ELSE Become(w, [worker[w] EXCEPT !.pc = "check", !.todo = rest,
                                             !.picked = found])
  BY DEF Snapshot
<1> DEFINE found == Store!QueueSnapshot(k)
           rest == worker[w].todo \ {k}
           x == [worker[w] EXCEPT !.pc = "check", !.todo = rest, !.picked = found]
<1>2. /\ worker[w].pc = "pools" /\ UNCHANGED <<storeVars, matches, allocations>>
      /\ rest \in SUBSET PoolKeys
  BY DEF Snapshot, At, IInv, WorkerState
<1>3. CASE found = {}
  BY <1>1, <1>2, <1>3, TryPoolsRestarts, ChoosingPrivate DEF Choosing
<1>4. CASE found # {}
  <2>1. worker' = [worker EXCEPT ![w] = x]
    BY <1>1, <1>4 DEF Become
  <2>2. found \subseteq DOMAIN tickets /\ found \in SUBSET Tickets
    BY DEF Store!QueueSnapshot, Store!Oldest, Store!Candidates, IInv, StoreFits,
       StoreProofs!IInv, StoreProofs!TypeOK, StoreProofs!IsMap
  <2>3. worker[w].match = None
    BY <1>2 DEF IInv, WorkerFits, Choosing
  <2> HIDE DEF found, rest
  <2>4. x \in WorkerState /\ x.pc = "check" /\ x.match = None /\ x.picked = found
    <3>1. "check" \in PC /\ worker[w] \in WorkerState
      BY DEF PC, IInv
    <3>2. QED
      BY <1>2, <2>2, <2>3, <3>1 DEF WorkerState
  <2> HIDE DEF x
  <2>5. Becomes(w, x)
    BY <2>1, <2>4 DEF Becomes
  <2>6. WorkerFits(w)'
    <3>1. TicketsStay
      BY <1>2 DEF storeVars, TicketsStay
    <3>2. QED
      BY <2>2, <2>4, <2>5, <3>1, ChoosingFits DEF Choosing
  <2>7. QED
    BY <1>2, <2>3, <2>4, <2>5, <2>6, WorkerPrivate DEF Becomes
<1>5. QED
  BY <1>3, <1>4

\* An attempt of which nothing is stored goes on with some of its tickets.
LEMMA CheckingFits ==
  ASSUME IInv, TicketsStay, NEW w \in Workers, NEW x, Becomes(w, x),
         worker[w].pc \in Checking, x.pc \in Checking, x.match = worker[w].match,
         x.region = worker[w].region,
         x.picked \subseteq worker[w].picked,
         x.pc = "reserve" => Cardinality(x.picked) = MatchSize,
         \A n \in Matches : Undisturbed(n)
  PROVE  WorkerFits(w)'
<1>1. worker'[w] = x
  BY DEF IInv, Becomes
<1>2. /\ x.match \in Matches /\ x.match # None
      /\ x.match \notin DOMAIN matches \cup DOMAIN reservations \cup DOMAIN allocations
      /\ worker[w].picked \subseteq DOMAIN tickets /\ worker[w].region \in Regions
  BY DEF IInv, WorkerFits, WorkerState, Choosing, Checking
<1>3. x.match \notin DOMAIN matches' \cup DOMAIN reservations' \cup DOMAIN allocations'
  BY <1>2 DEF Undisturbed, Untouched
<1>4. x.picked \subseteq DOMAIN tickets'
  BY <1>2 DEF TicketsStay
<1>5. QED
  BY <1>1, <1>2, <1>3, <1>4 DEF Becomes, WorkerFits, Choosing, Checking, Making

\* Nothing happens outside the worker.
LEMMA NothingStirs ==
  ASSUME IInv, UNCHANGED <<storeVars, matches, allocations>>
  PROVE  TicketsStay /\ StoreFits' /\ ServersFit' /\ \A n \in Matches : Undisturbed(n)
<1>1. UNCHANGED <<tickets, activeByPlayer, createIdempotency, cancelIdempotency,
                  pools, reservations, lapsed>>
  BY DEF storeVars
<1>2. TicketsStay
  BY <1>1 DEF TicketsStay
<1>3. \A n \in Matches : Undisturbed(n)
  BY <1>1 DEF Undisturbed, Untouched, Store!AssignedTo, Store!Blocking
<1>4. StoreFits'
  BY <1>1, SMT DEF IInv, StoreFits, StoreProofs!IInv, StoreProofs!TypeOK,
     StoreProofs!ReservationAgreement, StoreProofs!ActiveIndexAgreement,
     StoreProofs!PoolAgreement, StoreProofs!LedgerAgreement
<1>5. ServersFit'
  BY DEF IInv, ServersFit, InUse
<1>6. QED
  BY <1>2, <1>3, <1>4, <1>5

\* The first check, and the second.
LEMMA FilterIInv ==
  ASSUME IInv, NEW w \in Workers, UNCHANGED call,
         Filter(w, "check", "cancel") \/ Filter(w, "recheck", "recancel")
  PROVE  IInv'
<1> DEFINE out == Ineligible(worker[w].picked)
<1>1. PICK pc \in {"cancel", "recancel"} :
        /\ worker' = [worker EXCEPT ![w] = [worker[w] EXCEPT !.pc = pc, !.dropped = out,
                                                             !.picked = @ \ out]]
        /\ pc = "cancel" => worker[w].pc = "check"
        /\ pc = "recancel" => worker[w].pc = "recheck"
  BY DEF Filter, At, Become
<1>2. UNCHANGED <<storeVars, matches, allocations>>
  BY DEF Filter
<1> DEFINE x == [worker[w] EXCEPT !.pc = pc, !.dropped = out, !.picked = @ \ out]
<1>3. out \in SUBSET Tickets
  BY DEF Ineligible, IInv, WorkerState
<1> HIDE DEF out
<1>4. /\ x \in WorkerState /\ x.pc = pc /\ x.match = worker[w].match
      /\ x.picked \subseteq worker[w].picked /\ x.region = worker[w].region
  <2>1. pc \in PC /\ worker[w] \in WorkerState
    BY DEF PC, IInv
  <2>2. QED
    BY <1>3, <2>1 DEF WorkerState
<1>5. worker[w].picked \subseteq DOMAIN tickets
  BY DEF IInv, WorkerFits
<1>6. Becomes(w, x)
  BY <1>1, <1>4 DEF Becomes
<1> HIDE DEF x
<1>7. WorkerFits(w)'
  <2>1. CASE pc = "cancel"
    <3>1. worker[w].match = None
      BY <1>1, <2>1 DEF IInv, WorkerFits, Choosing
    <3>2. QED
      BY <1>2, <1>4, <1>5, <1>6, <2>1, <3>1, NothingStirs, ChoosingFits DEF Choosing
  <2>2. CASE pc = "recancel"
    BY <1>1, <1>2, <1>4, <1>6, <2>2, NothingStirs, CheckingFits DEF Checking
  <2>3. QED
    BY <2>1, <2>2
<1>8. QED
  BY <1>2, <1>4, <1>6, <1>7, WorkerPrivate DEF Becomes

\* The steps at which an iteration turns to other pools, or ends, before
\* anything of its attempt is stored.
LEMMA TurnAwayIInv ==
  ASSUME IInv, NEW w \in Workers, UNCHANGED call,
         \/ FilterFails(w, "check") \/ FilterFails(w, "recheck")
         \/ NoFormation(w) \/ ReservationConflict(w)
  PROVE  IInv'
<1>1. PICK K \in SUBSET PoolKeys : TryPools(w, K)
  BY DEF FilterFails, NoFormation, ReservationConflict, Abandon, NextPool, IInv, WorkerState
<1>2. /\ UNCHANGED <<storeVars, matches, allocations>>
      /\ worker[w].pc \in Choosing \cup Checking
  BY DEF FilterFails, NoFormation, ReservationConflict, At, Choosing, Checking
<1>3. QED
  BY <1>1, <1>2, TryPoolsRestarts, ChoosingPrivate

\* The cancellation of a ticket that failed a check.
LEMMA CancelDroppedIInv ==
  ASSUME IInv, NEW w \in Workers, UNCHANGED call,
         CancelDropped(w, "cancel") \/ CancelDropped(w, "recancel")
  PROVE  IInv'
<1>1. PICK t \in worker[w].dropped :
        /\ \/ Store!Cancel(t, tickets[t].player, Store!SystemKey(t))
           \/ UNCHANGED storeVars
        /\ worker' = [worker EXCEPT ![w] = [worker[w] EXCEPT !.dropped = @ \ {t}]]
  BY DEF CancelDropped, Become
<1>2. /\ worker[w].pc \in {"cancel", "recancel"} /\ UNCHANGED <<matches, allocations>>
  BY DEF CancelDropped, At
<1> DEFINE x == [worker[w] EXCEPT !.dropped = @ \ {t}]
<1>3. /\ x \in WorkerState /\ x.pc = worker[w].pc /\ x.match = worker[w].match
      /\ x.picked = worker[w].picked /\ x.region = worker[w].region /\ t \in Tickets
  BY DEF IInv, WorkerState
<1>4. Becomes(w, x)
  BY <1>1, <1>3 DEF Becomes
<1> HIDE DEF x
<1>5. TicketsStay /\ StoreFits' /\ \A n \in Matches : Untouched(n)
  <2>1. CASE Store!Cancel(t, tickets[t].player, Store!SystemKey(t))
    <3>1. tickets[t].player \in Players
      BY <2>1 DEF Store!Cancel, Store!CancelAllowed, IInv, StoreFits, StoreProofs!IInv,
         StoreProofs!TypeOK, StoreProofs!IsMap, StoreProofs!Ticket
    <3>2. Store!SystemKey(t) \in Store!CancelKeys
      BY <1>3 DEF Store!CancelKeys
    <3>3. QED
      BY <1>3, <2>1, <3>1, <3>2, CancelTouches
  <2>2. CASE UNCHANGED storeVars
    BY <1>2, <2>2, NothingStirs DEF Undisturbed
  <2>3. QED
    BY <1>1, <2>1, <2>2
<1>6. \A n \in Matches : Undisturbed(n)
  BY <1>2, <1>5 DEF Undisturbed
<1>7. WorkerFits(w)'
  <2>1. CASE worker[w].pc = "cancel"
    <3>1. worker[w].match = None /\ worker[w].picked \subseteq DOMAIN tickets
      BY <2>1 DEF IInv, WorkerFits, Choosing
    <3>2. QED
      BY <1>3, <1>4, <1>5, <2>1, <3>1, ChoosingFits DEF Choosing
  <2>2. CASE worker[w].pc = "recancel"
    BY <1>3, <1>4, <1>5, <1>6, <2>2, CheckingFits DEF Checking
  <2>3. QED
    BY <1>2, <2>1, <2>2
<1>8. ServersFit' /\ DOMAIN matches' \subseteq Matches
  BY <1>2 DEF IInv, ServersFit, InUse
<1>9. ASSUME NEW n \in Matches, n = worker[w].match PROVE MatchFits(n)'
  <2>1. InTheMaking(n)'
    BY <1>3, <1>4, <1>9 DEF InTheMaking, IInv, Becomes
  <2>2. QED
    BY <1>5, <1>6, <2>1, MatchUndisturbed
<1>10. QED
  BY <1>3, <1>4, <1>5, <1>6, <1>7, <1>8, <1>9, WorkerMoves DEF Becomes

\* Both checks are over: too few tickets may be left.
LEMMA CheckDoneIInv ==
  ASSUME IInv, NEW w \in Workers, UNCHANGED call, FilterDone(w) \/ RecheckDone(w)
  PROVE  IInv'
<1>1. /\ UNCHANGED <<storeVars, matches, allocations>>
      /\ worker[w].pc \in Choosing \cup Checking
  BY DEF FilterDone, RecheckDone, At, Choosing, Checking
<1>2. CASE NextPool(w)
  BY <1>1, <1>2, TryPoolsRestarts, ChoosingPrivate DEF NextPool, IInv, WorkerState
<1>3. CASE FilterDone(w) /\ Goto(w, "select")
  <2>1. PICK x : Becomes(w, x) /\ x.pc = "select" /\ x.match = worker[w].match
                 /\ x.picked = worker[w].picked
    BY <1>3, GoesTo DEF PC
  <2>2. worker[w].match = None /\ worker[w].picked \subseteq DOMAIN tickets
    BY <1>3 DEF FilterDone, At, IInv, WorkerFits, Choosing
  <2>3. WorkerFits(w)'
    BY <1>1, <2>1, <2>2, NothingStirs, ChoosingFits DEF Choosing
  <2>4. QED
    BY <1>1, <2>1, <2>3, WorkerPrivate DEF Becomes
<1>4. CASE RecheckDone(w) /\ Goto(w, "reserve") /\ Cardinality(worker[w].picked) = MatchSize
  <2>1. PICK x : Becomes(w, x) /\ x.pc = "reserve" /\ x.match = worker[w].match
                 /\ x.picked = worker[w].picked /\ x.region = worker[w].region
    BY <1>4, GoesTo DEF PC
  <2>2. WorkerFits(w)'
    BY <1>1, <1>4, <2>1, NothingStirs, CheckingFits DEF RecheckDone, At, Checking
  <2>3. QED
    BY <1>1, <2>1, <2>2, WorkerPrivate DEF Becomes
<1>5. QED
  BY <1>2, <1>3, <1>4 DEF FilterDone, RecheckDone

\* An attempt begins with ids that nothing refers to.
LEMMA SelectFormationIInv ==
  ASSUME IInv, NEW w \in Workers, SelectFormation(w), UNCHANGED call
  PROVE  IInv'
<1>1. PICK S \in SUBSET worker[w].picked, g \in Regions, m \in FreshIds :
        worker' = [worker EXCEPT ![w] = [worker[w] EXCEPT !.pc = "recheck", !.picked = S,
                                                          !.region = g, !.match = m]]
  BY DEF SelectFormation, Become
<1> DEFINE x == [worker[w] EXCEPT !.pc = "recheck", !.picked = S,
                                  !.region = g, !.match = m]
<1>2. UNCHANGED <<storeVars, matches, allocations>> /\ worker[w].pc = "select"
  BY DEF SelectFormation, At
<1>3. /\ m \in Matches /\ m \notin DOMAIN matches \cup DOMAIN reservations \cup DOMAIN allocations
      /\ \A v \in Workers : worker[v].match # m
  BY DEF FreshIds
<1>4. /\ x \in WorkerState /\ x.pc = "recheck" /\ x.match = m /\ x.picked = S
      /\ x.region = g
  <2>1. "recheck" \in PC /\ worker[w] \in WorkerState
    BY DEF PC, IInv
  <2>2. S \in SUBSET Tickets /\ m \in Matches \cup {None} /\ g \in Regions \cup {None}
    BY <1>3, <2>1 DEF WorkerState
  <2>3. QED
    BY <2>1, <2>2 DEF WorkerState
<1>5. worker[w].match = None /\ worker[w].picked \subseteq DOMAIN tickets
  BY <1>2 DEF IInv, WorkerFits, Choosing
<1> HIDE DEF x
<1>6. Becomes(w, x) /\ worker'[w] = x
  BY <1>1, <1>4 DEF Becomes, IInv, x
<1>7. UNCHANGED <<tickets, reservations>>
  BY <1>2 DEF storeVars
<1>8. WorkerFits(w)'
  BY <1>2, <1>3, <1>4, <1>5, <1>6, <1>7, NoneAssumption
  DEF WorkerFits, Choosing, Checking, Making
<1>9. QED
  BY <1>2, <1>3, <1>4, <1>5, <1>6, <1>8, WorkerPrivate DEF Becomes

\* The attempt of a worker that has drawn its ids.
LEMMA OwnAttempt ==
  ASSUME IInv, NEW w \in Workers, worker[w].pc \in Checking \cup Making
  PROVE  /\ \E m \in Matches : m = worker[w].match /\ m # None
         /\ \E S \in SUBSET Tickets : S = worker[w].picked
         /\ \E g \in Regions : g = worker[w].region
  BY DEF IInv, WorkerFits, WorkerState, Choosing, Checking, Making

\* The worker that has an attempt is making it.
LEMMA StillInTheMaking ==
  ASSUME IInv, NEW w \in Workers, NEW x, Becomes(w, x), NEW m, x.match = m
  PROVE  InTheMaking(m)' /\ worker'[w] = x
  BY DEF IInv, Becomes, InTheMaking

LEMMA ReserveFormationIInv ==
  ASSUME IInv, NEW w \in Workers, ReserveFormation(w), UNCHANGED call
  PROVE  IInv'
<1>1. /\ worker[w].pc = "reserve"
      /\ Store!ReserveAll(worker[w].picked, worker[w].match)
      /\ Goto(w, "create") /\ UNCHANGED <<matches, allocations>>
  BY DEF ReserveFormation, At
<1>2. PICK x : Becomes(w, x) /\ x.pc = "create" /\ x.match = worker[w].match
               /\ x.picked = worker[w].picked /\ x.region = worker[w].region
  BY <1>1, GoesTo DEF PC
<1>3. PICK m \in Matches : m = worker[w].match /\ m # None
  BY <1>1, OwnAttempt DEF Checking
<1>4. PICK S \in SUBSET Tickets : S = worker[w].picked
  BY <1>1, OwnAttempt DEF Checking
<1>5. /\ m \notin DOMAIN matches \cup DOMAIN reservations \cup DOMAIN allocations
      /\ Cardinality(S) = MatchSize /\ worker[w].region \in Regions
  BY <1>1, <1>3, <1>4 DEF IInv, WorkerFits, Checking, Choosing
<1>6. Store!AssignedTo(m) = {}
  BY <1>5 DEF IInv, MatchFits
<1>7. /\ StoreFits' /\ TicketsStay
      /\ \A n \in Matches : n # m => Untouched(n)
      /\ Store!AssignedTo(m)' = {}
      /\ m \in DOMAIN reservations' /\ reservations'[m] = S
      /\ FullRoster(S)
  <2>1. Store!ReserveAll(S, m)
    BY <1>1, <1>3, <1>4
  <2>2. QED
    BY <1>5, <1>6, <2>1, ReserveAllTouches DEF FullRoster
<1>8. FullRoster(S)' /\ S \subseteq DOMAIN tickets'
  BY <1>7, FullRosterStays DEF FullRoster, TicketsStay
<1>9. \A n \in Matches : n # m => Undisturbed(n)
  BY <1>1, <1>7 DEF Undisturbed
<1>10. worker'[w] = x /\ InTheMaking(m)'
  BY <1>2, <1>3, StillInTheMaking
<1>11. WorkerFits(w)'
  BY <1>1, <1>2, <1>3, <1>4, <1>5, <1>7, <1>8, <1>10
  DEF Becomes, WorkerFits, Choosing, Checking, Making
<1>12. MatchFits(m)'
  BY <1>1, <1>5, <1>7, <1>10 DEF MatchFits, Open
<1>13. ServersFit' /\ DOMAIN matches' \subseteq Matches
  BY <1>1 DEF IInv, ServersFit, InUse
<1>14. QED
  BY <1>2, <1>3, <1>7, <1>9, <1>11, <1>12, <1>13, WorkerMoves DEF Becomes

\* Nothing happens in the ticket store.
LEMMA StoreStill ==
  ASSUME IInv, UNCHANGED storeVars
  PROVE  TicketsStay /\ StoreFits' /\ \A n \in Matches : Untouched(n)
<1>1. UNCHANGED <<tickets, activeByPlayer, createIdempotency, cancelIdempotency,
                  pools, reservations, lapsed>>
  BY DEF storeVars
<1>2. TicketsStay
  BY <1>1 DEF TicketsStay
<1>3. \A n \in Matches : Untouched(n)
  BY <1>1 DEF Untouched, Store!AssignedTo, Store!Blocking
<1>4. StoreFits'
  BY <1>1, SMT DEF IInv, StoreFits, StoreProofs!IInv, StoreProofs!TypeOK,
     StoreProofs!ReservationAgreement, StoreProofs!ActiveIndexAgreement,
     StoreProofs!PoolAgreement, StoreProofs!LedgerAgreement
<1>5. QED
  BY <1>2, <1>3, <1>4

\* Storing match m touches no other.
LEMMA StoringTouches ==
  ASSUME IInv, UNCHANGED <<storeVars, allocations>>, NEW m \in Matches, NEW y,
         matches' = Put(matches, m, y)
  PROVE  /\ StoreFits' /\ TicketsStay /\ ServersFit'
         /\ DOMAIN matches' \subseteq Matches
         /\ m \in DOMAIN matches' /\ matches'[m] = y
         /\ m \in DOMAIN matches => DOMAIN matches' = DOMAIN matches
         /\ Untouched(m)
         /\ \A n \in Matches : n # m => Undisturbed(n)
<1>1. StoreFits' /\ TicketsStay /\ \A n \in Matches : Untouched(n)
  BY StoreStill
<1>2. ServersFit'
  BY DEF IInv, ServersFit, InUse
<1>3. /\ DOMAIN matches' = DOMAIN matches \cup {m} /\ matches'[m] = y
      /\ \A n \in DOMAIN matches : n # m => matches'[n] = matches[n]
  BY DEF Put
<1>4. \A n \in Matches : n # m => Undisturbed(n)
  BY <1>1, <1>3 DEF Undisturbed
<1>5. QED
  BY <1>1, <1>2, <1>3, <1>4 DEF IInv

\* A transition changes the state and counts a revision, nothing else.
LEMMA MovedValue ==
  ASSUME NEW y \in Match, NEW state \in MatchState, y.revision \in 1..4
  PROVE  /\ Moved(y, state) \in Match
         /\ Moved(y, state).state = state /\ Moved(y, state).revision = y.revision + 1
         /\ Moved(y, state).roster = y.roster /\ Moved(y, state).result = y.result
<1> DEFINE n == y.revision + 1
<1>1. n \in 1..5
  OBVIOUS
<1>2. Moved(y, state) = [y EXCEPT !.state = state, !.revision = n]
  BY DEF Moved, Match
<1> HIDE DEF n
<1>3. [y EXCEPT !.state = state, !.revision = n] \in Match
  BY <1>1 DEF Match
<1>4. QED
  BY <1>2, <1>3 DEF Match, n

\* The values of a match in the making.
LEMMA MatchValues ==
  ASSUME NEW S \in SUBSET Tickets
  PROVE  /\ NewMatch(S) \in Match /\ NewMatch(S).state = "CREATED"
         /\ NewMatch(S).revision = 1 /\ NewMatch(S).roster = S
         /\ Moved(NewMatch(S), "ALLOCATING") \in Match
         /\ Moved(NewMatch(S), "ALLOCATING").state = "ALLOCATING"
         /\ Moved(NewMatch(S), "ALLOCATING").revision = 2
         /\ Moved(NewMatch(S), "ALLOCATING").roster = S
<1>1. /\ NewMatch(S) \in Match /\ NewMatch(S).state = "CREATED"
      /\ NewMatch(S).revision = 1 /\ NewMatch(S).roster = S
  BY DEF NewMatch, Match, MatchState
<1>2. QED
  BY <1>1, MovedValue DEF MatchState

LEMMA CreateMatchIInv ==
  ASSUME IInv, NEW w \in Workers, CreateMatch(w), UNCHANGED call
  PROVE  IInv'
<1>1. /\ worker[w].pc = "create"
      /\ Create(worker[w].match, NewMatch(worker[w].picked))
      /\ Goto(w, "startAllocation") /\ UNCHANGED <<storeVars, allocations>>
  BY DEF CreateMatch, At
<1>2. PICK x : Becomes(w, x) /\ x.pc = "startAllocation" /\ x.match = worker[w].match
               /\ x.picked = worker[w].picked /\ x.region = worker[w].region
  BY <1>1, GoesTo DEF PC
<1>3. PICK m \in Matches : m = worker[w].match /\ m # None
  BY <1>1, OwnAttempt DEF Making
<1>4. PICK S \in SUBSET Tickets : S = worker[w].picked
  BY <1>1, OwnAttempt DEF Making
<1>5. /\ FullRoster(S) /\ worker[w].region \in Regions
      /\ m \in DOMAIN reservations => reservations[m] = S
      /\ Store!AssignedTo(m) = {} /\ m \notin DOMAIN allocations
  BY <1>1, <1>3, <1>4 DEF IInv, WorkerFits, Making, Choosing
<1>6. matches' = Put(matches, m, NewMatch(S))
  BY <1>1, <1>3, <1>4 DEF Create
<1>7. /\ StoreFits' /\ TicketsStay /\ ServersFit'
      /\ DOMAIN matches' \subseteq Matches
      /\ m \in DOMAIN matches' /\ matches'[m] = NewMatch(S)
      /\ Untouched(m)
      /\ \A n \in Matches : n # m => Undisturbed(n)
  BY <1>1, <1>6, StoringTouches
<1>8. FullRoster(S)' /\ S \subseteq DOMAIN tickets'
  BY <1>5, <1>7, FullRosterStays DEF FullRoster, TicketsStay
<1>9. /\ m \in DOMAIN reservations' => reservations'[m] = S
      /\ Store!AssignedTo(m)' = {}
  BY <1>5, <1>7 DEF Untouched
<1>10. worker'[w] = x /\ InTheMaking(m)'
  BY <1>2, <1>3, StillInTheMaking
<1>11. WorkerFits(w)'
  BY <1>1, <1>2, <1>3, <1>4, <1>5, <1>7, <1>8, <1>9, <1>10
  DEF Becomes, WorkerFits, Choosing, Checking, Making
<1>12. MatchFits(m)'
  BY <1>1, <1>5, <1>7, <1>8, <1>10, MatchValues DEF MatchFits, Open, RevisionFits
<1>13. QED
  BY <1>2, <1>3, <1>7, <1>11, <1>12, WorkerMoves DEF Becomes

LEMMA StartAllocationIInv ==
  ASSUME IInv, NEW w \in Workers, StartAllocation(w), UNCHANGED call
  PROVE  IInv'
<1>1. /\ worker[w].pc = "startAllocation"
      /\ Update(worker[w].match, AllocatingCopy(w))
      /\ Goto(w, "allocate") /\ UNCHANGED <<storeVars, allocations>>
  BY DEF StartAllocation, At
<1>2. PICK x : Becomes(w, x) /\ x.pc = "allocate" /\ x.match = worker[w].match
               /\ x.picked = worker[w].picked /\ x.region = worker[w].region
  BY <1>1, GoesTo DEF PC
<1>3. PICK m \in Matches : m = worker[w].match /\ m # None
  BY <1>1, OwnAttempt DEF Making
<1>4. PICK S \in SUBSET Tickets : S = worker[w].picked
  BY <1>1, OwnAttempt DEF Making
<1>5. /\ FullRoster(S) /\ worker[w].region \in Regions
      /\ m \in DOMAIN reservations => reservations[m] = S
      /\ Store!AssignedTo(m) = {} /\ m \notin DOMAIN allocations
  BY <1>1, <1>3, <1>4 DEF IInv, WorkerFits, Making, Choosing
<1> DEFINE y == Moved(NewMatch(S), "ALLOCATING")
<1>6. matches' = Put(matches, m, y)
  BY <1>1, <1>3, <1>4 DEF Update, AllocatingCopy
<1>7. /\ StoreFits' /\ TicketsStay /\ ServersFit'
      /\ DOMAIN matches' \subseteq Matches
      /\ m \in DOMAIN matches' /\ matches'[m] = y
      /\ Untouched(m)
      /\ \A n \in Matches : n # m => Undisturbed(n)
  BY <1>1, <1>6, StoringTouches
<1>8. FullRoster(S)' /\ S \subseteq DOMAIN tickets'
  BY <1>5, <1>7, FullRosterStays DEF FullRoster, TicketsStay
<1>9. /\ m \in DOMAIN reservations' => reservations'[m] = S
      /\ Store!AssignedTo(m)' = {}
  BY <1>5, <1>7 DEF Untouched
<1>10. worker'[w] = x /\ InTheMaking(m)'
  BY <1>2, <1>3, StillInTheMaking
<1>11. AllocatingCopy(w)' = y
  BY <1>2, <1>4, <1>10 DEF AllocatingCopy
<1>12. y \in Match /\ y.state = "ALLOCATING" /\ y.revision = 2 /\ y.roster = S
  BY MatchValues
<1> HIDE DEF y
<1>13. WorkerFits(w)'
  BY <1>1, <1>2, <1>3, <1>4, <1>5, <1>7, <1>8, <1>9, <1>10, <1>11
  DEF Becomes, WorkerFits, Choosing, Checking, Making
<1>14. MatchFits(m)'
  BY <1>1, <1>5, <1>7, <1>8, <1>10, <1>12 DEF MatchFits, Open, RevisionFits
<1>15. QED
  BY <1>2, <1>3, <1>7, <1>13, <1>14, WorkerMoves DEF Becomes

\* A free server is taken: no region exceeds its count.
LEMMA AllocateFits ==
  ASSUME IInv, NEW m \in Matches, NEW g \in Regions, Allocate(m, g),
         m \notin DOMAIN allocations
  PROVE  /\ ServersFit'
         /\ \A n : n \in DOMAIN allocations' <=> n \in DOMAIN allocations \/ n = m
<1>1. /\ DOMAIN allocations' = DOMAIN allocations \cup {m}
      /\ \A n \in DOMAIN allocations : allocations'[n] = allocations[n]
      /\ allocations'[m] = g
      /\ allocations' = [n \in DOMAIN allocations \cup {m} |->
                           IF n = m THEN g ELSE allocations[n]]
      /\ InUse(g) < ServerCount[g]
  BY DEF Allocate, CanAllocate, Put
<1>2. IsFiniteSet(DOMAIN allocations')
  BY <1>1, FS_AddElement DEF IInv, ServersFit
<1>3. IsMap(allocations', Matches, Regions)
  BY <1>1 DEF IInv, ServersFit, IsMap
<1>4. ASSUME NEW h \in Regions PROVE InUse(h)' <= ServerCount[h]
  <2> DEFINE Using == {n \in DOMAIN allocations : allocations[n] = h}
             Later == {n \in DOMAIN allocations' : allocations'[n] = h}
  <2>1. InUse(h) = Cardinality(Using) /\ InUse(h)' = Cardinality(Later)
    BY DEF InUse
  <2>2. IsFiniteSet(Using)
    BY FS_Subset DEF IInv, ServersFit
  <2>3. CASE h = g
    <3>1. Later = Using \cup {m} /\ m \notin Using
      BY <1>1, <2>3
    <3>2. Cardinality(Later) = Cardinality(Using) + 1
      BY <2>2, <3>1, FS_AddElement
    <3>3. Cardinality(Using) \in Nat /\ ServerCount[g] \in Nat
      BY <2>2, FS_CardinalityType, CapacityAssumption
    <3>4. Cardinality(Using) < ServerCount[g]
      BY <1>1, <2>1, <2>3
    <3>5. Cardinality(Later) <= ServerCount[g]
      BY <3>2, <3>3, <3>4
    <3>6. QED
      BY <2>1, <2>3, <3>5
  <2>4. CASE h # g
    <3>1. Later = Using
      BY <1>1, <2>4
    <3>2. InUse(h) <= ServerCount[h]
      BY DEF IInv, ServersFit
    <3> HIDE DEF Using, Later
    <3>3. QED
      BY <2>1, <3>1, <3>2
  <2>5. QED
    BY <2>3, <2>4
<1>5. QED
  BY <1>1, <1>2, <1>3, <1>4 DEF ServersFit

\* A server is given back.
LEMMA ReleaseFits ==
  ASSUME IInv, NEW m \in Matches, Release(m)
  PROVE  /\ ServersFit'
         /\ \A n : n \in DOMAIN allocations' <=> n \in DOMAIN allocations /\ n # m
<1>1. /\ DOMAIN allocations' = DOMAIN allocations \ {m}
      /\ \A n \in DOMAIN allocations' : allocations'[n] = allocations[n]
      /\ allocations' = [n \in DOMAIN allocations \ {m} |-> allocations[n]]
  BY DEF Release, Delete, Restrict
<1>2. IsFiniteSet(DOMAIN allocations')
  BY <1>1, FS_Subset DEF IInv, ServersFit
<1>3. IsMap(allocations', Matches, Regions)
  BY <1>1 DEF IInv, ServersFit, IsMap
<1>4. ASSUME NEW h \in Regions PROVE InUse(h)' <= ServerCount[h]
  <2> DEFINE Using == {n \in DOMAIN allocations : allocations[n] = h}
             Later == {n \in DOMAIN allocations' : allocations'[n] = h}
  <2>1. InUse(h) = Cardinality(Using) /\ InUse(h)' = Cardinality(Later)
    BY DEF InUse
  <2>2. IsFiniteSet(Using)
    BY FS_Subset DEF IInv, ServersFit
  <2>3. Later \subseteq Using
    BY <1>1
  <2>4. /\ Cardinality(Later) \in Nat /\ Cardinality(Using) \in Nat
        /\ Cardinality(Later) <= Cardinality(Using) /\ ServerCount[h] \in Nat
    BY <2>2, <2>3, FS_Subset, FS_CardinalityType, CapacityAssumption
  <2>5. InUse(h) <= ServerCount[h]
    BY DEF IInv, ServersFit
  <2>6. QED
    BY <2>1, <2>4, <2>5
<1>5. QED
  BY <1>1, <1>2, <1>3, <1>4 DEF ServersFit

LEMMA AllocateServerIInv ==
  ASSUME IInv, NEW w \in Workers, AllocateServer(w), UNCHANGED call
  PROVE  IInv'
<1>1. /\ worker[w].pc = "allocate"
      /\ Allocate(worker[w].match, worker[w].region)
      /\ Goto(w, "assign") /\ UNCHANGED <<storeVars, matches>>
  BY DEF AllocateServer, At
<1>2. PICK x : Becomes(w, x) /\ x.pc = "assign" /\ x.match = worker[w].match
               /\ x.picked = worker[w].picked /\ x.region = worker[w].region
  BY <1>1, GoesTo DEF PC
<1>3. PICK m \in Matches : m = worker[w].match /\ m # None
  BY <1>1, OwnAttempt DEF Making
<1>4. PICK S \in SUBSET Tickets : S = worker[w].picked
  BY <1>1, OwnAttempt DEF Making
<1>5. PICK g \in Regions : g = worker[w].region
  BY <1>1, OwnAttempt DEF Making
<1> DEFINE y == Moved(NewMatch(S), "ALLOCATING")
<1>6. /\ FullRoster(S) /\ m \in DOMAIN matches /\ matches[m] = y
      /\ m \in DOMAIN reservations => reservations[m] = S
      /\ Store!AssignedTo(m) = {} /\ m \notin DOMAIN allocations
  BY <1>1, <1>3, <1>4 DEF IInv, WorkerFits, Making, Choosing, AllocatingCopy
<1>7. StoreFits' /\ TicketsStay /\ \A n \in Matches : Untouched(n)
  BY <1>1, StoreStill
<1>8. Allocate(m, g)
  BY <1>1, <1>3, <1>5
<1>9. /\ ServersFit'
      /\ \A n : n \in DOMAIN allocations' <=> n \in DOMAIN allocations \/ n = m
  BY <1>6, <1>8, AllocateFits
<1>10. FullRoster(S)' /\ S \subseteq DOMAIN tickets'
  BY <1>6, <1>7, FullRosterStays DEF FullRoster, TicketsStay
<1>11. /\ m \in DOMAIN reservations' => reservations'[m] = S
       /\ Store!AssignedTo(m)' = {}
  BY <1>6, <1>7 DEF Untouched
<1>12. worker'[w] = x /\ InTheMaking(m)'
  BY <1>2, <1>3, StillInTheMaking
<1>13. AllocatingCopy(w)' = y /\ matches'[m] = y /\ m \in DOMAIN matches'
  BY <1>1, <1>2, <1>4, <1>6, <1>12 DEF AllocatingCopy
<1>14. y \in Match /\ y.state = "ALLOCATING" /\ y.revision = 2 /\ y.roster = S
  BY MatchValues
<1> HIDE DEF y
<1>15. WorkerFits(w)'
  BY <1>2, <1>3, <1>4, <1>5, <1>9, <1>10, <1>11, <1>12, <1>13
  DEF Becomes, WorkerFits, Choosing, Checking, Making
<1>16. MatchFits(m)'
  BY <1>10, <1>12, <1>13, <1>14 DEF MatchFits, Open, RevisionFits
<1>17. \A n \in Matches : n # m => Undisturbed(n)
  BY <1>1, <1>7, <1>9 DEF Undisturbed
<1>18. DOMAIN matches' \subseteq Matches
  BY <1>1 DEF IInv
<1>19. QED
  BY <1>2, <1>3, <1>7, <1>9, <1>15, <1>16, <1>17, <1>18, WorkerMoves DEF Becomes

\* A worker that could not get a server, or lost its reservation, turns to
\* its clean-up.
LEMMA CleaningUpIInv ==
  ASSUME IInv, NEW w \in Workers, NoServerCapacity(w) \/ AssignmentConflict(w),
         UNCHANGED call
  PROVE  IInv'
<1>1. PICK pc \in {"failMatch", "releaseServer"}, K \in {worker[w].todo, {}} :
        /\ worker' = [worker EXCEPT ![w] = [worker[w] EXCEPT !.pc = pc, !.todo = K]]
        /\ pc = "failMatch" => worker[w].pc = "allocate"
        /\ pc = "releaseServer" => worker[w].pc = "assign"
  <2>1. CASE NoServerCapacity(w)
    <3>1. [worker[w] EXCEPT !.pc = "failMatch"]
            = [worker[w] EXCEPT !.pc = "failMatch", !.todo = worker[w].todo]
      BY DEF IInv, WorkerState
    <3>2. QED
      BY <2>1, <3>1 DEF NoServerCapacity, Goto, Become, At
  <2>2. CASE AssignmentConflict(w)
    BY <2>2 DEF AssignmentConflict, Become, At
  <2>3. QED
    BY <2>1, <2>2
<1>2. UNCHANGED <<storeVars, matches, allocations>>
  BY DEF NoServerCapacity, AssignmentConflict
<1> DEFINE x == [worker[w] EXCEPT !.pc = pc, !.todo = K]
<1>3. /\ x \in WorkerState /\ x.pc = pc /\ x.match = worker[w].match
      /\ x.picked = worker[w].picked /\ x.region = worker[w].region
  BY DEF IInv, WorkerState, PC
<1>4. Becomes(w, x)
  BY <1>1, <1>3 DEF Becomes
<1> HIDE DEF x
<1>5. worker'[w] = x
  BY <1>4 DEF IInv, Becomes
<1>6. TicketsStay /\ UNCHANGED <<tickets, reservations>> /\ \A n \in Matches : Untouched(n)
  BY <1>2, StoreStill DEF storeVars
<1>7. AllocatingCopy(w)' = AllocatingCopy(w)
  BY <1>3, <1>5 DEF AllocatingCopy
<1>8. PICK m \in Matches : m = worker[w].match /\ m # None
  BY <1>1, OwnAttempt DEF Making
<1>9. PICK S \in SUBSET Tickets : S = worker[w].picked
  BY <1>1, OwnAttempt DEF Making
<1>10. /\ FullRoster(S) /\ m \in DOMAIN matches /\ matches[m] = AllocatingCopy(w)
       /\ m \in DOMAIN reservations => reservations[m] = S
       /\ Store!AssignedTo(m) = {} /\ worker[w].region \in Regions
       /\ worker[w].pc = "allocate" => m \notin DOMAIN allocations
  BY <1>1, <1>8, <1>9 DEF IInv, WorkerFits, Making, Choosing
<1>11. FullRoster(S)' /\ S \subseteq DOMAIN tickets'
  BY <1>6, <1>10, FullRosterStays DEF FullRoster, TicketsStay
<1>12. Store!AssignedTo(m)' = {}
  BY <1>6, <1>10 DEF Untouched
<1>13. WorkerFits(w)'
  BY <1>1, <1>2, <1>3, <1>5, <1>6, <1>7, <1>8, <1>9, <1>10, <1>11, <1>12
  DEF WorkerFits, Choosing, Checking, Making
<1>14. QED
  BY <1>2, <1>3, <1>4, <1>13, WorkerPrivate DEF Becomes

LEMMA AssignTicketsIInv ==
  ASSUME IInv, NEW w \in Workers, AssignTickets(w), UNCHANGED call
  PROVE  IInv'
<1>1. /\ worker[w].pc = "assign"
      /\ Store!AssignAll(worker[w].match, worker[w].match)
      /\ Goto(w, "publish") /\ UNCHANGED <<matches, allocations>>
  BY DEF AssignTickets, At
<1>2. PICK x : Becomes(w, x) /\ x.pc = "publish" /\ x.match = worker[w].match
               /\ x.picked = worker[w].picked /\ x.region = worker[w].region
  BY <1>1, GoesTo DEF PC
<1>3. PICK m \in Matches : m = worker[w].match /\ m # None
  BY <1>1, OwnAttempt DEF Making
<1>4. PICK S \in SUBSET Tickets : S = worker[w].picked
  BY <1>1, OwnAttempt DEF Making
<1> DEFINE y == Moved(NewMatch(S), "ALLOCATING")
<1>5. /\ FullRoster(S) /\ m \in DOMAIN matches /\ matches[m] = y
      /\ m \in DOMAIN reservations => reservations[m] = S
      /\ Store!AssignedTo(m) = {} /\ m \in DOMAIN allocations
      /\ worker[w].region \in Regions
  BY <1>1, <1>3, <1>4 DEF IInv, WorkerFits, Making, Choosing, AllocatingCopy
<1>6. Store!AssignAll(m, m)
  BY <1>1, <1>3
<1>7. /\ StoreFits' /\ TicketsStay
      /\ \A n \in Matches : n # m => Untouched(n)
      /\ m \notin DOMAIN reservations'
      /\ Store!AssignedTo(m)' = S /\ Store!Blocking(m)' = S
  BY <1>5, <1>6, AssignAllTouches
<1>8. FullRoster(S)' /\ S \subseteq DOMAIN tickets'
  BY <1>5, <1>7, FullRosterStays DEF FullRoster, TicketsStay
<1>9. worker'[w] = x /\ InTheMaking(m)'
  BY <1>2, <1>3, StillInTheMaking
<1>10. AllocatingCopy(w)' = y /\ matches'[m] = y /\ m \in DOMAIN matches'
  BY <1>1, <1>2, <1>4, <1>5, <1>9 DEF AllocatingCopy
<1>11. y \in Match /\ y.state = "ALLOCATING" /\ y.revision = 2 /\ y.roster = S
  BY MatchValues
<1> HIDE DEF y
<1>12. WorkerFits(w)'
  BY <1>1, <1>2, <1>3, <1>4, <1>5, <1>7, <1>8, <1>9, <1>10
  DEF Becomes, WorkerFits, Choosing, Checking, Making
<1>13. MatchFits(m)'
  BY <1>7, <1>8, <1>9, <1>10, <1>11 DEF MatchFits, Open, RevisionFits
<1>14. \A n \in Matches : n # m => Undisturbed(n)
  BY <1>1, <1>7 DEF Undisturbed
<1>15. ServersFit' /\ DOMAIN matches' \subseteq Matches
  BY <1>1 DEF IInv, ServersFit, InUse
<1>16. QED
  BY <1>2, <1>3, <1>7, <1>12, <1>13, <1>14, <1>15, WorkerMoves DEF Becomes

\* An iteration that ends its attempt holds nothing.
LEMMA RestartedFits ==
  ASSUME IInv, TicketsStay, NEW w \in Workers, NEW x, Restarted(x), Becomes(w, x)
  PROVE  WorkerFits(w)' /\ x.match = None
  BY ChoosingFits DEF Restarted

\* The READY match has its tickets and its server by then.
LEMMA PublishMatchIInv ==
  ASSUME IInv, NEW w \in Workers, PublishMatch(w), UNCHANGED call
  PROVE  IInv'
<1>1. /\ worker[w].pc = "publish"
      /\ Update(worker[w].match, ReadyCopy(w))
      /\ TryPools(w, {}) /\ UNCHANGED <<storeVars, allocations>>
  BY DEF PublishMatch, At, Abandon
<1>2. PICK x : Restarted(x) /\ Becomes(w, x)
  BY <1>1, TryPoolsRestarts
<1>3. PICK m \in Matches : m = worker[w].match /\ m # None
  BY <1>1, OwnAttempt DEF Making
<1>4. PICK S \in SUBSET Tickets : S = worker[w].picked
  BY <1>1, OwnAttempt DEF Making
<1>5. /\ FullRoster(S) /\ m \notin DOMAIN reservations /\ m \in DOMAIN allocations
      /\ Store!AssignedTo(m) = S /\ Store!Blocking(m) = S
  BY <1>1, <1>3, <1>4 DEF IInv, WorkerFits, Making
<1> DEFINE y == Moved(Moved(NewMatch(S), "ALLOCATING"), "READY")
<1>6. y \in Match /\ y.state = "READY" /\ y.revision = 3 /\ y.roster = S
  BY MatchValues, MovedValue DEF MatchState
<1>7. matches' = Put(matches, m, y)
  BY <1>1, <1>3, <1>4 DEF Update, ReadyCopy, AllocatingCopy
<1> HIDE DEF y
<1>8. /\ StoreFits' /\ TicketsStay /\ ServersFit'
      /\ DOMAIN matches' \subseteq Matches
      /\ m \in DOMAIN matches' /\ matches'[m] = y
      /\ Untouched(m)
      /\ \A n \in Matches : n # m => Undisturbed(n)
  BY <1>1, <1>7, StoringTouches
<1>9. WorkerFits(w)' /\ x.match = None
  BY <1>2, <1>8, RestartedFits
<1>10. FullRoster(S)'
  BY <1>5, <1>8, FullRosterStays
<1>11. MatchFits(m)'
  <2>1. Store!AssignedTo(m)' = S /\ Store!Blocking(m)' = S /\ m \notin DOMAIN reservations'
    BY <1>5, <1>8 DEF Untouched
  <2>2. m \in DOMAIN allocations' /\ Open(m)'
    BY <1>1, <1>5, <1>6, <1>8 DEF Open
  <2>3. QED
    BY <1>6, <1>8, <1>10, <2>1, <2>2 DEF MatchFits, RevisionFits
<1>12. QED
  BY <1>2, <1>3, <1>8, <1>9, <1>11, WorkerMoves DEF Becomes

LEMMA ReleaseServerIInv ==
  ASSUME IInv, NEW w \in Workers, ReleaseServer(w), UNCHANGED call
  PROVE  IInv'
<1>1. /\ worker[w].pc = "releaseServer" /\ Release(worker[w].match)
      /\ Goto(w, "failMatch") /\ UNCHANGED <<storeVars, matches>>
  BY DEF ReleaseServer, At
<1>2. PICK x : Becomes(w, x) /\ x.pc = "failMatch" /\ x.match = worker[w].match
               /\ x.picked = worker[w].picked /\ x.region = worker[w].region
  BY <1>1, GoesTo DEF PC
<1>3. PICK m \in Matches : m = worker[w].match /\ m # None
  BY <1>1, OwnAttempt DEF Making
<1>4. PICK S \in SUBSET Tickets : S = worker[w].picked
  BY <1>1, OwnAttempt DEF Making
<1> DEFINE y == Moved(NewMatch(S), "ALLOCATING")
<1>5. /\ FullRoster(S) /\ m \in DOMAIN matches /\ matches[m] = y
      /\ m \in DOMAIN reservations => reservations[m] = S
      /\ Store!AssignedTo(m) = {} /\ worker[w].region \in Regions
  BY <1>1, <1>3, <1>4 DEF IInv, WorkerFits, Making, Choosing, AllocatingCopy
<1>6. StoreFits' /\ TicketsStay /\ \A n \in Matches : Untouched(n)
  BY <1>1, StoreStill
<1>7. Release(m)
  BY <1>1, <1>3
<1>8. /\ ServersFit'
      /\ \A n : n \in DOMAIN allocations' <=> n \in DOMAIN allocations /\ n # m
  BY <1>7, ReleaseFits
<1>9. FullRoster(S)' /\ S \subseteq DOMAIN tickets'
  BY <1>5, <1>6, FullRosterStays DEF FullRoster, TicketsStay
<1>10. /\ m \in DOMAIN reservations' => reservations'[m] = S
       /\ Store!AssignedTo(m)' = {}
  BY <1>5, <1>6 DEF Untouched
<1>11. worker'[w] = x /\ InTheMaking(m)'
  BY <1>2, <1>3, StillInTheMaking
<1>12. AllocatingCopy(w)' = y /\ matches'[m] = y /\ m \in DOMAIN matches'
  BY <1>1, <1>2, <1>4, <1>5, <1>11 DEF AllocatingCopy
<1>13. y \in Match /\ y.state = "ALLOCATING" /\ y.revision = 2 /\ y.roster = S
  BY MatchValues
<1> HIDE DEF y
<1>14. WorkerFits(w)'
  BY <1>2, <1>3, <1>4, <1>5, <1>8, <1>9, <1>10, <1>11, <1>12
  DEF Becomes, WorkerFits, Choosing, Checking, Making
<1>15. MatchFits(m)'
  BY <1>8, <1>9, <1>11, <1>12, <1>13 DEF MatchFits, Open, RevisionFits
<1>16. \A n \in Matches : n # m => Undisturbed(n)
  BY <1>1, <1>6, <1>8 DEF Undisturbed
<1>17. DOMAIN matches' \subseteq Matches
  BY <1>1 DEF IInv
<1>18. QED
  BY <1>2, <1>3, <1>6, <1>8, <1>14, <1>15, <1>16, <1>17, WorkerMoves DEF Becomes

LEMMA FailMatchIInv ==
  ASSUME IInv, NEW w \in Workers, FailMatch(w), UNCHANGED call
  PROVE  IInv'
<1>1. /\ worker[w].pc = "failMatch"
      /\ Update(worker[w].match, Failed(matches[worker[w].match]))
      /\ Goto(w, "releaseTickets") /\ UNCHANGED <<storeVars, allocations>>
  BY DEF FailMatch, At
<1>2. PICK x : Becomes(w, x) /\ x.pc = "releaseTickets" /\ x.match = worker[w].match
               /\ x.picked = worker[w].picked /\ x.region = worker[w].region
  BY <1>1, GoesTo DEF PC
<1>3. PICK m \in Matches : m = worker[w].match /\ m # None
  BY <1>1, OwnAttempt DEF Making
<1>4. PICK S \in SUBSET Tickets : S = worker[w].picked
  BY <1>1, OwnAttempt DEF Making
<1>5. /\ FullRoster(S) /\ matches[m] = Moved(NewMatch(S), "ALLOCATING")
      /\ m \in DOMAIN reservations => reservations[m] = S
      /\ Store!AssignedTo(m) = {} /\ worker[w].region \in Regions
      /\ m \notin DOMAIN allocations
  BY <1>1, <1>3, <1>4 DEF IInv, WorkerFits, Making, Choosing, AllocatingCopy
<1> DEFINE y == Moved(Moved(NewMatch(S), "ALLOCATING"), "FAILED")
<1>6. y \in Match /\ y.state = "FAILED" /\ y.revision = 3 /\ y.roster = S
  BY MatchValues, MovedValue DEF MatchState
<1>7. matches' = Put(matches, m, y)
  BY <1>1, <1>3, <1>4, <1>5 DEF Update, Failed
<1> HIDE DEF y
<1>8. /\ StoreFits' /\ TicketsStay /\ ServersFit'
      /\ DOMAIN matches' \subseteq Matches
      /\ m \in DOMAIN matches' /\ matches'[m] = y
      /\ Untouched(m)
      /\ \A n \in Matches : n # m => Undisturbed(n)
  BY <1>1, <1>7, StoringTouches
<1>9. FullRoster(S)' /\ S \subseteq DOMAIN tickets'
  BY <1>5, <1>8, FullRosterStays DEF FullRoster, TicketsStay
<1>10. /\ m \in DOMAIN reservations' => reservations'[m] = S
       /\ Store!AssignedTo(m)' = {}
  BY <1>5, <1>8 DEF Untouched
<1>11. worker'[w] = x /\ InTheMaking(m)'
  BY <1>2, <1>3, StillInTheMaking
<1>12. WorkerFits(w)'
  BY <1>1, <1>2, <1>3, <1>4, <1>5, <1>6, <1>8, <1>9, <1>10, <1>11
  DEF Becomes, WorkerFits, Choosing, Checking, Making
<1>13. MatchFits(m)'
  BY <1>1, <1>5, <1>6, <1>8, <1>9, <1>11 DEF MatchFits, Open, RevisionFits
<1>14. QED
  BY <1>2, <1>3, <1>8, <1>12, <1>13, WorkerMoves DEF Becomes

\* A reservation that is recorded can be released: the tickets still carry it.
LEMMA ReleaseTicketsIInv ==
  ASSUME IInv, NEW w \in Workers, ReleaseTickets(w), UNCHANGED call
  PROVE  IInv'
<1>1. /\ worker[w].pc = "releaseTickets"
      /\ \/ Store!ReleaseAll(worker[w].match)
         \/ ~Store!Outstanding(worker[w].match) /\ UNCHANGED storeVars
      /\ TryPools(w, worker[w].todo) /\ UNCHANGED <<matches, allocations>>
  BY DEF ReleaseTickets, At, NextPool
<1>2. PICK x : Restarted(x) /\ Becomes(w, x)
  <2>1. worker[w].todo \in SUBSET PoolKeys
    BY DEF IInv, WorkerState
  <2>2. QED
    BY <1>1, <2>1, TryPoolsRestarts
<1>3. PICK m \in Matches : m = worker[w].match /\ m # None
  BY <1>1, OwnAttempt DEF Making
<1>4. /\ m \in DOMAIN matches /\ matches[m].state = "FAILED"
      /\ m \notin DOMAIN allocations
  BY <1>1, <1>3 DEF IInv, WorkerFits
<1>5. /\ StoreFits' /\ TicketsStay /\ \A n \in Matches : Untouched(n)
      /\ m \notin DOMAIN reservations'
  <2>1. CASE Store!ReleaseAll(m)
    BY <2>1, ReleaseAllTouches
  <2>2. CASE ~Store!Outstanding(m) /\ UNCHANGED storeVars
    <3>1. m \notin DOMAIN reservations
      BY <2>2 DEF Store!Outstanding, Store!HeldBy, IInv, StoreFits, StoreProofs!IInv,
         StoreProofs!ReservationAgreement, StoreProofs!HeldBy
    <3>2. QED
      BY <2>2, <3>1, StoreStill DEF storeVars
  <2>3. QED
    BY <1>1, <1>3, <2>1, <2>2
<1>6. \A n \in Matches : Undisturbed(n)
  BY <1>1, <1>5 DEF Undisturbed
<1>7. WorkerFits(w)' /\ x.match = None
  BY <1>2, <1>5, RestartedFits
<1>8. MatchFits(m)'
  <2>1. FullRoster(matches[m].roster)'
    BY <1>1, <1>4, <1>5, FullRosterStays DEF IInv, MatchFits
  <2>2. QED
    BY <1>1, <1>4, <1>5, <2>1 DEF IInv, MatchFits, Open
<1>9. ServersFit' /\ DOMAIN matches' \subseteq Matches
  BY <1>1 DEF IInv, ServersFit, InUse
<1>10. QED
  BY <1>2, <1>3, <1>5, <1>6, <1>7, <1>8, <1>9, WorkerMoves DEF Becomes

-----------------------------------------------------------------------------
(* The requests *)

\* A step of a request that nobody else sees.
LEMMA CallPrivate ==
  ASSUME IInv, NEW c \in Callers, NEW x \in CallState,
         call' = [call EXCEPT ![c] = x],
         UNCHANGED <<storeVars, matches, allocations, worker>>,
         CallFits(c)'
  PROVE  IInv'
<1>1. /\ \A d \in Callers \ {c} : call'[d] = call[d]
      /\ call' \in [Callers -> CallState]
  BY DEF IInv
<1>2. TicketsStay /\ StoreFits' /\ ServersFit' /\ \A n \in Matches : Undisturbed(n)
  BY NothingStirs
<1>3. ASSUME NEW v \in Workers PROVE WorkerFits(v)'
  <2>1. \A n \in Matches : n = worker[v].match => Undisturbed(n)
    BY <1>2
  <2>2. QED
    BY <1>2, <2>1, WorkerUndisturbed
<1>4. ASSUME NEW n \in Matches PROVE MatchFits(n)'
  <2>1. InTheMaking(n) => InTheMaking(n)'
    BY DEF InTheMaking
  <2>2. QED
    BY <1>2, <2>1, MatchUndisturbed
<1>5. ASSUME NEW d \in Callers PROVE CallFits(d)'
  <2>1. ~InCall(d, "none") => call[d].match \in DOMAIN matches
    BY DEF IInv, CallFits
  <2>2. \A n \in Matches : n = call[d].match /\ ~InCall(d, "none") => Forward(n)
    BY <1>2, <2>1, UndisturbedForward
  <2>3. QED
    BY <1>1, <2>2, CallUndisturbed
<1>6. IdsDiffer' /\ worker' \in [Workers -> WorkerState] /\ DOMAIN matches' \subseteq Matches
  BY DEF IInv, IdsDiffer
<1>7. QED
  BY <1>1, <1>2, <1>3, <1>4, <1>5, <1>6 DEF IInv

\* A request that is over relies on nothing.
LEMMA ReturnFits ==
  ASSUME IInv, NEW c \in Callers, Return(c)
  PROVE  /\ NoCall \in CallState /\ call' = [call EXCEPT ![c] = NoCall]
         /\ CallFits(c)'
<1>1. NoCall \in CallState /\ NoCall.pc = "none"
  BY DEF CallState, NoCall
<1>2. call' = [call EXCEPT ![c] = NoCall] /\ call'[c] = NoCall
  BY DEF IInv, Return
<1>3. CallFits(c)'
  BY <1>1, <1>2 DEF CallFits, InCall
<1>4. QED
  BY <1>1, <1>2, <1>3

\* A request that has called on match m for the next step.
LEMMA ProceedFits ==
  ASSUME IInv, NEW c \in Callers, NEW pc \in CallPC \ {"none"}, NEW m \in Matches,
         NEW copy \in Match \cup {None}, Proceed(c, pc, m, copy)
  PROVE  LET x == [pc |-> pc, match |-> m, copy |-> copy]
         IN  /\ x \in CallState /\ call' = [call EXCEPT ![c] = x] /\ call'[c] = x
             /\ call'[c].pc = pc /\ call'[c].match = m /\ call'[c].copy = copy
  BY DEF IInv, Proceed, CallState

\* The request of a step that works on its match.
LEMMA CalledMatch ==
  ASSUME IInv, NEW c \in Callers, ~InCall(c, "none")
  PROVE  \E m \in Matches :
            /\ m = call[c].match /\ m \in DOMAIN matches
            /\ matches[m].state \in {"READY", "RUNNING", "FINISHED"}
            /\ matches[m] \in Match /\ RevisionFits(matches[m])
            /\ FullRoster(matches[m].roster)
<1>1. call[c].match \in DOMAIN matches /\ call[c].match \in Matches
  BY DEF IInv, CallFits
<1>2. PICK m \in Matches : m = call[c].match
  BY <1>1
<1>3. matches[m].state \in {"READY", "RUNNING", "FINISHED"}
  BY <1>2 DEF IInv, CallFits
<1>4. matches[m] \in Match /\ RevisionFits(matches[m]) /\ FullRoster(matches[m].roster)
  BY <1>1, <1>2 DEF IInv, MatchFits
<1>5. QED
  BY <1>1, <1>2, <1>3, <1>4

LEMMA StartMatchIInv ==
  ASSUME IInv, NEW c \in Callers, NEW m \in Matches, StartMatch(c, m), UNCHANGED worker
  PROVE  IInv'
<1> DEFINE copy == Moved(matches[m], "RUNNING")
           x == [pc |-> "storeStarted", match |-> m, copy |-> copy]
<1>1. /\ m \in DOMAIN matches /\ matches[m].state = "READY"
      /\ Proceed(c, "storeStarted", m, copy)
      /\ UNCHANGED <<storeVars, matches, allocations>>
  BY DEF StartMatch, CanStart, Started
<1>2. matches[m] \in Match /\ matches[m].revision = 3
  BY <1>1 DEF IInv, MatchFits, RevisionFits
<1>3. /\ copy \in Match /\ copy.state = "RUNNING" /\ copy.revision = 4
      /\ copy.roster = matches[m].roster
  BY <1>2, MovedValue DEF MatchState
<1> HIDE DEF copy
<1>4. /\ x \in CallState /\ call' = [call EXCEPT ![c] = x] /\ call'[c] = x
      /\ call'[c].pc = "storeStarted" /\ call'[c].match = m /\ call'[c].copy = copy
  BY <1>1, <1>3, ProceedFits DEF CallPC
<1> HIDE DEF x
<1>5. CallFits(c)'
  BY <1>1, <1>3, <1>4 DEF CallFits, InCall
<1>6. QED
  BY <1>1, <1>4, <1>5, CallPrivate

LEMMA CompleteFinishedIInv ==
  ASSUME IInv, NEW c \in Callers, NEW m \in Matches, CompleteFinished(c, m),
         UNCHANGED worker
  PROVE  IInv'
<1> DEFINE x == [pc |-> "completeTickets", match |-> m, copy |-> None]
<1>1. /\ m \in DOMAIN matches /\ matches[m].state = "FINISHED"
      /\ Proceed(c, "completeTickets", m, None)
      /\ UNCHANGED <<storeVars, matches, allocations>>
  BY DEF CompleteFinished
<1>2. /\ x \in CallState /\ call' = [call EXCEPT ![c] = x] /\ call'[c] = x
      /\ call'[c].pc = "completeTickets" /\ call'[c].match = m
  BY <1>1, ProceedFits DEF CallPC
<1> HIDE DEF x
<1>3. CallFits(c)'
  BY <1>1, <1>2 DEF CallFits, InCall
<1>4. QED
  BY <1>1, <1>2, <1>3, CallPrivate

LEMMA CompleteMatchIInv ==
  ASSUME IInv, NEW c \in Callers, NEW m \in Matches, NEW result \in Results,
         CompleteMatch(c, m, result), UNCHANGED worker
  PROVE  IInv'
<1> DEFINE copy == [Moved(matches[m], "FINISHED") EXCEPT !.result = result]
           x == [pc |-> "storeCompleted", match |-> m, copy |-> copy]
<1>1. /\ m \in DOMAIN matches /\ matches[m].state = "RUNNING"
      /\ Proceed(c, "storeCompleted", m, copy)
      /\ UNCHANGED <<storeVars, matches, allocations>>
  BY DEF CompleteMatch, CanComplete, Completed
<1>2. matches[m] \in Match /\ matches[m].revision = 4
  BY <1>1 DEF IInv, MatchFits, RevisionFits
<1>3. LET y == Moved(matches[m], "FINISHED")
      IN  /\ y \in Match /\ y.state = "FINISHED" /\ y.revision = 5
          /\ y.roster = matches[m].roster
  BY <1>2, MovedValue DEF MatchState
<1>4. /\ copy \in Match /\ copy.state = "FINISHED" /\ copy.revision = 5
      /\ copy.roster = matches[m].roster
  BY <1>3 DEF Match
<1> HIDE DEF copy
<1>5. /\ x \in CallState /\ call' = [call EXCEPT ![c] = x] /\ call'[c] = x
      /\ call'[c].pc = "storeCompleted" /\ call'[c].match = m /\ call'[c].copy = copy
  BY <1>1, <1>4, ProceedFits DEF CallPC
<1> HIDE DEF x
<1>6. CallFits(c)'
  BY <1>1, <1>4, <1>5 DEF CallFits, InCall
<1>7. QED
  BY <1>1, <1>5, <1>6, CallPrivate

LEMMA AbortCallIInv ==
  ASSUME IInv, NEW c \in Callers, AbortCall(c), UNCHANGED worker
  PROVE  IInv'
  BY ReturnFits, CallPrivate DEF AbortCall

LEMMA ResolveCompletionConflictIInv ==
  ASSUME IInv, NEW c \in Callers, ResolveCompletionConflict(c), UNCHANGED worker
  PROVE  IInv'
<1>1. /\ InCall(c, "resolve") /\ UNCHANGED <<storeVars, matches, allocations>>
      /\ Then(c, "completeTickets") \/ Return(c)
  BY DEF ResolveCompletionConflict
<1>2. CASE Return(c)
  BY <1>1, <1>2, ReturnFits, CallPrivate
<1>3. CASE Then(c, "completeTickets")
  <2>1. PICK m \in Matches : m = call[c].match /\ m \in DOMAIN matches
    BY <1>1, CalledMatch DEF InCall
  <2> DEFINE x == [pc |-> "completeTickets", match |-> m, copy |-> None]
  <2>2. Proceed(c, "completeTickets", m, None)
    BY <1>3, <2>1 DEF Then
  <2>3. /\ x \in CallState /\ call' = [call EXCEPT ![c] = x] /\ call'[c] = x
        /\ call'[c].pc = "completeTickets" /\ call'[c].match = m
    BY <2>2, ProceedFits DEF CallPC
  <2>4. matches[m].state = "FINISHED"
    BY <1>1, <2>1 DEF IInv, CallFits, InCall
  <2> HIDE DEF x
  <2>5. CallFits(c)'
    BY <1>1, <2>1, <2>3, <2>4 DEF CallFits, InCall
  <2>6. QED
    BY <1>1, <2>3, <2>5, CallPrivate
<1>4. QED
  BY <1>1, <1>2, <1>3

\* The copy a request stores: m moves one state further, and keeps its tickets.
LEMMA StoringCopy ==
  ASSUME IInv, UNCHANGED <<storeVars, allocations, worker>>,
         NEW m \in DOMAIN matches, NEW y \in Match, matches' = Put(matches, m, y),
         RevisionFits(y), y.roster = matches[m].roster,
         \/ matches[m].state = "READY" /\ y.state = "RUNNING"
         \/ matches[m].state = "RUNNING" /\ y.state = "FINISHED"
  PROVE  MatchFits(m)' /\ Forward(m)
<1>1. m \in Matches
  BY DEF IInv
<1>2. /\ TicketsStay /\ m \in DOMAIN matches' /\ matches'[m] = y /\ Untouched(m)
  BY <1>1, StoringTouches
<1>3. /\ MatchFits(m) /\ Open(m)
      /\ FullRoster(matches[m].roster) /\ m \in DOMAIN allocations
      /\ Store!AssignedTo(m) = matches[m].roster
      /\ Store!Blocking(m) = matches[m].roster
  BY <1>1 DEF IInv, MatchFits, Open
<1>4. FullRoster(y.roster)'
  BY <1>2, <1>3, FullRosterStays
<1>5. /\ Store!AssignedTo(m)' = matches'[m].roster
      /\ Store!Blocking(m)' = matches'[m].roster
      /\ m \in DOMAIN allocations'
  BY <1>2, <1>3 DEF Untouched
<1>6. m \in DOMAIN reservations' => InTheMaking(m)'
  <2>1. m \in DOMAIN reservations => InTheMaking(m)
    BY <1>3 DEF MatchFits
  <2>2. InTheMaking(m) => InTheMaking(m)'
    BY DEF InTheMaking
  <2>3. QED
    BY <1>2, <2>1, <2>2 DEF Untouched
<1>7. Open(m)' \/ Over(m)'
  BY <1>2 DEF Open, Over
<1>8. MatchFits(m)'
  BY <1>2, <1>4, <1>5, <1>6, <1>7 DEF MatchFits
<1>9. Forward(m)
  BY <1>2 DEF Forward, Untouched
<1>10. QED
  BY <1>8, <1>9

\* The revision check lets a RUNNING copy replace a READY match only.
LEMMA StoreStartedIInv ==
  ASSUME IInv, NEW c \in Callers, StoreStarted(c), UNCHANGED worker
  PROVE  IInv'
<1>1. /\ InCall(c, "storeStarted") /\ Return(c) /\ UNCHANGED <<storeVars, allocations>>
      /\ Update(call[c].match, call[c].copy) \/ UNCHANGED matches
  BY DEF StoreStarted
<1>2. /\ NoCall \in CallState /\ call' = [call EXCEPT ![c] = NoCall]
      /\ CallFits(c)'
  BY <1>1, ReturnFits
<1>3. CASE UNCHANGED matches
  BY <1>1, <1>2, <1>3, CallPrivate
<1>4. CASE Update(call[c].match, call[c].copy)
  <2>1. PICK m \in Matches :
          /\ m = call[c].match /\ m \in DOMAIN matches
          /\ matches[m].state \in {"READY", "RUNNING", "FINISHED"}
          /\ RevisionFits(matches[m])
    BY <1>1, CalledMatch DEF InCall
  <2>2. PICK y \in Match : /\ y = call[c].copy /\ y.state = "RUNNING" /\ y.revision = 4
                           /\ y.roster = matches[m].roster
    BY <1>1, <2>1 DEF IInv, CallFits
  <2>3. matches' = Put(matches, m, y) /\ y.revision = matches[m].revision + 1
    BY <1>4, <2>1, <2>2 DEF Update, IsNext
  <2>4. matches[m].state = "READY" /\ RevisionFits(y)
    BY <2>1, <2>2, <2>3 DEF RevisionFits
  <2>5. MatchFits(m)' /\ Forward(m)
    BY <1>1, <2>1, <2>2, <2>3, <2>4, StoringCopy
  <2>6. /\ StoreFits' /\ TicketsStay /\ ServersFit' /\ DOMAIN matches' = DOMAIN matches
        /\ \A n \in Matches : n # m => Undisturbed(n)
    BY <1>1, <2>1, <2>3, StoringTouches
  <2>7. QED
    BY <1>2, <2>1, <2>5, <2>6, CallMoves
<1>5. QED
  BY <1>1, <1>3, <1>4

\* ... and a FINISHED copy a RUNNING match.
LEMMA StoreCompletedIInv ==
  ASSUME IInv, NEW c \in Callers, StoreCompleted(c), UNCHANGED worker
  PROVE  IInv'
<1>1. /\ InCall(c, "storeCompleted") /\ UNCHANGED <<storeVars, allocations>>
      /\ \/ Update(call[c].match, call[c].copy) /\ Then(c, "completeTickets")
         \/ /\ ~IsNext(call[c].match, call[c].copy)
            /\ Then(c, "resolve") /\ UNCHANGED matches
  BY DEF StoreCompleted
<1>2. PICK m \in Matches :
        /\ m = call[c].match /\ m \in DOMAIN matches
        /\ matches[m].state \in {"READY", "RUNNING", "FINISHED"}
        /\ RevisionFits(matches[m])
  BY <1>1, CalledMatch DEF InCall
<1>3. CASE /\ ~IsNext(call[c].match, call[c].copy)
           /\ Then(c, "resolve") /\ UNCHANGED matches
  <2> DEFINE x == [pc |-> "resolve", match |-> m, copy |-> None]
  <2>1. Proceed(c, "resolve", m, None)
    BY <1>2, <1>3 DEF Then
  <2>2. /\ x \in CallState /\ call' = [call EXCEPT ![c] = x] /\ call'[c] = x
        /\ call'[c].pc = "resolve" /\ call'[c].match = m
    BY <2>1, ProceedFits DEF CallPC
  <2> HIDE DEF x
  <2>3. matches[m].state = "FINISHED"
    <3>1. call[c].copy.revision = 5 /\ matches[m].state \in {"RUNNING", "FINISHED"}
      BY <1>1, <1>2 DEF IInv, CallFits
    <3>2. QED
      BY <1>2, <1>3, <3>1 DEF IsNext, RevisionFits
  <2>4. CallFits(c)'
    BY <1>2, <1>3, <2>2, <2>3 DEF CallFits, InCall
  <2>5. QED
    BY <1>1, <1>3, <2>2, <2>4, CallPrivate
<1>4. CASE Update(call[c].match, call[c].copy) /\ Then(c, "completeTickets")
  <2> DEFINE x == [pc |-> "completeTickets", match |-> m, copy |-> None]
  <2>1. PICK y \in Match : /\ y = call[c].copy /\ y.state = "FINISHED" /\ y.revision = 5
                           /\ y.roster = matches[m].roster
                           /\ matches[m].state \in {"RUNNING", "FINISHED"}
    BY <1>1, <1>2 DEF IInv, CallFits
  <2>2. matches' = Put(matches, m, y) /\ y.revision = matches[m].revision + 1
    BY <1>2, <1>4, <2>1 DEF Update, IsNext
  <2>3. matches[m].state = "RUNNING" /\ RevisionFits(y)
    BY <1>2, <2>1, <2>2 DEF RevisionFits
  <2>4. MatchFits(m)' /\ Forward(m)
    BY <1>1, <1>2, <2>1, <2>2, <2>3, StoringCopy
  <2>5. /\ StoreFits' /\ TicketsStay /\ ServersFit' /\ DOMAIN matches' = DOMAIN matches
        /\ matches'[m] = y
        /\ \A n \in Matches : n # m => Undisturbed(n)
    BY <1>1, <1>2, <2>2, StoringTouches
  <2>6. Proceed(c, "completeTickets", m, None)
    BY <1>2, <1>4 DEF Then
  <2>7. /\ x \in CallState /\ call' = [call EXCEPT ![c] = x] /\ call'[c] = x
        /\ call'[c].pc = "completeTickets" /\ call'[c].match = m
    BY <2>6, ProceedFits DEF CallPC
  <2> HIDE DEF x
  <2>8. CallFits(c)'
    BY <1>2, <2>1, <2>5, <2>7 DEF CallFits, InCall
  <2>9. QED
    BY <1>2, <2>4, <2>5, <2>7, <2>8, CallMoves
<1>5. QED
  BY <1>1, <1>3, <1>4

LEMMA CompleteTicketsIInv ==
  ASSUME IInv, NEW c \in Callers, CompleteTickets(c), UNCHANGED worker
  PROVE  IInv'
<1>1. /\ InCall(c, "completeTickets") /\ UNCHANGED <<matches, allocations>>
      /\ Store!CompleteAssignedTickets(call[c].match) /\ Then(c, "releaseServer")
  BY DEF CompleteTickets
<1>2. PICK m \in Matches :
        /\ m = call[c].match /\ m \in DOMAIN matches
        /\ FullRoster(matches[m].roster)
  BY <1>1, CalledMatch DEF InCall
<1>3. matches[m].state = "FINISHED"
  BY <1>1, <1>2 DEF IInv, CallFits, InCall
<1>4. /\ StoreFits' /\ TicketsStay /\ UNCHANGED <<tickets, reservations>>
      /\ \A n \in Matches : n # m => Untouched(n)
      /\ Store!AssignedTo(m)' = Store!AssignedTo(m)
      /\ Store!Blocking(m)' = {}
  BY <1>1, <1>2, CompletionTouches
<1> DEFINE x == [pc |-> "releaseServer", match |-> m, copy |-> None]
<1>5. Proceed(c, "releaseServer", m, None)
  BY <1>1, <1>2 DEF Then
<1>6. /\ x \in CallState /\ call' = [call EXCEPT ![c] = x] /\ call'[c] = x
      /\ call'[c].pc = "releaseServer" /\ call'[c].match = m
  BY <1>5, ProceedFits DEF CallPC
<1> HIDE DEF x
<1>7. CallFits(c)'
  BY <1>1, <1>2, <1>3, <1>4, <1>6 DEF CallFits, InCall
<1>8. MatchFits(m)'
  <2>1. MatchFits(m) /\ (InTheMaking(m) => InTheMaking(m)')
    BY DEF IInv, InTheMaking
  <2>2. FullRoster(matches[m].roster)'
    BY <1>1, <1>2, <1>4, FullRosterStays
  <2>3. QED
    BY <1>1, <1>2, <1>3, <1>4, <2>1, <2>2 DEF MatchFits, Open, Over
<1>9. /\ \A n \in Matches : n # m => Undisturbed(n)
      /\ Forward(m)
  BY <1>1, <1>2, <1>3, <1>4 DEF Undisturbed, Forward
<1>10. ServersFit' /\ DOMAIN matches' = DOMAIN matches
  BY <1>1 DEF IInv, ServersFit, InUse
<1>11. QED
  BY <1>2, <1>3, <1>4, <1>6, <1>7, <1>8, <1>9, <1>10, CallMoves

LEMMA ReleaseMatchServerIInv ==
  ASSUME IInv, NEW c \in Callers, ReleaseMatchServer(c), UNCHANGED worker
  PROVE  IInv'
<1>1. /\ InCall(c, "releaseServer") /\ UNCHANGED <<storeVars, matches>>
      /\ Release(call[c].match) /\ Return(c)
  BY DEF ReleaseMatchServer
<1>2. PICK m \in Matches :
        /\ m = call[c].match /\ m \in DOMAIN matches
        /\ FullRoster(matches[m].roster)
  BY <1>1, CalledMatch DEF InCall
<1>3. matches[m].state = "FINISHED"
  BY <1>1, <1>2 DEF IInv, CallFits, InCall
<1>4. StoreFits' /\ TicketsStay /\ \A n \in Matches : Untouched(n)
  BY <1>1, StoreStill
<1>5. /\ ServersFit'
      /\ \A n : n \in DOMAIN allocations' <=> n \in DOMAIN allocations /\ n # m
  BY <1>1, <1>2, ReleaseFits
<1>6. /\ NoCall \in CallState /\ call' = [call EXCEPT ![c] = NoCall]
      /\ CallFits(c)'
  BY <1>1, ReturnFits
<1>7. MatchFits(m)'
  <2>1. MatchFits(m) /\ (InTheMaking(m) => InTheMaking(m)')
    BY DEF IInv, InTheMaking
  <2>2. FullRoster(matches[m].roster)'
    BY <1>1, <1>2, <1>4, FullRosterStays
  <2>3. QED
    BY <1>1, <1>2, <1>3, <1>4, <1>5, <2>1, <2>2 DEF MatchFits, Open, Over, Untouched
<1>8. /\ \A n \in Matches : n # m => Undisturbed(n)
      /\ Forward(m) /\ DOMAIN matches' = DOMAIN matches
  BY <1>1, <1>2, <1>3, <1>4, <1>5 DEF Undisturbed, Forward, Untouched
<1>9. QED
  BY <1>2, <1>3, <1>4, <1>5, <1>6, <1>7, <1>8, CallMoves

-----------------------------------------------------------------------------
(* The ticket requests, and the invariant *)

LEMMA TicketRequestIInv ==
  ASSUME IInv, NEW p \in Players, CreateTicket(p) \/ CancelTicket(p),
         UNCHANGED <<matches, allocations, worker, call>>
  PROVE  IInv'
<1>1. CASE CreateTicket(p)
  BY <1>1, CreateTicketTouches, OthersMove
<1>2. CASE CancelTicket(p)
  <2>1. PICK t \in Tickets, key \in Keys : Store!Cancel(t, p, key)
    BY <1>2 DEF CancelTicket
  <2>2. key \in Store!CancelKeys
    BY DEF Store!CancelKeys
  <2>3. QED
    BY <2>1, <2>2, CancelTouches, OthersMove
<1>3. QED
  BY <1>1, <1>2

LEMMA LapseIInv ==
  ASSUME IInv, NEW r \in Matches, Store!Lapse(r),
         UNCHANGED <<matches, allocations, worker, call>>
  PROVE  IInv'
  BY LapseTouches, OthersMove

LEMMA ElsewhereIInv ==
  ASSUME IInv, UNCHANGED <<storeVars, matches, allocations, worker, call>>
  PROVE  IInv'
  BY StoreStill, OthersMove

LEMMA WorkerStepIInv ==
  ASSUME IInv, NEW w \in Workers, WorkerStep(w), UNCHANGED call
  PROVE  IInv'
  BY RecoverReservationsIInv, ListPoolsIInv, SnapshotIInv, FilterIInv, TurnAwayIInv,
     CancelDroppedIInv, CheckDoneIInv, SelectFormationIInv, ReserveFormationIInv,
     CreateMatchIInv, StartAllocationIInv, AllocateServerIInv, CleaningUpIInv,
     AssignTicketsIInv, PublishMatchIInv, ReleaseServerIInv, FailMatchIInv,
     ReleaseTicketsIInv
  DEF WorkerStep

LEMMA RequestIInv ==
  ASSUME IInv, NEW c \in Callers, Request(c) \/ CallStep(c) \/ AbortCall(c),
         UNCHANGED worker
  PROVE  IInv'
  BY StartMatchIInv, CompleteFinishedIInv, CompleteMatchIInv, StoreStartedIInv,
     StoreCompletedIInv, ResolveCompletionConflictIInv, CompleteTicketsIInv,
     ReleaseMatchServerIInv, AbortCallIInv
  DEF Request, CallStep

LEMMA InitIInv == Init => IInv
<1> SUFFICES ASSUME Init PROVE IInv
  OBVIOUS
<1>1. /\ Store!Init /\ matches = << >> /\ allocations = << >>
      /\ worker = [w \in Workers |-> Idle] /\ call = [c \in Callers |-> NoCall]
  BY DEF Init, BackendsInit, WorkerInit, CallInit
<1>2. /\ tickets = << >> /\ reservations = << >>
  BY <1>1 DEF Store!Init
<1>3. /\ DOMAIN tickets = {} /\ DOMAIN reservations = {} /\ DOMAIN matches = {}
      /\ DOMAIN allocations = {}
  BY <1>1, <1>2
<1>4. StoreFits
  <2>1. StoreProofs!Init
    BY <1>1 DEF Store!Init, StoreProofs!Init
  <2>2. StoreProofs!IInv
    BY <2>1, NoneAssumption, OrderAssumption, LimitAssumption,
       StoreProofs!InitIInv
  <2>3. QED
    BY <1>3, <2>2, FS_EmptySet DEF StoreFits
<1>5. ServersFit
  <2>1. ASSUME NEW g \in Regions PROVE InUse(g) <= ServerCount[g]
    <3>1. {m \in DOMAIN allocations : allocations[m] = g} = {}
      BY <1>3
    <3>2. InUse(g) = 0
      BY <3>1, FS_EmptySet DEF InUse
    <3>3. QED
      BY <3>2, CapacityAssumption
  <2>2. IsMap(allocations, Matches, Regions)
    BY <1>1 DEF IsMap
  <2>3. QED
    BY <1>3, <2>1, <2>2, FS_EmptySet DEF ServersFit
<1>6. /\ Idle \in WorkerState /\ Idle.pc = "idle" /\ Idle.match = None
      /\ Idle.picked = {}
  BY DEF Idle, WorkerState, PC
<1>7. NoCall \in CallState /\ NoCall.pc = "none"
  BY DEF CallState, NoCall
<1>8. \A w \in Workers : WorkerFits(w)
  BY <1>1, <1>6 DEF WorkerFits, Choosing, Checking, Making
<1>9. \A m \in Matches : MatchFits(m)
  BY <1>3 DEF MatchFits, Open, Store!AssignedTo
<1>10. IdsDiffer
  BY <1>1, <1>6 DEF IdsDiffer
<1>11. \A c \in Callers : CallFits(c)
  BY <1>1, <1>7 DEF CallFits, InCall
<1>12. QED
  BY <1>1, <1>3, <1>4, <1>5, <1>6, <1>7, <1>8, <1>9, <1>10, <1>11 DEF IInv

LEMMA NextIInv == IInv /\ [Next]_vars => IInv'
<1> SUFFICES ASSUME IInv, [Next]_vars PROVE IInv'
  OBVIOUS
<1>1. CASE UNCHANGED vars
  BY <1>1, ElsewhereIInv DEF vars
<1>2. CASE Next
  <2>1. CASE \E p \in Players :
               /\ CreateTicket(p) \/ CancelTicket(p)
               /\ UNCHANGED <<matches, allocations, banned, worker, call>>
    BY <2>1, TicketRequestIInv
  <2>2. CASE \E p \in Bannable :
               /\ Ban(p) \/ Unban(p)
               /\ UNCHANGED <<storeVars, matches, allocations, worker, call>>
    BY <2>2, ElsewhereIInv
  <2>3. CASE \E w \in Workers : WorkerStep(w) /\ UNCHANGED call
    BY <2>3, WorkerStepIInv
  <2>4. CASE \E c \in Callers :
               /\ Request(c) \/ CallStep(c) \/ AbortCall(c)
               /\ UNCHANGED <<banned, worker>>
    BY <2>4, RequestIInv
  <2>5. CASE \E r \in Matches :
               /\ Store!Lapse(r)
               /\ UNCHANGED <<matches, allocations, banned, worker, call>>
    BY <2>5, LapseIInv
  <2>6. QED
    BY <1>2, <2>1, <2>2, <2>3, <2>4, <2>5 DEF Next
<1>3. QED
  BY <1>1, <1>2

\* What the workers and the requests rely on holds in every state: each of
\* them works on copies and ids it drew earlier while the others go on.
THEOREM InvariantHolds == Spec => []IInv
  BY InitIInv, NextIInv, PTL DEF Spec

-----------------------------------------------------------------------------
(* What players can rely on *)

\* A full match has as many players as tickets.
LEMMA PlayersOfFullRoster ==
  ASSUME StoreFits, NEW S, FullRoster(S)
  PROVE  Cardinality({tickets[t].player : t \in S}) = MatchSize
<1> DEFINE f == [t \in S |-> tickets[t].player]
           P == {tickets[t].player : t \in S}
<1>1. IsFiniteSet(S)
  BY FS_Subset DEF StoreFits, FullRoster
<1>2. f \in Surjection(S, P)
  BY DEF Surjection
<1>3. f \in Injection(S, P)
  BY DEF Injection, IsInjective, FullRoster
<1>4. Cardinality(P) = Cardinality(S)
  BY <1>1, <1>2, <1>3, FS_Surjection
<1>5. QED
  BY <1>4 DEF FullRoster

LEMMA RosterImplied == IInv => OpenMatchHoldsItsRoster
<1> SUFFICES ASSUME IInv, NEW m \in Matches, Open(m)
             PROVE  /\ Store!AssignedTo(m) = matches[m].roster
                    /\ Cardinality(PlayersOf(m)) = MatchSize
                    /\ Store!Blocking(m) = matches[m].roster
  BY DEF OpenMatchHoldsItsRoster
<1>1. StoreFits /\ MatchFits(m)
  BY DEF IInv
<1>2. FullRoster(matches[m].roster)
  BY <1>1 DEF MatchFits, Open
<1>3. Cardinality(PlayersOf(m)) = MatchSize
  BY <1>1, <1>2, PlayersOfFullRoster DEF PlayersOf
<1>4. QED
  BY <1>1, <1>3 DEF MatchFits

\* The index has one entry for a player, so one ticket and one match.
LEMMA OneMatchImplied == IInv => NoPlayerInTwoMatches
<1> SUFFICES ASSUME IInv, NEW m \in Matches, NEW n \in Matches, m # n, Open(m), Open(n),
                    NEW p, p \in PlayersOf(m), p \in PlayersOf(n)
             PROVE  FALSE
  BY DEF NoPlayerInTwoMatches
<1>1. Store!Blocking(m) = matches[m].roster /\ Store!Blocking(n) = matches[n].roster
  BY DEF IInv, MatchFits
<1>2. PICK t \in Store!Blocking(m) : tickets[t].player = p
  BY <1>1 DEF PlayersOf
<1>3. PICK u \in Store!Blocking(n) : tickets[u].player = p
  BY <1>1 DEF PlayersOf
<1>4. QED
  BY <1>2, <1>3 DEF Store!Blocking

LEMMA ServersImplied == IInv => ServersAccountedFor
<1> SUFFICES ASSUME IInv PROVE ServersAccountedFor
  OBVIOUS
<1>1. DOMAIN allocations \subseteq Matches
  BY DEF IInv, ServersFit, IsMap
<1>2. \A m \in DOMAIN allocations : InTheMaking(m) \/ Open(m) \/ Over(m)
  BY <1>1 DEF IInv, MatchFits
<1>3. \A m \in Matches : Open(m) => m \in DOMAIN allocations
  BY DEF IInv, MatchFits
<1>4. \A g \in Regions : InUse(g) <= ServerCount[g]
  BY DEF IInv, ServersFit
<1>5. QED
  BY <1>2, <1>3, <1>4 DEF ServersAccountedFor

LEMMA NothingLeftImplied == IInv => NothingLeftBehind
<1> SUFFICES ASSUME IInv PROVE NothingLeftBehind
  OBVIOUS
<1>1. DOMAIN reservations \subseteq Matches
  BY DEF IInv, StoreFits, StoreProofs!IInv, StoreProofs!TypeOK, StoreProofs!IsMap
<1>2. \A r \in DOMAIN reservations : InTheMaking(r)
  BY <1>1 DEF IInv, MatchFits
<1>3. \A m \in DOMAIN matches :
         matches[m].state \in {"CREATED", "ALLOCATING"} => InTheMaking(m)
  BY DEF IInv, MatchFits
<1>4. QED
  BY <1>2, <1>3 DEF NothingLeftBehind

LEMMA ConflictImplied == IInv => CompletionsAreNotRefused
  BY DEF IInv, CallFits, CompletionsAreNotRefused, InCall, Over

\* A match players can join holds exactly the tickets of its roster, of
\* MatchSize different players, all kept from queueing again, although the
\* tickets, the roster and the index come from three calls of the worker.
THEOREM OpenMatchesHoldTheirRosters == Spec => []OpenMatchHoldsItsRoster
  BY InvariantHolds, RosterImplied, PTL

\* However reservations lapse and are recovered between the calls of the
\* workers, no player is in two matches that are not over (FR-RESERVE-005).
THEOREM PlayersAreInOneMatch == Spec => []NoPlayerInTwoMatches
  BY InvariantHolds, OneMatchImplied, PTL

\* No server is lost or promised twice: each belongs to a match that is being
\* made, can be joined or is over, and no region exceeds its count.
THEOREM ServersAreAccountedFor == Spec => []ServersAccountedFor
  BY InvariantHolds, ServersImplied, PTL

\* Whatever call of an attempt fails, no unfinished match and no reservation
\* outlives the attempt (the clean-ups of tryPool).
THEOREM AttemptsLeaveNothingBehind == Spec => []NothingLeftBehind
  BY InvariantHolds, NothingLeftImplied, PTL

\* However Start and Complete requests overlap, a completion whose update is
\* refused finds the result of another one (resolveCompletionConflict).
THEOREM ConflictsAreResolved == Spec => []CompletionsAreNotRefused
  BY InvariantHolds, ConflictImplied, PTL

-----------------------------------------------------------------------------
(* What no step may do *)

\* The transitions of a stored match.
Transition(x, y) ==
  /\ y.roster = x.roster
  /\ <<x.state, y.state>> \in {<<"CREATED", "ALLOCATING">>, <<"ALLOCATING", "READY">>,
                               <<"ALLOCATING", "FAILED">>, <<"READY", "RUNNING">>,
                               <<"RUNNING", "FINISHED">>}

\* A step that stores a match, if any, stores a new one or makes a transition.
Stores(m, y) ==
  /\ matches' = Put(matches, m, y)
  /\ IF m \in DOMAIN matches THEN Transition(matches[m], y) ELSE y.state = "CREATED"

LEMMA WorkerStores ==
  ASSUME IInv, NEW w \in Workers, WorkerStep(w)
  PROVE  UNCHANGED matches \/ \E m \in Matches : \E y : Stores(m, y)
<1>1. CASE CreateMatch(w)
  <2>1. worker[w].pc = "create" /\ Create(worker[w].match, NewMatch(worker[w].picked))
    BY <1>1 DEF CreateMatch, At
  <2>2. PICK m \in Matches : m = worker[w].match
    BY <2>1, OwnAttempt DEF Making
  <2>3. m \notin DOMAIN matches /\ matches' = Put(matches, m, NewMatch(worker[w].picked))
    BY <2>1, <2>2 DEF Create
  <2>4. NewMatch(worker[w].picked).state = "CREATED"
    BY DEF NewMatch
  <2>5. QED
    BY <2>3, <2>4 DEF Stores
<1>2. ASSUME NEW here \in {"startAllocation", "publish", "failMatch"}, worker[w].pc = here
      PROVE  \E m \in Matches, S \in SUBSET Tickets :
               /\ m = worker[w].match /\ S = worker[w].picked /\ m \in DOMAIN matches
               /\ here = "startAllocation" => matches[m] = NewMatch(S)
               /\ here # "startAllocation" => matches[m] = Moved(NewMatch(S), "ALLOCATING")
  <2>1. PICK m \in Matches : m = worker[w].match
    BY <1>2, OwnAttempt DEF Making
  <2>2. PICK S \in SUBSET Tickets : S = worker[w].picked
    BY <1>2, OwnAttempt DEF Making
  <2>3. QED
    BY <1>2, <2>1, <2>2 DEF IInv, WorkerFits, AllocatingCopy
<1>3. CASE StartAllocation(w)
  <2>1. worker[w].pc = "startAllocation" /\ Update(worker[w].match, AllocatingCopy(w))
    BY <1>3 DEF StartAllocation, At
  <2>2. PICK m \in Matches, S \in SUBSET Tickets :
          /\ m = worker[w].match /\ S = worker[w].picked
          /\ m \in DOMAIN matches /\ matches[m] = NewMatch(S)
    BY <1>2, <2>1
  <2>3. matches' = Put(matches, m, Moved(NewMatch(S), "ALLOCATING"))
    BY <2>1, <2>2 DEF Update, AllocatingCopy
  <2>4. Stores(m, Moved(NewMatch(S), "ALLOCATING"))
    BY <2>2, <2>3, MatchValues DEF Stores, Transition
  <2>5. QED
    BY <2>4
<1>4. CASE PublishMatch(w)
  <2>1. worker[w].pc = "publish" /\ Update(worker[w].match, ReadyCopy(w))
    BY <1>4 DEF PublishMatch, At
  <2>2. PICK m \in Matches, S \in SUBSET Tickets :
          /\ m = worker[w].match /\ S = worker[w].picked
          /\ m \in DOMAIN matches /\ matches[m] = Moved(NewMatch(S), "ALLOCATING")
    BY <1>2, <2>1
  <2> DEFINE x == Moved(NewMatch(S), "ALLOCATING")
  <2>3. matches' = Put(matches, m, Moved(x, "READY"))
    BY <2>1, <2>2 DEF Update, ReadyCopy, AllocatingCopy
  <2>4. x \in Match /\ x.state = "ALLOCATING" /\ x.revision = 2
    BY MatchValues
  <2> HIDE DEF x
  <2>5. Stores(m, Moved(x, "READY"))
    <3>1. Moved(x, "READY").state = "READY" /\ Moved(x, "READY").roster = x.roster
      BY <2>4, MovedValue DEF MatchState
    <3>2. matches[m] = x
      BY <2>2 DEF x
    <3>3. QED
      BY <2>2, <2>3, <2>4, <3>1, <3>2 DEF Stores, Transition
  <2>6. QED
    BY <2>5
<1>5. CASE FailMatch(w)
  <2>1. worker[w].pc = "failMatch"
        /\ Update(worker[w].match, Failed(matches[worker[w].match]))
    BY <1>5 DEF FailMatch, At
  <2>2. PICK m \in Matches, S \in SUBSET Tickets :
          /\ m = worker[w].match /\ S = worker[w].picked
          /\ m \in DOMAIN matches /\ matches[m] = Moved(NewMatch(S), "ALLOCATING")
    BY <1>2, <2>1
  <2> DEFINE x == Moved(NewMatch(S), "ALLOCATING")
  <2>3. matches' = Put(matches, m, Moved(x, "FAILED"))
    BY <2>1, <2>2 DEF Update, Failed
  <2>4. x \in Match /\ x.state = "ALLOCATING" /\ x.revision = 2
    BY MatchValues
  <2> HIDE DEF x
  <2>5. Stores(m, Moved(x, "FAILED"))
    <3>1. Moved(x, "FAILED").state = "FAILED" /\ Moved(x, "FAILED").roster = x.roster
      BY <2>4, MovedValue DEF MatchState
    <3>2. matches[m] = x
      BY <2>2 DEF x
    <3>3. QED
      BY <2>2, <2>3, <2>4, <3>1, <3>2 DEF Stores, Transition
  <2>6. QED
    BY <2>5
<1>6. QED
  BY <1>1, <1>3, <1>4, <1>5 DEF WorkerStep, RecoverReservations, ListPools, Snapshot, Filter,
     FilterFails, CancelDropped, FilterDone, SelectFormation, NoFormation, RecheckDone,
     ReserveFormation, ReservationConflict, AllocateServer, NoServerCapacity,
     AssignTickets, AssignmentConflict, ReleaseServer, ReleaseTickets

\* The revision is what makes an outdated copy of a request fail.
LEMMA CallStores ==
  ASSUME IInv, NEW c \in Callers, Request(c) \/ CallStep(c) \/ AbortCall(c)
  PROVE  UNCHANGED matches \/ \E m \in Matches : \E y : Stores(m, y)
<1>1. ASSUME NEW pc \in {"storeStarted", "storeCompleted"}, InCall(c, pc),
             Update(call[c].match, call[c].copy)
      PROVE  \E m \in Matches : \E y : Stores(m, y)
  <2>1. PICK m \in Matches :
          /\ m = call[c].match /\ m \in DOMAIN matches
          /\ matches[m].state \in {"READY", "RUNNING", "FINISHED"}
          /\ RevisionFits(matches[m])
    BY <1>1, CalledMatch DEF InCall
  <2>2. PICK y \in Match : /\ y = call[c].copy
                           /\ y.roster = matches[m].roster
                           /\ \/ y.state = "RUNNING" /\ y.revision = 4
                              \/ y.state = "FINISHED" /\ y.revision = 5
    BY <1>1, <2>1 DEF IInv, CallFits
  <2>3. matches' = Put(matches, m, y) /\ y.revision = matches[m].revision + 1
    BY <1>1, <2>1, <2>2 DEF Update, IsNext
  <2>4. Transition(matches[m], y)
    BY <2>1, <2>2, <2>3 DEF RevisionFits, Transition
  <2>5. QED
    BY <2>1, <2>3, <2>4 DEF Stores
<1>2. QED
  BY <1>1 DEF Request, CallStep, AbortCall, StartMatch, CompleteFinished, CompleteMatch,
     StoreStarted, StoreCompleted, ResolveCompletionConflict, CompleteTickets,
     ReleaseMatchServer

LEMMA StepStores ==
  ASSUME IInv, [Next]_vars
  PROVE  UNCHANGED matches \/ \E m \in Matches : \E y : Stores(m, y)
  BY WorkerStores, CallStores DEF Next, vars

LEMMA StepKeepsOutcomes ==
  ASSUME IInv, [Next]_vars, NEW m \in DOMAIN matches
  PROVE  KeepsItsOutcome(m)
<1>1. UNCHANGED matches \/ \E n \in Matches : \E y : Stores(n, y)
  BY StepStores
<1>2. ASSUME NEW n \in Matches, NEW y, Stores(n, y) PROVE KeepsItsOutcome(m)
  <2>1. /\ m \in DOMAIN matches'
        /\ m # n => matches'[m] = matches[m]
        /\ m = n => matches'[m] = y /\ Transition(matches[m], y)
    BY <1>2 DEF Stores, Put
  <2>2. CASE m = n
    BY <2>1, <2>2 DEF KeepsItsOutcome, Transition
  <2>3. CASE m # n
    BY <2>1, <2>3 DEF KeepsItsOutcome
  <2>4. QED
    BY <2>2, <2>3
<1>3. CASE UNCHANGED matches
  BY <1>3 DEF KeepsItsOutcome
<1>4. QED
  BY <1>1, <1>2, <1>3

\* Overlapping Start and Complete requests, and a worker that cleans up, never
\* move a match backwards or replace a result (the revision check of Update).
THEOREM ResultsAreFinal == Spec => FirstResultWins
<1> DEFINE Kept == \A m \in DOMAIN matches : KeepsItsOutcome(m)
<1>1. IInv /\ [Next]_vars => Kept
  BY StepKeepsOutcomes
<1>2. IInv /\ [Next]_vars => [Kept]_vars
  BY <1>1
<1> HIDE DEF Kept
<1>3. Spec => [][Kept]_vars
  BY <1>2, InvariantHolds, PTL DEF Spec
<1>4. QED
  BY <1>3 DEF FirstResultWins, Kept

\* What a request leaves when it succeeds.
Settled ==
  \A c \in Callers, m \in Matches :
     call[c].match = m /\ ReleaseMatchServer(c) =>
        /\ Over(m)
        /\ Store!Blocking(m)' = {}
        /\ m \notin DOMAIN allocations'

LEMMA LastStepSettles == IInv => Settled
<1> SUFFICES ASSUME IInv, NEW c \in Callers, NEW m \in Matches, call[c].match = m,
                    ReleaseMatchServer(c)
             PROVE  /\ Over(m)
                    /\ Store!Blocking(m)' = {}
                    /\ m \notin DOMAIN allocations'
  BY DEF Settled
<1>1. /\ call[c].pc = "releaseServer" /\ Release(m) /\ UNCHANGED storeVars
  BY DEF ReleaseMatchServer, InCall
<1>2. Over(m) /\ Store!Blocking(m) = {}
  BY <1>1 DEF IInv, CallFits, InCall, Over
<1>3. Store!Blocking(m)' = Store!Blocking(m)
  BY <1>1, StoreStill DEF Untouched
<1>4. m \notin DOMAIN allocations'
  BY <1>1, ReleaseFits
<1>5. QED
  BY <1>2, <1>3, <1>4

\* A CompleteMatch that succeeds has left the match with a result, its players
\* free to queue and its server returned, whatever interrupted and overlapping
\* requests did before it and between its steps.
THEOREM SuccessIsSettled == Spec => SuccessMeansSettled
<1>1. IInv => [Settled]_vars
  BY LastStepSettles
<1>2. Spec => [][Settled]_vars
  BY <1>1, InvariantHolds, PTL
<1>3. QED
  BY <1>2 DEF SuccessMeansSettled, Settled

-----------------------------------------------------------------------------
(* The service implements its promise *)

\* The place of a player, by the ticket the index names.
PlacesFit ==
  \A p \in Players :
     IF p \in DOMAIN activeByPlayer
     THEN /\ \A m \in Matches : activeByPlayer[p] \in Store!AssignedTo(m) => Place(p) = m
          /\ (\A m \in Matches : activeByPlayer[p] \notin Store!AssignedTo(m)) =>
                Place(p) = "waiting"
     ELSE Place(p) = "free"

LEMMA PlaceIs == StoreFits => PlacesFit
<1> SUFFICES ASSUME StoreFits, NEW p \in Players
             PROVE  IF p \in DOMAIN activeByPlayer
                    THEN /\ \A m \in Matches :
                              activeByPlayer[p] \in Store!AssignedTo(m) => Place(p) = m
                         /\ (\A m \in Matches : activeByPlayer[p] \notin Store!AssignedTo(m)) =>
                               Place(p) = "waiting"
                    ELSE Place(p) = "free"
  BY DEF PlacesFit
<1>1. p \in DOMAIN activeByPlayer => activeByPlayer[p] \in DOMAIN tickets
  BY DEF StoreFits, StoreProofs!IInv, StoreProofs!ActiveIndexAgreement
<1>2. \A t \in DOMAIN tickets : tickets[t].state = "ASSIGNED" => tickets[t].matchID \in Matches
  BY DEF StoreFits, StoreProofs!IInv, StoreProofs!TypeOK, StoreProofs!IsMap,
     StoreProofs!WellFormed, StoreProofs!Ticket
<1>3. QED
  BY <1>1, <1>2 DEF Place, Store!AssignedTo

LEMMA PlaceIsThen == StoreFits' => PlacesFit'
  BY PlaceIs, PTL

LEMMA PhaseKept ==
  ASSUME NEW m, Over(m)' <=> Over(m), Store!AssignedTo(m)' = Store!AssignedTo(m)
  PROVE  Phase(m)' = Phase(m)
  BY DEF Phase

\* Players whose entry in the index stays, with a ticket that stays in its
\* match or in none, stay where they are.
LEMMA PlaceKept ==
  ASSUME StoreFits, StoreFits', NEW p \in Players,
         p \in DOMAIN activeByPlayer' <=> p \in DOMAIN activeByPlayer,
         p \in DOMAIN activeByPlayer =>
           /\ activeByPlayer'[p] = activeByPlayer[p]
           /\ \A m \in Matches :
                activeByPlayer[p] \in Store!AssignedTo(m)' <=>
                  activeByPlayer[p] \in Store!AssignedTo(m)
  PROVE  Place(p)' = Place(p)
  BY PlaceIs, PlaceIsThen DEF PlacesFit

LEMMA PlacesStay ==
  ASSUME \A p \in Players : Place(p)' = Place(p), \A m \in Matches : Phase(m)' = Phase(m)
  PROVE  UNCHANGED Promise!vars
  BY DEF Promise!vars

\* A step that only stores a match is a stutter, or the match ends.
LEMMA StoringImplements ==
  ASSUME IInv, UNCHANGED storeVars,
         UNCHANGED matches \/ \E m \in Matches : \E y : Stores(m, y)
  PROVE  [Promise!Next]_(Promise!vars)
<1>1. /\ StoreFits /\ StoreFits' /\ UNCHANGED activeByPlayer
      /\ \A n \in Matches : Store!AssignedTo(n)' = Store!AssignedTo(n)
  BY StoreStill DEF IInv, storeVars, Untouched
<1>2. \A p \in Players : Place(p)' = Place(p)
  BY <1>1, PlaceKept
<1>3. CASE UNCHANGED matches
  <2>1. \A n \in Matches : Phase(n)' = Phase(n)
    BY <1>1, <1>3, PhaseKept DEF Over
  <2>2. QED
    BY <1>2, <2>1, PlacesStay
<1>4. ASSUME NEW m \in Matches, NEW y, Stores(m, y)
      PROVE  [Promise!Next]_(Promise!vars)
  <2>1. /\ m \in DOMAIN matches' /\ matches'[m] = y
        /\ \A n \in Matches \ {m} : n \in DOMAIN matches' <=> n \in DOMAIN matches
        /\ \A n \in DOMAIN matches \ {m} : matches'[n] = matches[n]
    BY <1>4 DEF Stores, Put
  <2>2. \A n \in Matches \ {m} : Phase(n)' = Phase(n)
    BY <1>1, <2>1, PhaseKept DEF Over
  <2>3. CASE y.state = "FINISHED"
    <3>1. m \in DOMAIN matches /\ matches[m].state = "RUNNING"
      BY <1>4, <2>3 DEF Stores, Transition
    <3>2. Store!AssignedTo(m) # {}
      <4>1. /\ Store!AssignedTo(m) = matches[m].roster
            /\ Cardinality(matches[m].roster) = MatchSize
        BY <3>1 DEF IInv, MatchFits, Open, FullRoster
      <4>2. QED
        BY <4>1, MatchSizeAssumption, FS_EmptySet
    <3>3. Phase(m) = "formed" /\ Phase(m)' = "over"
      BY <2>1, <2>3, <3>1, <3>2 DEF Phase, Over
    <3>4. Promise!End(m)
      BY <1>2, <2>2, <3>3 DEF Promise!End
    <3>5. QED
      BY <3>4 DEF Promise!Next
  <2>4. CASE y.state # "FINISHED"
    <3>1. ~Over(m) /\ ~Over(m)'
      BY <1>4, <2>1, <2>4 DEF Stores, Transition, Over
    <3>2. Phase(m)' = Phase(m)
      BY <1>1, <3>1, PhaseKept
    <3>3. QED
      BY <1>2, <2>2, <3>2, PlacesStay
  <2>5. QED
    BY <2>3, <2>4
<1>5. QED
  BY <1>3, <1>4

\* Reserving tickets, giving them back and losing the time to assign them is
\* waiting.
LEMMA WaitingImplements ==
  ASSUME IInv, StoreFits', UNCHANGED <<activeByPlayer, matches>>,
         \A n \in Matches : Store!AssignedTo(n)' = Store!AssignedTo(n)
  PROVE  UNCHANGED Promise!vars
<1>1. \A p \in Players : Place(p)' = Place(p)
  BY PlaceKept DEF IInv
<1>2. \A n \in Matches : Phase(n)' = Phase(n)
  BY PhaseKept DEF Over
<1>3. QED
  BY <1>1, <1>2, PlacesStay

\* A new ticket: its player was free and waits.
LEMMA CreateTicketImplements ==
  ASSUME IInv, NEW p \in Players, CreateTicket(p), UNCHANGED matches
  PROVE  [Promise!Next]_(Promise!vars)
<1>1. PICK t \in Tickets, k \in PoolKeys, key \in Keys : Store!CreateQueued(t, p, k, key)
  BY IdsAssumption DEF CreateTicket
<1>2. /\ StoreFits /\ StoreFits'
      /\ \A n \in Matches : Store!AssignedTo(n)' = Store!AssignedTo(n)
  BY CreateTicketTouches DEF IInv, Untouched
<1>3. /\ DOMAIN activeByPlayer' = DOMAIN activeByPlayer \cup {p} /\ activeByPlayer'[p] = t
      /\ \A q \in DOMAIN activeByPlayer \ {p} : activeByPlayer'[q] = activeByPlayer[q]
      /\ t \notin DOMAIN tickets
  BY <1>1 DEF Store!CreateQueued, Store!Put
<1>4. p \notin DOMAIN activeByPlayer
  BY <1>1, <1>2 DEF Store!CreateQueued, Store!MayQueue, Store!IsActive, StoreFits,
     StoreProofs!IInv, StoreProofs!ActiveIndexAgreement, StoreProofs!IsActive
<1>5. \A n \in Matches : t \notin Store!AssignedTo(n)'
  BY <1>2, <1>3 DEF Store!AssignedTo
<1>6. Place(p) = "free" /\ Place(p)' = "waiting"
  BY <1>2, <1>3, <1>4, <1>5, PlaceIs, PlaceIsThen DEF PlacesFit
<1>7. \A q \in Players \ {p} : Place(q)' = Place(q)
  BY <1>2, <1>3, PlaceKept
<1>8. \A n \in Matches : Phase(n)' = Phase(n)
  BY <1>2, PhaseKept DEF Over
<1>9. Promise!Enter(p)
  BY <1>6, <1>7, <1>8 DEF Promise!Enter, Promise!Move
<1>10. QED
  BY <1>9 DEF Promise!Next

\* A cancelled ticket: its player waited and is free, unless it was cancelled
\* before.
LEMMA CancelImplements ==
  ASSUME IInv, NEW t \in Tickets, NEW p \in Players, NEW key \in Store!CancelKeys,
         Store!Cancel(t, p, key), UNCHANGED matches
  PROVE  [Promise!Next]_(Promise!vars)
<1>1. /\ StoreFits /\ StoreFits'
      /\ \A n \in Matches : Store!AssignedTo(n)' = Store!AssignedTo(n)
  BY CancelTouches DEF IInv, Untouched
<1>2. /\ t \in DOMAIN tickets /\ tickets[t].player = p /\ tickets[t].state # "ASSIGNED"
      /\ activeByPlayer' = Store!ForgetActive({t})
  BY DEF Store!Cancel, Store!CancelAllowed, Store!CanCancel
<1>3. \A q \in DOMAIN activeByPlayer : activeByPlayer[q] = t => q = p
  BY <1>1, <1>2 DEF StoreFits, StoreProofs!IInv, StoreProofs!ActiveIndexAgreement
<1>4. \A q \in Players :
        /\ q \in DOMAIN activeByPlayer' <=>
             q \in DOMAIN activeByPlayer /\ activeByPlayer[q] # t
        /\ q \in DOMAIN activeByPlayer' => activeByPlayer'[q] = activeByPlayer[q]
  BY <1>2 DEF Store!ForgetActive, Store!Restrict
<1>5. \A q \in Players \ {p} : Place(q)' = Place(q)
  BY <1>1, <1>3, <1>4, PlaceKept
<1>6. \A n \in Matches : Phase(n)' = Phase(n)
  BY <1>1, PhaseKept DEF Over
<1>7. CASE p \in DOMAIN activeByPlayer /\ activeByPlayer[p] = t
  <2>1. \A n \in Matches : t \notin Store!AssignedTo(n)
    BY <1>2 DEF Store!AssignedTo
  <2>2. Place(p) = "waiting" /\ Place(p)' = "free"
    BY <1>1, <1>4, <1>7, <2>1, PlaceIs, PlaceIsThen DEF PlacesFit
  <2>3. Promise!Leave(p)
    BY <1>5, <1>6, <2>2 DEF Promise!Leave, Promise!Move
  <2>4. QED
    BY <2>3 DEF Promise!Next
<1>8. CASE ~(p \in DOMAIN activeByPlayer /\ activeByPlayer[p] = t)
  <2>1. Place(p)' = Place(p)
    BY <1>1, <1>4, <1>8, PlaceKept
  <2>2. QED
    BY <1>5, <1>6, <2>1, PlacesStay
<1>9. QED
  BY <1>7, <1>8

\* The assignment: a full match of waiting players is formed at once.
LEMMA AssignTicketsImplements ==
  ASSUME IInv, NEW w \in Workers, AssignTickets(w)
  PROVE  [Promise!Next]_(Promise!vars)
<1>1. /\ worker[w].pc = "assign" /\ UNCHANGED matches
      /\ Store!AssignAll(worker[w].match, worker[w].match)
  BY DEF AssignTickets, At
<1>2. PICK m \in Matches : m = worker[w].match
  BY <1>1, OwnAttempt DEF Making
<1>3. PICK S \in SUBSET Tickets : S = worker[w].picked
  BY <1>1, OwnAttempt DEF Making
<1>4. /\ FullRoster(S) /\ matches[m] = Moved(NewMatch(S), "ALLOCATING")
      /\ m \in DOMAIN reservations => reservations[m] = S
      /\ Store!AssignedTo(m) = {}
  BY <1>1, <1>2, <1>3 DEF IInv, WorkerFits, Making, AllocatingCopy
<1>5. /\ StoreFits /\ StoreFits' /\ TicketsStay
      /\ \A n \in Matches : n # m => Store!AssignedTo(n)' = Store!AssignedTo(n)
      /\ Store!AssignedTo(m)' = S /\ Store!Blocking(m)' = S
  BY <1>1, <1>2, <1>4, AssignAllTouches DEF IInv, Untouched
<1>6. UNCHANGED activeByPlayer
  BY <1>1 DEF Store!AssignAll
<1> DEFINE P == {tickets[t].player : t \in S}
<1>7. P \in SUBSET Players /\ Cardinality(P) = MatchSize
  <2>1. \A t \in DOMAIN tickets : tickets[t].player \in Players
    BY <1>5 DEF StoreFits, StoreProofs!IInv, StoreProofs!TypeOK, StoreProofs!IsMap,
       StoreProofs!Ticket
  <2>2. QED
    BY <1>4, <1>5, <2>1, PlayersOfFullRoster DEF FullRoster
<1>8. \A t \in S, n \in Matches : t \notin Store!AssignedTo(n)
  BY <1>4, <1>5 DEF Store!AssignedTo
<1>9. ASSUME NEW p \in P PROVE Place(p) = "waiting" /\ Place(p)' = m
  <2>1. PICK t \in S : p = tickets[t].player
    OBVIOUS
  <2>2. p \in DOMAIN activeByPlayer /\ activeByPlayer[p] = t
    <3>1. t \in DOMAIN tickets /\ tickets'[t].player = p
      BY <1>4, <1>5, <2>1 DEF FullRoster, TicketsStay
    <3>2. t \in Store!Blocking(m)'
      BY <1>5
    <3>3. QED
      BY <1>6, <3>1, <3>2 DEF Store!Blocking
  <2>3. p \in Players
    BY <1>7
  <2>4. QED
    BY <1>5, <1>6, <1>8, <2>2, <2>3, PlaceIs, PlaceIsThen DEF PlacesFit
<1>10. ASSUME NEW p \in Players, p \notin P PROVE Place(p)' = Place(p)
  <2>1. p \in DOMAIN activeByPlayer => activeByPlayer[p] \notin S
    BY <1>5, <1>10 DEF StoreFits, StoreProofs!IInv, StoreProofs!ActiveIndexAgreement
  <2>2. QED
    BY <1>4, <1>5, <1>6, <2>1, PlaceKept
<1>11. Phase(m) = "unused" /\ Phase(m)' = "formed"
  <2>1. ~Over(m) /\ ~Over(m)'
    BY <1>1, <1>4, MatchValues DEF Over
  <2>2. S # {}
    BY <1>4, MatchSizeAssumption, FS_EmptySet DEF FullRoster
  <2>3. QED
    BY <1>4, <1>5, <2>1, <2>2 DEF Phase
<1>12. \A n \in Matches \ {m} : Phase(n)' = Phase(n)
  BY <1>1, <1>5, PhaseKept DEF Over
<1> HIDE DEF P
<1>13. Promise!Form(m, P)
  <2>1. [n \in Matches |-> Phase(n)]' = [[n \in Matches |-> Phase(n)] EXCEPT ![m] = "formed"]
    BY <1>11, <1>12
  <2>2. Promise!Move(P, m)
    BY <1>7, <1>9, <1>10 DEF Promise!Move
  <2>3. \A p \in P : [q \in Players |-> Place(q)][p] = "waiting"
    BY <1>7, <1>9
  <2>4. [n \in Matches |-> Phase(n)][m] = "unused"
    BY <1>11
  <2>5. Promise!Cardinality(P) = Cardinality(P)
    BY DEF Promise!Cardinality, Promise!IsFiniteSet, Cardinality, IsFiniteSet
  <2>6. QED
    BY <1>7, <2>1, <2>2, <2>3, <2>4, <2>5 DEF Promise!Form
<1>14. QED
  BY <1>7, <1>13 DEF Promise!Next

\* The completion: the players of a match that is over are free at once.
LEMMA CompleteTicketsImplements ==
  ASSUME IInv, NEW c \in Callers, CompleteTickets(c)
  PROVE  [Promise!Next]_(Promise!vars)
<1>1. /\ InCall(c, "completeTickets") /\ UNCHANGED matches
      /\ Store!CompleteAssignedTickets(call[c].match)
  BY DEF CompleteTickets
<1>2. PICK m \in Matches : m = call[c].match /\ m \in DOMAIN matches
  BY <1>1, CalledMatch DEF InCall
<1>3. matches[m].state = "FINISHED"
  BY <1>1, <1>2 DEF IInv, CallFits, InCall
<1>4. /\ StoreFits /\ StoreFits' /\ UNCHANGED tickets
      /\ \A n \in Matches : Store!AssignedTo(n)' = Store!AssignedTo(n)
  BY <1>1, <1>2, CompletionTouches DEF IInv, Store!AssignedTo
<1>5. \A q \in Players :
        /\ q \in DOMAIN activeByPlayer' <=>
             q \in DOMAIN activeByPlayer /\ activeByPlayer[q] \notin Store!AssignedTo(m)
        /\ q \in DOMAIN activeByPlayer' => activeByPlayer'[q] = activeByPlayer[q]
  BY <1>1, <1>2 DEF Store!CompleteAssignedTickets, Store!ForgetActive, Store!Restrict
<1>6. Phase(m) = "over" /\ \A n \in Matches : Phase(n)' = Phase(n)
  BY <1>1, <1>2, <1>3, <1>4, PhaseKept DEF Phase, Over
<1>7. ASSUME NEW p \in Players, Place(p) = m PROVE Place(p)' = "free"
  <2>1. p \in DOMAIN activeByPlayer /\ activeByPlayer[p] \in Store!AssignedTo(m)
    BY <1>4, <1>7, PlaceIs, MatchIdsAssumption DEF PlacesFit
  <2>2. QED
    BY <1>4, <1>5, <2>1, PlaceIsThen DEF PlacesFit
<1>8. ASSUME NEW p \in Players, Place(p) # m PROVE Place(p)' = Place(p)
  <2>1. p \in DOMAIN activeByPlayer => activeByPlayer[p] \notin Store!AssignedTo(m)
    BY <1>4, <1>8, PlaceIs DEF PlacesFit
  <2>2. QED
    BY <1>4, <1>5, <2>1, PlaceKept
<1>9. Promise!Free(m)
  BY <1>6, <1>7, <1>8 DEF Promise!Free, Promise!Move
<1>10. QED
  BY <1>9 DEF Promise!Next

\* Initially every player is free and no match has been used.
LEMMA InitImplements == Init => Promise!Init
<1> SUFFICES ASSUME Init PROVE Promise!Init
  OBVIOUS
<1>1. /\ DOMAIN tickets = {} /\ DOMAIN activeByPlayer = {} /\ DOMAIN matches = {}
  <2>1. tickets = << >> /\ activeByPlayer = << >> /\ matches = << >>
    BY DEF Init, BackendsInit, Store!Init
  <2>2. QED
    BY <2>1
<1>2. \A p \in Players : Place(p) = "free"
  BY <1>1 DEF Place
<1>3. \A m \in Matches : Phase(m) = "unused"
  BY <1>1 DEF Phase, Over, Store!AssignedTo
<1>4. QED
  BY <1>2, <1>3 DEF Promise!Init

LEMMA WorkerStepImplements ==
  ASSUME IInv, NEW w \in Workers, WorkerStep(w)
  PROVE  [Promise!Next]_(Promise!vars)
<1>1. UNCHANGED matches \/ \E m \in Matches : \E y : Stores(m, y)
  BY WorkerStores
<1>2. CASE RecoverReservations(w)
  <2>1. /\ StoreFits' /\ UNCHANGED <<activeByPlayer, matches>>
        /\ \A n \in Matches : Store!AssignedTo(n)' = Store!AssignedTo(n)
    BY <1>2, RecoveryTouches DEF RecoverReservations, Store!RecoverExpiredReservations, Untouched
  <2>2. QED
    BY <2>1, WaitingImplements
<1>3. CASE CancelDropped(w, "cancel") \/ CancelDropped(w, "recancel")
  <2>1. PICK t \in worker[w].dropped :
          \/ Store!Cancel(t, tickets[t].player, Store!SystemKey(t))
          \/ UNCHANGED storeVars
    BY <1>3 DEF CancelDropped
  <2>2. t \in Tickets /\ UNCHANGED matches
    BY <1>3 DEF CancelDropped, IInv, WorkerState
  <2>3. CASE Store!Cancel(t, tickets[t].player, Store!SystemKey(t))
    <3>1. tickets[t].player \in Players
      BY <2>3 DEF Store!Cancel, Store!CancelAllowed, IInv, StoreFits, StoreProofs!IInv,
         StoreProofs!TypeOK, StoreProofs!IsMap, StoreProofs!Ticket
    <3>2. Store!SystemKey(t) \in Store!CancelKeys
      BY <2>2 DEF Store!CancelKeys
    <3>3. QED
      BY <2>2, <2>3, <3>1, <3>2, CancelImplements
  <2>4. CASE UNCHANGED storeVars
    BY <2>2, <2>4, StoringImplements
  <2>5. QED
    BY <2>1, <2>3, <2>4
<1>4. CASE ReserveFormation(w)
  <2>1. /\ worker[w].pc = "reserve" /\ UNCHANGED matches
        /\ Store!ReserveAll(worker[w].picked, worker[w].match)
    BY <1>4 DEF ReserveFormation, At
  <2>2. PICK m \in Matches : m = worker[w].match
    BY <2>1, OwnAttempt DEF Checking
  <2>3. PICK S \in SUBSET Tickets : S = worker[w].picked
    BY <2>1, OwnAttempt DEF Checking
  <2>4. /\ StoreFits' /\ UNCHANGED activeByPlayer
        /\ \A n \in Matches : Store!AssignedTo(n)' = Store!AssignedTo(n)
    BY <2>1, <2>2, <2>3, ReserveAllTouches DEF Store!ReserveAll, Untouched
  <2>5. QED
    BY <2>1, <2>4, WaitingImplements
<1>5. CASE ReleaseTickets(w)
  <2>1. /\ worker[w].pc = "releaseTickets" /\ UNCHANGED matches
        /\ Store!ReleaseAll(worker[w].match) \/ UNCHANGED storeVars
    BY <1>5 DEF ReleaseTickets, At
  <2>2. PICK m \in Matches : m = worker[w].match
    BY <2>1, OwnAttempt DEF Making
  <2>3. CASE Store!ReleaseAll(m)
    <3>1. /\ StoreFits' /\ UNCHANGED activeByPlayer
          /\ \A n \in Matches : Store!AssignedTo(n)' = Store!AssignedTo(n)
      BY <2>3, ReleaseAllTouches DEF Store!ReleaseAll, Untouched
    <3>2. QED
      BY <2>1, <3>1, WaitingImplements
  <2>4. CASE UNCHANGED storeVars
    BY <2>1, <2>4, StoringImplements
  <2>5. QED
    BY <2>1, <2>2, <2>3, <2>4
<1>6. CASE UNCHANGED storeVars
  BY <1>1, <1>6, StoringImplements
<1>7. QED
  BY <1>2, <1>3, <1>4, <1>5, <1>6, AssignTicketsImplements
  DEF WorkerStep, ListPools, Snapshot, Filter, FilterFails, FilterDone, SelectFormation,
     NoFormation, RecheckDone, ReservationConflict, CreateMatch, StartAllocation,
     AllocateServer, NoServerCapacity, AssignmentConflict, PublishMatch, ReleaseServer,
     FailMatch

LEMMA RequestImplements ==
  ASSUME IInv, NEW c \in Callers, Request(c) \/ CallStep(c) \/ AbortCall(c)
  PROVE  [Promise!Next]_(Promise!vars)
<1>1. UNCHANGED matches \/ \E m \in Matches : \E y : Stores(m, y)
  BY CallStores
<1>2. CASE UNCHANGED storeVars
  BY <1>1, <1>2, StoringImplements
<1>3. QED
  BY <1>2, CompleteTicketsImplements
  DEF Request, CallStep, AbortCall, StartMatch, CompleteFinished, CompleteMatch,
     StoreStarted, StoreCompleted, ResolveCompletionConflict, ReleaseMatchServer

LEMMA StepImplements == IInv /\ [Next]_vars => [Promise!Next]_(Promise!vars)
<1> SUFFICES ASSUME IInv, [Next]_vars PROVE [Promise!Next]_(Promise!vars)
  OBVIOUS
<1>1. CASE UNCHANGED vars
  BY <1>1, StoringImplements DEF vars
<1>2. CASE Next
  <2>1. ASSUME NEW p \in Players, CreateTicket(p) \/ CancelTicket(p), UNCHANGED matches
        PROVE  [Promise!Next]_(Promise!vars)
    <3>1. CASE CreateTicket(p)
      BY <2>1, <3>1, CreateTicketImplements
    <3>2. CASE CancelTicket(p)
      <4>1. PICK t \in Tickets, key \in Keys : Store!Cancel(t, p, key)
        BY <3>2 DEF CancelTicket
      <4>2. key \in Store!CancelKeys
        BY DEF Store!CancelKeys
      <4>3. QED
        BY <2>1, <4>1, <4>2, CancelImplements
    <3>3. QED
      BY <2>1, <3>1, <3>2
  <2>2. CASE UNCHANGED <<storeVars, matches>>
    BY <2>2, StoringImplements
  <2>3. ASSUME NEW r \in Matches, Store!Lapse(r), UNCHANGED matches
        PROVE  [Promise!Next]_(Promise!vars)
    <3>1. /\ StoreFits' /\ UNCHANGED activeByPlayer
          /\ \A n \in Matches : Store!AssignedTo(n)' = Store!AssignedTo(n)
      BY <2>3, LapseTouches DEF Store!Lapse, Untouched
    <3>2. QED
      BY <2>3, <3>1, WaitingImplements
  <2>4. CASE \E w \in Workers : WorkerStep(w) /\ UNCHANGED call
    BY <2>4, WorkerStepImplements
  <2>5. CASE \E c \in Callers :
               /\ Request(c) \/ CallStep(c) \/ AbortCall(c)
               /\ UNCHANGED <<banned, worker>>
    BY <2>5, RequestImplements
  <2>6. QED
    BY <1>2, <2>1, <2>2, <2>3, <2>4, <2>5 DEF Next
<1>3. QED
  BY <1>1, <1>2

\* Tickets, reservations, workers and servers together do what is promised:
\* players enter matches MatchSize at a time, all at once, and leave them
\* together, only after the result.
THEOREM ServiceImplementsPromise == Spec => ImplementsAssignment
  BY InitImplements, InvariantHolds, StepImplements, PTL
  DEF Spec, ImplementsAssignment, Promise!Spec
===============================================================================
