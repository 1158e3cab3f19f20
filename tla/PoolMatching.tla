---------------------------- MODULE PoolMatching -----------------------------
(***************************************************************************)
(* How the tickets of one pool become a match while they wait: what        *)
(* worker.go and region_selector.go make of the teams that the engine      *)
(* finds (Engine.tla), and the history of the matches that ended.          *)
(*                                                                         *)
(* Among the suitable regions, which the program compares by latency and   *)
(* free servers, any is taken.  A player may have two tickets here: the    *)
(* stores allow one, but Redis keeps a ticket whose removal failed         *)
(* (RedisStore.tla).                                                       *)
(***************************************************************************)
EXTENDS FiniteSetsExt, GoMaps, Integers, Policies, Sequences

CONSTANTS
  Tickets,        \* ticket ids; of two created at once the smaller comes first
  Player, Party,  \* ticket -> its player, its party or None
  Rating,         \* ticket -> rating
  Latency,        \* ticket -> region -> milliseconds
  Prefers,        \* ticket -> sequence of roles
  Roles,
  Regions,        \* regions with a free server
  Home,           \* the region of the pool
  Mode,           \* the game mode of the pool
  BasePolicies,   \* the policies an experiment chooses from
  Past,           \* earlier matches, of other tickets
  SnapshotLimit,  \* tickets QueueSnapshot reads
  MaxTime,        \* bound on the clock
  None

\* All the tickets there are, those of the earlier matches included.
Everyone == Tickets \cup UNION {DOMAIN h.match.created : h \in Past}

ASSUME TicketsAssumption == Everyone \subseteq Nat /\ IsFiniteSet(Everyone)
ASSUME HomeAssumption == Home \in Regions
ASSUME TeamSizeAssumption == TeamSize \in Nat \ {0}
ASSUME RatingAssumption == \A t \in Everyone : Rating[t] \in Int
\* A region that a player has not measured is further away than any limit.
ASSUME LatencyAssumption ==
  \A t \in Everyone, region \in Regions : Latency[t][region] \in Int
\* Matches are stored with what a replay needs.
ASSUME PastAssumption ==
  /\ IsFiniteSet(Past)
  /\ \A h \in Past :
       /\ h.match.created \in [DOMAIN h.match.created -> Int]
       /\ h.match.at \in Int /\ h.match.region \in Regions
       /\ h.match.quality \in [skill : Int, role : Int, latency : Int, total : Int]
ASSUME SnapshotAssumption == SnapshotLimit \in Nat
\* Every member of a team can have a role of its own.
ASSUME RolesAssumption == IsFiniteSet(Roles) /\ TeamSize <= Cardinality(Roles)
ASSUME PolicyAssumption == Mode \in Modes /\ \A P \in BasePolicies : Valid(P)

VARIABLES
  queue,   \* tickets that wait -> the time of their creation
  now,
  formed,  \* the last match, and what it was made from
  history  \* the matches that are over

vars == <<queue, now, formed, history>>

\* The engine, on the tickets that wait since some times, at one moment and
\* under one policy.
Pool(view) ==
  INSTANCE Engine WITH
    queue <- view.created, now <- view.at, Policy <- ForMode(view.policy, Mode)

\* The pool as it is, under the policy that an experiment has chosen.
View(P) == [created |-> queue, at |-> now, policy |-> P]

Target == 2 * TeamSize

NoMatch == [teamA |-> {}, teamB |-> {}]

Init ==
  /\ queue = << >>
  /\ now = 0
  /\ formed = NoMatch
  /\ history = Past

-----------------------------------------------------------------------------
(* The pool *)

CreateTicket(t) ==
  /\ t \notin DOMAIN queue
  /\ t \notin formed.teamA \cup formed.teamB
  /\ queue' = Put(queue, t, now)
  /\ UNCHANGED <<now, formed, history>>

CancelTicket(t) ==
  /\ t \in DOMAIN queue
  /\ queue' = Delete(queue, t)
  /\ UNCHANGED <<now, formed, history>>

Tick ==
  /\ now < MaxTime
  /\ now' = now + 1
  /\ UNCHANGED <<queue, formed, history>>

\* scoreServerRegion: everybody reaches the region within the window.
Eligible(f, region, P) ==
  \A t \in f.teamA \cup f.teamB :
    /\ Latency[t][region] <= Pool(View(P))!LatencyLimit
    /\ Latency[t][region] <= ForMode(P, Mode).maxLatency

\* tryPool.
FormMatch(region, P) ==
  LET view == View(P) IN
  /\ Cardinality(Pool(view)!Snapshot) >= Target
  /\ \E f \in Pool(view)!OptimizeTeams(Pool(view)!Candidates, region) :
       LET tickets == f.teamA \cup f.teamB
           quality == Pool(view)!Quality(f, region)
       IN  /\ Eligible(f, region, P)
           /\ quality.total >= 100 * ForMode(P, Mode).minQuality
           /\ formed' = [teamA |-> f.teamA, teamB |-> f.teamB, region |-> region,
                         policy |-> P, quality |-> quality, at |-> now,
                         created |-> Restrict(queue, tickets),
                         anchor |-> Pool(view)!Anchor,
                         snapshot |-> Pool(view)!Snapshot]
           /\ queue' = DeleteAll(queue, tickets)
  /\ UNCHANGED <<now, history>>

\* CompleteMatch; a match is uneven when it was one-sided, or when its result
\* was badly predicted.
FinishMatch(uneven) ==
  /\ formed # NoMatch
  /\ \A h \in history : h.match # formed
  /\ history' = history \cup {[match |-> formed, uneven |-> uneven]}
  /\ UNCHANGED <<queue, now, formed>>

Next ==
  \/ \E t \in Tickets : CreateTicket(t) \/ CancelTicket(t)
  \/ Tick
  \/ \E region \in Regions, P \in BasePolicies : FormMatch(region, P)
  \/ \E uneven \in BOOLEAN : FinishMatch(uneven)

Spec == Init /\ [][Next]_vars

-----------------------------------------------------------------------------
(* Properties *)

Matched == formed.teamA \cup formed.teamB

\* The members of a party among the tickets that were read play in one match
\* and in one team, or all wait on (REQUIREMENTS.md FR-CANDIDATE-004).  Of a
\* party that the limit of the snapshot cuts this is not true of the rest.
PartiesStayTogether ==
  formed # NoMatch =>
    \A t \in Matched, u \in formed.snapshot :
      Party[t] # None /\ Party[u] = Party[t] =>
        {t, u} \subseteq formed.teamA \/ {t, u} \subseteq formed.teamB

\* What waiting never relaxes, whatever region and algorithm were used: two
\* full teams of different players, none of them further from the ticket that
\* waits longest, or from the server, than the limits of the policy.
HardLimitsHold ==
  formed # NoMatch =>
    LET limits == ForMode(formed.policy, Mode) IN
    /\ \A team \in {formed.teamA, formed.teamB} : Cardinality(team) = TeamSize
    /\ Cardinality({Player[t] : t \in Matched}) = Target
    /\ \A t \in Matched :
         /\ Rating[t] - Rating[formed.anchor] \in (-limits.maxRange)..limits.maxRange
         /\ Latency[t][formed.region] <= limits.maxLatency

\* Whatever is formed is a match that the rules allow.
MatchIsLegal == PartiesStayTogether /\ HardLimitsHold

\* The sets of the groups, the first among them, that make a match.
FullSets(groups, view) ==
  {S \in SUBSET Range(groups) : groups[1] \in S /\ Pool(view)!Size(S) = Target}

Found(groups, view) == view.created # << >> /\ Pool(view)!EnoughPlayers(groups)

\* The greedy search finds a set of groups of the right size whenever there
\* is one, although it keeps a single set for each size.
SelectionIsComplete ==
  \A P \in BasePolicies :
    LET view == View(P)
        groups == Pool(view)!Candidates
        selected == Pool(view)!SelectedGroups(groups)
        full == FullSets(groups, view)
    IN  P.algorithm = "greedy" /\ Found(groups, view) =>
          IF full = {} THEN selected = {} ELSE selected \in full

\* As long as its width does not cut anything off, the beam search finds
\* teams whenever there are any, and none are better in the region, those of
\* the greedy search included: what it leaves out early could not be completed.
BeamIsOptimal ==
  \A P \in BasePolicies :
    LET view == View(P)
        groups == Pool(view)!Candidates
        sets == FullSets(groups, view)
        teams == (UNION {Pool(view)!Splits(S, groups[1]) : S \in sets})
                   \cup Pool(view)!Greedy(groups)
    IN  P.algorithm = "beam" /\ Found(groups, view) /\ 2^(Len(groups) - 1) <= P.beamWidth =>
          \A region \in Regions :
            LET Loss(f) == -Pool(view)!Quality(f, region).total
            IN  Pool(view)!Beam(groups, region) = Pool(view)!Best(teams, Loss)
=============================================================================
