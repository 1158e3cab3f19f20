-------------------------------- MODULE Engine --------------------------------
(***************************************************************************)
(* What the matching engine computes from the tickets of one pool at one   *)
(* moment (internal/matchmaking/engine): the candidates around the ticket  *)
(* that waits longest, the greedy and the beam search for two teams, and   *)
(* the quality of a match.  The module has no state: a worker instantiates *)
(* it with its queue (PoolMatching.tla), a replay with the tickets of an   *)
(* earlier match (MatchAnalysis.tla).                                      *)
(*                                                                         *)
(* The arithmetic is that of the program on whole numbers; the Elo curve   *)
(* of the skill score is replaced by a straight line of its slope.  Among  *)
(* equally good teams any is taken.  In the heuristic of the beam search   *)
(* the spread of the ratings stands for their deviation.                   *)
(***************************************************************************)
EXTENDS FiniteSetsExt, GoMaps, Integers, Sequences

CONSTANTS
  Player, Party,  \* ticket -> its player, its party or None
  Rating,         \* ticket -> rating
  Latency,        \* ticket -> region -> milliseconds
  Prefers,        \* ticket -> sequence of roles
  Roles,
  Home,           \* the region of the pool
  TeamSize,
  SnapshotLimit,  \* tickets that are read at most
  None,
  Policy,         \* the policy in force, fitted to the mode of the pool
  queue,          \* tickets that wait -> the time of their creation
  now

Target == 2 * TeamSize

-----------------------------------------------------------------------------
(* Candidates *)

Older(t, u) == queue[t] < queue[u] \/ (queue[t] = queue[u] /\ t <= u)

\* The position of a ticket in a set of them, the oldest first.
Place(t, S) == Cardinality({u \in S : Older(u, t)})

\* QueueSnapshot: the tickets that wait longest.
Snapshot == {t \in DOMAIN queue : Place(t, DOMAIN queue) <= SnapshotLimit}

\* The ticket that waits longest: the first of the snapshot.
Anchor == CHOOSE t \in DOMAIN queue : Place(t, DOMAIN queue) = 1

Wait(t) == now - queue[t]

\* A window grows from its first value up to a bound while the anchor waits.
Widened(first, step, bound) == Min({bound, first + step * Wait(Anchor)})

RatingRange == Widened(Policy.initialRange, Policy.rangeStep, Policy.maxRange)

LatencyLimit == Widened(Policy.initialLatency, Policy.latencyStep, Policy.maxLatency)

\* Fault: tickets are taken one by one.
Fault_GroupOf(t, S) == {t}

\* A party is one group; a ticket without a party is one by itself.
GroupOf(t, S) ==
  {t} \cup {u \in S : Party[u] # None /\ Party[u] = Party[t]}

\* The oldest tickets of the groups of S.
Leaders(S) == {t \in S : \A u \in GroupOf(t, S) : Older(t, u)}

\* The groups of a set of tickets, by their oldest tickets.
GroupsOf(S) ==
  [i \in 1..Cardinality(Leaders(S)) |->
     GroupOf(CHOOSE t \in Leaders(S) : Place(t, Leaders(S)) = i, S)]

Distance(x, y) == IF x < y THEN y - x ELSE x - y

InWindows(t) ==
  /\ Latency[t][Home] <= Policy.maxLatency
  /\ Latency[t][Home] <= LatencyLimit
  /\ Distance(Rating[t], Rating[Anchor]) <= RatingRange

\* One ticket outside the windows rejects its whole group, and so does a
\* player who has two tickets among those read.
Accepts(group, S) ==
  \A t \in group :
    /\ InWindows(t)
    /\ \A u \in S : Player[u] = Player[t] => u = t

Size(groups) == Cardinality(UNION groups)

\* GenerateCandidates: the groups accepted, as many as the limit allows.
Added(taken, group, S) ==
  IF /\ Accepts(group, S)
     /\ Size(Range(taken)) + Cardinality(group) <= Policy.candidateLimit
  THEN Append(taken, group) ELSE taken

CandidatesOf(S) ==
  LET groups == GroupsOf(S)
      taken[i \in 0..Len(groups)] ==
        IF i = 0 THEN << >> ELSE Added(taken[i - 1], groups[i], S)
  IN  taken[Len(groups)]

Candidates == CandidatesOf(Snapshot)

EnoughPlayers(groups) == Size(Range(groups)) >= Target

-----------------------------------------------------------------------------
(* Teams *)

\* The splits of a set of groups into two full teams, first in the first.
Splits(groups, first) ==
  {f \in {[teamA |-> UNION A, teamB |-> UNION (groups \ A)] : A \in SUBSET groups} :
     /\ first \subseteq f.teamA
     /\ Cardinality(f.teamA) = TeamSize /\ Cardinality(f.teamB) = TeamSize}

Total(f, S) == SumFunctionOnSet(f, S)

Clamped(score) == Max({0, Min({100, score})})

\* NonPreferredRoleScore: after a while any role is better than none.
NonPreferredRoleScore(wait) ==
  Max({0, Min({Policy.maxRelaxed, Policy.relaxStep * (wait - Policy.relaxAfter)})})

\* rolePreferenceScore.
RoleScore(t, role) ==
  LET places == {i \in DOMAIN Prefers[t] : Prefers[t][i] = role} IN
  CASE places = {}  -> NonPreferredRoleScore(Wait(t))
    [] 1 \in places -> 100
    [] 2 \in places -> 70
    [] OTHER        -> 50

\* buildAssignedTeam: the best way to give each member a role of its own.
TeamRoleScore(team) ==
  LET assignments == {a \in [team -> Roles] : IsInjective(a)} IN
  Max({Total([t \in team |-> RoleScore(t, a[t])], team) : a \in assignments})
    \div TeamSize

\* A difference of 100 in the average rating costs 29 points.
SkillScore(f) ==
  Clamped(100 - (29 * Distance(Total(Rating, f.teamA), Total(Rating, f.teamB)))
                  \div (100 * TeamSize))

LatencyScore(f, region) ==
  LET ms == [t \in f.teamA \cup f.teamB |-> Latency[t][region]]
      slowest == Max(Range(ms))
  IN  IF slowest > Policy.maxLatency THEN 0
      ELSE Clamped(100 - (70 * Total(ms, DOMAIN ms)) \div (Target * Policy.maxLatency)
                       - (30 * slowest) \div Policy.maxLatency)

PartiesOfSize(team, n) ==
  Cardinality({g \in {GroupOf(t, team) : t \in team} : Cardinality(g) = n})

PartyScore(f) ==
  Clamped(100 - 10 * Total([n \in 1..TeamSize |->
    Distance(PartiesOfSize(f.teamA, n), PartiesOfSize(f.teamB, n))], 1..TeamSize))

WaitScore(f) ==
  LET waits == [t \in f.teamA \cup f.teamB |-> Wait(t)] IN
  Clamped(100 - (100 * Total(waits, DOMAIN waits)) \div (Target * Policy.ticketTTL))

\* EvaluateQuality; the total in hundredths of a point.
Quality(f, region) ==
  LET skill == SkillScore(f)
      role == (TeamRoleScore(f.teamA) + TeamRoleScore(f.teamB)) \div 2
      latency == LatencyScore(f, region)
  IN  [skill |-> skill, role |-> role, latency |-> latency,
       total |-> Policy.skillWeight * skill + Policy.roleWeight * role
                   + Policy.latencyWeight * latency
                   + Policy.partyWeight * PartyScore(f)
                   + Policy.waitWeight * WaitScore(f)]

\* Fault: a group is only added to the largest set found so far.
Fault_Extended(sets, group) ==
  LET n == Max(DOMAIN sets) IN
  IF n + Cardinality(group) > Target THEN sets
  ELSE Put(sets, n + Cardinality(group), sets[n] \cup {group})

\* selectTenPlayers, one group: sets[n] is the first set of n players found.
Extended(sets, group) ==
  LET g == Cardinality(group)
      sizes == {n + g : n \in DOMAIN sets}
  IN  [n \in DOMAIN sets \cup {n \in sizes : n <= Target} |->
         IF n \in DOMAIN sets THEN sets[n] ELSE sets[n - g] \cup {group}]

\* selectTenPlayers: the groups for a match, none when no set has its size.
SelectedGroups(groups) ==
  LET first == [n \in {Cardinality(groups[1])} |-> {groups[1]}]
      sets[i \in 1..Len(groups)] ==
        IF i = 1 THEN first ELSE Extended(sets[i - 1], groups[i])
      last == sets[Len(groups)]
  IN  IF Cardinality(groups[1]) <= Target /\ Target \in DOMAIN last
      THEN last[Target] ELSE {}

\* The splits of F for which the cost is the least.
Best(F, Cost(_)) ==
  LET cost == [f \in F |-> Cost(f)] IN
  {f \in F : cost[f] = Min(Range(cost))}

\* formTeamsGreedy: the fairest split of the one set selected.  Without the
\* anchor among the candidates there is none.
Greedy(groups) ==
  LET Unfairness(f) == Distance(Total(Rating, f.teamA), Total(Rating, f.teamB)) IN
  IF EnoughPlayers(groups) /\ Anchor \in groups[1]
  THEN Best(Splits(SelectedGroups(groups), groups[1]), Unfairness)
  ELSE {}

\* Fault: a set is given up when the players left just suffice.
Fault_SuffixSuffices(players, left) == players + left > Target

\* The players of the groups that follow can still complete a set.
SuffixSuffices(players, left) == players + left >= Target

\* subsetHeuristic, in tenths of a point, when done of the groups have been seen.
Heuristic(S, done, groups) ==
  LET tickets == UNION S
      ratings == {Rating[t] : t \in tickets}
      ages == [i \in DOMAIN groups |->
                 IF groups[i] \in S THEN (i - 1) * Cardinality(groups[i]) ELSE 0]
      expected == Max({Cardinality(groups[1]),
                       (2 * done * Target + Len(groups)) \div (2 * Len(groups))})
  IN  1500 * Cardinality(UNION {Range(Prefers[t]) : t \in tickets})
        - 4 * (Max(ratings) - Min(ratings))
        - 2 * Total(ages, DOMAIN ages)
        - 300 * Distance(Cardinality(tickets), expected)

\* The order of two signatures, those of the sets of tickets X and Y: the
\* first ticket that only one of them has decides, unless the other ends there.
SignatureBefore(X, Y) ==
  LET t == Min((X \ Y) \cup (Y \ X))
  IN  IF t \in X THEN \E u \in Y : u > t ELSE \A u \in X : u < t

\* The BeamWidth best sets when done of the groups have been seen.
Cut(sets, done, groups) ==
  LET score == [S \in sets |-> Heuristic(S, done, groups)]
      Better(S, T) ==
        /\ S # T
        /\ \/ score[S] > score[T]
           \/ score[S] = score[T] /\ SignatureBefore(UNION S, UNION T)
  IN  {S \in sets : Cardinality({T \in sets : Better(T, S)}) < Policy.beamWidth}

\* beamCandidateSets, the i-th group: each set goes on without the group, if
\* the players that follow can complete it, and with it, if it fits.
NextBeam(beam, i, groups) ==
  LET left == Size({groups[j] : j \in (i + 1)..Len(groups)})
      fitting == {S \in beam : Size(S) + Cardinality(groups[i]) <= Target}
  IN  Cut({S \in beam : SuffixSuffices(Size(S), left)}
            \cup {S \cup {groups[i]} : S \in fitting}, i, groups)

BeamSets(groups) ==
  LET beam[i \in 1..Len(groups)] ==
        IF i = 1 THEN {{groups[1]}} ELSE NextBeam(beam[i - 1], i, groups)
  IN  IF Cardinality(groups[1]) > TeamSize THEN {}
      ELSE {S \in beam[Len(groups)] : Size(S) = Target}

\* The best splits of all the sets.  A group that comes first because that of
\* the anchor was rejected will do.
Beam(groups, region) ==
  LET Loss(f) == -Quality(f, region).total IN
  IF EnoughPlayers(groups)
  THEN Best(UNION {Splits(S, groups[1]) : S \in BeamSets(groups)}, Loss)
  ELSE {}

OptimizeTeams(groups, region) ==
  IF Policy.algorithm = "greedy" THEN Greedy(groups) ELSE Beam(groups, region)
=============================================================================
