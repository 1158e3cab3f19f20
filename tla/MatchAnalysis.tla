---------------------------- MODULE MatchAnalysis -----------------------------
(***************************************************************************)
(* What is learned from finished matches: the quality analysis and the     *)
(* replay of the matchmaking service (analysis_service.go), and the risk   *)
(* report that the agent makes of them for the policy it proposes          *)
(* (internal/agent/application/service.go).  All of it reads only: a match *)
(* that is over never changes, so these are functions of the history that  *)
(* PoolMatching keeps.                                                     *)
(*                                                                         *)
(* Averages are compared without divisions.  When several pairs of teams   *)
(* are equally good, a replay may find any of them.                        *)
(***************************************************************************)
EXTENDS PoolMatching

CONSTANTS
  SampleLimit,        \* matches an analysis looks at
  MinimumRiskSample   \* matches a report must have seen

-----------------------------------------------------------------------------
(* Quality analysis *)

\* ListFinished: the latest matches; those of one moment in any order.
Samples ==
  {S \in kSubset(Min({SampleLimit, Cardinality(history)}), history) :
     \A h \in S, g \in history \ S : h.match.at >= g.match.at}

\* averageObservations, times the size of the sample.
Baseline(S, score) == SumFunction([h \in S |-> h.match.quality[score]])

\* generateCandidatePolicy: what was wrong with the sample.
Uneven(S) == 100 * Cardinality({h \in S : h.uneven}) > 15 * Cardinality(S)
PoorRoles(S) == Baseline(S, "role") < 85 * Cardinality(S)
Slow(S) == Baseline(S, "latency") < 75 * Cardinality(S)

CandidateFor(base, S) ==
  IF S = {} THEN Candidate(base, FALSE, FALSE, FALSE)
  ELSE Candidate(base, Uneven(S), PoorRoles(S), Slow(S))

-----------------------------------------------------------------------------
(* Replay *)

\* Fault: the tickets are looked at now instead of when the match was made.
Fault_ReplayTime(match) == now

\* A replay puts the clock back.
ReplayTime(match) == match.at

\* rebuildQueuedTicket: the tickets of the match wait as they did.
Replay(match, P) ==
  [created |-> match.created, at |-> ReplayTime(match), policy |-> P]

\* ReplayHistoricalMatch: the teams that the policy would have made of the
\* tickets; there are none when it could not.  What tryPool asks beyond that,
\* the least quality and the windows of the region, a replay does not ask.
Outcomes(match, P) ==
  LET view == Replay(match, P)
  IN  Pool(view)!OptimizeTeams(Pool(view)!Candidates, match.region)

ReplayQualities(match, P) ==
  {Pool(Replay(match, P))!Quality(f, match.region) : f \in Outcomes(match, P)}

\* RunAnalysis: one replay of every match of the sample, None without teams.
Replays(S, P) ==
  LET found == [h \in S |-> ReplayQualities(h.match, P)] IN
  {r \in [S -> {None} \cup UNION Range(found)] :
     \A h \in S : IF found[h] = {} THEN r[h] = None ELSE r[h] \in found[h]}

-----------------------------------------------------------------------------
(* The risk report (assessRisk) *)

Replayed(S, r) == {h \in S : r[h] # None}

\* Fault: what could not be replayed is left out of the report.
Fault_ReplayComplete(S, r) == TRUE

ReplayComplete(S, r) == Replayed(S, r) = S

\* The mean of the replays is at most limit points below that of the matches.
NoWorse(S, r, score, limit) ==
  LET M == Replayed(S, r)
      n == Max({1, Cardinality(S)})
      k == Max({1, Cardinality(M)})
  IN  k * Baseline(S, score) - n * SumFunction([h \in M |-> r[h][score]]) <= limit * n * k

\* highRatingQualityDelta: the matches of a mean rating of 1800 or more.
HighRated(S) ==
  {h \in S :
     SumFunctionOnSet(Rating, h.match.teamA \cup h.match.teamB) >= 1800 * Target}

HighRatingHolds(S, r) ==
  LET H == HighRated(S) IN
  /\ H \subseteq Replayed(S, r)
  /\ SumFunction([h \in H |-> r[h].total - h.match.quality.total]) >= -300 * Cardinality(H)

Passes(P, S, r) ==
  /\ ReplayComplete(S, r)
  /\ NoWorse(S, r, "skill", 2)
  /\ P.maxLatency <= 250 /\ NoWorse(S, r, "latency", 5)
  /\ NoWorse(S, r, "role", 5)
  /\ Cardinality(S) >= MinimumRiskSample
  /\ HighRatingHolds(S, r)

-----------------------------------------------------------------------------
(* Properties *)

\* A replay under the policy that made a match finds the teams that were made,
\* by beam search with the same total quality and no other; and the beam search
\* of the same policy never finds worse ones, whatever else waited in the pool
\* when the match was made (analysis_service.go ReplayHistoricalMatch).  The
\* ticket whose wait set the windows must be in the match: beside it the others
\* look younger than they were taken for.
ReplayReproduces ==
  formed # NoMatch /\ formed.anchor \in Matched =>
    LET beam == [formed.policy EXCEPT !.algorithm = "beam"]
        Teams == [teamA |-> formed.teamA, teamB |-> formed.teamB]
        totals == {q.total : q \in ReplayQualities(formed, beam)}
    IN  /\ Teams \in Outcomes(formed, formed.policy)
        /\ formed.policy = beam => totals = {formed.quality.total}
        /\ \A total \in totals : total >= formed.quality.total

\* A report that passes speaks for its whole sample: the candidate would have
\* given the players of every match two teams, and over all the matches, none
\* left out, the means are no more than 2, 5 and 5 points lower
\* (REQUIREMENTS.md FR-AGENT-004).
RiskReportIsSound ==
  \A S \in Samples :
    \A P \in {CandidateFor(base, S) : base \in BasePolicies} :
      Valid(P) =>
        \A r \in Replays(S, P) : Passes(P, S, r) =>
          /\ Cardinality(S) >= MinimumRiskSample
          /\ \A h \in S : r[h] # None
          /\ \A x \in {<<"skill", 2>>, <<"latency", 5>>, <<"role", 5>>} :
                SumFunction([h \in S |-> r[h][x[1]] + x[2]]) >= Baseline(S, x[1])
=============================================================================
