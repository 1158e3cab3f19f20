------------------------------- MODULE Policies -------------------------------
(***************************************************************************)
(* Match policies (internal/matchmaking/domain/policy.go): when one is     *)
(* valid, what a game mode makes of it, and the candidate that the agent   *)
(* derives from one (internal/agent/application/service.go).  Weights are  *)
(* whole per cents.                                                        *)
(***************************************************************************)
EXTENDS Integers

CONSTANT TeamSize

Least(x, y) == IF x <= y THEN x ELSE y
Greatest(x, y) == IF x >= y THEN x ELSE y

Modes == {"ranked_5v5", "normal_5v5", "training_5v5"}

\* A policy names one of the two searches; its numbers may be anything,
\* negative too.
MatchPolicy ==
  [algorithm : {"greedy", "beam"}, candidateLimit : Int, beamWidth : Int,
   skillWeight : Int, roleWeight : Int, latencyWeight : Int,
   partyWeight : Int, waitWeight : Int,
   initialRange : Int, maxRange : Int, rangeStep : Int,
   initialLatency : Int, maxLatency : Int, latencyStep : Int,
   relaxAfter : Int, relaxStep : Int, maxRelaxed : Int,
   minQuality : Int, ticketTTL : Int]

Weights(P) ==
  <<P.skillWeight, P.roleWeight, P.latencyWeight, P.partyWeight, P.waitWeight>>

\* Validate.
Valid(P) ==
  /\ P \in MatchPolicy
  /\ \A i \in 1..5 : Weights(P)[i] \in 0..100
  /\ P.skillWeight + P.roleWeight + P.latencyWeight + P.partyWeight + P.waitWeight = 100
  /\ P.candidateLimit >= 2 * TeamSize
  /\ P.beamWidth \in 1..1024
  /\ 0 <= P.initialRange /\ P.initialRange <= P.maxRange /\ P.rangeStep >= 0
  /\ 0 < P.initialLatency /\ P.initialLatency <= P.maxLatency /\ P.latencyStep >= 0
  /\ P.relaxAfter >= 0 /\ P.relaxStep >= 0
  /\ P.maxRelaxed \in 0..100
  /\ P.minQuality \in 0..100
  /\ P.ticketTTL > 0

-----------------------------------------------------------------------------
(* Game modes *)

WiderRange(P) ==
  [P EXCEPT !.initialRange = (3 * @) \div 2, !.maxRange = (3 * @) \div 2,
            !.rangeStep = 2 * @]

EarlierRoles(P) ==
  [P EXCEPT !.relaxAfter = @ \div 2, !.relaxStep = 2 * @,
            !.minQuality = Greatest(0, @ - 10)]

AnyRating(P) ==
  LET range == Greatest(P.initialRange, 10000)
  IN  [P EXCEPT !.initialRange = range, !.maxRange = range, !.rangeStep = 0]

AnyLatency(P) ==
  [P EXCEPT !.initialLatency = 1000, !.maxLatency = 1000, !.latencyStep = 0]

AnyRoles(P) ==
  [P EXCEPT !.relaxAfter = 0, !.relaxStep = 100, !.maxRelaxed = 100, !.minQuality = 0]

ForMode(P, mode) ==
  CASE mode = "ranked_5v5"   -> P
    [] mode = "normal_5v5"   -> EarlierRoles(WiderRange(P))
    [] mode = "training_5v5" -> AnyRoles(AnyLatency(AnyRating(P)))

-----------------------------------------------------------------------------
(* The candidate the agent proposes *)

\* shiftPolicyWeight: at most amount is taken, from the weight of the waiting
\* time and then from that of the parties.
FromWait(P, amount) == Least(P.waitWeight, amount)
FromParty(P, amount) == Least(P.partyWeight, amount - FromWait(P, amount))
Shifted(P, amount) == FromWait(P, amount) + FromParty(P, amount)

Donated(P, amount) ==
  [P EXCEPT !.waitWeight = @ - FromWait(P, amount),
            !.partyWeight = @ - FromParty(P, amount)]

\* After one-sided or badly predicted matches.
Fairer(P) ==
  [Donated(P, 4) EXCEPT !.skillWeight = @ + Shifted(P, 4),
                        !.minQuality = Least(100, @ + 2)]

\* After a low satisfaction with the roles.
MoreForRoles(P) ==
  [Donated(P, 3) EXCEPT !.roleWeight = @ + Shifted(P, 3)]

\* After high latencies.
MoreForLatency(P) ==
  [Donated(P, 3) EXCEPT !.latencyWeight = @ + Shifted(P, 3),
                        !.maxLatency = Least(220, @)]

\* generateCandidatePolicy; the flags say what was wrong with the sample.
Candidate(base, uneven, poorRoles, slow) ==
  LET beam == [base EXCEPT !.algorithm = "beam"]
      fair == IF uneven THEN Fairer(beam) ELSE beam
      filled == IF poorRoles THEN MoreForRoles(fair) ELSE fair
  IN  IF slow THEN MoreForLatency(filled) ELSE filled
=============================================================================
