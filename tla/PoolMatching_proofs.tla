------------------------- MODULE PoolMatching_proofs --------------------------
(***************************************************************************)
(* The policies that the program derives from a valid one are valid: those *)
(* of the game modes, and the candidate of an analysis if the first window *)
(* of the latency is not above the cap that the analysis may set.  Where   *)
(* the program halves a number or adds weights of binary fractions,        *)
(* Policies.tla has whole numbers.                                         *)
(*                                                                         *)
(* Under every valid policy, whatever waits in the pool, the matches are   *)
(* legal, the greedy search selects groups whenever there are some of the  *)
(* right size, and a beam that is wide enough finds the best teams.  The   *)
(* candidates, the selection and the beam are recursive functions over the *)
(* positions of a sequence: each is shown to exist and to lead from one    *)
(* set of values to the next, and so to end in the last one.               *)
(*                                                                         *)
(* A replay of a match under its own policy finds its teams again: the     *)
(* groups that were matched are the only ones that make a match of their   *)
(* own tickets, so it has to choose among the same splits.  A risk report  *)
(* that passes bounds the sums over its whole sample; a sum over a finite  *)
(* set is a recursive function over its subsets.                           *)
(***************************************************************************)
EXTENDS MatchAnalysis, FiniteSetTheorems, WellFoundedInduction, TLAPS

-----------------------------------------------------------------------------
(* Policies *)

\* A weight that is given away is taken whole or in part: nothing is lost, and
\* nobody gives more than he has.
LEMMA DonationIsBounded ==
  ASSUME NEW P \in MatchPolicy, Valid(P), NEW amount \in Nat
  PROVE  /\ FromWait(P, amount) \in 0..P.waitWeight
         /\ FromParty(P, amount) \in 0..P.partyWeight
         /\ Shifted(P, amount) \in 0..amount
BY DEF Valid, MatchPolicy, Weights, FromWait, FromParty, Shifted, Least

\* Every weight of a valid policy is a per cent, and they make a whole.
LEMMA WeightsOfValid ==
  ASSUME NEW P, Valid(P)
  PROVE  /\ P.skillWeight \in 0..100 /\ P.roleWeight \in 0..100
         /\ P.latencyWeight \in 0..100 /\ P.partyWeight \in 0..100
         /\ P.waitWeight \in 0..100
         /\ P.skillWeight + P.roleWeight + P.latencyWeight + P.partyWeight + P.waitWeight = 100
BY DEF Valid, Weights, MatchPolicy

\* The limits of the one policy are those of the other.
SameLimits(Q, P) ==
  /\ Q.candidateLimit = P.candidateLimit /\ Q.beamWidth = P.beamWidth
  /\ Q.initialRange = P.initialRange /\ Q.maxRange = P.maxRange
  /\ Q.rangeStep = P.rangeStep /\ Q.initialLatency = P.initialLatency
  /\ Q.latencyStep = P.latencyStep /\ Q.relaxAfter = P.relaxAfter
  /\ Q.relaxStep = P.relaxStep /\ Q.maxRelaxed = P.maxRelaxed
  /\ Q.ticketTTL = P.ticketTTL

\* Twice as far when a half is added, in whole numbers: no order is lost.
LEMMA HalfMore ==
  ASSUME NEW x \in Int, NEW y \in Int, 0 <= x, x <= y
  PROVE  (3 * x) \div 2 \in Int /\ 0 <= (3 * x) \div 2 /\ (3 * x) \div 2 <= (3 * y) \div 2
OBVIOUS

\* The policy of the normal mode is valid.
LEMMA NormalIsValid ==
  ASSUME NEW P, Valid(P)
  PROVE  Valid(EarlierRoles(WiderRange(P)))
<1>1. Valid(WiderRange(P))
  <2>1. P \in MatchPolicy
    BY DEF Valid
  <2>2. /\ (3 * P.initialRange) \div 2 \in Int /\ (3 * P.maxRange) \div 2 \in Int
        /\ 0 <= (3 * P.initialRange) \div 2
        /\ (3 * P.initialRange) \div 2 <= (3 * P.maxRange) \div 2
    BY <2>1, HalfMore DEF Valid, MatchPolicy
  <2>3. WiderRange(P) \in MatchPolicy
    <3>1. 2 * P.rangeStep \in Int
      BY <2>1 DEF MatchPolicy
    <3> DEFINE A == [P EXCEPT !.initialRange = (3 * P.initialRange) \div 2]
    <3>2. A \in MatchPolicy
      BY <2>1, <2>2 DEF MatchPolicy
    <3> HIDE DEF A
    <3> DEFINE B == [A EXCEPT !.maxRange = (3 * P.maxRange) \div 2]
    <3>3. B \in MatchPolicy
      BY <2>2, <3>2 DEF MatchPolicy
    <3> HIDE DEF B
    <3> DEFINE C == [B EXCEPT !.rangeStep = 2 * P.rangeStep]
    <3>4. C \in MatchPolicy
      BY <3>1, <3>3 DEF MatchPolicy
    <3> HIDE DEF C
    <3>5. WiderRange(P) = C
      BY DEF WiderRange, A, B, C
    <3>6. QED
      BY <3>4, <3>5
  <2>4. QED
    BY <2>1, <2>2, <2>3 DEF WiderRange, Valid, Weights, MatchPolicy
<1>2. ASSUME NEW Q, Valid(Q) PROVE Valid(EarlierRoles(Q))
  <2>1. Q \in MatchPolicy
    BY <1>2 DEF Valid
  <2>2. Q.relaxAfter \div 2 \in Int /\ 0 <= Q.relaxAfter \div 2
    BY <1>2, <2>1 DEF Valid, MatchPolicy
  <2>3. Greatest(0, Q.minQuality - 10) \in 0..100
    BY <1>2, <2>1 DEF Valid, MatchPolicy, Greatest
  <2>4. EarlierRoles(Q) \in MatchPolicy
    <3>1. 2 * Q.relaxStep \in Int
      BY <2>1 DEF MatchPolicy
    <3> DEFINE A == [Q EXCEPT !.relaxAfter = Q.relaxAfter \div 2]
    <3>2. A \in MatchPolicy
      BY <2>1, <2>2 DEF MatchPolicy
    <3> HIDE DEF A
    <3> DEFINE B == [A EXCEPT !.relaxStep = 2 * Q.relaxStep]
    <3>3. B \in MatchPolicy
      BY <3>1, <3>2 DEF MatchPolicy
    <3> HIDE DEF B
    <3> DEFINE C == [B EXCEPT !.minQuality = Greatest(0, Q.minQuality - 10)]
    <3>4. C \in MatchPolicy
      BY <2>3, <3>3 DEF MatchPolicy
    <3> HIDE DEF C
    <3>5. EarlierRoles(Q) = C
      BY DEF EarlierRoles, A, B, C
    <3>6. QED
      BY <3>4, <3>5
  <2> DEFINE R == EarlierRoles(Q)
  <2>5. /\ R.algorithm = Q.algorithm /\ R.candidateLimit = Q.candidateLimit
        /\ R.beamWidth = Q.beamWidth /\ R.skillWeight = Q.skillWeight
        /\ R.roleWeight = Q.roleWeight /\ R.latencyWeight = Q.latencyWeight
        /\ R.partyWeight = Q.partyWeight /\ R.waitWeight = Q.waitWeight
        /\ R.initialRange = Q.initialRange /\ R.maxRange = Q.maxRange
        /\ R.rangeStep = Q.rangeStep /\ R.initialLatency = Q.initialLatency
        /\ R.maxLatency = Q.maxLatency /\ R.latencyStep = Q.latencyStep
        /\ R.maxRelaxed = Q.maxRelaxed /\ R.ticketTTL = Q.ticketTTL
    BY <2>1 DEF EarlierRoles, MatchPolicy
  <2>6. /\ R.relaxAfter = Q.relaxAfter \div 2 /\ R.relaxStep = 2 * Q.relaxStep
        /\ R.minQuality = Greatest(0, Q.minQuality - 10)
    BY <2>1 DEF EarlierRoles, MatchPolicy
  <2> HIDE DEF R
  <2>7. Valid(R)
    BY <1>2, <2>1, <2>2, <2>3, <2>4, <2>5, <2>6 DEF R, Valid, Weights, MatchPolicy
  <2>8. QED
    BY <2>7 DEF R
<1>3. QED
  BY <1>1, <1>2

\* The policy of the training mode is valid.
LEMMA TrainingIsValid ==
  ASSUME NEW P, Valid(P)
  PROVE  Valid(AnyRoles(AnyLatency(AnyRating(P))))
<1>1. Valid(AnyRating(P))
  <2>1. P \in MatchPolicy
    BY DEF Valid
  <2>2. Greatest(P.initialRange, 10000) \in Nat
    BY <2>1 DEF Valid, MatchPolicy, Greatest
  <2>3. AnyRating(P) \in MatchPolicy
    <3> DEFINE range == Greatest(P.initialRange, 10000)
    <3> DEFINE A == [P EXCEPT !.initialRange = range]
    <3>1. A \in MatchPolicy
      BY <2>1, <2>2 DEF MatchPolicy
    <3> HIDE DEF A
    <3> DEFINE B == [A EXCEPT !.maxRange = range]
    <3>2. B \in MatchPolicy
      BY <2>2, <3>1 DEF MatchPolicy
    <3> HIDE DEF B
    <3> DEFINE C == [B EXCEPT !.rangeStep = 0]
    <3>3. C \in MatchPolicy
      BY <3>2 DEF MatchPolicy
    <3> HIDE DEF C
    <3>4. AnyRating(P) = C
      BY DEF AnyRating, A, B, C
    <3>5. QED
      BY <3>3, <3>4
  <2>4. QED
    BY <2>1, <2>2, <2>3 DEF AnyRating, Valid, Weights, MatchPolicy
<1>2. ASSUME NEW Q, Valid(Q) PROVE Valid(AnyLatency(Q))
  <2>1. Q \in MatchPolicy
    BY <1>2 DEF Valid
  <2>2. AnyLatency(Q) \in MatchPolicy
    <3> DEFINE A == [Q EXCEPT !.initialLatency = 1000]
    <3>1. A \in MatchPolicy
      BY <2>1 DEF MatchPolicy
    <3> HIDE DEF A
    <3> DEFINE B == [A EXCEPT !.maxLatency = 1000]
    <3>2. B \in MatchPolicy
      BY <3>1 DEF MatchPolicy
    <3> HIDE DEF B
    <3> DEFINE C == [B EXCEPT !.latencyStep = 0]
    <3>3. C \in MatchPolicy
      BY <3>2 DEF MatchPolicy
    <3> HIDE DEF C
    <3>4. AnyLatency(Q) = C
      BY DEF AnyLatency, A, B, C
    <3>5. QED
      BY <3>3, <3>4
  <2>3. QED
    BY <1>2, <2>1, <2>2 DEF AnyLatency, Valid, Weights, MatchPolicy
<1>3. ASSUME NEW Q, Valid(Q) PROVE Valid(AnyRoles(Q))
  <2>1. Q \in MatchPolicy
    BY <1>3 DEF Valid
  <2>2. AnyRoles(Q) \in MatchPolicy
    <3> DEFINE A == [Q EXCEPT !.relaxAfter = 0]
    <3>1. A \in MatchPolicy
      BY <2>1 DEF MatchPolicy
    <3> HIDE DEF A
    <3> DEFINE B == [A EXCEPT !.relaxStep = 100]
    <3>2. B \in MatchPolicy
      BY <3>1 DEF MatchPolicy
    <3> HIDE DEF B
    <3> DEFINE C == [B EXCEPT !.maxRelaxed = 100]
    <3>3. C \in MatchPolicy
      BY <3>2 DEF MatchPolicy
    <3> HIDE DEF C
    <3> DEFINE D == [C EXCEPT !.minQuality = 0]
    <3>4. D \in MatchPolicy
      BY <3>3 DEF MatchPolicy
    <3> HIDE DEF D
    <3>5. AnyRoles(Q) = D
      BY DEF AnyRoles, A, B, C, D
    <3>6. QED
      BY <3>4, <3>5
  <2>3. QED
    BY <1>3, <2>1, <2>2 DEF AnyRoles, Valid, Weights, MatchPolicy
<1>4. QED
  BY <1>1, <1>2, <1>3

\* The policy a pool works with is valid in every mode (policy.go ForMode).
THEOREM EveryModeIsValid ==
  ASSUME NEW P, Valid(P), NEW mode \in Modes
  PROVE  Valid(ForMode(P, mode))
BY NormalIsValid, TrainingIsValid, Zenon DEF ForMode, Modes

-----------------------------------------------------------------------------
(* The candidate *)

\* What is given away leaves a policy, if not a valid one.
LEMMA DonatedPolicy ==
  ASSUME NEW P, Valid(P), NEW amount \in Nat
  PROVE  Donated(P, amount) \in MatchPolicy
<1>1. P \in MatchPolicy
  BY DEF Valid
<1>2. /\ P.waitWeight - FromWait(P, amount) \in Int
      /\ P.partyWeight - FromParty(P, amount) \in Int
  BY <1>1 DEF MatchPolicy, FromWait, FromParty, Least
<1> DEFINE A == [P EXCEPT !.waitWeight = P.waitWeight - FromWait(P, amount)]
<1>3. A \in MatchPolicy
  BY <1>1, <1>2 DEF MatchPolicy
<1> HIDE DEF A
<1> DEFINE B == [A EXCEPT !.partyWeight = P.partyWeight - FromParty(P, amount)]
<1>4. B \in MatchPolicy
  BY <1>2, <1>3 DEF MatchPolicy
<1> HIDE DEF B
<1>5. Donated(P, amount) = B
  BY DEF Donated, A, B
<1>6. QED
  BY <1>4, <1>5

\* The limits are not what is donated.
LEMMA DonatedKeeps ==
  ASSUME NEW P \in MatchPolicy, NEW amount
  PROVE  SameLimits(Donated(P, amount), P)
BY DEF Donated, MatchPolicy, SameLimits

\* A sum of weights survives what is moved from two of them to another.
LEMMA MovedWeights ==
  ASSUME NEW P, Valid(P), NEW amount \in Nat
  PROVE  /\ P.partyWeight - FromParty(P, amount) \in 0..100
         /\ P.waitWeight - FromWait(P, amount) \in 0..100
         /\ \A x \in {P.skillWeight, P.roleWeight, P.latencyWeight} :
               x + Shifted(P, amount) \in 0..100
         /\ (P.skillWeight + Shifted(P, amount)) + P.roleWeight + P.latencyWeight
              + (P.partyWeight - FromParty(P, amount)) + (P.waitWeight - FromWait(P, amount)) = 100
         /\ P.skillWeight + (P.roleWeight + Shifted(P, amount)) + P.latencyWeight
              + (P.partyWeight - FromParty(P, amount)) + (P.waitWeight - FromWait(P, amount)) = 100
         /\ P.skillWeight + P.roleWeight + (P.latencyWeight + Shifted(P, amount))
              + (P.partyWeight - FromParty(P, amount)) + (P.waitWeight - FromWait(P, amount)) = 100
<1> DEFINE s == P.skillWeight
           r == P.roleWeight
           l == P.latencyWeight
           p == P.partyWeight
           w == P.waitWeight
           a == FromWait(P, amount)
           b == FromParty(P, amount)
<1>1. /\ s \in 0..100 /\ r \in 0..100 /\ l \in 0..100 /\ p \in 0..100 /\ w \in 0..100
      /\ s + r + l + p + w = 100
  BY WeightsOfValid
<1>2. a \in 0..w /\ b \in 0..p /\ Shifted(P, amount) = a + b
  BY DonationIsBounded DEF Valid, Shifted
<1> HIDE DEF s, r, l, p, w, a, b
<1>3. /\ p - b \in 0..100 /\ w - a \in 0..100
      /\ s + (a + b) \in 0..100 /\ r + (a + b) \in 0..100 /\ l + (a + b) \in 0..100
      /\ (s + (a + b)) + r + l + (p - b) + (w - a) = 100
      /\ s + (r + (a + b)) + l + (p - b) + (w - a) = 100
      /\ s + r + (l + (a + b)) + (p - b) + (w - a) = 100
  BY <1>1, <1>2
<1>4. QED
  BY <1>2, <1>3 DEF s, r, l, p, w, a, b

\* Of a policy that differs from a valid one in its weights and in two of its
\* limits, only these have to be looked at.
LEMMA ValidAsBefore ==
  ASSUME NEW P, Valid(P), NEW Q \in MatchPolicy,
         Q.skillWeight \in 0..100, Q.roleWeight \in 0..100, Q.latencyWeight \in 0..100,
         Q.partyWeight \in 0..100, Q.waitWeight \in 0..100,
         Q.skillWeight + Q.roleWeight + Q.latencyWeight + Q.partyWeight + Q.waitWeight = 100,
         Q.minQuality \in 0..100, P.initialLatency <= Q.maxLatency,
         SameLimits(Q, P)
  PROVE  Valid(Q)
BY DEF Valid, Weights, MatchPolicy, SameLimits

\* The three changes of the agent leave a valid policy.
LEMMA FairerIsValid ==
  ASSUME NEW P, Valid(P)
  PROVE  Valid(Fairer(P)) /\ Fairer(P).initialLatency = P.initialLatency
<1>1. P \in MatchPolicy /\ Donated(P, 4) \in MatchPolicy
  BY DonatedPolicy DEF Valid
<1>2. Fairer(P) \in MatchPolicy
  <2>1. Donated(P, 4).skillWeight + Shifted(P, 4) \in Int
    BY <1>1, DonationIsBounded DEF MatchPolicy
  <2> DEFINE A == [Donated(P, 4) EXCEPT
                     !.skillWeight = Donated(P, 4).skillWeight + Shifted(P, 4)]
  <2>2. A \in MatchPolicy
    BY <1>1, <2>1 DEF MatchPolicy
  <2> HIDE DEF A
  <2> DEFINE B == [A EXCEPT !.minQuality = Least(100, Donated(P, 4).minQuality + 2)]
  <2>3. B \in MatchPolicy
    BY <1>1, <2>2 DEF MatchPolicy, Least
  <2> HIDE DEF B
  <2>4. Fairer(P) = B
    BY DEF Fairer, A, B
  <2>5. QED
    BY <2>3, <2>4
<1>3. /\ Fairer(P).waitWeight = P.waitWeight - FromWait(P, 4)
      /\ Fairer(P).partyWeight = P.partyWeight - FromParty(P, 4)
      /\ Fairer(P).skillWeight = P.skillWeight + Shifted(P, 4)
      /\ Fairer(P).roleWeight = P.roleWeight
      /\ Fairer(P).latencyWeight = P.latencyWeight
  BY <1>1 DEF Fairer, Donated, MatchPolicy
<1>4. Fairer(P).minQuality \in 0..100 /\ P.initialLatency <= Fairer(P).maxLatency
  BY <1>1 DEF Fairer, Donated, Valid, MatchPolicy, Least
<1>5. SameLimits(Fairer(P), P)
  BY <1>1, DonatedKeeps DEF Fairer, MatchPolicy, SameLimits
<1>6. /\ Fairer(P).skillWeight \in 0..100 /\ Fairer(P).roleWeight \in 0..100
      /\ Fairer(P).latencyWeight \in 0..100 /\ Fairer(P).partyWeight \in 0..100
      /\ Fairer(P).waitWeight \in 0..100
      /\ Fairer(P).skillWeight + Fairer(P).roleWeight + Fairer(P).latencyWeight
           + Fairer(P).partyWeight + Fairer(P).waitWeight = 100
  BY <1>3, MovedWeights, WeightsOfValid
<1>7. Valid(Fairer(P))
  BY <1>2, <1>4, <1>5, <1>6, ValidAsBefore
<1>8. QED
  BY <1>5, <1>7 DEF SameLimits

\* The second: more weight for the roles.
LEMMA MoreForRolesIsValid ==
  ASSUME NEW P, Valid(P)
  PROVE  Valid(MoreForRoles(P)) /\ MoreForRoles(P).initialLatency = P.initialLatency
<1>1. P \in MatchPolicy /\ Donated(P, 3) \in MatchPolicy
  BY DonatedPolicy DEF Valid
<1>2. MoreForRoles(P) \in MatchPolicy
  <2>1. Donated(P, 3).roleWeight + Shifted(P, 3) \in Int
    BY <1>1, DonationIsBounded DEF MatchPolicy
  <2> DEFINE A == [Donated(P, 3) EXCEPT
                     !.roleWeight = Donated(P, 3).roleWeight + Shifted(P, 3)]
  <2>2. A \in MatchPolicy
    BY <1>1, <2>1 DEF MatchPolicy
  <2> HIDE DEF A
  <2>3. MoreForRoles(P) = A
    BY DEF MoreForRoles, A
  <2>4. QED
    BY <2>2, <2>3
<1>3. /\ MoreForRoles(P).waitWeight = P.waitWeight - FromWait(P, 3)
      /\ MoreForRoles(P).partyWeight = P.partyWeight - FromParty(P, 3)
      /\ MoreForRoles(P).skillWeight = P.skillWeight
      /\ MoreForRoles(P).roleWeight = P.roleWeight + Shifted(P, 3)
      /\ MoreForRoles(P).latencyWeight = P.latencyWeight
  BY <1>1 DEF MoreForRoles, Donated, MatchPolicy
<1>4. MoreForRoles(P).minQuality \in 0..100 /\ P.initialLatency <= MoreForRoles(P).maxLatency
  BY <1>1 DEF MoreForRoles, Donated, Valid, MatchPolicy, Least
<1>5. SameLimits(MoreForRoles(P), P)
  BY <1>1, DonatedKeeps DEF MoreForRoles, MatchPolicy, SameLimits
<1>6. /\ MoreForRoles(P).skillWeight \in 0..100 /\ MoreForRoles(P).roleWeight \in 0..100
      /\ MoreForRoles(P).latencyWeight \in 0..100 /\ MoreForRoles(P).partyWeight \in 0..100
      /\ MoreForRoles(P).waitWeight \in 0..100
      /\ MoreForRoles(P).skillWeight + MoreForRoles(P).roleWeight + MoreForRoles(P).latencyWeight
           + MoreForRoles(P).partyWeight + MoreForRoles(P).waitWeight = 100
  BY <1>3, MovedWeights, WeightsOfValid
<1>7. Valid(MoreForRoles(P))
  BY <1>2, <1>4, <1>5, <1>6, ValidAsBefore
<1>8. QED
  BY <1>5, <1>7 DEF SameLimits

\* The third: more weight for the latency, if the first window is not above
\* the cap of the last.
LEMMA MoreForLatencyIsValid ==
  ASSUME NEW P, Valid(P), P.initialLatency <= 220
  PROVE  Valid(MoreForLatency(P))
<1>1. P \in MatchPolicy /\ Donated(P, 3) \in MatchPolicy
  BY DonatedPolicy DEF Valid
<1>2. MoreForLatency(P) \in MatchPolicy
  <2>1. Donated(P, 3).latencyWeight + Shifted(P, 3) \in Int
    BY <1>1, DonationIsBounded DEF MatchPolicy
  <2> DEFINE A == [Donated(P, 3) EXCEPT
                     !.latencyWeight = Donated(P, 3).latencyWeight + Shifted(P, 3)]
  <2>2. A \in MatchPolicy
    BY <1>1, <2>1 DEF MatchPolicy
  <2> HIDE DEF A
  <2> DEFINE B == [A EXCEPT !.maxLatency = Least(220, Donated(P, 3).maxLatency)]
  <2>3. B \in MatchPolicy
    BY <1>1, <2>2 DEF MatchPolicy, Least
  <2> HIDE DEF B
  <2>4. MoreForLatency(P) = B
    BY DEF MoreForLatency, A, B
  <2>5. QED
    BY <2>3, <2>4
<1>3. /\ MoreForLatency(P).waitWeight = P.waitWeight - FromWait(P, 3)
      /\ MoreForLatency(P).partyWeight = P.partyWeight - FromParty(P, 3)
      /\ MoreForLatency(P).skillWeight = P.skillWeight
      /\ MoreForLatency(P).roleWeight = P.roleWeight
      /\ MoreForLatency(P).latencyWeight = P.latencyWeight + Shifted(P, 3)
  <2>1. /\ Donated(P, 3).waitWeight = P.waitWeight - FromWait(P, 3)
        /\ Donated(P, 3).partyWeight = P.partyWeight - FromParty(P, 3)
    BY <1>1 DEF Donated, MatchPolicy
  <2>2. /\ Donated(P, 3).skillWeight = P.skillWeight
        /\ Donated(P, 3).roleWeight = P.roleWeight
        /\ Donated(P, 3).latencyWeight = P.latencyWeight
    BY <1>1 DEF Donated, MatchPolicy
  <2>3. /\ MoreForLatency(P).waitWeight = Donated(P, 3).waitWeight
        /\ MoreForLatency(P).partyWeight = Donated(P, 3).partyWeight
    BY <1>1 DEF MoreForLatency, MatchPolicy
  <2>4. /\ MoreForLatency(P).skillWeight = Donated(P, 3).skillWeight
        /\ MoreForLatency(P).roleWeight = Donated(P, 3).roleWeight
        /\ MoreForLatency(P).latencyWeight = Donated(P, 3).latencyWeight + Shifted(P, 3)
    BY <1>1 DEF MoreForLatency, MatchPolicy
  <2>5. QED
    BY <2>1, <2>2, <2>3, <2>4
<1>4. MoreForLatency(P).minQuality \in 0..100 /\ P.initialLatency <= MoreForLatency(P).maxLatency
  <2>1. /\ MoreForLatency(P).minQuality = Donated(P, 3).minQuality
        /\ MoreForLatency(P).maxLatency = Least(220, Donated(P, 3).maxLatency)
    BY <1>1 DEF MoreForLatency, MatchPolicy
  <2>2. /\ Donated(P, 3).minQuality = P.minQuality
        /\ Donated(P, 3).maxLatency = P.maxLatency
    BY <1>1 DEF Donated, MatchPolicy
  <2>3. /\ P.minQuality \in 0..100 /\ P.initialLatency <= P.maxLatency
        /\ P.initialLatency <= 220
    BY DEF Valid
  <2>4. QED
    BY <2>1, <2>2, <2>3 DEF Least
<1>5. SameLimits(MoreForLatency(P), P)
  BY <1>1, DonatedKeeps DEF MoreForLatency, MatchPolicy, SameLimits
<1>6. /\ MoreForLatency(P).skillWeight \in 0..100 /\ MoreForLatency(P).roleWeight \in 0..100
      /\ MoreForLatency(P).latencyWeight \in 0..100 /\ MoreForLatency(P).partyWeight \in 0..100
      /\ MoreForLatency(P).waitWeight \in 0..100
      /\ MoreForLatency(P).skillWeight + MoreForLatency(P).roleWeight + MoreForLatency(P).latencyWeight
           + MoreForLatency(P).partyWeight + MoreForLatency(P).waitWeight = 100
  BY <1>3, MovedWeights, WeightsOfValid
<1>7. QED
  BY <1>2, <1>4, <1>5, <1>6, ValidAsBefore

\* Any policy may use the beam search.
LEMMA BeamIsValid ==
  ASSUME NEW P, Valid(P)
  PROVE  Valid([P EXCEPT !.algorithm = "beam"])
<1>1. P \in MatchPolicy
  BY DEF Valid
<1>2. [P EXCEPT !.algorithm = "beam"] \in MatchPolicy
  BY <1>1 DEF MatchPolicy
<1> DEFINE Q == [P EXCEPT !.algorithm = "beam"]
<1>3. /\ Q.skillWeight = P.skillWeight /\ Q.roleWeight = P.roleWeight
      /\ Q.latencyWeight = P.latencyWeight /\ Q.partyWeight = P.partyWeight
      /\ Q.waitWeight = P.waitWeight /\ Q.minQuality = P.minQuality
      /\ Q.maxLatency = P.maxLatency
  BY <1>1 DEF MatchPolicy
<1>4. SameLimits(Q, P)
  BY <1>1 DEF MatchPolicy, SameLimits
<1> HIDE DEF Q
<1>5. P.minQuality \in 0..100 /\ P.initialLatency <= P.maxLatency
  BY DEF Valid
<1>6. Q \in MatchPolicy
  BY <1>2 DEF Q
<1>7. Valid(Q)
  BY <1>3, <1>4, <1>5, <1>6, ValidAsBefore, WeightsOfValid
<1>8. QED
  BY <1>7 DEF Q

\* What the agent proposes the matchmaking service can take up, whatever was
\* wrong with the sample, as long as no base has a first latency window above
\* the cap of 220 ms: with such a base the proposal is refused
\* (service.go generateCandidatePolicy).
THEOREM CandidateIsValid ==
  ASSUME NEW base, Valid(base), base.initialLatency <= 220,
         NEW uneven \in BOOLEAN, NEW poorRoles \in BOOLEAN, NEW slow \in BOOLEAN
  PROVE  Valid(Candidate(base, uneven, poorRoles, slow))
<1> DEFINE beam == [base EXCEPT !.algorithm = "beam"]
           fair == IF uneven THEN Fairer(beam) ELSE beam
           filled == IF poorRoles THEN MoreForRoles(fair) ELSE fair
<1>1. Valid(beam) /\ beam.initialLatency <= 220
  <2>1. Valid(beam)
    BY BeamIsValid
  <2>2. beam.initialLatency = base.initialLatency
    BY DEF Valid, MatchPolicy
  <2>3. QED
    BY <2>1, <2>2
<1> HIDE DEF beam
<1>2. Valid(fair) /\ fair.initialLatency <= 220
  BY <1>1, FairerIsValid
<1> HIDE DEF fair
<1>3. Valid(filled) /\ filled.initialLatency <= 220
  BY <1>2, MoreForRolesIsValid
<1> HIDE DEF filled
<1>4. Valid(IF slow THEN MoreForLatency(filled) ELSE filled)
  BY <1>3, MoreForLatencyIsValid
<1>5. QED
  BY <1>4 DEF Candidate, beam, fair, filled

-----------------------------------------------------------------------------
(* Recursion over positions *)

\* What holds of 0 and is handed on holds of every number.
LEMMA SetInduction ==
  ASSUME NEW S \in SUBSET Nat, 0 \in S, \A n \in S : n + 1 \in S
  PROVE  S = Nat
<1> SUFFICES ASSUME S # Nat PROVE FALSE
  OBVIOUS
<1> DEFINE T == Nat \ S
           R == OpToRel(<, Nat)
<1>1. T # {} /\ T \subseteq Nat
  OBVIOUS
<1>2. \A x, y \in Nat : x < y => <<x, y>> \in R
  BY DEF OpToRel
<1>3. IsWellFoundedOn(R, Nat)
  BY NatLessThanWellFounded
<1> HIDE DEF R
<1>4. PICK x \in T : \A y \in T : ~(<<y, x>> \in R)
  BY <1>1, <1>3, WFMin
<1>5. x \in Nat /\ \A y \in T : ~(y < x)
  BY <1>1, <1>2, <1>4
<1>6. x # 0 /\ x - 1 \in Nat /\ x - 1 \in S
  BY <1>5
<1>7. QED
  BY <1>4, <1>6

\* A sequence of values stays where its first value is and every step leads.
LEMMA Carried ==
  ASSUME NEW m \in Nat, NEW n \in Nat, NEW f, NEW A,
         f[m] \in A[m],
         \A i \in (m + 1)..n : f[i - 1] \in A[i - 1] => f[i] \in A[i]
  PROVE  \A i \in m..n : f[i] \in A[i]
<1> DEFINE S == {k \in Nat : m + k \in m..n => f[m + k] \in A[m + k]}
<1>1. 0 \in S
  OBVIOUS
<1>2. ASSUME NEW k \in S PROVE k + 1 \in S
  <2>1. CASE m + (k + 1) \in m..n
    <3>1. f[m + k] \in A[m + k]
      BY <2>1
    <3>2. (m + (k + 1)) - 1 = m + k /\ m + (k + 1) \in (m + 1)..n
      BY <2>1
    <3>3. f[m + (k + 1)] \in A[m + (k + 1)]
      BY <3>1, <3>2
    <3>4. QED
      BY <3>3
  <2>2. QED
    BY <2>1
<1>3. S = Nat
  <2>1. S \in SUBSET Nat
    OBVIOUS
  <2> HIDE DEF S
  <2>2. QED
    BY <1>1, <1>2, <2>1, SetInduction
<1>4. ASSUME NEW i \in m..n PROVE f[i] \in A[i]
  <2>1. i - m \in Nat /\ m + (i - m) = i
    OBVIOUS
  <2>2. i - m \in S
    BY <1>3, <2>1
  <2>3. QED
    BY <2>1, <2>2
<1>5. QED
  BY <1>4

\* What the value at a position makes of the value before.
Steps(A, m, n) == [A \X (m..n) -> A]

\* The function with this first value and these steps is its own unrolling.
Unrolled(f, m, n, base, step) ==
  [i \in m..n |-> IF i = m THEN base ELSE step[<<f[i - 1], i>>]]

\* A function can be defined by its first value and its steps.
LEMMA Recursion ==
  ASSUME NEW m \in Nat, NEW n \in Nat, NEW A, NEW base \in A,
         NEW step \in Steps(A, m, n)
  PROVE  \E f \in [m..n -> A] : f = Unrolled(f, m, n, base, step)
<1> DEFINE Is(f, k) ==
             f \in [m..k -> A] /\
             f = [i \in m..k |-> IF i = m THEN base ELSE step[<<f[i - 1], i>>]]
           S == {k \in Nat : m + k <= n => \E f : Is(f, m + k)}
<1>1. 0 \in S
  <2>1. Is([i \in m..m |-> base], m)
    OBVIOUS
  <2> HIDE DEF Is
  <2>2. QED
    BY <2>1
<1>2. ASSUME NEW k \in S PROVE k + 1 \in S
  <2>1. CASE m + (k + 1) <= n
    <3> DEFINE l == m + k
    <3>1. l \in Nat /\ m <= l /\ l + 1 \in m..n /\ k \in Nat /\ l + 1 = m + (k + 1)
      BY <2>1
    <3>2. PICK f : Is(f, l)
      BY <2>1
    <3> HIDE DEF l
    <3> DEFINE next == step[<<f[l], l + 1>>]
               g == [i \in m..(l + 1) |-> IF i <= l THEN f[i] ELSE next]
    <3>3. g \in [m..(l + 1) -> A]
      <4>1. f[l] \in A /\ next \in A
        BY <3>1, <3>2 DEF Steps
      <4> HIDE DEF next
      <4>2. QED
        BY <3>1, <3>2, <4>1
    <3>4. ASSUME NEW i \in m..(l + 1)
          PROVE  g[i] = IF i = m THEN base ELSE step[<<g[i - 1], i>>]
      <4>1. CASE i = l + 1
        <5>1. i - 1 = l /\ l \in m..(l + 1) /\ i # m /\ ~(i <= l)
          BY <3>1, <4>1
        <5> HIDE DEF next
        <5>2. g[l] = f[l] /\ g[i] = next
          BY <3>1, <5>1
        <5>3. QED
          BY <4>1, <5>1, <5>2 DEF next
      <4>2. CASE i \in m..l
        <5>1. f[i] = IF i = m THEN base ELSE step[<<f[i - 1], i>>]
          BY <3>2, <4>2
        <5>2. i # m => g[i - 1] = f[i - 1]
          BY <3>1, <4>2
        <5>3. g[i] = f[i]
          BY <3>1, <4>2
        <5>4. QED
          BY <5>1, <5>2, <5>3
      <4>3. QED
        BY <3>1, <4>1, <4>2
    <3>5. Is(g, l + 1)
      BY <3>3, <3>4
    <3> HIDE DEF Is
    <3>6. Is(g, m + (k + 1)) /\ k + 1 \in Nat
      BY <3>1, <3>5
    <3> HIDE DEF g
    <3>7. \E h : Is(h, m + (k + 1))
      BY <3>6
    <3>8. QED
      BY <3>6, <3>7
  <2>2. QED
    BY <2>1
<1>3. S = Nat
  <2>1. S \in SUBSET Nat
    OBVIOUS
  <2> HIDE DEF S
  <2>2. QED
    BY <1>1, <1>2, <2>1, SetInduction
<1>4. CASE m <= n
  <2>1. n - m \in Nat /\ m + (n - m) = n
    BY <1>4
  <2>2. PICK f : Is(f, n)
    <3> HIDE DEF Is
    <3>1. n - m \in S
      BY <1>3, <2>1
    <3>2. QED
      BY <2>1, <3>1
  <2>3. QED
    BY <2>2 DEF Unrolled
<1>5. CASE ~(m <= n)
  <2>1. m..n = {}
    BY <1>5
  <2> DEFINE f == [i \in m..n |-> base]
  <2>2. f = [i \in m..n |-> IF i = m THEN base ELSE step[<<f[i - 1], i>>]]
    BY <2>1
  <2>3. QED
    BY <2>2 DEF Unrolled
<1>6. QED
  BY <1>4, <1>5

\* The steps lead from each set of values to the next.
Leads(D, A, m, n, base, step) ==
  /\ m <= n /\ base \in A[m]
  /\ \A i \in m..n : A[i] \subseteq D
  /\ \A i \in (m + 1)..n : \A v \in A[i - 1] : step[<<v, i>>] \in A[i]

\* Steps that are defined on the way define a function too.
LEMMA StepByStep ==
  ASSUME NEW m \in Nat, NEW n \in Nat, NEW D, NEW A, NEW base, NEW step,
         Leads(D, A, m, n, base, step)
  PROVE  \E f \in [m..n -> D] :
           /\ f = Unrolled(f, m, n, base, step)
           /\ \A i \in m..n : f[i] \in A[i]
<1> DEFINE total == [x \in D \X (m..n) |-> IF step[x] \in D THEN step[x] ELSE base]
<1>0. /\ m \in m..n /\ base \in A[m]
      /\ \A i \in m..n : A[i] \subseteq D
      /\ \A i \in (m + 1)..n : \A v \in A[i - 1] : step[<<v, i>>] \in A[i]
  BY DEF Leads
<1>1. base \in D
  BY <1>0
<1>2. total \in Steps(D, m, n)
  BY <1>1 DEF Steps
<1>3. \A i \in m..n : \A v \in D : step[<<v, i>>] \in D => total[<<v, i>>] = step[<<v, i>>]
  OBVIOUS
<1> HIDE DEF total
<1>4. PICK f \in [m..n -> D] : f = Unrolled(f, m, n, base, total)
  BY <1>1, <1>2, Recursion
<1>5. f[m] \in A[m]
  BY <1>0, <1>4 DEF Unrolled
<1>6. ASSUME NEW i \in (m + 1)..n, f[i - 1] \in A[i - 1]
      PROVE  f[i] = step[<<f[i - 1], i>>] /\ f[i] \in A[i]
  <2>1. i \in m..n /\ i - 1 \in m..n /\ i # m
    OBVIOUS
  <2>2. step[<<f[i - 1], i>>] \in A[i] /\ f[i - 1] \in D
    BY <1>0, <1>6, <2>1
  <2>3. step[<<f[i - 1], i>>] \in D
    BY <1>0, <2>1, <2>2
  <2>4. f[i] = total[<<f[i - 1], i>>]
    BY <1>4, <2>1 DEF Unrolled
  <2>5. QED
    BY <1>3, <2>1, <2>2, <2>3, <2>4
<1>7. \A i \in m..n : f[i] \in A[i]
  BY <1>5, <1>6, Carried
<1>8. f = Unrolled(f, m, n, base, step)
  <2>1. ASSUME NEW i \in m..n
        PROVE  f[i] = IF i = m THEN base ELSE step[<<f[i - 1], i>>]
    <3>1. CASE i = m
      BY <1>4, <3>1 DEF Unrolled
    <3>2. CASE i # m
      <4>1. i \in (m + 1)..n /\ i - 1 \in m..n
        BY <3>2
      <4>2. QED
        BY <1>6, <1>7, <3>2, <4>1
    <3>3. QED
      BY <3>1, <3>2
  <2>2. f = [i \in m..n |-> f[i]]
    BY <1>4
  <2>3. QED
    BY <2>1, <2>2 DEF Unrolled
<1>9. QED
  BY <1>4, <1>7, <1>8

-----------------------------------------------------------------------------
(* A view of the pool *)

\* The tickets of a view have the numbers that order them, and its policy is
\* valid.
Fits(view) ==
  /\ IsMap(view.created, Everyone, Int)
  /\ view.at \in Int
  /\ Valid(view.policy)

\* The order of the tickets is total.
LEMMA OlderOrders ==
  ASSUME NEW view, Fits(view)
  PROVE  \A t, u \in DOMAIN view.created :
           /\ Pool(view)!Older(t, t)
           /\ Pool(view)!Older(t, u) \/ Pool(view)!Older(u, t)
           /\ Pool(view)!Older(t, u) /\ Pool(view)!Older(u, t) => t = u
           /\ \A w \in DOMAIN view.created :
                Pool(view)!Older(t, u) /\ Pool(view)!Older(u, w) => Pool(view)!Older(t, w)
<1>1. DOMAIN view.created \subseteq Nat /\ \A t \in DOMAIN view.created : view.created[t] \in Int
  BY TicketsAssumption DEF Fits, IsMap
<1>2. QED
  BY <1>1 DEF Pool!Older

\* The operators that the engine counts with are those of this module.
LEMMA SameOperators ==
  ASSUME NEW view
  PROVE  /\ \A S : Pool(view)!Cardinality(S) = Cardinality(S)
         /\ \A f : Pool(view)!Range(f) = Range(f)
         /\ \A S : Pool(view)!Min(S) = Min(S)
<1>1. ASSUME NEW S PROVE Pool(view)!Cardinality(S) = Cardinality(S)
  BY DEF Pool!Cardinality, Cardinality
<1>2. ASSUME NEW f PROVE Pool(view)!Range(f) = Range(f)
  BY DEF Pool!Range, Range
<1>3. ASSUME NEW S PROVE Pool(view)!Min(S) = Min(S)
  BY DEF Pool!Min, Min
<1>4. QED
  BY <1>1, <1>2, <1>3

\* Every ticket of a set has a place of its own, and every place a ticket.
LEMMA Places ==
  ASSUME NEW view, Fits(view), NEW S \in SUBSET DOMAIN view.created
  PROVE  /\ IsFiniteSet(S) /\ Cardinality(S) \in Nat
         /\ \A t \in S : Pool(view)!Place(t, S) \in 1..Cardinality(S)
         /\ \A t, u \in S : Pool(view)!Place(t, S) = Pool(view)!Place(u, S) => t = u
         /\ \A i \in 1..Cardinality(S) : \E t \in S : Pool(view)!Place(t, S) = i
<1> DEFINE Before(t) == {u \in S : Pool(view)!Older(u, t)}
           n == Cardinality(S)
           place == [t \in S |-> Pool(view)!Place(t, S)]
<1>1. IsFiniteSet(S) /\ n \in Nat
  <2>1. S \subseteq Everyone
    BY DEF Fits, IsMap
  <2>2. QED
    BY <2>1, TicketsAssumption, FS_Subset, FS_CardinalityType
<1>2. ASSUME NEW t \in S
      PROVE  /\ Pool(view)!Place(t, S) = Cardinality(Before(t))
             /\ IsFiniteSet(Before(t)) /\ t \in Before(t)
             /\ Cardinality(Before(t)) \in 1..n
  <2>1. Pool(view)!Place(t, S) = Cardinality(Before(t))
    BY SameOperators DEF Pool!Place
  <2>2. t \in Before(t) /\ Before(t) \in SUBSET S
    BY OlderOrders
  <2> HIDE DEF Before
  <2>3. IsFiniteSet(Before(t)) /\ Cardinality(Before(t)) <= n
    BY <1>1, <2>2, FS_Subset
  <2>4. Cardinality(Before(t)) \in Nat /\ Cardinality(Before(t)) # 0
    BY <2>2, <2>3, FS_CardinalityType, FS_EmptySet
  <2>5. QED
    BY <1>1, <2>1, <2>2, <2>3, <2>4
<1>3. ASSUME NEW t \in S, NEW u \in S, Pool(view)!Older(t, u),
             Cardinality(Before(t)) = Cardinality(Before(u))
      PROVE  t = u
  <2>1. Before(t) \in SUBSET Before(u)
    BY <1>3, OlderOrders
  <2>2. IsFiniteSet(Before(u)) /\ u \in Before(u)
    BY <1>2
  <2>3. Before(t) = Before(u)
    <3> HIDE DEF Before
    <3>1. QED
      BY <1>3, <2>1, <2>2, FS_Subset
  <2>4. Pool(view)!Older(u, t)
    BY <2>2, <2>3
  <2>5. QED
    BY <1>3, <2>4, OlderOrders
<1> HIDE DEF Before
<1>4. \A t, u \in S : Pool(view)!Place(t, S) = Pool(view)!Place(u, S) => t = u
  BY <1>2, <1>3, OlderOrders
<1>5. place \in Injection(S, 1..n)
  BY <1>2, <1>4 DEF Injection, IsInjective
<1>6. place \in Surjection(S, 1..n)
  <2>1. IsFiniteSet(1..n) /\ Cardinality(1..n) = n
    BY <1>1, FS_Interval
  <2> HIDE DEF place
  <2>2. QED
    BY <1>1, <1>5, <2>1, FS_Injection
<1>7. \A i \in 1..n : \E t \in S : Pool(view)!Place(t, S) = i
  BY <1>6 DEF Surjection
<1>8. QED
  BY <1>1, <1>2, <1>4, <1>7
-----------------------------------------------------------------------------
(* Groups and candidates *)

\* What groups a set of tickets has.
GroupsIn(view, S) == {Pool(view)!GroupOf(t, S) : t \in S}

\* Two groups of a set of tickets are the same or have no ticket in common.
LEMMA GroupsPartition ==
  ASSUME NEW view, NEW S
  PROVE  /\ \A g \in GroupsIn(view, S) : g # {} /\ g \subseteq S
         /\ \A g, h \in GroupsIn(view, S) : g \cap h # {} => g = h
         /\ \A g \in GroupsIn(view, S) : \A t \in g, u \in S :
              Party[t] # None /\ Party[u] = Party[t] => u \in g
<1>1. ASSUME NEW t \in S, NEW u \in S, u \in Pool(view)!GroupOf(t, S)
      PROVE  Pool(view)!GroupOf(u, S) = Pool(view)!GroupOf(t, S)
  BY <1>1 DEF Pool!GroupOf
<1>2. \A t \in S : t \in Pool(view)!GroupOf(t, S) /\ Pool(view)!GroupOf(t, S) \subseteq S
  BY DEF Pool!GroupOf
<1>3. \A g, h \in GroupsIn(view, S) : g \cap h # {} => g = h
  BY <1>1, <1>2 DEF GroupsIn
<1>4. \A g \in GroupsIn(view, S) : g # {} /\ g \subseteq S
  BY <1>2 DEF GroupsIn
<1>5. ASSUME NEW g \in GroupsIn(view, S), NEW t \in g, NEW u \in S,
             Party[t] # None, Party[u] = Party[t]
      PROVE  u \in g
  BY <1>5 DEF GroupsIn, Pool!GroupOf
<1>6. QED
  BY <1>3, <1>4, <1>5

OneToOne(s) == \A i, j \in DOMAIN s : s[i] = s[j] => i = j

\* Every group comes once.
LEMMA GroupsAre ==
  ASSUME NEW view, Fits(view), NEW S \in SUBSET DOMAIN view.created
  PROVE  /\ Pool(view)!GroupsOf(S) \in Seq(GroupsIn(view, S))
         /\ OneToOne(Pool(view)!GroupsOf(S))
<1> DEFINE L == Pool(view)!Leaders(S)
           n == Cardinality(L)
           leader(i) == CHOOSE t \in L : Pool(view)!Place(t, L) = i
<1>1. L \in SUBSET DOMAIN view.created /\ L \subseteq S
  BY DEF Pool!Leaders
<1>2. \A t, u \in L : t \in Pool(view)!GroupOf(u, S) => Pool(view)!Older(u, t)
  BY DEF Pool!Leaders
<1>3. Pool(view)!GroupsOf(S) = [i \in 1..n |-> Pool(view)!GroupOf(leader(i), S)]
  BY SameOperators DEF Pool!GroupsOf
<1> HIDE DEF L
<1>4. n \in Nat /\ \A i \in 1..n : leader(i) \in L /\ Pool(view)!Place(leader(i), L) = i
  BY <1>1, Places
<1> HIDE DEF n, leader
<1>5. \A i \in 1..n : Pool(view)!GroupOf(leader(i), S) \in GroupsIn(view, S)
  BY <1>1, <1>4 DEF GroupsIn
<1>6. ASSUME NEW i \in 1..n, NEW j \in 1..n,
             Pool(view)!GroupOf(leader(i), S) = Pool(view)!GroupOf(leader(j), S)
      PROVE  i = j
  <2>1. /\ leader(i) \in Pool(view)!GroupOf(leader(i), S)
        /\ leader(j) \in Pool(view)!GroupOf(leader(j), S)
    BY DEF Pool!GroupOf
  <2>2. leader(i) = leader(j)
    BY <1>1, <1>2, <1>4, <1>6, <2>1, OlderOrders
  <2>3. QED
    BY <1>4, <2>2
<1>7. QED
  BY <1>3, <1>4, <1>5, <1>6 DEF OneToOne

\* The groups that have been accepted.
Accepted(view, S) == {g \in GroupsIn(view, S) : Pool(view)!Accepts(g, S)}

\* The candidates are accepted groups, each taken once; the first of all the
\* groups is the first of them, if it is accepted.
LEMMA CandidatesAre ==
  ASSUME NEW view, Fits(view), NEW S \in SUBSET DOMAIN view.created
  PROVE  /\ Pool(view)!CandidatesOf(S) \in Seq(Accepted(view, S))
         /\ OneToOne(Pool(view)!CandidatesOf(S))
         /\ \A k \in DOMAIN Pool(view)!CandidatesOf(S) :
              Pool(view)!CandidatesOf(S)[k] = Pool(view)!GroupsOf(S)[1] => k = 1
<1> DEFINE groups == Pool(view)!GroupsOf(S)
           n == Len(groups)
           G == Accepted(view, S)
           Kept(i) == {s \in Seq(G) : OneToOne(s) /\
                         (\A k \in DOMAIN s : \E j \in 1..i : s[k] = groups[j]) /\
                         (\A k \in DOMAIN s : s[k] = groups[1] => k = 1)}
           A == [i \in 0..n |-> Kept(i)]
           step == [x \in Seq(G) \X (0..n) |->
                      IF x[2] = 0 THEN << >> ELSE Pool(view)!Added(x[1], groups[x[2]], S)]
           Is(taken) == taken = [i \in 0..n |->
                         IF i = 0 THEN << >> ELSE Pool(view)!Added(taken[i - 1], groups[i], S)]
<1>1. groups \in Seq(GroupsIn(view, S)) /\ OneToOne(groups) /\ n \in Nat /\ DOMAIN groups = 1..n
  BY GroupsAre
<1>2. Pool(view)!CandidatesOf(S) = (CHOOSE taken : Is(taken))[n]
  BY DEF Pool!CandidatesOf
<1> HIDE DEF groups, n
<1>3. ASSUME NEW s \in Seq(G), NEW i \in 1..n
      PROVE  Pool(view)!Added(s, groups[i], S) \in Seq(G)
  <2>1. groups[i] \in GroupsIn(view, S)
    BY <1>1
  <2>2. Pool(view)!Accepts(groups[i], S) => groups[i] \in G
    BY <2>1 DEF Accepted
  <2> HIDE DEF G
  <2>3. QED
    BY <2>2 DEF Pool!Added
<1>4. ASSUME NEW i \in 1..n, NEW s \in Kept(i - 1)
      PROVE  Pool(view)!Added(s, groups[i], S) \in Kept(i)
  <2>1. s \in Seq(G) /\ OneToOne(s) /\ Pool(view)!Added(s, groups[i], S) \in Seq(G)
    BY <1>3
  <2>2. ASSUME NEW k \in DOMAIN s
        PROVE  /\ s[k] # groups[i] /\ \E j \in 1..i : s[k] = groups[j]
               /\ s[k] = groups[1] => k = 1
    <3>1. PICK j \in 1..(i - 1) : s[k] = groups[j]
      OBVIOUS
    <3>2. j \in 1..n /\ j \in 1..i /\ j # i
      BY <1>1, <3>1
    <3>3. groups[j] # groups[i]
      BY <1>1, <3>2 DEF OneToOne
    <3>4. QED
      BY <3>1, <3>2, <3>3
  <2> HIDE DEF G
  <2>3. CASE Pool(view)!Added(s, groups[i], S) = s
    BY <2>1, <2>2, <2>3
  <2>4. CASE Pool(view)!Added(s, groups[i], S) = Append(s, groups[i])
    <3> DEFINE r == Append(s, groups[i])
    <3>1. /\ DOMAIN r = 1..(Len(s) + 1) /\ DOMAIN s = 1..Len(s) /\ Len(s) \in Nat
          /\ r[Len(s) + 1] = groups[i] /\ \A k \in 1..Len(s) : r[k] = s[k]
      BY <2>1, <2>4
    <3>2. r \in Seq(G)
      BY <2>1, <2>4
    <3> HIDE DEF r
    <3>3. OneToOne(r)
      BY <2>1, <2>2, <3>1 DEF OneToOne
    <3>4. ASSUME NEW k \in DOMAIN r PROVE \E j \in 1..i : r[k] = groups[j]
      <4>1. CASE k \in DOMAIN s
        <5>1. r[k] = s[k]
          BY <3>1, <4>1
        <5>2. QED
          BY <2>2, <4>1, <5>1
      <4>2. CASE k = Len(s) + 1
        <5>1. r[k] = groups[i] /\ i \in 1..i
          BY <1>1, <3>1, <4>2
        <5>2. QED
          BY <5>1
      <4>3. QED
        BY <3>1, <4>1, <4>2
    <3>5. ASSUME NEW k \in DOMAIN r, r[k] = groups[1] PROVE k = 1
      <4>1. CASE k \in DOMAIN s
        BY <2>2, <3>1, <3>5, <4>1
      <4>2. CASE k = Len(s) + 1
        <5>1. 1 \in 1..n /\ groups[i] = groups[1]
          BY <1>1, <3>1, <3>5, <4>2
        <5>2. i = 1
          BY <1>1, <5>1 DEF OneToOne
        <5>3. \A m \in DOMAIN s : \E j \in 1..(i - 1) : s[m] = groups[j]
          OBVIOUS
        <5>4. DOMAIN s = {}
          BY <5>2, <5>3
        <5>5. QED
          BY <3>1, <4>2, <5>4
      <4>3. QED
        BY <3>1, <4>1, <4>2
    <3>6. r \in Kept(i)
      BY <3>2, <3>3, <3>4, <3>5
    <3>7. QED
      BY <2>4, <3>6 DEF r
  <2>5. QED
    BY <2>3, <2>4 DEF Pool!Added
<1>5. PICK f : Is(f)
  <2>1. step \in [Seq(G) \X (0..n) -> Seq(G)]
    <3>1. ASSUME NEW x \in Seq(G) \X (0..n) PROVE step[x] \in Seq(G)
      <4>1. x[1] \in Seq(G) /\ x[2] \in 0..n
        OBVIOUS
      <4>2. CASE x[2] = 0
        BY <4>2
      <4>3. CASE x[2] # 0
        <5>1. x[2] \in 1..n
          BY <1>1, <4>1, <4>3
        <5>2. QED
          BY <1>3, <4>1, <4>3, <5>1
      <4>4. QED
        BY <4>2, <4>3
    <3>2. QED
      BY <3>1
  <2>2. << >> \in Seq(G)
    OBVIOUS
  <2>3. \A s \in Seq(G), i \in 0..n :
          step[<<s, i>>] = IF i = 0 THEN << >> ELSE Pool(view)!Added(s, groups[i], S)
    OBVIOUS
  <2> HIDE DEF step
  <2>4. PICK f \in [0..n -> Seq(G)] : f = Unrolled(f, 0, n, << >>, step)
    <3> DEFINE V == Seq(G)
    <3>1. step \in Steps(V, 0, n) /\ << >> \in V /\ 0 \in Nat /\ n \in Nat
      BY <1>1, <2>1, <2>2 DEF Steps
    <3> HIDE DEF V
    <3>2. \E f \in [0..n -> V] : f = Unrolled(f, 0, n, << >>, step)
      BY <3>1, Recursion
    <3>3. QED
      BY <3>2 DEF V
  <2>5. ASSUME NEW i \in 0..n, i # 0
        PROVE  step[<<f[i - 1], i>>] = Pool(view)!Added(f[i - 1], groups[i], S)
    <3>1. i - 1 \in 0..n
      BY <1>1, <2>5
    <3>2. f[i - 1] \in Seq(G)
      BY <2>4, <3>1
    <3> HIDE DEF G
    <3>3. QED
      BY <2>3, <2>5, <3>2
  <2>6. Is(f)
    BY <2>4, <2>5 DEF Unrolled
  <2> HIDE DEF Is
  <2>7. QED
    BY <2>6
<1> DEFINE taken == CHOOSE taken : Is(taken)
<1>6. Is(taken)
  <2> HIDE DEF Is
  <2>1. QED
    BY <1>5
<1> HIDE DEF taken
<1>7. taken[0] \in A[0]
  <2>1. << >> \in Kept(0)
    BY DEF OneToOne
  <2>2. taken[0] = << >> /\ A[0] = Kept(0)
    BY <1>1, <1>6
  <2>3. QED
    BY <2>1, <2>2
<1>8. ASSUME NEW i \in (0 + 1)..n, taken[i - 1] \in A[i - 1]
      PROVE  taken[i] \in A[i]
  <2>1. i \in 1..n /\ i \in 0..n /\ i - 1 \in 0..n /\ i # 0
    BY <1>1
  <2> HIDE DEF Kept
  <2>2. taken[i - 1] \in Kept(i - 1)
    BY <1>8, <2>1
  <2>3. taken[i] = Pool(view)!Added(taken[i - 1], groups[i], S)
    BY <1>6, <2>1
  <2>4. QED
    BY <1>4, <2>1, <2>2, <2>3
<1>9. taken[n] \in Kept(n)
  <2>1. \A i \in 0..n : taken[i] \in A[i]
    <3> HIDE DEF A
    <3>1. QED
      BY <1>1, <1>7, <1>8, Carried
  <2> HIDE DEF Kept
  <2>2. QED
    BY <1>1, <2>1
<1>10. QED
  <2>1. Pool(view)!CandidatesOf(S) = taken[n]
    BY <1>2 DEF taken
  <2>2. /\ taken[n] \in Seq(G) /\ OneToOne(taken[n])
        /\ \A k \in DOMAIN taken[n] : taken[n][k] = groups[1] => k = 1
    BY <1>9
  <2> HIDE DEF G
  <2>3. QED
    BY <2>1, <2>2 DEF groups, G

-----------------------------------------------------------------------------
(* Sets of groups *)

\* The candidates of a search: different groups without common tickets.
SeparateGroups(groups) ==
  /\ groups \in Seq(SUBSET Everyone)
  /\ OneToOne(groups)
  /\ \A i \in DOMAIN groups : groups[i] # {}
  /\ \A i, j \in DOMAIN groups : groups[i] \cap groups[j] # {} => i = j

\* The first i of the groups.
Seen(groups, i) == {groups[j] : j \in 1..i}

\* Some of the first i groups, the first among them.
SetsOf(groups, i) == {S \in SUBSET Seen(groups, i) : groups[1] \in S}

\* The groups seen are all the groups in the end, and one more at each step.
LEMMA SeenGroups ==
  ASSUME NEW groups, SeparateGroups(groups)
  PROVE  /\ Len(groups) \in Nat
         /\ Seen(groups, Len(groups)) = Range(groups)
         /\ \A i \in 1..Len(groups) :
              /\ groups[i] \subseteq Everyone /\ groups[i] # {}
              /\ groups[i] \in Seen(groups, i)
              /\ groups[1] \in Seen(groups, i)
              /\ Seen(groups, i) = Seen(groups, i - 1) \cup {groups[i]}
              /\ groups[i] \notin Seen(groups, i - 1)
              /\ groups[i] \cap (UNION Seen(groups, i - 1)) = {}
              /\ Seen(groups, i) \subseteq Range(groups)
<1>1. Len(groups) \in Nat /\ DOMAIN groups = 1..Len(groups)
  BY DEF SeparateGroups
<1>2. Seen(groups, Len(groups)) = Range(groups)
  BY <1>1 DEF Seen, Range
<1>3. ASSUME NEW i \in 1..Len(groups)
      PROVE  /\ groups[i] \subseteq Everyone /\ groups[i] # {}
             /\ groups[i] \in Seen(groups, i)
             /\ groups[1] \in Seen(groups, i)
             /\ Seen(groups, i) = Seen(groups, i - 1) \cup {groups[i]}
             /\ groups[i] \notin Seen(groups, i - 1)
             /\ groups[i] \cap (UNION Seen(groups, i - 1)) = {}
             /\ Seen(groups, i) \subseteq Range(groups)
  <2>1. groups[i] \subseteq Everyone /\ groups[i] # {}
    BY <1>1 DEF SeparateGroups
  <2>2. 1..i = (1..(i - 1)) \cup {i} /\ 1 \in 1..i /\ i \in 1..i
    BY <1>1
  <2>3. /\ groups[i] \in Seen(groups, i)
        /\ groups[1] \in Seen(groups, i)
        /\ Seen(groups, i) = Seen(groups, i - 1) \cup {groups[i]}
    BY <2>2 DEF Seen
  <2>4. ASSUME NEW j \in 1..(i - 1)
        PROVE  groups[i] # groups[j] /\ groups[i] \cap groups[j] = {}
    <3>1. j \in DOMAIN groups /\ i \in DOMAIN groups /\ i # j
      BY <1>1
    <3>2. QED
      BY <3>1 DEF SeparateGroups, OneToOne
  <2>5. groups[i] \notin Seen(groups, i - 1)
    BY <2>4 DEF Seen
  <2>6. groups[i] \cap (UNION Seen(groups, i - 1)) = {}
    BY <2>4 DEF Seen
  <2>7. Seen(groups, i) \subseteq Range(groups)
    <3>1. 1..i \subseteq DOMAIN groups
      BY <1>1
    <3>2. QED
      BY <3>1 DEF Seen, Range
  <2>8. QED
    BY <2>1, <2>3, <2>5, <2>6, <2>7
<1>4. QED
  BY <1>1, <1>2, <1>3

\* Every set of groups has a size.
LEMMA SizeType ==
  ASSUME NEW view, NEW S, UNION S \subseteq Everyone
  PROVE  /\ Pool(view)!Size(S) = Cardinality(UNION S)
         /\ IsFiniteSet(UNION S) /\ Pool(view)!Size(S) \in Nat
<1>1. IsFiniteSet(UNION S) /\ Cardinality(UNION S) \in Nat
  BY TicketsAssumption, FS_Subset, FS_CardinalityType
<1>2. QED
  BY <1>1, SameOperators DEF Pool!Size

\* A group that is added to others adds its size.
LEMMA SizeAdds ==
  ASSUME NEW view, NEW groups, SeparateGroups(groups), NEW i \in 1..Len(groups)
  PROVE  /\ Pool(view)!Cardinality(groups[i]) = Cardinality(groups[i])
         /\ Cardinality(groups[i]) \in Nat \ {0}
         /\ \A S \in SUBSET Seen(groups, i - 1) :
              /\ Pool(view)!Size(S) \in Nat
              /\ Pool(view)!Size(S \cup {groups[i]}) = Pool(view)!Size(S) + Cardinality(groups[i])
<1> DEFINE g == groups[i]
<1>1. /\ g \subseteq Everyone /\ g # {} /\ g \cap (UNION Seen(groups, i - 1)) = {}
      /\ \A h \in Seen(groups, i - 1) : h \subseteq Everyone
  <2>1. g \subseteq Everyone /\ g # {} /\ g \cap (UNION Seen(groups, i - 1)) = {}
    BY SeenGroups
  <2>2. Seen(groups, i - 1) \subseteq SUBSET Everyone
    BY DEF SeparateGroups, Seen
  <2> HIDE DEF g
  <2>3. QED
    BY <2>1, <2>2
<1>2. IsFiniteSet(g) /\ Cardinality(g) \in Nat /\ Cardinality(g) # 0
  BY <1>1, TicketsAssumption, FS_Subset, FS_CardinalityType, FS_EmptySet
<1> HIDE DEF g
<1>3. ASSUME NEW S \in SUBSET Seen(groups, i - 1)
      PROVE  /\ Pool(view)!Size(S) \in Nat
             /\ Pool(view)!Size(S \cup {g}) = Pool(view)!Size(S) + Cardinality(g)
  <2>1. /\ UNION S \subseteq Everyone /\ UNION (S \cup {g}) = (UNION S) \cup g
        /\ (UNION S) \cap g = {}
    BY <1>1
  <2>2. UNION (S \cup {g}) \subseteq Everyone
    BY <1>1, <2>1
  <2>3. Cardinality((UNION S) \cup g) = Cardinality(UNION S) + Cardinality(g)
    <3>1. IsFiniteSet(UNION S) /\ Cardinality(UNION S) \in Nat
      BY <2>1, TicketsAssumption, FS_Subset, FS_CardinalityType
    <3>2. Cardinality((UNION S) \cup g) = Cardinality(UNION S) + Cardinality(g) - 0
      BY <1>2, <2>1, <3>1, FS_Union, FS_EmptySet
    <3>3. QED
      BY <1>2, <3>1, <3>2
  <2>4. /\ Pool(view)!Size(S) = Cardinality(UNION S) /\ Pool(view)!Size(S) \in Nat
        /\ Pool(view)!Size(S \cup {g}) = Cardinality(UNION (S \cup {g}))
    BY <2>1, <2>2, SizeType
  <2>5. QED
    BY <2>1, <2>3, <2>4
<1>4. QED
  BY <1>2, <1>3, SameOperators DEF g

-----------------------------------------------------------------------------
(* The greedy selection *)

\* Sets of groups by their sizes.
Selections(groups) ==
  UNION {[D -> SUBSET Range(groups)] : D \in SUBSET Nat}

\* What is kept when i groups have been seen: sets of the right size that have
\* the first group, and one for every size up to the target that can be had.
SelectionsAt(view, groups, i) ==
  {s \in Selections(groups) :
     /\ \A n \in DOMAIN s : s[n] \in SetsOf(groups, i) /\ Pool(view)!Size(s[n]) = n
     /\ \A S \in SetsOf(groups, i) :
          Pool(view)!Size(S) <= Target => Pool(view)!Size(S) \in DOMAIN s}

\* The selection starts with the first group alone.
LEMMA FirstSelection ==
  ASSUME NEW view, NEW groups, SeparateGroups(groups), 1 <= Len(groups)
  PROVE  [n \in {Cardinality(groups[1])} |-> {groups[1]}] \in SelectionsAt(view, groups, 1)
<1> DEFINE g == groups[1]
           n == Cardinality(g)
           s == [m \in {n} |-> {g}]
<1>1. Seen(groups, 1) = {g} /\ g \in Range(groups)
  <2>1. Seen(groups, 1) = {g}
    BY DEF Seen
  <2>2. 1 \in 1..Len(groups)
    BY SeenGroups
  <2>3. g \in Range(groups)
    BY <2>2, SeenGroups DEF SeparateGroups, Range
  <2>4. QED
    BY <2>1, <2>3
<1>2. n \in Nat /\ Pool(view)!Size({g}) = n
  <2>1. 1 \in 1..Len(groups) /\ g \subseteq Everyone
    BY SeenGroups
  <2>2. UNION {g} = g
    OBVIOUS
  <2> HIDE DEF g
  <2>3. Pool(view)!Size({g}) = Cardinality(g) /\ Cardinality(g) \in Nat
    BY <2>1, <2>2, SizeType
  <2>4. QED
    BY <2>3
<1>3. SetsOf(groups, 1) = {{g}}
  BY <1>1 DEF SetsOf
<1> HIDE DEF g, n
<1>4. DOMAIN s = {n} /\ s[n] = {g}
  OBVIOUS
<1>5. s \in Selections(groups)
  <2>1. s \in [{n} -> SUBSET Range(groups)]
    BY <1>1
  <2>2. {n} \in SUBSET Nat
    BY <1>2
  <2> HIDE DEF s
  <2>3. QED
    BY <2>1, <2>2 DEF Selections
<1> HIDE DEF s
<1>6. s \in SelectionsAt(view, groups, 1)
  BY <1>2, <1>3, <1>4, <1>5 DEF SelectionsAt
<1>7. QED
  BY <1>6 DEF s, n, g

\* One more group keeps what the selection promises.
LEMMA NextSelection ==
  ASSUME NEW view, NEW groups, SeparateGroups(groups), NEW i \in 2..Len(groups),
         TeamSize \in Nat, NEW s \in SelectionsAt(view, groups, i - 1)
  PROVE  Pool(view)!Extended(s, groups[i]) \in SelectionsAt(view, groups, i)
<1> DEFINE g == groups[i]
           k == Cardinality(g)
           fitting == {n \in {m + k : m \in DOMAIN s} : n <= Target}
           r == [n \in DOMAIN s \cup fitting |-> IF n \in DOMAIN s THEN s[n] ELSE s[n - k] \cup {g}]
           size(S) == Pool(view)!Size(S)
<1>1. i \in 1..Len(groups) /\ Target \in Nat /\ i \in Nat /\ i - 1 # 0
  BY SeenGroups DEF Target
<1>2. /\ Pool(view)!Cardinality(g) = k /\ k \in Nat \ {0}
      /\ \A S \in SUBSET Seen(groups, i - 1) : size(S) \in Nat /\ size(S \cup {g}) = size(S) + k
  BY <1>1, SizeAdds
<1>3. Pool(view)!Extended(s, g) = r
  BY <1>2 DEF Pool!Extended, Pool!Target, Target
<1>4. /\ Seen(groups, i) = Seen(groups, i - 1) \cup {g} /\ g \notin Seen(groups, i - 1)
      /\ Seen(groups, i) \subseteq Range(groups)
      /\ groups[1] \in Seen(groups, i - 1)
  <2>1. i - 1 \in 1..Len(groups)
    BY <1>1, SeenGroups
  <2>2. QED
    BY <1>1, <2>1, SeenGroups
<1>5. /\ s \in Selections(groups)
      /\ \A n \in DOMAIN s : s[n] \in SetsOf(groups, i - 1) /\ size(s[n]) = n
      /\ \A S \in SetsOf(groups, i - 1) : size(S) <= Target => size(S) \in DOMAIN s
  BY DEF SelectionsAt
<1>6. s \in [DOMAIN s -> SUBSET Range(groups)] /\ DOMAIN s \subseteq Nat
  BY <1>5 DEF Selections
<1> HIDE DEF g, k, size
<1>7. ASSUME NEW n \in DOMAIN r
      PROVE  n \in Nat /\ r[n] \in SetsOf(groups, i) /\ size(r[n]) = n
  <2>1. CASE n \in DOMAIN s
    BY <1>4, <1>5, <1>6, <2>1 DEF SetsOf
  <2>2. CASE n \notin DOMAIN s
    <3>1. PICK m \in DOMAIN s : n = m + k
      BY <2>2
    <3>2. m \in Nat /\ n - k = m /\ n \in Nat
      BY <1>2, <1>6, <3>1
    <3>3. r[n] = s[m] \cup {g}
      BY <2>2, <3>2
    <3>4. s[m] \in SUBSET Seen(groups, i - 1) /\ groups[1] \in s[m] /\ size(s[m]) = m
      BY <1>5 DEF SetsOf
    <3>5. s[m] \cup {g} \in SetsOf(groups, i)
      BY <1>4, <3>4 DEF SetsOf
    <3>6. QED
      BY <1>2, <3>1, <3>2, <3>3, <3>4, <3>5
  <2>3. QED
    BY <2>1, <2>2
<1>8. ASSUME NEW S \in SetsOf(groups, i), size(S) <= Target
      PROVE  size(S) \in DOMAIN r
  <2>1. CASE g \notin S
    <3>1. S \in SetsOf(groups, i - 1)
      BY <1>4, <2>1 DEF SetsOf
    <3>2. QED
      BY <1>5, <1>8, <3>1
  <2>2. CASE g \in S
    <3> DEFINE T == S \ {g}
    <3>1. T \in SUBSET Seen(groups, i - 1) /\ groups[1] \in T /\ S = T \cup {g}
      BY <1>4, <2>2 DEF SetsOf
    <3> HIDE DEF T
    <3>2. size(T) \in Nat /\ size(S) = size(T) + k
      BY <1>2, <3>1
    <3>3. size(T) <= Target
      BY <1>1, <1>2, <1>8, <3>2
    <3>4. size(T) \in DOMAIN s
      BY <1>5, <3>1, <3>3 DEF SetsOf
    <3>5. QED
      BY <1>8, <3>2, <3>4
  <2>3. QED
    BY <2>1, <2>2
<1>9. r \in Selections(groups)
  <2>1. DOMAIN r \in SUBSET Nat
    BY <1>7
  <2>2. \A n \in DOMAIN r : r[n] \in SUBSET Range(groups)
    BY <1>4, <1>7 DEF SetsOf
  <2>3. r = [n \in DOMAIN r |-> r[n]]
    OBVIOUS
  <2> HIDE DEF r
  <2>4. r \in [DOMAIN r -> SUBSET Range(groups)]
    BY <2>2, <2>3
  <2>5. QED
    BY <2>1, <2>4 DEF Selections
<1> HIDE DEF r
<1>10. r \in SelectionsAt(view, groups, i)
  BY <1>7, <1>8, <1>9 DEF SelectionsAt, size
<1>11. QED
  BY <1>3, <1>10 DEF g

\* The greedy search selects groups that make a match, if there are any: all
\* that it needs to keep is one set for each size (beam.go selectTenPlayers).
LEMMA SelectedGroupsAre ==
  ASSUME NEW view, NEW groups, SeparateGroups(groups), 1 <= Len(groups), TeamSize \in Nat
  PROVE  IF FullSets(groups, view) = {}
         THEN Pool(view)!SelectedGroups(groups) = {}
         ELSE Pool(view)!SelectedGroups(groups) \in FullSets(groups, view)
<1> DEFINE n == Len(groups)
           k == Cardinality(groups[1])
           first == [m \in {k} |-> {groups[1]}]
           V == Selections(groups)
           A == [i \in 1..n |-> SelectionsAt(view, groups, i)]
           Is(sets) == sets = [i \in 1..n |->
                         IF i = 1 THEN first ELSE Pool(view)!Extended(sets[i - 1], groups[i])]
           sets == CHOOSE sets : Is(sets)
           last == sets[n]
<1>1. n \in Nat /\ 1 \in 1..n /\ n \in 1..n /\ Target \in Nat
  BY SeenGroups DEF Target
<1>2. Pool(view)!SelectedGroups(groups) =
        IF k <= Target /\ Target \in DOMAIN last THEN last[Target] ELSE {}
  <2>1. Pool(view)!Cardinality(groups[1]) = k
    BY SameOperators
  <2>2. QED
    BY <2>1 DEF Pool!SelectedGroups, Pool!Target, Target
<1>3. ASSUME NEW i \in (1 + 1)..n, NEW s \in A[i - 1]
      PROVE  Pool(view)!Extended(s, groups[i]) \in A[i]
  <2>1. i \in 2..Len(groups) /\ i \in 1..n /\ i - 1 \in 1..n
    BY <1>1
  <2>2. A[i - 1] = SelectionsAt(view, groups, i - 1) /\ A[i] = SelectionsAt(view, groups, i)
    BY <2>1
  <2>3. QED
    BY <2>1, <2>2, NextSelection
<1>4. first \in A[1]
  <2>1. A[1] = SelectionsAt(view, groups, 1)
    BY <1>1
  <2>2. QED
    BY <2>1, FirstSelection
<1>5. \A i \in 1..n : A[i] \subseteq V
  BY DEF SelectionsAt
<1>6. A[n] = SelectionsAt(view, groups, n)
  BY <1>1
<1> DEFINE step == [x \in V \X (1..n) |-> Pool(view)!Extended(x[1], groups[x[2]])]
<1>7. \A s \in V : \A i \in 1..n : step[<<s, i>>] = Pool(view)!Extended(s, groups[i])
  OBVIOUS
<1> HIDE DEF A, V, first, n, step
<1>8. \E f : Is(f)
  <2>1. ASSUME NEW i \in (1 + 1)..n, NEW s \in A[i - 1]
        PROVE  step[<<s, i>>] \in A[i]
    <3>1. i \in 1..n /\ i - 1 \in 1..n
      BY <1>1
    <3>2. QED
      BY <1>3, <1>5, <1>7, <3>1
  <2>2. 1 \in Nat /\ 1 <= n
    BY <1>1
  <2>3. PICK f \in [1..n -> V] :
          f = Unrolled(f, 1, n, first, step) /\ \A i \in 1..n : f[i] \in A[i]
    <3>1. Leads(V, A, 1, n, first, step)
      BY <1>4, <1>5, <2>1, <2>2 DEF Leads
    <3>2. QED
      BY <1>1, <2>2, <3>1, StepByStep
  <2>4. ASSUME NEW i \in 1..n, i # 1
        PROVE  step[<<f[i - 1], i>>] = Pool(view)!Extended(f[i - 1], groups[i])
    <3>1. i - 1 \in 1..n
      BY <1>1, <2>4
    <3>2. QED
      BY <1>7, <2>3, <3>1
  <2>5. Is(f)
    BY <2>3, <2>4 DEF Unrolled
  <2> HIDE DEF Is
  <2>6. QED
    BY <2>5
<1>9. Is(sets)
  <2> HIDE DEF Is
  <2>1. QED
    BY <1>8
<1> HIDE DEF sets
<1>10. last \in SelectionsAt(view, groups, n)
  <2>1. sets[1] \in A[1]
    BY <1>1, <1>4, <1>9
  <2>2. ASSUME NEW i \in (1 + 1)..n, sets[i - 1] \in A[i - 1]
        PROVE  sets[i] \in A[i]
    <3>1. i \in 1..n /\ i # 1
      BY <1>1
    <3>2. sets[i] = Pool(view)!Extended(sets[i - 1], groups[i])
      BY <1>9, <3>1
    <3>3. QED
      BY <1>3, <2>2, <3>2
  <2>3. \A i \in 1..n : sets[i] \in A[i]
    <3> HIDE DEF Is
    <3>1. QED
      BY <1>1, <2>1, <2>2, Carried
  <2>4. QED
    BY <1>1, <1>6, <2>3
<1> HIDE DEF last, Is
<1>11. SetsOf(groups, n) = {S \in SUBSET Range(groups) : groups[1] \in S}
  BY SeenGroups DEF SetsOf, n
<1>12. FullSets(groups, view) = {S \in SetsOf(groups, n) : Pool(view)!Size(S) = Target}
  BY <1>11 DEF FullSets
<1>13. ASSUME NEW S \in FullSets(groups, view) PROVE k <= Target
  <2>1. 1 \in 1..Len(groups) /\ Seen(groups, 1 - 1) = {}
    BY <1>1 DEF n, Seen
  <2>2. UNION S \subseteq Everyone /\ groups[1] \in S /\ Pool(view)!Size(S) = Target
    <3>1. S \in SUBSET Range(groups) /\ groups[1] \in S /\ Pool(view)!Size(S) = Target
      BY <1>11, <1>12
    <3>2. Range(groups) \subseteq SUBSET Everyone
      BY DEF SeparateGroups, Range
    <3>3. QED
      BY <3>1, <3>2
  <2>3. IsFiniteSet(UNION S) /\ Cardinality(UNION S) = Target
    BY <2>2, SizeType
  <2>4. groups[1] \in SUBSET UNION S
    BY <2>2
  <2>5. QED
    BY <2>3, <2>4, FS_Subset
<1>14. CASE FullSets(groups, view) = {}
  <2>1. Target \notin DOMAIN last
    BY <1>10, <1>12, <1>14 DEF SelectionsAt
  <2>2. QED
    BY <1>2, <1>14, <2>1
<1>15. CASE FullSets(groups, view) # {}
  <2>1. PICK S \in SetsOf(groups, n) : Pool(view)!Size(S) = Target /\ S \in FullSets(groups, view)
    BY <1>12, <1>15
  <2>2. Target \in DOMAIN last /\ k <= Target
    BY <1>1, <1>10, <1>13, <2>1 DEF SelectionsAt
  <2>3. last[Target] \in FullSets(groups, view)
    BY <1>10, <1>12, <2>2 DEF SelectionsAt
  <2>4. QED
    BY <1>2, <1>15, <2>2, <2>3
<1>16. QED
  BY <1>14, <1>15

-----------------------------------------------------------------------------
(* The beam search *)

\* The width of the beam is enough for all the sets that have the first group.
Wide(view, groups) == 2^(Len(groups) - 1) <= ForMode(view.policy, Mode).beamWidth

\* A set of the first i groups that a match continues.
Continued(view, groups, S, i) ==
  \E T \in FullSets(groups, view) : S = T \cap Seen(groups, i)

\* What the beam holds when i groups have been seen: sets that have the first
\* group, and if it is wide enough all that a match continues.
BeamsAt(view, groups, i) ==
  {beam \in SUBSET SetsOf(groups, i) :
     Wide(view, groups) =>
       \A S \in SetsOf(groups, i) : Continued(view, groups, S, i) => S \in beam}

\* There are as many sets with the first group as there are sets of the others.
LEMMA SetsAreCounted ==
  ASSUME NEW groups, SeparateGroups(groups), 1 <= Len(groups),
         NEW sets \in SUBSET SetsOf(groups, Len(groups)), NEW S \in sets,
         NEW better \in SUBSET sets, S \notin better
  PROVE  /\ Cardinality(better) \in Nat
         /\ 2^(Len(groups) - 1) \in Nat
         /\ Cardinality(better) < 2^(Len(groups) - 1)
<1> DEFINE n == Len(groups)
           R == Range(groups)
           others == R \ {groups[1]}
           all == SetsOf(groups, n)
           rest == [T \in all |-> T \ {groups[1]}]
<1>1. n \in Nat /\ 1 \in 1..n /\ DOMAIN groups = 1..n
  BY SeenGroups DEF SeparateGroups
<1>2. IsFiniteSet(R) /\ Cardinality(R) = n
  <2>1. groups \in [1..n -> R] /\ \A x \in R : \E i \in 1..n : groups[i] = x
    BY <1>1 DEF Range, SeparateGroups
  <2>2. groups \in Bijection(1..n, R)
    <3>1. \A i, j \in 1..n : groups[i] = groups[j] => i = j
      BY <1>1 DEF SeparateGroups, OneToOne
    <3> HIDE DEF R, n
    <3>2. QED
      BY <2>1, <3>1 DEF Bijection, Injection, Surjection, IsInjective
  <2>3. IsFiniteSet(1..n) /\ Cardinality(1..n) = n
    BY <1>1, FS_Interval
  <2> HIDE DEF R, n
  <2>4. ExistsBijection(1..n, R)
    BY <2>2 DEF ExistsBijection
  <2>5. QED
    BY <2>3, <2>4, FS_Bijection
<1>3. groups[1] \in R /\ all = {T \in SUBSET R : groups[1] \in T}
  <2>1. groups[1] \in R
    BY <1>1 DEF Range
  <2>2. QED
    BY <2>1, SeenGroups DEF SetsOf
<1> HIDE DEF n, R, all
<1>4. IsFiniteSet(others) /\ Cardinality(others) = n - 1
  BY <1>2, <1>3, FS_RemoveElement
<1>5. IsFiniteSet(SUBSET others) /\ Cardinality(SUBSET others) = 2^(n - 1)
  BY <1>4, FS_SUBSET
<1>6. rest \in Injection(all, SUBSET others)
  <2>1. \A T \in all : rest[T] = T \ {groups[1]} /\ rest[T] \in SUBSET others
    BY <1>3
  <2>2. ASSUME NEW T \in all, NEW U \in all, rest[T] = rest[U]
        PROVE  T = U
    <3>1. groups[1] \in T /\ groups[1] \in U /\ T \ {groups[1]} = U \ {groups[1]}
      BY <1>3, <2>2
    <3>2. T = (T \ {groups[1]}) \cup {groups[1]} /\ U = (U \ {groups[1]}) \cup {groups[1]}
      BY <3>1
    <3>3. QED
      BY <3>1, <3>2
  <2>3. rest \in [all -> SUBSET others]
    BY <2>1
  <2> HIDE DEF rest, others
  <2>4. QED
    BY <2>2, <2>3 DEF Injection, IsInjective
<1>7. IsFiniteSet(all) /\ Cardinality(all) <= 2^(n - 1)
  <2> HIDE DEF rest, others
  <2>1. QED
    BY <1>5, <1>6, FS_Injection
<1>8. Cardinality(all) \in Nat /\ 2^(n - 1) \in Nat
  BY <1>5, <1>7, FS_CardinalityType
<1>9. S \in all /\ better \in SUBSET (all \ {S})
  BY DEF all, n
<1>10. /\ IsFiniteSet(all \ {S}) /\ Cardinality(all \ {S}) = Cardinality(all) - 1
  BY <1>7, <1>9, FS_RemoveElement
<1>11. IsFiniteSet(better) /\ Cardinality(better) <= Cardinality(all) - 1
  BY <1>9, <1>10, FS_Subset
<1>12. Cardinality(better) \in Nat
  BY <1>11, FS_CardinalityType
<1>13. Cardinality(better) < 2^(n - 1)
  <2> DEFINE w == 2^(n - 1)
  <2>1. w \in Nat /\ Cardinality(all) <= w
    BY <1>7, <1>8
  <2> HIDE DEF w
  <2>2. Cardinality(better) < w
    BY <1>8, <1>11, <1>12, <2>1
  <2>3. QED
    BY <2>2 DEF w
<1>14. QED
  BY <1>8, <1>12, <1>13 DEF n

\* The cut takes nothing from a beam that is wide enough.
LEMMA CutKeeps ==
  ASSUME NEW view, NEW groups, SeparateGroups(groups), 1 <= Len(groups),
         Valid(ForMode(view.policy, Mode)),
         NEW sets \in SUBSET SetsOf(groups, Len(groups)), NEW i
  PROVE  /\ Pool(view)!Cut(sets, i, groups) \subseteq sets
         /\ Wide(view, groups) => Pool(view)!Cut(sets, i, groups) = sets
<1> DEFINE score == [S \in sets |-> Pool(view)!Heuristic(S, i, groups)]
           Better(S, T) ==
             /\ S # T
             /\ \/ score[S] > score[T]
                \/ score[S] = score[T] /\ Pool(view)!SignatureBefore(UNION S, UNION T)
           ahead(S) == {T \in sets : Better(T, S)}
           width == ForMode(view.policy, Mode).beamWidth
<1>1. Pool(view)!Cut(sets, i, groups) = {S \in sets : Cardinality(ahead(S)) < width}
  BY SameOperators DEF Pool!Cut
<1>2. \A S \in sets : S \notin ahead(S) /\ ahead(S) \in SUBSET sets
  OBVIOUS
<1> HIDE DEF ahead
<1>3. ASSUME Wide(view, groups), NEW S \in sets
      PROVE  Cardinality(ahead(S)) < width
  <2> DEFINE w == 2^(Len(groups) - 1)
             c == Cardinality(ahead(S))
  <2>1. c \in Nat /\ w \in Nat /\ c < w
    BY <1>2, SetsAreCounted
  <2>2. w <= width /\ width \in Int
    BY <1>3 DEF Wide, Valid, MatchPolicy
  <2> HIDE DEF w, c, width
  <2>3. c < width
    BY <2>1, <2>2
  <2>4. QED
    BY <2>3 DEF c
<1> HIDE DEF width
<1>4. QED
  BY <1>1, <1>3

\* One more group keeps what the beam promises: what is given up could not be
\* completed.
LEMMA NextBeamHolds ==
  ASSUME NEW view, NEW groups, SeparateGroups(groups), NEW i \in 2..Len(groups),
         TeamSize \in Nat, Valid(ForMode(view.policy, Mode)), NEW beam \in BeamsAt(view, groups, i - 1)
  PROVE  Pool(view)!NextBeam(beam, i, groups) \in BeamsAt(view, groups, i)
<1> DEFINE g == groups[i]
           k == Cardinality(g)
           n == Len(groups)
           size(S) == Pool(view)!Size(S)
           Rest == {groups[j] : j \in (i + 1)..n}
           kept == {S \in beam : Pool(view)!SuffixSuffices(size(S), size(Rest))}
           fitting == {S \in beam : size(S) + k <= Target}
           sets == kept \cup {S \cup {g} : S \in fitting}
<1>1. /\ i \in 1..n /\ n \in Nat /\ i \in Nat /\ 1 <= n
      /\ i - 1 \in 1..n /\ n \in 1..n /\ Target \in Nat
  BY SeenGroups DEF Target
<1>2. /\ Pool(view)!Cardinality(g) = k /\ k \in Nat \ {0}
      /\ \A S \in SUBSET Seen(groups, i - 1) : size(S) \in Nat /\ size(S \cup {g}) = size(S) + k
  BY <1>1, SizeAdds
<1>3. Pool(view)!NextBeam(beam, i, groups) = Pool(view)!Cut(sets, i, groups)
  BY <1>2 DEF Pool!NextBeam, Pool!Target, Target
<1>4. /\ Seen(groups, i) = Seen(groups, i - 1) \cup {g} /\ g \notin Seen(groups, i - 1)
      /\ Seen(groups, i) \subseteq Range(groups) /\ Seen(groups, n) = Range(groups)
      /\ g \in Range(groups)
  BY <1>1, SeenGroups
<1>5. /\ beam \in SUBSET SetsOf(groups, i - 1)
      /\ Wide(view, groups) =>
           \A S \in SetsOf(groups, i - 1) : Continued(view, groups, S, i - 1) => S \in beam
  BY DEF BeamsAt
<1>6. \A T \in FullSets(groups, view) :
        T \in SUBSET Range(groups) /\ groups[1] \in T /\ size(T) = Target
  BY DEF FullSets
<1>7. Range(groups) \subseteq SUBSET Everyone
  BY DEF SeparateGroups, Range
<1>8. Range(groups) \subseteq Seen(groups, i) \cup Rest /\ Rest \subseteq Range(groups)
  <2>1. 1..n \subseteq (1..i) \cup ((i + 1)..n) /\ (i + 1)..n \subseteq 1..n /\ DOMAIN groups = 1..n
    BY <1>1 DEF SeparateGroups
  <2>2. QED
    BY <2>1 DEF Range, Seen
<1> HIDE DEF g, k, n, size, Rest
<1>9. sets \in SUBSET SetsOf(groups, i)
  BY <1>4, <1>5 DEF SetsOf
<1>10. ASSUME NEW T \in FullSets(groups, view), Wide(view, groups)
       PROVE  T \cap Seen(groups, i) \in sets
  <2> DEFINE S == T \cap Seen(groups, i - 1)
  <2>1. S \in beam /\ S \in SUBSET Seen(groups, i - 1)
    <3>1. groups[1] \in Seen(groups, i - 1)
      BY <1>1, SeenGroups DEF n
    <3>2. S \in SetsOf(groups, i - 1)
      BY <1>6, <3>1 DEF SetsOf
    <3>3. Continued(view, groups, S, i - 1)
      BY DEF Continued
    <3>4. QED
      BY <1>5, <1>10, <3>2, <3>3
  <2>2. CASE g \in T
    <3>1. T \cap Seen(groups, i) = S \cup {g}
      BY <1>4, <2>2
    <3>2. size(S \cup {g}) <= Target
      <4>1. UNION T \subseteq Everyone /\ (UNION (S \cup {g})) \subseteq UNION T
        BY <1>6, <1>7, <2>2
      <4>2. UNION (S \cup {g}) \subseteq Everyone
        BY <4>1
      <4>3. /\ IsFiniteSet(UNION T) /\ size(T) = Cardinality(UNION T)
            /\ size(S \cup {g}) = Cardinality(UNION (S \cup {g}))
        BY <4>1, <4>2, SizeType DEF size
      <4>4. UNION (S \cup {g}) \in SUBSET UNION T
        BY <4>1
      <4>5. QED
        BY <1>6, <4>3, <4>4, FS_Subset
    <3>3. S \in fitting
      BY <1>2, <2>1, <3>2
    <3>4. QED
      BY <3>1, <3>3
  <2>3. CASE g \notin T
    <3>1. T \cap Seen(groups, i) = S
      BY <1>4, <2>3
    <3>2. T \subseteq S \cup Rest
      BY <1>6, <1>8, <3>1
    <3> HIDE DEF S
    <3>3. /\ UNION T \subseteq Everyone /\ UNION S \subseteq Everyone /\ UNION Rest \subseteq Everyone
          /\ UNION T \subseteq (UNION S) \cup (UNION Rest)
      <4>1. S \subseteq Range(groups)
        BY <1>4, <2>1
      <4>2. QED
        BY <1>6, <1>7, <1>8, <3>2, <4>1
    <3>4. /\ IsFiniteSet(UNION S) /\ IsFiniteSet(UNION Rest)
          /\ size(T) = Cardinality(UNION T) /\ size(S) = Cardinality(UNION S)
          /\ size(Rest) = Cardinality(UNION Rest)
          /\ size(T) \in Nat /\ size(S) \in Nat /\ size(Rest) \in Nat
      BY <3>3, SizeType DEF size
    <3>5. /\ IsFiniteSet((UNION S) \cup (UNION Rest))
          /\ Cardinality((UNION S) \cup (UNION Rest)) <= size(S) + size(Rest)
      <4>1. Cardinality((UNION S) \cap (UNION Rest)) \in Nat
        BY <3>4, FS_Intersection, FS_CardinalityType
      <4>2. IsFiniteSet(UNION S) /\ IsFiniteSet(UNION Rest)
        BY <3>4
      <4>3. /\ IsFiniteSet((UNION S) \cup (UNION Rest))
            /\ Cardinality((UNION S) \cup (UNION Rest)) =
                 Cardinality(UNION S) + Cardinality(UNION Rest)
                   - Cardinality((UNION S) \cap (UNION Rest))
        BY <4>2, FS_Union
      <4>4. QED
        BY <3>4, <4>1, <4>3
    <3>6. size(T) <= size(S) + size(Rest)
      <4>1. UNION T \in SUBSET ((UNION S) \cup (UNION Rest))
        BY <3>3
      <4>2. Cardinality((UNION S) \cup (UNION Rest)) \in Nat
        BY <3>5, FS_CardinalityType
      <4>3. QED
        BY <3>4, <3>5, <4>1, <4>2, FS_Subset
    <3>7. Pool(view)!SuffixSuffices(size(S), size(Rest))
      BY <1>6, <3>6 DEF Pool!SuffixSuffices, Pool!Target, Target
    <3>8. QED
      BY <2>1, <3>1, <3>7
  <2>4. QED
    BY <2>2, <2>3
<1>11. sets \in SUBSET SetsOf(groups, n)
  BY <1>4, <1>9 DEF SetsOf
<1> HIDE DEF sets
<1>12. /\ Pool(view)!Cut(sets, i, groups) \subseteq sets
       /\ Wide(view, groups) => Pool(view)!Cut(sets, i, groups) = sets
  BY <1>1, <1>11, CutKeeps DEF n
<1>13. Pool(view)!Cut(sets, i, groups) \in BeamsAt(view, groups, i)
  BY <1>9, <1>10, <1>12 DEF BeamsAt, Continued
<1>14. QED
  BY <1>3, <1>13

\* The beam search tries sets that make a match only, and all of them if its
\* width does not cut any off (beam.go beamCandidateSets).
LEMMA BeamSetsAre ==
  ASSUME NEW view, NEW groups, SeparateGroups(groups), 1 <= Len(groups),
         TeamSize \in Nat, Valid(ForMode(view.policy, Mode))
  PROVE  /\ Pool(view)!BeamSets(groups) \subseteq FullSets(groups, view)
         /\ Wide(view, groups) /\ Cardinality(groups[1]) <= TeamSize =>
              Pool(view)!BeamSets(groups) = FullSets(groups, view)
<1> DEFINE n == Len(groups)
           k == Cardinality(groups[1])
           first == {{groups[1]}}
           V == SUBSET SetsOf(groups, n)
           A == [i \in 1..n |-> BeamsAt(view, groups, i)]
           Is(beam) == beam = [i \in 1..n |->
                         IF i = 1 THEN first ELSE Pool(view)!NextBeam(beam[i - 1], i, groups)]
           beams == CHOOSE beam : Is(beam)
           last == beams[n]
<1>1. n \in Nat /\ 1 \in 1..n /\ n \in 1..n
  BY SeenGroups
<1>2. Pool(view)!BeamSets(groups) =
        IF k > TeamSize THEN {} ELSE {S \in last : Pool(view)!Size(S) = Target}
  <2>1. Pool(view)!Cardinality(groups[1]) = k
    BY SameOperators
  <2>2. QED
    BY <2>1 DEF Pool!BeamSets, Pool!Target, Target
<1>3. ASSUME NEW i \in (1 + 1)..n, NEW beam \in A[i - 1]
      PROVE  Pool(view)!NextBeam(beam, i, groups) \in A[i]
  <2>1. i \in 2..Len(groups) /\ i \in 1..n /\ i - 1 \in 1..n
    BY <1>1
  <2>2. A[i - 1] = BeamsAt(view, groups, i - 1) /\ A[i] = BeamsAt(view, groups, i)
    BY <2>1
  <2>3. QED
    BY <2>1, <2>2, NextBeamHolds
<1>4. first \in A[1]
  <2>1. A[1] = BeamsAt(view, groups, 1)
    BY <1>1
  <2>2. Seen(groups, 1) = {groups[1]}
    BY DEF Seen
  <2>3. SetsOf(groups, 1) = {{groups[1]}}
    BY <2>2 DEF SetsOf
  <2>4. QED
    BY <2>1, <2>3 DEF BeamsAt
<1>5. \A i \in 1..n : A[i] \subseteq V
  <2>1. ASSUME NEW i \in 1..n PROVE SetsOf(groups, i) \subseteq SetsOf(groups, n)
    BY SeenGroups DEF SetsOf
  <2>2. QED
    BY <2>1 DEF BeamsAt
<1>6. A[n] = BeamsAt(view, groups, n)
  BY <1>1
<1> DEFINE step == [x \in V \X (1..n) |-> Pool(view)!NextBeam(x[1], x[2], groups)]
<1>7. \A s \in V : \A i \in 1..n : step[<<s, i>>] = Pool(view)!NextBeam(s, i, groups)
  OBVIOUS
<1> HIDE DEF A, V, first, n, step
<1>8. \E f : Is(f)
  <2>1. ASSUME NEW i \in (1 + 1)..n, NEW s \in A[i - 1]
        PROVE  step[<<s, i>>] \in A[i]
    <3>1. i \in 1..n /\ i - 1 \in 1..n
      BY <1>1
    <3>2. QED
      BY <1>3, <1>5, <1>7, <3>1
  <2>2. 1 \in Nat /\ 1 <= n
    BY <1>1
  <2>3. PICK f \in [1..n -> V] :
          f = Unrolled(f, 1, n, first, step) /\ \A i \in 1..n : f[i] \in A[i]
    <3>1. Leads(V, A, 1, n, first, step)
      BY <1>4, <1>5, <2>1, <2>2 DEF Leads
    <3>2. QED
      BY <1>1, <2>2, <3>1, StepByStep
  <2>4. ASSUME NEW i \in 1..n, i # 1
        PROVE  step[<<f[i - 1], i>>] = Pool(view)!NextBeam(f[i - 1], i, groups)
    <3>1. i - 1 \in 1..n
      BY <1>1, <2>4
    <3>2. QED
      BY <1>7, <2>3, <3>1
  <2>5. Is(f)
    BY <2>3, <2>4 DEF Unrolled
  <2> HIDE DEF Is
  <2>6. QED
    BY <2>5
<1>9. Is(beams)
  <2> HIDE DEF Is
  <2>1. QED
    BY <1>8
<1> HIDE DEF beams
<1>10. last \in BeamsAt(view, groups, n)
  <2>1. beams[1] \in A[1]
    BY <1>1, <1>4, <1>9
  <2>2. ASSUME NEW i \in (1 + 1)..n, beams[i - 1] \in A[i - 1]
        PROVE  beams[i] \in A[i]
    <3>1. i \in 1..n /\ i # 1
      BY <1>1
    <3>2. beams[i] = Pool(view)!NextBeam(beams[i - 1], i, groups)
      BY <1>9, <3>1
    <3>3. QED
      BY <1>3, <2>2, <3>2
  <2>3. \A i \in 1..n : beams[i] \in A[i]
    <3> HIDE DEF Is
    <3>1. QED
      BY <1>1, <2>1, <2>2, Carried
  <2>4. QED
    BY <1>1, <1>6, <2>3
<1> HIDE DEF last, Is
<1>11. /\ SetsOf(groups, n) = {S \in SUBSET Range(groups) : groups[1] \in S}
       /\ Seen(groups, n) = Range(groups)
  BY SeenGroups DEF SetsOf, n
<1>12. FullSets(groups, view) = {S \in SetsOf(groups, n) : Pool(view)!Size(S) = Target}
  BY <1>11 DEF FullSets
<1>13. \A S \in FullSets(groups, view) : Continued(view, groups, S, n)
  BY <1>11 DEF Continued, FullSets
<1>14. Pool(view)!BeamSets(groups) \subseteq FullSets(groups, view)
  BY <1>2, <1>10, <1>12 DEF BeamsAt
<1>15. ASSUME Wide(view, groups), k <= TeamSize
       PROVE  FullSets(groups, view) \subseteq Pool(view)!BeamSets(groups)
  <2>1. k \in Nat
    <3>1. IsFiniteSet(groups[1])
      BY <1>1, SeenGroups, TicketsAssumption, FS_Subset DEF n
    <3>2. QED
      BY <3>1, FS_CardinalityType
  <2>2. ~(k > TeamSize)
    BY <1>15, <2>1
  <2>3. \A S \in FullSets(groups, view) : S \in last
    BY <1>10, <1>12, <1>13, <1>15 DEF BeamsAt
  <2>4. QED
    BY <1>2, <1>12, <2>2, <2>3
<1>16. QED
  BY <1>14, <1>15

-----------------------------------------------------------------------------
(* The candidates of the pool *)

\* The mode of the pool leaves a valid policy, with its search and its width.
LEMMA ModePolicy ==
  ASSUME NEW P, Valid(P)
  PROVE  /\ Valid(ForMode(P, Mode))
         /\ ForMode(P, Mode) \in MatchPolicy
         /\ ForMode(P, Mode).algorithm = P.algorithm
         /\ ForMode(P, Mode).beamWidth = P.beamWidth
<1>1. P \in MatchPolicy
  BY DEF Valid
<1>2. Valid(ForMode(P, Mode))
  BY PolicyAssumption, EveryModeIsValid
<1>3. /\ ForMode(P, Mode).algorithm = P.algorithm
      /\ ForMode(P, Mode).beamWidth = P.beamWidth
  <2>1. CASE Mode = "ranked_5v5"
    BY <2>1 DEF ForMode
  <2>2. CASE Mode = "normal_5v5"
    <3>1. ForMode(P, Mode) = EarlierRoles(WiderRange(P))
      BY <2>2 DEF ForMode
    <3>2. QED
      BY <1>1, <3>1 DEF EarlierRoles, WiderRange, MatchPolicy
  <2>3. CASE Mode = "training_5v5"
    <3>1. ForMode(P, Mode) = AnyRoles(AnyLatency(AnyRating(P)))
      BY <2>3 DEF ForMode
    <3>2. QED
      BY <1>1, <3>1 DEF AnyRoles, AnyLatency, AnyRating, MatchPolicy
  <2>4. QED
    BY <2>1, <2>2, <2>3, PolicyAssumption DEF Modes
<1>4. QED
  BY <1>2, <1>3 DEF Valid

\* The tickets that are read wait.
LEMMA SnapshotWaits ==
  ASSUME NEW view, Fits(view)
  PROVE  /\ Pool(view)!Snapshot \in SUBSET DOMAIN view.created
         /\ DOMAIN view.created \subseteq Everyone
BY DEF Pool!Snapshot, Fits, IsMap

\* The search works on groups of the tickets read that have been accepted.
LEMMA PoolCandidates ==
  ASSUME NEW view, Fits(view)
  PROVE  /\ Range(Pool(view)!Candidates) \subseteq Accepted(view, Pool(view)!Snapshot)
         /\ SeparateGroups(Pool(view)!Candidates)
         /\ Pool(view)!EnoughPlayers(Pool(view)!Candidates) => 1 <= Len(Pool(view)!Candidates)
<1> DEFINE S == Pool(view)!Snapshot
           groups == Pool(view)!Candidates
           G == Accepted(view, S)
<1>1. S \in SUBSET DOMAIN view.created /\ S \subseteq Everyone
  BY SnapshotWaits
<1>2. groups = Pool(view)!CandidatesOf(S)
  BY DEF Pool!Candidates
<1> HIDE DEF S, groups
<1>3. groups \in Seq(G) /\ OneToOne(groups)
  BY <1>1, <1>2, CandidatesAre
<1>4. \A g \in G : g \in GroupsIn(view, S)
  BY DEF Accepted
<1>5. /\ \A g \in G : g # {} /\ g \subseteq Everyone
      /\ \A g, h \in G : g \cap h # {} => g = h
  BY <1>1, <1>4, GroupsPartition
<1> HIDE DEF G
<1>6. \A i \in DOMAIN groups : groups[i] \in G
  BY <1>3
<1>7. groups \in Seq(SUBSET Everyone)
  <2>1. G \subseteq SUBSET Everyone
    BY <1>5
  <2>2. QED
    BY <1>3, <2>1
<1>8. SeparateGroups(groups)
  BY <1>3, <1>5, <1>6, <1>7 DEF SeparateGroups, OneToOne
<1>9. Range(groups) \subseteq G
  BY <1>6 DEF Range
<1>10. ASSUME Pool(view)!EnoughPlayers(groups) PROVE 1 <= Len(groups)
  <2>1. SUFFICES ASSUME Len(groups) = 0 PROVE FALSE
    BY <1>3
  <2>2. Range(groups) = {}
    BY <1>3, <2>1 DEF Range
  <2>3. UNION {} = {} /\ {} \subseteq Everyone
    OBVIOUS
  <2>4. Pool(view)!Size({}) = 0
    BY <2>3, SizeType, FS_EmptySet
  <2>5. Pool(view)!Size({}) >= Target
    BY <1>10, <2>2, SameOperators DEF Pool!EnoughPlayers, Pool!Target, Target
  <2>6. QED
    BY <2>4, <2>5, TeamSizeAssumption DEF Target
<1>11. QED
  BY <1>8, <1>9, <1>10 DEF G, S, groups

\* Both searches form teams from some of the candidates.
LEMMA TeamsAreSplits ==
  ASSUME NEW view, Fits(view), NEW region,
         NEW f \in Pool(view)!OptimizeTeams(Pool(view)!Candidates, region)
  PROVE  \E S \in SUBSET Range(Pool(view)!Candidates) :
           f \in Pool(view)!Splits(S, Pool(view)!Candidates[1])
<1> DEFINE groups == Pool(view)!Candidates
<1>1. SeparateGroups(groups) /\ (Pool(view)!EnoughPlayers(groups) => 1 <= Len(groups))
  BY PoolCandidates
<1> HIDE DEF groups
<1>2. CASE f \in Pool(view)!Greedy(groups)
  <2>1. /\ Pool(view)!EnoughPlayers(groups)
        /\ f \in Pool(view)!Splits(Pool(view)!SelectedGroups(groups), groups[1])
    BY <1>2 DEF Pool!Greedy, Pool!Best
  <2>2. Pool(view)!SelectedGroups(groups) \in SUBSET Range(groups)
    BY <1>1, <2>1, SelectedGroupsAre, TeamSizeAssumption DEF FullSets
  <2>3. QED
    BY <2>1, <2>2 DEF groups
<1>3. CASE f \in Pool(view)!Beam(groups, region)
  <2>1. /\ Pool(view)!EnoughPlayers(groups)
        /\ \E S \in Pool(view)!BeamSets(groups) : f \in Pool(view)!Splits(S, groups[1])
    BY <1>3 DEF Pool!Beam, Pool!Best
  <2>2. Pool(view)!BeamSets(groups) \subseteq FullSets(groups, view)
    BY <1>1, <2>1, BeamSetsAre, TeamSizeAssumption, ModePolicy DEF Fits
  <2>3. QED
    BY <2>1, <2>2 DEF groups, FullSets
<1>4. QED
  BY <1>2, <1>3 DEF groups, Pool!OptimizeTeams

\* The two teams of a split are full and have no ticket in common; the groups
\* are not torn.
LEMMA SplitsAre ==
  ASSUME NEW view, NEW groups, SeparateGroups(groups), NEW S \in SUBSET Range(groups),
         NEW first, NEW f \in Pool(view)!Splits(S, first)
  PROVE  /\ f.teamA \cup f.teamB = UNION S
         /\ f.teamA \cap f.teamB = {}
         /\ first \subseteq f.teamA
         /\ IsFiniteSet(f.teamA) /\ Cardinality(f.teamA) = TeamSize
         /\ IsFiniteSet(f.teamB) /\ Cardinality(f.teamB) = TeamSize
         /\ \A g \in S : g \subseteq f.teamA \/ g \subseteq f.teamB
<1>1. PICK A \in SUBSET S : f = [teamA |-> UNION A, teamB |-> UNION (S \ A)]
  BY DEF Pool!Splits
<1>2. /\ first \subseteq f.teamA
      /\ Cardinality(f.teamA) = TeamSize /\ Cardinality(f.teamB) = TeamSize
  BY SameOperators DEF Pool!Splits
<1>3. f.teamA = UNION A /\ f.teamB = UNION (S \ A)
  BY <1>1
<1>4. \A g \in S : g \subseteq Everyone /\ \A h \in S : g \cap h # {} => g = h
  BY DEF SeparateGroups, Range
<1>5. IsFiniteSet(f.teamA) /\ IsFiniteSet(f.teamB)
  <2>1. f.teamA \in SUBSET Everyone /\ f.teamB \in SUBSET Everyone
    BY <1>3, <1>4
  <2>2. QED
    BY <2>1, TicketsAssumption, FS_Subset
<1>6. f.teamA \cap f.teamB = {}
  BY <1>3, <1>4
<1>7. f.teamA \cup f.teamB = UNION S /\ \A g \in S : g \subseteq f.teamA \/ g \subseteq f.teamB
  BY <1>3
<1>8. QED
  BY <1>2, <1>5, <1>6, <1>7

-----------------------------------------------------------------------------
(* The pool itself *)

\* The tickets of the queue have the numbers that order them.
PoolFits ==
  /\ IsMap(queue, Tickets, Nat)
  /\ now \in Nat

\* So has what a worker sees of the pool.
LEMMA ViewFits ==
  ASSUME PoolFits, NEW P \in BasePolicies
  PROVE  Fits(View(P))
<1>1. Tickets \subseteq Everyone
  BY DEF Everyone
<1>2. /\ View(P).created = queue /\ View(P).at = now /\ View(P).policy = P
  BY DEF View
<1>3. QED
  BY <1>1, <1>2, PolicyAssumption DEF Fits, PoolFits, IsMap

-----------------------------------------------------------------------------
(* Both searches find what there is to find *)

\* The greedy selection is complete in every state of the pool.
LEMMA SelectionHolds ==
  ASSUME PoolFits
  PROVE  SelectionIsComplete
<1>1. ASSUME NEW view, Fits(view), Found(Pool(view)!Candidates, view)
      PROVE  IF FullSets(Pool(view)!Candidates, view) = {}
             THEN Pool(view)!SelectedGroups(Pool(view)!Candidates) = {}
             ELSE Pool(view)!SelectedGroups(Pool(view)!Candidates) \in FullSets(Pool(view)!Candidates, view)
  <2>1. SeparateGroups(Pool(view)!Candidates) /\ 1 <= Len(Pool(view)!Candidates)
    BY <1>1, PoolCandidates DEF Found
  <2>2. QED
    BY <2>1, SelectedGroupsAre, TeamSizeAssumption
<1>2. QED
  BY <1>1, ViewFits DEF SelectionIsComplete

\* No beam that is wide enough misses teams, not even those of the greedy
\* search.
LEMMA BeamHolds ==
  ASSUME PoolFits
  PROVE  BeamIsOptimal
<1> DEFINE Optimal(view, region) ==
             LET groups == Pool(view)!Candidates
                 teams == (UNION {Pool(view)!Splits(S, groups[1]) : S \in FullSets(groups, view)})
                            \cup Pool(view)!Greedy(groups)
                 Loss(f) == -Pool(view)!Quality(f, region).total
             IN  Pool(view)!Beam(groups, region) = Pool(view)!Best(teams, Loss)
<1>1. ASSUME NEW view, Fits(view), Found(Pool(view)!Candidates, view),
             2^(Len(Pool(view)!Candidates) - 1) <= view.policy.beamWidth
      PROVE  LET groups == Pool(view)!Candidates
             IN  UNION {Pool(view)!Splits(S, groups[1]) : S \in Pool(view)!BeamSets(groups)} =
                 (UNION {Pool(view)!Splits(S, groups[1]) : S \in FullSets(groups, view)})
                   \cup Pool(view)!Greedy(groups)
  <2> DEFINE groups == Pool(view)!Candidates
             sets == FullSets(groups, view)
             selected == Pool(view)!SelectedGroups(groups)
  <2>1. SeparateGroups(groups) /\ 1 <= Len(groups) /\ 1 \in 1..Len(groups)
    BY <1>1, PoolCandidates, SeenGroups DEF Found
  <2>2. Wide(view, groups)
    BY <1>1, ModePolicy DEF Wide, Fits
  <2> HIDE DEF groups
  <2>3. sets \subseteq SUBSET Range(groups)
    BY DEF FullSets
  <2>4. /\ Pool(view)!BeamSets(groups) \subseteq sets
        /\ Cardinality(groups[1]) <= TeamSize => Pool(view)!BeamSets(groups) = sets
    BY <1>1, <2>1, <2>2, BeamSetsAre, ModePolicy, TeamSizeAssumption DEF Fits
  <2>5. ASSUME NEW S \in SUBSET Range(groups), NEW f \in Pool(view)!Splits(S, groups[1])
        PROVE  S # {} /\ Cardinality(groups[1]) <= TeamSize
    <3>1. /\ groups[1] \in SUBSET f.teamA /\ f.teamA \subseteq UNION S
          /\ IsFiniteSet(f.teamA) /\ Cardinality(f.teamA) = TeamSize
      <4>1. /\ f.teamA \cup f.teamB = UNION S /\ groups[1] \subseteq f.teamA
            /\ IsFiniteSet(f.teamA) /\ Cardinality(f.teamA) = TeamSize
        BY <2>1, SplitsAre
      <4>2. QED
        BY <4>1
    <3>2. groups[1] # {}
      BY <2>1, SeenGroups
    <3>3. QED
      BY <3>1, <3>2, FS_Subset
  <2>6. ASSUME NEW f \in Pool(view)!Greedy(groups)
        PROVE  \E S \in sets : f \in Pool(view)!Splits(S, groups[1])
    <3>1. f \in Pool(view)!Splits(selected, groups[1])
      BY <2>6 DEF Pool!Greedy, Pool!Best
    <3>2. selected = {} \/ selected \in sets
      BY <2>1, SelectedGroupsAre, TeamSizeAssumption
    <3>3. selected # {}
      BY <2>3, <2>5, <3>1, <3>2
    <3>4. QED
      BY <3>1, <3>2, <3>3
  <2> HIDE DEF sets, selected
  <2>7. CASE Cardinality(groups[1]) <= TeamSize
    <3>1. Pool(view)!BeamSets(groups) = sets
      BY <2>4, <2>7
    <3>2. QED
      BY <2>6, <3>1 DEF sets, groups
  <2>8. CASE ~(Cardinality(groups[1]) <= TeamSize)
    <3>1. \A S \in sets : Pool(view)!Splits(S, groups[1]) = {}
      BY <2>3, <2>5, <2>8
    <3>2. Pool(view)!Greedy(groups) = {}
      BY <2>6, <3>1
    <3>3. \A S \in Pool(view)!BeamSets(groups) : Pool(view)!Splits(S, groups[1]) = {}
      BY <2>4, <3>1
    <3>4. QED
      BY <3>1, <3>2, <3>3 DEF sets, groups
  <2>9. QED
    BY <2>7, <2>8
<1>2. ASSUME NEW view, Fits(view), Found(Pool(view)!Candidates, view),
             2^(Len(Pool(view)!Candidates) - 1) <= view.policy.beamWidth, NEW region \in Regions
      PROVE  Optimal(view, region)
  <2> DEFINE groups == Pool(view)!Candidates
             found == UNION {Pool(view)!Splits(S, groups[1]) : S \in Pool(view)!BeamSets(groups)}
             teams == (UNION {Pool(view)!Splits(S, groups[1]) : S \in FullSets(groups, view)})
                        \cup Pool(view)!Greedy(groups)
             cost(F) == [f \in F |-> -Pool(view)!Quality(f, region).total]
  <2>1. found = teams
    BY <1>1, <1>2
  <2>2. Pool(view)!EnoughPlayers(groups)
    BY <1>2 DEF Found
  <2>3. Pool(view)!Beam(groups, region) =
          {f \in found : cost(found)[f] = Pool(view)!Min(Pool(view)!Range(cost(found)))}
    BY <2>2 DEF Pool!Beam, Pool!Best
  <2> HIDE DEF groups, teams, found
  <2>4. Pool(view)!Beam(groups, region) =
          {f \in teams : cost(teams)[f] = Pool(view)!Min(Pool(view)!Range(cost(teams)))}
    BY <2>1, <2>3
  <2>5. QED
    BY <2>4 DEF groups, teams, Pool!Best
<1> HIDE DEF Optimal
<1>3. ASSUME NEW P \in BasePolicies, Found(Pool(View(P))!Candidates, View(P)),
             2^(Len(Pool(View(P))!Candidates) - 1) <= P.beamWidth, NEW region \in Regions
      PROVE  Optimal(View(P), region)
  <2>1. Fits(View(P)) /\ View(P).policy = P
    BY ViewFits DEF View
  <2>2. QED
    BY <1>2, <1>3, <2>1
<1>4. QED
  BY <1>3 DEF BeamIsOptimal, Optimal

-----------------------------------------------------------------------------
(* Matches are legal *)

\* The window of the ratings is never wider than the policy allows.
LEMMA WindowIsBounded ==
  ASSUME NEW view, Fits(view), DOMAIN view.created # {}
  PROVE  /\ Pool(view)!Anchor \in DOMAIN view.created
         /\ Pool(view)!RatingRange \in Int
         /\ Pool(view)!RatingRange <= ForMode(view.policy, Mode).maxRange
<1> DEFINE Q == ForMode(view.policy, Mode)
           S == DOMAIN view.created
           a == Pool(view)!Anchor
<1>1. Pool(view)!Anchor \in DOMAIN view.created
  <2>1. IsFiniteSet(S) /\ Cardinality(S) \in Nat /\ Cardinality(S) # 0
    BY Places, FS_EmptySet
  <2>2. 1 \in 1..Cardinality(S)
    BY <2>1
  <2>3. \E t \in S : Pool(view)!Place(t, S) = 1
    BY <2>2, Places
  <2>4. QED
    BY <2>3 DEF Pool!Anchor
<1>2. Q.initialRange \in Int /\ Q.rangeStep \in Int /\ Q.maxRange \in Int
  BY ModePolicy DEF MatchPolicy, Fits
<1>3. view.at - view.created[a] \in Int
  BY <1>1 DEF Fits, IsMap
<1> DEFINE grown == Q.initialRange + Q.rangeStep * (view.at - view.created[a])
<1>4. Pool(view)!RatingRange = Min({Q.maxRange, grown})
  BY SameOperators DEF Pool!RatingRange, Pool!Widened, Pool!Wait
<1>5. grown \in Int
  BY <1>2, <1>3
<1> HIDE DEF Q, a, grown
<1>6. Min({Q.maxRange, grown}) \in {Q.maxRange, grown} /\ Min({Q.maxRange, grown}) <= Q.maxRange
  <2>1. \E x \in {Q.maxRange, grown} : \A y \in {Q.maxRange, grown} : x <= y
    BY <1>2, <1>5
  <2>2. QED
    BY <2>1 DEF Min
<1>7. QED
  BY <1>1, <1>2, <1>4, <1>5, <1>6 DEF Q

\* What is formed from the candidates of the pool.
LEMMA FormedIsLegal ==
  ASSUME PoolFits, NEW region, NEW P \in BasePolicies, FormMatch(region, P)
  PROVE  MatchIsLegal'
<1> DEFINE S == Pool(View(P))!Snapshot
           groups == Pool(View(P))!Candidates
           limits == ForMode(P, Mode)
<1>1. PICK f \in Pool(View(P))!OptimizeTeams(groups, region) :
        /\ Eligible(f, region, P)
        /\ formed' = [teamA |-> f.teamA, teamB |-> f.teamB, region |-> region,
                      policy |-> P, quality |-> Pool(View(P))!Quality(f, region), at |-> now,
                      created |-> Restrict(queue, f.teamA \cup f.teamB),
                      anchor |-> Pool(View(P))!Anchor, snapshot |-> S]
  BY DEF FormMatch
<1>2. /\ formed'.teamA = f.teamA /\ formed'.teamB = f.teamB /\ formed'.region = region
      /\ formed'.policy = P /\ formed'.anchor = Pool(View(P))!Anchor /\ formed'.snapshot = S
  BY <1>1
<1>0. Fits(View(P)) /\ View(P).created = queue /\ View(P).policy = P
  BY ViewFits DEF View
<1>3. /\ Range(groups) \subseteq Accepted(View(P), S) /\ SeparateGroups(groups)
      /\ S \in SUBSET DOMAIN queue /\ DOMAIN queue \subseteq Everyone
  BY <1>0, PoolCandidates, SnapshotWaits
<1>4. PICK X \in SUBSET Range(groups) : f \in Pool(View(P))!Splits(X, groups[1])
  BY <1>0, <1>1, TeamsAreSplits
<1> DEFINE A == f.teamA
           B == f.teamB
<1>5. /\ A \cup B = UNION X /\ A \cap B = {}
      /\ IsFiniteSet(A) /\ Cardinality(A) = TeamSize
      /\ IsFiniteSet(B) /\ Cardinality(B) = TeamSize
      /\ \A g \in X : g \subseteq A \/ g \subseteq B
  <2>1. SeparateGroups(groups) /\ X \in SUBSET Range(groups)
    BY <1>3
  <2> HIDE DEF groups
  <2>2. /\ f.teamA \cup f.teamB = UNION X /\ f.teamA \cap f.teamB = {}
        /\ IsFiniteSet(f.teamA) /\ Cardinality(f.teamA) = TeamSize
        /\ IsFiniteSet(f.teamB) /\ Cardinality(f.teamB) = TeamSize
        /\ \A g \in X : g \subseteq f.teamA \/ g \subseteq f.teamB
    BY <1>4, <2>1, SplitsAre
  <2>3. QED
    BY <2>2
<1>6. X \subseteq GroupsIn(View(P), S) /\ \A g \in X : Pool(View(P))!Accepts(g, S)
  BY <1>3, <1>4 DEF Accepted
<1>7. \A g \in X : g \subseteq S /\ \A t \in g, u \in S :
        Party[t] # None /\ Party[u] = Party[t] => u \in g
  BY <1>6, GroupsPartition
<1>8. \A t \in A \cup B :
        /\ t \in S /\ Pool(View(P))!InWindows(t)
        /\ \A u \in S : Player[u] = Player[t] => u = t
  <2>1. \A t \in A \cup B : \E g \in X : t \in g
    BY <1>5
  <2> HIDE DEF A, B, S
  <2>2. QED
    BY <1>6, <1>7, <2>1 DEF Pool!Accepts
<1> HIDE DEF S, groups, A, B
<1>9. PartiesStayTogether'
  <2>1. ASSUME NEW t \in A \cup B, NEW u \in S, Party[t] # None, Party[u] = Party[t]
        PROVE  {t, u} \subseteq A \/ {t, u} \subseteq B
    <3>1. PICK g \in X : t \in g
      BY <1>5
    <3>2. u \in g
      BY <1>7, <2>1, <3>1
    <3>3. QED
      BY <1>5, <3>1, <3>2
  <2>2. QED
    BY <1>2, <2>1 DEF PartiesStayTogether, Matched, A, B
<1>10. Cardinality({Player[t] : t \in A \cup B}) = Target
  <2> DEFINE T == A \cup B
             players == {Player[t] : t \in T}
             player == [t \in T |-> Player[t]]
  <2>1. IsFiniteSet(T) /\ Cardinality(T) = TeamSize + TeamSize
    <3>1. Cardinality(A \cap B) = 0
      BY <1>5, FS_EmptySet
    <3>2. IsFiniteSet(T) /\ Cardinality(T) = TeamSize + TeamSize - 0
      BY <1>5, <3>1, FS_Union
    <3>3. QED
      BY <3>2, TeamSizeAssumption
  <2>2. \A t, u \in T : Player[t] = Player[u] => t = u
    BY <1>8
  <2>3. player \in Bijection(T, players)
    BY <2>2 DEF Bijection, Injection, Surjection, IsInjective
  <2> HIDE DEF T, players, player
  <2>4. Cardinality(players) = Cardinality(T)
    BY <2>1, <2>3, FS_Bijection DEF ExistsBijection
  <2>5. QED
    BY <2>1, <2>4, TeamSizeAssumption DEF T, players, Target
<1>11. ASSUME NEW t \in A \cup B
       PROVE  /\ Rating[t] - Rating[Pool(View(P))!Anchor] \in (-limits.maxRange)..limits.maxRange
              /\ Latency[t][region] <= limits.maxLatency
  <2>1. t \in S /\ t \in DOMAIN queue /\ t \in Everyone /\ Pool(View(P))!InWindows(t)
    BY <1>3, <1>8
  <2>2. /\ Pool(View(P))!Anchor \in DOMAIN queue
        /\ Pool(View(P))!RatingRange \in Int /\ Pool(View(P))!RatingRange <= limits.maxRange
    BY <1>0, <2>1, WindowIsBounded
  <2>3. Rating[t] \in Int /\ Rating[Pool(View(P))!Anchor] \in Int /\ limits.maxRange \in Int
    BY <1>0, <1>3, <2>1, <2>2, RatingAssumption, ModePolicy DEF Fits, MatchPolicy
  <2>4. Pool(View(P))!Distance(Rating[t], Rating[Pool(View(P))!Anchor]) <= Pool(View(P))!RatingRange
    BY <2>1 DEF Pool!InWindows
  <2>5. Latency[t][region] <= limits.maxLatency
    BY <1>1 DEF Eligible, A, B
  <2> HIDE DEF limits
  <2>6. QED
    BY <2>2, <2>3, <2>4, <2>5 DEF Pool!Distance
<1>12. HardLimitsHold'
  <2>1. \A team \in {A, B} : Cardinality(team) = TeamSize
    BY <1>5
  <2>2. QED
    BY <1>2, <1>10, <1>11, <2>1 DEF HardLimitsHold, Matched, A, B
<1>13. QED
  BY <1>9, <1>12 DEF MatchIsLegal

-----------------------------------------------------------------------------
(* Finite sets of numbers *)

\* What a set has that a finite set inherits from its subsets without one of
\* their elements, every subset has.
LEMMA FiniteInduction ==
  ASSUME NEW S, IsFiniteSet(S), NEW Q,
         \A s \in SUBSET S : (\A x \in s : s \ {x} \in Q) => s \in Q
  PROVE  \A s \in SUBSET S : s \in Q
<1> DEFINE N == {n \in Nat : \A s \in SUBSET S : Cardinality(s) = n => s \in Q}
<1>1. \A s \in SUBSET S : IsFiniteSet(s) /\ Cardinality(s) \in Nat
  BY FS_Subset, FS_CardinalityType
<1>2. 0 \in N
  <2>1. ASSUME NEW s \in SUBSET S, Cardinality(s) = 0 PROVE s \in Q
    <3>1. s = {}
      BY <1>1, <2>1, FS_EmptySet
    <3>2. QED
      BY <3>1
  <2>2. QED
    BY <2>1
<1>3. ASSUME NEW n \in N PROVE n + 1 \in N
  <2>1. ASSUME NEW s \in SUBSET S, Cardinality(s) = n + 1 PROVE s \in Q
    <3>1. ASSUME NEW x \in s PROVE s \ {x} \in Q
      <4>1. Cardinality(s \ {x}) = n /\ s \ {x} \in SUBSET S
        BY <1>1, <2>1, FS_RemoveElement
      <4>2. QED
        BY <4>1
    <3>2. QED
      BY <3>1
  <2>2. QED
    BY <2>1
<1>4. N = Nat
  <2>1. N \in SUBSET Nat
    OBVIOUS
  <2> HIDE DEF N
  <2>2. QED
    BY <1>2, <1>3, <2>1, SetInduction
<1>5. QED
  BY <1>1, <1>4

\* A finite set of integers has a greatest and a least number.
LEMMA Extremes ==
  ASSUME NEW S \in SUBSET Int, IsFiniteSet(S), S # {}
  PROVE  /\ Max(S) \in S /\ \A y \in S : y <= Max(S)
         /\ Min(S) \in S /\ \A y \in S : Min(S) <= y
<1> DEFINE Q == {s \in SUBSET S : s # {} =>
                   /\ \E x \in s : \A y \in s : x >= y
                   /\ \E x \in s : \A y \in s : x <= y}
<1>1. ASSUME NEW s \in SUBSET S, \A x \in s : s \ {x} \in Q
      PROVE  s \in Q
  <2> SUFFICES ASSUME s # {} PROVE s \in Q
    OBVIOUS
  <2>1. PICK x \in s : TRUE
    OBVIOUS
  <2> DEFINE r == s \ {x}
  <2>2. r \in Q /\ s = r \cup {x} /\ x \in Int /\ r \subseteq Int
    BY <1>1
  <2> HIDE DEF r
  <2>3. CASE r = {}
    BY <2>2, <2>3
  <2>4. CASE r # {}
    <3>1. PICK a \in r : \A y \in r : a >= y
      BY <2>2, <2>4
    <3>2. PICK b \in r : \A y \in r : b <= y
      BY <2>2, <2>4
    <3>3. \E z \in s : \A y \in s : z >= y
      <4>1. CASE a >= x
        BY <2>2, <3>1, <4>1
      <4>2. CASE x >= a
        BY <2>2, <3>1, <4>2
      <4>3. QED
        BY <2>2, <4>1, <4>2
    <3>4. \E z \in s : \A y \in s : z <= y
      <4>1. CASE b <= x
        BY <2>2, <3>2, <4>1
      <4>2. CASE x <= b
        BY <2>2, <3>2, <4>2
      <4>3. QED
        BY <2>2, <4>1, <4>2
    <3>5. QED
      BY <3>3, <3>4
  <2>5. QED
    BY <2>3, <2>4
<1>2. S \in Q
  <2> HIDE DEF Q
  <2>1. \A s \in SUBSET S : s \in Q
    BY <1>1, FiniteInduction
  <2>2. QED
    BY <2>1
<1>3. (\E x \in S : \A y \in S : x >= y) /\ (\E x \in S : \A y \in S : x <= y)
  BY <1>2
<1>4. Max(S) \in S /\ \A y \in S : Max(S) >= y
  BY <1>3 DEF Max
<1>5. Min(S) \in S /\ \A y \in S : Min(S) <= y
  BY <1>3 DEF Min
<1>6. QED
  BY <1>4, <1>5

-----------------------------------------------------------------------------
(* Sums *)

\* The element that a sum takes next.
Pick(S) == CHOOSE x \in S : TRUE

\* The function that maps the subsets of S to the sums of f over them.
IsSum(g, f, S) ==
  g = [s \in SUBSET S |-> IF s = {} THEN 0 ELSE f[Pick(s)] + g[s \ {Pick(s)}]]

Sum(f, S) == (CHOOSE g : IsSum(g, f, S))[S]

\* The sums of the engine and those of the analysis are the same.
LEMMA SumsAre ==
  ASSUME NEW f, NEW S
  PROVE  /\ SumFunctionOnSet(f, S) = Sum(f, S)
         /\ \A view : Pool(view)!Total(f, S) = Sum(f, S)
<1>1. SumFunctionOnSet(f, S) = Sum(f, S)
  BY DEF SumFunctionOnSet, FoldFunctionOnSet, MapThenFoldSet, Sum, IsSum, Pick
<1>2. ASSUME NEW view PROVE Pool(view)!Total(f, S) = Sum(f, S)
  BY DEF Pool!Total, Pool!SumFunctionOnSet, Pool!FoldFunctionOnSet, Pool!MapThenFoldSet,
         Sum, IsSum, Pick
<1>3. QED
  BY <1>1, <1>2

\* There are sums of integers over finite sets.
LEMMA SumExists ==
  ASSUME NEW S, IsFiniteSet(S), NEW f, \A x \in S : f[x] \in Int
  PROVE  \E g \in [SUBSET S -> Int] : IsSum(g, f, S)
<1> DEFINE Small(n) == {s \in SUBSET S : Cardinality(s) <= n}
           Is(g, n) == \A s \in Small(n) :
                         g[s] = IF s = {} THEN 0 ELSE f[Pick(s)] + g[s \ {Pick(s)}]
           N == {n \in Nat : \E g \in [Small(n) -> Int] : Is(g, n)}
<1>1. \A s \in SUBSET S : IsFiniteSet(s) /\ Cardinality(s) \in Nat
  BY FS_Subset, FS_CardinalityType
<1>2. \A s \in SUBSET S : s # {} => Pick(s) \in s
  BY DEF Pick
<1>3. ASSUME NEW n \in Nat, NEW s \in Small(n + 1), s # {}
      PROVE  s \ {Pick(s)} \in Small(n)
  <2>1. s \in SUBSET S /\ Cardinality(s) <= n + 1 /\ Cardinality(s) \in Nat /\ IsFiniteSet(s)
    BY <1>1
  <2>2. Cardinality(s \ {Pick(s)}) = Cardinality(s) - 1
    BY <1>2, <1>3, <2>1, FS_RemoveElement
  <2>3. QED
    BY <2>1, <2>2
<1>4. 0 \in N
  <2> DEFINE g == [s \in Small(0) |-> 0]
  <2>1. \A s \in Small(0) : s = {}
    BY <1>1, FS_EmptySet
  <2>2. g \in [Small(0) -> Int] /\ Is(g, 0)
    BY <2>1
  <2> HIDE DEF g, Small, Is
  <2>3. QED
    BY <2>2
<1>5. ASSUME NEW n \in N PROVE n + 1 \in N
  <2>1. PICK g \in [Small(n) -> Int] : Is(g, n)
    OBVIOUS
  <2> DEFINE h == [s \in Small(n + 1) |->
                     IF s = {} THEN 0 ELSE f[Pick(s)] + g[s \ {Pick(s)}]]
  <2>2. Small(n) \subseteq Small(n + 1)
    BY <1>1
  <2>3. \A s \in Small(n) : h[s] = g[s]
    BY <2>1, <2>2
  <2>4. h \in [Small(n + 1) -> Int]
    <3>1. ASSUME NEW s \in Small(n + 1), s # {}
          PROVE  f[Pick(s)] + g[s \ {Pick(s)}] \in Int
      <4>1. f[Pick(s)] \in Int
        BY <1>2, <3>1
      <4>2. g[s \ {Pick(s)}] \in Int
        BY <1>3, <3>1
      <4>3. QED
        BY <4>1, <4>2
    <3> HIDE DEF Small
    <3>2. QED
      BY <3>1
  <2>5. Is(h, n + 1)
    <3>1. ASSUME NEW s \in Small(n + 1), s # {}
          PROVE  h[s \ {Pick(s)}] = g[s \ {Pick(s)}]
      BY <1>3, <2>3, <3>1
    <3> HIDE DEF Small
    <3>2. QED
      BY <3>1
  <2> HIDE DEF h, Small, Is
  <2>6. QED
    BY <2>4, <2>5
<1>6. N = Nat
  <2>1. N \in SUBSET Nat
    OBVIOUS
  <2> HIDE DEF N
  <2>2. QED
    BY <1>4, <1>5, <2>1, SetInduction
<1>7. PICK g \in [Small(Cardinality(S)) -> Int] : Is(g, Cardinality(S))
  <2>1. Cardinality(S) \in N
    BY <1>1, <1>6
  <2> HIDE DEF Small, Is
  <2>2. QED
    BY <2>1
<1>8. Small(Cardinality(S)) = SUBSET S
  BY FS_Subset
<1>9. g \in [SUBSET S -> Int] /\ IsSum(g, f, S)
  BY <1>7, <1>8 DEF IsSum
<1>10. QED
  BY <1>9

\* The sums of f over the subsets of S, each with one element more than another.
PartialSums(g, f, S) ==
  /\ g[S] = Sum(f, S) /\ g[{}] = 0
  /\ \A s \in SUBSET S : g[s] \in Int
  /\ \A s \in SUBSET S : s # {} =>
       Pick(s) \in s /\ g[s] = f[Pick(s)] + g[s \ {Pick(s)}]

\* A sum is carried from the empty set, element by element.
LEMMA Summed ==
  ASSUME NEW S, IsFiniteSet(S), NEW f, \A x \in S : f[x] \in Int
  PROVE  \E g : PartialSums(g, f, S)
<1>1. PICK h \in [SUBSET S -> Int] : IsSum(h, f, S)
  BY SumExists
<1> DEFINE g == CHOOSE g : IsSum(g, f, S)
<1>2. IsSum(g, f, S) /\ Sum(f, S) = g[S]
  BY <1>1 DEF Sum
<1> HIDE DEF g
<1>3. \A s \in SUBSET S : s # {} => Pick(s) \in s
  BY DEF Pick
<1>4. /\ g[{}] = 0
      /\ \A s \in SUBSET S : s # {} => g[s] = f[Pick(s)] + g[s \ {Pick(s)}]
  BY <1>2 DEF IsSum
<1>5. \A s \in SUBSET S : s \in {u \in SUBSET S : g[u] \in Int}
  <2> DEFINE Q == {u \in SUBSET S : g[u] \in Int}
  <2>1. ASSUME NEW s \in SUBSET S, \A x \in s : s \ {x} \in Q
        PROVE  s \in Q
    <3>1. CASE s = {}
      BY <1>4, <3>1
    <3>2. CASE s # {}
      <4>1. Pick(s) \in s /\ f[Pick(s)] \in Int /\ g[s \ {Pick(s)}] \in Int
        BY <1>3, <2>1, <3>2
      <4>2. g[s] = f[Pick(s)] + g[s \ {Pick(s)}]
        BY <1>4, <3>2
      <4>3. g[s] \in Int
        BY <4>1, <4>2
      <4>4. QED
        BY <4>3
    <3>3. QED
      BY <3>1, <3>2
  <2> HIDE DEF Q
  <2>2. \A s \in SUBSET S : s \in Q
    BY <2>1, FiniteInduction
  <2>3. QED
    BY <2>2 DEF Q
<1>6. PartialSums(g, f, S)
  BY <1>2, <1>3, <1>4, <1>5 DEF PartialSums
<1>7. QED
  BY <1>6

\* Sums of integers are integers.
LEMMA SumType ==
  ASSUME NEW S, IsFiniteSet(S), NEW f, \A x \in S : f[x] \in Int
  PROVE  Sum(f, S) \in Int
<1>1. PICK g : PartialSums(g, f, S)
  BY Summed
<1>2. QED
  BY <1>1 DEF PartialSums

\* A number that is added to each is added as often as there are elements.
LEMMA SumOfShifted ==
  ASSUME NEW S, IsFiniteSet(S), NEW f, NEW h, NEW c \in Int,
         \A x \in S : f[x] \in Int /\ h[x] = f[x] + c
  PROVE  Sum(h, S) = Sum(f, S) + c * Cardinality(S)
<1>1. /\ \A x \in S : f[x] \in Int
      /\ \A x \in S : h[x] \in Int
  OBVIOUS
<1>2. PICK g : PartialSums(g, f, S)
  BY <1>1, Summed
<1>3. PICK k : PartialSums(k, h, S)
  BY <1>1, Summed
<1> USE DEF PartialSums
<1> DEFINE Q == {s \in SUBSET S : k[s] = g[s] + c * Cardinality(s)}
<1>4. ASSUME NEW s \in SUBSET S, \A x \in s : s \ {x} \in Q
      PROVE  s \in Q
  <2>1. IsFiniteSet(s) /\ Cardinality(s) \in Nat
    BY FS_Subset, FS_CardinalityType
  <2>2. CASE s = {}
    BY <1>2, <1>3, <2>2, FS_EmptySet
  <2>3. CASE s # {}
    <3> DEFINE x == Pick(s)
               r == s \ {x}
    <3>1. x \in s /\ g[s] = f[x] + g[r] /\ k[s] = h[x] + k[r]
      BY <1>2, <1>3, <2>3
    <3> HIDE DEF x
    <3>2. r \in Q /\ r \in SUBSET S
      BY <1>4, <3>1
    <3>3. Cardinality(r) = Cardinality(s) - 1 /\ Cardinality(r) \in Nat
      BY <2>1, <3>1, FS_RemoveElement, FS_CardinalityType
    <3>4. k[r] = g[r] + c * Cardinality(r) /\ g[r] \in Int /\ f[x] \in Int /\ h[x] = f[x] + c
      BY <1>2, <3>1, <3>2
    <3> HIDE DEF r
    <3>5. c * Cardinality(s) = c * Cardinality(r) + c
      BY <2>1, <3>3
    <3>6. c * Cardinality(r) \in Int
      BY <3>3
    <3>7. k[s] = g[s] + c * Cardinality(s)
      BY <3>1, <3>4, <3>5, <3>6
    <3>8. QED
      BY <3>7
  <2>4. QED
    BY <2>2, <2>3
<1>5. S \in Q
  <2> HIDE DEF Q
  <2>1. \A s \in SUBSET S : s \in Q
    BY <1>4, FiniteInduction
  <2>2. QED
    BY <2>1
<1>6. QED
  BY <1>2, <1>3, <1>5

-----------------------------------------------------------------------------
(* The quality of two teams *)

\* The functions of the engine are those of this module too.
LEMMA SameFunctions ==
  ASSUME NEW view
  PROVE  /\ \A S : Pool(view)!Max(S) = Max(S)
         /\ \A a : Pool(view)!IsInjective(a) <=> IsInjective(a)
         /\ \A x, y : Pool(view)!Distance(x, y) = IF x < y THEN y - x ELSE x - y
<1>1. ASSUME NEW S PROVE Pool(view)!Max(S) = Max(S)
  BY DEF Pool!Max, Max
<1>2. ASSUME NEW a PROVE Pool(view)!IsInjective(a) <=> IsInjective(a)
  BY DEF Pool!IsInjective, IsInjective
<1>3. ASSUME NEW x, NEW y PROVE Pool(view)!Distance(x, y) = IF x < y THEN y - x ELSE x - y
  BY DEF Pool!Distance
<1>4. QED
  BY <1>1, <1>2, <1>3

\* A finite function has finitely many values.
LEMMA ValuesAreFinite ==
  ASSUME NEW S, IsFiniteSet(S), NEW f, f = [x \in S |-> f[x]]
  PROVE  IsFiniteSet({f[x] : x \in S})
<1> DEFINE T == {f[x] : x \in S}
<1>1. f \in Surjection(S, T)
  BY DEF Surjection
<1> HIDE DEF T
<1>2. IsFiniteSet(T)
  BY <1>1, FS_Surjection
<1>3. QED
  BY <1>2 DEF T

\* There are finitely many functions between finite sets.
LEMMA FunctionsAreFinite ==
  ASSUME NEW S, IsFiniteSet(S), NEW T, IsFiniteSet(T)
  PROVE  IsFiniteSet([S -> T])
<1> DEFINE F == [S -> T]
           graph == [a \in F |-> {<<x, a[x]>> : x \in S}]
<1>1. IsFiniteSet(SUBSET (S \X T))
  BY FS_Product, FS_SUBSET
<1>2. ASSUME NEW a \in F, NEW b \in F, graph[a] = graph[b]
      PROVE  a = b
  <2>1. \A x \in S : a[x] = b[x]
    <3>1. {<<x, a[x]>> : x \in S} = {<<x, b[x]>> : x \in S}
      BY <1>2
    <3>2. ASSUME NEW x \in S PROVE a[x] = b[x]
      <4>1. <<x, a[x]>> \in {<<y, b[y]>> : y \in S}
        BY <3>1
      <4>2. PICK y \in S : <<x, a[x]>> = <<y, b[y]>>
        BY <4>1
      <4>3. QED
        BY <4>2
    <3>3. QED
      BY <3>2
  <2>2. QED
    BY <2>1
<1>3. \A a \in F : graph[a] \in SUBSET (S \X T)
  OBVIOUS
<1>4. graph \in Injection(F, SUBSET (S \X T))
  <2> DEFINE U == SUBSET (S \X T)
  <2>1. \A a \in F : graph[a] \in U
    BY <1>3
  <2>2. graph \in [F -> U]
    BY <2>1
  <2> HIDE DEF F, U, graph
  <2>3. QED
    BY <1>2, <2>2 DEF Injection, IsInjective, U
<1> HIDE DEF F, graph
<1>5. IsFiniteSet(F)
  BY <1>1, <1>4, FS_Injection
<1>6. QED
  BY <1>5 DEF F

\* The ways to give each member of a team a role of its own.
Assignments(team) == {a \in [team -> Roles] : IsInjective(a)}

\* There are enough roles.
LEMMA AssignmentsExist ==
  ASSUME NEW team, IsFiniteSet(team), Cardinality(team) = TeamSize
  PROVE  IsFiniteSet(Assignments(team)) /\ Assignments(team) # {}
<1> DEFINE n == TeamSize
           m == Cardinality(Roles)
<1>1. n \in Nat /\ m \in Nat /\ n <= m /\ IsFiniteSet(Roles)
  BY RolesAssumption, TeamSizeAssumption, FS_CardinalityType
<1>2. IsFiniteSet(Assignments(team))
  <2>1. IsFiniteSet([team -> Roles])
    BY <1>1, FunctionsAreFinite
  <2>2. Assignments(team) \in SUBSET [team -> Roles]
    BY DEF Assignments
  <2>3. QED
    BY <2>1, <2>2, FS_Subset
<1>3. PICK b \in Bijection(1..n, team) : TRUE
  BY FS_CardinalityType DEF ExistsBijection
<1>4. PICK g \in Bijection(1..m, Roles) : TRUE
  BY <1>1, FS_CardinalityType DEF ExistsBijection
<1> DEFINE place(t) == CHOOSE i \in 1..n : b[i] = t
           a == [t \in team |-> g[place(t)]]
<1>5. ASSUME NEW t \in team PROVE place(t) \in 1..n /\ b[place(t)] = t
  BY <1>3 DEF Bijection, Surjection
<1>6. \A i \in 1..n : i \in 1..m
  BY <1>1
<1> HIDE DEF n, m, place
<1>7. /\ \A i \in 1..m : g[i] \in Roles
      /\ \A i, j \in 1..m : g[i] = g[j] => i = j
  BY <1>4 DEF Bijection, Injection, IsInjective
<1>8. a \in [team -> Roles]
  BY <1>5, <1>6, <1>7
<1>9. \A t, u \in team : a[t] = a[u] => t = u
  <2>1. ASSUME NEW t \in team, NEW u \in team, a[t] = a[u] PROVE t = u
    <3>1. place(t) \in 1..m /\ place(u) \in 1..m /\ g[place(t)] = g[place(u)]
      BY <1>5, <1>6, <2>1
    <3>2. place(t) = place(u)
      BY <1>7, <3>1
    <3>3. QED
      BY <1>5, <3>2
  <2>2. QED
    BY <2>1
<1> HIDE DEF a
<1>10. a \in Assignments(team)
  BY <1>8, <1>9 DEF Assignments, IsInjective
<1>11. QED
  BY <1>2, <1>10

\* The greater and the lesser of two integers.
LEMMA OfTwo ==
  ASSUME NEW x \in Int, NEW y \in Int
  PROVE  Max({x, y}) \in Int /\ Min({x, y}) \in Int
<1>1. \E u \in {x, y} : \A w \in {x, y} : u >= w
  OBVIOUS
<1>2. \E u \in {x, y} : \A w \in {x, y} : u <= w
  OBVIOUS
<1>3. Max({x, y}) \in {x, y} /\ Min({x, y}) \in {x, y}
  BY <1>1, <1>2 DEF Max, Min
<1>4. QED
  BY <1>3

\* A score that is cut off is a number.
LEMMA ClampedType ==
  ASSUME NEW view, NEW x \in Int
  PROVE  Pool(view)!Clamped(x) \in Int
<1>1. Pool(view)!Clamped(x) = Max({0, Min({100, x})})
  BY SameOperators, SameFunctions DEF Pool!Clamped
<1>2. Min({100, x}) \in Int
  BY OfTwo
<1>3. QED
  BY <1>1, <1>2, OfTwo

\* So is a distance.
LEMMA DistanceType ==
  ASSUME NEW view, NEW x \in Int, NEW y \in Int
  PROVE  Pool(view)!Distance(x, y) \in Int
BY DEF Pool!Distance

\* Two full teams of the tickets of a view.
FullTeams(view, f) ==
  \A team \in {f.teamA, f.teamB} :
    /\ team \subseteq DOMAIN view.created /\ team \subseteq Everyone
    /\ IsFiniteSet(team) /\ Cardinality(team) = TeamSize /\ team # {}

\* Everybody has waited for some time.
LEMMA WaitType ==
  ASSUME NEW view, Fits(view), NEW t \in DOMAIN view.created
  PROVE  Pool(view)!Wait(t) \in Int
<1>1. view.at \in Int /\ view.created[t] \in Int
  BY DEF Fits, IsMap
<1>2. QED
  BY <1>1 DEF Pool!Wait

\* The score of a role is a number.
LEMMA RoleScoreType ==
  ASSUME NEW view, Fits(view), NEW t \in DOMAIN view.created, NEW role
  PROVE  Pool(view)!RoleScore(t, role) \in Int
<1> DEFINE Q == ForMode(view.policy, Mode)
           wait == Pool(view)!Wait(t)
<1>1. Q.maxRelaxed \in Int /\ Q.relaxStep \in Int /\ Q.relaxAfter \in Int
  BY ModePolicy DEF Fits, MatchPolicy
<1>2. wait \in Int
  BY WaitType
<1> DEFINE grown == Q.relaxStep * (wait - Q.relaxAfter)
<1>3. grown \in Int
  BY <1>1, <1>2
<1>4. Pool(view)!NonPreferredRoleScore(wait) = Max({0, Min({Q.maxRelaxed, grown})})
  BY SameOperators, SameFunctions DEF Pool!NonPreferredRoleScore
<1> HIDE DEF Q, wait, grown
<1>5. Pool(view)!NonPreferredRoleScore(wait) \in Int
  <2>1. Min({Q.maxRelaxed, grown}) \in Int
    BY <1>1, <1>3, OfTwo
  <2>2. QED
    BY <1>4, <2>1, OfTwo
<1> DEFINE places == {i \in DOMAIN Prefers[t] : Prefers[t][i] = role}
<1>6. Pool(view)!RoleScore(t, role) =
        CASE places = {}  -> Pool(view)!NonPreferredRoleScore(wait)
          [] 1 \in places -> 100
          [] 2 \in places -> 70
          [] OTHER        -> 50
  BY DEF Pool!RoleScore, wait
<1> HIDE DEF places
<1>7. CASE places = {}
  BY <1>5, <1>6, <1>7
<1>8. CASE places # {} /\ 1 \in places
  BY <1>6, <1>8
<1>9. CASE places # {} /\ 1 \notin places /\ 2 \in places
  BY <1>6, <1>9
<1>10. CASE places # {} /\ 1 \notin places /\ 2 \notin places
  BY <1>6, <1>10
<1>11. QED
  BY <1>7, <1>8, <1>9, <1>10

\* A team has a best assignment of roles.
LEMMA TeamRoleScoreType ==
  ASSUME NEW view, Fits(view), NEW team \in SUBSET DOMAIN view.created,
         IsFiniteSet(team), Cardinality(team) = TeamSize
  PROVE  Pool(view)!TeamRoleScore(team) \in Int
<1> DEFINE score(a) == Pool(view)!Total([t \in team |-> Pool(view)!RoleScore(t, a[t])], team)
           A == Assignments(team)
           scores == [a \in A |-> score(a)]
<1>1. Pool(view)!TeamRoleScore(team) = Max({score(a) : a \in A}) \div TeamSize
  BY SameFunctions DEF Pool!TeamRoleScore, Assignments
<1>2. ASSUME NEW a \in A PROVE score(a) \in Int
  <2> DEFINE r == [t \in team |-> Pool(view)!RoleScore(t, a[t])]
  <2>1. \A t \in team : r[t] \in Int
    BY RoleScoreType
  <2> HIDE DEF r
  <2>2. Pool(view)!Total(r, team) \in Int
    BY <2>1, SumsAre, SumType
  <2>3. QED
    BY <2>2 DEF r
<1>3. IsFiniteSet(A) /\ A # {}
  BY AssignmentsExist
<1> HIDE DEF A, score
<1>4. scores = [a \in A |-> scores[a]] /\ {scores[a] : a \in A} = {score(a) : a \in A}
  OBVIOUS
<1> HIDE DEF scores
<1>5. IsFiniteSet({score(a) : a \in A})
  BY <1>3, <1>4, ValuesAreFinite
<1> DEFINE X == {score(a) : a \in A}
<1>6. X \in SUBSET Int /\ X # {} /\ IsFiniteSet(X)
  BY <1>2, <1>3, <1>5
<1> HIDE DEF X
<1>7. Max(X) \in Int
  BY <1>6, Extremes
<1>8. QED
  BY <1>1, <1>7, TeamSizeAssumption DEF X

\* How far apart the ratings of the teams are.
LEMMA SkillScoreType ==
  ASSUME NEW view, NEW f, FullTeams(view, f)
  PROVE  Pool(view)!SkillScore(f) \in Int
<1> DEFINE d == Pool(view)!Distance(Pool(view)!Total(Rating, f.teamA),
                                    Pool(view)!Total(Rating, f.teamB))
<1>1. ASSUME NEW team \in {f.teamA, f.teamB} PROVE Pool(view)!Total(Rating, team) \in Int
  <2>1. IsFiniteSet(team) /\ \A t \in team : Rating[t] \in Int
    BY RatingAssumption DEF FullTeams
  <2>2. QED
    BY <2>1, SumsAre, SumType
<1>2. d \in Int
  BY <1>1, DistanceType
<1>3. Pool(view)!SkillScore(f) = Pool(view)!Clamped(100 - (29 * d) \div (100 * TeamSize))
  BY DEF Pool!SkillScore
<1> HIDE DEF d
<1>4. 100 - (29 * d) \div (100 * TeamSize) \in Int
  BY <1>2, TeamSizeAssumption
<1>5. QED
  BY <1>3, <1>4, ClampedType

\* All the players of two teams.
LEMMA PlayersAre ==
  ASSUME NEW view, NEW f, FullTeams(view, f)
  PROVE  /\ f.teamA \cup f.teamB \subseteq DOMAIN view.created
         /\ f.teamA \cup f.teamB \subseteq Everyone
         /\ IsFiniteSet(f.teamA \cup f.teamB) /\ f.teamA \cup f.teamB # {}
BY FS_Union DEF FullTeams

\* The latencies of the players of two teams have a sum and a maximum.
LEMMA LatencyScoreType ==
  ASSUME NEW view, Fits(view), NEW f, FullTeams(view, f), NEW region \in Regions
  PROVE  Pool(view)!LatencyScore(f, region) \in Int
<1> DEFINE T == f.teamA \cup f.teamB
           Q == ForMode(view.policy, Mode)
           ms == [t \in T |-> Latency[t][region]]
           slowest == Max(Range(ms))
           total == Pool(view)!Total(ms, T)
           score == 100 - (70 * total) \div (Target * Q.maxLatency)
                        - (30 * slowest) \div Q.maxLatency
<1>1. IsFiniteSet(T) /\ T # {} /\ T \subseteq Everyone
  BY PlayersAre
<1>2. \A t \in T : ms[t] \in Int
  BY <1>1, LatencyAssumption
<1>3. Pool(view)!LatencyScore(f, region) =
        IF slowest > Q.maxLatency THEN 0 ELSE Pool(view)!Clamped(score)
  BY SameOperators, SameFunctions DEF Pool!LatencyScore, Pool!Target, Target
<1>4. ms = [t \in T |-> ms[t]] /\ Range(ms) = {ms[t] : t \in T}
  BY DEF Range
<1> HIDE DEF T, ms
<1>5. total \in Int
  BY <1>1, <1>2, SumsAre, SumType
<1>6. slowest \in Int
  <2>1. IsFiniteSet({ms[t] : t \in T})
    BY <1>1, <1>4, ValuesAreFinite
  <2>2. Range(ms) \in SUBSET Int /\ Range(ms) # {} /\ IsFiniteSet(Range(ms))
    BY <1>1, <1>2, <1>4, <2>1
  <2>3. QED
    BY <2>2, Extremes
<1>7. Q.maxLatency \in Int /\ Q.maxLatency > 0 /\ Target \in Int /\ Target > 0
  <2>1. Valid(Q)
    BY ModePolicy DEF Fits
  <2>2. /\ Q.initialLatency \in Int /\ Q.maxLatency \in Int
        /\ 0 < Q.initialLatency /\ Q.initialLatency <= Q.maxLatency
    BY <2>1 DEF Valid, MatchPolicy
  <2> HIDE DEF Q
  <2>3. QED
    BY <2>2, TeamSizeAssumption DEF Target
<1> HIDE DEF Q, slowest, total
<1>8. score \in Int
  <2> DEFINE d == Target * Q.maxLatency
  <2>1. d \in Int /\ d > 0
    BY <1>7
  <2> HIDE DEF d
  <2>2. (70 * total) \div d \in Int
    BY <1>5, <2>1
  <2>3. (30 * slowest) \div Q.maxLatency \in Int
    BY <1>6, <1>7
  <2>4. 100 - (70 * total) \div d - (30 * slowest) \div Q.maxLatency \in Int
    BY <2>2, <2>3
  <2>5. QED
    BY <2>4 DEF d
<1> HIDE DEF score
<1>9. Pool(view)!Clamped(score) \in Int
  BY <1>8, ClampedType
<1>10. QED
  BY <1>3, <1>9

\* The parties of each size are counted.
LEMMA PartyScoreType ==
  ASSUME NEW view, NEW f, FullTeams(view, f)
  PROVE  Pool(view)!PartyScore(f) \in Int
<1> DEFINE d == [n \in 1..TeamSize |->
                   Pool(view)!Distance(Pool(view)!PartiesOfSize(f.teamA, n),
                                       Pool(view)!PartiesOfSize(f.teamB, n))]
           total == Pool(view)!Total(d, 1..TeamSize)
<1>1. ASSUME NEW team \in {f.teamA, f.teamB}, NEW n
      PROVE  Pool(view)!PartiesOfSize(team, n) \in Int
  <2> DEFINE g == [t \in team |-> Pool(view)!GroupOf(t, team)]
             G == {g[t] : t \in team}
  <2>1. IsFiniteSet(team) /\ g = [t \in team |-> g[t]]
    BY DEF FullTeams
  <2>2. Pool(view)!PartiesOfSize(team, n) = Cardinality({h \in G : Cardinality(h) = n})
    BY SameOperators DEF Pool!PartiesOfSize
  <2> HIDE DEF g
  <2>3. IsFiniteSet(G)
    BY <2>1, ValuesAreFinite
  <2> HIDE DEF G
  <2>4. IsFiniteSet({h \in G : Cardinality(h) = n})
    BY <2>3, FS_Subset
  <2>5. QED
    BY <2>2, <2>4, FS_CardinalityType
<1>2. \A n \in 1..TeamSize : d[n] \in Int
  BY <1>1, DistanceType
<1>3. Pool(view)!PartyScore(f) = Pool(view)!Clamped(100 - 10 * total)
  BY DEF Pool!PartyScore
<1> HIDE DEF d
<1>4. total \in Int
  <2> DEFINE I == 1..TeamSize
  <2>1. IsFiniteSet(I) /\ \A n \in I : d[n] \in Int
    BY <1>2, TeamSizeAssumption, FS_Interval
  <2> HIDE DEF I
  <2>2. Pool(view)!Total(d, I) \in Int
    BY <2>1, SumsAre, SumType
  <2>3. QED
    BY <2>2 DEF I
<1> HIDE DEF total
<1>5. 100 - 10 * total \in Int
  BY <1>4
<1>6. QED
  BY <1>3, <1>5, ClampedType

\* The waiting times have a sum.
LEMMA WaitScoreType ==
  ASSUME NEW view, Fits(view), NEW f, FullTeams(view, f)
  PROVE  Pool(view)!WaitScore(f) \in Int
<1> DEFINE T == f.teamA \cup f.teamB
           Q == ForMode(view.policy, Mode)
           waits == [t \in T |-> Pool(view)!Wait(t)]
           total == Pool(view)!Total(waits, T)
           d == Target * Q.ticketTTL
<1>1. IsFiniteSet(T) /\ T \subseteq DOMAIN view.created
  BY PlayersAre
<1>2. \A t \in T : waits[t] \in Int
  BY <1>1, WaitType
<1>3. Pool(view)!WaitScore(f) = Pool(view)!Clamped(100 - (100 * total) \div d)
  BY DEF Pool!WaitScore, Pool!Target, Target
<1> HIDE DEF T, waits
<1>4. total \in Int
  BY <1>1, <1>2, SumsAre, SumType
<1>5. d \in Int /\ d > 0
  <2>1. Q.ticketTTL \in Int /\ Q.ticketTTL > 0
    BY ModePolicy DEF Fits, Valid, MatchPolicy
  <2> HIDE DEF Q
  <2>2. Target \in Int /\ Target > 0
    BY TeamSizeAssumption DEF Target
  <2> HIDE DEF Target
  <2>3. QED
    BY <2>1, <2>2
<1> HIDE DEF total, d
<1>6. 100 - (100 * total) \div d \in Int
  BY <1>4, <1>5
<1>7. QED
  BY <1>3, <1>6, ClampedType

\* The qualities of matches.
Qualities == [skill : Int, role : Int, latency : Int, total : Int]

\* The quality of two full teams consists of numbers.
LEMMA QualityType ==
  ASSUME NEW view, Fits(view), NEW f, FullTeams(view, f), NEW region \in Regions
  PROVE  Pool(view)!Quality(f, region) \in Qualities
<1> DEFINE Q == ForMode(view.policy, Mode)
           skill == Pool(view)!SkillScore(f)
           roleA == Pool(view)!TeamRoleScore(f.teamA)
           roleB == Pool(view)!TeamRoleScore(f.teamB)
           role == (roleA + roleB) \div 2
           latency == Pool(view)!LatencyScore(f, region)
           party == Pool(view)!PartyScore(f)
           wait == Pool(view)!WaitScore(f)
           total == Q.skillWeight * skill + Q.roleWeight * role
                      + Q.latencyWeight * latency + Q.partyWeight * party
                      + Q.waitWeight * wait
<1>1. Pool(view)!Quality(f, region) =
        [skill |-> skill, role |-> role, latency |-> latency, total |-> total]
  BY DEF Pool!Quality
<1>2. skill \in Int /\ latency \in Int /\ party \in Int /\ wait \in Int
  BY SkillScoreType, LatencyScoreType, PartyScoreType, WaitScoreType
<1>3. roleA \in Int /\ roleB \in Int
  BY TeamRoleScoreType DEF FullTeams
<1>4. /\ Q.skillWeight \in Int /\ Q.roleWeight \in Int /\ Q.latencyWeight \in Int
      /\ Q.partyWeight \in Int /\ Q.waitWeight \in Int
  BY ModePolicy DEF Fits, MatchPolicy
<1> HIDE DEF Q, skill, roleA, roleB, latency, party, wait
<1>5. role \in Int
  BY <1>3
<1> HIDE DEF role
<1>6. total \in Int
  <2>1. /\ Q.skillWeight * skill \in Int /\ Q.roleWeight * role \in Int
        /\ Q.latencyWeight * latency \in Int /\ Q.partyWeight * party \in Int
        /\ Q.waitWeight * wait \in Int
    BY <1>2, <1>4, <1>5
  <2>2. QED
    BY <2>1
<1> HIDE DEF total
<1>7. QED
  BY <1>1, <1>2, <1>5, <1>6 DEF Qualities

\* The numbers of two policies are the same.
EqualNumbers(P, Q) ==
  /\ Q.candidateLimit = P.candidateLimit
  /\ Q.skillWeight = P.skillWeight /\ Q.roleWeight = P.roleWeight
  /\ Q.latencyWeight = P.latencyWeight /\ Q.partyWeight = P.partyWeight
  /\ Q.waitWeight = P.waitWeight
  /\ Q.initialRange = P.initialRange /\ Q.maxRange = P.maxRange
  /\ Q.rangeStep = P.rangeStep
  /\ Q.initialLatency = P.initialLatency /\ Q.maxLatency = P.maxLatency
  /\ Q.latencyStep = P.latencyStep
  /\ Q.relaxAfter = P.relaxAfter /\ Q.relaxStep = P.relaxStep
  /\ Q.maxRelaxed = P.maxRelaxed
  /\ Q.ticketTTL = P.ticketTTL

\* So they are in the mode of the pool, whatever search the policies name.
SameNumbers(P, Q) == EqualNumbers(ForMode(P, Mode), ForMode(Q, Mode))

\* A mode changes equal numbers equally.
LEMMA ModeKeepsSame ==
  ASSUME NEW P \in MatchPolicy, NEW Q \in MatchPolicy, EqualNumbers(P, Q)
  PROVE  SameNumbers(P, Q)
<1>1. CASE Mode = "ranked_5v5"
  BY <1>1 DEF ForMode, SameNumbers
<1>2. CASE Mode = "normal_5v5"
  <2>1. /\ ForMode(P, Mode) = EarlierRoles(WiderRange(P))
        /\ ForMode(Q, Mode) = EarlierRoles(WiderRange(Q))
    BY <1>2 DEF ForMode
  <2>2. \A R \in {P, Q} :
          LET r == EarlierRoles(WiderRange(R)) IN
          /\ r.candidateLimit = R.candidateLimit
          /\ r.skillWeight = R.skillWeight /\ r.roleWeight = R.roleWeight
          /\ r.latencyWeight = R.latencyWeight /\ r.partyWeight = R.partyWeight
          /\ r.waitWeight = R.waitWeight
          /\ r.initialRange = (3 * R.initialRange) \div 2
          /\ r.maxRange = (3 * R.maxRange) \div 2
          /\ r.rangeStep = 2 * R.rangeStep
          /\ r.initialLatency = R.initialLatency /\ r.maxLatency = R.maxLatency
          /\ r.latencyStep = R.latencyStep
          /\ r.relaxAfter = R.relaxAfter \div 2 /\ r.relaxStep = 2 * R.relaxStep
          /\ r.maxRelaxed = R.maxRelaxed
          /\ r.ticketTTL = R.ticketTTL
    BY DEF EarlierRoles, WiderRange, MatchPolicy
  <2>3. QED
    BY <2>1, <2>2 DEF SameNumbers, EqualNumbers
<1>3. CASE Mode = "training_5v5"
  <2>1. /\ ForMode(P, Mode) = AnyRoles(AnyLatency(AnyRating(P)))
        /\ ForMode(Q, Mode) = AnyRoles(AnyLatency(AnyRating(Q)))
    BY <1>3 DEF ForMode
  <2>2. \A R \in {P, Q} :
          LET r == AnyRoles(AnyLatency(AnyRating(R))) IN
          /\ r.candidateLimit = R.candidateLimit
          /\ r.skillWeight = R.skillWeight /\ r.roleWeight = R.roleWeight
          /\ r.latencyWeight = R.latencyWeight /\ r.partyWeight = R.partyWeight
          /\ r.waitWeight = R.waitWeight
          /\ r.initialRange = Greatest(R.initialRange, 10000)
          /\ r.maxRange = Greatest(R.initialRange, 10000)
          /\ r.rangeStep = 0
          /\ r.initialLatency = 1000 /\ r.maxLatency = 1000 /\ r.latencyStep = 0
          /\ r.relaxAfter = 0 /\ r.relaxStep = 100 /\ r.maxRelaxed = 100
          /\ r.ticketTTL = R.ticketTTL
    BY DEF AnyRoles, AnyLatency, AnyRating, MatchPolicy
  <2>3. QED
    BY <2>1, <2>2 DEF SameNumbers, EqualNumbers
<1>4. QED
  BY <1>1, <1>2, <1>3, PolicyAssumption DEF Modes

\* The beam search of a policy has the numbers of the policy.
LEMMA BeamHasSameNumbers ==
  ASSUME NEW P, Valid(P)
  PROVE  SameNumbers(P, [P EXCEPT !.algorithm = "beam"]) /\ SameNumbers(P, P)
<1> DEFINE Q == [P EXCEPT !.algorithm = "beam"]
<1>1. P \in MatchPolicy
  BY DEF Valid
<1>2. Q \in MatchPolicy /\ EqualNumbers(P, Q)
  BY <1>1 DEF MatchPolicy, EqualNumbers
<1> HIDE DEF Q
<1>3. SameNumbers(P, Q)
  BY <1>1, <1>2, ModeKeepsSame
<1>4. QED
  BY <1>3 DEF SameNumbers, EqualNumbers, Q

\* One view of two full teams shows them as another does.
SameTeams(v, w, f) ==
  /\ \A t \in f.teamA \cup f.teamB : w.created[t] = v.created[t]
  /\ w.at = v.at
  /\ SameNumbers(v.policy, w.policy)

\* The quality of two teams depends on them and the numbers of the policy.
LEMMA SameQuality ==
  ASSUME NEW v, NEW w, NEW f, SameTeams(v, w, f), NEW region
  PROVE  Pool(w)!Quality(f, region) = Pool(v)!Quality(f, region)
<1>1. \A t \in f.teamA \cup f.teamB : Pool(w)!Wait(t) = Pool(v)!Wait(t)
  BY DEF SameTeams, Pool!Wait
<1>2. \A S, h : Pool(w)!Total(h, S) = Pool(v)!Total(h, S)
  BY SumsAre
<1>3. \A x : Pool(w)!Clamped(x) = Pool(v)!Clamped(x)
  BY SameOperators, SameFunctions DEF Pool!Clamped
<1>4. Pool(w)!SkillScore(f) = Pool(v)!SkillScore(f)
  BY <1>2, <1>3, SameFunctions DEF Pool!SkillScore
<1>5. ASSUME NEW team \in {f.teamA, f.teamB}
      PROVE  Pool(w)!TeamRoleScore(team) = Pool(v)!TeamRoleScore(team)
  <2>1. ASSUME NEW t \in team, NEW role
        PROVE  Pool(w)!RoleScore(t, role) = Pool(v)!RoleScore(t, role)
    <3>1. Pool(w)!Wait(t) = Pool(v)!Wait(t)
      BY <1>1, <1>5
    <3> DEFINE wait == Pool(v)!Wait(t)
    <3>2. Pool(w)!NonPreferredRoleScore(wait) = Pool(v)!NonPreferredRoleScore(wait)
      BY SameOperators, SameFunctions DEF Pool!NonPreferredRoleScore, SameTeams, SameNumbers, EqualNumbers
    <3>3. QED
      BY <3>1, <3>2 DEF Pool!RoleScore
  <2> DEFINE score(view, a) ==
               Pool(view)!Total([t \in team |-> Pool(view)!RoleScore(t, a[t])], team)
  <2>2. ASSUME NEW a PROVE score(w, a) = score(v, a)
    <3>1. [t \in team |-> Pool(w)!RoleScore(t, a[t])] = [t \in team |-> Pool(v)!RoleScore(t, a[t])]
      BY <2>1
    <3>2. QED
      BY <1>2, <3>1
  <2>3. \A view : Pool(view)!TeamRoleScore(team) =
                    Max({score(view, a) : a \in Assignments(team)}) \div TeamSize
    BY SameFunctions DEF Pool!TeamRoleScore, Assignments
  <2> HIDE DEF score
  <2>4. {score(w, a) : a \in Assignments(team)} = {score(v, a) : a \in Assignments(team)}
    BY <2>2
  <2>5. QED
    BY <2>3, <2>4
<1>6. Pool(w)!LatencyScore(f, region) = Pool(v)!LatencyScore(f, region)
  BY <1>2, <1>3, SameOperators, SameFunctions
     DEF Pool!LatencyScore, Pool!Target, SameTeams, SameNumbers, EqualNumbers
<1>7. Pool(w)!PartyScore(f) = Pool(v)!PartyScore(f)
  <2>1. \A team, n : Pool(w)!PartiesOfSize(team, n) = Pool(v)!PartiesOfSize(team, n)
    <3>1. \A t, S : Pool(w)!GroupOf(t, S) = Pool(v)!GroupOf(t, S)
      BY DEF Pool!GroupOf
    <3>2. QED
      BY <3>1, SameOperators DEF Pool!PartiesOfSize
  <2> DEFINE d(view) == [n \in 1..TeamSize |->
                           Pool(view)!Distance(Pool(view)!PartiesOfSize(f.teamA, n),
                                               Pool(view)!PartiesOfSize(f.teamB, n))]
  <2>2. d(w) = d(v)
    BY <2>1, SameFunctions
  <2>3. \A view : Pool(view)!PartyScore(f) =
                   Pool(view)!Clamped(100 - 10 * Pool(view)!Total(d(view), 1..TeamSize))
    BY DEF Pool!PartyScore
  <2> HIDE DEF d
  <2>4. QED
    BY <1>2, <1>3, <2>2, <2>3
<1>8. Pool(w)!WaitScore(f) = Pool(v)!WaitScore(f)
  <2>1. [t \in f.teamA \cup f.teamB |-> Pool(w)!Wait(t)]
          = [t \in f.teamA \cup f.teamB |-> Pool(v)!Wait(t)]
    BY <1>1
  <2>2. QED
    BY <1>2, <1>3, <2>1 DEF Pool!WaitScore, Pool!Target, SameTeams, SameNumbers, EqualNumbers
<1>9. QED
  BY <1>4, <1>5, <1>6, <1>7, <1>8 DEF Pool!Quality, SameTeams, SameNumbers, EqualNumbers

-----------------------------------------------------------------------------
(* Tickets that make exactly one match *)

\* The first place is that of the oldest ticket.
LEMMA FirstPlace ==
  ASSUME NEW view, Fits(view), NEW S \in SUBSET DOMAIN view.created
  PROVE  /\ \A t \in S : Pool(view)!Place(t, S) = 1 <=> \A u \in S : Pool(view)!Older(t, u)
         /\ S # {} => \E t \in S : \A u \in S : Pool(view)!Older(t, u)
<1>1. ASSUME NEW t \in S
      PROVE  Pool(view)!Place(t, S) = 1 <=> \A u \in S : Pool(view)!Older(t, u)
  <2> DEFINE B == {u \in S : Pool(view)!Older(u, t)}
  <2>1. Pool(view)!Place(t, S) = Cardinality(B)
    BY SameOperators DEF Pool!Place
  <2>2. t \in B /\ IsFiniteSet(B)
    <3>1. t \in B
      BY OlderOrders
    <3>2. IsFiniteSet(S)
      BY Places
    <3>3. QED
      BY <3>1, <3>2, FS_Subset
  <2>3. Cardinality(B) = 1 <=> B = {t}
    <3> HIDE DEF B
    <3>1. QED
      BY <2>2, FS_Singleton
  <2>4. B = {t} <=> \A u \in S : Pool(view)!Older(t, u)
    BY OlderOrders
  <2>5. QED
    BY <2>1, <2>3, <2>4
<1>2. ASSUME S # {} PROVE \E t \in S : \A u \in S : Pool(view)!Older(t, u)
  <2>1. IsFiniteSet(S) /\ Cardinality(S) \in Nat /\ Cardinality(S) # 0
    BY <1>2, Places, FS_EmptySet
  <2>2. 1 \in 1..Cardinality(S)
    BY <2>1
  <2>3. \E t \in S : Pool(view)!Place(t, S) = 1
    BY <2>2, Places
  <2>4. QED
    BY <1>1, <2>3
<1>3. QED
  BY <1>1, <1>2

\* The anchor is the oldest ticket that waits.
LEMMA AnchorIsOldest ==
  ASSUME NEW view, Fits(view), DOMAIN view.created # {}
  PROVE  /\ Pool(view)!Anchor \in DOMAIN view.created
         /\ \A u \in DOMAIN view.created : Pool(view)!Older(Pool(view)!Anchor, u)
         /\ \A t \in DOMAIN view.created :
              (\A u \in DOMAIN view.created : Pool(view)!Older(t, u)) => t = Pool(view)!Anchor
<1> DEFINE S == DOMAIN view.created
<1>1. \E t \in S : Pool(view)!Place(t, S) = 1
  BY FirstPlace
<1>2. Pool(view)!Anchor \in S /\ Pool(view)!Place(Pool(view)!Anchor, S) = 1
  BY <1>1 DEF Pool!Anchor
<1>3. \A u \in S : Pool(view)!Older(Pool(view)!Anchor, u)
  BY <1>2, FirstPlace
<1>4. QED
  BY <1>2, <1>3, OlderOrders

\* The groups of a set of tickets cover it; that of the anchor is the first.
LEMMA GroupsCover ==
  ASSUME NEW view, Fits(view), NEW S \in SUBSET DOMAIN view.created
  PROVE  /\ Range(Pool(view)!GroupsOf(S)) = GroupsIn(view, S)
         /\ SeparateGroups(Pool(view)!GroupsOf(S))
         /\ Pool(view)!Anchor \in S =>
              /\ 1 <= Len(Pool(view)!GroupsOf(S))
              /\ Pool(view)!GroupsOf(S)[1] = Pool(view)!GroupOf(Pool(view)!Anchor, S)
<1> DEFINE groups == Pool(view)!GroupsOf(S)
           L == Pool(view)!Leaders(S)
           n == Cardinality(L)
           leader(i) == CHOOSE t \in L : Pool(view)!Place(t, L) = i
           group(t) == Pool(view)!GroupOf(t, S)
<1>1. L \in SUBSET DOMAIN view.created /\ L \subseteq S
  BY DEF Pool!Leaders
<1>2. \A t \in S : t \in L <=> \A u \in group(t) : Pool(view)!Older(t, u)
  BY DEF Pool!Leaders
<1>3. groups = [i \in 1..n |-> group(leader(i))]
  BY SameOperators DEF Pool!GroupsOf
<1>4. groups \in Seq(GroupsIn(view, S)) /\ OneToOne(groups)
  BY GroupsAre
<1>5. \A t \in S : t \in group(t) /\ group(t) \in SUBSET S
                   /\ \A u \in group(t) : group(u) = group(t)
  BY DEF Pool!GroupOf
<1>6. GroupsIn(view, S) = {group(t) : t \in S}
  BY DEF GroupsIn
<1> HIDE DEF L, groups, group
<1>7. /\ n \in Nat
      /\ \A t \in L : Pool(view)!Place(t, L) \in 1..n
      /\ \A t \in L : leader(Pool(view)!Place(t, L)) = t
  <2>1. n \in Nat
    BY <1>1, Places
  <2>2. ASSUME NEW t \in L PROVE leader(Pool(view)!Place(t, L)) = t
    <3>1. \A u \in L : Pool(view)!Place(u, L) = Pool(view)!Place(t, L) => u = t
      BY <1>1, Places
    <3>2. QED
      BY <3>1
  <2>3. \A t \in L : Pool(view)!Place(t, L) \in 1..n
    BY <1>1, Places
  <2>4. QED
    BY <2>1, <2>2, <2>3
<1> HIDE DEF n, leader
<1>8. ASSUME NEW t \in L
      PROVE  /\ Pool(view)!Place(t, L) \in DOMAIN groups
             /\ groups[Pool(view)!Place(t, L)] = group(t)
  BY <1>3, <1>7
<1>9. ASSUME NEW t \in S PROVE group(t) \in Range(groups)
  <2>1. group(t) # {} /\ group(t) \in SUBSET DOMAIN view.created
    BY <1>5
  <2>2. PICK u \in group(t) : \A x \in group(t) : Pool(view)!Older(u, x)
    BY <2>1, FirstPlace
  <2>3. u \in S /\ group(u) = group(t)
    BY <1>5
  <2>4. u \in L
    BY <1>2, <2>2, <2>3
  <2>5. QED
    BY <1>8, <2>3, <2>4 DEF Range
<1>10. Range(groups) = GroupsIn(view, S)
  <2>1. Range(groups) \subseteq GroupsIn(view, S)
    BY <1>4 DEF Range
  <2>2. GroupsIn(view, S) \subseteq Range(groups)
    BY <1>6, <1>9
  <2>3. QED
    BY <2>1, <2>2
<1>11. SeparateGroups(groups)
  <2>1. \A g \in GroupsIn(view, S) : g # {} /\ g \in SUBSET Everyone
    <3>1. S \subseteq Everyone
      BY DEF Fits, IsMap
    <3>2. QED
      BY <3>1, GroupsPartition
  <2>2. groups \in Seq(SUBSET Everyone)
    <3>1. GroupsIn(view, S) \subseteq SUBSET Everyone
      BY <2>1
    <3>2. QED
      BY <1>4, <3>1
  <2>3. \A i \in DOMAIN groups : groups[i] \in GroupsIn(view, S)
    BY <1>4
  <2>4. QED
    BY <1>4, <2>1, <2>2, <2>3, GroupsPartition DEF SeparateGroups, OneToOne
<1>12. ASSUME Pool(view)!Anchor \in S
       PROVE  1 <= Len(groups) /\ groups[1] = group(Pool(view)!Anchor)
  <2> DEFINE a == Pool(view)!Anchor
  <2>1. \A u \in S : Pool(view)!Older(a, u)
    BY <1>12, AnchorIsOldest
  <2>2. a \in L
    BY <1>2, <1>5, <1>12, <2>1
  <2>3. Pool(view)!Place(a, L) = 1
    BY <1>1, <2>1, <2>2, FirstPlace
  <2> HIDE DEF a
  <2>4. 1 \in DOMAIN groups /\ groups[1] = group(a)
    BY <1>8, <2>2, <2>3
  <2>5. 1 <= Len(groups)
    BY <1>4, <2>4
  <2>6. QED
    BY <2>4, <2>5 DEF a
<1>13. QED
  BY <1>10, <1>11, <1>12 DEF groups, group

\* If every group of some tickets is accepted and the limit of the candidates
\* is no less than their number, all the groups become candidates.
LEMMA AllAreTaken ==
  ASSUME NEW view, Fits(view), NEW S \in SUBSET DOMAIN view.created,
         \A g \in GroupsIn(view, S) : Pool(view)!Accepts(g, S),
         Cardinality(S) <= ForMode(view.policy, Mode).candidateLimit
  PROVE  Pool(view)!CandidatesOf(S) = Pool(view)!GroupsOf(S)
<1> DEFINE groups == Pool(view)!GroupsOf(S)
           n == Len(groups)
           prefix(i) == [j \in 1..i |-> groups[j]]
           V == {prefix(i) : i \in 0..n}
           A == [i \in 0..n |-> {prefix(i)}]
           step == [x \in V \X (0..n) |->
                      IF x[2] = 0 THEN << >> ELSE Pool(view)!Added(x[1], groups[x[2]], S)]
           Is(taken) == taken = [i \in 0..n |->
                         IF i = 0 THEN << >> ELSE Pool(view)!Added(taken[i - 1], groups[i], S)]
           limit == ForMode(view.policy, Mode).candidateLimit
<1>1. /\ SeparateGroups(groups) /\ n \in Nat /\ DOMAIN groups = 1..n
      /\ groups \in Seq(GroupsIn(view, S)) /\ Range(groups) = GroupsIn(view, S)
  BY GroupsCover, GroupsAre
<1>2. Pool(view)!CandidatesOf(S) = (CHOOSE taken : Is(taken))[n]
  BY DEF Pool!CandidatesOf
<1> HIDE DEF groups, n
<1>3. ASSUME NEW i \in 1..n
      PROVE  Pool(view)!Added(prefix(i - 1), groups[i], S) = prefix(i)
  <2>1. /\ groups[i] \in GroupsIn(view, S) /\ i \in 1..Len(groups)
        /\ Seen(groups, i) = Seen(groups, i - 1) \cup {groups[i]}
        /\ Seen(groups, i) \subseteq GroupsIn(view, S)
    BY <1>1, SeenGroups DEF n
  <2>2. Range(prefix(i - 1)) = Seen(groups, i - 1)
    BY DEF Range, Seen
  <2>3. /\ Pool(view)!Cardinality(groups[i]) = Cardinality(groups[i])
        /\ Pool(view)!Size(Seen(groups, i)) =
             Pool(view)!Size(Seen(groups, i - 1)) + Cardinality(groups[i])
    <3>1. /\ Pool(view)!Cardinality(groups[i]) = Cardinality(groups[i])
          /\ \A X \in SUBSET Seen(groups, i - 1) :
               /\ Pool(view)!Size(X) \in Nat
               /\ Pool(view)!Size(X \cup {groups[i]}) = Pool(view)!Size(X) + Cardinality(groups[i])
      BY <1>1, <2>1, SizeAdds
    <3>2. Seen(groups, i - 1) \in SUBSET Seen(groups, i - 1)
      OBVIOUS
    <3>3. QED
      BY <2>1, <3>1, <3>2
  <2>4. Pool(view)!Size(Seen(groups, i)) <= Cardinality(S)
    <3>1. UNION Seen(groups, i) \in SUBSET S
      BY <2>1, GroupsPartition
    <3>2. IsFiniteSet(S) /\ S \subseteq Everyone
      BY Places DEF Fits, IsMap
    <3>3. Pool(view)!Size(Seen(groups, i)) = Cardinality(UNION Seen(groups, i))
      BY <3>1, <3>2, SizeType
    <3>4. QED
      BY <3>1, <3>2, <3>3, FS_Subset
  <2>5. Pool(view)!Size(Seen(groups, i)) <= limit
    <3>1. Cardinality(S) \in Nat /\ limit \in Int
      BY Places, ModePolicy DEF Fits, MatchPolicy
    <3>2. Pool(view)!Size(Seen(groups, i)) \in Nat
      <4>1. UNION Seen(groups, i) \subseteq Everyone
        BY <1>1, <2>1, GroupsPartition DEF Fits, IsMap
      <4>2. QED
        BY <4>1, SizeType
    <3> HIDE DEF limit
    <3>3. Cardinality(S) <= limit
      BY DEF limit
    <3>4. QED
      BY <2>4, <3>1, <3>2, <3>3
  <2>6. /\ Pool(view)!Accepts(groups[i], S)
        /\ Pool(view)!Size(Pool(view)!Range(prefix(i - 1)))
             + Pool(view)!Cardinality(groups[i]) <= limit
    BY <2>1, <2>2, <2>3, <2>5, SameOperators
  <2>7. Pool(view)!Added(prefix(i - 1), groups[i], S) = Append(prefix(i - 1), groups[i])
    BY <2>6 DEF Pool!Added
  <2>8. Append(prefix(i - 1), groups[i]) = prefix(i)
    <3>1. i - 1 \in Nat /\ 1..(i - 1) \subseteq DOMAIN groups
      BY <1>1
    <3>2. prefix(i - 1) \in Seq(GroupsIn(view, S)) /\ Len(prefix(i - 1)) = i - 1
      BY <1>1, <3>1
    <3>3. QED
      BY <1>1, <2>1, <3>1, <3>2
  <2>9. QED
    BY <2>7, <2>8
<1>4. prefix(0) = << >>
  OBVIOUS
<1>5. prefix(n) = groups
  BY <1>1
<1>6. /\ \A i \in 0..n : prefix(i) \in V /\ A[i] = {prefix(i)}
      /\ \A i \in 0..n : A[i] \subseteq V
  OBVIOUS
<1>7. \A s \in V, i \in 0..n :
        step[<<s, i>>] = IF i = 0 THEN << >> ELSE Pool(view)!Added(s, groups[i], S)
  OBVIOUS
<1> HIDE DEF prefix, V, A, step
<1>8. \E f : Is(f)
  <2>1. ASSUME NEW i \in (0 + 1)..n, NEW s \in A[i - 1]
        PROVE  step[<<s, i>>] \in A[i]
    <3>1. i \in 1..n /\ i \in 0..n /\ i - 1 \in 0..n /\ i # 0
      BY <1>1
    <3>2. s = prefix(i - 1) /\ s \in V
      BY <1>6, <3>1
    <3>3. step[<<s, i>>] = prefix(i)
      BY <1>3, <1>7, <3>1, <3>2
    <3>4. QED
      BY <1>6, <3>1, <3>3
  <2>2. 0 \in Nat /\ 0 <= n /\ << >> \in A[0]
    BY <1>1, <1>4, <1>6
  <2>3. PICK f \in [0..n -> V] :
          f = Unrolled(f, 0, n, << >>, step) /\ \A i \in 0..n : f[i] \in A[i]
    <3>1. Leads(V, A, 0, n, << >>, step)
      BY <1>6, <2>1, <2>2 DEF Leads
    <3>2. QED
      BY <1>1, <2>2, <3>1, StepByStep
  <2>4. ASSUME NEW i \in 0..n, i # 0
        PROVE  step[<<f[i - 1], i>>] = Pool(view)!Added(f[i - 1], groups[i], S)
    <3>1. i - 1 \in 0..n
      BY <1>1, <2>4
    <3>2. QED
      BY <1>7, <2>3, <2>4, <3>1
  <2>5. Is(f)
    BY <2>3, <2>4 DEF Unrolled
  <2> HIDE DEF Is
  <2>6. QED
    BY <2>5
<1> DEFINE taken == CHOOSE taken : Is(taken)
<1>9. Is(taken)
  <2> HIDE DEF Is
  <2>1. QED
    BY <1>8
<1> HIDE DEF taken
<1>10. taken[0] \in A[0]
  BY <1>1, <1>4, <1>6, <1>9
<1>11. ASSUME NEW i \in (0 + 1)..n, taken[i - 1] \in A[i - 1]
       PROVE  taken[i] \in A[i]
  <2>1. i \in 1..n /\ i \in 0..n /\ i - 1 \in 0..n /\ i # 0
    BY <1>1
  <2>2. taken[i - 1] = prefix(i - 1)
    BY <1>6, <1>11, <2>1
  <2>3. taken[i] = Pool(view)!Added(taken[i - 1], groups[i], S)
    BY <1>9, <2>1
  <2>4. QED
    BY <1>3, <1>6, <2>1, <2>2, <2>3
<1> HIDE DEF Is
<1>12. \A i \in 0..n : taken[i] \in A[i]
  BY <1>1, <1>10, <1>11, Carried
<1>13. taken[n] = groups
  BY <1>1, <1>5, <1>6, <1>12
<1>14. QED
  BY <1>2, <1>13 DEF taken, groups

\* If all the groups together make a match, no fewer do.
LEMMA OnlyAllTogether ==
  ASSUME NEW view, NEW groups, SeparateGroups(groups), 1 <= Len(groups),
         Pool(view)!Size(Range(groups)) = Target
  PROVE  FullSets(groups, view) = {Range(groups)}
<1> DEFINE R == Range(groups)
<1>1. groups[1] \in R /\ UNION R \subseteq Everyone
  <2>1. 1 \in DOMAIN groups /\ DOMAIN groups = 1..Len(groups)
    BY SeenGroups DEF SeparateGroups
  <2>2. groups[1] \in R
    BY <2>1 DEF Range
  <2>3. R \subseteq SUBSET Everyone
    BY DEF SeparateGroups, Range
  <2>4. QED
    BY <2>2, <2>3
<1>2. \A g, h \in R : g # {} /\ (g \cap h # {} => g = h)
  BY DEF SeparateGroups, Range
<1> HIDE DEF R
<1>3. IsFiniteSet(UNION R) /\ Cardinality(UNION R) = Target
  BY <1>1, SizeType DEF R
<1>4. ASSUME NEW S \in SUBSET R, Pool(view)!Size(S) = Target
      PROVE  S = R
  <2>1. UNION S \in SUBSET UNION R /\ UNION S \subseteq Everyone
    BY <1>1
  <2>2. Cardinality(UNION S) = Target
    BY <1>4, <2>1, SizeType
  <2>3. UNION S = UNION R
    BY <1>3, <2>1, <2>2, FS_Subset
  <2>4. ASSUME NEW g \in R PROVE g \in S
    <3>1. PICK t \in g : TRUE
      BY <1>2
    <3>2. PICK h \in S : t \in h
      BY <2>3, <3>1
    <3>3. QED
      BY <1>2, <3>1, <3>2
  <2>5. QED
    BY <2>4
<1>5. FullSets(groups, view) = {S \in SUBSET R : groups[1] \in S /\ Pool(view)!Size(S) = Target}
  BY DEF FullSets, R
<1>6. Pool(view)!Size(R) = Target
  BY DEF R
<1>7. QED
  BY <1>1, <1>4, <1>5, <1>6 DEF R

\* A cut never takes the only set.
LEMMA CutOfOne ==
  ASSUME NEW view, Valid(ForMode(view.policy, Mode)), NEW S, NEW i, NEW groups
  PROVE  Pool(view)!Cut({S}, i, groups) = {S}
<1> DEFINE score == [T \in {S} |-> Pool(view)!Heuristic(T, i, groups)]
           Better(T, U) ==
             /\ T # U
             /\ \/ score[T] > score[U]
                \/ score[T] = score[U] /\ Pool(view)!SignatureBefore(UNION T, UNION U)
           ahead(U) == {T \in {S} : Better(T, U)}
           width == ForMode(view.policy, Mode).beamWidth
<1>1. Pool(view)!Cut({S}, i, groups) = {U \in {S} : Cardinality(ahead(U)) < width}
  BY SameOperators DEF Pool!Cut
<1>2. \A U \in {S} : ahead(U) = {}
  OBVIOUS
<1>3. 0 < width
  <2>1. width \in 1..1024
    BY DEF Valid
  <2> HIDE DEF width
  <2>2. QED
    BY <2>1
<1> HIDE DEF ahead, width
<1>4. \A U \in {S} : Cardinality(ahead(U)) < width
  BY <1>2, <1>3, FS_EmptySet
<1>5. QED
  BY <1>1, <1>4

\* A beam of any width follows the one set that can be completed.
LEMMA TightBeam ==
  ASSUME NEW view, NEW groups, SeparateGroups(groups), 1 <= Len(groups),
         Valid(ForMode(view.policy, Mode)), TeamSize \in Nat,
         Pool(view)!Size(Range(groups)) = Target, Cardinality(groups[1]) <= TeamSize
  PROVE  Pool(view)!BeamSets(groups) = {Range(groups)}
<1> DEFINE n == Len(groups)
           k == Cardinality(groups[1])
           first == {{groups[1]}}
           only(i) == {Seen(groups, i)}
           V == {only(i) : i \in 1..n}
           A == [i \in 1..n |-> {only(i)}]
           Is(beam) == beam = [i \in 1..n |->
                         IF i = 1 THEN first ELSE Pool(view)!NextBeam(beam[i - 1], i, groups)]
           beams == CHOOSE beam : Is(beam)
           size(S) == Pool(view)!Size(S)
<1>1. n \in Nat /\ 1 \in 1..n /\ n \in 1..n /\ DOMAIN groups = 1..n /\ Target \in Nat
  BY SeenGroups DEF SeparateGroups, Target
<1>2. Pool(view)!BeamSets(groups) =
        IF k > TeamSize THEN {} ELSE {S \in beams[n] : size(S) = Target}
  <2>1. Pool(view)!Cardinality(groups[1]) = k
    BY SameOperators
  <2>2. QED
    BY <2>1 DEF Pool!BeamSets, Pool!Target, Target
<1>3. k \in Nat
  BY <1>1, SizeAdds DEF n
<1>4. ASSUME NEW i \in 2..n
      PROVE  Pool(view)!NextBeam({Seen(groups, i - 1)}, i, groups) = {Seen(groups, i)}
  <2> DEFINE S == Seen(groups, i - 1)
             g == groups[i]
             rest == {groups[j] : j \in (i + 1)..n}
             kept == {X \in {S} : Pool(view)!SuffixSuffices(size(X), size(rest))}
             fitting == {X \in {S} : size(X) + Cardinality(g) <= Target}
  <2>1. /\ i \in 1..n /\ Seen(groups, i) = S \cup {g} /\ g \cap (UNION S) = {}
        /\ Seen(groups, i) \subseteq Range(groups)
    BY <1>1, SeenGroups DEF n
  <2>2. /\ Pool(view)!Cardinality(g) = Cardinality(g) /\ Cardinality(g) \in Nat \ {0}
        /\ size(S) \in Nat /\ size(S \cup {g}) = size(S) + Cardinality(g)
    <3>1. /\ Pool(view)!Cardinality(g) = Cardinality(g) /\ Cardinality(g) \in Nat \ {0}
          /\ \A X \in SUBSET Seen(groups, i - 1) :
               size(X) \in Nat /\ size(X \cup {g}) = size(X) + Cardinality(g)
      BY <2>1, SizeAdds DEF n
    <3>2. S \in SUBSET Seen(groups, i - 1)
      OBVIOUS
    <3> HIDE DEF size, g
    <3>3. QED
      BY <3>1, <3>2
  <2>3. Range(groups) = (S \cup {g}) \cup rest /\ Range(groups) \subseteq SUBSET Everyone
    <3>1. 1..n = (1..(i - 1)) \cup {i} \cup ((i + 1)..n)
      BY <1>1
    <3>2. Range(groups) = {groups[j] : j \in 1..n}
      BY <1>1 DEF Range
    <3>3. Range(groups) \subseteq SUBSET Everyone
      BY DEF SeparateGroups, Range
    <3>4. QED
      BY <3>1, <3>2, <3>3 DEF Seen
  <2>4. Pool(view)!NextBeam({S}, i, groups) =
          Pool(view)!Cut(kept \cup {X \cup {g} : X \in fitting}, i, groups)
    BY <2>2 DEF Pool!NextBeam, Pool!Target, Target
  <2>5. ASSUME NEW j \in (i + 1)..n PROVE groups[j] \cap (UNION (S \cup {g})) = {}
    <3>1. j \in DOMAIN groups /\ i # j /\ \A m \in 1..i : m \in DOMAIN groups /\ m # j
      BY <1>1
    <3>2. \A m \in 1..i : groups[j] \cap groups[m] = {}
      BY <3>1 DEF SeparateGroups
    <3>3. S \cup {g} = {groups[m] : m \in 1..i}
      BY <2>1 DEF Seen
    <3>4. QED
      BY <3>2, <3>3
  <2>6. size(S \cup {g}) + size(rest) = Target /\ size(rest) \in Nat /\ size(S \cup {g}) \in Nat
    <3> DEFINE a == UNION (S \cup {g})
               b == UNION rest
    <3>1. a \subseteq Everyone /\ b \subseteq Everyone /\ UNION Range(groups) = a \cup b
      BY <2>3
    <3>2. a \cap b = {}
      BY <2>5
    <3>3. /\ size(S \cup {g}) = Cardinality(a) /\ IsFiniteSet(a) /\ Cardinality(a) \in Nat
          /\ size(rest) = Cardinality(b) /\ IsFiniteSet(b) /\ Cardinality(b) \in Nat
      BY <3>1, SizeType
    <3>4. size(Range(groups)) = Cardinality(a \cup b)
      BY <3>1, SameOperators DEF Pool!Size
    <3> HIDE DEF a, b
    <3>5. Cardinality(a \cup b) = Cardinality(a) + Cardinality(b)
      <4>1. Cardinality(a \cap b) = 0
        BY <3>2, FS_EmptySet
      <4>2. Cardinality(a \cup b) = Cardinality(a) + Cardinality(b) - Cardinality(a \cap b)
        BY <3>3, FS_Union
      <4>3. QED
        BY <3>3, <4>1, <4>2
    <3>6. QED
      BY <3>3, <3>4, <3>5
  <2> HIDE DEF S, g, rest, size
  <2>7. kept = {}
    <3>1. ~(size(S) + size(rest) >= Target)
      BY <1>1, <2>2, <2>6
    <3>2. ~Pool(view)!SuffixSuffices(size(S), size(rest))
      BY <3>1 DEF Pool!SuffixSuffices, Pool!Target, Target
    <3>3. QED
      BY <3>2
  <2>8. fitting = {S}
    <3>1. size(S) + Cardinality(g) <= Target
      BY <1>1, <2>2, <2>6
    <3>2. QED
      BY <3>1
  <2>9. kept \cup {X \cup {g} : X \in fitting} = {S \cup {g}}
    BY <2>7, <2>8
  <2>10. Pool(view)!NextBeam({S}, i, groups) = {S \cup {g}}
    <3> DEFINE X == S \cup {g}
    <3> HIDE DEF X
    <3>1. Pool(view)!Cut({X}, i, groups) = {X}
      BY CutOfOne, Zenon
    <3>2. QED
      BY <2>4, <2>9, <3>1 DEF X
  <2>11. QED
    BY <2>1, <2>10 DEF S
<1>5. first = only(1)
  BY DEF Seen
<1>6. /\ \A i \in 2..n : Pool(view)!NextBeam(only(i - 1), i, groups) = only(i)
      /\ \A i \in 1..n : only(i) \in V /\ A[i] = {only(i)}
      /\ \A i \in 1..n : A[i] \subseteq V
  BY <1>4
<1> DEFINE step == [x \in V \X (1..n) |-> Pool(view)!NextBeam(x[1], x[2], groups)]
<1>7. \A s \in V : \A i \in 1..n : step[<<s, i>>] = Pool(view)!NextBeam(s, i, groups)
  OBVIOUS
<1> HIDE DEF only, A, V, first, n, step
<1>8. \E f : Is(f)
  <2>1. ASSUME NEW i \in (1 + 1)..n, NEW s \in A[i - 1]
        PROVE  step[<<s, i>>] \in A[i]
    <3>1. i \in 1..n /\ i - 1 \in 1..n /\ i \in 2..n
      BY <1>1
    <3>2. s = only(i - 1) /\ s \in V
      BY <1>6, <3>1
    <3>3. step[<<s, i>>] = only(i)
      BY <1>6, <1>7, <3>1, <3>2
    <3>4. QED
      BY <1>6, <3>1, <3>3
  <2>2. 1 \in Nat /\ 1 <= n /\ first \in A[1]
    BY <1>1, <1>5, <1>6
  <2>3. PICK f \in [1..n -> V] :
          f = Unrolled(f, 1, n, first, step) /\ \A i \in 1..n : f[i] \in A[i]
    <3>1. Leads(V, A, 1, n, first, step)
      BY <1>6, <2>1, <2>2 DEF Leads
    <3>2. QED
      BY <1>1, <2>2, <3>1, StepByStep
  <2>4. ASSUME NEW i \in 1..n, i # 1
        PROVE  step[<<f[i - 1], i>>] = Pool(view)!NextBeam(f[i - 1], i, groups)
    <3>1. i - 1 \in 1..n
      BY <1>1, <2>4
    <3>2. QED
      BY <1>7, <2>3, <3>1
  <2>5. Is(f)
    BY <2>3, <2>4 DEF Unrolled
  <2> HIDE DEF Is
  <2>6. QED
    BY <2>5
<1>9. Is(beams)
  <2> HIDE DEF Is
  <2>1. QED
    BY <1>8
<1> HIDE DEF beams
<1>10. beams[1] \in A[1]
  BY <1>1, <1>5, <1>6, <1>9
<1>11. ASSUME NEW i \in (1 + 1)..n, beams[i - 1] \in A[i - 1]
       PROVE  beams[i] \in A[i]
  <2>1. i \in 1..n /\ i # 1 /\ i \in 2..n /\ i - 1 \in 1..n
    BY <1>1
  <2>2. beams[i] = Pool(view)!NextBeam(beams[i - 1], i, groups)
    BY <1>9, <2>1
  <2>3. beams[i - 1] = only(i - 1)
    BY <1>6, <1>11, <2>1
  <2>4. QED
    BY <1>6, <2>1, <2>2, <2>3
<1> HIDE DEF Is
<1>12. \A i \in 1..n : beams[i] \in A[i]
  BY <1>1, <1>10, <1>11, Carried
<1>13. beams[n] = {Range(groups)}
  <2>1. Seen(groups, n) = Range(groups)
    BY SeenGroups DEF n
  <2>2. QED
    <3>1. beams[n] = only(n)
      BY <1>1, <1>6, <1>12
    <3>2. QED
      BY <2>1, <3>1 DEF only
<1>14. ~(k > TeamSize)
  BY <1>3
<1>15. QED
  BY <1>2, <1>13, <1>14

-----------------------------------------------------------------------------
(* Replays *)

\* What a replay sees of two teams that were made in a view: their tickets at
\* the same moment, under the numbers of the same policy.
Replayable(v, w, f) ==
  /\ Fits(v) /\ Fits(w)
  /\ w.created = Restrict(v.created, f.teamA \cup f.teamB)
  /\ w.at = v.at
  /\ SameNumbers(v.policy, w.policy)
  /\ Pool(v)!Anchor \in f.teamA \cup f.teamB

\* A split of candidates takes whole groups of the tickets read.
LEMMA SplitsOfPool ==
  ASSUME NEW v, Fits(v), NEW S \in SUBSET Range(Pool(v)!Candidates),
         NEW f \in Pool(v)!Splits(S, Pool(v)!Candidates[1])
  PROVE  /\ f.teamA \cup f.teamB = UNION S
         /\ S \subseteq GroupsIn(v, Pool(v)!Snapshot)
         /\ \A g \in S : Pool(v)!Accepts(g, Pool(v)!Snapshot)
         /\ UNION S \subseteq Pool(v)!Snapshot
         /\ IsFiniteSet(UNION S) /\ Cardinality(UNION S) = Target
         /\ FullTeams(v, f)
<1> DEFINE groups == Pool(v)!Candidates
<1>1. SeparateGroups(groups) /\ Range(groups) \subseteq Accepted(v, Pool(v)!Snapshot)
  BY PoolCandidates
<1> HIDE DEF groups
<1>2. /\ f.teamA \cup f.teamB = UNION S /\ f.teamA \cap f.teamB = {}
      /\ IsFiniteSet(f.teamA) /\ Cardinality(f.teamA) = TeamSize
      /\ IsFiniteSet(f.teamB) /\ Cardinality(f.teamB) = TeamSize
  <2>1. S \in SUBSET Range(groups) /\ f \in Pool(v)!Splits(S, groups[1])
    BY DEF groups
  <2>2. QED
    BY <1>1, <2>1, SplitsAre
<1>3. /\ S \subseteq GroupsIn(v, Pool(v)!Snapshot)
      /\ \A g \in S : Pool(v)!Accepts(g, Pool(v)!Snapshot)
  BY <1>1 DEF Accepted, groups
<1>4. UNION S \subseteq Pool(v)!Snapshot
  BY <1>3, GroupsPartition
<1>5. IsFiniteSet(UNION S) /\ Cardinality(UNION S) = Target
  <2>1. Cardinality(f.teamA \cap f.teamB) = 0
    BY <1>2, FS_EmptySet
  <2>2. /\ IsFiniteSet(f.teamA \cup f.teamB)
        /\ Cardinality(f.teamA \cup f.teamB) = TeamSize + TeamSize - 0
    BY <1>2, <2>1, FS_Union
  <2>3. TeamSize + TeamSize - 0 = Target
    BY TeamSizeAssumption DEF Target
  <2> DEFINE T == f.teamA \cup f.teamB
  <2>4. T = UNION S /\ IsFiniteSet(T) /\ Cardinality(T) = Target
    BY <1>2, <2>2, <2>3
  <2> HIDE DEF T
  <2>5. QED
    BY <2>4
<1>6. FullTeams(v, f)
  <2>1. UNION S \subseteq DOMAIN v.created /\ UNION S \subseteq Everyone
    BY <1>4, SnapshotWaits
  <2>2. f.teamA # {} /\ f.teamB # {}
    BY <1>2, TeamSizeAssumption, FS_EmptySet
  <2>3. f.teamA \subseteq UNION S /\ f.teamB \subseteq UNION S
    BY <1>2
  <2>4. QED
    BY <1>2, <2>1, <2>2, <2>3 DEF FullTeams
<1>7. QED
  BY <1>2, <1>3, <1>4, <1>5, <1>6

\* A replay has the tickets in the order in which they waited, with the same
\* anchor and the same windows.
LEMMA ReplayOrders ==
  ASSUME NEW v, NEW w, NEW f, Replayable(v, w, f),
         f.teamA \cup f.teamB \subseteq Pool(v)!Snapshot
  PROVE  LET T == f.teamA \cup f.teamB IN
         /\ DOMAIN w.created = T
         /\ \A t \in T : w.created[t] = v.created[t]
         /\ Pool(w)!Anchor = Pool(v)!Anchor
         /\ Pool(w)!Snapshot = T
         /\ \A t \in T : Pool(v)!InWindows(t) => Pool(w)!InWindows(t)
<1> DEFINE T == f.teamA \cup f.teamB
           a == Pool(v)!Anchor
<1>1. /\ Fits(v) /\ Fits(w) /\ w.at = v.at /\ a \in T
      /\ T \subseteq DOMAIN v.created /\ T \subseteq Pool(v)!Snapshot
  BY SnapshotWaits DEF Replayable
<1>2. DOMAIN w.created = T /\ \A t \in T : w.created[t] = v.created[t]
  BY DEF Replayable, Restrict
<1> HIDE DEF T
<1>3. \A t, u \in T : Pool(w)!Older(t, u) <=> Pool(v)!Older(t, u)
  BY <1>2 DEF Pool!Older
<1>4. Pool(w)!Anchor = a
  <2>1. \A u \in T : Pool(v)!Older(a, u)
    BY <1>1, AnchorIsOldest
  <2>2. \A u \in DOMAIN w.created : Pool(w)!Older(a, u)
    BY <1>1, <1>2, <1>3, <2>1
  <2>3. QED
    BY <1>1, <1>2, <2>2, AnchorIsOldest
<1>5. Pool(w)!Snapshot = T
  <2>1. ASSUME NEW t \in T PROVE Pool(w)!Place(t, T) <= SnapshotLimit
    <3> DEFINE D == DOMAIN v.created
               before == {u \in D : Pool(v)!Older(u, t)}
               beforeT == {u \in T : Pool(w)!Older(u, t)}
    <3>1. /\ Pool(v)!Place(t, D) = Cardinality(before)
          /\ Pool(w)!Place(t, T) = Cardinality(beforeT)
      BY SameOperators DEF Pool!Place
    <3>2. Pool(v)!Place(t, D) <= SnapshotLimit
      BY <1>1 DEF Pool!Snapshot
    <3>3. IsFiniteSet(before) /\ beforeT \in SUBSET before
      <4>1. beforeT \in SUBSET before /\ before \in SUBSET D
        BY <1>1, <1>3
      <4>2. IsFiniteSet(D)
        BY <1>1, Places
      <4> HIDE DEF before, beforeT, D
      <4>3. QED
        BY <4>1, <4>2, FS_Subset
    <3> HIDE DEF before, beforeT, D
    <3>4. /\ Cardinality(beforeT) <= Cardinality(before)
          /\ Cardinality(before) \in Nat /\ Cardinality(beforeT) \in Nat
      BY <3>3, FS_Subset, FS_CardinalityType
    <3>5. QED
      BY <3>1, <3>2, <3>4, SnapshotAssumption
  <2>2. QED
    BY <1>2, <2>1 DEF Pool!Snapshot
<1>6. ASSUME NEW t \in T, Pool(v)!InWindows(t) PROVE Pool(w)!InWindows(t)
  <2>1. Pool(w)!Wait(Pool(w)!Anchor) = Pool(v)!Wait(Pool(v)!Anchor)
    BY <1>1, <1>2, <1>4 DEF Pool!Wait
  <2>2. \A first, step, bound :
          Pool(w)!Widened(first, step, bound) = Pool(v)!Widened(first, step, bound)
    BY <2>1, SameOperators DEF Pool!Widened
  <2>3. SameNumbers(v.policy, w.policy)
    BY DEF Replayable
  <2>4. /\ Pool(w)!RatingRange = Pool(v)!RatingRange
        /\ Pool(w)!LatencyLimit = Pool(v)!LatencyLimit
    BY <2>2, <2>3 DEF Pool!RatingRange, Pool!LatencyLimit, SameNumbers, EqualNumbers
  <2>5. QED
    BY <1>4, <1>6, <2>3, <2>4, SameFunctions DEF Pool!InWindows, SameNumbers, EqualNumbers
<1>7. QED
  BY <1>2, <1>4, <1>5, <1>6 DEF T

\* The candidates of a replay are the groups that were matched, that of the
\* anchor the first as before.
LEMMA ReplayCandidates ==
  ASSUME NEW v, NEW S \in SUBSET Range(Pool(v)!Candidates),
         NEW f \in Pool(v)!Splits(S, Pool(v)!Candidates[1]),
         NEW w, Replayable(v, w, f)
  PROVE  /\ SeparateGroups(Pool(w)!Candidates)
         /\ 1 <= Len(Pool(w)!Candidates)
         /\ Range(Pool(w)!Candidates) = S
         /\ Pool(w)!Candidates[1] = Pool(v)!Candidates[1]
         /\ Pool(w)!Anchor \in Pool(w)!Candidates[1]
         /\ Pool(w)!Size(S) = Target
<1> DEFINE T == f.teamA \cup f.teamB
           Z == Pool(v)!Snapshot
           a == Pool(v)!Anchor
<1>1. Fits(v) /\ Fits(w) /\ a \in T /\ SameNumbers(v.policy, w.policy)
  BY DEF Replayable
<1>2. /\ T = UNION S /\ S \subseteq GroupsIn(v, Z)
      /\ \A g \in S : Pool(v)!Accepts(g, Z)
      /\ T \subseteq Z /\ IsFiniteSet(T) /\ Cardinality(T) = Target
  <2>1. /\ T = UNION S /\ S \subseteq GroupsIn(v, Z)
        /\ \A g \in S : Pool(v)!Accepts(g, Z)
        /\ UNION S \subseteq Z /\ IsFiniteSet(UNION S) /\ Cardinality(UNION S) = Target
    BY <1>1, SplitsOfPool
  <2> HIDE DEF T, Z
  <2>2. QED
    BY <2>1
<1>3. /\ DOMAIN w.created = T
      /\ Pool(w)!Anchor = a /\ Pool(w)!Snapshot = T
      /\ \A t \in T : Pool(v)!InWindows(t) => Pool(w)!InWindows(t)
  BY <1>2, ReplayOrders
<1>4. Z \in SUBSET DOMAIN v.created
  BY <1>1, SnapshotWaits
<1> HIDE DEF T, Z, a
<1>5. ASSUME NEW t \in T
      PROVE  /\ Pool(w)!GroupOf(t, T) = Pool(v)!GroupOf(t, Z)
             /\ Pool(v)!GroupOf(t, Z) \in S
  <2>1. PICK g \in S : t \in g
    BY <1>2
  <2>2. g = Pool(v)!GroupOf(t, Z)
    <3>1. t \in Z /\ t \in Pool(v)!GroupOf(t, Z) /\ Pool(v)!GroupOf(t, Z) \in GroupsIn(v, Z)
      BY <1>2 DEF Pool!GroupOf, GroupsIn
    <3>2. QED
      BY <1>2, <2>1, <3>1, GroupsPartition
  <2>3. g \subseteq T
    BY <1>2
  <2>4. Pool(w)!GroupOf(t, T) = Pool(v)!GroupOf(t, Z)
    BY <1>2, <2>2, <2>3 DEF Pool!GroupOf
  <2>5. QED
    BY <2>2, <2>4
<1>6. GroupsIn(w, T) = S
  <2>1. GroupsIn(w, T) \subseteq S
    BY <1>5 DEF GroupsIn
  <2>2. ASSUME NEW g \in S PROVE g \in GroupsIn(w, T)
    <3>1. g # {}
      BY <1>2, GroupsPartition
    <3>2. PICK t \in g : TRUE
      BY <3>1
    <3>3. t \in T /\ t \in Z
      BY <1>2
    <3>4. t \in Pool(v)!GroupOf(t, Z) /\ Pool(v)!GroupOf(t, Z) \in GroupsIn(v, Z)
      BY <3>3 DEF Pool!GroupOf, GroupsIn
    <3>5. g = Pool(v)!GroupOf(t, Z)
      BY <1>2, <3>4, GroupsPartition
    <3>6. g = Pool(w)!GroupOf(t, T)
      BY <1>5, <3>3, <3>5
    <3>7. QED
      BY <3>3, <3>6 DEF GroupsIn
  <2>3. QED
    BY <2>1, <2>2
<1>7. \A g \in GroupsIn(w, T) : Pool(w)!Accepts(g, T)
  <2>1. ASSUME NEW g \in S, NEW t \in g
        PROVE  Pool(w)!InWindows(t) /\ \A u \in T : Player[u] = Player[t] => u = t
    <3>1. Pool(v)!InWindows(t) /\ \A u \in Z : Player[u] = Player[t] => u = t
      BY <1>2 DEF Pool!Accepts
    <3>2. t \in T
      BY <1>2
    <3>3. QED
      BY <1>2, <1>3, <3>1, <3>2
  <2>2. QED
    BY <1>6, <2>1 DEF Pool!Accepts
<1>8. Cardinality(T) <= ForMode(w.policy, Mode).candidateLimit
  <2>1. ForMode(w.policy, Mode).candidateLimit >= 2 * TeamSize
        /\ ForMode(w.policy, Mode).candidateLimit \in Int
    <3> DEFINE P == ForMode(w.policy, Mode)
    <3>1. P \in MatchPolicy /\ Valid(P)
      BY <1>1, ModePolicy DEF Fits
    <3> HIDE DEF P
    <3>2. P.candidateLimit >= 2 * TeamSize /\ P.candidateLimit \in Int
      BY <3>1 DEF Valid, MatchPolicy
    <3>3. QED
      BY <3>2 DEF P
  <2>2. QED
    BY <1>2, <2>1, TeamSizeAssumption DEF Target
<1>9. /\ Pool(w)!Candidates = Pool(w)!GroupsOf(T) /\ Range(Pool(w)!Candidates) = S
      /\ SeparateGroups(Pool(w)!Candidates) /\ 1 <= Len(Pool(w)!Candidates)
      /\ Pool(w)!Candidates[1] = Pool(w)!GroupOf(a, T)
  <2>1. T \in SUBSET DOMAIN w.created
    BY <1>3
  <2>2. Pool(w)!CandidatesOf(T) = Pool(w)!GroupsOf(T)
    BY <1>1, <1>7, <1>8, <2>1, AllAreTaken
  <2>3. Pool(w)!Candidates = Pool(w)!GroupsOf(T)
    BY <1>3, <2>2 DEF Pool!Candidates
  <2>4. /\ Range(Pool(w)!GroupsOf(T)) = GroupsIn(w, T)
        /\ SeparateGroups(Pool(w)!GroupsOf(T))
        /\ 1 <= Len(Pool(w)!GroupsOf(T))
        /\ Pool(w)!GroupsOf(T)[1] = Pool(w)!GroupOf(Pool(w)!Anchor, T)
    BY <1>1, <1>3, <2>1, GroupsCover
  <2>5. QED
    BY <1>3, <1>6, <2>3, <2>4
<1>10. Pool(v)!Candidates[1] = Pool(v)!GroupOf(a, Z)
  <2> DEFINE groups == Pool(v)!Candidates
  <2>1. /\ groups = Pool(v)!CandidatesOf(Z)
        /\ groups \in Seq(Accepted(v, Z))
        /\ \A k \in DOMAIN groups : groups[k] = Pool(v)!GroupsOf(Z)[1] => k = 1
    <3>1. groups = Pool(v)!CandidatesOf(Z)
      BY DEF Pool!Candidates, Z
    <3> HIDE DEF groups
    <3>2. /\ Pool(v)!CandidatesOf(Z) \in Seq(Accepted(v, Z))
          /\ \A k \in DOMAIN Pool(v)!CandidatesOf(Z) :
               Pool(v)!CandidatesOf(Z)[k] = Pool(v)!GroupsOf(Z)[1] => k = 1
      BY <1>1, <1>4, CandidatesAre
    <3>3. QED
      BY <3>1, <3>2
  <2>2. a \in Z /\ Pool(v)!GroupsOf(Z)[1] = Pool(v)!GroupOf(a, Z)
    <3>1. a \in Z
      BY <1>1, <1>2
    <3>2. QED
      BY <1>1, <1>4, <3>1, GroupsCover DEF a
  <2>3. PICK k \in DOMAIN groups : groups[k] = Pool(v)!GroupOf(a, Z)
    <3>1. Pool(v)!GroupOf(a, Z) \in Range(groups)
      BY <1>1, <1>5
    <3>2. QED
      BY <3>1 DEF Range
  <2>4. k = 1
    BY <2>1, <2>2, <2>3
  <2>5. QED
    BY <2>3, <2>4
<1>11. a \in Pool(w)!GroupOf(a, T) /\ Pool(w)!GroupOf(a, T) = Pool(v)!GroupOf(a, Z)
  BY <1>1, <1>5 DEF Pool!GroupOf
<1>12. Pool(w)!Size(S) = Target
  BY <1>2, SameOperators DEF Pool!Size
<1>13. QED
  BY <1>3, <1>9, <1>10, <1>11, <1>12

\* Pairs of teams.
Sides == {[teamA |-> x[1], teamB |-> x[2]] : x \in (SUBSET Everyone) \X (SUBSET Everyone)}

\* There are finitely many.
LEMMA SidesAreFinite == IsFiniteSet(Sides)
<1> DEFINE X == (SUBSET Everyone) \X (SUBSET Everyone)
           f == [x \in X |-> [teamA |-> x[1], teamB |-> x[2]]]
<1>1. IsFiniteSet(SUBSET Everyone)
  BY TicketsAssumption, FS_SUBSET
<1>2. IsFiniteSet(X)
  BY <1>1, FS_Product
<1>3. f = [x \in X |-> f[x]] /\ Sides = {f[x] : x \in X}
  BY DEF Sides
<1> HIDE DEF X, f
<1>4. IsFiniteSet({f[x] : x \in X})
  BY <1>2, <1>3, ValuesAreFinite
<1>5. QED
  BY <1>3, <1>4

\* What Best leaves of F, for a cost that is a function.
Picked(F, cost) == {x \in F : cost[x] = Min(Range(cost))}

\* The best are those that nothing undercuts.
LEMMA PickedAreLeast ==
  ASSUME NEW F, IsFiniteSet(F), NEW cost \in [F -> Int]
  PROVE  \A x \in F : x \in Picked(F, cost) <=> \A y \in F : cost[x] <= cost[y]
<1> SUFFICES ASSUME NEW x \in F
             PROVE  x \in Picked(F, cost) <=> \A y \in F : cost[x] <= cost[y]
  OBVIOUS
<1> DEFINE R == {cost[y] : y \in F}
<1>1. Range(cost) = R /\ R \in SUBSET Int /\ R # {}
  BY DEF Range
<1>2. IsFiniteSet(R)
  BY ValuesAreFinite
<1>3. cost[x] \in R /\ \A y \in F : cost[y] \in R
  OBVIOUS
<1>4. \A r \in R : \E y \in F : r = cost[y]
  OBVIOUS
<1>5. Picked(F, cost) = {y \in F : cost[y] = Min(R)}
  BY <1>1 DEF Picked
<1> HIDE DEF R
<1>6. Min(R) \in R /\ \A r \in R : Min(R) <= r
  BY <1>1, <1>2, Extremes
<1>7. Min(R) \in Int /\ \A y \in F : cost[y] \in Int
  BY <1>1, <1>3, <1>6
<1>8. x \in Picked(F, cost) <=> cost[x] = Min(R)
  BY <1>5
<1>9. cost[x] = Min(R) <=> \A y \in F : cost[x] <= cost[y]
  <2> DEFINE m == Min(R)
  <2>1. /\ m \in Int /\ \A y \in F : cost[y] \in Int /\ m <= cost[y]
        /\ \E y \in F : m = cost[y]
    BY <1>3, <1>4, <1>6, <1>7
  <2> HIDE DEF m
  <2>2. QED
    BY <2>1 DEF m
<1>10. QED
  BY <1>8, <1>9

\* How far the ratings of two teams are apart, and what a pair of teams lacks
\* in quality.
Imbalance(F) ==
  [f \in F |-> LET a == Sum(Rating, f.teamA)
                   b == Sum(Rating, f.teamB)
               IN  IF a < b THEN b - a ELSE a - b]

Losses(view, F, region) == [f \in F |-> -Pool(view)!Quality(f, region).total]

\* The pairs of teams among which a beam search chooses.
Tried(view, groups) ==
  UNION {Pool(view)!Splits(S, groups[1]) : S \in Pool(view)!BeamSets(groups)}

\* The two searches, with costs that are functions.
LEMMA SearchesPick ==
  ASSUME NEW view, NEW groups, NEW region, Pool(view)!EnoughPlayers(groups)
  PROVE  /\ Pool(view)!Anchor \in groups[1] =>
              Pool(view)!Greedy(groups) =
                Picked(Pool(view)!Splits(Pool(view)!SelectedGroups(groups), groups[1]),
                       Imbalance(Pool(view)!Splits(Pool(view)!SelectedGroups(groups), groups[1])))
         /\ Pool(view)!Anchor \notin groups[1] => Pool(view)!Greedy(groups) = {}
         /\ Pool(view)!Beam(groups, region) =
              Picked(Tried(view, groups), Losses(view, Tried(view, groups), region))
<1>1. ASSUME Pool(view)!Anchor \in groups[1]
      PROVE  Pool(view)!Greedy(groups) =
                Picked(Pool(view)!Splits(Pool(view)!SelectedGroups(groups), groups[1]),
                       Imbalance(Pool(view)!Splits(Pool(view)!SelectedGroups(groups), groups[1])))
  <2> DEFINE F == Pool(view)!Splits(Pool(view)!SelectedGroups(groups), groups[1])
             cost == [f \in F |-> Pool(view)!Distance(Pool(view)!Total(Rating, f.teamA),
                                                      Pool(view)!Total(Rating, f.teamB))]
  <2>1. Pool(view)!Greedy(groups) =
          {f \in F : cost[f] = Pool(view)!Min(Pool(view)!Range(cost))}
    BY <1>1 DEF Pool!Greedy, Pool!Best
  <2> HIDE DEF F
  <2>2. cost = Imbalance(F)
    BY SumsAre, SameFunctions DEF Imbalance
  <2> HIDE DEF cost
  <2>3. Pool(view)!Greedy(groups) = {f \in F : cost[f] = Min(Range(cost))}
    BY <2>1, SameOperators
  <2>4. QED
    BY <2>2, <2>3 DEF Picked, F
<1>2. ASSUME Pool(view)!Anchor \notin groups[1] PROVE Pool(view)!Greedy(groups) = {}
  BY <1>2 DEF Pool!Greedy
<1>3. Pool(view)!Beam(groups, region) =
        Picked(Tried(view, groups), Losses(view, Tried(view, groups), region))
  <2> DEFINE F == Tried(view, groups)
             cost == [f \in F |-> -Pool(view)!Quality(f, region).total]
  <2>1. Pool(view)!Beam(groups, region) =
          {f \in F : cost[f] = Pool(view)!Min(Pool(view)!Range(cost))}
    BY DEF Pool!Beam, Pool!Best, Tried
  <2> HIDE DEF F
  <2>2. cost = Losses(view, F, region)
    BY DEF Losses
  <2> HIDE DEF cost
  <2>3. Pool(view)!Beam(groups, region) = {f \in F : cost[f] = Min(Range(cost))}
    BY <2>1, SameOperators
  <2>4. QED
    BY <2>2, <2>3 DEF Picked, F
<1>4. QED
  BY <1>1, <1>2, <1>3

\* A replay has to choose among the splits of the groups that were matched,
\* and among no others.
LEMMA ReplayFinds ==
  ASSUME NEW v, NEW S \in SUBSET Range(Pool(v)!Candidates),
         NEW f \in Pool(v)!Splits(S, Pool(v)!Candidates[1]),
         NEW w, Replayable(v, w, f), NEW region
  PROVE  LET F == Pool(v)!Splits(S, Pool(v)!Candidates[1]) IN
         Pool(w)!OptimizeTeams(Pool(w)!Candidates, region) =
           IF w.policy.algorithm = "greedy" THEN Picked(F, Imbalance(F))
           ELSE Picked(F, Losses(w, F, region))
<1> DEFINE groups == Pool(w)!Candidates
           first == Pool(v)!Candidates[1]
           F == Pool(v)!Splits(S, first)
<1>1. /\ SeparateGroups(groups) /\ 1 <= Len(groups) /\ Range(groups) = S
      /\ groups[1] = first /\ Pool(w)!Anchor \in groups[1] /\ Pool(w)!Size(S) = Target
  BY ReplayCandidates
<1>2. Fits(v) /\ Fits(w)
  BY DEF Replayable
<1>3. \A X, g : Pool(w)!Splits(X, g) = Pool(v)!Splits(X, g)
  BY SameOperators DEF Pool!Splits
<1>4. /\ first \in SUBSET f.teamA /\ IsFiniteSet(f.teamA) /\ Cardinality(f.teamA) = TeamSize
  <2> DEFINE pool == Pool(v)!Candidates
  <2>1. SeparateGroups(pool) /\ S \in SUBSET Range(pool) /\ f \in Pool(v)!Splits(S, first)
    BY <1>2, PoolCandidates
  <2> HIDE DEF pool, first
  <2>2. QED
    BY <2>1, SplitsAre
<1> HIDE DEF groups, first
<1>5. Pool(w)!EnoughPlayers(groups)
  <2>1. Pool(w)!Size(S) >= Target
    BY <1>1, TeamSizeAssumption DEF Target
  <2>2. QED
    BY <1>1, <2>1, SameOperators DEF Pool!EnoughPlayers, Pool!Target, Target
<1>6. Pool(w)!SelectedGroups(groups) = S
  <2>1. FullSets(groups, w) = {S}
    BY <1>1, OnlyAllTogether
  <2>2. IF FullSets(groups, w) = {}
        THEN Pool(w)!SelectedGroups(groups) = {}
        ELSE Pool(w)!SelectedGroups(groups) \in FullSets(groups, w)
    BY <1>1, SelectedGroupsAre, TeamSizeAssumption
  <2>3. QED
    BY <2>1, <2>2
<1>7. Pool(w)!BeamSets(groups) = {S}
  <2>1. Cardinality(groups[1]) <= TeamSize
    BY <1>1, <1>4, FS_Subset
  <2>2. Valid(ForMode(w.policy, Mode))
    BY <1>2, ModePolicy DEF Fits
  <2>3. Pool(w)!Size(Range(groups)) = Target
    BY <1>1
  <2>4. Pool(w)!BeamSets(groups) = {Range(groups)}
    BY <1>1, <2>1, <2>2, <2>3, TightBeam, TeamSizeAssumption
  <2>5. QED
    BY <1>1, <2>4
<1>8. Pool(w)!Greedy(groups) = Picked(F, Imbalance(F))
  <2>1. Pool(w)!Splits(Pool(w)!SelectedGroups(groups), groups[1]) = F
    BY <1>1, <1>3, <1>6
  <2>2. Pool(w)!Greedy(groups) =
          Picked(Pool(w)!Splits(Pool(w)!SelectedGroups(groups), groups[1]),
                 Imbalance(Pool(w)!Splits(Pool(w)!SelectedGroups(groups), groups[1])))
    BY <1>1, <1>5, SearchesPick
  <2>3. QED
    BY <2>1, <2>2
<1>9. Pool(w)!Beam(groups, region) = Picked(F, Losses(w, F, region))
  <2>1. Tried(w, groups) = F
    BY <1>1, <1>3, <1>7 DEF Tried
  <2>2. QED
    BY <1>5, <2>1, SearchesPick
<1>10. ForMode(w.policy, Mode).algorithm = w.policy.algorithm
  BY <1>2, ModePolicy DEF Fits
<1>11. Pool(w)!OptimizeTeams(groups, region) =
         IF w.policy.algorithm = "greedy" THEN Pool(w)!Greedy(groups)
         ELSE Pool(w)!Beam(groups, region)
  BY <1>10 DEF Pool!OptimizeTeams
<1>12. QED
  BY <1>8, <1>9, <1>11 DEF groups, first

\* The pairs of teams that a search compares are finitely many and have a
\* quality.
LEMMA LossesType ==
  ASSUME NEW v, Fits(v), NEW S \in SUBSET Range(Pool(v)!Candidates), NEW region \in Regions,
         NEW f \in Pool(v)!Splits(S, Pool(v)!Candidates[1])
  PROVE  f \in Sides /\ -Pool(v)!Quality(f, region).total \in Int
<1>1. UNION S \subseteq Everyone /\ f.teamA \cup f.teamB = UNION S /\ FullTeams(v, f)
  <2>1. f.teamA \cup f.teamB = UNION S /\ UNION S \subseteq Pool(v)!Snapshot /\ FullTeams(v, f)
    BY SplitsOfPool
  <2>2. Pool(v)!Snapshot \subseteq Everyone
    BY SnapshotWaits
  <2>3. QED
    BY <2>1, <2>2
<1>2. \E A \in SUBSET S : f = [teamA |-> UNION A, teamB |-> UNION (S \ A)]
  BY DEF Pool!Splits
<1>3. f \in Sides
  <2>1. PICK a, b : f = [teamA |-> a, teamB |-> b]
    BY <1>2
  <2>2. a = f.teamA /\ b = f.teamB
    BY <2>1
  <2>3. a \in SUBSET Everyone /\ b \in SUBSET Everyone
    BY <1>1, <2>2
  <2> DEFINE x == <<a, b>>
  <2>4. x \in (SUBSET Everyone) \X (SUBSET Everyone) /\ f = [teamA |-> x[1], teamB |-> x[2]]
    BY <2>1, <2>3
  <2> HIDE DEF x
  <2>5. QED
    BY <2>4 DEF Sides
<1>4. Pool(v)!Quality(f, region) \in Qualities
  BY <1>1, QualityType
<1> DEFINE q == Pool(v)!Quality(f, region)
<1>5. q.total \in Int
  BY <1>4 DEF Qualities
<1> HIDE DEF q
<1>6. -q.total \in Int
  BY <1>5
<1>7. QED
  BY <1>3, <1>6 DEF q

\* The teams that are found are the best among the splits of some groups.
LEMMA TeamsAreBest ==
  ASSUME NEW v, Fits(v), NEW region \in Regions,
         NEW f \in Pool(v)!OptimizeTeams(Pool(v)!Candidates, region)
  PROVE  \E S \in SUBSET Range(Pool(v)!Candidates) :
           LET F == Pool(v)!Splits(S, Pool(v)!Candidates[1]) IN
           /\ f \in F
           /\ v.policy.algorithm = "greedy" => f \in Picked(F, Imbalance(F))
           /\ v.policy.algorithm = "beam" => f \in Picked(F, Losses(v, F, region))
<1> DEFINE groups == Pool(v)!Candidates
           selected == Pool(v)!SelectedGroups(groups)
           teams(S) == Pool(v)!Splits(S, groups[1])
<1>1. /\ ForMode(v.policy, Mode).algorithm = v.policy.algorithm
      /\ Valid(ForMode(v.policy, Mode))
      /\ v.policy.algorithm \in {"greedy", "beam"}
  <2>1. ForMode(v.policy, Mode).algorithm = v.policy.algorithm /\ Valid(ForMode(v.policy, Mode))
    BY ModePolicy DEF Fits
  <2>2. v.policy \in MatchPolicy
    BY DEF Fits, Valid
  <2>3. QED
    BY <2>1, <2>2 DEF MatchPolicy
<1>2. /\ v.policy.algorithm = "greedy" => f \in Pool(v)!Greedy(groups)
      /\ v.policy.algorithm = "beam" => f \in Pool(v)!Beam(groups, region)
  BY <1>1 DEF Pool!OptimizeTeams
<1>3. Pool(v)!EnoughPlayers(groups)
  BY <1>1, <1>2 DEF Pool!Greedy, Pool!Beam
<1>4. SeparateGroups(groups) /\ 1 <= Len(groups)
  BY <1>3, PoolCandidates
<1>5. CASE v.policy.algorithm = "greedy"
  <2> HIDE DEF groups, teams
  <2>1. f \in Picked(teams(selected), Imbalance(teams(selected)))
    BY <1>2, <1>3, <1>5, SearchesPick DEF teams
  <2>2. selected \in SUBSET Range(groups)
    <3>1. selected = {} \/ selected \in FullSets(groups, v)
      BY <1>4, SelectedGroupsAre, TeamSizeAssumption
    <3>2. QED
      BY <3>1 DEF FullSets
  <2>3. f \in teams(selected)
    BY <2>1 DEF Picked
  <2> HIDE DEF selected
  <2>4. QED
    BY <1>5, <2>1, <2>2, <2>3 DEF groups, teams
<1>6. CASE v.policy.algorithm = "beam"
  <2> DEFINE all == Tried(v, groups)
             cost(F) == Losses(v, F, region)
  <2>1. f \in Picked(all, cost(all)) /\ f \in all
    <3>1. Pool(v)!Beam(groups, region) = Picked(all, cost(all))
      <4> HIDE DEF groups
      <4>1. QED
        BY <1>3, SearchesPick
    <3>2. f \in Picked(all, cost(all))
      BY <1>2, <1>6, <3>1
    <3>3. QED
      BY <3>2 DEF Picked
  <2>2. Pool(v)!BeamSets(groups) \subseteq SUBSET Range(groups)
    <3> HIDE DEF groups
    <3>1. Pool(v)!BeamSets(groups) \subseteq FullSets(groups, v)
      BY <1>1, <1>4, BeamSetsAre, TeamSizeAssumption
    <3>2. QED
      BY <3>1 DEF FullSets
  <2>3. PICK S \in Pool(v)!BeamSets(groups) : f \in teams(S)
    BY <2>1 DEF Tried
  <2>4. teams(S) \subseteq all
    BY <2>3 DEF Tried
  <2>5. \A g \in all : g \in Sides /\ -Pool(v)!Quality(g, region).total \in Int
    <3>1. ASSUME NEW g \in all PROVE \E X \in SUBSET Range(groups) : g \in teams(X)
      BY <2>2, <3>1 DEF Tried
    <3>2. QED
      BY <3>1, LossesType
  <2> HIDE DEF all, groups, teams
  <2>6. ASSUME NEW F \in SUBSET all PROVE IsFiniteSet(F) /\ cost(F) \in [F -> Int]
    <3>1. F \in SUBSET Sides
      BY <2>5
    <3>2. IsFiniteSet(F)
      BY <3>1, SidesAreFinite, FS_Subset
    <3>3. cost(F) \in [F -> Int]
      BY <2>5 DEF Losses
    <3>4. QED
      BY <3>2, <3>3
  <2>7. \A g \in all : cost(all)[f] <= cost(all)[g]
    <3>1. IsFiniteSet(all) /\ cost(all) \in [all -> Int]
      BY <2>6
    <3>2. QED
      BY <2>1, <3>1, PickedAreLeast
  <2>8. \A g \in teams(S) : cost(teams(S))[f] <= cost(teams(S))[g]
    BY <2>1, <2>3, <2>4, <2>7 DEF Losses
  <2>9. f \in Picked(teams(S), cost(teams(S)))
    <3>1. IsFiniteSet(teams(S)) /\ cost(teams(S)) \in [teams(S) -> Int]
      BY <2>4, <2>6
    <3> DEFINE F == teams(S)
               c == cost(F)
    <3>2. IsFiniteSet(F) /\ c \in [F -> Int] /\ f \in F /\ \A g \in F : c[f] <= c[g]
      BY <2>3, <2>8, <3>1
    <3> HIDE DEF F, c
    <3>3. f \in Picked(F, c)
      BY <3>2, PickedAreLeast
    <3>4. QED
      BY <3>3 DEF F, c
  <2>10. S \in SUBSET Range(groups)
    BY <2>2, <2>3
  <2>11. QED
    BY <1>6, <2>3, <2>9, <2>10 DEF groups, teams
<1>7. QED
  BY <1>1, <1>5, <1>6

\* A replay by the same search finds the teams that were made; one by beam
\* search finds none that are worse, and of those that a beam search had made
\* none that are better.
LEMMA ReplayAgrees ==
  ASSUME NEW v, NEW w, NEW region \in Regions,
         NEW f \in Pool(v)!OptimizeTeams(Pool(v)!Candidates, region),
         Replayable(v, w, f)
  PROVE  /\ w.policy.algorithm = v.policy.algorithm =>
              f \in Pool(w)!OptimizeTeams(Pool(w)!Candidates, region)
         /\ w.policy.algorithm = "beam" =>
              \A g \in Pool(w)!OptimizeTeams(Pool(w)!Candidates, region) :
                 /\ Pool(w)!Quality(g, region).total >= Pool(v)!Quality(f, region).total
                 /\ v.policy.algorithm = "beam" =>
                      Pool(w)!Quality(g, region).total = Pool(v)!Quality(f, region).total
<1>1. Fits(v) /\ Fits(w)
  BY DEF Replayable
<1>2. PICK S \in SUBSET Range(Pool(v)!Candidates) :
        LET F == Pool(v)!Splits(S, Pool(v)!Candidates[1]) IN
        /\ f \in F
        /\ v.policy.algorithm = "greedy" => f \in Picked(F, Imbalance(F))
        /\ v.policy.algorithm = "beam" => f \in Picked(F, Losses(v, F, region))
  BY <1>1, TeamsAreBest
<1> DEFINE F == Pool(v)!Splits(S, Pool(v)!Candidates[1])
           found == Pool(w)!OptimizeTeams(Pool(w)!Candidates, region)
           cost == Losses(v, F, region)
           total(view, g) == Pool(view)!Quality(g, region).total
<1>3. found = IF w.policy.algorithm = "greedy" THEN Picked(F, Imbalance(F))
              ELSE Picked(F, Losses(w, F, region))
  BY <1>2, ReplayFinds
<1>4. \A g \in F : Pool(w)!Quality(g, region) = Pool(v)!Quality(g, region)
  <2>1. ASSUME NEW g \in F PROVE SameTeams(v, w, g)
    <3>1. f.teamA \cup f.teamB = UNION S /\ g.teamA \cup g.teamB = UNION S
      BY <1>1, <1>2, <2>1, SplitsOfPool
    <3>2. w.created = Restrict(v.created, f.teamA \cup f.teamB)
      BY DEF Replayable
    <3>3. \A t \in UNION S : w.created[t] = v.created[t]
      BY <3>1, <3>2 DEF Restrict
    <3>4. QED
      BY <3>1, <3>3 DEF SameTeams, Replayable
  <2>2. QED
    BY <2>1, SameQuality
<1>5. Losses(w, F, region) = cost
  BY <1>4 DEF Losses
<1>6. IsFiniteSet(F) /\ cost \in [F -> Int] /\ \A g \in F : total(v, g) \in Int
  <2>1. \A g \in F : g \in Sides /\ -total(v, g) \in Int
    BY <1>1, LossesType
  <2>2. \A g \in F : total(v, g) \in Int
    <3>1. ASSUME NEW g \in F PROVE FullTeams(v, g)
      BY <1>1, <3>1, SplitsOfPool
    <3>2. \A g \in F : Pool(v)!Quality(g, region) \in Qualities
      BY <1>1, <3>1, QualityType
    <3>3. QED
      BY <3>2 DEF Qualities
  <2> HIDE DEF F
  <2>3. F \in SUBSET Sides
    BY <2>1
  <2>4. IsFiniteSet(F)
    BY <2>3, SidesAreFinite, FS_Subset
  <2>5. QED
    BY <2>1, <2>2, <2>4 DEF Losses
<1>7. \A x \in F : x \in Picked(F, cost) <=> \A y \in F : cost[x] <= cost[y]
  <2> HIDE DEF F, cost
  <2>1. QED
    BY <1>6, PickedAreLeast
<1>8. v.policy.algorithm \in {"greedy", "beam"}
  <2>1. v.policy \in MatchPolicy
    BY <1>1 DEF Fits, Valid
  <2>2. QED
    BY <2>1 DEF MatchPolicy
<1>9. /\ f \in F
      /\ v.policy.algorithm = "greedy" => f \in Picked(F, Imbalance(F))
      /\ v.policy.algorithm = "beam" => f \in Picked(F, cost)
  BY <1>2
<1>10. \A g \in F : cost[g] = -total(v, g) /\ total(w, g) = total(v, g)
  BY <1>4 DEF Losses
<1> HIDE DEF F, found, cost
<1>11. w.policy.algorithm = v.policy.algorithm => f \in found
  BY <1>3, <1>5, <1>8, <1>9
<1>12. ASSUME w.policy.algorithm = "beam", NEW g \in found
       PROVE  /\ total(w, g) >= total(v, f)
              /\ v.policy.algorithm = "beam" => total(w, g) = total(v, f)
  <2>1. g \in Picked(F, cost) /\ g \in F
    BY <1>3, <1>5, <1>12 DEF Picked
  <2>2. cost[g] <= cost[f] /\ (v.policy.algorithm = "beam" => cost[f] <= cost[g])
    BY <1>7, <1>9, <2>1
  <2>3. /\ cost[f] = -total(v, f) /\ cost[g] = -total(v, g) /\ total(w, g) = total(v, g)
        /\ total(v, f) \in Int /\ total(v, g) \in Int
    BY <1>6, <1>9, <1>10, <2>1
  <2> HIDE DEF total
  <2>4. QED
    BY <2>2, <2>3
<1>13. QED
  BY <1>11, <1>12 DEF found

-----------------------------------------------------------------------------
(* The risk report *)

\* A match that can be replayed.
MatchFits(match) ==
  /\ IsMap(match.created, Everyone, Int)
  /\ match.at \in Int /\ match.region \in Regions
  /\ match.quality \in Qualities

FormedFits == formed # NoMatch => MatchFits(formed)

HistoryFits == IsFiniteSet(history) /\ \A h \in history : MatchFits(h.match)

\* A replay sees a pool, and what it finds has a quality.
LEMMA ReplayType ==
  ASSUME NEW match, MatchFits(match), NEW P, Valid(P)
  PROVE  Fits(Replay(match, P)) /\ ReplayQualities(match, P) \subseteq Qualities
<1> DEFINE w == Replay(match, P)
           groups == Pool(w)!Candidates
<1>1. Fits(w)
  BY DEF MatchFits, Fits, Replay, ReplayTime
<1>2. ReplayQualities(match, P) =
        {Pool(w)!Quality(f, match.region) : f \in Pool(w)!OptimizeTeams(groups, match.region)}
  BY DEF ReplayQualities, Outcomes
<1>3. match.region \in Regions
  BY DEF MatchFits
<1> HIDE DEF w
<1>4. ASSUME NEW f \in Pool(w)!OptimizeTeams(groups, match.region)
      PROVE  Pool(w)!Quality(f, match.region) \in Qualities
  <2>1. PICK S \in SUBSET Range(groups) : f \in Pool(w)!Splits(S, groups[1])
    BY <1>1, TeamsAreSplits
  <2>2. FullTeams(w, f)
    BY <1>1, <2>1, SplitsOfPool
  <2>3. QED
    BY <1>1, <1>3, <2>2, QualityType
<1>5. QED
  BY <1>1, <1>2, <1>4 DEF w

\* A factor that both sides have can be left out.
LEMMA Divided ==
  ASSUME NEW n \in Nat \ {0}, NEW x \in Int, NEW y \in Int, n * x <= n * y
  PROVE  x <= y
<1>1. SUFFICES ASSUME x >= y + 1 PROVE FALSE
  OBVIOUS
<1>2. n * (x - y - 1) >= 0
  <2>1. x - y - 1 \in Nat
    BY <1>1
  <2>2. n * (x - y - 1) \in Nat
    BY <2>1
  <2>3. QED
    BY <2>2
<1>3. n * (x - y - 1) = n * x - n * y - n
  OBVIOUS
<1>4. n * x \in Int /\ n * y \in Int
  OBVIOUS
<1>5. QED
  BY <1>2, <1>3, <1>4

\* If every match was replayed, the bound on the means is one on the sums.
LEMMA NoWorseHolds ==
  ASSUME NEW S, IsFiniteSet(S), NEW r, NEW score, NEW limit \in Int,
         \A h \in S : h.match.quality[score] \in Int /\ r[h][score] \in Int,
         Replayed(S, r) = S, NoWorse(S, r, score, limit)
  PROVE  SumFunction([h \in S |-> r[h][score] + limit]) >= Baseline(S, score)
<1> DEFINE base == [h \in S |-> h.match.quality[score]]
           found == [h \in S |-> r[h][score]]
           shifted == [h \in S |-> r[h][score] + limit]
           B == Sum(base, S)
           R == Sum(found, S)
           c == Cardinality(S)
           n == Max({1, c})
<1>1. /\ Baseline(S, score) = B
      /\ SumFunction(found) = R
      /\ SumFunction(shifted) = Sum(shifted, S)
  BY SumsAre DEF Baseline, SumFunction
<1>2. /\ \A h \in S : base[h] \in Int /\ found[h] \in Int /\ shifted[h] = found[h] + limit
  OBVIOUS
<1>3. NoWorse(S, r, score, limit) <=> n * B - n * R <= limit * n * n
  BY <1>1 DEF NoWorse
<1> HIDE DEF base, found, shifted
<1>4. B \in Int /\ R \in Int /\ Sum(shifted, S) = R + limit * c /\ c \in Nat
  BY <1>2, SumType, SumOfShifted, FS_CardinalityType
<1>5. CASE S = {}
  <2>1. \A f : Sum(f, S) = 0
    <3>1. ASSUME NEW f PROVE Sum(f, S) = 0
      <4>1. \A x \in S : f[x] \in Int
        BY <1>5
      <4>2. PICK g : PartialSums(g, f, S)
        BY <4>1, Summed
      <4>3. QED
        BY <1>5, <4>2 DEF PartialSums
    <3>2. QED
      BY <3>1
  <2> HIDE DEF B
  <2>2. QED
    BY <1>1, <2>1 DEF B, shifted
<1>6. CASE S # {}
  <2>1. c # 0
    BY <1>6, FS_EmptySet
  <2> HIDE DEF c, B, R
  <2>2. n = c
    <3>1. Max({1, c}) \in {1, c} /\ \A y \in {1, c} : y <= Max({1, c})
      <4>1. \E x \in {1, c} : \A y \in {1, c} : x >= y
        BY <1>4, <2>1
      <4>2. QED
        BY <1>4, <4>1 DEF Max
    <3>2. QED
      BY <1>4, <2>1, <3>1
  <2>3. c * (B - R) <= c * (limit * c)
    <3>1. c * B - c * R <= limit * c * c
      BY <1>3, <2>2
    <3>2. c * (B - R) = c * B - c * R /\ c * (limit * c) = limit * c * c
      BY <1>4
    <3>3. QED
      BY <3>1, <3>2
  <2>4. B - R <= limit * c
    <3>1. c \in Nat \ {0} /\ B - R \in Int /\ limit * c \in Int
      BY <1>4, <2>1
    <3>2. QED
      BY <2>3, <3>1, Divided
  <2>5. limit * c \in Int
    BY <1>4
  <2>6. QED
    BY <1>1, <1>4, <2>4, <2>5 DEF shifted
<1>7. QED
  BY <1>5, <1>6

\* The report on a sample of matches that can be replayed.
LEMMA ReportHolds ==
  ASSUME HistoryFits
  PROVE  RiskReportIsSound
<1> DEFINE Sound(S, r) ==
             /\ Cardinality(S) >= MinimumRiskSample
             /\ \A h \in S : r[h] # None
             /\ \A x \in {<<"skill", 2>>, <<"latency", 5>>, <<"role", 5>>} :
                  SumFunction([h \in S |-> r[h][x[1]] + x[2]]) >= Baseline(S, x[1])
<1>1. ASSUME NEW S \in Samples, NEW P, Valid(P), NEW r \in Replays(S, P), Passes(P, S, r)
      PROVE  Sound(S, r)
  <2>1. IsFiniteSet(S) /\ S \subseteq history /\ \A h \in S : MatchFits(h.match)
    <3>1. S \in SUBSET history
      BY DEF Samples, kSubset
    <3>2. QED
      BY <3>1, FS_Subset DEF HistoryFits
  <2>2. Replayed(S, r) = S /\ \A h \in S : r[h] # None
    <3>1. Replayed(S, r) = S
      BY <1>1 DEF Passes, ReplayComplete
    <3>2. QED
      BY <3>1 DEF Replayed
  <2>3. \A h \in S : r[h] \in Qualities
    <3>1. ASSUME NEW h \in S PROVE r[h] \in ReplayQualities(h.match, P)
      BY <2>2, <3>1 DEF Replays
    <3>2. \A h \in S : ReplayQualities(h.match, P) \subseteq Qualities
      BY <1>1, <2>1, ReplayType
    <3>3. QED
      BY <3>1, <3>2
  <2>4. ASSUME NEW score \in {"skill", "role", "latency"}, NEW h \in S
        PROVE  h.match.quality[score] \in Int /\ r[h][score] \in Int
    <3>1. \A q \in Qualities : q[score] \in Int
      BY DEF Qualities
    <3>2. h.match.quality \in Qualities /\ r[h] \in Qualities
      BY <2>1, <2>3 DEF MatchFits
    <3>3. QED
      BY <3>1, <3>2
  <2>5. /\ NoWorse(S, r, "skill", 2) /\ NoWorse(S, r, "latency", 5)
        /\ NoWorse(S, r, "role", 5) /\ Cardinality(S) >= MinimumRiskSample
    BY <1>1 DEF Passes
  <2>6. ASSUME NEW score \in {"skill", "role", "latency"}, NEW limit \in Int,
               NoWorse(S, r, score, limit)
        PROVE  SumFunction([h \in S |-> r[h][score] + limit]) >= Baseline(S, score)
    BY <2>1, <2>2, <2>4, <2>6, NoWorseHolds
  <2>7. /\ SumFunction([h \in S |-> r[h]["skill"] + 2]) >= Baseline(S, "skill")
        /\ SumFunction([h \in S |-> r[h]["latency"] + 5]) >= Baseline(S, "latency")
        /\ SumFunction([h \in S |-> r[h]["role"] + 5]) >= Baseline(S, "role")
    BY <2>5, <2>6
  <2>8. ASSUME NEW x \in {<<"skill", 2>>, <<"latency", 5>>, <<"role", 5>>}
        PROVE  SumFunction([h \in S |-> r[h][x[1]] + x[2]]) >= Baseline(S, x[1])
    BY <2>7
  <2>9. QED
    BY <2>2, <2>5, <2>8
<1> HIDE DEF Sound
<1>2. \A S \in Samples : \A P : Valid(P) =>
        \A r \in Replays(S, P) : Passes(P, S, r) => Sound(S, r)
  BY <1>1
<1>3. QED
  BY <1>2 DEF RiskReportIsSound, Sound

-----------------------------------------------------------------------------
(* What is formed can be replayed *)

\* Of a match, what ReplayReproduces says of the last one.
Reproduces(match) ==
  match # NoMatch /\ match.anchor \in match.teamA \cup match.teamB =>
    LET beam == [match.policy EXCEPT !.algorithm = "beam"]
        Teams == [teamA |-> match.teamA, teamB |-> match.teamB]
        totals == {q.total : q \in ReplayQualities(match, beam)}
    IN  /\ Teams \in Outcomes(match, match.policy)
        /\ match.policy = beam => totals = {match.quality.total}
        /\ \A total \in totals : total >= match.quality.total

\* The record of a match has all that a replay of it needs.
LEMMA FormedReproduces ==
  ASSUME PoolFits, NEW region \in Regions, NEW P \in BasePolicies, FormMatch(region, P)
  PROVE  MatchFits(formed') /\ Reproduces(formed')
<1> DEFINE v == View(P)
           groups == Pool(v)!Candidates
           match == formed'
           beam == [P EXCEPT !.algorithm = "beam"]
<1>1. PICK f \in Pool(v)!OptimizeTeams(groups, region) :
        match = [teamA |-> f.teamA, teamB |-> f.teamB, region |-> region,
                 policy |-> P, quality |-> Pool(v)!Quality(f, region), at |-> now,
                 created |-> Restrict(queue, f.teamA \cup f.teamB),
                 anchor |-> Pool(v)!Anchor, snapshot |-> Pool(v)!Snapshot]
  BY DEF FormMatch
<1>2. /\ match.teamA = f.teamA /\ match.teamB = f.teamB /\ match.region = region
      /\ match.policy = P /\ match.quality = Pool(v)!Quality(f, region) /\ match.at = now
      /\ match.created = Restrict(queue, f.teamA \cup f.teamB)
      /\ match.anchor = Pool(v)!Anchor
  BY <1>1
<1>3. /\ Fits(v) /\ v.created = queue /\ v.at = now /\ v.policy = P
      /\ Valid(P) /\ Valid(beam) /\ P \in MatchPolicy
  <2>1. Fits(v) /\ v.created = queue /\ v.at = now /\ v.policy = P
    BY ViewFits DEF View
  <2>2. Valid(P) /\ P \in MatchPolicy
    BY PolicyAssumption DEF Valid
  <2>3. QED
    BY <2>1, <2>2, BeamIsValid
<1> HIDE DEF v, match
<1>4. PICK S \in SUBSET Range(groups) : f \in Pool(v)!Splits(S, groups[1])
  BY <1>1, <1>3, TeamsAreSplits
<1>5. FullTeams(v, f) /\ f = [teamA |-> f.teamA, teamB |-> f.teamB]
  <2>1. FullTeams(v, f)
    BY <1>3, <1>4, SplitsOfPool
  <2>2. \E A \in SUBSET S : f = [teamA |-> UNION A, teamB |-> UNION (S \ A)]
    BY <1>4 DEF Pool!Splits
  <2>3. QED
    BY <2>1, <2>2
<1>6. MatchFits(match)
  <2>1. IsMap(match.created, Everyone, Int)
    <3> DEFINE T == f.teamA \cup f.teamB
    <3>1. T \subseteq DOMAIN queue /\ T \subseteq Everyone
      BY <1>3, <1>5, PlayersAre
    <3> HIDE DEF T
    <3>2. \A t \in T : queue[t] \in Int
      BY <3>1 DEF PoolFits, IsMap
    <3>3. match.created = Restrict(queue, T)
      BY <1>2 DEF T
    <3>4. QED
      BY <3>1, <3>2, <3>3 DEF IsMap, Restrict
  <2>2. match.quality \in Qualities
    BY <1>2, <1>3, <1>5, QualityType
  <2>3. QED
    BY <1>2, <2>1, <2>2 DEF MatchFits, PoolFits
<1>7. ASSUME match.anchor \in match.teamA \cup match.teamB, NEW Q \in {P, beam}
      PROVE  LET w == Replay(match, Q)
                 found == Pool(w)!OptimizeTeams(Pool(w)!Candidates, region)
             IN  /\ Q.algorithm = P.algorithm => f \in found
                 /\ Q.algorithm = "beam" =>
                      \A g \in found :
                        /\ Pool(w)!Quality(g, region).total >= match.quality.total
                        /\ P.algorithm = "beam" =>
                             Pool(w)!Quality(g, region).total = match.quality.total
  <2> DEFINE w == Replay(match, Q)
  <2>1. w.created = match.created /\ w.at = match.at /\ w.policy = Q
    BY DEF Replay, ReplayTime
  <2>2. Fits(w)
    BY <1>3, <1>6, ReplayType
  <2>3. SameNumbers(P, Q)
    BY <1>3, BeamHasSameNumbers
  <2> HIDE DEF w
  <2>4. Replayable(v, w, f)
    BY <1>2, <1>3, <1>7, <2>1, <2>2, <2>3 DEF Replayable
  <2>5. /\ w.policy.algorithm = v.policy.algorithm =>
             f \in Pool(w)!OptimizeTeams(Pool(w)!Candidates, region)
        /\ w.policy.algorithm = "beam" =>
             \A g \in Pool(w)!OptimizeTeams(Pool(w)!Candidates, region) :
                /\ Pool(w)!Quality(g, region).total >= Pool(v)!Quality(f, region).total
                /\ v.policy.algorithm = "beam" =>
                     Pool(w)!Quality(g, region).total = Pool(v)!Quality(f, region).total
    BY <1>1, <2>4, ReplayAgrees
  <2>6. QED
    BY <1>2, <1>3, <2>1, <2>5 DEF w
<1>8. beam.algorithm = "beam"
  BY <1>3 DEF MatchPolicy
<1>9. ASSUME match.anchor \in match.teamA \cup match.teamB
      PROVE  /\ f \in Outcomes(match, P)
             /\ P = beam => f \in Outcomes(match, beam)
             /\ \A q \in ReplayQualities(match, beam) :
                  /\ q.total >= match.quality.total
                  /\ P = beam => q.total = match.quality.total
  <2>1. f \in Outcomes(match, P)
    BY <1>2, <1>7, <1>9 DEF Outcomes
  <2>2. ASSUME NEW q \in ReplayQualities(match, beam)
        PROVE  /\ q.total >= match.quality.total
               /\ P = beam => q.total = match.quality.total
    <3> DEFINE w == Replay(match, beam)
    <3>1. PICK g \in Pool(w)!OptimizeTeams(Pool(w)!Candidates, region) :
            q = Pool(w)!Quality(g, region)
      BY <1>2, <2>2 DEF ReplayQualities, Outcomes
    <3> HIDE DEF w
    <3>2. /\ Pool(w)!Quality(g, region).total >= match.quality.total
          /\ P.algorithm = "beam" =>
               Pool(w)!Quality(g, region).total = match.quality.total
      BY <1>7, <1>8, <1>9, <3>1 DEF w
    <3>3. QED
      BY <1>8, <3>1, <3>2
  <2> HIDE DEF beam
  <2>3. QED
    BY <2>1, <2>2
<1>10. /\ P = beam
       /\ match.anchor \in match.teamA \cup match.teamB
       => ReplayQualities(match, beam) # {}
  BY <1>9 DEF ReplayQualities
<1> HIDE DEF beam
<1>11. ASSUME match.anchor \in match.teamA \cup match.teamB
       PROVE  LET totals == {q.total : q \in ReplayQualities(match, beam)}
              IN  /\ [teamA |-> match.teamA, teamB |-> match.teamB] \in Outcomes(match, P)
                  /\ P = beam => totals = {match.quality.total}
                  /\ \A total \in totals : total >= match.quality.total
  BY <1>2, <1>5, <1>9, <1>10, <1>11
<1>12. Reproduces(match)
  BY <1>2, <1>11 DEF Reproduces, beam
<1>13. QED
  BY <1>6, <1>12 DEF match

-----------------------------------------------------------------------------
(* The invariant *)

\* Maps stay maps.
LEMMA MapSteps ==
  ASSUME NEW f, IsMap(f, Tickets, Nat)
  PROVE  /\ \A key \in Tickets, value \in Nat : IsMap(Put(f, key, value), Tickets, Nat)
         /\ \A key : IsMap(Delete(f, key), Tickets, Nat)
         /\ \A S : IsMap(DeleteAll(f, S), Tickets, Nat)
BY DEF IsMap, Put, Delete, DeleteAll, Restrict

\* The inductive invariant: what is in the pool fits it, and the last match and
\* those of the history can be replayed.
IInv ==
  /\ PoolFits
  /\ MatchIsLegal /\ FormedFits /\ ReplayReproduces
  /\ HistoryFits

\* An empty pool after the earlier matches.
LEMMA InitHolds == Init => IInv
<1> SUFFICES ASSUME Init PROVE IInv
  OBVIOUS
<1>1. PoolFits
  BY DEF Init, PoolFits, IsMap
<1>2. MatchIsLegal /\ FormedFits /\ ReplayReproduces
  BY DEF Init, MatchIsLegal, PartiesStayTogether, HardLimitsHold, FormedFits, ReplayReproduces
<1>3. HistoryFits
  <2>1. ASSUME NEW h \in Past PROVE MatchFits(h.match)
    <3>1. DOMAIN h.match.created \subseteq Everyone
      BY DEF Everyone
    <3>2. QED
      BY <3>1, PastAssumption DEF MatchFits, IsMap, Qualities
  <2>2. QED
    BY <2>1, PastAssumption DEF Init, HistoryFits
<1>4. QED
  BY <1>1, <1>2, <1>3 DEF IInv

\* What the invariant says of the last match, and of the history.
FormedHolds == MatchIsLegal /\ FormedFits /\ ReplayReproduces

\* ReplayReproduces speaks of the last match alone.
LEMMA OfTheLast ==
  /\ ReplayReproduces <=> Reproduces(formed)
  /\ ReplayReproduces' <=> Reproduces(formed')
BY DEF ReplayReproduces, Reproduces, Matched

\* Where no match is formed, the last one stays as it was.
LEMMA FormedKept ==
  ASSUME FormedHolds, UNCHANGED formed
  PROVE  FormedHolds'
<1>1. MatchIsLegal' /\ FormedFits'
  BY DEF FormedHolds, FormedFits, MatchIsLegal, PartiesStayTogether, HardLimitsHold, Matched
<1>2. ReplayReproduces'
  <2>1. Reproduces(formed) /\ formed' = formed
    BY OfTheLast DEF FormedHolds
  <2>2. QED
    BY <2>1, OfTheLast
<1>3. QED
  BY <1>1, <1>2 DEF FormedHolds

\* No step disturbs the invariant.
LEMMA NextHolds == IInv /\ [Next]_vars => IInv'
<1> SUFFICES ASSUME PoolFits, FormedHolds, HistoryFits, [Next]_vars
             PROVE  PoolFits' /\ FormedHolds' /\ HistoryFits'
  BY DEF IInv, FormedHolds
<1>1. ASSUME UNCHANGED history PROVE HistoryFits'
  BY <1>1 DEF HistoryFits
<1>2. ASSUME NEW t \in Tickets, CreateTicket(t)
      PROVE  PoolFits' /\ FormedHolds' /\ HistoryFits'
  <2>1. PoolFits'
    BY <1>2, MapSteps DEF CreateTicket, PoolFits
  <2>2. QED
    BY <1>1, <1>2, <2>1, FormedKept DEF CreateTicket
<1>3. ASSUME NEW t \in Tickets, CancelTicket(t)
      PROVE  PoolFits' /\ FormedHolds' /\ HistoryFits'
  <2>1. PoolFits'
    BY <1>3, MapSteps DEF CancelTicket, PoolFits
  <2>2. QED
    BY <1>1, <1>3, <2>1, FormedKept DEF CancelTicket
<1>4. CASE Tick
  <2>1. PoolFits'
    BY <1>4 DEF Tick, PoolFits
  <2>2. QED
    BY <1>1, <1>4, <2>1, FormedKept DEF Tick
<1>5. ASSUME NEW region \in Regions, NEW P \in BasePolicies, FormMatch(region, P)
      PROVE  PoolFits' /\ FormedHolds' /\ HistoryFits'
  <2>1. PoolFits'
    BY <1>5, MapSteps DEF FormMatch, PoolFits
  <2>2. MatchIsLegal'
    BY <1>5, FormedIsLegal
  <2>3. MatchFits(formed') /\ Reproduces(formed')
    BY <1>5, FormedReproduces
  <2>4. FormedFits' /\ ReplayReproduces'
    BY <2>3, OfTheLast DEF FormedFits
  <2>5. UNCHANGED history
    BY <1>5 DEF FormMatch
  <2>6. QED
    BY <1>1, <2>1, <2>2, <2>4, <2>5 DEF FormedHolds
<1>6. ASSUME NEW uneven \in BOOLEAN, FinishMatch(uneven)
      PROVE  PoolFits' /\ FormedHolds' /\ HistoryFits'
  <2>1. PoolFits' /\ UNCHANGED formed
    BY <1>6 DEF FinishMatch, PoolFits
  <2>2. HistoryFits'
    <3> DEFINE h == [match |-> formed, uneven |-> uneven]
    <3>1. MatchFits(h.match) /\ history' = history \cup {h}
      BY <1>6 DEF FinishMatch, FormedHolds, FormedFits
    <3> HIDE DEF h
    <3>2. IsFiniteSet(history \cup {h})
      BY FS_AddElement DEF HistoryFits
    <3>3. QED
      BY <3>1, <3>2 DEF HistoryFits
  <2>3. QED
    BY <2>1, <2>2, FormedKept
<1>7. CASE UNCHANGED vars
  <2>1. PoolFits' /\ UNCHANGED formed /\ UNCHANGED history
    BY <1>7 DEF vars, PoolFits
  <2>2. QED
    BY <1>1, <2>1, FormedKept
<1>8. QED
  BY <1>2, <1>3, <1>4, <1>5, <1>6, <1>7 DEF Next

\* The pool fits the engine, and every match is legal and can be replayed.
THEOREM InvariantHolds == Spec => []IInv
BY InitHolds, NextHolds, PTL DEF Spec

\* Every match that the worker forms obeys the rules.
THEOREM MatchesAreLegal == Spec => []MatchIsLegal
<1>1. IInv => MatchIsLegal
  BY DEF IInv
<1>2. QED
  BY <1>1, InvariantHolds, PTL

\* In every state of the pool the greedy search selects teams if there are any.
THEOREM SelectionsAreComplete == Spec => []SelectionIsComplete
<1>1. IInv => SelectionIsComplete
  BY SelectionHolds DEF IInv
<1>2. QED
  BY <1>1, InvariantHolds, PTL

\* A beam that is wide enough finds the best teams.
THEOREM WideBeamsAreOptimal == Spec => []BeamIsOptimal
<1>1. IInv => BeamIsOptimal
  BY BeamHolds DEF IInv
<1>2. QED
  BY <1>1, InvariantHolds, PTL

\* Every match that is formed can be replayed: the policy that made it finds
\* its teams again, and its beam search none that are worse.
THEOREM ReplaysReproduce == Spec => []ReplayReproduces
<1>1. IInv => ReplayReproduces
  BY DEF IInv
<1>2. QED
  BY <1>1, InvariantHolds, PTL

\* A report that passes holds for the whole of every sample.
THEOREM RiskReportsAreSound == Spec => []RiskReportIsSound
<1>1. IInv => RiskReportIsSound
  BY ReportHolds DEF IInv
<1>2. QED
  BY <1>1, InvariantHolds, PTL
=============================================================================
