--------------------------- MODULE MCPoolMatching ----------------------------
(* A pool of teams of two for TLC: a party of two and four single tickets,  *)
(* two of which belong to one player; and two matches of an earlier time,   *)
(* of tickets 11 to 18.                                                     *)
EXTENDS MatchAnalysis

MCTickets == 1..6
MCEveryone == MCTickets \cup 11..18

MCPlayer == [t \in MCEveryone |-> IF t = 6 THEN 4 ELSE t]
MCParty == [t \in MCEveryone |-> IF t \in {2, 3} THEN "duo" ELSE None]
MCRating ==
  [t \in MCEveryone |->
     IF t \in MCTickets THEN <<1770, 1830, 1740, 1860, 1800, 1900>>[t]
     ELSE IF t < 15 THEN 1500 + 10 * (t % 3) ELSE 1850]
MCLatency ==
  LET Of(east, west) == [east |-> east, west |-> west]
  IN  [t \in MCEveryone |->
         IF t \in MCTickets
         THEN <<Of(70, 118), Of(95, 95), Of(118, 40), Of(40, 260), Of(230, 70),
                Of(40, 260)>>[t]
         ELSE Of(IF t < 15 THEN 40 ELSE 100, 60)]
MCPrefers ==
  [t \in MCEveryone |->
     IF t \in MCTickets
     THEN <<<<"core", "support">>, <<"core">>, <<"support">>, <<"support", "core">>,
            <<"core">>, << >>>>[t]
     ELSE <<"core", "support">>]

MCPolicy(algorithm, width) ==
  [algorithm |-> algorithm, candidateLimit |-> 5, beamWidth |-> width,
   skillWeight |-> 40, roleWeight |-> 20, latencyWeight |-> 20,
   partyWeight |-> 10, waitWeight |-> 10,
   initialRange |-> 80, maxRange |-> 160, rangeStep |-> 50,
   initialLatency |-> 120, maxLatency |-> 250, latencyStep |-> 120,
   relaxAfter |-> 0, relaxStep |-> 10, maxRelaxed |-> 50,
   minQuality |-> 60, ticketTTL |-> 5]

MCGreedy == MCPolicy("greedy", 8)

\* A beam that cuts nothing, and one that cuts.
MCPolicies == {MCGreedy, MCPolicy("beam", 8), MCPolicy("beam", 2)}

\* What the engine made, before the clock starts, of four tickets that had
\* waited for a while.
Earlier(first) ==
  LET created == [t \in first..(first + 3) |-> -2]
      Then == INSTANCE Engine WITH
                queue <- created, now <- -1, Policy <- ForMode(MCGreedy, Mode)
      f == CHOOSE f \in Then!Greedy(Then!Candidates) : TRUE
  IN  [match |-> [teamA |-> f.teamA, teamB |-> f.teamB, region |-> "east",
                  policy |-> MCGreedy, quality |-> Then!Quality(f, "east"),
                  at |-> -1, created |-> created, anchor |-> Then!Anchor,
                  snapshot |-> DOMAIN created],
       uneven |-> FALSE]

MCPast == {Earlier(11), Earlier(15)}
=============================================================================
