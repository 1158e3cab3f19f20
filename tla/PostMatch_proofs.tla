--------------------------- MODULE PostMatch_proofs ---------------------------
(***************************************************************************)
(* Proofs about results and ratings, for any number of matches, players,   *)
(* requests and faults, and any rosters.                                   *)
(***************************************************************************)
EXTENDS PostMatch, FiniteSetTheorems, TLAPS

MatchRow == [state : {"READY", "RUNNING", "FINISHED"}, ranked : BOOLEAN,
             whole : BOOLEAN, winner : Winner \cup {None}]

CallPC == {"idle", "lock", "get", "start", "play", "rate", "rating",
           "complete", "completing", "save"}

CallRow == [pc : CallPC, match : Matches \cup {None}, winner : Winner \cup {None}]

\* What the properties need of the types.
Types ==
  /\ DOMAIN matches \subseteq Matches
  /\ matches \in [DOMAIN matches -> MatchRow]
  /\ rating \in [Players -> Seq(Matches)]
  /\ call \in [Callers -> CallRow]

\* The ratings of match m, if it is to have any, are recorded.
RatedIfRanked(m) == matches[m].ranked => m \in DOMAIN rated

\* A request asks for the completion only after the ratings.
CallOK(c) ==
  /\ call[c].pc = "lock" => call[c].match \in Matches
  /\ call[c].pc \notin {"idle", "lock", "get"} => call[c].match \in DOMAIN matches
  /\ call[c].pc \in {"complete", "completing"} => RatedIfRanked(call[c].match)

\* A handler works for the request that waits for it, and for no other.
HandlersOK(H, pc) ==
  /\ \A h \in H :
       /\ {"caller", "match", "winner"} \subseteq DOMAIN h
       /\ h.winner \in Winner \cup {None}
       /\ h.match \in DOMAIN matches
       /\ h.caller # None => /\ h.caller \in Callers
                             /\ call[h.caller].pc = pc
                             /\ call[h.caller].match = h.match
  /\ \A h, k \in H : h.caller = k.caller /\ h.caller # None => h = k

\* FinishedIsRated needs what every request and handler that may still finish
\* a match knows of its ratings.
IInv ==
  /\ Types
  /\ \A c \in Callers : CallOK(c)
  /\ HandlersOK(ratings, "rating")
  /\ HandlersOK(completions, "completing")
  /\ \A h \in completions : RatedIfRanked(h.match)
  /\ FinishedIsRated
  /\ LedgerIsExact

\* Nothing has been played.
LEMMA InitIInv == Init => IInv
<1> SUFFICES ASSUME Init PROVE IInv
  OBVIOUS
<1>1. DOMAIN << >> = {} /\ Idle.pc = "idle"
  BY DEF Idle
<1>2. Types
  BY <1>1 DEF Init, Types, Idle, CallRow, CallPC
<1>3. /\ \A c \in Callers : CallOK(c)
      /\ HandlersOK(ratings, "rating") /\ HandlersOK(completions, "completing")
      /\ \A h \in completions : RatedIfRanked(h.match)
      /\ FinishedIsRated
  BY <1>1 DEF Init, CallOK, Idle, HandlersOK, FinishedIsRated, Finished
<1>4. \A m : Count(m, << >>) = 0
  <2>1. \A m : {i \in DOMAIN << >> : << >>[i] = m} = {}
    BY <1>1
  <2>2. QED
    BY <2>1, FS_EmptySet DEF Count
<1>5. LedgerIsExact
  BY <1>1, <1>4 DEF Init, LedgerIsExact
<1>6. QED
  BY <1>2, <1>3, <1>5 DEF IInv

\* One more entry in a rating counts for its own match only.
LEMMA CountAppend ==
  ASSUME NEW s \in Seq(Matches), NEW x \in Matches, NEW m \in Matches
  PROVE  Count(m, Append(s, x)) = Count(m, s) + (IF x = m THEN 1 ELSE 0)
<1> DEFINE old == {i \in DOMAIN s : s[i] = m}
           new == {i \in DOMAIN Append(s, x) : Append(s, x)[i] = m}
           n == Len(s) + 1
<1>1. /\ DOMAIN s = 1 .. Len(s) /\ DOMAIN Append(s, x) = 1 .. n /\ Len(s) \in Nat
      /\ Append(s, x)[n] = x /\ \A i \in DOMAIN s : Append(s, x)[i] = s[i]
  OBVIOUS
<1>2. IsFiniteSet(old)
  <2>1. IsFiniteSet(1 .. Len(s)) /\ old \subseteq 1 .. Len(s)
    BY <1>1, FS_Interval
  <2>2. QED
    BY <2>1, FS_Subset
<1>3. CASE x = m
  <2>1. new = old \cup {n} /\ n \notin old
    BY <1>1, <1>3
  <2>2. Cardinality(new) = Cardinality(old) + 1
    BY <1>2, <2>1, FS_AddElement
  <2>3. QED
    BY <1>3, <2>2 DEF Count
<1>4. CASE x # m
  <2>1. new = old
    BY <1>1, <1>4
  <2>2. Cardinality(old) \in Nat
    BY <1>2, FS_CardinalityType
  <2>3. Count(m, Append(s, x)) = Cardinality(old) /\ Count(m, s) = Cardinality(old)
    BY <2>1 DEF Count
  <2>4. QED
    BY <1>4, <2>2, <2>3
<1>5. QED
  BY <1>3, <1>4

-----------------------------------------------------------------------------
(* What every step leaves true *)

\* Matches are not forgotten or changed in mode, and ratings are not taken back.
Keeps ==
  /\ DOMAIN matches \subseteq DOMAIN matches'
  /\ \A m \in DOMAIN matches : matches'[m].ranked = matches[m].ranked
  /\ DOMAIN rated \subseteq DOMAIN rated'
  /\ Types'

\* A match does not become FINISHED, or it has its ratings.
FinishesRated ==
  \A m \in Matches : Finished(m)' => Finished(m) \/ RatedIfRanked(m)'

\* A request the step does not touch.
LEMMA CallSurvives ==
  ASSUME IInv, Keeps, NEW c \in Callers, call'[c] = call[c]
  PROVE  CallOK(c)'
  BY DEF IInv, CallOK, Keeps, RatedIfRanked

\* The finished matches.
LEMMA FinishedSurvive ==
  ASSUME IInv, Keeps, FinishesRated
  PROVE  FinishedIsRated'
<1> SUFFICES ASSUME NEW m \in Matches, Finished(m)', matches'[m].ranked
             PROVE  m \in DOMAIN rated'
  BY DEF FinishedIsRated, Finished
<1>1. CASE Finished(m)
  BY <1>1 DEF IInv, FinishedIsRated, Finished, Keeps
<1>2. CASE RatedIfRanked(m)'
  BY <1>2 DEF RatedIfRanked
<1>3. QED
  BY <1>1, <1>2 DEF FinishesRated

\* A step of request c that waits for no handler.
LEMMA OneCall ==
  ASSUME IInv, Keeps, FinishesRated, NEW c \in Callers,
         call[c].pc \notin {"rating", "completing"},
         \A d \in Callers \ {c} : call'[d] = call[d],
         CallOK(c)', UNCHANGED <<rating, rated, ratings, completions>>
  PROVE  IInv'
<1>1. \A d \in Callers : CallOK(d)'
  BY CallSurvives
<1>2. /\ \A h \in ratings : h.caller # None => h.caller # c /\ h.caller \in Callers
      /\ \A h \in completions : h.caller # None => h.caller # c /\ h.caller \in Callers
  BY DEF IInv, HandlersOK
<1>3. HandlersOK(ratings, "rating") /\ HandlersOK(completions, "completing")
  BY DEF IInv
<1>4. HandlersOK(ratings, "rating")'
  BY <1>2, <1>3 DEF HandlersOK, Keeps
<1>5. HandlersOK(completions, "completing")'
  BY <1>2, <1>3 DEF HandlersOK, Keeps
<1>6. \A h \in completions' : RatedIfRanked(h.match)'
  BY DEF IInv, HandlersOK, Keeps, RatedIfRanked
<1>7. LedgerIsExact'
  BY DEF IInv, LedgerIsExact
<1>8. FinishedIsRated'
  BY FinishedSurvive
<1>9. QED
  BY <1>1, <1>4, <1>5, <1>6, <1>7, <1>8 DEF IInv, Keeps

\* The matches and ratings are as they were.
LEMMA SameMatches ==
  ASSUME IInv, UNCHANGED <<matches, rated, rating>>,
         call' \in [Callers -> CallRow]
  PROVE  Keeps /\ FinishesRated
  BY DEF IInv, Types, Keeps, FinishesRated, Finished

\* A request that goes on to pc.
LEMMA GoesTo ==
  ASSUME IInv, NEW c \in Callers, NEW pc \in CallPC, GoTo(c, pc)
  PROVE  /\ call' \in [Callers -> CallRow]
         /\ call'[c].pc = pc /\ call'[c].match = call[c].match
         /\ \A d \in Callers \ {c} : call'[d] = call[d]
  BY DEF IInv, Types, CallRow, GoTo

\* A request that ends.
LEMMA Returned ==
  ASSUME IInv, NEW c \in Callers, Return(c)
  PROVE  /\ call' \in [Callers -> CallRow]
         /\ call'[c] = Idle /\ CallOK(c)'
         /\ \A d \in Callers \ {c} : call'[d] = call[d]
<1>1. call' = [call EXCEPT ![c] = Idle] /\ Idle \in CallRow
  BY DEF Return, Idle, CallRow, CallPC
<1>2. call' \in [Callers -> CallRow] /\ call'[c] = Idle
  BY <1>1 DEF IInv, Types
<1>3. CallOK(c)'
  BY <1>2 DEF CallOK, Idle
<1>4. QED
  BY <1>1, <1>2, <1>3 DEF IInv, Types

\* A request that ends and changes nothing else.
LEMMA ReturnIInv ==
  ASSUME IInv, NEW c \in Callers, call[c].pc \notin {"rating", "completing"}, Return(c),
         UNCHANGED <<matches, rated, rating, ratings, completions>>
  PROVE  IInv'
  BY Returned, SameMatches, OneCall

-----------------------------------------------------------------------------
(* The steps of a request *)

\* A request for a match that exists goes on, and does not touch the ratings.
LEMMA GoesOn ==
  ASSUME IInv, NEW c \in Callers, call[c].pc \notin {"rating", "completing"},
         NEW pc \in CallPC, GoTo(c, pc), call[c].match \in DOMAIN matches,
         pc \in {"complete", "completing"} => RatedIfRanked(call[c].match),
         UNCHANGED <<matches, rated, rating, ratings, completions>>
  PROVE  IInv'
<1>1. /\ call' \in [Callers -> CallRow]
      /\ call'[c].pc = pc /\ call'[c].match = call[c].match
      /\ \A d \in Callers \ {c} : call'[d] = call[d]
  BY GoesTo
<1>2. CallOK(c)'
  BY <1>1 DEF CallOK, RatedIfRanked, IInv, Types
<1>3. QED
  BY <1>1, <1>2, SameMatches, OneCall

\* The mutex, and the match.
LEMMA LookIInv ==
  ASSUME IInv, NEW c \in Callers,
         Lock(c) \/ GetMatch(c) \/ \E m \in Matches : Request(c, m)
  PROVE  IInv'
<1>1. CASE Lock(c)
  <2>1. /\ call[c].pc = "lock"
        /\ Return(c) \/ GoTo(c, "get")
        /\ UNCHANGED <<matches, rated, rating, ratings, completions>>
    BY <1>1 DEF Lock, At, matchVars, playerVars
  <2>2. CASE GoTo(c, "get")
    <3>1. /\ call' \in [Callers -> CallRow] /\ call'[c].pc = "get"
          /\ \A d \in Callers \ {c} : call'[d] = call[d]
      BY <2>2, GoesTo DEF CallPC
    <3>2. CallOK(c)'
      BY <3>1 DEF CallOK
    <3>3. QED
      BY <2>1, <3>1, <3>2, SameMatches, OneCall
  <2>3. QED
    BY <2>1, <2>2, ReturnIInv
<1>2. CASE GetMatch(c)
  <2> DEFINE m == call[c].match
             pc == CASE matches[m].winner # None -> "save"
                     [] matches[m].state = "READY" -> "start"
                     [] OTHER -> "play"
  <2>1. /\ call[c].pc = "get"
        /\ UNCHANGED <<matches, rated, rating, ratings, completions>>
    BY <1>2 DEF GetMatch, At, matchVars, playerVars
  <2>2. CASE Return(c)
    BY <2>1, <2>2, ReturnIInv
  <2>3. CASE ~Return(c)
    <3>1. /\ m \in DOMAIN matches
          /\ call' = [call EXCEPT ![c].pc = pc, ![c].winner = matches[m].winner]
      BY <1>2, <2>3 DEF GetMatch
    <3>2. pc \in {"save", "start", "play"}
      OBVIOUS
    <3>3. matches[m].winner \in Winner \cup {None}
      BY <3>1 DEF IInv, Types, MatchRow
    <3> HIDE DEF pc
    <3>4. /\ call' \in [Callers -> CallRow]
          /\ call'[c].pc = pc /\ call'[c].match = m
          /\ \A d \in Callers \ {c} : call'[d] = call[d]
      BY <3>1, <3>2, <3>3 DEF IInv, Types, CallRow, CallPC
    <3>5. CallOK(c)'
      BY <2>1, <3>1, <3>2, <3>4 DEF CallOK
    <3>6. QED
      BY <2>1, <3>4, <3>5, SameMatches, OneCall
  <2>4. QED
    BY <2>2, <2>3
<1>3. ASSUME NEW m \in Matches, Request(c, m) PROVE IInv'
  <2> DEFINE x == [Idle EXCEPT !.pc = "lock", !.match = m]
  <2>1. /\ call[c].pc = "idle" /\ call' = [call EXCEPT ![c] = x]
        /\ UNCHANGED <<matches, rated, rating, ratings, completions>>
    BY <1>3 DEF Request, At, matchVars, playerVars
  <2>2. x \in CallRow /\ x.pc = "lock" /\ x.match = m
    BY DEF Idle, CallRow, CallPC
  <2> HIDE DEF x
  <2>3. /\ call' \in [Callers -> CallRow] /\ call'[c] = x
        /\ \A d \in Callers \ {c} : call'[d] = call[d]
    BY <2>1, <2>2 DEF IInv, Types
  <2>4. CallOK(c)'
    BY <2>2, <2>3 DEF CallOK
  <2>5. QED
    BY <2>1, <2>3, <2>4, SameMatches, OneCall
<1>4. QED
  BY <1>1, <1>2, <1>3

\* The match is started, played, and its answer remembered.
LEMMA PlayIInv ==
  ASSUME IInv, NEW c \in Callers, StartMatch(c) \/ Play(c) \/ Save(c)
  PROVE  IInv'
<1> DEFINE m == call[c].match
<1>1. CallOK(c)
  BY DEF IInv
<1>2. CASE StartMatch(c)
  <2>1. /\ call[c].pc = "start" /\ m \in DOMAIN matches
        /\ UNCHANGED <<rated, rating, ratings, completions>>
    BY <1>1, <1>2 DEF StartMatch, At, CallOK, playerVars
  <2>2. CASE Return(c) /\ UNCHANGED matches
    BY <2>1, <2>2, ReturnIInv
  <2>3. CASE matches' = [matches EXCEPT ![m].state = "RUNNING"] /\ GoTo(c, "play")
    <3>1. /\ call' \in [Callers -> CallRow]
          /\ call'[c].pc = "play" /\ call'[c].match = m
          /\ \A d \in Callers \ {c} : call'[d] = call[d]
      BY <2>3, GoesTo DEF CallPC
    <3>2. /\ DOMAIN matches' = DOMAIN matches
          /\ \A n \in DOMAIN matches :
               /\ matches'[n].ranked = matches[n].ranked
               /\ matches'[n].winner = matches[n].winner
               /\ matches'[n].state \in {matches[n].state, "RUNNING"}
      BY <2>3 DEF IInv, Types, MatchRow
    <3>3. Keeps
      BY <2>1, <2>3, <3>1, <3>2 DEF Keeps, IInv, Types, MatchRow
    <3>4. FinishesRated
      BY <3>2 DEF FinishesRated, Finished
    <3>5. CallOK(c)'
      BY <2>1, <3>1, <3>2 DEF CallOK
    <3>6. QED
      BY <2>1, <3>1, <3>3, <3>4, <3>5, OneCall
  <2>4. QED
    BY <1>2, <2>2, <2>3 DEF StartMatch
<1>3. CASE Play(c)
  <2>1. /\ call[c].pc = "play" /\ m \in DOMAIN matches
        /\ UNCHANGED <<matches, rated, rating, ratings, completions>>
    BY <1>1, <1>3 DEF Play, At, CallOK, matchVars, playerVars
  <2> DEFINE pc == IF matches[m].ranked THEN "rate" ELSE "complete"
  <2>2. PICK winner \in Winner :
          call' = [call EXCEPT ![c].winner = winner, ![c].pc = pc]
    BY <1>3 DEF Play
  <2>3. pc \in {"rate", "complete"} /\ (pc = "complete" => ~matches[m].ranked)
    OBVIOUS
  <2> HIDE DEF pc
  <2>4. /\ call' \in [Callers -> CallRow]
        /\ call'[c].pc = pc /\ call'[c].match = m
        /\ \A d \in Callers \ {c} : call'[d] = call[d]
    BY <2>2, <2>3 DEF IInv, Types, CallRow, CallPC
  <2>5. CallOK(c)'
    BY <2>1, <2>3, <2>4 DEF CallOK, RatedIfRanked
  <2>6. QED
    BY <2>1, <2>4, <2>5, SameMatches, OneCall
<1>4. CASE Save(c)
  BY <1>4, ReturnIInv DEF Save, At, matchVars, playerVars
<1>5. QED
  BY <1>2, <1>3, <1>4

\* The calls of the other services go out.
LEMMA SendIInv ==
  ASSUME IInv, NEW c \in Callers, SendRatings(c) \/ SendCompletion(c)
  PROVE  IInv'
<1> DEFINE m == call[c].match
<1>1. CallOK(c) /\ HandlersOK(ratings, "rating") /\ HandlersOK(completions, "completing")
  BY DEF IInv
<1>2. UNCHANGED <<matches, rated, rating>>
  BY DEF SendRatings, SendCompletion, matchVars, playerVars
<1>3. CASE SendRatings(c)
  <2> DEFINE x == [caller |-> c, match |-> m, winner |-> call[c].winner, seen |-> << >>]
  <2>1. /\ call[c].pc = "rate" /\ m \in DOMAIN matches
        /\ ratings' = ratings \cup {x} /\ completions' = completions
        /\ GoTo(c, "rating")
    BY <1>1, <1>3 DEF SendRatings, At, CallOK
  <2>2. /\ x.caller = c /\ x.match = m /\ {"caller", "match", "winner"} \subseteq DOMAIN x
        /\ x.winner \in Winner \cup {None}
    BY DEF IInv, Types, CallRow
  <2> HIDE DEF x
  <2>3. /\ call' \in [Callers -> CallRow]
        /\ call'[c].pc = "rating" /\ call'[c].match = m
        /\ \A d \in Callers \ {c} : call'[d] = call[d]
    BY <2>1, GoesTo DEF CallPC
  <2>4. Keeps /\ FinishesRated
    BY <1>2, <2>3, SameMatches
  <2>5. CallOK(c)'
    BY <1>2, <2>1, <2>3 DEF CallOK
  <2>6. \A d \in Callers : CallOK(d)'
    BY <2>3, <2>4, <2>5, CallSurvives
  <2>7. \A h \in ratings \cup completions :
          h.caller # None => h.caller \in Callers \ {c}
    BY <1>1, <2>1 DEF HandlersOK
  <2>8. HandlersOK(ratings, "rating")'
    BY <1>1, <1>2, <2>1, <2>2, <2>3, <2>7 DEF HandlersOK
  <2>9. HandlersOK(completions, "completing")'
    BY <1>1, <1>2, <2>1, <2>3, <2>7 DEF HandlersOK
  <2>10. (\A h \in completions : RatedIfRanked(h.match))' /\ LedgerIsExact'
    BY <1>2, <2>1 DEF IInv, RatedIfRanked, LedgerIsExact
  <2>11. QED
    BY <2>4, <2>6, <2>8, <2>9, <2>10, FinishedSurvive DEF IInv, Keeps
<1>4. CASE SendCompletion(c)
  <2> DEFINE x == [caller |-> c, match |-> m, winner |-> call[c].winner, step |-> "read"]
  <2>1. /\ call[c].pc = "complete" /\ m \in DOMAIN matches /\ RatedIfRanked(m)
        /\ completions' = completions \cup {x} /\ ratings' = ratings
        /\ GoTo(c, "completing")
    BY <1>1, <1>4 DEF SendCompletion, At, CallOK
  <2>2. /\ x.caller = c /\ x.match = m /\ {"caller", "match", "winner"} \subseteq DOMAIN x
        /\ x.winner \in Winner \cup {None}
    BY DEF IInv, Types, CallRow
  <2> HIDE DEF x
  <2>3. /\ call' \in [Callers -> CallRow]
        /\ call'[c].pc = "completing" /\ call'[c].match = m
        /\ \A d \in Callers \ {c} : call'[d] = call[d]
    BY <2>1, GoesTo DEF CallPC
  <2>4. Keeps /\ FinishesRated
    BY <1>2, <2>3, SameMatches
  <2>5. CallOK(c)'
    BY <1>2, <2>1, <2>3 DEF CallOK, RatedIfRanked
  <2>6. \A d \in Callers : CallOK(d)'
    BY <2>3, <2>4, <2>5, CallSurvives
  <2>7. \A h \in ratings \cup completions :
          h.caller # None => h.caller \in Callers \ {c}
    BY <1>1, <2>1 DEF HandlersOK
  <2>8. HandlersOK(ratings, "rating")'
    BY <1>1, <1>2, <2>1, <2>3, <2>7 DEF HandlersOK
  <2>9. HandlersOK(completions, "completing")'
    BY <1>1, <1>2, <2>1, <2>2, <2>3, <2>7 DEF HandlersOK
  <2>10. (\A h \in completions : RatedIfRanked(h.match))' /\ LedgerIsExact'
    BY <1>2, <2>1, <2>2 DEF IInv, RatedIfRanked, LedgerIsExact
  <2>11. QED
    BY <2>4, <2>6, <2>8, <2>9, <2>10, FinishedSurvive DEF IInv, Keeps
<1>5. QED
  BY <1>3, <1>4

-----------------------------------------------------------------------------
(* The steps of the other services *)

\* The handlers that go on, or the one that ends, when request d is answered
\* or none is.
LEMMA Survivors ==
  ASSUME IInv, Keeps, FinishesRated, NEW G \in SUBSET ratings,
         NEW H \in SUBSET completions,
         ratings' = G, completions' = H,
         \A h \in G \cup H : h.caller # None => call'[h.caller] = call[h.caller],
         \A d \in Callers : call'[d] = call[d] \/ CallOK(d)',
         LedgerIsExact'
  PROVE  IInv'
<1>1. \A d \in Callers : CallOK(d)'
  BY CallSurvives
<1>2. HandlersOK(ratings, "rating") /\ HandlersOK(completions, "completing")
  BY DEF IInv
<1>3. HandlersOK(ratings, "rating")'
  BY <1>2 DEF HandlersOK, Keeps
<1>4. HandlersOK(completions, "completing")'
  BY <1>2 DEF HandlersOK, Keeps
<1>5. \A h \in H : h.match \in DOMAIN matches /\ RatedIfRanked(h.match)
  BY <1>2 DEF IInv, HandlersOK
<1>6. (\A h \in completions : RatedIfRanked(h.match))'
  BY <1>5 DEF RatedIfRanked, Keeps
<1>7. QED
  BY <1>1, <1>3, <1>4, <1>6, FinishedSurvive DEF IInv, Keeps

\* A match is published.
LEMMA FormIInv ==
  ASSUME IInv, NEW m \in Matches, FormMatch(m)
  PROVE  IInv'
<1>1. PICK ranked \in BOOLEAN, whole \in BOOLEAN :
        matches' = Put(matches, m, [state |-> "READY", ranked |-> ranked,
                                    whole |-> whole, winner |-> None])
  BY DEF FormMatch
<1>2. m \notin DOMAIN matches /\ UNCHANGED <<rated, rating, call, ratings, completions>>
  BY DEF FormMatch, playerVars
<1>3. /\ DOMAIN matches' = DOMAIN matches \cup {m}
      /\ \A n \in DOMAIN matches : matches'[n] = matches[n]
      /\ matches'[m] = [state |-> "READY", ranked |-> ranked, whole |-> whole,
                         winner |-> None]
  BY <1>1, <1>2 DEF Put
<1>4. matches' \in [DOMAIN matches' -> MatchRow]
  <2>1. matches'[m] \in MatchRow
    BY <1>3 DEF MatchRow
  <2>2. \A n \in DOMAIN matches : matches'[n] \in MatchRow
    BY <1>3 DEF IInv, Types
  <2>3. matches' = [n \in DOMAIN matches' |-> matches'[n]]
    BY <1>1 DEF Put
  <2>4. QED
    BY <1>3, <2>1, <2>2, <2>3
<1>5. Keeps
  BY <1>2, <1>3, <1>4 DEF Keeps, IInv, Types
<1>6. FinishesRated
  BY <1>3 DEF FinishesRated, Finished
<1>7. QED
  BY <1>2, <1>5, <1>6, Survivors DEF IInv, LedgerIsExact

\* Ratings are read.
LEMMA LoadIInv ==
  ASSUME IInv, NEW h \in ratings, LoadPlayers(h)
  PROVE  IInv'
<1> DEFINE x == [h EXCEPT !.seen = [p \in Roster[h.match] |-> rating[p]]]
<1>1. /\ ratings' = (ratings \ {h}) \cup {x}
      /\ UNCHANGED <<matches, rated, rating, call, completions>>
  BY DEF LoadPlayers, matchVars, playerVars
<1>2. HandlersOK(ratings, "rating") /\ HandlersOK(completions, "completing")
  BY DEF IInv
<1>3. /\ x.caller = h.caller /\ x.match = h.match
      /\ {"caller", "match", "winner"} \subseteq DOMAIN x /\ x.winner \in Winner \cup {None}
  BY <1>2 DEF HandlersOK
<1> HIDE DEF x
<1>4. Keeps /\ FinishesRated
  BY <1>1, SameMatches DEF IInv, Types
<1>5. HandlersOK(ratings, "rating")'
  BY <1>1, <1>2, <1>3 DEF HandlersOK
<1>6. HandlersOK(completions, "completing")'
  BY <1>1, <1>2 DEF HandlersOK
<1>7. (\A k \in completions : RatedIfRanked(k.match))' /\ LedgerIsExact'
  BY <1>1 DEF IInv, RatedIfRanked, LedgerIsExact
<1>8. \A d \in Callers : CallOK(d)'
  BY <1>1, <1>4, CallSurvives
<1>9. QED
  BY <1>4, <1>5, <1>6, <1>7, <1>8, FinishedSurvive DEF IInv, Keeps

\* A request that waits is answered and ends or goes on; no other is touched.
LEMMA Answered ==
  ASSUME IInv, NEW h, h.caller # None => h.caller \in Callers,
         NEW pc \in CallPC, Answer(h, pc) \/ Refuse(h)
  PROVE  /\ call' \in [Callers -> CallRow]
         /\ \A d \in Callers : h.caller # d => call'[d] = call[d]
         /\ h.caller = None => call' = call
         /\ h.caller # None =>
              \/ call'[h.caller] = Idle
              \/ /\ call'[h.caller].pc = pc
                 /\ call'[h.caller].match = call[h.caller].match
<1>1. CASE h.caller = None
  BY <1>1 DEF Answer, Refuse, IInv, Types
<1>2. CASE h.caller # None /\ Answer(h, pc)
  BY <1>2, GoesTo DEF Answer
<1>3. CASE h.caller # None /\ Refuse(h)
  BY <1>3, Returned DEF Refuse
<1>4. QED
  BY <1>1, <1>2, <1>3

\* The ledger gains the match of the handler, in the ratings of its roster.
LEMMA RatedOnce ==
  ASSUME IInv, NEW m \in Matches, m \notin DOMAIN rated,
         rating' = [p \in Players |-> IF p \in Roster[m] THEN Append(rating[p], m)
                                      ELSE rating[p]],
         DOMAIN rated' = DOMAIN rated \cup {m}
  PROVE  LedgerIsExact' /\ rating' \in [Players -> Seq(Matches)]
<1>1. \A p \in Players : rating[p] \in Seq(Matches)
  BY DEF IInv, Types
<1>2. rating' \in [Players -> Seq(Matches)]
  BY <1>1
<1>3. ASSUME NEW p \in Players, NEW n \in Matches
      PROVE  Count(n, rating'[p]) = IF n \in DOMAIN rated' /\ p \in Roster[n] THEN 1 ELSE 0
  <2>1. Count(n, rating[p]) = IF n \in DOMAIN rated /\ p \in Roster[n] THEN 1 ELSE 0
    BY DEF IInv, LedgerIsExact
  <2>2. CASE p \in Roster[m]
    <3>1. rating'[p] = Append(rating[p], m)
      BY <2>2
    <3>2. Count(n, rating'[p]) = Count(n, rating[p]) + (IF m = n THEN 1 ELSE 0)
      BY <1>1, <3>1, CountAppend
    <3>3. QED
      BY <2>1, <2>2, <3>2
  <2>3. CASE p \notin Roster[m]
    <3>1. rating'[p] = rating[p]
      BY <2>3
    <3>2. n = m => (n \in DOMAIN rated' /\ p \in Roster[n] <=> FALSE)
      BY <2>3
    <3>3. QED
      BY <2>1, <2>3, <3>1, <3>2
  <2>4. QED
    BY <2>2, <2>3
<1>4. QED
  BY <1>2, <1>3 DEF LedgerIsExact

\* The changes are applied, found applied, or refused.
LEMMA ApplyIInv ==
  ASSUME IInv, NEW h \in ratings, ApplyChanges(h)
  PROVE  IInv'
<1> DEFINE m == h.match
<1>1. /\ HandlersOK(ratings, "rating") /\ HandlersOK(completions, "completing")
      /\ DOMAIN matches \subseteq Matches
  BY DEF IInv, Types
<1>2. /\ m \in DOMAIN matches /\ m \in Matches
      /\ h.caller # None => /\ h.caller \in Callers /\ call[h.caller].pc = "rating"
                            /\ call[h.caller].match = m
  BY <1>1 DEF HandlersOK
<1>3. /\ ratings' = ratings \ {h} /\ UNCHANGED <<matches, completions>>
      /\ Answer(h, "complete") \/ Refuse(h)
  BY DEF ApplyChanges, matchVars
<1>4. /\ call' \in [Callers -> CallRow]
      /\ \A d \in Callers : h.caller # d => call'[d] = call[d]
      /\ h.caller = None => call' = call
      /\ h.caller # None =>
           \/ call'[h.caller] = Idle
           \/ /\ call'[h.caller].pc = "complete"
              /\ call'[h.caller].match = call[h.caller].match
  BY <1>2, <1>3, Answered DEF CallPC
<1>5. /\ DOMAIN rated \subseteq DOMAIN rated'
      /\ LedgerIsExact' /\ rating' \in [Players -> Seq(Matches)]
  <2>1. CASE UNCHANGED <<rating, rated>>
    BY <2>1 DEF IInv, Types, LedgerIsExact
  <2>2. CASE /\ ~Replayed(h) /\ Unchanged(h)
             /\ rating' = [p \in Players |->
                             IF p \in Roster[h.match] THEN Append(h.seen[p], h.match)
                             ELSE rating[p]]
             /\ rated' = Put(rated, h.match, h.winner)
    <3>1. DOMAIN rated' = DOMAIN rated \cup {m} /\ m \notin DOMAIN rated
      BY <2>2 DEF Put, Replayed
    <3>2. rating' = [p \in Players |-> IF p \in Roster[m] THEN Append(rating[p], m)
                                       ELSE rating[p]]
      BY <2>2 DEF Unchanged
    <3>3. QED
      BY <1>2, <3>1, <3>2, RatedOnce
  <2>3. QED
    BY <2>1, <2>2 DEF ApplyChanges, playerVars
<1>6. Keeps /\ FinishesRated
  BY <1>3, <1>4, <1>5 DEF Keeps, FinishesRated, Finished, IInv, Types
<1>7. h.caller # None => call'[h.caller] = Idle \/ RatedIfRanked(m)'
  <2>1. CASE Refuse(h)
    BY <1>2, <2>1, Returned DEF Refuse
  <2>2. CASE m \in DOMAIN rated'
    BY <2>2 DEF RatedIfRanked
  <2>3. QED
    BY <1>5, <2>1, <2>2 DEF ApplyChanges, Replayed, Put
<1>8. h.caller # None => CallOK(h.caller)'
  BY <1>2, <1>3, <1>4, <1>7 DEF CallOK, Idle
<1>9. \A k \in (ratings \ {h}) \cup completions :
        k.caller # None => k.caller \in Callers /\ k.caller # h.caller
  BY <1>1, <1>2 DEF HandlersOK
<1>10. \A k \in (ratings \ {h}) \cup completions :
        k.caller # None => call'[k.caller] = call[k.caller]
  BY <1>4, <1>9
<1>11. \A d \in Callers : call'[d] = call[d] \/ CallOK(d)'
  BY <1>4, <1>8
<1>12. QED
  BY <1>3, <1>5, <1>6, <1>10, <1>11, Survivors

\* A completion goes on, and stores its result or changes nothing.
LEMMA GoOnIInv ==
  ASSUME IInv, NEW h \in completions, NEW step, GoOn(h, step),
         UNCHANGED <<rating, rated, call, ratings>>,
         matches' = matches \/ matches' = WithResult(h.match, h.winner)
  PROVE  IInv'
<1> DEFINE x == [h EXCEPT !.step = step]
           m == h.match
<1>1. /\ HandlersOK(ratings, "rating") /\ HandlersOK(completions, "completing")
      /\ RatedIfRanked(m)
  BY DEF IInv
<1>2. m \in DOMAIN matches
  BY <1>1 DEF HandlersOK
<1>3. /\ completions' = (completions \ {h}) \cup {x}
      /\ UNCHANGED <<rating, rated, call, ratings>>
      /\ \/ matches' = matches
         \/ matches' = [matches EXCEPT ![m].state = "FINISHED", ![m].winner = h.winner]
  BY DEF GoOn, WithResult
<1>4. /\ x.caller = h.caller /\ x.match = h.match
      /\ {"caller", "match", "winner"} \subseteq DOMAIN x /\ x.winner \in Winner \cup {None}
  BY <1>1 DEF HandlersOK
<1> HIDE DEF x
<1>5. /\ DOMAIN matches' = DOMAIN matches
      /\ \A n \in DOMAIN matches : matches'[n].ranked = matches[n].ranked
      /\ \A n \in DOMAIN matches \ {m} : matches'[n] = matches[n]
      /\ matches' \in [DOMAIN matches' -> MatchRow]
  <2>1. CASE matches' = matches
    BY <2>1 DEF IInv, Types
  <2>2. CASE matches' = [matches EXCEPT ![m].state = "FINISHED", ![m].winner = h.winner]
    <3>1. h.winner \in Winner \cup {None}
      BY <1>1 DEF HandlersOK
    <3>2. matches \in [DOMAIN matches -> MatchRow]
      BY DEF IInv, Types
    <3>3. QED
      BY <1>2, <2>2, <3>1, <3>2 DEF MatchRow
  <2>3. QED
    BY <1>3, <2>1, <2>2
<1>6. Keeps
  BY <1>3, <1>5 DEF Keeps, IInv, Types
<1>7. FinishesRated
  BY <1>1, <1>2, <1>3, <1>5 DEF FinishesRated, Finished, RatedIfRanked
<1>8. HandlersOK(ratings, "rating")'
  BY <1>1, <1>3, <1>5 DEF HandlersOK
<1>9. HandlersOK(completions, "completing")'
  BY <1>1, <1>3, <1>4, <1>5 DEF HandlersOK
<1>10. \A k \in completions : k.match \in DOMAIN matches /\ RatedIfRanked(k.match)
  BY <1>1 DEF IInv, HandlersOK
<1>11. (\A k \in completions : RatedIfRanked(k.match))' /\ LedgerIsExact'
  BY <1>3, <1>4, <1>5, <1>10 DEF IInv, RatedIfRanked, LedgerIsExact
<1>12. \A d \in Callers : CallOK(d)'
  BY <1>3, <1>6, CallSurvives
<1>13. QED
  BY <1>6, <1>7, <1>8, <1>9, <1>11, <1>12, FinishedSurvive DEF IInv, Keeps

\* A completion ends, and its request is answered.
LEMMA EndsIInv ==
  ASSUME IInv, NEW h \in completions, completions' = completions \ {h},
         UNCHANGED <<matches, rating, rated, ratings>>,
         Answer(h, "save") \/ Refuse(h)
  PROVE  IInv'
<1>1. HandlersOK(ratings, "rating") /\ HandlersOK(completions, "completing")
  BY DEF IInv
<1>2. /\ h.match \in DOMAIN matches
      /\ h.caller # None => /\ h.caller \in Callers /\ call[h.caller].pc = "completing"
                            /\ call[h.caller].match = h.match
  BY <1>1 DEF HandlersOK
<1>4. /\ call' \in [Callers -> CallRow]
      /\ \A d \in Callers : h.caller # d => call'[d] = call[d]
      /\ h.caller = None => call' = call
      /\ h.caller # None =>
           \/ call'[h.caller] = Idle
           \/ /\ call'[h.caller].pc = "save"
              /\ call'[h.caller].match = call[h.caller].match
  BY <1>2, Answered DEF CallPC
<1>5. Keeps /\ FinishesRated
  BY <1>4, SameMatches
<1>6. h.caller # None => CallOK(h.caller)'
  BY <1>2, <1>4 DEF CallOK, Idle
<1>7. \A k \in ratings \cup (completions \ {h}) :
        k.caller # None => k.caller \in Callers /\ k.caller # h.caller
  BY <1>1, <1>2 DEF HandlersOK
<1>8. \A k \in ratings \cup (completions \ {h}) :
        k.caller # None => call'[k.caller] = call[k.caller]
  BY <1>4, <1>7
<1>9. \A d \in Callers : call'[d] = call[d] \/ CallOK(d)'
  BY <1>4, <1>6
<1>10. LedgerIsExact'
  BY DEF IInv, LedgerIsExact
<1>11. QED
  BY <1>5, <1>8, <1>9, <1>10, Survivors

\* The steps of CompleteMatch.
LEMMA CompletionIInv ==
  ASSUME IInv, NEW h \in completions,
         \/ ReadMatch(h) \/ StoreResult(h) \/ RosterIncomplete(h)
         \/ RevisionConflict(h) \/ ResolveConflict(h) \/ ReleaseServer(h)
  PROVE  IInv'
<1>1. CASE ReadMatch(h)
  BY <1>1, GoOnIInv DEF ReadMatch, matchVars, playerVars
<1>2. CASE StoreResult(h)
  BY <1>2, GoOnIInv DEF StoreResult, playerVars
<1>3. CASE RosterIncomplete(h)
  BY <1>3, EndsIInv DEF RosterIncomplete, matchVars, playerVars
<1>4. CASE RevisionConflict(h) \/ ResolveConflict(h)
  BY <1>4, GoOnIInv DEF RevisionConflict, ResolveConflict, matchVars, playerVars
<1>5. CASE ReleaseServer(h)
  BY <1>5, EndsIInv DEF ReleaseServer, playerVars
<1>6. QED
  BY <1>1, <1>2, <1>3, <1>4, <1>5

-----------------------------------------------------------------------------
(* Failures *)

\* The requests of C end; their handlers are orphans.
LEMMA OrphansIInv ==
  ASSUME IInv, NEW C \in SUBSET Callers,
         ratings' = Orphans(ratings, C), completions' = Orphans(completions, C),
         call' = [c \in Callers |-> IF c \in C THEN Idle ELSE call[c]],
         UNCHANGED <<matches, rated, rating>>
  PROVE  IInv'
<1> DEFINE x(h) == IF h.caller \in C THEN [h EXCEPT !.caller = None] ELSE h
<1>1. /\ HandlersOK(ratings, "rating") /\ HandlersOK(completions, "completing")
      /\ \A h \in completions : RatedIfRanked(h.match)
  BY DEF IInv
<1>2. call' \in [Callers -> CallRow]
  BY DEF Idle, CallRow, CallPC, IInv, Types
<1>3. Keeps /\ FinishesRated
  BY <1>2, SameMatches
<1>4. \A d \in Callers : CallOK(d)'
  <2> SUFFICES ASSUME NEW d \in Callers PROVE CallOK(d)'
    OBVIOUS
  <2>1. CASE d \in C
    BY <2>1 DEF CallOK, Idle
  <2>2. CASE d \notin C
    BY <1>3, <2>2, CallSurvives
  <2>3. QED
    BY <2>1, <2>2
<1>5. ratings' = {x(h) : h \in ratings} /\ completions' = {x(h) : h \in completions}
  BY DEF Orphans
<1>6. \A h \in ratings \cup completions :
        /\ x(h).match = h.match /\ x(h).winner = h.winner
        /\ {"caller", "match", "winner"} \subseteq DOMAIN x(h)
        /\ x(h).caller # None => /\ x(h) = h /\ h.caller \in Callers \ C
                                 /\ call'[h.caller] = call[h.caller]
  BY <1>1 DEF HandlersOK
<1> HIDE DEF x
<1>7. HandlersOK(ratings, "rating")'
  BY <1>1, <1>5, <1>6 DEF HandlersOK
<1>8. HandlersOK(completions, "completing")'
  BY <1>1, <1>5, <1>6 DEF HandlersOK
<1>9. (\A h \in completions : RatedIfRanked(h.match))'
  BY <1>1, <1>5, <1>6 DEF RatedIfRanked
<1>10. LedgerIsExact'
  BY DEF IInv, LedgerIsExact
<1>11. QED
  BY <1>3, <1>4, <1>7, <1>8, <1>9, <1>10, FinishedSurvive DEF IInv, Keeps

\* Abandoned requests, restarts, and handlers that stop.
LEMMA FailuresIInv ==
  ASSUME IInv, (\E c \in Callers : Abandon(c)) \/ Restart \/ OrphanStops
  PROVE  IInv'
<1>1. ASSUME NEW c \in Callers, Abandon(c) PROVE IInv'
  <2>1. call' = [d \in Callers |-> IF d \in {c} THEN Idle ELSE call[d]]
    BY <1>1 DEF Abandon, Return, IInv, Types
  <2>2. QED
    BY <1>1, <2>1, OrphansIInv DEF Abandon, matchVars, playerVars
<1>2. CASE Restart
  <2>1. call' = [d \in Callers |-> IF d \in Callers THEN Idle ELSE call[d]]
    BY <1>2 DEF Restart
  <2>2. QED
    BY <1>2, <2>1, OrphansIInv DEF Restart, matchVars, playerVars
<1>3. CASE OrphanStops
  <2>1. /\ ratings' \in SUBSET ratings /\ completions' \in SUBSET completions
        /\ UNCHANGED <<matches, rated, rating, call>>
    BY <1>3 DEF OrphanStops, matchVars, playerVars
  <2>2. Keeps /\ FinishesRated
    BY <2>1, SameMatches DEF IInv, Types
  <2>3. LedgerIsExact'
    BY <2>1 DEF IInv, LedgerIsExact
  <2>4. QED
    BY <2>1, <2>2, <2>3, Survivors
<1>4. QED
  BY <1>1, <1>2, <1>3

-----------------------------------------------------------------------------
(* The theorems *)

\* No step leaves the invariant.
LEMMA NextIInv == IInv /\ [Next]_vars => IInv'
<1> SUFFICES ASSUME IInv, [Next]_vars PROVE IInv'
  OBVIOUS
<1>1. CASE UNCHANGED vars
  <2>1. UNCHANGED <<matches, rating, rated, call, ratings, completions>>
    BY <1>1 DEF vars
  <2>2. Keeps /\ FinishesRated /\ LedgerIsExact'
    BY <2>1, SameMatches DEF IInv, Types, LedgerIsExact
  <2>3. QED
    BY <2>1, <2>2, Survivors
<1>2. ASSUME NEW m \in Matches, FormMatch(m) PROVE IInv'
  BY <1>2, FormIInv
<1>3. ASSUME NEW c \in Callers, NEW m \in Matches, Request(c, m) PROVE IInv'
  BY <1>3, LookIInv
<1>4. ASSUME NEW c \in Callers, RequestStep(c) PROVE IInv'
  BY <1>4, LookIInv, PlayIInv, SendIInv DEF RequestStep
<1>5. CASE HandlerStep
  BY <1>5, LoadIInv, ApplyIInv, CompletionIInv DEF HandlerStep
<1>6. CASE (\E c \in Callers : Abandon(c)) \/ Restart \/ OrphanStops
  BY <1>6, FailuresIInv
<1>7. QED
  BY <1>1, <1>2, <1>3, <1>4, <1>5, <1>6 DEF Next

\* The invariant that the others need.
THEOREM InvariantHolds == Spec => []IInv
<1>1. QED
  BY InitIInv, NextIInv, PTL DEF Spec

\* Every rated match counts once for each of its players, whatever calls of
\* ApplyRatingChanges overlap, repeat or are abandoned.
THEOREM LedgerHolds == Spec => []LedgerIsExact
<1>1. IInv => LedgerIsExact
  BY DEF IInv
<1>2. QED
  BY <1>1, InvariantHolds, PTL

\* No ranked match is finished without its ratings (SimulateMatch applies them
\* before it completes the match).
THEOREM RatedBeforeFinished == Spec => []FinishedIsRated
<1>1. IInv => FinishedIsRated
  BY DEF IInv
<1>2. QED
  BY <1>1, InvariantHolds, PTL

\* A stored result is never replaced (Match.Finish, CompleteMatch).
THEOREM ResultStands == Spec => FirstResultWins
<1> DEFINE Stands == \A m \in Matches : Finished(m) => matches'[m] = matches[m]
<1>1. IInv /\ [Next]_vars => [Stands]_vars
  <2> SUFFICES ASSUME IInv, [Next]_vars, ~UNCHANGED vars, NEW m \in Matches, Finished(m)
               PROVE  matches'[m] = matches[m]
    BY DEF Stands
  <2>1. m \in DOMAIN matches /\ matches[m].state = "FINISHED"
    BY DEF Finished
  <2>2. ASSUME NEW n \in Matches, FormMatch(n) PROVE matches'[m] = matches[m]
    BY <2>1, <2>2 DEF FormMatch, Put
  <2>3. ASSUME NEW c \in Callers, StartMatch(c) PROVE matches'[m] = matches[m]
    BY <2>1, <2>3 DEF StartMatch, IInv, Types
  <2>4. ASSUME NEW h \in completions, StoreResult(h) PROVE matches'[m] = matches[m]
    BY <2>1, <2>4 DEF StoreResult, WithResult, IInv, Types
  <2>5. CASE UNCHANGED matches
    BY <2>5
  <2>6. QED
    BY <2>2, <2>3, <2>4, <2>5 DEF Next, RequestStep, HandlerStep, Lock, GetMatch, Play,
      SendRatings, SendCompletion, Save, Request, LoadPlayers, ApplyChanges, ReadMatch,
      RosterIncomplete, RevisionConflict, ResolveConflict, ReleaseServer, Abandon,
      Restart, OrphanStops, matchVars
<1>2. QED
  BY <1>1, InvariantHolds, PTL DEF Spec, FirstResultWins
=============================================================================
