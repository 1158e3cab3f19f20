------------------------------ MODULE PostMatch ------------------------------
(***************************************************************************)
(* What happens after a match: the simulation service                      *)
(* (internal/simulation) plays it, has the player service record the       *)
(* ratings (internal/player) and the matchmaking service store the result, *)
(* and remembers the answer.                                               *)
(*                                                                         *)
(* The three services share nothing but calls.  A call that the simulation *)
(* service gives up, because its client went away or it was restarted,     *)
(* leaves a handler behind in the other service, which stops or runs on.   *)
(*                                                                         *)
(* A rating is the sequence of the matches that were counted in it: the    *)
(* formulas only matter as functions of the rating that was read.  A seed  *)
(* is the winner it produces.  Completion uses the PostgreSQL match store, *)
(* which frees the players in the transaction that stores the result.      *)
(***************************************************************************)
EXTENDS FiniteSets, GoMaps, Naturals, Sequences

CONSTANTS
  Matches,    \* match ids
  Players,    \* player ids
  Roster,     \* match -> its players
  Callers,    \* concurrent requests to simulate a match
  MaxFaults,  \* bound on abandoned requests and restarts
  None        \* no match, no winner, or a handler nobody waits for

ASSUME RosterAssumption == Roster \in [Matches -> SUBSET Players]

VARIABLES
  matches,      \* match -> [state, ranked, whole, winner], in the match store
  servers,      \* matches that hold a game server
  rating,       \* player -> matches counted in the rating
  rated,        \* match -> winner its ratings were computed with
  results,      \* match -> winner, the result store of the simulation service
  holder,       \* the request that holds the mutex of the service
  call,         \* request -> [pc, match, winner]
  ratings,      \* handlers of ApplyMatchResult
  completions,  \* handlers of CompleteMatch
  faults

vars == <<matches, servers, rating, rated, results, holder, call, ratings,
          completions, faults>>

simulationVars == <<results, holder>>
playerVars == <<rating, rated>>
matchVars == <<matches, servers>>

Winner == {"A", "B"}

Idle == [pc |-> "idle", match |-> None, winner |-> None]

Init ==
  /\ matches = << >>
  /\ servers = {}
  /\ rating = [p \in Players |-> << >>]
  /\ rated = << >>
  /\ results = << >>
  /\ holder = None
  /\ call = [c \in Callers |-> Idle]
  /\ ratings = {}
  /\ completions = {}
  /\ faults = 0

\* The matching worker publishes a match; only one mode counts for ratings.
\* It is whole when every ticket of its roster is assigned to it, which
\* AssignReservedTickets does not make sure of (PgReservation.tla).
FormMatch(m) ==
  /\ m \notin DOMAIN matches
  /\ \E ranked, whole \in BOOLEAN :
       matches' = Put(matches, m, [state |-> "READY", ranked |-> ranked,
                                   whole |-> whole, winner |-> None])
  /\ servers' = servers \cup {m}
  /\ UNCHANGED <<simulationVars, playerVars, call, ratings, completions, faults>>

-----------------------------------------------------------------------------
(* SimulateMatch *)

At(c, pc) == call[c].pc = pc

GoTo(c, pc) == call' = [call EXCEPT ![c].pc = pc]

\* The request ends and the mutex is unlocked.
Return(c) ==
  /\ call' = [call EXCEPT ![c] = Idle]
  /\ holder' = None

\* A request waits for the mutex.
Request(c, m) ==
  /\ At(c, "idle")
  /\ call' = [call EXCEPT ![c] = [Idle EXCEPT !.pc = "lock", !.match = m]]
  /\ UNCHANGED <<matchVars, playerVars, simulationVars, ratings, completions, faults>>

\* A stored result is the answer.
Lock(c) ==
  /\ At(c, "lock")
  /\ holder = None
  /\ IF call[c].match \in DOMAIN results
     THEN Return(c)
     ELSE GoTo(c, "get") /\ holder' = c
  /\ UNCHANGED <<matchVars, playerVars, results, ratings, completions, faults>>

\* Fault: only a READY match is played.
Fault_Playable(match) == match.state = "READY"

\* A match that a former request left RUNNING is taken up again.
Playable(match) == match.state \in {"READY", "RUNNING"}

\* GetMatch: a match that has a result is not played again.
GetMatch(c) ==
  /\ At(c, "get")
  /\ LET m == call[c].match IN
     IF \/ m \notin DOMAIN matches
        \/ matches[m].winner = None /\ ~Playable(matches[m])
     THEN Return(c)
     ELSE /\ call' = [call EXCEPT
               ![c].pc = CASE matches[m].winner # None -> "save"
                           [] matches[m].state = "READY" -> "start"
                           [] OTHER -> "play",
               ![c].winner = matches[m].winner]
          /\ UNCHANGED holder
  /\ UNCHANGED <<matchVars, playerVars, results, ratings, completions, faults>>

\* StartMatch; it fails when the match was finished meanwhile.
StartMatch(c) ==
  /\ At(c, "start")
  /\ LET m == call[c].match IN
     \/ /\ matches[m].state \in {"READY", "RUNNING"}
        /\ matches' = [matches EXCEPT ![m].state = "RUNNING"]
        /\ GoTo(c, "play")
        /\ UNCHANGED holder
     \/ /\ matches[m].state = "FINISHED"
        /\ Return(c)
        /\ UNCHANGED matches
  /\ UNCHANGED <<servers, playerVars, results, ratings, completions, faults>>

\* Fault: the result is stored first and the ratings come last.
Fault_Play(c) ==
  /\ At(c, "play")
  /\ \E winner \in Winner :
       call' = [call EXCEPT ![c].winner = winner, ![c].pc = "complete"]
  /\ UNCHANGED <<matchVars, playerVars, simulationVars, ratings, completions, faults>>

\* Simulate: the seed, which the gateway draws when the client gives none,
\* decides.
Play(c) ==
  /\ At(c, "play")
  /\ \E winner \in Winner :
       call' = [call EXCEPT
         ![c].winner = winner,
         ![c].pc = IF matches[call[c].match].ranked THEN "rate" ELSE "complete"]
  /\ UNCHANGED <<matchVars, playerVars, simulationVars, ratings, completions, faults>>

\* The calls of ApplyMatchResult and CompleteMatch go out.
SendRatings(c) ==
  /\ At(c, "rate")
  /\ ratings' = ratings \cup
       {[caller |-> c, match |-> call[c].match, winner |-> call[c].winner,
         seen |-> << >>]}
  /\ GoTo(c, "rating")
  /\ UNCHANGED <<matchVars, playerVars, simulationVars, completions, faults>>

SendCompletion(c) ==
  /\ At(c, "complete")
  /\ completions' = completions \cup
       {[caller |-> c, match |-> call[c].match, winner |-> call[c].winner,
         step |-> "read"]}
  /\ GoTo(c, "completing")
  /\ UNCHANGED <<matchVars, playerVars, simulationVars, ratings, faults>>

\* Save keeps the first result; the request is answered with its own.
Save(c) ==
  /\ At(c, "save")
  /\ results' = IF call[c].match \in DOMAIN results THEN results
                ELSE Put(results, call[c].match, call[c].winner)
  /\ Return(c)
  /\ UNCHANGED <<matchVars, playerVars, ratings, completions, faults>>

-----------------------------------------------------------------------------
(* The player service *)

\* The answer reaches the request of handler h, if it still waits.
Answer(h, pc) ==
  IF h.caller = None THEN UNCHANGED <<call, holder>>
  ELSE GoTo(h.caller, pc) /\ UNCHANGED holder

Refuse(h) ==
  IF h.caller = None THEN UNCHANGED <<call, holder>> ELSE Return(h.caller)

\* RecordMatchResult reads the ratings of the roster.  They are read one by
\* one; each is compared on its own when the changes are applied.
LoadPlayers(h) ==
  /\ h.seen = << >>
  /\ ratings' = (ratings \ {h})
       \cup {[h EXCEPT !.seen = [p \in Roster[h.match] |-> rating[p]]]}
  /\ UNCHANGED <<matchVars, playerVars, simulationVars, call, completions, faults>>

\* Fault: the ratings that were read are trusted.
Fault_Unchanged(h) == TRUE

Unchanged(h) == \A p \in Roster[h.match] : rating[p] = h.seen[p]

\* The ratings of the match were recorded before.
Replayed(h) == h.match \in DOMAIN rated

\* ApplyRatingChanges, one serializable transaction: a replay changes nothing,
\* a rating that is not the one that was read is a conflict.  A transaction
\* that waits for the advisory lock of its match has its snapshot already, and
\* may fail where a later one finds the replay.
ApplyChanges(h) ==
  /\ h.seen # << >>
  /\ \/ /\ Replayed(h)
        /\ Answer(h, "complete")
        /\ UNCHANGED playerVars
     \/ /\ ~Replayed(h) /\ Unchanged(h)
        /\ rating' = [p \in Players |->
                        IF p \in Roster[h.match] THEN Append(h.seen[p], h.match)
                        ELSE rating[p]]
        /\ rated' = Put(rated, h.match, h.winner)
        /\ Answer(h, "complete")
     \/ /\ ~Unchanged(h)
        /\ Refuse(h)
        /\ UNCHANGED playerVars
  /\ ratings' = ratings \ {h}
  /\ UNCHANGED <<matchVars, results, completions, faults>>

-----------------------------------------------------------------------------
(* The matchmaking service *)

\* Handler h goes on with another step.
GoOn(h, step) ==
  completions' = (completions \ {h}) \cup {[h EXCEPT !.step = step]}

\* Match m with the result winner, as Complete leaves it.
WithResult(m, winner) ==
  [matches EXCEPT ![m].state = "FINISHED", ![m].winner = winner]

\* CompleteMatch reads the match: one that is FINISHED only needs its server
\* released, one that is RUNNING is completed on the copy that was read.
ReadMatch(h) ==
  /\ h.step = "read"
  /\ GoOn(h, IF matches[h.match].state = "FINISHED" THEN "release" ELSE "store")
  /\ UNCHANGED <<matchVars, playerVars, simulationVars, call, ratings, faults>>

\* Fault: the copy is stored over whatever is there.
Fault_StoreResult(h) ==
  /\ h.step = "store"
  /\ matches' = WithResult(h.match, h.winner)
  /\ GoOn(h, "release")
  /\ UNCHANGED <<servers, playerVars, simulationVars, call, ratings, faults>>

\* CompleteMatchAndReleaseTickets, one transaction: the match is as it was
\* read (its revision is) and the tickets of the whole roster are released.
StoreResult(h) ==
  /\ h.step = "store"
  /\ matches[h.match].state = "RUNNING" /\ matches[h.match].whole
  /\ matches' = WithResult(h.match, h.winner)
  /\ GoOn(h, "release")
  /\ UNCHANGED <<servers, playerVars, simulationVars, call, ratings, faults>>

\* Fewer tickets were released than the roster has players: the transaction is
\* rolled back, and the error is not one that is resolved.
RosterIncomplete(h) ==
  /\ h.step = "store"
  /\ matches[h.match].state = "RUNNING" /\ ~matches[h.match].whole
  /\ completions' = completions \ {h}
  /\ Refuse(h)
  /\ UNCHANGED <<matchVars, playerVars, results, ratings, faults>>

\* Another call completed the match since it was read.
RevisionConflict(h) ==
  /\ h.step = "store"
  /\ matches[h.match].state = "FINISHED"
  /\ GoOn(h, "resolve")
  /\ UNCHANGED <<matchVars, playerVars, simulationVars, call, ratings, faults>>

\* resolveCompletionConflict reads the match again and keeps its result.
ResolveConflict(h) ==
  /\ h.step = "resolve"
  /\ matches[h.match].state = "FINISHED"
  /\ GoOn(h, "release")
  /\ UNCHANGED <<matchVars, playerVars, simulationVars, call, ratings, faults>>

\* The game server is released and the call returns.
ReleaseServer(h) ==
  /\ h.step = "release"
  /\ servers' = servers \ {h.match}
  /\ completions' = completions \ {h}
  /\ Answer(h, "save")
  /\ UNCHANGED <<matches, playerVars, results, ratings, faults>>

-----------------------------------------------------------------------------
(* Failures *)

Orphans(H, C) ==
  {IF h.caller \in C THEN [h EXCEPT !.caller = None] ELSE h : h \in H}

\* The client of a request goes away or a call of the request fails.
Abandon(c) ==
  /\ holder = c
  /\ faults < MaxFaults
  /\ faults' = faults + 1
  /\ Return(c)
  /\ ratings' = Orphans(ratings, {c})
  /\ completions' = Orphans(completions, {c})
  /\ UNCHANGED <<matchVars, playerVars, results>>

\* The simulation service forgets its results and its requests.
Restart ==
  /\ faults < MaxFaults
  /\ faults' = faults + 1
  /\ results' = << >>
  /\ holder' = None
  /\ call' = [c \in Callers |-> Idle]
  /\ ratings' = Orphans(ratings, Callers)
  /\ completions' = Orphans(completions, Callers)
  /\ UNCHANGED <<matchVars, playerVars>>

\* A handler nobody waits for notices that its context is cancelled.
OrphanStops ==
  /\ \/ /\ \E h \in ratings : h.caller = None /\ ratings' = ratings \ {h}
        /\ UNCHANGED completions
     \/ /\ \E h \in completions :
             h.caller = None /\ completions' = completions \ {h}
        /\ UNCHANGED ratings
  /\ UNCHANGED <<matchVars, playerVars, simulationVars, call, faults>>

-----------------------------------------------------------------------------
RequestStep(c) ==
  \/ Lock(c) \/ GetMatch(c) \/ StartMatch(c) \/ Play(c)
  \/ SendRatings(c) \/ SendCompletion(c) \/ Save(c)

HandlerStep ==
  \/ \E h \in ratings : LoadPlayers(h) \/ ApplyChanges(h)
  \/ \E h \in completions :
       \/ ReadMatch(h) \/ StoreResult(h) \/ RosterIncomplete(h)
       \/ RevisionConflict(h) \/ ResolveConflict(h) \/ ReleaseServer(h)

Next ==
  \/ \E m \in Matches : FormMatch(m)
  \/ \E c \in Callers :
       \/ \E m \in Matches : Request(c, m)
       \/ RequestStep(c)
       \/ Abandon(c)
  \/ HandlerStep
  \/ OrphanStops
  \/ Restart

Spec == Init /\ [][Next]_vars

\* A match is asked for until it is finished, a request that waits gets the
\* mutex at some time, and services answer.
LiveSpec ==
  /\ Spec
  /\ \A m \in Matches : SF_vars(\E c \in Callers : Request(c, m))
  /\ \A c \in Callers : SF_vars(Lock(c)) /\ WF_vars(RequestStep(c))
  /\ WF_vars(HandlerStep)

-----------------------------------------------------------------------------
(* Properties *)

Finished(m) == m \in DOMAIN matches /\ matches[m].state = "FINISHED"

Count(m, s) == Cardinality({i \in DOMAIN s : s[i] = m})

\* Every rated match counts exactly once in the rating of each of its
\* players and in no other, whatever handlers of the same match, or of two
\* matches with a common player, overlap (ApplyRatingChanges).
LedgerIsExact ==
  \A p \in Players, m \in Matches :
    Count(m, rating[p]) = IF m \in DOMAIN rated /\ p \in Roster[m] THEN 1 ELSE 0

\* No ranked match is finished without its ratings, wherever the request
\* that played it was abandoned.
FinishedIsRated ==
  \A m \in Matches : Finished(m) /\ matches[m].ranked => m \in DOMAIN rated

\* The first result of a match is its result, although retries play it again
\* with other seeds and late calls still arrive.
FirstResultWins ==
  [][\A m \in Matches : Finished(m) => matches'[m] = matches[m]]_vars

\* A match that holds its whole roster and is asked for again and again is
\* finished, wherever the requests before were cut off.  A match with a part
\* of its roster is played, and rated, but its completion is refused for ever
\* (match_store.go CompleteMatchAndReleaseTickets).
MatchesFinish ==
  \A m \in Matches :
     m \in DOMAIN matches /\ matches[m].whole ~> Finished(m)
=============================================================================
