------------------------------ MODULE MatchStore ------------------------------
(***************************************************************************)
(* The life cycle of a match (internal/matchmaking/domain/match.go) and    *)
(* the in-memory match repository with its revision check                  *)
(* (internal/matchmaking/repository/memory/match_store.go).                *)
(*                                                                         *)
(* Callers work on clones: they read a match, move the clone one state     *)
(* further, and store it back with Update.  Every repository method runs   *)
(* under one mutex and is one operator here; the workers and the match     *)
(* service decide when each is called.                                     *)
(***************************************************************************)
EXTENDS Naturals, GoMaps

CONSTANTS
  Tickets,    \* ticket ids, which the two teams list
  Matches,    \* match ids
  Results,    \* the results a caller may report
  None        \* no result

VARIABLE matches   \* match id -> match

MatchState == {"CREATED", "ALLOCATING", "READY", "RUNNING", "FINISHED", "FAILED"}

Match == [state : MatchState, revision : 1..5, roster : SUBSET Tickets,
          result : Results \cup {None}]

-----------------------------------------------------------------------------
(* The life cycle *)

\* The tickets of both teams; the teams themselves are not told apart.
NewMatch(roster) ==
  [state |-> "CREATED", revision |-> 1, roster |-> roster, result |-> None]

\* Every transition moves the state and counts one revision.
Moved(x, state) == [x EXCEPT !.state = state, !.revision = @ + 1]

CanStart(x) == x.state = "READY"
Started(x) == Moved(x, "RUNNING")

\* Fault: a match may be completed before it is started.
Fault_CanComplete(x) == x.state \in {"READY", "RUNNING"}

CanComplete(x) == x.state = "RUNNING"
Completed(x, result) == [Moved(x, "FINISHED") EXCEPT !.result = result]

CanFail(x) == x.state \in {"CREATED", "ALLOCATING", "READY", "RUNNING"}
Failed(x) == Moved(x, "FAILED")

-----------------------------------------------------------------------------
(* The repository *)

Create(m, x) ==
  /\ m \notin DOMAIN matches
  /\ matches' = Put(matches, m, x)

\* Fault: the revision is not compared.
Fault_IsNext(m, x) == m \in DOMAIN matches

\* x is one revision ahead of what is stored; otherwise Update reports
\* ErrMatchRevisionConflict (or ErrMatchNotFound).
IsNext(m, x) ==
  m \in DOMAIN matches /\ x.revision = matches[m].revision + 1

Update(m, x) ==
  /\ IsNext(m, x)
  /\ matches' = Put(matches, m, x)
=============================================================================
