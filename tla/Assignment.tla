------------------------------ MODULE Assignment ------------------------------
(***************************************************************************)
(* What the matchmaking service promises its players, without tickets,     *)
(* reservations, workers or servers.                                       *)
(*                                                                         *)
(* A player is free, waits for a match, or is in exactly one match.  A     *)
(* match takes MatchSize waiting players all at once, keeps them until it  *)
(* is over, and lets all of them go together.                              *)
(***************************************************************************)
EXTENDS Naturals, FiniteSets

\* No match is called "free" or "waiting".
CONSTANTS Players, Matches, MatchSize

VARIABLES
  place,   \* player -> "free", "waiting" or the match the player is in
  phase    \* match -> "unused", "formed" or "over"

vars == <<place, phase>>

TypeOK ==
  /\ place \in [Players -> {"free", "waiting"} \cup Matches]
  /\ phase \in [Matches -> {"unused", "formed", "over"}]

Init ==
  /\ place = [p \in Players |-> "free"]
  /\ phase = [m \in Matches |-> "unused"]

\* The players of P move to x.
Move(P, x) == place' = [p \in Players |-> IF p \in P THEN x ELSE place[p]]

Enter(p) ==
  /\ place[p] = "free"
  /\ Move({p}, "waiting")
  /\ UNCHANGED phase

Leave(p) ==
  /\ place[p] = "waiting"
  /\ Move({p}, "free")
  /\ UNCHANGED phase

Form(m, P) ==
  /\ phase[m] = "unused"
  /\ Cardinality(P) = MatchSize
  /\ \A p \in P : place[p] = "waiting"
  /\ Move(P, m)
  /\ phase' = [phase EXCEPT ![m] = "formed"]

\* The match has a result; its players are still held by it.
End(m) ==
  /\ phase[m] = "formed"
  /\ phase' = [phase EXCEPT ![m] = "over"]
  /\ UNCHANGED place

Free(m) ==
  /\ phase[m] = "over"
  /\ Move({p \in Players : place[p] = m}, "free")
  /\ UNCHANGED phase

Next ==
  \/ \E p \in Players : Enter(p) \/ Leave(p)
  \/ \E m \in Matches : End(m) \/ Free(m)
  \/ \E m \in Matches, P \in SUBSET Players : Form(m, P)

Spec == Init /\ [][Next]_vars
=============================================================================
