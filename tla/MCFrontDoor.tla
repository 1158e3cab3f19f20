----------------------------- MODULE MCFrontDoor ------------------------------
(* Two requests at a time of one player, an intruder and an operator. *)
EXTENDS FrontDoor, TLC

MCServices == {"player", "matchmaking"}

MCSymmetry == Permutations(Clients) \cup Permutations(Keys)

\* No step depends on the answers that were given, on how a process ended, on
\* the body of a request that has been validated, or on a value that has been
\* written.
MCCall ==
  [c \in Clients |->
     [call[c] EXCEPT !.body = IF At(c, "player") \/ At(c, "current") THEN @ ELSE "good",
                     !.value = IF At(c, "reply") THEN None ELSE @]]

MCView ==
  <<tables, MCCall, [s \in Services |-> IF Running(s) THEN process[s] ELSE Exited]>>
=============================================================================
