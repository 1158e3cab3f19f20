----------------------------- MODULE MCPostMatch -----------------------------
(* Two matches that have a player in common. *)
EXTENDS PostMatch, TLC

CONSTANTS m1, m2, p1, p2, p3

MCRoster == m1 :> {p1, p2} @@ m2 :> {p1, p3}
=============================================================================
