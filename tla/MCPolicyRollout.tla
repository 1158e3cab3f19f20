--------------------------- MODULE MCPolicyRollout ---------------------------
(* Two callers that activate with different settings. *)
EXTENDS PolicyRollout, TLC
CONSTANTS p1, p2, c1, c2, alice, bob, small, large

MCSettings == c1 :> small @@ c2 :> large
=============================================================================
