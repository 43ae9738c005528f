----------------------------- MODULE MCWorkers -----------------------------
(* Two workers, two campaigns, each preferred by another worker; alone, w1 has *)
(* room for c2 only and must give it up when w2 joins.                         *)
EXTENDS Workers, TLC

CONSTANTS w1, w2, c1, c2

Scores == (c1 :> (w1 :> 4 @@ w2 :> 2)) @@ (c2 :> (w1 :> 6 @@ w2 :> 9))
=============================================================================
