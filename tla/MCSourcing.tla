---------------------------- MODULE MCSourcing -----------------------------
(* One command delivered twice beside another command. *)
EXTENDS Sourcing, TLC

CONSTANTS c1, c2, i1, i2, i3

Deliveries == (i1 :> c1) @@ (i2 :> c1) @@ (i3 :> c2)
Duplicates == Permutations({i1, i2})
=============================================================================
