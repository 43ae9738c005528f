---------------------------- MODULE MCTimeline ----------------------------
(* Two humans and one AI actor; encounters of a human with each of the others. *)
EXTENDS Timeline

CONSTANTS h1, h2, g

Humans == {h1, h2}
Ais == {g}
PairRosters == {<<h1, g>>, <<h1, h2>>}
=============================================================================
