---------------------------- MODULE MCCharacter ----------------------------
(* Two classes that share a resource, one with a bonus at its second level; *)
(* a two-handed item, two for one hand, and a ring, three of them to be     *)
(* attuned and room for one.                                                *)
EXTENDS Character, TLC

CONSTANTS fighter, cleric, focus, rage, short, long, staff, sword, shield, ring,
          left, right, finger

Limits == fighter :> 3 @@ cleric :> 1
Thresholds == <<0, 1, 2>>
Bases == (fighter :> (focus :> 1 @@ rage :> 1)) @@ (cleric :> (focus :> 2 @@ rage :> 0))
Growth == (fighter :> (focus :> 2 @@ rage :> 1)) @@ (cleric :> (focus :> 1 @@ rage :> 0))
Offered == (fighter :> {focus, rage}) @@ (cleric :> {focus})
Nothing == focus :> 0 @@ rage :> 0
Bonuses == (fighter :> <<Nothing, focus :> 1 @@ rage :> 0, Nothing>>)
           @@ (cleric :> <<Nothing, Nothing, Nothing>>)
Recovery == (short :> (focus :> 1 @@ rage :> 0)) @@ (long :> (focus :> 2 @@ rage :> 2))
Claims == (staff :> {left, right}) @@ (sword :> {right}) @@ (shield :> {left})
          @@ (ring :> {finger})
=============================================================================
