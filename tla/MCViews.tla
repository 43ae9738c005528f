------------------------------- MODULE MCViews -------------------------------
(* Two scenes of two maps, one an encounter; two actors of one player and a foe. *)
EXTENDS Views, TLC

CONSTANTS inn, ambush, town, road, player, gm, r1, r2

MCMapOf == inn :> town @@ ambush :> road
MCWorlds == {[living |-> TRUE, health |-> 90, quest |-> FALSE, factions |-> 2],
             [living |-> TRUE, health |-> 40, quest |-> TRUE, factions |-> 1]}
MCActorsOf == player :> {1, 2} @@ gm :> None
MCLore == NewLore([e \in Entity |-> 1])
Budget(scenes, saves, minds, changes, reads) ==
  [scenes |-> scenes, saves |-> saves, minds |-> minds, changes |-> changes, reads |-> reads]
MCBudgets ==
  {Budget(3, 1, 0, 0, 0), Budget(0, 1, 1, 1, 1), Budget(0, 0, 2, 1, 1), Budget(0, 0, 0, 1, 3),
   Budget(0, 0, 1, 1, 2), Budget(1, 1, 0, 0, 2)}
Symmetric == Permutations(Slot)
=============================================================================
