------------------------------ MODULE MCTactics ------------------------------
(***************************************************************************)
(* An instance of Tactics: a hero and a foe the planner drives, an arena   *)
(* of nine cells with a wall, a costly, a cheap and an opaque cell, a road of three *)
(* nodes with one place each, and a field with a wall and a hedge.  The hero *)
(* is a body of radius one that two starts have placed as a point.           *)
(***************************************************************************)
EXTENDS Tactics, TLC

CONSTANTS hero, foe

MCArena == [width |-> 3, height |-> 3, diagonal |-> TRUE, walls |-> {<<0, 1>>},
            opaque |-> {<<0, 1>>, <<1, 1>>},
            cover |-> [c \in (0..2) \X (0..2) |-> IF c = <<1, 0>> THEN 1 ELSE 0],
            cost |-> [c \in (0..2) \X (0..2) |-> IF c = <<1, 2>> THEN 30 ELSE IF c = <<1, 0>> THEN 5 ELSE 10]]
MCRoad  == [nodes |-> {"inn", "mill", "gate"}, capacity |-> [n \in {"inn", "mill", "gate"} |-> 1],
            edges |-> (<<"inn", "mill">> :> 10 @@ <<"mill", "inn">> :> 10 @@
                       <<"mill", "gate">> :> 10 @@ <<"inn", "gate">> :> 30)]
MCField == [low |-> <<-1, -1>>, high |-> <<4, 3>>, points |-> (0..3) \X (0..2),
            boxes |-> {[low |-> <<0, 1>>, high |-> <<0, 1>>, solid |-> TRUE, opaque |-> TRUE, cover |-> 3],
                       [low |-> <<2, 1>>, high |-> <<3, 1>>, solid |-> FALSE, opaque |-> FALSE, cover |-> 1]}]

Placed(h, f) == (hero :> h @@ foe :> f)
Start(h, f, arena, road, field, l, s) ==
    [home |-> Placed(h, f), left |-> Placed(l, Nowhere), size |-> Placed(s, 0),
     at |-> ("arena" :> arena @@ "road" :> road @@ "field" :> field)]
Unplaced == Placed(Nowhere, Nowhere)

MCStarts ==
    {Start("road", "arena", Placed(<<0, 0>>, <<2, 2>>), Placed("inn", Nowhere), Unplaced, 40, 1),
     Start(Nowhere, "arena", Placed(<<0, 0>>, <<0, 2>>), Placed("mill", "gate"), Unplaced, Nowhere, 1),
     Start("field", "field", Unplaced, Unplaced, Placed(<<3, 0>>, <<1, 2>>), 40, 1),
     Start("field", "field", Unplaced, Unplaced, Placed(<<0, 0>>, <<2, 2>>), Nowhere, 0),
     Start("arena", "road", Placed(<<2, 0>>, Nowhere), Placed(Nowhere, "gate"), Placed(<<3, 0>>, Nowhere), 20, 0)}

MCRadius  == Placed(1, 0)
MCSpeed   == Placed(15, 5)
MCHates   == foe :> {hero}
MCFriends == foe :> {}
MCDuty    == foe :> "road"
MCBias    == "flee" :> -100
=============================================================================
