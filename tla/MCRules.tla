------------------------------- MODULE MCRules -------------------------------
(***************************************************************************)
(* An instance of Rules: a hero and a foe, effects that share a stack key  *)
(* with different maxima and durations, and a pack of three graphs that    *)
(* branch, loop, raise half way, open reaction windows and register        *)
(* effects, a fourth that does not compile and a fifth behind it.          *)
(***************************************************************************)
EXTENDS Rules, TLC

CONSTANTS hero, foe, bless, ward, hex

MCAbility == [a \in Actors |-> IF a = hero THEN 2 ELSE 0]
MCArmor   == [a \in Actors |-> 11]

Effect(key, max, lasts, target, kind, value) ==
    [key |-> key, max |-> max, lasts |-> lasts, target |-> target, kind |-> kind, value |-> value]

\* With a Unit of 2, Ward is half as much again for each copy.
Blessing == Effect("k", 2, 1, "damage", "flat", 2)
Ward     == Effect("k", 3, 0, "damage", "multiplier", 3)
Hex      == Effect("h", 1, 2, "roll", "disadvantage", 0)

Node(op, who, amount, effect, ref, yes, no, next) ==
    [op |-> op, who |-> who, amount |-> amount, effect |-> effect, ref |-> ref,
     how |-> IF ref = "flags" THEN "lt" ELSE "gte", yes |-> yes, no |-> no, next |-> next]

MCPack == <<"aid", "strike", "train", "wander", "zeal">>

Train == [entry |-> 1, effects |-> <<>>, nodes |->
            << Node("inc", "target", 1, NoOne, "flags", NoOne, NoOne, 2),
               Node("restore", "actor", 1, NoOne, "pool", 2, 3, NoOne),
               Node("if", "actor", 2, NoOne, "target.hp", 5, 4, NoOne),
               Node("stop", "actor", 0, NoOne, NoOne, 1, 1, 1),
               Node("set", "actor", 0, NoOne, "flags", NoOne, NoOne, NoOne) >>]

MCCode == [g \in {MCPack[i] : i \in DOMAIN MCPack} |->
    CASE g = "strike" -> [entry |-> 1, effects |-> (bless :> Blessing @@ hex :> Hex), nodes |->
            << Node("roll", "actor", 10, NoOne, NoOne, 2, 5, NoOne),
               Node("damage", "target", 1, NoOne, NoOne, 3, NoOne, NoOne),
               Node("apply", "actor", 1, hex, NoOne, NoOne, NoOne, 4),
               Node("open", "actor", 1, NoOne, NoOne, NoOne, NoOne, NoOne),
               Node("consume", "actor", 1, NoOne, "hp", NoOne, NoOne, NoOne) >>]
      [] g = "aid" -> [entry |-> 1, effects |-> (bless :> Blessing @@ ward :> Ward), nodes |->
            << Node("apply", "actor", 2, ward, NoOne, NoOne, NoOne, 2),
               Node("heal", "target", 1, NoOne, NoOne, NoOne, NoOne, 3),
               Node("if", "actor", 1, NoOne, "var", 4, 5, NoOne),
               Node("consume", "actor", 1, NoOne, "pool", NoOne, NoOne, 5),
               Node("apply", "actor", 1, bless, NoOne, NoOne, NoOne, 6),
               Node("open", "actor", 0, NoOne, NoOne, NoOne, NoOne, NoOne) >>]
      [] g = "wander" -> [Train EXCEPT !.nodes[3].no = 6]   \* a link that leads nowhere
      [] OTHER -> Train]

MCPostures == {{}, {[id |-> "guarded", attack |-> 0, armor |-> 2, mode |-> "normal", against |-> "advantage"]},
               {[id |-> "blinded", attack |-> -2, armor |-> 0, mode |-> "disadvantage", against |-> "normal"]}}

MCThrows == {<<10, 12, 1>>, <<1, 20, 1>>}
=============================================================================
