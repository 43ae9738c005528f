------------------------------- MODULE Tactics -------------------------------
(***************************************************************************)
(* Movement under the spatial authority and the planner of AI actors:      *)
(* AdvancedGameEngine._move, _spatial_move and _ai_take_action with the    *)
(* spaces of spatial/world.py and the perception, scoring and memory of    *)
(* ai/intelligence.py.                                                     *)
(*                                                                         *)
(* An actor has a position (a component of the entity) and, in every space *)
(* it was placed in, an occupant entry (a field of the space): two copies  *)
(* of one fact, which every move must change together.  One grid, one      *)
(* graph and one continuous space are registered.                          *)
(*                                                                         *)
(* Utilities are in thousandths.  Whether a command may be given at all is *)
(* the matter of Timeline; what becomes of the defeated, of ZeroHp.        *)
(***************************************************************************)
EXTENDS Spatial

CONSTANTS
    Actors, Ai,         \* entities, and those of them the planner drives
    Nowhere,            \* no space, no place, no target
    Arena, Road, Field, \* the grid, the graph and the continuous space
    Starts,             \* initial situations [home, at, left]
    Radius,             \* component("spatial").radius of each actor
    Speed,              \* units_per_second in tenths
    Budgets,            \* budgets a spatial_move may bring along
    Reach,              \* range of the AI actors' action
    Hates,              \* [Ai -> SUBSET Actors], whom an actor is hostile to
    Friends,            \* [Ai -> SUBSET Actors], its faction
    Duty,               \* [Ai -> area or Nowhere], the scheduled location
    Bias,               \* [tags -> Int], the personality of the AI actors
    MaxHp, Remembers, MaxPlans

Spaces == {"arena", "road", "field"}
Points == Int \X Int
Places == Points \cup Road.nodes

ASSUME ActorAssumption ==
    /\ IsFiniteSet(Actors) /\ Ai \subseteq Actors /\ MaxHp \in Nat
    /\ Radius \in [Actors -> Nat] /\ Speed \in [Actors -> Int]
    /\ Nowhere \notin Spaces \cup Places \cup Actors
ASSUME ArenaAssumption ==
    Arena \in [width : Nat, height : Nat, diagonal : BOOLEAN, walls : SUBSET Points, opaque : SUBSET Points,
               cover : [Cells(Arena) -> 0..FullCover], cost : [Cells(Arena) -> Nat \ {0}]]
ASSUME RoadAssumption ==
    /\ IsFiniteSet(Road.nodes) /\ Road.capacity \in [Road.nodes -> Nat]
    /\ DOMAIN Road.edges \subseteq Road.nodes \X Road.nodes
    /\ \A e \in DOMAIN Road.edges : Road.edges[e] \in Nat
ASSUME FieldAssumption ==
    /\ Field.points \subseteq Points /\ Field.low \in Points /\ Field.high \in Points
    /\ \A box \in Field.boxes : box.low \in Points /\ box.high \in Points /\ box.cover \in 0..FullCover

VARIABLES
    at,     \* at[s][a]: a's occupant entry in space s, Nowhere when there is none
    size,   \* the radius stored with a's entry in the field
    home,   \* component("spatial").space_id
    pos,    \* entity.position: [area, node, xy]
    left,   \* component("movement").remaining, Nowhere when unset
    amiss,  \* history: actors whose last move place has refused half way, the radius
            \* of their entry smaller than that of their body
    hp, up, \* hit points, entity.alive
    memory, \* agent_memory.entries: a set of [weight, n]
    plans   \* agent_memory.sequence

tacticsVars == <<at, size, home, pos, left, amiss, hp, up, memory, plans>>

-----------------------------------------------------------------------------
(* What the authority says of a move: [ok, cost].                          *)

\* The grid's paths, tabulated for the cells other actors may have taken.
Crowds == {c \in SUBSET Cells(Arena) : Cardinality(c) < Cardinality(Actors)}

GridRoutes ==
    {[crowd |-> c, start |-> s, goal |-> g, cost |-> GridPath(Arena, c, s, g)] :
        c \in Crowds, s \in Cells(Arena), g \in Cells(Arena)}

GridRoute(crowd, start, goal) ==
    (CHOOSE r \in GridRoutes : r.goal = goal /\ r.start = start /\ r.crowd = crowd).cost

Others(s, a) == [o \in {b \in Actors : b # a /\ at[s][b] # Nowhere} |-> at[s][o]]
Bodies(a)    == {[at |-> at["field"][o], size |-> size[o]] : o \in DOMAIN Others("field", a)}
Taken(a)     == {at["arena"][o] : o \in DOMAIN Others("arena", a)}

Verdict(cost, budget) ==
    [ok |-> cost # NoPath /\ (budget # Nowhere => cost <= budget), cost |-> cost]

Validate(s, a, to, budget) ==
    LET from == at[s][a]
    IN  IF from = Nowhere THEN Verdict(NoPath, budget)
        ELSE CASE s = "arena" -> Verdict(IF to \in Cells(Arena) THEN GridRoute(Taken(a), from, to)
                                         ELSE NoPath, budget)
               [] s = "road"  -> Verdict(GraphPath(Road, Others("road", a), from, to), budget)
               [] s = "field" -> Verdict(IF \/ Collides(Field, Bodies(a), to, size[a])
                                            \/ Blocked(Field, from, to)
                                         THEN NoPath ELSE Distance(from, to), budget)

\* place asks again, in the field with the radius of the component.
MayPlace(s, a, to) ==
    /\ s = "arena" => Walkable(Arena, Taken(a), to)
    /\ s = "road" => HasRoom(Road, Others("road", a), to)
    /\ s = "field" => ~Collides(Field, Bodies(a), to, Radius[a])

Place(s, a, to) ==
    /\ at' = [at EXCEPT ![s][a] = to]
    /\ size' = IF s = "field" THEN [size EXCEPT ![a] = Radius[a]] ELSE size

\* ... and raises: what the command has changed by then stays.
PlaceRaises(s, a, to) ==
    /\ ~MayPlace(s, a, to)
    /\ amiss' = IF size[a] < Radius[a] THEN amiss \cup {a} ELSE amiss
    /\ UNCHANGED <<at, size, left>>

Spend(a, budget, cost) ==
    left' = IF budget = Nowhere THEN left ELSE [left EXCEPT ![a] = Max({0, budget - cost})]

Stay == UNCHANGED <<hp, up>>

-----------------------------------------------------------------------------
(* The two move commands.                                                  *)

Walk(a, xy) == [pos EXCEPT ![a].xy = xy]

\* GameEngine._move: without a registered space there is no authority to ask.
FreeMove(a, xy) ==
    /\ home[a] = Nowhere
    /\ Speed[a] > 0
    /\ pos' = Walk(a, xy)
    /\ UNCHANGED <<at, size, home, left, amiss>>

\* AdvancedGameEngine._move: the position first, the occupant entry last.
MoveOk(a, xy) == /\ home[a] \in {"arena", "field"} /\ Speed[a] > 0
                 /\ Validate(home[a], a, xy, left[a]).ok

Move(a, xy) ==
    /\ MoveOk(a, xy)
    /\ pos' = Walk(a, xy)
    /\ UNCHANGED home
    /\ \/ /\ MayPlace(home[a], a, xy)
          /\ Place(home[a], a, xy)
          /\ Spend(a, left[a], Validate(home[a], a, xy, left[a]).cost)
          /\ UNCHANGED amiss
       \/ PlaceRaises(home[a], a, xy)

\* _spatial_move: also between spaces, and with a budget of the command's own.
Allowance(a, budget) == IF budget = Nowhere THEN left[a] ELSE budget

SpatialOk(a, s, to, budget) == Speed[a] > 0 /\ Validate(s, a, to, Allowance(a, budget)).ok

\* Slip: the area of the position is left behind.
ArriveElsewhere(a, s, to) ==
    [pos EXCEPT ![a] = IF s = "road" THEN [@ EXCEPT !.node = to]
                       ELSE [@ EXCEPT !.node = Nowhere, !.xy = to]]

Arrive(a, s, to) ==
    [pos EXCEPT ![a] = IF s = "road" THEN [@ EXCEPT !.area = s, !.node = to]
                       ELSE [area |-> s, node |-> Nowhere, xy |-> to]]

SpatialMove(a, s, to, budget) ==
    /\ SpatialOk(a, s, to, budget)
    /\ home' = [home EXCEPT ![a] = s]
    /\ \/ /\ MayPlace(s, a, to)
          /\ Place(s, a, to)
          /\ pos' = Arrive(a, s, to)
          /\ Spend(a, Allowance(a, budget), Validate(s, a, to, Allowance(a, budget)).cost)
          /\ amiss' = amiss \ {a}
       \/ PlaceRaises(s, a, to) /\ UNCHANGED pos

-----------------------------------------------------------------------------
(* Perception and planning of an AI actor.                                 *)

\* _authoritative_los: occupant entries within one space, areas otherwise.
Sees(a, b) ==
    IF home[a] = Nowhere \/ home[a] # home[b] THEN pos[a].area = pos[b].area
    ELSE CASE home[a] = "road"  -> TRUE
           [] home[a] = "arena" -> /\ at["arena"][a] # Nowhere /\ at["arena"][b] # Nowhere
                                   /\ GridSight(Arena, at["arena"][a], at["arena"][b])
           [] home[a] = "field" -> /\ at["field"][a] # Nowhere /\ at["field"][b] # Nowhere
                                   /\ FieldSight(Field, at["field"][a], at["field"][b])

Apart(a, b)  == Distance(pos[a].xy, pos[b].xy)
Observed(a)  == {b \in Actors \ {a} : up[b] /\ Apart(a, b) <= 300 /\ Sees(a, b)}
Hostile(a)   == Observed(a) \cap Hates[a]
Allied(a)    == (Observed(a) \ Hates[a]) \cap Friends[a]

\* The nearest hostile, the most wounded of several.
Target(a) ==
    IF Hostile(a) = {} THEN Nowhere
    ELSE CHOOSE t \in Hostile(a) : \A o \in Hostile(a) :
             \/ Apart(a, t) < Apart(a, o)
             \/ Apart(a, t) = Apart(a, o) /\ hp[t] <= hp[o]

\* The point at a length along the way from p by v, cut to the lattice, and
\* whether it is a point of it: a grid refuses any other.
Along(p, v, length) ==
    LET d == Distance(<<0, 0>>, v)
    IN  IF d = 0 THEN [xy |-> p, exact |-> TRUE]
        ELSE [xy    |-> <<p[1] + (v[1] * length) \div d, p[2] + (v[2] * length) \div d>>,
              exact |-> d * d = 100 * Square(<<0, 0>>, v) /\ \A i \in 1..2 : (v[i] * length) % d = 0]

Toward(a, t) ==
    LET travel == Min({Apart(a, t), Max({1, 2 * Speed[a]})})
    IN  IF travel = Apart(a, t) THEN [xy |-> pos[t].xy, exact |-> TRUE]
        ELSE Along(pos[a].xy, <<pos[t].xy[1] - pos[a].xy[1], pos[t].xy[2] - pos[a].xy[2]>>, travel)

Away(a, t) ==
    Along(pos[a].xy, <<pos[a].xy[1] - pos[t].xy[1], pos[a].xy[2] - pos[t].xy[2]>>, 3 * Speed[a])

Wounds(a) == 1000 - (1000 * hp[a]) \div MaxHp

Plan(kind, who, to, tags, base) ==
    [kind |-> kind, who |-> who, to |-> to, tags |-> tags, base |-> base]

Candidates(a) ==
    LET t == Target(a)
        d == Apart(a, t)
    IN  (IF t = Nowhere THEN {}
         ELSE (IF d <= Reach
               THEN {Plan("attack", t, Nowhere, {"attack", "aggressive", "defeat"},
                          550 + (220 * Wounds(t)) \div 1000 + (120 * (Reach - d)) \div Reach)}
               ELSE {Plan("advance", Nowhere, Toward(a, t), {"move", "approach", "defeat"},
                          400 + (150 * Max({0, 300 - d})) \div 300)})
              \cup (IF Wounds(a) > 550
                    THEN {Plan("flee", Nowhere, Away(a, t), {"move", "defensive", "survive", "flee"},
                               280 + (720 * Wounds(a)) \div 1000
                                   + 120 * Max({0, Cardinality(Hostile(a)) - Cardinality(Allied(a))}))}
                    ELSE {}))
        \cup (IF Duty[a] # Nowhere /\ pos[a].area # Duty[a]
              THEN {Plan("follow", Nowhere, Nowhere, {"schedule", "routine", "reach"}, 360)} ELSE {})
        \cup {Plan("wait", Nowhere, Nowhere, {"wait", "defensive"}, 50)}

\* The default goals (survive, and defeat when there is an ai.target_id).
Goals(a) == {{"survive", "flee"}} \cup (IF Hates[a] = {} THEN {} ELSE {{"defeat", "attack"}})

Utility(a, c) ==
    c.base + MapThenSumSet(LAMBDA g : IF c.tags \cap g = {} THEN 0
                                      ELSE 120 + 40 * Cardinality(c.tags \cap g), Goals(a))
           + MapThenSumSet(LAMBDA t : Bias[t], c.tags \cap DOMAIN Bias)

\* Which of equal utilities wins, the first id, is left open.
Best(a) == {c \in Candidates(a) : \A o \in Candidates(a) : Utility(a, o) <= Utility(a, c)}

\* PersistentActorMemory.add: over the limit the lightest go, of equals the oldest.
Weight(u) == Min({1000, 350 + u \div 3})

Outranks(r, o) == r.weight > o.weight \/ (r.weight = o.weight /\ r.n > o.n)
Kept(all) == {r \in all : Cardinality({o \in all : Outranks(o, r)}) < Remembers}

Remember(a, c) ==
    /\ plans[a] < MaxPlans      \* bound
    /\ plans' = [plans EXCEPT ![a] = @ + 1]
    /\ memory' = [memory EXCEPT ![a] =
                     Kept(@ \cup {[weight |-> Weight(Utility(a, c)), n |-> plans[a] + 1]})]

\* An attack hurts by what the dice say, and may bring its target down.
AiAttack(a, c) ==
    /\ c.kind = "attack"
    /\ \E loss \in 0..1 : hp' = [hp EXCEPT ![c.who] = Max({0, @ - loss})]
    /\ \/ UNCHANGED up
       \/ hp'[c.who] = 0 /\ up' = [up EXCEPT ![c.who] = FALSE]
    /\ UNCHANGED <<at, size, home, pos, left, amiss>>

Moving(c) == c.kind \in {"advance", "flee"}
OnGrid(a, c) == home[a] = "arena" => c.to.exact

AiMove(a, c) ==
    /\ Moving(c) /\ OnGrid(a, c)
    /\ Stay
    /\ Move(a, c.to.xy) \/ FreeMove(a, c.to.xy)

\* A refused command is replaced by a wait; so are intents without an effect.
AiIdle(a, c) ==
    /\ \/ c.kind \in {"follow", "wait"}
       \/ Moving(c) /\ ~(OnGrid(a, c) /\ (home[a] = Nowhere \/ MoveOk(a, c.to.xy)))
    /\ UNCHANGED <<at, size, home, pos, left, amiss, hp, up>>

AiTurn(a) ==
    /\ up[a]
    /\ \E c \in Best(a) : Remember(a, c) /\ (AiAttack(a, c) \/ AiMove(a, c) \/ AiIdle(a, c))

-----------------------------------------------------------------------------
\* Entries are made by place: nobody shares a cell, a full node or another's room.
Roomy(entry, radius) ==
    /\ \A a, b \in Actors : a # b /\ entry["arena"][a] # Nowhere => entry["arena"][a] # entry["arena"][b]
    /\ \A n \in Road.nodes :
           Road.capacity[n] > 0 => Cardinality({a \in Actors : entry["road"][a] = n}) <= Road.capacity[n]
    /\ \A a, b \in Actors : a # b /\ entry["field"][a] # Nowhere /\ entry["field"][b] # Nowhere =>
           Square(entry["field"][a], entry["field"][b]) >= (radius[a] + radius[b]) * (radius[a] + radius[b])

Entries ==
    {e \in [Spaces -> [Actors -> Places \cup {Nowhere}]] : \A a \in Actors :
        /\ e["arena"][a] \in Cells(Arena) \cup {Nowhere}
        /\ e["road"][a] \in Road.nodes \cup {Nowhere}
        /\ e["field"][a] \in Points \cup {Nowhere}}

ASSUME StartAssumption ==
    \A s \in Starts :
        /\ s.home \in [Actors -> Spaces \cup {Nowhere}] /\ s.size \in [Actors -> Nat]
        /\ s.at \in Entries /\ Roomy(s.at, s.size)
        /\ \A a \in Actors : s.home[a] # Nowhere => s.at[s.home[a]][a] # Nowhere

TacticsInit ==
    \E s \in Starts :
        /\ home = s.home /\ at = s.at /\ left = s.left /\ size = s.size /\ amiss = {}
        /\ pos = [a \in Actors |->
              IF s.home[a] = Nowhere THEN [area |-> "wild", node |-> Nowhere, xy |-> <<0, 0>>]
              ELSE IF s.home[a] = "road" THEN [area |-> "road", node |-> s.at["road"][a], xy |-> <<0, 0>>]
              ELSE [area |-> s.home[a], node |-> Nowhere, xy |-> s.at[s.home[a]][a]]]
        /\ hp = [a \in Actors |-> MaxHp]
        /\ up = [a \in Actors |-> TRUE]
        /\ memory = [a \in Actors |-> {}]
        /\ plans = [a \in Actors |-> 0]

Spots(s) == CASE s = "arena" -> Cells(Arena) [] s = "road" -> Road.nodes [] s = "field" -> Field.points

Ordered(a) == up[a] /\ Stay /\ UNCHANGED <<memory, plans>>

TacticsNext ==
    \/ \E a \in Actors \ Ai, xy \in Cells(Arena) : Ordered(a) /\ FreeMove(a, xy)
    \/ \E a \in Actors \ Ai, xy \in Cells(Arena) \cup Field.points : Ordered(a) /\ Move(a, xy)
    \/ \E a \in Actors \ Ai, s \in Spaces, b \in Budgets \cup {Nowhere} : \E to \in Spots(s) :
           Ordered(a) /\ SpatialMove(a, s, to, b)
    \/ \E a \in Ai : AiTurn(a)

TacticsSpec == TacticsInit /\ [][TacticsNext]_tacticsVars

-----------------------------------------------------------------------------
\* The routes of both searches that a reference contradicts, tabulated.
Least(g, taken, start, goal) ==
    LET steps == [c \in Cells(g) |-> GridSteps(g, taken, c)]
    IN  IF Walkable(g, taken, start) /\ Walkable(g, taken, goal)
        THEN Shortest(Cells(g), start, goal, steps) ELSE NoPath

CheapestGround(g) == Min({PlainCost} \cup {g.cost[c] : c \in Cells(g)})

Near(cost, least, floor) ==
    IF least = NoPath THEN cost = NoPath ELSE cost >= least /\ floor * cost <= PlainCost * least

Wrong ==
    {r \in GridRoutes : ~Near(r.cost, Least(Arena, r.crowd, r.start, r.goal), CheapestGround(Arena))}
    \cup {r \in GridRoutes : MapPath(Arena, r.start, r.goal) # Least(Rough(Arena), {}, r.start, r.goal)}

\* GridSpace.path, tactical.find_path and GraphSpace.path: whoever stands where, a
\* search ends, without cutting a corner, and finds a way exactly when there is one,
\* a graph's through full nodes but not into one.  Ways in a graph and in the
\* tactical grid are the cheapest.  The estimate of GridSpace.path counts plain
\* ground, and on cheaper ground it is too high: the way costs up to as many times
\* the cheapest as plain ground costs the cheapest ground, and is the cheapest where
\* no ground is cheaper than plain.
RoutesAreShortest ==
    \A a \in Actors :
        /\ \A r \in Wrong : ~(r.start = at["arena"][a] /\ r.crowd = Taken(a))
        /\ at["road"][a] # Nowhere => \A to \in Road.nodes :
              LET others == Others("road", a)
                  steps  == [n \in Road.nodes |-> GraphSteps(Road, others, to, n)]
              IN  GraphPath(Road, others, at["road"][a], to) = Shortest(Road.nodes, at["road"][a], to, steps)

\* The two copies agree: an actor stands where its space has its entry, also
\* after moves between spaces, refused moves and moves of the planner.  Only an
\* entry with a smaller radius than the component's lets place raise half way:
\* the copies differ from then until the next move between spaces.
StandsWhereItOccupies ==
    \A a \in Actors \ amiss : home[a] # Nowhere =>
        /\ pos[a].area = home[a]
        /\ at[home[a]][a] = IF home[a] = "road" THEN pos[a].node ELSE pos[a].xy

\* Nobody shares a cell, a full node or a body's room with another, although the
\* entries an actor leaves behind in other spaces are never taken away.
NobodyOverlaps == Roomy(at, size)

\* The views of the arena that the straight line contradicts, tabulated: one it
\* should block and does not, one it should leave open, cover it does not meet.
Agrees(sight, hides, a, b) ==
    /\ Passed(a, b, FALSE) \cap hides = {} => sight
    /\ sight => Passed(a, b, TRUE) \cap hides = {}

Misjudged ==
    {v \in Cells(Arena) \X Cells(Arena) :
        LET a == v[1]   b == v[2]
        IN  ~ /\ Agrees(GridSight(Arena, a, b), Arena.opaque, a, b)
              /\ Agrees(MapSight(Arena, a, b), Arena.walls, a, b)
              /\ GridSight(Arena, a, b) =>
                     GridCover(Arena, a, b) \in Covered(Arena, Passed(a, b, TRUE))
                                                ..Covered(Arena, Passed(a, b, FALSE))}

\* line_of_sight, cover_between and the segment test of moves: the slabs say that
\* a segment from where somebody stands crosses a box exactly when a point of it
\* does, a box behind another never lessens the cover, and a view through the
\* grid is blocked, or covered, by what the straight line passes.
SightIsExact ==
    \A a \in Actors :
        /\ at["field"][a] # Nowhere => \A q \in Field.points :
              LET p       == at["field"][a]
                  touched == {box \in Field.boxes : Touches(p, q, box)}
              IN  /\ Crossed(Field, p, q) = touched
                  /\ FieldCover(Field, p, q) = FullCover <=> \E box \in touched : box.opaque \/ box.cover = FullCover
        /\ at["arena"][a] # Nowhere => \A c \in Cells(Arena) : <<at["arena"][a], c>> \notin Misjudged
=============================================================================
