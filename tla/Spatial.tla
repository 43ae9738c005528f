------------------------------- MODULE Spatial -------------------------------
(***************************************************************************)
(* The geometry of dnd_rpg_engine/spatial: path search in graphs and grids,*)
(* lines of sight, and boxes in continuous space (two dimensions).         *)
(*                                                                         *)
(* Lengths and costs are counted in tenths of a unit.  Distances are       *)
(* rounded down and the costs of diagonal steps up (15 for the root of two *)
(* on plain ground), so that a distance estimates no more than the steps   *)
(* that cover it, as in the code.  A path is represented by its cost:      *)
(* which of several equally cheap paths is taken shows only in the event's *)
(* payload.                                                                *)
(***************************************************************************)
EXTENDS Integers, FiniteSets, Sequences, FiniteSetsExt

NoPath == -1

Root(n) == CHOOSE r \in 0..n : r * r <= n /\ n < (r + 1) * (r + 1)
Square(p, q) == (p[1] - q[1]) * (p[1] - q[1]) + (p[2] - q[2]) * (p[2] - q[2])
Distance(p, q) == Root(100 * Square(p, q))

-----------------------------------------------------------------------------
(* Search. steps[n] is the set of moves [to, cost] out of n, ahead[n] an   *)
(* estimate of what is left from n (0: Dijkstra, the distance: A* ).  The  *)
(* heap is a set of [at, f], the costs found so far a set of [at, cost].   *)

CostOf(costs, n) == LET k == {c \in costs : c.at = n} IN IF k = {} THEN NoPath ELSE Min({c.cost : c \in k})

Expand(s, steps, ahead) ==
    LET e      == CHOOSE c \in s.open : \A o \in s.open : c.f <= o.f
        so_far == CostOf(s.costs, e.at)
        better == {m \in steps[e.at] : \A c \in s.costs : c.at = m.to => so_far + m.cost < c.cost}
    IN  [open  |-> (s.open \ {e}) \cup {[at |-> m.to, f |-> so_far + m.cost + ahead[m.to]] : m \in better},
         costs |-> {c \in s.costs : \A m \in better : m.to # c.at}
                   \cup {[at |-> m.to, cost |-> so_far + m.cost] : m \in better}]

\* Slip: the search stops as soon as it has seen the goal.
FinishedEarly(s, goal) == s.open = {} \/ CostOf(s.costs, goal) # NoPath

Finished(s, goal) == \A c \in s.open : \E o \in s.open : o.f <= c.f /\ o.at = goal

\* A node is expanded again whenever it gets cheaper, so that each node takes as
\* many expansions as there are costs below the dearest route at most.
Search(nodes, start, goal, steps, ahead) ==
    LET Dearest == Max({0} \cup {m.cost : m \in UNION {steps[n] : n \in nodes}})
        Pops    == Cardinality(nodes) * (Cardinality(nodes) * Dearest + 1) + 1
        States  == [open : SUBSET [at : nodes, f : Nat], costs : SUBSET [at : nodes, cost : Nat]]
        run[n \in 0..Pops] ==
            IF n = 0 THEN [s \in States |-> s]
            ELSE [s \in States |-> IF Finished(s, goal) THEN s ELSE run[n - 1][Expand(s, steps, ahead)]]
        found == run[Pops][[open |-> {[at |-> start, f |-> 0]}, costs |-> {[at |-> start, cost |-> 0]}]]
    IN  CostOf(found.costs, goal)

\* The reference: the least cost of a walk of at most n steps, for growing n.
Shortest(nodes, start, goal, steps) ==
    LET longer(w) == UNION {{[at |-> m.to, cost |-> c.cost + m.cost] : m \in steps[c.at]} : c \in w}
        least(w)  == {c \in w : \A d \in w : d.at = c.at => c.cost <= d.cost}
        walk[n \in 0..Cardinality(nodes)] ==
            IF n = 0 THEN {[at |-> start, cost |-> 0]}
            ELSE LET w == walk[n - 1] IN least(w \cup longer(w))
    IN  CostOf(walk[Cardinality(nodes)], goal)

-----------------------------------------------------------------------------
(* Grids: [width, height, diagonal, walls, opaque, cover, cost]; cells are *)
(* <<x, y>>, cover runs from 0, none, to FullCover.                        *)

FullCover == 3
PlainCost == 10

Cells(g) == (0..(g.width - 1)) \X (0..(g.height - 1))
Walkable(g, taken, c) == c \in Cells(g) /\ c \notin g.walls /\ c \notin taken

\* A diagonal step needs both cells beside it free: no cutting of corners.
Open(g, taken, c, d) ==
    /\ Walkable(g, taken, <<c[1] + d[1], c[2] + d[2]>>)
    /\ d[1] # 0 /\ d[2] # 0 =>
           /\ g.diagonal
           /\ Walkable(g, taken, <<c[1] + d[1], c[2]>>)
           /\ Walkable(g, taken, <<c[1], c[2] + d[2]>>)

GridSteps(g, taken, c) ==
    {LET n == <<c[1] + d[1], c[2] + d[2]>>
     IN  [to |-> n, cost |-> IF d[1] # 0 /\ d[2] # 0 THEN (3 * g.cost[n] + 1) \div 2 ELSE g.cost[n]] :
        d \in {e \in (-1..1) \X (-1..1) : e # <<0, 0>> /\ Open(g, taken, c, e)}}

GridPath(g, taken, start, goal) ==
    IF ~Walkable(g, taken, start) \/ ~Walkable(g, taken, goal) THEN NoPath
    ELSE LET steps == [c \in Cells(g) |-> GridSteps(g, taken, c)]
             ahead == [c \in Cells(g) |-> Distance(c, goal)]
         IN  Search(Cells(g), start, goal, steps, ahead)

\* find_path of tactical/movement.py: no diagonals, ground is plain or difficult,
\* the heuristic counts cells.
Rough(g) == [g EXCEPT !.diagonal = FALSE,
                      !.cost = [c \in Cells(g) |-> IF g.cost[c] > PlainCost THEN 2 * PlainCost ELSE PlainCost]]

MapPath(g, start, goal) ==
    IF ~Walkable(g, {}, start) \/ ~Walkable(g, {}, goal) THEN NoPath
    ELSE LET steps  == [c \in Cells(g) |-> GridSteps(Rough(g), {}, c)]
             abs(n) == IF n < 0 THEN -n ELSE n
             ahead  == [c \in Cells(g) |-> PlainCost * (abs(goal[1] - c[1]) + abs(goal[2] - c[2]))]
         IN  Search(Cells(g), start, goal, steps, ahead)

\* Bresenham's line; nothing is hidden by the two end cells.
Line(a, b) ==
    LET abs(n) == IF n < 0 THEN -n ELSE n
        dx == abs(b[1] - a[1])     dy == abs(b[2] - a[2])
        sx == IF a[1] < b[1] THEN 1 ELSE -1
        sy == IF a[2] < b[2] THEN 1 ELSE -1
        at[n \in 0..Max({dx, dy})] ==
            IF n = 0 THEN [x |-> a[1], y |-> a[2], err |-> dx - dy]
            ELSE LET p == at[n - 1]
                     right == 2 * p.err > -dy
                     down  == 2 * p.err < dx
                 IN  [x   |-> IF right THEN p.x + sx ELSE p.x,
                      y   |-> IF down THEN p.y + sy ELSE p.y,
                      err |-> p.err - (IF right THEN dy ELSE 0) + (IF down THEN dx ELSE 0)]
    IN  [n \in 0..Max({dx, dy}) |-> <<at[n].x, at[n].y>>]

Between(a, b) == LET l == Line(a, b) IN {l[n] : n \in 1..(Cardinality(DOMAIN l) - 2)}
GridSight(g, a, b) == {a, b} \subseteq Cells(g) /\ Between(a, b) \cap g.opaque = {}

Covered(g, cells) == Max({0} \cup {g.cover[c] : c \in cells})

GridCover(g, a, b) ==
    IF GridSight(g, a, b) THEN Covered(g, Between(a, b)) ELSE FullCover

\* line_of_sight of tactical/movement.py: what blocks a step blocks the view.
MapSight(g, a, b) == Between(a, b) \cap g.walls = {}

\* The reference: the cells the straight line from a to b passes, those whose
\* middle it misses by less than half a cell (sure), and by half a cell at most.
Passed(a, b, sure) ==
    LET abs(n) == IF n < 0 THEN -n ELSE n
        dx     == b[1] - a[1]
        dy     == b[2] - a[2]
        long   == Max({abs(dx), abs(dy)})
        off(c) == 2 * abs(dx * (c[2] - a[2]) - dy * (c[1] - a[1]))
        box    == (Min({a[1], b[1]})..Max({a[1], b[1]})) \X (Min({a[2], b[2]})..Max({a[2], b[2]}))
    IN  {c \in box \ {a, b} : off(c) < long \/ (~sure /\ off(c) = long)}

-----------------------------------------------------------------------------
(* Graphs: [nodes, edges, capacity], edges a function of pairs to costs.   *)

\* Slip: one more than the capacity.
HasRoomForMore(g, others, n) ==
    g.capacity[n] = 0 \/ Cardinality({o \in DOMAIN others : others[o] = n}) <= g.capacity[n]

HasRoom(g, others, n) ==
    g.capacity[n] = 0 \/ Cardinality({o \in DOMAIN others : others[o] = n}) < g.capacity[n]

\* Only the goal's capacity is asked: a path may lead through full nodes.
GraphSteps(g, others, goal, n) ==
    {[to |-> e[2], cost |-> g.edges[e]] :
        e \in {d \in DOMAIN g.edges : d[1] = n /\ (d[2] = goal => HasRoom(g, others, goal))}}

GraphPath(g, others, start, goal) ==
    LET steps == [n \in g.nodes |-> GraphSteps(g, others, goal, n)]
        none  == [n \in g.nodes |-> 0]
    IN  IF goal \notin g.nodes THEN NoPath ELSE Search(g.nodes, start, goal, steps, none)

-----------------------------------------------------------------------------
(* Continuous space: bodies [at, size], boxes [low, high, solid, opaque,    *)
(* cover] that block moves when they are solid and the view when opaque.    *)

Contains(box, p, r) == \A i \in 1..2 : box.low[i] - r <= p[i] /\ p[i] <= box.high[i] + r

Collides(f, bodies, p, r) ==
    \/ \E i \in 1..2 : p[i] < f.low[i] + r \/ p[i] > f.high[i] - r
    \/ \E box \in f.boxes : box.solid /\ Contains(box, p, r)
    \/ \E b \in bodies : Square(b.at, p) < (r + b.size) * (r + b.size)

\* Slip: entry and exit are not exchanged for a segment that runs backwards.
CrossesForward(p, q, box) ==
    /\ \A i \in 1..2 : p[i] = q[i] => box.low[i] <= p[i] /\ p[i] <= box.high[i]
    /\ \A i \in 1..2 : p[i] # q[i] => box.low[i] <= q[i] /\ p[i] <= box.high[i]

\* The slab test on fractions <<numerator, denominator>> of the segment: it
\* enters and leaves the box's range on every axis along which it moves.
Crosses(p, q, box) ==
    LET d(i)     == q[i] - p[i]
        len(i)   == IF d(i) < 0 THEN -d(i) ELSE d(i)
        ends(i)  == IF d(i) < 0 THEN {p[i] - box.low[i], p[i] - box.high[i]}
                    ELSE {box.low[i] - p[i], box.high[i] - p[i]}
        moving   == {i \in 1..2 : d(i) # 0}
        enter    == {<<0, 1>>} \cup {<<Min(ends(i)), len(i)>> : i \in moving}
        leave    == {<<1, 1>>} \cup {<<Max(ends(i)), len(i)>> : i \in moving}
    IN  /\ \A i \in (1..2) \ moving : box.low[i] <= p[i] /\ p[i] <= box.high[i]
        /\ \A e \in enter, l \in leave : e[1] * l[2] <= l[1] * e[2]

Crossed(f, p, q)    == {box \in f.boxes : Crosses(p, q, box)}
Blocked(f, p, q)    == \E box \in Crossed(f, p, q) : box.solid
FieldSight(f, p, q) == ~\E box \in Crossed(f, p, q) : box.opaque

FieldCover(f, p, q) ==
    IF FieldSight(f, p, q) THEN Max({0} \cup {box.cover : box \in Crossed(f, p, q)}) ELSE FullCover

\* The reference: some point of the segment lies in the box.  Divided by both of
\* its extents it has the points where it meets the box's sides among its marks.
Touches(p, q, box) ==
    LET extent(i) == IF p[i] < q[i] THEN q[i] - p[i] ELSE IF p[i] > q[i] THEN p[i] - q[i] ELSE 1
        fine      == extent(1) * extent(2)
    IN  \E k \in 0..fine : \A i \in 1..2 :
            /\ fine * box.low[i] <= fine * p[i] + k * (q[i] - p[i])
            /\ fine * p[i] + k * (q[i] - p[i]) <= fine * box.high[i]
=============================================================================
