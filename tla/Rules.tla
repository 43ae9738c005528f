-------------------------------- MODULE Rules --------------------------------
(***************************************************************************)
(* The rules runtime of a campaign and the executable rule graphs that     *)
(* drive it: timed and stacking effects (rules/effects.py), reaction       *)
(* windows, action economy, rolls, attacks and damage (rules/runtime.py),  *)
(* and the executor that walks a graph of nodes (rules/compiler.py).       *)
(*                                                                         *)
(* Dice and amounts are integers.  The value of a modifier is a float in   *)
(* the code: here it is a multiple of 1/Unit, kept as that multiple, and   *)
(* sums and products are exact.  Tags are left out, and a definition of an *)
(* effect carries one modifier.  A rule graph is a function from node ids  *)
(* to nodes.                                                               *)
(***************************************************************************)
EXTENDS Integers, FiniteSets, Sequences, FiniteSetsExt

CONSTANTS
    Actors, NoOne,    \* entities, and the missing target or answer
    Effects,          \* effect ids
    Unit,             \* what one is, as the value of a modifier
    Pack,             \* the rules of a content pack, in the order of their ids
    Code,             \* the graph [entry, nodes, effects] of each rule
    Immune, Resistant, Vulnerable,   \* sets of actors, for the one damage type
    Ability,          \* [Actors -> Int], the modifier an attack uses
    Armor,            \* [Actors -> Int], defense without effects
    Casters,          \* the actors that execute rule graphs
    Postures,         \* sets of active conditions an actor may be in
    Throws,           \* what two dice and the damage die of one command show
    MaxHp, MaxTemp, MaxPool, MaxFlag, Reactions, MaxNodes, MaxSteps, MaxTime, MaxWindows

\* What the schema of EffectDefinition asks (lasts 0: no duration).
EffectDefinition(d) == d # NoOne /\ d.value \in Int /\ d.max \in Nat \ {0} /\ d.lasts \in Nat

ASSUME RuntimeAssumption ==
    /\ Reactions \in Nat /\ MaxSteps \in Nat /\ Unit \in Nat \ {0}
    /\ Armor \in [Actors -> Int] /\ Ability \in [Actors -> Int]
    /\ Casters \subseteq Actors /\ NoOne \notin Actors \cup {"act"}
ASSUME CodeAssumption ==
    /\ Pack \in Seq(DOMAIN Code)
    /\ \A i \in DOMAIN Pack : LET graph == Code[Pack[i]] IN
           /\ \A n \in DOMAIN graph.nodes :
                  /\ graph.nodes[n].effect \in Effects \cup {NoOne}
                  /\ graph.nodes[n].op = "apply" => graph.nodes[n].amount \in Int
           /\ \A e \in DOMAIN graph.effects : EffectDefinition(graph.effects[e])

VARIABLES
    now,        \* simulation_time
    hp, temp,   \* ResourcePool.hp and temp_hp of each actor
    pool,       \* current of one character resource
    flag,       \* one numeric state flag, and one component value of each actor
    known,      \* EffectPipeline.definitions, NoOne when not registered
    active,     \* active[t]: the instances of target t, in by_target's order
    spent,      \* spent_reactions of each actor
    windows     \* reaction opportunities, in the order they were opened

rulesVars == <<now, hp, temp, pool, flag, known, active, spent, windows>>

Never == -1     \* an effect or a window without expiry

Lower(a, b) == IF a < b THEN a ELSE b
Upper(a, b) == IF a < b THEN b ELSE a

-----------------------------------------------------------------------------
(* Effects. x is a record of the variables a rule can change.              *)

Present == [hp |-> hp, temp |-> temp, pool |-> pool, flag |-> flag, known |-> known,
             active |-> active, windows |-> windows]

SameKey(x, t, e) ==
    {i \in DOMAIN x.active[t] : x.known[x.active[t][i].effect].key = x.known[e].key}

Until(d, old) == IF d.lasts > 0 THEN now + d.lasts ELSE old

Instance(d, e, n) ==
    [effect |-> e, stacks |-> Lower(d.max, Upper(1, n)), expires |-> Until(d, Never)]

ApplyEffect(x, e, t, n) ==
    LET d    == x.known[e]
        same == SameKey(x, t, e)
        i    == Min(same)
    IN  IF same = {}
        THEN [x EXCEPT !.active[t] = Append(@, Instance(d, e, n))]
        ELSE [x EXCEPT !.active[t][i].stacks  = Lower(d.max, @ + Upper(1, n)),
                       !.active[t][i].expires = Until(d, @)]

\* Those that have not expired, in their order.
Lasting(t) ==
    LET lasts(i) == i.expires = Never \/ i.expires > now
        kept[n \in 0..Len(active[t])] ==
            IF n = 0 THEN <<>>
            ELSE kept[n - 1] \o (IF lasts(active[t][n]) THEN <<active[t][n]>> ELSE <<>>)
    IN  kept[Len(active[t])]

\* The modifiers of t's instances for one target, each with its stacks.
ModifiersFor(x, t, what) ==
    {[kind   |-> x.known[x.active[t][i].effect].kind,
      value  |-> x.known[x.active[t][i].effect].value,
      copies |-> x.active[t][i].stacks, id |-> <<t, i>>] :
        i \in {j \in DOMAIN x.active[t] : x.known[x.active[t][j].effect].target = what}}

-----------------------------------------------------------------------------
(* Rolls, defense and damage.                                              *)

Power(v, n) == LET p[i \in 0..n] == IF i = 0 THEN 1 ELSE v * p[i - 1] IN p[n]

Product(f, S) == FoldSet(LAMBDA m, acc : acc * f[m], 1, S)

OfKind(mods, k) == {m \in mods : m.kind = k}

\* _resolve_modifier_trace: final is Final(base, mods) / (Unit * Scale(mods)); each
\* copy of a multiplier brings a Unit of its own into the denominator.
Scale(mods) ==
    LET times == OfKind(mods, "multiplier")
    IN  Product([m \in times |-> Power(Unit, m.copies)], times)

Final(base, mods) ==
    LET flat    == MapThenSumSet(LAMBDA m : m.value * m.copies, OfKind(mods, "flat"))
        times   == OfKind(mods, "multiplier")
        raw     == (base * Unit + flat) * Product([m \in times |-> Power(m.value, m.copies)], times)
        floors  == {m.value : m \in OfKind(mods, "minimum")}
        raised  == IF floors = {} THEN raw ELSE Upper(Max(floors) * Scale(mods), raw)
        ceiling == {m.value : m \in OfKind(mods, "maximum")}
    IN  IF ceiling = {} THEN raised ELSE Lower(Min(ceiling) * Scale(mods), raised)

\* int(n / d): towards zero.
Cut(n, d) == IF n >= 0 THEN n \div d ELSE -((-n) \div d)

Whole(base, mods) == Cut(Final(base, mods), Unit * Scale(mods))

Mode(mods) ==
    LET for     == OfKind(mods, "advantage") # {}
        against == OfKind(mods, "disadvantage") # {}
    IN  IF for = against THEN "normal" ELSE IF for THEN "advantage" ELSE "disadvantage"

Selected(mode, first, second) ==
    CASE mode = "advantage"    -> Upper(first, second)
      [] mode = "disadvantage" -> Lower(first, second)
      [] OTHER                 -> first

ResolveRoll(x, a, base, mods, dice) ==
    LET all == mods \cup ModifiersFor(x, a, "roll")
        sel == Selected(Mode(all), dice[1], dice[2])
    IN  [selected |-> sel, total |-> sel + Whole(base, all)]

ConditionModifiers(mine, theirs) ==
    {[kind |-> "flat", value |-> c.attack * Unit, copies |-> 1, id |-> <<"mine", c.id>>] :
        c \in {d \in mine : d.attack # 0}}
    \cup {[kind |-> c.mode, value |-> 0, copies |-> 1, id |-> <<"mode", c.id>>] :
        c \in {d \in mine : d.mode # "normal"}}
    \cup {[kind |-> c.against, value |-> 0, copies |-> 1, id |-> <<"theirs", c.id>>] :
        c \in {d \in theirs : d.against # "normal"}}

Defense(x, t, theirs) ==
    Whole(Armor[t],
          {[kind |-> "flat", value |-> c.armor * Unit, copies |-> 1, id |-> <<"armor", c.id>>] :
               c \in {d \in theirs : d.armor # 0}}
          \cup ModifiersFor(x, t, "defense"))

\* resolve_damage: traits halve and double (the factor is kept twice as large),
\* effects change the amount first, and the cut to an integer comes last.
Factor(resistant, vulnerable) ==
    (IF resistant THEN 1 ELSE 2) * (IF vulnerable THEN 2 ELSE 1)

\* Slip: the cut to an integer comes after the first trait.
DamageCutTwice(x, t, amount, resistant, vulnerable) ==
    LET mods == ModifiersFor(x, t, "damage")
        once == Cut(Final(amount, mods), Unit * Scale(mods) * (IF resistant THEN 2 ELSE 1))
    IN  Upper(0, once * (IF vulnerable THEN 2 ELSE 1))

DamageWith(x, t, amount, resistant, vulnerable) ==
    LET mods == ModifiersFor(x, t, "damage")
    IN  Upper(0, Cut(Final(amount, mods) * Factor(resistant, vulnerable), 2 * (Unit * Scale(mods))))

AfterTraits(x, t, amount) ==
    IF t \in Immune THEN 0 ELSE DamageWith(x, t, amount, t \in Resistant, t \in Vulnerable)

\* ResourcePool.apply_damage and heal.
Hurt(x, t, amount) ==
    LET absorbed == Lower(x.temp[t], amount)
    IN  [x EXCEPT !.temp[t] = @ - absorbed, !.hp[t] = Upper(0, @ - (amount - absorbed))]

Heal(x, t, amount) == [x EXCEPT !.hp[t] = Lower(MaxHp, @ + amount)]

\* resolve_attack: the damage of a hit before the target's traits.
AttackDamage(x, a, t, mine, theirs, dice) ==
    LET r    == ResolveRoll(x, a, Ability[a], ConditionModifiers(mine, theirs), dice)
        crit == r.selected >= 20
        hit  == crit \/ (r.selected # 1 /\ r.total >= Defense(x, t, theirs))
    IN  IF ~hit THEN 0
        ELSE Upper(1, dice[3] + Ability[a]) + (IF crit THEN dice[3] ELSE 0)

-----------------------------------------------------------------------------
(* The compiler of rule graphs. A node is [op, who, amount, effect, ref,   *)
(* how, yes, no, next]; ref names a resource, a path or a value.           *)

Paths       == {"flags", "actor", "target"}
Comparisons == {"eq", "ne", "lt", "lte", "gt", "gte", "truthy"}
MaxTimeout  == 600

\* _validate_links.
LinksHold(graph) ==
    /\ graph.entry \in DOMAIN graph.nodes
    /\ \A n \in DOMAIN graph.nodes :
          {graph.nodes[n].next, graph.nodes[n].yes, graph.nodes[n].no}
              \subseteq DOMAIN graph.nodes \cup {NoOne}

ValidNode(node) ==
    /\ node.op \in {"damage", "heal"}     => node.amount # NoOne
    /\ node.op \in {"set", "inc"}         => node.ref \in Paths
    /\ node.op \in {"consume", "restore"} => node.ref # NoOne
    /\ node.op = "apply"                  => node.effect # NoOne
    /\ node.op = "open"                   => node.amount \in 0..MaxTimeout
    /\ node.op = "if"                     => node.how \in Comparisons

Compiled(graph) ==
    /\ Cardinality(DOMAIN graph.nodes) \in 1..MaxNodes
    /\ \A n \in DOMAIN graph.nodes : ValidNode(graph.nodes[n])
    /\ LinksHold(graph)

\* compile_content_pack_rules: a pack's rules are registered one by one, up to
\* the first that does not compile.
Book == {Pack[i] : i \in {j \in DOMAIN Pack : \A k \in 1..j : Compiled(Code[Pack[k]])}}

-----------------------------------------------------------------------------
(* Rule graphs. A run is [x, at, fails, vars]: the state so far, the next  *)
(* node (NoOne: none), whether a node raised, and the rule's one variable. *)

Subject(node, a, t) == IF node.who = "actor" THEN a ELSE t

OpenReaction(x, a, timeout) ==
    [x EXCEPT !.windows = Append(@, [actor    |-> a,
                                     expires  |-> IF timeout = 0 THEN Never ELSE now + timeout,
                                     resolved |-> FALSE,
                                     choice   |-> NoOne])]

\* _component_path: whose value a path names (NoOne: there is no target).
Place(path, a, t) == CASE path = "flags" -> "flags" [] path = "actor" -> a [] path = "target" -> t

Numeric(v) == IF v = NoOne THEN 0 ELSE v

\* _value: what a reference stands for, NoOne when there is nothing there.
Value(run, ref, a, t) ==
    CASE ref = "var"       -> run.vars
      [] ref = "flags"     -> run.x.flag["flags"]
      [] ref = "actor.hp"  -> run.x.hp[a]
      [] ref = "target.hp" -> IF t = NoOne THEN NoOne ELSE run.x.hp[t]

\* _compare: nothing is neither more nor less than a number, it raises.
Compare(v, how, n) ==
    CASE how = "truthy" -> Numeric(v) # 0
      [] how = "eq"     -> v = n
      [] how = "ne"     -> v # n
      [] how = "lt"     -> v < n
      [] how = "lte"    -> v <= n
      [] how = "gt"     -> v > n
      [] how = "gte"    -> v >= n

\* _resource_change: hit points fall to nothing at least, a resource that is
\* too small is not touched (see Raises).
ResourceChange(x, s, ref, n, restore) ==
    CASE ref = "hp" /\ restore  -> Heal(x, s, n)
      [] ref = "hp" /\ ~restore -> Hurt(x, s, n)      \* asks no traits
      [] OTHER -> [x EXCEPT !.pool[s] = IF restore THEN Lower(MaxPool, @ + n) ELSE @ - n]

Raises(run, node, a, t) ==
    LET s == Subject(node, a, t)
    IN  \/ node.op \in {"damage", "heal", "consume", "restore", "apply", "open"} /\ s = NoOne
        \/ node.op = "apply" /\ run.x.known[node.effect] = NoOne
        \/ node.op \in {"consume", "restore"} /\ node.ref \notin {"hp", "pool"}
        \/ node.op = "consume" /\ node.ref = "pool" /\ run.x.pool[s] < node.amount
        \/ node.op \in {"set", "inc"} /\ Place(node.ref, a, t) = NoOne
        \/ /\ node.op = "if" /\ Value(run, node.ref, a, t) = NoOne
           /\ node.how \notin {"eq", "ne", "truthy"}

\* _execute_node: the state after the node, the variable it sets, its success.
Result(run, node, a, t, dice) ==
    LET x     == run.x
        s     == Subject(node, a, t)
        roll  == ResolveRoll(x, a, 0, {}, dice)
        hurt  == Hurt(x, s, AfterTraits(x, s, node.amount))
        up    == Heal(x, s, node.amount)
        gone  == (x.hp[s] - hurt.hp[s]) + (x.temp[s] - hurt.temp[s])
        moved == ResourceChange(x, s, node.ref, node.amount, node.op = "restore")
        place == Place(node.ref, a, t)
    IN  CASE node.op = "roll"   -> <<x, run.vars, roll.total >= node.amount>>
          [] node.op = "damage" -> <<hurt, gone, gone > 0>>
          [] node.op = "heal"   -> <<up, up.hp[s] - x.hp[s], up.hp[s] > x.hp[s]>>
          [] node.op = "set"    -> <<[x EXCEPT !.flag[place] = node.amount], run.vars, TRUE>>
          [] node.op = "inc"    -> <<[x EXCEPT !.flag[place] = Numeric(@) + node.amount], run.vars, TRUE>>
          [] node.op \in {"consume", "restore"} ->
                 <<moved, run.vars, moved.hp[s] # x.hp[s] \/ moved.pool[s] # x.pool[s]>>
          [] node.op = "apply"  -> <<ApplyEffect(x, node.effect, s, node.amount), run.vars, TRUE>>
          [] node.op = "open"   -> <<OpenReaction(x, s, node.amount), run.vars, TRUE>>
          [] node.op = "if"     -> <<x, run.vars, Compare(Value(run, node.ref, a, t), node.how, node.amount)>>
          [] OTHER              -> <<x, run.vars, TRUE>>

Branch(node, success) ==
    LET b == IF success THEN node.yes ELSE node.no
    IN  IF node.op = "stop" THEN NoOne ELSE IF b # NoOne THEN b ELSE node.next

Walk(g, run, a, t, dice) ==
    LET node == Code[g].nodes[run.at]
        r    == Result(run, node, a, t, dice)
    IN  IF run.at = NoOne \/ run.fails THEN run
        ELSE IF Raises(run, node, a, t) THEN [run EXCEPT !.fails = TRUE]
        ELSE [x |-> r[1], vars |-> r[2], at |-> Branch(node, r[3]), fails |-> FALSE]

\* Every effect row of the graph is registered before the first node runs.
Registered(g) ==
    [e \in Effects |-> IF e \in DOMAIN Code[g].effects THEN Code[g].effects[e] ELSE known[e]]

Run(g, a, t, dice) ==
    LET run[n \in 0..MaxSteps] ==
            IF n = 0
            THEN [x |-> [Present EXCEPT !.known = Registered(g)], at |-> Code[g].entry,
                  fails |-> FALSE, vars |-> NoOne]
            ELSE Walk(g, run[n - 1], a, t, dice)
    IN  run[MaxSteps].x

-----------------------------------------------------------------------------
Become(x) ==
    /\ hp' = x.hp /\ temp' = x.temp /\ pool' = x.pool /\ flag' = x.flag
    /\ known' = x.known /\ active' = x.active /\ windows' = x.windows

RulesInit ==
    /\ now = 0
    /\ hp = [a \in Actors |-> MaxHp]
    /\ temp = [a \in Actors |-> MaxTemp]
    /\ pool = [a \in Actors |-> MaxPool]
    /\ flag = [p \in {"flags"} \cup Actors |-> NoOne]
    /\ known = [e \in Effects |-> NoOne]
    /\ active = [a \in Actors |-> <<>>]
    /\ spent = [a \in Actors |-> 0]
    /\ windows = <<>>

\* A rule.execute command. What the graph did stays when it raises or when it
\* runs out of its step budget: nothing is rolled back.
ExecuteRule(g, a, t, dice) ==
    /\ hp[a] > 0
    /\ LET x == Run(g, a, t, dice)
       IN  /\ Len(x.windows) <= MaxWindows /\ \A p \in DOMAIN flag : Numeric(x.flag[p]) <= MaxFlag     \* bounds
           /\ Become(x)
    /\ UNCHANGED <<now, spent>>

\* An attack command: the roll against the defense, the damage, the traits.
Attack(a, t, mine, theirs, dice) ==
    /\ a # t /\ hp[a] > 0
    /\ LET x == Present
       IN  Become(Hurt(x, t, AfterTraits(x, t, AttackDamage(x, a, t, mine, theirs, dice))))
    /\ UNCHANGED <<now, spent>>

\* ActionEconomy.consume("reaction").
Affords(a) == spent[a] < Reactions

\* Slip: the answer is asked for its price, and nothing is paid.
ResolveReactionFree(w, choice, timed) ==
    LET o      == windows[w]
        late   == timed /\ o.expires # Never /\ now > o.expires
        answer == IF late THEN NoOne ELSE choice
    IN  /\ ~o.resolved
        /\ answer # NoOne => Affords(o.actor)
        /\ windows' = [windows EXCEPT ![w].resolved = TRUE, ![w].choice = answer]
        /\ UNCHANGED <<now, hp, temp, pool, flag, known, active, spent>>

\* A late answer counts as none when the caller passes the clock (timed).
ResolveReaction(w, choice, timed) ==
    LET o      == windows[w]
        late   == timed /\ o.expires # Never /\ now > o.expires
        answer == IF late THEN NoOne ELSE choice
    IN  /\ ~o.resolved
        /\ answer # NoOne => Affords(o.actor)
        /\ spent' = IF answer = NoOne THEN spent ELSE [spent EXCEPT ![o.actor] = @ + 1]
        /\ windows' = [windows EXCEPT ![w].resolved = TRUE, ![w].choice = answer]
        /\ UNCHANGED <<now, hp, temp, pool, flag, known, active>>

\* A window is closed already, or there is no reaction left: nothing changes.
RefuseReaction(w, choice) ==
    /\ windows[w].resolved \/ (choice # NoOne /\ ~Affords(windows[w].actor))
    /\ UNCHANGED rulesVars

Overdue(w) == ~w.resolved /\ w.expires # Never /\ w.expires <= now

ExpireReactions ==
    /\ windows' = [w \in DOMAIN windows |->
                     IF Overdue(windows[w]) THEN [windows[w] EXCEPT !.resolved = TRUE, !.choice = NoOne]
                     ELSE windows[w]]
    /\ UNCHANGED <<now, hp, temp, pool, flag, known, active, spent>>

ExpireEffects ==
    /\ active' = [t \in Actors |-> Lasting(t)]
    /\ UNCHANGED <<now, hp, temp, pool, flag, known, spent, windows>>

RemoveEffect(t, i) ==
    /\ active' = [active EXCEPT ![t] = SubSeq(@, 1, i - 1) \o SubSeq(@, i + 1, Len(@))]
    /\ UNCHANGED <<now, hp, temp, pool, flag, known, spent, windows>>

ResetTurn(a) ==
    /\ spent' = [spent EXCEPT ![a] = 0]
    /\ UNCHANGED <<now, hp, temp, pool, flag, known, active, windows>>

Advance ==
    /\ now < MaxTime
    /\ now' = now + 1
    /\ UNCHANGED <<hp, temp, pool, flag, known, active, spent, windows>>

RulesNext ==
    \/ \E g \in Book, a \in Casters, t \in Actors \cup {NoOne}, dice \in Throws : ExecuteRule(g, a, t, dice)
    \/ \E a, t \in Actors, mine, theirs \in Postures, dice \in Throws : Attack(a, t, mine, theirs, dice)
    \/ \E w \in DOMAIN windows, c \in {NoOne, "act"}, timed \in BOOLEAN : ResolveReaction(w, c, timed)
    \/ \E w \in DOMAIN windows, c \in {NoOne, "act"} : RefuseReaction(w, c)
    \/ \E t \in Actors : \E i \in DOMAIN active[t] : RemoveEffect(t, i)
    \/ \E a \in Actors : ResetTurn(a)
    \/ ExpireReactions
    \/ ExpireEffects
    \/ Advance

RulesSpec == RulesInit /\ [][RulesNext]_rulesVars

-----------------------------------------------------------------------------
\* resolve_reaction and expire_reactions: a window is decided at most once and
\* stays as it was decided, by an answer or by its time; every answer taken is
\* paid with exactly one reaction of its actor, however many of its windows are
\* open, and a refusal pays nothing.
Answered(a) == {w \in DOMAIN windows : windows[w].actor = a /\ windows[w].choice # NoOne}

DecidedOnce ==
    [][/\ \A w \in DOMAIN windows : windows[w].resolved => windows'[w] = windows[w]
       /\ \A a \in Actors :
             LET new == Answered(a)' \ Answered(a)
             IN  IF new = {} THEN spent'[a] \in {0, spent[a]}
                 ELSE spent'[a] = spent[a] + Cardinality(new) /\ spent'[a] <= Reactions]_rulesVars

\* resolve_damage: under whatever effects a target carries, resistance takes half
\* of what no trait would, rounded down, both traits cancel exactly, and
\* vulnerability takes twice as much, with one more point when the fraction that
\* the effects leave is worth a half: the one cut to an integer comes last.
TraitsOrdered ==
    \A t \in Actors, amount \in 0..3 :
        LET taken(r, v) == DamageWith(Present, t, amount, r, v)
            plain == taken(FALSE, FALSE)
        IN  /\ taken(TRUE, TRUE) = plain
            /\ taken(TRUE, FALSE) = plain \div 2
            /\ taken(FALSE, TRUE) \in {2 * plain, 2 * plain + 1}
=============================================================================
