-------------------------------- MODULE Views --------------------------------
(***************************************************************************)
(* What clients get to know: KnowledgeAuthority (knowledge/authority.py),  *)
(* the scoped campaign read (api/knowledge_routes.py) and the frames and   *)
(* deltas of RuntimeSynchronizer (runtime_sync/protocol.py), on a campaign *)
(* that the scenes, the director, saves and crashes of Scenes go on        *)
(* changing.  An entity is its condition, a number; a hash of a frame is   *)
(* the frame.  Entities are numbered in the order of their ids.            *)
(***************************************************************************)
EXTENDS Scenes, FiniteSets

CONSTANTS
  Entity, Actor,   \* entities; those that may perceive and be played
  Viewer, ActorsOf,\* clients; the actors each owns, or None for the campaign's owner
  Condition,       \* public conditions of an entity, 0 for dead
  Fact, MaxTime    \* facts a host reveals; bound on the simulation time

ASSUME ActorAssumption == Actor \subseteq Entity /\ Entity \subseteq Nat /\ None \notin Viewer
ASSUME EntityAssumption == IsFiniteSet(Entity)
ASSUME OwnerAssumption == \A v \in Viewer : ActorsOf[v] = None \/ ActorsOf[v] \subseteq Actor
ASSUME ConditionAssumption == Condition \subseteq Nat

VARIABLES
  sequence,  \* RuntimeSynchronizer.sequence, in memory
  bindings,  \* entities with a VisualBinding, in memory
  latest,    \* the frame made last for a client, in memory
  link,      \* frames and deltas under way to a client: kept, lost or late
  copy,      \* the frame a client has
  page,      \* entities of the last scoped read of a client
  frames,    \* history: frames made for a client
  seen       \* history: <<actor, entity, condition>> observed

client == <<link, copy, page, frames>>
sync == <<sequence, bindings, latest>>
allvars == <<vars, sync, client, seen>>

Blank(S) == [x \in {} |-> S]

\* A campaign before play: the entities in sight of nobody.
NewLore(conditions) ==
  [now |-> 0, truth |-> conditions,
   minds |-> [a \in Actor |->
     [known |-> {a}, observed |-> Blank(0), snapshots |-> Blank(0), facts |-> Blank(0)]]]

ASSUME LoreAssumption == Lore = NewLore(Lore.truth) /\ Lore.truth \in [Entity -> Condition]

ViewsInit ==
  /\ Init
  /\ sequence = 0 /\ bindings = {} /\ latest = [v \in Viewer |-> None]
  /\ link = [v \in Viewer |-> {}] /\ copy = [v \in Viewer |-> None]
  /\ page = [v \in Viewer |-> Blank(0)] /\ frames = [v \in Viewer |-> {}] /\ seen = {}

Now == state.lore.now
Truth == state.lore.truth
Mind(a) == state.lore.minds[a]

With(f, key, value) == [k \in DOMAIN f \cup {key} |-> IF k = key THEN value ELSE f[k]]
Without(f, S) == [k \in DOMAIN f \ S |-> f[k]]

----------------------------------------------------------------------------
(* KnowledgeAuthority *)

\* An operation, counted by its kind.
Counted(kind) ==
  /\ left[kind] > 0 /\ left' = [left EXCEPT ![kind] = @ - 1]
  /\ UNCHANGED <<runtime, definitions, world, request, saving, row, answered, strained, crashes>>

Learn(a, mind) ==
  /\ Counted("minds") /\ state' = [state EXCEPT !.lore.minds[a] = mind]
  /\ UNCHANGED <<sync, client>>

Observe(mind, e, details) ==
  [mind EXCEPT !.known = @ \cup {e}, !.observed = With(@, e, Now),
               !.snapshots = IF details THEN With(@, e, Truth[e]) ELSE @]

\* ingest_perception: what the actor sees, and whether it is alive; an entity
\* out of sight stays as it is remembered.
Perceive(a, visible) ==
  /\ Learn(a, [Mind(a) EXCEPT
       !.known = @ \cup visible,
       !.observed = [e \in DOMAIN @ \cup visible |-> IF e \in visible THEN Now ELSE @[e]],
       !.snapshots = [e \in DOMAIN @ \cup visible |-> IF e \in visible THEN Truth[e] ELSE @[e]],
       !.facts = [f \in DOMAIN @ \cup {<<"alive", e>> : e \in visible} |->
                    IF f[1] = "alive" /\ f[2] \in visible
                      THEN [value |-> Truth[f[2]] # 0, expires |-> None] ELSE @[f]]])
  /\ seen' = seen \cup {<<a, e, Truth[e]>> : e \in visible}

\* reveal_entity, with its details or without: then an old snapshot stays.
RevealEntity(a, e, details) ==
  /\ Learn(a, Observe(Mind(a), e, details))
  /\ seen' = IF details THEN seen \cup {<<a, e, Truth[e]>>} ELSE seen

\* conceal_entity with forget; without it nothing is taken away.
ConcealEntity(a, e) ==
  LET mind == Mind(a) IN
  /\ e # a
  /\ Learn(a, [mind EXCEPT !.known = @ \ {e}, !.observed = Without(@, {e}),
                           !.snapshots = Without(@, {e})])
  /\ UNCHANGED seen

\* reveal_fact
RevealFact(a, f, expires) ==
  /\ Learn(a, [Mind(a) EXCEPT !.facts = With(@, <<"told", f>>, [value |-> TRUE, expires |-> expires])])
  /\ UNCHANGED seen

\* expire
Lapsed(mind) ==
  {f \in DOMAIN mind.facts : mind.facts[f].expires # None /\ mind.facts[f].expires <= Now}
Expired(mind) == [mind EXCEPT !.facts = Without(@, Lapsed(mind))]

\* view_for: the actor as it is, the others as remembered or known to be.
Own(e) == [detail |-> "full", condition |-> Truth[e]]
Placeholder == [detail |-> "known", condition |-> None]
\* Slip: a memory refers to the entity as it is now.
LiveMemory(mind, e) == [detail |-> "public", condition |-> Truth[e]]
Memory(mind, e) == [detail |-> "public", condition |-> mind.snapshots[e]]

Shown(a, mind) ==
  [e \in mind.known \cup {a} |->
     IF e = a THEN Own(e)
     ELSE IF e \in DOMAIN mind.snapshots THEN Memory(mind, e) ELSE Placeholder]

----------------------------------------------------------------------------
(* Reads *)

\* The minds after views for these actors.
Viewed(actors) == [a \in Actor |-> IF a \in actors THEN Expired(Mind(a)) ELSE Mind(a)]

\* scoped_payload: the owner reads the truth; a player the views of its actors
\* one over the other, in order of their ids.
LastWith(actors, e) ==
  LET knowing == {a \in actors : e \in DOMAIN Shown(a, Mind(a))} IN
  CHOOSE a \in knowing : \A b \in knowing : b <= a

Scoped(v) ==
  IF ActorsOf[v] = None THEN [e \in Entity |-> Own(e)]
  ELSE [e \in UNION {DOMAIN Shown(a, Mind(a)) : a \in ActorsOf[v]} |->
          Shown(LastWith(ActorsOf[v], e), Mind(LastWith(ActorsOf[v], e)))[e]]

Played(v) == IF ActorsOf[v] = None THEN {} ELSE ActorsOf[v]

\* GET of the campaign, or the state over the websocket: facts lapse.
ReadCampaign(v) ==
  /\ Counted("reads")
  /\ page' = [page EXCEPT ![v] = Scoped(v)]
  /\ state' = [state EXCEPT !.lore.minds = Viewed(Played(v))]
  /\ UNCHANGED <<sync, link, copy, frames, seen>>

----------------------------------------------------------------------------
(* RuntimeSynchronizer *)

RegisterBinding(e) ==
  /\ Counted("changes") /\ e \notin bindings
  /\ bindings' = bindings \cup {e}
  /\ UNCHANGED <<state, sequence, latest, client, seen>>

\* snapshot_from_state and snapshot_from_knowledge, of one actor.
Frame(v, a) ==
  LET entities == IF ActorsOf[v] = None THEN [e \in Entity |-> Own(e)] ELSE Shown(a, Mind(a)) IN
  [sequence |-> sequence + 1, time |-> Now, map |-> state.map, entities |-> entities,
   facts |-> IF ActorsOf[v] = None THEN Blank(0) ELSE Expired(Mind(a)).facts,
   bindings |-> [e \in bindings \cap DOMAIN entities |-> "bound"]]

\* diff
Change(before, after) ==
  [removed |-> DOMAIN before \ DOMAIN after,
   set |-> [k \in {x \in DOMAIN after : x \notin DOMAIN before \/ before[x] # after[x]} |-> after[k]]]

Delta(before, after) ==
  [kind |-> "delta", base |-> before, target |-> after,
   sequence |-> after.sequence, time |-> after.time,
   map |-> IF before.map = after.map THEN {} ELSE {after.map},
   entities |-> Change(before.entities, after.entities),
   facts |-> Change(before.facts, after.facts),
   bindings |-> Change(before.bindings, after.bindings)]

\* A frame is made and sent whole, or against the one before.
SendFrame(v, a, whole) ==
  LET frame == Frame(v, a) IN
  /\ Counted("reads")
  /\ a \in Played(v) \/ ActorsOf[v] = None
  /\ ~whole => latest[v] # None
  /\ sequence' = sequence + 1
  /\ latest' = [latest EXCEPT ![v] = frame] /\ frames' = [frames EXCEPT ![v] = @ \cup {frame}]
  /\ link' = [link EXCEPT ![v] = @ \cup
       {IF whole THEN [kind |-> "frame", frame |-> frame] ELSE Delta(latest[v], frame)}]
  /\ state' = [state EXCEPT !.lore.minds = Viewed({a} \cap Played(v))]
  /\ UNCHANGED <<bindings, copy, page, seen>>

Patched(before, change) ==
  [k \in (DOMAIN before \ change.removed) \cup DOMAIN change.set |->
     IF k \in DOMAIN change.set THEN change.set[k] ELSE before[k]]

Applied(frame, delta) ==
  [sequence |-> delta.sequence, time |-> delta.time,
   map |-> IF delta.map = {} THEN frame.map ELSE CHOOSE map \in delta.map : TRUE,
   entities |-> Patched(frame.entities, delta.entities),
   facts |-> Patched(frame.facts, delta.facts),
   bindings |-> Patched(frame.bindings, delta.bindings)]

\* Slip: only the sequence is looked at.
FitsSequence(frame, delta) == delta.base.sequence = frame.sequence
\* Both hashes have to fit.
Fits(frame, delta) == delta.base = frame /\ Applied(frame, delta) = delta.target

\* apply, of any message there is, in any order and as often as it comes; one
\* that does not fit is refused.
Receive(v) ==
  /\ \E message \in link[v] :
       IF message.kind = "frame" THEN copy' = [copy EXCEPT ![v] = message.frame]
       ELSE /\ copy[v] # None /\ Fits(copy[v], message)
            /\ copy' = [copy EXCEPT ![v] = Applied(@, message)]
  /\ UNCHANGED <<vars, sync, link, page, frames, seen>>

----------------------------------------------------------------------------
\* The simulation: time passes, an entity comes to another condition.
Pass ==
  /\ Now < MaxTime /\ Counted("changes")
  /\ state' = [state EXCEPT !.lore.now = @ + 1]
  /\ UNCHANGED <<sync, client, seen>>

Alter(e) ==
  /\ Counted("changes")
  /\ \E c \in Condition \ {Truth[e]} : state' = [state EXCEPT !.lore.truth[e] = c]
  /\ UNCHANGED <<sync, client, seen>>

\* The synchronizer's memory goes with the process; its clients stay.
Restart ==
  /\ Crash
  /\ sequence' = 0 /\ bindings' = {} /\ latest' = [v \in Viewer |-> None]
  /\ UNCHANGED <<client, seen>>

Next ==
  \/ SceneSteps /\ UNCHANGED <<sync, client, seen>>
  \/ Restart \/ Pass
  \/ \E e \in Entity : Alter(e) \/ RegisterBinding(e)
  \/ \E a \in Actor :
       \/ \E visible \in SUBSET (Entity \ {a}) : Perceive(a, visible)
       \/ \E e \in Entity :
            ConcealEntity(a, e) \/ \E details \in BOOLEAN : RevealEntity(a, e, details)
       \/ \E f \in Fact, expires \in {None} \cup 1..MaxTime : RevealFact(a, f, expires)
  \/ \E v \in Viewer :
       \/ ReadCampaign(v) \/ Receive(v)
       \/ \E a \in Actor, whole \in BOOLEAN : SendFrame(v, a, whole)

Spec == ViewsInit /\ [][Next]_allvars

----------------------------------------------------------------------------
(* Properties *)

\* Whatever condition of another's entity a player's page or copy shows, one of
\* its own actors has observed: hidden changes show nowhere, neither through
\* memories nor frames, deltas, other clients' reads or a restart.
HiddenStaysHidden ==
  \A v \in Viewer : ActorsOf[v] # None =>
    \A shown \in {page[v]} \cup (IF copy[v] = None THEN {} ELSE {copy[v].entities}) :
      \A e \in DOMAIN shown \ ActorsOf[v] :
        \/ shown[e].detail = "known"
        \/ shown[e].detail = "public" /\ \E a \in ActorsOf[v] : <<a, e, shown[e].condition>> \in seen

\* A client only ever has a frame that was made for it, whole, whichever deltas
\* were lost, late or repeated, also when sequence numbers start again.
CopiesAreFrames ==
  \A v \in Viewer : copy[v] = None \/ copy[v] \in frames[v]
=============================================================================
