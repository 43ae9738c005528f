------------------------------ MODULE ViewsProofs ------------------------------
(***************************************************************************)
(* What is proved of the scenes' requests and saves, the director's        *)
(* decisions, and of what clients get to know.  A campaign is in memory,   *)
(* in the row and in the save that holds the lock: each is sound by itself *)
(* (Sound), and what was promised is kept by those that matter (Promises). *)
(***************************************************************************)
EXTENDS Views, FiniteSetTheorems, WellFoundedInduction, TLAPS

Campaigns == {state, row} \cup (IF saving = None THEN {} ELSE {saving.state})

\* The fields of a campaign, of what it stores of knowledge, and of one mind.
WholeCampaign(c) ==
  c = [scenes |-> c.scenes, active |-> c.active, map |-> c.map, pressure |-> c.pressure,
       decisions |-> c.decisions, lore |-> c.lore]
WholeMind(m) ==
  m = [known |-> m.known, observed |-> m.observed, snapshots |-> m.snapshots, facts |-> m.facts]
WholeLore(l) ==
  /\ l = [now |-> l.now, truth |-> l.truth, minds |-> l.minds]
  /\ l.truth \in [Entity -> Condition]
  /\ l.minds = [a \in Actor |-> l.minds[a]] /\ \A a \in Actor : WholeMind(l.minds[a])

Promise == ({"archived"} \X Scene) \cup ({"decided"} \X Nat)
Request == [stage : {"emit", "save"}, promise : SUBSET Promise]

TypeOK ==
  /\ left \in [scenes : Nat, saves : Nat, minds : Nat, changes : Nat, reads : Nat]
  /\ strained \in BOOLEAN
  /\ request \in [Slot -> Request \cup {Idle}] /\ answered \subseteq Promise
  /\ \A c \in Campaigns : WholeCampaign(c) /\ WholeLore(c.lore)
  /\ DOMAIN link = Viewer /\ DOMAIN copy = Viewer
  /\ DOMAIN page = Viewer /\ DOMAIN frames = Viewer

\* Decisions are numbered downwards, and no number is used again.
Numbered(c) ==
  /\ c.decisions \in Seq(Nat) /\ Len(c.decisions) <= HistoryCap
  /\ \A i \in 1..Len(c.decisions) : c.decisions[i] > left.scenes
  /\ \A i, j \in 1..Len(c.decisions) : i < j => c.decisions[i] > c.decisions[j]

Relaxed(c) ==
  /\ c.pressure \in 0..100
  /\ strained \/ c.pressure >= 41 \/ c.pressure \in Pressures

\* What a mind remembers of an entity, its actor has observed.
Observed(c) ==
  \A a \in Actor : LET memory == c.lore.minds[a].snapshots IN
    \A e \in DOMAIN memory : <<a, e, memory[e]>> \in seen

Sound == \A c \in Campaigns : Numbered(c) /\ Relaxed(c) /\ Observed(c)

\* What is archived is mirrored, and the party that is low has been noticed.
ArchiveMirrored ==
  \A s \in DOMAIN runtime : runtime[s] = "archived" =>
    s \in DOMAIN state.scenes /\ state.scenes[s] = "archived"
Mirrors ==
  /\ ArchiveMirrored
  /\ Strained(world) => strained

\* A decision is among those kept, or newer ones have pushed it out.
Remembers(s, k) ==
  \/ \E i \in 1..Len(s) : s[i] = k
  \/ Len(s) = HistoryCap /\ \A i \in 1..Len(s) : s[i] < k

\* What a promise says of the orchestrator, and of a campaign.
Gone(p) == p[1] = "archived" => p[2] \in DOMAIN runtime /\ runtime[p[2]] = "archived"
Kept(p, c) ==
  /\ p[1] = "archived" => p[2] \in DOMAIN c.scenes /\ c.scenes[p[2]] = "archived"
  /\ p[1] = "decided" => Remembers(c.decisions, p[2])

\* What memory has promised is kept in memory, the promise that a save carries
\* also in that save, and what was answered everywhere.
Promises ==
  /\ \A c \in Slot : request[c] # Idle => \A p \in request[c].promise : Gone(p) /\ Kept(p, state)
  /\ saving # None /\ saving.slot # None =>
       /\ saving.slot \in Slot /\ request[saving.slot] # Idle
       /\ \A p \in request[saving.slot].promise : Kept(p, saving.state)
  /\ \A p \in answered : Gone(p) /\ \A c \in Campaigns : Kept(p, c)

\* What a client is shown of entities that are not its own.
Honest(v, entities) ==
  \A e \in DOMAIN entities \ ActorsOf[v] :
    \/ entities[e].detail = "known"
    \/ entities[e].detail = "public" /\ \E a \in ActorsOf[v] : <<a, e, entities[e].condition>> \in seen

\* Whatever is under way, shown or kept is a frame that was made, or honest.
Shows ==
  \A v \in Viewer :
    /\ copy[v] = None \/ copy[v] \in frames[v]
    /\ \A m \in link[v] :
         \/ m.kind = "frame" /\ m.frame \in frames[v]
         \/ m.kind = "delta" /\ m.target \in frames[v]
    /\ ActorsOf[v] # None =>
         Honest(v, page[v]) /\ \A f \in frames[v] : Honest(v, f.entities)

IInv == TypeOK /\ Sound /\ Mirrors /\ Promises /\ Shows

----------------------------------------------------------------------------
(* Which steps change which campaign *)

\* What is done with knowledge, frames and time leaves the scenes, their
\* requests and the saves alone, and the campaign but for its lore.
Aside ==
  /\ UNCHANGED <<runtime, world, request, saving, row, answered, strained>>
  /\ left'.scenes = left.scenes
  /\ state'.scenes = state.scenes /\ state'.pressure = state.pressure
  /\ state'.decisions = state.decisions

LEMMA CountedKeeps ==
  ASSUME TypeOK, NEW kind \in {"minds", "changes", "reads"}, Counted(kind)
  PROVE  /\ left' \in [scenes : Nat, saves : Nat, minds : Nat, changes : Nat, reads : Nat]
         /\ left'.scenes = left.scenes
BY DEF TypeOK, Counted

\* A campaign whose lore is replaced, or its minds, or one of them.
WithLore(c, l) == [c EXCEPT !.lore = l]
WithMinds(c, minds) == [c EXCEPT !.lore.minds = minds]
WithMind(c, a, mind) == [c EXCEPT !.lore.minds[a] = mind]

LEMMA LoreReplaced ==
  ASSUME NEW c, NEW l, WholeCampaign(c), WholeLore(l)
  PROVE  LET d == WithLore(c, l) IN
         /\ WholeCampaign(d) /\ WholeLore(d.lore) /\ d.lore = l
         /\ d.scenes = c.scenes /\ d.pressure = c.pressure /\ d.decisions = c.decisions
BY DEF WholeCampaign, WithLore

LEMMA MindsReplaced ==
  ASSUME NEW c, NEW minds, WholeCampaign(c), WholeLore(c.lore),
         minds = [a \in Actor |-> minds[a]], \A a \in Actor : WholeMind(minds[a])
  PROVE  LET d == WithMinds(c, minds) IN
         /\ WholeCampaign(d) /\ WholeLore(d.lore) /\ d.lore.minds = minds
         /\ d.scenes = c.scenes /\ d.pressure = c.pressure /\ d.decisions = c.decisions
<1>0. PICK l : l = [c.lore EXCEPT !.minds = minds]
  OBVIOUS
<1>1. WithMinds(c, minds) = WithLore(c, l)
  BY <1>0 DEF WholeCampaign, WithLore, WithMinds
<1>2. WholeLore(l) /\ l.minds = minds
  BY <1>0 DEF WholeLore
<1> QED
  BY <1>1, <1>2, LoreReplaced

LEMMA MindReplaced ==
  ASSUME NEW c, NEW a \in Actor, NEW mind, WholeCampaign(c), WholeLore(c.lore), WholeMind(mind)
  PROVE  LET d == WithMind(c, a, mind) IN
         /\ WholeCampaign(d) /\ WholeLore(d.lore)
         /\ d.lore.minds = [b \in Actor |-> IF b = a THEN mind ELSE c.lore.minds[b]]
         /\ d.scenes = c.scenes /\ d.pressure = c.pressure /\ d.decisions = c.decisions
<1>0. PICK minds : minds = [b \in Actor |-> IF b = a THEN mind ELSE c.lore.minds[b]]
  OBVIOUS
<1>1. WithMind(c, a, mind) = WithMinds(c, minds)
  BY <1>0 DEF WholeCampaign, WholeLore, WithMind, WithMinds
<1>2. \A b \in Actor : WholeMind(minds[b])
  BY <1>0 DEF WholeLore
<1>3. minds = [b \in Actor |-> minds[b]]
  BY <1>0
<1> QED
  BY <1>0, <1>1, <1>2, <1>3, MindsReplaced

\* The operations of Views, but for receiving and restarting.
ViewSteps ==
  \/ Pass
  \/ \E e \in Entity : Alter(e) \/ RegisterBinding(e)
  \/ \E a \in Actor :
       \/ \E visible \in SUBSET (Entity \ {a}) : Perceive(a, visible)
       \/ \E e \in Entity :
            ConcealEntity(a, e) \/ \E details \in BOOLEAN : RevealEntity(a, e, details)
       \/ \E f \in Fact, expires \in {None} \cup 1..MaxTime : RevealFact(a, f, expires)
  \/ \E v \in Viewer :
       ReadCampaign(v) \/ \E a \in Actor, whole \in BOOLEAN : SendFrame(v, a, whole)

\* What they leave of a campaign, and what its minds have observed.
ViewStepKeeps ==
  /\ Aside /\ seen \subseteq seen'
  /\ left' \in [scenes : Nat, saves : Nat, minds : Nat, changes : Nat, reads : Nat]
  /\ WholeCampaign(state') /\ WholeLore(state'.lore)
  /\ Observed(state)'

LEMMA MemoryOf ==
  ASSUME TypeOK
  PROVE  /\ WholeCampaign(state) /\ WholeLore(state.lore)
         /\ state.lore.minds = [a \in Actor |-> state.lore.minds[a]]
         /\ \A a \in Actor : WholeMind(Mind(a))
BY DEF TypeOK, Campaigns, WholeLore, Mind

\* A mind is replaced by one that remembers what has been observed.
LEMMA LearnKeeps ==
  ASSUME TypeOK, Observed(state), NEW a \in Actor, NEW mind, WholeMind(mind), Learn(a, mind),
         seen \subseteq seen',
         \A e \in DOMAIN mind.snapshots : <<a, e, mind.snapshots[e]>> \in seen'
  PROVE  ViewStepKeeps
<1>1. WholeCampaign(state) /\ WholeLore(state.lore)
  BY MemoryOf
<1>2. state' = WithMind(state, a, mind) /\ Counted("minds")
  BY DEF Learn, WithMind
<1>3. /\ WholeCampaign(state') /\ WholeLore(state'.lore)
      /\ state'.scenes = state.scenes /\ state'.pressure = state.pressure
      /\ state'.decisions = state.decisions
  <2>1. PICK k : k = WithMind(state, a, mind)
    OBVIOUS
  <2>2. /\ WholeCampaign(k) /\ WholeLore(k.lore)
        /\ k.scenes = state.scenes /\ k.pressure = state.pressure /\ k.decisions = state.decisions
    <3>1. WholeCampaign(state) /\ WholeLore(state.lore) /\ WholeMind(mind)
      BY <1>1
    <3>2. LET d == WithMind(state, a, mind) IN
          /\ WholeCampaign(d) /\ WholeLore(d.lore)
          /\ d.lore.minds = [b \in Actor |-> IF b = a THEN mind ELSE state.lore.minds[b]]
          /\ d.scenes = state.scenes /\ d.pressure = state.pressure /\ d.decisions = state.decisions
      BY <3>1, MindReplaced, Zenon
    <3> QED
      BY <2>1, <3>2
  <2> QED
    BY <1>2, <2>1, <2>2
<1>4. state'.lore.minds = [b \in Actor |-> IF b = a THEN mind ELSE state.lore.minds[b]]
  BY <1>1, <1>2, MindReplaced
<1>5. Observed(state)'
  BY <1>4 DEF Observed
<1>6. /\ left' \in [scenes : Nat, saves : Nat, minds : Nat, changes : Nat, reads : Nat]
      /\ left'.scenes = left.scenes
  BY <1>2, CountedKeeps
<1> QED
  BY <1>2, <1>3, <1>5, <1>6 DEF ViewStepKeeps, Aside, Counted

LEMMA PerceiveKeeps ==
  ASSUME TypeOK, Observed(state), NEW a \in Actor, NEW visible, Perceive(a, visible)
  PROVE  ViewStepKeeps
<1>0. PICK mind : mind = [Mind(a) EXCEPT
       !.known = @ \cup visible,
       !.observed = [e \in DOMAIN @ \cup visible |-> IF e \in visible THEN Now ELSE @[e]],
       !.snapshots = [e \in DOMAIN @ \cup visible |-> IF e \in visible THEN Truth[e] ELSE @[e]],
       !.facts = [f \in DOMAIN @ \cup {<<"alive", e>> : e \in visible} |->
                    IF f[1] = "alive" /\ f[2] \in visible
                      THEN [value |-> Truth[f[2]] # 0, expires |-> None] ELSE @[f]]]
  OBVIOUS
<1>1. Learn(a, mind) /\ seen' = seen \cup {<<a, e, Truth[e]>> : e \in visible}
  BY <1>0 DEF Perceive
<1>2. WholeMind(Mind(a))
  BY MemoryOf
<1>3. /\ WholeMind(mind)
      /\ mind.snapshots = [e \in DOMAIN Mind(a).snapshots \cup visible |->
                             IF e \in visible THEN Truth[e] ELSE Mind(a).snapshots[e]]
  BY <1>0, <1>2 DEF WholeMind
<1>4. \A e \in DOMAIN Mind(a).snapshots : <<a, e, Mind(a).snapshots[e]>> \in seen
  BY DEF Observed, Mind
<1>5. \A e \in DOMAIN mind.snapshots : <<a, e, mind.snapshots[e]>> \in seen'
  BY <1>1, <1>3, <1>4
<1> QED
  BY <1>1, <1>3, <1>5, LearnKeeps

LEMMA RevealEntityKeeps ==
  ASSUME TypeOK, Observed(state), NEW a \in Actor, NEW e, NEW details \in BOOLEAN,
         RevealEntity(a, e, details)
  PROVE  ViewStepKeeps
<1>0. PICK mind : mind = Observe(Mind(a), e, details)
  OBVIOUS
<1>1. /\ Learn(a, mind)
      /\ seen' = IF details THEN seen \cup {<<a, e, Truth[e]>>} ELSE seen
  BY <1>0 DEF RevealEntity
<1>2. WholeMind(Mind(a))
  BY MemoryOf
<1>3. /\ WholeMind(mind)
      /\ mind.snapshots = IF details THEN With(Mind(a).snapshots, e, Truth[e]) ELSE Mind(a).snapshots
  BY <1>0, <1>2 DEF WholeMind, Observe
<1>4. \A x \in DOMAIN Mind(a).snapshots : <<a, x, Mind(a).snapshots[x]>> \in seen
  BY DEF Observed, Mind
<1>5. \A x \in DOMAIN mind.snapshots : <<a, x, mind.snapshots[x]>> \in seen'
  BY <1>1, <1>3, <1>4 DEF With
<1> QED
  BY <1>1, <1>3, <1>5, LearnKeeps

LEMMA ForgetKeeps ==
  ASSUME TypeOK, Observed(state), NEW a \in Actor, NEW e, NEW f, NEW expires,
         ConcealEntity(a, e) \/ RevealFact(a, f, expires)
  PROVE  ViewStepKeeps
<1>1. WholeMind(Mind(a))
  BY MemoryOf
<1>2. \A x \in DOMAIN Mind(a).snapshots : <<a, x, Mind(a).snapshots[x]>> \in seen
  BY DEF Observed, Mind
<1>3. CASE ConcealEntity(a, e)
  <2>0. PICK mind : mind = [Mind(a) EXCEPT !.known = @ \ {e}, !.observed = Without(@, {e}),
                                           !.snapshots = Without(@, {e})]
    OBVIOUS
  <2>1. Learn(a, mind) /\ seen' = seen
    BY <1>3, <2>0 DEF ConcealEntity
  <2>2. WholeMind(mind) /\ mind.snapshots = Without(Mind(a).snapshots, {e})
    BY <1>1, <2>0 DEF WholeMind
  <2>3. \A x \in DOMAIN mind.snapshots : <<a, x, mind.snapshots[x]>> \in seen'
    BY <1>2, <2>1, <2>2 DEF Without
  <2> QED
    BY <2>1, <2>2, <2>3, LearnKeeps
<1>4. CASE RevealFact(a, f, expires)
  <2>0. PICK mind : mind = [Mind(a) EXCEPT !.facts = With(@, <<"told", f>>,
                              [value |-> TRUE, expires |-> expires])]
    OBVIOUS
  <2>1. Learn(a, mind) /\ seen' = seen
    BY <1>4, <2>0 DEF RevealFact
  <2>2. WholeMind(mind) /\ mind.snapshots = Mind(a).snapshots
    BY <1>1, <2>0 DEF WholeMind
  <2> QED
    BY <1>2, <2>1, <2>2, LearnKeeps
<1> QED
  BY <1>3, <1>4
\* Views let facts lapse, and nothing else.
LEMMA LapseKeeps ==
  ASSUME TypeOK, Observed(state), NEW actors, Counted("reads"), seen' = seen,
         state' = WithMinds(state, Viewed(actors))
  PROVE  ViewStepKeeps
<1>1. WholeCampaign(state) /\ WholeLore(state.lore) /\ \A a \in Actor : WholeMind(Mind(a))
  BY MemoryOf
<1>2. PICK minds : minds = Viewed(actors)
  OBVIOUS
<1>3. minds = [a \in Actor |-> minds[a]]
  BY <1>2 DEF Viewed
<1>4. ASSUME NEW a \in Actor
      PROVE  WholeMind(minds[a]) /\ minds[a].snapshots = Mind(a).snapshots
  <2>1. WholeMind(Mind(a))
    BY <1>1
  <2>2. WholeMind(Expired(Mind(a))) /\ Expired(Mind(a)).snapshots = Mind(a).snapshots
    BY <2>1 DEF Expired, WholeMind
  <2> QED
    BY <1>2, <2>1, <2>2 DEF Viewed
<1>5. state' = WithMinds(state, minds)
  BY <1>2
<1>6. /\ WholeCampaign(state') /\ WholeLore(state'.lore) /\ state'.lore.minds = minds
      /\ state'.scenes = state.scenes /\ state'.pressure = state.pressure
      /\ state'.decisions = state.decisions
  <2>1. \A a \in Actor : WholeMind(minds[a])
    BY <1>4
  <2> QED
    BY <1>1, <1>3, <1>5, <2>1, MindsReplaced
<1>7. Observed(state)'
  BY <1>4, <1>6 DEF Observed, Mind
<1>8. /\ left' \in [scenes : Nat, saves : Nat, minds : Nat, changes : Nat, reads : Nat]
      /\ left'.scenes = left.scenes
  BY CountedKeeps
<1> QED
  BY <1>6, <1>7, <1>8 DEF ViewStepKeeps, Aside, Counted

\* Time and the truth change no mind.
LEMMA WorldKeeps ==
  ASSUME TypeOK, Observed(state), Pass \/ (\E e \in Entity : Alter(e))
  PROVE  ViewStepKeeps
<1>1. WholeCampaign(state) /\ WholeLore(state.lore)
  BY MemoryOf
<1>2. PICK l : state' = WithLore(state, l) /\ WholeLore(l) /\ l.minds = state.lore.minds
  <2>1. CASE Pass
    <3>0. PICK l : l = [state.lore EXCEPT !.now = @ + 1]
      OBVIOUS
    <3>1. state' = WithLore(state, l)
      BY <1>1, <2>1, <3>0 DEF Pass, WithLore, WholeCampaign
    <3>2. WholeLore(l) /\ l.minds = state.lore.minds
      BY <1>1, <3>0 DEF WholeLore
    <3> QED
      BY <3>1, <3>2
  <2>2. ASSUME NEW e \in Entity, Alter(e)
        PROVE  \E l : state' = WithLore(state, l) /\ WholeLore(l) /\ l.minds = state.lore.minds
    <3>0. PICK k \in Condition : state' = [state EXCEPT !.lore.truth[e] = k]
      BY <2>2 DEF Alter
    <3>1. PICK l : l = [state.lore EXCEPT !.truth[e] = k]
      OBVIOUS
    <3>2. state' = WithLore(state, l)
      BY <1>1, <3>0, <3>1 DEF WithLore, WholeCampaign
    <3>3. WholeLore(l) /\ l.minds = state.lore.minds
      BY <1>1, <3>1 DEF WholeLore
    <3> QED
      BY <3>2, <3>3
  <2> QED
    BY <2>1, <2>2
<1>3. /\ WholeCampaign(state') /\ WholeLore(state'.lore) /\ state'.lore.minds = state.lore.minds
      /\ state'.scenes = state.scenes /\ state'.pressure = state.pressure
      /\ state'.decisions = state.decisions
  BY <1>1, <1>2, LoreReplaced
<1>4. Counted("changes") /\ seen' = seen
  BY DEF Pass, Alter
<1>5. Observed(state)'
  BY <1>3, <1>4 DEF Observed
<1>6. /\ left' \in [scenes : Nat, saves : Nat, minds : Nat, changes : Nat, reads : Nat]
      /\ left'.scenes = left.scenes
  BY <1>4, CountedKeeps
<1> QED
  BY <1>3, <1>4, <1>5, <1>6 DEF ViewStepKeeps, Aside, Counted

LEMMA ViewStepsKeep == TypeOK /\ Observed(state) /\ ViewSteps => ViewStepKeeps
<1> SUFFICES ASSUME TypeOK, Observed(state), ViewSteps PROVE ViewStepKeeps
  OBVIOUS
<1>1. CASE Pass \/ (\E e \in Entity : Alter(e))
  BY <1>1, WorldKeeps
<1>2. ASSUME NEW e \in Entity, RegisterBinding(e) PROVE ViewStepKeeps
  <2>1. Counted("changes") /\ UNCHANGED <<state, seen>>
    BY <1>2 DEF RegisterBinding
  <2>2. /\ left' \in [scenes : Nat, saves : Nat, minds : Nat, changes : Nat, reads : Nat]
        /\ left'.scenes = left.scenes
    BY <2>1, CountedKeeps
  <2> QED
    BY <2>1, <2>2, MemoryOf DEF ViewStepKeeps, Aside, Counted, Observed
<1>3. ASSUME NEW a \in Actor, NEW visible, Perceive(a, visible) PROVE ViewStepKeeps
  BY <1>3, PerceiveKeeps
<1>4. ASSUME NEW a \in Actor, NEW e, NEW details \in BOOLEAN, RevealEntity(a, e, details)
      PROVE  ViewStepKeeps
  BY <1>4, RevealEntityKeeps
<1>5. ASSUME NEW a \in Actor, NEW e, NEW f, NEW expires,
             ConcealEntity(a, e) \/ RevealFact(a, f, expires)
      PROVE  ViewStepKeeps
  BY <1>5, ForgetKeeps
<1>6. ASSUME NEW v \in Viewer, ReadCampaign(v) PROVE ViewStepKeeps
  BY <1>6, LapseKeeps DEF ReadCampaign, WithMinds
<1>7. ASSUME NEW v \in Viewer, NEW a, NEW whole, SendFrame(v, a, whole) PROVE ViewStepKeeps
  BY <1>7, LapseKeeps DEF SendFrame, WithMinds
<1> QED
  BY <1>1, <1>2, <1>3, <1>4, <1>5, <1>6, <1>7 DEF ViewSteps
----------------------------------------------------------------------------
(* Decisions *)

\* del history[:-200]: the newest are kept, in their order.
LEMMA LastOnesOf ==
  ASSUME NEW s \in Seq(Nat), NEW n \in Nat, Len(s) <= HistoryCap
  PROVE  LET t == LastOnes(Append(s, n)) IN
         /\ t \in Seq(Nat) /\ Len(t) <= HistoryCap
         /\ \E d \in {0, 1} :
              /\ Len(t) = Len(s) + 1 - d /\ (d = 1 => Len(t) = HistoryCap)
              /\ \A i \in 1..Len(t) : t[i] = IF i = Len(t) THEN n ELSE s[i + d]
<1> DEFINE a == Append(s, n)
<1>0. HistoryCap \in Nat \ {0}
  BY CapAssumption
<1>1. a \in Seq(Nat) /\ Len(a) = Len(s) + 1
      /\ \A i \in 1..Len(a) : a[i] = IF i = Len(a) THEN n ELSE s[i]
  OBVIOUS
<1> HIDE DEF a
<1>2. CASE Len(s) < HistoryCap
  <2>1. LastOnes(a) = a
    BY <1>0, <1>1, <1>2 DEF LastOnes
  <2>2. \A i \in 1..Len(a) : a[i] = IF i = Len(a) THEN n ELSE s[i + 0]
    BY <1>1
  <2> QED
    BY <1>0, <1>1, <1>2, <2>1, <2>2 DEF a
<1>3. CASE Len(s) = HistoryCap
  <2>1. LastOnes(a) = SubSeq(a, 2, HistoryCap + 1)
    BY <1>0, <1>1, <1>3 DEF LastOnes
  <2>2. PICK t : t = SubSeq(a, 2, HistoryCap + 1)
    OBVIOUS
  <2>3. t \in Seq(Nat) /\ Len(t) = HistoryCap /\ \A i \in 1..HistoryCap : t[i] = a[i + 1]
    BY <1>0, <1>1, <1>3, <2>2
  <2>4. \A i \in 1..Len(t) : t[i] = IF i = Len(t) THEN n ELSE s[i + 1]
    BY <1>0, <1>1, <1>3, <2>3
  <2> QED
    BY <1>0, <1>3, <2>1, <2>2, <2>3, <2>4 DEF a
<1> QED
  BY <1>0, <1>2, <1>3

\* A new decision, with a number below the others, takes its place at the end
\* and pushes out no more than the oldest.
LEMMA Pushed ==
  ASSUME NEW s \in Seq(Nat), NEW n \in Nat, Len(s) <= HistoryCap,
         \A i \in 1..Len(s) : s[i] > n,
         \A i, j \in 1..Len(s) : i < j => s[i] > s[j]
  PROVE  LET t == LastOnes(Append(s, n)) IN
         /\ t \in Seq(Nat) /\ Len(t) <= HistoryCap
         /\ \A i \in 1..Len(t) : t[i] > n - 1
         /\ \A i, j \in 1..Len(t) : i < j => t[i] > t[j]
         /\ Remembers(t, n)
         /\ \A k \in Nat : Remembers(s, k) => Remembers(t, k)
<1>0. HistoryCap \in Nat \ {0}
  BY CapAssumption
<1>1. PICK t : t = LastOnes(Append(s, n))
  OBVIOUS
<1>2. t \in Seq(Nat) /\ Len(t) <= HistoryCap
  BY <1>1, LastOnesOf
<1>3. PICK d \in {0, 1} :
        /\ Len(t) = Len(s) + 1 - d /\ (d = 1 => Len(t) = HistoryCap)
        /\ \A i \in 1..Len(t) : t[i] = IF i = Len(t) THEN n ELSE s[i + d]
  <2>1. LET l == LastOnes(Append(s, n)) IN
        \E d \in {0, 1} :
          /\ Len(l) = Len(s) + 1 - d /\ (d = 1 => Len(l) = HistoryCap)
          /\ \A i \in 1..Len(l) : l[i] = IF i = Len(l) THEN n ELSE s[i + d]
    BY LastOnesOf, Zenon
  <2> QED
    BY <1>1, <2>1, Zenon
<1>4. Len(s) \in Nat /\ Len(t) \in Nat \ {0}
  BY <1>0, <1>2, <1>3
<1>5. \A i \in 1..Len(t) : i # Len(t) => i + d \in 1..Len(s)
  BY <1>3, <1>4
<1>6. \A i \in 1..Len(t) : t[i] > n - 1
  BY <1>3, <1>4, <1>5
<1>7. \A i, j \in 1..Len(t) : i < j => t[i] > t[j]
  <2> SUFFICES ASSUME NEW i \in 1..Len(t), NEW j \in 1..Len(t), i < j PROVE t[i] > t[j]
    OBVIOUS
  <2>1. i # Len(t) /\ t[i] = s[i + d] /\ i + d \in 1..Len(s)
    BY <1>3, <1>4, <1>5
  <2>2. CASE j = Len(t)
    BY <1>3, <2>1, <2>2
  <2>3. CASE j # Len(t)
    <3>1. t[j] = s[j + d] /\ j + d \in 1..Len(s) /\ i + d < j + d
      BY <1>3, <1>4, <1>5, <2>3
    <3> QED
      BY <2>1, <3>1
  <2> QED
    BY <2>2, <2>3
<1>8. Remembers(t, n)
  BY <1>3, <1>4 DEF Remembers
<1>9. ASSUME NEW k \in Nat, Remembers(s, k) PROVE Remembers(t, k)
  <2>1. CASE \E i \in 1..Len(s) : s[i] = k
    <3>1. PICK i \in 1..Len(s) : s[i] = k
      BY <2>1
    <3>2. CASE i - d \in 1..Len(t) - 1
      <4>1. t[i - d] = s[i]
        BY <1>3, <1>4, <3>2
      <4> QED
        BY <1>4, <3>1, <3>2, <4>1 DEF Remembers
    <3>3. CASE ~(i - d \in 1..Len(t) - 1)
      <4>1. d = 1 /\ i = 1 /\ Len(t) = HistoryCap
        BY <1>3, <1>4, <3>3
      <4>2. \A j \in 1..Len(t) : t[j] < k
        <5> SUFFICES ASSUME NEW j \in 1..Len(t) PROVE t[j] < k
          OBVIOUS
        <5>1. CASE j = Len(t)
          BY <1>3, <3>1, <5>1
        <5>2. CASE j # Len(t)
          <6>1. t[j] = s[j + 1] /\ j + 1 \in 1..Len(s) /\ 1 < j + 1
            BY <1>3, <1>5, <4>1, <5>2
          <6> QED
            BY <3>1, <4>1, <6>1
        <5> QED
          BY <5>1, <5>2
      <4> QED
        BY <4>1, <4>2 DEF Remembers
    <3> QED
      BY <3>2, <3>3
  <2>2. CASE Len(s) = HistoryCap /\ \A i \in 1..Len(s) : s[i] < k
    <3>1. d = 1 /\ Len(t) = HistoryCap
      BY <1>0, <1>2, <1>3, <2>2
    <3>2. n < k
      <4>1. 1 \in 1..Len(s) /\ s[1] \in Nat
        BY <1>0, <2>2
      <4> QED
        BY <2>2, <4>1
    <3>3. \A j \in 1..Len(t) : t[j] < k
      BY <1>3, <1>5, <2>2, <3>1, <3>2
    <3> QED
      BY <3>1, <3>3 DEF Remembers
  <2> QED
    BY <1>9, <2>1, <2>2 DEF Remembers
<1> QED
  BY <1>1, <1>2, <1>6, <1>7, <1>8, <1>9
----------------------------------------------------------------------------
(* Scenes *)

\* A request has begun: it waits with a promise, or was refused.
Asked(c, promise) ==
  /\ UNCHANGED <<world, saving, row, answered, strained>>
  /\ request[c] = Idle /\ left.scenes > 0
  /\ left' \in [scenes : Nat, saves : Nat, minds : Nat, changes : Nat, reads : Nat]
  /\ left'.scenes = left.scenes - 1
  /\ request' \in [Slot -> Request \cup {Idle}]
  /\ \A d \in Slot \ {c} : request'[d] = request[d]
  /\ request'[c] = Idle \/ request'[c].promise = promise

LEMMA AskKeeps ==
  ASSUME TypeOK, NEW c \in Slot, NEW succeeded, NEW stage \in {"emit", "save"},
         NEW promise \in SUBSET Promise, Ask(c, succeeded, stage, promise)
  PROVE  Asked(c, promise) /\ (~succeeded => request'[c] = Idle)
<1>1. left' \in [scenes : Nat, saves : Nat, minds : Nat, changes : Nat, reads : Nat]
      /\ left'.scenes = left.scenes - 1
  BY DEF TypeOK, Ask
<1>2. [stage |-> stage, promise |-> promise] \in Request
  BY DEF Request
<1>3. /\ request' \in [Slot -> Request \cup {Idle}]
      /\ \A d \in Slot \ {c} : request'[d] = request[d]
      /\ request'[c] = Idle \/ request'[c].promise = promise
  BY <1>2 DEF TypeOK, Ask
<1> QED
  BY <1>1, <1>3 DEF Asked, Ask

\* What is archived stays archived.
ArchiveStays == \A x \in DOMAIN runtime : runtime[x] = "archived" =>
                  x \in DOMAIN runtime' /\ runtime'[x] = "archived"

SceneStepKeeps ==
  /\ ArchiveStays /\ ArchiveMirrored'
  /\ WholeCampaign(state') /\ state'.lore = state.lore
  /\ state'.pressure = state.pressure /\ state'.decisions = state.decisions

WithMap(c, map) == [c EXCEPT !.map = map]

\* A change of one scene that leaves what is archived is mirrored, or changes nothing.
LEMMA MirrorKeeps ==
  ASSUME TypeOK, ArchiveMirrored, NEW s, NEW final, runtime' = final,
         DOMAIN final = DOMAIN runtime \cup {s},
         \A x \in DOMAIN runtime : runtime[x] = "archived" => final[x] = "archived",
         NEW c, c = Mirror(final) \/ (final = Met(s) /\ c = state),
         state' = c \/ \E map : state' = WithMap(c, map)
  PROVE  SceneStepKeeps
<1>1. WholeCampaign(state)
  BY MemoryOf
<1>2. ASSUME NEW m, m = Mirror(final)
      PROVE  /\ WholeCampaign(m) /\ m.scenes = final /\ m.lore = state.lore
             /\ m.pressure = state.pressure /\ m.decisions = state.decisions
  <2>1. m = [state EXCEPT !.scenes = final, !.active = Active(final)]
    BY <1>2 DEF Mirror
  <2> QED
    BY <1>1, <2>1 DEF WholeCampaign
<1>3. /\ WholeCampaign(c) /\ c.lore = state.lore /\ c.pressure = state.pressure
      /\ c.decisions = state.decisions
  BY <1>1, <1>2
<1>4. \A x \in DOMAIN final : final[x] = "archived" =>
        x \in DOMAIN c.scenes /\ c.scenes[x] = "archived"
  <2>1. CASE c = Mirror(final)
    BY <1>2, <2>1
  <2>2. CASE final = Met(s) /\ c = state
    BY <2>2 DEF Met, ArchiveMirrored
  <2> QED
    BY <2>1, <2>2
<1>5. /\ WholeCampaign(state') /\ state'.lore = c.lore /\ state'.pressure = c.pressure
      /\ state'.decisions = c.decisions /\ state'.scenes = c.scenes
  BY <1>3 DEF WithMap, WholeCampaign
<1>6. ArchiveStays
  BY DEF ArchiveStays
<1>7. ArchiveMirrored'
  BY <1>4, <1>5 DEF ArchiveMirrored
<1> QED
  BY <1>3, <1>5, <1>6, <1>7 DEF SceneStepKeeps

LEMMA RegisterKeeps ==
  ASSUME TypeOK, ArchiveMirrored, NEW c \in Slot, NEW s \in Scene, RegisterScene(c, s)
  PROVE  SceneStepKeeps /\ Asked(c, {})
<1>1. Asked(c, {})
  BY AskKeeps DEF RegisterScene
<1>2. PICK final : final = Met(s)
  OBVIOUS
<1>3. runtime' = final /\ state' = Mirror(final)
  BY <1>2 DEF RegisterScene
<1>4. /\ DOMAIN final = DOMAIN runtime \cup {s}
      /\ \A x \in DOMAIN runtime : runtime[x] = "archived" => final[x] = "archived"
  BY <1>2 DEF Met
<1> QED
  BY <1>1, <1>3, <1>4, MirrorKeeps

LEMMA ActivateKeeps ==
  ASSUME TypeOK, ArchiveMirrored, NEW c \in Slot, NEW s \in Scene, NEW exclusive \in BOOLEAN,
         ActivateScene(c, s, exclusive)
  PROVE  SceneStepKeeps /\ Asked(c, {})
<1> DEFINE loaded == Loaded(Met(s), s)
           cleared == IF exclusive THEN Alone(loaded, s) ELSE loaded
           permitted == Permitted(cleared, s, "active")
<1>1. Asked(c, {})
  BY AskKeeps DEF ActivateScene
<1>2. PICK final : final = IF permitted THEN [cleared EXCEPT ![s] = "active"] ELSE cleared
  OBVIOUS
<1>3. PICK k : k = Mirrored(Met(s), final)
  OBVIOUS
<1>4. /\ runtime' = final
      /\ \E map : state' = WithMap(k, map)
  BY <1>2, <1>3 DEF ActivateScene, WithMap
<1>5. /\ DOMAIN loaded = DOMAIN runtime \cup {s}
      /\ \A x \in DOMAIN runtime : runtime[x] = "archived" => loaded[x] = "archived"
  BY DEF Loaded, Met
<1>6. /\ DOMAIN cleared = DOMAIN runtime \cup {s}
      /\ \A x \in DOMAIN runtime : runtime[x] = "archived" => cleared[x] = "archived"
  BY <1>5 DEF Alone
<1>7. permitted => cleared[s] # "archived"
  BY DEF Permitted, Allowed
<1>8. /\ DOMAIN final = DOMAIN runtime \cup {s}
      /\ \A x \in DOMAIN runtime : runtime[x] = "archived" => final[x] = "archived"
  BY <1>2, <1>6, <1>7
<1>9. k = Mirror(final) \/ (final = Met(s) /\ k = state)
  BY <1>3 DEF Mirrored
<1> QED
  BY <1>1, <1>4, <1>8, <1>9, MirrorKeeps

LEMMA TransitionKeeps ==
  ASSUME TypeOK, ArchiveMirrored, NEW c \in Slot, NEW s \in Scene, NEW status,
         TransitionScene(c, s, status)
  PROVE  /\ SceneStepKeeps
         /\ \E promise \in {{}, {<<"archived", s>>}} :
              /\ Asked(c, promise)
              /\ request'[c] # Idle => \A p \in promise : Gone(p)'
<1> DEFINE permitted == Permitted(Met(s), s, status)
<1>0. PICK promise \in {{}, {<<"archived", s>>}} :
        promise = IF status = "archived" THEN {<<"archived", s>>} ELSE {}
  OBVIOUS
<1>1. promise \subseteq Promise
  BY <1>0 DEF Promise
<1>2. Asked(c, promise) /\ (~permitted => request'[c] = Idle)
  <2>1. Ask(c, permitted, "save", promise)
    BY <1>0 DEF TransitionScene
  <2> QED
    BY <1>1, <2>1, AskKeeps
<1>3. PICK final : final = IF permitted THEN [Met(s) EXCEPT ![s] = status] ELSE Met(s)
  OBVIOUS
<1>4. PICK k : k = Mirrored(Met(s), final)
  OBVIOUS
<1>5. runtime' = final /\ state' = k
  BY <1>3, <1>4 DEF TransitionScene
<1>6. permitted /\ Met(s)[s] = "archived" => status = "archived"
  BY DEF Permitted, Allowed
<1>7. /\ DOMAIN final = DOMAIN runtime \cup {s}
      /\ \A x \in DOMAIN runtime : runtime[x] = "archived" => final[x] = "archived"
  BY <1>3, <1>6 DEF Met
<1>8. k = Mirror(final) \/ (final = Met(s) /\ k = state)
  BY <1>4 DEF Mirrored
<1>9. SceneStepKeeps
  BY <1>5, <1>7, <1>8, MirrorKeeps
<1>10. request'[c] # Idle => \A p \in promise : Gone(p)'
  <2>1. permitted /\ status = "archived" => s \in DOMAIN final /\ final[s] = "archived"
    BY <1>3, <1>7 DEF Met
  <2> QED
    BY <1>0, <1>2, <1>5, <2>1 DEF Gone
<1> QED
  BY <1>2, <1>9, <1>10
\* accept and dismiss: the pressure is relieved only when it is due, and the
\* decision takes its place among those kept.
LEMMA DecideKeeps ==
  ASSUME TypeOK, Numbered(state), Relaxed(state), Strained(world) => strained,
         NEW c \in Slot, NEW p \in Proposal, NEW accepted \in BOOLEAN, Decide(c, p, accepted)
  PROVE  /\ Asked(c, {<<"decided", left.scenes>>}) /\ runtime' = runtime
         /\ WholeCampaign(state') /\ state'.lore = state.lore /\ state'.scenes = state.scenes
         /\ state'.decisions = LastOnes(Append(state.decisions, left.scenes))
         /\ state'.pressure \in 0..100
         /\ strained \/ state'.pressure >= 41 \/ state'.pressure \in Pressures
<1>1. WholeCampaign(state)
  BY MemoryOf
<1>2. PICK pressure, decisions :
        /\ pressure = IF accepted THEN Clamp(state.pressure - Relief(p)) ELSE state.pressure
        /\ decisions = LastOnes(Append(state.decisions, left.scenes))
  OBVIOUS
<1>3. state' = [state EXCEPT !.pressure = pressure, !.decisions = decisions]
  BY <1>2 DEF Decide
<1>4. /\ WholeCampaign(state') /\ state'.lore = state.lore /\ state'.scenes = state.scenes
      /\ state'.pressure = pressure /\ state'.decisions = decisions
  BY <1>1, <1>3 DEF WholeCampaign
<1>5. left.scenes \in Nat
  BY DEF TypeOK
<1>6. Asked(c, {<<"decided", left.scenes>>})
  <2>1. {<<"decided", left.scenes>>} \in SUBSET Promise
    BY <1>5 DEF Promise
  <2> QED
    BY <2>1, AskKeeps DEF Decide
<1>7. state.pressure \in 0..100 /\ (strained \/ state.pressure >= 41 \/ state.pressure \in Pressures)
  BY DEF Relaxed
<1>8. pressure \in 0..100 /\ (strained \/ pressure >= 41 \/ pressure \in Pressures)
  <2>1. CASE ~accepted \/ Relief(p) = 0
    BY <1>2, <1>7, <2>1 DEF Clamp
  <2>2. CASE accepted /\ p = "recovery-window"
    <3>1. Relief(p) = 25
      BY <2>2 DEF Relief
    <3>2. strained \/ state.pressure > 80
      BY <1>7, <2>2 DEF Decide, Standing, Proposed, Clamp
    <3> QED
      BY <1>2, <1>7, <3>1, <3>2, <2>2 DEF Clamp
  <2>3. CASE accepted /\ p = "decompress"
    <3>1. Relief(p) = 35
      BY <2>3 DEF Relief
    <3>2. state.pressure > 75
      BY <1>7, <2>3 DEF Decide, Standing, Proposed, Clamp
    <3> QED
      BY <1>2, <1>7, <3>1, <3>2, <2>3 DEF Clamp
  <2> QED
    BY <2>1, <2>2, <2>3 DEF Relief
<1>9. runtime' = runtime
  BY DEF Decide
<1> QED
  BY <1>2, <1>4, <1>6, <1>8, <1>9

----------------------------------------------------------------------------
(* Saves *)

\* A save that begins or ends, and a restart, only copy campaigns.
SaveSteps ==
  \/ Saved \/ TickSaves \/ Restart
  \/ \E c \in Slot : Emitted(c) \/ Save(c)

LEMMA SavesCopy ==
  ASSUME TypeOK, Promises, SaveSteps
  PROVE  /\ Campaigns' \subseteq Campaigns
         /\ left' \in [scenes : Nat, saves : Nat, minds : Nat, changes : Nat, reads : Nat]
         /\ left'.scenes = left.scenes /\ UNCHANGED <<world, strained>>
         /\ request' \in [Slot -> Request \cup {Idle}] /\ answered' \subseteq Promise
<1> USE DEF Campaigns
<1>0. /\ left \in [scenes : Nat, saves : Nat, minds : Nat, changes : Nat, reads : Nat]
      /\ request \in [Slot -> Request \cup {Idle}] /\ answered \subseteq Promise
  BY DEF TypeOK
<1>1. CASE Saved
  <2>1. request' \in [Slot -> Request \cup {Idle}] /\ answered' \subseteq Promise
    <3>1. CASE saving.slot = None
      BY <1>0, <1>1, <3>1 DEF Saved, AnswerSaved
    <3>2. CASE saving.slot # None
      <4>1. saving.slot \in Slot /\ request[saving.slot] # Idle
        BY <1>1, <3>2 DEF Promises, Saved
      <4>2. request[saving.slot].promise \subseteq Promise
        BY <1>0, <4>1 DEF Request
      <4> QED
        BY <1>0, <1>1, <3>2, <4>1, <4>2 DEF Saved, AnswerSaved
    <3> QED
      BY <3>1, <3>2
  <2>2. Campaigns' \subseteq Campaigns /\ UNCHANGED <<left, world, strained>>
    BY <1>1 DEF Saved
  <2> QED
    BY <1>0, <2>1, <2>2
<1>2. CASE TickSaves
  <2>1. Campaigns' \subseteq Campaigns /\ UNCHANGED <<world, strained, request, answered>>
    BY <1>2 DEF TickSaves, TakeLock
  <2>2. /\ left' \in [scenes : Nat, saves : Nat, minds : Nat, changes : Nat, reads : Nat]
        /\ left'.scenes = left.scenes
    BY <1>0, <1>2 DEF TickSaves
  <2> QED
    BY <1>0, <2>1, <2>2
<1>3. CASE Restart
  <2>1. Campaigns' \subseteq Campaigns /\ UNCHANGED <<left, world, strained, answered>>
    BY <1>3 DEF Restart, Crash
  <2>2. request' \in [Slot -> Request \cup {Idle}]
    BY <1>3 DEF Restart, Crash
  <2> QED
    BY <1>0, <2>1, <2>2
<1>4. ASSUME NEW c \in Slot, Emitted(c)
      PROVE  /\ Campaigns' \subseteq Campaigns /\ UNCHANGED <<left, world, strained, answered>>
             /\ request' \in [Slot -> Request \cup {Idle}]
  <2>1. Campaigns' \subseteq Campaigns /\ UNCHANGED <<left, world, strained, answered>>
    BY <1>4 DEF Emitted
  <2>2. request[c] \in Request
    BY <1>0, <1>4 DEF Emitted, Idle
  <2>3. [request[c] EXCEPT !.stage = "save"] \in Request
    BY <2>2 DEF Request
  <2> QED
    BY <1>0, <1>4, <2>1, <2>3 DEF Emitted
<1>5. ASSUME NEW c \in Slot, Save(c)
      PROVE  Campaigns' \subseteq Campaigns /\ UNCHANGED <<left, world, strained, request, answered>>
  BY <1>5 DEF Save, TakeLock
<1> QED
  BY <1>0, <1>1, <1>2, <1>3, <1>4, <1>5 DEF SaveSteps
----------------------------------------------------------------------------
(* The invariant of the scenes *)

\* What each step has to leave true: one campaign at most is new, the one in memory.
Leaves ==
  /\ Campaigns' \subseteq Campaigns \cup {state'}
  /\ left' \in [scenes : Nat, saves : Nat, minds : Nat, changes : Nat, reads : Nat]
  /\ left'.scenes <= left.scenes /\ seen \subseteq seen'
  /\ strained' \in BOOLEAN /\ (strained => strained')
  /\ request' \in [Slot -> Request \cup {Idle}] /\ answered' \subseteq Promise
  /\ WholeCampaign(state') /\ WholeLore(state'.lore)
  /\ Numbered(state)' /\ Relaxed(state)' /\ Observed(state)'
  /\ Mirrors' /\ Promises'

SInv == TypeOK /\ Sound /\ Mirrors /\ Promises

\* A promise outlasts the steps that leave the save, the row and the answers.
LEMMA PromisesStay ==
  ASSUME TypeOK, Promises, UNCHANGED <<saving, row, answered>>,
         \A d \in Slot : \/ request'[d] = request[d]
                         \/ request[d] = Idle /\ (request'[d] # Idle =>
                              \A p \in request'[d].promise : Gone(p)' /\ Kept(p, state')),
         \A p \in Promise : Gone(p) => Gone(p)',
         \A p \in Promise : Gone(p) /\ Kept(p, state) => Kept(p, state')
  PROVE  Promises'
<1>1. ASSUME NEW d \in Slot, request'[d] # Idle, NEW p \in request'[d].promise
      PROVE  Gone(p)' /\ Kept(p, state')
  <2>1. CASE request'[d] = request[d]
    <3>1. p \in Promise /\ Gone(p) /\ Kept(p, state)
      BY <1>1, <2>1 DEF TypeOK, Request, Promises
    <3> QED
      BY <3>1
  <2> QED
    BY <1>1, <2>1
<1>2. ASSUME saving # None, saving.slot # None
      PROVE  /\ saving.slot \in Slot /\ request'[saving.slot] # Idle
             /\ \A p \in request'[saving.slot].promise : Kept(p, saving.state)
  <2>1. /\ saving.slot \in Slot /\ request[saving.slot] # Idle
        /\ \A p \in request[saving.slot].promise : Kept(p, saving.state)
    BY <1>2 DEF Promises
  <2> QED
    BY <2>1
<1>3. ASSUME NEW p \in answered PROVE Gone(p)' /\ \A k \in Campaigns' : Kept(p, k)
  <2>1. p \in Promise /\ Gone(p) /\ \A k \in Campaigns : Kept(p, k)
    BY DEF TypeOK, Promises
  <2>2. Kept(p, state')
    BY <2>1 DEF Campaigns
  <2> QED
    BY <2>1, <2>2 DEF Campaigns
<1> QED
  BY <1>1, <1>2, <1>3 DEF Promises

\* A campaign whose decisions, pressure and mirror stay keeps what it did.
LEMMA SceneStepLeaves ==
  ASSUME SInv, SceneStepKeeps, NEW c \in Slot, NEW promise, Asked(c, promise), seen' = seen,
         \A p \in promise : p[1] = "archived",
         request'[c] # Idle => \A p \in promise : Gone(p)'
  PROVE  Leaves
<1> USE DEF SInv
<1>1. WholeCampaign(state) /\ WholeLore(state.lore) /\ left.scenes \in Nat
  BY MemoryOf DEF TypeOK
<1>2. Numbered(state) /\ Relaxed(state) /\ Observed(state)
  BY DEF Sound, Campaigns
<1>3. Numbered(state)'
  BY <1>1, <1>2 DEF Numbered, SceneStepKeeps, Asked
<1>4. Relaxed(state)' /\ Observed(state)'
  BY <1>2 DEF Relaxed, Observed, SceneStepKeeps, Asked
<1>5. Mirrors'
  BY DEF Mirrors, SceneStepKeeps, Asked
<1>6. \A p \in Promise : Gone(p) => Gone(p)'
  BY DEF SceneStepKeeps, ArchiveStays, Gone
<1>7. \A p : Gone(p)' => (p[1] = "archived" => Kept(p, state'))
  BY DEF SceneStepKeeps, ArchiveMirrored, Gone, Kept
<1>8. \A p \in Promise : Gone(p) /\ Kept(p, state) => Kept(p, state')
  BY <1>6, <1>7 DEF SceneStepKeeps, Kept
<1>9. Promises'
  <2>1. UNCHANGED <<saving, row, answered>> /\ request[c] = Idle
        /\ (\A d \in Slot \ {c} : request'[d] = request[d])
        /\ (request'[c] = Idle \/ request'[c].promise = promise)
    BY DEF Asked
  <2>2. request'[c] # Idle => \A p \in request'[c].promise : Gone(p)' /\ Kept(p, state')
    BY <1>7, <2>1
  <2> QED
    BY <1>6, <1>8, <2>1, <2>2, PromisesStay
<1>10. Campaigns' \subseteq Campaigns \cup {state'}
  BY DEF Campaigns, Asked
<1>11. WholeCampaign(state') /\ WholeLore(state'.lore)
  BY <1>1 DEF SceneStepKeeps
<1>12. /\ left' \in [scenes : Nat, saves : Nat, minds : Nat, changes : Nat, reads : Nat]
       /\ left'.scenes <= left.scenes
       /\ strained' = strained /\ strained \in BOOLEAN /\ answered' \subseteq Promise
       /\ request' \in [Slot -> Request \cup {Idle}]
  BY <1>1 DEF Asked, TypeOK
<1> QED
  BY <1>3, <1>4, <1>5, <1>9, <1>10, <1>11, <1>12 DEF Leaves

LEMMA DecideLeaves ==
  ASSUME SInv, NEW c \in Slot, NEW p \in Proposal, NEW accepted \in BOOLEAN,
         Decide(c, p, accepted), seen' = seen
  PROVE  Leaves
<1> USE DEF SInv
<1>1. WholeCampaign(state) /\ WholeLore(state.lore) /\ left.scenes \in Nat
  BY MemoryOf DEF TypeOK
<1>2. Numbered(state) /\ Relaxed(state) /\ Observed(state)
  BY DEF Sound, Campaigns
<1> DEFINE n == left.scenes
           promise == {<<"decided", n>>}
<1>3. /\ Asked(c, promise) /\ runtime' = runtime
      /\ WholeCampaign(state') /\ state'.lore = state.lore /\ state'.scenes = state.scenes
      /\ state'.decisions = LastOnes(Append(state.decisions, n))
      /\ state'.pressure \in 0..100
      /\ strained \/ state'.pressure >= 41 \/ state'.pressure \in Pressures
  BY <1>2, DecideKeeps DEF Mirrors
<1>4. /\ left' \in [scenes : Nat, saves : Nat, minds : Nat, changes : Nat, reads : Nat]
      /\ left'.scenes = n - 1
      /\ UNCHANGED <<world, saving, row, answered, strained>> /\ request[c] = Idle
      /\ \A d \in Slot \ {c} : request'[d] = request[d]
      /\ request'[c] = Idle \/ request'[c].promise = promise
      /\ request' \in [Slot -> Request \cup {Idle}]
  BY <1>3 DEF Asked
<1>5. /\ state'.decisions \in Seq(Nat) /\ Len(state'.decisions) <= HistoryCap
      /\ \A i \in 1..Len(state'.decisions) : state'.decisions[i] > n - 1
      /\ \A i, j \in 1..Len(state'.decisions) : i < j => state'.decisions[i] > state'.decisions[j]
      /\ Remembers(state'.decisions, n)
      /\ \A k \in Nat : Remembers(state.decisions, k) => Remembers(state'.decisions, k)
  BY <1>1, <1>2, <1>3, Pushed DEF Numbered
<1>6. Numbered(state)'
  BY <1>4, <1>5 DEF Numbered
<1>7. Relaxed(state)' /\ Observed(state)'
  BY <1>2, <1>3, <1>4 DEF Relaxed, Observed
<1>8. Mirrors'
  BY <1>3, <1>4 DEF Mirrors, ArchiveMirrored
<1>9. \A q \in Promise : Gone(q) => Gone(q)'
  BY <1>3 DEF Gone
<1>10. \A q \in Promise : Gone(q) /\ Kept(q, state) => Kept(q, state')
  BY <1>3, <1>5 DEF Kept, Promise
<1>11. \A q \in promise : Gone(q)' /\ Kept(q, state')
  BY <1>5 DEF Gone, Kept
<1>12. Promises'
  <2>1. request'[c] # Idle => \A q \in request'[c].promise : Gone(q)' /\ Kept(q, state')
    BY <1>4, <1>11
  <2> QED
    BY <1>4, <1>9, <1>10, <2>1, PromisesStay
<1>13. Campaigns' \subseteq Campaigns \cup {state'}
  BY <1>4 DEF Campaigns
<1> QED
  BY <1>1, <1>3, <1>4, <1>6, <1>7, <1>8, <1>12, <1>13 DEF Leaves, TypeOK
LEMMA ViewStepLeaves == ASSUME SInv, ViewSteps PROVE Leaves
<1> USE DEF SInv
<1>1. WholeCampaign(state) /\ WholeLore(state.lore) /\ left.scenes \in Nat
  BY MemoryOf DEF TypeOK
<1>2. Numbered(state) /\ Relaxed(state) /\ Observed(state)
  BY DEF Sound, Campaigns
<1>3. ViewStepKeeps
  BY <1>2, ViewStepsKeep
<1>4. /\ UNCHANGED <<runtime, world, request, saving, row, answered, strained>>
      /\ left'.scenes = left.scenes
      /\ state'.scenes = state.scenes /\ state'.pressure = state.pressure
      /\ state'.decisions = state.decisions
  BY <1>3 DEF ViewStepKeeps, Aside
<1>5. Numbered(state)' /\ Relaxed(state)'
  BY <1>2, <1>4 DEF Numbered, Relaxed
<1>6. Mirrors'
  BY <1>4 DEF Mirrors, ArchiveMirrored
<1>7. Promises'
  <2>1. \A p \in Promise : Gone(p) => Gone(p)'
    BY <1>4 DEF Gone
  <2>2. \A p \in Promise : Gone(p) /\ Kept(p, state) => Kept(p, state')
    BY <1>4 DEF Kept
  <2> QED
    BY <1>4, <2>1, <2>2, PromisesStay
<1>8. Campaigns' \subseteq Campaigns \cup {state'}
  BY <1>4 DEF Campaigns
<1> QED
  BY <1>1, <1>3, <1>4, <1>5, <1>6, <1>7, <1>8 DEF Leaves, ViewStepKeeps, TypeOK

\* Play, clients and stuttering change nothing of the campaign.
LEMMA RestLeaves ==
  ASSUME SInv, LiveOn \/ UNCHANGED vars, seen' = seen
  PROVE  Leaves
<1> USE DEF SInv
<1>1. WholeCampaign(state) /\ WholeLore(state.lore) /\ left.scenes \in Nat
  BY MemoryOf DEF TypeOK
<1>2. Numbered(state) /\ Relaxed(state) /\ Observed(state)
  BY DEF Sound, Campaigns
<1>3. /\ UNCHANGED <<runtime, state, request, saving, row, answered>>
      /\ left' \in [scenes : Nat, saves : Nat, minds : Nat, changes : Nat, reads : Nat]
      /\ left'.scenes <= left.scenes
      /\ strained' \in BOOLEAN /\ (strained => strained') /\ (Strained(world') => strained')
  <2>0. /\ left \in [scenes : Nat, saves : Nat, minds : Nat, changes : Nat, reads : Nat]
        /\ strained \in BOOLEAN /\ (Strained(world) => strained)
    BY DEF TypeOK, Mirrors
  <2>1. CASE LiveOn
    <3>1. strained' \in BOOLEAN /\ (strained => strained') /\ (Strained(world') => strained')
      BY <2>0, <2>1 DEF LiveOn
    <3>2. UNCHANGED <<runtime, state, request, saving, row, answered>>
      BY <2>1 DEF LiveOn
    <3>3. /\ left' \in [scenes : Nat, saves : Nat, minds : Nat, changes : Nat, reads : Nat]
          /\ left'.scenes <= left.scenes
      BY <2>0, <2>1 DEF LiveOn
    <3> QED
      BY <3>1, <3>2, <3>3
  <2>2. CASE UNCHANGED vars
    <3>1. UNCHANGED <<runtime, state, request, saving, row, answered, left, strained, world>>
      BY <2>2 DEF vars
    <3> QED
      BY <1>1, <2>0, <3>1
  <2> QED
    BY <2>1, <2>2
<1>4. Numbered(state)'
  <2>1. \A i \in 1..Len(state.decisions) : state.decisions[i] > left'.scenes
    BY <1>1, <1>2, <1>3 DEF Numbered
  <2> QED
    BY <1>2, <1>3, <2>1 DEF Numbered
<1>5. Relaxed(state)' /\ Observed(state)'
  BY <1>2, <1>3 DEF Relaxed, Observed
<1>6. Mirrors'
  BY <1>3 DEF Mirrors, ArchiveMirrored
<1>7. Promises'
  <2>1. \A p \in Promise : Gone(p) => Gone(p)'
    BY <1>3 DEF Gone
  <2> QED
    BY <1>3, <2>1, PromisesStay
<1>8. Campaigns' \subseteq Campaigns \cup {state'}
  BY <1>3 DEF Campaigns
<1> QED
  BY <1>1, <1>3, <1>4, <1>5, <1>6, <1>7, <1>8 DEF Leaves, TypeOK

\* What a save carries has been promised in memory and is kept in the row before
\* it is answered; a restart finds what was answered in the row.
LEMMA SavePromises == ASSUME SInv, SaveSteps PROVE Mirrors' /\ Promises'
<1> USE DEF SInv
<1>1. CASE Saved
  <2>1. /\ saving # None /\ row' = saving.state /\ saving' = None /\ AnswerSaved
        /\ UNCHANGED <<runtime, state, world, strained>>
    BY <1>1 DEF Saved
  <2>2. saving.state \in Campaigns /\ Campaigns' = {state, saving.state}
    BY <2>1 DEF Campaigns
  <2>3. ASSUME NEW d \in Slot, request'[d] # Idle PROVE request'[d] = request[d]
    BY <2>1, <2>3 DEF AnswerSaved, TypeOK
  <2>4. ASSUME NEW p \in answered' PROVE Gone(p) /\ Kept(p, state) /\ Kept(p, saving.state)
    <3>1. CASE p \in answered
      BY <2>2, <3>1 DEF Promises, Campaigns
    <3>2. CASE p \notin answered
      <4>1. saving.slot # None /\ p \in request[saving.slot].promise
        BY <2>1, <2>4, <3>2 DEF AnswerSaved
      <4> QED
        BY <2>1, <4>1 DEF Promises
    <3> QED
      BY <3>1, <3>2
  <2>5. \A d \in Slot : request'[d] # Idle => \A p \in request'[d].promise : Gone(p) /\ Kept(p, state)
    BY <2>3 DEF Promises
  <2> QED
    BY <2>1, <2>2, <2>4, <2>5 DEF Mirrors, ArchiveMirrored, Promises, Gone
<1>2. ASSUME NEW c, TakeLock(c), request' = request,
             c # None => c \in Slot /\ request[c] # Idle
      PROVE  Mirrors' /\ Promises'
  <2>1. /\ saving' = [slot |-> c, state |-> state]
        /\ UNCHANGED <<runtime, state, world, row, answered, strained>>
    BY <1>2 DEF TakeLock
  <2>2. Campaigns' \subseteq Campaigns /\ saving'.slot = c /\ saving'.state = state
    BY <2>1 DEF Campaigns
  <2> QED
    BY <1>2, <2>1, <2>2 DEF Mirrors, ArchiveMirrored, Promises, Gone
<1>3. CASE TickSaves
  BY <1>2, <1>3 DEF TickSaves, TakeLock
<1>4. ASSUME NEW c \in Slot, Save(c) PROVE Mirrors' /\ Promises'
  BY <1>2, <1>4 DEF Save, TakeLock, Idle
<1>5. ASSUME NEW c \in Slot, Emitted(c) PROVE Mirrors' /\ Promises'
  <2>1. request[c] \in Request
    BY <1>5 DEF Emitted, TypeOK, Idle
  <2>2. PICK waiting : waiting = [request[c] EXCEPT !.stage = "save"]
    OBVIOUS
  <2>3. waiting.promise = request[c].promise /\ waiting.stage = "save" /\ waiting # Idle
        /\ request[c] # Idle
    BY <1>5, <2>1, <2>2 DEF Request, Idle, Emitted
  <2>4. /\ request' = [request EXCEPT ![c] = waiting]
        /\ UNCHANGED <<runtime, state, world, saving, row, answered, strained>>
    BY <1>5, <2>2 DEF Emitted
  <2>5. \A d \in Slot : /\ request'[d].promise = request[d].promise
                        /\ request'[d] = Idle <=> request[d] = Idle
    BY <2>3, <2>4 DEF TypeOK
  <2>6. Campaigns' = Campaigns
    BY <2>4 DEF Campaigns
  <2> QED
    BY <2>4, <2>5, <2>6 DEF Mirrors, ArchiveMirrored, Promises, Gone
<1>6. CASE Restart
  <2>1. /\ state' = row /\ runtime' = row.scenes /\ row' = row /\ saving' = None
        /\ request' = [c \in Slot |-> Idle] /\ UNCHANGED <<world, answered, strained>>
    BY <1>6 DEF Restart, Crash, Restored
  <2>2. Campaigns' = {row} /\ row \in Campaigns
    BY <2>1 DEF Campaigns
  <2>3. \A p \in answered : Kept(p, row)
    BY <2>2 DEF Promises
  <2>4. \A p \in answered : Gone(p)'
    BY <2>1, <2>3 DEF Gone, Kept
  <2> QED
    BY <2>1, <2>2, <2>3, <2>4 DEF Mirrors, ArchiveMirrored, Promises
<1> QED
  BY <1>1, <1>3, <1>4, <1>5, <1>6 DEF SaveSteps

LEMMA SaveLeaves == ASSUME SInv, SaveSteps, seen' = seen PROVE Leaves
<1> USE DEF SInv
<1>1. /\ Campaigns' \subseteq Campaigns
      /\ left' \in [scenes : Nat, saves : Nat, minds : Nat, changes : Nat, reads : Nat]
      /\ left'.scenes = left.scenes /\ UNCHANGED <<world, strained>>
      /\ request' \in [Slot -> Request \cup {Idle}] /\ answered' \subseteq Promise
  BY SavesCopy
<1>2. state' \in Campaigns /\ left.scenes \in Nat /\ strained \in BOOLEAN
  BY <1>1 DEF Campaigns, TypeOK
<1>3. WholeCampaign(state') /\ WholeLore(state'.lore)
  BY <1>2 DEF TypeOK
<1>4. PICK k : k = state' /\ k \in Campaigns
  BY <1>2
<1>5. Numbered(k) /\ Relaxed(k) /\ Observed(k)
  BY <1>4 DEF Sound
<1>6. Numbered(state)' /\ Relaxed(state)' /\ Observed(state)'
  BY <1>1, <1>4, <1>5 DEF Numbered, Relaxed, Observed
<1>7. Mirrors' /\ Promises'
  BY SavePromises
<1> QED
  BY <1>1, <1>2, <1>3, <1>6, <1>7 DEF Leaves
----------------------------------------------------------------------------
(* What clients are shown *)

\* A finite set of numbers has a greatest: the one with the fewest above it.
LEMMA Greatest ==
  ASSUME NEW S \in SUBSET Nat, S # {}, IsFiniteSet(S)
  PROVE  \E x \in S : \A y \in S : y <= x
<1> DEFINE Above(x) == {y \in S : y > x}
           T == {Above(x) : x \in S}
<1>1. IsWellFoundedOn(StrictSubsetOrdering(S), FiniteSubsetsOf(S))
  BY FS_StrictSubsetOrderingWellFounded
<1>2. T \subseteq FiniteSubsetsOf(S) /\ T # {}
  <2>1. \A x \in S : Above(x) \subseteq S
    OBVIOUS
  <2>2. \A x \in S : IsFiniteSet(Above(x))
    BY <2>1, FS_Subset
  <2> QED
    BY <2>1, <2>2 DEF FiniteSubsetsOf
<1> HIDE DEF T
<1>3. PICK A \in T : \A B \in T : ~ (<<B, A>> \in StrictSubsetOrdering(S))
  BY <1>1, <1>2, WFMin
<1> USE DEF T
<1>4. PICK x \in S : A = Above(x)
  BY <1>3
<1>5. ASSUME NEW y \in S, y > x PROVE FALSE
  <2>0. Above(y) \in T
    OBVIOUS
  <2>1. Above(y) \subseteq Above(x)
    <3>1. \A z \in S : z > y => z > x
      BY <1>5
    <3> QED
      BY <3>1
  <2>3. y \in Above(x) /\ y \notin Above(y)
    BY <1>5
  <2>2. <<Above(y), Above(x)>> \in StrictSubsetOrdering(S)
    BY <2>1, <2>3 DEF StrictSubsetOrdering
  <2> QED
    BY <1>3, <1>4, <2>0, <2>2
<1>6. \A y \in S : y <= x
  BY <1>5
<1> QED
  BY <1>6

\* Of the actors that know an entity, the last in the order of ids shows it.
LEMMA LastKnows ==
  ASSUME NEW actors \in SUBSET Actor, NEW e,
         \E a \in actors : e \in DOMAIN Shown(a, Mind(a))
  PROVE  /\ LastWith(actors, e) \in actors
         /\ e \in DOMAIN Shown(LastWith(actors, e), Mind(LastWith(actors, e)))
<1> DEFINE knowing == {a \in actors : e \in DOMAIN Shown(a, Mind(a))}
<1>1. knowing \subseteq Entity /\ knowing \in SUBSET Nat /\ knowing # {}
  BY ActorAssumption
<1>2. IsFiniteSet(knowing)
  BY <1>1, EntityAssumption, FS_Subset
<1>3. \E x \in knowing : \A y \in knowing : y <= x
  BY <1>1, <1>2, Greatest
<1>4. LastWith(actors, e) \in knowing
  BY <1>3 DEF LastWith
<1> QED
  BY <1>4

\* An actor's view shows itself as it is, others as its mind remembers them.
LEMMA ShownHonest ==
  ASSUME TypeOK, Observed(state), NEW v \in Viewer, NEW a \in Actor, a \in ActorsOf[v],
         NEW e \in DOMAIN Shown(a, Mind(a)) \ ActorsOf[v]
  PROVE  LET shown == Shown(a, Mind(a)) IN
         \/ shown[e].detail = "known"
         \/ shown[e].detail = "public" /\ <<a, e, shown[e].condition>> \in seen
<1>1. e # a
  OBVIOUS
<1>2. CASE e \in DOMAIN Mind(a).snapshots
  <2>1. Shown(a, Mind(a))[e] = Memory(Mind(a), e)
    BY <1>1, <1>2 DEF Shown
  <2>2. <<a, e, Mind(a).snapshots[e]>> \in seen
    BY <1>2 DEF Observed, Mind
  <2> QED
    BY <2>1, <2>2 DEF Memory
<1>3. CASE e \notin DOMAIN Mind(a).snapshots
  <2>1. Shown(a, Mind(a))[e] = Placeholder
    BY <1>1, <1>3 DEF Shown
  <2> QED
    BY <2>1 DEF Placeholder
<1> QED
  BY <1>2, <1>3

LEMMA ScopedHonest ==
  ASSUME TypeOK, Observed(state), NEW v \in Viewer, ActorsOf[v] # None
  PROVE  Honest(v, Scoped(v))
<1>1. ActorsOf[v] \in SUBSET Actor
  BY OwnerAssumption
<1>2. SUFFICES ASSUME NEW e \in DOMAIN Scoped(v) \ ActorsOf[v]
               PROVE  \/ Scoped(v)[e].detail = "known"
                      \/ /\ Scoped(v)[e].detail = "public"
                         /\ \E a \in ActorsOf[v] : <<a, e, Scoped(v)[e].condition>> \in seen
  BY DEF Honest
<1>3. \E a \in ActorsOf[v] : e \in DOMAIN Shown(a, Mind(a))
  BY DEF Scoped
<1>4. PICK a : a = LastWith(ActorsOf[v], e)
  OBVIOUS
<1>5. a \in ActorsOf[v] /\ a \in Actor /\ e \in DOMAIN Shown(a, Mind(a))
  BY <1>1, <1>3, <1>4, LastKnows
<1>6. Scoped(v)[e] = Shown(a, Mind(a))[e]
  BY <1>3, <1>4 DEF Scoped
<1>7. \/ Shown(a, Mind(a))[e].detail = "known"
      \/ Shown(a, Mind(a))[e].detail = "public" /\ <<a, e, Shown(a, Mind(a))[e].condition>> \in seen
  BY <1>5, ShownHonest
<1> QED
  BY <1>5, <1>6, <1>7

LEMMA FrameHonest ==
  ASSUME TypeOK, Observed(state), NEW v \in Viewer, ActorsOf[v] # None,
         NEW a \in Actor, a \in ActorsOf[v]
  PROVE  Honest(v, Frame(v, a).entities)
<1>1. Frame(v, a).entities = Shown(a, Mind(a))
  BY DEF Frame
<1>2. PICK shown : shown = Shown(a, Mind(a))
  OBVIOUS
<1>3. \A e \in DOMAIN shown \ ActorsOf[v] :
        \/ shown[e].detail = "known"
        \/ shown[e].detail = "public" /\ <<a, e, shown[e].condition>> \in seen
  BY <1>2, ShownHonest
<1> QED
  BY <1>1, <1>2, <1>3 DEF Honest

LEMMA HonestStays ==
  ASSUME seen \subseteq seen', NEW v, NEW entities, Honest(v, entities)
  PROVE  Honest(v, entities)'
BY DEF Honest
\* What was shown stays honest while observations are only added.
LEMMA ShowsStay ==
  ASSUME Shows, UNCHANGED client, seen \subseteq seen'
  PROVE  Shows'
<1>1. UNCHANGED <<link, copy, page, frames>>
  BY DEF client
<1> QED
  BY <1>1, HonestStays DEF Shows

Domains == /\ DOMAIN link = Viewer /\ DOMAIN copy = Viewer
           /\ DOMAIN page = Viewer /\ DOMAIN frames = Viewer

LEMMA ReadShows ==
  ASSUME TypeOK, Observed(state), Shows, NEW v \in Viewer, ReadCampaign(v)
  PROVE  Shows' /\ Domains'
<1>1. /\ page' = [page EXCEPT ![v] = Scoped(v)]
      /\ UNCHANGED <<link, copy, frames, seen>>
  BY DEF ReadCampaign
<1>2. Domains
  BY DEF TypeOK, Domains
<1>3. ASSUME NEW w \in Viewer, ActorsOf[w] # None PROVE Honest(w, page'[w])
  <2>1. CASE w = v
    BY <1>1, <1>2, <1>3, <2>1, ScopedHonest DEF Domains
  <2>2. CASE w # v
    BY <1>1, <1>2, <1>3, <2>2 DEF Shows, Domains
  <2> QED
    BY <2>1, <2>2
<1>4. \A w \in Viewer : \A entities : Honest(w, entities) => Honest(w, entities)'
  BY <1>1 DEF Honest
<1>5. Shows'
  BY <1>1, <1>3, <1>4 DEF Shows
<1>6. Domains'
  BY <1>1, <1>2 DEF Domains
<1> QED
  BY <1>5, <1>6

LEMMA SendShows ==
  ASSUME TypeOK, Observed(state), Shows, NEW v \in Viewer, NEW a \in Actor,
         NEW whole \in BOOLEAN, SendFrame(v, a, whole)
  PROVE  Shows' /\ Domains'
<1>1. PICK frame : frame = Frame(v, a)
  OBVIOUS
<1>2. PICK message : message = IF whole THEN [kind |-> "frame", frame |-> frame]
                               ELSE Delta(latest[v], frame)
  OBVIOUS
<1>3. /\ frames' = [frames EXCEPT ![v] = @ \cup {frame}]
      /\ link' = [link EXCEPT ![v] = @ \cup {message}]
      /\ UNCHANGED <<copy, page, seen>>
      /\ a \in Played(v) \/ ActorsOf[v] = None
  BY <1>1, <1>2 DEF SendFrame
<1>4. Domains
  BY DEF TypeOK, Domains
<1>5. \/ message.kind = "frame" /\ message.frame = frame
      \/ message.kind = "delta" /\ message.target = frame
  BY <1>2 DEF Delta
<1>6. \A w \in Viewer : frames[w] \subseteq frames'[w] /\ frame \in frames'[v]
  BY <1>3, <1>4 DEF Domains
<1>7. ASSUME NEW w \in Viewer, ActorsOf[w] # None, NEW f \in frames'[w]
      PROVE  Honest(w, f.entities)
  <2>1. CASE f \in frames[w]
    BY <1>7, <2>1 DEF Shows
  <2>2. CASE f \notin frames[w]
    <3>1. w = v /\ f = frame
      BY <1>3, <1>4, <2>2 DEF Domains
    <3> QED
      BY <1>1, <1>3, <1>7, <3>1, FrameHonest DEF Played
  <2> QED
    BY <2>1, <2>2
<1>8. ASSUME NEW w \in Viewer, NEW m \in link'[w]
      PROVE  \/ m.kind = "frame" /\ m.frame \in frames'[w]
             \/ m.kind = "delta" /\ m.target \in frames'[w]
  <2>1. CASE m \in link[w]
    BY <1>6, <2>1 DEF Shows
  <2>2. CASE m \notin link[w]
    <3>1. w = v /\ m = message
      BY <1>3, <1>4, <2>2 DEF Domains
    <3> QED
      BY <1>5, <1>6, <3>1
  <2> QED
    BY <2>1, <2>2
<1>9. ASSUME NEW w \in Viewer PROVE copy'[w] = None \/ copy'[w] \in frames'[w]
  BY <1>3, <1>6 DEF Shows
<1>10. ASSUME NEW w \in Viewer, ActorsOf[w] # None PROVE Honest(w, page'[w])
  BY <1>3, <1>10 DEF Shows
<1>11. \A w \in Viewer : \A entities : Honest(w, entities) => Honest(w, entities)'
  BY <1>3 DEF Honest
<1>12. Shows'
  BY <1>7, <1>8, <1>9, <1>10, <1>11 DEF Shows
<1>13. Domains'
  BY <1>3, <1>4 DEF Domains
<1> QED
  BY <1>12, <1>13

LEMMA ReceiveShows ==
  ASSUME TypeOK, Shows, NEW v \in Viewer, Receive(v)
  PROVE  Shows' /\ Domains'
<1>1. Domains /\ UNCHANGED <<link, page, frames, seen>>
  BY DEF TypeOK, Domains, Receive
<1>2. PICK c : copy' = [copy EXCEPT ![v] = c] /\ c \in frames[v]
  <2>1. PICK m \in link[v] :
          IF m.kind = "frame" THEN copy' = [copy EXCEPT ![v] = m.frame]
          ELSE /\ copy[v] # None /\ Fits(copy[v], m)
               /\ copy' = [copy EXCEPT ![v] = Applied(@, m)]
    BY DEF Receive
  <2>2. \/ m.kind = "frame" /\ m.frame \in frames[v]
        \/ m.kind = "delta" /\ m.target \in frames[v]
    BY DEF Shows
  <2>3. CASE m.kind = "frame"
    BY <2>1, <2>2, <2>3
  <2>4. CASE m.kind # "frame"
    <3>1. PICK c : c = Applied(copy[v], m)
      OBVIOUS
    <3>2. copy' = [copy EXCEPT ![v] = c] /\ c = m.target
      BY <1>1, <2>1, <2>4, <3>1 DEF Fits
    <3> QED
      BY <2>2, <2>4, <3>2
  <2> QED
    BY <2>3, <2>4
<1>3. \A w \in Viewer : copy'[w] = None \/ copy'[w] \in frames[w]
  BY <1>1, <1>2 DEF Shows, Domains
<1>4. \A w \in Viewer : \A entities : Honest(w, entities) => Honest(w, entities)'
  BY <1>1 DEF Honest
<1>5. Shows'
  BY <1>1, <1>3, <1>4 DEF Shows
<1>6. Domains'
  BY <1>1, <1>2 DEF Domains
<1> QED
  BY <1>5, <1>6

----------------------------------------------------------------------------
(* The invariant *)

LEMMA InitStep == ViewsInit => IInv
<1> SUFFICES ASSUME ViewsInit PROVE IInv
  OBVIOUS
<1>1. PICK p \in Pressures :
        state = [scenes |-> Nobody, active |-> {}, map |-> None, pressure |-> p,
                 decisions |-> <<>>, lore |-> Lore]
  BY DEF ViewsInit, Init
<1>2. /\ state.scenes = Nobody /\ state.pressure = p /\ state.decisions = <<>>
      /\ state.lore = Lore /\ WholeCampaign(state)
  BY <1>1 DEF WholeCampaign
<1>3. /\ row = state /\ saving = None /\ runtime = Nobody /\ strained = FALSE
      /\ request = [c \in Slot |-> Idle] /\ answered = {} /\ left \in Budgets
      /\ ~Strained(world)
  BY DEF ViewsInit, Init
<1>4. /\ link = [v \in Viewer |-> {}] /\ copy = [v \in Viewer |-> None]
      /\ page = [v \in Viewer |-> Blank(0)] /\ frames = [v \in Viewer |-> {}] /\ seen = {}
  BY DEF ViewsInit
<1>5. Campaigns = {state}
  BY <1>3 DEF Campaigns
<1>6. Lore = NewLore(Lore.truth) /\ Lore.truth \in [Entity -> Condition]
  BY LoreAssumption
<1>7. Lore.minds = [a \in Actor |->
        [known |-> {a}, observed |-> Blank(0), snapshots |-> Blank(0), facts |-> Blank(0)]]
      /\ Lore = [now |-> Lore.now, truth |-> Lore.truth, minds |-> Lore.minds]
  BY <1>6 DEF NewLore
<1>8. WholeLore(Lore)
  BY <1>6, <1>7 DEF WholeLore, WholeMind
<1>9. TypeOK
  BY <1>2, <1>3, <1>4, <1>5, <1>8, BudgetAssumption DEF TypeOK
<1>10. Sound
  <2>1. Numbered(state)
    BY <1>2, CapAssumption DEF Numbered
  <2>2. Relaxed(state)
    BY <1>2, PressureAssumption DEF Relaxed
  <2>3. Observed(state)
    BY <1>2, <1>7 DEF Observed, Blank
  <2> QED
    BY <1>5, <2>1, <2>2, <2>3 DEF Sound
<1>11. Mirrors
  BY <1>3 DEF Mirrors, ArchiveMirrored, Nobody
<1>12. Promises
  BY <1>3 DEF Promises
<1>13. Shows
  BY <1>4 DEF Shows, Honest, Blank
<1> QED
  BY <1>9, <1>10, <1>11, <1>12, <1>13 DEF IInv
\* A campaign stays sound while numbers are used up and more is observed.
LEMMA SoundStays ==
  ASSUME TypeOK, NEW k, Numbered(k), Relaxed(k), Observed(k),
         left'.scenes \in Nat, left'.scenes <= left.scenes, strained => strained',
         seen \subseteq seen'
  PROVE  Numbered(k)' /\ Relaxed(k)' /\ Observed(k)'
<1>1. left.scenes \in Nat
  BY DEF TypeOK
<1>2. Numbered(k)'
  <2>1. \A i \in 1..Len(k.decisions) : k.decisions[i] > left'.scenes
    BY <1>1 DEF Numbered
  <2> QED
    BY <2>1 DEF Numbered
<1> QED
  BY <1>2 DEF Relaxed, Observed

LEMMA LeavesEnough == ASSUME SInv, Leaves, Domains' PROVE SInv'
<1> USE DEF SInv
<1>1. TypeOK'
  <2>1. \A k \in Campaigns' : WholeCampaign(k) /\ WholeLore(k.lore)
    BY DEF Leaves, TypeOK
  <2> QED
    BY <2>1 DEF Leaves, TypeOK, Domains
<1>2. Sound'
  <2>1. ASSUME NEW k \in Campaigns' PROVE Numbered(k)' /\ Relaxed(k)' /\ Observed(k)'
    <3>1. CASE k = state'
      BY <3>1 DEF Leaves, Numbered, Relaxed, Observed
    <3>2. CASE k # state'
      <4>1. Numbered(k) /\ Relaxed(k) /\ Observed(k)
        BY <2>1, <3>2 DEF Leaves, Sound
      <4>2. left'.scenes \in Nat /\ left'.scenes <= left.scenes
            /\ (strained => strained') /\ seen \subseteq seen'
        BY DEF Leaves
      <4> QED
        BY <4>1, <4>2, SoundStays
    <3> QED
      BY <3>1, <3>2
  <2> QED
    BY <2>1 DEF Sound
<1> QED
  BY <1>1, <1>2 DEF Leaves

LEMMA SceneStepsLeave ==
  ASSUME SInv, SceneSteps, UNCHANGED <<sync, client, seen>>
  PROVE  Leaves
<1>1. seen' = seen /\ ArchiveMirrored
  BY DEF SInv, Mirrors
<1>2. CASE LiveOn
  BY <1>1, <1>2, RestLeaves
<1>3. CASE SaveSteps
  BY <1>1, <1>3, SaveLeaves
<1>4. ASSUME NEW c \in Slot, NEW p \in Proposal, NEW accepted \in BOOLEAN, Decide(c, p, accepted)
      PROVE  Leaves
  BY <1>1, <1>4, DecideLeaves
<1>5. ASSUME NEW c \in Slot, NEW s \in Scene, RegisterScene(c, s) PROVE Leaves
  <2>1. SceneStepKeeps /\ Asked(c, {})
    BY <1>1, <1>5, RegisterKeeps DEF SInv
  <2> QED
    BY <1>1, <2>1, SceneStepLeaves
<1>6. ASSUME NEW c \in Slot, NEW s \in Scene, NEW exclusive \in BOOLEAN,
             ActivateScene(c, s, exclusive)
      PROVE  Leaves
  <2>1. SceneStepKeeps /\ Asked(c, {})
    BY <1>1, <1>6, ActivateKeeps DEF SInv
  <2> QED
    BY <1>1, <2>1, SceneStepLeaves
<1>7. ASSUME NEW c \in Slot, NEW s \in Scene, NEW status, TransitionScene(c, s, status)
      PROVE  Leaves
  <2>1. SceneStepKeeps
    BY <1>1, <1>7, TransitionKeeps DEF SInv
  <2>2. PICK promise \in {{}, {<<"archived", s>>}} :
          Asked(c, promise) /\ (request'[c] # Idle => \A p \in promise : Gone(p)')
    BY <1>1, <1>7, TransitionKeeps DEF SInv
  <2>3. \A p \in promise : p[1] = "archived"
    OBVIOUS
  <2> QED
    BY <1>1, <2>1, <2>2, <2>3, SceneStepLeaves
<1>8. \/ LiveOn \/ SaveSteps
      \/ \E c \in Slot, p \in Proposal, accepted \in BOOLEAN : Decide(c, p, accepted)
      \/ \E c \in Slot, s \in Scene :
           \/ RegisterScene(c, s)
           \/ \E exclusive \in BOOLEAN : ActivateScene(c, s, exclusive)
           \/ \E status : TransitionScene(c, s, status)
  BY DEF SceneSteps, SaveSteps
<1> QED
  BY <1>2, <1>3, <1>4, <1>5, <1>6, <1>7, <1>8

LEMMA NextStep == IInv /\ [Next]_allvars => IInv'
<1> SUFFICES ASSUME IInv, [Next]_allvars PROVE IInv'
  OBVIOUS
<1>1. SInv /\ Shows /\ TypeOK /\ Domains /\ Observed(state)
  BY DEF IInv, SInv, TypeOK, Domains, Sound, Campaigns
<1>2. SInv' /\ Shows' => IInv'
  BY DEF SInv, IInv
<1>3. ASSUME Leaves, UNCHANGED client PROVE IInv'
  <2>1. Shows' /\ Domains'
    BY <1>1, <1>3, ShowsStay DEF Leaves, Domains, client
  <2> QED
    BY <1>1, <1>2, <1>3, <2>1, LeavesEnough
<1>4. CASE SceneSteps /\ UNCHANGED <<sync, client, seen>>
  BY <1>1, <1>3, <1>4, SceneStepsLeave
<1>5. CASE Restart
  <2>1. UNCHANGED <<client, seen>> /\ SaveSteps
    BY <1>5 DEF Restart, SaveSteps
  <2> QED
    BY <1>1, <1>3, <2>1, SaveLeaves
<1>6. CASE ViewSteps
  <2>1. Leaves
    BY <1>1, <1>6, ViewStepLeaves
  <2>2. Shows' /\ Domains'
    <3>1. ASSUME NEW v \in Viewer, ReadCampaign(v) PROVE Shows' /\ Domains'
      BY <1>1, <3>1, ReadShows
    <3>2. ASSUME NEW v \in Viewer, NEW a \in Actor, NEW whole \in BOOLEAN, SendFrame(v, a, whole)
          PROVE  Shows' /\ Domains'
      BY <1>1, <3>2, SendShows
    <3>3. ASSUME UNCHANGED client PROVE Shows' /\ Domains'
      BY <1>1, <2>1, <3>3, ShowsStay DEF Leaves, Domains, client
    <3> QED
      BY <1>6, <3>1, <3>2, <3>3
         DEF ViewSteps, Pass, Alter, RegisterBinding, Perceive, ConcealEntity, RevealEntity,
             RevealFact, Learn
  <2> QED
    BY <1>1, <1>2, <2>1, <2>2, LeavesEnough
<1>7. ASSUME NEW v \in Viewer, Receive(v) PROVE IInv'
  <2>1. UNCHANGED vars /\ seen' = seen
    BY <1>7 DEF Receive
  <2>2. Leaves
    BY <1>1, <2>1, RestLeaves
  <2>3. Shows' /\ Domains'
    BY <1>1, <1>7, ReceiveShows
  <2> QED
    BY <1>1, <1>2, <2>2, <2>3, LeavesEnough
<1>8. CASE UNCHANGED allvars
  <2>1. UNCHANGED vars /\ seen' = seen /\ UNCHANGED client
    BY <1>8 DEF allvars
  <2>2. Leaves
    BY <1>1, <2>1, RestLeaves
  <2> QED
    BY <1>3, <2>1, <2>2
<1>9. \/ SceneSteps /\ UNCHANGED <<sync, client, seen>>
      \/ Restart \/ ViewSteps \/ (\E v \in Viewer : Receive(v)) \/ UNCHANGED allvars
  BY DEF Next, ViewSteps
<1> QED
  BY <1>4, <1>5, <1>6, <1>7, <1>8, <1>9

LEMMA Inductive == Spec => []IInv
BY InitStep, NextStep, PTL DEF Spec

----------------------------------------------------------------------------
(* Theorems *)

\* Every reachable state of the scenes, requests and saves, of what is known of a
\* campaign and of its clients is well typed.
THEOREM TypeCorrect == Spec => []TypeOK
BY Inductive, PTL DEF IInv

\* What a request was answered is kept through later requests, overtaking saves
\* and restarts, for any number of requests and scenes and any bound on decisions.
THEOREM AnswersAreKept == Spec => []AnsweredIsKept
<1>1. IInv => AnsweredIsKept
  <2> SUFFICES ASSUME IInv, NEW p \in answered, NEW k \in {state, row}
               PROVE  CASE p[1] = "archived" ->
                             /\ p[2] \in DOMAIN k.scenes /\ k.scenes[p[2]] = "archived"
                             /\ runtime[p[2]] = "archived"
                        [] OTHER ->
                             \/ \E i \in DOMAIN k.decisions : k.decisions[i] = p[2]
                             \/ /\ Len(k.decisions) = HistoryCap
                                /\ \A i \in DOMAIN k.decisions : k.decisions[i] < p[2]
    BY DEF AnsweredIsKept
  <2>1. k \in Campaigns /\ Gone(p) /\ Kept(p, k) /\ p \in Promise
    BY DEF IInv, Promises, Campaigns, TypeOK
  <2>2. DOMAIN k.decisions = 1..Len(k.decisions)
    BY <2>1 DEF IInv, Sound, Numbered
  <2>3. p[1] = "archived" \/ p[1] = "decided"
    BY <2>1 DEF Promise
  <2> QED
    BY <2>1, <2>2, <2>3 DEF Gone, Kept, Remembers
<1> QED
  BY <1>1, Inductive, PTL

\* No sequence of accepted proposals, accepted twice or at once, relieves the
\* pressure of a party that was never low from below the director's thresholds.
THEOREM RelievedWhenDue == Spec => []RelaxesOnlyWhenDue
<1>1. IInv => RelaxesOnlyWhenDue
  BY DEF IInv, Sound, Campaigns, Relaxed, RelaxesOnlyWhenDue
<1> QED
  BY <1>1, Inductive, PTL

\* Whatever a player's page or copy shows of others, its actors have observed, for
\* any actors, observations, concealments, reads, frames and restarts.
THEOREM NothingLeaks == Spec => []HiddenStaysHidden
<1>1. IInv => HiddenStaysHidden
  <2> SUFFICES ASSUME IInv, NEW v \in Viewer, ActorsOf[v] # None,
                      NEW shown \in {page[v]} \cup
                        (IF copy[v] = None THEN {} ELSE {copy[v].entities})
               PROVE  Honest(v, shown)
    BY DEF HiddenStaysHidden, Honest
  <2> QED
    BY DEF IInv, Shows
<1> QED
  BY <1>1, Inductive, PTL

\* A client's copy is a frame that was made for it, whichever messages were lost,
\* late or repeated and however often the synchronizer starts again.
THEOREM CopiesAreExact == Spec => []CopiesAreFrames
<1>1. IInv => CopiesAreFrames
  BY DEF IInv, Shows, CopiesAreFrames
<1> QED
  BY <1>1, Inductive, PTL

\* An exclusive activation that is not refused leaves its scene alone active,
\* whatever definitions a restart has lost.
THEOREM ActivatesAlone == Spec => ExclusiveActsAlone
<1>1. ASSUME NEW c \in Slot, NEW s \in Scene, ActivateScene(c, s, TRUE), request'[c] # Idle
      PROVE  Active(runtime') = {s}
  <2> DEFINE cleared == Alone(Loaded(Met(s), s), s)
             permitted == Permitted(cleared, s, "active")
  <2>1. permitted
    BY <1>1 DEF ActivateScene, Ask
  <2>2. runtime' = [cleared EXCEPT ![s] = "active"]
    BY <1>1, <2>1 DEF ActivateScene
  <2>3. s \in DOMAIN cleared /\ \A x \in DOMAIN cleared : x # s => cleared[x] # "active"
    BY DEF Alone, Loaded, Met
  <2> HIDE DEF cleared
  <2> QED
    BY <2>2, <2>3 DEF Active
<1>2. [Next]_allvars =>
        [\A c \in Slot, s \in Scene :
           ActivateScene(c, s, TRUE) /\ request'[c] # Idle => Active(runtime') = {s}]_vars
  BY <1>1
<1> QED
  BY <1>2, PTL DEF Spec, ExclusiveActsAlone
=============================================================================
