-------------------------------- MODULE Scenes --------------------------------
(***************************************************************************)
(* The campaign above its turns: CampaignOrchestrator's scenes             *)
(* (campaign/orchestrator.py) with their mirror in the campaign's          *)
(* metadata, AIDirector's proposals (ai/director.py) and the decisions on  *)
(* them (core/world_engine.py), as the API's requests drive them           *)
(* (api/world_platform.py, api/workbench.py).  A request changes memory at *)
(* once and is answered after a save; saves take the engine's lock one by  *)
(* one; a crash leaves what the row holds.  Pressure and health are        *)
(* hundredths.                                                             *)
(***************************************************************************)
EXTENDS Integers, Sequences

CONSTANTS
  Slot,          \* requests that may be in flight together
  Scene, MapOf,  \* scenes, the map of each or None
  Encounter,     \* scenes of the kind encounter
  Worlds,        \* what the director sees: living players, their health, open quests, factions
  Pressures,     \* director_pressure may start with
  HistoryCap,    \* director_decisions kept
  Lore,          \* the rest of a new campaign's state
  Budgets,       \* bounds: operations on scenes, saves of ticks, operations of Views
  MaxCrashes,    \* bound
  None

ASSUME SceneAssumption == Encounter \subseteq Scene /\ None \notin Scene
ASSUME CapAssumption == HistoryCap \in Nat \ {0} /\ MaxCrashes \in Nat
ASSUME BudgetAssumption ==
  Budgets \subseteq [scenes : Nat, saves : Nat, minds : Nat, changes : Nat, reads : Nat]
\* The only writer of director_pressure keeps it between 0 and 1.
ASSUME PressureAssumption == Pressures \subseteq 0..100

VARIABLES
  runtime,      \* status of the scenes the orchestrator has met
  definitions,  \* scenes registered in this process
  state,        \* the campaign: mirrored scenes, map, pressure, decisions, the rest
  world,        \* of Worlds
  request,      \* by slot: idle, or what it waits for and has promised
  saving,       \* the save that holds the lock, or None
  row,          \* the stored campaign
  answered,     \* history: promises that were answered
  strained,     \* history: the party has been low
  left, crashes \* bounds

vars == <<runtime, definitions, state, world, request, saving, row, answered, strained, left, crashes>>

Idle == [stage |-> "idle"]
Nobody == [s \in {} |-> "unloaded"]

Strained(w) == w.living /\ 100 - w.health > 45

Init ==
  /\ runtime = Nobody /\ definitions = {}
  /\ \E p \in Pressures :
       state = [scenes |-> Nobody, active |-> {}, map |-> None, pressure |-> p,
                decisions |-> <<>>, lore |-> Lore]
  /\ world \in {w \in Worlds : ~Strained(w)} /\ strained = FALSE
  /\ request = [c \in Slot |-> Idle] /\ saving = None /\ row = state
  /\ answered = {} /\ left \in Budgets /\ crashes = 0

----------------------------------------------------------------------------
(* Scenes *)

Allowed ==
  [unloaded  |-> {"loading", "archived"},
   loading   |-> {"active", "unloaded", "archived"},
   active    |-> {"suspended", "resolved", "archived"},
   suspended |-> {"active", "resolved", "archived"},
   resolved  |-> {"archived", "active"},
   archived  |-> {}]

Active(scenes) == {s \in DOMAIN scenes : scenes[s] = "active"}

\* state_for: a scene that is new gets a runtime, which is not mirrored yet.
Met(s) == [x \in DOMAIN runtime \cup {s} |-> IF x \in DOMAIN runtime THEN runtime[x] ELSE "unloaded"]

Permitted(scenes, s, status) == scenes[s] = status \/ status \in Allowed[scenes[s]]

\* _persist_runtime
Mirror(scenes) == [state EXCEPT !.scenes = scenes, !.active = Active(scenes)]

\* Every change of a status is mirrored, none at all is not.
Mirrored(before, after) == IF before = after THEN state ELSE Mirror(after)

\* activate: a load of its own first, ...
Loaded(scenes, s) == IF scenes[s] = "unloaded" THEN [scenes EXCEPT ![s] = "loading"] ELSE scenes

\* Slip: scenes whose definition is gone are not suspended.
DefinedAlone(scenes, s) ==
  [x \in DOMAIN scenes |->
     IF scenes[x] = "active" /\ x # s /\ x \in definitions THEN "suspended" ELSE scenes[x]]
\* ... then the other active scenes suspended, if it is to be alone.
Alone(scenes, s) ==
  [x \in DOMAIN scenes |-> IF scenes[x] = "active" /\ x # s THEN "suspended" ELSE scenes[x]]

\* A request starts, counted, and waits for a save if it succeeded.
Ask(c, succeeded, stage, promise) ==
  /\ request[c] = Idle /\ left.scenes > 0
  /\ left' = [left EXCEPT !.scenes = @ - 1]
  /\ request' = IF succeeded THEN [request EXCEPT ![c] = [stage |-> stage, promise |-> promise]]
                ELSE request
  /\ UNCHANGED <<world, saving, row, answered, strained, crashes>>

\* register
RegisterScene(c, s) ==
  /\ Ask(c, TRUE, "save", {})
  /\ definitions' = definitions \cup {s}
  /\ runtime' = Met(s) /\ state' = Mirror(Met(s))

\* activate; refused (a scene that is archived), it has suspended the others all the same.
ActivateScene(c, s, exclusive) ==
  LET loaded == Loaded(Met(s), s)
      cleared == IF exclusive THEN Alone(loaded, s) ELSE loaded
      permitted == Permitted(cleared, s, "active")
      final == IF permitted THEN [cleared EXCEPT ![s] = "active"] ELSE cleared IN
  /\ Ask(c, permitted, "save", {})
  /\ runtime' = final
  /\ state' = [Mirrored(Met(s), final) EXCEPT
                 !.map = IF permitted /\ s \in definitions /\ MapOf[s] # None THEN MapOf[s] ELSE @]
  /\ UNCHANGED definitions

\* transition, to any status but active; a refusal leaves a scene that was met.
TransitionScene(c, s, status) ==
  LET permitted == Permitted(Met(s), s, status)
      final == IF permitted THEN [Met(s) EXCEPT ![s] = status] ELSE Met(s) IN
  /\ Ask(c, permitted, "save", IF status = "archived" THEN {<<"archived", s>>} ELSE {})
  /\ runtime' = final /\ state' = Mirrored(Met(s), final)
  /\ UNCHANGED definitions

----------------------------------------------------------------------------
(* The director *)

Clamp(n) == IF n < 0 THEN 0 ELSE IF n > 100 THEN 100 ELSE n

\* observe: only scenes that are registered count.
Fighting == Active(runtime) \cap definitions \cap Encounter # {}

\* The proposals whose conditions hold; their ranking and wording is left out.
Proposed(p) ==
  LET pressure == Clamp(state.pressure) IN
  \/ p = "recovery-window" /\ world.living /\ (Strained(world) \/ pressure > 80)
  \/ p = "encounter-opportunity" /\ world.living /\ ~Fighting /\ pressure < 45
  \/ p = "quest-hook" /\ ~world.quest
  \/ p = "faction-motion" /\ world.factions >= 2
  \/ p = "decompress" /\ pressure > 75
  \/ p = "world-motion"

Proposal == {"recovery-window", "encounter-opportunity", "quest-hook", "faction-motion",
             "decompress", "world-motion"}

Relief(p) == CASE p = "recovery-window" -> 25 [] p = "decompress" -> 35 [] OTHER -> 0

\* Slip: what is proposed is not asked again.
StandingAlways(p) == TRUE
\* accept and dismiss look the proposal up among the present ones.
Standing(p) == Proposed(p)

LastOnes(s) == IF Len(s) > HistoryCap THEN SubSeq(s, Len(s) - HistoryCap + 1, Len(s)) ELSE s

\* accept_director_proposal, dismiss_director_proposal, up to their event; the
\* decision's number is the budget that is left.
Decide(c, p, accepted) ==
  /\ Standing(p)
  /\ Ask(c, TRUE, "emit", {<<"decided", left.scenes>>})
  /\ state' = [state EXCEPT
                 !.pressure = IF accepted THEN Clamp(@ - Relief(p)) ELSE @,
                 !.decisions = LastOnes(Append(@, left.scenes))]
  /\ UNCHANGED <<runtime, definitions>>

----------------------------------------------------------------------------
(* Saves *)

\* _emit has published and stored the event.
Emitted(c) ==
  /\ request[c].stage = "emit"
  /\ request' = [request EXCEPT ![c].stage = "save"]
  /\ UNCHANGED <<runtime, definitions, state, world, saving, row, answered, strained, left, crashes>>

\* save: with the lock, the state as it is now.
TakeLock(c) ==
  /\ saving = None /\ saving' = [slot |-> c, state |-> state]
  /\ UNCHANGED <<runtime, definitions, state, world, request, row, answered, strained, crashes>>

Save(c) == request[c].stage = "save" /\ TakeLock(c) /\ UNCHANGED left

\* A tick or a command saves too, for no request.
TickSaves == left.saves > 0 /\ left' = [left EXCEPT !.saves = @ - 1] /\ TakeLock(None)

\* Slip: a save answers whoever waits.
AnswerAll ==
  /\ request' = [c \in Slot |-> Idle]
  /\ answered' = answered \cup UNION {request[c].promise : c \in {x \in Slot : request[x] # Idle}}
AnswerSaved ==
  LET c == saving.slot IN
  IF c = None THEN UNCHANGED <<request, answered>>
  ELSE request' = [request EXCEPT ![c] = Idle] /\ answered' = answered \cup request[c].promise

\* The row is written, the lock released, the request answered.
Saved ==
  /\ saving # None
  /\ row' = saving.state /\ saving' = None
  /\ AnswerSaved
  /\ UNCHANGED <<runtime, definitions, state, world, strained, left, crashes>>

\* _restore_runtime
Restored == row.scenes

\* The process dies and loads the campaign again; nothing registers its scenes.
Crash ==
  /\ crashes < MaxCrashes /\ crashes' = crashes + 1
  /\ state' = row /\ runtime' = Restored /\ definitions' = {}
  /\ request' = [c \in Slot |-> Idle] /\ saving' = None
  /\ UNCHANGED <<world, row, answered, strained, left>>

\* Play goes on: players fall and recover, quests open and close.
LiveOn ==
  /\ left.scenes > 0 /\ left' = [left EXCEPT !.scenes = @ - 1]
  /\ world' \in Worlds \ {world} /\ strained' = (strained \/ Strained(world'))
  /\ UNCHANGED <<runtime, definitions, state, request, saving, row, answered, crashes>>

SceneSteps ==
  \/ LiveOn \/ Saved \/ TickSaves
  \/ \E c \in Slot :
       \/ Emitted(c) \/ Save(c)
       \/ \E p \in Proposal, accepted \in BOOLEAN : Decide(c, p, accepted)
       \/ \E s \in Scene :
            \/ RegisterScene(c, s)
            \/ \E exclusive \in BOOLEAN : ActivateScene(c, s, exclusive)
            \/ \E status \in DOMAIN Allowed \ {"active"} : TransitionScene(c, s, status)

----------------------------------------------------------------------------
(* Properties *)

\* What a request was answered is kept, in memory and in the row, through later
\* requests, overtaking saves and restarts: an archived scene stays archived, a
\* decision is among those kept unless newer ones have pushed it out.
AnsweredIsKept ==
  \A promise \in answered : \A campaign \in {state, row} :
    CASE promise[1] = "archived" ->
           /\ promise[2] \in DOMAIN campaign.scenes /\ campaign.scenes[promise[2]] = "archived"
           /\ runtime[promise[2]] = "archived"
      [] OTHER ->
           \/ \E i \in DOMAIN campaign.decisions : campaign.decisions[i] = promise[2]
           \/ /\ Len(campaign.decisions) = HistoryCap
              /\ \A i \in DOMAIN campaign.decisions : campaign.decisions[i] < promise[2]

\* An exclusive activation that is not refused leaves that scene alone active,
\* also after a restart that has lost the definitions of the others.
ExclusiveActsAlone ==
  [][\A c \in Slot, s \in Scene :
       ActivateScene(c, s, TRUE) /\ request'[c] # Idle => Active(runtime') = {s}]_vars

\* Accepted proposals alone, accepted twice or at once, take the pressure of a
\* party that was never low no further than from just above a threshold.
RelaxesOnlyWhenDue ==
  \A campaign \in {state, row} :
    /\ campaign.pressure \in 0..100
    /\ strained \/ campaign.pressure >= 41 \/ campaign.pressure \in Pressures
=============================================================================
