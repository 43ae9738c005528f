------------------------------ MODULE Timeline ------------------------------
(***************************************************************************)
(* The turn and decision barrier of GameEngine (core/engine.py): the       *)
(* readiness of actors on one simulation timeline, the wall-clock tick,    *)
(* the strict-turn loop, the bounded decision window, commands, encounters *)
(* and changes of timing policy.  Every public operation holds the         *)
(* engine's asyncio lock; between acquiring and releasing it the operation *)
(* runs as the steps below, one handled task at a time: pc names the       *)
(* operation's continuation once its popped tasks (queue) are handled.     *)
(* Death saves are off (the default RuleSet): a defeated actor is inactive *)
(* for good.  ZeroHp models the rule sets that turn them on.               *)
(***************************************************************************)
EXTENDS Scheduler, Sequences, FiniteSets

CONSTANTS
  Human,       \* actors with ControllerKind.HUMAN
  Ai,          \* actors with ControllerKind.AI
  Mode,        \* the TimeModes in use
  Window,      \* decision timeouts in use; 0 stands for no decision pause
  Roster,      \* participant lists given to start_encounter, by initiative
  HumanTime,   \* durations of commands (0: character administration)
  AiTime,      \* durations of the AI's own actions, never 0
  TickDelta,   \* real seconds one tick supplies
  Nobody,      \* no command is being dispatched
  MaxSeq,      \* bound: tasks ever scheduled
  MaxTime      \* bound: simulation clock

TurnBased == "turn_based"
PausingModes == {"timed_turn_based", "real_time_with_pause", "hybrid"}
AllModes == PausingModes \cup {TurnBased, "real_time"}
Actor == Human \cup Ai
Kind == {"actor_ready", "spell_resolve"}
Tasks == Task(Kind, Actor)
Injective(s) == \A i, j \in DOMAIN s : s[i] = s[j] => i = j

ASSUME ActorAssumption == Human \cap Ai = {} /\ Nobody \notin Human \cup Ai
ASSUME ModeAssumption == Mode \subseteq AllModes
ASSUME TimeAssumption ==
  /\ HumanTime \subseteq Nat
  /\ AiTime \subseteq Nat \ {0}
  /\ TickDelta \subseteq Nat \ {0}
  /\ Window \subseteq Nat
ASSUME RosterAssumption ==
  \A r \in Roster : r \in Seq(Actor) /\ Len(r) >= 2 /\ Injective(r)
ASSUME BoundAssumption == MaxSeq \in Nat /\ MaxTime \in Nat

VARIABLES
  mode, window,    \* GameConfig: time_mode, effective decision timeout
  joined, alive,   \* entities in the state, and those still active
  now, heap,       \* TimelineScheduler
  taskSeq,         \* TimelineScheduler._sequence
  ready,           \* _ready_humans
  pause,           \* _decision_pause_remaining; 0 is None
  pc,              \* what the holder of the lock does next
  queue,           \* _process_tasks' local list
  caller,          \* dispatch: the command's actor
  remaining        \* tick: real time not yet consumed

config == <<mode, window>>
people == <<joined, alive>>
vars == <<mode, window, joined, alive, now, heap, taskSeq, ready, pause, pc,
          queue, caller, remaining>>

----------------------------------------------------------------------------
\* Scheduling a task `delay` from now as the i-th one of this step.
NewTask(i, delay, priority, kind, actor, target) ==
  [due |-> now + delay, priority |-> priority, sequence |-> taskSeq + i,
   kind |-> kind, actor |-> actor, target |-> target]

Readiness(i, actor, delay) ==
  NewTask(i, delay, ReadyPriority, "actor_ready", actor, actor)

\* The condition under which _process_tasks stops handling work.
BarrierUp(r, p) == r # {} /\ (mode = TurnBased \/ p > 0)
Barrier == BarrierUp(ready, pause)

\* dispatch's own test is wider: a pause counts even with nobody ready.
BarrierActive == pause > 0 \/ (mode = TurnBased /\ ready # {})

HasReadinessTask(a) == \E t \in heap : t.kind = "actor_ready" /\ t.actor = a

CanSchedule(n) == taskSeq + n <= MaxSeq

\* Slip of the loop below: the rest of the popped work is forgotten.
ContinueDropping(newHeap, rest, newReady, newPause) ==
  heap' = newHeap /\ queue' = IF BarrierUp(newReady, newPause) THEN {} ELSE rest

\* The tail of _process_tasks' loop body: with the barrier up the rest of the
\* popped work goes back to the heap, otherwise the loop goes on.  What the
\* handlers schedule themselves is due later (AiTime), never in this cycle.
Continue(newHeap, rest, newReady, newPause) ==
  IF BarrierUp(newReady, newPause)
    THEN heap' = newHeap \cup rest /\ queue' = {}
    ELSE heap' = newHeap /\ queue' = rest

----------------------------------------------------------------------------
Init ==
  /\ mode \in Mode
  /\ window \in Window
  /\ joined = {} /\ alive = {}
  /\ now = 0 /\ heap = {} /\ taskSeq = 0
  /\ ready = {} /\ pause = 0
  /\ pc = "idle" /\ queue = {}
  /\ caller = Nobody
  /\ remaining = 0

\* add_entity: a new active actor is given a readiness slot.
AddEntity(a) ==
  /\ pc = "idle"
  /\ a \notin joined
  /\ CanSchedule(1)
  /\ joined' = joined \cup {a}
  /\ alive' = alive \cup {a}
  /\ heap' = heap \cup {Readiness(1, a, 0)}
  /\ taskSeq' = taskSeq + 1
  /\ UNCHANGED <<config, now, ready, pause, pc, queue, caller, remaining>>

\* update_timing: policy changes at run time; the pause in progress, the ready
\* set and the heap are left as they are.
UpdateTiming(m, w) ==
  /\ pc = "idle"
  /\ <<m, w>> # <<mode, window>>
  /\ mode' = m
  /\ window' = w
  /\ UNCHANGED <<people, now, heap, taskSeq, ready, pause, pc, queue, caller, remaining>>

\* start_encounter on valid participants: their readiness is replaced by the
\* initiative order.  The decision pause is not touched.
StartEncounter(roster) ==
  LET members == {roster[i] : i \in DOMAIN roster} IN
  /\ pc = "idle"
  /\ members \subseteq alive
  /\ CanSchedule(Len(roster))
  /\ heap' = CancelMatching(heap, "actor_ready", members)
             \cup {Readiness(i, roster[i], i - 1) : i \in DOMAIN roster}
  /\ taskSeq' = taskSeq + Len(roster)
  /\ ready' = ready \ members
  /\ pc' = IF mode = TurnBased THEN "advance" ELSE "idle"
  /\ UNCHANGED <<config, people, now, pause, queue, caller, remaining>>

\* start_encounter that meets an inactive participant: it raises, but the
\* participants it had already gone through have lost their readiness.
RejectEncounter(roster) ==
  \E i \in DOMAIN roster :
    LET seen == {roster[j] : j \in 1..(i - 1)} IN
    /\ pc = "idle"
    /\ seen \subseteq alive
    /\ roster[i] \in joined \ alive
    /\ heap' = CancelMatching(heap, "actor_ready", seen)
    /\ ready' = ready \ seen
    /\ UNCHANGED <<config, people, now, taskSeq, pause, pc, queue, caller, remaining>>

----------------------------------------------------------------------------
(* dispatch *)

\* Acquire the lock; with no barrier up, handle what is due first.
Dispatch(a) ==
  /\ pc = "idle"
  /\ CanSchedule(2)
  /\ pc' = "dispatch"
  /\ caller' = a
  /\ IF BarrierActive
       THEN UNCHANGED <<heap, queue>>
       ELSE heap' = heap \ Due(heap, now) /\ queue' = Due(heap, now)
  /\ UNCHANGED <<config, people, now, taskSeq, ready, pause, remaining>>

\* Slip: a human need not be ready.
MayActAnytime(a) == a \in alive

\* The actor may act: it is alive and, when human, ready or not yet tracked.
MayAct(a) == a \in alive /\ (a \in Human => a \in ready \/ ~HasReadinessTask(a))

\* The command is refused: the actor may not act, or the command's own checks
\* (range, funds, conditions, ...) raise.  What the drain did stays done.
Refuse ==
  /\ pc = "dispatch" /\ queue = {}
  /\ pc' = "idle"
  /\ caller' = Nobody
  /\ UNCHANGED <<config, people, now, heap, taskSeq, ready, pause, queue, remaining>>

\* The last ready human to act ends the decision pause.
PauseAfter(left) == IF caller \in Human /\ left = {} THEN 0 ELSE pause

\* After the command: a human leaves the ready set and every actor, human or
\* not, gets a new readiness slot.
Acted(newTasks, duration) ==
  LET left == IF caller \in Human THEN ready \ {caller} ELSE ready
      n    == Cardinality(newTasks) + 1
  IN
  /\ pc = "dispatch" /\ queue = {}
  /\ MayAct(caller)
  /\ ready' = left
  /\ pause' = PauseAfter(left)
  /\ heap' = heap \cup newTasks \cup {Readiness(n, caller, duration)}
  /\ taskSeq' = taskSeq + n
  /\ pc' = IF mode = TurnBased THEN "advance" ELSE "idle"
  /\ caller' = Nobody
  /\ UNCHANGED <<config, joined, now, queue, remaining>>

\* Wait, move, interact, dialogue, shop, item and character commands.
Act == \E d \in HumanTime : Acted({}, d) /\ UNCHANGED alive

\* _attack on an active target: it may survive (Act) or be defeated.
Kill == \E target \in alive, d \in HumanTime \ {0} :
          Acted({}, d) /\ alive' = alive \ {target}

\* _begin_cast: the effect is a task of its own.
BeginCast ==
  \E target \in joined, d \in HumanTime \ {0} :
    /\ Acted({NewTask(1, d, SpellPriority, "spell_resolve", caller, target)}, d)
    /\ UNCHANGED alive

----------------------------------------------------------------------------
(* _process_tasks: one handler per step, in scheduler order *)

Handling(t) == IsFirst(t, queue)

\* _actor_ready of a defeated actor: nothing, and no new slot.
ReadyInactive(t) ==
  /\ Handling(t)
  /\ t.kind = "actor_ready" /\ t.actor \notin alive
  /\ Continue(heap, queue \ {t}, ready, pause)
  /\ UNCHANGED <<config, people, now, taskSeq, ready, pause, pc, caller, remaining>>

\* _actor_ready of a human: it joins the ready set; in a pausing mode the first
\* one opens the decision window.
ReadyHuman(t) ==
  LET opens == mode \in PausingModes /\ window > 0 /\ pause = 0 IN
  /\ Handling(t)
  /\ t.kind = "actor_ready" /\ t.actor \in alive \cap Human
  /\ ready' = ready \cup {t.actor}
  /\ pause' = IF opens THEN window ELSE pause
  /\ Continue(heap, queue \ {t}, ready \cup {t.actor}, IF opens THEN window ELSE pause)
  /\ UNCHANGED <<config, people, now, taskSeq, pc, caller, remaining>>

\* _actor_ready of an AI actor: it moves, idles or attacks (perhaps defeating its
\* target) and schedules its next readiness.
AiActs(t) ==
  /\ Handling(t)
  /\ t.kind = "actor_ready" /\ t.actor \in alive \cap Ai
  /\ CanSchedule(1)
  /\ \E d \in AiTime : Continue(heap \cup {Readiness(1, t.actor, d)}, queue \ {t}, ready, pause)
  /\ taskSeq' = taskSeq + 1
  /\ \/ UNCHANGED alive
     \/ \E target \in alive \ {t.actor} : alive' = alive \ {target}
  /\ UNCHANGED <<config, joined, now, ready, pause, pc, caller, remaining>>

\* The AI actor is under a condition that blocks actions and has a target in
\* range: _attack raises, out of _process_tasks and of the whole operation.  Its
\* own task and the rest of the popped work are gone.
AiRaises(t) ==
  /\ Handling(t)
  /\ t.kind = "actor_ready" /\ t.actor \in alive \cap Ai
  /\ alive # {t.actor}
  /\ queue' = {}
  /\ pc' = "idle" /\ caller' = Nobody /\ remaining' = 0
  /\ UNCHANGED <<config, people, now, heap, taskSeq, ready, pause>>

\* _resolve_spell: fizzles when the caster is gone, else it may defeat the target.
ResolveSpell(t) ==
  /\ Handling(t)
  /\ t.kind = "spell_resolve"
  /\ \/ UNCHANGED alive
     \/ t.actor \in alive /\ t.target \in alive /\ alive' = alive \ {t.target}
  /\ Continue(heap, queue \ {t}, ready, pause)
  /\ UNCHANGED <<config, joined, now, taskSeq, ready, pause, pc, caller, remaining>>

----------------------------------------------------------------------------
(* _advance_turn_based_until_human, one turn of its loop *)

AdvanceToNext ==
  /\ pc = "advance" /\ queue = {}
  /\ ready = {}
  /\ \E t \in heap :
       LET time == IF t.due > now THEN t.due ELSE now IN
       /\ IsFirst(t, heap)
       /\ time <= MaxTime
       /\ now' = time
       /\ queue' = Due(heap, time)
       /\ heap' = heap \ Due(heap, time)
  /\ UNCHANGED <<config, people, taskSeq, ready, pause, pc, caller, remaining>>

AdvanceDone ==
  /\ pc = "advance" /\ queue = {}
  /\ ready # {} \/ heap = {}
  /\ pc' = "idle"
  /\ UNCHANGED <<config, people, now, heap, taskSeq, ready, pause, queue, caller, remaining>>

----------------------------------------------------------------------------
(* tick; in strict turns it returns at once *)

Tick(delta) ==
  /\ pc = "idle"
  /\ mode # TurnBased
  /\ pc' = "tick"
  /\ remaining' = delta
  /\ IF pause > 0
       THEN UNCHANGED <<heap, queue>>
       ELSE heap' = heap \ Due(heap, now) /\ queue' = Due(heap, now)
  /\ UNCHANGED <<config, people, now, taskSeq, ready, pause, caller>>

\* Slip: a tick shorter than the pause leaves it as it was.
ConsumedWhole == IF remaining < pause THEN 0 ELSE pause

\* The decision pause consumes wall time first, as much as there is of both.
Consumed == IF remaining < pause THEN remaining ELSE pause

ConsumePause ==
  /\ pc = "tick" /\ queue = {}
  /\ pause > 0
  /\ pause' = pause - Consumed
  /\ remaining' = remaining - Consumed
  /\ pc' = IF remaining - Consumed > 0 THEN "tick" ELSE "idle"
  /\ UNCHANGED <<config, people, now, heap, taskSeq, ready, queue, caller>>

\* _advance_simulation with what the pause left over.
MayAdvance == queue = {} /\ pause = 0

AdvanceSimulation ==
  /\ pc = "tick"
  /\ MayAdvance
  /\ now + remaining <= MaxTime
  /\ now' = now + remaining
  /\ remaining' = 0
  /\ queue' = Due(heap, now + remaining)
  /\ heap' = heap \ Due(heap, now + remaining)
  /\ pc' = "settle"
  /\ UNCHANGED <<config, people, taskSeq, ready, pause, caller>>

TickDone ==
  /\ pc = "settle" /\ queue = {}
  /\ pc' = "idle"
  /\ UNCHANGED <<config, people, now, heap, taskSeq, ready, pause, queue, caller, remaining>>

----------------------------------------------------------------------------
Handle == \E t \in queue :
            \/ ReadyInactive(t) \/ ReadyHuman(t) \/ AiActs(t) \/ AiRaises(t)
            \/ ResolveSpell(t)

Next ==
  \/ \E a \in Actor : AddEntity(a) \/ Dispatch(a)
  \/ \E m \in Mode, w \in Window : UpdateTiming(m, w)
  \/ \E r \in Roster : StartEncounter(r) \/ RejectEncounter(r)
  \/ Refuse \/ Act \/ Kill \/ BeginCast
  \/ Handle
  \/ AdvanceToNext \/ AdvanceDone
  \/ \E d \in TickDelta : Tick(d)
  \/ ConsumePause \/ AdvanceSimulation \/ TickDone

Spec == Init /\ [][Next]_vars

\* What the operation that holds the lock does next.
Held ==
  \/ Refuse \/ Act \/ Kill \/ BeginCast
  \/ Handle
  \/ AdvanceToNext \/ AdvanceDone
  \/ ConsumePause \/ AdvanceSimulation \/ TickDone

\* The holder of the lock goes on, and run_realtime, which asks for the lock
\* again and again, gets it although others take it too: the lock is FIFO.
Fairness == WF_vars(Held) /\ SF_vars(\E d \in TickDelta : Tick(d))
FairSpec == Spec /\ Fairness
----------------------------------------------------------------------------
(* Properties *)

TypeOK ==
  /\ mode \in Mode /\ window \in Window
  /\ joined \subseteq Actor /\ alive \subseteq joined
  /\ now \in Nat /\ taskSeq \in Nat /\ pause \in Nat /\ remaining \in Nat
  /\ heap \subseteq Tasks /\ queue \subseteq Tasks
  /\ ready \subseteq Human
  /\ pc \in {"idle", "dispatch", "advance", "tick", "settle"}
  /\ caller \in Actor \cup {Nobody}

\* A human never holds two turns: being ready and the readiness tasks waiting
\* for it, in the heap or popped, amount to one at most, whatever commands,
\* encounters and mode changes did (dispatch's guard on _has_readiness_task,
\* start_encounter's cancel_matching).
OneTurnPerHuman ==
  \A t \in heap \cup queue :
    t.kind = "actor_ready" /\ t.actor \in Human =>
      /\ t.actor \notin ready
      /\ \A u \in heap \cup queue :
           u.kind = "actor_ready" /\ u.actor = t.actor => u = t

\* While a human decides behind a barrier (strict turn, or decision window) no
\* popped work is left to handle: _process_tasks gave it back to the heap.
DeferredBehindBarrier == Barrier => queue = {}

\* ... and the simulation clock stands still, however often tick, dispatch of
\* another actor, start_encounter or update_timing run meanwhile.
ClockStopsAtBarrier == [][Barrier => now' = now]_vars

\* A tracked actor that stays active keeps a turn, ready or scheduled: commands,
\* refused or not, AI actions and requeued work never lose it.  It is lost only
\* to a call that raises half way: a rejected encounter, a cycle a handler left.
HasTurn(a) == a \in ready \/ \E t \in heap \cup queue : t.kind = "actor_ready" /\ t.actor = a
TurnKept ==
  [][\A a \in alive :
       HasTurn(a) /\ a \in alive' /\ ~HasTurn(a)' =>
         (\E r \in Roster : RejectEncounter(r)) \/ (\E t \in queue : AiRaises(t))]_vars

\* A decision pause ends in time, by itself, in whatever way its human was taken
\* away: an encounter that cancels the readiness leaves the pause without anyone
\* who could end it by acting, and until it ends no due work is handled
\* (docs/TIMING.md: "the pause expires and deferred timeline work resumes").
\* Changing to strict turns, where time stands still, is the only exception.
PauseExpires == pause > 0 /\ mode # TurnBased ~> pause = 0 \/ mode = TurnBased
=============================================================================
