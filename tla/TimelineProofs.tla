--------------------------- MODULE TimelineProofs ---------------------------
(***************************************************************************)
(* Proofs about Timeline, for every set of actors, policy, roster and      *)
(* bound.                                                                  *)
(***************************************************************************)
EXTENDS Timeline, FiniteSetTheorems, TLAPS

\* The scheduler's order never leaves two candidates for the next task.
LEMMA FirstIsUnique ==
  ASSUME NEW S, NEW K, NEW A, S \subseteq Task(K, A),
         NEW s \in S, NEW t \in S, IsFirst(s, S), IsFirst(t, S)
  PROVE  s = t
<1>1. SUFFICES ASSUME s # t PROVE FALSE
  OBVIOUS
<1>2. Before(s, t) /\ Before(t, s)
  BY <1>1 DEF IsFirst
<1>3. s \in Task(K, A) /\ t \in Task(K, A)
  OBVIOUS
<1>4. QED
  BY <1>2, <1>3 DEF Before, Task

\* Popped work exists only while the lock is held, and wall-clock operations do
\* not run in strict turns (update_timing waits for the lock).
LockInv ==
  /\ pc = "idle" => queue = {}
  /\ pc \in {"tick", "settle"} => mode # TurnBased

\* Tasks belong to entities in the state, and a popped task is not in the heap
\* too: a new task carries a sequence number nothing else has.
TaskInv ==
  /\ ready \subseteq joined
  /\ \A t \in heap \cup queue : t.actor \in joined /\ t.sequence <= taskSeq
  /\ heap \cap queue = {}

IInv == TypeOK /\ LockInv /\ TaskInv /\ OneTurnPerHuman /\ DeferredBehindBarrier

\* A freshly made readiness task: its type, and the fields the proofs look at.
LEMMA ReadinessFacts ==
  ASSUME TypeOK, NEW i \in Nat, NEW a \in Actor, NEW d \in Nat
  PROVE  /\ Readiness(i, a, d) \in Tasks
         /\ Readiness(i, a, d).kind = "actor_ready"
         /\ Readiness(i, a, d).actor = a
         /\ Readiness(i, a, d).sequence = taskSeq + i
BY DEF Readiness, NewTask, Task, Tasks, Kind, TypeOK, ReadyPriority

\* The same for the task of a spell being cast.
LEMMA SpellFacts ==
  ASSUME TypeOK, NEW a \in Actor, NEW b \in Actor, NEW d \in Nat
  PROVE  /\ NewTask(1, d, SpellPriority, "spell_resolve", a, b) \in Tasks
         /\ NewTask(1, d, SpellPriority, "spell_resolve", a, b).kind = "spell_resolve"
         /\ NewTask(1, d, SpellPriority, "spell_resolve", a, b).actor = a
         /\ NewTask(1, d, SpellPriority, "spell_resolve", a, b).sequence = taskSeq + 1
BY DEF NewTask, Task, Tasks, Kind, TypeOK, SpellPriority

LEMMA InitStep == Init => IInv
BY ModeAssumption, TimeAssumption
   DEF Init, IInv, TypeOK, LockInv, TaskInv, OneTurnPerHuman, DeferredBehindBarrier

\* add_entity: the new actor had no task, so the new one is its only turn.
LEMMA AddEntityStep ==
  ASSUME IInv, NEW a \in Actor, AddEntity(a)
  PROVE  IInv'
<1> DEFINE n == Readiness(1, a, 0)
<1>1. /\ n \in Tasks /\ n.kind = "actor_ready" /\ n.actor = a
      /\ n.sequence = taskSeq + 1
  <2>1. TypeOK /\ 1 \in Nat /\ 0 \in Nat
    BY DEF IInv
  <2> QED
    BY <2>1, ReadinessFacts DEF n
<1> HIDE DEF n
<1>2. /\ queue = {} /\ queue' = {} /\ heap' = heap \cup {n}
      /\ a \notin joined /\ joined' = joined \cup {a} /\ alive' = alive \cup {a}
      /\ taskSeq' = taskSeq + 1 /\ ready' = ready /\ pause' = pause
      /\ UNCHANGED <<mode, window, now, pc, caller, remaining>>
  BY DEF AddEntity, IInv, LockInv, config, n
<1>3. TypeOK'
  BY <1>1, <1>2 DEF IInv, TypeOK
<1>4. LockInv' /\ TaskInv'
  BY <1>1, <1>2 DEF IInv, TypeOK, LockInv, TaskInv, Tasks, Task
<1>5. OneTurnPerHuman'
  BY <1>1, <1>2 DEF IInv, OneTurnPerHuman, TaskInv
<1>6. DeferredBehindBarrier'
  BY <1>2 DEF DeferredBehindBarrier
<1> QED
  BY <1>3, <1>4, <1>5, <1>6 DEF IInv

\* Work that is only dropped or moved between the heap and the popped list, as
\* by pop_due, requeue_many and cancel_matching, keeps what is said of tasks.
LEMMA Rearranged ==
  ASSUME IInv,
         heap' \cup queue' \subseteq heap \cup queue, heap' \cap queue' = {},
         ready' \subseteq ready, joined' = joined, taskSeq' = taskSeq
  PROVE  /\ heap' \subseteq Tasks /\ queue' \subseteq Tasks
         /\ ready' \subseteq Human
         /\ TaskInv' /\ OneTurnPerHuman'
<1>1. heap' \subseteq Tasks /\ queue' \subseteq Tasks /\ ready' \subseteq Human
  BY DEF IInv, TypeOK
<1>2. TaskInv'
  BY DEF IInv, TaskInv
<1>3. OneTurnPerHuman'
  BY DEF IInv, OneTurnPerHuman
<1> QED
  BY <1>1, <1>2, <1>3

LEMMA UpdateTimingStep ==
  ASSUME IInv, NEW m \in Mode, NEW w \in Window, UpdateTiming(m, w)
  PROVE  IInv'
<1>1. TaskInv' /\ OneTurnPerHuman'
  BY Rearranged DEF UpdateTiming, people, IInv, TaskInv
<1>2. TypeOK'
  BY DEF UpdateTiming, people, IInv, TypeOK
<1>3. LockInv' /\ DeferredBehindBarrier'
  BY DEF UpdateTiming, people, IInv, LockInv, DeferredBehindBarrier
<1> QED
  BY <1>1, <1>2, <1>3 DEF IInv

LEMMA RejectEncounterStep ==
  ASSUME IInv, NEW r \in Roster, RejectEncounter(r)
  PROVE  IInv'
<1>1. /\ pc = "idle" /\ heap' \subseteq heap /\ ready' \subseteq ready
      /\ UNCHANGED <<mode, window, joined, alive, now, taskSeq, pause, pc, queue, caller, remaining>>
  BY DEF RejectEncounter, CancelMatching, config, people
<1>2. heap' \subseteq Tasks /\ ready' \subseteq Human /\ TaskInv' /\ OneTurnPerHuman'
  BY <1>1, Rearranged DEF IInv, TaskInv
<1>3. TypeOK' /\ LockInv' /\ DeferredBehindBarrier'
  BY <1>1, <1>2 DEF IInv, TypeOK, LockInv, DeferredBehindBarrier
<1> QED
  BY <1>2, <1>3 DEF IInv

\* dispatch and tick pop what is due unless their guard sees a barrier.
LEMMA DispatchStep ==
  ASSUME IInv, NEW a \in Actor, Dispatch(a)
  PROVE  IInv'
<1>1. /\ queue = {} /\ heap' \cup queue' = heap /\ heap' \cap queue' = {}
      /\ UNCHANGED <<mode, window, joined, alive, now, taskSeq, ready, pause, remaining>>
  BY DEF Dispatch, config, people, Due, IInv, LockInv
<1>2. /\ heap' \subseteq Tasks /\ queue' \subseteq Tasks
      /\ TaskInv' /\ OneTurnPerHuman'
  BY <1>1, Rearranged
<1>3. TypeOK' /\ LockInv'
  BY <1>1, <1>2 DEF IInv, TypeOK, LockInv, Dispatch
<1>4. DeferredBehindBarrier'
  BY <1>1 DEF Dispatch, BarrierActive, DeferredBehindBarrier, Barrier, BarrierUp
<1> QED
  BY <1>2, <1>3, <1>4 DEF IInv

LEMMA TickStep ==
  ASSUME IInv, NEW d \in TickDelta, Tick(d)
  PROVE  IInv'
<1>1. /\ queue = {} /\ heap' \cup queue' = heap /\ heap' \cap queue' = {}
      /\ UNCHANGED <<mode, window, joined, alive, now, taskSeq, ready, pause, caller>>
  BY DEF Tick, config, people, Due, IInv, LockInv
<1>2. /\ heap' \subseteq Tasks /\ queue' \subseteq Tasks
      /\ TaskInv' /\ OneTurnPerHuman'
  BY <1>1, Rearranged
<1>3. TypeOK' /\ LockInv'
  BY <1>1, <1>2, TimeAssumption DEF IInv, TypeOK, LockInv, Tick
<1>4. DeferredBehindBarrier'
  BY <1>1 DEF Tick, DeferredBehindBarrier, Barrier, BarrierUp, IInv, TypeOK
<1> QED
  BY <1>2, <1>3, <1>4 DEF IInv

\* The steps that leave the tasks and the ready set alone.
LEMMA QuietStep ==
  ASSUME IInv, Refuse \/ AdvanceDone \/ ConsumePause \/ TickDone
  PROVE  IInv'
<1>1. /\ queue = {} /\ heap' = heap /\ queue' = queue
      /\ UNCHANGED <<mode, window, joined, alive, now, taskSeq, ready>>
  BY DEF Refuse, AdvanceDone, ConsumePause, Consumed, TickDone, config, people
<1>2. TaskInv' /\ OneTurnPerHuman'
  BY <1>1, Rearranged DEF IInv, TaskInv
<1>3. TypeOK'
  BY <1>1 DEF IInv, TypeOK, Refuse, AdvanceDone, ConsumePause, Consumed, TickDone
<1>4. LockInv'
  BY <1>1 DEF IInv, LockInv, Refuse, AdvanceDone, ConsumePause, Consumed, TickDone
<1>5. DeferredBehindBarrier'
  BY <1>1 DEF DeferredBehindBarrier
<1> QED
  BY <1>2, <1>3, <1>4, <1>5 DEF IInv

\* The two loops that move the clock: nobody is ready in strict turns, and in
\* the other modes no decision pause is left.
LEMMA AdvanceStep ==
  ASSUME IInv, AdvanceToNext \/ AdvanceSimulation
  PROVE  IInv' /\ ~Barrier
<1>1. /\ queue = {} /\ heap' \cup queue' = heap /\ heap' \cap queue' = {}
      /\ UNCHANGED <<mode, window, joined, alive, taskSeq, ready, pause, caller>>
  BY DEF AdvanceToNext, AdvanceSimulation, MayAdvance, config, people, Due
<1>2. /\ heap' \subseteq Tasks /\ queue' \subseteq Tasks
      /\ TaskInv' /\ OneTurnPerHuman'
  BY <1>1, Rearranged
<1>3. now' \in Nat
  <2>1. CASE AdvanceSimulation
    BY <2>1 DEF AdvanceSimulation, MayAdvance, IInv, TypeOK
  <2>2. CASE AdvanceToNext
    <3>1. PICK t \in heap : now' = IF t.due > now THEN t.due ELSE now
      BY <2>2 DEF AdvanceToNext
    <3>2. t.due \in Nat
      BY DEF IInv, TypeOK, Tasks, Task
    <3> QED
      BY <3>1, <3>2 DEF IInv, TypeOK
  <2> QED
    BY <2>1, <2>2
<1>4. TypeOK' /\ LockInv'
  BY <1>1, <1>2, <1>3 DEF IInv, TypeOK, LockInv, AdvanceToNext, AdvanceSimulation, MayAdvance
<1>5. ~Barrier
  BY DEF AdvanceToNext, AdvanceSimulation, MayAdvance, Barrier, BarrierUp, IInv, LockInv, TypeOK
<1>6. DeferredBehindBarrier'
  BY <1>1, <1>5 DEF DeferredBehindBarrier, Barrier, BarrierUp
<1> QED
  BY <1>2, <1>4, <1>5, <1>6 DEF IInv

\* Handlers that schedule nothing and make nobody ready.
LEMMA DropTaskStep ==
  ASSUME IInv, NEW t \in queue, ReadyInactive(t) \/ ResolveSpell(t)
  PROVE  IInv'
<1>1. /\ UNCHANGED <<mode, window, joined, now, taskSeq, ready, pause, pc, caller, remaining>>
      /\ alive' \subseteq alive
      /\ Continue(heap, queue \ {t}, ready, pause)
  BY DEF ReadyInactive, ResolveSpell, config, people
<1>2. /\ heap' \cup queue' \subseteq heap \cup queue /\ heap' \cap queue' = {}
      /\ queue' = {} \/ ~BarrierUp(ready, pause)
      /\ pc # "idle"
  BY <1>1 DEF Continue, IInv, TaskInv, LockInv
<1>3. /\ heap' \subseteq Tasks /\ queue' \subseteq Tasks
      /\ TaskInv' /\ OneTurnPerHuman'
  BY <1>1, <1>2, Rearranged
<1>4. TypeOK' /\ LockInv' /\ DeferredBehindBarrier'
  BY <1>1, <1>2, <1>3
     DEF IInv, TypeOK, LockInv, DeferredBehindBarrier, Barrier, BarrierUp
<1> QED
  BY <1>3, <1>4 DEF IInv

\* The human's only readiness task becomes its place in the ready set.
LEMMA ReadyHumanStep ==
  ASSUME IInv, NEW t \in queue, ReadyHuman(t)
  PROVE  IInv'
<1>1. /\ UNCHANGED <<mode, window, joined, alive, now, taskSeq, pc, caller, remaining>>
      /\ t.kind = "actor_ready" /\ t.actor \in alive \cap Human
      /\ ready' = ready \cup {t.actor}
      /\ pause' \in {window, pause}
      /\ Continue(heap, queue \ {t}, ready', pause')
  BY DEF ReadyHuman, config, people
<1>2. /\ heap' \cup queue' = (heap \cup queue) \ {t} /\ heap' \cap queue' = {}
      /\ queue' = {} \/ ~BarrierUp(ready', pause')
      /\ pc # "idle"
  BY <1>1 DEF Continue, IInv, TaskInv, LockInv
<1>3. TaskInv'
  BY <1>1, <1>2 DEF IInv, TypeOK, TaskInv
<1>4. OneTurnPerHuman'
  BY <1>1, <1>2 DEF IInv, OneTurnPerHuman
<1>5. TypeOK' /\ LockInv' /\ DeferredBehindBarrier'
  BY <1>1, <1>2, TimeAssumption
     DEF IInv, TypeOK, LockInv, DeferredBehindBarrier, Barrier, BarrierUp
<1> QED
  BY <1>3, <1>4, <1>5 DEF IInv

\* An AI actor's new readiness is no human's turn.
LEMMA AiActsStep ==
  ASSUME IInv, NEW t \in queue, AiActs(t)
  PROVE  IInv'
<1>1. PICK d \in AiTime :
        Continue(heap \cup {Readiness(1, t.actor, d)}, queue \ {t}, ready, pause)
  BY DEF AiActs
<1>2. /\ UNCHANGED <<mode, window, joined, now, ready, pause, pc, caller, remaining>>
      /\ taskSeq' = taskSeq + 1 /\ alive' \subseteq alive
      /\ t.actor \in Ai /\ t.actor \in Actor /\ t.actor \in joined
      /\ t.actor \notin Human
  BY ActorAssumption DEF AiActs, config, Actor, IInv, TypeOK
<1> DEFINE n == Readiness(1, t.actor, d)
<1>3. /\ n \in Tasks /\ n.kind = "actor_ready" /\ n.actor = t.actor
      /\ n.sequence = taskSeq + 1
  <2>1. TypeOK /\ 1 \in Nat /\ d \in Nat
    BY TimeAssumption DEF IInv
  <2> QED
    BY <1>2, <2>1, ReadinessFacts DEF n
<1>4. Continue(heap \cup {n}, queue \ {t}, ready, pause)
  BY <1>1 DEF n
<1> HIDE DEF n
<1>5. n \notin heap \cup queue
  BY <1>3 DEF IInv, TypeOK, TaskInv
<1>6. /\ heap' \cup queue' = ((heap \cup queue) \ {t}) \cup {n}
      /\ heap' \cap queue' = {}
      /\ queue' = {} \/ ~BarrierUp(ready, pause)
      /\ pc # "idle"
  BY <1>4, <1>5 DEF Continue, IInv, TaskInv, LockInv
<1>7. TaskInv'
  BY <1>2, <1>3, <1>6 DEF IInv, TypeOK, TaskInv, Tasks, Task
<1>8. OneTurnPerHuman'
  BY <1>2, <1>3, <1>6 DEF IInv, OneTurnPerHuman
<1>9. TypeOK' /\ LockInv' /\ DeferredBehindBarrier'
  BY <1>2, <1>3, <1>6
     DEF IInv, TypeOK, LockInv, DeferredBehindBarrier, Barrier, BarrierUp
<1> QED
  BY <1>7, <1>8, <1>9 DEF IInv

\* A handler that raises drops the popped work and ends the operation.
LEMMA AiRaisesStep ==
  ASSUME IInv, NEW t \in queue, AiRaises(t)
  PROVE  IInv'
<1>1. /\ pc' = "idle" /\ queue' = {} /\ caller' = Nobody /\ remaining' = 0
      /\ UNCHANGED <<mode, window, joined, alive, now, heap, taskSeq, ready, pause>>
  BY DEF AiRaises, config, people
<1>2. TaskInv' /\ OneTurnPerHuman'
  BY <1>1, Rearranged DEF IInv, TaskInv
<1>3. TypeOK' /\ LockInv' /\ DeferredBehindBarrier'
  BY <1>1 DEF IInv, TypeOK, LockInv, DeferredBehindBarrier
<1> QED
  BY <1>2, <1>3 DEF IInv

\* A command: a ready human gives up its place for the new task; one that is
\* not ready had no task, or dispatch would have refused it.
LEMMA ActedStep ==
  ASSUME IInv, NEW S \in SUBSET Tasks, NEW d \in Nat, Acted(S, d),
         Cardinality(S) \in {0, 1}, alive' \subseteq alive,
         \A s \in S : s.kind = "spell_resolve" /\ s.actor = caller /\ s.sequence = taskSeq + 1
  PROVE  IInv'
<1> DEFINE n == Readiness(Cardinality(S) + 1, caller, d)
<1>1. caller \in joined /\ caller \in Actor
  BY DEF Acted, MayAct, IInv, TypeOK
<1>2. /\ n \in Tasks /\ n.kind = "actor_ready" /\ n.actor = caller
      /\ n.sequence = taskSeq + Cardinality(S) + 1
  <2>1. TypeOK /\ Cardinality(S) + 1 \in Nat
    BY DEF IInv
  <2>2. n.sequence = taskSeq + (Cardinality(S) + 1)
    BY <1>1, <2>1, ReadinessFacts DEF n
  <2> QED
    BY <1>1, <2>1, <2>2, ReadinessFacts DEF n, TypeOK
<1>3. heap' = heap \cup S \cup {n}
  BY DEF Acted, n
<1> HIDE DEF n
<1>4. /\ queue = {} /\ queue' = {}
      /\ ready' = IF caller \in Human THEN ready \ {caller} ELSE ready
      /\ taskSeq' = taskSeq + (Cardinality(S) + 1)
      /\ pause' \in {0, pause}
      /\ pc' \in {"advance", "idle"} /\ caller' = Nobody
      /\ UNCHANGED <<mode, window, joined, now, remaining>>
  BY DEF Acted, PauseAfter, config
<1>5. TaskInv'
  BY <1>1, <1>2, <1>3, <1>4 DEF IInv, TypeOK, TaskInv, Tasks, Task
<1>6. caller \in Human => \A t \in heap : ~(t.kind = "actor_ready" /\ t.actor = caller)
  BY DEF Acted, MayAct, HasReadinessTask, IInv, OneTurnPerHuman
<1>7. OneTurnPerHuman'
  BY <1>2, <1>3, <1>4, <1>6 DEF IInv, OneTurnPerHuman
<1>8. TypeOK' /\ LockInv' /\ DeferredBehindBarrier'
  BY <1>2, <1>3, <1>4 DEF IInv, TypeOK, LockInv, DeferredBehindBarrier
<1> QED
  BY <1>5, <1>7, <1>8 DEF IInv

LEMMA CommandStep ==
  ASSUME IInv, Act \/ Kill \/ BeginCast
  PROVE  IInv'
<1>1. {} \in SUBSET Tasks /\ Cardinality({}) = 0
  BY FS_EmptySet
<1>2. CASE Act
  BY <1>1, <1>2, ActedStep, TimeAssumption DEF Act
<1>3. CASE Kill
  BY <1>1, <1>3, ActedStep, TimeAssumption DEF Kill
<1>4. CASE BeginCast
  <2>1. PICK target \in joined, d \in HumanTime :
          /\ Acted({NewTask(1, d, SpellPriority, "spell_resolve", caller, target)}, d)
          /\ UNCHANGED alive
    BY <1>4 DEF BeginCast
  <2> DEFINE s == NewTask(1, d, SpellPriority, "spell_resolve", caller, target)
  <2>2. TypeOK /\ caller \in Actor /\ target \in Actor /\ d \in Nat
    BY <2>1, TimeAssumption DEF Acted, MayAct, IInv, TypeOK
  <2>3. /\ s \in Tasks /\ s.kind = "spell_resolve" /\ s.actor = caller
        /\ s.sequence = taskSeq + 1
    BY <2>2, SpellFacts DEF s
  <2>4. Acted({s}, d)
    BY <2>1 DEF s
  <2> HIDE DEF s
  <2>5. {s} \in SUBSET Tasks /\ Cardinality({s}) = 1
    BY <2>3, FS_Singleton
  <2> QED
    BY <2>1, <2>2, <2>3, <2>4, <2>5, ActedStep
<1> QED
  BY <1>2, <1>3, <1>4

\* The initiative order replaces every readiness its members had.
LEMMA StartEncounterStep ==
  ASSUME IInv, NEW r \in Roster, StartEncounter(r)
  PROVE  IInv'
<1> DEFINE members == {r[i] : i \in DOMAIN r}
           kept    == {t \in heap : ~(t.kind = "actor_ready" /\ t.actor \in members)}
           N       == {Readiness(i, r[i], i - 1) : i \in DOMAIN r}
<1>1. r \in Seq(Actor) /\ Injective(r) /\ Len(r) \in Nat /\ DOMAIN r = 1..Len(r)
  BY RosterAssumption
<1>2. members \subseteq joined /\ members \subseteq Actor
  BY DEF StartEncounter, CancelMatching, IInv, TypeOK
<1>3. /\ queue = {} /\ queue' = {} /\ heap' = kept \cup N
      /\ taskSeq' = taskSeq + Len(r) /\ ready' = ready \ members
      /\ pc' \in {"advance", "idle"}
      /\ UNCHANGED <<mode, window, joined, alive, now, pause, caller, remaining>>
  BY DEF StartEncounter, CancelMatching, IInv, LockInv, config, people
<1>4. \A n \in N : \E i \in DOMAIN r :
        /\ n = Readiness(i, r[i], i - 1) /\ n \in Tasks /\ n.actor = r[i]
        /\ n.sequence <= taskSeq + Len(r)
  <2>1. SUFFICES ASSUME NEW i \in DOMAIN r
                 PROVE  LET n == Readiness(i, r[i], i - 1) IN
                        /\ n \in Tasks /\ n.actor = r[i]
                        /\ n.sequence <= taskSeq + Len(r)
    OBVIOUS
  <2>2. TypeOK /\ i \in Nat /\ i - 1 \in Nat /\ r[i] \in Actor /\ i <= Len(r)
    BY <1>1 DEF IInv
  <2>3. taskSeq + i <= taskSeq + Len(r)
    BY <1>1, <2>2 DEF TypeOK
  <2> QED
    BY <2>2, <2>3, ReadinessFacts
<1> HIDE DEF N
<1>5. \A n, m \in N : n.actor = m.actor => n = m
  BY <1>1, <1>4 DEF Injective
<1>6. \A n \in N : n.actor \in members
  BY <1>4
<1>7. TaskInv'
  BY <1>1, <1>2, <1>3, <1>4, <1>6 DEF IInv, TypeOK, TaskInv, Tasks, Task
<1>8. OneTurnPerHuman'
  BY <1>3, <1>5, <1>6 DEF IInv, OneTurnPerHuman
<1>9. TypeOK' /\ LockInv' /\ DeferredBehindBarrier'
  BY <1>1, <1>3, <1>4 DEF IInv, TypeOK, LockInv, DeferredBehindBarrier
<1> QED
  BY <1>7, <1>8, <1>9 DEF IInv

LEMMA NextStep == IInv /\ [Next]_vars => IInv'
<1>1. SUFFICES ASSUME IInv, [Next]_vars PROVE IInv'
  OBVIOUS
<1>2. CASE UNCHANGED vars
  BY <1>1, <1>2 DEF vars, IInv, TypeOK, LockInv, TaskInv, OneTurnPerHuman,
                    DeferredBehindBarrier, Barrier, BarrierUp
<1>3. CASE Handle
  BY <1>1, <1>3, DropTaskStep, ReadyHumanStep, AiActsStep, AiRaisesStep DEF Handle
<1>4. CASE Next /\ ~Handle
  BY <1>1, <1>4, AddEntityStep, DispatchStep, UpdateTimingStep, StartEncounterStep,
     RejectEncounterStep, QuietStep, CommandStep, AdvanceStep, TickStep DEF Next
<1> QED
  BY <1>1, <1>2, <1>3, <1>4

LEMMA Inductive == Spec => []IInv
BY InitStep, NextStep, PTL DEF Spec

\* Every reachable state of the engine is well formed.
THEOREM TypeCorrect == Spec => []TypeOK
<1>1. IInv => TypeOK
  BY DEF IInv
<1> QED
  BY <1>1, Inductive, PTL

\* Being ready and waiting to be made ready add up to one turn per human: no
\* order of commands, drains, encounters and mode changes hands out a second.
THEOREM NoSecondTurn == Spec => []OneTurnPerHuman
<1>1. IInv => OneTurnPerHuman
  BY DEF IInv
<1> QED
  BY <1>1, Inductive, PTL

\* Behind a barrier nothing popped is left to handle.
THEOREM BarrierDefers == Spec => []DeferredBehindBarrier
<1>1. IInv => DeferredBehindBarrier
  BY DEF IInv
<1> QED
  BY <1>1, Inductive, PTL

\* No step of any operation moves the simulation clock while a human decides
\* behind a barrier.
THEOREM BarrierStopsClock == Spec => ClockStopsAtBarrier
<1>1. ASSUME IInv, Next, Barrier PROVE now' = now
  <2>1. ~AdvanceToNext /\ ~AdvanceSimulation
    BY <1>1, AdvanceStep
  <2>2. CASE Handle
    BY <2>2 DEF Handle, ReadyInactive, ReadyHuman, AiActs, AiRaises, ResolveSpell
  <2>3. CASE Act \/ Kill \/ BeginCast
    BY <2>3 DEF Act, Kill, BeginCast, Acted
  <2>4. CASE Next /\ ~Handle /\ ~(Act \/ Kill \/ BeginCast)
    BY <2>1, <2>4 DEF Next, AddEntity, Dispatch, UpdateTiming, StartEncounter,
       RejectEncounter, Refuse, AdvanceDone, Tick, ConsumePause, TickDone
  <2> QED
    BY <1>1, <2>2, <2>3, <2>4
<1>2. IInv /\ [Next]_vars => [Barrier => now' = now]_vars
  BY <1>1
<1> QED
  BY <1>2, Inductive, PTL DEF Spec, ClockStopsAtBarrier
----------------------------------------------------------------------------
(* Turns are kept *)

ReadinessOf(t, a) == t.kind = "actor_ready" /\ t.actor = a

\* Where every task stays in the heap or among the popped ones, turns do.
LEMMA TasksKeepTurns ==
  ASSUME ready \subseteq ready', heap \cup queue \subseteq heap' \cup queue',
         NEW a, HasTurn(a)
  PROVE  HasTurn(a)'
BY DEF HasTurn

\* A handled task is the only one that goes.
LEMMA HandledKeepsTurns ==
  ASSUME IInv, NEW t \in queue, ready \subseteq ready',
         (heap \cup queue) \ {t} \subseteq heap' \cup queue',
         NEW a, HasTurn(a), ReadinessOf(t, a) => HasTurn(a)'
  PROVE  HasTurn(a)'
BY DEF HasTurn, ReadinessOf

\* What _process_tasks leaves of the tasks: all but the one it handled.
LEMMA ContinueKeeps ==
  ASSUME NEW H, NEW t, NEW r, NEW p, Continue(H, queue \ {t}, r, p)
  PROVE  H \cup (queue \ {t}) \subseteq heap' \cup queue'
BY DEF Continue

LEMMA HandleKeepsTurns ==
  ASSUME IInv, NEW t \in queue, NEW a \in alive, HasTurn(a),
         ReadyInactive(t) \/ ReadyHuman(t) \/ AiActs(t) \/ ResolveSpell(t)
  PROVE  HasTurn(a)'
<1>1. CASE ReadyInactive(t)
  <2>1. ready' = ready /\ ~ReadinessOf(t, a) /\ Continue(heap, queue \ {t}, ready, pause)
    BY <1>1 DEF ReadyInactive, ReadinessOf
  <2> QED
    BY <2>1, ContinueKeeps, HandledKeepsTurns
<1>2. CASE ReadyHuman(t)
  <2>1. PICK p : /\ ready' = ready \cup {t.actor}
                 /\ Continue(heap, queue \ {t}, ready \cup {t.actor}, p)
    BY <1>2 DEF ReadyHuman
  <2>2. ReadinessOf(t, a) => HasTurn(a)'
    BY <2>1 DEF ReadinessOf, HasTurn
  <2>3. ready \subseteq ready' /\ (heap \cup queue) \ {t} \subseteq heap' \cup queue'
    BY <2>1 DEF Continue
  <2> QED
    BY <2>2, <2>3, HandledKeepsTurns
<1>3. CASE AiActs(t)
  <2>1. PICK d \in AiTime :
          Continue(heap \cup {Readiness(1, t.actor, d)}, queue \ {t}, ready, pause)
    BY <1>3 DEF AiActs
  <2> DEFINE n == Readiness(1, t.actor, d)
  <2>2. n.kind = "actor_ready" /\ n.actor = t.actor
    BY DEF Readiness, NewTask
  <2>3. ready' = ready /\ Continue(heap \cup {n}, queue \ {t}, ready, pause)
    BY <1>3, <2>1 DEF AiActs
  <2> HIDE DEF n
  <2>4. n \in heap' \cup queue' /\ (heap \cup queue) \ {t} \subseteq heap' \cup queue'
    <3>1. (heap \cup {n}) \cup (queue \ {t}) \subseteq heap' \cup queue'
      BY <2>3, ContinueKeeps
    <3> QED
      BY <3>1
  <2>5. ReadinessOf(t, a) => HasTurn(a)'
    BY <2>2, <2>4 DEF ReadinessOf, HasTurn
  <2> QED
    BY <2>3, <2>4, <2>5, HandledKeepsTurns
<1>4. CASE ResolveSpell(t)
  <2>1. ready' = ready /\ ~ReadinessOf(t, a) /\ Continue(heap, queue \ {t}, ready, pause)
    BY <1>4 DEF ResolveSpell, ReadinessOf
  <2> QED
    BY <2>1, ContinueKeeps, HandledKeepsTurns
<1> QED
  BY <1>1, <1>2, <1>3, <1>4

\* start_encounter gives every readiness it cancels a new one.
LEMMA EncounterKeepsTurns ==
  ASSUME IInv, NEW r \in Roster, StartEncounter(r), NEW a, HasTurn(a)
  PROVE  HasTurn(a)'
<1> DEFINE members == {r[i] : i \in DOMAIN r}
           N == {Readiness(i, r[i], i - 1) : i \in DOMAIN r}
<1>1. /\ heap' = CancelMatching(heap, "actor_ready", members) \cup N
      /\ queue' = queue /\ ready' = ready \ members
  BY DEF StartEncounter
<1>2. CASE a \in members
  <2>1. PICK i \in DOMAIN r : r[i] = a
    BY <1>2
  <2> DEFINE n == Readiness(i, r[i], i - 1)
  <2>2. n.kind = "actor_ready" /\ n.actor = a
    BY <2>1 DEF Readiness, NewTask
  <2>3. n \in heap'
    BY <1>1
  <2> QED
    BY <2>2, <2>3 DEF HasTurn
<1>3. CASE a \notin members
  BY <1>1, <1>3 DEF HasTurn, CancelMatching
<1> QED
  BY <1>2, <1>3

\* A command takes the turn of a ready human and schedules its next.
LEMMA CommandKeepsTurns ==
  ASSUME Act \/ Kill \/ BeginCast, NEW a, HasTurn(a)
  PROVE  HasTurn(a)'
<1>1. PICK S, d : Acted(S, d)
  BY DEF Act, Kill, BeginCast
<1> DEFINE n == Readiness(Cardinality(S) + 1, caller, d)
<1>2. n.kind = "actor_ready" /\ n.actor = caller
  BY DEF Readiness, NewTask
<1>3. heap' = heap \cup S \cup {n} /\ queue' = queue /\ ready \ {caller} \subseteq ready'
  BY <1>1 DEF Acted
<1> HIDE DEF n
<1> QED
  BY <1>2, <1>3 DEF HasTurn

\* dispatch, _process_tasks, start_encounter: an actor that stays active keeps its
\* turn, but in a call that raises half way.
THEOREM TurnsAreKept == Spec => TurnKept
<1> DEFINE Raises == (\E r \in Roster : RejectEncounter(r)) \/ (\E t \in queue : AiRaises(t))
           Keeps == \A a \in alive : HasTurn(a) /\ a \in alive' /\ ~HasTurn(a)' => Raises
<1>1. ASSUME IInv, Next
      PROVE  Keeps
  <2>1. SUFFICES ASSUME NEW a \in alive, HasTurn(a), ~Raises
                 PROVE  HasTurn(a)'
    OBVIOUS
  <2>2. CASE Handle
    BY <1>1, <2>1, <2>2, HandleKeepsTurns DEF Handle
  <2>3. CASE \E r \in Roster : StartEncounter(r)
    BY <1>1, <2>1, <2>3, EncounterKeepsTurns
  <2>4. CASE Act \/ Kill \/ BeginCast
    BY <2>1, <2>4, CommandKeepsTurns
  <2>5. CASE \/ \E b \in Actor : AddEntity(b) \/ Dispatch(b)
             \/ \E m \in Mode, w \in Window : UpdateTiming(m, w)
             \/ Refuse \/ AdvanceToNext \/ AdvanceDone
             \/ \E d \in TickDelta : Tick(d)
             \/ ConsumePause \/ AdvanceSimulation \/ TickDone
    <3>1. ready' = ready
      BY <2>5 DEF AddEntity, Dispatch, UpdateTiming, Refuse, AdvanceToNext, AdvanceDone, Tick,
                  ConsumePause, AdvanceSimulation, TickDone
    <3>2. pc = "idle" => queue = {}
      BY <1>1 DEF IInv, LockInv
    <3>3. heap \cup queue \subseteq heap' \cup queue'
      BY <2>5, <3>2 DEF AddEntity, Dispatch, UpdateTiming, Refuse, AdvanceToNext, AdvanceDone,
                        Tick, ConsumePause, AdvanceSimulation, MayAdvance, TickDone, Due
    <3> QED
      BY <2>1, <3>1, <3>3, TasksKeepTurns
  <2> QED
    BY <1>1, <2>1, <2>2, <2>3, <2>4, <2>5 DEF Next
<1>2. IInv /\ [Next]_vars => [Keeps]_vars
  BY <1>1
<1> QED
  BY <1>2, Inductive, PTL DEF Spec, TurnKept
=============================================================================
