------------------------------- MODULE ZeroHp --------------------------------
(***************************************************************************)
(* A player character at zero hit points, under rules with death saves:    *)
(* the two versions of the handlers (GameEngine's own in core/engine.py,   *)
(* and AdvancedGameEngine's over the SRD runtime), with everything that    *)
(* changes the character's hit points and its readiness.  Others' turns    *)
(* and time are the environment: a readiness task may fall due at any      *)
(* moment, so tasks are counted, in the heap and among those the running   *)
(* _process_tasks has popped, which cancel_matching no longer reaches.     *)
(***************************************************************************)
EXTENDS Naturals

CONSTANTS
  Profile,     \* the handlers in use: "core", "srd"
  Controller,  \* who plays the character: "human", "ai"
  SuccessesRequired, FailuresRequired,   \* the rule set's death_save numbers
  HpBound,     \* bound: maximum hit points
  TaskBound    \* bound: readiness tasks

ASSUME ConstantAssumption ==
  /\ Profile \subseteq {"core", "srd"}
  /\ Controller \subseteq {"human", "ai"}
  /\ SuccessesRequired \in Nat \ {0} /\ FailuresRequired \in Nat \ {0}
  /\ HpBound \in Nat \ {0} /\ TaskBound \in Nat

VARIABLES
  profile, controller,
  alive, hp, top,              \* Entity.alive, resources.hp and max_hp
  tracked,                     \* the death_saves component is not empty
  successes, failures, stable, \* ... and what it says
  unconscious,                 \* the condition is active
  expiring,                    \* a condition_expire of it is scheduled
  ready,                       \* in _ready_humans
  pending, popped,             \* readiness tasks: in the heap, in the running cycle
  halfway                      \* history: a call that raised half way took the tasks,
                               \* or the hit points, and nothing was scheduled since

setup == <<profile, controller>>
death == <<tracked, successes, failures, stable>>
body == <<alive, hp, top, tracked, successes, failures, stable, unconscious>>
turn == <<ready, pending, popped, halfway>>
vars == <<profile, controller, alive, hp, top, tracked, successes, failures, stable,
          unconscious, expiring, ready, pending, popped, halfway>>

Init ==
  /\ profile \in Profile /\ controller \in Controller
  /\ alive = TRUE /\ top \in 1..HpBound /\ hp = top
  /\ tracked = FALSE /\ successes = 0 /\ failures = 0 /\ stable = FALSE
  /\ unconscious = FALSE /\ expiring = FALSE
  /\ ready = FALSE /\ pending = 1 /\ popped = 0 /\ halfway = FALSE

Lower(m, n) == IF m < n THEN m ELSE n
Minus(m, n) == IF m < n THEN 0 ELSE m - n

----------------------------------------------------------------------------
(* Readiness *)

\* _schedule_actor_ready, after cancelling what the heap holds or on top of it.
ScheduleAfter(kept) ==
  /\ kept + popped' < TaskBound
  /\ pending' = kept + 1 /\ halfway' = FALSE
Schedule == ScheduleAfter(pending)
NoSchedule == UNCHANGED <<pending, halfway>>

\* Some of the character's tasks fall due and are popped ...
Pop ==
  /\ popped = 0
  /\ \E n \in 1..pending : popped' = n /\ pending' = pending - n
  /\ UNCHANGED <<setup, body, expiring, ready, halfway>>

\* ... and return to the heap when somebody's readiness raises the barrier.
Requeue ==
  /\ popped > 0
  /\ pending' = pending + popped /\ popped' = 0
  /\ UNCHANGED <<setup, body, expiring, ready, halfway>>

\* ... or are lost with the rest of the cycle, when a handler raises (an AI actor
\* that a condition keeps from attacking).
CycleRaises ==
  /\ popped > 0
  /\ popped' = 0 /\ halfway' = TRUE
  /\ UNCHANGED <<setup, body, expiring, ready, pending>>

\* start_encounter with the character among the participants, or one that meets
\* an inactive participant after it: that one raises, the readiness is gone.
StartEncounter ==
  /\ popped = 0 /\ alive
  /\ UNCHANGED <<setup, body, expiring, popped>>
  /\ ready' = FALSE
  /\ ScheduleAfter(0)

RejectEncounter ==
  /\ popped = 0 /\ alive
  /\ ready' = FALSE /\ pending' = 0 /\ halfway' = TRUE
  /\ UNCHANGED <<setup, body, expiring, popped>>

----------------------------------------------------------------------------
(* _handle_zero_hp *)

\* A fresh fall.
Fall ==
  /\ tracked' = TRUE /\ successes' = 0 /\ failures' = 0 /\ stable' = FALSE
  /\ unconscious' = TRUE
  /\ ScheduleAfter(0)
  /\ UNCHANGED alive

\* At zero already, a hit counts as one failed save, a critical one as two.
FailedBy(critical) == failures + IF critical THEN 2 ELSE 1

\* Slip: one failure too many is survived.
DiesLate(count) == count > FailuresRequired
Dies(count) == count >= FailuresRequired

\* The engine's own handler puts a stable character back on the timeline, the
\* advanced one any that survives and has no readiness task; the slip nobody.
ResumesNever(dies) == FALSE
Resumes(dies) ==
  IF profile = "core" THEN stable ELSE ~dies /\ pending = 0

\* Slip: a hit at zero is taken for a fresh fall.
HitAtZeroRestarts(critical) == Fall
HitAtZero(critical) ==
  LET count == FailedBy(critical) IN
  /\ tracked' = TRUE /\ stable' = FALSE /\ failures' = count
  /\ alive' = ~Dies(count)
  /\ IF Resumes(Dies(count)) THEN Schedule ELSE NoSchedule
  /\ UNCHANGED <<successes, unconscious>>

Massive == alive' = FALSE /\ UNCHANGED <<death, unconscious>> /\ NoSchedule

Survives == UNCHANGED <<alive, death, unconscious>> /\ NoSchedule

\* _attack, a spell's damage, a condition's: apply_damage, then _handle_zero_hp
\* whenever the character is at zero, a missed attack (no damage) included.
Strike(damage, critical) ==
  /\ alive /\ UNCHANGED <<setup, top, expiring, ready, popped>>
  /\ hp' = Minus(hp, damage)
  /\ IF hp' > 0 THEN Survives
     ELSE IF Minus(damage, hp) >= top THEN Massive
     ELSE IF hp > 0 THEN Fall ELSE HitAtZero(critical)

\* rule.execute: what its graph does to the hit points, then _handle_zero_hp for
\* whoever it brought to zero; nothing when it heals.
RuleGraph ==
  /\ popped = 0 /\ UNCHANGED <<setup, top, expiring, ready, popped>>
  /\ hp' \in 0..top
  /\ IF hp > 0 /\ hp' = 0 THEN Fall ELSE Survives

\* A graph that raises half way leaves its damage and no more.
RuleRaises ==
  /\ popped = 0
  /\ hp' \in 0..top
  /\ halfway' = (halfway \/ (hp > 0 /\ hp' = 0))
  /\ UNCHANGED <<setup, alive, top, death, unconscious, expiring, ready, pending, popped>>

----------------------------------------------------------------------------
(* Coming back *)

\* _recover_from_zero_hp; the engine's own leaves an empty component empty.  The
\* slip forgets it.
RecoverNot == UNCHANGED <<death, unconscious>>
Recover ==
  /\ tracked' = (tracked \/ profile = "srd")
  /\ successes' = 0 /\ failures' = 0 /\ stable' = FALSE
  /\ unconscious' = FALSE

\* A healing spell or an item, from anybody; the character may be dead.
Healed(n) == Lower(top, hp + n)
Heals(n) ==
  /\ hp' = Healed(n)
  /\ IF hp' > 0 THEN Recover ELSE UNCHANGED <<death, unconscious>>
  /\ UNCHANGED <<alive, top>>

Heal(n) == Heals(n) /\ UNCHANGED <<setup, expiring, turn>>

\* A spell that puts to sleep for a while, and the end of it, which removes the
\* condition whoever applied it.
Sleep ==
  /\ unconscious' = TRUE /\ expiring' = TRUE
  /\ UNCHANGED <<setup, alive, hp, top, death, turn>>

Expire ==
  /\ expiring /\ expiring' = FALSE
  /\ unconscious' = FALSE
  /\ UNCHANGED <<setup, alive, hp, top, death, turn>>

----------------------------------------------------------------------------
(* _actor_ready *)

Handling == popped > 0 /\ popped' = popped - 1

\* A dead character's task does nothing.
ReadyDead ==
  /\ Handling /\ ~alive
  /\ UNCHANGED <<setup, body, expiring, ready, pending, halfway>>

Down == hp = 0 /\ tracked

\* A human joins the ready set, an AI character acts and is scheduled again: at
\* full strength, or at zero with no death_saves to go by.
ReadyUp ==
  /\ Handling /\ alive /\ ~Down
  /\ IF controller = "human" THEN ready' = TRUE /\ NoSchedule
                             ELSE Schedule /\ UNCHANGED ready
  /\ UNCHANGED <<setup, body, expiring>>

\* A stable character does not roll and leaves the timeline.
ReadyStable ==
  /\ Handling /\ alive /\ Down /\ stable
  /\ UNCHANGED <<setup, body, expiring, ready, pending, halfway>>

\* _resolve_death_save.
Rolling == Handling /\ alive /\ Down /\ ~stable /\ UNCHANGED <<setup, top, expiring, ready>>

NaturalTwenty ==
  /\ Rolling
  /\ hp' = 1
  /\ Recover /\ Schedule
  /\ UNCHANGED alive

FailSave ==
  \E count \in {failures + 1, failures + 2} :
    /\ Rolling
    /\ failures' = count
    /\ alive' = ~Dies(count)
    /\ IF Dies(count) THEN NoSchedule ELSE Schedule
    /\ UNCHANGED <<hp, tracked, successes, stable, unconscious>>

\* Slip: a success is not remembered.
Unremembered == successes
AfterSuccess == successes + 1
PassSave ==
  /\ Rolling
  /\ IF AfterSuccess >= SuccessesRequired
       THEN stable' = TRUE /\ successes' = 0 /\ failures' = 0 /\ NoSchedule
       ELSE successes' = AfterSuccess /\ Schedule /\ UNCHANGED <<stable, failures>>
  /\ UNCHANGED <<alive, hp, tracked, unconscious>>

HandleReadiness == ReadyDead \/ ReadyUp \/ ReadyStable \/ NaturalTwenty \/ FailSave \/ PassSave

----------------------------------------------------------------------------
(* dispatch of the character's own commands, unconscious or not *)

MayAct == popped = 0 /\ alive /\ (controller = "human" => ready \/ pending = 0)
Acted == MayAct /\ UNCHANGED <<setup, expiring, popped>> /\ Schedule /\ ready' = FALSE

Wait == Acted /\ UNCHANGED body

\* Its own potion or spell.
Drink(n) == Acted /\ Heals(n)

\* character.rest and character.level_up raise the hit points, and that is all.
Rest ==
  /\ Acted
  /\ hp' \in {hp, top}
  /\ UNCHANGED <<alive, top, death, unconscious>>

LevelUp ==
  /\ Acted
  /\ top < HpBound
  /\ hp' = hp + 1 /\ top' = top + 1
  /\ UNCHANGED <<alive, death, unconscious>>

----------------------------------------------------------------------------
Amount == 0..(2 * HpBound)

Next ==
  \/ Pop \/ Requeue \/ CycleRaises \/ StartEncounter \/ RejectEncounter
  \/ \E d \in Amount, critical \in BOOLEAN : Strike(d, critical)
  \/ RuleGraph \/ RuleRaises
  \/ \E n \in Amount : Heal(n) \/ Drink(n)
  \/ Sleep \/ Expire
  \/ HandleReadiness
  \/ Wait \/ Rest \/ LevelUp

Spec == Init /\ [][Next]_vars

\* The clock makes a waiting task due; a popped task that the barrier sends back
\* comes first when the decision pause is over.
FairSpec == Spec /\ WF_vars(Pop) /\ SF_vars(HandleReadiness)
----------------------------------------------------------------------------
Flags ==
  /\ alive \in BOOLEAN /\ tracked \in BOOLEAN /\ stable \in BOOLEAN
  /\ unconscious \in BOOLEAN /\ expiring \in BOOLEAN
  /\ ready \in BOOLEAN /\ halfway \in BOOLEAN

Numbers ==
  /\ top \in 1..HpBound /\ hp \in 0..top
  /\ successes \in 0..(SuccessesRequired - 1)
  /\ failures \in 0..(FailuresRequired + 1)
  /\ pending \in Nat /\ popped \in Nat

TypeOK == profile \in Profile /\ controller \in Controller /\ Flags /\ Numbers

Dying == alive /\ Down /\ ~stable

\* Nobody lies dying off the timeline: whatever hit, healed, rescheduled or
\* popped meanwhile, a next save is scheduled, or the human still has the turn
\* the fall came in; a call refused half way is the one exception.
DyingIsScheduled == Dying => pending + popped > 0 \/ ready \/ halfway

\* The count of saves decides: the living are below the limit, the stable have a
\* clean record, so that a later hit starts a new count.
CountDecides ==
  /\ alive => failures < FailuresRequired
  /\ stable => successes = 0 /\ failures = 0 /\ tracked

\* While a character stays down its saves are never forgotten, but by becoming
\* stable: another hit does not restart the count.
SavesAreKept ==
  [][hp = 0 /\ hp' = 0 /\ ~stable' => successes' >= successes /\ failures' >= failures]_vars

\* Whoever gets up is awake with a clean record; only a rest, a new level and the
\* healing of a rule graph raise hit points without that.
GetsUpAwake ==
  [][hp = 0 /\ hp' > 0 =>
       \/ ~unconscious' /\ ~stable' /\ successes' = 0 /\ failures' = 0
       \/ Rest \/ LevelUp \/ RuleGraph \/ RuleRaises]_vars

\* Death saves come to an end: death, stability or recovery.
AwaitsHuman == ready /\ pending + popped = 0
DyingEnds == Dying ~> (~Dying \/ halfway \/ AwaitsHuman)
=============================================================================
