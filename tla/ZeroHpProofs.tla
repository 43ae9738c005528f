---------------------------- MODULE ZeroHpProofs -----------------------------
(* Death saves, for any maximum of hit points and any number of tasks. *)
EXTENDS ZeroHp, TLAPS

USE ConstantAssumption

\* A character at zero stays on the timeline even before its death_saves say
\* that it is dying.
Queued == pending # 0 \/ popped # 0
OnTimeline == alive /\ hp = 0 /\ ~stable => Queued \/ ready \/ halfway

IInv == TypeOK /\ CountDecides /\ OnTimeline

LEMMA InitStep == Init => IInv
<1> SUFFICES ASSUME Init PROVE IInv
  OBVIOUS
<1>1. Flags
  BY DEF Init, Flags
<1>2. Numbers
  BY ConstantAssumption DEF Init, Numbers
<1>3. CountDecides
  BY DEF Init, CountDecides
<1>4. hp # 0
  BY ConstantAssumption DEF Init
<1>5. OnTimeline
  BY <1>4 DEF OnTimeline
<1> QED
  BY <1>1, <1>2, <1>3, <1>5 DEF IInv, TypeOK, Init

----------------------------------------------------------------------------
(* Types: the flags, and the numbers *)

LEMMA FlagsStep == ASSUME TypeOK, Next PROVE Flags'
<1> Flags
  BY DEF TypeOK
<1>1. CASE Pop \/ Requeue
  BY <1>1 DEF Flags, Pop, Requeue, setup, body
<1>2. CASE StartEncounter \/ RejectEncounter \/ CycleRaises
  BY <1>2 DEF Flags, StartEncounter, RejectEncounter, CycleRaises, ScheduleAfter, setup, body
<1>3. ASSUME NEW d \in Amount, NEW critical \in BOOLEAN, Strike(d, critical)
      PROVE  Flags'
  <2>1. UNCHANGED <<expiring, ready>>
    BY <1>3 DEF Strike
  <2>2. CASE Survives \/ Massive
    BY <2>1, <2>2 DEF Flags, Survives, Massive, NoSchedule, death
  <2>3. CASE Fall
    BY <2>1, <2>3 DEF Flags, Fall, ScheduleAfter
  <2>4. CASE HitAtZero(critical)
    BY <2>1, <2>4 DEF Flags, HitAtZero, Schedule, ScheduleAfter, NoSchedule
  <2> QED
    BY <1>3, <2>2, <2>3, <2>4 DEF Strike
<1>4. CASE RuleGraph
  BY <1>4 DEF Flags, RuleGraph, Fall, Survives, ScheduleAfter, NoSchedule, death
<1>5. CASE RuleRaises
  <2>1. halfway' \in BOOLEAN
    BY <1>5 DEF RuleRaises
  <2> QED
    BY <1>5, <2>1 DEF Flags, RuleRaises, death
<1>6. ASSUME NEW n \in Amount, Heals(n)
      PROVE  {alive', tracked', stable', unconscious'} \subseteq BOOLEAN
  BY <1>6 DEF Flags, Heals, Recover, death
<1>7. ASSUME NEW n \in Amount, Heal(n) \/ Drink(n)
      PROVE  Flags'
  <2>1. Heals(n)
    BY <1>7 DEF Heal, Drink
  <2>2. {expiring', ready', halfway'} \subseteq BOOLEAN
    BY <1>7 DEF Flags, Heal, Drink, Acted, Schedule, ScheduleAfter, turn
  <2> QED
    BY <2>1, <2>2, <1>6 DEF Flags
<1>8. CASE Sleep \/ Expire
  BY <1>8 DEF Flags, Sleep, Expire, death, turn
<1>9. CASE ReadyDead \/ ReadyStable
  BY <1>9 DEF Flags, ReadyDead, ReadyStable, body
<1>10. CASE ReadyUp
  BY <1>10 DEF Flags, ReadyUp, Schedule, ScheduleAfter, NoSchedule, body
<1>11. CASE NaturalTwenty
  BY <1>11 DEF Flags, NaturalTwenty, Rolling, Recover, Schedule, ScheduleAfter
<1>12. CASE FailSave
  BY <1>12 DEF Flags, FailSave, Rolling, Schedule, ScheduleAfter, NoSchedule
<1>13. CASE PassSave
  BY <1>13 DEF Flags, PassSave, Rolling, Schedule, ScheduleAfter, NoSchedule
<1>14. CASE Wait \/ Rest \/ LevelUp
  BY <1>14 DEF Flags, Wait, Rest, LevelUp, Acted, Schedule, ScheduleAfter, death, body
<1> QED
  BY <1>1, <1>2, <1>3, <1>4, <1>5, <1>7, <1>8, <1>9, <1>10, <1>11, <1>12, <1>13, <1>14
     DEF Next, HandleReadiness

LEMMA NumbersStep == ASSUME TypeOK, CountDecides, Next PROVE Numbers'
<1> Numbers
  BY DEF TypeOK
<1>1. CASE Pop \/ Requeue
  BY <1>1 DEF Numbers, Pop, Requeue, body
<1>2. CASE StartEncounter \/ RejectEncounter \/ CycleRaises
  BY <1>2 DEF Numbers, StartEncounter, RejectEncounter, CycleRaises, ScheduleAfter, body
<1>3. ASSUME NEW d \in Amount, NEW critical \in BOOLEAN, Strike(d, critical)
      PROVE  Numbers'
  <2>1. UNCHANGED <<top, popped>> /\ hp' \in 0..top
    BY <1>3 DEF Strike, Minus, Numbers, Amount
  <2>2. CASE Survives \/ Massive
    BY <2>1, <2>2 DEF Numbers, Survives, Massive, NoSchedule, death
  <2>3. CASE Fall
    BY <2>1, <2>3 DEF Numbers, Fall, ScheduleAfter
  <2>4. CASE HitAtZero(critical)
    <3>1. failures < FailuresRequired
      BY <1>3 DEF Strike, CountDecides
    <3>2. failures' \in 0..(FailuresRequired + 1)
      BY <2>4, <3>1 DEF HitAtZero, FailedBy, Numbers
    <3>3. pending' \in Nat
      BY <2>4 DEF HitAtZero, Schedule, NoSchedule, ScheduleAfter, Numbers
    <3> QED
      BY <2>1, <2>4, <3>2, <3>3 DEF Numbers, HitAtZero
  <2> QED
    BY <1>3, <2>2, <2>3, <2>4 DEF Strike
<1>4. CASE RuleGraph \/ RuleRaises
  BY <1>4 DEF Numbers, RuleGraph, RuleRaises, Fall, Survives, ScheduleAfter, NoSchedule, death
<1>5. ASSUME NEW n \in Amount, Heals(n)
      PROVE  /\ top' \in 1..HpBound /\ hp' \in 0..top'
             /\ successes' \in 0..(SuccessesRequired - 1) /\ failures' \in 0..(FailuresRequired + 1)
  BY <1>5 DEF Numbers, Heals, Healed, Lower, Recover, death, Amount
<1>6. ASSUME NEW n \in Amount, Heal(n) \/ Drink(n)
      PROVE  Numbers'
  <2>1. Heals(n)
    BY <1>6 DEF Heal, Drink
  <2>2. pending' \in Nat /\ popped' \in Nat
    BY <1>6 DEF Numbers, Heal, Drink, Acted, Schedule, ScheduleAfter, turn
  <2> QED
    BY <2>1, <2>2, <1>5 DEF Numbers
<1>7. CASE Sleep \/ Expire
  BY <1>7 DEF Numbers, Sleep, Expire, death, turn
<1>8. CASE HandleReadiness
  <2>1. popped' \in Nat /\ pending' \in Nat
    BY <1>8 DEF HandleReadiness, ReadyDead, ReadyUp, ReadyStable, NaturalTwenty, FailSave,
                PassSave, Rolling, Handling, Schedule, ScheduleAfter, NoSchedule, Numbers
  <2>2. CASE ReadyDead \/ ReadyUp \/ ReadyStable
    BY <2>1, <2>2 DEF ReadyDead, ReadyUp, ReadyStable, body, Numbers
  <2>3. CASE NaturalTwenty
    BY <2>1, <2>3 DEF NaturalTwenty, Rolling, Recover, Numbers
  <2>4. CASE FailSave
    <3>1. failures < FailuresRequired
      BY <2>4 DEF FailSave, Rolling, CountDecides
    <3>2. failures' \in {failures + 1, failures + 2}
      BY <2>4 DEF FailSave
    <3> QED
      BY <2>1, <2>4, <3>1, <3>2 DEF FailSave, Rolling, Numbers
  <2>5. CASE PassSave
    BY <2>1, <2>5 DEF PassSave, AfterSuccess, Rolling, Numbers
  <2> QED
    BY <1>8, <2>2, <2>3, <2>4, <2>5 DEF HandleReadiness
<1>9. CASE Wait \/ Rest \/ LevelUp
  BY <1>9, ConstantAssumption
     DEF Numbers, Wait, Rest, LevelUp, Acted, Schedule, ScheduleAfter, death, body
<1> QED
  BY <1>1, <1>2, <1>3, <1>4, <1>6, <1>7, <1>8, <1>9 DEF Next

----------------------------------------------------------------------------
(* The count *)

LEMMA CountStep == ASSUME TypeOK, CountDecides, Next PROVE CountDecides'
<1> DEFINE Same == UNCHANGED <<tracked, successes, failures, stable>> /\ (alive' => alive)
           Blank == successes' = 0 /\ failures' = 0 /\ stable' = FALSE
<1>1. Same => CountDecides'
  BY DEF CountDecides
<1>2. Blank => CountDecides'
  BY DEF CountDecides
<1> HIDE DEF Blank
<1>3. CASE Pop \/ Requeue \/ CycleRaises \/ StartEncounter \/ RejectEncounter
  BY <1>1, <1>3 DEF Pop, Requeue, CycleRaises, StartEncounter, RejectEncounter, body
<1>4. ASSUME NEW d \in Amount, NEW critical \in BOOLEAN, Strike(d, critical)
      PROVE  CountDecides'
  <2>1. CASE Survives \/ Massive
    BY <1>1, <2>1 DEF Survives, Massive, death
  <2>2. CASE Fall
    BY <1>2, <2>2 DEF Fall, Blank
  <2>3. CASE HitAtZero(critical)
    <3>1. stable' = FALSE /\ (alive' => ~Dies(failures'))
      BY <2>3 DEF HitAtZero
    <3>2. failures' \in Nat
      BY <2>3 DEF HitAtZero, FailedBy, TypeOK, Numbers
    <3>3. ~Dies(failures') => failures' < FailuresRequired
      BY <3>2 DEF Dies
    <3> QED
      BY <3>1, <3>3 DEF CountDecides
  <2> QED
    BY <1>4, <2>1, <2>2, <2>3 DEF Strike
<1>5. CASE RuleGraph \/ RuleRaises
  <2>1. CASE Fall
    BY <1>2, <2>1 DEF Fall, Blank
  <2>2. CASE Survives \/ RuleRaises
    BY <1>1, <2>2 DEF Survives, RuleRaises, death
  <2> QED
    BY <1>5, <2>1, <2>2 DEF RuleGraph
<1>6. ASSUME NEW n \in Amount, Heal(n) \/ Drink(n)
      PROVE  CountDecides'
  <2>1. Heals(n)
    BY <1>6 DEF Heal, Drink
  <2>2. Blank \/ Same
    BY <2>1 DEF Heals, Recover, death, Blank
  <2> QED
    BY <1>1, <1>2, <2>2
<1>7. CASE Sleep \/ Expire \/ ReadyDead \/ ReadyUp \/ ReadyStable
  BY <1>1, <1>7 DEF Sleep, Expire, ReadyDead, ReadyUp, ReadyStable, death, body
<1>8. CASE NaturalTwenty
  BY <1>2, <1>8 DEF NaturalTwenty, Recover, Blank
<1>9. CASE FailSave
  <2>1. PICK count \in {failures + 1, failures + 2} :
          failures' = count /\ alive' = ~Dies(count) /\ Rolling /\ UNCHANGED stable
    BY <1>9 DEF FailSave
  <2>2. failures' \in Nat
    BY <2>1 DEF TypeOK, Numbers
  <2>3. ~Dies(failures') => failures' < FailuresRequired
    BY <2>2 DEF Dies
  <2>4. alive' => ~Dies(failures')
    BY <2>1
  <2>5. ~stable'
    BY <2>1 DEF Rolling
  <2> QED
    BY <2>3, <2>4, <2>5 DEF CountDecides
<1>10. CASE PassSave
  <2>1. alive /\ tracked /\ ~stable /\ UNCHANGED <<alive, tracked>>
    BY <1>10 DEF PassSave, Rolling, Down
  <2>2. CASE stable' = TRUE /\ successes' = 0 /\ failures' = 0
    <3>1. failures' < FailuresRequired
      BY <2>2 
    <3> QED
      BY <2>1, <2>2, <3>1 DEF CountDecides
  <2>3. CASE UNCHANGED <<stable, failures>>
    BY <2>1, <2>3 DEF CountDecides
  <2> QED
    BY <1>10, <2>2, <2>3 DEF PassSave
<1>11. CASE Wait \/ Rest \/ LevelUp
  BY <1>1, <1>11 DEF Wait, Rest, LevelUp, death, body
<1> QED
  BY <1>3, <1>4, <1>5, <1>6, <1>7, <1>8, <1>9, <1>10, <1>11 DEF Next, HandleReadiness

----------------------------------------------------------------------------
(* The timeline *)

\* What scheduling leaves, and what leaving the tasks alone does.
LEMMA ScheduleFacts ==
  ASSUME NEW k \in Nat, ScheduleAfter(k)
  PROVE  Queued'
<1>1. pending' = k + 1
  BY DEF ScheduleAfter
<1>2. k + 1 # 0
  OBVIOUS
<1> QED
  BY <1>1, <1>2 DEF Queued

LEMMA ScheduledAgain == ASSUME TypeOK, Schedule PROVE Queued'
<1> pending \in Nat
  BY DEF TypeOK, Numbers
<1> ScheduleAfter(pending)
  BY DEF Schedule
<1> QED
  BY ScheduleFacts

LEMMA OnTimelineStep == ASSUME IInv, Next PROVE OnTimeline'
<1> TypeOK /\ CountDecides /\ OnTimeline
  BY DEF IInv
<1>2. Queued' \/ halfway' \/ hp' # 0 \/ ~alive' \/ stable' => OnTimeline'
  BY DEF OnTimeline
<1>3. Schedule \/ ScheduleAfter(0) => OnTimeline'
  BY <1>2, ScheduleFacts, ScheduledAgain
\* A step that keeps the tasks, and brings nobody to zero.
<1>4. ASSUME UNCHANGED <<pending, popped, halfway>>, ready => ready', alive' => alive,
             hp' = 0 => hp = 0, stable => stable'
      PROVE  OnTimeline'
  <2>1. Queued' = Queued
    BY <1>4 DEF Queued
  <2> QED
    BY <1>4, <2>1 DEF OnTimeline
<1>5. CASE Pop \/ Requeue
  <2>1. CASE Pop
    <3>1. Queued'
      BY <2>1 DEF Pop, Queued
    <3> QED
      BY <1>2, <3>1
  <2>2. CASE Requeue
    <3>1. pending + popped # 0
      BY <2>2 DEF Requeue, TypeOK, Numbers
    <3>2. pending' = pending + popped
      BY <2>2 DEF Requeue
    <3>3. Queued'
      BY <3>1, <3>2 DEF Queued
    <3> QED
      BY <1>2, <3>3
  <2> QED
    BY <1>5, <2>1, <2>2
<1>6. CASE StartEncounter \/ RejectEncounter \/ CycleRaises
  BY <1>2, <1>3, <1>6 DEF StartEncounter, RejectEncounter, CycleRaises
<1>7. ASSUME NEW d \in Amount, NEW critical \in BOOLEAN, Strike(d, critical)
      PROVE  OnTimeline'
  <2>1. CASE hp' # 0
    BY <1>2, <2>1
  <2>2. CASE Massive
    BY <1>2, <2>2 DEF Massive
  <2>3. CASE Fall
    BY <1>3, <2>3 DEF Fall
  <2>4. CASE HitAtZero(critical) /\ hp = 0
    <3>1. CASE Schedule
      BY <1>3, <3>1
    <3>2. CASE NoSchedule /\ ~Resumes(Dies(FailedBy(critical)))
      <4>1. UNCHANGED <<pending, popped, halfway, ready>> /\ alive
        BY <1>7, <3>2 DEF NoSchedule, Strike
      <4>2. Queued' = Queued
        BY <4>1 DEF Queued
      <4>3. CASE ~stable
        BY <2>4, <4>1, <4>2, <4>3 DEF OnTimeline
      <4>4. CASE Dies(FailedBy(critical))
        BY <1>2, <2>4, <4>4 DEF HitAtZero
      <4>5. CASE pending # 0
        BY <1>2, <4>1, <4>5 DEF Queued, TypeOK, Numbers
      <4> QED
        BY <3>2, <4>3, <4>4, <4>5 DEF Resumes
    <3> QED
      BY <2>4, <3>1, <3>2 DEF HitAtZero
  <2>5. hp' \in Nat /\ hp \in Nat
    BY <1>7 DEF Strike, Minus, TypeOK, Numbers, Amount
  <2>6. \/ hp' > 0
        \/ Massive
        \/ Fall
        \/ HitAtZero(critical) /\ ~(hp > 0)
    BY <1>7 DEF Strike
  <2> QED
    BY <2>1, <2>2, <2>3, <2>4, <2>5, <2>6
<1>8. CASE RuleGraph
  <2>1. CASE Fall
    BY <1>3, <2>1 DEF Fall
  <2>2. CASE Survives /\ ~(hp > 0 /\ hp' = 0)
    <3>1. hp' = 0 => hp = 0
      BY <2>2 DEF TypeOK, Numbers
    <3> QED
      BY <1>4, <1>8, <2>2, <3>1 DEF RuleGraph, Survives, NoSchedule, death
  <2> QED
    BY <1>8, <2>1, <2>2 DEF RuleGraph
<1>9. CASE RuleRaises
  <2>1. CASE hp > 0 /\ hp' = 0
    BY <1>2, <1>9, <2>1 DEF RuleRaises
  <2>2. CASE ~(hp > 0 /\ hp' = 0)
    <3>1. hp' = 0 => hp = 0
      BY <2>2 DEF TypeOK, Numbers
    <3>2. UNCHANGED <<pending, popped, ready, alive, stable>>
      BY <1>9 DEF RuleRaises, death
    <3>3. halfway => halfway'
      BY <1>9 DEF RuleRaises
    <3>4. Queued' = Queued
      BY <3>2 DEF Queued
    <3> QED
      BY <3>1, <3>2, <3>3, <3>4 DEF OnTimeline
  <2> QED
    BY <2>1, <2>2
<1>10. ASSUME NEW n \in Amount, Heal(n)
       PROVE  OnTimeline'
  <2>1. UNCHANGED <<pending, popped, halfway, ready>> /\ Heals(n)
    BY <1>10 DEF Heal, turn
  <2>2. CASE hp' # 0
    BY <1>2, <2>2
  <2>3. CASE hp' = 0
    <3>1. hp = 0
      BY <2>1, <2>3 DEF Heals, Healed, Lower, TypeOK, Numbers, Amount
    <3>2. ~(hp' > 0)
      BY <2>3
    <3>3. UNCHANGED <<alive, stable>>
      BY <2>1, <3>2 DEF Heals, death
    <3> QED
      BY <1>4, <2>1, <3>1, <3>3
  <2> QED
    BY <2>2, <2>3
<1>11. CASE Sleep \/ Expire
  BY <1>4, <1>11 DEF Sleep, Expire, death, turn
<1>12. CASE ReadyDead \/ ReadyStable
  BY <1>2, <1>12 DEF ReadyDead, ReadyStable, body
<1>13. CASE ReadyUp
  BY <1>2, <1>3, <1>13 DEF ReadyUp, OnTimeline
<1>14. CASE NaturalTwenty
  BY <1>3, <1>14 DEF NaturalTwenty
<1>15. CASE FailSave
  <2>1. CASE alive' = FALSE
    BY <1>2, <2>1
  <2>2. CASE Schedule
    BY <1>3, <2>2
  <2> QED
    BY <1>15, <2>1, <2>2 DEF FailSave
<1>16. CASE PassSave
  BY <1>2, <1>3, <1>16 DEF PassSave
<1>17. CASE Wait \/ Rest \/ LevelUp \/ \E n \in Amount : Drink(n)
  BY <1>3, <1>17 DEF Wait, Rest, LevelUp, Drink, Acted
<1> QED
  BY <1>5, <1>6, <1>7, <1>8, <1>9, <1>10, <1>11, <1>12, <1>13, <1>14, <1>15, <1>16, <1>17
     DEF Next, HandleReadiness

----------------------------------------------------------------------------
(* The theorems *)

LEMMA NextStep == IInv /\ [Next]_vars => IInv'
<1> SUFFICES ASSUME IInv, [Next]_vars PROVE IInv'
  OBVIOUS
<1>1. CASE Next
  <2>1. UNCHANGED <<profile, controller>>
    BY <1>1 DEF Next, Pop, Requeue, CycleRaises, StartEncounter, RejectEncounter, Strike, RuleGraph,
       RuleRaises, Heal, Drink, Sleep, Expire, HandleReadiness, ReadyDead, ReadyUp,
       ReadyStable, NaturalTwenty, FailSave, PassSave, Rolling, Wait, Rest, LevelUp, Acted,
       setup
  <2> QED
    BY <1>1, <2>1, FlagsStep, NumbersStep, CountStep, OnTimelineStep DEF IInv, TypeOK
<1>2. CASE UNCHANGED vars
  <2>1. Flags'
    BY <1>2 DEF vars, Flags, IInv, TypeOK
  <2>2. Numbers'
    BY <1>2 DEF vars, Numbers, IInv, TypeOK
  <2>3. CountDecides' /\ OnTimeline'
    BY <1>2 DEF vars, CountDecides, OnTimeline, Queued, IInv
  <2> QED
    BY <1>2, <2>1, <2>2, <2>3 DEF vars, IInv, TypeOK
<1> QED
  BY <1>1, <1>2

LEMMA Inductive == Spec => []IInv
BY InitStep, NextStep, PTL DEF Spec

\* Every reachable state is well typed.
THEOREM TypeCorrect == Spec => []TypeOK
BY Inductive, PTL DEF IInv

\* _handle_zero_hp, _resolve_death_save: nobody lies dying off the timeline.
THEOREM NobodyForgotten == Spec => []DyingIsScheduled
<1>1. IInv => DyingIsScheduled
  <2>1. TypeOK /\ Queued => pending + popped > 0
    BY DEF TypeOK, Numbers, Queued
  <2> QED
    BY <2>1 DEF IInv, OnTimeline, DyingIsScheduled, Dying, Down
<1> QED
  BY <1>1, Inductive, PTL

\* The count of saves decides over life, death and stability.
THEOREM CountIsRight == Spec => []CountDecides
BY Inductive, PTL DEF IInv
----------------------------------------------------------------------------
(* What a step may never do *)

\* Steps that leave the record of saves alone.
LEMMA RecordKept ==
  ASSUME UNCHANGED death
  PROVE  UNCHANGED successes /\ UNCHANGED failures
BY DEF death

\* _handle_zero_hp and _resolve_death_save: while a character stays down, its
\* count of saves only grows, until it is stable.
THEOREM SavesNeverForgotten == Spec => SavesAreKept
<1> DEFINE Kept == successes' >= successes /\ failures' >= failures
<1>1. ASSUME IInv, Next, hp = 0, hp' = 0, ~stable'
      PROVE  Kept
  <2>1. successes \in Nat /\ failures \in Nat
    BY <1>1 DEF IInv, TypeOK, Numbers
  <2>2. UNCHANGED death => Kept
    BY <2>1, RecordKept
  <2>3. CASE Pop \/ Requeue \/ CycleRaises \/ StartEncounter \/ RejectEncounter
    BY <2>1, <2>3 DEF Pop, Requeue, CycleRaises, StartEncounter, RejectEncounter, body
  <2>4. ASSUME NEW d \in Amount, NEW critical \in BOOLEAN, Strike(d, critical)
        PROVE  Kept
    <3>1. (Survives \/ Massive) \/ HitAtZero(critical)
      BY <1>1, <2>4 DEF Strike
    <3>2. HitAtZero(critical) => Kept
      BY <2>1 DEF HitAtZero, FailedBy
    <3> QED
      BY <2>2, <3>1, <3>2 DEF Survives, Massive
  <2>5. CASE RuleGraph \/ RuleRaises
    BY <1>1, <2>2, <2>5 DEF RuleGraph, RuleRaises, Survives
  <2>6. CASE \E n \in Amount : Heal(n) \/ Drink(n)
    BY <1>1, <2>2, <2>6 DEF Heal, Drink, Heals
  <2>7. CASE Sleep \/ Expire
    BY <2>2, <2>7 DEF Sleep, Expire
  <2>8. CASE ReadyDead \/ ReadyUp \/ ReadyStable \/ Wait
    BY <2>1, <2>8 DEF ReadyDead, ReadyUp, ReadyStable, Wait, body
  <2>9. ~NaturalTwenty
    BY <1>1 DEF NaturalTwenty
  <2>10. CASE FailSave
    BY <2>1, <2>10 DEF FailSave
  <2>11. CASE PassSave
    BY <1>1, <2>1, <2>11 DEF PassSave, AfterSuccess
  <2>12. CASE Rest \/ LevelUp
    BY <2>2, <2>12 DEF Rest, LevelUp
  <2> QED
    BY <1>1, <2>3, <2>4, <2>5, <2>6, <2>7, <2>8, <2>9, <2>10, <2>11, <2>12
       DEF Next, HandleReadiness
<1>2. IInv /\ [Next]_vars => [hp = 0 /\ hp' = 0 /\ ~stable' => Kept]_vars
  BY <1>1
<1> QED
  BY <1>2, Inductive, PTL DEF Spec, SavesAreKept

\* _recover_from_zero_hp and the natural twenty: whoever comes back from zero is
\* awake and its record is clean, but for rests, new levels and rule graphs.
THEOREM RisesAwake == Spec => GetsUpAwake
<1> DEFINE Awake == ~unconscious' /\ ~stable' /\ successes' = 0 /\ failures' = 0
           Silent == Rest \/ LevelUp \/ RuleGraph \/ RuleRaises
<1>1. ASSUME IInv, Next, hp = 0, hp' > 0
      PROVE  Awake \/ Silent
  <2>1. hp' # 0
    BY <1>1
  <2>2. ~UNCHANGED hp
    BY <1>1, <2>1
  <2>3. ~(Pop \/ Requeue \/ CycleRaises \/ StartEncounter \/ RejectEncounter \/ Sleep \/ Expire)
    BY <2>2 DEF Pop, Requeue, CycleRaises, StartEncounter, RejectEncounter, Sleep, Expire, body
  <2>4. \A d \in Amount, critical \in BOOLEAN : ~Strike(d, critical)
    BY <1>1, <2>1 DEF Strike, Minus, Amount
  <2>5. CASE \E n \in Amount : Heal(n) \/ Drink(n)
    BY <1>1, <2>5 DEF Heal, Drink, Heals, Recover
  <2>6. ~(ReadyDead \/ ReadyUp \/ ReadyStable \/ FailSave \/ PassSave \/ Wait)
    BY <2>2 DEF ReadyDead, ReadyUp, ReadyStable, FailSave, PassSave, Wait, body
  <2>7. CASE NaturalTwenty
    BY <2>7 DEF NaturalTwenty, Recover
  <2> QED
    BY <1>1, <2>3, <2>4, <2>5, <2>6, <2>7 DEF Next, HandleReadiness
<1>2. IInv /\ [Next]_vars => [hp = 0 /\ hp' > 0 => Awake \/ Silent]_vars
  BY <1>1
<1> QED
  BY <1>2, Inductive, PTL DEF Spec, GetsUpAwake
=============================================================================
