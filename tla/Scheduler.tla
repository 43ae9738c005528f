----------------------------- MODULE Scheduler -----------------------------
(***************************************************************************)
(* The priority queue of core/scheduler.py as operators on the set of its  *)
(* live tasks.  ScheduledTask is ordered by (due_time, priority,           *)
(* sequence); a task marked cancelled is skipped by every reader of the    *)
(* heap, so here it simply leaves the set.  The heap and the local list of *)
(* tasks a caller has popped are both such sets, read in that order.       *)
(***************************************************************************)
EXTENDS Naturals

\* ScheduledTask: kind and target are the part of the payload a handler reads.
Task(Kind, Actor) ==
  [due: Nat, priority: Nat, sequence: Nat, kind: Kind, actor: Actor, target: Actor]

\* The dataclass ordering: lexicographic on the three compared fields.
Before(s, t) ==
  \/ s.due < t.due
  \/ s.due = t.due /\ s.priority < t.priority
  \/ s.due = t.due /\ s.priority = t.priority /\ s.sequence < t.sequence

\* peek: the live task every other live task comes after.
IsFirst(t, tasks) == t \in tasks /\ \A u \in tasks \ {t} : Before(t, u)

\* pop_due: everything whose due time has been reached.
Due(tasks, time) == {t \in tasks : t.due <= time}

\* cancel_matching(kind, actor_id), for each of some actors.
CancelMatching(tasks, kind, actors) ==
  {t \in tasks : ~(t.kind = kind /\ t.actor \in actors)}

\* The engine's priorities.
ReadyPriority == 100
SpellPriority == 40
=============================================================================
