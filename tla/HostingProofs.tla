---------------------------- MODULE HostingProofs ----------------------------
(***************************************************************************)
(* Who owns what among processes: the leases of Workers, for any number of *)
(* workers and campaigns, provided no cycle takes half a lease's time to   *)
(* live, and the transfer guard of Handoff, for any number of entities,    *)
(* transfers and restarts.                                                 *)
(***************************************************************************)
EXTENDS Workers, Handoff, TLAPS

----------------------------------------------------------------------------
(* Leases *)

\* No worker takes longer than half a lease for one cycle.
Timely == TTL > 2 * Cycle

\* The campaigns whose lease this cycle has not reached yet.
Stale(w) == CASE pc[w] \in {"list", "closing"} -> running[w]
              [] pc[w] = "sweep" -> todo[w]
              [] OTHER -> {}

\* A running campaign's lease is its worker's and has not run out: at most this
\* cycle has passed since it was renewed, or this cycle and the one before.
LeaseHeld ==
  \A w \in Worker : \A c \in running[w] :
    /\ owner[c] = w
    /\ left[c] + elapsed[w] >= IF c \in Stale(w) THEN TTL - Cycle ELSE TTL

\* A campaign to be released, or still to be acquired, is not running.
NotRunning ==
  \A w \in Worker :
    /\ releasing[w] \notin running[w]
    /\ pc[w] = "down" => running[w] = {}

IInv == TypeOK /\ LeaseHeld /\ NotRunning

LEMMA TypeStep == TypeOK /\ [Next]_vars => TypeOK'
<1> SUFFICES ASSUME TypeOK, [Next]_vars PROVE TypeOK'
  OBVIOUS
<1> USE NumberAssumption DEF TypeOK, At, Goto, Stop, Fault, leases, rows, locals
<1>1. ASSUME NEW w \in Worker, Start(w) \/ Crash(w) \/ Shutdown(w) PROVE TypeOK'
  BY <1>1 DEF Start, Crash, Shutdown
<1>2. ASSUME NEW w \in Worker, Wake(w) \/ SweepDone(w) \/ Sleep(w) PROVE TypeOK'
  BY <1>2 DEF Wake, SweepDone, Sleep
<1>3. ASSUME NEW w \in Worker, List(w) PROVE TypeOK'
  <2>1. Desired(w, Seen(w)) \in SUBSET Campaign
    BY DEF Desired
  <2> QED
    BY <1>3, <2>1 DEF List
<1>4. ASSUME NEW w \in Worker, Release(w) \/ Unregister(w) PROVE TypeOK'
  BY <1>4 DEF Release, Unregister
<1>5. ASSUME NEW w \in Worker, NEW c \in Campaign,
             SweepStop(w, c) \/ CloseStop(w, c) \/ TaskFails(w, c)
      PROVE  TypeOK'
  BY <1>5 DEF SweepStop, CloseStop, TaskFails
<1>6. ASSUME NEW w \in Worker, NEW c \in Campaign,
             SweepRenew(w, c) \/ Acquire(w, c) \/ AcquireLost(w, c)
      PROVE  TypeOK'
  BY <1>6 DEF SweepRenew, Acquire, AcquireLost
<1>7. CASE Tick
  BY <1>7 DEF Tick, Decayed, Up
<1>8. CASE UNCHANGED vars
  BY <1>8 DEF vars
<1> QED
  BY <1>1, <1>2, <1>3, <1>4, <1>5, <1>6, <1>7, <1>8 DEF Next, Step

LEMMA InitStep == Init => IInv
BY NumberAssumption DEF Init, IInv, TypeOK, LeaseHeld, NotRunning

\* The lease of a running campaign has time left, so no other worker takes it.
LEMMA LeaseUnexpired ==
  ASSUME Timely, IInv, NEW w \in Worker, NEW c \in running[w]
  PROVE  /\ c \in Campaign /\ owner[c] = w /\ left[c] > 0
         /\ \A v \in Worker : MayTakeLease(v, c) => v = w
<1>1. c \in Campaign /\ left[c] \in Nat /\ elapsed[w] \in Nat /\ elapsed[w] <= Cycle
  BY DEF IInv, TypeOK
<1>2. owner[c] = w /\ left[c] + elapsed[w] >= TTL - Cycle
  BY <1>1, NumberAssumption DEF IInv, LeaseHeld
<1>3. left[c] > 0
  BY <1>1, <1>2, NumberAssumption DEF Timely
<1> QED
  BY <1>1, <1>2, <1>3, NobodyAssumption DEF MayTakeLease

LEMMA LifeStep ==
  ASSUME IInv, NEW w \in Worker, Start(w) \/ Crash(w) \/ Shutdown(w)
  PROVE  IInv'
<1>1. TypeOK'
  BY TypeStep DEF IInv, Next
<1>2. LeaseHeld' /\ NotRunning'
  <2>1. CASE Start(w)
    BY <2>1, NumberAssumption, NobodyAssumption
       DEF IInv, TypeOK, LeaseHeld, NotRunning, Stale, Start, leases, rows, locals
  <2>2. CASE Crash(w)
    BY <2>2, NumberAssumption, NobodyAssumption
       DEF IInv, TypeOK, LeaseHeld, NotRunning, Stale, Crash, leases, rows, locals
  <2>3. CASE Shutdown(w)
    BY <2>3, NumberAssumption, NobodyAssumption
       DEF IInv, TypeOK, LeaseHeld, NotRunning, Stale, Shutdown, leases, rows, locals
  <2> QED
    BY <2>1, <2>2, <2>3
<1> QED
  BY <1>1, <1>2 DEF IInv

\* Steps that touch no lease: what is running may only shrink.
LEMMA PlainStep ==
  ASSUME IInv, NEW w \in Worker,
         Wake(w) \/ List(w) \/ SweepDone(w) \/ Sleep(w)
  PROVE  IInv'
<1> USE NumberAssumption, NobodyAssumption DEF At, Goto, leases, rows, locals
<1>1. TypeOK'
  BY TypeStep DEF IInv, Next, Step
<1>2. LeaseHeld' /\ NotRunning'
  <2>1. CASE Wake(w)
    BY <2>1 DEF IInv, TypeOK, LeaseHeld, NotRunning, Stale, Wake
  <2>2. CASE List(w)
    BY <2>2 DEF IInv, TypeOK, LeaseHeld, NotRunning, Stale, List
  <2>3. CASE SweepDone(w)
    BY <2>3 DEF IInv, TypeOK, LeaseHeld, NotRunning, Stale, SweepDone
  <2>4. CASE Sleep(w)
    BY <2>4 DEF IInv, TypeOK, LeaseHeld, NotRunning, Stale, Sleep
  <2> QED
    BY <2>1, <2>2, <2>3, <2>4
<1> QED
  BY <1>1, <1>2 DEF IInv

LEMMA StopStep ==
  ASSUME IInv, NEW w \in Worker, NEW c \in Campaign,
         SweepStop(w, c) \/ CloseStop(w, c) \/ TaskFails(w, c)
  PROVE  IInv'
<1> USE NumberAssumption, NobodyAssumption DEF At, Stop, Fault, leases, rows, locals
<1>1. TypeOK'
  BY TypeStep DEF IInv, Next, Step
<1>2. LeaseHeld' /\ NotRunning'
  <2>1. CASE SweepStop(w, c)
    BY <2>1 DEF IInv, TypeOK, LeaseHeld, NotRunning, Stale, SweepStop
  <2>2. CASE CloseStop(w, c)
    BY <2>2 DEF IInv, TypeOK, LeaseHeld, NotRunning, Stale, CloseStop
  <2>3. CASE TaskFails(w, c)
    BY <2>3 DEF IInv, TypeOK, LeaseHeld, NotRunning, Stale, TaskFails
  <2> QED
    BY <2>1, <2>2, <2>3
<1> QED
  BY <1>1, <1>2 DEF IInv

LEMMA ReleaseStep ==
  ASSUME IInv, NEW w \in Worker, Release(w) \/ Unregister(w)
  PROVE  IInv'
<1> USE NumberAssumption, NobodyAssumption DEF At, Goto, leases, rows, locals
<1>1. TypeOK'
  BY TypeStep DEF IInv, Next, Step
<1>2. LeaseHeld' /\ NotRunning'
  <2>1. CASE Release(w)
    BY <2>1 DEF IInv, TypeOK, LeaseHeld, NotRunning, Stale, Release
  <2>2. CASE Unregister(w)
    BY <2>2 DEF IInv, TypeOK, LeaseHeld, NotRunning, Stale, Unregister
  <2> QED
    BY <2>1, <2>2
<1> QED
  BY <1>1, <1>2 DEF IInv

LEMMA LeaseStep ==
  ASSUME Timely, IInv, NEW w \in Worker, NEW c \in Campaign,
         SweepRenew(w, c) \/ Acquire(w, c) \/ AcquireLost(w, c)
  PROVE  IInv'
<1> USE NumberAssumption, NobodyAssumption DEF At, Goto, Stop, Fault, leases, rows, locals
<1>1. TypeOK'
  BY TypeStep DEF IInv, Next, Step
<1>2. \A v \in Worker \ {w} : c \in running[v] => ~MayTakeLease(w, c)
  BY LeaseUnexpired
<1>3. LeaseHeld' /\ NotRunning'
  <2>1. CASE SweepRenew(w, c)
    BY <2>1 DEF IInv, TypeOK, LeaseHeld, NotRunning, Stale, SweepRenew
  <2>2. CASE Acquire(w, c)
    BY <2>2, <1>2 DEF IInv, TypeOK, LeaseHeld, NotRunning, Stale, Acquire
  <2>3. CASE AcquireLost(w, c)
    BY <2>3, <1>2 DEF IInv, TypeOK, LeaseHeld, NotRunning, Stale, AcquireLost
  <2> QED
    BY <2>1, <2>2, <2>3
<1> QED
  BY <1>1, <1>3 DEF IInv

LEMMA TickStep == ASSUME IInv, Tick PROVE IInv'
<1> USE NumberAssumption DEF leases, rows, locals
<1>1. TypeOK'
  BY TypeStep DEF IInv, Next, Step
<1>2. LeaseHeld'
  BY DEF IInv, TypeOK, LeaseHeld, NotRunning, Stale, Tick, Decayed, Up
<1>3. NotRunning'
  BY DEF IInv, NotRunning, Tick
<1> QED
  BY <1>1, <1>2, <1>3 DEF IInv

LEMMA NextStep == Timely /\ IInv /\ [Next]_vars => IInv'
<1> SUFFICES ASSUME Timely, IInv, [Next]_vars PROVE IInv'
  OBVIOUS
<1>1. CASE UNCHANGED vars
  BY <1>1 DEF vars, IInv, TypeOK, LeaseHeld, NotRunning, Stale
<1> QED
  BY <1>1, LifeStep, PlainStep, StopStep, ReleaseStep, LeaseStep, TickStep DEF Next, Step

LEMMA Inductive == ASSUME Timely PROVE Spec => []IInv
<1>1. IInv /\ [Next]_vars => IInv'
  BY NextStep
<1> QED
  BY <1>1, InitStep, PTL DEF Spec

\* Every reachable state is well typed, however slow the workers are.
THEOREM TypeCorrect == Spec => []TypeOK
<1>1. Init => TypeOK
  BY InitStep DEF IInv
<1> QED
  BY <1>1, TypeStep, PTL DEF Spec

\* acquire, renew and release keep a campaign to one simulating worker, whatever
\* crashes, restarts, lost replies and rebalancing happen, if TTL > 2 * Cycle.
THEOREM LeasesExclude == ASSUME Timely PROVE Spec => []OneSimulator
<1>1. IInv => OneSimulator
  BY DEF IInv, LeaseHeld, OneSimulator, Simulating, TypeOK
<1> QED
  BY <1>1, Inductive, PTL

\* _stop_all and unregister_worker: whoever owns a lease is registered, so an
\* orderly exit leaves none behind, not even after a lost reply.
THEOREM NoLeaseLeft == Spec => []OrderlyExit
<1> DEFINE Inv == OrderlyExit /\ Up \subseteq registered
<1>1. Init => Inv
  BY DEF Init, OrderlyExit, Up
<1>2. TypeOK /\ Inv /\ [Next]_vars => Inv'
  <2> SUFFICES ASSUME TypeOK, Inv, [Next]_vars PROVE Inv'
    OBVIOUS
  <2> USE DEF TypeOK, OrderlyExit, Up, At, Goto, leases, rows, locals
  <2>1. ASSUME NEW w \in Worker, Start(w) \/ Crash(w) \/ Shutdown(w) PROVE Inv'
    BY <2>1 DEF Start, Crash, Shutdown
  <2>2. ASSUME NEW w \in Worker, Wake(w) \/ List(w) \/ SweepDone(w) \/ Sleep(w) PROVE Inv'
    BY <2>2 DEF Wake, List, SweepDone, Sleep
  <2>3. ASSUME NEW w \in Worker, Release(w) \/ Unregister(w) PROVE Inv'
    BY <2>3, NobodyAssumption DEF Release, Unregister
  <2>4. ASSUME NEW w \in Worker, NEW c \in Campaign,
               SweepStop(w, c) \/ CloseStop(w, c) \/ TaskFails(w, c) \/ SweepRenew(w, c)
        PROVE  Inv'
    BY <2>4 DEF SweepStop, CloseStop, TaskFails, SweepRenew
  <2>5. ASSUME NEW w \in Worker, NEW c \in Campaign, Acquire(w, c) \/ AcquireLost(w, c)
        PROVE  Inv'
    BY <2>5 DEF Acquire, AcquireLost
  <2>6. CASE Tick \/ UNCHANGED vars
    BY <2>6 DEF Tick, vars
  <2> QED
    BY <2>1, <2>2, <2>3, <2>4, <2>5, <2>6 DEF Next, Step
<1> QED
  BY <1>1, <1>2, TypeCorrect, PTL DEF Spec

----------------------------------------------------------------------------
(* The transfer guard *)

\* The strengthened invariant: what guards the store guards memory too.
HInv == HandoffTypeOK /\ GuardKnows

\* A record that says committed is the one the rebuilt guard finds.
LEMMA LoadedGuardIsOld ==
  ASSUME HInv
  PROVE  /\ LoadedGuard \in [Entity -> Transfer \cup {None}]
         /\ \A e \in Entity : LoadedGuard[e] \in {None, guard[e]}
         /\ \A t \in Transfer : stored[t] = "committed" => LoadedGuard[Subject[t]] = t
<1> DEFINE Recorded(e) == {t \in Transfer : Subject[t] = e /\ stored[t] = "committed"}
<1>1. \A e \in Entity : \A t \in Recorded(e) : t = guard[e]
  BY DEF HInv, GuardKnows, CommittedSomewhere
<1>2. ASSUME NEW e \in Entity
      PROVE  /\ Recorded(e) = {} => LoadedGuard[e] = None
             /\ Recorded(e) # {} => LoadedGuard[e] \in Recorded(e)
  BY <1>2 DEF LoadedGuard
<1>3. ASSUME NEW t \in Transfer
      PROVE  Subject[t] \in Entity /\ (stored[t] = "committed" => t \in Recorded(Subject[t]))
  BY SubjectAssumption
<1>4. LoadedGuard \in [Entity -> Transfer \cup {None}]
  BY <1>2 DEF LoadedGuard
<1>5. \A e \in Entity : LoadedGuard[e] \in {None, guard[e]}
  BY <1>1, <1>2
<1>6. \A t \in Transfer : stored[t] = "committed" => LoadedGuard[Subject[t]] = t
  BY <1>1, <1>2, <1>3
<1> QED
  BY <1>4, <1>5, <1>6

LEMMA HandoffStarts == HandoffInit => HInv
BY SubjectAssumption DEF HandoffInit, HInv, HandoffTypeOK, GuardKnows, CommittedSomewhere, Absent

LEMMA HandoffKept == HInv /\ [HandoffNext]_handoffVars => HInv'
<1> SUFFICES ASSUME HInv, [HandoffNext]_handoffVars PROVE HInv'
  OBVIOUS
<1> USE DEF HInv, HandoffTypeOK, Status
<1>1. ASSUME NEW t \in Transfer, Prepare(t) \/ Accept(t) \/ Abort(t) PROVE HInv'
  BY <1>1 DEF Prepare, Accept, Abort, Set, GuardKnows, CommittedSomewhere
<1>2. ASSUME NEW t \in Transfer, Commit(t) PROVE HInv'
  <2>1. HandoffTypeOK'
    BY <1>2, SubjectAssumption, NoneAssumption DEF Commit, Set
  <2>2. GuardKnows'
    BY <1>2, SubjectAssumption, NoneAssumption
       DEF Commit, Set, NoRival, GuardKnows, CommittedSomewhere
  <2> QED
    BY <2>1, <2>2
<1>3. ASSUME NEW t \in Transfer, Save(t) PROVE HInv'
  BY <1>3 DEF Save, Absent, GuardKnows, CommittedSomewhere
<1>4. ASSUME NEW t \in Transfer, NEW s \in Status, Land(t, s) PROVE HInv'
  BY <1>4 DEF Land, GuardKnows, CommittedSomewhere
<1>5. CASE Restart
  BY <1>5, LoadedGuardIsOld DEF Restart, GuardKnows, CommittedSomewhere
<1>6. CASE UNCHANGED handoffVars
  BY <1>6 DEF handoffVars, GuardKnows, CommittedSomewhere
<1> QED
  BY <1>1, <1>2, <1>3, <1>4, <1>5, <1>6 DEF HandoffNext

LEMMA HandoffInductive == HandoffSpec => []HInv
BY HandoffStarts, HandoffKept, PTL DEF HandoffSpec

\* Every reachable state of the coordinator and its store is well typed.
THEOREM HandoffTypes == HandoffSpec => []HandoffTypeOK
BY HandoffInductive, PTL DEF HInv

\* commit's guard and load_transfers: whatever says committed is in the guard.
THEOREM GuardComplete == HandoffSpec => []GuardKnows
BY HandoffInductive, PTL DEF HInv

\* No two transfers of one entity are committed together, through retries,
\* overtaking writes and restarts.
THEOREM SingleWinner == HandoffSpec => []OneWinner
<1>1. HInv => OneWinner
  BY DEF HInv, GuardKnows, OneWinner
<1> QED
  BY <1>1, HandoffInductive, PTL

\* The coordinator and its store implement the abstract once-only guard.
THEOREM ImplementsOnceOnly == HandoffSpec => NeverReplaced
<1>1. HandoffInit => Abstract!Init
  BY DEF HandoffInit, Abstract!Init
<1>2. HInv /\ [HandoffNext]_handoffVars => [Abstract!Next]_guard
  <2> SUFFICES ASSUME HInv, [HandoffNext]_handoffVars PROVE [Abstract!Next]_guard
    OBVIOUS
  <2>1. ASSUME NEW t \in Transfer, Commit(t) PROVE [Abstract!Next]_guard
    <3>1. CASE guard[Subject[t]] = None
      BY <2>1, <3>1 DEF Commit, Abstract!Next, Abstract!Pick
    <3>2. CASE guard[Subject[t]] = t
      BY <2>1, <3>2 DEF Commit, HInv, HandoffTypeOK
    <3> QED
      BY <2>1, <3>1, <3>2 DEF Commit, NoRival
  <2>2. CASE Restart
    <3> DEFINE lost == {e \in Entity : LoadedGuard[e] = None}
    <3>1. /\ guard' = LoadedGuard
          /\ LoadedGuard \in [Entity -> Transfer \cup {None}]
          /\ \A e \in Entity : LoadedGuard[e] \in {None, guard[e]}
      BY <2>2, LoadedGuardIsOld DEF Restart
    <3>2. guard' = [e \in Entity |-> IF e \in lost THEN None ELSE guard[e]]
      BY <3>1
    <3>3. Abstract!Lose(lost) /\ lost \in SUBSET Entity
      BY <3>2 DEF Abstract!Lose
    <3> QED
      BY <3>3 DEF Abstract!Next
  <2>3. CASE UNCHANGED guard
    BY <2>3
  <2> QED
    BY <2>1, <2>2, <2>3
       DEF HandoffNext, Prepare, Accept, Abort, Save, Land, handoffVars
<1> QED
  BY <1>1, <1>2, HandoffInductive, PTL DEF HandoffSpec, NeverReplaced, Abstract!Spec
=============================================================================
