------------------------------- MODULE Workers -------------------------------
(***************************************************************************)
(* Campaign hosting: SimulationWorker (hosting/workers.py) processes that  *)
(* share the worker registry and the campaign leases of PostgreSQLStore    *)
(* (hosting/postgres.py).  Every awaited database call is a step of its    *)
(* own.  Time is the database clock in ticks; a lease counts down, a       *)
(* heartbeat ages.  A worker's cycle is a sleep and a reconciliation;      *)
(* Cycle bounds the ticks one takes, so a stall is a large Cycle.          *)
(***************************************************************************)
EXTENDS Integers, FiniteSets

CONSTANTS
  Worker, Campaign,
  Score,      \* RendezvousRouter.score: [Campaign -> [Worker -> Nat]], all distinct
  Capacity,   \* WorkerConfig.capacity
  TTL,        \* lease_ttl_seconds
  MaxAge,     \* age at which list_active_workers drops a worker
  Cycle,      \* environment: the longest cycle of a live worker
  Nobody,       \* no owner, no campaign
  MaxFaults   \* bound: starts, shutdowns, crashes and task failures

ASSUME NumberAssumption ==
  /\ TTL \in Nat \ {0} /\ MaxAge \in Nat \ {0}
  /\ Cycle \in Nat /\ Capacity \in Nat /\ MaxFaults \in Nat
ASSUME NobodyAssumption == Nobody \notin Worker /\ Nobody \notin Campaign

VARIABLES
  owner, left,     \* campaign_leases: worker_id (Nobody: no row), lease_until - NOW()
  registered, age, \* simulation_workers: rows, NOW() - heartbeat_at up to MaxAge
  pc,              \* where the coroutine of a worker process is
  elapsed,         \* ticks since the cycle began
  running,         \* _campaigns
  failed,          \* campaigns whose task ended with an exception
  desired, todo,   \* locals of _reconcile
  releasing,       \* _stop_campaign's release still to be sent
  faults

leases == <<owner, left>>
rows == <<registered, age>>
locals == <<desired, todo>>
vars == <<owner, left, registered, age, pc, elapsed, running, failed, desired, todo,
          releasing, faults>>

Up == {w \in Worker : pc[w] # "down"}
Active == {w \in registered : age[w] < MaxAge}

\* RendezvousRouter.choose, and the best-scored campaigns a worker has room for.
Choose(c, workers) == CHOOSE w \in workers : \A v \in workers : Score[c][v] <= Score[c][w]
Desired(w, workers) ==
  LET preferred == {c \in Campaign : Choose(c, workers) = w} IN
  {c \in preferred : Cardinality({d \in preferred : Score[d][w] > Score[c][w]}) < Capacity}

Init ==
  /\ owner = [c \in Campaign |-> Nobody] /\ left = [c \in Campaign |-> 0]
  /\ registered = {} /\ age = [w \in Worker |-> 0]
  /\ pc = [w \in Worker |-> "down"]
  /\ elapsed = [w \in Worker |-> 0]
  /\ running = [w \in Worker |-> {}] /\ failed = [w \in Worker |-> {}]
  /\ desired = [w \in Worker |-> {}] /\ todo = [w \in Worker |-> {}]
  /\ releasing = [w \in Worker |-> Nobody]
  /\ faults = 0

----------------------------------------------------------------------------
(* The life of a process *)

Fault == faults < MaxFaults /\ faults' = faults + 1

\* run: register_worker, then the loop.
Start(w) ==
  /\ pc[w] = "down" /\ Fault
  /\ pc' = [pc EXCEPT ![w] = "wait"]
  /\ elapsed' = [elapsed EXCEPT ![w] = 0]
  /\ registered' = registered \cup {w} /\ age' = [age EXCEPT ![w] = 0]
  /\ UNCHANGED <<leases, running, failed, locals, releasing>>

\* The process is killed: its rows stay behind.
Crash(w) ==
  /\ pc[w] # "down" /\ Fault
  /\ pc' = [pc EXCEPT ![w] = "down"]
  /\ running' = [running EXCEPT ![w] = {}] /\ failed' = [failed EXCEPT ![w] = {}]
  /\ desired' = [desired EXCEPT ![w] = {}] /\ todo' = [todo EXCEPT ![w] = {}]
  /\ releasing' = [releasing EXCEPT ![w] = Nobody]
  /\ UNCHANGED <<leases, rows, elapsed>>

\* The stop event, or a database error out of _reconcile: run's finally clause.
Shutdown(w) ==
  /\ pc[w] \notin {"down", "closing"} /\ Fault
  /\ pc' = [pc EXCEPT ![w] = "closing"]
  /\ desired' = [desired EXCEPT ![w] = {}] /\ todo' = [todo EXCEPT ![w] = {}]
  /\ releasing' = [releasing EXCEPT ![w] = Nobody]
  /\ UNCHANGED <<leases, rows, elapsed, running, failed>>

\* _serve_campaign swallows the exception; the campaign stays in _campaigns.
TaskFails(w, c) ==
  /\ c \in running[w] \ failed[w] /\ Fault
  /\ failed' = [failed EXCEPT ![w] = @ \cup {c}]
  /\ UNCHANGED <<leases, rows, pc, elapsed, running, locals, releasing>>

----------------------------------------------------------------------------
(* One cycle *)

At(w, place) == pc[w] = place /\ releasing[w] = Nobody
Goto(w, place) == pc' = [pc EXCEPT ![w] = place]

\* The sleep ends: heartbeat_worker, which only refreshes an existing row.
Wake(w) ==
  /\ At(w, "wait") /\ Goto(w, "list")
  /\ elapsed' = [elapsed EXCEPT ![w] = 0]
  /\ age' = IF w \in registered THEN [age EXCEPT ![w] = 0] ELSE age
  /\ UNCHANGED <<leases, registered, running, failed, locals, releasing, faults>>

\* A worker counts itself even when its own row is missing.
Seen(w) == Active \cup {w}

\* list_active_workers and list_hosted_campaign_ids fix what the rest goes by.
List(w) ==
  /\ At(w, "list") /\ Goto(w, "sweep")
  /\ desired' = [desired EXCEPT ![w] = Desired(w, Seen(w))]
  /\ todo' = [todo EXCEPT ![w] = running[w]]
  /\ UNCHANGED <<leases, rows, elapsed, running, failed, releasing, faults>>

\* _stop_campaign first ends the campaign's task ...
Stop(w, c) ==
  /\ running' = [running EXCEPT ![w] = @ \ {c}]
  /\ failed' = [failed EXCEPT ![w] = @ \ {c}]

\* ... then releases the lease, if it is still this worker's.
Release(w) ==
  /\ releasing[w] # Nobody
  /\ releasing' = [releasing EXCEPT ![w] = Nobody]
  /\ owner' = IF owner[releasing[w]] = w THEN [owner EXCEPT ![releasing[w]] = Nobody] ELSE owner
  /\ UNCHANGED <<left, rows, pc, elapsed, running, failed, locals, faults>>

SweepStop(w, c) ==
  /\ At(w, "sweep") /\ c \in todo[w] \ desired[w]
  /\ todo' = [todo EXCEPT ![w] = @ \ {c}]
  /\ Stop(w, c)
  /\ releasing' = [releasing EXCEPT ![w] = c]
  /\ UNCHANGED <<leases, rows, pc, elapsed, desired, faults>>

\* renew_campaign_lease succeeds on an unexpired lease of one's own; otherwise
\* the campaign is stopped and the row left alone.
Renewable(w, c) == owner[c] = w /\ left[c] > 0
SweepRenew(w, c) ==
  /\ At(w, "sweep") /\ c \in todo[w] \cap desired[w]
  /\ todo' = [todo EXCEPT ![w] = @ \ {c}]
  /\ IF Renewable(w, c)
       THEN left' = [left EXCEPT ![c] = TTL] /\ UNCHANGED <<running, failed>>
       ELSE Stop(w, c) /\ UNCHANGED left
  /\ UNCHANGED <<owner, rows, pc, elapsed, desired, releasing, faults>>

SweepDone(w) ==
  /\ At(w, "sweep") /\ todo[w] = {} /\ Goto(w, "acquire")
  /\ todo' = [todo EXCEPT ![w] = desired[w] \ running[w]]
  /\ UNCHANGED <<leases, rows, elapsed, running, failed, desired, releasing, faults>>

\* acquire_campaign_lease: a new row, an expired one, or one's own.  The slips
\* forget lease_until, or give up on any row there is.
TakesAnyLease(w, c) == TRUE
TakesNewLease(w, c) == owner[c] = Nobody
MayTakeLease(w, c) == owner[c] = Nobody \/ left[c] = 0 \/ owner[c] = w

Acquire(w, c) ==
  /\ At(w, "acquire") /\ c \in todo[w]
  /\ todo' = [todo EXCEPT ![w] = @ \ {c}]
  /\ IF MayTakeLease(w, c)
       THEN /\ owner' = [owner EXCEPT ![c] = w] /\ left' = [left EXCEPT ![c] = TTL]
            /\ running' = [running EXCEPT ![w] = @ \cup {c}]
       ELSE UNCHANGED <<leases, running>>
  /\ UNCHANGED <<rows, pc, elapsed, failed, desired, releasing, faults>>

\* The statement is executed but its reply is lost: the database error ends the
\* loop as a shutdown does, with a lease this worker does not know of.
AcquireLost(w, c) ==
  /\ At(w, "acquire") /\ c \in todo[w] /\ Fault
  /\ MayTakeLease(w, c)
  /\ owner' = [owner EXCEPT ![c] = w] /\ left' = [left EXCEPT ![c] = TTL]
  /\ Goto(w, "closing")
  /\ desired' = [desired EXCEPT ![w] = {}] /\ todo' = [todo EXCEPT ![w] = {}]
  /\ UNCHANGED <<rows, elapsed, running, failed, releasing>>

Sleep(w) ==
  /\ At(w, "acquire") /\ todo[w] = {} /\ Goto(w, "wait")
  /\ desired' = [desired EXCEPT ![w] = {}]
  /\ UNCHANGED <<leases, rows, elapsed, running, failed, todo, releasing, faults>>

----------------------------------------------------------------------------
(* _stop_all and unregister_worker *)

CloseStop(w, c) ==
  /\ At(w, "closing") /\ c \in running[w]
  /\ Stop(w, c)
  /\ releasing' = [releasing EXCEPT ![w] = c]
  /\ UNCHANGED <<leases, rows, pc, elapsed, locals, faults>>

Unregister(w) ==
  /\ At(w, "closing") /\ running[w] = {} /\ Goto(w, "down")
  /\ owner' = [c \in Campaign |-> IF owner[c] = w THEN Nobody ELSE owner[c]]
  /\ registered' = registered \ {w}
  /\ UNCHANGED <<left, age, elapsed, running, failed, locals, releasing, faults>>

\* What is left of a lease, until it has run out.
Decayed(n) == IF n > 0 THEN n - 1 ELSE 0

\* The clock, as long as every live worker completes its cycles in time.
Tick ==
  /\ \A w \in Up : elapsed[w] < Cycle
  /\ left' = [c \in Campaign |-> Decayed(left[c])]
  /\ age' = [w \in Worker |-> IF age[w] < MaxAge THEN age[w] + 1 ELSE MaxAge]
  /\ elapsed' = [w \in Worker |-> IF w \in Up THEN elapsed[w] + 1 ELSE 0]
  /\ UNCHANGED <<owner, registered, pc, running, failed, locals, releasing, faults>>

----------------------------------------------------------------------------
Step(w) ==
  \/ Wake(w) \/ List(w) \/ Release(w) \/ SweepDone(w) \/ Sleep(w) \/ Unregister(w)
  \/ \E c \in Campaign :
       SweepStop(w, c) \/ SweepRenew(w, c) \/ Acquire(w, c) \/ CloseStop(w, c)

Next ==
  \/ \E w \in Worker : Step(w) \/ Start(w) \/ Crash(w) \/ Shutdown(w)
  \/ \E w \in Worker, c \in Campaign : TaskFails(w, c) \/ AcquireLost(w, c)
  \/ Tick

Spec == Init /\ [][Next]_vars

\* Each event loop keeps running its worker, and time goes on.
FairSpec == Spec /\ (\A w \in Worker : WF_vars(Step(w))) /\ WF_vars(Tick)
----------------------------------------------------------------------------
TypeOK ==
  /\ owner \in [Campaign -> Worker \cup {Nobody}] /\ left \in [Campaign -> 0..TTL]
  /\ registered \subseteq Worker /\ age \in [Worker -> 0..MaxAge]
  /\ pc \in [Worker -> {"down", "wait", "list", "sweep", "acquire", "closing"}]
  /\ elapsed \in [Worker -> 0..Cycle]
  /\ running \in [Worker -> SUBSET Campaign] /\ failed \in [Worker -> SUBSET Campaign]
  /\ desired \in [Worker -> SUBSET Campaign] /\ todo \in [Worker -> SUBSET Campaign]
  /\ releasing \in [Worker -> Campaign \cup {Nobody}]
  /\ faults \in 0..MaxFaults

Simulating(w) == running[w] \ failed[w]

\* workers.py: leases are "the final authority that prevents two processes from
\* simulating the same campaign concurrently".
OneSimulator ==
  \A v, w \in Worker : v # w => Simulating(v) \cap Simulating(w) = {}

\* A worker that left in order (_stop_all, unregister_worker) leaves no lease for
\* the others to wait for, not even one it took without knowing: whoever owns a
\* lease is registered.
OrderlyExit == \A c \in Campaign : owner[c] # Nobody => owner[c] \in registered

\* Once starts and faults are over, every live worker ends up running exactly the
\* campaigns that rendezvous hashing among the live workers gives it: leases of
\* the dead expire, and a campaign that is no longer preferred is handed over.
PlacementSettles ==
  <>[](\A w \in Up : running[w] = Desired(w, Up))
=============================================================================
