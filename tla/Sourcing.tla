------------------------------ MODULE Sourcing ------------------------------
(***************************************************************************)
(* A persisted campaign under event sourcing: GameEngine's numbered events *)
(* and campaign row (core/engine.py, core/persistence.py) wrapped by       *)
(* EventSourcedEngine's journal and command ledger (core/event_sourcing.py)*)
(* with several deliveries of commands in flight, the real-time tick       *)
(* running beside them, and crashes.  A change of the state is one effect  *)
(* with the one event it emits; the state is the set of its effects.       *)
(***************************************************************************)
EXTENDS Naturals, Sequences

CONSTANTS
  Command,      \* command ids
  Delivery,     \* dispatch calls; a re-delivered command has several
  CommandOf,
  World,        \* the author of effects that no command asked for
  Nobody,       \* the engine lock is free
  MaxSequence,  \* bound: events
  MaxLife       \* bound: process lives

ASSUME DeliveryAssumption ==
  /\ CommandOf \in [Delivery -> Command]
  /\ World \notin Command /\ Nobody \notin Delivery /\ World \notin Delivery /\ Nobody # World
ASSUME BoundAssumption == MaxSequence \in Nat /\ MaxLife \in Nat

VARIABLES
  life,        \* number of this process
  applied,     \* engine.state: its effects
  sequence,    \* engine.sequence: the last event number
  synced,      \* sequence in the state's engine_runtime metadata
  log,         \* events table
  row,         \* campaigns row: state and the ledger in its metadata
  base,        \* journal.initial_state
  journal,     \* journal.entries: the states each patch leads from and to
  ledger,      \* commands with a receipt
  lock,        \* holder of the engine lock
  pc, before,  \* each delivery: progress, captured pre-state
  orphans      \* history: event numbers logged by a life that crashed unsaved

world == <<applied, sequence, log>>
book == <<base, journal, ledger>>
vars == <<life, applied, sequence, synced, log, row, base, journal, ledger, lock, pc,
          before, orphans>>

Author == Command \cup {World}
Effect == [by : Author, life : Nat, sequence : Nat]

\* What state_hash covers: the metadata engine_runtime is refreshed only when
\* the engine persists, the ledger and the journal head are left out.
Snapshot == [applied |-> applied, synced |-> synced]
JournalHead == IF journal = <<>> THEN base ELSE journal[Len(journal)].to

Unset == [applied |-> {}, synced |-> 0]

Init ==
  /\ life = 1
  /\ applied = {} /\ sequence = 0 /\ synced = 0 /\ log = {}
  /\ row = [applied |-> {}, sequence |-> 0, ledger |-> {}]
  /\ base = Unset /\ journal = <<>> /\ ledger = {}
  /\ lock = Nobody
  /\ pc = [i \in Delivery |-> "new"]
  /\ before = [i \in Delivery |-> Unset]
  /\ orphans = {}

----------------------------------------------------------------------------
(* The engine *)

\* append_event, INSERT OR IGNORE: a number already in the table keeps its event.
Logged(e) == IF \E f \in log : f.sequence = e.sequence THEN log ELSE log \cup {e}

\* An effect and its _emit.
Perform(author) ==
  LET e == [by |-> author, life |-> life, sequence |-> sequence + 1] IN
  /\ sequence < MaxSequence
  /\ sequence' = sequence + 1
  /\ applied' = applied \cup {e}
  /\ log' = Logged(e)

\* Slip: the row keeps its old content.
LeaveRow == UNCHANGED <<row, synced>>

\* _persist_state: refresh the metadata, then save_campaign.  The lock is held
\* while the store is awaited: where nothing follows the save but the release of
\* the lock, whoever looks in between sees what it would see right after.
PersistState ==
  /\ synced' = sequence
  /\ row' = [applied |-> applied, sequence |-> sequence, ledger |-> ledger]

\* tick: an effect of the world under the lock, then the row.
TickBegin ==
  /\ lock = Nobody /\ lock' = World
  /\ Perform(World)
  /\ UNCHANGED <<life, synced, row, book, pc, before, orphans>>

TickEnd ==
  /\ lock = World /\ lock' = Nobody
  /\ PersistState
  /\ UNCHANGED <<life, world, book, pc, before, orphans>>

----------------------------------------------------------------------------
(* EventSourcedEngine.dispatch *)

Goto(i, place) == pc' = [pc EXCEPT ![i] = place]

\* Slip: the receipt is registered before there is a result.
DeliverEarly(i) ==
  /\ pc[i] = "new"
  /\ Goto(i, IF CommandOf[i] \in ledger THEN "answered" ELSE "waiting")
  /\ before' = [before EXCEPT ![i] = Snapshot]
  /\ ledger' = ledger \cup {CommandOf[i]}
  /\ UNCHANGED <<life, world, synced, row, base, journal, lock, orphans>>

\* The ledger is looked up and the pre-state captured without a lock.  A known
\* command is answered with its receipt at once.
Deliver(i) ==
  /\ pc[i] = "new"
  /\ IF CommandOf[i] \in ledger
       THEN Goto(i, "answered") /\ UNCHANGED before
       ELSE Goto(i, "waiting") /\ before' = [before EXCEPT ![i] = Snapshot]
  /\ UNCHANGED <<life, world, synced, row, book, lock, orphans>>

\* engine.dispatch takes the lock and executes the command.
Execute(i) ==
  /\ pc[i] = "waiting" /\ lock = Nobody
  /\ lock' = i /\ Goto(i, "executed")
  /\ Perform(CommandOf[i])
  /\ UNCHANGED <<life, synced, row, book, before, orphans>>

\* ... or refuses it, after it has perhaps drained work that was due: those
\* effects stay, with no _persist_state.
Refuse(i) ==
  /\ pc[i] = "waiting" /\ lock = Nobody
  /\ Goto(i, "raised")
  /\ Perform(World) \/ UNCHANGED world
  /\ before' = [before EXCEPT ![i] = Unset]
  /\ UNCHANGED <<life, synced, row, book, lock, orphans>>

\* _persist_state, still under the lock: the metadata is refreshed, then the
\* store is awaited.  A delivery that comes during this await captures the very
\* state this command's journal entry will lead to.
Persist(i) ==
  /\ pc[i] = "executed"
  /\ synced' = sequence
  /\ Goto(i, "saving")
  /\ UNCHANGED <<life, world, row, book, lock, before, orphans>>

HeadMatches(i) == JournalHead = before[i]
EntryOf(i) == [command |-> CommandOf[i], from |-> before[i], to |-> Snapshot]

\* The row is saved, the lock released, and with no further await the entry is
\* appended and the receipt registered.  The call raises when the journal's head
\* is not the captured pre-state, and, after the entry has been appended, when
\* the command has a receipt already, since that one vouches for another state.
Return(i) ==
  /\ pc[i] = "saving"
  /\ PersistState
  /\ lock' = Nobody
  /\ Goto(i, IF HeadMatches(i) /\ CommandOf[i] \notin ledger THEN "recorded" ELSE "raised")
  /\ IF HeadMatches(i)
       THEN journal' = Append(journal, EntryOf(i)) /\ ledger' = ledger \cup {CommandOf[i]}
       ELSE UNCHANGED <<journal, ledger>>
  /\ before' = [before EXCEPT ![i] = Unset]
  /\ UNCHANGED <<life, world, base, orphans>>

\* put_json of the entry (nothing reads it back), then engine.save() makes the
\* ledger durable and the caller has its answer.
Answer(i) ==
  /\ pc[i] = "recorded" /\ lock = Nobody
  /\ PersistState
  /\ Goto(i, "answered")
  /\ UNCHANGED <<life, world, book, lock, before, orphans>>

\* The client of a failed call delivers the command again.
Retry(i) ==
  /\ pc[i] = "raised"
  /\ Goto(i, "new")
  /\ UNCHANGED <<life, world, synced, row, book, lock, before, orphans>>

\* Slip: event numbers start again at one.
RestartedSequence == 0
LoadedSequence == row.sequence

LoadedState == [applied |-> row.applied, synced |-> row.sequence]

\* The process dies; a new one loads the row, with a journal that begins there.
\* Unanswered clients deliver again.
Restart ==
  /\ life < MaxLife /\ life' = life + 1
  /\ applied' = row.applied
  /\ sequence' = LoadedSequence
  /\ synced' = row.sequence
  /\ ledger' = row.ledger
  /\ base' = LoadedState
  /\ journal' = <<>>
  /\ lock' = Nobody
  /\ pc' = [i \in Delivery |-> IF pc[i] = "answered" THEN "answered" ELSE "new"]
  /\ orphans' = orphans \cup {e.sequence : e \in {f \in log : f.sequence > row.sequence}}
  /\ before' = [i \in Delivery |-> Unset]
  /\ UNCHANGED <<log, row>>

----------------------------------------------------------------------------
Next ==
  \/ TickBegin \/ TickEnd
  \/ \E i \in Delivery :
       \/ Deliver(i) \/ Execute(i) \/ Refuse(i)
       \/ Persist(i) \/ Return(i) \/ Answer(i) \/ Retry(i)
  \/ Restart

Spec == Init /\ [][Next]_vars
----------------------------------------------------------------------------
State == [applied : SUBSET Effect, synced : Nat]
Entry == [command : Command, from : State, to : State]
Progress == {"new", "waiting", "executed", "saving", "recorded", "raised", "answered"}

TypeOK ==
  /\ life \in Nat /\ sequence \in Nat /\ synced \in Nat
  /\ applied \subseteq Effect /\ log \subseteq Effect
  /\ row \in [applied : SUBSET Effect, sequence : Nat, ledger : SUBSET Command]
  /\ base \in State
  /\ journal \in Seq(Entry)
  /\ ledger \subseteq Command
  /\ lock \in Delivery \cup {Nobody, World}
  /\ pc \in [Delivery -> Progress]
  /\ before \in [Delivery -> State]
  /\ orphans \subseteq Nat

HasEffect(c, effects) == \E e \in effects : e.by = c

\* A receipt is never ahead of the state it is stored with, in memory or in the
\* row: no crash can leave a command answered as done whose effect is lost.
LedgerTruthful ==
  /\ \A c \in ledger : HasEffect(c, applied)
  /\ \A c \in row.ledger : HasEffect(c, row.applied)

\* Whoever has an answer, a receipt or a duplicate one, has its effect in the row.
AnsweredIsDurable ==
  \A i \in Delivery : pc[i] = "answered" => HasEffect(CommandOf[i], row.applied)

\* The event table tells the state's history, but for numbers that a crashed life
\* had logged and not saved: there INSERT OR IGNORE keeps the lost life's event.
LogTellsHistory ==
  \A e \in applied : e \in log \/ e.sequence \in orphans

\* docs/RUNTIME_1_2_TO_1_5.md: "Re-delivery of the same command ID returns the
\* previous receipt as a duplicate rather than mutating state again."
NeverAppliedTwice ==
  \A e, f \in applied : e.by \in Command /\ e.by = f.by => e = f
=============================================================================
