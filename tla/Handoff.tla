------------------------------ MODULE Handoff -------------------------------
(***************************************************************************)
(* The two-phase handoff of an entity between world shards:                *)
(* TransferCoordinator (distributed/world.py) in memory, and the transfer  *)
(* records PersistentWorldRegistry (distributed/persistence.py) keeps in   *)
(* the JSON store.  Saving is a call of its own, made by whoever drives    *)
(* the coordinator, and its write lands when the store gets to it, so a    *)
(* crash can fall between any operation and the record of it.  A refused   *)
(* call (wrong hash, wrong status) raises and changes nothing.             *)
(***************************************************************************)
CONSTANTS
  Entity, Transfer,
  Subject,     \* the entity of each transfer: prepare draws a fresh transfer id
  None

Status == {"prepared", "accepted", "committed", "aborted"}
Absent == "absent"

ASSUME SubjectAssumption == Subject \in [Transfer -> Entity]
ASSUME NoneAssumption == None \notin Transfer

VARIABLES
  status,      \* transfers: the status of each transfer, absent before prepare
  guard,       \* committed_entities
  stored,      \* the world.transfer namespace of the store
  inflight,    \* <<t, s>>: a save_transfer of t in status s still to land
  done         \* history: transfers whose commit returned to its caller

handoffVars == <<status, guard, stored, inflight, done>>

HandoffInit ==
  /\ status = [t \in Transfer |-> Absent]
  /\ guard = [e \in Entity |-> None]
  /\ stored = [t \in Transfer |-> Absent]
  /\ inflight = {}
  /\ done = {}

Set(t, s) == status' = [status EXCEPT ![t] = s]

\* A fresh id: one no record, and no caller's commit, has seen.
Prepare(t) ==
  /\ status[t] = Absent /\ stored[t] = Absent /\ t \notin done
  /\ Set(t, "prepared")
  /\ UNCHANGED <<guard, stored, inflight, done>>

\* Only an aborted transfer is refused: a repeated confirmation from the
\* destination takes a committed transfer back to accepted.
Accept(t) ==
  /\ status[t] \notin {Absent, "aborted"}
  /\ Set(t, "accepted")
  /\ UNCHANGED <<guard, stored, inflight, done>>

\* Slip: the entity may have been committed through another transfer.
FreeOfRivals(t) == TRUE
NoRival(t) == guard[Subject[t]] \in {None, t}

\* A repeated commit returns at once.
Commit(t) ==
  /\ status[t] = "accepted"
  /\ NoRival(t)
  /\ Set(t, "committed")
  /\ guard' = [guard EXCEPT ![Subject[t]] = t]
  /\ done' = done \cup {t}
  /\ UNCHANGED <<stored, inflight>>

Abort(t) ==
  /\ status[t] \notin {Absent, "committed"}
  /\ Set(t, "aborted")
  /\ UNCHANGED <<guard, stored, inflight, done>>

\* save_transfer serialises the transfer as it is now ...
Save(t) ==
  /\ status[t] # Absent
  /\ inflight' = inflight \cup {<<t, status[t]>>}
  /\ UNCHANGED <<status, guard, stored, done>>

\* ... and put_json replaces the record, in whatever order the writes land.
Land(t, s) ==
  /\ <<t, s>> \in inflight
  /\ stored' = [stored EXCEPT ![t] = s]
  /\ inflight' = inflight \ {<<t, s>>}
  /\ UNCHANGED <<status, guard, done>>

\* load_transfers: the guard is rebuilt from the records that say committed.
LoadedGuard ==
  [e \in Entity |->
    IF \E t \in Transfer : Subject[t] = e /\ stored[t] = "committed"
      THEN CHOOSE t \in Transfer : Subject[t] = e /\ stored[t] = "committed"
      ELSE None]

\* The process dies, its pending writes with it, and a new one loads the store.
Restart ==
  /\ status' = stored
  /\ guard' = LoadedGuard
  /\ inflight' = {}
  /\ UNCHANGED <<stored, done>>

HandoffNext ==
  \/ \E t \in Transfer : Prepare(t) \/ Accept(t) \/ Commit(t) \/ Abort(t) \/ Save(t)
  \/ \E t \in Transfer, s \in Status : Land(t, s)
  \/ Restart

HandoffSpec == HandoffInit /\ [][HandoffNext]_handoffVars
----------------------------------------------------------------------------
HandoffTypeOK ==
  /\ status \in [Transfer -> Status \cup {Absent}]
  /\ guard \in [Entity -> Transfer \cup {None}]
  /\ stored \in [Transfer -> Status \cup {Absent}]
  /\ inflight \subseteq Transfer \X Status
  /\ done \subseteq Transfer

\* Two transfers of one entity are never committed together, in memory or in
\* the store, through any sequence of retries, overtaking writes and restarts
\* (commit's test of committed_entities and load_transfers' rebuild of it).
CommittedSomewhere(t) ==
  status[t] = "committed" \/ stored[t] = "committed" \/ <<t, "committed">> \in inflight
OneWinner ==
  \A t, u \in Transfer :
    CommittedSomewhere(t) /\ CommittedSomewhere(u) /\ Subject[t] = Subject[u] => t = u

\* The guard knows every committed transfer, so a rival's commit is refused for
\* as long as memory, the store or a pending write says committed.
GuardKnows == \A t \in Transfer : CommittedSomewhere(t) => guard[Subject[t]] = t

\* The guard implements OnceOnly: a restart may forget the winner of an entity
\* (its commit never saved, or overwritten) but no step puts a rival in its place.
Abstract == INSTANCE OnceOnly WITH winner <- guard
NeverReplaced == Abstract!Spec
=============================================================================
