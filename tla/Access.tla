-------------------------------- MODULE Access --------------------------------
(***************************************************************************)
(* How clients reach a campaign through one API process: the engine that   *)
(* get_engine loads and caches (api/app.py), the CampaignSession that      *)
(* grants roles and actors (multiplayer/sessions.py), the WebSockets of    *)
(* api/knowledge_routes.py with their bounded EventStreams                 *)
(* (core/events.py), and the resume tickets of hosting/reconnect.py behind *)
(* api/hosting.py.  Every awaited read or write of a ticket is a step of   *)
(* its own, and so are the two halves of loading an engine, of creating    *)
(* the campaign and of opening a WebSocket.                                *)
(***************************************************************************)
EXTENDS Integers, Sequences, Functions

CONSTANTS
  Client,                \* clients, each with its client_id
  UserOf, Wants,         \* the user of a client; the role it asks for
  Creator, Local,        \* users: who creates the campaign, the default owner
  Actor,                 \* ids of actors
  Viewer, Roamer,        \* clients that open a WebSocket, that resume sessions
  Limit, QueueSize,      \* the page of a resumption, maxsize of an EventStream
  MaxEngines, MaxEvents, MaxTickets, MaxCalls, MaxRequests  \* bounds

ASSUME BoundAssumption ==
  /\ {Limit, QueueSize} \subseteq Nat \ {0}
  /\ {MaxEngines, MaxEvents, MaxTickets, MaxCalls, MaxRequests} \subseteq Nat
ASSUME ClientAssumption ==
  /\ Roamer \subseteq Client /\ Wants \in [Client -> {"owner", "player", "spectator"}]

Engine == 1..MaxEngines
Ticket == 1..MaxTickets
No == 0
User == {UserOf[c] : c \in Client}
Bigger(a, b) == IF a < b THEN b ELSE a
Smaller(a, b) == IF a < b THEN a ELSE b

VARIABLES
  creation,  \* POST /campaigns: "none", "row" after the first save, "done"
  row,       \* campaigns row: sequence and metadata owner_id
  log,       \* events table: the highest number
  made,      \* engines made so far, by create or load
  loading,   \* loads between the read of the row and the return
  state,     \* of each engine: sequence and metadata owner_id
  engine,    \* ApplicationState.engines[campaign]
  session,   \* CampaignSession: its engine and owner_id
  clock,     \* engine of realtime_tasks and broadcast_tasks
  members,   \* session.clients: granted role and actors
  actors,    \* entities that exist, each with its owner_id
  stale,     \* history: <<client, actor>> the client held when the actor was removed
  sockets,   \* of each watching client: its WebSocket
  tickets,   \* resume_ticket rows
  calls,     \* ticket requests in flight
  seen, token, \* of each client: events it has, ticket it holds
  raced,     \* history: engines of this process have been made side by side
  spent,     \* history: tickets revoked with no other request on them in flight
  requests   \* history: connections and ticket requests so far

host  == <<made, loading, state, engine, session, clock, raced>>
store == <<creation, row, log>>
access == <<members, actors, stale>>
resume == <<tickets, calls, seen, token>>
history == <<spent, requests>>
vars == <<host, store, access, sockets, resume, history>>

NewRow == [sequence |-> 0, owner |-> Local]
Nobody == [engine |-> No, owner |-> Local]
NoTicket == [state |-> "none"]
Idle == [kind |-> "idle"]

\* A WebSocket: the engine it remembers, whether it has subscribed, the last event
\* in what it has been sent, its EventStream; history: the events it will not get.
NoSocket == [engine |-> No, subscribed |-> FALSE, shown |-> 0, stream |-> <<>>, lost |-> {}]

Init ==
  /\ creation = "none" /\ row = NewRow /\ log = 0
  /\ made = 0 /\ loading = {} /\ state = [e \in Engine |-> NewRow]
  /\ engine = No /\ session = Nobody /\ clock = No /\ raced = FALSE
  /\ members = [c \in {} |-> {}] /\ actors = [a \in {} |-> Local] /\ stale = {}
  /\ sockets = [c \in Viewer |-> NoSocket]
  /\ tickets = [t \in Ticket |-> NoTicket] /\ calls = [i \in 1..MaxCalls |-> Idle]
  /\ seen = [c \in Roamer |-> 0] /\ token = [c \in Roamer |-> No]
  /\ spent = {} /\ requests = 0

----------------------------------------------------------------------------
(* Engines *)

\* ensure_realtime and ensure_broadcast: the first engine keeps both.
Ensure(e) == clock' = IF clock = No THEN e ELSE clock

\* A new engine beside another of this process: one being made, or one cached.
MakeEngine(e) ==
  /\ made < MaxEngines /\ e = made + 1 /\ made' = e
  /\ raced' = (raced \/ loading # {} \/ engine # No \/ creation = "row")

Owner == [role |-> "owner", actors |-> {}]

\* GameEngine.create saves the row before the route has set owner_id.
CreateRow ==
  /\ creation = "none" /\ creation' = "row"
  /\ MakeEngine(1)
  /\ UNCHANGED <<row, log, loading, state, engine, session, clock, access, sockets, resume, history>>

\* The rest of create_campaign: save with the owner, cache, host - which raises
\* when a request has hosted the row in the meantime - and join the owner.
CreateFinish ==
  /\ creation = "row" /\ creation' = "done"
  /\ state' = [state EXCEPT ![1].owner = Creator] /\ row' = state'[1]
  /\ engine' = 1
  /\ IF session.engine # No
       THEN UNCHANGED <<session, clock, members>>
       ELSE /\ session' = [engine |-> 1, owner |-> Creator] /\ Ensure(1)
            /\ members' = [c \in {d \in Client : UserOf[d] = Creator} |-> Owner]
  /\ UNCHANGED <<log, made, loading, raced, actors, stale, sockets, resume, history>>

\* Slip: a load is not remembered.
CacheNothing(e) == engine
Cache(e) == e

\* get_engine without a cached engine: load reads the row ...
LoadBegin(e) ==
  /\ creation # "none" /\ engine = No
  /\ MakeEngine(e)
  /\ loading' = loading \cup {e} /\ state' = [state EXCEPT ![e] = row]
  /\ UNCHANGED <<store, engine, session, clock, access, sockets, resume, history>>

\* ... and the engine is cached, hosted unless there is a session, and started.
LoadEnd(e) ==
  /\ e \in loading /\ loading' = loading \ {e}
  /\ engine' = Cache(e)
  /\ session' = (IF session.engine = No THEN [engine |-> e, owner |-> state[e].owner] ELSE session)
  /\ Ensure(e)
  /\ UNCHANGED <<store, made, state, raced, access, sockets, resume, history>>

\* Slip: a full stream keeps what it has.
NewestGoes(q, n) == IF Len(q) < QueueSize THEN Append(q, n) ELSE q

\* EventBus.publish: in a full stream the oldest event gives way.
Put(q, n) == IF Len(q) < QueueSize THEN Append(q, n) ELSE Append(Tail(q), n)

Heard(s, n) ==
  [s EXCEPT !.stream = Put(@, n), !.lost = @ \cup (Range(s.stream) \ Range(Put(s.stream, n)))]
Hears(c, e) == sockets[c].subscribed /\ sockets[c].engine = e

\* What every operation of an engine comes to: an event, published into its
\* streams, appended unless its number is taken, and the state in the row.
Work(e) ==
  LET n == state[e].sequence + 1 IN
  /\ e # No /\ n <= MaxEvents
  /\ state' = [state EXCEPT ![e].sequence = n]
  /\ sockets' = [c \in Viewer |-> IF Hears(c, e) THEN Heard(sockets[c], n) ELSE sockets[c]]
  /\ log' = Bigger(log, n)
  /\ row' = state'[e]
  /\ UNCHANGED <<creation, made, loading, engine, session, clock, raced, members, resume, history>>

\* The realtime clock, and the routes that use the cached engine (tick, timing).
ClockWorks == Work(clock) /\ UNCHANGED <<actors, stale>>
RouteWorks == Work(engine) /\ UNCHANGED <<actors, stale>>

\* require_owner
ByOwner == \E c \in DOMAIN members : members[c].role = "owner"

\* create_entity: any owner_id, an id that is free.
AddActor(a, u) ==
  /\ ByOwner /\ a \notin DOMAIN actors
  /\ actors' = [x \in DOMAIN actors \cup {a} |-> IF x = a THEN u ELSE actors[x]]
  /\ Work(engine) /\ UNCHANGED stale

\* delete_npc: the sessions' clients keep the id.
RemoveActor(a) ==
  /\ ByOwner /\ a \in DOMAIN actors
  /\ actors' = Restrict(actors, DOMAIN actors \ {a})
  /\ stale' = stale \cup {<<c, a>> : c \in {d \in DOMAIN members : a \in members[d].actors}}
  /\ Work(engine)

\* The process stops, gracefully or not: sessions, engines, streams and requests
\* are gone; a crash inside create_campaign leaves the row without its owner.
Restart ==
  /\ made > 0 /\ made < MaxEngines
  /\ creation' = (IF creation = "row" THEN "done" ELSE creation)
  /\ engine' = No /\ session' = Nobody /\ clock' = No /\ loading' = {}
  /\ raced' = FALSE
  /\ members' = [c \in {} |-> {}] /\ stale' = {}
  /\ sockets' = [c \in Viewer |-> NoSocket]
  /\ calls' = [i \in 1..MaxCalls |-> Idle]
  /\ UNCHANGED <<row, log, made, state, actors, tickets, seen, token, history>>

----------------------------------------------------------------------------
(* Sessions *)

Owned(c) == {a \in DOMAIN actors : actors[a] = UserOf[c]}

\* Slip: the actors asked for are taken as they are.
GrantAsked(c, role, asked) == [role |-> role, actors |-> asked]

\* CampaignSession.join: the owner by user id, nobody else; asked actors only
\* when owned, and all owned ones for a player that is left with none.
Grant(c, role, asked) ==
  IF UserOf[c] = session.owner THEN Owner
  ELSE LET kept == IF role = "owner" THEN "player" ELSE role
           own == asked \cap Owned(c) IN
       [role |-> kept, actors |-> IF kept = "player" /\ own = {} THEN Owned(c) ELSE own]

Granted(c, role, asked) ==
  [x \in DOMAIN members \cup {c} |-> IF x = c THEN Grant(c, role, asked) ELSE members[x]]

Enroll(c, role, asked) ==
  /\ members' = Granted(c, role, asked) /\ stale' = {p \in stale : p[1] # c}
  /\ UNCHANGED actors

Join(c) ==
  /\ engine # No /\ session.engine # No /\ c \notin DOMAIN members
  /\ \E asked \in SUBSET Actor : Enroll(c, Wants[c], asked)
  /\ UNCHANGED <<host, store, sockets, resume, history>>

\* can_control
CanControl(c, a) ==
  /\ c \in DOMAIN members
  /\ members[c].role # "spectator"
  /\ members[c].role = "owner" \/ a \in members[c].actors

\* dispatch: commands go to the session's engine.
Command(c, a) ==
  engine # No /\ CanControl(c, a) /\ Work(session.engine) /\ UNCHANGED <<actors, stale>>

----------------------------------------------------------------------------
(* WebSockets *)

\* A bounded number of requests.
Request == requests < MaxRequests /\ requests' = requests + 1 /\ UNCHANGED spent

\* websocket_campaign_scoped: the state is sent to a client of the session ...
Connect(c) ==
  /\ Request
  /\ engine # No /\ c \in DOMAIN members /\ sockets[c].engine = No
  /\ sockets' = [sockets EXCEPT ![c] =
       [NoSocket EXCEPT !.engine = engine, !.shown = state[engine].sequence]]
  /\ UNCHANGED <<host, store, access, resume>>

\* ... and then the stream is opened: what happened during the send is lost.
Subscribe(c) ==
  LET s == sockets[c] IN
  /\ s.engine # No /\ ~s.subscribed
  /\ sockets' = [sockets EXCEPT ![c].subscribed = TRUE,
                                ![c].lost = (s.shown + 1)..state[s.engine].sequence]
  /\ UNCHANGED <<host, store, access, resume, history>>

\* sender: the next event, or a knowledge_checkpoint in its place.
Tell(c) ==
  /\ sockets[c].stream # <<>>
  /\ sockets' = [sockets EXCEPT ![c].stream = Tail(@), ![c].shown = Head(sockets[c].stream)]
  /\ UNCHANGED <<host, store, access, resume, history>>

\* Disconnected, or a send fails.
Disconnect(c) ==
  /\ sockets[c].engine # No
  /\ sockets' = [sockets EXCEPT ![c] = NoSocket]
  /\ UNCHANGED <<host, store, access, resume, history>>

----------------------------------------------------------------------------
(* Resume tickets *)

Live(t) == tickets[t].state = "live"
Fresh(t) == tickets[t].state = "none" /\ \A u \in Ticket : u < t => tickets[u].state # "none"

\* issue: a ticket keeps the identity of its client.
PutTicket(t, c, as, last) ==
  /\ Fresh(t)
  /\ tickets' = [tickets EXCEPT ![t] = [state |-> "live", as |-> as, last |-> last]]

IssueTicket(c, t) ==
  /\ Request
  /\ engine # No /\ c \in DOMAIN members
  /\ PutTicket(t, c, members[c], seen[c])
  /\ token' = [token EXCEPT ![c] = t]
  /\ UNCHANGED <<host, store, access, sockets, calls, seen>>

\* A request enters, perhaps while an earlier one of the same client is in flight.
Enter(kind, c, stage, after) ==
  \E i \in 1..MaxCalls :
    /\ calls[i] = Idle /\ \A j \in 1..(i - 1) : calls[j] # Idle
    /\ calls' = [calls EXCEPT ![i] = [kind |-> kind, client |-> c, ticket |-> token[c],
                                       stage |-> stage, after |-> after]]

Stage(i, kinds, stage) == calls[i].kind \in kinds /\ calls[i].stage = stage
Done(i) == calls' = [calls EXCEPT ![i] = Idle]

\* resume: the row is read; the ticket's identity joins the session.
Resume(c) ==
  LET t == token[c] IN
  /\ Request
  /\ engine # No /\ session.engine # No
  /\ t # No /\ Live(t)
  /\ \E observed \in {0, seen[c]} : Enter("resume", c, "read", Bigger(tickets[t].last, observed))
  /\ Enroll(c, tickets[t].as.role, tickets[t].as.actors)
  /\ UNCHANGED <<host, store, sockets, tickets, seen, token>>

\* DELETE of a ticket: a revocation alone.
Revoke(c) ==
  /\ Request
  /\ engine # No /\ token[c] # No
  /\ Enter("revoke", c, "read", 0)
  /\ UNCHANGED <<host, store, access, sockets, tickets, seen, token>>

\* revoke reads the row again and writes it back revoked.  (One step for both: a
\* checkpoint written between them is lost as if written before.)
RevokeRow(i) ==
  /\ Stage(i, {"resume", "revoke"}, "read")
  /\ tickets' = [tickets EXCEPT ![calls[i].ticket].state = "revoked"]
  /\ spent' = spent \cup {t \in {calls[i].ticket} :
                 \A j \in DOMAIN calls \ {i} : calls[j] = Idle \/ calls[j].ticket # t}
  /\ IF calls[i].kind = "resume" THEN calls' = [calls EXCEPT ![i].stage = "revoked"] ELSE Done(i)
  /\ UNCHANGED <<host, store, access, sockets, seen, token, requests>>

\* Slip: the new ticket says the client has the whole log.
LastIsLog(i) == log
LastOf(i) == calls[i].after

\* The rotated ticket, a page of the log, and an answer that may get lost.
Reissue(i, t) ==
  LET c == calls[i].client IN
  /\ Stage(i, {"resume"}, "revoked")
  /\ PutTicket(t, c, tickets[calls[i].ticket].as, LastOf(i))
  /\ Done(i)
  /\ \/ UNCHANGED <<seen, token>>
     \/ /\ token' = [token EXCEPT ![c] = t]
        /\ seen' = [seen EXCEPT ![c] = Bigger(@, Smaller(log, calls[i].after + Limit))]
  /\ UNCHANGED <<host, store, access, sockets, history>>

\* Slip: a checkpoint does not look whether its ticket is revoked.
Known(t) == tickets[t].state # "none"
Usable(t) == Live(t)

\* checkpoint reads the row ...
Checkpoint(c) ==
  LET t == token[c] IN
  /\ Request
  /\ engine # No /\ t # No /\ Usable(t)
  /\ Enter("checkpoint", c, "read", Bigger(tickets[t].last, seen[c]))
  /\ UNCHANGED <<host, store, access, sockets, tickets, seen, token>>

\* ... and writes all of it back, not revoked as it was.
CheckpointRow(i) ==
  /\ Stage(i, {"checkpoint"}, "read")
  /\ tickets' = [tickets EXCEPT ![calls[i].ticket] = [@ EXCEPT !.state = "live", !.last = calls[i].after]]
  /\ Done(i)
  /\ UNCHANGED <<host, store, access, sockets, seen, token, history>>

\* GET events after what the client has.
ReadEvents(c) ==
  /\ Request
  /\ engine # No /\ seen[c] < log
  /\ seen' = [seen EXCEPT ![c] = Smaller(log, @ + Limit)]
  /\ UNCHANGED <<host, store, access, sockets, tickets, calls, token>>

----------------------------------------------------------------------------
Next ==
  \/ CreateRow \/ CreateFinish \/ ClockWorks \/ RouteWorks \/ Restart
  \/ \E e \in Engine : LoadBegin(e) \/ LoadEnd(e)
  \/ \E a \in Actor : RemoveActor(a) \/ \E u \in User : AddActor(a, u)
  \/ \E c \in Client : Join(c) \/ \E a \in Actor : Command(c, a)
  \/ \E c \in Roamer :
       Resume(c) \/ Revoke(c) \/ Checkpoint(c) \/ ReadEvents(c) \/ \E t \in Ticket : IssueTicket(c, t)
  \/ \E c \in Viewer : Connect(c) \/ Subscribe(c) \/ Tell(c) \/ Disconnect(c)
  \/ \E i \in 1..MaxCalls : RevokeRow(i) \/ CheckpointRow(i) \/ \E t \in Ticket : Reissue(i, t)

Spec == Init /\ [][Next]_vars

----------------------------------------------------------------------------
(* Properties *)

Membership == [role : {"owner", "player", "spectator"}, actors : SUBSET Actor]
EngineState == [sequence : Nat, owner : {Creator, Local}]
Socket == [engine : Engine \cup {No}, subscribed : BOOLEAN, shown : Nat, stream : Seq(Nat),
           lost : SUBSET Nat]
Call == [kind : {"resume", "revoke", "checkpoint"}, client : Roamer, ticket : Ticket,
         stage : {"read", "revoked"}, after : Nat]

TypeOK ==
  /\ creation \in {"none", "row", "done"} /\ row \in EngineState /\ log \in Nat
  /\ made \in 0..MaxEngines /\ loading \subseteq Engine /\ state \in [Engine -> EngineState]
  /\ {engine, clock} \subseteq Engine \cup {No}
  /\ session \in [engine : Engine \cup {No}, owner : {Creator, Local}]
  /\ DOMAIN members \subseteq Client /\ \A c \in DOMAIN members : members[c] \in Membership
  /\ DOMAIN actors \subseteq Actor /\ actors \in [DOMAIN actors -> User]
  /\ stale \subseteq Client \X Actor
  /\ sockets \in [Viewer -> Socket]
  /\ tickets \in [Ticket ->
       {NoTicket} \cup [state : {"live", "revoked"}, as : Membership, last : Nat]]
  /\ calls \in [1..MaxCalls -> {Idle} \cup Call]
  /\ seen \in [Roamer -> Nat] /\ token \in [Roamer -> Ticket \cup {No}]
  /\ spent \subseteq Ticket

\* Commands, routes and the clock of a campaign meet in one engine, unless
\* two engines of this process have been made side by side: two requests that
\* both find none, or one that loads a campaign whose creation is not finished.
OneEngine ==
  \/ raced
  \/ {engine, session.engine, clock} \ {No} \subseteq {engine}

\* Whoever may command an actor owns it, or owns the campaign: through joins,
\* resumptions and restarts, actors that are removed and ids that come back with
\* another owner - but for a client that held the id when its actor was removed,
\* and has not been granted anything since.
NobodyElsesActor ==
  \A c \in DOMAIN members, a \in DOMAIN actors :
    CanControl(c, a) => UserOf[c] = session.owner \/ actors[a] = UserOf[c] \/ <<c, a>> \in stale

\* A resumption never replays from after an event its client has not had,
\* whatever checkpoints, pages and lost answers came before.
NothingSkipped ==
  \A i \in 1..MaxCalls : calls[i].kind = "resume" => calls[i].after <= seen[calls[i].client]

\* A ticket that was revoked, or rotated away, while no other request on it was in
\* flight is never accepted again: no checkpoint brings it back.
SpentStaysSpent == \A t \in spent : tickets[t].state = "revoked"

\* A WebSocket tells of every event after its state, but those that happened
\* before its stream was open and those that newer ones pushed out of it.
ShowsEverything ==
  [][\A c \in Viewer :
       sockets[c].engine # No /\ sockets'[c].engine # No
         => (sockets[c].shown + 1)..(sockets'[c].shown - 1) \subseteq sockets[c].lost]_vars
=============================================================================
