---------------------------- MODULE AccessProofs ----------------------------
(* For all clients, actors, engines, tickets and requests: one engine, nobody's  *)
(* actor but one's own, nothing skipped, and what is spent stays spent.          *)
EXTENDS Access, TLAPS

USE DEF Idle, NoTicket, No, Engine, Ticket

\* A ticket that is held, or that a request is about, has a row.
TInv ==
  /\ TypeOK
  /\ \A c \in Roamer : token[c] # No => tickets[token[c]] # NoTicket
  /\ \A i \in 1..MaxCalls : calls[i] # Idle => tickets[calls[i].ticket] # NoTicket
  /\ creation # "none" => made > 0

LEMMA TypesStart ==
  ASSUME Init
  PROVE  TInv
<1>1. DOMAIN members = {} /\ DOMAIN actors = {} /\ MaxEngines \in Nat
  BY BoundAssumption DEF Init
<1>2. row \in EngineState /\ session \in [engine : Engine \cup {No}, owner : {Creator, Local}]
  BY DEF Init, NewRow, Nobody, EngineState
<1>3. NoSocket \in Socket
  BY DEF NoSocket, Socket
<1> QED
  BY <1>1, <1>2, <1>3 DEF Init, NewRow, TInv, TypeOK

----------------------------------------------------------------------------
(* Types *)

\* A membership comes from the session: owner, or what was asked and is owned.
LEMMA GrantTypes ==
  ASSUME TypeOK, NEW c \in Client, NEW role \in {"owner", "player", "spectator"}, NEW asked
  PROVE  /\ Grant(c, role, asked) \in Membership
         /\ DOMAIN Granted(c, role, asked) \subseteq Client
         /\ \A x \in DOMAIN Granted(c, role, asked) : Granted(c, role, asked)[x] \in Membership
<1>1. Owned(c) \subseteq Actor
  BY DEF Owned, TypeOK
<1>2. Grant(c, role, asked) \in Membership
  BY <1>1 DEF Grant, Owner, Membership
<1> QED
  BY <1>2 DEF Granted, TypeOK

\* A request that enters takes a free place.
LEMMA EnterTypes ==
  ASSUME TInv, NEW c \in Roamer, NEW kind \in {"resume", "revoke", "checkpoint"},
         NEW after \in Nat, token[c] # No, Enter(kind, c, "read", after)
  PROVE  /\ calls' \in [1..MaxCalls -> {Idle} \cup Call]
         /\ \E i \in 1..MaxCalls :
              /\ calls[i] = Idle /\ calls'[i] # Idle
              /\ calls'[i].kind = kind /\ calls'[i].client = c
              /\ calls'[i].ticket = token[c] /\ calls'[i].after = after
              /\ \A j \in 1..MaxCalls \ {i} : calls'[j] = calls[j]
<1>1. PICK i \in 1..MaxCalls :
        /\ calls[i] = Idle
        /\ calls' = [calls EXCEPT ![i] = [kind |-> kind, client |-> c, ticket |-> token[c],
                                          stage |-> "read", after |-> after]]
  BY DEF Enter
<1>2. [kind |-> kind, client |-> c, ticket |-> token[c], stage |-> "read", after |-> after] \in Call
  BY DEF Call, TInv, TypeOK
<1> QED
  BY <1>1, <1>2 DEF TInv, TypeOK

\* A new ticket is a row that was none.
LEMMA PutTypes ==
  ASSUME TInv, NEW t \in Ticket, NEW c \in Roamer, NEW as \in Membership, NEW last \in Nat,
         PutTicket(t, c, as, last)
  PROVE  /\ tickets' \in [Ticket ->
              {NoTicket} \cup [state : {"live", "revoked"}, as : Membership, last : Nat]]
         /\ tickets[t] = NoTicket /\ tickets'[t].state = "live" /\ tickets'[t].last = last
         /\ \A u \in Ticket \ {t} : tickets'[u] = tickets[u]
BY DEF PutTicket, Fresh, TInv, TypeOK

LEMMA AppendFacts ==
  ASSUME NEW q \in Seq(Nat), NEW n \in Nat
  PROVE  /\ Append(q, n) \in Seq(Nat) /\ Len(Append(q, n)) = Len(q) + 1
         /\ Append(q, n)[Len(q) + 1] = n /\ \A k \in 1..Len(q) : Append(q, n)[k] = q[k]
OBVIOUS

LEMMA TailFacts ==
  ASSUME NEW q \in Seq(Nat), q # <<>>
  PROVE  /\ Head(q) = q[1] /\ Head(q) \in Nat /\ Tail(q) \in Seq(Nat)
         /\ Len(q) \in Nat \ {0} /\ Len(Tail(q)) = Len(q) - 1
         /\ \A k \in 1..(Len(q) - 1) : Tail(q)[k] = q[k + 1]
OBVIOUS

\* EventBus.publish: a stream takes the new event, or gives up its oldest for it.
LEMMA PutKeeps ==
  ASSUME NEW q \in Seq(Nat), NEW n \in Nat
  PROVE  /\ Put(q, n) \in Seq(Nat)
         /\ \/ /\ Len(Put(q, n)) = Len(q) + 1 /\ Put(q, n)[Len(q) + 1] = n
               /\ \A k \in 1..Len(q) : Put(q, n)[k] = q[k]
            \/ /\ Len(q) >= 1 /\ Len(Put(q, n)) = Len(q) /\ Put(q, n)[Len(q)] = n
               /\ \A k \in 1..(Len(q) - 1) : Put(q, n)[k] = q[k + 1]
<1>1. CASE Len(q) < QueueSize
  BY <1>1, AppendFacts DEF Put
<1>2. CASE ~(Len(q) < QueueSize)
  <2>1. q # <<>> /\ Put(q, n) = Append(Tail(q), n)
    BY <1>2, BoundAssumption DEF Put
  <2>2. /\ Tail(q) \in Seq(Nat) /\ Len(q) \in Nat \ {0} /\ Len(Tail(q)) = Len(q) - 1
        /\ \A k \in 1..(Len(q) - 1) : Tail(q)[k] = q[k + 1]
    BY <2>1, TailFacts
  <2>3. /\ Put(q, n) \in Seq(Nat) /\ Len(Put(q, n)) = Len(q) /\ Put(q, n)[Len(q)] = n
        /\ \A k \in 1..(Len(q) - 1) : Put(q, n)[k] = Tail(q)[k]
    <3> DEFINE r == Tail(q)
    <3>1. /\ Append(r, n) \in Seq(Nat) /\ Len(Append(r, n)) = Len(r) + 1
          /\ Append(r, n)[Len(r) + 1] = n /\ \A k \in 1..Len(r) : Append(r, n)[k] = r[k]
      BY <2>2, AppendFacts
    <3>2. Len(r) + 1 = Len(q) /\ 1..Len(r) = 1..(Len(q) - 1)
      BY <2>2
    <3>3. Put(q, n) = Append(r, n)
      BY <2>1
    <3> HIDE DEF r
    <3>4. /\ Len(Append(r, n)) = Len(q) /\ Append(r, n)[Len(q)] = n
          /\ \A k \in 1..(Len(q) - 1) : Append(r, n)[k] = r[k]
      BY <3>1, <3>2
    <3>5. /\ Put(q, n) \in Seq(Nat) /\ Len(Put(q, n)) = Len(q) /\ Put(q, n)[Len(q)] = n
          /\ \A k \in 1..(Len(q) - 1) : Put(q, n)[k] = r[k]
      BY <3>1, <3>3, <3>4
    <3> QED
      BY <3>5 DEF r
  <2>4. Len(q) >= 1
    BY <2>2
  <2>5. \A k \in 1..(Len(q) - 1) : Put(q, n)[k] = q[k + 1]
    BY <2>2, <2>3
  <2> QED
    BY <2>3, <2>4, <2>5, Zenon
<1> QED
  BY <1>1, <1>2

\* Consecutive numbers stay consecutive when the first is taken away ...
LEMMA Shifted ==
  ASSUME NEW q \in Seq(Nat), NEW r \in Seq(Nat), NEW b \in Int,
         \A k \in 1..Len(q) : q[k] = b + k, \A k \in 1..(Len(q) - 1) : r[k] = q[k + 1]
  PROVE  \A k \in 1..(Len(q) - 1) : r[k] = (b + 1) + k
<1>1. ASSUME NEW k \in 1..(Len(q) - 1) PROVE r[k] = (b + 1) + k
  <2>1. Len(q) \in Nat /\ k + 1 \in 1..Len(q) /\ b + (k + 1) = (b + 1) + k
    OBVIOUS
  <2>2. r[k] = q[k + 1] /\ q[k + 1] = b + (k + 1)
    BY <2>1
  <2> QED
    BY <2>1, <2>2
<1> QED
  BY <1>1

\* ... and the next is appended.
LEMMA ShiftedOn ==
  ASSUME NEW q \in Seq(Nat), NEW r \in Seq(Nat), NEW b \in Int,
         \A k \in 1..Len(q) : q[k] = b + k, \A k \in 1..(Len(q) - 1) : r[k] = q[k + 1],
         Len(q) >= 1, r[Len(q)] = b + Len(q) + 1
  PROVE  \A k \in 1..Len(q) : r[k] = (b + 1) + k
<1>1. Len(q) \in Nat /\ b + Len(q) + 1 = (b + 1) + Len(q)
  OBVIOUS
<1>2. \A k \in 1..Len(q) : k \in 1..(Len(q) - 1) \/ k = Len(q)
  BY <1>1
<1>3. \A k \in 1..(Len(q) - 1) : r[k] = (b + 1) + k
  BY Shifted
<1> QED
  BY <1>1, <1>2, <1>3

LEMMA HeardTypes ==
  ASSUME NEW s \in Socket, NEW n \in Nat
  PROVE  Heard(s, n) \in Socket
<1>1. s.stream \in Seq(Nat) /\ Put(s.stream, n) \in Seq(Nat)
  BY PutKeeps DEF Socket
<1>2. Range(s.stream) \subseteq Nat
  BY <1>1 DEF Range
<1> QED
  BY <1>1, <1>2 DEF Heard, Socket

\* The types of who may do what, which an event alone does not change.
AccessTypes ==
  /\ DOMAIN actors \subseteq Actor /\ actors \in [DOMAIN actors -> User]
  /\ stale \subseteq Client \X Actor

LEMMA WorkTypes ==
  ASSUME TInv, NEW e \in Engine \cup {No}, Work(e), AccessTypes'
  PROVE  TInv'
<1> DEFINE n == state[e].sequence + 1
<1>1. e \in Engine /\ n \in Nat /\ state[e].owner \in {Creator, Local}
  BY DEF Work, TInv, TypeOK, EngineState
<1>2. state' = [state EXCEPT ![e].sequence = n] /\ row' = state'[e] /\ log' = Bigger(log, n)
  BY DEF Work
<1>3. state' \in [Engine -> EngineState] /\ row' \in EngineState
  BY <1>1, <1>2 DEF TInv, TypeOK, EngineState
<1>4. log' \in Nat
  BY <1>1, <1>2 DEF Bigger, TInv, TypeOK
<1>5. sockets' \in [Viewer -> Socket]
  <2>1. sockets' = [c \in Viewer |-> IF Hears(c, e) THEN Heard(sockets[c], n) ELSE sockets[c]]
    BY DEF Work
  <2>2. sockets \in [Viewer -> Socket]
    BY DEF TInv, TypeOK
  <2> QED
    BY <1>1, <2>1, <2>2, HeardTypes
<1>6. UNCHANGED <<creation, made, loading, engine, session, clock, raced, members,
                  tickets, calls, seen, token, spent, requests>>
  BY DEF Work, resume, history
<1>7. /\ creation' \in {"none", "row", "done"} /\ made' \in 0..MaxEngines /\ loading' \subseteq Engine
      /\ {engine', clock'} \subseteq Engine \cup {No}
      /\ session' \in [engine : Engine \cup {No}, owner : {Creator, Local}]
      /\ DOMAIN members' \subseteq Client /\ (\A c \in DOMAIN members' : members'[c] \in Membership)
  BY <1>6 DEF TInv, TypeOK
<1>8. /\ tickets' \in [Ticket ->
           {NoTicket} \cup [state : {"live", "revoked"}, as : Membership, last : Nat]]
      /\ calls' \in [1..MaxCalls -> {Idle} \cup Call]
      /\ seen' \in [Roamer -> Nat] /\ token' \in [Roamer -> Ticket \cup {No}]
      /\ spent' \subseteq Ticket
  BY <1>6 DEF TInv, TypeOK
<1>9. TypeOK'
  BY <1>3, <1>4, <1>5, <1>7, <1>8 DEF TypeOK, AccessTypes
<1> QED
  BY <1>6, <1>9 DEF TInv

LEMMA HostTypes ==
  ASSUME TInv,
         CreateRow \/ CreateFinish \/ Restart \/ \E e \in Engine : LoadBegin(e) \/ LoadEnd(e)
  PROVE  TInv'
<1>1. CASE CreateRow
  <2>1. creation' = "row" /\ made' = made + 1 /\ made < MaxEngines
    BY <1>1 DEF CreateRow, MakeEngine
  <2>2. made' \in 0..MaxEngines /\ made' > 0
    BY <2>1, BoundAssumption DEF TInv, TypeOK
  <2>3. UNCHANGED <<row, log, loading, state, engine, session, clock, access, sockets,
                    resume, history>>
    BY <1>1 DEF CreateRow
  <2> QED
    BY <2>1, <2>2, <2>3 DEF TInv, TypeOK, access, resume, history
<1>2. CASE CreateFinish
  <2>1. 1 \in Engine /\ creation' = "done" /\ engine' = 1
    BY <1>2, BoundAssumption DEF CreateFinish, TInv, TypeOK
  <2>2. state' \in [Engine -> EngineState] /\ row' \in EngineState
    <3>1. state' = [state EXCEPT ![1].owner = Creator] /\ row' = state'[1]
      BY <1>2 DEF CreateFinish
    <3> QED
      BY <2>1, <3>1 DEF TInv, TypeOK, EngineState
  <2>3. /\ session' \in [engine : Engine \cup {No}, owner : {Creator, Local}]
        /\ clock' \in Engine \cup {No}
    BY <1>2, <2>1 DEF CreateFinish, Ensure, TInv, TypeOK
  <2>4. DOMAIN members' \subseteq Client /\ \A c \in DOMAIN members' : members'[c] \in Membership
    BY <1>2 DEF CreateFinish, Owner, Membership, TInv, TypeOK
  <2> QED
    BY <1>2, <2>1, <2>2, <2>3, <2>4 DEF CreateFinish, TInv, TypeOK, resume, history
<1>3. ASSUME NEW e \in Engine, LoadBegin(e) PROVE TInv'
  <2>1. made' \in 0..MaxEngines /\ made' > 0
    BY <1>3, BoundAssumption DEF LoadBegin, MakeEngine, TInv, TypeOK
  <2>2. state' \in [Engine -> EngineState] /\ loading' \subseteq Engine
    BY <1>3 DEF LoadBegin, TInv, TypeOK
  <2> QED
    BY <1>3, <2>1, <2>2 DEF LoadBegin, TInv, TypeOK, store, access, resume, history
<1>4. ASSUME NEW e \in Engine, LoadEnd(e) PROVE TInv'
  <2>1. /\ session' \in [engine : Engine \cup {No}, owner : {Creator, Local}]
        /\ {engine', clock'} \subseteq Engine \cup {No}
    BY <1>4 DEF LoadEnd, Cache, Ensure, TInv, TypeOK, EngineState
  <2> QED
    BY <1>4, <2>1 DEF LoadEnd, TInv, TypeOK, store, access, resume, history
<1>5. CASE Restart
  <2>1. DOMAIN members' = {} /\ NoSocket \in Socket
    BY <1>5 DEF Restart, NoSocket, Socket
  <2>2. session' \in [engine : Engine \cup {No}, owner : {Creator, Local}]
    BY <1>5 DEF Restart, Nobody
  <2> QED
    BY <1>5, <2>1, <2>2 DEF Restart, TInv, TypeOK, history
<1> QED
  BY <1>1, <1>2, <1>3, <1>4, <1>5

LEMMA SessionTypes ==
  ASSUME TInv,
         \/ \E a \in Actor : RemoveActor(a) \/ \E u \in User : AddActor(a, u)
         \/ \E c \in Client : Join(c)
         \/ \E c \in Viewer : Connect(c) \/ Subscribe(c) \/ Tell(c) \/ Disconnect(c)
  PROVE  TInv'
<1> USE DEF host, store, access, resume, history
<1>0. engine \in Engine \cup {No}
  BY DEF TInv, TypeOK
<1>1. ASSUME NEW a \in Actor, RemoveActor(a) PROVE TInv'
  <2>1. DOMAIN actors' \subseteq Actor /\ actors' \in [DOMAIN actors' -> User]
    BY <1>1 DEF RemoveActor, Restrict, TInv, TypeOK
  <2>2. stale' \subseteq Client \X Actor
    BY <1>1 DEF RemoveActor, TInv, TypeOK
  <2> QED
    BY <1>0, <1>1, <2>1, <2>2, WorkTypes DEF RemoveActor, AccessTypes
<1>2. ASSUME NEW a \in Actor, NEW u \in User, AddActor(a, u) PROVE TInv'
  <2>1. DOMAIN actors' \subseteq Actor /\ actors' \in [DOMAIN actors' -> User]
    BY <1>2 DEF AddActor, TInv, TypeOK
  <2>2. stale' \subseteq Client \X Actor
    BY <1>2 DEF AddActor, TInv, TypeOK
  <2> QED
    BY <1>0, <1>2, <2>1, <2>2, WorkTypes DEF AddActor, AccessTypes
<1>3. ASSUME NEW c \in Client, Join(c) PROVE TInv'
  <2>1. PICK asked \in SUBSET Actor : Enroll(c, Wants[c], asked)
    BY <1>3 DEF Join
  <2>2. DOMAIN members' \subseteq Client /\ \A x \in DOMAIN members' : members'[x] \in Membership
    BY <2>1, GrantTypes, ClientAssumption DEF Enroll, TInv
  <2>3. AccessTypes'
    BY <2>1 DEF Enroll, AccessTypes, TInv, TypeOK
  <2> QED
    BY <1>3, <2>2, <2>3 DEF Join, AccessTypes, TInv, TypeOK
<1>4. ASSUME NEW c \in Viewer, NEW s \in Socket, sockets' = [sockets EXCEPT ![c] = s],
             UNCHANGED <<host, store, access, resume, spent>>
      PROVE  TInv'
  <2>1. sockets' \in [Viewer -> Socket]
    BY <1>4 DEF TInv, TypeOK
  <2> QED
    BY <1>4, <2>1 DEF TInv, TypeOK
<1>5. ASSUME NEW c \in Viewer, Connect(c) PROVE TInv'
  <2>1. [NoSocket EXCEPT !.engine = engine, !.shown = state[engine].sequence] \in Socket
    <3>1. engine \in Engine /\ state[engine].sequence \in Nat
      BY <1>0, <1>5 DEF Connect, TInv, TypeOK, EngineState
    <3>2. NoSocket \in Socket
      BY DEF NoSocket, Socket
    <3> QED
      BY <3>1, <3>2 DEF Socket
  <2> QED
    BY <1>4, <1>5, <2>1 DEF Connect, Request
<1>6. ASSUME NEW c \in Viewer, Subscribe(c) PROVE TInv'
  <2> DEFINE s == sockets[c]
             gap == (s.shown + 1)..state[s.engine].sequence
  <2>1. s \in Socket /\ sockets \in [Viewer -> Socket] /\ s.engine \in Engine
    BY <1>6 DEF Subscribe, Socket, TInv, TypeOK
  <2>2. gap \subseteq Nat
    BY <2>1 DEF Socket, TInv, TypeOK, EngineState
  <2>3. [s EXCEPT !.subscribed = TRUE, !.lost = gap] \in Socket
    BY <2>1, <2>2 DEF Socket
  <2>4. sockets' = [sockets EXCEPT ![c] = [s EXCEPT !.subscribed = TRUE, !.lost = gap]]
    BY <1>6, <2>1 DEF Subscribe, Socket
  <2> QED
    BY <1>4, <1>6, <2>3, <2>4 DEF Subscribe
<1>7. ASSUME NEW c \in Viewer, Tell(c) PROVE TInv'
  <2> DEFINE s == sockets[c]
  <2>1. s \in Socket /\ sockets \in [Viewer -> Socket] /\ s.stream \in Seq(Nat) /\ s.stream # <<>>
    BY <1>7 DEF Tell, Socket, TInv, TypeOK
  <2>2. Tail(s.stream) \in Seq(Nat) /\ Head(s.stream) \in Nat
    BY <2>1, TailFacts
  <2>3. [s EXCEPT !.stream = Tail(s.stream), !.shown = Head(s.stream)] \in Socket
    BY <2>1, <2>2 DEF Socket
  <2>4. sockets' = [sockets EXCEPT ![c] = [s EXCEPT !.stream = Tail(s.stream), !.shown = Head(s.stream)]]
    BY <1>7, <2>1 DEF Tell, Socket
  <2> QED
    BY <1>4, <1>7, <2>3, <2>4 DEF Tell
<1>8. ASSUME NEW c \in Viewer, Disconnect(c) PROVE TInv'
  <2>1. NoSocket \in Socket
    BY DEF NoSocket, Socket
  <2> QED
    BY <1>4, <1>8, <2>1 DEF Disconnect
<1> QED
  BY <1>1, <1>2, <1>3, <1>5, <1>6, <1>7, <1>8

LEMMA TicketTypes ==
  ASSUME TInv, NEW c \in Roamer,
         \/ Resume(c) \/ Revoke(c) \/ Checkpoint(c) \/ ReadEvents(c)
         \/ \E t \in Ticket : IssueTicket(c, t)
  PROVE  TInv'
<1> USE DEF host, store, access, history, Request
<1>0. c \in Client
  BY ClientAssumption
<1>1. CASE Resume(c)
  <2> DEFINE t == token[c]
  <2>1. /\ t \in Ticket /\ t # No /\ tickets[t].state = "live"
        /\ tickets[t].as \in Membership /\ tickets[t].last \in Nat
    BY <1>1 DEF Resume, Live, TInv, TypeOK
  <2>2. PICK observed \in {0, seen[c]} : Enter("resume", c, "read", Bigger(tickets[t].last, observed))
    BY <1>1 DEF Resume
  <2>3. Bigger(tickets[t].last, observed) \in Nat
    BY <2>1 DEF Bigger, TInv, TypeOK
  <2>4. DOMAIN members' \subseteq Client /\ \A x \in DOMAIN members' : members'[x] \in Membership
    BY <1>0, <1>1, <2>1, GrantTypes DEF Resume, Enroll, Membership, TInv
  <2>5. /\ calls' \in [1..MaxCalls -> {Idle} \cup Call]
        /\ \E i \in 1..MaxCalls :
             calls'[i].ticket = t /\ \A j \in 1..MaxCalls \ {i} : calls'[j] = calls[j]
    BY <2>1, <2>2, <2>3, EnterTypes
  <2>6. AccessTypes'
    BY <1>1 DEF Resume, Enroll, AccessTypes, TInv, TypeOK
  <2>7. UNCHANGED <<creation, row, log, made, loading, state, engine, session, clock, sockets,
                    tickets, seen, token, spent>>
    BY <1>1 DEF Resume
  <2> QED
    BY <2>1, <2>4, <2>5, <2>6, <2>7 DEF AccessTypes, TInv, TypeOK
<1>2. CASE Revoke(c)
  <2>1. /\ calls' \in [1..MaxCalls -> {Idle} \cup Call]
        /\ \E i \in 1..MaxCalls :
             calls'[i].ticket = token[c] /\ \A j \in 1..MaxCalls \ {i} : calls'[j] = calls[j]
    BY <1>2, EnterTypes, 0 \in Nat DEF Revoke
  <2> QED
    BY <1>2, <2>1 DEF Revoke, TInv, TypeOK
<1>3. CASE Checkpoint(c)
  <2>1. token[c] \in Ticket /\ tickets[token[c]].state = "live" /\ tickets[token[c]].last \in Nat
    BY <1>3 DEF Checkpoint, Usable, Live, TInv, TypeOK
  <2>2. Bigger(tickets[token[c]].last, seen[c]) \in Nat
    BY <2>1 DEF Bigger, TInv, TypeOK
  <2>3. /\ calls' \in [1..MaxCalls -> {Idle} \cup Call]
        /\ \E i \in 1..MaxCalls :
             calls'[i].ticket = token[c] /\ \A j \in 1..MaxCalls \ {i} : calls'[j] = calls[j]
    BY <1>3, <2>2, EnterTypes DEF Checkpoint
  <2> QED
    BY <1>3, <2>1, <2>3 DEF Checkpoint, TInv, TypeOK
<1>4. CASE ReadEvents(c)
  <2>1. Smaller(log, seen[c] + Limit) \in Nat
    BY BoundAssumption DEF Smaller, TInv, TypeOK
  <2> QED
    BY <1>4, <2>1 DEF ReadEvents, TInv, TypeOK
<1>5. ASSUME NEW t \in Ticket, IssueTicket(c, t) PROVE TInv'
  <2>1. PutTicket(t, c, members[c], seen[c]) /\ members[c] \in Membership /\ seen[c] \in Nat
    BY <1>5 DEF IssueTicket, TInv, TypeOK
  <2>2. /\ tickets' \in [Ticket ->
             {NoTicket} \cup [state : {"live", "revoked"}, as : Membership, last : Nat]]
        /\ tickets'[t].state = "live" /\ \A u \in Ticket \ {t} : tickets'[u] = tickets[u]
    BY <2>1, PutTypes
  <2>3. token' \in [Roamer -> Ticket \cup {No}] /\ \A d \in Roamer : token'[d] \in {token[d], t}
    BY <1>5 DEF IssueTicket, TInv, TypeOK
  <2>4. tickets'[t] # NoTicket /\ \A u \in Ticket : tickets[u] # NoTicket => tickets'[u] # NoTicket
    BY <2>2
  <2>5. \A i \in 1..MaxCalls : calls[i] # Idle => calls[i].ticket \in Ticket
    BY DEF TInv, TypeOK, Call
  <2>6. UNCHANGED <<creation, row, log, made, loading, state, engine, session, clock, members,
                    actors, stale, sockets, calls, seen, spent>>
    BY <1>5 DEF IssueTicket
  <2> QED
    BY <2>2, <2>3, <2>4, <2>5, <2>6 DEF TInv, TypeOK
<1> QED
  BY <1>1, <1>2, <1>3, <1>4, <1>5

LEMMA CallTypes ==
  ASSUME TInv, NEW i \in 1..MaxCalls,
         RevokeRow(i) \/ CheckpointRow(i) \/ \E t \in Ticket : Reissue(i, t)
  PROVE  TInv'
<1> USE DEF host, store, access, history
<1> DEFINE u == calls[i].ticket
           Rows == {NoTicket} \cup [state : {"live", "revoked"}, as : Membership, last : Nat]
<1>1. /\ calls[i] \in Call /\ u \in Ticket
      /\ tickets[u] \in [state : {"live", "revoked"}, as : Membership, last : Nat]
      /\ \A j \in 1..MaxCalls : calls[j] # Idle => calls[j].ticket \in Ticket
  BY DEF RevokeRow, CheckpointRow, Reissue, Stage, TInv, TypeOK, Call
<1>2. ASSUME calls' = [calls EXCEPT ![i].stage = "revoked"] \/ Done(i)
      PROVE  /\ calls' \in [1..MaxCalls -> {Idle} \cup Call]
             /\ \A j \in 1..MaxCalls : calls'[j] # Idle => calls'[j].ticket = calls[j].ticket /\ calls[j] # Idle
  <2>1. calls \in [1..MaxCalls -> {Idle} \cup Call]
    BY DEF TInv, TypeOK
  <2>2. CASE calls' = [calls EXCEPT ![i].stage = "revoked"]
    <3>1. [calls[i] EXCEPT !.stage = "revoked"] \in Call
          /\ [calls[i] EXCEPT !.stage = "revoked"].ticket = u
      BY <1>1 DEF Call
    <3>2. calls' = [calls EXCEPT ![i] = [calls[i] EXCEPT !.stage = "revoked"]]
      BY <2>1, <2>2
    <3>3. calls[i] # Idle
      BY <1>1 DEF Call
    <3> QED
      BY <2>1, <3>1, <3>2, <3>3
  <2>3. CASE Done(i)
    BY <2>1, <2>3 DEF Done
  <2> QED
    BY <1>2, <2>2, <2>3
<1>3. CASE RevokeRow(i)
  <2>1. tickets' = [tickets EXCEPT ![u].state = "revoked"]
    BY <1>3 DEF RevokeRow
  <2>2. tickets' \in [Ticket -> Rows] /\ \A t \in Ticket : tickets[t] # NoTicket => tickets'[t] # NoTicket
    BY <1>1, <2>1 DEF TInv, TypeOK
  <2>3. spent' \subseteq Ticket
    BY <1>1, <1>3 DEF RevokeRow, TInv, TypeOK
  <2>4. /\ calls' \in [1..MaxCalls -> {Idle} \cup Call]
        /\ \A j \in 1..MaxCalls : calls'[j] # Idle => calls'[j].ticket = calls[j].ticket /\ calls[j] # Idle
    BY <1>2, <1>3 DEF RevokeRow
  <2>5. UNCHANGED <<creation, row, log, made, loading, state, engine, session, clock, members,
                    actors, stale, sockets, seen, token>>
    BY <1>3 DEF RevokeRow
  <2> QED
    BY <1>1, <2>2, <2>3, <2>4, <2>5 DEF TInv, TypeOK
<1>4. CASE CheckpointRow(i)
  <2>1. /\ tickets' = [tickets EXCEPT ![u] = [@ EXCEPT !.state = "live", !.last = calls[i].after]]
        /\ calls[i].after \in Nat
    BY <1>1, <1>4 DEF CheckpointRow, Call
  <2>2. tickets' \in [Ticket -> Rows] /\ \A t \in Ticket : tickets[t] # NoTicket => tickets'[t] # NoTicket
    BY <1>1, <2>1 DEF TInv, TypeOK
  <2>3. /\ calls' \in [1..MaxCalls -> {Idle} \cup Call]
        /\ \A j \in 1..MaxCalls : calls'[j] # Idle => calls'[j].ticket = calls[j].ticket /\ calls[j] # Idle
    BY <1>2, <1>4 DEF CheckpointRow
  <2>4. UNCHANGED <<creation, row, log, made, loading, state, engine, session, clock, members,
                    actors, stale, sockets, seen, token, spent>>
    BY <1>4 DEF CheckpointRow
  <2> QED
    BY <1>1, <2>2, <2>3, <2>4 DEF TInv, TypeOK
<1>5. ASSUME NEW t \in Ticket, Reissue(i, t) PROVE TInv'
  <2> DEFINE c == calls[i].client
  <2>1. c \in Roamer /\ calls[i].after \in Nat /\ PutTicket(t, c, tickets[u].as, calls[i].after)
    BY <1>1, <1>5 DEF Reissue, LastOf, Call
  <2>2. /\ tickets' \in [Ticket -> Rows]
        /\ tickets'[t].state = "live" /\ \A x \in Ticket \ {t} : tickets'[x] = tickets[x]
    BY <1>1, <2>1, PutTypes
  <2>3. tickets'[t] # NoTicket /\ \A x \in Ticket : tickets[x] # NoTicket => tickets'[x] # NoTicket
    BY <2>2
  <2>4. token' \in [Roamer -> Ticket \cup {No}] /\ \A d \in Roamer : token'[d] \in {token[d], t}
    <3>1. UNCHANGED token \/ token' = [token EXCEPT ![c] = t]
      BY <1>5 DEF Reissue
    <3> QED
      BY <3>1, <2>1 DEF TInv, TypeOK
  <2>5. seen' \in [Roamer -> Nat]
    <3>1. seen[c] \in Nat /\ log \in Nat /\ Limit \in Nat /\ seen \in [Roamer -> Nat]
      BY <2>1, BoundAssumption DEF TInv, TypeOK
    <3>2. Bigger(seen[c], Smaller(log, calls[i].after + Limit)) \in Nat
      BY <2>1, <3>1 DEF Bigger, Smaller
    <3> QED
      BY <1>5, <3>1, <3>2 DEF Reissue
  <2>6. /\ calls' \in [1..MaxCalls -> {Idle} \cup Call]
        /\ \A j \in 1..MaxCalls : calls'[j] # Idle => calls'[j].ticket = calls[j].ticket /\ calls[j] # Idle
    BY <1>2, <1>5 DEF Reissue
  <2>7. UNCHANGED <<creation, row, log, made, loading, state, engine, session, clock, members,
                    actors, stale, sockets, spent>>
    BY <1>5 DEF Reissue
  <2>8. TypeOK'
    BY <2>2, <2>4, <2>5, <2>6, <2>7 DEF TInv, TypeOK
  <2>9. \A d \in Roamer : token'[d] # No => tickets'[token'[d]] # NoTicket
    BY <2>3, <2>4 DEF TInv, TypeOK
  <2>10. \A j \in 1..MaxCalls : calls'[j] # Idle => tickets'[calls'[j].ticket] # NoTicket
    BY <1>1, <2>3, <2>6 DEF TInv
  <2> QED
    BY <2>7, <2>8, <2>9, <2>10 DEF TInv
<1> QED
  BY <1>3, <1>4, <1>5

LEMMA TypesKept ==
  ASSUME TInv, [Next]_vars
  PROVE  TInv'
<1>1. {clock, engine, session.engine} \subseteq Engine \cup {No}
  BY DEF TInv, TypeOK
<1>2. ASSUME ClockWorks \/ RouteWorks \/ \E c \in Client, a \in Actor : Command(c, a) PROVE TInv'
  <2>1. AccessTypes'
    BY <1>2 DEF ClockWorks, RouteWorks, Command, AccessTypes, TInv, TypeOK
  <2> QED
    BY <1>1, <1>2, <2>1, WorkTypes DEF ClockWorks, RouteWorks, Command
<1>3. CASE UNCHANGED vars
  BY <1>3 DEF vars, host, store, access, resume, history, TInv, TypeOK
<1> QED
  BY <1>2, <1>3, HostTypes, SessionTypes, TicketTypes, CallTypes DEF Next

\* Every reachable state of the API process, its sessions and tickets is well typed,
\* for any clients, actors and bounds.
THEOREM TypeCorrect == Spec => []TypeOK
<1>1. TInv => TypeOK
  BY DEF TInv
<1> QED
  BY <1>1, TypesStart, TypesKept, PTL DEF Spec

----------------------------------------------------------------------------
(* Engines *)

\* Nothing is loaded or created beside a cached engine or a load, unless raced.
EInv ==
  /\ creation = "none" => engine = No /\ loading = {}
  /\ ~raced =>
       /\ {session.engine, clock} \subseteq {No, engine}
       /\ \A d, e \in loading : d = e
       /\ loading # {} => engine = No
       /\ creation = "row" => engine = No /\ loading = {}

LEMMA EnginesKept ==
  ASSUME TInv, EInv, [Next]_vars
  PROVE  EInv'
<1>1. CASE CreateRow
  BY <1>1 DEF CreateRow, MakeEngine, EInv
<1>2. CASE CreateFinish
  <2>1. creation' = "done" /\ engine' = 1 /\ loading' = loading /\ raced' = raced
    BY <1>2 DEF CreateFinish
  <2>2. ASSUME ~raced PROVE {session'.engine, clock'} \subseteq {No, 1} /\ loading = {}
    <3>1. session.engine = No /\ clock = No /\ loading = {}
      BY <1>2, <2>2 DEF CreateFinish, EInv
    <3> QED
      BY <1>2, <3>1 DEF CreateFinish, Ensure
  <2> QED
    BY <2>1, <2>2 DEF EInv
<1>3. ASSUME NEW e \in Engine, LoadBegin(e) PROVE EInv'
  BY <1>3 DEF LoadBegin, MakeEngine, store, EInv
<1>4. ASSUME NEW e \in Engine, LoadEnd(e) PROVE EInv'
  <2>1. /\ e \in loading /\ loading' = loading \ {e} /\ engine' = e
        /\ UNCHANGED <<creation, raced>>
    BY <1>4 DEF LoadEnd, Cache, store
  <2>2. ASSUME ~raced
        PROVE  {session'.engine, clock'} \subseteq {No, e} /\ loading' = {} /\ creation # "row"
    <3>1. session.engine = No /\ clock = No
      BY <2>1, <2>2 DEF EInv
    <3> QED
      BY <1>4, <2>1, <2>2, <3>1 DEF LoadEnd, Ensure, EInv
  <2> QED
    BY <2>1, <2>2 DEF EInv
<1>5. CASE Restart
  BY <1>5 DEF Restart, Nobody, EInv
<1>6. CASE UNCHANGED <<creation, loading, engine, session, clock, raced>>
  BY <1>6 DEF EInv
<1>7. ASSUME NEW e \in Engine \cup {No}, Work(e)
      PROVE  UNCHANGED <<creation, loading, engine, session, clock, raced>>
  BY <1>7 DEF Work
<1>8. {clock, engine, session.engine} \subseteq Engine \cup {No}
  BY DEF TInv, TypeOK
<1> QED
  BY <1>1, <1>2, <1>3, <1>4, <1>5, <1>6, <1>7, <1>8
  DEF Next, ClockWorks, RouteWorks, Command, AddActor, RemoveActor, Join, Resume, Revoke, Checkpoint,
      ReadEvents, IssueTicket, Connect, Subscribe, Tell, Disconnect, RevokeRow, CheckpointRow, Reissue, vars, host, store

\* Commands, routes and the clock meet in one engine, for any number of
\* engines, unless two have been made side by side (get_engine, create_campaign).
THEOREM EnginesMeet == Spec => []OneEngine
<1>1. Init => TInv /\ EInv
  <2> SUFFICES ASSUME Init PROVE EInv
    BY TypesStart
  <2>1. engine = No /\ clock = No /\ loading = {} /\ creation = "none"
    BY DEF Init
  <2>2. session.engine = No
    BY DEF Init, Nobody
  <2> QED
    BY <2>1, <2>2 DEF EInv
<1>2. TInv /\ EInv /\ [Next]_vars => TInv' /\ EInv'
  BY TypesKept, EnginesKept
<1>3. EInv => OneEngine
  BY DEF EInv, OneEngine
<1> QED
  BY <1>1, <1>2, <1>3, PTL DEF Spec

----------------------------------------------------------------------------
(* Memberships *)

\* Owners are the session's owner, and everybody else has actors of its own, or ones
\* that were removed under it; a session without an engine has no members.
MInv ==
  /\ session.engine = No => DOMAIN members = {}
  /\ \A c \in DOMAIN members :
       /\ members[c].role = "owner" => UserOf[c] = session.owner
       /\ \A a \in members[c].actors :
            (a \in DOMAIN actors /\ actors[a] = UserOf[c]) \/ <<c, a>> \in stale

\* What join grants, whatever role and actors are asked for.
LEMMA GrantIsOwn ==
  ASSUME MInv, session.engine # No, NEW c \in Client, NEW role, NEW asked,
         Enroll(c, role, asked), UNCHANGED session
  PROVE  MInv'
<1>1. Grant(c, role, asked).role = "owner" => UserOf[c] = session.owner
  BY DEF Grant, Owner
<1>2. \A a \in Grant(c, role, asked).actors : a \in DOMAIN actors /\ actors[a] = UserOf[c]
  BY DEF Grant, Owner, Owned
<1>3. \A d, a : d # c /\ <<d, a>> \in stale => <<d, a>> \in stale'
  BY DEF Enroll
<1> QED
  BY <1>1, <1>2, <1>3 DEF Enroll, Granted, MInv

\* Removing an actor marks everybody who holds it; adding one takes nothing away.
LEMMA ActorsChange ==
  ASSUME MInv, UNCHANGED <<session, members>>, NEW a \in Actor,
         RemoveActor(a) \/ \E u \in User : AddActor(a, u)
  PROVE  MInv'
<1>1. CASE RemoveActor(a)
  <2>1. /\ \A x \in DOMAIN actors \ {a} : x \in DOMAIN actors' /\ actors'[x] = actors[x]
        /\ stale \subseteq stale'
        /\ \A c \in DOMAIN members : a \in members[c].actors => <<c, a>> \in stale'
    BY <1>1 DEF RemoveActor, Restrict
  <2> QED
    BY <2>1 DEF MInv
<1>2. ASSUME NEW u \in User, AddActor(a, u) PROVE MInv'
  <2>1. /\ \A x \in DOMAIN actors : x \in DOMAIN actors' /\ actors'[x] = actors[x]
        /\ stale' = stale
    BY <1>2 DEF AddActor
  <2> QED
    BY <2>1 DEF MInv
<1> QED
  BY <1>1, <1>2

LEMMA MembersKept ==
  ASSUME TInv, MInv, [Next]_vars
  PROVE  MInv'
<1>1. CASE CreateFinish
  <2>1. CASE session.engine # No
    BY <1>1, <2>1 DEF CreateFinish, MInv
  <2>2. CASE session.engine = No
    BY <1>1, <2>2 DEF CreateFinish, Owner, MInv
  <2> QED
    BY <2>1, <2>2
<1>2. ASSUME NEW e \in Engine, LoadEnd(e) PROVE MInv'
  <2>1. UNCHANGED <<members, actors, stale>> /\ session'.engine # No
    BY <1>2 DEF LoadEnd, access
  <2>2. CASE session.engine = No
    BY <2>1, <2>2 DEF MInv
  <2>3. CASE session.engine # No
    BY <1>2, <2>1, <2>3 DEF LoadEnd, MInv
  <2> QED
    BY <2>2, <2>3
<1>3. CASE Restart
  BY <1>3 DEF Restart, MInv
<1>4. ASSUME NEW c \in Client, Join(c) PROVE MInv'
  BY <1>4, GrantIsOwn DEF Join, host
<1>5. ASSUME NEW c \in Roamer, Resume(c) PROVE MInv'
  BY <1>5, GrantIsOwn, ClientAssumption DEF Resume, host
<1>6. CASE UNCHANGED <<session, members, actors, stale>>
  BY <1>6 DEF MInv
<1>7. ASSUME NEW e \in Engine \cup {No}, Work(e) PROVE UNCHANGED <<session, members>>
  BY <1>7 DEF Work
<1>8. {clock, engine, session.engine} \subseteq Engine \cup {No}
  BY DEF TInv, TypeOK
<1>9. ASSUME NEW a \in Actor, RemoveActor(a) \/ \E u \in User : AddActor(a, u) PROVE MInv'
  BY <1>7, <1>8, <1>9, ActorsChange DEF RemoveActor, AddActor
<1> QED
  BY <1>1, <1>2, <1>3, <1>4, <1>5, <1>6, <1>7, <1>8, <1>9
  DEF Next, CreateRow, LoadBegin, ClockWorks, RouteWorks, Command, Revoke, Checkpoint,
      ReadEvents, IssueTicket, Connect, Subscribe, Tell, Disconnect, RevokeRow, CheckpointRow,
      Reissue, vars, host, access

\* Whoever may command an actor owns it or the campaign, or held its id when the
\* actor before it was removed: for any users, roles asked for, joins, resumptions,
\* removals and ids that come back (CampaignSession.join, can_control, delete_npc).
THEOREM ActorsStayOwn == Spec => []NobodyElsesActor
<1>1. Init => TInv /\ MInv
  BY TypesStart DEF Init, MInv
<1>2. TInv /\ MInv /\ [Next]_vars => TInv' /\ MInv'
  BY TypesKept, MembersKept
<1>3. MInv => NobodyElsesActor
  BY DEF MInv, NobodyElsesActor, CanControl
<1> QED
  BY <1>1, <1>2, <1>3, PTL DEF Spec

----------------------------------------------------------------------------
(* Tickets *)

\* What may touch a ticket, a request on one or what a client has; the rest
\* leaves all of it alone.
Touches ==
  \/ \E c \in Roamer :
       \/ Resume(c) \/ Revoke(c) \/ Checkpoint(c) \/ ReadEvents(c)
       \/ \E t \in Ticket : IssueTicket(c, t)
  \/ \E i \in 1..MaxCalls : RevokeRow(i) \/ CheckpointRow(i) \/ \E t \in Ticket : Reissue(i, t)

LEMMA OthersLeaveTickets ==
  ASSUME TInv, [Next]_vars, ~Touches, ~Restart
  PROVE  UNCHANGED <<tickets, calls, seen, token, spent>>
<1>1. ASSUME NEW e \in Engine \cup {No}, Work(e)
      PROVE  UNCHANGED <<tickets, calls, seen, token, spent>>
  BY <1>1 DEF Work, resume, history
<1>2. {clock, engine, session.engine} \subseteq Engine \cup {No}
  BY DEF TInv, TypeOK
<1> QED
  BY <1>1, <1>2
  DEF Next, Touches, CreateRow, CreateFinish, LoadBegin, LoadEnd, ClockWorks, RouteWorks, Command,
      AddActor, RemoveActor, Join, Connect, Subscribe, Tell, Disconnect, Request, vars, resume, history

\* No checkpoint of a spent ticket is in flight to bring it back.
PInv ==
  /\ \A t \in spent : tickets[t].state = "revoked"
  /\ \A i \in 1..MaxCalls : calls[i].kind = "checkpoint" => calls[i].ticket \notin spent

LEMMA SpentKept ==
  ASSUME TInv, PInv, [Next]_vars
  PROVE  PInv'
<1> USE DEF host, store, access, history
<1>1. ASSUME NEW c \in Roamer, NEW kind \in {"resume", "revoke", "checkpoint"}, NEW after \in Nat,
             token[c] # No, Enter(kind, c, "read", after),
             kind = "checkpoint" => tickets[token[c]].state = "live", UNCHANGED <<tickets, spent>>
      PROVE  PInv'
  <2>1. \E i \in 1..MaxCalls :
          /\ calls'[i].kind = kind /\ calls'[i].ticket = token[c]
          /\ \A j \in 1..MaxCalls \ {i} : calls'[j] = calls[j]
    BY <1>1, EnterTypes
  <2> QED
    BY <1>1, <2>1 DEF PInv
<1>2. ASSUME NEW c \in Roamer, Resume(c) PROVE PInv'
  <2>1. PICK observed \in {0, seen[c]} :
          Enter("resume", c, "read", Bigger(tickets[token[c]].last, observed))
    BY <1>2 DEF Resume
  <2>2. Bigger(tickets[token[c]].last, observed) \in Nat
    BY <1>2 DEF Resume, Live, Bigger, TInv, TypeOK
  <2> QED
    BY <1>1, <1>2, <2>1, <2>2 DEF Resume, Request
<1>3. ASSUME NEW c \in Roamer, Revoke(c) PROVE PInv'
  BY <1>1, <1>3, 0 \in Nat DEF Revoke, Request
<1>4. ASSUME NEW c \in Roamer, Checkpoint(c) PROVE PInv'
  <2>1. Bigger(tickets[token[c]].last, seen[c]) \in Nat
    BY <1>4 DEF Checkpoint, Usable, Live, Bigger, TInv, TypeOK
  <2> QED
    BY <1>1, <1>4, <2>1 DEF Checkpoint, Usable, Live, Request
<1>5. ASSUME NEW c \in Roamer, ReadEvents(c) PROVE PInv'
  BY <1>5 DEF ReadEvents, Request, PInv
<1>6. ASSUME NEW t \in Ticket, NEW c \in Roamer, NEW as, NEW last, PutTicket(t, c, as, last),
             UNCHANGED spent, \A i \in 1..MaxCalls : calls'[i] = calls[i] \/ calls'[i] = Idle
      PROVE  PInv'
  <2>1. tickets[t].state = "none" /\ \A u \in Ticket \ {t} : tickets'[u] = tickets[u]
    BY <1>6 DEF PutTicket, Fresh, TInv, TypeOK
  <2>2. t \notin spent /\ spent \subseteq Ticket
    BY <2>1 DEF PInv, TInv, TypeOK
  <2> QED
    BY <1>6, <2>1, <2>2 DEF PInv
<1>7. ASSUME NEW c \in Roamer, NEW t \in Ticket, IssueTicket(c, t) PROVE PInv'
  BY <1>6, <1>7 DEF IssueTicket, Request
<1>8. ASSUME NEW i \in 1..MaxCalls, RevokeRow(i) PROVE PInv'
  <2> DEFINE u == calls[i].ticket
  <2>1. u \in Ticket /\ calls[i].kind # "checkpoint" /\ calls[i] \in Call
        /\ tickets[u] \in [state : {"live", "revoked"}, as : Membership, last : Nat]
    BY <1>8 DEF RevokeRow, Stage, Call, TInv, TypeOK
  <2>2. tickets'[u].state = "revoked" /\ \A t \in Ticket \ {u} : tickets'[t] = tickets[t]
    BY <1>8, <2>1 DEF RevokeRow, TInv, TypeOK
  <2>3. spent' \subseteq spent \cup {u}
        /\ (u \in spent' => u \in spent \/ \A j \in 1..MaxCalls \ {i} : calls[j] = Idle \/ calls[j].ticket # u)
    BY <1>8 DEF RevokeRow, TInv, TypeOK
  <2>4. calls'[i].kind # "checkpoint" /\ \A j \in 1..MaxCalls \ {i} : calls'[j] = calls[j]
    <3>1. calls \in [1..MaxCalls -> {Idle} \cup Call]
      BY DEF TInv, TypeOK
    <3>2. CASE calls[i].kind = "resume"
      <4>1. calls' = [calls EXCEPT ![i].stage = "revoked"]
        BY <1>8, <3>2 DEF RevokeRow
      <4>2. calls'[i].kind = calls[i].kind
        BY <2>1, <3>1, <4>1 DEF Call
      <4> QED
        BY <2>1, <3>1, <4>1, <4>2
    <3>3. CASE calls[i].kind # "resume"
      BY <1>8, <3>1, <3>3 DEF RevokeRow, Done
    <3> QED
      BY <3>2, <3>3
  <2>5. \A t \in spent' : tickets'[t].state = "revoked"
    BY <2>2, <2>3 DEF PInv, TInv, TypeOK
  <2>6. \A j \in 1..MaxCalls : calls'[j].kind = "checkpoint" => calls'[j].ticket \notin spent'
    BY <2>3, <2>4 DEF PInv
  <2> QED
    BY <2>5, <2>6 DEF PInv
<1>9. ASSUME NEW i \in 1..MaxCalls, CheckpointRow(i) PROVE PInv'
  <2>1. calls[i].ticket \notin spent /\ UNCHANGED spent /\ spent \subseteq Ticket
    BY <1>9 DEF CheckpointRow, Stage, PInv, TInv, TypeOK
  <2>2. /\ \A t \in Ticket \ {calls[i].ticket} : tickets'[t] = tickets[t]
        /\ \A j \in 1..MaxCalls : calls'[j] = calls[j] \/ calls'[j] = Idle
    BY <1>9 DEF CheckpointRow, Done, TInv, TypeOK
  <2>3. \A u \in spent' : tickets'[u].state = "revoked"
    BY <2>1, <2>2 DEF PInv
  <2>4. \A j \in 1..MaxCalls : calls'[j].kind = "checkpoint" => calls'[j].ticket \notin spent'
    BY <2>1, <2>2 DEF PInv
  <2> QED
    BY <2>3, <2>4 DEF PInv
<1>10. ASSUME NEW i \in 1..MaxCalls, NEW t \in Ticket, Reissue(i, t) PROVE PInv'
  <2>1. calls[i].client \in Roamer
    <3>1. calls[i].kind = "resume" /\ calls[i] \in {Idle} \cup Call
      BY <1>10 DEF Reissue, Stage, TInv, TypeOK
    <3> QED
      BY <3>1 DEF Call
  <2>2. \A j \in 1..MaxCalls : calls'[j] = calls[j] \/ calls'[j] = Idle
    BY <1>10 DEF Reissue, Done, TInv, TypeOK
  <2> QED
    BY <1>6, <1>10, <2>1, <2>2 DEF Reissue
<1>11. CASE Restart
  BY <1>11 DEF Restart, PInv
<1>12. CASE UNCHANGED <<tickets, calls, seen, token, spent>>
  BY <1>12 DEF PInv
<1> QED
  BY <1>2, <1>3, <1>4, <1>5, <1>7, <1>8, <1>9, <1>10, <1>11, <1>12, OthersLeaveTickets DEF Touches

\* A ticket revoked with no other request on it in flight is never accepted again,
\* for any number of tickets, requests and restarts (ReconnectManager).
THEOREM TicketsStaySpent == Spec => []SpentStaysSpent
<1>1. Init => TInv /\ PInv
  BY TypesStart DEF Init, PInv
<1>2. TInv /\ PInv /\ [Next]_vars => TInv' /\ PInv'
  BY TypesKept, SpentKept
<1>3. PInv => SpentStaysSpent
  BY DEF PInv, SpentStaysSpent
<1> QED
  BY <1>1, <1>2, <1>3, PTL DEF Spec

----------------------------------------------------------------------------
(* Replays *)

\* A ticket has one holder, and neither it nor a request on it is ahead of what
\* that client has.
NInv ==
  /\ \A c, d \in Roamer : token[c] # No /\ token[c] = token[d] => c = d
  /\ \A c \in Roamer : token[c] # No => tickets[token[c]].last <= seen[c]
  /\ \A i \in 1..MaxCalls : calls[i] # Idle =>
       /\ calls[i].after <= seen[calls[i].client]
       /\ \A c \in Roamer : token[c] = calls[i].ticket => c = calls[i].client

\* A request enters with what its client's ticket and the client itself have.
LEMMA EnterBehind ==
  ASSUME TInv, NInv, NEW c \in Roamer, NEW kind \in {"resume", "revoke", "checkpoint"},
         NEW after \in Nat, after <= seen[c], token[c] # No, Enter(kind, c, "read", after),
         UNCHANGED <<tickets, seen, token>>
  PROVE  NInv'
<1>1. PICK i \in 1..MaxCalls :
        /\ calls'[i].client = c /\ calls'[i].ticket = token[c] /\ calls'[i].after = after
        /\ \A j \in 1..MaxCalls \ {i} : calls'[j] = calls[j]
  BY EnterTypes
<1>2. \A d \in Roamer : token[d] = token[c] => d = c
  BY DEF NInv
<1> QED
  BY <1>1, <1>2 DEF NInv

\* A client has more and more.
LEMMA SeenGrows ==
  ASSUME TInv, NEW c \in Roamer, NEW n \in Nat, n >= seen[c], seen' = [seen EXCEPT ![c] = n]
  PROVE  \A d \in Roamer : seen'[d] \in Nat /\ seen[d] \in Nat /\ seen[d] <= seen'[d]
<1>1. seen \in [Roamer -> Nat]
  BY DEF TInv, TypeOK
<1> QED
  BY <1>1

\* A new ticket, which nobody held before, is handed to its client or lost.
LEMMA NewTicketBehind ==
  ASSUME TInv, NInv, NEW c \in Roamer, NEW t \in Ticket, NEW as \in Membership, NEW last \in Nat,
         last <= seen[c], PutTicket(t, c, as, last),
         \A d \in Roamer : seen'[d] \in Nat /\ seen[d] \in Nat /\ seen[d] <= seen'[d],
         UNCHANGED token \/ token' = [token EXCEPT ![c] = t],
         \A j \in 1..MaxCalls : calls'[j] = calls[j] \/ calls'[j] = Idle
  PROVE  NInv'
<1>1. /\ tickets[t] = NoTicket /\ tickets'[t].last = last
      /\ \A u \in Ticket \ {t} : tickets'[u] = tickets[u]
  <2>1. tickets \in [Ticket ->
              {NoTicket} \cup [state : {"live", "revoked"}, as : Membership, last : Nat]]
    BY DEF TInv, TypeOK
  <2>2. tickets[t].state = "none" /\ tickets' = [tickets EXCEPT ![t] = [state |-> "live", as |-> as, last |-> last]]
    BY DEF PutTicket, Fresh
  <2> QED
    BY <2>1, <2>2
<1>2. \A d \in Roamer : token[d] \in Ticket \cup {No} /\ token[d] # t
  BY <1>1 DEF TInv, TypeOK
<1>3. \A j \in 1..MaxCalls : calls[j] # Idle =>
        calls[j].ticket # t /\ calls[j].client \in Roamer /\ calls[j].after \in Nat
  BY <1>1 DEF TInv, TypeOK, Call
<1>4. /\ \A d \in Roamer \ {c} : token'[d] = token[d]
      /\ token'[c] = token[c] \/ token'[c] = t
  BY DEF TInv, TypeOK
<1>5. \A d, e \in Roamer : token'[d] # No /\ token'[d] = token'[e] => d = e
  BY <1>2, <1>4 DEF NInv
<1>6. \A d \in Roamer : token[d] # No => tickets[token[d]].last \in Nat
  BY DEF TInv, TypeOK
<1>7. ASSUME NEW d \in Roamer, token'[d] # No PROVE tickets'[token'[d]].last <= seen'[d]
  <2>1. CASE token'[d] = t
    <3>1. d = c
      BY <1>2, <1>4, <2>1
    <3> QED
      BY <1>1, <2>1, <3>1
  <2>2. CASE token'[d] # t
    <3>1. token'[d] = token[d] /\ tickets'[token[d]] = tickets[token[d]]
      BY <1>1, <1>2, <1>4, <1>7, <2>2
    <3>2. tickets[token[d]].last <= seen[d]
      BY <1>7, <3>1 DEF NInv
    <3> QED
      BY <1>6, <1>7, <3>1, <3>2
  <2> QED
    BY <2>1, <2>2
<1>8. ASSUME NEW j \in 1..MaxCalls, calls'[j] # Idle
      PROVE  /\ calls'[j].after <= seen'[calls'[j].client]
             /\ \A d \in Roamer : token'[d] = calls'[j].ticket => d = calls'[j].client
  <2>1. calls'[j] = calls[j]
    BY <1>8
  <2>2. /\ calls[j].after <= seen[calls[j].client]
        /\ \A d \in Roamer : token[d] = calls[j].ticket => d = calls[j].client
    BY <1>8, <2>1 DEF NInv
  <2> QED
    BY <1>3, <1>4, <1>8, <2>1, <2>2
<1> QED
  BY <1>5, <1>7, <1>8 DEF NInv

LEMMA ReplaysKept ==
  ASSUME TInv, NInv, [Next]_vars
  PROVE  NInv'
<1> USE DEF host, store, access, history
<1>1. ASSUME NEW c \in Roamer, token[c] # No, tickets[token[c]].state = "live"
      PROVE  /\ seen[c] \in Nat /\ tickets[token[c]].last \in Nat
             /\ \A n \in {0, seen[c]} : /\ Bigger(tickets[token[c]].last, n) \in Nat
                                        /\ Bigger(tickets[token[c]].last, n) <= seen[c]
  BY <1>1 DEF Bigger, NInv, TInv, TypeOK
<1>2. ASSUME NEW c \in Roamer, Resume(c) PROVE NInv'
  <2>1. PICK observed \in {0, seen[c]} :
          Enter("resume", c, "read", Bigger(tickets[token[c]].last, observed))
    BY <1>2 DEF Resume
  <2> QED
    BY <1>1, <1>2, <2>1, EnterBehind DEF Resume, Live
<1>3. ASSUME NEW c \in Roamer, Revoke(c) PROVE NInv'
  <2>1. 0 \in Nat /\ 0 <= seen[c]
    BY DEF TInv, TypeOK
  <2> QED
    BY <1>3, <2>1, EnterBehind DEF Revoke
<1>4. ASSUME NEW c \in Roamer, Checkpoint(c) PROVE NInv'
  BY <1>1, <1>4, EnterBehind DEF Checkpoint, Usable, Live
<1>5. ASSUME NEW c \in Roamer, ReadEvents(c) PROVE NInv'
  <2>1. Smaller(log, seen[c] + Limit) \in Nat /\ Smaller(log, seen[c] + Limit) >= seen[c]
    BY <1>5, BoundAssumption DEF ReadEvents, Smaller, TInv, TypeOK
  <2>2. \A d \in Roamer : seen'[d] \in Nat /\ seen[d] \in Nat /\ seen[d] <= seen'[d]
    BY <1>5, <2>1, SeenGrows DEF ReadEvents
  <2>3. \A d \in Roamer : token[d] # No => tickets[token[d]].last \in Nat
    BY DEF TInv, TypeOK
  <2>4. \A i \in 1..MaxCalls : calls[i] # Idle => calls[i].client \in Roamer /\ calls[i].after \in Nat
    BY DEF TInv, TypeOK, Call
  <2>5. UNCHANGED <<tickets, calls, token>>
    BY <1>5 DEF ReadEvents
  <2>6. \A d \in Roamer : token[d] # No => tickets[token[d]].last <= seen'[d]
    BY <2>2, <2>3 DEF NInv
  <2>7. \A i \in 1..MaxCalls : calls[i] # Idle => calls[i].after <= seen'[calls[i].client]
    BY <2>2, <2>4 DEF NInv
  <2> QED
    BY <2>5, <2>6, <2>7 DEF NInv
<1>6. ASSUME NEW c \in Roamer, NEW t \in Ticket, IssueTicket(c, t) PROVE NInv'
  <2>1. members[c] \in Membership /\ seen[c] \in Nat /\ UNCHANGED <<seen, calls>>
    BY <1>6 DEF IssueTicket, TInv, TypeOK
  <2>2. \A d \in Roamer : seen'[d] \in Nat /\ seen[d] \in Nat /\ seen[d] <= seen'[d]
    BY <2>1 DEF TInv, TypeOK
  <2> QED
    BY <1>6, <2>1, <2>2, NewTicketBehind DEF IssueTicket
<1>7. ASSUME NEW i \in 1..MaxCalls, RevokeRow(i) PROVE NInv'
  <2> DEFINE u == calls[i].ticket
  <2>1. /\ u \in Ticket /\ calls[i] \in Call /\ UNCHANGED <<seen, token>>
        /\ tickets[u] \in [state : {"live", "revoked"}, as : Membership, last : Nat]
        /\ calls \in [1..MaxCalls -> {Idle} \cup Call]
    BY <1>7 DEF RevokeRow, Stage, Call, TInv, TypeOK
  <2>2. \A t \in Ticket : tickets'[t].last = tickets[t].last \/ tickets'[t] = tickets[t]
    BY <1>7, <2>1 DEF RevokeRow, TInv, TypeOK
  <2>3. calls' = [calls EXCEPT ![i].stage = "revoked"] \/ Done(i)
    BY <1>7 DEF RevokeRow
  <2>4. \A j \in 1..MaxCalls : calls'[j] # Idle =>
          /\ calls[j] # Idle /\ calls'[j].after = calls[j].after
          /\ calls'[j].client = calls[j].client /\ calls'[j].ticket = calls[j].ticket
    <3>1. CASE calls' = [calls EXCEPT ![i].stage = "revoked"]
      BY <2>1, <3>1 DEF Call
    <3>2. CASE Done(i)
      BY <2>1, <3>2 DEF Done
    <3> QED
      BY <2>3, <3>1, <3>2
  <2>5. \A c \in Roamer : token[c] # No => tickets'[token[c]].last <= seen[c]
    BY <2>2 DEF NInv, TInv, TypeOK
  <2> QED
    BY <2>1, <2>4, <2>5 DEF NInv
<1>8. ASSUME NEW i \in 1..MaxCalls, CheckpointRow(i) PROVE NInv'
  <2> DEFINE u == calls[i].ticket
  <2>1. /\ u \in Ticket /\ calls[i] \in Call /\ UNCHANGED <<seen, token>>
        /\ tickets[u] \in [state : {"live", "revoked"}, as : Membership, last : Nat]
    BY <1>8 DEF CheckpointRow, Stage, Call, TInv, TypeOK
  <2>2. tickets'[u].last = calls[i].after /\ \A t \in Ticket \ {u} : tickets'[t] = tickets[t]
    BY <1>8, <2>1 DEF CheckpointRow, TInv, TypeOK
  <2>3. \A j \in 1..MaxCalls : calls'[j] = calls[j] \/ calls'[j] = Idle
    BY <1>8 DEF CheckpointRow, Done, TInv, TypeOK
  <2>4. calls[i] # Idle
    BY <2>1 DEF Call
  <2>5. ASSUME NEW c \in Roamer, token[c] # No PROVE tickets'[token[c]].last <= seen[c]
    <3>1. CASE token[c] = u
      <4>1. c = calls[i].client /\ calls[i].after <= seen[calls[i].client]
        BY <2>4, <3>1 DEF NInv
      <4> QED
        BY <2>2, <3>1, <4>1
    <3>2. CASE token[c] # u
      BY <2>2, <2>5, <3>2 DEF NInv, TInv, TypeOK
    <3> QED
      BY <3>1, <3>2
  <2> QED
    BY <2>1, <2>3, <2>5 DEF NInv
<1>9. ASSUME NEW i \in 1..MaxCalls, NEW t \in Ticket, Reissue(i, t) PROVE NInv'
  <2> DEFINE c == calls[i].client
             n == Bigger(seen[c], Smaller(log, calls[i].after + Limit))
  <2>1. /\ calls[i] \in Call /\ calls[i] # Idle /\ c \in Roamer /\ calls[i].after \in Nat
        /\ seen[c] \in Nat
    <3>1. calls[i].stage = "revoked"
      BY <1>9 DEF Reissue, Stage
    <3>2. calls[i] \in Call /\ calls[i] # Idle
      BY <1>9, <3>1 DEF Reissue, Stage, TInv, TypeOK, Call
    <3> QED
      BY <3>2 DEF Call, TInv, TypeOK
  <2>2. tickets[calls[i].ticket].as \in Membership
    BY <2>1 DEF Call, TInv, TypeOK
  <2>3. calls[i].after <= seen[c]
    BY <2>1 DEF NInv
  <2>4. PutTicket(t, c, tickets[calls[i].ticket].as, calls[i].after)
    BY <1>9 DEF Reissue, LastOf
  <2>5. n \in Nat /\ n >= seen[c]
    <3>1. log \in Nat /\ Limit \in Nat
      BY BoundAssumption DEF TInv, TypeOK
    <3>2. Smaller(log, calls[i].after + Limit) \in Nat
      BY <2>1, <3>1 DEF Smaller
    <3> QED
      BY <2>1, <3>2 DEF Bigger
  <2>6. /\ UNCHANGED <<seen, token>> \/ (token' = [token EXCEPT ![c] = t] /\ seen' = [seen EXCEPT ![c] = n])
    BY <1>9 DEF Reissue
  <2>7. \A d \in Roamer : seen'[d] \in Nat /\ seen[d] \in Nat /\ seen[d] <= seen'[d]
    <3>1. CASE UNCHANGED <<seen, token>>
      BY <3>1 DEF TInv, TypeOK
    <3>2. CASE seen' = [seen EXCEPT ![c] = n]
      BY <2>1, <2>5, <3>2, SeenGrows
    <3> QED
      BY <2>6, <3>1, <3>2
  <2>8. \A j \in 1..MaxCalls : calls'[j] = calls[j] \/ calls'[j] = Idle
    BY <1>9 DEF Reissue, Done, TInv, TypeOK
  <2> QED
    BY <2>1, <2>2, <2>3, <2>4, <2>6, <2>7, <2>8, NewTicketBehind
<1>10. CASE Restart
  BY <1>10 DEF Restart, NInv
<1>11. CASE UNCHANGED <<tickets, calls, seen, token, spent>>
  BY <1>11 DEF NInv
<1> QED
  BY <1>2, <1>3, <1>4, <1>5, <1>6, <1>7, <1>8, <1>9, <1>10, <1>11, OthersLeaveTickets DEF Touches

\* No resumption replays from after an event its client has not had, for any pages,
\* checkpoints, lost answers and restarts (ReconnectManager, api/hosting.py).
THEOREM ReplaysLeaveNothingOut == Spec => []NothingSkipped
<1>1. Init => TInv /\ NInv
  BY TypesStart DEF Init, NInv
<1>2. TInv /\ NInv /\ [Next]_vars => TInv' /\ NInv'
  BY TypesKept, ReplaysKept
<1>3. TInv /\ NInv => NothingSkipped
  BY DEF NInv, TInv, TypeOK, NothingSkipped
<1> QED
  BY <1>1, <1>2, <1>3, PTL DEF Spec

----------------------------------------------------------------------------
(* WebSockets *)

\* The last event of a WebSocket's engine that its stream no longer holds.
Behind(s, st) == st[s.engine].sequence - Len(s.stream)

\* A stream holds its engine's latest events in their order, and what came before
\* them was shown or is lost.
Followed(s, st, m) ==
  /\ s.engine # No => s.engine <= m
  /\ s.subscribed => s.engine # No
  /\ ~s.subscribed => s.stream = <<>>
  /\ s.subscribed =>
       /\ \A k \in 1..Len(s.stream) : s.stream[k] = Behind(s, st) + k
       /\ (s.shown + 1)..Behind(s, st) \subseteq s.lost

FInv ==
  /\ {engine, clock, session.engine} \cup loading \subseteq 0..made
  /\ \A c \in Viewer : Followed(sockets[c], state, made)

\* An engine's number alone moves a WebSocket that nobody touches.
LEMMA FollowedStill ==
  ASSUME NEW s \in Socket, Followed(s, state, made), made \in Nat, made' \in Nat, made <= made',
         s.engine # No => state'[s.engine].sequence = state[s.engine].sequence
  PROVE  Followed(s, state', made')
<1>1. s.engine # No => Behind(s, state') = Behind(s, state)
  BY DEF Behind
<1> QED
  BY <1>1 DEF Followed, Socket

\* EventBus.publish keeps a stream consecutive, and says what it gives up.
LEMMA HeardFollows ==
  ASSUME TInv, NEW s \in Socket, Followed(s, state, made), s.subscribed, UNCHANGED made,
         state'[s.engine].sequence = state[s.engine].sequence + 1
  PROVE  Followed(Heard(s, state[s.engine].sequence + 1), state', made')
<1> DEFINE n == state[s.engine].sequence + 1
           q == s.stream
           h == Heard(s, n)
<1>1. /\ s.engine \in Engine /\ state[s.engine].sequence \in Nat /\ n \in Nat
      /\ q \in Seq(Nat) /\ Len(q) \in Nat /\ Behind(s, state) \in Int /\ n = Behind(s, state) + Len(q) + 1
      /\ s.shown \in Nat /\ made \in Nat
  <2>1. s.engine \in Engine /\ made \in Nat
    BY BoundAssumption DEF Followed, Socket, TInv, TypeOK
  <2>2. state[s.engine].sequence \in Nat
    BY <2>1 DEF TInv, TypeOK, EngineState
  <2> QED
    BY <2>1, <2>2 DEF Behind, Socket
<1>2. /\ h.engine = s.engine /\ h.subscribed = s.subscribed /\ h.shown = s.shown
      /\ h.stream = Put(q, n) /\ h.lost = s.lost \cup (Range(q) \ Range(Put(q, n)))
  BY DEF Heard, Socket
<1>3. \A k \in 1..Len(q) : q[k] = Behind(s, state) + k
  BY DEF Followed
<1>4. (s.shown + 1)..Behind(s, state) \subseteq s.lost
  BY DEF Followed
<1>5. Behind(h, state') = n - Len(Put(q, n))
  BY <1>1, <1>2 DEF Behind
<1>6. CASE /\ Len(Put(q, n)) = Len(q) + 1 /\ Put(q, n)[Len(q) + 1] = n
           /\ \A k \in 1..Len(q) : Put(q, n)[k] = q[k]
  <2>1. Behind(h, state') = Behind(s, state)
    BY <1>1, <1>5, <1>6
  <2>2. ASSUME NEW k \in 1..Len(Put(q, n)) PROVE Put(q, n)[k] = Behind(s, state) + k
    <3>1. k \in 1..Len(q) \/ k = Len(q) + 1
      BY <1>1, <1>6
    <3> QED
      BY <1>1, <1>3, <1>6, <3>1
  <2> QED
    BY <1>1, <1>2, <1>4, <2>1, <2>2 DEF Followed
<1>7. CASE /\ Len(q) >= 1 /\ Len(Put(q, n)) = Len(q) /\ Put(q, n)[Len(q)] = n
           /\ \A k \in 1..(Len(q) - 1) : Put(q, n)[k] = q[k + 1]
  <2>1. Behind(h, state') = Behind(s, state) + 1
    BY <1>1, <1>5, <1>7
  <2> HIDE DEF n, q, h
  <2>2. \A k \in 1..Len(q) : Put(q, n)[k] = (Behind(s, state) + 1) + k
    <3>1. Put(q, n) \in Seq(Nat) /\ Put(q, n)[Len(q)] = Behind(s, state) + Len(q) + 1
      BY <1>1, <1>7, PutKeeps
    <3> QED
      BY <1>1, <1>3, <1>7, <3>1, ShiftedOn
  <2>3. Behind(s, state) + 1 \in h.lost
    <3>1. q[1] = Behind(s, state) + 1 /\ q[1] \in Range(q)
      <4>1. 1 \in 1..Len(q) /\ DOMAIN q = 1..Len(q)
        BY <1>1, <1>7
      <4> QED
        BY <1>3, <4>1 DEF Range
    <3>2. Put(q, n) \in Seq(Nat)
      BY <1>1, PutKeeps
    <3>3. DOMAIN Put(q, n) = 1..Len(q)
      BY <1>7, <3>2
    <3>4. Behind(s, state) + 1 \notin Range(Put(q, n))
      <4>1. \A k \in 1..Len(q) : Behind(s, state) + 1 # (Behind(s, state) + 1) + k
        BY <1>1
      <4>2. \A k \in 1..Len(q) : Put(q, n)[k] # Behind(s, state) + 1
        BY <2>2, <4>1
      <4> QED
        BY <3>3, <4>2 DEF Range
    <3> QED
      BY <1>2, <3>1, <3>4
  <2>4. (s.shown + 1)..(Behind(s, state) + 1) \subseteq h.lost
    BY <1>1, <1>2, <1>4, <2>3
  <2>5. Followed(h, state', made')
    BY <1>1, <1>2, <1>7, <2>1, <2>2, <2>4 DEF Followed
  <2> QED
    BY <2>5 DEF h, n
<1> QED
  BY <1>1, <1>6, <1>7, PutKeeps

LEMMA WorkFeeds ==
  ASSUME TInv, FInv, NEW e \in Engine \cup {No}, Work(e)
  PROVE  FInv'
<1> DEFINE n == state[e].sequence + 1
<1>1. /\ e \in Engine /\ state' = [state EXCEPT ![e].sequence = n]
      /\ sockets' = [c \in Viewer |-> IF Hears(c, e) THEN Heard(sockets[c], n) ELSE sockets[c]]
      /\ UNCHANGED <<made, engine, session, clock, loading>>
  BY DEF Work
<1>2. /\ state \in [Engine -> EngineState] /\ sockets \in [Viewer -> Socket] /\ made \in Nat
  BY BoundAssumption DEF TInv, TypeOK
<1>3. /\ state'[e].sequence = n
      /\ \A d \in Engine \ {e} : state'[d] = state[d]
  BY <1>1, <1>2 DEF EngineState
<1>4. ASSUME NEW c \in Viewer PROVE Followed(sockets'[c], state', made')
  <2>1. Followed(sockets[c], state, made) /\ sockets[c] \in Socket
    BY <1>2 DEF FInv
  <2>2. CASE Hears(c, e)
    <3>1. sockets[c].subscribed /\ sockets[c].engine = e /\ sockets'[c] = Heard(sockets[c], n)
      BY <1>1, <2>2 DEF Hears
    <3>2. Followed(Heard(sockets[c], n), state', made')
      BY <1>1, <1>3, <2>1, <3>1, HeardFollows
    <3> QED
      BY <3>1, <3>2 DEF Followed, Behind
  <2>3. CASE ~Hears(c, e)
    <3>1. sockets'[c] = sockets[c]
      BY <1>1, <2>3
    <3>2. CASE sockets[c].subscribed
      <4>1. sockets[c].engine \in Engine \ {e}
        BY <2>1, <2>3, <3>2 DEF Hears, Followed, Socket
      <4>2. Behind(sockets'[c], state') = Behind(sockets[c], state)
        BY <1>3, <3>1, <4>1 DEF Behind
      <4> QED
        BY <1>1, <2>1, <3>1, <4>2 DEF Followed
    <3>3. CASE ~sockets[c].subscribed
      BY <1>1, <2>1, <3>1, <3>3 DEF Followed
    <3> QED
      BY <3>2, <3>3
  <2> QED
    BY <2>2, <2>3
<1> QED
  BY <1>1, <1>4 DEF FInv

\* What a WebSocket is told is the next event of its engine that was not lost.
LEMMA TellFollows ==
  ASSUME TInv, FInv, NEW c \in Viewer, Tell(c)
  PROVE  /\ FInv'
         /\ \A d \in Viewer \ {c} : sockets'[d] = sockets[d]
         /\ (sockets[c].shown + 1)..(sockets'[c].shown - 1) \subseteq sockets[c].lost
<1> DEFINE s == sockets[c]
           t == [s EXCEPT !.stream = Tail(s.stream), !.shown = Head(s.stream)]
           q == s.stream
<1>1. /\ s \in Socket /\ sockets \in [Viewer -> Socket] /\ q \in Seq(Nat) /\ q # <<>>
      /\ Followed(s, state, made) /\ s.subscribed /\ s.engine \in Engine /\ s.shown \in Nat
      /\ state[s.engine].sequence \in Nat /\ UNCHANGED <<state, made, engine, session, clock, loading>>
  <2>1. s \in Socket /\ sockets \in [Viewer -> Socket] /\ q \in Seq(Nat) /\ q # <<>> /\ Followed(s, state, made)
    BY DEF Tell, Socket, FInv, TInv, TypeOK
  <2>2. s.subscribed /\ s.engine \in Engine
    BY <2>1 DEF Followed, Socket
  <2> QED
    BY <2>1, <2>2 DEF Tell, host, Socket, TInv, TypeOK, EngineState
<1>2. sockets' = [sockets EXCEPT ![c] = t]
  BY <1>1 DEF Tell, Socket
<1>3. /\ t.engine = s.engine /\ t.subscribed = s.subscribed /\ t.lost = s.lost
      /\ t.stream = Tail(q) /\ t.shown = Head(q) /\ sockets'[c] = t
      /\ \A d \in Viewer \ {c} : sockets'[d] = sockets[d]
  BY <1>1, <1>2 DEF Socket
<1>4. /\ Head(q) = q[1] /\ Len(q) \in Nat \ {0} /\ Len(Tail(q)) = Len(q) - 1
      /\ \A k \in 1..(Len(q) - 1) : Tail(q)[k] = q[k + 1]
  BY <1>1, TailFacts
<1>5. /\ Behind(s, state) \in Int /\ Head(q) = Behind(s, state) + 1
      /\ Behind(t, state') = Behind(s, state) + 1
      /\ \A k \in 1..Len(q) : q[k] = Behind(s, state) + k
      /\ (s.shown + 1)..Behind(s, state) \subseteq s.lost
  BY <1>1, <1>3, <1>4 DEF Behind, Followed
<1>6. \A k \in 1..Len(t.stream) : t.stream[k] = Behind(t, state') + k
  <2>1. Tail(q) \in Seq(Nat)
    BY <1>1, TailFacts
  <2>2. \A k \in 1..(Len(q) - 1) : Tail(q)[k] = (Behind(s, state) + 1) + k
    BY <1>1, <1>4, <1>5, <2>1, Shifted
  <2> QED
    BY <1>3, <1>4, <1>5, <2>2
<1>7. (t.shown + 1)..Behind(t, state') = {}
  BY <1>3, <1>5
<1>8. Followed(t, state', made')
  BY <1>1, <1>3, <1>6, <1>7 DEF Followed
<1>9. ASSUME NEW d \in Viewer PROVE Followed(sockets'[d], state', made')
  <2>1. CASE d = c
    BY <1>3, <1>8, <2>1 DEF Followed, Behind
  <2>2. CASE d # c
    BY <1>1, <1>3, <2>2 DEF FInv, Followed, Behind
  <2> QED
    BY <2>1, <2>2
<1>10. FInv'
  BY <1>1, <1>9 DEF FInv
<1> QED
  BY <1>3, <1>5, <1>10

\* Opening, subscribing and closing: one WebSocket is replaced.
LEMMA SocketFollows ==
  ASSUME TInv, FInv, NEW c \in Viewer, Connect(c) \/ Subscribe(c) \/ Disconnect(c)
  PROVE  /\ FInv'
         /\ \A d \in Viewer : sockets'[d].engine # No /\ sockets[d].engine # No
              => sockets'[d].shown = sockets[d].shown
<1>1. /\ UNCHANGED <<state, made, engine, session, clock, loading>>
      /\ sockets \in [Viewer -> Socket] /\ made \in Nat
  BY BoundAssumption DEF Connect, Subscribe, Disconnect, host, TInv, TypeOK
<1>2. \A d \in Viewer \ {c} : sockets'[d] = sockets[d]
  BY <1>1 DEF Connect, Subscribe, Disconnect
<1>3. CASE Connect(c)
  <2>1. sockets'[c] = [NoSocket EXCEPT !.engine = engine, !.shown = state[engine].sequence]
    BY <1>1, <1>3 DEF Connect
  <2>2. /\ sockets'[c].engine = engine /\ ~sockets'[c].subscribed /\ sockets'[c].stream = <<>>
        /\ sockets[c].engine = No
    BY <1>3, <2>1 DEF Connect, NoSocket
  <2>3. Followed(sockets'[c], state', made')
    BY <1>1, <2>2 DEF FInv, Followed
  <2> QED
    BY <1>1, <1>2, <2>2, <2>3 DEF FInv, Followed, Behind
<1>4. CASE Subscribe(c)
  <2> DEFINE s == sockets[c]
             gap == (s.shown + 1)..state[s.engine].sequence
  <2>1. s \in Socket /\ s.engine # No /\ ~s.subscribed /\ Followed(s, state, made) /\ s.stream = <<>>
    BY <1>1, <1>4 DEF Subscribe, FInv, Followed
  <2>2. sockets'[c] = [s EXCEPT !.subscribed = TRUE, !.lost = gap]
    BY <1>1, <1>4, <2>1 DEF Subscribe, Socket
  <2>3. /\ sockets'[c].engine = s.engine /\ sockets'[c].subscribed /\ sockets'[c].stream = <<>>
        /\ sockets'[c].lost = gap /\ sockets'[c].shown = s.shown
    BY <2>1, <2>2 DEF Socket
  <2>4. Behind(sockets'[c], state') = state[s.engine].sequence
    <3>1. s.engine \in Engine
      BY <2>1 DEF Socket
    <3>2. state[s.engine].sequence \in Nat /\ Len(<<>>) = 0
      BY <3>1 DEF TInv, TypeOK, EngineState
    <3> QED
      BY <1>1, <2>3, <3>2 DEF Behind
  <2>5. Followed(sockets'[c], state', made')
    BY <1>1, <2>1, <2>3, <2>4 DEF Followed
  <2>6. FInv'
    <3>1. \A d \in Viewer \ {c} : Followed(sockets'[d], state', made')
      BY <1>1, <1>2 DEF FInv
    <3> QED
      BY <1>1, <2>5, <3>1 DEF FInv
  <2>7. \A d \in Viewer : sockets'[d].shown = sockets[d].shown
    BY <1>2, <2>3
  <2> QED
    BY <2>6, <2>7
<1>5. CASE Disconnect(c)
  <2>1. sockets'[c].engine = No /\ ~sockets'[c].subscribed /\ sockets'[c].stream = <<>>
    BY <1>1, <1>5 DEF Disconnect, NoSocket
  <2>2. Followed(sockets'[c], state', made')
    BY <2>1 DEF Followed
  <2> QED
    BY <1>1, <1>2, <2>1, <2>2 DEF FInv, Followed, Behind
<1> QED
  BY <1>3, <1>4, <1>5

\* Making and hosting engines leaves every WebSocket to its engine.
LEMMA HostFollows ==
  ASSUME TInv, FInv,
         CreateRow \/ CreateFinish \/ \E e \in Engine : LoadBegin(e) \/ LoadEnd(e)
  PROVE  FInv' /\ UNCHANGED sockets
<1>1. /\ sockets \in [Viewer -> Socket] /\ state \in [Engine -> EngineState] /\ made \in Nat
  BY BoundAssumption DEF TInv, TypeOK
<1>2. UNCHANGED sockets
  BY DEF CreateRow, CreateFinish, LoadBegin, LoadEnd
<1>3. /\ made' \in Nat /\ made <= made'
      /\ \A d \in 1..made : d \in Engine => state'[d].sequence = state[d].sequence
  <2>1. CASE CreateRow
    BY <1>1, <2>1 DEF CreateRow, MakeEngine
  <2>2. CASE CreateFinish
    BY <1>1, <2>2 DEF CreateFinish, EngineState
  <2>3. ASSUME NEW e \in Engine, LoadBegin(e) \/ LoadEnd(e)
        PROVE  /\ made' \in Nat /\ made <= made'
               /\ \A d \in 1..made : d \in Engine => state'[d].sequence = state[d].sequence
    <3>1. CASE LoadBegin(e)
      <4>1. e = made + 1 /\ made' = e /\ state' = [state EXCEPT ![e] = row]
        BY <3>1 DEF LoadBegin, MakeEngine
      <4>2. \A d \in 1..made : d \in Engine => state'[d] = state[d]
        BY <1>1, <4>1
      <4> QED
        BY <1>1, <4>1, <4>2
    <3>2. CASE LoadEnd(e)
      BY <1>1, <3>2 DEF LoadEnd
    <3> QED
      BY <2>3, <3>1, <3>2
  <2> QED
    BY <2>1, <2>2, <2>3
<1>4. {engine', clock', session'.engine} \cup loading' \subseteq 0..made'
  <2>1. CASE CreateRow
    <3>1. UNCHANGED <<engine, clock, session, loading>>
      BY <2>1 DEF CreateRow
    <3> QED
      BY <1>1, <1>3, <3>1 DEF FInv
  <2>2. CASE CreateFinish
    <3>1. 1 \in 0..made' /\ made' = made /\ loading' = loading
      BY <1>1, <2>2 DEF CreateFinish, TInv
    <3> QED
      BY <2>2, <3>1 DEF CreateFinish, Ensure, FInv
  <2>3. ASSUME NEW e \in Engine, LoadBegin(e)
        PROVE  {engine', clock', session'.engine} \cup loading' \subseteq 0..made'
    BY <1>1, <2>3 DEF LoadBegin, MakeEngine, FInv
  <2>4. ASSUME NEW e \in Engine, LoadEnd(e)
        PROVE  {engine', clock', session'.engine} \cup loading' \subseteq 0..made'
    BY <1>1, <2>4 DEF LoadEnd, Cache, Ensure, FInv
  <2> QED
    BY <2>1, <2>2, <2>3, <2>4
<1>5. ASSUME NEW c \in Viewer PROVE Followed(sockets'[c], state', made')
  <2> DEFINE s == sockets[c]
  <2>1. s \in Socket /\ Followed(s, state, made) /\ sockets'[c] = s
    BY <1>1, <1>2 DEF FInv
  <2>2. s.engine # No => s.engine \in Engine /\ s.engine \in 1..made
    BY <1>1, <2>1 DEF Followed, Socket
  <2>3. Followed(s, state', made')
    BY <1>1, <1>3, <2>1, <2>2, FollowedStill
  <2> QED
    BY <2>1, <2>3 DEF Followed, Behind
<1> QED
  BY <1>2, <1>4, <1>5 DEF FInv

LEMMA FeedKept ==
  ASSUME TInv, FInv, [Next]_vars
  PROVE  FInv'
<1> USE DEF store, resume, history
<1>1. {clock, engine, session.engine} \subseteq Engine \cup {No}
  BY DEF TInv, TypeOK
<1>2. CASE Restart
  <2>1. /\ engine' = No /\ session'.engine = No /\ clock' = No /\ loading' = {} /\ made' = made
        /\ made \in Nat
    BY <1>2, BoundAssumption DEF Restart, Nobody, TInv, TypeOK
  <2>2. \A c \in Viewer : sockets'[c] = NoSocket
    BY <1>2 DEF Restart
  <2>3. \A c \in Viewer : Followed(sockets'[c], state', made')
    BY <2>2 DEF NoSocket, Followed
  <2> QED
    BY <2>1, <2>3 DEF FInv
<1>3. ASSUME \/ ClockWorks \/ RouteWorks
             \/ \E c \in Client, a \in Actor : Command(c, a)
             \/ \E a \in Actor : RemoveActor(a) \/ \E u \in User : AddActor(a, u)
      PROVE  FInv'
  BY <1>1, <1>3, WorkFeeds DEF ClockWorks, RouteWorks, Command, RemoveActor, AddActor
<1>4. CASE UNCHANGED <<made, loading, engine, session, clock, state, sockets>>
  BY <1>4 DEF FInv, Followed, Behind
<1> QED
  BY <1>2, <1>3, <1>4, HostFollows, TellFollows, SocketFollows
  DEF Next, Join, Resume, Revoke, Checkpoint, ReadEvents, IssueTicket, RevokeRow, CheckpointRow,
      Reissue, vars, host

\* EventBus and the served WebSocket route: what a WebSocket does not tell happened
\* before its stream was open or was pushed out of it, for any queue size, viewers,
\* engines and restarts.
THEOREM ViewersSeeAll == Spec => ShowsEverything
<1> DEFINE Whole == \A c \in Viewer :
             sockets[c].engine # No /\ sockets'[c].engine # No
               => (sockets[c].shown + 1)..(sockets'[c].shown - 1) \subseteq sockets[c].lost
           Good == TInv /\ FInv
<1>1. Init => Good
  <2> SUFFICES ASSUME Init PROVE FInv
    BY TypesStart
  <2>1. engine = No /\ clock = No /\ session.engine = No /\ loading = {} /\ made = 0
    BY DEF Init, Nobody
  <2>2. \A c \in Viewer : Followed(sockets[c], state, made)
    BY DEF Init, NoSocket, Followed
  <2> QED
    BY <2>1, <2>2 DEF FInv
<1>2. Good /\ [Next]_vars => Good'
  BY TypesKept, FeedKept
<1>3. ASSUME Good, Next
      PROVE  Whole
  <2>1. \A c \in Viewer : sockets[c].shown \in Nat
    BY <1>3 DEF TInv, TypeOK, Socket
  <2>2. \A n \in Nat : (n + 1)..(n - 1) = {}
    OBVIOUS
  <2>3. (\A c \in Viewer : sockets'[c].engine # No /\ sockets[c].engine # No
            => sockets'[c].shown = sockets[c].shown) => Whole
    BY <2>1, <2>2
  <2>4. ASSUME NEW c \in Viewer, Tell(c) PROVE Whole
    <3>1. /\ \A d \in Viewer \ {c} : sockets'[d] = sockets[d]
          /\ (sockets[c].shown + 1)..(sockets'[c].shown - 1) \subseteq sockets[c].lost
      BY <1>3, <2>4, TellFollows
    <3> QED
      BY <2>1, <2>2, <3>1
  <2>5. ASSUME NEW c \in Viewer, Connect(c) \/ Subscribe(c) \/ Disconnect(c) PROVE Whole
    BY <1>3, <2>3, <2>5, SocketFollows
  <2>6. ASSUME NEW e \in Engine \cup {No}, Work(e) PROVE Whole
    <3>1. sockets \in [Viewer -> Socket]
      BY <1>3 DEF TInv, TypeOK
    <3>2. \A s \in Socket, n \in Nat : Heard(s, n).shown = s.shown
      BY DEF Heard, Socket
    <3>3. /\ state[e].sequence + 1 \in Nat
          /\ sockets' = [c \in Viewer |-> IF Hears(c, e) THEN Heard(sockets[c], state[e].sequence + 1)
                                         ELSE sockets[c]]
      BY <1>3, <2>6 DEF Work, TInv, TypeOK, EngineState
    <3>4. \A c \in Viewer : sockets'[c].shown = sockets[c].shown
      BY <3>1, <3>2, <3>3
    <3> QED
      BY <2>3, <3>4
  <2>7. CASE Restart
    <3>1. \A c \in Viewer : sockets'[c].engine = No
      BY <2>7 DEF Restart, NoSocket
    <3> QED
      BY <3>1
  <2>8. CASE UNCHANGED sockets
    BY <2>3, <2>8
  <2>9. {clock, engine, session.engine} \subseteq Engine \cup {No}
    BY <1>3 DEF TInv, TypeOK
  <2>10. ASSUME \/ ClockWorks \/ RouteWorks
                \/ \E c \in Client, a \in Actor : Command(c, a)
                \/ \E a \in Actor : RemoveActor(a) \/ \E u \in User : AddActor(a, u)
         PROVE  Whole
    BY <2>6, <2>9, <2>10 DEF ClockWorks, RouteWorks, Command, RemoveActor, AddActor
  <2> HIDE DEF Whole
  <2> QED
    BY <1>3, <2>4, <2>5, <2>7, <2>8, <2>10
    DEF Next, CreateRow, CreateFinish, LoadBegin, LoadEnd, Join, Resume, Revoke, Checkpoint,
        ReadEvents, IssueTicket, RevokeRow, CheckpointRow, Reissue
<1>4. Good /\ [Next]_vars => [Whole]_vars
  BY <1>3
<1> QED
  BY <1>1, <1>2, <1>4, PTL DEF Spec, ShowsEverything
=============================================================================
