---------------------------- MODULE CampaignProofs ----------------------------
(* Journal, ledger and event table, for any number of commands, deliveries, *)
(* effects and crashes.                                                     *)
EXTENDS Sourcing, Rules, FiniteSetTheorems, WellFoundedInduction, TLAPS

\* What is saved is part of what is live; an executed command has its effect;
\* a receipt, even before it is saved, stands for an effect in the row.
Durable ==
  /\ row.applied \subseteq applied
  /\ \A i \in Delivery : pc[i] \in {"executed", "saving"} => HasEffect(CommandOf[i], applied)
  /\ \A i \in Delivery : pc[i] = "recorded" => HasEffect(CommandOf[i], row.applied)
  /\ \A c \in ledger \cup row.ledger : HasEffect(c, row.applied)

\* A number past the current one can only be a crashed life's.
NumbersOld == \A f \in log : f.sequence <= sequence \/ f.sequence \in orphans

IInv ==
  TypeOK /\ Durable /\ AnsweredIsDurable /\ NumbersOld /\ LogTellsHistory

\* What Perform does, by the effect it adds.
Adds(e) ==
  /\ e \in Effect /\ e.sequence = sequence + 1
  /\ sequence' = sequence + 1
  /\ applied' = applied \cup {e}
  /\ log' = Logged(e)

LEMMA PerformFacts ==
  ASSUME TypeOK, NEW a \in Author, Perform(a)
  PROVE  \E e : Adds(e) /\ e.by = a
<1> DEFINE e == [by |-> a, life |-> life, sequence |-> sequence + 1]
<1>1. e \in Effect /\ e.by = a /\ e.sequence = sequence + 1
  BY DEF TypeOK, Effect
<1> QED
  BY <1>1 DEF Perform, Adds

LEMMA StateFacts ==
  /\ Unset \in State
  /\ TypeOK => Snapshot \in State /\ [applied |-> applied, synced |-> sequence] \in State
<1>1. Unset \in State
  BY DEF Unset, State
<1>2. TypeOK => Snapshot \in State /\ [applied |-> applied, synced |-> sequence] \in State
  BY DEF TypeOK, Snapshot, State
<1> QED
  BY <1>1, <1>2

LEMMA InitStep == Init => IInv
BY DeliveryAssumption, StateFacts
   DEF Init, IInv, TypeOK, Durable, AnsweredIsDurable, NumbersOld,
       LogTellsHistory, Progress

\* What a delivery or the tick keeps in order when it moves on.
Moved ==
  /\ lock' \in Delivery \cup {Nobody, World}
  /\ pc' \in [Delivery -> Progress]
  /\ before' \in [Delivery -> State]
  /\ UNCHANGED <<life, base, orphans>>

\* Some author's effect is added; of the deliveries, at most its own has executed.
Performing ==
  \E a \in Author :
    /\ Perform(a)
    /\ \A j \in Delivery : \/ pc'[j] = pc[j] \/ pc'[j] = "raised"
                           \/ pc'[j] = "executed" /\ a = CommandOf[j]

Unsaved == synced' = synced /\ row' = row /\ journal' = journal /\ ledger' = ledger

\* An effect adds to the live state; the row and the book stay as they are.
LEMMA EffectKeeps == IInv /\ Moved /\ Unsaved /\ Performing => IInv'
<1> SUFFICES ASSUME IInv, Moved, Unsaved, Performing PROVE IInv'
  OBVIOUS
<1>1. PICK a \in Author :
        /\ Perform(a)
        /\ \A j \in Delivery : \/ pc'[j] = pc[j] \/ pc'[j] = "raised"
                               \/ pc'[j] = "executed" /\ a = CommandOf[j]
  BY DEF Performing
<1>2. PICK e : Adds(e) /\ e.by = a
  BY <1>1, PerformFacts DEF IInv
<1>3. /\ sequence' = sequence + 1 /\ sequence \in Nat
      /\ e \in Effect /\ e.sequence = sequence + 1 /\ applied' = applied \cup {e}
      /\ log' = log \cup {e} \/ (log' = log /\ \E f \in log : f.sequence = e.sequence)
  BY <1>2 DEF Adds, Logged, IInv, TypeOK
<1>4. TypeOK'
  BY <1>3 DEF IInv, TypeOK, Moved, Unsaved
<1>5. \A c : HasEffect(c, applied) => HasEffect(c, applied')
  BY <1>3 DEF HasEffect
<1>6. HasEffect(a, applied')
  BY <1>2, <1>3 DEF HasEffect
<1>7. Durable' /\ AnsweredIsDurable'
  BY <1>1, <1>3, <1>5, <1>6 DEF IInv, Durable, AnsweredIsDurable, Unsaved
<1>8. NumbersOld'
  BY <1>3 DEF IInv, Moved, NumbersOld, TypeOK, Effect
<1>9. LogTellsHistory'
  BY <1>3 DEF IInv, Moved, LogTellsHistory, NumbersOld, TypeOK, Effect
<1> QED
  BY <1>4, <1>7, <1>8, <1>9 DEF IInv

\* Persisting makes the row the live state, which contains the old row.
LEMMA Persisted ==
  ASSUME IInv, Moved, PersistState, UNCHANGED <<applied, sequence, log>>,
         journal' \in Seq(Entry), ledger' \subseteq Command,
         \A c \in ledger' \ ledger : HasEffect(c, applied),
         \A j \in Delivery :
           \/ pc'[j] = pc[j] \/ pc'[j] = "raised"
           \/ pc'[j] = "recorded" /\ HasEffect(CommandOf[j], applied)
           \/ pc'[j] = "answered" /\ pc[j] = "recorded"
  PROVE  IInv'
<1>1. /\ row'.applied = applied /\ row'.ledger = ledger /\ synced' = sequence
      /\ row' \in [applied : SUBSET Effect, sequence : Nat, ledger : SUBSET Command]
  BY DEF PersistState, IInv, TypeOK
<1>2. TypeOK'
  BY <1>1 DEF IInv, TypeOK, Moved
<1>3. \A c : HasEffect(c, row.applied) => HasEffect(c, applied)
  BY DEF IInv, Durable, HasEffect
<1>4. Durable' /\ AnsweredIsDurable'
  BY <1>1, <1>3 DEF IInv, Durable, AnsweredIsDurable
<1>5. NumbersOld' /\ LogTellsHistory'
  BY DEF IInv, Moved, NumbersOld, LogTellsHistory
<1> QED
  BY <1>2, <1>4, <1>5 DEF IInv

LEMMA TickStep == ASSUME IInv, TickBegin \/ TickEnd PROVE IInv'
<1>1. Moved /\ UNCHANGED <<pc, journal, ledger>>
  BY DEF IInv, TypeOK, Moved, TickBegin, TickEnd, book
<1>2. CASE TickBegin
  <2>1. Unsaved /\ \A j \in Delivery : pc'[j] = pc[j]
    BY <1>1, <1>2 DEF TickBegin, Unsaved
  <2>2. World \in Author /\ Perform(World)
    BY <1>2 DEF TickBegin, Author
  <2>3. Performing
    BY <2>1, <2>2 DEF Performing
  <2> QED
    BY <1>1, <2>1, <2>3, EffectKeeps
<1>3. CASE TickEnd
  <2>1. journal' \in Seq(Entry) /\ ledger' \subseteq Command
    BY <1>1 DEF IInv, TypeOK, Moved
  <2> QED
    BY <1>1, <1>3, <2>1, Persisted DEF TickEnd, world
<1> QED
  BY <1>2, <1>3

LEMMA ExecuteStep ==
  ASSUME IInv, NEW i \in Delivery, Execute(i) \/ (Refuse(i) /\ Perform(World)) PROVE IInv'
<1>1. Unset \in State /\ CommandOf[i] \in Author /\ World \in Author
  BY StateFacts, DeliveryAssumption DEF Author
<1>2. Moved
  BY <1>1 DEF IInv, TypeOK, Moved, Execute, Refuse, Goto, book, Progress
<1>3. Unsaved
  BY DEF Execute, Refuse, book, Unsaved
<1>4. CASE Execute(i)
  <2>1. \A j \in Delivery :
          pc'[j] = pc[j] \/ (pc'[j] = "executed" /\ CommandOf[i] = CommandOf[j])
    BY <1>4 DEF Execute, Goto, IInv, TypeOK
  <2>2. Perform(CommandOf[i])
    BY <1>4 DEF Execute
  <2>3. Performing
    BY <1>1, <2>1, <2>2 DEF Performing
  <2> QED
    BY <1>2, <1>3, <2>3, EffectKeeps
<1>5. CASE Refuse(i) /\ Perform(World)
  <2>1. \A j \in Delivery : pc'[j] = pc[j] \/ pc'[j] = "raised"
    BY <1>5 DEF Refuse, Goto, IInv, TypeOK
  <2>2. Performing
    BY <1>1, <1>5, <2>1 DEF Performing
  <2> QED
    BY <1>2, <1>3, <2>2, EffectKeeps
<1> QED
  BY <1>4, <1>5

\* Steps that only move a delivery on.
Quiet(i) == Deliver(i) \/ (Refuse(i) /\ UNCHANGED world) \/ Retry(i) \/ Persist(i)

LEMMA QuietStep == ASSUME IInv, NEW i \in Delivery, Quiet(i) PROVE IInv'
<1>1. /\ UNCHANGED <<applied, sequence, log, row, journal, ledger>>
      /\ synced' \in {synced, sequence}
  BY DEF Quiet, Deliver, Refuse, Retry, Persist, world, book
<1>2. Unset \in State /\ Snapshot \in State
  BY StateFacts DEF IInv
<1>3. Moved
  BY <1>2 DEF IInv, TypeOK, Moved, Quiet, Deliver, Refuse, Retry, Persist, Goto, book, Progress
<1>4. TypeOK'
  BY <1>1, <1>3 DEF IInv, TypeOK, Moved
<1>5. \A j \in Delivery : \/ pc'[j] = pc[j] \/ pc'[j] \in {"new", "waiting", "raised"}
                          \/ pc'[j] = "answered" /\ CommandOf[j] \in ledger
                          \/ pc'[j] = "saving" /\ pc[j] = "executed"
  BY DEF IInv, TypeOK, Quiet, Deliver, Refuse, Retry, Persist, Goto
<1>6. Durable' /\ AnsweredIsDurable'
  BY <1>1, <1>5 DEF IInv, Durable, AnsweredIsDurable
<1>7. NumbersOld' /\ LogTellsHistory'
  BY <1>1, <1>3 DEF IInv, Moved, NumbersOld, LogTellsHistory
<1> QED
  BY <1>4, <1>6, <1>7 DEF IInv

LEMMA ReturnStep == ASSUME IInv, NEW i \in Delivery, Return(i) PROVE IInv'
<1>1. Unset \in State /\ Snapshot \in State /\ before[i] \in State /\ CommandOf[i] \in Command
  BY StateFacts, DeliveryAssumption DEF IInv, TypeOK
<1>2. EntryOf(i) \in Entry
  BY <1>1 DEF EntryOf, Entry
<1>3. Moved
  BY <1>1 DEF IInv, TypeOK, Moved, Return, Goto, world, Progress
<1>4. journal' \in Seq(Entry)
  BY <1>2 DEF Return, IInv, TypeOK
<1>5. HasEffect(CommandOf[i], applied)
  BY DEF IInv, Durable, Return
<1>6. ledger' \subseteq Command /\ \A c \in ledger' \ ledger : HasEffect(c, applied)
  BY <1>1, <1>5 DEF IInv, TypeOK, Return
<1>7. \A j \in Delivery : \/ pc'[j] = pc[j] \/ pc'[j] = "raised"
                          \/ pc'[j] = "recorded" /\ HasEffect(CommandOf[j], applied)
  BY <1>5 DEF IInv, TypeOK, Return, Goto
<1> QED
  BY <1>3, <1>4, <1>6, <1>7, Persisted DEF Return, world

LEMMA AnswerStep == ASSUME IInv, NEW i \in Delivery, Answer(i) PROVE IInv'
<1>1. Moved /\ UNCHANGED <<journal, ledger>>
  BY DEF IInv, TypeOK, Moved, Answer, Goto, world, book, Progress
<1>2. journal' \in Seq(Entry) /\ ledger' \subseteq Command
  BY <1>1 DEF IInv, TypeOK, Moved
<1>3. \A j \in Delivery : pc'[j] = pc[j] \/ (pc'[j] = "answered" /\ pc[j] = "recorded")
  BY DEF IInv, TypeOK, Answer, Goto
<1> QED
  BY <1>1, <1>2, <1>3, Persisted DEF Answer, world

LEMMA RestartStep == ASSUME IInv, Restart PROVE IInv'
<1>1. TypeOK'
  <2>1. TypeOK /\ row.applied \subseteq Effect /\ row.sequence \in Nat /\ row.ledger \subseteq Command
    BY DEF IInv, TypeOK
  <2>2. Unset \in State /\ [applied |-> row.applied, synced |-> row.sequence] \in State
    BY <2>1, StateFacts DEF State
  <2>3. {e.sequence : e \in {f \in log : f.sequence > row.sequence}} \subseteq Nat
    BY <2>1 DEF TypeOK, Effect
  <2>4. journal' \in Seq(Entry) /\ pc' \in [Delivery -> Progress]
    BY <2>1 DEF Restart, TypeOK, Progress
  <2>5. before' \in [Delivery -> State] /\ base' \in State
    BY <2>2 DEF Restart, LoadedState
  <2>6. orphans' \subseteq Nat
    BY <2>1, <2>3 DEF TypeOK, Restart
  <2>7. /\ life' \in Nat /\ sequence' \in Nat /\ synced' \in Nat
        /\ applied' \subseteq Effect /\ log' = log /\ ledger' \subseteq Command
        /\ row' = row /\ lock' = Nobody
    BY <2>1 DEF TypeOK, Restart, LoadedSequence
  <2> QED
    BY <2>1, <2>4, <2>5, <2>6, <2>7 DEF TypeOK
<1>2. Durable' /\ AnsweredIsDurable'
  BY DEF IInv, TypeOK, Restart, Durable, AnsweredIsDurable
<1>3. NumbersOld'
  BY DEF IInv, TypeOK, Restart, LoadedSequence, NumbersOld, Effect
<1>4. LogTellsHistory'
  BY DEF IInv, Restart, Durable, LogTellsHistory
<1> QED
  BY <1>1, <1>2, <1>3, <1>4 DEF IInv

LEMMA NextStep == IInv /\ [Next]_vars => IInv'
<1> SUFFICES ASSUME IInv, [Next]_vars PROVE IInv'
  OBVIOUS
<1>1. CASE UNCHANGED vars
  BY <1>1 DEF vars, IInv, TypeOK, Durable, AnsweredIsDurable, NumbersOld,
              LogTellsHistory
<1> QED
  BY <1>1, TickStep, ExecuteStep, QuietStep, ReturnStep, AnswerStep, RestartStep
     DEF Next, Refuse, Quiet

LEMMA Inductive == Spec => []IInv
BY InitStep, NextStep, PTL DEF Spec

\* Every reachable state is well typed.
THEOREM TypeCorrect == Spec => []TypeOK
BY Inductive, PTL DEF IInv

\* EventSourcedEngine.dispatch: receipts, live or saved, stand for effects of the
\* state they are stored with, so that no crash undoes what a receipt reports.
THEOREM ReceiptsHold == Spec => []LedgerTruthful
<1>1. IInv => LedgerTruthful
  BY DEF IInv, Durable, LedgerTruthful, HasEffect
<1> QED
  BY <1>1, Inductive, PTL

\* Whoever was answered finds its effect in the saved row, whatever crashed since.
THEOREM AnswersAreDurable == Spec => []AnsweredIsDurable
BY Inductive, PTL DEF IInv

\* The event table differs from the state's history only at orphaned numbers.
THEOREM LogIsHistory == Spec => []LogTellsHistory
BY Inductive, PTL DEF IInv
----------------------------------------------------------------------------
(* The rules runtime: what a rule graph may change                          *)

Window == [actor : Actors, expires : Int, resolved : BOOLEAN, choice : {NoOne, "act"}]
Stack  == [effect : Effects, stacks : Nat, expires : Int]

\* A window nobody has decided has no answer.
Undecided(w) == ~w.resolved => w.choice = NoOne

\* Whatever is registered is a definition, and whatever is active is registered.
Registry(defs)      == \A e \in Effects : defs[e] = NoOne \/ EffectDefinition(defs[e])
Stacked(defs, held) ==
  /\ Registry(defs)
  /\ held \in [Actors -> Seq(Stack)]
  /\ \A t \in Actors : \A i \in DOMAIN held[t] : defs[held[t][i].effect] # NoOne

RuntimeTypes ==
  /\ now \in Nat
  /\ spent \in [Actors -> Nat]
  /\ windows \in Seq(Window) /\ \A w \in DOMAIN windows : Undecided(windows[w])
  /\ Stacked(known, active)

\* Where a rule has got to: the windows there were, and behind them new ones
\* that nobody has decided.
Opened(ws) ==
  /\ ws \in Seq(Window)
  /\ \A w \in DOMAIN windows : w \in DOMAIN ws /\ ws[w] = windows[w]
  /\ \A w \in DOMAIN ws \ DOMAIN windows : ~ws[w].resolved /\ ws[w].choice = NoOne

Within(x) ==
  /\ DOMAIN x = DOMAIN Present
  /\ Opened(x.windows)
  /\ Stacked(x.known, x.active)

Under(run, graph) ==
  /\ {"x", "at", "fails", "vars"} \subseteq DOMAIN run
  /\ Within(run.x)
  /\ run.at \in DOMAIN graph.nodes \cup {NoOne}

\* Two states with the same effects and windows.
Alike(x, y) ==
  /\ DOMAIN y = DOMAIN x
  /\ y.known = x.known /\ y.active = x.active /\ y.windows = x.windows

LEMMA AlikeWithin ==
  ASSUME NEW x, NEW y, Within(x), Alike(x, y)
  PROVE  Within(y)
BY DEF Within, Alike

LEMMA FieldsOf ==
  ASSUME NEW x, DOMAIN x = DOMAIN Present
  PROVE  {"hp", "temp", "pool", "flag", "known", "active", "windows"} \subseteq DOMAIN x
BY DEF Present

LEMMA HurtAlike ==
  ASSUME NEW x, DOMAIN x = DOMAIN Present, NEW t, NEW n
  PROVE  Alike(x, Hurt(x, t, n))
BY FieldsOf DEF Alike, Hurt

LEMMA HealAlike ==
  ASSUME NEW x, DOMAIN x = DOMAIN Present, NEW t, NEW n
  PROVE  Alike(x, Heal(x, t, n))
BY FieldsOf DEF Alike, Heal

LEMMA ResourceAlike ==
  ASSUME NEW x, DOMAIN x = DOMAIN Present, NEW t, NEW ref, NEW n, NEW restore \in BOOLEAN
  PROVE  Alike(x, ResourceChange(x, t, ref, n, restore))
<1>1. CASE ref = "hp" /\ restore
  BY <1>1, HealAlike DEF ResourceChange
<1>2. CASE ref = "hp" /\ ~restore
  BY <1>2, HurtAlike DEF ResourceChange
<1>3. CASE ref # "hp"
  <2> PICK v : v = IF restore THEN Lower(MaxPool, x.pool[t] + n) ELSE x.pool[t] - n
    OBVIOUS
  <2>1. ResourceChange(x, t, ref, n, restore) = [x EXCEPT !.pool[t] = v]
    BY <1>3 DEF ResourceChange
  <2> QED
    BY <2>1, FieldsOf DEF Alike
<1> QED
  BY <1>1, <1>2, <1>3

LEMMA FlagAlike ==
  ASSUME NEW x, DOMAIN x = DOMAIN Present, NEW p, NEW v
  PROVE  Alike(x, [x EXCEPT !.flag[p] = v])
BY FieldsOf DEF Alike

LEMMA OpensWithin ==
  ASSUME RuntimeTypes, NEW x, Within(x), NEW a \in Actors, NEW timeout \in 0..MaxTimeout
  PROVE  Within(OpenReaction(x, a, timeout))
<1> DEFINE w == [actor |-> a, expires |-> IF timeout = 0 THEN Never ELSE now + timeout,
                 resolved |-> FALSE, choice |-> NoOne]
           y == OpenReaction(x, a, timeout)
<1>1. w \in Window /\ ~w.resolved /\ w.choice = NoOne
  BY DEF RuntimeTypes, Window, MaxTimeout, Never
<1>2. /\ DOMAIN y = DOMAIN x /\ y.known = x.known /\ y.active = x.active
      /\ y.windows = Append(x.windows, w)
  BY FieldsOf DEF Within, OpenReaction
<1> HIDE DEF w, y
<1>3. x.windows \in Seq(Window) /\ y.windows \in Seq(Window)
  BY <1>1, <1>2 DEF Within, Opened
<1>4. /\ DOMAIN y.windows = DOMAIN x.windows \cup {Len(x.windows) + 1}
      /\ y.windows[Len(x.windows) + 1] = w
      /\ \A i \in DOMAIN x.windows : y.windows[i] = x.windows[i]
  BY <1>1, <1>2, <1>3
<1>5. Opened(y.windows)
  BY <1>1, <1>3, <1>4 DEF Within, Opened
<1> QED
  BY <1>2, <1>5 DEF Within, y

LEMMA LeastOf ==
  ASSUME NEW S \in SUBSET Nat, S # {}
  PROVE  \E x \in S : \A y \in S : x <= y
<1> DEFINE Lesser(x) == {y \in S : y < x}
           T == {Lesser(x) : x \in S}
<1>1. IsWellFoundedOn(StrictSubsetOrdering(S), FiniteSubsetsOf(S))
  BY FS_StrictSubsetOrderingWellFounded
<1>2. T \subseteq FiniteSubsetsOf(S) /\ T # {}
  <2>1. ASSUME NEW x \in S PROVE IsFiniteSet(Lesser(x))
    <3>1. \A y \in Lesser(x) : y \in 0..x
      OBVIOUS
    <3>2. IsFiniteSet(0..x)
      BY FS_Interval
    <3> QED
      BY <3>1, <3>2, FS_Subset
  <2> QED
    BY <2>1 DEF FiniteSubsetsOf
<1> HIDE DEF T
<1>3. PICK A \in T : \A B \in T : ~ (<<B, A>> \in StrictSubsetOrdering(S))
  BY <1>1, <1>2, WFMin
<1> USE DEF T
<1>4. PICK x \in S : A = Lesser(x)
  BY <1>3
<1>5. ASSUME NEW y \in S, y < x PROVE FALSE
  <2>1. \A z \in S : z < y => z < x
    BY <1>5
  <2>2. y \in Lesser(x) /\ y \notin Lesser(y)
    BY <1>5
  <2>3. <<Lesser(y), Lesser(x)>> \in StrictSubsetOrdering(S)
    BY <2>1, <2>2 DEF StrictSubsetOrdering
  <2> QED
    BY <1>3, <1>4, <2>3
<1> QED
  BY <1>5

LEMMA ApplyWithin ==
  ASSUME RuntimeTypes, NEW x, Within(x), NEW e \in Effects, x.known[e] # NoOne,
         NEW t \in Actors, NEW n \in Int
  PROVE  Within(ApplyEffect(x, e, t, n))
<1> DEFINE d == x.known[e]
           same == SameKey(x, t, e)
           y == ApplyEffect(x, e, t, n)
           held == x.active[t]
<1>1. d.max \in Nat /\ d.max # 0 /\ d.lasts \in Nat
  BY DEF Within, Stacked, Registry, EffectDefinition
<1>2. x.active \in [Actors -> Seq(Stack)] /\ held \in Seq(Stack)
      /\ \A i \in DOMAIN held : x.known[held[i].effect] # NoOne
  BY DEF Within, Stacked
<1>3. Upper(1, n) \in Nat /\ \A k \in Nat : Lower(d.max, k) \in Nat
  BY <1>1 DEF Lower, Upper
<1>4. \A old \in Int : Until(d, old) \in Int
  BY <1>1 DEF Until, RuntimeTypes
<1> HIDE DEF d
<1>5. ASSUME NEW s \in Seq(Stack), \A i \in DOMAIN s : x.known[s[i].effect] # NoOne,
             y = [x EXCEPT !.active[t] = s]
      PROVE  Within(y)
  <2>1. /\ DOMAIN y = DOMAIN x /\ y.known = x.known /\ y.windows = x.windows
        /\ y.active = [x.active EXCEPT ![t] = s]
    BY <1>5, FieldsOf DEF Within
  <2>2. y.active \in [Actors -> Seq(Stack)]
    BY <1>2, <1>5, <2>1
  <2>3. \A b \in Actors : y.active[b] = IF b = t THEN s ELSE x.active[b]
    BY <1>2, <2>1
  <2>4. \A b \in Actors : \A i \in DOMAIN y.active[b] : y.known[y.active[b][i].effect] # NoOne
    BY <1>5, <2>1, <2>3 DEF Within, Stacked
  <2>5. Stacked(y.known, y.active)
    BY <2>1, <2>2, <2>4 DEF Within, Stacked
  <2> QED
    BY <2>1, <2>5 DEF Within
<1>6. CASE same = {}
  <2> DEFINE new == Instance(d, e, n)
             s == Append(held, new)
  <2>1. new \in Stack /\ new.effect = e
    <3>1. Upper(1, n) \in Int /\ Lower(d.max, Upper(1, n)) \in Nat /\ Until(d, Never) \in Int
      BY <1>3, <1>4 DEF Never
    <3> QED
      BY <3>1 DEF Stack, Instance
  <2> HIDE DEF new
  <2>2. s \in Seq(Stack) /\ \A i \in DOMAIN s : (i \in DOMAIN held /\ s[i] = held[i]) \/ s[i] = new
    BY <1>2, <2>1
  <2>3. \A i \in DOMAIN s : x.known[s[i].effect] # NoOne
    BY <1>2, <2>1, <2>2
  <2>4. y = [x EXCEPT !.active[t] = s]
    BY <1>6 DEF ApplyEffect, d, new
  <2> QED
    BY <1>5, <2>2, <2>3, <2>4
<1>7. CASE same # {}
  <2>1. same \in SUBSET Nat /\ same \subseteq DOMAIN held
    BY <1>2 DEF SameKey
  <2>2. PICK i \in DOMAIN held : i = Min(same)
    <3>1. \E j \in same : \A k \in same : j <= k
      <4> HIDE DEF same
      <4> QED
        BY <1>7, <2>1, LeastOf
    <3>2. Min(same) \in same
      BY <3>1, Zenon DEF Min
    <3> QED
      BY <2>1, <3>2
  <2>3. held[i] \in Stack
    BY <1>2
  <2> DEFINE more == Lower(d.max, held[i].stacks + Upper(1, n))
             till == Until(d, held[i].expires)
             item == [held[i] EXCEPT !.stacks = more, !.expires = till]
             s == [held EXCEPT ![i] = item]
  <2>4. more \in Nat /\ till \in Int
    BY <1>3, <1>4, <2>3 DEF Stack
  <2>5. y = [x EXCEPT !.active[t][i].stacks = more, !.active[t][i].expires = till]
    BY <1>7, <2>2 DEF ApplyEffect, d
  <2> HIDE DEF more, till
  <2>6. item \in Stack /\ item.effect = held[i].effect
    BY <2>3, <2>4 DEF Stack
  <2>7. y = [x EXCEPT !.active[t] = s]
    <3> DEFINE first == [held[i] EXCEPT !.stacks = more]
               z == [x EXCEPT !.active[t] = [held EXCEPT ![i] = first]]
    <3>1. y = [z EXCEPT !.active[t][i].expires = till]
      BY <2>5
    <3>2. z.active = [x.active EXCEPT ![t] = [held EXCEPT ![i] = first]]
      BY FieldsOf DEF Within
    <3>3. z.active[t][i] = first
      BY <1>2, <3>2
    <3>4. item = [first EXCEPT !.expires = till]
      BY <2>3 DEF Stack
    <3>5. z.active[t] = [held EXCEPT ![i] = first]
      BY <1>2, <3>2
    <3> HIDE DEF first, item
    <3>6. [z.active[t] EXCEPT ![i] = item] = s
      BY <1>2, <3>5
    <3>7. y = [z EXCEPT !.active[t][i] = item]
      BY <3>1, <3>3, <3>4
    <3>8. y = [z EXCEPT !.active[t] = s]
      BY <3>6, <3>7
    <3> HIDE DEF s
    <3> QED
      BY <3>8, FieldsOf DEF Within
  <2> HIDE DEF item
  <2>8. s \in Seq(Stack) /\ DOMAIN s = DOMAIN held /\ \A j \in DOMAIN s : s[j] = IF j = i THEN item ELSE held[j]
    BY <1>2, <2>6
  <2>9. \A j \in DOMAIN s : x.known[s[j].effect] # NoOne
    BY <1>2, <2>6, <2>8
  <2> QED
    BY <1>5, <2>7, <2>8, <2>9
<1> QED
  BY <1>6, <1>7
\* What the compiler has checked of a rule that may be executed.
Checked(graph) ==
  /\ LinksHold(graph)
  /\ \A n \in DOMAIN graph.nodes :
        /\ ValidNode(graph.nodes[n])
        /\ graph.nodes[n].effect \in Effects \cup {NoOne}
        /\ graph.nodes[n].op = "apply" => graph.nodes[n].amount \in Int
  /\ \A e \in DOMAIN graph.effects : EffectDefinition(graph.effects[e])

LEMMA BookIsChecked ==
  ASSUME NEW g \in Book
  PROVE  Checked(Code[g])
<1>1. PICK i \in DOMAIN Pack : g = Pack[i] /\ \A k \in 1..i : Compiled(Code[Pack[k]])
  BY DEF Book
<1>2. i \in 1..i
  BY <1>1, CodeAssumption
<1>3. Compiled(Code[g])
  BY <1>1, <1>2
<1> QED
  BY <1>1, <1>3, CodeAssumption DEF Checked, Compiled

LEMMA ResultWithin ==
  ASSUME RuntimeTypes, NEW run, Within(run.x), NEW graph, Checked(graph),
         NEW n \in DOMAIN graph.nodes,
         NEW a \in Actors, NEW t \in Actors \cup {NoOne}, NEW dice,
         ~Raises(run, graph.nodes[n], a, t)
  PROVE  Within(Result(run, graph.nodes[n], a, t, dice)[1])
<1> DEFINE node == graph.nodes[n]
           s == Subject(node, a, t)
           y == Result(run, node, a, t, dice)[1]
<1>0. DOMAIN run.x = DOMAIN Present
  BY DEF Within
<1>1. CASE node.op = "roll"
  <2>1. y = run.x
    BY <1>1 DEF Result
  <2> QED
    BY <2>1
<1>2. CASE node.op = "damage"
  <2> DEFINE by == AfterTraits(run.x, s, node.amount)
  <2>1. y = Hurt(run.x, s, by)
    BY <1>2 DEF Result
  <2> HIDE DEF by
  <2> QED
    BY <1>0, <2>1, HurtAlike, AlikeWithin
<1>3. CASE node.op = "heal"
  <2>1. y = Heal(run.x, s, node.amount)
    BY <1>3 DEF Result
  <2> QED
    BY <1>0, <2>1, HealAlike, AlikeWithin
<1>4. CASE node.op = "set"
  <2> PICK p : p = Place(node.ref, a, t)
    OBVIOUS
  <2> PICK v : v = node.amount
    OBVIOUS
  <2>1. y = [run.x EXCEPT !.flag[p] = v]
    BY <1>4 DEF Result
  <2>2. Alike(run.x, y)
    <3> HIDE DEF y
    <3> QED
      BY <1>0, <2>1, FlagAlike
  <2> HIDE DEF y
  <2>3. Within(y)
    BY <2>2, AlikeWithin
  <2> QED
    BY <2>3 DEF y
<1>5. CASE node.op = "inc"
  <2> PICK p : p = Place(node.ref, a, t)
    OBVIOUS
  <2> PICK v : v = Numeric(run.x.flag[p]) + node.amount
    OBVIOUS
  <2>1. y = [run.x EXCEPT !.flag[p] = v]
    BY <1>5 DEF Result
  <2>2. Alike(run.x, y)
    <3> HIDE DEF y
    <3> QED
      BY <1>0, <2>1, FlagAlike
  <2> HIDE DEF y
  <2>3. Within(y)
    BY <2>2, AlikeWithin
  <2> QED
    BY <2>3 DEF y
<1>6. CASE node.op \in {"consume", "restore"}
  <2>1. y = ResourceChange(run.x, s, node.ref, node.amount, node.op = "restore")
    BY <1>6 DEF Result
  <2>2. (node.op = "restore") \in BOOLEAN
    OBVIOUS
  <2>3. Alike(run.x, y)
    <3> HIDE DEF y, s
    <3> PICK restore \in BOOLEAN : restore = (node.op = "restore")
      BY <2>2
    <3> QED
      BY <1>0, <2>1, ResourceAlike
  <2> HIDE DEF y
  <2>4. Within(y)
    BY <2>3, AlikeWithin
  <2> QED
    BY <2>4 DEF y
<1>7. CASE node.op = "apply"
  <2>1. y = ApplyEffect(run.x, node.effect, s, node.amount)
    BY <1>7 DEF Result
  <2>2. ValidNode(node) /\ node.effect \in Effects \cup {NoOne} /\ node.amount \in Int
    BY <1>7 DEF Checked
  <2>3. node.effect \in Effects
    BY <1>7, <2>2 DEF ValidNode
  <2>4. s \in Actors /\ run.x.known[node.effect] # NoOne
    BY <1>7 DEF Raises, Subject
  <2> QED
    BY <2>1, <2>2, <2>3, <2>4, ApplyWithin
<1>8. CASE node.op = "open"
  <2>1. y = OpenReaction(run.x, s, node.amount)
    BY <1>8 DEF Result
  <2>2. ValidNode(node)
    BY DEF Checked
  <2>3. node.amount \in 0..MaxTimeout
    BY <1>8, <2>2 DEF ValidNode
  <2>4. s \in Actors
    BY <1>8 DEF Raises, Subject
  <2> QED
    BY <2>1, <2>3, <2>4, OpensWithin
<1>9. CASE node.op = "if"
  <2>1. y = run.x
    BY <1>9 DEF Result
  <2> QED
    BY <2>1
<1>10. CASE node.op \notin {"roll", "damage", "heal", "set", "inc", "consume", "restore", "apply", "open", "if"}
  <2>1. y = run.x
    BY <1>10 DEF Result
  <2> QED
    BY <2>1
<1> QED
  BY <1>1, <1>2, <1>3, <1>4, <1>5, <1>6, <1>7, <1>8, <1>9, <1>10

LEMMA WalkUnder ==
  ASSUME RuntimeTypes, NEW g, Checked(Code[g]), NEW run, Under(run, Code[g]),
         NEW a \in Actors, NEW t \in Actors \cup {NoOne}, NEW dice
  PROVE  Under(Walk(g, run, a, t, dice), Code[g])
<1> DEFINE graph == Code[g]
           node == graph.nodes[run.at]
           next == Walk(g, run, a, t, dice)
<1>1. CASE run.at = NoOne \/ run.fails
  BY <1>1 DEF Walk
<1>2. CASE ~(run.at = NoOne \/ run.fails) /\ Raises(run, node, a, t)
  <2>1. next = [run EXCEPT !.fails = TRUE]
    BY <1>2 DEF Walk
  <2>2. next.x = run.x /\ next.at = run.at /\ DOMAIN next = DOMAIN run
    BY <2>1 DEF Under
  <2> QED
    BY <2>2 DEF Under
<1>3. CASE ~(run.at = NoOne \/ run.fails) /\ ~Raises(run, node, a, t)
  <2> PICK r : r = Result(run, node, a, t, dice)
    OBVIOUS
  <2>1. next = [x |-> r[1], vars |-> r[2], at |-> Branch(node, r[3]), fails |-> FALSE]
    BY <1>3 DEF Walk
  <2>2. run.at \in DOMAIN graph.nodes
    BY <1>3 DEF Under
  <2>3. Within(r[1])
    BY <1>3, <2>2, ResultWithin DEF Under
  <2>4. {node.next, node.yes, node.no} \subseteq DOMAIN graph.nodes \cup {NoOne}
    BY <2>2 DEF Checked, LinksHold
  <2>5. Branch(node, r[3]) \in DOMAIN graph.nodes \cup {NoOne}
    <3> HIDE DEF node
    <3> QED
      BY <2>4 DEF Branch
  <2> QED
    BY <2>1, <2>3, <2>5 DEF Under
<1> QED
  BY <1>1, <1>2, <1>3

\* The loop of the executor, by the number of its steps.
LEMMA RunWithin ==
  ASSUME RuntimeTypes, NEW g \in Book, NEW a \in Actors, NEW t \in Actors \cup {NoOne}, NEW dice
  PROVE  Within(Run(g, a, t, dice))
<1> DEFINE graph == Code[g]
           first == [x |-> [Present EXCEPT !.known = Registered(g)], at |-> graph.entry,
                     fails |-> FALSE, vars |-> NoOne]
           Step(s) == Walk(g, s, a, t, dice)
           Loop(f, k) == f = [n \in 0..k |-> IF n = 0 THEN first ELSE Step(f[n - 1])]
           run == CHOOSE f : Loop(f, MaxSteps)
<1>0. Checked(graph) /\ MaxSteps \in Nat
  BY BookIsChecked, RuntimeAssumption
<1>1. Under(first, graph)
  <2> DEFINE x == [Present EXCEPT !.known = Registered(g)]
  <2>1. DOMAIN x = DOMAIN Present /\ x.known = Registered(g) /\ x.active = active /\ x.windows = windows
    BY DEF Present
  <2>2. \A e \in Effects : /\ Registered(g)[e] = NoOne \/ EffectDefinition(Registered(g)[e])
                           /\ known[e] # NoOne => Registered(g)[e] # NoOne
    BY <1>0 DEF Registered, Checked, RuntimeTypes, Stacked, Registry, EffectDefinition
  <2>3. Stacked(x.known, x.active)
    <3>1. active \in [Actors -> Seq(Stack)] /\ \A b \in Actors : \A i \in DOMAIN active[b] : known[active[b][i].effect] # NoOne
      BY DEF RuntimeTypes, Stacked
    <3>2. ASSUME NEW b \in Actors, NEW i \in DOMAIN active[b] PROVE active[b][i].effect \in Effects
      <4>1. active[b] \in Seq(Stack)
        BY <3>1
      <4>2. active[b][i] \in Stack
        BY <4>1
      <4> QED
        BY <4>2 DEF Stack
    <3> QED
      BY <2>1, <2>2, <3>1, <3>2 DEF Stacked, Registry
  <2>4. Opened(x.windows)
    BY <2>1 DEF Opened, RuntimeTypes
  <2>5. Within(x)
    BY <2>1, <2>3, <2>4 DEF Within
  <2> HIDE DEF x
  <2>6. first.x = x /\ first.at = graph.entry /\ {"x", "at", "fails", "vars"} \subseteq DOMAIN first
    BY DEF x
  <2> QED
    BY <1>0, <2>5, <2>6 DEF Under, Checked, LinksHold
<1>2. ASSUME NEW s, Under(s, graph) PROVE Under(Step(s), graph)
  BY <1>0, <1>2, WalkUnder
<1>3. Run(g, a, t, dice) = run[MaxSteps].x
  BY DEF Run
<1> HIDE DEF first, Step
<1>4. \E f : Loop(f, MaxSteps)
  <2> DEFINE Without == {k \in Nat : ~\E f : Loop(f, k)}
  <2>1. ASSUME MaxSteps \in Without PROVE FALSE
    <3>1. PICK k \in Without : \A j \in Without : k <= j
      BY <2>1, LeastOf
    <3>2. CASE k = 0
      <4>1. Loop([n \in 0..0 |-> first], 0)
        OBVIOUS
      <4> QED
        BY <3>1, <3>2, <4>1
    <3>3. CASE k # 0
      <4>0. k - 1 \in Nat /\ k - 1 \notin Without
        <5>1. k \in Nat
          OBVIOUS
        <5> HIDE DEF Without
        <5> QED
          BY <3>1, <3>3, <5>1
      <4>1. PICK f : Loop(f, k - 1)
        BY <4>0
      <4> DEFINE h == [n \in 0..k |-> IF n = 0 THEN first ELSE Step(f[n - 1])]
      <4>2. \A n \in 0..(k - 1) : h[n] = f[n]
        BY <3>1, <4>1
      <4>3. \A n \in 0..k : n # 0 => n - 1 \in 0..(k - 1)
        BY <3>1
      <4>4. Loop(h, k)
        BY <4>2, <4>3
      <4> QED
        BY <3>1, <4>4
    <3> QED
      BY <3>2, <3>3
  <2> QED
    BY <1>0, <2>1
<1>5. Loop(run, MaxSteps)
  BY <1>4, Zenon
<1> HIDE DEF run
<1>6. Under(run[MaxSteps], graph)
  <2> DEFINE Astray == {k \in 0..MaxSteps : ~Under(run[k], graph)}
  <2>1. ASSUME Astray # {} PROVE FALSE
    <3>0. Astray \in SUBSET Nat
      <4>1. \A k \in 0..MaxSteps : k \in Nat
        BY <1>0
      <4> QED
        BY <4>1
    <3> HIDE DEF Astray
    <3>1. PICK k \in Astray : \A j \in Astray : k <= j
      BY <2>1, <3>0, LeastOf
    <3> USE DEF Astray
    <3>2. CASE k = 0
      <4>1. run[0] = first
        BY <1>0, <1>5
      <4> QED
        BY <1>1, <3>1, <3>2, <4>1
    <3>3. CASE k # 0
      <4>1. k - 1 \in 0..MaxSteps /\ k \in 0..MaxSteps /\ k - 1 \notin Astray
        BY <1>0, <3>1, <3>3
      <4>2. run[k] = Step(run[k - 1])
        BY <1>5, <3>3, <4>1
      <4> QED
        BY <1>2, <3>1, <4>1, <4>2
    <3> QED
      BY <3>2, <3>3
  <2> QED
    BY <1>0, <2>1
<1> QED
  BY <1>3, <1>6 DEF Under
LEMMA RuntimeInit == RulesInit => RuntimeTypes
BY DEF RulesInit, RuntimeTypes, Stacked, Registry

\* What a step of the runtime does to windows and reactions.
Decides ==
  /\ \A w \in DOMAIN windows : windows[w].resolved => windows'[w] = windows[w]
  /\ \A a \in Actors :
        LET new == Answered(a)' \ Answered(a)
        IN  IF new = {} THEN spent'[a] \in {0, spent[a]}
            ELSE spent'[a] = spent[a] + Cardinality(new) /\ spent'[a] <= Reactions

\* A step that answers no window and takes no reaction.
LEMMA AnswersNothing ==
  ASSUME RuntimeTypes, windows' \in Seq(Window),
         \A w \in DOMAIN windows : windows[w].resolved => windows'[w] = windows[w],
         \A w \in DOMAIN windows' :
            windows'[w].choice # NoOne =>
                w \in DOMAIN windows /\ windows[w].choice # NoOne /\ windows[w].actor = windows'[w].actor,
         \A a \in Actors : spent'[a] \in {0, spent[a]}
  PROVE  Decides
<1>1. \A a \in Actors : Answered(a)' \ Answered(a) = {}
  BY DEF Answered
<1> QED
  BY <1>1, Zenon DEF Decides

LEMMA RuleStep ==
  ASSUME RuntimeTypes, NEW g \in Book, NEW a \in Casters, NEW t \in Actors \cup {NoOne}, NEW dice,
         ExecuteRule(g, a, t, dice)
  PROVE  RuntimeTypes' /\ Decides
<1>1. Within(Run(g, a, t, dice))
  BY RunWithin, RuntimeAssumption
<1> PICK x : x = Run(g, a, t, dice)
  OBVIOUS
<1>2. known' = x.known /\ active' = x.active /\ windows' = x.windows /\ now' = now /\ spent' = spent
  BY DEF ExecuteRule, Become
<1>3. Opened(windows') /\ Stacked(known', active')
  BY <1>1, <1>2 DEF Within
<1>4. \A w \in DOMAIN windows' : Undecided(windows'[w])
  BY <1>3 DEF Opened, Undecided, RuntimeTypes
<1>5. RuntimeTypes'
  BY <1>2, <1>3, <1>4 DEF RuntimeTypes, Opened, Undecided, Stacked, Registry
<1>6. \A w \in DOMAIN windows : windows[w].resolved => windows'[w] = windows[w]
  BY <1>3 DEF Opened
<1>7. \A w \in DOMAIN windows' :
         windows'[w].choice # NoOne =>
            w \in DOMAIN windows /\ windows[w].choice # NoOne /\ windows[w].actor = windows'[w].actor
  BY <1>3 DEF Opened
<1>8. Decides
  BY <1>2, <1>3, <1>6, <1>7, AnswersNothing DEF Opened
<1> QED
  BY <1>5, <1>8

\* A step that leaves windows and reactions alone.
LEMMA CalmStep ==
  ASSUME RuntimeTypes, now' \in Nat, Stacked(known', active'), windows' = windows,
         spent' \in [Actors -> Nat], \A a \in Actors : spent'[a] \in {0, spent[a]}
  PROVE  RuntimeTypes' /\ Decides
<1>1. RuntimeTypes'
  BY DEF RuntimeTypes, Undecided, Stacked, Registry
<1>2. Decides
  BY AnswersNothing DEF RuntimeTypes
<1> QED
  BY <1>1, <1>2

LEMMA AttackStep ==
  ASSUME RuntimeTypes, NEW a \in Actors, NEW t \in Actors, NEW mine, NEW theirs, NEW dice,
         Attack(a, t, mine, theirs, dice)
  PROVE  RuntimeTypes' /\ Decides
<1> PICK n : n = AfterTraits(Present, t, AttackDamage(Present, a, t, mine, theirs, dice))
  OBVIOUS
<1>1. Become(Hurt(Present, t, n)) /\ UNCHANGED <<now, spent>>
  BY DEF Attack
<1>2. Alike(Present, Hurt(Present, t, n))
  BY HurtAlike
<1>3. known' = known /\ active' = active /\ windows' = windows
  BY <1>1, <1>2 DEF Become, Alike, Present
<1> QED
  BY <1>1, <1>3, CalmStep DEF RuntimeTypes

LEMMA ResolveStep ==
  ASSUME RuntimeTypes, NEW w \in DOMAIN windows, NEW choice \in {NoOne, "act"}, NEW timed \in BOOLEAN,
         ResolveReaction(w, choice, timed)
  PROVE  RuntimeTypes' /\ Decides
<1> DEFINE o == windows[w]
           late == timed /\ o.expires # Never /\ now > o.expires
           answer == IF late THEN NoOne ELSE choice
           p == [o EXCEPT !.resolved = TRUE, !.choice = answer]
<1>1. o \in Window /\ ~o.resolved /\ o.choice = NoOne /\ answer \in {NoOne, "act"}
  BY DEF RuntimeTypes, Undecided, ResolveReaction
<1>2. p \in Window /\ p.resolved /\ p.choice = answer /\ p.actor = o.actor /\ p.actor \in Actors
  <2> HIDE DEF answer
  <2> QED
    BY <1>1 DEF Window
<1>3. windows' = [windows EXCEPT ![w] = p]
  <2>1. windows' = [windows EXCEPT ![w].resolved = TRUE, ![w].choice = answer]
    BY DEF ResolveReaction
  <2> HIDE DEF answer
  <2> QED
    BY <2>1 DEF RuntimeTypes
<1>4. /\ answer # NoOne => Affords(o.actor)
      /\ spent' = IF answer = NoOne THEN spent ELSE [spent EXCEPT ![o.actor] = @ + 1]
      /\ UNCHANGED <<now, known, active>>
  BY DEF ResolveReaction
<1> HIDE DEF p, answer
<1>5. /\ windows' \in Seq(Window) /\ DOMAIN windows' = DOMAIN windows
      /\ \A v \in DOMAIN windows : windows'[v] = IF v = w THEN p ELSE windows[v]
  BY <1>2, <1>3 DEF RuntimeTypes
<1>6. spent' \in [Actors -> Nat]
  <2>1. \A a \in Actors : [spent EXCEPT ![a] = @ + 1] \in [Actors -> Nat]
    BY DEF RuntimeTypes
  <2>2. o.actor \in Actors /\ spent \in [Actors -> Nat]
    BY <1>2 DEF RuntimeTypes
  <2> QED
    BY <1>4, <2>1, <2>2
<1>7. RuntimeTypes'
  <2>1. \A v \in DOMAIN windows' : Undecided(windows'[v])
    BY <1>2, <1>5 DEF RuntimeTypes, Undecided
  <2> QED
    BY <1>4, <1>5, <1>6, <2>1 DEF RuntimeTypes, Undecided, Stacked, Registry
<1>8. \A v \in DOMAIN windows : windows[v].resolved => windows'[v] = windows[v]
  BY <1>1, <1>5
<1>9. CASE answer = NoOne
  <2>1. \A v \in DOMAIN windows' :
           windows'[v].choice # NoOne =>
              v \in DOMAIN windows /\ windows[v].choice # NoOne /\ windows[v].actor = windows'[v].actor
    BY <1>2, <1>5, <1>9
  <2>2. \A a \in Actors : spent'[a] \in {0, spent[a]}
    BY <1>4, <1>9
  <2> QED
    BY <1>5, <1>7, <1>8, <2>1, <2>2, AnswersNothing
<1>10. CASE answer # NoOne
  <2>1. \A a \in Actors : a = o.actor => Answered(a)' \ Answered(a) = {w}
    BY <1>1, <1>2, <1>5, <1>10 DEF Answered
  <2>2. \A a \in Actors \ {o.actor} : Answered(a)' \ Answered(a) = {}
    BY <1>1, <1>2, <1>5, <1>10 DEF Answered
  <2>3. Cardinality({w}) = 1 /\ {w} # {}
    BY FS_Singleton
  <2>4. /\ spent'[o.actor] = spent[o.actor] + 1 /\ spent'[o.actor] <= Reactions
        /\ \A a \in Actors \ {o.actor} : spent'[a] = spent[a]
    BY <1>2, <1>4, <1>10, RuntimeAssumption DEF RuntimeTypes, Affords
  <2>5. ASSUME NEW a \in Actors
        PROVE  LET new == Answered(a)' \ Answered(a)
               IN  IF new = {} THEN spent'[a] \in {0, spent[a]}
                   ELSE spent'[a] = spent[a] + Cardinality(new) /\ spent'[a] <= Reactions
    <3>1. CASE a = o.actor
      <4> PICK new : new = Answered(a)' \ Answered(a)
        OBVIOUS
      <4>1. new = {w}
        BY <2>1, <3>1
      <4> QED
        BY <2>3, <2>4, <3>1, <4>1
    <3>2. CASE a # o.actor
      BY <2>2, <2>4, <3>2
    <3> QED
      BY <3>1, <3>2
  <2>6. Decides
    BY <1>8, <2>5 DEF Decides
  <2> QED
    BY <1>7, <2>6
<1> QED
  BY <1>9, <1>10
LEMMA ExpireReactionsStep ==
  ASSUME RuntimeTypes, ExpireReactions
  PROVE  RuntimeTypes' /\ Decides
<1> DEFINE Closed(w) == IF Overdue(w) THEN [w EXCEPT !.resolved = TRUE, !.choice = NoOne] ELSE w
<1>1. windows' = [w \in DOMAIN windows |-> Closed(windows[w])] /\ UNCHANGED <<now, known, active, spent>>
  BY DEF ExpireReactions
<1>2. ASSUME NEW w \in Window, Undecided(w)
      PROVE  /\ Closed(w) \in Window /\ Undecided(Closed(w)) /\ Closed(w).actor = w.actor
             /\ w.resolved => Closed(w) = w
             /\ Closed(w).choice # NoOne => w.choice # NoOne
  BY <1>2 DEF Window, Undecided, Overdue
<1> HIDE DEF Closed
<1>3. windows \in Seq(Window) /\ \A w \in DOMAIN windows : windows[w] \in Window /\ Undecided(windows[w])
  BY DEF RuntimeTypes
<1>4. windows' \in Seq(Window) /\ DOMAIN windows' = DOMAIN windows
      /\ \A w \in DOMAIN windows : windows'[w] = Closed(windows[w])
  BY <1>1, <1>2, <1>3
<1>5. RuntimeTypes'
  <2>1. \A w \in DOMAIN windows' : Undecided(windows'[w])
    BY <1>2, <1>3, <1>4
  <2> QED
    BY <1>1, <1>4, <2>1 DEF RuntimeTypes, Undecided, Stacked, Registry
<1>6. \A w \in DOMAIN windows : windows[w].resolved => windows'[w] = windows[w]
  BY <1>2, <1>3, <1>4
<1>7. \A w \in DOMAIN windows' :
         windows'[w].choice # NoOne =>
            w \in DOMAIN windows /\ windows[w].choice # NoOne /\ windows[w].actor = windows'[w].actor
  BY <1>2, <1>3, <1>4
<1>8. \A a \in Actors : spent'[a] \in {0, spent[a]}
  BY <1>1
<1> QED
  BY <1>4, <1>5, <1>6, <1>7, <1>8, AnswersNothing

\* What is left of the effects of a target is some of them.
LEMMA LastingType ==
  ASSUME RuntimeTypes, NEW t \in Actors
  PROVE  /\ Lasting(t) \in Seq(Stack)
         /\ \A i \in DOMAIN Lasting(t) : known[Lasting(t)[i].effect] # NoOne
<1> DEFINE held == active[t]
           Lasts(i) == i.expires = Never \/ i.expires > now
           Step(s, n) == s \o (IF Lasts(held[n]) THEN <<held[n]>> ELSE <<>>)
           Loop(f, k) == f = [n \in 0..k |-> IF n = 0 THEN <<>> ELSE Step(f[n - 1], n)]
           kept == CHOOSE f : Loop(f, Len(held))
           Good(s) == s \in Seq(Stack) /\ \A i \in DOMAIN s : known[s[i].effect] # NoOne
<1>1. held \in Seq(Stack) /\ Len(held) \in Nat
      /\ \A i \in 1..Len(held) : held[i] \in Stack /\ known[held[i].effect] # NoOne
  BY DEF RuntimeTypes, Stacked
<1>2. Lasting(t) = kept[Len(held)]
  BY DEF Lasting
<1>3. Good(<<>>)
  OBVIOUS
<1>4. ASSUME NEW s, Good(s), NEW n \in 1..Len(held)
      PROVE  Good(Step(s, n))
  <2>1. held[n] \in Stack /\ known[held[n].effect] # NoOne
    BY <1>1
  <2> PICK e : e = held[n]
    OBVIOUS
  <2>2. CASE Lasts(held[n])
    <3> DEFINE next == s \o <<e>>
    <3>1. next \in Seq(Stack) /\ \A i \in DOMAIN next : (i \in DOMAIN s /\ next[i] = s[i]) \/ next[i] = e
      BY <1>4, <2>1
    <3> HIDE DEF next
    <3>2. Good(next)
      BY <1>4, <2>1, <3>1
    <3> QED
      BY <2>2, <3>2 DEF next
  <2>3. CASE ~Lasts(held[n])
    <3>1. s \o <<>> = s
      BY <1>4
    <3> QED
      BY <1>4, <2>3, <3>1
  <2> QED
    BY <2>2, <2>3
<1> HIDE DEF Good, Step
<1>5. \E f : Loop(f, Len(held))
  <2> DEFINE Without == {k \in Nat : ~\E f : Loop(f, k)}
  <2>1. ASSUME Len(held) \in Without PROVE FALSE
    <3>1. PICK k \in Without : \A j \in Without : k <= j
      BY <2>1, LeastOf
    <3>2. CASE k = 0
      <4>1. Loop([n \in 0..0 |-> <<>>], 0)
        OBVIOUS
      <4> QED
        BY <3>1, <3>2, <4>1
    <3>3. CASE k # 0
      <4>0. k - 1 \in Nat /\ k - 1 \notin Without
        <5>1. k \in Nat
          OBVIOUS
        <5> HIDE DEF Without
        <5> QED
          BY <3>1, <3>3, <5>1
      <4>1. PICK f : Loop(f, k - 1)
        BY <4>0
      <4> DEFINE h == [n \in 0..k |-> IF n = 0 THEN <<>> ELSE Step(f[n - 1], n)]
      <4>2. \A n \in 0..(k - 1) : h[n] = f[n]
        BY <3>1, <4>1
      <4>3. \A n \in 0..k : n # 0 => n - 1 \in 0..(k - 1)
        BY <3>1
      <4>4. Loop(h, k)
        BY <4>2, <4>3
      <4> QED
        BY <3>1, <4>4
    <3> QED
      BY <3>2, <3>3
  <2> QED
    BY <1>1, <2>1
<1>6. Loop(kept, Len(held))
  BY <1>5, Zenon
<1> HIDE DEF kept
<1>7. Good(kept[Len(held)])
  <2> DEFINE Bad == {k \in 0..Len(held) : ~Good(kept[k])}
  <2>1. ASSUME Bad # {} PROVE FALSE
    <3>0. Bad \in SUBSET Nat
      <4>1. \A k \in 0..Len(held) : k \in Nat
        BY <1>1
      <4> QED
        BY <4>1
    <3> HIDE DEF Bad
    <3>1. PICK k \in Bad : \A j \in Bad : k <= j
      BY <2>1, <3>0, LeastOf
    <3> USE DEF Bad
    <3>2. CASE k = 0
      <4>1. kept[0] = <<>>
        BY <1>1, <1>6
      <4> QED
        BY <1>3, <3>1, <3>2, <4>1
    <3>3. CASE k # 0
      <4>1. k - 1 \in 0..Len(held) /\ k \in 1..Len(held) /\ k - 1 \notin Bad
        BY <1>1, <3>1, <3>3
      <4>2. kept[k] = Step(kept[k - 1], k)
        BY <1>6, <3>3, <4>1
      <4>3. Good(kept[k - 1])
        BY <4>1
      <4>4. Good(kept[k])
        BY <1>4, <4>1, <4>2, <4>3
      <4> QED
        BY <3>1, <4>4
    <3> QED
      BY <3>2, <3>3
  <2> QED
    BY <1>1, <2>1
<1> QED
  BY <1>2, <1>7 DEF Good

LEMMA ExpireEffectsStep ==
  ASSUME RuntimeTypes, ExpireEffects
  PROVE  RuntimeTypes' /\ Decides
<1>1. active' = [t \in Actors |-> Lasting(t)] /\ UNCHANGED <<now, known, spent, windows>>
  BY DEF ExpireEffects
<1>2. Stacked(known', active')
  BY <1>1, LastingType DEF Stacked, RuntimeTypes, Registry
<1> QED
  BY <1>1, <1>2, CalmStep DEF RuntimeTypes

LEMMA RemoveEffectStep ==
  ASSUME RuntimeTypes, NEW t \in Actors, NEW i \in DOMAIN active[t], RemoveEffect(t, i)
  PROVE  RuntimeTypes' /\ Decides
<1> DEFINE held == active[t]
           left == SubSeq(held, 1, i - 1) \o SubSeq(held, i + 1, Len(held))
<1>1. active \in [Actors -> Seq(Stack)] /\ held \in Seq(Stack) /\ i \in 1..Len(held)
      /\ \A b \in Actors : \A j \in DOMAIN active[b] : known[active[b][j].effect] # NoOne
  BY DEF RuntimeTypes, Stacked
<1>2. active' = [active EXCEPT ![t] = left] /\ UNCHANGED <<now, known, spent, windows>>
  BY DEF RemoveEffect
<1>3. left \in Seq(Stack) /\ \A j \in DOMAIN left : \E k \in DOMAIN held : left[j] = held[k]
  <2> DEFINE front == SubSeq(held, 1, i - 1)
             back  == SubSeq(held, i + 1, Len(held))
  <2>1. /\ front \in Seq(Stack) /\ Len(front) = i - 1
        /\ \A j \in 1..(i - 1) : front[j] = held[j]
    BY <1>1
  <2>2. /\ back \in Seq(Stack) /\ Len(back) = Len(held) - i
        /\ \A j \in 1..(Len(held) - i) : back[j] = held[j + i]
    BY <1>1
  <2> HIDE DEF front, back
  <2>3. /\ front \o back \in Seq(Stack)
        /\ \A j \in DOMAIN (front \o back) :
              \/ j \in 1..Len(front) /\ (front \o back)[j] = front[j]
              \/ j - Len(front) \in 1..Len(back) /\ (front \o back)[j] = back[j - Len(front)]
    BY <2>1, <2>2
  <2>4. ASSUME NEW j \in DOMAIN (front \o back)
        PROVE  \E k \in DOMAIN held : (front \o back)[j] = held[k]
    <3>1. CASE j \in 1..Len(front) /\ (front \o back)[j] = front[j]
      BY <1>1, <2>1, <3>1
    <3>2. CASE j - Len(front) \in 1..Len(back) /\ (front \o back)[j] = back[j - Len(front)]
      <4> PICK k : k = j - Len(front)
        OBVIOUS
      <4>1. k \in 1..(Len(held) - i) /\ back[k] = held[k + i] /\ k + i \in DOMAIN held
        BY <1>1, <2>2, <3>2
      <4> QED
        BY <3>2, <4>1
    <3> QED
      BY <2>3, <3>1, <3>2
  <2> QED
    BY <2>3, <2>4 DEF front, back
<1> HIDE DEF left
<1>4. \A b \in Actors : active'[b] = IF b = t THEN left ELSE active[b]
  BY <1>1, <1>2
<1>5. active' \in [Actors -> Seq(Stack)]
  BY <1>1, <1>2, <1>3
<1>6. \A b \in Actors : \A j \in DOMAIN active'[b] : known[active'[b][j].effect] # NoOne
  BY <1>1, <1>3, <1>4
<1>7. Stacked(known', active')
  BY <1>2, <1>5, <1>6 DEF Stacked, RuntimeTypes, Registry
<1> QED
  BY <1>2, <1>7, CalmStep DEF RuntimeTypes

LEMMA ResetTurnStep ==
  ASSUME RuntimeTypes, NEW a \in Actors, ResetTurn(a)
  PROVE  RuntimeTypes' /\ Decides
<1>1. spent' = [spent EXCEPT ![a] = 0] /\ UNCHANGED <<now, known, active, windows>>
  BY DEF ResetTurn
<1>2. spent' \in [Actors -> Nat] /\ \A b \in Actors : spent'[b] \in {0, spent[b]}
  BY <1>1 DEF RuntimeTypes
<1>3. Stacked(known', active')
  BY <1>1 DEF Stacked, RuntimeTypes, Registry
<1> QED
  BY <1>1, <1>2, <1>3, CalmStep DEF RuntimeTypes

LEMMA RuntimeNext ==
  ASSUME RuntimeTypes, [RulesNext]_rulesVars
  PROVE  RuntimeTypes' /\ (Decides \/ UNCHANGED rulesVars)
<1>1. CASE \E g \in Book, a \in Casters, t \in Actors \cup {NoOne}, dice \in Throws : ExecuteRule(g, a, t, dice)
  BY <1>1, RuleStep
<1>2. CASE \E a, t \in Actors, mine, theirs \in Postures, dice \in Throws : Attack(a, t, mine, theirs, dice)
  BY <1>2, AttackStep
<1>3. CASE \E w \in DOMAIN windows, c \in {NoOne, "act"}, timed \in BOOLEAN : ResolveReaction(w, c, timed)
  BY <1>3, ResolveStep
<1>4. CASE \E t \in Actors : \E i \in DOMAIN active[t] : RemoveEffect(t, i)
  BY <1>4, RemoveEffectStep
<1>5. CASE \E a \in Actors : ResetTurn(a)
  BY <1>5, ResetTurnStep
<1>6. CASE ExpireReactions
  BY <1>6, ExpireReactionsStep
<1>7. CASE ExpireEffects
  BY <1>7, ExpireEffectsStep
<1>8. CASE Advance
  BY <1>8, CalmStep DEF Advance, RuntimeTypes
<1>9. CASE UNCHANGED rulesVars
  <2>1. RuntimeTypes'
    BY <1>9 DEF RuntimeTypes, rulesVars, Undecided, Stacked, Registry
  <2> QED
    BY <1>9, <2>1
<1>10. CASE \E w \in DOMAIN windows, c \in {NoOne, "act"} : RefuseReaction(w, c)
  BY <1>9, <1>10 DEF RefuseReaction
<1> QED
  BY <1>1, <1>2, <1>3, <1>4, <1>5, <1>6, <1>7, <1>8, <1>9, <1>10 DEF RulesNext
\* resolve_reaction and expire_reactions keep to one decision of a window, and to
\* one reaction for an answer, whatever the rules of the pack do meanwhile.
THEOREM WindowsDecideOnce == RulesSpec => DecidedOnce
<1>1. RuntimeTypes /\ [RulesNext]_rulesVars => RuntimeTypes'
  BY RuntimeNext
<1>2. RuntimeTypes /\ [RulesNext]_rulesVars => [Decides]_rulesVars
  BY RuntimeNext
<1> QED
  BY <1>1, <1>2, RuntimeInit, PTL DEF RulesSpec, DecidedOnce, Decides
----------------------------------------------------------------------------
(* The rules runtime: what modifiers add up to                              *)

\* The element a fold takes next.
Pick(s) == CHOOSE x \in s : TRUE

LEMMA PickOf ==
  ASSUME NEW S, IsFiniteSet(S), NEW s \in SUBSET S
  PROVE  /\ Cardinality(s) \in Nat /\ (Cardinality(s) = 0 <=> s = {})
         /\ s # {} => Pick(s) \in s /\ s \ {Pick(s)} \in SUBSET S /\ Cardinality(s \ {Pick(s)}) = Cardinality(s) - 1
<1>1. IsFiniteSet(s)
  BY FS_Subset
<1>2. s # {} => Pick(s) \in s
  BY Zenon DEF Pick
<1>3. Cardinality(s) \in Nat /\ (Cardinality(s) = 0 <=> s = {})
  BY <1>1, FS_CardinalityType, FS_EmptySet
<1>4. s # {} => Cardinality(s \ {Pick(s)}) = Cardinality(s) - 1
  BY <1>1, <1>2, FS_RemoveElement
<1> QED
  BY <1>2, <1>3, <1>4

\* A fold over the subsets of a finite set is defined, by their size.
Stepping(T, S, V) == T \in [SUBSET S -> [V -> V]]

Folded(f, S, V, zero, T) ==
  /\ f \in [SUBSET S -> V]
  /\ \A s \in SUBSET S : f[s] = IF s = {} THEN zero ELSE T[s][f[s \ {Pick(s)}]]

LEMMA FoldExists ==
  ASSUME NEW S, IsFiniteSet(S), NEW V, NEW zero \in V, NEW T, Stepping(T, S, V)
  PROVE  \E f : Folded(f, S, V, zero, T)
<1>0. T \in [SUBSET S -> [V -> V]]
  BY DEF Stepping
<1> DEFINE Upto(k) == {s \in SUBSET S : Cardinality(s) <= k}
           Folding(f, k) == /\ f \in [Upto(k) -> V]
                            /\ \A s \in Upto(k) : f[s] = IF s = {} THEN zero ELSE T[s][f[s \ {Pick(s)}]]
           Without == {k \in Nat : ~\E f : Folding(f, k)}
<1>1. \A s \in SUBSET S : /\ Cardinality(s) \in Nat /\ (Cardinality(s) = 0 <=> s = {})
                          /\ s # {} => s \ {Pick(s)} \in SUBSET S /\ Cardinality(s \ {Pick(s)}) = Cardinality(s) - 1
  BY PickOf
<1>2. ASSUME Cardinality(S) \in Without PROVE FALSE
  <2>1. PICK k \in Without : \A j \in Without : k <= j
    BY <1>2, LeastOf
  <2>2. k \in Nat
    OBVIOUS
  <2>3. CASE k = 0
    <3>1. ASSUME NEW s \in Upto(0) PROVE s = {}
      <4>1. s \in SUBSET S /\ Cardinality(s) <= 0
        OBVIOUS
      <4>2. Cardinality(s) \in Nat /\ (Cardinality(s) = 0 <=> s = {})
        BY <1>1, <4>1
      <4>3. Cardinality(s) = 0
        BY <4>1, <4>2
      <4> QED
        BY <4>2, <4>3
    <3>2. Folding([s \in Upto(0) |-> zero], 0)
      BY <3>1
    <3> QED
      BY <2>1, <2>3, <3>2
  <2>4. CASE k # 0
    <3>0. k - 1 \in Nat /\ k - 1 \notin Without
      <4> HIDE DEF Without
      <4> QED
        BY <2>1, <2>2, <2>4
    <3>1. PICK f : Folding(f, k - 1)
      BY <3>0
    <3> DEFINE h == [s \in Upto(k) |-> IF s = {} THEN zero ELSE T[s][f[s \ {Pick(s)}]]]
    <3>2. \A s \in Upto(k) : s # {} => s \ {Pick(s)} \in Upto(k - 1) /\ s \ {Pick(s)} \in Upto(k)
      BY <1>1, <2>2, <2>4
    <3>3. ASSUME NEW s \in Upto(k - 1) PROVE s \in Upto(k) /\ s \in SUBSET S
      <4>1. s \in SUBSET S /\ Cardinality(s) <= k - 1
        OBVIOUS
      <4>2. Cardinality(s) \in Nat
        BY <1>1, <4>1
      <4>3. Cardinality(s) <= k
        BY <2>2, <4>1, <4>2
      <4> QED
        BY <4>1, <4>3
    <3>4. \A s \in Upto(k - 1) : h[s] = f[s]
      BY <3>1, <3>3
    <3>5. h \in [Upto(k) -> V]
      BY <3>1, <3>2, <1>0
    <3>6. \A s \in Upto(k) : h[s] = IF s = {} THEN zero ELSE T[s][h[s \ {Pick(s)}]]
      BY <3>2, <3>4
    <3>7. Folding(h, k)
      <4> HIDE DEF h
      <4> QED
        BY <3>5, <3>6
    <3> QED
      BY <2>1, <3>7
  <2> QED
    BY <2>3, <2>4
<1>3. PICK f : Folding(f, Cardinality(S))
  <2>1. Cardinality(S) \in Nat
    BY FS_CardinalityType
  <2> QED
    BY <1>2, <2>1
<1>4. Upto(Cardinality(S)) = SUBSET S
  BY FS_Subset
<1> QED
  BY <1>3, <1>4 DEF Folded

\* What every step of a fold keeps, its result has.
LEMMA FoldType ==
  ASSUME NEW S, IsFiniteSet(S), NEW V, NEW f, f[{}] \in V,
         \A s \in SUBSET S : s # {} /\ f[s \ {Pick(s)}] \in V => f[s] \in V
  PROVE  f[S] \in V
<1> DEFINE Bad == {s \in SUBSET S : f[s] \notin V}
           sizes == {Cardinality(s) : s \in Bad}
<1>1. ASSUME Bad # {} PROVE FALSE
  <2>1. sizes \in SUBSET Nat /\ sizes # {}
    <3>1. \A s \in Bad : Cardinality(s) \in Nat
      BY PickOf
    <3> HIDE DEF Bad
    <3> QED
      BY <1>1, <3>1
  <2> HIDE DEF sizes
  <2>2. PICK n \in sizes : \A m \in sizes : n <= m
    BY <2>1, LeastOf
  <2>3. PICK s \in Bad : Cardinality(s) = n /\ \A r \in Bad : n <= Cardinality(r)
    BY <2>2 DEF sizes
  <2>4. s # {} /\ s \in SUBSET S
    BY <2>3
  <2>5. s \ {Pick(s)} \in SUBSET S /\ Cardinality(s \ {Pick(s)}) = n - 1 /\ n \in Nat
    BY <2>3, <2>4, PickOf
  <2>6. s \ {Pick(s)} \notin Bad
    <3> HIDE DEF Bad
    <3> QED
      BY <2>3, <2>5
  <2> QED
    BY <2>3, <2>4, <2>5, <2>6
<1> QED
  BY <1>1
\* Whatever a multiplication by v keeps, the powers of v have.
LEMMA PowerType ==
  ASSUME NEW V, 1 \in V, NEW v, \A x \in V : v * x \in V, NEW k \in Nat
  PROVE  Power(v, k) \in V
<1> DEFINE Loop(f, n) == f = [i \in 0..n |-> IF i = 0 THEN 1 ELSE v * f[i - 1]]
           p == CHOOSE f : Loop(f, k)
           Without == {n \in Nat : ~\E f \in [0..n -> V] : Loop(f, n)}
<1>1. ASSUME k \in Without PROVE FALSE
  <2>1. PICK n \in Without : \A j \in Without : n <= j
    BY <1>1, LeastOf
  <2>2. n \in Nat
    OBVIOUS
  <2>3. CASE n = 0
    <3>1. [i \in 0..0 |-> 1] \in [0..0 -> V] /\ Loop([i \in 0..0 |-> 1], 0)
      OBVIOUS
    <3> QED
      BY <2>1, <2>3, <3>1
  <2>4. CASE n # 0
    <3>0. n - 1 \in Nat /\ n - 1 \notin Without
      <4> HIDE DEF Without
      <4> QED
        BY <2>1, <2>2, <2>4
    <3>1. PICK f \in [0..(n - 1) -> V] : Loop(f, n - 1)
      BY <3>0
    <3> DEFINE h == [i \in 0..n |-> IF i = 0 THEN 1 ELSE v * f[i - 1]]
    <3>2. \A i \in 0..n : i # 0 => i - 1 \in 0..(n - 1)
      BY <2>2
    <3>3. \A i \in 0..(n - 1) : h[i] = f[i]
      BY <2>2, <3>1
    <3>4. h \in [0..n -> V]
      <4>1. \A i \in 0..n : i # 0 => f[i - 1] \in V
        BY <3>2
      <4> QED
        BY <4>1
    <3>5. Loop(h, n)
      BY <3>2, <3>3
    <3> QED
      BY <2>1, <3>4, <3>5
  <2> QED
    BY <2>3, <2>4
<1>2. PICK f \in [0..k -> V] : Loop(f, k)
  BY <1>1
<1>3. Loop(p, k)
  BY <1>2, Zenon
<1>4. Power(v, k) = p[k]
  BY DEF Power
<1> HIDE DEF p
<1> DEFINE Bad == {i \in 0..k : p[i] \notin V}
<1>5. ASSUME Bad # {} PROVE FALSE
  <2>0. Bad \in SUBSET Nat
    OBVIOUS
  <2> HIDE DEF Bad
  <2>1. PICK i \in Bad : \A j \in Bad : i <= j
    BY <1>5, <2>0, LeastOf
  <2> USE DEF Bad
  <2>2. i # 0
    BY <1>3, <2>1
  <2>3. i - 1 \in 0..k /\ p[i - 1] \in V
    BY <2>1, <2>2
  <2>4. p[i] = v * p[i - 1]
    BY <1>3, <2>1, <2>2
  <2> QED
    BY <2>1, <2>3, <2>4
<1> QED
  BY <1>4, <1>5

Worth(mods) == IsFiniteSet(mods) /\ \A m \in mods : m.value \in Int /\ m.copies \in Nat

LEMMA FlatType ==
  ASSUME NEW mods, Worth(mods)
  PROVE  MapThenSumSet(LAMBDA m : m.value * m.copies, mods) \in Int
<1> DEFINE Iter(f) == f = [s \in SUBSET mods |-> IF s = {} THEN 0
                             ELSE Pick(s).value * Pick(s).copies + f[s \ {Pick(s)}]]
           iter == CHOOSE f : Iter(f)
           T == [s \in SUBSET mods |-> [r \in Int |->
                    IF s = {} THEN r ELSE Pick(s).value * Pick(s).copies + r]]
<1>1. MapThenSumSet(LAMBDA m : m.value * m.copies, mods) = iter[mods]
  BY DEF MapThenSumSet, MapThenFoldSet, Pick
<1>2. \A s \in SUBSET mods : s # {} => /\ Pick(s).value * Pick(s).copies \in Int
                                       /\ s \ {Pick(s)} \in SUBSET mods
  <2>1. \A s \in SUBSET mods : s # {} => Pick(s) \in mods /\ s \ {Pick(s)} \in SUBSET mods
    BY PickOf DEF Worth
  <2>2. \A m \in mods : m.value * m.copies \in Int
    BY DEF Worth
  <2> QED
    BY <2>1, <2>2
<1>3. \E f : Iter(f)
  <2>1. T \in [SUBSET mods -> [Int -> Int]]
    BY <1>2
  <2>2. \A s \in SUBSET mods, r \in Int :
           s # {} => T[s][r] = Pick(s).value * Pick(s).copies + r
    OBVIOUS
  <2> HIDE DEF T
  <2>3. PICK f : Folded(f, mods, Int, 0, T)
    <3>1. IsFiniteSet(mods) /\ 0 \in Int /\ Stepping(T, mods, Int)
      BY <2>1 DEF Worth, Stepping
    <3> QED
      BY <3>1, FoldExists, Zenon
  <2>4. Iter(f)
    BY <1>2, <2>2, <2>3 DEF Folded
  <2> QED
    BY <2>4
<1>4. Iter(iter)
  BY <1>3, Zenon
<1> HIDE DEF iter
<1>5. iter[{}] \in Int
  BY <1>4
<1>6. ASSUME NEW s \in SUBSET mods, s # {}, iter[s \ {Pick(s)}] \in Int
      PROVE  iter[s] \in Int
  <2>1. iter[s] = Pick(s).value * Pick(s).copies + iter[s \ {Pick(s)}]
    BY <1>4, <1>6
  <2>2. PICK x \in Int : x = Pick(s).value * Pick(s).copies
    BY <1>2, <1>6
  <2>3. PICK y \in Int : y = iter[s \ {Pick(s)}]
    BY <1>6
  <2>4. x + y \in Int
    OBVIOUS
  <2> QED
    BY <2>1, <2>2, <2>3, <2>4
<1>7. iter[mods] \in Int
  BY <1>5, <1>6, FoldType DEF Worth
<1> QED
  BY <1>1, <1>7

\* Whatever a multiplication by each factor keeps, the product has.
LEMMA ProductType ==
  ASSUME NEW S, IsFiniteSet(S), NEW V, 1 \in V, NEW f,
         \A m \in S : \A x \in V : x * f[m] \in V
  PROVE  Product(f, S) \in V
<1> DEFINE Iter(g) == g = [s \in SUBSET S |-> IF s = {} THEN 1 ELSE g[s \ {Pick(s)}] * f[Pick(s)]]
           iter == CHOOSE g : Iter(g)
           T == [s \in SUBSET S |-> [r \in V |-> IF s = {} THEN r ELSE r * f[Pick(s)]]]
<1>1. Product(f, S) = iter[S]
  BY DEF Product, FoldSet, MapThenFoldSet, Pick
<1>2. \A s \in SUBSET S : s # {} => /\ \A x \in V : x * f[Pick(s)] \in V
                                    /\ s \ {Pick(s)} \in SUBSET S
  <2>1. \A s \in SUBSET S : s # {} => Pick(s) \in S /\ s \ {Pick(s)} \in SUBSET S
    BY PickOf
  <2> QED
    BY <2>1
<1>3. \E g : Iter(g)
  <2>1. T \in [SUBSET S -> [V -> V]]
    BY <1>2
  <2>2. \A s \in SUBSET S, r \in V : s # {} => T[s][r] = r * f[Pick(s)]
    OBVIOUS
  <2> HIDE DEF T
  <2>3. PICK g : Folded(g, S, V, 1, T)
    <3>1. Stepping(T, S, V)
      BY <2>1 DEF Stepping
    <3> QED
      BY <3>1, FoldExists, Zenon
  <2>4. Iter(g)
    BY <1>2, <2>2, <2>3 DEF Folded
  <2> QED
    BY <2>4
<1>4. Iter(iter)
  BY <1>3, Zenon
<1> HIDE DEF iter
<1>5. iter[{}] \in V
  BY <1>4
<1>6. ASSUME NEW s \in SUBSET S, s # {}, iter[s \ {Pick(s)}] \in V
      PROVE  iter[s] \in V
  <2>1. iter[s] = iter[s \ {Pick(s)}] * f[Pick(s)]
    BY <1>4, <1>6
  <2> QED
    BY <1>2, <1>6, <2>1
<1>7. iter[S] \in V
  BY <1>5, <1>6, FoldType
<1> QED
  BY <1>1, <1>7

\* A finite set of integers that is not empty has a largest and a least element.
LEMMA ExtremesOf ==
  ASSUME NEW S, S \in SUBSET Int, IsFiniteSet(S), S # {}
  PROVE  Max(S) \in Int /\ Min(S) \in Int
<1> DEFINE Highest(s) == \E x \in s : \A y \in s : x >= y
           Lowest(s)  == \E x \in s : \A y \in s : x <= y
           Has(s) == s = {} \/ (Highest(s) /\ Lowest(s))
           f == [s \in SUBSET S |-> IF Has(s) THEN 0 ELSE 1]
<1>0. \A s \in SUBSET S : f[s] \in {0} <=> Has(s)
  <2> HIDE DEF Has
  <2> QED
    OBVIOUS
<1> HIDE DEF f
<1>1. f[{}] \in {0}
  BY <1>0
<1>2. ASSUME NEW s \in SUBSET S, s # {}, f[s \ {Pick(s)}] \in {0}
      PROVE  f[s] \in {0}
  <2> DEFINE r == s \ {Pick(s)}
  <2>1. Pick(s) \in s /\ Pick(s) \in Int /\ r \in SUBSET S /\ s \in SUBSET Int
    BY <1>2, PickOf
  <2>2. r = {} \/ (Highest(r) /\ Lowest(r))
    BY <1>0, <1>2, <2>1, Zenon
  <2>3. CASE r = {}
    <3>1. s = {Pick(s)}
      BY <2>1, <2>3
    <3>2. PICK p \in Int : p = Pick(s)
      BY <2>1
    <3>3. Highest(s) /\ Lowest(s)
      BY <3>1, <3>2
    <3> QED
      BY <1>0, <3>3
  <2>4. CASE Highest(r) /\ Lowest(r)
    <3>1. PICK p \in Int : p = Pick(s)
      BY <2>1
    <3>2. PICK u \in r : \A y \in r : u >= y
      BY <2>4
    <3>3. PICK v \in r : \A y \in r : v <= y
      BY <2>4
    <3>4. \A y \in s : y = p \/ y \in r
      BY <3>1
    <3>5. p \in s /\ u \in s /\ v \in s
      BY <2>1, <3>1
    <3> HIDE DEF r
    <3>6. u \in Int /\ v \in Int
      BY <2>1, <3>5
    <3>7. Highest(s)
      <4>1. CASE p >= u
        <5>1. \A y \in s : y \in Int /\ p >= y
          BY <2>1, <3>2, <3>4, <3>6, <4>1
        <5> QED
          BY <3>5, <5>1
      <4>2. CASE u >= p
        <5>1. \A y \in s : u >= y
          BY <2>1, <3>2, <3>4, <3>6, <4>2
        <5> QED
          BY <3>5, <5>1
      <4> QED
        BY <3>6, <4>1, <4>2
    <3>8. Lowest(s)
      <4>1. CASE p <= v
        <5>1. \A y \in s : y \in Int /\ p <= y
          BY <2>1, <3>3, <3>4, <3>6, <4>1
        <5> QED
          BY <3>5, <5>1
      <4>2. CASE v <= p
        <5>1. \A y \in s : v <= y
          BY <2>1, <3>3, <3>4, <3>6, <4>2
        <5> QED
          BY <3>5, <5>1
      <4> QED
        BY <3>6, <4>1, <4>2
    <3> QED
      BY <1>0, <3>7, <3>8
  <2> QED
    BY <2>2, <2>3, <2>4
<1>3. f[S] \in {0}
  <2>1. PICK V : V = {0}
    OBVIOUS
  <2> HIDE DEF Has, Highest, Lowest
  <2>2. f[{}] \in V /\ \A s \in SUBSET S : s # {} /\ f[s \ {Pick(s)}] \in V => f[s] \in V
    BY <1>1, <1>2, <2>1
  <2>3. f[S] \in V
    BY <2>2, FoldType, Zenon
  <2> QED
    BY <2>1, <2>3
<1>4. Highest(S) /\ Lowest(S)
  BY <1>0, <1>3, Zenon
<1>5. Max(S) \in S
  BY <1>4 DEF Max
<1>6. Min(S) \in S
  BY <1>4 DEF Min
<1> QED
  BY <1>5, <1>6

LEMMA FiniteImage ==
  ASSUME NEW S, IsFiniteSet(S), NEW f, DOMAIN f = S, f \in [S -> {f[x] : x \in S}]
  PROVE  IsFiniteSet({f[x] : x \in S})
<1>1. f \in Surjection(S, {f[x] : x \in S})
  BY DEF Surjection
<1> QED
  BY <1>1, FS_Surjection

LEMMA KindWorth ==
  ASSUME NEW mods, Worth(mods), NEW k
  PROVE  /\ Worth(OfKind(mods, k))
         /\ {m.value : m \in OfKind(mods, k)} \in SUBSET Int
         /\ IsFiniteSet({m.value : m \in OfKind(mods, k)})
<1>1. OfKind(mods, k) \in SUBSET mods
  BY DEF OfKind
<1>2. Worth(OfKind(mods, k))
  BY <1>1, FS_Subset DEF Worth
<1> DEFINE f == [m \in OfKind(mods, k) |-> m.value]
<1>3. {m.value : m \in OfKind(mods, k)} = {f[m] : m \in OfKind(mods, k)}
  OBVIOUS
<1>4. f \in [OfKind(mods, k) -> {f[m] : m \in OfKind(mods, k)}] /\ DOMAIN f = OfKind(mods, k)
  OBVIOUS
<1>5. IsFiniteSet({f[m] : m \in OfKind(mods, k)})
  <2> HIDE DEF f
  <2> QED
    BY <1>2, <1>4, FiniteImage DEF Worth
<1> QED
  BY <1>2, <1>3, <1>5 DEF Worth

\* The numbers above nothing are closed under multiplication.
LEMMA TimesAbove ==
  ASSUME NEW x \in Nat \ {0}, NEW y \in Nat \ {0}
  PROVE  x * y \in Nat \ {0}
OBVIOUS

\* What _resolve_modifier_trace divides by is above nothing.
LEMMA ScaleType ==
  ASSUME NEW mods, Worth(mods)
  PROVE  Scale(mods) \in Nat \ {0} /\ Unit * Scale(mods) \in Nat \ {0}
<1> DEFINE V == Nat \ {0}
           times == OfKind(mods, "multiplier")
           f == [m \in times |-> Power(Unit, m.copies)]
<1>1. Unit \in V
  BY RuntimeAssumption
<1>2. IsFiniteSet(times) /\ \A m \in times : m.copies \in Nat
  BY KindWorth DEF Worth
<1>3. 1 \in V /\ \A x \in V : Unit * x \in V
  BY <1>1, TimesAbove
<1> HIDE DEF V
<1>4. \A m \in times : f[m] \in V
  <2>1. \A k \in Nat : Power(Unit, k) \in V
    BY <1>3, PowerType
  <2> QED
    BY <1>2, <2>1
<1>5. \A m \in times : \A x \in V : x * f[m] \in V
  <2> HIDE DEF f
  <2> QED
    BY <1>4, TimesAbove DEF V
<1>6. Product(f, times) \in V
  <2> HIDE DEF f
  <2> QED
    BY <1>2, <1>3, <1>5, ProductType
<1>7. Scale(mods) = Product(f, times)
  BY Zenon DEF Scale
<1> QED
  BY <1>3, <1>6, <1>7 DEF V

LEMMA FactorType ==
  ASSUME NEW mods, Worth(mods)
  PROVE  Product([m \in mods |-> Power(m.value, m.copies)], mods) \in Int
<1> DEFINE f == [m \in mods |-> Power(m.value, m.copies)]
<1>1. \A x, y \in Int : x * y \in Int
  OBVIOUS
<1>2. 1 \in Int
  OBVIOUS
<1>3. \A m \in mods : f[m] \in Int
  <2>1. \A v \in Int, k \in Nat : Power(v, k) \in Int
    <3> TAKE v \in Int, k \in Nat
    <3>1. \A x \in Int : v * x \in Int
      BY <1>1
    <3> QED
      BY <1>2, <3>1, PowerType, Zenon
  <2> QED
    BY <2>1 DEF Worth
<1> HIDE DEF f
<1>4. \A m \in mods : \A x \in Int : x * f[m] \in Int
  BY <1>1, <1>3
<1>5. Product(f, mods) \in Int
  BY <1>2, <1>4, ProductType, Zenon DEF Worth
<1> QED
  BY <1>5 DEF f

\* _resolve_modifier_trace: whatever the modifiers, a number comes out.
LEMMA FinalType ==
  ASSUME NEW amount \in Int, NEW mods, Worth(mods)
  PROVE  Final(amount, mods) \in Int
<1>1. PICK flat \in Int :
        flat = MapThenSumSet(LAMBDA m : m.value * m.copies, OfKind(mods, "flat"))
  BY KindWorth, FlatType
<1> DEFINE times == OfKind(mods, "multiplier")
<1>2. PICK factor \in Int :
        factor = Product([m \in times |-> Power(m.value, m.copies)], times)
  BY KindWorth, FactorType
<1> DEFINE floors  == {m.value : m \in OfKind(mods, "minimum")}
           ceiling == {m.value : m \in OfKind(mods, "maximum")}
           raw     == (amount * Unit + flat) * factor
           raised  == IF floors = {} THEN raw ELSE Upper(Max(floors) * Scale(mods), raw)
<1>3. floors # {} => Max(floors) \in Int
  BY KindWorth, ExtremesOf
<1>4. ceiling # {} => Min(ceiling) \in Int
  BY KindWorth, ExtremesOf
<1>5. \A x, y \in Int : x * y \in Int /\ x + y \in Int
  OBVIOUS
<1>6. raw \in Int /\ Scale(mods) \in Int
  <2>1. Unit \in Int
    BY RuntimeAssumption
  <2>2. Scale(mods) \in Int
    BY ScaleType
  <2> QED
    BY <1>1, <1>2, <1>5, <2>1, <2>2
<1>7. Final(amount, mods) = IF ceiling = {} THEN raised ELSE Lower(Min(ceiling) * Scale(mods), raised)
  BY <1>1, <1>2, Zenon DEF Final
<1> HIDE DEF floors, ceiling, raw
<1>8. raised \in Int
  BY <1>3, <1>5, <1>6 DEF Upper
<1> HIDE DEF raised
<1> QED
  BY <1>4, <1>5, <1>6, <1>7, <1>8 DEF Lower

LEMMA ModifiersWorth ==
  ASSUME RuntimeTypes, NEW t \in Actors, NEW what
  PROVE  Worth(ModifiersFor(Present, t, what))
<1> DEFINE held == active[t]
           mine == {j \in DOMAIN held : known[held[j].effect].target = what}
           f == [i \in mine |->
                   [kind |-> known[held[i].effect].kind, value |-> known[held[i].effect].value,
                    copies |-> held[i].stacks, id |-> <<t, i>>]]
<1>1. ModifiersFor(Present, t, what) = {f[i] : i \in mine}
  BY DEF ModifiersFor, Present
<1>2. /\ held \in Seq(Stack)
      /\ \A i \in DOMAIN held : known[held[i].effect] # NoOne
  BY DEF RuntimeTypes, Stacked
<1>3. ASSUME NEW i \in mine
      PROVE  f[i].value \in Int /\ f[i].copies \in Nat
  <2>1. held[i] \in Stack
    BY <1>2
  <2>2. EffectDefinition(known[held[i].effect])
    BY <1>2, <2>1 DEF RuntimeTypes, Stacked, Registry, Stack
  <2> QED
    BY <2>1, <2>2 DEF EffectDefinition, Stack
<1>4. IsFiniteSet(mine)
  <2>1. Len(held) \in Nat /\ DOMAIN held = 1..Len(held)
    BY <1>2
  <2>2. IsFiniteSet(1..Len(held))
    BY <2>1, FS_Interval
  <2>3. mine \in SUBSET (1..Len(held))
    BY <2>1
  <2> QED
    BY <2>2, <2>3, FS_Subset
<1>5. f \in [mine -> {f[i] : i \in mine}] /\ DOMAIN f = mine
  OBVIOUS
<1> HIDE DEF f, mine
<1>6. IsFiniteSet({f[i] : i \in mine})
  BY <1>4, <1>5, FiniteImage
<1> QED
  BY <1>1, <1>3, <1>6 DEF Worth

\* A quotient, by what it is the only number to do.
LEMMA Quotient ==
  ASSUME NEW n \in Nat, NEW d \in Nat \ {0}
  PROVE  /\ n \div d \in Nat
         /\ d * (n \div d) <= n /\ n < d * (n \div d) + d
         /\ \A q \in Nat : d * q <= n /\ n < d * q + d => q = n \div d
<1>1. /\ n \div d \in Nat
      /\ d * (n \div d) <= n /\ n < d * (n \div d) + d
  OBVIOUS
<1>2. ASSUME NEW q \in Nat, NEW p \in Nat, d * q <= n, n < d * q + d, d * p <= n, n < d * p + d
      PROVE  q <= p
  <2>1. SUFFICES ASSUME q >= p + 1 PROVE FALSE
    BY <1>2
  <2>2. PICK k \in Nat : q = p + 1 + k
    <3>1. q - (p + 1) \in Nat /\ q = p + 1 + (q - (p + 1))
      BY <2>1
    <3> QED
      BY <3>1
  <2>3. d * q = d * p + d + d * k /\ d * k >= 0
    BY <2>2
  <2>4. d * p \in Int /\ d * q \in Int /\ d * k \in Int
    OBVIOUS
  <2> QED
    BY <1>2, <2>3, <2>4
<1>3. ASSUME NEW q \in Nat, d * q <= n, n < d * q + d
      PROVE  q = n \div d
  <2>1. PICK p \in Nat : p = n \div d
    BY <1>1
  <2>2. d * p <= n /\ n < d * p + d
    BY <1>1, <2>1
  <2>3. q <= p /\ p <= q
    BY <1>2, <1>3, <2>2
  <2> QED
    BY <2>1, <2>3
<1> QED
  BY <1>1, <1>3

\* Halving the quotient and halving the number come to the same; doubling the
\* number doubles the quotient, but for a remainder that is a half or more.
LEMMA QuotientHalf ==
  ASSUME NEW n \in Nat, NEW d \in Nat \ {0}
  PROVE  /\ (n * 2) \div (2 * d) = n \div d
         /\ (n * 1) \div (2 * d) = (n \div d) \div 2
         /\ (n * 4) \div (2 * d) \in {2 * (n \div d), 2 * (n \div d) + 1}
<1>1. PICK q \in Nat : q = n \div d /\ d * q <= n /\ n < d * q + d
  BY Quotient
<1>2. PICK e \in Nat \ {0} : e = 2 * d
  OBVIOUS
<1>3. PICK x \in Nat : x = d * q
  OBVIOUS
<1>4. (n * 2) \div e = q
  <2>1. e * q = 2 * x
    BY <1>2, <1>3
  <2>2. e * q <= n * 2 /\ n * 2 < e * q + e
    BY <1>1, <1>2, <1>3, <2>1
  <2>3. n * 2 \in Nat
    OBVIOUS
  <2> QED
    BY <2>2, <2>3, Quotient
<1>5. (n * 1) \div e = q \div 2
  <2>1. PICK h \in Nat : h = q \div 2 /\ (q = 2 * h \/ q = 2 * h + 1)
    OBVIOUS
  <2>2. PICK y \in Nat : y = d * h
    OBVIOUS
  <2>3. e * h = 2 * y /\ (x = 2 * y \/ x = 2 * y + d)
    <3>1. CASE q = 2 * h
      BY <1>2, <1>3, <2>2, <3>1
    <3>2. CASE q = 2 * h + 1
      BY <1>2, <1>3, <2>2, <3>2
    <3> QED
      BY <2>1, <3>1, <3>2
  <2>4. e * h <= n * 1 /\ n * 1 < e * h + e
    BY <1>1, <1>2, <1>3, <2>3
  <2>5. n * 1 \in Nat
    OBVIOUS
  <2> QED
    BY <2>1, <2>4, <2>5, Quotient
<1>6. (n * 4) \div e \in {2 * q, 2 * q + 1}
  <2>1. e * (2 * q) = 4 * x /\ e * (2 * q + 1) = 4 * x + e
    BY <1>2, <1>3
  <2>2. n * 4 \in Nat /\ 2 * q \in Nat /\ 2 * q + 1 \in Nat
    OBVIOUS
  <2>3. CASE n * 4 < 4 * x + e
    <3>1. e * (2 * q) <= n * 4 /\ n * 4 < e * (2 * q) + e
      BY <1>1, <1>3, <2>1, <2>3
    <3>2. (n * 4) \div e = 2 * q
      BY <2>2, <3>1, Quotient
    <3> QED
      BY <3>2
  <2>4. CASE ~(n * 4 < 4 * x + e)
    <3>1. e * (2 * q + 1) <= n * 4 /\ n * 4 < e * (2 * q + 1) + e
      BY <1>1, <1>2, <1>3, <2>1, <2>4
    <3>2. (n * 4) \div e = 2 * q + 1
      BY <2>2, <3>1, Quotient
    <3> QED
      BY <3>2
  <2> QED
    BY <2>3, <2>4
<1> QED
  BY <1>1, <1>2, <1>4, <1>5, <1>6

\* What is negative is cut to nothing at most.
LEMMA CutBelow ==
  ASSUME NEW n \in Int, NEW d \in Nat \ {0}, n < 0
  PROVE  Upper(0, Cut(n, d)) = 0
<1>1. PICK m \in Nat : m = -n
  OBVIOUS
<1>2. m \div d \in Nat
  BY Quotient
<1> QED
  BY <1>1, <1>2 DEF Cut, Upper

LEMMA CutAbove ==
  ASSUME NEW n \in Nat, NEW d \in Nat \ {0}
  PROVE  Upper(0, Cut(n, d)) = n \div d
BY Quotient DEF Cut, Upper

\* resolve_damage: resistance and vulnerability scale the amount that the effects
\* of the target leave, and the cut to an integer comes after both.
LEMMA TraitsOrder ==
  ASSUME RuntimeTypes
  PROVE  TraitsOrdered
<1> SUFFICES ASSUME NEW t \in Actors, NEW amount \in 0..3
             PROVE  LET taken(r, v) == DamageWith(Present, t, amount, r, v)
                        plain == taken(FALSE, FALSE)
                    IN  /\ taken(TRUE, TRUE) = plain
                        /\ taken(TRUE, FALSE) = plain \div 2
                        /\ taken(FALSE, TRUE) \in {2 * plain, 2 * plain + 1}
  BY DEF TraitsOrdered
<1> DEFINE mods == ModifiersFor(Present, t, "damage")
<1>1. PICK left \in Int : left = Final(amount, mods)
  BY ModifiersWorth, FinalType
<1>2. PICK d \in Nat \ {0} : d = Unit * Scale(mods)
  BY ModifiersWorth, ScaleType
<1>3. \A r, v : DamageWith(Present, t, amount, r, v) = Upper(0, Cut(left * Factor(r, v), 2 * d))
  BY <1>1, <1>2 DEF DamageWith
<1>4. /\ Factor(FALSE, FALSE) = 2 /\ Factor(TRUE, TRUE) = 2
      /\ Factor(FALSE, TRUE) = 4 /\ Factor(TRUE, FALSE) = 1
  BY DEF Factor
<1>5. PICK e \in Nat \ {0} : e = 2 * d
  OBVIOUS
<1> DEFINE Taken(r, v) == DamageWith(Present, t, amount, r, v)
<1>6. /\ Taken(FALSE, FALSE) = Upper(0, Cut(left * 2, e))
      /\ Taken(TRUE, TRUE) = Upper(0, Cut(left * 2, e))
      /\ Taken(TRUE, FALSE) = Upper(0, Cut(left * 1, e))
      /\ Taken(FALSE, TRUE) = Upper(0, Cut(left * 4, e))
  BY <1>3, <1>4, <1>5
<1> HIDE DEF Taken
<1>7. SUFFICES /\ Taken(TRUE, TRUE) = Taken(FALSE, FALSE)
               /\ Taken(TRUE, FALSE) = Taken(FALSE, FALSE) \div 2
               /\ Taken(FALSE, TRUE) \in {2 * Taken(FALSE, FALSE), 2 * Taken(FALSE, FALSE) + 1}
  BY Zenon DEF Taken
<1>8. CASE left \in Nat
  <2>1. left * 1 \in Nat /\ left * 2 \in Nat /\ left * 4 \in Nat
    BY <1>8
  <2>2. /\ Taken(FALSE, FALSE) = (left * 2) \div e
        /\ Taken(TRUE, TRUE) = (left * 2) \div e
        /\ Taken(TRUE, FALSE) = (left * 1) \div e
        /\ Taken(FALSE, TRUE) = (left * 4) \div e
    BY <1>6, <2>1, CutAbove
  <2>3. /\ (left * 2) \div e = left \div d
        /\ (left * 1) \div e = (left \div d) \div 2
        /\ (left * 4) \div e \in {2 * (left \div d), 2 * (left \div d) + 1}
    BY <1>5, <1>8, QuotientHalf
  <2> QED
    BY <2>2, <2>3
<1>9. CASE ~(left \in Nat)
  <2>1. /\ left * 1 \in Int /\ left * 2 \in Int /\ left * 4 \in Int
        /\ left * 1 < 0 /\ left * 2 < 0 /\ left * 4 < 0
    BY <1>9
  <2>2. /\ Taken(FALSE, FALSE) = 0 /\ Taken(TRUE, TRUE) = 0
        /\ Taken(TRUE, FALSE) = 0 /\ Taken(FALSE, TRUE) = 0
    BY <1>6, <2>1, CutBelow
  <2>3. 0 = 0 \div 2 /\ 0 \in {2 * 0, 2 * 0 + 1}
    OBVIOUS
  <2> QED
    BY <2>2, <2>3, Zenon
<1> QED
  BY <1>8, <1>9

\* resolve_damage: whatever effects and fractions, the traits scale before the one
\* cut to an integer.
THEOREM TraitsKeepOrder == RulesSpec => []TraitsOrdered
<1>1. RuntimeTypes /\ [RulesNext]_rulesVars => RuntimeTypes'
  BY RuntimeNext
<1>2. RuntimeTypes => TraitsOrdered
  BY TraitsOrder
<1> QED
  BY <1>1, <1>2, RuntimeInit, PTL DEF RulesSpec
=============================================================================
