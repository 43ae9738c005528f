--------------------------- MODULE ActorProofs ---------------------------
(***************************************************************************)
(* Resources and equipment of a character, for any classes, tables, rests  *)
(* and items; where actors stand, the routes they take and what they see,  *)
(* for any spaces, bodies and starts.  The lemmas about path search, lines *)
(* and boxes speak of the operators of Spatial alone.                      *)
(***************************************************************************)
EXTENDS Character, Tactics, FiniteSetTheorems, WellFoundedInduction, TLAPS

IInv == TypeOK /\ ResourcesCovered /\ WornWhole /\ AttunedIsWorn

----------------------------------------------------------------------------
(* Resources *)

\* The maximum of a class level is a number.
LEMMA MaximumForType ==
  ASSUME NEW c \in Class, NEW r \in Resource, NEW level \in Nat \ {0}
  PROVE  MaximumFor(c, r, level) \in Nat
<1>1. Base[c][r] \in Nat /\ PerTwoLevels[c][r] \in Nat
  BY ResourceAssumption
<1>2. level - 1 \in Nat
  OBVIOUS
<1>3. PerTwoLevels[c][r] * (level - 1) \in Nat
  BY <1>1, <1>2
<1> DEFINE product == PerTwoLevels[c][r] * (level - 1)
<1>4. product \div 2 \in Nat
  <2> HIDE DEF product
  <2> product \in Nat
    BY <1>3 DEF product
  <2> QED
    OBVIOUS
<1> QED
  BY <1>1, <1>4 DEF MaximumFor

\* What a gained level makes of the class levels.
LEMMA HeldType ==
  ASSUME TypeOK, NEW c \in Class, levels[c] < ClassLimit[c]
  PROVE  LET held == [levels EXCEPT ![c] = @ + 1] IN
         /\ held \in [Class -> Nat]
         /\ \A d \in Class : held[d] <= ClassLimit[d]
         /\ held[c] \in Level
         /\ \A d \in Class : d # c => held[d] = levels[d]
  BY TrackAssumption DEF TypeOK, Level

\* Synchronising after a level of c ends at a maximum that is no less than the
\* old one, nor than what any class defines at its level.
LEMMA SynchronizedCovers ==
  ASSUME TypeOK, ResourcesCovered, NEW c \in Class, levels[c] < ClassLimit[c],
         NEW r \in Resource
  PROVE  LET held == [levels EXCEPT ![c] = @ + 1]
             m == Synchronized(r, held, maximum[r])
         IN  /\ m \in Nat /\ maximum[r] <= m
             /\ \A d \in Bringers(r, held) : MaximumFor(d, r, held[d]) <= m
<1> DEFINE held == [levels EXCEPT ![c] = @ + 1]
           brought == {MaximumFor(d, r, held[d]) : d \in Bringers(r, held)}
           wanted == {maximum[r]} \cup brought
<1>1. /\ held \in [Class -> Nat] /\ held[c] \in Nat \ {0}
      /\ \A d \in Class : d # c => held[d] = levels[d]
  BY HeldType, TrackAssumption DEF Level
<1>2. maximum[r] \in Nat /\ MaximumFor(c, r, held[c]) \in Nat
  BY <1>1, MaximumForType DEF TypeOK
<1>3. ASSUME NEW d \in Bringers(r, held), d # c
      PROVE  /\ MaximumFor(d, r, held[d]) \in Nat
             /\ MaximumFor(d, r, held[d]) <= maximum[r]
  <2>1. d \in Class /\ held[d] = levels[d] /\ d \in Bringers(r, levels)
    BY <1>1, <1>3 DEF Bringers
  <2>2. levels[d] \in Nat \ {0}
    BY <2>1 DEF Bringers, TypeOK
  <2>3. MaximumFor(d, r, levels[d]) \in Nat
    BY <2>1, <2>2, MaximumForType
  <2> QED
    BY <2>1, <2>3 DEF ResourcesCovered
<1>4. \A n \in brought : n \in Nat /\ (n <= maximum[r] \/ n = MaximumFor(c, r, held[c]))
  BY <1>2, <1>3
<1>5. \E m \in wanted : \A n \in wanted : n <= m
  <2> HIDE DEF held
  <2>1. CASE /\ MaximumFor(c, r, held[c]) \in brought
             /\ maximum[r] <= MaximumFor(c, r, held[c])
    <3>1. \A n \in wanted : n <= MaximumFor(c, r, held[c])
      BY <1>2, <1>4, <2>1
    <3> QED
      BY <2>1, <3>1
  <2>2. CASE ~ (/\ MaximumFor(c, r, held[c]) \in brought
                /\ maximum[r] <= MaximumFor(c, r, held[c]))
    <3>1. \A n \in wanted : n <= maximum[r]
      BY <1>2, <1>4, <2>2
    <3> QED
      BY <3>1
  <2> QED
    BY <2>1, <2>2
<1> DEFINE m == Synchronized(r, held, maximum[r])
<1>6. m \in wanted /\ \A n \in wanted : n <= m
  <2>1. m = CHOOSE n \in wanted : \A k \in wanted : k <= n
    BY DEF Synchronized
  <2> HIDE DEF wanted, m
  <2> QED
    BY <1>5, <2>1
<1>7. m \in Nat
  BY <1>2, <1>4, <1>6
<1> QED
  BY <1>6, <1>7

LEMMA RaisedCovers ==
  ASSUME TypeOK, ResourcesCovered, NEW c \in Class, levels[c] < ClassLimit[c],
         NEW r \in Resource
  PROVE  LET held == [levels EXCEPT ![c] = @ + 1] IN
         /\ Raised(c, r, held) \in Nat /\ maximum[r] <= Raised(c, r, held)
         /\ \A d \in Bringers(r, held) : MaximumFor(d, r, held[d]) <= Raised(c, r, held)
<1> DEFINE held == [levels EXCEPT ![c] = @ + 1]
           bonus == IF Bringers(r, held) # {} THEN Bonus[c][held[c]][r] ELSE 0
           m == Synchronized(r, held, maximum[r])
<1>1. held[c] \in Level /\ held \in [Class -> Nat]
  BY HeldType
<1>2. bonus \in Nat
  BY <1>1, ResourceAssumption
<1>3. /\ m \in Nat /\ maximum[r] <= m /\ maximum[r] \in Nat
      /\ \A d \in Bringers(r, held) : MaximumFor(d, r, held[d]) <= m
  BY SynchronizedCovers DEF TypeOK
<1>4. Raised(c, r, held) = m + bonus
  BY DEF Raised
<1>5. \A d \in Bringers(r, held) : MaximumFor(d, r, held[d]) \in Nat
  BY <1>1, MaximumForType DEF Bringers
<1>6. /\ Raised(c, r, held) \in Nat /\ maximum[r] <= Raised(c, r, held)
      /\ \A d \in Bringers(r, held) : MaximumFor(d, r, held[d]) <= Raised(c, r, held)
  <2> HIDE DEF held, m, bonus
  <2> QED
    BY <1>2, <1>3, <1>4, <1>5
<1> QED
  BY <1>6

LEMMA RestoredType ==
  ASSUME TypeOK, ResourcesCovered, NEW p \in Rest, NEW r \in Resource
  PROVE  Restored(r, Halves[p][r]) \in Nat /\ Restored(r, Halves[p][r]) <= maximum[r]
<1>1. maximum[r] \in Nat /\ current[r] \in Nat
  BY DEF TypeOK
<1>2. Halves[p][r] = 0 \/ Halves[p][r] = 1 \/ Halves[p][r] = 2
  BY ResourceAssumption
<1>3. (maximum[r] * Halves[p][r] + 1) \div 2 \in Nat
  BY <1>1, <1>2
<1> QED
  BY <1>1, <1>3 DEF Restored

----------------------------------------------------------------------------
(* The steps *)

LEMMA InitStep == Init => IInv
<1> SUFFICES ASSUME Init PROVE IInv
  OBVIOUS
<1> PICK first \in Class :
      /\ mode \in Mode
      /\ levels = [c \in Class |-> IF c = first THEN 1 ELSE 0]
      /\ xp = 0 /\ marked = FALSE
      /\ maximum = [r \in Resource |-> IF r \in Offers[first] THEN Base[first][r] ELSE 0]
      /\ current = maximum
      /\ slots = [s \in Slot |-> Empty] /\ attuned = {}
      /\ owned \in SUBSET Item
  BY DEF Init
<1>1. maximum \in [Resource -> Nat]
  BY ResourceAssumption
<1>2. TypeOK
  <2>1. levels \in [Class -> Nat] /\ \A c \in Class : levels[c] <= ClassLimit[c]
    BY TrackAssumption DEF Level
  <2>2. slots \in [Slot -> Item \cup {Empty}] /\ xp \in Nat /\ marked \in BOOLEAN
    OBVIOUS
  <2> QED
    BY <1>1, <2>1, <2>2 DEF TypeOK
<1>3. ASSUME NEW r \in Resource, NEW c \in Bringers(r, levels)
      PROVE  MaximumFor(c, r, levels[c]) <= maximum[r]
  <2>1. c = first /\ levels[c] = 1 /\ r \in Offers[first]
    BY <1>3 DEF Bringers
  <2>2. Base[c][r] \in Nat /\ PerTwoLevels[c][r] \in Nat
    BY <2>1, ResourceAssumption
  <2>3. MaximumFor(c, r, 1) = Base[c][r]
    BY <2>2 DEF MaximumFor
  <2> QED
    BY <2>1, <2>2, <2>3
<1>4. ResourcesCovered
  BY <1>1, <1>3 DEF ResourcesCovered
<1>5. WornWhole
  BY DEF WornWhole, Worn
<1>6. AttunedIsWorn
  BY FS_EmptySet, EquipmentAssumption DEF AttunedIsWorn
<1> QED
  BY <1>2, <1>4, <1>5, <1>6 DEF IInv

LEMMA LevelUpStep ==
  ASSUME TypeOK, ResourcesCovered, NEW c \in Class, LevelUp(c)
  PROVE  TypeOK' /\ ResourcesCovered'
<1> DEFINE held == [levels EXCEPT ![c] = @ + 1]
<1>1. /\ levels[c] < ClassLimit[c] /\ levels' = held
      /\ maximum' = [r \in Resource |-> Raised(c, r, held)]
      /\ current' = [r \in Resource |-> current[r] + (Raised(c, r, held) - maximum[r])]
      /\ marked' = (marked /\ mode # "milestone")
      /\ UNCHANGED <<mode, xp, slots, attuned, owned>>
  BY DEF LevelUp, equipment
<1>2. held \in [Class -> Nat] /\ \A d \in Class : held[d] <= ClassLimit[d]
  BY <1>1, HeldType
<1>3. \A r \in Resource :
        /\ Raised(c, r, held) \in Nat /\ maximum[r] <= Raised(c, r, held)
        /\ \A d \in Bringers(r, held) : MaximumFor(d, r, held[d]) <= Raised(c, r, held)
  BY <1>1, RaisedCovers
<1> HIDE DEF held
<1>4. \A r \in Resource : maximum[r] \in Nat /\ current[r] \in Nat /\ current[r] <= maximum[r]
  BY DEF TypeOK, ResourcesCovered
<1>5. maximum' \in [Resource -> Nat] /\ current' \in [Resource -> Nat]
  BY <1>1, <1>3, <1>4
<1>6. TypeOK'
  <2>1. marked' \in BOOLEAN
    BY <1>1
  <2> QED
    BY <1>1, <1>2, <1>5, <2>1 DEF TypeOK
<1>7. ASSUME NEW r \in Resource
      PROVE  /\ current'[r] <= maximum'[r]
             /\ \A d \in Bringers(r, held) : MaximumFor(d, r, held[d]) <= maximum'[r]
  BY <1>1, <1>3, <1>4
<1>8. ResourcesCovered'
  BY <1>1, <1>7 DEF ResourcesCovered, Bringers, MaximumFor
<1> QED
  BY <1>6, <1>8

\* Spending, restoring and resting move the current value within the maximum.
LEMMA UseStep ==
  ASSUME TypeOK, ResourcesCovered, UNCHANGED <<mode, levels, xp, marked, maximum>>,
         UNCHANGED <<slots, attuned, owned>>,
         current' \in [Resource -> Nat], \A r \in Resource : current'[r] <= maximum[r]
  PROVE  TypeOK' /\ ResourcesCovered'
<1>1. TypeOK'
  BY DEF TypeOK
<1>2. ResourcesCovered'
  BY DEF ResourcesCovered, Bringers, MaximumFor
<1> QED
  BY <1>1, <1>2

\* The changes of equipment and inventory leave levels and resources alone.
LEMMA CarryStep ==
  ASSUME TypeOK, ResourcesCovered, UNCHANGED <<mode, levels, xp, marked, maximum, current>>,
         slots' \in [Slot -> Item \cup {Empty}], attuned' \subseteq Item, owned' \subseteq Item
  PROVE  TypeOK' /\ ResourcesCovered'
<1>1. TypeOK'
  BY DEF TypeOK
<1>2. ResourcesCovered'
  BY DEF ResourcesCovered, Bringers, MaximumFor
<1> QED
  BY <1>1, <1>2

LEMMA EquipStep ==
  ASSUME IInv, NEW i \in Item, Equip(i)
  PROVE  /\ slots' \in [Slot -> Item \cup {Empty}] /\ attuned' \subseteq Item
         /\ WornWhole' /\ AttunedIsWorn'
<1> DEFINE kept == Unattuned(Displaced(i))
<1>1. /\ i \in Attunable => MayAttune(i, kept)
      /\ slots' = [s \in Slot |-> IF s \in Slots[i] THEN i ELSE Vacated(s, Displaced(i))]
      /\ attuned' = IF i \in Attunable THEN kept \cup {i} ELSE kept
  BY DEF Equip
<1>2. /\ slots \in [Slot -> Item \cup {Empty}] /\ attuned \subseteq Item
      /\ WornWhole /\ attuned \subseteq Worn /\ Cardinality(attuned) <= MaxAttuned
  BY DEF IInv, TypeOK, AttunedIsWorn
<1>3. Slots[i] \subseteq Slot /\ Slots[i] # {} /\ Empty \notin Item
  BY EquipmentAssumption
<1>4. slots' \in [Slot -> Item \cup {Empty}] /\ attuned' \subseteq Item /\ kept \subseteq attuned
  BY <1>1, <1>2 DEF Vacated, Unattuned
<1>5. ASSUME NEW j \in Item, j # i, NEW s \in Slot, slots'[s] = j
      PROVE  /\ slots[s] = j /\ j \notin Displaced(i)
             /\ \A t \in Slot : slots'[t] = j <=> slots[t] = j
  <2>1. slots[s] = j /\ j \notin Displaced(i)
    BY <1>1, <1>3, <1>5 DEF Vacated
  <2>2. \A t \in Slots[i] : slots[t] # j
    BY <1>3, <1>5, <2>1 DEF Displaced
  <2>3. ASSUME NEW t \in Slot PROVE slots'[t] = j <=> slots[t] = j
    BY <1>1, <1>3, <1>5, <2>1, <2>2 DEF Vacated
  <2> QED
    BY <2>1, <2>3
<1>6. ASSUME NEW s \in Slot, slots'[s] = i PROVE s \in Slots[i]
  <2>1. CASE s \notin Slots[i]
    <3>1. slots[s] = i
      BY <1>1, <1>3, <1>6, <2>1 DEF Vacated
    <3>2. i \in Worn
      BY <1>3, <3>1 DEF Worn
    <3>3. {t \in Slot : slots[t] = i} = Slots[i]
      BY <1>2, <3>2 DEF WornWhole
    <3> QED
      BY <2>1, <3>1, <3>3
  <2> QED
    BY <2>1
<1>7. WornWhole'
  <2> SUFFICES ASSUME NEW j \in Worn' PROVE {s \in Slot : slots'[s] = j} = Slots[j]
    BY DEF WornWhole
  <2>1. PICK s \in Slot : slots'[s] = j /\ j \in Item
    BY <1>4 DEF Worn
  <2>2. CASE j = i
    BY <1>1, <1>3, <1>6, <2>2
  <2>3. CASE j # i
    <3>1. slots[s] = j /\ \A t \in Slot : slots'[t] = j <=> slots[t] = j
      BY <1>5, <2>1, <2>3
    <3>2. j \in Worn
      BY <1>3, <2>1, <3>1 DEF Worn
    <3> QED
      BY <1>2, <3>1, <3>2 DEF WornWhole
  <2> QED
    BY <2>2, <2>3
<1>8. i \in Worn'
  BY <1>1, <1>3 DEF Worn
<1>9. ASSUME NEW j \in kept PROVE j \in Worn'
  <2>1. j \in attuned /\ j \notin Displaced(i) /\ j \in Item
    BY <1>2, <1>9 DEF Unattuned
  <2>2. PICK s \in Slot : slots[s] = j
    BY <1>2, <2>1 DEF Worn
  <2>3. CASE s \in Slots[i]
    <3>1. j = i
      BY <1>3, <2>1, <2>2, <2>3 DEF Displaced
    <3> QED
      BY <1>8, <3>1
  <2>4. CASE s \notin Slots[i]
    <3>1. slots'[s] = j
      BY <1>1, <2>1, <2>2, <2>4 DEF Vacated
    <3> QED
      BY <1>3, <2>1, <3>1 DEF Worn
  <2> QED
    BY <2>3, <2>4
<1>10. IsFiniteSet(kept) /\ Cardinality(kept) <= MaxAttuned
  <2>1. IsFiniteSet(attuned)
    BY <1>2, FiniteAssumption, FS_Subset
  <2>2. IsFiniteSet(kept) /\ Cardinality(kept) <= Cardinality(attuned)
    <3> HIDE DEF kept
    <3> QED
      BY <1>4, <2>1, FS_Subset
  <2>3. Cardinality(kept) \in Nat /\ Cardinality(attuned) \in Nat
    <3> HIDE DEF kept
    <3> QED
      BY <2>1, <2>2, FS_CardinalityType
  <2> QED
    BY <1>2, <2>2, <2>3, EquipmentAssumption
<1>11. Cardinality(attuned') <= MaxAttuned
  <2>1. CASE i \in Attunable /\ i \notin kept
    <3>1. Cardinality(kept) < MaxAttuned
      BY <1>1, <2>1 DEF MayAttune
    <3>2. Cardinality(kept \cup {i}) = Cardinality(kept) + 1
      <4> HIDE DEF kept
      <4> QED
        BY <1>10, <2>1, FS_AddElement
    <3>3. Cardinality(kept) \in Nat
      BY <1>10, FS_CardinalityType
    <3>4. attuned' = kept \cup {i}
      BY <1>1, <2>1
    <3> HIDE DEF kept
    <3> QED
      BY <3>1, <3>2, <3>3, <3>4, EquipmentAssumption
  <2>2. CASE ~ (i \in Attunable /\ i \notin kept)
    <3>1. attuned' = kept
      BY <1>1, <2>2
    <3> QED
      BY <1>10, <3>1
  <2> QED
    BY <2>1, <2>2
<1>12. AttunedIsWorn'
  BY <1>1, <1>8, <1>9, <1>11 DEF AttunedIsWorn
<1> QED
  BY <1>4, <1>7, <1>12

LEMMA UnequipStep ==
  ASSUME IInv, NEW i \in Item, Unequip(i)
  PROVE  /\ slots' \in [Slot -> Item \cup {Empty}] /\ attuned' \subseteq Item
         /\ WornWhole' /\ AttunedIsWorn'
<1>1. /\ slots' = [s \in Slot |-> IF slots[s] = i THEN Empty ELSE slots[s]]
      /\ attuned' = attuned \ {i}
  BY DEF Unequip, Vacated, Unattuned
<1>2. /\ slots \in [Slot -> Item \cup {Empty}] /\ attuned \subseteq Item
      /\ WornWhole /\ attuned \subseteq Worn /\ Cardinality(attuned) <= MaxAttuned
  BY DEF IInv, TypeOK, AttunedIsWorn
<1>3. Empty \notin Item
  BY EquipmentAssumption
<1>4. Worn' = Worn \ {i}
  BY <1>1, <1>2, <1>3 DEF Worn
<1>5. WornWhole'
  <2> SUFFICES ASSUME NEW j \in Worn' PROVE {s \in Slot : slots'[s] = j} = Slots[j]
    BY DEF WornWhole
  <2>1. j \in Worn /\ j # i /\ j # Empty
    BY <1>4 DEF Worn
  <2>2. \A s \in Slot : slots'[s] = j <=> slots[s] = j
    BY <1>1, <2>1
  <2> QED
    BY <1>2, <2>1, <2>2 DEF WornWhole
<1>6. Cardinality(attuned') <= MaxAttuned
  <2>1. IsFiniteSet(attuned)
    BY <1>2, FiniteAssumption, FS_Subset
  <2>2. IsFiniteSet(attuned') /\ Cardinality(attuned') <= Cardinality(attuned)
    BY <1>1, <2>1, FS_Subset
  <2>3. Cardinality(attuned') \in Nat /\ Cardinality(attuned) \in Nat
    BY <2>1, <2>2, FS_CardinalityType
  <2> QED
    BY <1>2, <2>2, <2>3, EquipmentAssumption
<1>7. AttunedIsWorn'
  BY <1>1, <1>2, <1>4, <1>6 DEF AttunedIsWorn
<1>8. slots' \in [Slot -> Item \cup {Empty}] /\ attuned' \subseteq Item
  BY <1>1, <1>2
<1> QED
  BY <1>5, <1>7, <1>8

\* What leaves the equipment alone keeps its invariants.
LEMMA WearStep ==
  ASSUME IInv, UNCHANGED <<slots, attuned>>
  PROVE  WornWhole' /\ AttunedIsWorn'
  BY DEF IInv, WornWhole, AttunedIsWorn, Worn

LEMMA NextStep == IInv /\ [Next]_vars => IInv'
<1> SUFFICES ASSUME IInv, [Next]_vars PROVE IInv'
  OBVIOUS
<1> USE DEF IInv
<1> TypeOK /\ ResourcesCovered
  OBVIOUS
<1>1. CASE AwardXp
  <2>1. TypeOK'
    BY <1>1 DEF AwardXp, TypeOK, resources, equipment
  <2>2. ResourcesCovered'
    BY <1>1 DEF AwardXp, ResourcesCovered, Bringers, MaximumFor, resources
  <2> QED
    BY <1>1, <2>1, <2>2, WearStep DEF AwardXp, equipment
<1>2. ASSUME NEW ready \in BOOLEAN, MarkMilestone(ready) PROVE IInv'
  <2>1. TypeOK'
    BY <1>2 DEF MarkMilestone, TypeOK, resources, equipment
  <2>2. ResourcesCovered'
    BY <1>2 DEF MarkMilestone, ResourcesCovered, Bringers, MaximumFor, resources
  <2> QED
    BY <1>2, <2>1, <2>2, WearStep DEF MarkMilestone, equipment
<1>3. ASSUME NEW c \in Class, LevelUp(c) PROVE IInv'
  <2>1. WornWhole' /\ AttunedIsWorn'
    BY <1>3, WearStep DEF LevelUp, equipment
  <2> QED
    BY <1>3, <2>1, LevelUpStep
<1>4. ASSUME NEW p \in Rest, TakeRest(p) PROVE IInv'
  <2>1. \A r \in Resource : Restored(r, Halves[p][r]) \in Nat
                            /\ Restored(r, Halves[p][r]) <= maximum[r]
    BY RestoredType
  <2>2. current' \in [Resource -> Nat] /\ \A r \in Resource : current'[r] <= maximum[r]
    BY <1>4, <2>1 DEF TakeRest
  <2> QED
    BY <1>4, <2>2, UseStep, WearStep DEF TakeRest, advancement, equipment
<1>5. ASSUME NEW r \in Resource, NEW amount \in {1, 2}, SpendResource(r, amount) PROVE IInv'
  <2>1. current' \in [Resource -> Nat] /\ \A q \in Resource : current'[q] <= maximum[q]
    BY <1>5 DEF SpendResource, TypeOK, ResourcesCovered
  <2> QED
    BY <1>5, <2>1, UseStep, WearStep DEF SpendResource, advancement, equipment
<1>6. ASSUME NEW r \in Resource, NEW amount \in {1, 2}, RestoreResource(r, amount) PROVE IInv'
  <2>1. current' \in [Resource -> Nat] /\ \A q \in Resource : current'[q] <= maximum[q]
    BY <1>6 DEF RestoreResource, TypeOK, ResourcesCovered
  <2> QED
    BY <1>6, <2>1, UseStep, WearStep DEF RestoreResource, advancement, equipment
<1>7. ASSUME NEW i \in Item, Equip(i) PROVE IInv'
  <2>1. owned' \subseteq Item /\ UNCHANGED <<mode, levels, xp, marked, maximum, current>>
    BY <1>7 DEF Equip, TypeOK, advancement, resources
  <2> QED
    BY <1>7, <2>1, EquipStep, CarryStep
<1>8. ASSUME NEW i \in Item, Unequip(i) PROVE IInv'
  <2>1. owned' \subseteq Item /\ UNCHANGED <<mode, levels, xp, marked, maximum, current>>
    BY <1>8 DEF Unequip, TypeOK, advancement, resources
  <2> QED
    BY <1>8, <2>1, UnequipStep, CarryStep
<1>9. ASSUME NEW i \in Item, Gain(i) \/ LoseLast(i) PROVE IInv'
  <2>1. /\ UNCHANGED <<mode, levels, xp, marked, maximum, current, slots, attuned>>
        /\ owned' \subseteq Item /\ slots \in [Slot -> Item \cup {Empty}] /\ attuned \subseteq Item
    BY <1>9 DEF Gain, LoseLast, TypeOK, advancement, resources, equipment
  <2> QED
    BY <2>1, WearStep, CarryStep
<1>10. CASE UNCHANGED vars
  <2>1. TypeOK'
    BY <1>10 DEF TypeOK, vars
  <2>2. ResourcesCovered'
    BY <1>10 DEF ResourcesCovered, Bringers, MaximumFor, vars
  <2> QED
    BY <1>10, <2>1, <2>2, WearStep DEF vars
<1> QED
  BY <1>1, <1>2, <1>3, <1>4, <1>5, <1>6, <1>7, <1>8, <1>9, <1>10 DEF Next

THEOREM Inductive == Spec => []IInv
  BY InitStep, NextStep, PTL DEF Spec

----------------------------------------------------------------------------
\* Levels, resources, equipment and inventory keep their types, spending included.
THEOREM TypeCorrect == Spec => []TypeOK
<1>1. IInv => TypeOK
  BY DEF IInv
<1> QED
  BY <1>1, Inductive, PTL

\* No order of levels, classes, bonuses, rests and uses leaves a resource above
\* its maximum, or the maximum below what a class defines.
THEOREM ResourcesStayCovered == Spec => []ResourcesCovered
<1>1. IInv => ResourcesCovered
  BY DEF IInv
<1> QED
  BY <1>1, Inductive, PTL

\* Displacement never leaves half of an item in its slots, for any slots items claim.
THEOREM ItemsStayWhole == Spec => []WornWhole
<1>1. IInv => WornWhole
  BY DEF IInv
<1> QED
  BY <1>1, Inductive, PTL

\* Whatever is displaced, taken off or put on, only worn items are attuned, and
\* within the limit.
THEOREM AttunementIsWorn == Spec => []AttunedIsWorn
<1>1. IInv => AttunedIsWorn
  BY DEF IInv
<1> QED
  BY <1>1, Inductive, PTL

\* A level changes the maximum and the current value of a resource by the same.
THEOREM LevelsKeepSpent == Spec => SpentStaysSpent
<1> DEFINE ResourcesKept == levels' # levels =>
                     \A r \in Resource : maximum'[r] - current'[r] = maximum[r] - current[r]
<1>1. ASSUME IInv, Next PROVE ResourcesKept
  <2>1. ASSUME NEW c \in Class, LevelUp(c) PROVE ResourcesKept
    <3> DEFINE held == [levels EXCEPT ![c] = @ + 1]
    <3>1. /\ levels[c] < ClassLimit[c]
          /\ maximum' = [r \in Resource |-> Raised(c, r, held)]
          /\ current' = [r \in Resource |-> current[r] + (Raised(c, r, held) - maximum[r])]
      BY <2>1 DEF LevelUp
    <3>2. \A r \in Resource : Raised(c, r, held) \in Nat
      BY <1>1, <3>1, RaisedCovers DEF IInv
    <3>3. \A r \in Resource : maximum[r] \in Nat /\ current[r] \in Nat
      BY <1>1 DEF IInv, TypeOK
    <3> HIDE DEF held
    <3> QED
      BY <3>1, <3>2, <3>3
  <2>2. CASE ~ \E c \in Class : LevelUp(c)
    <3>1. levels' = levels
      BY <1>1, <2>2 DEF Next, AwardXp, MarkMilestone, TakeRest, SpendResource, RestoreResource,
                        Equip, Unequip, Gain, LoseLast, advancement
    <3> QED
      BY <3>1
  <2> QED
    BY <2>1, <2>2
<1>2. IInv /\ [Next]_vars => [ResourcesKept]_vars
  BY <1>1 DEF vars
<1> QED
  BY <1>2, Inductive, PTL DEF Spec, SpentStaysSpent
----------------------------------------------------------------------------
(* Where an actor stands: what the operators of Spatial return               *)

LEMMA LeastOf ==
  ASSUME NEW S \in SUBSET Nat, S # {}
  PROVE  \E x \in S : \A y \in S : x <= y
<1> DEFINE Lesser(x) == {y \in S : y < x}
           T == {Lesser(x) : x \in S}
<1>1. IsWellFoundedOn(StrictSubsetOrdering(S), FiniteSubsetsOf(S))
  BY FS_StrictSubsetOrderingWellFounded
<1>2. T \subseteq FiniteSubsetsOf(S) /\ T # {}
  <2>1. ASSUME NEW x \in S PROVE IsFiniteSet(Lesser(x))
    <3>1. \A y \in Lesser(x) : y \in 0..x
      OBVIOUS
    <3>2. IsFiniteSet(0..x)
      BY FS_Interval
    <3> QED
      BY <3>1, <3>2, FS_Subset
  <2> QED
    BY <2>1 DEF FiniteSubsetsOf
<1> HIDE DEF T
<1>3. PICK A \in T : \A B \in T : ~ (<<B, A>> \in StrictSubsetOrdering(S))
  BY <1>1, <1>2, WFMin
<1> USE DEF T
<1>4. PICK x \in S : A = Lesser(x)
  BY <1>3
<1>5. ASSUME NEW y \in S, y < x PROVE FALSE
  <2>1. \A z \in S : z < y => z < x
    BY <1>5
  <2>2. y \in Lesser(x) /\ y \notin Lesser(y)
    BY <1>5
  <2>3. <<Lesser(y), Lesser(x)>> \in StrictSubsetOrdering(S)
    BY <2>1, <2>2 DEF StrictSubsetOrdering
  <2> QED
    BY <1>3, <1>4, <2>3
<1> QED
  BY <1>5

\* The root of a number, cut.
LEMMA RootOf ==
  ASSUME NEW n \in Nat
  PROVE  Root(n) \in Nat /\ Root(n) * Root(n) <= n /\ n < (Root(n) + 1) * (Root(n) + 1)
<1> DEFINE S == {r \in Nat : n < (r + 1) * (r + 1)}
<1>1. n \in S
  <2>1. (n + 1) * (n + 1) = n * n + 2 * n + 1 /\ n * n >= 0
    OBVIOUS
  <2> QED
    BY <2>1
<1>2. PICK r \in S : \A x \in S : r <= x
  BY <1>1, LeastOf
<1>3. r * r <= n
  <2>1. CASE r = 0
    BY <2>1
  <2>2. CASE r # 0
    <3>1. r - 1 \in Nat /\ r - 1 \notin S
      BY <1>2, <2>2
    <3>2. ~(n < (r - 1 + 1) * (r - 1 + 1))
      BY <3>1
    <3>3. r - 1 + 1 = r
      OBVIOUS
    <3>4. r * r \in Nat
      OBVIOUS
    <3> QED
      BY <3>2, <3>3, <3>4
  <2> QED
    BY <2>1, <2>2
<1>4. r \in 0..n
  BY <1>1, <1>2
<1>5. \E x \in 0..n : x * x <= n /\ n < (x + 1) * (x + 1)
  BY <1>2, <1>3, <1>4
<1> HIDE DEF S
<1>6. Root(n) \in 0..n /\ Root(n) * Root(n) <= n /\ n < (Root(n) + 1) * (Root(n) + 1)
  BY <1>5, Zenon DEF Root
<1> QED
  BY <1>6

LEMMA SquareOf ==
  ASSUME NEW p \in Points, NEW q \in Points
  PROVE  Square(p, q) \in Nat /\ Square(p, q) = Square(q, p)
<1>1. p[1] \in Int /\ p[2] \in Int /\ q[1] \in Int /\ q[2] \in Int
  BY DEF Points
<1>2. ASSUME NEW x \in Int, NEW y \in Int
      PROVE  (x - y) * (x - y) \in Nat /\ (x - y) * (x - y) = (y - x) * (y - x)
  OBVIOUS
<1>3. /\ (p[1] - q[1]) * (p[1] - q[1]) \in Nat
      /\ (p[1] - q[1]) * (p[1] - q[1]) = (q[1] - p[1]) * (q[1] - p[1])
  BY <1>1, <1>2
<1>4. /\ (p[2] - q[2]) * (p[2] - q[2]) \in Nat
      /\ (p[2] - q[2]) * (p[2] - q[2]) = (q[2] - p[2]) * (q[2] - p[2])
  BY <1>1, <1>2
<1> QED
  BY <1>3, <1>4 DEF Square

LEMMA DistanceOf ==
  ASSUME NEW p \in Points, NEW q \in Points
  PROVE  Distance(p, q) \in Nat
<1>1. 100 * Square(p, q) \in Nat
  BY SquareOf
<1> QED
  BY <1>1, RootOf DEF Distance

\* A body that fits somewhere fits there when it is smaller.
LEMMA SmallerFits ==
  ASSUME NEW bodies, \A b \in bodies : b.at \in Points /\ b.size \in Nat,
         NEW p \in Points, NEW r \in Nat, NEW small \in Nat, small <= r,
         ~Collides(Field, bodies, p, r)
  PROVE  ~Collides(Field, bodies, p, small)
<1>1. /\ \A i \in 1..2 : p[i] \in Int /\ Field.low[i] \in Int /\ Field.high[i] \in Int
      /\ \A box \in Field.boxes : \A i \in 1..2 : box.low[i] \in Int /\ box.high[i] \in Int
  BY FieldAssumption DEF Points
<1>2. ~\E i \in 1..2 : p[i] < Field.low[i] + small \/ p[i] > Field.high[i] - small
  BY <1>1 DEF Collides
<1>3. ~\E box \in Field.boxes : box.solid /\ Contains(box, p, small)
  <2>1. ASSUME NEW box \in Field.boxes, Contains(box, p, small) PROVE Contains(box, p, r)
    BY <1>1, <2>1 DEF Contains
  <2> QED
    BY <2>1 DEF Collides
<1>4. ASSUME NEW b \in bodies PROVE ~(Square(b.at, p) < (small + b.size) * (small + b.size))
  <2>1. Square(b.at, p) \in Nat /\ b.size \in Nat
    BY SquareOf
  <2>2. ~(Square(b.at, p) < (r + b.size) * (r + b.size))
    BY DEF Collides
  <2>3. ASSUME NEW x \in Nat, NEW y \in Nat, x <= y PROVE x * x <= y * y
    BY <2>3
  <2>4. (small + b.size) * (small + b.size) <= (r + b.size) * (r + b.size)
    BY <2>1, <2>3
  <2>5. (small + b.size) * (small + b.size) \in Nat /\ (r + b.size) * (r + b.size) \in Nat
    BY <2>1
  <2> QED
    BY <2>1, <2>2, <2>4, <2>5
<1> QED
  BY <1>2, <1>3, <1>4 DEF Collides

----------------------------------------------------------------------------
(* Path search: the loop and its step                                       *)

\* What a recorded cost is: the least of the entries of its node.
LEMMA CostOfType ==
  ASSUME NEW costs, NEW n, \A c \in costs : c.cost \in Nat
  PROVE  /\ CostOf(costs, n) = NoPath \/ CostOf(costs, n) \in Nat
         /\ CostOf(costs, n) = NoPath <=> ~ \E c \in costs : c.at = n
         /\ \A c \in costs : c.at = n => CostOf(costs, n) <= c.cost
         /\ CostOf(costs, n) # NoPath => \E c \in costs : c.at = n /\ c.cost = CostOf(costs, n)
<1> DEFINE S == {c.cost : c \in {x \in costs : x.at = n}}
<1>1. CASE {x \in costs : x.at = n} = {}
  BY <1>1 DEF CostOf, NoPath
<1>2. CASE {x \in costs : x.at = n} # {}
  <2>1. S \subseteq Nat /\ S # {}
    BY <1>2
  <2>2. \E x \in S : \A y \in S : x <= y
    BY <2>1, LeastOf
  <2>3. \A x \in S : \E c \in costs : c.at = n /\ c.cost = x
    OBVIOUS
  <2>4. \A c \in costs : c.at = n => c.cost \in S
    OBVIOUS
  <2>5. CostOf(costs, n) = Min(S)
    BY <1>2 DEF CostOf
  <2> HIDE DEF S
  <2>6. Min(S) \in S /\ \A y \in S : Min(S) <= y
    BY <2>2 DEF Min
  <2>9. CostOf(costs, n) \in S /\ \A y \in S : CostOf(costs, n) <= y
    BY <2>5, <2>6
  <2>10. CostOf(costs, n) \in Nat
    BY <2>1, <2>9
  <2>7. CostOf(costs, n) \in S /\ CostOf(costs, n) \in Nat /\ CostOf(costs, n) # NoPath
    BY <2>9, <2>10 DEF NoPath
  <2>8. \E c \in costs : c.at = n /\ c.cost = CostOf(costs, n)
    BY <2>3, <2>7
  <2> QED
    BY <2>4, <2>7, <2>8, <2>9
<1> QED
  BY <1>1, <1>2

\* The entry taken from the heap, its recorded cost, the moves that pay.
Popped(s) == CHOOSE c \in s.open : \A o \in s.open : c.f <= o.f
SoFar(s) == CostOf(s.costs, Popped(s).at)
Better(s, steps) ==
    {m \in steps[Popped(s).at] : \A c \in s.costs : c.at = m.to => SoFar(s) + m.cost < c.cost}
Reopened(s, steps, ahead) ==
    {[at |-> m.to, f |-> SoFar(s) + m.cost + ahead[m.to]] : m \in Better(s, steps)}
Recorded(s, steps) == {[at |-> m.to, cost |-> SoFar(s) + m.cost] : m \in Better(s, steps)}

LEMMA ExpandOf ==
  ASSUME NEW s, NEW steps, NEW ahead
  PROVE  Expand(s, steps, ahead) =
           [open  |-> (s.open \ {Popped(s)}) \cup Reopened(s, steps, ahead),
            costs |-> {c \in s.costs : \A m \in Better(s, steps) : m.to # c.at} \cup Recorded(s, steps)]
BY DEF Expand, Popped, SoFar, Better, Reopened, Recorded

LEMMA PoppedOf ==
  ASSUME NEW s, NEW goal, ~Finished(s, goal), \A o \in s.open : o.f \in Nat
  PROVE  Popped(s) \in s.open /\ \A o \in s.open : Popped(s).f <= o.f
<1> DEFINE S == {c.f : c \in s.open}
<1>1. S \subseteq Nat /\ S # {}
  BY DEF Finished
<1>2. PICK x \in S : \A y \in S : x <= y
  BY <1>1, LeastOf
<1>3. \E c \in s.open : \A o \in s.open : c.f <= o.f
  BY <1>2
<1> QED
  BY <1>3, Zenon DEF Popped

\* One pass of the search loop.
Pass(s, goal, steps, ahead) == IF Finished(s, goal) THEN s ELSE Expand(s, steps, ahead)
Begun(start) == [open |-> {[at |-> start, f |-> 0]}, costs |-> {[at |-> start, cost |-> 0]}]

\* run: K passes of the loop, from the start.
Passes(run, K, start, goal, steps, ahead) ==
    /\ run[0] = Begun(start)
    /\ \A n \in 1..K : run[n] = Pass(run[n - 1], goal, steps, ahead)

\* A set of numbers without a first is empty.
LEMMA NoFirst ==
  ASSUME NEW S \in SUBSET Nat, \A k \in S : k # 0 /\ k - 1 \in S
  PROVE  S = {}
<1>1. ASSUME S # {} PROVE FALSE
  <2>1. PICK k \in S : \A j \in S : k <= j
    BY <1>1, LeastOf
  <2>2. k - 1 \in S /\ k \in Nat
    BY <2>1
  <2>3. k <= k - 1
    BY <2>1, <2>2
  <2> QED
    BY <2>2, <2>3
<1> QED
  BY <1>1

\* The passes are a recursive function: they exist, by their number.
LEMMA PassesExist ==
  ASSUME NEW K \in Nat, NEW start, NEW goal, NEW steps, NEW ahead
  PROVE  \E run : Passes(run, K, start, goal, steps, ahead)
<1> DEFINE Without == {k \in Nat : ~\E run : Passes(run, k, start, goal, steps, ahead)}
<1>1. ASSUME NEW k \in Without PROVE k # 0 /\ k - 1 \in Without
  <2>1. Passes([n \in 0..0 |-> Begun(start)], 0, start, goal, steps, ahead)
    BY DEF Passes
  <2>2. k # 0
    BY <2>1
  <2>3. ASSUME NEW f, Passes(f, k - 1, start, goal, steps, ahead) PROVE FALSE
    <3> DEFINE g == [n \in 0..k |-> IF n = k THEN Pass(f[k - 1], goal, steps, ahead) ELSE f[n]]
    <3>1. k \in Nat /\ k - 1 \in Nat
      BY <2>2
    <3>2. g[k] = Pass(f[k - 1], goal, steps, ahead) /\ \A n \in 0..(k - 1) : g[n] = f[n]
      BY <3>1
    <3>3. 0 \in 0..(k - 1) /\ k - 1 \in 0..(k - 1)
      BY <3>1
    <3>4. \A n \in 1..k : n # k => n \in 1..(k - 1) /\ n \in 0..(k - 1) /\ n - 1 \in 0..(k - 1)
      BY <3>1
    <3> HIDE DEF g
    <3>5. g[0] = Begun(start)
      BY <2>3, <3>2, <3>3 DEF Passes
    <3>6. ASSUME NEW n \in 1..k PROVE g[n] = Pass(g[n - 1], goal, steps, ahead)
      <4>1. CASE n = k
        BY <3>2, <3>3, <4>1
      <4>2. CASE n # k
        BY <2>3, <3>2, <3>4, <4>2 DEF Passes
      <4> QED
        BY <4>1, <4>2
    <3>7. Passes(g, k, start, goal, steps, ahead)
      BY <3>5, <3>6 DEF Passes
    <3> QED
      BY <3>7
  <2> QED
    BY <2>2, <2>3
<1>2. Without = {}
  <2>1. Without \in SUBSET Nat
    OBVIOUS
  <2> HIDE DEF Without
  <2> QED
    BY <1>1, <2>1, NoFirst
<1> QED
  BY <1>2

\* A finite set of numbers has a greatest one.
LEMMA GreatestOf ==
  ASSUME NEW S \in SUBSET Nat, IsFiniteSet(S), S # {}
  PROVE  Max(S) \in S /\ \A y \in S : y <= Max(S)
<1> DEFINE Has(T) == \E x \in T : \A y \in T : x >= y
           Without == {k \in Nat : \E T \in SUBSET S : T # {} /\ Cardinality(T) = k /\ ~Has(T)}
<1>1. ASSUME NEW k \in Without PROVE k # 0 /\ k - 1 \in Without
  <2>1. PICK T \in SUBSET S : T # {} /\ Cardinality(T) = k /\ ~Has(T)
    OBVIOUS
  <2>2. PICK x \in T : TRUE
    BY <2>1
  <2>3. IsFiniteSet(T)
    BY FS_Subset
  <2>4. Cardinality(T \ {x}) = k - 1 /\ IsFiniteSet(T \ {x})
    BY <2>1, <2>2, <2>3, FS_RemoveElement
  <2>5. k - 1 \in Nat
    BY <2>4, FS_CardinalityType
  <2>6. ~(\A y \in T : x >= y)
    BY <2>1, <2>2
  <2>7. PICK z \in T : z > x /\ z # x
    BY <2>2, <2>6
  <2>8. ASSUME NEW u \in T \ {x}, \A y \in T \ {x} : u >= y PROVE FALSE
    <3>1. u >= z /\ u \in Nat /\ z \in Nat /\ x \in Nat
      BY <2>2, <2>7, <2>8
    <3>2. \A y \in T : u >= y
      BY <2>7, <2>8, <3>1
    <3> QED
      BY <2>1, <2>8, <3>2
  <2>9. ~Has(T \ {x}) /\ T \ {x} # {} /\ T \ {x} \in SUBSET S
    BY <2>7, <2>8
  <2> QED
    BY <2>4, <2>5, <2>9
<1>2. Without = {}
  <2>1. Without \in SUBSET Nat
    OBVIOUS
  <2> HIDE DEF Without
  <2> QED
    BY <1>1, <2>1, NoFirst
<1>3. Cardinality(S) \in Nat
  BY FS_CardinalityType
<1>4. Has(S)
  BY <1>2, <1>3
<1>5. Max(S) \in S /\ \A y \in S : Max(S) >= y
  BY <1>4, Zenon DEF Max
<1>6. \A y \in S : y \in Nat
  OBVIOUS
<1> QED
  BY <1>5, <1>6

\* The moves of a graph: one at most from a node to a node.
Moves(nodes, steps) ==
    /\ \A n \in nodes : steps[n] \subseteq [to : nodes, cost : Nat]
    /\ \A n \in nodes : \A m \in steps[n], o \in steps[n] : m.to = o.to => m = o

DearestMove(nodes, steps) == Max({0} \cup {m.cost : m \in UNION {steps[n] : n \in nodes}})

LEMMA ImageBound ==
  ASSUME NEW S, NEW T, IsFiniteSet(T), NEW f \in [S -> T],
         \A x \in S, y \in S : f[x] = f[y] => x = y
  PROVE  IsFiniteSet(S) /\ Cardinality(S) <= Cardinality(T)
<1>1. f \in Injection(S, T)
  BY DEF Injection, IsInjective
<1> QED
  BY <1>1, FS_Injection

LEMMA ImageOf ==
  ASSUME NEW S, IsFiniteSet(S), NEW f, DOMAIN f = S
  PROVE  LET T == {f[x] : x \in S} IN IsFiniteSet(T) /\ Cardinality(T) <= Cardinality(S)
<1> DEFINE T == {f[x] : x \in S}
           g == [x \in S |-> f[x]]
<1>1. g \in [S -> T] /\ \A y \in T : \E x \in S : g[x] = y
  OBVIOUS
<1> HIDE DEF g, T
<1>2. g \in Surjection(S, T)
  BY <1>1 DEF Surjection
<1>3. IsFiniteSet(T) /\ Cardinality(T) <= Cardinality(S)
  BY <1>2, FS_Surjection
<1> QED
  BY <1>3 DEF T

\* No move costs more than the dearest one.
LEMMA DearestOf ==
  ASSUME NEW nodes, IsFiniteSet(nodes), NEW steps, Moves(nodes, steps)
  PROVE  /\ DearestMove(nodes, steps) \in Nat
         /\ \A n \in nodes : \A m \in steps[n] : m.cost <= DearestMove(nodes, steps)
<1> DEFINE all   == UNION {steps[n] : n \in nodes}
           costs == {m.cost : m \in all}
<1>1. ASSUME NEW n \in nodes PROVE IsFiniteSet(steps[n])
  <2> DEFINE f == [m \in steps[n] |-> m.to]
  <2>1. f \in [steps[n] -> nodes] /\ \A m \in steps[n], o \in steps[n] : f[m] = f[o] => m = o
    BY DEF Moves
  <2> HIDE DEF f
  <2> QED
    BY <2>1, ImageBound
<1>2. IsFiniteSet(all)
  <2> DEFINE f == [n \in nodes |-> steps[n]]
             each == {f[n] : n \in nodes}
  <2>1. IsFiniteSet(each)
    <3> DOMAIN f = nodes
      OBVIOUS
    <3> HIDE DEF f
    <3> QED
      BY ImageOf
  <2>2. each = {steps[n] : n \in nodes}
    OBVIOUS
  <2>3. \A T \in {steps[n] : n \in nodes} : IsFiniteSet(T)
    BY <1>1
  <2> HIDE DEF each
  <2> QED
    BY <2>1, <2>2, <2>3, FS_UNION
<1>3. IsFiniteSet(costs)
  <2> HIDE DEF all
  <2> DEFINE f == [m \in all |-> m.cost]
  <2>1. {f[m] : m \in all} = costs
    OBVIOUS
  <2>2. IsFiniteSet({f[m] : m \in all})
    <3> DOMAIN f = all
      OBVIOUS
    <3> HIDE DEF f
    <3> QED
      BY <1>2, ImageOf
  <2> QED
    BY <2>1, <2>2
<1>4. costs \subseteq Nat
  BY DEF Moves
<1>5. \A n \in nodes : \A m \in steps[n] : m.cost \in costs
  OBVIOUS
<1>6. DearestMove(nodes, steps) = Max({0} \cup costs)
  BY DEF DearestMove
<1> HIDE DEF costs, all
<1>7. IsFiniteSet({0} \cup costs)
  BY <1>3, FS_Singleton, FS_Union
<1>8. /\ Max({0} \cup costs) \in {0} \cup costs
      /\ \A y \in {0} \cup costs : y <= Max({0} \cup costs)
  <2> DEFINE S == {0} \cup costs
  <2>1. S \in SUBSET Nat /\ S # {} /\ IsFiniteSet(S)
    BY <1>4, <1>7
  <2> HIDE DEF S
  <2>2. Max(S) \in S /\ \A y \in S : y <= Max(S)
    BY <2>1, GreatestOf
  <2> QED
    BY <2>2 DEF S
<1>9. DearestMove(nodes, steps) \in {0} \cup costs
  BY <1>6, <1>8, Zenon
<1>10. DearestMove(nodes, steps) \in Nat
  <2>1. {0} \cup costs \subseteq Nat
    BY <1>4
  <2> QED
    BY <1>9, <2>1, Zenon
<1>11. ASSUME NEW n \in nodes, NEW m \in steps[n] PROVE m.cost <= DearestMove(nodes, steps)
  BY <1>5, <1>6, <1>8, Zenon
<1> QED
  BY <1>10, <1>11


\* What a state of the search among some nodes holds: entries of these nodes, and
\* a cost for whatever is open.
Tidy(s, places) ==
    /\ s = [open |-> s.open, costs |-> s.costs]
    /\ s.open \subseteq [at : places, f : Nat]
    /\ s.costs \subseteq [at : places, cost : Nat]
    /\ \A o \in s.open : \E c \in s.costs : c.at = o.at

LEMMA ExpandTidy ==
  ASSUME NEW places, NEW goal, NEW steps, NEW ahead, NEW s,
         \A n \in places : \A m \in steps[n] : m.to \in places /\ m.cost \in Nat,
         \A n \in places : ahead[n] \in Nat,
         Tidy(s, places), ~Finished(s, goal)
  PROVE  Tidy(Expand(s, steps, ahead), places)
<1>1. Popped(s) \in s.open
  BY PoppedOf DEF Tidy
<1>2. Popped(s).at \in places
  BY <1>1 DEF Tidy
<1>3. SoFar(s) \in Nat
  BY <1>1, CostOfType DEF Tidy, SoFar
<1>4. \A m \in Better(s, steps) : m.to \in places /\ m.cost \in Nat /\ ahead[m.to] \in Nat
  BY <1>2 DEF Better
<1>6. Reopened(s, steps, ahead) \subseteq [at : places, f : Nat]
  BY <1>3, <1>4 DEF Reopened
<1>7. Recorded(s, steps) \subseteq [at : places, cost : Nat]
  BY <1>3, <1>4 DEF Recorded
<1> DEFINE t == Expand(s, steps, ahead)
<1>8. t.open = (s.open \ {Popped(s)}) \cup Reopened(s, steps, ahead)
  BY ExpandOf
<1>9. t.costs = {c \in s.costs : \A m \in Better(s, steps) : m.to # c.at} \cup Recorded(s, steps)
  BY ExpandOf
<1>5. t = [open |-> t.open, costs |-> t.costs]
  BY ExpandOf
<1> HIDE DEF t
<1>10. ASSUME NEW m \in Better(s, steps) PROVE \E c \in t.costs : c.at = m.to
  <2>1. [at |-> m.to, cost |-> SoFar(s) + m.cost] \in Recorded(s, steps)
    BY DEF Recorded
  <2> QED
    BY <1>9, <2>1
<1>11. ASSUME NEW c \in s.costs PROVE \E d \in t.costs : d.at = c.at
  BY <1>9, <1>10
<1>12. \A o \in t.open : \E c \in t.costs : c.at = o.at
  <2>1. ASSUME NEW o \in Reopened(s, steps, ahead) PROVE \E c \in t.costs : c.at = o.at
    BY <1>10 DEF Reopened
  <2> QED
    BY <1>8, <1>11, <2>1 DEF Tidy
<1> QED
  BY <1>5, <1>6, <1>7, <1>8, <1>9, <1>12 DEF Tidy, t

LEMMA BegunTidy ==
  ASSUME NEW places, NEW start \in places
  PROVE  Tidy(Begun(start), places)
<1>1. Begun(start).open = {[at |-> start, f |-> 0]} /\ Begun(start).costs = {[at |-> start, cost |-> 0]}
  BY DEF Begun
<1>2. /\ [at |-> start, f |-> 0] \in [at : places, f : Nat]
      /\ [at |-> start, cost |-> 0] \in [at : places, cost : Nat]
  OBVIOUS
<1>3. \A o \in Begun(start).open : \E c \in Begun(start).costs : c.at = o.at
  BY <1>1
<1>4. Begun(start) = [open |-> Begun(start).open, costs |-> Begun(start).costs]
  BY DEF Begun
<1> QED
  BY <1>1, <1>2, <1>3, <1>4 DEF Tidy

LEMMA PassesTidy ==
  ASSUME NEW places, NEW start \in places, NEW goal, NEW steps, NEW ahead, NEW K \in Nat, NEW run,
         \A n \in places : \A m \in steps[n] : m.to \in places /\ m.cost \in Nat,
         \A n \in places : ahead[n] \in Nat,
         Passes(run, K, start, goal, steps, ahead)
  PROVE  \A n \in 0..K : Tidy(run[n], places)
<1> DEFINE Broken == {n \in 0..K : ~Tidy(run[n], places)}
<1>1. ASSUME NEW k \in Broken PROVE k # 0 /\ k - 1 \in Broken
  <2>1. k # 0
    BY BegunTidy DEF Passes
  <2>2. k \in 1..K /\ k - 1 \in 0..K
    BY <2>1
  <2>3. run[k] = Pass(run[k - 1], goal, steps, ahead)
    BY <2>2 DEF Passes
  <2>4. ASSUME Tidy(run[k - 1], places) PROVE Tidy(run[k], places)
    BY <2>3, <2>4, ExpandTidy DEF Pass
  <2> QED
    BY <2>1, <2>2, <2>4
<1>2. Broken = {}
  <2>1. Broken \in SUBSET Nat
    OBVIOUS
  <2> HIDE DEF Broken
  <2> QED
    BY <1>1, <2>1, NoFirst
<1> QED
  BY <1>2

\* The number of passes a search may take.
MostPasses(nodes, steps) ==
    Cardinality(nodes) * (Cardinality(nodes) * DearestMove(nodes, steps) + 1) + 1

LEMMA MostPassesType ==
  ASSUME NEW nodes, IsFiniteSet(nodes), NEW steps, Moves(nodes, steps)
  PROVE  MostPasses(nodes, steps) \in Nat
<1>1. Cardinality(nodes) \in Nat /\ DearestMove(nodes, steps) \in Nat
  BY FS_CardinalityType, DearestOf
<1>2. ASSUME NEW a \in Nat, NEW b \in Nat PROVE a * (a * b + 1) + 1 \in Nat
  <2>1. a * b \in Nat
    OBVIOUS
  <2> DEFINE c == a * b + 1
  <2>2. c \in Nat
    BY <2>1
  <2> HIDE DEF c
  <2>3. a * c \in Nat
    BY <2>2
  <2> QED
    BY <2>3 DEF c
<1> QED
  BY <1>1, <1>2 DEF MostPasses

\* The search returns what is recorded of the goal after that many passes: the
\* loop of the definition, which stops as soon as it has finished, takes each
\* state of the passes to the last one.
LEMMA SearchRuns ==
  ASSUME NEW nodes, IsFiniteSet(nodes), NEW start \in nodes, NEW goal, NEW steps, NEW ahead,
         Moves(nodes, steps), \A n \in nodes : ahead[n] \in Nat, NEW run,
         Passes(run, MostPasses(nodes, steps), start, goal, steps, ahead)
  PROVE  Search(nodes, start, goal, steps, ahead) = CostOf(run[MostPasses(nodes, steps)].costs, goal)
<1> DEFINE K      == MostPasses(nodes, steps)
           States == [open : SUBSET [at : nodes, f : Nat], costs : SUBSET [at : nodes, cost : Nat]]
           Done(s) == Finished(s, goal)
           Grown(s) == Expand(s, steps, ahead)
           first   == [s \in States |-> s]
           More(h) == [s \in States |-> IF Done(s) THEN s ELSE h[Grown(s)]]
           Loop(f, k) == f = [n \in 0..k |-> IF n = 0 THEN first ELSE More(f[n - 1])]
           loop == CHOOSE f : Loop(f, K)
<1>1. Search(nodes, start, goal, steps, ahead) = CostOf(loop[K][Begun(start)].costs, goal)
  BY Zenon DEF Search, Begun, MostPasses, DearestMove
<1>2. K \in Nat
  BY MostPassesType
<1>3. \A n \in 0..K : run[n] \in States
  <2>1. \A n \in nodes : \A m \in steps[n] : m.to \in nodes /\ m.cost \in Nat
    BY DEF Moves
  <2>2. \A n \in 0..K : Tidy(run[n], nodes)
    BY <1>2, <2>1, PassesTidy
  <2>3. ASSUME NEW s, Tidy(s, nodes) PROVE s \in States
    BY <2>3 DEF Tidy
  <2> QED
    BY <2>2, <2>3
<1>4. \A n \in 1..K : run[n] = IF Done(run[n - 1]) THEN run[n - 1] ELSE Grown(run[n - 1])
  BY DEF Passes, Pass
<1>5. run[0] = Begun(start)
  BY DEF Passes
<1> HIDE DEF K, States, Done, Grown, first, More
<1>6. \E f : Loop(f, K)
  <2> DEFINE Without == {k \in Nat : ~\E f : Loop(f, k)}
  <2>1. ASSUME NEW k \in Without PROVE k # 0 /\ k - 1 \in Without
    <3>1. Loop([n \in 0..0 |-> first], 0)
      OBVIOUS
    <3>2. k # 0
      BY <3>1
    <3>3. ASSUME NEW f, Loop(f, k - 1) PROVE FALSE
      <4> DEFINE g == [n \in 0..k |-> IF n = 0 THEN first ELSE More(f[n - 1])]
      <4>1. k \in Nat /\ k - 1 \in Nat
        BY <3>2
      <4>2. \A n \in 0..(k - 1) : g[n] = f[n]
        BY <3>3, <4>1
      <4>3. \A n \in 0..k : n # 0 => n - 1 \in 0..(k - 1)
        BY <4>1
      <4>4. Loop(g, k)
        BY <4>2, <4>3
      <4> QED
        BY <4>4
    <3> QED
      BY <3>2, <3>3
  <2>2. Without = {}
    <3>1. Without \in SUBSET Nat
      OBVIOUS
    <3> HIDE DEF Without
    <3> QED
      BY <2>1, <3>1, NoFirst
  <2> QED
    BY <1>2, <2>2
<1>7. Loop(loop, K)
  BY <1>6, Zenon
<1> HIDE DEF loop
<1>8. ASSUME NEW n \in 0..K, NEW s \in States
      PROVE  loop[n][s] = IF n = 0 \/ Done(s) THEN s ELSE loop[n - 1][Grown(s)]
  <2>1. loop[n] = IF n = 0 THEN first ELSE More(loop[n - 1])
    BY <1>7
  <2>2. first[s] = s /\ \A h : More(h)[s] = IF Done(s) THEN s ELSE h[Grown(s)]
    BY DEF first, More
  <2> QED
    BY <2>1, <2>2
<1> DEFINE Astray == {n \in 0..K : loop[K - n][run[n]] # loop[K][run[0]]}
<1>9. ASSUME NEW k \in Astray PROVE k # 0 /\ k - 1 \in Astray
  <2>1. k # 0
    BY <1>2
  <2>2. k \in 1..K /\ k - 1 \in 0..K /\ K - k \in 0..K /\ K - (k - 1) \in 0..K /\ K - (k - 1) # 0
        /\ K - (k - 1) - 1 = K - k
    BY <1>2, <2>1
  <2>3. loop[K - (k - 1)][run[k - 1]] =
          IF Done(run[k - 1]) THEN run[k - 1] ELSE loop[K - k][Grown(run[k - 1])]
    BY <1>3, <1>8, <2>2
  <2>4. loop[K - (k - 1)][run[k - 1]] = loop[K - k][run[k]]
    <3>1. CASE Done(run[k - 1])
      <4>1. run[k] = run[k - 1]
        BY <1>4, <2>2, <3>1
      <4>2. loop[K - k][run[k]] = run[k]
        BY <1>3, <1>8, <2>2, <3>1, <4>1
      <4> QED
        BY <2>3, <3>1, <4>1, <4>2
    <3>2. CASE ~Done(run[k - 1])
      BY <1>4, <2>2, <2>3, <3>2
    <3> QED
      BY <3>1, <3>2
  <2> QED
    BY <2>1, <2>2, <2>4
<1>10. Astray = {}
  <2>1. Astray \in SUBSET Nat
    BY <1>2
  <2> HIDE DEF Astray
  <2> QED
    BY <1>9, <2>1, NoFirst
<1>11. loop[K - K][run[K]] = loop[K][run[0]]
  BY <1>2, <1>10
<1>12. loop[0][run[K]] = run[K]
  BY <1>2, <1>3, <1>8
<1>13. loop[K][Begun(start)] = run[K]
  BY <1>2, <1>5, <1>11, <1>12
<1> QED
  BY <1>1, <1>13 DEF K

\* The search ends without a path where no edge leads to the goal.
LEMMA NeverArrives ==
  ASSUME NEW nodes, IsFiniteSet(nodes), NEW start \in nodes, NEW goal, start # goal,
         NEW steps, NEW ahead, Moves(nodes, steps),
         \A n \in nodes : \A m \in steps[n] : m.to # goal,
         \A n \in nodes : ahead[n] \in Nat
  PROVE  Search(nodes, start, goal, steps, ahead) = NoPath
<1> DEFINE K == MostPasses(nodes, steps)
           places == nodes \ {goal}
<1>1. K \in Nat /\ K \in 0..K
  BY MostPassesType
<1>2. PICK run : Passes(run, K, start, goal, steps, ahead)
  BY <1>1, PassesExist
<1>3. Search(nodes, start, goal, steps, ahead) = CostOf(run[K].costs, goal)
  BY <1>2, SearchRuns
<1>4. \A n \in places : \A m \in steps[n] : m.to \in places /\ m.cost \in Nat
  BY DEF Moves
<1> HIDE DEF K
<1>5. Tidy(run[K], places)
  <2>1. start \in places /\ \A n \in places : ahead[n] \in Nat
    OBVIOUS
  <2> HIDE DEF places
  <2> QED
    BY <1>1, <1>2, <1>4, <2>1, PassesTidy
<1>6. ~ \E c \in run[K].costs : c.at = goal
  BY <1>5 DEF Tidy
<1>7. \A c \in run[K].costs : c.cost \in Nat
  BY <1>5 DEF Tidy
<1>8. CostOf(run[K].costs, goal) = NoPath
  BY <1>6, <1>7, CostOfType
<1> QED
  BY <1>3, <1>8

----------------------------------------------------------------------------
(* Path search: an estimate that never falls by more than a step costs       *)

Weighted(nodes, steps, ahead) ==
    /\ \A n \in nodes : steps[n] \subseteq [to : nodes, cost : Nat] /\ ahead[n] \in Nat
    /\ \A n \in nodes : \A m \in steps[n], o \in steps[n] : m.to = o.to => m = o
    /\ \A n \in nodes : \A m \in steps[n] : ahead[n] <= m.cost + ahead[m.to]

\* The state of the search when the nodes of closed have been expanded at their
\* final costs: what is open is worth no less than a recorded cost promises, what
\* is not closed is open at its promise, what is closed has improved its
\* neighbours and promises no more than anything open.
Searched(s, closed, nodes, start, steps, ahead) ==
    /\ s.open \subseteq [at : nodes, f : Nat]
    /\ s.costs \subseteq [at : nodes, cost : Nat]
    /\ \A c \in s.costs, d \in s.costs : c.at = d.at => c = d
    /\ \E c \in s.costs : c.at = start /\ c.cost = 0
    /\ \A n \in closed : \E c \in s.costs : c.at = n
    /\ \A o \in s.open : \E c \in s.costs : c.at = o.at /\ c.cost + ahead[c.at] <= o.f
    /\ \A c \in s.costs : c.at \notin closed => \E o \in s.open : o.at = c.at /\ o.f = c.cost + ahead[c.at]
    /\ \A c \in s.costs : c.at \in closed =>
           \A m \in steps[c.at] : \E d \in s.costs : d.at = m.to /\ d.cost <= c.cost + m.cost
    /\ \A c \in s.costs : c.at \in closed => \A o \in s.open : c.cost + ahead[c.at] <= o.f

\* A node that is taken from the heap again, closed, improves nothing.
LEMMA ExpandAgain ==
  ASSUME NEW nodes, NEW start, NEW goal, NEW steps, NEW ahead, NEW s, NEW closed \in SUBSET nodes,
         Weighted(nodes, steps, ahead), Searched(s, closed, nodes, start, steps, ahead),
         ~Finished(s, goal), Popped(s).at \in closed
  PROVE  /\ Expand(s, steps, ahead) = [open |-> s.open \ {Popped(s)}, costs |-> s.costs]
         /\ Searched(Expand(s, steps, ahead), closed, nodes, start, steps, ahead)
<1>1. Popped(s) \in s.open
  BY PoppedOf DEF Searched
<1>2. PICK c0 \in s.costs : c0.at = Popped(s).at
  BY <1>1 DEF Searched
<1>3. SoFar(s) = c0.cost
  <2>1. \A c \in s.costs : c.cost \in Nat
    BY DEF Searched
  <2>2. \E c \in s.costs : c.at = Popped(s).at /\ c.cost = SoFar(s)
    BY <1>2, <2>1, CostOfType DEF SoFar
  <2> QED
    BY <1>2, <2>2 DEF Searched
<1>4. Better(s, steps) = {}
  <2>1. ASSUME NEW m \in steps[Popped(s).at]
        PROVE  ~ \A c \in s.costs : c.at = m.to => SoFar(s) + m.cost < c.cost
    <3>1. PICK d \in s.costs : d.at = m.to /\ d.cost <= c0.cost + m.cost
      BY <1>2 DEF Searched
    <3>2. d.cost \in Nat /\ c0.cost \in Nat /\ m.cost \in Nat
      BY <1>2 DEF Searched, Weighted
    <3> QED
      BY <1>3, <3>1, <3>2
  <2> QED
    BY <2>1 DEF Better
<1>5. Reopened(s, steps, ahead) = {} /\ Recorded(s, steps) = {}
  BY <1>4 DEF Reopened, Recorded
<1>6. Expand(s, steps, ahead) = [open |-> s.open \ {Popped(s)}, costs |-> s.costs]
  BY <1>4, <1>5, ExpandOf
<1> DEFINE t == Expand(s, steps, ahead)
<1>7. t.open = s.open \ {Popped(s)} /\ t.costs = s.costs
  BY <1>6
<1> HIDE DEF t
<1>8. Searched(t, closed, nodes, start, steps, ahead)
  <2>1. \A c \in t.costs : c.at \notin closed => \E o \in t.open : o.at = c.at /\ o.f = c.cost + ahead[c.at]
    BY <1>7 DEF Searched
  <2> QED
    BY <1>7, <2>1 DEF Searched
<1> QED
  BY <1>6, <1>8 DEF t

\* A node that is taken from the heap for the first time has its final cost.
LEMMA ExpandFirst ==
  ASSUME NEW nodes, NEW start, NEW goal, NEW steps, NEW ahead, NEW s, NEW closed \in SUBSET nodes,
         Weighted(nodes, steps, ahead), Searched(s, closed, nodes, start, steps, ahead),
         ~Finished(s, goal), Popped(s).at \notin closed
  PROVE  LET t    == Expand(s, steps, ahead)
             more == closed \cup {Popped(s).at}
         IN  /\ Searched(t, more, nodes, start, steps, ahead)
             /\ \E c \in s.costs : c.at = Popped(s).at /\ c.cost = SoFar(s)
             /\ \A m \in Better(s, steps) : m.to \in nodes \ {Popped(s).at} /\ m.cost \in Nat
<1> DEFINE e == Popped(s)
           more == closed \cup {e.at}
<1>1. e \in s.open /\ \A o \in s.open : e.f <= o.f
  BY PoppedOf DEF Searched
<1>2. PICK c0 \in s.costs : c0.at = e.at
  BY <1>1 DEF Searched
<1>3. SoFar(s) = c0.cost
  <2>1. \A c \in s.costs : c.cost \in Nat
    BY DEF Searched
  <2>2. \E c \in s.costs : c.at = Popped(s).at /\ c.cost = SoFar(s)
    BY <1>2, <2>1, CostOfType DEF SoFar
  <2> QED
    BY <1>2, <2>2 DEF Searched
<1> HIDE DEF e
<1>4. e.at \in nodes /\ e.f \in Nat /\ c0.cost \in Nat /\ ahead[e.at] \in Nat
  BY <1>1, <1>2 DEF Searched, Weighted
<1>5. e.f = c0.cost + ahead[e.at]
  <2>1. PICK c \in s.costs : c.at = e.at /\ c.cost + ahead[c.at] <= e.f
    BY <1>1 DEF Searched
  <2>2. c = c0
    BY <1>2, <2>1 DEF Searched
  <2>3. c0.at \notin closed
    BY <1>2 DEF e
  <2>4. PICK o \in s.open : o.at = c0.at /\ o.f = c0.cost + ahead[c0.at]
    BY <2>3 DEF Searched
  <2>5. e.f <= o.f
    BY <1>1
  <2> QED
    BY <1>2, <1>4, <2>1, <2>2, <2>4, <2>5
<1>6. \A m \in steps[e.at] : /\ m.to \in nodes /\ m.cost \in Nat /\ ahead[m.to] \in Nat
                             /\ ahead[e.at] <= m.cost + ahead[m.to]
  BY <1>4 DEF Weighted
<1>7. Better(s, steps) = {m \in steps[e.at] : \A c \in s.costs : c.at = m.to => c0.cost + m.cost < c.cost}
  BY <1>3 DEF Better, e
<1>8. ASSUME NEW m \in Better(s, steps) PROVE m.to \notin more /\ m \in steps[e.at] /\ m.to \in nodes
  <2>1. m \in steps[e.at] /\ \A c \in s.costs : c.at = m.to => c0.cost + m.cost < c.cost
    BY <1>7
  <2>2. m.to # e.at
    BY <1>2, <1>4, <1>6, <2>1
  <2>3. ASSUME m.to \in closed PROVE FALSE
    <3>1. PICK c \in s.costs : c.at = m.to
      BY <2>3 DEF Searched
    <3>2. c.cost + ahead[m.to] <= e.f
      BY <1>1, <2>3, <3>1 DEF Searched
    <3>3. c.cost \in Nat
      BY DEF Searched
    <3> QED
      BY <1>4, <1>5, <1>6, <2>1, <3>1, <3>2, <3>3
  <2> QED
    BY <1>6, <2>1, <2>2, <2>3
<1> DEFINE t == Expand(s, steps, ahead)
<1>9. /\ t.open = (s.open \ {e}) \cup Reopened(s, steps, ahead)
      /\ t.costs = {c \in s.costs : \A m \in Better(s, steps) : m.to # c.at} \cup Recorded(s, steps)
  BY ExpandOf DEF e
<1> HIDE DEF t
\* What is in the new sets.
<1>10. ASSUME NEW o \in Reopened(s, steps, ahead)
       PROVE  \E m \in Better(s, steps) : o = [at |-> m.to, f |-> c0.cost + m.cost + ahead[m.to]]
  BY <1>3 DEF Reopened
<1>11. ASSUME NEW c \in Recorded(s, steps)
       PROVE  \E m \in Better(s, steps) : c = [at |-> m.to, cost |-> c0.cost + m.cost]
  BY <1>3 DEF Recorded
<1>12. ASSUME NEW m \in Better(s, steps)
       PROVE  /\ [at |-> m.to, f |-> c0.cost + m.cost + ahead[m.to]] \in t.open
              /\ [at |-> m.to, cost |-> c0.cost + m.cost] \in t.costs
  BY <1>3, <1>9 DEF Reopened, Recorded
<1>13. ASSUME NEW c \in s.costs PROVE \E d \in t.costs : d.at = c.at /\ d.cost <= c.cost
  <2>0. c.cost \in Nat
    BY DEF Searched
  <2>1. CASE \A m \in Better(s, steps) : m.to # c.at
    BY <1>9, <2>0, <2>1
  <2>2. ASSUME NEW m \in Better(s, steps), m.to = c.at PROVE \E d \in t.costs : d.at = c.at /\ d.cost <= c.cost
    <3>1. c0.cost + m.cost < c.cost /\ m.cost \in Nat
      BY <1>6, <1>7, <2>2
    <3> DEFINE d == [at |-> m.to, cost |-> c0.cost + m.cost]
    <3>2. d \in t.costs
      BY <1>12
    <3>3. d.at = c.at /\ d.cost = c0.cost + m.cost
      BY <2>2
    <3>4. c0.cost + m.cost <= c.cost
      BY <1>4, <2>0, <3>1
    <3> HIDE DEF d
    <3> QED
      BY <3>2, <3>3, <3>4
  <2> QED
    BY <2>1, <2>2
<1>14. ASSUME NEW c \in t.costs
       PROVE  \/ c \in s.costs /\ \A m \in Better(s, steps) : m.to # c.at
              \/ \E m \in Better(s, steps) : c = [at |-> m.to, cost |-> c0.cost + m.cost]
  BY <1>9, <1>11
<1>15. ASSUME NEW o \in t.open
       PROVE  \/ o \in s.open /\ o # e
              \/ \E m \in Better(s, steps) : o = [at |-> m.to, f |-> c0.cost + m.cost + ahead[m.to]]
  BY <1>9, <1>10
\* The parts of the invariant.
<1>16. t.open \subseteq [at : nodes, f : Nat] /\ t.costs \subseteq [at : nodes, cost : Nat]
  <2>1. ASSUME NEW m \in Better(s, steps)
        PROVE  m.to \in nodes /\ c0.cost + m.cost + ahead[m.to] \in Nat /\ c0.cost + m.cost \in Nat
    BY <1>4, <1>6, <1>8
  <2>2. s.open \subseteq [at : nodes, f : Nat] /\ s.costs \subseteq [at : nodes, cost : Nat]
    BY DEF Searched
  <2>3. ASSUME NEW o \in t.open PROVE o \in [at : nodes, f : Nat]
    BY <1>15, <2>1, <2>2
  <2>4. ASSUME NEW c \in t.costs PROVE c \in [at : nodes, cost : Nat]
    BY <1>14, <2>1, <2>2
  <2> QED
    BY <2>3, <2>4
<1>17. ASSUME NEW c \in t.costs, NEW d \in t.costs, c.at = d.at PROVE c = d
  <2>1. ASSUME NEW m \in Better(s, steps), NEW o \in Better(s, steps), m.to = o.to PROVE m = o
    BY <1>4, <1>8, <2>1 DEF Weighted
  <2>2. \A x \in s.costs, y \in s.costs : x.at = y.at => x = y
    BY DEF Searched
  <2> QED
    BY <1>14, <1>17, <2>1, <2>2
<1>18. \E c \in t.costs : c.at = start /\ c.cost = 0
  <2>1. PICK c \in s.costs : c.at = start /\ c.cost = 0
    BY DEF Searched
  <2>2. PICK d \in t.costs : d.at = c.at /\ d.cost <= c.cost
    BY <1>13
  <2> QED
    BY <1>16, <2>1, <2>2
<1>19. ASSUME NEW n \in more PROVE \E c \in t.costs : c.at = n
  <2>1. \E c \in s.costs : c.at = n
    BY <1>2 DEF Searched
  <2> QED
    BY <1>13, <2>1
<1>20. ASSUME NEW o \in t.open PROVE \E c \in t.costs : c.at = o.at /\ c.cost + ahead[c.at] <= o.f
  <2>1. CASE o \in s.open
    <3>1. PICK c \in s.costs : c.at = o.at /\ c.cost + ahead[c.at] <= o.f
      BY <2>1 DEF Searched
    <3>2. PICK d \in t.costs : d.at = c.at /\ d.cost <= c.cost
      BY <1>13
    <3>3. d.cost \in Nat /\ c.cost \in Nat /\ ahead[c.at] \in Nat /\ o.f \in Nat
      BY <1>16, <2>1 DEF Searched, Weighted
    <3> QED
      BY <3>1, <3>2, <3>3
  <2>2. ASSUME NEW m \in Better(s, steps), o = [at |-> m.to, f |-> c0.cost + m.cost + ahead[m.to]]
        PROVE  \E c \in t.costs : c.at = o.at /\ c.cost + ahead[c.at] <= o.f
    <3> DEFINE c == [at |-> m.to, cost |-> c0.cost + m.cost]
    <3>1. c \in t.costs /\ c.at = m.to /\ c.cost = c0.cost + m.cost
      BY <1>12
    <3>2. c0.cost + m.cost + ahead[m.to] \in Nat
      BY <1>4, <1>6, <1>8
    <3>3. c.cost + ahead[c.at] <= o.f
      BY <2>2, <3>1, <3>2
    <3> QED
      BY <2>2, <3>1, <3>3
  <2> QED
    BY <1>15, <2>1, <2>2
<1>21. ASSUME NEW c \in t.costs, c.at \notin more
       PROVE  \E o \in t.open : o.at = c.at /\ o.f = c.cost + ahead[c.at]
  <2>1. CASE c \in s.costs
    <3>1. PICK o \in s.open : o.at = c.at /\ o.f = c.cost + ahead[c.at]
      BY <1>21, <2>1 DEF Searched
    <3>2. o \in t.open
      BY <1>9, <1>21, <3>1
    <3> QED
      BY <3>1, <3>2
  <2>2. ASSUME NEW m \in Better(s, steps), c = [at |-> m.to, cost |-> c0.cost + m.cost]
        PROVE  \E o \in t.open : o.at = c.at /\ o.f = c.cost + ahead[c.at]
    BY <1>12, <2>2
  <2> QED
    BY <1>14, <2>1, <2>2
<1>22. ASSUME NEW c \in t.costs, c.at \in more PROVE c \in s.costs
  BY <1>8, <1>14, <1>22
<1>23. ASSUME NEW c \in t.costs, c.at \in more, NEW m \in steps[c.at]
       PROVE  \E d \in t.costs : d.at = m.to /\ d.cost <= c.cost + m.cost
  <2>0. c \in s.costs /\ c.cost \in Nat /\ m.cost \in Nat
    BY <1>22, <1>23 DEF Searched, Weighted
  <2>1. CASE c.at # e.at
    <3>1. PICK d \in s.costs : d.at = m.to /\ d.cost <= c.cost + m.cost
      BY <1>23, <2>0, <2>1 DEF Searched
    <3>2. PICK x \in t.costs : x.at = d.at /\ x.cost <= d.cost
      BY <1>13
    <3>3. d.cost \in Nat /\ x.cost \in Nat
      BY <1>16 DEF Searched
    <3> QED
      BY <2>0, <3>1, <3>2, <3>3
  <2>2. CASE c.at = e.at
    <3>1. c = c0
      BY <1>2, <2>0, <2>2 DEF Searched
    <3>2. CASE m \in Better(s, steps)
      <4> DEFINE d == [at |-> m.to, cost |-> c0.cost + m.cost]
      <4>1. d \in t.costs
        BY <1>12, <3>2
      <4>2. d.at = m.to /\ d.cost = c.cost + m.cost
        BY <3>1
      <4> HIDE DEF d
      <4>3. d.cost <= c.cost + m.cost
        BY <2>0, <4>2
      <4> QED
        BY <4>1, <4>2, <4>3
    <3>3. CASE m \notin Better(s, steps)
      <4>1. PICK d \in s.costs : d.at = m.to /\ ~(c0.cost + m.cost < d.cost)
        BY <1>7, <1>23, <2>2, <3>3
      <4>2. PICK x \in t.costs : x.at = d.at /\ x.cost <= d.cost
        BY <1>13
      <4>3. d.cost \in Nat /\ x.cost \in Nat
        BY <1>16 DEF Searched
      <4> QED
        BY <2>0, <3>1, <4>1, <4>2, <4>3
    <3> QED
      BY <3>2, <3>3
  <2> QED
    BY <2>1, <2>2
<1>24. ASSUME NEW c \in t.costs, c.at \in more, NEW o \in t.open PROVE c.cost + ahead[c.at] <= o.f
  <2>0. c \in s.costs /\ c.cost \in Nat /\ ahead[c.at] \in Nat
    BY <1>22, <1>24 DEF Searched, Weighted
  <2>1. c.cost + ahead[c.at] <= e.f
    <3>1. CASE c.at # e.at
      BY <1>1, <1>24, <2>0, <3>1 DEF Searched
    <3>2. CASE c.at = e.at
      <4>1. c = c0
        BY <1>2, <2>0, <3>2 DEF Searched
      <4> QED
        BY <1>4, <1>5, <3>2, <4>1
    <3> QED
      BY <3>1, <3>2
  <2>2. e.f <= o.f
    <3>1. CASE o \in s.open
      BY <1>1, <3>1
    <3>2. ASSUME NEW m \in Better(s, steps), o = [at |-> m.to, f |-> c0.cost + m.cost + ahead[m.to]]
          PROVE  e.f <= o.f
      <4>1. m.cost \in Nat /\ ahead[m.to] \in Nat /\ ahead[e.at] <= m.cost + ahead[m.to]
        BY <1>6, <1>8
      <4> QED
        BY <1>4, <1>5, <3>2, <4>1
    <3> QED
      BY <1>15, <3>1, <3>2
  <2>3. o.f \in Nat
    BY <1>16
  <2> QED
    BY <1>4, <2>0, <2>1, <2>2, <2>3
<1>25. Searched(t, more, nodes, start, steps, ahead)
  BY <1>16, <1>17, <1>18, <1>19, <1>20, <1>21, <1>23, <1>24 DEF Searched
<1>26. \A m \in Better(s, steps) : m.to \in nodes \ {e.at} /\ m.cost \in Nat
  BY <1>6, <1>8
<1> QED
  BY <1>2, <1>3, <1>25, <1>26 DEF e, t

\* How much work is left: every expansion takes an entry away, and only the first
\* of a node adds some, one for every other node at most.
Work(s, closed, nodes) ==
    Cardinality(s.open) + (Cardinality(nodes) - Cardinality(closed)) * (Cardinality(nodes) - 1)

LEMMA WorkFalls ==
  ASSUME NEW nodes, IsFiniteSet(nodes), NEW start, NEW goal, NEW steps, NEW ahead, NEW s,
         NEW closed \in SUBSET nodes, IsFiniteSet(s.open),
         Weighted(nodes, steps, ahead), Searched(s, closed, nodes, start, steps, ahead),
         ~Finished(s, goal)
  PROVE  LET t    == Expand(s, steps, ahead)
             more == closed \cup {Popped(s).at}
         IN  /\ more \in SUBSET nodes /\ IsFiniteSet(t.open)
             /\ Searched(t, more, nodes, start, steps, ahead)
             /\ Work(t, more, nodes) + 1 <= Work(s, closed, nodes)
<1> DEFINE t    == Expand(s, steps, ahead)
           e    == Popped(s)
           more == closed \cup {e.at}
           V    == Cardinality(nodes)
<1>1. e \in s.open /\ e.at \in nodes
  BY PoppedOf DEF Searched
<1>2. more \in SUBSET nodes /\ IsFiniteSet(more) /\ IsFiniteSet(closed)
  BY <1>1, FS_Subset
<1>3. /\ V \in Nat /\ Cardinality(closed) \in Nat /\ Cardinality(more) \in Nat
      /\ Cardinality(s.open) \in Nat
  BY <1>2, FS_CardinalityType
<1>4. IsFiniteSet(s.open \ {e}) /\ Cardinality(s.open \ {e}) = Cardinality(s.open) - 1
  BY <1>1, FS_RemoveElement
<1>5. CASE e.at \in closed
  <2>1. /\ t = [open |-> s.open \ {e}, costs |-> s.costs]
        /\ Searched(t, closed, nodes, start, steps, ahead)
    BY <1>5, ExpandAgain
  <2>2. more = closed
    BY <1>5
  <2>3. t.open = s.open \ {e}
    BY <2>1
  <2> HIDE DEF t, V, e, more
  <2> DEFINE W == (V - Cardinality(closed)) * (V - 1)
  <2>4. W \in Int
    BY <1>3
  <2>5. Work(t, more, nodes) = Cardinality(s.open) - 1 + W /\ Work(s, closed, nodes) = Cardinality(s.open) + W
    BY <1>4, <2>2, <2>3 DEF Work, V
  <2> HIDE DEF W
  <2>6. Work(t, more, nodes) + 1 <= Work(s, closed, nodes)
    BY <1>3, <2>4, <2>5
  <2> QED
    BY <1>2, <1>4, <2>1, <2>2, <2>3, <2>6 DEF t, more, e
<1>6. CASE e.at \notin closed
  <2>1. /\ Searched(t, more, nodes, start, steps, ahead)
        /\ \A m \in Better(s, steps) : m.to \in nodes \ {e.at} /\ m.cost \in Nat
    BY <1>6, ExpandFirst
  <2>2. \A m \in Better(s, steps), o \in Better(s, steps) : m.to = o.to => m = o
    BY <1>1 DEF Better, Weighted
  <2>3. IsFiniteSet(nodes \ {e.at}) /\ Cardinality(nodes \ {e.at}) = V - 1
    BY <1>1, FS_RemoveElement
  <2>4. IsFiniteSet(Better(s, steps)) /\ Cardinality(Better(s, steps)) <= V - 1
    <3> DEFINE f == [m \in Better(s, steps) |-> m.to]
    <3>1. f \in [Better(s, steps) -> nodes \ {e.at}]
      BY <2>1
    <3>2. \A m \in Better(s, steps), o \in Better(s, steps) : f[m] = f[o] => m = o
      BY <2>2
    <3> HIDE DEF f
    <3> QED
      BY <2>3, <3>1, <3>2, ImageBound
  <2>5. IsFiniteSet(Reopened(s, steps, ahead)) /\ Cardinality(Reopened(s, steps, ahead)) <= V - 1
    <3> DEFINE f == [m \in Better(s, steps) |-> [at |-> m.to, f |-> SoFar(s) + m.cost + ahead[m.to]]]
    <3>1. f \in [Better(s, steps) -> Reopened(s, steps, ahead)]
      BY DEF Reopened
    <3>2. \A o \in Reopened(s, steps, ahead) : \E m \in Better(s, steps) : f[m] = o
      BY DEF Reopened
    <3> HIDE DEF f
    <3>3. f \in Surjection(Better(s, steps), Reopened(s, steps, ahead))
      BY <3>1, <3>2 DEF Surjection
    <3>4. /\ IsFiniteSet(Reopened(s, steps, ahead))
          /\ Cardinality(Reopened(s, steps, ahead)) <= Cardinality(Better(s, steps))
      BY <2>4, <3>3, FS_Surjection
    <3>5. Cardinality(Reopened(s, steps, ahead)) \in Nat /\ Cardinality(Better(s, steps)) \in Nat
      BY <2>4, <3>4, FS_CardinalityType
    <3> QED
      BY <1>3, <2>4, <3>4, <3>5
  <2>6. t.open = (s.open \ {e}) \cup Reopened(s, steps, ahead)
    BY ExpandOf
  <2> HIDE DEF t
  <2>7. IsFiniteSet(t.open) /\ Cardinality(t.open) <= Cardinality(s.open) - 1 + V - 1
    <3> DEFINE A == s.open \ {e}
               B == Reopened(s, steps, ahead)
    <3>1. IsFiniteSet(A \cup B) /\ IsFiniteSet(A \cap B)
      BY <1>4, <2>5, FS_Union, FS_Intersection
    <3>2. Cardinality(A \cup B) = Cardinality(A) + Cardinality(B) - Cardinality(A \cap B)
      BY <1>4, <2>5, FS_Union
    <3>3. /\ Cardinality(A) \in Nat /\ Cardinality(B) \in Nat /\ Cardinality(A \cap B) \in Nat
          /\ Cardinality(A \cup B) \in Nat
      BY <1>4, <2>5, <3>1, FS_CardinalityType
    <3> HIDE DEF A, B, V
    <3>4. Cardinality(B) <= V - 1 /\ Cardinality(A) = Cardinality(s.open) - 1 /\ t.open = A \cup B
      BY <1>4, <2>5, <2>6 DEF A, B
    <3> QED
      BY <1>3, <3>1, <3>2, <3>3, <3>4
  <2>8. Cardinality(more) = Cardinality(closed) + 1
    BY <1>2, <1>6, FS_AddElement
  <2>9. Cardinality(t.open) \in Nat
    BY <2>7, FS_CardinalityType
  <2> HIDE DEF V, e, more
  <2> DEFINE k == Cardinality(closed)
             W == (V - k) * (V - 1)
  <2>10. (V - (k + 1)) * (V - 1) = W - (V - 1) /\ W \in Int
    BY <1>3
  <2>11. /\ Work(t, more, nodes) = Cardinality(t.open) + (W - (V - 1))
         /\ Work(s, closed, nodes) = Cardinality(s.open) + W
    BY <2>8, <2>10 DEF Work, V
  <2> HIDE DEF W
  <2>12. Work(t, more, nodes) + 1 <= Work(s, closed, nodes)
    BY <1>3, <2>7, <2>9, <2>10, <2>11
  <2> QED
    BY <1>2, <2>1, <2>7, <2>12 DEF t, more, e
<1> QED
  BY <1>5, <1>6

----------------------------------------------------------------------------
(* Path search: the reference, walks of growing length                      *)

Longer(w, steps) == UNION {{[at |-> m.to, cost |-> c.cost + m.cost] : m \in steps[c.at]} : c \in w}
LeastIn(w) == {c \in w : \A d \in w : d.at = c.at => c.cost <= d.cost}

\* walk: the walks of up to V steps from start.
Walks(walk, V, start, steps) ==
    /\ walk[0] = {[at |-> start, cost |-> 0]}
    /\ \A n \in 1..V : walk[n] = LeastIn(walk[n - 1] \cup Longer(walk[n - 1], steps))

\* The walks are a recursive function as well.
LEMMA WalksRun ==
  ASSUME NEW nodes, NEW start, NEW goal, NEW steps, NEW V \in Nat, V = Cardinality(nodes)
  PROVE  \E walk : /\ Walks(walk, V, start, steps)
                   /\ Shortest(nodes, start, goal, steps) = CostOf(walk[V], goal)
<1> DEFINE first == {[at |-> start, cost |-> 0]}
           Step(w) == LeastIn(w \cup Longer(w, steps))
           Loop(f, k) == f = [n \in 0..k |-> IF n = 0 THEN first ELSE Step(f[n - 1])]
           walk == CHOOSE f : Loop(f, V)
<1>1. Shortest(nodes, start, goal, steps) = CostOf(walk[V], goal)
  BY Zenon DEF Shortest, LeastIn, Longer
<1> HIDE DEF first, Step
<1>2. \E f : Loop(f, V)
  <2> DEFINE Without == {k \in Nat : ~\E f : Loop(f, k)}
  <2>1. ASSUME V \in Without PROVE FALSE
    <3>1. PICK k \in Without : \A j \in Without : k <= j
      BY <2>1, LeastOf
    <3>2. CASE k = 0
      <4>1. Loop([n \in 0..0 |-> first], 0)
        OBVIOUS
      <4> QED
        BY <3>1, <3>2, <4>1
    <3>3. CASE k # 0
      <4>1. k \in Nat /\ k - 1 \in Nat /\ ~(k <= k - 1)
        BY <3>1, <3>3
      <4>2. k - 1 \notin Without
        <5> HIDE DEF Without
        <5> QED
          BY <3>1, <4>1
      <4>3. PICK f : Loop(f, k - 1)
        BY <4>1, <4>2
      <4> DEFINE g == [n \in 0..k |-> IF n = 0 THEN first ELSE Step(f[n - 1])]
      <4>4. \A n \in 0..(k - 1) : g[n] = f[n]
        BY <3>1, <4>3
      <4>5. \A n \in 0..k : n # 0 => n - 1 \in 0..(k - 1)
        BY <3>1
      <4>6. Loop(g, k)
        BY <4>4, <4>5
      <4> QED
        BY <3>1, <4>6
    <3> QED
      BY <3>2, <3>3
  <2> QED
    BY <2>1
<1>3. Loop(walk, V)
  BY <1>2, Zenon
<1> HIDE DEF walk
<1>4. walk[0] = first
  BY <1>3
<1>5. \A n \in 1..V : walk[n] = Step(walk[n - 1])
  BY <1>3
<1> USE DEF first, Step
<1>6. Walks(walk, V, start, steps)
  BY <1>4, <1>5 DEF Walks
<1> QED
  BY <1>1, <1>6

\* What is dropped is no cheaper than what is kept.
LEMMA LeastBelow ==
  ASSUME NEW w, \A c \in w : c.cost \in Nat, NEW c \in w
  PROVE  \E d \in LeastIn(w) : d.at = c.at /\ d.cost <= c.cost
<1> DEFINE S == {d.cost : d \in {x \in w : x.at = c.at}}
<1>1. S \in SUBSET Nat /\ c.cost \in S
  OBVIOUS
<1>2. \A x \in S : \E d \in w : d.at = c.at /\ d.cost = x
  OBVIOUS
<1>3. \A d \in w : d.at = c.at => d.cost \in S
  OBVIOUS
<1> HIDE DEF S
<1>4. PICK x \in S : \A y \in S : x <= y
  BY <1>1, LeastOf
<1>5. PICK d \in w : d.at = c.at /\ d.cost = x
  BY <1>2, <1>4
<1>6. d \in LeastIn(w)
  BY <1>3, <1>4, <1>5 DEF LeastIn
<1> QED
  BY <1>1, <1>4, <1>5, <1>6

LEMMA WalkTypes ==
  ASSUME NEW nodes, NEW start \in nodes, NEW steps, NEW ahead, NEW V \in Nat, NEW walk,
         Weighted(nodes, steps, ahead), Walks(walk, V, start, steps)
  PROVE  \A n \in 0..V : walk[n] \subseteq [at : nodes, cost : Nat]
<1> DEFINE Typed(w) == w \subseteq [at : nodes, cost : Nat]
           Found == {k \in 0..V : ~Typed(walk[k])}
<1>1. ASSUME Found # {} PROVE FALSE
  <2>0. Found \in SUBSET Nat
    OBVIOUS
  <2> HIDE DEF Found
  <2>1. PICK k \in Found : \A j \in Found : k <= j
    BY <1>1, <2>0, LeastOf
  <2> USE DEF Found
  <2>2. CASE k = 0
    BY <2>1, <2>2 DEF Walks
  <2>3. CASE k # 0
    <3>1. k - 1 \in 0..V /\ k \in 1..V /\ k - 1 \notin Found
      BY <2>1, <2>3
    <3>2. Typed(walk[k - 1]) /\ walk[k] = LeastIn(walk[k - 1] \cup Longer(walk[k - 1], steps))
      BY <3>1 DEF Walks
    <3>3. ASSUME NEW c \in walk[k - 1], NEW m \in steps[c.at]
          PROVE  [at |-> m.to, cost |-> c.cost + m.cost] \in [at : nodes, cost : Nat]
      <4>1. c.at \in nodes /\ c.cost \in Nat
        BY <3>2
      <4>2. m.to \in nodes /\ m.cost \in Nat
        BY <4>1 DEF Weighted
      <4> QED
        BY <4>1, <4>2
    <3>4. Typed(Longer(walk[k - 1], steps))
      BY <3>3 DEF Longer
    <3>5. Typed(walk[k])
      BY <3>2, <3>4 DEF LeastIn
    <3> QED
      BY <2>1, <3>5
  <2> QED
    BY <2>2, <2>3
<1> QED
  BY <1>1

\* A walk that was found stays, or is replaced by a cheaper one; so does a walk
\* that is one step longer.
LEMMA WalkOn ==
  ASSUME NEW nodes, NEW start \in nodes, NEW steps, NEW ahead, NEW V \in Nat, NEW walk,
         Weighted(nodes, steps, ahead), Walks(walk, V, start, steps),
         NEW n \in 0..V, n < V, NEW w \in walk[n]
  PROVE  /\ n + 1 \in 0..V
         /\ \E x \in walk[n + 1] : x.at = w.at /\ x.cost <= w.cost
         /\ \A m \in steps[w.at] : \E x \in walk[n + 1] : x.at = m.to /\ x.cost <= w.cost + m.cost
<1> DEFINE u == walk[n] \cup Longer(walk[n], steps)
<1>1. n + 1 \in 0..V /\ n + 1 \in 1..V
  OBVIOUS
<1>2. walk[n + 1] = LeastIn(u)
  <2>1. walk[n + 1] = LeastIn(walk[n + 1 - 1] \cup Longer(walk[n + 1 - 1], steps))
    BY <1>1 DEF Walks
  <2>2. n + 1 - 1 = n
    OBVIOUS
  <2> QED
    BY <2>1, <2>2
<1>3. \A c \in walk[n] : c.at \in nodes /\ c.cost \in Nat
  BY WalkTypes
<1>4. \A c \in u : c.cost \in Nat
  <2>1. ASSUME NEW c \in walk[n], NEW m \in steps[c.at]
        PROVE  c.cost + m.cost \in Nat
    BY <1>3 DEF Weighted
  <2>2. \A c \in Longer(walk[n], steps) : c.cost \in Nat
    BY <2>1 DEF Longer
  <2> QED
    BY <1>3, <2>2
<1>5. ASSUME NEW m \in steps[w.at] PROVE [at |-> m.to, cost |-> w.cost + m.cost] \in u
  BY DEF Longer
<1> HIDE DEF u
<1>6. w \in u
  BY DEF u
<1>7. \E x \in walk[n + 1] : x.at = w.at /\ x.cost <= w.cost
  BY <1>2, <1>4, <1>6, LeastBelow
<1>8. ASSUME NEW m \in steps[w.at]
      PROVE  \E x \in walk[n + 1] : x.at = m.to /\ x.cost <= w.cost + m.cost
  <2> DEFINE c == [at |-> m.to, cost |-> w.cost + m.cost]
  <2>1. c \in u
    BY <1>5
  <2>2. c.at = m.to /\ c.cost = w.cost + m.cost
    OBVIOUS
  <2> HIDE DEF c
  <2>3. \E x \in LeastIn(u) : x.at = c.at /\ x.cost <= c.cost
    BY <1>4, <2>1, LeastBelow
  <2> QED
    BY <1>2, <2>2, <2>3
<1> QED
  BY <1>1, <1>7, <1>8

LEMMA WalkStays ==
  ASSUME NEW nodes, NEW start \in nodes, NEW steps, NEW ahead, NEW V \in Nat, NEW walk,
         Weighted(nodes, steps, ahead), Walks(walk, V, start, steps),
         NEW n \in 0..V, NEW w \in walk[n]
  PROVE  \E x \in walk[V] : x.at = w.at /\ x.cost <= w.cost
<1> DEFINE Stays(k) == \E x \in walk[k] : x.at = w.at /\ x.cost <= w.cost
           Gone == {k \in n..V : ~Stays(k)}
<1>0. w.cost \in Nat
  BY WalkTypes
<1>1. ASSUME Gone # {} PROVE FALSE
  <2>0. Gone \in SUBSET Nat
    OBVIOUS
  <2> HIDE DEF Gone
  <2>1. PICK k \in Gone : \A j \in Gone : k <= j
    BY <1>1, <2>0, LeastOf
  <2> USE DEF Gone
  <2>2. k # n
    BY <1>0, <2>1
  <2>3. k - 1 \in n..V /\ k - 1 \in 0..V /\ k - 1 < V /\ k - 1 + 1 = k /\ ~(k <= k - 1)
    BY <2>1, <2>2
  <2>4. k - 1 \notin Gone
    <3> HIDE DEF Gone
    <3> QED
      BY <2>1, <2>3
  <2>5. PICK x \in walk[k - 1] : x.at = w.at /\ x.cost <= w.cost
    BY <2>3, <2>4
  <2>6. PICK y \in walk[k] : y.at = x.at /\ y.cost <= x.cost
    BY <2>3, WalkOn
  <2>7. x.cost \in Nat /\ y.cost \in Nat
    BY <2>3, WalkTypes
  <2>8. Stays(k)
    BY <1>0, <2>5, <2>6, <2>7
  <2> QED
    BY <2>1, <2>8
<1> QED
  BY <1>1

\* Every recorded cost is that of a walk, of one step for every closed node at most.
Walked(s, closed, walk) ==
    \A c \in s.costs : \E k \in 0..Cardinality(closed) : \E w \in walk[k] : w.at = c.at /\ w.cost <= c.cost

LEMMA StaysWalked ==
  ASSUME NEW nodes, IsFiniteSet(nodes), NEW start \in nodes, NEW goal, NEW steps, NEW ahead, NEW s,
         NEW closed \in SUBSET nodes, NEW V \in Nat, V = Cardinality(nodes), NEW walk,
         Weighted(nodes, steps, ahead), Walks(walk, V, start, steps),
         Searched(s, closed, nodes, start, steps, ahead), ~Finished(s, goal), Walked(s, closed, walk)
  PROVE  Walked(Expand(s, steps, ahead), closed \cup {Popped(s).at}, walk)
<1> DEFINE t    == Expand(s, steps, ahead)
           e    == Popped(s)
           more == closed \cup {e.at}
<1>1. e \in s.open /\ e.at \in nodes
  BY PoppedOf DEF Searched
<1>2. CASE e.at \in closed
  <2>1. Expand(s, steps, ahead) = [open |-> s.open \ {Popped(s)}, costs |-> s.costs]
    <3> HIDE DEF t, more
    <3>1. /\ Expand(s, steps, ahead) = [open |-> s.open \ {Popped(s)}, costs |-> s.costs]
          /\ Searched(Expand(s, steps, ahead), closed, nodes, start, steps, ahead)
      BY <1>2, ExpandAgain
    <3> QED
      BY <3>1
  <2>2. t.costs = s.costs /\ more = closed
    BY <1>2, <2>1
  <2> QED
    BY <2>2 DEF Walked
<1>3. CASE e.at \notin closed
  <2>1. PICK c0 \in s.costs : c0.at = e.at /\ c0.cost = SoFar(s)
    <3>1. /\ Searched(t, more, nodes, start, steps, ahead)
          /\ \E c \in s.costs : c.at = Popped(s).at /\ c.cost = SoFar(s)
          /\ \A m \in Better(s, steps) : m.to \in nodes \ {Popped(s).at} /\ m.cost \in Nat
      BY <1>3, ExpandFirst
    <3> QED
      BY <3>1
  <2>2. /\ IsFiniteSet(closed) /\ IsFiniteSet(more)
        /\ Cardinality(more) = Cardinality(closed) + 1
        /\ Cardinality(more) <= V /\ Cardinality(closed) \in Nat /\ Cardinality(more) \in Nat
    BY <1>1, <1>3, FS_Subset, FS_AddElement, FS_CardinalityType
  <2>3. t.costs = {c \in s.costs : \A m \in Better(s, steps) : m.to # c.at} \cup Recorded(s, steps)
    BY ExpandOf
  <2> HIDE DEF t, more
  <2>4. ASSUME NEW c \in s.costs
        PROVE  \E k \in 0..Cardinality(more) : \E w \in walk[k] : w.at = c.at /\ w.cost <= c.cost
    <3>1. PICK k \in 0..Cardinality(closed) : \E w \in walk[k] : w.at = c.at /\ w.cost <= c.cost
      BY DEF Walked
    <3>2. k \in 0..Cardinality(more)
      BY <2>2
    <3> QED
      BY <3>1, <3>2
  <2>5. ASSUME NEW m \in Better(s, steps)
        PROVE  \E k \in 0..Cardinality(more) : \E w \in walk[k] : w.at = m.to /\ w.cost <= SoFar(s) + m.cost
    <3>1. PICK k \in 0..Cardinality(closed) : \E w \in walk[k] : w.at = c0.at /\ w.cost <= c0.cost
      BY DEF Walked
    <3>2. PICK w \in walk[k] : w.at = c0.at /\ w.cost <= c0.cost
      BY <3>1
    <3>3. k \in 0..V /\ k < V /\ k + 1 \in 0..Cardinality(more)
      BY <2>2
    <3>4. m \in steps[w.at] /\ w.at \in nodes
      BY <1>1, <2>1, <3>2 DEF Better
    <3>5. PICK x \in walk[k + 1] : x.at = m.to /\ x.cost <= w.cost + m.cost
      BY <3>3, <3>4, WalkOn
    <3>6. x.cost \in Nat /\ w.cost \in Nat /\ m.cost \in Nat /\ c0.cost \in Nat
      <4>1. k + 1 \in 0..V
        BY <2>2, <3>3
      <4>2. walk[k] \subseteq [at : nodes, cost : Nat] /\ walk[k + 1] \subseteq [at : nodes, cost : Nat]
        BY <3>3, <4>1, WalkTypes
      <4>3. m.cost \in Nat
        BY <3>4 DEF Weighted
      <4> QED
        BY <4>2, <4>3 DEF Searched
    <3>7. x.cost <= SoFar(s) + m.cost
      BY <2>1, <3>2, <3>5, <3>6
    <3> QED
      BY <3>3, <3>5, <3>7
  <2>6. ASSUME NEW c \in Recorded(s, steps)
        PROVE  \E k \in 0..Cardinality(more) : \E w \in walk[k] : w.at = c.at /\ w.cost <= c.cost
    BY <2>5 DEF Recorded
  <2>7. Walked(t, more, walk)
    BY <2>3, <2>4, <2>6 DEF Walked
  <2> QED
    BY <2>7 DEF t, more
<1> QED
  BY <1>2, <1>3

\* The loop's invariant: a closed set there is, and work falls with every pass.
Sought(s, n, nodes, start, goal, steps, ahead, walk) ==
    \E closed \in SUBSET nodes :
        /\ IsFiniteSet(s.open) /\ Walked(s, closed, walk)
        /\ Searched(s, closed, nodes, start, steps, ahead)
        /\ Finished(s, goal) \/ Work(s, closed, nodes) + n <= Cardinality(nodes) * Cardinality(nodes)

LEMMA SoughtOn ==
  ASSUME NEW nodes, IsFiniteSet(nodes), NEW start \in nodes, NEW goal, NEW steps, NEW ahead, NEW s,
         NEW V \in Nat, V = Cardinality(nodes), NEW walk, NEW n \in Int,
         Weighted(nodes, steps, ahead), Walks(walk, V, start, steps),
         Sought(s, n, nodes, start, goal, steps, ahead, walk)
  PROVE  Sought(Pass(s, goal, steps, ahead), n + 1, nodes, start, goal, steps, ahead, walk)
<1>1. PICK closed \in SUBSET nodes :
        /\ IsFiniteSet(s.open) /\ Walked(s, closed, walk)
        /\ Searched(s, closed, nodes, start, steps, ahead)
        /\ Finished(s, goal) \/ Work(s, closed, nodes) + n <= Cardinality(nodes) * Cardinality(nodes)
  BY DEF Sought
<1>2. CASE Finished(s, goal)
  <2>1. Pass(s, goal, steps, ahead) = s
    BY <1>2 DEF Pass
  <2> QED
    BY <1>1, <1>2, <2>1 DEF Sought
<1>3. CASE ~Finished(s, goal)
  <2> DEFINE t    == Expand(s, steps, ahead)
             more == closed \cup {Popped(s).at}
  <2>1. Pass(s, goal, steps, ahead) = t
    BY <1>3 DEF Pass
  <2>2. /\ more \in SUBSET nodes /\ IsFiniteSet(t.open)
        /\ Searched(t, more, nodes, start, steps, ahead)
        /\ Work(t, more, nodes) + 1 <= Work(s, closed, nodes)
    BY <1>1, <1>3, WorkFalls
  <2>3. Walked(t, more, walk)
    BY <1>1, <1>3, StaysWalked
  <2>4. Work(t, more, nodes) \in Int /\ Work(s, closed, nodes) \in Int
    <3>1. IsFiniteSet(more) /\ IsFiniteSet(closed)
      BY <2>2, FS_Subset
    <3>2. /\ Cardinality(more) \in Nat /\ Cardinality(closed) \in Nat /\ Cardinality(t.open) \in Nat
          /\ Cardinality(s.open) \in Nat /\ Cardinality(nodes) \in Nat
      BY <1>1, <2>2, <3>1, FS_CardinalityType
    <3>3. ASSUME NEW a \in Nat, NEW b \in Nat, NEW c \in Nat PROVE a + (b - c) * (b - 1) \in Int
      OBVIOUS
    <3> QED
      BY <3>2, <3>3 DEF Work
  <2> HIDE DEF t, more
  <2>5. Work(t, more, nodes) + (n + 1) <= Cardinality(nodes) * Cardinality(nodes)
    <3>1. Cardinality(nodes) * Cardinality(nodes) \in Int
      OBVIOUS
    <3> QED
      BY <1>1, <1>3, <2>2, <2>4, <3>1
  <2> QED
    BY <2>1, <2>2, <2>3, <2>5 DEF Sought
<1> QED
  BY <1>2, <1>3

\* The first pass opens the start at no cost, whatever the estimate: as if it
\* had been opened at its estimate.
Opened(start, ahead) ==
    [open |-> {[at |-> start, f |-> ahead[start]]}, costs |-> {[at |-> start, cost |-> 0]}]

LEMMA FirstPass ==
  ASSUME NEW start, NEW goal, start # goal, NEW steps, NEW ahead, ahead[start] \in Nat
  PROVE  Pass(Begun(start), goal, steps, ahead) = Pass(Opened(start, ahead), goal, steps, ahead)
<1> DEFINE b == Begun(start)
           s == Opened(start, ahead)
<1>1. b.open = {[at |-> start, f |-> 0]} /\ b.costs = {[at |-> start, cost |-> 0]}
  BY DEF Begun
<1>2. s.open = {[at |-> start, f |-> ahead[start]]} /\ s.costs = {[at |-> start, cost |-> 0]}
  BY DEF Opened
<1> HIDE DEF b, s
<1>4. Popped(b) = [at |-> start, f |-> 0] /\ Popped(s) = [at |-> start, f |-> ahead[start]]
  BY <1>1, <1>2 DEF Popped
<1>5. ~Finished(b, goal) /\ ~Finished(s, goal)
  BY <1>1, <1>2 DEF Finished
<1>6. Expand(b, steps, ahead) = Expand(s, steps, ahead)
  <2>1. Popped(b).at = start /\ Popped(s).at = start /\ b.costs = s.costs
    BY <1>1, <1>2, <1>4
  <2>2. SoFar(b) = SoFar(s)
    BY <2>1 DEF SoFar
  <2>3. Better(b, steps) = Better(s, steps)
    BY <2>1, <2>2 DEF Better
  <2>4. Reopened(b, steps, ahead) = Reopened(s, steps, ahead) /\ Recorded(b, steps) = Recorded(s, steps)
    BY <2>2, <2>3 DEF Reopened, Recorded
  <2>5. b.open \ {Popped(b)} = {} /\ s.open \ {Popped(s)} = {}
    BY <1>1, <1>2, <1>4
  <2>6. /\ Expand(b, steps, ahead) =
            [open  |-> (b.open \ {Popped(b)}) \cup Reopened(b, steps, ahead),
             costs |-> {c \in b.costs : \A m \in Better(b, steps) : m.to # c.at} \cup Recorded(b, steps)]
        /\ Expand(s, steps, ahead) =
            [open  |-> (s.open \ {Popped(s)}) \cup Reopened(s, steps, ahead),
             costs |-> {c \in s.costs : \A m \in Better(s, steps) : m.to # c.at} \cup Recorded(s, steps)]
    BY ExpandOf
  <2> QED
    BY <2>1, <2>3, <2>4, <2>5, <2>6
<1>7. Pass(b, goal, steps, ahead) = Pass(s, goal, steps, ahead)
  BY <1>5, <1>6 DEF Pass
<1> QED
  BY <1>7 DEF b, s

LEMMA SoughtFirst ==
  ASSUME NEW nodes, IsFiniteSet(nodes), NEW start \in nodes, NEW goal, start # goal, NEW steps, NEW ahead,
         NEW V \in Nat, V = Cardinality(nodes), NEW walk,
         Weighted(nodes, steps, ahead), Walks(walk, V, start, steps)
  PROVE  Sought(Pass(Begun(start), goal, steps, ahead), 1, nodes, start, goal, steps, ahead, walk)
<1> DEFINE s == Opened(start, ahead)
<1>2. s.open = {[at |-> start, f |-> ahead[start]]} /\ s.costs = {[at |-> start, cost |-> 0]}
  BY DEF Opened
<1> HIDE DEF s
<1>3. ahead[start] \in Nat
  BY DEF Weighted
<1>7. Pass(Begun(start), goal, steps, ahead) = Pass(s, goal, steps, ahead)
  BY <1>3, FirstPass DEF s
<1>8. Searched(s, {}, nodes, start, steps, ahead)
  <2>1. /\ [at |-> start, f |-> ahead[start]] \in [at : nodes, f : Nat]
        /\ [at |-> start, cost |-> 0] \in [at : nodes, cost : Nat]
    BY <1>3
  <2>2. \A c \in s.costs : c = [at |-> start, cost |-> 0] /\ c.at = start /\ c.cost = 0
    BY <1>2
  <2>3. \A o \in s.open : o.at = start /\ o.f = ahead[start]
    BY <1>2
  <2>4. (\E o \in s.open : TRUE) /\ (\E c \in s.costs : TRUE)
    BY <1>2
  <2>5. s.open \subseteq [at : nodes, f : Nat] /\ s.costs \subseteq [at : nodes, cost : Nat]
    BY <1>2, <2>1
  <2>6. \A o \in s.open : \E c \in s.costs : c.at = o.at /\ c.cost + ahead[c.at] <= o.f
    BY <1>3, <2>2, <2>3, <2>4
  <2>7. \A c \in s.costs : \E o \in s.open : o.at = c.at /\ o.f = c.cost + ahead[c.at]
    BY <1>3, <2>2, <2>3, <2>4
  <2> QED
    BY <2>2, <2>4, <2>5, <2>6, <2>7 DEF Searched
<1>9. Walked(s, {}, walk)
  <2>1. 0 \in 0..Cardinality({})
    BY FS_EmptySet
  <2>2. [at |-> start, cost |-> 0] \in walk[0]
    BY DEF Walks
  <2>3. \A c \in s.costs : c.at = start /\ c.cost = 0
    BY <1>2
  <2> QED
    BY <2>1, <2>2, <2>3 DEF Walked
<1>10. IsFiniteSet(s.open) /\ Work(s, {}, nodes) + 0 <= Cardinality(nodes) * Cardinality(nodes)
  <2>1. IsFiniteSet(s.open) /\ Cardinality(s.open) = 1 /\ Cardinality({}) = 0
    <3>1. PICK x : s.open = {x}
      BY <1>2
    <3>2. IsFiniteSet({x}) /\ Cardinality({x}) = 1
      BY FS_Singleton, Zenon
    <3>3. Cardinality({}) = 0
      BY FS_EmptySet, Zenon
    <3> QED
      BY <3>1, <3>2, <3>3
  <2>2. V # 0
    BY FS_EmptySet
  <2>3. Work(s, {}, nodes) = 1 + (V - 0) * (V - 1)
    BY <2>1 DEF Work
  <2>4. 1 + (V - 0) * (V - 1) + 0 <= V * V
    <3>1. (V - 0) * (V - 1) = V * V - V /\ V * V \in Int
      OBVIOUS
    <3> QED
      BY <2>2, <3>1
  <2> QED
    BY <2>1, <2>3, <2>4
<1>11. Sought(s, 0, nodes, start, goal, steps, ahead, walk)
  <2>1. {} \in SUBSET nodes
    OBVIOUS
  <2> QED
    BY <1>8, <1>9, <1>10, <2>1 DEF Sought
<1>12. Sought(Pass(s, goal, steps, ahead), 0 + 1, nodes, start, goal, steps, ahead, walk)
  BY <1>11, SoughtOn
<1> QED
  BY <1>7, <1>12

----------------------------------------------------------------------------
(* Path search: least costs, whatever the estimate                          *)

\* Costs that leave out no move: nothing a search records is below them.
Ideal(ideal, nodes, start, steps) ==
    /\ ideal \subseteq [at : nodes, cost : Nat]
    /\ \E c \in ideal : c.at = start /\ c.cost = 0
    /\ \A c \in ideal : \A m \in steps[c.at] : \E d \in ideal : d.at = m.to /\ d.cost <= c.cost + m.cost

LEMMA NoEstimate ==
  ASSUME NEW nodes, NEW steps, Moves(nodes, steps)
  PROVE  Weighted(nodes, steps, [n \in nodes |-> 0])
<1> DEFINE none == [n \in nodes |-> 0]
<1>1. \A n \in nodes : none[n] = 0
  OBVIOUS
<1> HIDE DEF none
<1>2. \A n \in nodes : none[n] \in Nat
  BY <1>1
<1>3. ASSUME NEW n \in nodes, NEW m \in steps[n] PROVE none[n] <= m.cost + none[m.to]
  <2>1. m.to \in nodes /\ m.cost \in Nat
    BY DEF Moves
  <2> QED
    BY <1>1, <2>1
<1>4. Weighted(nodes, steps, none)
  BY <1>2, <1>3 DEF Weighted, Moves
<1> QED
  BY <1>4 DEF none

\* A search without an estimate for a goal that does not exist ends with such
\* costs, and what it has recorded are costs of walks that the reference knows.
LEMMA IdealExists ==
  ASSUME NEW nodes, IsFiniteSet(nodes), NEW start \in nodes, NEW steps, Moves(nodes, steps),
         NEW V \in Nat, V = Cardinality(nodes), NEW walk, Walks(walk, V, start, steps)
  PROVE  \E ideal : /\ Ideal(ideal, nodes, start, steps)
                    /\ \A c \in ideal : \E w \in walk[V] : w.at = c.at /\ w.cost <= c.cost
<1> DEFINE none == [n \in nodes |-> 0]
           goal == {x \in nodes : x \notin x}
           K    == V * V
<1>1. Weighted(nodes, steps, none)
  BY NoEstimate
<1>2. goal \notin nodes
  OBVIOUS
<1>3. V # 0 /\ K \in Nat /\ K # 0
  <2>1. V # 0
    BY FS_EmptySet
  <2> QED
    BY <2>1
<1> HIDE DEF none, goal, K
<1>4. PICK run : Passes(run, K, start, goal, steps, none)
  BY <1>3, PassesExist
<1> DEFINE Held(n) == Sought(run[n], n, nodes, start, goal, steps, none, walk)
           Broken == {k \in 1..K : ~Held(k)}
<1>5. Held(1)
  <2>1. 1 \in 1..K /\ 1 - 1 = 0
    BY <1>3
  <2>2. run[1] = Pass(Begun(start), goal, steps, none)
    BY <1>4, <2>1 DEF Passes
  <2> QED
    BY <1>1, <1>2, <2>2, SoughtFirst
<1>6. ASSUME NEW k \in Broken PROVE k - 1 \in Broken
  <2>1. k # 1
    BY <1>5
  <2>2. k - 1 \in 1..K /\ k - 1 \in Int /\ k - 1 + 1 = k /\ k \in 1..K /\ ~Held(k)
    BY <1>3, <2>1
  <2>3. run[k] = Pass(run[k - 1], goal, steps, none)
    BY <1>4, <2>2 DEF Passes
  <2>4. ASSUME Held(k - 1) PROVE FALSE
    <3>1. Sought(run[k - 1], k - 1, nodes, start, goal, steps, none, walk)
      BY <2>4
    <3>2. Sought(Pass(run[k - 1], goal, steps, none), k - 1 + 1, nodes, start, goal, steps, none, walk)
      BY <1>1, <2>2, <3>1, SoughtOn
    <3> QED
      BY <2>2, <2>3, <3>2
  <2> QED
    BY <2>2, <2>4
<1>7. Broken = {}
  <2>1. Broken \in SUBSET Nat /\ \A k \in Broken : k # 0
    BY <1>3
  <2> HIDE DEF Broken
  <2> QED
    BY <1>6, <2>1, NoFirst
<1>8. Held(K)
  BY <1>3, <1>7
<1> DEFINE s == run[K]
<1>9. PICK closed \in SUBSET nodes :
        /\ IsFiniteSet(s.open) /\ Walked(s, closed, walk)
        /\ Searched(s, closed, nodes, start, steps, none)
        /\ Finished(s, goal) \/ Work(s, closed, nodes) + K <= Cardinality(nodes) * Cardinality(nodes)
  BY <1>8 DEF Sought
<1> HIDE DEF s
<1>10. IsFiniteSet(closed) /\ Cardinality(closed) \in Nat /\ Cardinality(closed) <= V
  BY FS_Subset, FS_CardinalityType
<1>11. s.open = {}
  <2>1. CASE Finished(s, goal)
    <3>1. \A o \in s.open : o.at \in nodes
      BY <1>9 DEF Searched
    <3> QED
      BY <1>2, <2>1, <3>1 DEF Finished
  <2>2. CASE ~Finished(s, goal)
    <3> DEFINE k == Cardinality(closed)
               o == Cardinality(s.open)
               W == (V - k) * (V - 1)
    <3>1. o \in Nat
      BY <1>9, FS_CardinalityType
    <3>2. o + W + K <= K
      BY <1>9, <2>2 DEF Work, K
    <3>3. W \in Nat
      <4> HIDE DEF k
      <4>1. V - k \in Nat /\ V - 1 \in Nat
        BY <1>3, <1>10 DEF k
      <4>2. ASSUME NEW a \in Nat, NEW b \in Nat PROVE a * b \in Nat
        OBVIOUS
      <4> QED
        BY <4>1, <4>2
    <3> HIDE DEF W, k
    <3>4. o = 0
      <4> HIDE DEF o
      <4> QED
        BY <1>3, <3>1, <3>2, <3>3
    <3> QED
      BY <1>9, <3>4, FS_EmptySet
  <2> QED
    BY <2>1, <2>2
<1>12. \A c \in s.costs : c.at \in closed
  BY <1>9, <1>11 DEF Searched
<1>13. Ideal(s.costs, nodes, start, steps)
  BY <1>9, <1>12 DEF Searched, Ideal
<1>14. ASSUME NEW c \in s.costs PROVE \E w \in walk[V] : w.at = c.at /\ w.cost <= c.cost
  <2>1. PICK k \in 0..Cardinality(closed) : \E w \in walk[k] : w.at = c.at /\ w.cost <= c.cost
    BY <1>9 DEF Walked
  <2>2. PICK w \in walk[k] : w.at = c.at /\ w.cost <= c.cost
    BY <2>1
  <2>3. k \in 0..V /\ V \in 0..V
    BY <1>10
  <2>4. PICK x \in walk[V] : x.at = w.at /\ x.cost <= w.cost
    BY <1>1, <2>3, WalkStays
  <2>5. w.cost \in Nat /\ x.cost \in Nat /\ c.cost \in Nat
    <3>1. walk[k] \subseteq [at : nodes, cost : Nat] /\ walk[V] \subseteq [at : nodes, cost : Nat]
      BY <1>1, <2>3, WalkTypes
    <3> QED
      BY <1>9, <3>1 DEF Searched
  <2> QED
    BY <2>2, <2>4, <2>5
<1> QED
  BY <1>13, <1>14

----------------------------------------------------------------------------
(* Path search: any estimate                                                *)

\* The state of the search whatever the estimate: what is open is worth no less
\* than a recorded cost promises; what is recorded is open at its promise or has
\* improved its neighbours.
Explored(s, nodes, start, steps, ahead) ==
    /\ s.open \subseteq [at : nodes, f : Nat]
    /\ s.costs \subseteq [at : nodes, cost : Nat]
    /\ \A c \in s.costs, d \in s.costs : c.at = d.at => c = d
    /\ \E c \in s.costs : c.at = start /\ c.cost = 0
    /\ \A o \in s.open : \E c \in s.costs : c.at = o.at /\ c.cost + ahead[c.at] <= o.f
    /\ \A c \in s.costs :
           \/ \E o \in s.open : o.at = c.at /\ o.f = c.cost + ahead[c.at]
           \/ \A m \in steps[c.at] : \E d \in s.costs : d.at = m.to /\ d.cost <= c.cost + m.cost

\* An expansion: c0 is the recorded cost of the entry's node; the moves that pay
\* and where they lead.
Expansion(c0, s, nodes, steps, ahead) ==
    LET e == Popped(s)
        t == Expand(s, steps, ahead)
        better == Better(s, steps)
    IN  /\ c0.at = e.at /\ SoFar(s) = c0.cost /\ e \in s.open /\ c0.cost \in Nat /\ e.at \in nodes
        /\ better = {m \in steps[e.at] : \A c \in s.costs : c.at = m.to => c0.cost + m.cost < c.cost}
        /\ \A m \in better : /\ m.to \in nodes /\ m.cost \in Nat /\ ahead[m.to] \in Nat /\ m.to # e.at
                             /\ [at |-> m.to, f |-> c0.cost + m.cost + ahead[m.to]] \in t.open
                             /\ [at |-> m.to, cost |-> c0.cost + m.cost] \in t.costs
        /\ \A c \in t.costs :
               \/ c \in s.costs /\ \A m \in better : m.to # c.at
               \/ \E m \in better : c = [at |-> m.to, cost |-> c0.cost + m.cost]
        /\ \A o \in t.open :
               \/ o \in s.open /\ o # e
               \/ \E m \in better : o = [at |-> m.to, f |-> c0.cost + m.cost + ahead[m.to]]
        /\ \A o \in s.open : o # e => o \in t.open
        /\ \A c \in s.costs : (\A m \in better : m.to # c.at) => c \in t.costs
        /\ t.open = (s.open \ {e}) \cup Reopened(s, steps, ahead)

LEMMA ExpandParts ==
  ASSUME NEW nodes, NEW start, NEW goal, NEW steps, NEW ahead, NEW s, Moves(nodes, steps),
         \A n \in nodes : ahead[n] \in Nat,
         Explored(s, nodes, start, steps, ahead), ~Finished(s, goal)
  PROVE  \E c0 \in s.costs : Expansion(c0, s, nodes, steps, ahead)
<1> DEFINE e == Popped(s)
           t == Expand(s, steps, ahead)
           better == Better(s, steps)
<1>1. e \in s.open /\ e.at \in nodes
  BY PoppedOf DEF Explored
<1>2. PICK c0 \in s.costs : c0.at = e.at
  BY <1>1 DEF Explored
<1>3. SoFar(s) = c0.cost
  <2>1. \A c \in s.costs : c.cost \in Nat
    BY DEF Explored
  <2>2. \E c \in s.costs : c.at = e.at /\ c.cost = SoFar(s)
    BY <1>2, <2>1, CostOfType DEF SoFar
  <2> QED
    BY <1>2, <2>2 DEF Explored
<1>4. c0.cost \in Nat
  BY <1>2 DEF Explored
<1>5. better = {m \in steps[e.at] : \A c \in s.costs : c.at = m.to => c0.cost + m.cost < c.cost}
  BY <1>3 DEF Better
<1>6. /\ t.open = (s.open \ {e}) \cup Reopened(s, steps, ahead)
      /\ t.costs = {c \in s.costs : \A m \in better : m.to # c.at} \cup Recorded(s, steps)
  BY ExpandOf
<1>7. Reopened(s, steps, ahead) = {[at |-> m.to, f |-> c0.cost + m.cost + ahead[m.to]] : m \in better}
  BY <1>3 DEF Reopened
<1>8. Recorded(s, steps) = {[at |-> m.to, cost |-> c0.cost + m.cost] : m \in better}
  BY <1>3 DEF Recorded
<1> HIDE DEF e, t, better
<1>9. ASSUME NEW m \in better
      PROVE  /\ m.to \in nodes /\ m.cost \in Nat /\ ahead[m.to] \in Nat /\ m.to # e.at
             /\ [at |-> m.to, f |-> c0.cost + m.cost + ahead[m.to]] \in t.open
             /\ [at |-> m.to, cost |-> c0.cost + m.cost] \in t.costs
  <2>1. m \in steps[e.at] /\ \A c \in s.costs : c.at = m.to => c0.cost + m.cost < c.cost
    BY <1>5
  <2>2. m.to \in nodes /\ m.cost \in Nat
    BY <1>1, <2>1 DEF Moves
  <2>3. m.to # e.at
    BY <1>2, <1>4, <2>1, <2>2
  <2> QED
    BY <1>6, <1>7, <1>8, <2>2, <2>3
<1>10. ASSUME NEW c \in t.costs
       PROVE  \/ c \in s.costs /\ \A m \in better : m.to # c.at
              \/ \E m \in better : c = [at |-> m.to, cost |-> c0.cost + m.cost]
  BY <1>6, <1>8
<1>11. ASSUME NEW o \in t.open
       PROVE  \/ o \in s.open /\ o # e
              \/ \E m \in better : o = [at |-> m.to, f |-> c0.cost + m.cost + ahead[m.to]]
  BY <1>6, <1>7
<1>12. /\ \A o \in s.open : o # e => o \in t.open
       /\ \A c \in s.costs : (\A m \in better : m.to # c.at) => c \in t.costs
  BY <1>6
<1>13. Expansion(c0, s, nodes, steps, ahead)
  BY <1>1, <1>2, <1>3, <1>4, <1>5, <1>6, <1>9, <1>10, <1>11, <1>12 DEF e, t, better, Expansion
<1> QED
  BY <1>13

LEMMA ExpandExplored ==
  ASSUME NEW nodes, NEW start, NEW goal, NEW steps, NEW ahead, NEW s, Moves(nodes, steps),
         \A n \in nodes : ahead[n] \in Nat,
         Explored(s, nodes, start, steps, ahead), ~Finished(s, goal)
  PROVE  /\ Explored(Expand(s, steps, ahead), nodes, start, steps, ahead)
         /\ \A c \in s.costs : \E d \in Expand(s, steps, ahead).costs : d.at = c.at /\ d.cost <= c.cost
<1> DEFINE e == Popped(s)
           t == Expand(s, steps, ahead)
           better == Better(s, steps)
<1>0. PICK c0 \in s.costs : Expansion(c0, s, nodes, steps, ahead)
  BY ExpandParts
<1>1. /\ c0.at = e.at /\ SoFar(s) = c0.cost /\ e \in s.open /\ c0.cost \in Nat /\ e.at \in nodes
      /\ better = {m \in steps[e.at] : \A c \in s.costs : c.at = m.to => c0.cost + m.cost < c.cost}
      /\ \A m \in better : /\ m.to \in nodes /\ m.cost \in Nat /\ ahead[m.to] \in Nat /\ m.to # e.at
                           /\ [at |-> m.to, f |-> c0.cost + m.cost + ahead[m.to]] \in t.open
                           /\ [at |-> m.to, cost |-> c0.cost + m.cost] \in t.costs
      /\ \A c \in t.costs :
             \/ c \in s.costs /\ \A m \in better : m.to # c.at
             \/ \E m \in better : c = [at |-> m.to, cost |-> c0.cost + m.cost]
      /\ \A o \in t.open :
             \/ o \in s.open /\ o # e
             \/ \E m \in better : o = [at |-> m.to, f |-> c0.cost + m.cost + ahead[m.to]]
      /\ \A o \in s.open : o # e => o \in t.open
      /\ \A c \in s.costs : (\A m \in better : m.to # c.at) => c \in t.costs
  BY <1>0 DEF Expansion
<1> HIDE DEF e, t, better
<1>2. ASSUME NEW c \in s.costs PROVE \E d \in t.costs : d.at = c.at /\ d.cost <= c.cost
  <2>0. c.cost \in Nat
    BY DEF Explored
  <2>1. CASE \A m \in better : m.to # c.at
    BY <1>1, <2>0, <2>1
  <2>2. ASSUME NEW m \in better, m.to = c.at PROVE \E d \in t.costs : d.at = c.at /\ d.cost <= c.cost
    <3>1. c0.cost + m.cost < c.cost /\ m.cost \in Nat
      BY <1>1, <2>2
    <3> DEFINE d == [at |-> m.to, cost |-> c0.cost + m.cost]
    <3>2. d \in t.costs
      BY <1>1
    <3>3. d.at = c.at /\ d.cost = c0.cost + m.cost
      BY <2>2
    <3> HIDE DEF d
    <3>4. d.cost <= c.cost
      BY <1>1, <2>0, <3>1, <3>3
    <3> QED
      BY <3>2, <3>3, <3>4
  <2> QED
    BY <2>1, <2>2
\* The parts of the invariant.
<1>3. t.open \subseteq [at : nodes, f : Nat] /\ t.costs \subseteq [at : nodes, cost : Nat]
  <2>1. ASSUME NEW m \in better
        PROVE  m.to \in nodes /\ c0.cost + m.cost + ahead[m.to] \in Nat /\ c0.cost + m.cost \in Nat
    <3>1. m.to \in nodes /\ m.cost \in Nat /\ ahead[m.to] \in Nat /\ c0.cost \in Nat
      BY <1>1
    <3> QED
      BY <3>1
  <2>2. s.open \subseteq [at : nodes, f : Nat] /\ s.costs \subseteq [at : nodes, cost : Nat]
    BY DEF Explored
  <2>3. ASSUME NEW o \in t.open PROVE o \in [at : nodes, f : Nat]
    BY <1>1, <2>1, <2>2
  <2>4. ASSUME NEW c \in t.costs PROVE c \in [at : nodes, cost : Nat]
    BY <1>1, <2>1, <2>2
  <2> QED
    BY <2>3, <2>4
<1>4. ASSUME NEW c \in t.costs, NEW d \in t.costs, c.at = d.at PROVE c = d
  <2>1. ASSUME NEW m \in better, NEW o \in better, m.to = o.to PROVE m = o
    <3>1. m \in steps[e.at] /\ o \in steps[e.at]
      BY <1>1
    <3> QED
      BY <1>1, <2>1, <3>1 DEF Moves
  <2>2. \A x \in s.costs, y \in s.costs : x.at = y.at => x = y
    BY DEF Explored
  <2> QED
    BY <1>1, <1>4, <2>1, <2>2
<1>5. \E c \in t.costs : c.at = start /\ c.cost = 0
  <2>1. PICK c \in s.costs : c.at = start /\ c.cost = 0
    BY DEF Explored
  <2>2. PICK d \in t.costs : d.at = c.at /\ d.cost <= c.cost
    BY <1>2
  <2> QED
    BY <1>3, <2>1, <2>2
<1>6. ASSUME NEW o \in t.open PROVE \E c \in t.costs : c.at = o.at /\ c.cost + ahead[c.at] <= o.f
  <2>1. CASE o \in s.open
    <3>1. PICK c \in s.costs : c.at = o.at /\ c.cost + ahead[c.at] <= o.f
      BY <2>1 DEF Explored
    <3>2. PICK d \in t.costs : d.at = c.at /\ d.cost <= c.cost
      BY <1>2
    <3>3. d.cost \in Nat /\ c.cost \in Nat /\ ahead[c.at] \in Nat /\ o.f \in Nat
      BY <1>3, <2>1 DEF Explored
    <3> QED
      BY <3>1, <3>2, <3>3
  <2>2. ASSUME NEW m \in better, o = [at |-> m.to, f |-> c0.cost + m.cost + ahead[m.to]]
        PROVE  \E c \in t.costs : c.at = o.at /\ c.cost + ahead[c.at] <= o.f
    <3> DEFINE c == [at |-> m.to, cost |-> c0.cost + m.cost]
    <3>1. c \in t.costs /\ c.at = m.to /\ c.cost = c0.cost + m.cost
      BY <1>1
    <3>2. m.cost \in Nat /\ ahead[m.to] \in Nat /\ c0.cost \in Nat
      BY <1>1
    <3>3. c.cost + ahead[c.at] <= o.f
      BY <2>2, <3>1, <3>2
    <3> QED
      BY <2>2, <3>1, <3>3
  <2> QED
    BY <1>1, <2>1, <2>2
<1>7. ASSUME NEW c \in t.costs
      PROVE  \/ \E o \in t.open : o.at = c.at /\ o.f = c.cost + ahead[c.at]
             \/ \A m \in steps[c.at] : \E d \in t.costs : d.at = m.to /\ d.cost <= c.cost + m.cost
  <2>1. ASSUME NEW m \in better, c = [at |-> m.to, cost |-> c0.cost + m.cost]
        PROVE  \E o \in t.open : o.at = c.at /\ o.f = c.cost + ahead[c.at]
    BY <1>1, <2>1
  <2>2. CASE c \in s.costs /\ c.at # e.at
    <3>1. ASSUME NEW o \in s.open, o.at = c.at, o.f = c.cost + ahead[c.at]
          PROVE  \E x \in t.open : x.at = c.at /\ x.f = c.cost + ahead[c.at]
      BY <1>1, <2>2, <3>1
    <3>2. ASSUME NEW m \in steps[c.at], NEW d \in s.costs, d.at = m.to, d.cost <= c.cost + m.cost
          PROVE  \E x \in t.costs : x.at = m.to /\ x.cost <= c.cost + m.cost
      <4>1. PICK x \in t.costs : x.at = d.at /\ x.cost <= d.cost
        BY <1>2
      <4>2. x.cost \in Nat /\ d.cost \in Nat /\ c.cost \in Nat /\ m.cost \in Nat
        <5>1. c.at \in nodes
          BY <1>3
        <5> QED
          BY <1>3, <5>1 DEF Explored, Moves
      <4> QED
        BY <3>2, <4>1, <4>2
    <3> QED
      BY <2>2, <3>1, <3>2 DEF Explored
  <2>3. ASSUME c \in s.costs, c.at = e.at, NEW m \in steps[c.at]
        PROVE  \E d \in t.costs : d.at = m.to /\ d.cost <= c.cost + m.cost
    <3>1. c = c0
      BY <1>1, <2>3 DEF Explored
    <3>0. m.cost \in Nat /\ c.cost \in Nat
      BY <1>1, <2>3, <3>1 DEF Moves
    <3>2. CASE m \in better
      <4> DEFINE d == [at |-> m.to, cost |-> c0.cost + m.cost]
      <4>1. d \in t.costs
        BY <1>1, <3>2
      <4>2. d.at = m.to /\ d.cost = c.cost + m.cost
        BY <3>1
      <4> HIDE DEF d
      <4>3. d.cost <= c.cost + m.cost
        BY <3>0, <4>2
      <4> QED
        BY <4>1, <4>2, <4>3
    <3>3. CASE m \notin better
      <4>1. PICK d \in s.costs : d.at = m.to /\ ~(c0.cost + m.cost < d.cost)
        BY <1>1, <2>3, <3>3
      <4>2. PICK x \in t.costs : x.at = d.at /\ x.cost <= d.cost
        BY <1>2
      <4>3. d.cost \in Nat /\ x.cost \in Nat
        BY <1>3 DEF Explored
      <4> QED
        BY <3>0, <3>1, <4>1, <4>2, <4>3
    <3> QED
      BY <3>2, <3>3
  <2> QED
    BY <1>1, <2>1, <2>2, <2>3
<1>8. Explored(t, nodes, start, steps, ahead)
  BY <1>3, <1>4, <1>5, <1>6, <1>7 DEF Explored
<1> QED
  BY <1>2, <1>8 DEF t

\* Nothing that is recorded is below ideal costs.
Above(s, ideal) == \A c \in s.costs : \E d \in ideal : d.at = c.at /\ d.cost <= c.cost

LEMMA ExpandAbove ==
  ASSUME NEW nodes, NEW start, NEW goal, NEW steps, NEW ahead, NEW s, NEW ideal, Moves(nodes, steps),
         \A n \in nodes : ahead[n] \in Nat, Ideal(ideal, nodes, start, steps),
         Explored(s, nodes, start, steps, ahead), ~Finished(s, goal), Above(s, ideal)
  PROVE  Above(Expand(s, steps, ahead), ideal)
<1> DEFINE e == Popped(s)
           t == Expand(s, steps, ahead)
           better == Better(s, steps)
<1>0. PICK c0 \in s.costs : Expansion(c0, s, nodes, steps, ahead)
  BY ExpandParts
<1>1. /\ c0.at = e.at /\ c0.cost \in Nat /\ e.at \in nodes
      /\ better = {m \in steps[e.at] : \A c \in s.costs : c.at = m.to => c0.cost + m.cost < c.cost}
      /\ \A c \in t.costs :
             \/ c \in s.costs /\ \A m \in better : m.to # c.at
             \/ \E m \in better : c = [at |-> m.to, cost |-> c0.cost + m.cost]
  BY <1>0 DEF Expansion
<1> HIDE DEF e, t, better
<1>2. ASSUME NEW m \in better PROVE \E d \in ideal : d.at = m.to /\ d.cost <= c0.cost + m.cost
  <2>1. PICK i \in ideal : i.at = c0.at /\ i.cost <= c0.cost
    BY DEF Above
  <2>2. m \in steps[i.at] /\ i.at \in nodes
    BY <1>1, <2>1
  <2>3. PICK d \in ideal : d.at = m.to /\ d.cost <= i.cost + m.cost
    BY <2>2 DEF Ideal
  <2>4. d.cost \in Nat /\ i.cost \in Nat /\ m.cost \in Nat
    BY <2>2 DEF Ideal, Moves
  <2> QED
    BY <1>1, <2>1, <2>3, <2>4
<1>3. Above(t, ideal)
  BY <1>1, <1>2 DEF Above
<1> QED
  BY <1>3 DEF t


----------------------------------------------------------------------------
(* Path search: the end of the loop                                         *)

\* A recorded cost is that of as many moves as there are other recorded nodes at
\* most, none dearer than D.
Seen(s) == {c.at : c \in s.costs}
Bounded(s, D) == IsFiniteSet(s.open) /\ \A c \in s.costs : c.cost <= (Cardinality(Seen(s)) - 1) * D

\* What a node could still be recorded at.
Untried(s, nodes, B) == {p \in nodes \X (0..B) : \A c \in s.costs : c.at = p[1] => p[2] < c.cost}

\* How much work is left: every expansion takes an entry away, and for every entry
\* it adds it tries a cost of a node.
Left(s, nodes, B) == Cardinality(s.open) + Cardinality(Untried(s, nodes, B))

LEMMA ProductsGrow ==
  ASSUME NEW a \in Nat, NEW b \in Int, NEW c \in Int, b <= c
  PROVE  a * b <= a * c /\ a * b \in Int /\ a * c \in Int
<1>1. PICK k \in Nat : c = b + k
  <2>1. c - b \in Nat /\ c = b + (c - b)
    OBVIOUS
  <2> QED
    BY <2>1
<1>2. a * c = a * b + a * k /\ a * k \in Nat /\ a * b \in Int
  BY <1>1
<1> QED
  BY <1>2

LEMMA CostsBounded ==
  ASSUME NEW nodes, IsFiniteSet(nodes), NEW start, NEW goal, NEW steps, NEW ahead, NEW s, Moves(nodes, steps),
         NEW D \in Nat, \A n \in nodes : \A m \in steps[n] : m.cost <= D,
         \A n \in nodes : ahead[n] \in Nat,
         Explored(s, nodes, start, steps, ahead), ~Finished(s, goal), Bounded(s, D)
  PROVE  LET t == Expand(s, steps, ahead)
         IN  \A c \in t.costs : c.cost <= (Cardinality(Seen(t)) - 1) * D
<1> DEFINE e == Popped(s)
           t == Expand(s, steps, ahead)
           better == Better(s, steps)
           k == Cardinality(Seen(s))
           l == Cardinality(Seen(t))
<1>0. PICK c0 \in s.costs : Expansion(c0, s, nodes, steps, ahead)
  BY ExpandParts
<1>1. /\ c0.at = e.at /\ c0.cost \in Nat /\ e.at \in nodes
      /\ better = {m \in steps[e.at] : \A c \in s.costs : c.at = m.to => c0.cost + m.cost < c.cost}
      /\ \A m \in better : m.cost \in Nat /\ [at |-> m.to, cost |-> c0.cost + m.cost] \in t.costs
      /\ \A c \in t.costs :
             \/ c \in s.costs /\ \A m \in better : m.to # c.at
             \/ \E m \in better : c = [at |-> m.to, cost |-> c0.cost + m.cost]
  BY <1>0 DEF Expansion
<1>2. /\ Explored(t, nodes, start, steps, ahead)
      /\ \A c \in s.costs : \E d \in t.costs : d.at = c.at /\ d.cost <= c.cost
  BY ExpandExplored
<1> HIDE DEF e, t, better
<1>3. Seen(s) \subseteq Seen(t) /\ Seen(t) \subseteq nodes
  BY <1>2 DEF Explored, Seen
<1>4. IsFiniteSet(Seen(s)) /\ IsFiniteSet(Seen(t)) /\ k \in Nat /\ l \in Nat /\ k <= l
  BY <1>3, FS_Subset, FS_CardinalityType
<1> HIDE DEF k, l
<1>5. D * (k - 1) <= D * (l - 1) /\ D * (k - 1) \in Int /\ D * (l - 1) \in Int
  BY <1>4, ProductsGrow
<1>6. (k - 1) * D = D * (k - 1) /\ (l - 1) * D = D * (l - 1)
  BY <1>4
<1>7. ASSUME NEW c \in s.costs PROVE c.cost <= D * (l - 1) /\ c.cost <= D * (k - 1) /\ c.cost \in Nat
  <2>1. c.cost <= (k - 1) * D /\ c.cost \in Nat
    BY DEF Bounded, k, Explored
  <2> QED
    BY <1>5, <1>6, <2>1
<1>8. ASSUME NEW m \in better PROVE c0.cost + m.cost <= D * (l - 1)
  <2>1. m \in steps[e.at] /\ m.cost \in Nat /\ m.cost <= D
    BY <1>1
  <2>2. CASE \E c \in s.costs : c.at = m.to
    <3>1. PICK c \in s.costs : c.at = m.to
      BY <2>2
    <3>2. c0.cost + m.cost < c.cost
      BY <1>1, <3>1
    <3> QED
      BY <1>1, <1>5, <1>7, <2>1, <3>2
  <2>3. CASE ~\E c \in s.costs : c.at = m.to
    <3> DEFINE d == [at |-> m.to, cost |-> c0.cost + m.cost]
    <3>0. d \in t.costs /\ d.at = m.to
      BY <1>1
    <3> HIDE DEF d
    <3>1. m.to \notin Seen(s) /\ m.to \in Seen(t)
      <4>1. m.to \notin Seen(s)
        BY <2>3 DEF Seen
      <4>2. m.to \in Seen(t)
        BY <3>0 DEF Seen
      <4> QED
        BY <4>1, <4>2
    <3>2. Seen(s) \cup {m.to} \subseteq Seen(t)
      BY <1>3, <3>1
    <3>3. Cardinality(Seen(s) \cup {m.to}) = k + 1
      BY <1>4, <3>1, FS_AddElement DEF k
    <3>4. k + 1 <= l
      BY <1>4, <3>2, <3>3, FS_Subset DEF l
    <3>5. D * k <= D * (l - 1) /\ D * k \in Int
      <4>1. k <= l - 1
        BY <1>4, <3>4
      <4> QED
        BY <1>4, <4>1, ProductsGrow
    <3>6. D * k = D * (k - 1) + D
      BY <1>4
    <3>7. c0.cost <= D * (k - 1)
      BY <1>7
    <3> QED
      BY <1>1, <1>5, <2>1, <3>5, <3>6, <3>7
  <2> QED
    BY <2>2, <2>3
<1>9. \A c \in t.costs : c.cost <= (l - 1) * D
  BY <1>1, <1>6, <1>7, <1>8
<1> QED
  BY <1>9 DEF t, l

LEMMA LeftFalls ==
  ASSUME NEW nodes, IsFiniteSet(nodes), NEW start, NEW goal, NEW steps, NEW ahead, NEW s, Moves(nodes, steps),
         NEW D \in Nat, \A n \in nodes : \A m \in steps[n] : m.cost <= D,
         NEW B \in Nat, B = Cardinality(nodes) * D,
         \A n \in nodes : ahead[n] \in Nat,
         Explored(s, nodes, start, steps, ahead), ~Finished(s, goal), Bounded(s, D)
  PROVE  LET t == Expand(s, steps, ahead)
         IN  Bounded(t, D) /\ Left(t, nodes, B) + 1 <= Left(s, nodes, B)
<1> DEFINE e == Popped(s)
           t == Expand(s, steps, ahead)
           better == Better(s, steps)
           old == Untried(s, nodes, B)
           new == Untried(t, nodes, B)
<1>0. PICK c0 \in s.costs : Expansion(c0, s, nodes, steps, ahead)
  BY ExpandParts
<1>1. /\ c0.at = e.at /\ c0.cost \in Nat /\ e.at \in nodes /\ e \in s.open
      /\ better = {m \in steps[e.at] : \A c \in s.costs : c.at = m.to => c0.cost + m.cost < c.cost}
      /\ \A m \in better : m.cost \in Nat /\ m.to \in nodes /\ [at |-> m.to, cost |-> c0.cost + m.cost] \in t.costs
      /\ t.open = (s.open \ {e}) \cup Reopened(s, steps, ahead)
  BY <1>0 DEF Expansion
<1>2. /\ Explored(t, nodes, start, steps, ahead)
      /\ \A c \in s.costs : \E d \in t.costs : d.at = c.at /\ d.cost <= c.cost
  BY ExpandExplored
<1>3. \A c \in t.costs : c.cost <= (Cardinality(Seen(t)) - 1) * D
  BY CostsBounded
<1>4. Reopened(s, steps, ahead) = {[at |-> m.to, f |-> SoFar(s) + m.cost + ahead[m.to]] : m \in better}
  BY DEF Reopened
<1> HIDE DEF e, t, better
<1>5. \A c \in t.costs : c.cost \in 0..B
  <2> DEFINE l == Cardinality(Seen(t))
  <2>1. Seen(t) \subseteq nodes
    BY <1>2 DEF Explored, Seen
  <2>2. l \in Nat /\ Cardinality(nodes) \in Nat /\ l <= Cardinality(nodes)
    BY <2>1, FS_Subset, FS_CardinalityType
  <2> HIDE DEF l
  <2>3. D * (l - 1) <= D * Cardinality(nodes)
    <3>1. l - 1 <= Cardinality(nodes) /\ l - 1 \in Int /\ Cardinality(nodes) \in Int
      BY <2>2
    <3> QED
      BY <3>1, ProductsGrow
  <2>4. (l - 1) * D = D * (l - 1) /\ B = D * Cardinality(nodes) /\ D * (l - 1) \in Int
    BY <2>2
  <2>5. ASSUME NEW c \in t.costs PROVE c.cost \in 0..B
    <3>1. c.cost \in Nat /\ c.cost <= (l - 1) * D
      BY <1>2, <1>3 DEF Explored, l
    <3> QED
      BY <2>3, <2>4, <3>1
  <2> QED
    BY <2>5
<1>6. new \subseteq old
  <2>1. ASSUME NEW p \in nodes \X (0..B), NEW c \in s.costs, c.at = p[1],
               \A d \in t.costs : d.at = p[1] => p[2] < d.cost
        PROVE  p[2] < c.cost
    <3>1. PICK d \in t.costs : d.at = c.at /\ d.cost <= c.cost
      BY <1>2
    <3>2. d.cost \in Nat /\ c.cost \in Nat /\ p[2] \in Nat
      BY <1>2 DEF Explored
    <3> QED
      BY <2>1, <3>1, <3>2
  <2> QED
    BY <2>1 DEF Untried
<1>7. ASSUME NEW m \in better PROVE <<m.to, c0.cost + m.cost>> \in old \ new
  <2> DEFINE c == [at |-> m.to, cost |-> c0.cost + m.cost]
             p == <<m.to, c0.cost + m.cost>>
  <2>1. c \in t.costs /\ c.at = m.to /\ c.cost = c0.cost + m.cost
    BY <1>1
  <2>2. p \in nodes \X (0..B) /\ p[1] = m.to /\ p[2] = c0.cost + m.cost
    BY <1>1, <1>5, <2>1
  <2>3. \A d \in s.costs : d.at = m.to => c0.cost + m.cost < d.cost
    BY <1>1
  <2>4. c0.cost + m.cost \in Nat
    <3>1. c0.cost \in Nat /\ m.cost \in Nat
      BY <1>1
    <3> QED
      BY <3>1
  <2> HIDE DEF c, p
  <2>5. p \in old
    BY <2>2, <2>3 DEF Untried
  <2>6. p \notin new
    BY <2>1, <2>2, <2>4 DEF Untried
  <2> QED
    BY <2>5, <2>6 DEF p
<1>8. IsFiniteSet(old) /\ IsFiniteSet(new) /\ IsFiniteSet(old \ new)
  <2>0. IsFiniteSet(0..B)
    <3>1. 0 \in Int /\ B \in Int
      OBVIOUS
    <3> QED
      BY <3>1, FS_Interval
  <2>1. IsFiniteSet(nodes \X (0..B))
    BY <2>0, FS_Product
  <2>2. old \subseteq nodes \X (0..B)
    BY DEF Untried
  <2> QED
    BY <1>6, <2>1, <2>2, FS_Subset, FS_Difference
<1> HIDE DEF old, new
<1>9. Cardinality(old \ new) = Cardinality(old) - Cardinality(new)
  <2>1. old \cap new = new
    BY <1>6
  <2> QED
    BY <1>8, <2>1, FS_Difference
<1>10. IsFiniteSet(better) /\ Cardinality(better) <= Cardinality(old \ new)
  <2> DEFINE f == [m \in better |-> <<m.to, c0.cost + m.cost>>]
  <2>1. f \in [better -> old \ new]
    BY <1>7
  <2>2. ASSUME NEW m \in better, NEW o \in better, f[m] = f[o] PROVE m = o
    <3>1. m.to = o.to /\ m \in steps[e.at] /\ o \in steps[e.at]
      BY <1>1, <2>2
    <3> QED
      BY <1>1, <3>1 DEF Moves
  <2> HIDE DEF f
  <2> QED
    BY <1>8, <2>1, <2>2, ImageBound
<1> DEFINE more == Reopened(s, steps, ahead)
<1>11. IsFiniteSet(more) /\ Cardinality(more) <= Cardinality(better)
  <2> DEFINE f == [m \in better |-> [at |-> m.to, f |-> SoFar(s) + m.cost + ahead[m.to]]]
  <2>1. more = {f[m] : m \in better}
    BY <1>4
  <2>2. DOMAIN f = better
    OBVIOUS
  <2> HIDE DEF f, more
  <2> QED
    BY <1>10, <2>1, <2>2, ImageOf
<1> DEFINE rest == s.open \ {e}
<1>12. /\ IsFiniteSet(rest) /\ Cardinality(rest) = Cardinality(s.open) - 1
       /\ Cardinality(s.open) \in Nat
  BY <1>1, FS_RemoveElement, FS_CardinalityType DEF Bounded
<1>13. t.open = rest \cup more
  BY <1>1
<1> HIDE DEF rest, more
<1>14. IsFiniteSet(t.open) /\ Cardinality(t.open) <= Cardinality(rest) + Cardinality(more)
  <2>1. IsFiniteSet(rest \cup more) /\ IsFiniteSet(rest \cap more)
    BY <1>11, <1>12, FS_Union, FS_Intersection
  <2>2. Cardinality(rest \cup more) = Cardinality(rest) + Cardinality(more) - Cardinality(rest \cap more)
    BY <1>11, <1>12, FS_Union
  <2>3. /\ Cardinality(rest) \in Nat /\ Cardinality(more) \in Nat
        /\ Cardinality(rest \cap more) \in Nat /\ Cardinality(rest \cup more) \in Nat
    BY <1>11, <1>12, <2>1, FS_CardinalityType
  <2> QED
    BY <1>13, <2>1, <2>2, <2>3
<1>15. /\ Cardinality(old) \in Nat /\ Cardinality(new) \in Nat /\ Cardinality(better) \in Nat
       /\ Cardinality(more) \in Nat /\ Cardinality(t.open) \in Nat /\ Cardinality(rest) \in Nat
  BY <1>8, <1>10, <1>11, <1>12, <1>14, FS_CardinalityType
<1>16. Cardinality(t.open) + Cardinality(new) + 1 <= Cardinality(s.open) + Cardinality(old)
  BY <1>9, <1>10, <1>11, <1>12, <1>14, <1>15
<1>17. Bounded(t, D)
  BY <1>3, <1>14 DEF Bounded
<1>18. Left(t, nodes, B) = Cardinality(t.open) + Cardinality(new) /\ Left(s, nodes, B) = Cardinality(s.open) + Cardinality(old)
  BY DEF Left, old, new
<1>19. Left(t, nodes, B) + 1 <= Left(s, nodes, B)
  BY <1>15, <1>16, <1>18, <1>12
<1> QED
  BY <1>17, <1>19 DEF t


\* The loop's invariant: what is left falls with every pass.
Trying(s, n, nodes, start, goal, steps, ahead, ideal) ==
    /\ Explored(s, nodes, start, steps, ahead) /\ Above(s, ideal) /\ Bounded(s, DearestMove(nodes, steps))
    /\ \/ Finished(s, goal)
       \/ Left(s, nodes, Cardinality(nodes) * DearestMove(nodes, steps)) + n <= MostPasses(nodes, steps)

LEMMA LeftType ==
  ASSUME NEW nodes, IsFiniteSet(nodes), NEW s, IsFiniteSet(s.open), NEW B \in Nat
  PROVE  /\ Left(s, nodes, B) \in Nat /\ Cardinality(s.open) <= Left(s, nodes, B)
         /\ Left(s, nodes, B) <= Cardinality(s.open) + Cardinality(nodes) * (B + 1)
<1>1. IsFiniteSet(0..B) /\ Cardinality(0..B) = B + 1
  <2>1. 0 \in Int /\ B \in Int
    OBVIOUS
  <2>2. IsFiniteSet(0..B) /\ Cardinality(0..B) = IF 0 > B THEN 0 ELSE B - 0 + 1
    BY <2>1, FS_Interval
  <2> QED
    BY <2>2
<1>2. IsFiniteSet(nodes \X (0..B)) /\ Cardinality(nodes \X (0..B)) = Cardinality(nodes) * (B + 1)
  BY <1>1, FS_Product
<1>3. Untried(s, nodes, B) \subseteq nodes \X (0..B)
  BY DEF Untried
<1>4. IsFiniteSet(Untried(s, nodes, B)) /\ Cardinality(Untried(s, nodes, B)) <= Cardinality(nodes) * (B + 1)
  BY <1>2, <1>3, FS_Subset
<1>5. Cardinality(Untried(s, nodes, B)) \in Nat /\ Cardinality(s.open) \in Nat
  BY <1>4, FS_CardinalityType
<1>6. Cardinality(nodes) * (B + 1) \in Int
  <2>1. Cardinality(nodes) \in Nat
    BY FS_CardinalityType
  <2> QED
    BY <2>1
<1> QED
  BY <1>4, <1>5, <1>6 DEF Left

LEMMA TryingOn ==
  ASSUME NEW nodes, IsFiniteSet(nodes), NEW start, NEW goal, NEW steps, NEW ahead, NEW s, NEW ideal,
         Moves(nodes, steps), \A n \in nodes : ahead[n] \in Nat, Ideal(ideal, nodes, start, steps),
         NEW n \in Nat, Trying(s, n, nodes, start, goal, steps, ahead, ideal)
  PROVE  Trying(Pass(s, goal, steps, ahead), n + 1, nodes, start, goal, steps, ahead, ideal)
<1>1. CASE Finished(s, goal)
  BY <1>1 DEF Pass, Trying
<1>2. CASE ~Finished(s, goal)
  <2> DEFINE D == DearestMove(nodes, steps)
             B == Cardinality(nodes) * D
             t == Expand(s, steps, ahead)
  <2>1. D \in Nat /\ \A p \in nodes : \A m \in steps[p] : m.cost <= D
    BY DearestOf
  <2>2. B \in Nat
    <3> HIDE DEF D
    <3>1. Cardinality(nodes) \in Nat
      BY FS_CardinalityType
    <3> QED
      BY <2>1, <3>1
  <2>3. Explored(s, nodes, start, steps, ahead) /\ Above(s, ideal) /\ Bounded(s, D)
    BY DEF Trying
  <2>4. Left(s, nodes, B) + n <= MostPasses(nodes, steps)
    BY <1>2 DEF Trying
  <2>5. B = Cardinality(nodes) * D
    OBVIOUS
  <2> HIDE DEF D, B
  <2>6. Bounded(t, D) /\ Left(t, nodes, B) + 1 <= Left(s, nodes, B)
    BY <1>2, <2>1, <2>2, <2>3, <2>5, LeftFalls
  <2>7. Explored(t, nodes, start, steps, ahead) /\ Above(t, ideal)
    BY <1>2, <2>3, ExpandExplored, ExpandAbove
  <2>8. Left(s, nodes, B) \in Nat /\ Left(t, nodes, B) \in Nat /\ MostPasses(nodes, steps) \in Nat
    <3>1. IsFiniteSet(s.open) /\ IsFiniteSet(t.open)
      BY <2>3, <2>6 DEF Bounded
    <3> QED
      BY <2>2, <3>1, LeftType, MostPassesType
  <2>9. Left(t, nodes, B) + (n + 1) <= MostPasses(nodes, steps)
    BY <2>4, <2>6, <2>8
  <2>10. Pass(s, goal, steps, ahead) = t
    BY <1>2 DEF Pass
  <2> QED
    BY <2>6, <2>7, <2>9, <2>10 DEF Trying, B, D
<1> QED
  BY <1>1, <1>2

LEMMA TryingFirst ==
  ASSUME NEW nodes, IsFiniteSet(nodes), NEW start \in nodes, NEW goal, start # goal, NEW steps, NEW ahead, NEW ideal,
         Moves(nodes, steps), \A n \in nodes : ahead[n] \in Nat, Ideal(ideal, nodes, start, steps)
  PROVE  Trying(Pass(Begun(start), goal, steps, ahead), 1, nodes, start, goal, steps, ahead, ideal)
<1> DEFINE s == Opened(start, ahead)
           D == DearestMove(nodes, steps)
           B == Cardinality(nodes) * D
<1>1. s.open = {[at |-> start, f |-> ahead[start]]} /\ s.costs = {[at |-> start, cost |-> 0]}
  BY DEF Opened
<1> HIDE DEF s
<1>2. Pass(Begun(start), goal, steps, ahead) = Pass(s, goal, steps, ahead)
  BY FirstPass DEF s
<1>3. \A c \in s.costs : c = [at |-> start, cost |-> 0] /\ c.at = start /\ c.cost = 0
  BY <1>1
<1>4. \A o \in s.open : o.at = start /\ o.f = ahead[start]
  BY <1>1
<1>5. (\E o \in s.open : TRUE) /\ (\E c \in s.costs : TRUE)
  BY <1>1
<1>6. s.open \subseteq [at : nodes, f : Nat] /\ s.costs \subseteq [at : nodes, cost : Nat]
  <2>1. /\ [at |-> start, f |-> ahead[start]] \in [at : nodes, f : Nat]
        /\ [at |-> start, cost |-> 0] \in [at : nodes, cost : Nat]
    OBVIOUS
  <2> QED
    BY <1>1, <2>1
<1>7. Explored(s, nodes, start, steps, ahead)
  <2>1. \A o \in s.open : \E c \in s.costs : c.at = o.at /\ c.cost + ahead[c.at] <= o.f
    BY <1>3, <1>4, <1>5
  <2>2. \A c \in s.costs : \E o \in s.open : o.at = c.at /\ o.f = c.cost + ahead[c.at]
    BY <1>3, <1>4, <1>5
  <2> QED
    BY <1>3, <1>5, <1>6, <2>1, <2>2 DEF Explored
<1>8. Above(s, ideal)
  <2>1. PICK d \in ideal : d.at = start /\ d.cost = 0
    BY DEF Ideal
  <2> QED
    BY <1>3, <2>1 DEF Above
<1>9. D \in Nat /\ Cardinality(nodes) \in Nat
  BY DearestOf, FS_CardinalityType
<1> HIDE DEF D
<1>10. B \in Nat
  BY <1>9
<1>11. IsFiniteSet(s.open) /\ Cardinality(s.open) = 1 /\ Cardinality(Seen(s)) = 1
  <2>1. PICK x : s.open = {x}
    BY <1>1
  <2>2. Seen(s) = {start}
    BY <1>3, <1>5 DEF Seen
  <2>3. \A y : IsFiniteSet({y}) /\ Cardinality({y}) = 1
    BY FS_Singleton, Zenon
  <2> QED
    BY <2>1, <2>2, <2>3
<1>12. Bounded(s, D)
  <2>1. (1 - 1) * D = 0
    BY <1>9
  <2> QED
    BY <1>3, <1>11, <2>1 DEF Bounded
<1>13. Left(s, nodes, B) + 0 <= MostPasses(nodes, steps)
  <2>1. B = Cardinality(nodes) * D
    OBVIOUS
  <2> HIDE DEF B
  <2>2. Left(s, nodes, B) \in Nat /\ Left(s, nodes, B) <= 1 + Cardinality(nodes) * (B + 1)
    BY <1>10, <1>11, LeftType
  <2>3. MostPasses(nodes, steps) = Cardinality(nodes) * (B + 1) + 1
    BY <2>1 DEF MostPasses, D
  <2>4. Cardinality(nodes) * (B + 1) \in Int
    BY <1>9, <1>10
  <2> QED
    BY <2>2, <2>3, <2>4
<1>14. Trying(s, 0, nodes, start, goal, steps, ahead, ideal)
  BY <1>7, <1>8, <1>12, <1>13 DEF Trying, D
<1>15. Trying(Pass(s, goal, steps, ahead), 0 + 1, nodes, start, goal, steps, ahead, ideal)
  BY <1>14, TryingOn
<1> QED
  BY <1>2, <1>15

\* After the last pass the search has finished.
LEMMA SearchEnds ==
  ASSUME NEW nodes, IsFiniteSet(nodes), NEW start \in nodes, NEW goal, start # goal, NEW steps, NEW ahead, NEW ideal,
         Moves(nodes, steps), \A n \in nodes : ahead[n] \in Nat, Ideal(ideal, nodes, start, steps), NEW run,
         Passes(run, MostPasses(nodes, steps), start, goal, steps, ahead)
  PROVE  LET s == run[MostPasses(nodes, steps)]
         IN  Explored(s, nodes, start, steps, ahead) /\ Above(s, ideal) /\ Finished(s, goal)
<1> DEFINE K == MostPasses(nodes, steps)
           s == run[K]
           Held(n) == Trying(run[n], n, nodes, start, goal, steps, ahead, ideal)
           Broken == {k \in 1..K : ~Held(k)}
<1>1. K \in Nat /\ K # 0
  <2>1. Cardinality(nodes) \in Nat /\ DearestMove(nodes, steps) \in Nat
    BY FS_CardinalityType, DearestOf
  <2>2. ASSUME NEW a \in Nat, NEW b \in Nat PROVE a * (a * b + 1) + 1 # 0
    <3> DEFINE c == a * b + 1
    <3>1. c \in Nat
      <4>1. a * b \in Nat
        OBVIOUS
      <4> QED
        BY <4>1
    <3> HIDE DEF c
    <3>2. a * c \in Nat
      BY <3>1
    <3> QED
      BY <3>2 DEF c
  <2> QED
    BY <2>1, <2>2, MostPassesType DEF MostPasses
<1>2. run[0] = Begun(start) /\ \A n \in 1..K : run[n] = Pass(run[n - 1], goal, steps, ahead)
  BY DEF Passes
<1>3. K = MostPasses(nodes, steps)
  OBVIOUS
<1> HIDE DEF K
<1>4. Held(1)
  <2>1. 1 \in 1..K /\ 1 - 1 = 0
    BY <1>1
  <2>2. run[1] = Pass(Begun(start), goal, steps, ahead)
    BY <1>2, <2>1
  <2> QED
    BY <2>2, TryingFirst
<1>5. ASSUME NEW k \in Broken PROVE k - 1 \in Broken
  <2>1. k # 1
    BY <1>4
  <2>2. k - 1 \in 1..K /\ k - 1 \in Nat /\ k - 1 + 1 = k /\ k \in 1..K /\ ~Held(k)
    BY <1>1, <2>1
  <2>3. run[k] = Pass(run[k - 1], goal, steps, ahead)
    BY <1>2, <2>2
  <2>4. ASSUME Held(k - 1) PROVE FALSE
    <3>1. Trying(Pass(run[k - 1], goal, steps, ahead), k - 1 + 1, nodes, start, goal, steps, ahead, ideal)
      BY <2>2, <2>4, TryingOn
    <3> QED
      BY <2>2, <2>3, <3>1
  <2> QED
    BY <2>2, <2>4
<1>6. Broken = {}
  <2>1. Broken \in SUBSET Nat /\ \A k \in Broken : k # 0
    BY <1>1
  <2> HIDE DEF Broken
  <2> QED
    BY <1>5, <2>1, NoFirst
<1>7. Trying(s, K, nodes, start, goal, steps, ahead, ideal)
  BY <1>1, <1>6
<1> HIDE DEF s
<1>8. Finished(s, goal)
  <2>1. CASE ~Finished(s, goal)
    <3> DEFINE B == Cardinality(nodes) * DearestMove(nodes, steps)
    <3>1. B \in Nat
      <4>1. Cardinality(nodes) \in Nat /\ DearestMove(nodes, steps) \in Nat
        BY FS_CardinalityType, DearestOf
      <4> QED
        BY <4>1
    <3>2. Left(s, nodes, B) + K <= K /\ IsFiniteSet(s.open)
      BY <1>3, <1>7, <2>1 DEF Trying, Bounded
    <3> HIDE DEF B
    <3>3. Left(s, nodes, B) \in Nat /\ Cardinality(s.open) <= Left(s, nodes, B) /\ Cardinality(s.open) \in Nat
      BY <3>1, <3>2, LeftType, FS_CardinalityType
    <3>4. Cardinality(s.open) = 0
      BY <1>1, <3>2, <3>3
    <3>5. s.open = {}
      BY <3>2, <3>4, FS_EmptySet
    <3> QED
      BY <3>5 DEF Finished
  <2> QED
    BY <2>1
<1> QED
  BY <1>7, <1>8 DEF Trying, s, K


----------------------------------------------------------------------------
(* Path search: an estimate that is too high by a factor                    *)

\* An estimate that falls, along a move, by no more than q / p of its cost.
Falls(nodes, steps, ahead, p, q) ==
    \A n \in nodes : \A m \in steps[n] : p * ahead[n] <= q * m.cost + p * ahead[m.to]

\* One more move, m, after a walk of cost w to a node that is recorded at a; h and
\* k are the estimates before and after it.
LEMMA OneMoveOn ==
  ASSUME NEW p \in Nat, NEW q \in Nat, p <= q, NEW a \in Nat, NEW w \in Nat, a <= w,
         NEW h \in Nat, NEW k \in Nat, NEW m \in Nat, p * h <= q * m + p * k
  PROVE  p * (a + h) <= q * (w + m) + p * k
<1>1. p * a <= p * w /\ p * a \in Int /\ p * w \in Int
  BY ProductsGrow
<1>2. w * p <= w * q /\ w * p \in Int /\ w * q \in Int
  BY ProductsGrow
<1>3. p * w = w * p /\ q * w = w * q /\ p * (a + h) = p * a + p * h /\ q * (w + m) = q * w + q * m
  OBVIOUS
<1>4. p * h \in Int /\ q * m \in Int /\ p * k \in Int
  OBVIOUS
<1> QED
  BY <1>1, <1>2, <1>3, <1>4

\* Whatever node a walk leads to, it is recorded at no more than the walk's cost,
\* or an open entry is worth no more than the walk promises, by the factor.
LEMMA WalksAreNear ==
  ASSUME NEW nodes, NEW start \in nodes, NEW steps, NEW ahead, NEW s,
         Moves(nodes, steps), \A n \in nodes : ahead[n] \in Nat,
         NEW p \in Nat, NEW q \in Nat, p <= q, Falls(nodes, steps, ahead, p, q),
         Explored(s, nodes, start, steps, ahead),
         NEW V \in Nat, NEW walk, Walks(walk, V, start, steps), NEW last \in 0..V
  PROVE  \A w \in walk[last] : \/ \E c \in s.costs : c.at = w.at /\ c.cost <= w.cost
                               \/ \E o \in s.open : p * o.f <= q * w.cost + p * ahead[w.at]
<1> DEFINE Reached(w) == \E c \in s.costs : c.at = w.at /\ c.cost <= w.cost
           Promised(w)  == \E o \in s.open : p * o.f <= q * w.cost + p * ahead[w.at]
           Broken == {k \in 0..V : ~\A w \in walk[k] : Reached(w) \/ Promised(w)}
<1>1. \A n \in 0..V : walk[n] \subseteq [at : nodes, cost : Nat]
  BY NoEstimate, WalkTypes
<1>2. \A w \in walk[0] : Reached(w)
  <2>1. \A w \in walk[0] : w.at = start /\ w.cost = 0
    BY DEF Walks
  <2>2. PICK c \in s.costs : c.at = start /\ c.cost = 0
    BY DEF Explored
  <2> QED
    BY <2>1, <2>2
<1>3. ASSUME NEW k \in Broken PROVE k # 0 /\ k - 1 \in Broken
  <2>1. k # 0
    BY <1>2
  <2>2. k \in 1..V /\ k - 1 \in 0..V /\ k \in 0..V
    BY <2>1
  <2>3. walk[k] = LeastIn(walk[k - 1] \cup Longer(walk[k - 1], steps))
    BY <2>2 DEF Walks
  <2>4. ASSUME \A w \in walk[k - 1] : Reached(w) \/ Promised(w), NEW w \in walk[k]
        PROVE  Reached(w) \/ Promised(w)
    <3> HIDE DEF Reached, Promised
    <3>1. w \in walk[k - 1] \/ w \in Longer(walk[k - 1], steps)
      BY <2>3 DEF LeastIn
    <3>2. CASE w \in Longer(walk[k - 1], steps)
      <4>1. PICK x \in walk[k - 1] : \E m \in steps[x.at] : w = [at |-> m.to, cost |-> x.cost + m.cost]
        BY <3>2 DEF Longer
      <4>2. PICK m \in steps[x.at] : w = [at |-> m.to, cost |-> x.cost + m.cost]
        BY <4>1
      <4>3. w.at = m.to /\ w.cost = x.cost + m.cost
        BY <4>2
      <4>4. x.at \in nodes /\ x.cost \in Nat
        BY <1>1, <2>2
      <4>5. m.to \in nodes /\ m.cost \in Nat
        BY <4>4 DEF Moves
      <4>6. ahead[x.at] \in Nat /\ ahead[m.to] \in Nat /\ p * ahead[x.at] <= q * m.cost + p * ahead[m.to]
        BY <4>4, <4>5 DEF Falls
      <4>7. CASE Reached(x)
        <5>1. PICK c \in s.costs : c.at = x.at /\ c.cost <= x.cost
          BY <4>7 DEF Reached
        <5>2. c.cost \in Nat
          BY DEF Explored
        <5>3. ASSUME NEW o \in s.open, o.f = c.cost + ahead[c.at] PROVE Promised(w)
          <6>1. p * (c.cost + ahead[x.at]) <= q * (x.cost + m.cost) + p * ahead[m.to]
            BY <4>4, <4>5, <4>6, <5>1, <5>2, OneMoveOn
          <6>2. p * o.f <= q * w.cost + p * ahead[w.at]
            BY <4>3, <5>1, <5>3, <6>1
          <6> QED
            BY <6>2 DEF Promised
        <5>4. ASSUME NEW d \in s.costs, d.at = m.to, d.cost <= c.cost + m.cost PROVE Reached(w)
          <6>1. d.cost \in Nat
            BY DEF Explored
          <6>2. d.cost <= w.cost
            BY <4>3, <4>4, <4>5, <5>1, <5>2, <5>4, <6>1
          <6> QED
            BY <4>3, <5>4, <6>2 DEF Reached
        <5>5. \/ \E o \in s.open : o.at = c.at /\ o.f = c.cost + ahead[c.at]
              \/ \A n \in steps[c.at] : \E d \in s.costs : d.at = n.to /\ d.cost <= c.cost + n.cost
          BY DEF Explored
        <5>6. m \in steps[c.at]
          BY <4>2, <5>1
        <5> QED
          BY <5>3, <5>4, <5>5, <5>6
      <4>8. CASE Promised(x)
        <5>1. PICK o \in s.open : p * o.f <= q * x.cost + p * ahead[x.at]
          BY <4>8 DEF Promised
        <5>2. o.f \in Nat
          BY DEF Explored
        <5>3. q * (x.cost + m.cost) = q * x.cost + q * m.cost
          BY <4>4, <4>5
        <5>4. /\ p * o.f \in Int /\ q * x.cost \in Int /\ q * m.cost \in Int
              /\ p * ahead[x.at] \in Int /\ p * ahead[m.to] \in Int
          BY <4>4, <4>5, <4>6, <5>2
        <5>5. p * o.f <= q * (x.cost + m.cost) + p * ahead[m.to]
          BY <4>6, <5>1, <5>3, <5>4
        <5>6. p * o.f <= q * w.cost + p * ahead[w.at]
          BY <4>3, <5>5
        <5> QED
          BY <5>6 DEF Promised
      <4> QED
        BY <2>4, <4>7, <4>8
    <3> QED
      BY <2>4, <3>1, <3>2
  <2> QED
    BY <2>1, <2>2, <2>4
<1>4. Broken = {}
  <2>1. Broken \in SUBSET Nat
    OBVIOUS
  <2> HIDE DEF Broken
  <2> QED
    BY <1>3, <2>1, NoFirst
<1> QED
  BY <1>4

\* A search that has finished: what it has found is no less than the least cost,
\* and no more than that by the factor.
LEMMA FinishedIsNear ==
  ASSUME NEW nodes, NEW start \in nodes, NEW goal \in nodes, NEW steps, NEW ahead, NEW s, NEW ideal,
         Moves(nodes, steps), \A n \in nodes : ahead[n] \in Nat, ahead[goal] = 0,
         NEW p \in Nat, NEW q \in Nat, p <= q, Falls(nodes, steps, ahead, p, q),
         Explored(s, nodes, start, steps, ahead), Above(s, ideal), Finished(s, goal),
         NEW V \in Nat, NEW walk, Walks(walk, V, start, steps), Ideal(ideal, nodes, start, steps),
         \A c \in ideal : \E w \in walk[V] : w.at = c.at /\ w.cost <= c.cost
  PROVE  LET found == CostOf(s.costs, goal)
             least == CostOf(walk[V], goal)
         IN  /\ least = NoPath => found = NoPath
             /\ least # NoPath => found \in Nat /\ least \in Nat /\ found >= least /\ p * found <= q * least
<1> DEFINE found == CostOf(s.costs, goal)
           last  == walk[V]
           least == CostOf(last, goal)
<1>1. V \in 0..V
  OBVIOUS
<1>2. last \subseteq [at : nodes, cost : Nat]
  BY <1>1, NoEstimate, WalkTypes
<1>3. (\A c \in s.costs : c.cost \in Nat) /\ (\A w \in last : w.cost \in Nat) /\ \A d \in ideal : d.cost \in Nat
  BY <1>2 DEF Explored, Ideal
<1>4. \A w \in last : \/ \E c \in s.costs : c.at = w.at /\ c.cost <= w.cost
                      \/ \E o \in s.open : p * o.f <= q * w.cost + p * ahead[w.at]
  BY <1>1, WalksAreNear
<1>5. \A c \in ideal : \E w \in last : w.at = c.at /\ w.cost <= c.cost
  OBVIOUS
<1> HIDE DEF last
<1>6. ASSUME NEW c \in s.costs, c.at = goal PROVE least \in Nat /\ least <= c.cost
  <2>1. PICK d \in ideal : d.at = c.at /\ d.cost <= c.cost
    BY DEF Above
  <2>2. PICK w \in last : w.at = d.at /\ w.cost <= d.cost
    BY <1>5
  <2>3. least <= w.cost /\ least # NoPath /\ least \in Nat
    BY <1>3, <1>6, <2>1, <2>2, CostOfType
  <2> QED
    BY <1>3, <2>1, <2>2, <2>3
<1>7. ASSUME NEW w \in last, w.at = goal
      PROVE  \E c \in s.costs : c.at = goal /\ p * c.cost <= q * w.cost
  <2>0. w.cost \in Nat
    BY <1>3
  <2>1. ASSUME NEW c \in s.costs, c.at = w.at, c.cost <= w.cost PROVE p * c.cost <= q * w.cost
    <3>1. c.cost \in Nat
      BY <1>3
    <3>2. p * c.cost <= p * w.cost /\ w.cost * p <= w.cost * q
      BY <2>0, <2>1, <3>1, ProductsGrow
    <3>3. /\ p * w.cost = w.cost * p /\ q * w.cost = w.cost * q
          /\ p * c.cost \in Int /\ p * w.cost \in Int /\ q * w.cost \in Int
      BY <2>0, <3>1
    <3> QED
      BY <3>2, <3>3
  <2>2. ASSUME NEW o \in s.open, p * o.f <= q * w.cost + p * ahead[w.at]
        PROVE  \E c \in s.costs : c.at = goal /\ p * c.cost <= q * w.cost
    <3>1. PICK x \in s.open : x.f <= o.f /\ x.at = goal
      BY DEF Finished
    <3>2. PICK c \in s.costs : c.at = x.at /\ c.cost + ahead[c.at] <= x.f
      BY DEF Explored
    <3>3. x.f \in Nat /\ o.f \in Nat /\ c.cost \in Nat
      BY <1>3 DEF Explored
    <3>4. c.cost <= o.f
      BY <3>1, <3>2, <3>3
    <3>5. p * c.cost <= p * o.f
      BY <3>3, <3>4, ProductsGrow
    <3>6. p * ahead[w.at] = 0
      BY <1>7
    <3>7. p * c.cost \in Int /\ p * o.f \in Int /\ q * w.cost \in Int
      BY <2>0, <3>3
    <3>8. p * c.cost <= q * w.cost
      BY <2>2, <3>5, <3>6, <3>7
    <3> QED
      BY <3>1, <3>2, <3>8
  <2> QED
    BY <1>4, <1>7, <2>1, <2>2
<1>8. CASE least = NoPath
  <2>1. ~\E c \in s.costs : c.at = goal
    BY <1>6, <1>8 DEF NoPath
  <2>2. found = NoPath
    BY <1>3, <2>1, CostOfType
  <2> QED
    BY <1>8, <2>2 DEF last
<1>9. CASE least # NoPath
  <2>1. PICK w \in last : w.at = goal /\ w.cost = least
    BY <1>3, <1>9, CostOfType
  <2>2. PICK c \in s.costs : c.at = goal /\ p * c.cost <= q * w.cost
    BY <1>7, <2>1
  <2>3. found # NoPath /\ found \in Nat /\ found <= c.cost
    BY <1>3, <2>2, CostOfType
  <2>4. PICK d \in s.costs : d.at = goal /\ d.cost = found
    BY <1>3, <2>3, CostOfType
  <2>5. least \in Nat /\ least <= found
    BY <1>6, <2>4
  <2>6. p * found <= q * least
    <3>1. p * found <= p * c.cost /\ c.cost \in Nat
      BY <1>3, <2>3, ProductsGrow
    <3>2. p * found \in Int /\ p * c.cost \in Int /\ q * least \in Int
      BY <2>3, <2>5, <3>1
    <3> QED
      BY <2>1, <2>2, <3>1, <3>2
  <2> QED
    BY <1>9, <2>3, <2>5, <2>6 DEF last
<1> QED
  BY <1>8, <1>9 DEF last

LEMMA SearchIsNear ==
  ASSUME NEW nodes, IsFiniteSet(nodes), NEW start \in nodes, NEW goal \in nodes, NEW steps, NEW ahead,
         Moves(nodes, steps), \A n \in nodes : ahead[n] \in Nat, ahead[goal] = 0,
         NEW p \in Nat, NEW q \in Nat, p <= q, Falls(nodes, steps, ahead, p, q)
  PROVE  LET found == Search(nodes, start, goal, steps, ahead)
             least == Shortest(nodes, start, goal, steps)
         IN  /\ least = NoPath => found = NoPath
             /\ least # NoPath => found \in Nat /\ least \in Nat /\ found >= least /\ p * found <= q * least
<1> DEFINE K == MostPasses(nodes, steps)
           found == Search(nodes, start, goal, steps, ahead)
           least == Shortest(nodes, start, goal, steps)
<1>1. PICK V : V \in Nat /\ V = Cardinality(nodes)
  BY FS_CardinalityType
<1>2. K \in Nat
  BY MostPassesType
<1>3. PICK run : Passes(run, K, start, goal, steps, ahead)
  BY <1>2, PassesExist
<1>4. found = CostOf(run[K].costs, goal)
  BY <1>3, SearchRuns
<1>5. PICK walk : Walks(walk, V, start, steps) /\ least = CostOf(walk[V], goal)
  BY <1>1, WalksRun
<1>6. PICK ideal : /\ Ideal(ideal, nodes, start, steps)
                   /\ \A c \in ideal : \E w \in walk[V] : w.at = c.at /\ w.cost <= c.cost
  BY <1>1, <1>5, IdealExists
<1> DEFINE s == run[K]
<1>7. CASE start # goal
  <2>1. Explored(s, nodes, start, steps, ahead) /\ Above(s, ideal) /\ Finished(s, goal)
    BY <1>3, <1>6, <1>7, SearchEnds
  <2> HIDE DEF s, K, found, least
  <2>2. /\ CostOf(walk[V], goal) = NoPath => CostOf(s.costs, goal) = NoPath
        /\ CostOf(walk[V], goal) # NoPath =>
               /\ CostOf(s.costs, goal) \in Nat /\ CostOf(walk[V], goal) \in Nat
               /\ CostOf(s.costs, goal) >= CostOf(walk[V], goal)
               /\ p * CostOf(s.costs, goal) <= q * CostOf(walk[V], goal)
    BY <1>1, <1>5, <1>6, <2>1, FinishedIsNear
  <2> QED
    BY <1>4, <1>5, <2>2 DEF s, found, least
<1>8. CASE start = goal
  <2>1. Begun(start).open = {[at |-> start, f |-> 0]} /\ Begun(start).costs = {[at |-> start, cost |-> 0]}
    BY DEF Begun
  <2>2. Finished(Begun(start), goal)
    BY <1>8, <2>1 DEF Finished
  <2>3. s = Begun(start)
    <3> DEFINE Moved == {k \in 0..K : run[k] # Begun(start)}
    <3> HIDE DEF K
    <3>1. ASSUME NEW k \in Moved PROVE k # 0 /\ k - 1 \in Moved
      <4>1. k # 0
        BY <1>3 DEF Passes
      <4>2. k \in 1..K /\ k - 1 \in 0..K
        BY <1>2, <4>1
      <4>3. run[k] = Pass(run[k - 1], goal, steps, ahead)
        BY <1>3, <4>2 DEF Passes
      <4> QED
        BY <2>2, <4>1, <4>2, <4>3 DEF Pass
    <3>2. Moved \in SUBSET Nat
      BY <1>2
    <3>3. Moved = {}
      <4> HIDE DEF Moved
      <4> QED
        BY <3>1, <3>2, NoFirst
    <3> QED
      BY <1>2, <3>3
  <2> HIDE DEF s, K
  <2>4. \A c \in s.costs : c.at = goal /\ c.cost = 0
    BY <1>8, <2>1, <2>3
  <2>5. \E c \in s.costs : c.at = goal
    <3> DEFINE c == [at |-> start, cost |-> 0]
    <3>1. c \in s.costs
      BY <2>1, <2>3
    <3>2. c.at = goal
      BY <1>8
    <3> QED
      BY <3>1, <3>2
  <2>6. CostOf(s.costs, goal) = 0
    <3>1. \A c \in s.costs : c.cost \in Nat
      BY <2>4
    <3>2. CostOf(s.costs, goal) # NoPath
      BY <2>5, <3>1, CostOfType
    <3>3. PICK c \in s.costs : c.at = goal /\ c.cost = CostOf(s.costs, goal)
      BY <3>1, <3>2, CostOfType
    <3> QED
      BY <2>4, <3>3
  <2>7. Weighted(nodes, steps, [n \in nodes |-> 0])
    BY NoEstimate
  <2> DEFINE last == walk[V]
  <2>8. \A w \in last : w.cost \in Nat
    <3>1. V \in 0..V
      BY <1>1
    <3>2. walk[V] \subseteq [at : nodes, cost : Nat]
      BY <1>1, <1>5, <2>7, <3>1, WalkTypes
    <3> QED
      BY <3>2
  <2>9. \E w \in last : w.at = goal /\ w.cost <= 0
    <3> DEFINE w == [at |-> start, cost |-> 0]
    <3>1. w \in walk[0]
      BY <1>5 DEF Walks
    <3>2. w.at = start /\ w.cost = 0
      OBVIOUS
    <3>3. 0 \in 0..V
      BY <1>1
    <3> HIDE DEF w
    <3>4. \E x \in walk[V] : x.at = w.at /\ x.cost <= w.cost
      BY <1>1, <1>5, <2>7, <3>1, <3>3, WalkStays
    <3> QED
      BY <1>8, <3>2, <3>4
  <2> HIDE DEF last
  <2>10. CostOf(last, goal) = 0
    <3>1. PICK w \in last : w.at = goal /\ w.cost <= 0
      BY <2>9
    <3>2. CostOf(last, goal) <= w.cost /\ CostOf(last, goal) # NoPath
      BY <2>8, <3>1, CostOfType
    <3>3. CostOf(last, goal) \in Nat
      BY <2>8, <3>2, CostOfType
    <3> QED
      BY <2>8, <3>1, <3>2, <3>3
  <2>11. found = 0 /\ least = 0
    BY <1>4, <1>5, <2>6, <2>10 DEF s, last
  <2> HIDE DEF found, least
  <2>12. found \in Nat /\ least \in Nat /\ found >= least /\ p * found <= q * least /\ least # NoPath
    BY <2>11 DEF NoPath
  <2> QED
    BY <2>12 DEF found, least
<1> QED
  BY <1>7, <1>8

\* An estimate that is never too high: the way found is the cheapest.
LEMMA SearchIsShortest ==
  ASSUME NEW nodes, IsFiniteSet(nodes), NEW start \in nodes, NEW goal \in nodes, NEW steps, NEW ahead,
         Weighted(nodes, steps, ahead), ahead[goal] = 0
  PROVE  Search(nodes, start, goal, steps, ahead) = Shortest(nodes, start, goal, steps)
<1> DEFINE found == Search(nodes, start, goal, steps, ahead)
           least == Shortest(nodes, start, goal, steps)
<1>1. Moves(nodes, steps) /\ \A n \in nodes : ahead[n] \in Nat
  BY DEF Weighted, Moves
<1>2. Falls(nodes, steps, ahead, 1, 1)
  <2>1. ASSUME NEW n \in nodes, NEW m \in steps[n] PROVE 1 * ahead[n] <= 1 * m.cost + 1 * ahead[m.to]
    <3>1. ahead[n] <= m.cost + ahead[m.to] /\ ahead[n] \in Nat /\ m.cost \in Nat /\ ahead[m.to] \in Nat
      BY <1>1 DEF Weighted
    <3> QED
      BY <3>1
  <2> QED
    BY <2>1 DEF Falls
<1>3. /\ least = NoPath => found = NoPath
      /\ least # NoPath => found \in Nat /\ least \in Nat /\ found >= least /\ 1 * found <= 1 * least
  BY <1>1, <1>2, SearchIsNear
<1> HIDE DEF found, least
<1>4. found = least
  BY <1>3
<1> QED
  BY <1>4 DEF found, least

----------------------------------------------------------------------------
(* Where an actor stands: types                                             *)

Positions == [area : Spaces \cup {"wild"}, node : Road.nodes \cup {Nowhere}, xy : Points]

Standing ==
    /\ home \in [Actors -> Spaces \cup {Nowhere}] /\ size \in [Actors -> Nat] /\ at \in Entries
    /\ pos \in [Actors -> Positions] /\ hp \in [Actors -> Nat] /\ amiss \subseteq Actors

LEMMA CellsArePoints == Cells(Arena) \subseteq Points
<1>1. \A i \in 0..(Arena.width - 1) : i \in Int
  BY ArenaAssumption
<1>2. \A i \in 0..(Arena.height - 1) : i \in Int
  BY ArenaAssumption
<1> QED
  BY <1>1, <1>2 DEF Cells, Points

LEMMA EntryOf ==
  ASSUME Standing, NEW a \in Actors
  PROVE  /\ at["arena"][a] \in Cells(Arena) \cup {Nowhere}
         /\ at["road"][a] \in Road.nodes \cup {Nowhere}
         /\ at["field"][a] \in Points \cup {Nowhere}
         /\ at = [s \in Spaces |-> [b \in Actors |-> at[s][b]]]
         /\ size[a] \in Nat /\ Radius[a] \in Nat
         /\ Nowhere \notin Points /\ Nowhere \notin Road.nodes /\ Nowhere \notin Cells(Arena)
<1>1. at \in [Spaces -> [Actors -> Places \cup {Nowhere}]]
  BY DEF Standing, Entries
<1>2. Nowhere \notin Places
  BY ActorAssumption
<1> QED
  BY <1>1, <1>2, CellsArePoints, ActorAssumption DEF Standing, Entries, Places

\* An entry is replaced.
LEMMA Replaced ==
  ASSUME Standing, NEW s \in Spaces, NEW a \in Actors, NEW to, Place(s, a, to)
  PROVE  /\ at' = [r \in Spaces |-> [b \in Actors |-> IF r = s /\ b = a THEN to ELSE at[r][b]]]
         /\ \A r \in Spaces, b \in Actors : at'[r][b] = IF r = s /\ b = a THEN to ELSE at[r][b]
         /\ \A b \in Actors : size'[b] = IF s = "field" /\ b = a THEN Radius[a] ELSE size[b]
<1>1. at \in [Spaces -> [Actors -> Places \cup {Nowhere}]] /\ size \in [Actors -> Nat]
  BY DEF Standing, Entries
<1>2. at' = [r \in Spaces |-> [b \in Actors |-> IF r = s /\ b = a THEN to ELSE at[r][b]]]
  BY <1>1 DEF Place
<1>3. \A b \in Actors : size'[b] = IF s = "field" /\ b = a THEN Radius[a] ELSE size[b]
  BY <1>1 DEF Place
<1>4. \A r \in Spaces, b \in Actors : at'[r][b] = IF r = s /\ b = a THEN to ELSE at[r][b]
  BY <1>2, Zenon
<1> QED
  BY <1>2, <1>3, <1>4

Spot(s) == CASE s = "arena" -> Cells(Arena) [] s = "road" -> Road.nodes [] s = "field" -> Points

LEMMA PlaceTypes ==
  ASSUME Standing, NEW s \in Spaces, NEW a \in Actors, NEW to \in Spot(s), Place(s, a, to)
  PROVE  at' \in Entries /\ size' \in [Actors -> Nat]
<1>1. at' = [r \in Spaces |-> [b \in Actors |-> IF r = s /\ b = a THEN to ELSE at[r][b]]]
  BY Replaced
<1>2. \A r \in Spaces, b \in Actors : at'[r][b] = IF r = s /\ b = a THEN to ELSE at[r][b]
  BY Replaced
<1>3. \A b \in Actors : /\ at["arena"][b] \in Cells(Arena) \cup {Nowhere}
                        /\ at["road"][b] \in Road.nodes \cup {Nowhere}
                        /\ at["field"][b] \in Points \cup {Nowhere}
  BY EntryOf
<1>4. /\ s = "arena" => to \in Cells(Arena)
      /\ s = "road" => to \in Road.nodes
      /\ s = "field" => to \in Points
  BY DEF Spot
<1>5. ASSUME NEW b \in Actors
      PROVE  /\ at'["arena"][b] \in Cells(Arena) \cup {Nowhere}
             /\ at'["road"][b] \in Road.nodes \cup {Nowhere}
             /\ at'["field"][b] \in Points \cup {Nowhere}
  BY <1>2, <1>3, <1>4 DEF Spaces
<1>6. \A r \in Spaces, b \in Actors : at'[r][b] \in Places \cup {Nowhere}
  BY <1>5, CellsArePoints DEF Places, Spaces
<1>7. at' \in [Spaces -> [Actors -> Places \cup {Nowhere}]]
  BY <1>1, <1>2, <1>6
<1>8. size' \in [Actors -> Nat]
  BY ActorAssumption DEF Place, Standing
<1> QED
  BY <1>5, <1>7, <1>8 DEF Entries

----------------------------------------------------------------------------
(* Path search: graphs and grids                                            *)

\* The moves of a road.
LEMMA RoadMoves ==
  ASSUME NEW others, NEW goal
  PROVE  Moves(Road.nodes, [n \in Road.nodes |-> GraphSteps(Road, others, goal, n)])
<1> DEFINE steps == [n \in Road.nodes |-> GraphSteps(Road, others, goal, n)]
<1>1. ASSUME NEW n \in Road.nodes, NEW m \in steps[n]
      PROVE  \E e \in DOMAIN Road.edges :
                 e = <<n, m.to>> /\ e \in Road.nodes \X Road.nodes /\ m = [to |-> e[2], cost |-> Road.edges[e]]
  <2>1. PICK e \in DOMAIN Road.edges : e[1] = n /\ m = [to |-> e[2], cost |-> Road.edges[e]]
    BY DEF GraphSteps
  <2>2. e \in Road.nodes \X Road.nodes
    BY RoadAssumption
  <2> QED
    BY <2>1, <2>2
<1>2. ASSUME NEW n \in Road.nodes, NEW m \in steps[n] PROVE m \in [to : Road.nodes, cost : Nat]
  BY <1>1, RoadAssumption
<1>3. ASSUME NEW n \in Road.nodes, NEW m \in steps[n], NEW o \in steps[n], m.to = o.to PROVE m = o
  BY <1>1, <1>3
<1> HIDE DEF steps
<1>4. Moves(Road.nodes, steps)
  BY <1>2, <1>3 DEF Moves
<1> QED
  BY <1>4 DEF steps

\* Dijkstra's search on a graph, whoever occupies its nodes.
LEMMA GraphPathIsShortest ==
  ASSUME NEW others, NEW start \in Road.nodes, NEW goal \in Road.nodes
  PROVE  LET steps == [n \in Road.nodes |-> GraphSteps(Road, others, goal, n)]
         IN  GraphPath(Road, others, start, goal) = Shortest(Road.nodes, start, goal, steps)
<1> DEFINE steps == [n \in Road.nodes |-> GraphSteps(Road, others, goal, n)]
           none  == [n \in Road.nodes |-> 0]
<1>1. GraphPath(Road, others, start, goal) = Search(Road.nodes, start, goal, steps, none)
  BY DEF GraphPath
<1>2. Weighted(Road.nodes, steps, none) /\ none[goal] = 0
  BY RoadMoves, NoEstimate
<1> HIDE DEF steps, none
<1>3. Search(Road.nodes, start, goal, steps, none) = Shortest(Road.nodes, start, goal, steps)
  BY <1>2, SearchIsShortest, RoadAssumption
<1> QED
  BY <1>1, <1>3 DEF steps

LEMMA SquaresGrow ==
  ASSUME NEW x \in Nat, NEW y \in Nat, x * x < y * y
  PROVE  x < y
<1>1. ASSUME y <= x PROVE FALSE
  <2>1. PICK k \in Nat : x = y + k
    <3>1. x - y \in Nat /\ x = y + (x - y)
      BY <1>1
    <3> QED
      BY <3>1
  <2>2. x * x = y * y + 2 * (y * k) + k * k /\ y * k >= 0 /\ k * k >= 0
    BY <2>1
  <2>3. x * x \in Int /\ y * y \in Int /\ y * k \in Int /\ k * k \in Int
    OBVIOUS
  <2> HIDE <1>1
  <2> QED
    BY <2>2, <2>3
<1> QED
  BY <1>1

\* The distance, in tenths and cut, falls by ten at most with a straight step and
\* by fifteen with a diagonal one: less than the root of two hundred and one more.
LEMMA FallsSlowly ==
  ASSUME NEW u \in Int, NEW v \in Int, NEW i \in -1..1, NEW j \in -1..1, <<i, j>> # <<0, 0>>,
         NEW most \in Nat, most = IF i # 0 /\ j # 0 THEN 15 ELSE 10
  PROVE  Root(100 * ((u - i) * (u - i) + (v - j) * (v - j))) <= most + Root(100 * (u * u + v * v))
<1> DEFINE A == (u - i) * (u - i) + (v - j) * (v - j)
           B == u * u + v * v
<1>1. A \in Nat /\ B \in Nat
  <2>1. \A x \in Int : x * x \in Nat
    OBVIOUS
  <2>2. u - i \in Int /\ v - j \in Int
    OBVIOUS
  <2>3. (u - i) * (u - i) \in Nat /\ (v - j) * (v - j) \in Nat /\ u * u \in Nat /\ v * v \in Nat
    BY <2>1, <2>2
  <2> QED
    BY <2>3
<1>2. PICK U \in Nat : U * U = u * u /\ u <= U /\ -U <= u
  <2>1. CASE u >= 0
    BY <2>1
  <2>2. CASE u < 0
    <3>1. -u \in Nat /\ (-u) * (-u) = u * u /\ u <= -u /\ -(-u) <= u
      BY <2>2
    <3> QED
      BY <3>1
  <2> QED
    BY <2>1, <2>2
<1>3. PICK V \in Nat : V * V = v * v /\ v <= V /\ -V <= v
  <2>1. CASE v >= 0
    BY <2>1
  <2>2. CASE v < 0
    <3>1. -v \in Nat /\ (-v) * (-v) = v * v /\ v <= -v /\ -(-v) <= v
      BY <2>2
    <3> QED
      BY <3>1
  <2> QED
    BY <2>1, <2>2
<1>4. A = B - 2 * (i * u) - 2 * (j * v) + i * i + j * j
  OBVIOUS
<1>5. /\ i \in {-1, 0, 1} /\ j \in {-1, 0, 1}
      /\ i = 0 => i * u = 0 /\ i * i = 0
      /\ j = 0 => j * v = 0 /\ j * j = 0
      /\ -(i * u) <= U /\ i * i <= 1 /\ -(j * v) <= V /\ j * j <= 1
      /\ i * u \in Int /\ j * v \in Int /\ i * i \in Int /\ j * j \in Int
  BY <1>2, <1>3
<1>6. B = U * U + V * V
  BY <1>2, <1>3
<1> DEFINE a == Root(100 * A)
           b == Root(100 * B)
           N == b + 1
<1>7. a \in Nat /\ b \in Nat /\ a * a <= 100 * A /\ 100 * B < N * N /\ N \in Nat
  <2>1. 100 * A \in Nat /\ 100 * B \in Nat
    BY <1>1
  <2> HIDE DEF A, B
  <2>2. a \in Nat /\ a * a <= 100 * A
    BY <2>1, RootOf
  <2>3. b \in Nat /\ 100 * B < (b + 1) * (b + 1)
    BY <2>1, RootOf
  <2> QED
    BY <2>2, <2>3
<1> HIDE DEF A, B, a, N
<1>8. PICK S \in Nat : S = N * N
  BY <1>7
<1>9. ASSUME NEW x \in Nat, x * x <= B PROVE 10 * x < N
  <2>1. (10 * x) * (10 * x) = 100 * (x * x) /\ x * x \in Nat
    OBVIOUS
  <2>2. (10 * x) * (10 * x) < N * N
    BY <1>1, <1>7, <1>8, <1>9, <2>1
  <2>3. 10 * x \in Nat
    OBVIOUS
  <2> QED
    BY <1>7, <2>2, <2>3, SquaresGrow
<1>10. ASSUME NEW x \in Nat, a * a < (N + x) * (N + x) PROVE a <= x + b
  <2>1. N + x \in Nat
    BY <1>7
  <2>2. a < N + x
    BY <1>7, <1>10, <2>1, SquaresGrow
  <2> QED
    BY <1>7, <2>2 DEF N
<1>11. U * U \in Nat /\ V * V \in Nat
  OBVIOUS
<1>12. ASSUME NEW x \in Nat, 10 * x < N, A <= B + 2 * x + 1 PROVE a <= 10 + b
  <2>1. (N + 10) * (N + 10) = N * N + 20 * N + 100
    BY <1>7
  <2>2. 100 * A < S + 20 * N + 100
    BY <1>1, <1>7, <1>8, <1>12
  <2>3. a * a \in Nat
    BY <1>7
  <2>4. a * a < (N + 10) * (N + 10)
    BY <1>1, <1>7, <1>8, <2>1, <2>2, <2>3
  <2> QED
    BY <1>10, <2>4
<1>13. CASE j = 0
  <2>1. A <= B + 2 * U + 1
    BY <1>1, <1>4, <1>5, <1>13
  <2>2. 10 * U < N
    BY <1>6, <1>9, <1>11
  <2>3. a <= 10 + b
    BY <1>12, <2>1, <2>2
  <2> QED
    BY <1>13, <2>3 DEF a, A, B
<1>14. CASE i = 0
  <2>1. A <= B + 2 * V + 1
    BY <1>1, <1>4, <1>5, <1>14
  <2>2. 10 * V < N
    BY <1>6, <1>9, <1>11
  <2>3. a <= 10 + b
    BY <1>12, <2>1, <2>2
  <2> QED
    BY <1>14, <2>3 DEF a, A, B
<1>15. CASE i # 0 /\ j # 0
  <2>1. A <= B + 2 * (U + V) + 2
    BY <1>1, <1>4, <1>5
  <2>2. 20 * (U + V) < 3 * N
    <3>1. (20 * (U + V)) * (20 * (U + V)) = 400 * (U * U + V * V + 2 * (U * V))
      OBVIOUS
    <3>2. (U - V) * (U - V) = U * U + V * V - 2 * (U * V) /\ (U - V) * (U - V) >= 0
      OBVIOUS
    <3>3. U * V \in Nat
      OBVIOUS
    <3>4. (20 * (U + V)) * (20 * (U + V)) <= 800 * B
      BY <1>6, <1>11, <3>1, <3>2, <3>3
    <3>5. (3 * N) * (3 * N) = 9 * (N * N)
      BY <1>7
    <3>6. (20 * (U + V)) * (20 * (U + V)) \in Nat
      OBVIOUS
    <3>7. (20 * (U + V)) * (20 * (U + V)) < (3 * N) * (3 * N)
      BY <1>1, <1>7, <1>8, <3>4, <3>5, <3>6
    <3>8. 20 * (U + V) \in Nat /\ 3 * N \in Nat
      BY <1>7
    <3> QED
      BY <3>7, <3>8, SquaresGrow
  <2>3. (N + 15) * (N + 15) = N * N + 30 * N + 225
    BY <1>7
  <2>4. 100 * A < S + 30 * N + 225
    BY <1>1, <1>7, <1>8, <2>1, <2>2
  <2>5. a * a \in Nat
    BY <1>7
  <2>6. a * a < (N + 15) * (N + 15)
    BY <1>1, <1>7, <1>8, <2>3, <2>4, <2>5
  <2>7. a <= 15 + b
    BY <1>10, <2>6
  <2> QED
    BY <1>15, <2>7 DEF a, A, B
<1> QED
  BY <1>13, <1>14, <1>15

\* Ground of which no cell costs less than floor.
Ground(g, floor) ==
    /\ g.width \in Nat /\ g.height \in Nat /\ floor \in Nat
    /\ \A c \in Cells(g) : g.cost[c] \in Nat /\ g.cost[c] >= floor

LEMMA CellsOf ==
  ASSUME NEW g, g.width \in Nat, g.height \in Nat
  PROVE  IsFiniteSet(Cells(g)) /\ Cells(g) \subseteq Points
<1>1. IsFiniteSet(0..(g.width - 1)) /\ IsFiniteSet(0..(g.height - 1))
  <2>1. 0 \in Int /\ g.width - 1 \in Int /\ g.height - 1 \in Int
    OBVIOUS
  <2> QED
    BY <2>1, FS_Interval
<1>2. IsFiniteSet(Cells(g))
  BY <1>1, FS_Product DEF Cells
<1>3. (\A i \in 0..(g.width - 1) : i \in Int) /\ \A i \in 0..(g.height - 1) : i \in Int
  OBVIOUS
<1> QED
  BY <1>2, <1>3 DEF Cells, Points

\* By how much the distance falls with the step by <<i, j>>.
Most(i, j) == IF i # 0 /\ j # 0 THEN 15 ELSE 10

\* m: the step by <<i, j>> from c.
Stepped(g, floor, c, m, i, j) ==
    /\ <<i, j>> # <<0, 0>> /\ (i # 0 /\ j # 0 => g.diagonal)
    /\ m = [to |-> <<c[1] + i, c[2] + j>>,
            cost |-> IF i # 0 /\ j # 0 THEN (3 * g.cost[<<c[1] + i, c[2] + j>>] + 1) \div 2
                     ELSE g.cost[<<c[1] + i, c[2] + j>>]]
    /\ m.to \in Cells(g) /\ m.to[1] = c[1] + i /\ m.to[2] = c[2] + j
    /\ m \in [to : Cells(g), cost : Nat] /\ floor * Most(i, j) <= 10 * m.cost

\* What a step on a grid is.
LEMMA GridStepsOf ==
  ASSUME NEW g, NEW floor, Ground(g, floor), NEW taken, NEW c \in Cells(g), NEW m \in GridSteps(g, taken, c)
  PROVE  \E i \in -1..1, j \in -1..1 : Stepped(g, floor, c, m, i, j)
<1>1. PICK d \in (-1..1) \X (-1..1) :
        /\ d # <<0, 0>> /\ Open(g, taken, c, d)
        /\ m = [to |-> <<c[1] + d[1], c[2] + d[2]>>,
                cost |-> IF d[1] # 0 /\ d[2] # 0 THEN (3 * g.cost[<<c[1] + d[1], c[2] + d[2]>>] + 1) \div 2
                         ELSE g.cost[<<c[1] + d[1], c[2] + d[2]>>]]
  BY DEF GridSteps
<1>2. PICK i \in -1..1, j \in -1..1 : i = d[1] /\ j = d[2] /\ d = <<i, j>>
  BY <1>1
<1> DEFINE n == <<c[1] + i, c[2] + j>>
<1>3. n \in Cells(g) /\ (i # 0 /\ j # 0 => g.diagonal)
  BY <1>1, <1>2 DEF Open, Walkable
<1>4. PICK k \in Nat : k = g.cost[n] /\ k >= floor /\ floor \in Nat
  BY <1>3 DEF Ground
<1>5. (3 * k + 1) \div 2 \in Nat /\ 15 * floor <= 10 * ((3 * k + 1) \div 2)
  BY <1>4
<1>6. m = [to |-> n, cost |-> IF i # 0 /\ j # 0 THEN (3 * k + 1) \div 2 ELSE k]
  BY <1>1, <1>2, <1>4
<1>7. m.to = n /\ m.cost = IF i # 0 /\ j # 0 THEN (3 * k + 1) \div 2 ELSE k
  BY <1>6
<1>8. m.cost \in Nat /\ floor * Most(i, j) <= 10 * m.cost
  BY <1>4, <1>5, <1>7 DEF Most
<1>9. m \in [to : Cells(g), cost : Nat]
  <2>1. m = [to |-> m.to, cost |-> m.cost]
    BY <1>6
  <2> QED
    BY <1>3, <1>7, <1>8, <2>1
<1>10. m.to \in Cells(g) /\ m.to[1] = c[1] + i /\ m.to[2] = c[2] + j
  BY <1>3, <1>7
<1>11. <<i, j>> # <<0, 0>>
  BY <1>1, <1>2
<1>12. m = [to |-> n, cost |-> IF i # 0 /\ j # 0 THEN (3 * g.cost[n] + 1) \div 2 ELSE g.cost[n]]
  BY <1>4, <1>6
<1>13. Stepped(g, floor, c, m, i, j)
  BY <1>3, <1>8, <1>9, <1>10, <1>11, <1>12, Zenon DEF Stepped
<1> QED
  BY <1>13

\* The steps of a grid are the moves of a graph.
LEMMA GridMoves ==
  ASSUME NEW g, NEW floor, Ground(g, floor), NEW taken
  PROVE  Moves(Cells(g), [c \in Cells(g) |-> GridSteps(g, taken, c)])
<1>1. ASSUME NEW c \in Cells(g) PROVE c[1] \in Int /\ c[2] \in Int
  BY CellsOf DEF Ground, Points
<1>2. ASSUME NEW c \in Cells(g), NEW m \in GridSteps(g, taken, c) PROVE m \in [to : Cells(g), cost : Nat]
  <2>1. \E i \in -1..1, j \in -1..1 : Stepped(g, floor, c, m, i, j)
    BY GridStepsOf
  <2> QED
    BY <2>1 DEF Stepped
<1>3. ASSUME NEW c \in Cells(g), NEW m \in GridSteps(g, taken, c), NEW o \in GridSteps(g, taken, c), m.to = o.to
      PROVE  m = o
  <2>1. PICK i \in -1..1, j \in -1..1 : Stepped(g, floor, c, m, i, j)
    BY GridStepsOf
  <2>2. PICK k \in -1..1, l \in -1..1 : Stepped(g, floor, c, o, k, l)
    BY GridStepsOf
  <2>3. m.to[1] = c[1] + i /\ m.to[2] = c[2] + j /\ o.to[1] = c[1] + k /\ o.to[2] = c[2] + l
    BY <2>1, <2>2 DEF Stepped
  <2>4. i = k /\ j = l
    BY <1>1, <1>3, <2>3
  <2> QED
    BY <2>1, <2>2, <2>4 DEF Stepped
<1> QED
  BY <1>2, <1>3 DEF Moves

\* A* on a grid: the estimate is the distance, and too high by the factor by which
\* plain ground is dearer than the cheapest.
LEMMA GridPathIsNear ==
  ASSUME NEW g, NEW floor, Ground(g, floor), floor <= 10, NEW taken, NEW start, NEW goal
  PROVE  Near(GridPath(g, taken, start, goal), Least(g, taken, start, goal), floor)
<1> DEFINE steps == [c \in Cells(g) |-> GridSteps(g, taken, c)]
           ahead == [c \in Cells(g) |-> Distance(c, goal)]
<1>1. CASE ~Walkable(g, taken, start) \/ ~Walkable(g, taken, goal)
  BY <1>1 DEF GridPath, Least, Near
<1>2. CASE Walkable(g, taken, start) /\ Walkable(g, taken, goal)
  <2>1. start \in Cells(g) /\ goal \in Cells(g)
    BY <1>2 DEF Walkable
  <2>2. IsFiniteSet(Cells(g)) /\ Cells(g) \subseteq Points /\ floor \in Nat
    BY CellsOf DEF Ground
  <2>3. /\ \A c \in Cells(g) : steps[c] = GridSteps(g, taken, c)
        /\ \A c \in Cells(g) : ahead[c] = Distance(c, goal)
    OBVIOUS
  <2>4. GridPath(g, taken, start, goal) = Search(Cells(g), start, goal, steps, ahead)
    BY <1>2 DEF GridPath
  <2>5. Least(g, taken, start, goal) = Shortest(Cells(g), start, goal, steps)
    BY <1>2 DEF Least
  <2>6. Moves(Cells(g), steps)
    BY GridMoves
  <2> HIDE DEF steps, ahead
  <2>7. \A c \in Cells(g) : ahead[c] \in Nat
    BY <2>1, <2>2, <2>3, DistanceOf
  <2>8. ahead[goal] = 0
    <3>1. Square(goal, goal) = 0
      BY <2>1, <2>2 DEF Square, Points
    <3>2. Root(0) \in Nat /\ Root(0) * Root(0) <= 0
      BY RootOf
    <3>3. Root(0) = 0
      BY <3>2
    <3> QED
      BY <2>1, <2>3, <3>1, <3>3 DEF Distance
  <2>9. ASSUME NEW c \in Cells(g), NEW m \in steps[c] PROVE floor * ahead[c] <= 10 * m.cost + floor * ahead[m.to]
    <3>0. PICK i \in -1..1, j \in -1..1 : Stepped(g, floor, c, m, i, j)
      BY <2>3, GridStepsOf
    <3>1. /\ <<i, j>> # <<0, 0>> /\ m.to[1] = c[1] + i /\ m.to[2] = c[2] + j
          /\ m.to \in Cells(g) /\ m.cost \in Nat /\ floor * Most(i, j) <= 10 * m.cost
      BY <3>0 DEF Stepped
    <3>2. c[1] \in Int /\ c[2] \in Int /\ goal[1] \in Int /\ goal[2] \in Int
      BY <2>1, <2>2 DEF Points
    <3> DEFINE u == c[1] + i - goal[1]
               v == c[2] + j - goal[2]
               most == IF i # 0 /\ j # 0 THEN 15 ELSE 10
    <3>3. u \in Int /\ v \in Int /\ c[1] - goal[1] = u - i /\ c[2] - goal[2] = v - j
      BY <3>2
    <3>4. m.to[1] - goal[1] = u /\ m.to[2] - goal[2] = v
      BY <3>1, <3>2
    <3>5. Distance(c, goal) = Root(100 * ((u - i) * (u - i) + (v - j) * (v - j)))
      BY <3>3 DEF Distance, Square
    <3>6. Distance(m.to, goal) = Root(100 * (u * u + v * v))
      BY <3>4 DEF Distance, Square
    <3> HIDE DEF u, v
    <3>7. Distance(c, goal) <= most + Distance(m.to, goal)
      BY <3>1, <3>3, <3>5, <3>6, FallsSlowly
    <3>8. ahead[c] \in Nat /\ ahead[m.to] \in Nat /\ ahead[c] = Distance(c, goal) /\ ahead[m.to] = Distance(m.to, goal)
      BY <2>3, <2>7, <3>1
    <3>9. most \in Nat /\ floor * most <= 10 * m.cost /\ ahead[c] <= most + ahead[m.to]
      BY <3>1, <3>7, <3>8 DEF Most
    <3> HIDE DEF most
    <3>10. floor * ahead[c] <= floor * (most + ahead[m.to])
      BY <2>2, <3>8, <3>9, ProductsGrow
    <3>11. floor * (most + ahead[m.to]) = floor * most + floor * ahead[m.to]
      BY <2>2, <3>8, <3>9
    <3>12. floor * ahead[c] \in Int /\ floor * most \in Int /\ floor * ahead[m.to] \in Int
      BY <2>2, <3>8, <3>9
    <3> QED
      BY <3>1, <3>9, <3>10, <3>11, <3>12
  <2>10. Falls(Cells(g), steps, ahead, floor, 10)
    BY <2>9 DEF Falls
  <2> DEFINE found == Search(Cells(g), start, goal, steps, ahead)
             least == Shortest(Cells(g), start, goal, steps)
  <2>11. /\ least = NoPath => found = NoPath
         /\ least # NoPath => found \in Nat /\ least \in Nat /\ found >= least /\ floor * found <= 10 * least
    BY <2>1, <2>2, <2>6, <2>7, <2>8, <2>10, SearchIsNear
  <2> HIDE DEF found, least
  <2>12. Near(found, least, floor)
    BY <2>11 DEF Near, PlainCost
  <2> QED
    BY <2>4, <2>5, <2>12 DEF found, least
<1> QED
  BY <1>1, <1>2

\* A* of the tactical module: the estimate counts cells, no step is diagonal and
\* the ground is plain or difficult.
LEMMA MapPathIsShortest ==
  ASSUME NEW start, NEW goal
  PROVE  MapPath(Arena, start, goal) = Least(Rough(Arena), {}, start, goal)
<1> DEFINE flat   == Rough(Arena)
           steps  == [c \in Cells(Arena) |-> GridSteps(flat, {}, c)]
           abs(n) == IF n < 0 THEN -n ELSE n
           ahead  == [c \in Cells(Arena) |-> 10 * (abs(goal[1] - c[1]) + abs(goal[2] - c[2]))]
<1>1. /\ flat.width = Arena.width /\ flat.height = Arena.height /\ flat.walls = Arena.walls
      /\ flat.cost = [c \in Cells(Arena) |-> IF Arena.cost[c] > PlainCost THEN 2 * PlainCost ELSE PlainCost]
      /\ flat.diagonal = FALSE
  BY ArenaAssumption DEF Rough
<1>2. Cells(flat) = Cells(Arena)
  BY <1>1 DEF Cells
<1>3. Ground(flat, 10)
  <2>1. Arena.width \in Nat /\ Arena.height \in Nat
    BY ArenaAssumption
  <2>2. \A c \in Cells(Arena) : flat.cost[c] \in Nat /\ flat.cost[c] >= 10
    BY <1>1 DEF PlainCost
  <2> QED
    BY <1>1, <1>2, <2>1, <2>2 DEF Ground
<1>4. \A c : Walkable(flat, {}, c) = Walkable(Arena, {}, c)
  BY <1>1, <1>2 DEF Walkable
<1>5. CASE ~Walkable(Arena, {}, start) \/ ~Walkable(Arena, {}, goal)
  BY <1>4, <1>5 DEF MapPath, Least
<1>6. CASE Walkable(Arena, {}, start) /\ Walkable(Arena, {}, goal)
  <2>1. start \in Cells(Arena) /\ goal \in Cells(Arena)
    BY <1>6 DEF Walkable
  <2>2. IsFiniteSet(Cells(Arena)) /\ Cells(Arena) \subseteq Points
    BY CellsOf, ArenaAssumption
  <2>3. /\ \A c \in Cells(Arena) : steps[c] = GridSteps(flat, {}, c)
        /\ \A c \in Cells(Arena) : ahead[c] = 10 * (abs(goal[1] - c[1]) + abs(goal[2] - c[2]))
    OBVIOUS
  <2>4. MapPath(Arena, start, goal) = Search(Cells(Arena), start, goal, steps, ahead)
    BY <1>6 DEF MapPath, PlainCost
  <2>5. Least(flat, {}, start, goal) = Shortest(Cells(Arena), start, goal, steps)
    BY <1>2, <1>4, <1>6 DEF Least
  <2>6. Moves(Cells(Arena), steps)
    <3> HIDE DEF flat
    <3>1. Moves(Cells(flat), [c \in Cells(flat) |-> GridSteps(flat, {}, c)])
      BY <1>3, GridMoves
    <3> QED
      BY <1>2, <3>1
  <2> HIDE DEF steps, ahead, flat
  <2>7. \A c \in Cells(Arena) : c[1] \in Int /\ c[2] \in Int
    BY <2>2 DEF Points
  <2>8. \A c \in Cells(Arena) : ahead[c] \in Nat
    BY <2>1, <2>3, <2>7
  <2>9. ahead[goal] = 0
    BY <2>1, <2>3, <2>7
  <2>10. ASSUME NEW c \in Cells(Arena), NEW m \in steps[c] PROVE ahead[c] <= m.cost + ahead[m.to]
    <3>1. PICK i \in -1..1, j \in -1..1 : Stepped(flat, 10, c, m, i, j)
      BY <1>2, <1>3, <2>3, GridStepsOf
    <3>2. /\ m.to[1] = c[1] + i /\ m.to[2] = c[2] + j /\ m.to \in Cells(Arena)
          /\ m.cost \in Nat /\ 10 * Most(i, j) <= 10 * m.cost /\ (i = 0 \/ j = 0)
      BY <1>1, <1>2, <3>1 DEF Stepped
    <3>3. m.cost >= 10
      BY <3>2 DEF Most
    <3>4. /\ ahead[c] = 10 * (abs(goal[1] - c[1]) + abs(goal[2] - c[2]))
          /\ ahead[m.to] = 10 * (abs(goal[1] - (c[1] + i)) + abs(goal[2] - (c[2] + j)))
      BY <2>3, <3>2
    <3>5. c[1] \in Int /\ c[2] \in Int /\ goal[1] \in Int /\ goal[2] \in Int
      BY <2>1, <2>7
    <3>6. /\ abs(goal[1] - c[1]) <= abs(goal[1] - (c[1] + i)) + (IF i = 0 THEN 0 ELSE 1)
          /\ abs(goal[2] - c[2]) <= abs(goal[2] - (c[2] + j)) + (IF j = 0 THEN 0 ELSE 1)
      BY <3>5
    <3>7. /\ abs(goal[1] - c[1]) \in Int /\ abs(goal[1] - (c[1] + i)) \in Int
          /\ abs(goal[2] - c[2]) \in Int /\ abs(goal[2] - (c[2] + j)) \in Int
      BY <3>5
    <3> HIDE DEF abs
    <3> QED
      BY <3>2, <3>3, <3>4, <3>6, <3>7
  <2>11. Weighted(Cells(Arena), steps, ahead)
    BY <2>6, <2>8, <2>10 DEF Weighted, Moves
  <2>12. Search(Cells(Arena), start, goal, steps, ahead) = Shortest(Cells(Arena), start, goal, steps)
    BY <2>1, <2>2, <2>9, <2>11, SearchIsShortest
  <2> QED
    BY <2>4, <2>5, <2>12 DEF flat
<1> QED
  BY <1>5, <1>6

LEMMA CheapestOf == Ground(Arena, CheapestGround(Arena)) /\ CheapestGround(Arena) <= 10
<1> DEFINE S == {PlainCost} \cup {Arena.cost[c] : c \in Cells(Arena)}
<1>1. \A c \in Cells(Arena) : Arena.cost[c] \in Nat
  BY ArenaAssumption
<1>2. S \in SUBSET Nat /\ 10 \in S /\ \A c \in Cells(Arena) : Arena.cost[c] \in S
  BY <1>1 DEF PlainCost
<1>3. CheapestGround(Arena) = Min(S)
  BY DEF CheapestGround
<1> HIDE DEF S
<1>4. \E x \in S : \A y \in S : x <= y
  BY <1>2, LeastOf
<1>5. Min(S) \in S /\ \A y \in S : Min(S) <= y
  BY <1>4 DEF Min
<1>6. Min(S) \in Nat /\ Min(S) <= 10 /\ \A c \in Cells(Arena) : Arena.cost[c] >= Min(S)
  BY <1>1, <1>2, <1>5
<1>7. Arena.width \in Nat /\ Arena.height \in Nat
  BY ArenaAssumption
<1> QED
  BY <1>1, <1>3, <1>6, <1>7 DEF Ground

LEMMA NothingWrong == Wrong = {}
<1>1. ASSUME NEW r \in GridRoutes
      PROVE  /\ Near(r.cost, Least(Arena, r.crowd, r.start, r.goal), CheapestGround(Arena))
             /\ MapPath(Arena, r.start, r.goal) = Least(Rough(Arena), {}, r.start, r.goal)
  <2>1. PICK c \in Crowds, s \in Cells(Arena), g \in Cells(Arena) :
          r = [crowd |-> c, start |-> s, goal |-> g, cost |-> GridPath(Arena, c, s, g)]
    BY DEF GridRoutes
  <2>2. r.crowd = c /\ r.start = s /\ r.goal = g /\ r.cost = GridPath(Arena, c, s, g)
    BY <2>1
  <2>3. Near(GridPath(Arena, c, s, g), Least(Arena, c, s, g), CheapestGround(Arena))
    BY CheapestOf, GridPathIsNear
  <2> QED
    BY <2>2, <2>3, MapPathIsShortest
<1> QED
  BY <1>1 DEF Wrong

LEMMA RoutesFromEntries ==
  ASSUME \A a \in Actors : at["road"][a] \in Road.nodes \cup {Nowhere}
  PROVE  RoutesAreShortest
<1>1. Wrong = {}
  BY NothingWrong
<1>2. ASSUME NEW a \in Actors, at["road"][a] # Nowhere, NEW to \in Road.nodes
      PROVE  LET others == Others("road", a)
                 steps  == [n \in Road.nodes |-> GraphSteps(Road, others, to, n)]
             IN  GraphPath(Road, others, at["road"][a], to) = Shortest(Road.nodes, at["road"][a], to, steps)
  <2>1. at["road"][a] \in Road.nodes
    BY <1>2
  <2> QED
    BY <2>1, GraphPathIsShortest
<1> QED
  BY <1>1, <1>2 DEF RoutesAreShortest

----------------------------------------------------------------------------
(* Sight: boxes in continuous space                                         *)

LEMMA OrderOfTwo ==
  ASSUME NEW x \in Int, NEW y \in Int
  PROVE  /\ Min({x, y}) = (IF x <= y THEN x ELSE y)
         /\ Max({x, y}) = (IF x <= y THEN y ELSE x)
<1>1. Min({x, y}) \in {x, y} /\ \A z \in {x, y} : Min({x, y}) <= z
  <2>1. \E m \in {x, y} : \A z \in {x, y} : m <= z
    OBVIOUS
  <2> QED
    BY <2>1 DEF Min
<1>2. Max({x, y}) \in {x, y} /\ \A z \in {x, y} : Max({x, y}) >= z
  <2>1. \E m \in {x, y} : \A z \in {x, y} : m >= z
    OBVIOUS
  <2> QED
    BY <2>1 DEF Max
<1> QED
  BY <1>1, <1>2

LEMMA ScaledOrder ==
  ASSUME NEW l \in Nat \ {0}, NEW x \in Int, NEW y \in Int
  PROVE  l * x <= l * y <=> x <= y
<1>1. ASSUME x <= y PROVE l * x <= l * y
  <2>1. PICK k \in Nat : y = x + k
    <3>1. y - x \in Nat /\ y = x + (y - x)
      BY <1>1
    <3> QED
      BY <3>1
  <2>2. l * y = l * x + l * k /\ l * k \in Nat /\ l * x \in Int
    BY <2>1
  <2> QED
    BY <2>2
<1>2. ASSUME y < x PROVE l * y < l * x
  <2>1. PICK k \in Nat \ {0} : x = y + k
    <3>1. x - y \in Nat \ {0} /\ x = y + (x - y)
      BY <1>2
    <3> QED
      BY <3>1
  <2>2. l * x = l * y + l * k /\ l * k \in Nat \ {0} /\ l * y \in Int
    BY <2>1
  <2> QED
    BY <2>2
<1>3. l * x \in Int /\ l * y \in Int
  OBVIOUS
<1> QED
  BY <1>1, <1>2, <1>3

\* The extent of a segment along an axis, and where, in marks of that extent, it
\* enters and leaves the range of a box.
Extent(p, q, i) == IF p[i] < q[i] THEN q[i] - p[i] ELSE IF p[i] > q[i] THEN p[i] - q[i] ELSE 1
Inner(p, q, box, i) == IF p[i] < q[i] THEN box.low[i] - p[i] ELSE p[i] - box.high[i]
Outer(p, q, box, i) == IF p[i] < q[i] THEN box.high[i] - p[i] ELSE p[i] - box.low[i]

Ranged(box) == box.low \in Points /\ box.high \in Points /\ \A i \in 1..2 : box.low[i] <= box.high[i]

LEMMA AxisTypes ==
  ASSUME NEW p \in Points, NEW q \in Points, NEW box, Ranged(box), NEW i \in 1..2
  PROVE  /\ p[i] \in Int /\ q[i] \in Int /\ box.low[i] \in Int /\ box.high[i] \in Int
         /\ box.low[i] <= box.high[i] /\ Extent(p, q, i) \in Nat \ {0}
         /\ Inner(p, q, box, i) \in Int /\ Outer(p, q, box, i) \in Int
         /\ Inner(p, q, box, i) <= Outer(p, q, box, i)
<1>1. p[i] \in Int /\ q[i] \in Int /\ box.low[i] \in Int /\ box.high[i] \in Int /\ box.low[i] <= box.high[i]
  BY DEF Points, Ranged
<1> QED
  BY <1>1 DEF Extent, Inner, Outer

\* What the slab test asks: still axes inside, every entry before every exit.
LEMMA CrossesMeans ==
  ASSUME NEW p \in Points, NEW q \in Points, NEW box, Ranged(box)
  PROVE  Crosses(p, q, box) <=>
           /\ \A i \in 1..2 : p[i] = q[i] => box.low[i] <= p[i] /\ p[i] <= box.high[i]
           /\ \A i \in 1..2 : p[i] # q[i] =>
                  Inner(p, q, box, i) <= Extent(p, q, i) /\ 0 <= Outer(p, q, box, i)
           /\ \A i \in 1..2, j \in 1..2 : p[i] # q[i] /\ p[j] # q[j] =>
                  Inner(p, q, box, i) * Extent(p, q, j) <= Outer(p, q, box, j) * Extent(p, q, i)
<1> DEFINE d(i)   == q[i] - p[i]
           len(i) == IF d(i) < 0 THEN -d(i) ELSE d(i)
           ends(i) == IF d(i) < 0 THEN {p[i] - box.low[i], p[i] - box.high[i]}
                      ELSE {box.low[i] - p[i], box.high[i] - p[i]}
           moving == {i \in 1..2 : d(i) # 0}
           enter  == {<<0, 1>>} \cup {<<Min(ends(i)), len(i)>> : i \in moving}
           leave  == {<<1, 1>>} \cup {<<Max(ends(i)), len(i)>> : i \in moving}
           still  == \A i \in (1..2) \ moving : box.low[i] <= p[i] /\ p[i] <= box.high[i]
           timely == \A e \in enter, l \in leave : e[1] * l[2] <= l[1] * e[2]
<1>1. Crosses(p, q, box) <=> still /\ timely
  BY DEF Crosses
<1>2. \A i \in 1..2 : i \in moving <=> p[i] # q[i]
  BY AxisTypes
<1>3. ASSUME NEW i \in 1..2, p[i] # q[i]
      PROVE  /\ Min(ends(i)) = Inner(p, q, box, i) /\ Max(ends(i)) = Outer(p, q, box, i)
             /\ len(i) = Extent(p, q, i)
  <2>1. /\ p[i] \in Int /\ q[i] \in Int /\ box.low[i] \in Int /\ box.high[i] \in Int
        /\ box.low[i] <= box.high[i]
    BY AxisTypes
  <2>2. len(i) = Extent(p, q, i)
    BY <1>3, <2>1 DEF Extent
  <2>3. CASE p[i] < q[i]
    <3>1. ends(i) = {box.low[i] - p[i], box.high[i] - p[i]}
      BY <2>1, <2>3
    <3>2. box.low[i] - p[i] \in Int /\ box.high[i] - p[i] \in Int
      BY <2>1
    <3>3. PICK x \in Int, y \in Int : x = box.low[i] - p[i] /\ y = box.high[i] - p[i] /\ x <= y
      BY <2>1, <3>2
    <3>4. Min({x, y}) = x /\ Max({x, y}) = y
      BY <3>3, OrderOfTwo
    <3>5. Min(ends(i)) = box.low[i] - p[i] /\ Max(ends(i)) = box.high[i] - p[i]
      BY <3>1, <3>3, <3>4, Zenon
    <3> QED
      BY <2>2, <2>3, <3>5 DEF Inner, Outer
  <2>4. CASE ~(p[i] < q[i])
    <3>1. ends(i) = {p[i] - box.low[i], p[i] - box.high[i]}
      BY <1>3, <2>1, <2>4
    <3>2. box.low[i] - p[i] \in Int /\ box.high[i] - p[i] \in Int /\ p[i] - box.low[i] \in Int /\ p[i] - box.high[i] \in Int
      BY <2>1
    <3>3. PICK x \in Int, y \in Int : x = p[i] - box.low[i] /\ y = p[i] - box.high[i] /\ y <= x
      BY <2>1, <3>2
    <3>4. Min({x, y}) = y /\ Max({x, y}) = x
      BY <3>3, OrderOfTwo
    <3>5. Min(ends(i)) = p[i] - box.high[i] /\ Max(ends(i)) = p[i] - box.low[i]
      BY <3>1, <3>3, <3>4, Zenon
    <3> QED
      BY <2>2, <2>4, <3>5 DEF Inner, Outer
  <2> QED
    BY <2>3, <2>4
<1>4. still <=> \A i \in 1..2 : p[i] = q[i] => box.low[i] <= p[i] /\ p[i] <= box.high[i]
  <2> HIDE DEF moving
  <2> QED
    BY <1>2
<1>5. timely <=> /\ \A i \in 1..2 : p[i] # q[i] =>
                        Inner(p, q, box, i) <= Extent(p, q, i) /\ 0 <= Outer(p, q, box, i)
                 /\ \A i \in 1..2, j \in 1..2 : p[i] # q[i] /\ p[j] # q[j] =>
                        Inner(p, q, box, i) * Extent(p, q, j) <= Outer(p, q, box, j) * Extent(p, q, i)
  <2> DEFINE In(i)  == <<Inner(p, q, box, i), Extent(p, q, i)>>
             Out(i) == <<Outer(p, q, box, i), Extent(p, q, i)>>
  <2>1. \A e : e \in enter <=> e = <<0, 1>> \/ \E i \in 1..2 : p[i] # q[i] /\ e = In(i)
    <3> HIDE DEF moving, len, ends
    <3>1. \A i \in moving : <<Min(ends(i)), len(i)>> = In(i)
      BY <1>2, <1>3 DEF moving
    <3> HIDE DEF In
    <3>2. \A e : e \in enter <=> e = <<0, 1>> \/ \E i \in moving : e = In(i)
      BY <3>1
    <3>3. \A i : i \in moving <=> i \in 1..2 /\ p[i] # q[i]
      BY <1>2 DEF moving
    <3> QED
      BY <3>2, <3>3, Zenon
  <2>2. \A l : l \in leave <=> l = <<1, 1>> \/ \E i \in 1..2 : p[i] # q[i] /\ l = Out(i)
    <3> HIDE DEF moving, len, ends
    <3>1. \A i \in moving : <<Max(ends(i)), len(i)>> = Out(i)
      BY <1>2, <1>3 DEF moving
    <3> HIDE DEF Out
    <3>2. \A l : l \in leave <=> l = <<1, 1>> \/ \E i \in moving : l = Out(i)
      BY <3>1
    <3>3. \A i : i \in moving <=> i \in 1..2 /\ p[i] # q[i]
      BY <1>2 DEF moving
    <3> QED
      BY <3>2, <3>3, Zenon
  <2> HIDE DEF enter, leave
  <2>3. \A i \in 1..2 : /\ Inner(p, q, box, i) \in Int /\ Outer(p, q, box, i) \in Int
                        /\ Extent(p, q, i) \in Nat
    BY AxisTypes
  <2>4. ASSUME timely, NEW i \in 1..2, p[i] # q[i]
        PROVE  /\ Inner(p, q, box, i) <= Extent(p, q, i) /\ 0 <= Outer(p, q, box, i)
    <3>1. <<0, 1>> \in enter /\ <<1, 1>> \in leave /\ In(i) \in enter /\ Out(i) \in leave
      BY <2>1, <2>2, <2>4
    <3>2. In(i)[1] * <<1, 1>>[2] <= <<1, 1>>[1] * In(i)[2] /\ <<0, 1>>[1] * Out(i)[2] <= Out(i)[1] * <<0, 1>>[2]
      BY <2>4, <3>1, Zenon
    <3>3. Inner(p, q, box, i) * 1 <= 1 * Extent(p, q, i) /\ 0 * Extent(p, q, i) <= Outer(p, q, box, i) * 1
      BY <3>2
    <3> QED
      BY <2>3, <3>3
  <2>5. ASSUME timely, NEW i \in 1..2, NEW j \in 1..2, p[i] # q[i], p[j] # q[j]
        PROVE  Inner(p, q, box, i) * Extent(p, q, j) <= Outer(p, q, box, j) * Extent(p, q, i)
    <3>1. In(i) \in enter /\ Out(j) \in leave
      BY <2>1, <2>2, <2>5
    <3>2. In(i)[1] * Out(j)[2] <= Out(j)[1] * In(i)[2]
      BY <2>5, <3>1, Zenon
    <3> QED
      BY <3>2
  <2>6. ASSUME \A i \in 1..2 : p[i] # q[i] => Inner(p, q, box, i) <= Extent(p, q, i) /\ 0 <= Outer(p, q, box, i),
               \A i \in 1..2, j \in 1..2 : p[i] # q[i] /\ p[j] # q[j] =>
                   Inner(p, q, box, i) * Extent(p, q, j) <= Outer(p, q, box, j) * Extent(p, q, i),
               NEW e \in enter, NEW l \in leave
        PROVE  e[1] * l[2] <= l[1] * e[2]
    <3>1. CASE e = <<0, 1>> /\ l = <<1, 1>>
      BY <3>1
    <3>2. ASSUME e = <<0, 1>>, NEW j \in 1..2, p[j] # q[j], l = Out(j) PROVE e[1] * l[2] <= l[1] * e[2]
      <4>1. e[1] = 0 /\ e[2] = 1 /\ l[1] = Outer(p, q, box, j) /\ l[2] = Extent(p, q, j)
        BY <3>2
      <4>2. 0 <= Outer(p, q, box, j)
        BY <2>6, <3>2
      <4> QED
        BY <2>3, <4>1, <4>2
    <3>3. ASSUME l = <<1, 1>>, NEW i \in 1..2, p[i] # q[i], e = In(i) PROVE e[1] * l[2] <= l[1] * e[2]
      <4>1. l[1] = 1 /\ l[2] = 1 /\ e[1] = Inner(p, q, box, i) /\ e[2] = Extent(p, q, i)
        BY <3>3
      <4>2. Inner(p, q, box, i) <= Extent(p, q, i)
        BY <2>6, <3>3
      <4> QED
        BY <2>3, <4>1, <4>2
    <3>4. ASSUME NEW i \in 1..2, NEW j \in 1..2, p[i] # q[i], p[j] # q[j], e = In(i), l = Out(j)
          PROVE  e[1] * l[2] <= l[1] * e[2]
      <4>1. /\ e[1] = Inner(p, q, box, i) /\ e[2] = Extent(p, q, i)
            /\ l[1] = Outer(p, q, box, j) /\ l[2] = Extent(p, q, j)
        BY <3>4
      <4>2. Inner(p, q, box, i) * Extent(p, q, j) <= Outer(p, q, box, j) * Extent(p, q, i)
        BY <2>6, <3>4
      <4>3. /\ e[1] * l[2] = Inner(p, q, box, i) * Extent(p, q, j)
            /\ l[1] * e[2] = Outer(p, q, box, j) * Extent(p, q, i)
        BY <4>1
      <4> HIDE DEF In, Out
      <4> QED
        BY <4>2, <4>3
    <3>5. e = <<0, 1>> \/ \E i \in 1..2 : p[i] # q[i] /\ e = In(i)
      BY <2>1, Zenon
    <3>6. l = <<1, 1>> \/ \E j \in 1..2 : p[j] # q[j] /\ l = Out(j)
      BY <2>2, Zenon
    <3> DEFINE Timely == e[1] * l[2] <= l[1] * e[2]
    <3>7. ASSUME e = <<0, 1>> PROVE Timely
      <4> HIDE DEF In, Out
      <4> QED
        BY <3>1, <3>2, <3>6, <3>7, Zenon
    <3>8. ASSUME NEW i \in 1..2, p[i] # q[i], e = In(i) PROVE Timely
      <4> HIDE DEF In, Out
      <4> QED
        BY <3>3, <3>4, <3>6, <3>8, Zenon
    <3> HIDE DEF In, Out, Timely
    <3>9. Timely
      BY <3>5, <3>7, <3>8, Zenon
    <3> QED
      BY <3>9 DEF Timely
  <2> QED
    BY <2>4, <2>5, <2>6, Zenon
<1> HIDE DEF still, timely
<1> QED
  BY <1>1, <1>4, <1>5, Zenon

\* A mark k of the segment lies in the box's range on an axis.
Inside(p, q, box, fine, k, i) ==
    /\ fine * box.low[i] <= fine * p[i] + k * (q[i] - p[i])
    /\ fine * p[i] + k * (q[i] - p[i]) <= fine * box.high[i]

LEMMA MarkInside ==
  ASSUME NEW p \in Points, NEW q \in Points, NEW box, Ranged(box), NEW i \in 1..2,
         NEW w \in Nat \ {0}, NEW fine, fine = Extent(p, q, i) * w, NEW k \in Int
  PROVE  /\ p[i] = q[i] => (Inside(p, q, box, fine, k, i) <=> box.low[i] <= p[i] /\ p[i] <= box.high[i])
         /\ p[i] # q[i] => (Inside(p, q, box, fine, k, i) <=>
                                Inner(p, q, box, i) * w <= k /\ k <= Outer(p, q, box, i) * w)
<1>1. PICK a \in Int, b \in Int, low \in Int, high \in Int :
        a = p[i] /\ b = q[i] /\ low = box.low[i] /\ high = box.high[i]
  BY AxisTypes
<1>2. Inside(p, q, box, fine, k, i) <=> fine * low <= fine * a + k * (b - a) /\ fine * a + k * (b - a) <= fine * high
  BY <1>1 DEF Inside
<1>3. ASSUME a = b PROVE Inside(p, q, box, fine, k, i) <=> low <= a /\ a <= high
  <2>1. fine = 1 * w
    BY <1>1, <1>3 DEF Extent
  <2>2. fine \in Nat \ {0} /\ k * (b - a) = 0 /\ fine * a \in Int
    BY <1>3, <2>1
  <2>3. Inside(p, q, box, fine, k, i) <=> fine * low <= fine * a /\ fine * a <= fine * high
    BY <1>2, <2>2
  <2> QED
    BY <2>2, <2>3, ScaledOrder
<1>4. ASSUME a < b
      PROVE  Inside(p, q, box, fine, k, i) <=> (low - a) * w <= k /\ k <= (high - a) * w
  <2>1. PICK l \in Nat \ {0} : l = b - a
    BY <1>4
  <2>2. fine = l * w
    BY <1>1, <1>4, <2>1 DEF Extent
  <2>3. /\ fine * low = l * (low * w) /\ fine * high = l * (high * w)
        /\ fine * a + k * (b - a) = l * (a * w + k)
    BY <2>1, <2>2
  <2>4. low * w \in Int /\ high * w \in Int /\ a * w + k \in Int
    OBVIOUS
  <2>5. Inside(p, q, box, fine, k, i) <=> low * w <= a * w + k /\ a * w + k <= high * w
    BY <1>2, <2>3, <2>4, ScaledOrder
  <2>6. (low - a) * w = low * w - a * w /\ (high - a) * w = high * w - a * w /\ a * w \in Int
    OBVIOUS
  <2> QED
    BY <2>4, <2>5, <2>6
<1>5. ASSUME b < a
      PROVE  Inside(p, q, box, fine, k, i) <=> (a - high) * w <= k /\ k <= (a - low) * w
  <2>1. PICK l \in Nat \ {0} : l = a - b
    BY <1>5
  <2>2. fine = l * w
    BY <1>1, <1>5, <2>1 DEF Extent
  <2>3. /\ fine * low = l * (low * w) /\ fine * high = l * (high * w)
        /\ fine * a + k * (b - a) = l * (a * w - k)
    <3>1. b - a = -l
      BY <2>1
    <3> QED
      BY <2>2, <3>1
  <2>4. low * w \in Int /\ high * w \in Int /\ a * w - k \in Int
    OBVIOUS
  <2>5. Inside(p, q, box, fine, k, i) <=> low * w <= a * w - k /\ a * w - k <= high * w
    BY <1>2, <2>3, <2>4, ScaledOrder
  <2>6. (a - low) * w = a * w - low * w /\ (a - high) * w = a * w - high * w /\ a * w \in Int
    OBVIOUS
  <2> QED
    BY <2>4, <2>5, <2>6
<1>6. CASE a < b
  BY <1>1, <1>4, <1>6 DEF Inner, Outer
<1>7. CASE b < a
  <2>1. ~(a < b) /\ a # b
    BY <1>7
  <2> QED
    BY <1>1, <1>5, <1>7, <2>1 DEF Inner, Outer
<1>8. CASE a = b
  BY <1>1, <1>3, <1>8
<1> QED
  BY <1>6, <1>7, <1>8

\* The slab test is exact: a segment crosses a box when a mark of it lies inside,
\* however fine its division, and then one of this division does.
LEMMA SlabsAreExact ==
  ASSUME NEW p \in Points, NEW q \in Points, NEW box, Ranged(box)
  PROVE  Crosses(p, q, box) <=> Touches(p, q, box)
<1> DEFINE l1 == Extent(p, q, 1)
           l2 == Extent(p, q, 2)
           fine == l1 * l2
           n(i) == Inner(p, q, box, i)
           o(i) == Outer(p, q, box, i)
           moves(i) == p[i] # q[i]
           still == \A i \in 1..2 : p[i] = q[i] => box.low[i] <= p[i] /\ p[i] <= box.high[i]
<1>1. /\ l1 \in Nat \ {0} /\ l2 \in Nat \ {0}
      /\ n(1) \in Int /\ n(2) \in Int /\ o(1) \in Int /\ o(2) \in Int /\ n(1) <= o(1) /\ n(2) <= o(2)
  BY AxisTypes
<1>2. Touches(p, q, box) <=> \E k \in 0..fine : Inside(p, q, box, fine, k, 1) /\ Inside(p, q, box, fine, k, 2)
  <2>1. Touches(p, q, box) <=> \E k \in 0..fine : \A i \in 1..2 : Inside(p, q, box, fine, k, i)
    BY DEF Touches, Inside, Extent
  <2>2. \A k : (\A i \in 1..2 : Inside(p, q, box, fine, k, i)) <=>
                   Inside(p, q, box, fine, k, 1) /\ Inside(p, q, box, fine, k, 2)
    <3>1. \A i : i \in 1..2 <=> i = 1 \/ i = 2
      OBVIOUS
    <3> QED
      BY <3>1, Zenon
  <2> QED
    BY <2>1, <2>2, Zenon
<1>3. ASSUME NEW k \in Int
      PROVE  /\ Inside(p, q, box, fine, k, 1) <=>
                  IF moves(1) THEN n(1) * l2 <= k /\ k <= o(1) * l2 ELSE box.low[1] <= p[1] /\ p[1] <= box.high[1]
             /\ Inside(p, q, box, fine, k, 2) <=>
                  IF moves(2) THEN n(2) * l1 <= k /\ k <= o(2) * l1 ELSE box.low[2] <= p[2] /\ p[2] <= box.high[2]
  <2>1. fine = l1 * l2 /\ fine = l2 * l1 /\ 1 \in 1..2 /\ 2 \in 1..2
    BY <1>1
  <2> HIDE DEF fine, l1, l2
  <2>2. Inside(p, q, box, fine, k, 1) <=>
          IF moves(1) THEN n(1) * l2 <= k /\ k <= o(1) * l2 ELSE box.low[1] <= p[1] /\ p[1] <= box.high[1]
    BY <1>1, <2>1, MarkInside DEF l1
  <2>3. Inside(p, q, box, fine, k, 2) <=>
          IF moves(2) THEN n(2) * l1 <= k /\ k <= o(2) * l1 ELSE box.low[2] <= p[2] /\ p[2] <= box.high[2]
    BY <1>1, <2>1, MarkInside DEF l2
  <2> QED
    BY <2>2, <2>3
<1> DEFINE lo1 == IF moves(1) THEN n(1) * l2 ELSE 0
           hi1 == IF moves(1) THEN o(1) * l2 ELSE fine
           lo2 == IF moves(2) THEN n(2) * l1 ELSE 0
           hi2 == IF moves(2) THEN o(2) * l1 ELSE fine
<1>4. still <=> /\ ~moves(1) => box.low[1] <= p[1] /\ p[1] <= box.high[1]
                /\ ~moves(2) => box.low[2] <= p[2] /\ p[2] <= box.high[2]
  <2>1. \A i : i \in 1..2 <=> i = 1 \/ i = 2
    OBVIOUS
  <2> QED
    BY <2>1, Zenon
<1>5. /\ fine \in Nat \ {0} /\ lo1 \in Int /\ lo2 \in Int /\ hi1 \in Int /\ hi2 \in Int
      /\ lo1 <= hi1 /\ lo2 <= hi2
  <2>1. fine \in Nat \ {0} /\ n(1) * l2 \in Int /\ n(2) * l1 \in Int /\ o(1) * l2 \in Int /\ o(2) * l1 \in Int
    BY <1>1
  <2>2. l2 * n(1) <= l2 * o(1) /\ l1 * n(2) <= l1 * o(2)
    BY <1>1, ScaledOrder
  <2>3. l2 * n(1) = n(1) * l2 /\ l2 * o(1) = o(1) * l2 /\ l1 * n(2) = n(2) * l1 /\ l1 * o(2) = o(2) * l1
    BY <1>1
  <2> HIDE DEF fine, n, o, l1, l2, moves
  <2> QED
    BY <2>1, <2>2, <2>3
<1>6. Touches(p, q, box) <=> still /\ \E k \in 0..fine : lo1 <= k /\ k <= hi1 /\ lo2 <= k /\ k <= hi2
  <2>1. \A k \in 0..fine : k \in Int /\ 0 <= k /\ k <= fine
    BY <1>5
  <2>2. ASSUME NEW k \in 0..fine
        PROVE  Inside(p, q, box, fine, k, 1) /\ Inside(p, q, box, fine, k, 2) <=>
                   still /\ lo1 <= k /\ k <= hi1 /\ lo2 <= k /\ k <= hi2
    <3> HIDE DEF fine, n, o, l1, l2, moves, still
    <3> QED
      BY <1>3, <1>4, <2>1
  <2> HIDE DEF still, lo1, lo2, hi1, hi2, fine
  <2> QED
    BY <1>2, <2>2, Zenon
<1>7. (\E k \in 0..fine : lo1 <= k /\ k <= hi1 /\ lo2 <= k /\ k <= hi2) <=>
        lo1 <= fine /\ lo2 <= fine /\ 0 <= hi1 /\ 0 <= hi2 /\ lo1 <= hi2 /\ lo2 <= hi1
  <2> HIDE DEF fine, lo1, lo2, hi1, hi2
  <2>1. ASSUME lo1 <= fine, lo2 <= fine, 0 <= hi1, 0 <= hi2, lo1 <= hi2, lo2 <= hi1
        PROVE  \E k \in 0..fine : lo1 <= k /\ k <= hi1 /\ lo2 <= k /\ k <= hi2
    <3> DEFINE m == IF lo1 <= lo2 THEN lo2 ELSE lo1
               k == IF 0 <= m THEN m ELSE 0
    <3>1. k \in 0..fine /\ lo1 <= k /\ k <= hi1 /\ lo2 <= k /\ k <= hi2
      BY <1>5, <2>1
    <3> QED
      BY <3>1
  <2> QED
    BY <1>5, <2>1
<1>8. Crosses(p, q, box) <=>
        /\ still
        /\ moves(1) => n(1) <= l1 /\ 0 <= o(1)
        /\ moves(2) => n(2) <= l2 /\ 0 <= o(2)
        /\ moves(1) /\ moves(2) => n(1) * l2 <= o(2) * l1 /\ n(2) * l1 <= o(1) * l2
  <2>1. \A i : i \in 1..2 <=> i = 1 \/ i = 2
    OBVIOUS
  <2>2. moves(1) => n(1) * l1 <= o(1) * l1
    <3>1. l1 * n(1) <= l1 * o(1) /\ l1 * n(1) = n(1) * l1 /\ l1 * o(1) = o(1) * l1
      BY <1>1, ScaledOrder
    <3> QED
      BY <3>1
  <2>3. moves(2) => n(2) * l2 <= o(2) * l2
    <3>1. l2 * n(2) <= l2 * o(2) /\ l2 * n(2) = n(2) * l2 /\ l2 * o(2) = o(2) * l2
      BY <1>1, ScaledOrder
    <3> QED
      BY <3>1
  <2>4. Crosses(p, q, box) <=>
           /\ still
           /\ \A i \in 1..2 : moves(i) => n(i) <= Extent(p, q, i) /\ 0 <= o(i)
           /\ \A i \in 1..2, j \in 1..2 : moves(i) /\ moves(j) =>
                  n(i) * Extent(p, q, j) <= o(j) * Extent(p, q, i)
    BY CrossesMeans
  <2>5. (\A i \in 1..2 : moves(i) => n(i) <= Extent(p, q, i) /\ 0 <= o(i)) <=>
           /\ moves(1) => n(1) <= l1 /\ 0 <= o(1)
           /\ moves(2) => n(2) <= l2 /\ 0 <= o(2)
    BY <2>1, Zenon
  <2>6. (\A i \in 1..2, j \in 1..2 : moves(i) /\ moves(j) => n(i) * Extent(p, q, j) <= o(j) * Extent(p, q, i)) <=>
           /\ moves(1) => n(1) * l1 <= o(1) * l1
           /\ moves(2) => n(2) * l2 <= o(2) * l2
           /\ moves(1) /\ moves(2) => n(1) * l2 <= o(2) * l1 /\ n(2) * l1 <= o(1) * l2
    <3>1. ASSUME \A i \in 1..2, j \in 1..2 : moves(i) /\ moves(j) => n(i) * Extent(p, q, j) <= o(j) * Extent(p, q, i)
          PROVE  /\ moves(1) => n(1) * l1 <= o(1) * l1
                 /\ moves(2) => n(2) * l2 <= o(2) * l2
                 /\ moves(1) /\ moves(2) => n(1) * l2 <= o(2) * l1 /\ n(2) * l1 <= o(1) * l2
      <4>1. 1 \in 1..2 /\ 2 \in 1..2
        OBVIOUS
      <4> HIDE DEF moves, n, o
      <4> QED
        BY <3>1, <4>1
    <3>2. ASSUME /\ moves(1) => n(1) * l1 <= o(1) * l1
                 /\ moves(2) => n(2) * l2 <= o(2) * l2
                 /\ moves(1) /\ moves(2) => n(1) * l2 <= o(2) * l1 /\ n(2) * l1 <= o(1) * l2,
                 NEW i \in 1..2, NEW j \in 1..2, moves(i), moves(j)
          PROVE  n(i) * Extent(p, q, j) <= o(j) * Extent(p, q, i)
      <4>1. (i = 1 \/ i = 2) /\ (j = 1 \/ j = 2)
        OBVIOUS
      <4> HIDE DEF moves, n, o
      <4>2. CASE i = 1 /\ j = 1
        BY <3>2, <4>2
      <4>3. CASE i = 1 /\ j = 2
        BY <3>2, <4>3
      <4>4. CASE i = 2 /\ j = 1
        BY <3>2, <4>4
      <4>5. CASE i = 2 /\ j = 2
        BY <3>2, <4>5
      <4> QED
        BY <4>1, <4>2, <4>3, <4>4, <4>5
    <3> QED
      BY <3>1, <3>2, Zenon
  <2> HIDE DEF still, moves, n, o, l1, l2
  <2> QED
    BY <2>2, <2>3, <2>4, <2>5, <2>6, Zenon
<1>9. /\ moves(1) => (n(1) <= l1 <=> lo1 <= fine) /\ (0 <= o(1) <=> 0 <= hi1)
      /\ moves(2) => (n(2) <= l2 <=> lo2 <= fine) /\ (0 <= o(2) <=> 0 <= hi2)
      /\ moves(1) /\ moves(2) => (n(1) * l2 <= o(2) * l1 <=> lo1 <= hi2) /\ (n(2) * l1 <= o(1) * l2 <=> lo2 <= hi1)
      /\ ~moves(1) => lo1 = 0 /\ hi1 = fine
      /\ ~moves(2) => lo2 = 0 /\ hi2 = fine
  <2>1. /\ l2 * n(1) <= l2 * l1 <=> n(1) <= l1
        /\ l2 * 0 <= l2 * o(1) <=> 0 <= o(1)
        /\ l1 * n(2) <= l1 * l2 <=> n(2) <= l2
        /\ l1 * 0 <= l1 * o(2) <=> 0 <= o(2)
    BY <1>1, ScaledOrder
  <2>2. /\ l2 * n(1) = n(1) * l2 /\ l2 * o(1) = o(1) * l2 /\ l1 * n(2) = n(2) * l1 /\ l1 * o(2) = o(2) * l1
        /\ l2 * l1 = l1 * l2 /\ l1 * 0 = 0 /\ l2 * 0 = 0
    BY <1>1
  <2> HIDE DEF n, o, l1, l2, moves
  <2> QED
    BY <2>1, <2>2
<1> HIDE DEF still, moves, n, o, l1, l2, fine, lo1, lo2, hi1, hi2
<1>10. CASE moves(1) /\ moves(2)
  BY <1>6, <1>7, <1>8, <1>9, <1>10, Zenon
<1>11. CASE moves(1) /\ ~moves(2)
  <2>1. lo2 <= fine /\ 0 <= hi2 /\ (lo1 <= hi2 <=> lo1 <= fine) /\ (lo2 <= hi1 <=> 0 <= hi1)
    BY <1>5, <1>9, <1>11
  <2> QED
    BY <1>6, <1>7, <1>8, <1>9, <1>11, <2>1, Zenon
<1>12. CASE ~moves(1) /\ moves(2)
  <2>1. lo1 <= fine /\ 0 <= hi1 /\ (lo2 <= hi1 <=> lo2 <= fine) /\ (lo1 <= hi2 <=> 0 <= hi2)
    BY <1>5, <1>9, <1>12
  <2> QED
    BY <1>6, <1>7, <1>8, <1>9, <1>12, <2>1, Zenon
<1>13. CASE ~moves(1) /\ ~moves(2)
  <2>1. lo1 <= fine /\ lo2 <= fine /\ 0 <= hi1 /\ 0 <= hi2 /\ lo1 <= hi2 /\ lo2 <= hi1
    BY <1>5, <1>9, <1>13
  <2> QED
    BY <1>6, <1>7, <1>8, <1>13, <2>1, Zenon
<1> QED
  BY <1>10, <1>11, <1>12, <1>13
----------------------------------------------------------------------------
(* Sight: the cover of several boxes                                        *)

LEMMA MostOf ==
  ASSUME NEW S \in SUBSET (0..FullCover)
  PROVE  /\ Max({0} \cup S) \in {0} \cup S /\ Max({0} \cup S) \in 0..FullCover
         /\ \A x \in S : x <= Max({0} \cup S)
<1> DEFINE T == {0} \cup S
           D == {FullCover - x : x \in T}
<1>1. \A x \in T : x \in 0..FullCover
  BY DEF FullCover
<1>2. D \in SUBSET Nat /\ D # {}
  <2>1. \A x \in T : FullCover - x \in Nat
    BY <1>1 DEF FullCover
  <2>2. FullCover - 0 \in D
    OBVIOUS
  <2> HIDE DEF T
  <2> QED
    BY <2>1, <2>2
<1>3. PICK d \in D : \A e \in D : d <= e
  <2> HIDE DEF D
  <2> QED
    BY <1>2, LeastOf
<1>4. PICK m \in T : d = FullCover - m
  BY <1>3
<1>5. \A x \in T : m >= x
  <2> SUFFICES ASSUME NEW x \in T PROVE m >= x
    OBVIOUS
  <2>1. FullCover - m <= FullCover - x
    <3>1. FullCover - x \in D
      OBVIOUS
    <3> QED
      BY <1>3, <1>4, <3>1
  <2>2. m \in Int /\ x \in Int /\ FullCover \in Int
    BY <1>1 DEF FullCover
  <2> HIDE DEF T, D
  <2> QED
    BY <2>1, <2>2
<1> HIDE DEF T, D
<1>6. Max(T) \in T /\ \A x \in T : Max(T) >= x
  BY <1>4, <1>5, Zenon DEF Max
<1>7. \A x \in T : x <= Max(T)
  <2>1. \A x \in T : x \in Int
    BY <1>1
  <2> QED
    BY <1>6, <2>1
<1> QED
  BY <1>1, <1>6, <1>7 DEF T

\* The corners of a box are given in order; the code takes them as they come.
BoxesAreRanges == \A box \in Field.boxes : \A i \in 1..2 : box.low[i] <= box.high[i]

LEMMA FieldViewIsExact ==
  ASSUME BoxesAreRanges, NEW p \in Points, NEW q \in Points
  PROVE  LET touched == {box \in Field.boxes : Touches(p, q, box)}
         IN  /\ Crossed(Field, p, q) = touched
             /\ FieldCover(Field, p, q) = FullCover <=> \E box \in touched : box.opaque \/ box.cover = FullCover
<1> DEFINE touched == {box \in Field.boxes : Touches(p, q, box)}
           covers == {box.cover : box \in touched}
<1>1. Crossed(Field, p, q) = touched
  <2>1. \A box \in Field.boxes : Ranged(box)
    BY FieldAssumption DEF BoxesAreRanges, Ranged
  <2>2. \A box \in Field.boxes : Crosses(p, q, box) <=> Touches(p, q, box)
    BY <2>1, SlabsAreExact
  <2> QED
    BY <2>2 DEF Crossed
<1>2. covers \in SUBSET (0..FullCover)
  BY FieldAssumption
<1> HIDE DEF touched
<1>3. FieldSight(Field, p, q) <=> ~\E box \in touched : box.opaque
  BY <1>1, Zenon DEF FieldSight
<1>4. FieldCover(Field, p, q) = IF FieldSight(Field, p, q) THEN Max({0} \cup covers) ELSE FullCover
  BY <1>1, Zenon DEF FieldCover
<1>5. Max({0} \cup covers) = FullCover <=> \E box \in touched : box.cover = FullCover
  <2>1. /\ Max({0} \cup covers) \in {0} \cup covers /\ Max({0} \cup covers) \in 0..FullCover
        /\ \A x \in covers : x <= Max({0} \cup covers)
    BY <1>2, MostOf
  <2>2. FullCover \in covers <=> \E box \in touched : box.cover = FullCover
    OBVIOUS
  <2> HIDE DEF covers
  <2>3. ASSUME Max({0} \cup covers) = FullCover PROVE FullCover \in covers
    BY <2>1, <2>3 DEF FullCover
  <2>4. ASSUME FullCover \in covers PROVE Max({0} \cup covers) = FullCover
    BY <2>1, <2>4 DEF FullCover
  <2> QED
    BY <2>2, <2>3, <2>4
<1> HIDE DEF covers
<1>6. FieldCover(Field, p, q) = FullCover <=> \E box \in touched : box.opaque \/ box.cover = FullCover
  BY <1>3, <1>4, <1>5, Zenon
<1> QED
  BY <1>1, <1>6 DEF touched

----------------------------------------------------------------------------
(* Sight: the cells of a line through a grid                                *)

Gap(u, v)     == IF v - u < 0 THEN -(v - u) ELSE v - u
Side(u, v)    == IF u < v THEN 1 ELSE -1
Onward(u, v, i) == IF u < v THEN u + i ELSE u - i

\* One step of the line.
Trodden(p, dx, dy, sx, sy) ==
    LET right == 2 * p.err > -dy
        down  == 2 * p.err < dx
    IN  [x   |-> IF right THEN p.x + sx ELSE p.x,
         y   |-> IF down THEN p.y + sy ELSE p.y,
         err |-> p.err - (IF right THEN dy ELSE 0) + (IF down THEN dx ELSE 0)]

\* The iteration of Line.
Runs(run, a, b, dx, dy, long) ==
    /\ run[0] = [x |-> a[1], y |-> a[2], err |-> dx - dy]
    /\ \A n \in 1..long : run[n] = Trodden(run[n - 1], dx, dy, Side(a[1], b[1]), Side(a[2], b[2]))
    /\ Line(a, b) = [n \in 0..long |-> <<run[n].x, run[n].y>>]

LEMMA LineRuns ==
  ASSUME NEW a, NEW b
  PROVE  LET dx   == Gap(a[1], b[1])
             dy   == Gap(a[2], b[2])
             long == Max({dx, dy})
         IN  long \in Nat => \E run : Runs(run, a, b, dx, dy, long)
<1> DEFINE dx == Gap(a[1], b[1])
           dy == Gap(a[2], b[2])
           long == Max({dx, dy})
           first == [x |-> a[1], y |-> a[2], err |-> dx - dy]
           Step(s) == Trodden(s, dx, dy, Side(a[1], b[1]), Side(a[2], b[2]))
           Loop(f, k) == f = [n \in 0..k |-> IF n = 0 THEN first ELSE Step(f[n - 1])]
           run == CHOOSE f : Loop(f, long)
<1> SUFFICES ASSUME long \in Nat PROVE \E r : Runs(r, a, b, dx, dy, long)
  OBVIOUS
<1>4. Line(a, b) = [n \in 0..long |-> <<run[n].x, run[n].y>>]
  BY Zenon DEF Line, Trodden, Gap, Side
<1> HIDE DEF first, Step, dx, dy, long
<1>5. \E f : Loop(f, long)
  <2> DEFINE Without == {k \in Nat : ~\E f : Loop(f, k)}
  <2>1. ASSUME long \in Without PROVE FALSE
    <3>1. PICK k \in Without : \A j \in Without : k <= j
      BY <2>1, LeastOf
    <3>2. CASE k = 0
      <4>1. Loop([n \in 0..0 |-> first], 0)
        OBVIOUS
      <4> QED
        BY <3>1, <3>2, <4>1
    <3>3. CASE k # 0
      <4>5. k \in Nat /\ k - 1 \in Nat /\ ~(k <= k - 1)
        BY <3>1, <3>3
      <4>6. k - 1 \notin Without
        <5> HIDE DEF Without
        <5> QED
          BY <3>1, <4>5
      <4>1. PICK f : Loop(f, k - 1)
        BY <4>5, <4>6
      <4> DEFINE g == [n \in 0..k |-> IF n = 0 THEN first ELSE Step(f[n - 1])]
      <4>2. \A n \in 0..(k - 1) : g[n] = f[n]
        BY <3>1, <4>1
      <4>3. \A n \in 0..k : n # 0 => n - 1 \in 0..(k - 1)
        BY <3>1
      <4>4. Loop(g, k)
        BY <4>2, <4>3
      <4> QED
        BY <3>1, <4>4
    <3> QED
      BY <3>2, <3>3
  <2> QED
    BY <2>1
<1>6. Loop(run, long)
  BY <1>5, Zenon
<1> HIDE DEF run
<1>7. run[0] = first
  BY <1>6
<1>8. \A n \in 1..long : run[n] = Step(run[n - 1])
  BY <1>6
<1> HIDE DEF Loop
<1> QED
  BY <1>4, <1>7, <1>8, Zenon DEF Runs, first, Step

\* After n steps the line is n cells on along its longer axis and, of the
\* product of both, no more than half the longer off the straight line.
Close(i, j, f, dx, dy, n) ==
    /\ i \in Nat /\ j \in Nat /\ f \in Int /\ f = j * dx - i * dy
    /\ n = IF dx >= dy THEN i ELSE j
    /\ 2 * f <= dx \/ 2 * f <= dy
    /\ -dx <= 2 * f \/ -dy <= 2 * f
    /\ dx = dy => f = 0

LEMMA CloseOn ==
  ASSUME NEW dx \in Nat, NEW dy \in Nat, dx # 0 \/ dy # 0, NEW n \in Nat, NEW i, NEW j, NEW f, Close(i, j, f, dx, dy, n),
         NEW right, right \in BOOLEAN, right <=> 2 * (f + dx - dy) > -dy, NEW down, down \in BOOLEAN, down <=> 2 * (f + dx - dy) < dx
  PROVE  /\ Close(IF right THEN i + 1 ELSE i, IF down THEN j + 1 ELSE j,
                  f - (IF right THEN dy ELSE 0) + (IF down THEN dx ELSE 0), dx, dy, n + 1)
<1>1. i \in Nat /\ j \in Nat /\ f \in Int /\ f = j * dx - i * dy
  BY DEF Close
<1>2. (j + 1) * dx = j * dx + dx /\ (i + 1) * dy = i * dy + dy /\ j * dx \in Int /\ i * dy \in Int
  BY <1>1
<1> DEFINE i2 == IF right THEN i + 1 ELSE i
           j2 == IF down THEN j + 1 ELSE j
           f2 == f - (IF right THEN dy ELSE 0) + (IF down THEN dx ELSE 0)
<1>3. f2 = j2 * dx - i2 * dy
  <2>1. PICK u \in Int, v \in Int : u = j * dx /\ v = i * dy
    BY <1>2
  <2>2. j2 * dx = (IF down THEN u + dx ELSE u) /\ i2 * dy = (IF right THEN v + dy ELSE v)
    BY <1>2, <2>1
  <2> HIDE DEF i2, j2
  <2> QED
    BY <1>1, <2>1, <2>2
<1>4. i2 \in Nat /\ j2 \in Nat /\ f2 \in Int
  BY <1>1
<1>5. CASE dx > dy
  BY <1>1, <1>3, <1>4, <1>5 DEF Close
<1>6. CASE dx < dy
  BY <1>1, <1>3, <1>4, <1>6 DEF Close
<1>7. CASE dx = dy
  BY <1>1, <1>3, <1>4, <1>7 DEF Close
<1> QED
  BY <1>5, <1>6, <1>7

LEMMA GapOf ==
  ASSUME NEW u \in Int, NEW v \in Int
  PROVE  /\ Gap(u, v) \in Nat /\ Onward(u, v, 0) = u /\ Onward(u, v, Gap(u, v)) = v
         /\ \A i \in Nat : Onward(u, v, i) \in Int /\ Onward(u, v, i) + Side(u, v) = Onward(u, v, i + 1)
  BY DEF Gap, Onward, Side

\* The cells of the line, in order.
OnLine(c, n, a, b) ==
    \E i \in Nat, j \in Nat, f \in Int :
        /\ Close(i, j, f, Gap(a[1], b[1]), Gap(a[2], b[2]), n)
        /\ c = <<Onward(a[1], b[1], i), Onward(a[2], b[2], j)>>

LongerGap(a, b) == IF Gap(a[1], b[1]) <= Gap(a[2], b[2]) THEN Gap(a[2], b[2]) ELSE Gap(a[1], b[1])

LEMMA LineIsClose ==
  ASSUME NEW a \in Points, NEW b \in Points
  PROVE  \E cell : Line(a, b) = [n \in 0..LongerGap(a, b) |-> cell[n]] /\ \A n \in 0..LongerGap(a, b) : OnLine(cell[n], n, a, b)
<1> DEFINE dx == Gap(a[1], b[1])
           dy == Gap(a[2], b[2])
           long == LongerGap(a, b)
<1>1. a[1] \in Int /\ a[2] \in Int /\ b[1] \in Int /\ b[2] \in Int
  BY DEF Points
<1>2. dx \in Nat /\ dy \in Nat
  BY <1>1, GapOf
<1>3. long \in Nat /\ long = Max({dx, dy})
  <2>1. Max({dx, dy}) = IF dx <= dy THEN dy ELSE dx
    BY <1>2, OrderOfTwo
  <2> QED
    BY <1>2, <2>1, Zenon DEF LongerGap
<1>4. PICK run : Runs(run, a, b, dx, dy, long)
  <2> HIDE DEF long
  <2>1. Max({dx, dy}) \in Nat => \E r : Runs(r, a, b, dx, dy, Max({dx, dy}))
    BY LineRuns, Zenon
  <2> HIDE DEF dx, dy
  <2> QED
    BY <1>3, <2>1
<1> DEFINE Drawn(n) ==
      \E i \in Nat, j \in Nat, f \in Int :
        /\ Close(i, j, f, dx, dy, n)
        /\ run[n] = [x |-> Onward(a[1], b[1], i), y |-> Onward(a[2], b[2], j), err |-> f + dx - dy]
<1>5. Drawn(0)
  <2>1. Close(0, 0, 0, dx, dy, 0)
    <3> HIDE DEF dx, dy
    <3> QED
      BY <1>2 DEF Close
  <2>2. run[0] = [x |-> Onward(a[1], b[1], 0), y |-> Onward(a[2], b[2], 0), err |-> 0 + dx - dy]
    <3>1. Onward(a[1], b[1], 0) = a[1] /\ Onward(a[2], b[2], 0) = a[2]
      BY <1>1, GapOf
    <3> HIDE DEF dx, dy
    <3>2. 0 + dx - dy = dx - dy
      BY <1>2
    <3> QED
      BY <1>4, <3>1, <3>2, Zenon DEF Runs
  <2>3. 0 \in Nat /\ 0 \in Int
    OBVIOUS
  <2> QED
    BY <2>1, <2>2, <2>3, Zenon
<1>6. ASSUME NEW n \in Nat, n + 1 <= long, Drawn(n) PROVE Drawn(n + 1)
  <2>1. PICK i \in Nat, j \in Nat, f \in Int :
          /\ Close(i, j, f, dx, dy, n)
          /\ run[n] = [x |-> Onward(a[1], b[1], i), y |-> Onward(a[2], b[2], j), err |-> f + dx - dy]
    BY <1>6, Zenon
  <2>2. dx # 0 \/ dy # 0
    BY <1>2, <1>3, <1>6 DEF LongerGap
  <2>3. n + 1 \in 1..long /\ n + 1 - 1 = n
    <3> HIDE DEF long
    <3> QED
      BY <1>3, <1>6
  <2> DEFINE right == 2 * (f + dx - dy) > -dy
             down == 2 * (f + dx - dy) < dx
             i2 == IF right THEN i + 1 ELSE i
             j2 == IF down THEN j + 1 ELSE j
             f2 == f - (IF right THEN dy ELSE 0) + (IF down THEN dx ELSE 0)
  <2>4. Close(i2, j2, f2, dx, dy, n + 1)
    <3>1. right \in BOOLEAN /\ down \in BOOLEAN
      OBVIOUS
    <3>2. Close(i, j, f, dx, dy, n)
      BY <2>1
    <3>3. (right <=> 2 * (f + dx - dy) > -dy) /\ (down <=> 2 * (f + dx - dy) < dx)
      OBVIOUS
    <3> HIDE DEF right, down, dx, dy
    <3> QED
      BY <1>2, <2>2, <3>1, <3>2, <3>3, CloseOn
  <2>5. /\ \A k \in Nat : Onward(a[1], b[1], k) \in Int /\ Onward(a[1], b[1], k) + Side(a[1], b[1]) = Onward(a[1], b[1], k + 1)
        /\ \A k \in Nat : Onward(a[2], b[2], k) \in Int /\ Onward(a[2], b[2], k) + Side(a[2], b[2]) = Onward(a[2], b[2], k + 1)
    BY <1>1, GapOf
  <2>6. run[n + 1] = [x |-> Onward(a[1], b[1], i2), y |-> Onward(a[2], b[2], j2), err |-> f2 + dx - dy]
    <3>1. run[n + 1] = Trodden(run[n], dx, dy, Side(a[1], b[1]), Side(a[2], b[2]))
      <4> HIDE DEF long, dx, dy
      <4> QED
        BY <1>4, <2>3 DEF Runs
    <3>2. run[n].x = Onward(a[1], b[1], i) /\ run[n].y = Onward(a[2], b[2], j) /\ run[n].err = f + dx - dy
      BY <2>1
    <3> DEFINE p == run[n]
    <3>3. (right <=> 2 * p.err > -dy) /\ (down <=> 2 * p.err < dx)
      BY <3>2
    <3> HIDE DEF dx, dy, right, down, p
    <3>4. Trodden(p, dx, dy, Side(a[1], b[1]), Side(a[2], b[2])) =
            [x |-> IF right THEN p.x + Side(a[1], b[1]) ELSE p.x,
             y |-> IF down THEN p.y + Side(a[2], b[2]) ELSE p.y,
             err |-> p.err - (IF right THEN dy ELSE 0) + (IF down THEN dx ELSE 0)]
      BY <3>3 DEF Trodden
    <3>5. p.x = Onward(a[1], b[1], i) /\ p.y = Onward(a[2], b[2], j) /\ p.err = f + dx - dy
      BY <3>2 DEF p
    <3>6. p.err - (IF right THEN dy ELSE 0) + (IF down THEN dx ELSE 0) = f2 + dx - dy
      BY <1>2, <3>5
    <3>7. /\ (IF right THEN p.x + Side(a[1], b[1]) ELSE p.x) = Onward(a[1], b[1], i2)
          /\ (IF down THEN p.y + Side(a[2], b[2]) ELSE p.y) = Onward(a[2], b[2], j2)
      BY <2>5, <3>5
    <3> HIDE DEF i2, j2, f2
    <3> QED
      BY <3>1, <3>4, <3>6, <3>7, Zenon DEF p
  <2>7. i2 \in Nat /\ j2 \in Nat /\ f2 \in Int
    BY <2>4 DEF Close
  <2> HIDE DEF i2, j2, f2, dx, dy
  <2> QED
    BY <2>4, <2>6, <2>7, Zenon
<1>7. \A n \in 0..long : Drawn(n)
  <2> HIDE DEF Drawn, long
  <2> DEFINE Missing == {n \in Nat : n <= long /\ ~Drawn(n)}
  <2>1. ASSUME Missing # {} PROVE FALSE
    <3>1. PICK k \in Missing : \A m \in Missing : k <= m
      BY <2>1, LeastOf
    <3>2. k \in Nat /\ k <= long /\ ~Drawn(k) /\ k # 0
      BY <1>5, <3>1
    <3>3. k - 1 \in Nat /\ k - 1 <= long /\ k - 1 + 1 = k /\ ~(k <= k - 1)
      BY <1>3, <3>2
    <3>4. k - 1 \notin Missing
      <4> HIDE DEF Missing
      <4> QED
        BY <3>1, <3>3
    <3>5. Drawn(k - 1)
      BY <3>3, <3>4
    <3>6. Drawn(k - 1 + 1)
      BY <1>6, <3>2, <3>3, <3>5
    <3> QED
      BY <3>2, <3>3, <3>6
  <2> QED
    BY <2>1
<1>8. \A n \in 0..long : OnLine(<<run[n].x, run[n].y>>, n, a, b)
  <2> HIDE DEF long
  <2> SUFFICES ASSUME NEW n \in 0..long PROVE OnLine(<<run[n].x, run[n].y>>, n, a, b)
    OBVIOUS
  <2>1. PICK i \in Nat, j \in Nat, f \in Int :
          /\ Close(i, j, f, dx, dy, n)
          /\ run[n] = [x |-> Onward(a[1], b[1], i), y |-> Onward(a[2], b[2], j), err |-> f + dx - dy]
    BY <1>7, Zenon
  <2>2. run[n].x = Onward(a[1], b[1], i) /\ run[n].y = Onward(a[2], b[2], j)
    BY <2>1
  <2> QED
    BY <2>1, <2>2, Zenon DEF OnLine
<1> DEFINE cell == [n \in 0..long |-> <<run[n].x, run[n].y>>]
<1>9. Line(a, b) = [n \in 0..long |-> cell[n]] /\ \A n \in 0..long : OnLine(cell[n], n, a, b)
  <2> HIDE DEF long
  <2>1. \A n \in 0..long : cell[n] = <<run[n].x, run[n].y>>
    OBVIOUS
  <2> HIDE DEF cell
  <2> QED
    BY <1>4, <1>8, <2>1 DEF Runs
<1> QED
  BY <1>9, Zenon

LEMMA InTheRange ==
  ASSUME NEW u \in Int, NEW v \in Int
  PROVE  /\ \A w : w \in Min({u, v})..Max({u, v}) <=> \E i \in 0..Gap(u, v) : w = Onward(u, v, i)
         /\ \A i \in Nat : (Onward(u, v, i) = u <=> i = 0) /\ (Onward(u, v, i) = v <=> i = Gap(u, v))
<1>1. Min({u, v}) = (IF u <= v THEN u ELSE v) /\ Max({u, v}) = (IF u <= v THEN v ELSE u)
  BY OrderOfTwo
<1>2. ASSUME NEW w, w \in Min({u, v})..Max({u, v}) PROVE \E i \in 0..Gap(u, v) : w = Onward(u, v, i)
  <2>1. w \in Int /\ (u <= v => u <= w /\ w <= v) /\ (~(u <= v) => v <= w /\ w <= u)
    BY <1>1, <1>2
  <2>2. CASE u < v
    <3>1. w - u \in 0..Gap(u, v) /\ w = Onward(u, v, w - u)
      BY <2>1, <2>2 DEF Gap, Onward
    <3> QED
      BY <3>1, Zenon
  <2>3. CASE ~(u < v)
    <3>1. u - w \in 0..Gap(u, v) /\ w = Onward(u, v, u - w)
      BY <2>1, <2>3 DEF Gap, Onward
    <3> QED
      BY <3>1, Zenon
  <2> QED
    BY <2>2, <2>3
<1>3. ASSUME NEW i \in 0..Gap(u, v) PROVE Onward(u, v, i) \in Min({u, v})..Max({u, v})
  BY <1>1 DEF Gap, Onward
<1>4. \A i \in Nat : (Onward(u, v, i) = u <=> i = 0) /\ (Onward(u, v, i) = v <=> i = Gap(u, v))
  BY DEF Gap, Onward
<1> QED
  BY <1>2, <1>3, <1>4, Zenon

Off(i, j, dx, dy) == LET f == j * dx - i * dy IN IF f < 0 THEN -f ELSE f

LEMMA OffIs ==
  ASSUME NEW a \in Points, NEW b \in Points, NEW i \in Nat, NEW j \in Nat
  PROVE  LET f == (b[1] - a[1]) * (Onward(a[2], b[2], j) - a[2]) - (b[2] - a[2]) * (Onward(a[1], b[1], i) - a[1])
         IN  (IF f < 0 THEN -f ELSE f) = Off(i, j, Gap(a[1], b[1]), Gap(a[2], b[2]))
<1>1. PICK u \in Int, v \in Int, w \in Int, z \in Int : u = a[1] /\ v = b[1] /\ w = a[2] /\ z = b[2]
  BY DEF Points
<1> DEFINE f == (v - u) * (Onward(w, z, j) - w) - (z - w) * (Onward(u, v, i) - u)
           e == j * Gap(u, v) - i * Gap(w, z)
<1>2. f \in Int /\ e \in Int /\ (f = e \/ f = -e)
  <2>1. PICK x \in Nat, y \in Nat : x = Gap(u, v) /\ y = Gap(w, z)
    <3>1. Gap(u, v) \in Nat /\ Gap(w, z) \in Nat
      BY GapOf
    <3> QED
      BY <3>1, Zenon
  <2>2. j * x \in Int /\ i * y \in Int /\ j * x = x * j /\ i * y = y * i
    OBVIOUS
  <2>3. CASE u < v /\ w < z
    <3>1. v - u = x /\ z - w = y /\ Onward(w, z, j) - w = j /\ Onward(u, v, i) - u = i
      BY <2>1, <2>3 DEF Gap, Onward
    <3> QED
      BY <2>1, <2>2, <3>1
  <2>4. CASE u < v /\ ~(w < z)
    <3>1. v - u = x /\ z - w = -y /\ Onward(w, z, j) - w = -j /\ Onward(u, v, i) - u = i
      BY <2>1, <2>4 DEF Gap, Onward
    <3>2. x * (-j) = -(x * j) /\ (-y) * i = -(y * i)
      OBVIOUS
    <3> QED
      BY <2>1, <2>2, <3>1, <3>2
  <2>5. CASE ~(u < v) /\ w < z
    <3>1. v - u = -x /\ z - w = y /\ Onward(w, z, j) - w = j /\ Onward(u, v, i) - u = -i
      BY <2>1, <2>5 DEF Gap, Onward
    <3>2. (-x) * j = -(x * j) /\ y * (-i) = -(y * i)
      OBVIOUS
    <3> QED
      BY <2>1, <2>2, <3>1, <3>2
  <2>6. CASE ~(u < v) /\ ~(w < z)
    <3>1. v - u = -x /\ z - w = -y /\ Onward(w, z, j) - w = -j /\ Onward(u, v, i) - u = -i
      BY <2>1, <2>6 DEF Gap, Onward
    <3>2. (-x) * (-j) = x * j /\ (-y) * (-i) = y * i
      OBVIOUS
    <3> QED
      BY <2>1, <2>2, <3>1, <3>2
  <2> QED
    BY <2>3, <2>4, <2>5, <2>6
<1> HIDE DEF f, e
<1>3. (IF f < 0 THEN -f ELSE f) = IF e < 0 THEN -e ELSE e
  BY <1>2
<1> QED
  BY <1>1, <1>3 DEF Off, f, e

\* The cells beside the straight line, by their distances along both axes.
Beside(c, a, b, sure, i, j) ==
    /\ c = <<Onward(a[1], b[1], i), Onward(a[2], b[2], j)>>
    /\ i # 0 \/ j # 0
    /\ i # Gap(a[1], b[1]) \/ j # Gap(a[2], b[2])
    /\ \/ 2 * Off(i, j, Gap(a[1], b[1]), Gap(a[2], b[2])) < LongerGap(a, b)
       \/ ~sure /\ 2 * Off(i, j, Gap(a[1], b[1]), Gap(a[2], b[2])) = LongerGap(a, b)

LEMMA PassedIs ==
  ASSUME NEW a \in Points, NEW b \in Points, NEW sure \in BOOLEAN, NEW c
  PROVE  c \in Passed(a, b, sure) <=>
           \E i \in 0..Gap(a[1], b[1]), j \in 0..Gap(a[2], b[2]) : Beside(c, a, b, sure, i, j)
<1>1. a[1] \in Int /\ a[2] \in Int /\ b[1] \in Int /\ b[2] \in Int /\ a = <<a[1], a[2]>> /\ b = <<b[1], b[2]>>
  BY DEF Points
<1>2. Gap(a[1], b[1]) \in Nat /\ Gap(a[2], b[2]) \in Nat
  BY <1>1, GapOf
<1> DEFINE dx == b[1] - a[1]
           dy == b[2] - a[2]
           abs(n) == IF n < 0 THEN -n ELSE n
           off(d) == 2 * abs(dx * (d[2] - a[2]) - dy * (d[1] - a[1]))
           box == (Min({a[1], b[1]})..Max({a[1], b[1]})) \X (Min({a[2], b[2]})..Max({a[2], b[2]}))
           near(d) == off(d) < LongerGap(a, b) \/ (~sure /\ off(d) = LongerGap(a, b))
<1>3. LongerGap(a, b) = Max({abs(dx), abs(dy)})
  <2>1. abs(dx) = Gap(a[1], b[1]) /\ abs(dy) = Gap(a[2], b[2])
    BY DEF Gap
  <2> HIDE DEF abs, dx, dy
  <2>2. Max({Gap(a[1], b[1]), Gap(a[2], b[2])}) = LongerGap(a, b)
    <3>1. Max({Gap(a[1], b[1]), Gap(a[2], b[2])})
            = IF Gap(a[1], b[1]) <= Gap(a[2], b[2]) THEN Gap(a[2], b[2]) ELSE Gap(a[1], b[1])
      BY <1>2, OrderOfTwo
    <3> QED
      BY <3>1, Zenon DEF LongerGap
  <2> QED
    BY <2>1, <2>2
<1>4. c \in Passed(a, b, sure) <=> c \in box /\ c # a /\ c # b /\ near(c)
  <2>1. Passed(a, b, sure) = {d \in box \ {a, b} : near(d)}
    BY <1>3, Zenon DEF Passed
  <2> HIDE DEF box, near
  <2> QED
    BY <2>1
<1> DEFINE Cell(i, j) == <<Onward(a[1], b[1], i), Onward(a[2], b[2], j)>>
<1>5. c \in box <=> \E i \in 0..Gap(a[1], b[1]), j \in 0..Gap(a[2], b[2]) : c = Cell(i, j)
  <2>1. /\ \A w : w \in Min({a[1], b[1]})..Max({a[1], b[1]}) <=> \E i \in 0..Gap(a[1], b[1]) : w = Onward(a[1], b[1], i)
        /\ \A w : w \in Min({a[2], b[2]})..Max({a[2], b[2]}) <=> \E i \in 0..Gap(a[2], b[2]) : w = Onward(a[2], b[2], i)
    <3>1. /\ \A w : w \in Min({a[1], b[1]})..Max({a[1], b[1]}) <=> \E i \in 0..Gap(a[1], b[1]) : w = Onward(a[1], b[1], i)
          /\ \A i \in Nat : (Onward(a[1], b[1], i) = a[1] <=> i = 0) /\ (Onward(a[1], b[1], i) = b[1] <=> i = Gap(a[1], b[1]))
      BY <1>1, InTheRange, Zenon
    <3>2. /\ \A w : w \in Min({a[2], b[2]})..Max({a[2], b[2]}) <=> \E i \in 0..Gap(a[2], b[2]) : w = Onward(a[2], b[2], i)
          /\ \A i \in Nat : (Onward(a[2], b[2], i) = a[2] <=> i = 0) /\ (Onward(a[2], b[2], i) = b[2] <=> i = Gap(a[2], b[2]))
      BY <1>1, InTheRange, Zenon
    <3> QED
      BY <3>1, <3>2, Zenon
  <2> DEFINE X == Min({a[1], b[1]})..Max({a[1], b[1]})
             Y == Min({a[2], b[2]})..Max({a[2], b[2]})
  <2>2. c \in box <=> \E x \in X, y \in Y : c = <<x, y>>
    <3> HIDE DEF X, Y
    <3>1. c \in X \X Y <=> \E x \in X, y \in Y : c = <<x, y>>
      OBVIOUS
    <3> QED
      BY <3>1 DEF X, Y
  <2>3. ASSUME NEW x \in X, NEW y \in Y, c = <<x, y>>
        PROVE  \E i \in 0..Gap(a[1], b[1]), j \in 0..Gap(a[2], b[2]) : c = Cell(i, j)
    <3>1. PICK i \in 0..Gap(a[1], b[1]) : x = Onward(a[1], b[1], i)
      BY <2>1
    <3>2. PICK j \in 0..Gap(a[2], b[2]) : y = Onward(a[2], b[2], j)
      BY <2>1
    <3> QED
      BY <2>3, <3>1, <3>2, Zenon
  <2>4. ASSUME NEW i \in 0..Gap(a[1], b[1]), NEW j \in 0..Gap(a[2], b[2]), c = Cell(i, j)
        PROVE  \E x \in X, y \in Y : c = <<x, y>>
    <3>1. Onward(a[1], b[1], i) \in X /\ Onward(a[2], b[2], j) \in Y
      BY <2>1
    <3> QED
      BY <2>4, <3>1, Zenon
  <2> HIDE DEF box, X, Y, Cell
  <2> QED
    BY <2>2, <2>3, <2>4, Zenon
<1>6. ASSUME NEW i \in 0..Gap(a[1], b[1]), NEW j \in 0..Gap(a[2], b[2]), c = Cell(i, j)
      PROVE  c # a /\ c # b /\ near(c) <=> Beside(c, a, b, sure, i, j)
  <2>1. i \in Nat /\ j \in Nat
    BY <1>2
  <2>2. /\ Onward(a[1], b[1], i) = a[1] <=> i = 0
        /\ Onward(a[1], b[1], i) = b[1] <=> i = Gap(a[1], b[1])
        /\ Onward(a[2], b[2], j) = a[2] <=> j = 0
        /\ Onward(a[2], b[2], j) = b[2] <=> j = Gap(a[2], b[2])
    <3>1. \A k \in Nat : (Onward(a[1], b[1], k) = a[1] <=> k = 0) /\ (Onward(a[1], b[1], k) = b[1] <=> k = Gap(a[1], b[1]))
      <4>1. /\ \A w : w \in Min({a[1], b[1]})..Max({a[1], b[1]}) <=> \E k \in 0..Gap(a[1], b[1]) : w = Onward(a[1], b[1], k)
            /\ \A k \in Nat : (Onward(a[1], b[1], k) = a[1] <=> k = 0) /\ (Onward(a[1], b[1], k) = b[1] <=> k = Gap(a[1], b[1]))
        BY <1>1, InTheRange, Zenon
      <4> QED
        BY <4>1, Zenon
    <3>2. \A k \in Nat : (Onward(a[2], b[2], k) = a[2] <=> k = 0) /\ (Onward(a[2], b[2], k) = b[2] <=> k = Gap(a[2], b[2]))
      <4>1. /\ \A w : w \in Min({a[2], b[2]})..Max({a[2], b[2]}) <=> \E k \in 0..Gap(a[2], b[2]) : w = Onward(a[2], b[2], k)
            /\ \A k \in Nat : (Onward(a[2], b[2], k) = a[2] <=> k = 0) /\ (Onward(a[2], b[2], k) = b[2] <=> k = Gap(a[2], b[2]))
        BY <1>1, InTheRange, Zenon
      <4> QED
        BY <4>1, Zenon
    <3> QED
      BY <2>1, <3>1, <3>2, Zenon
  <2>3. c[1] = Onward(a[1], b[1], i) /\ c[2] = Onward(a[2], b[2], j)
    BY <1>6
  <2>4. c = a <=> i = 0 /\ j = 0
    <3>1. c = a <=> c[1] = a[1] /\ c[2] = a[2]
      BY <1>1, <1>6, <2>3
    <3> QED
      BY <2>2, <2>3, <3>1, Zenon
  <2>5. c = b <=> i = Gap(a[1], b[1]) /\ j = Gap(a[2], b[2])
    <3>1. c = b <=> c[1] = b[1] /\ c[2] = b[2]
      BY <1>1, <1>6, <2>3
    <3> QED
      BY <2>2, <2>3, <3>1, Zenon
  <2>6. off(c) = 2 * Off(i, j, Gap(a[1], b[1]), Gap(a[2], b[2]))
    <3>1. abs(dx * (Onward(a[2], b[2], j) - a[2]) - dy * (Onward(a[1], b[1], i) - a[1]))
            = Off(i, j, Gap(a[1], b[1]), Gap(a[2], b[2]))
      BY <2>1, OffIs, Zenon
    <3> HIDE DEF abs, dx, dy
    <3> QED
      BY <2>3, <3>1
  <2> HIDE DEF off
  <2> QED
    BY <1>6, <2>4, <2>5, <2>6, Zenon DEF Beside
<1> HIDE DEF box, near, Cell
<1>7. \A i, j : Beside(c, a, b, sure, i, j) => c = Cell(i, j)
  BY Zenon DEF Beside, Cell
<1> QED
  BY <1>4, <1>5, <1>6, <1>7, Zenon

\* Inside the line: no cell beyond the end, none that is an end, none far off.
LEMMA WithinLine ==
  ASSUME NEW dx \in Nat, NEW dy \in Nat, NEW n \in Nat \ {0}, n < dx \/ n < dy, NEW i, NEW j, NEW f, Close(i, j, f, dx, dy, n)
  PROVE  /\ i \in 0..dx /\ j \in 0..dy /\ (i # 0 \/ j # 0) /\ (i # dx \/ j # dy)
         /\ 2 * Off(i, j, dx, dy) <= IF dx <= dy THEN dy ELSE dx
<1>1. i \in Nat /\ j \in Nat /\ f \in Int /\ f = j * dx - i * dy
  BY DEF Close
<1>2. PICK u \in Nat, v \in Nat : u = j * dx /\ v = i * dy
  <2>1. j * dx \in Nat /\ i * dy \in Nat
    BY <1>1
  <2> QED
    BY <2>1, Zenon
<1>3. f = u - v
  BY <1>1, <1>2
<1>4. 2 * Off(i, j, dx, dy) <= IF dx <= dy THEN dy ELSE dx
  <2>1. Off(i, j, dx, dy) = IF f < 0 THEN -f ELSE f
    BY <1>1, Zenon DEF Off
  <2> QED
    BY <1>1, <2>1 DEF Close
<1>5. CASE dx >= dy
  <2>1. i = n /\ i <= dx - 1 /\ i # 0 /\ i # dx
    BY <1>5 DEF Close
  <2>2. j <= dy
    <3> SUFFICES ASSUME dy < j PROVE FALSE
      BY <1>1
    <3>1. PICK k \in Nat : j = dy + 1 + k
      <4>1. j - dy - 1 \in Nat /\ j = dy + 1 + (j - dy - 1)
        BY <1>1
      <4> QED
        BY <4>1, Zenon
    <3>2. PICK m \in Nat : i = dx - 1 - m
      <4>1. dx - 1 - i \in Nat /\ i = dx - 1 - (dx - 1 - i)
        BY <1>1, <2>1
      <4> QED
        BY <4>1, Zenon
    <3>3. PICK x \in Nat, y \in Nat, z \in Nat : x = dy * dx /\ y = k * dx /\ z = m * dy
      <4>1. dy * dx \in Nat /\ k * dx \in Nat /\ m * dy \in Nat
        OBVIOUS
      <4> QED
        BY <4>1, Zenon
    <3>4. u = x + dx + y
      BY <1>2, <3>1, <3>3
    <3>5. v = x - dy - z
      BY <1>2, <3>2, <3>3
    <3>6. f >= dx
      BY <1>3, <3>4, <3>5
    <3> QED
      BY <1>1, <1>5, <2>1, <3>6 DEF Close
  <2> QED
    BY <1>1, <1>4, <2>1, <2>2
<1>6. CASE ~(dx >= dy)
  <2>1. j = n /\ j <= dy - 1 /\ j # 0 /\ j # dy
    BY <1>6 DEF Close
  <2>2. i <= dx
    <3> SUFFICES ASSUME dx < i PROVE FALSE
      BY <1>1
    <3>1. PICK k \in Nat : i = dx + 1 + k
      <4>1. i - dx - 1 \in Nat /\ i = dx + 1 + (i - dx - 1)
        BY <1>1
      <4> QED
        BY <4>1, Zenon
    <3>2. PICK m \in Nat : j = dy - 1 - m
      <4>1. dy - 1 - j \in Nat /\ j = dy - 1 - (dy - 1 - j)
        BY <1>1, <2>1
      <4> QED
        BY <4>1, Zenon
    <3>3. PICK x \in Nat, y \in Nat, z \in Nat : x = dx * dy /\ y = k * dy /\ z = m * dx
      <4>1. dx * dy \in Nat /\ k * dy \in Nat /\ m * dx \in Nat
        OBVIOUS
      <4> QED
        BY <4>1, Zenon
    <3>4. v = x + dy + y
      BY <1>2, <3>1, <3>3
    <3>5. u = x - dx - z
      BY <1>2, <3>2, <3>3
    <3>6. f <= -dy
      BY <1>3, <3>4, <3>5
    <3> QED
      BY <1>1, <1>6, <2>1, <3>6 DEF Close
  <2> QED
    BY <1>1, <1>4, <2>1, <2>2
<1> QED
  BY <1>5, <1>6

\* Less than half a cell off the straight line there is only the line's own cell.
LEMMA SameCell ==
  ASSUME NEW dx \in Nat, NEW dy \in Nat, NEW n, NEW i, NEW j, NEW f, Close(i, j, f, dx, dy, n),
         NEW i2 \in Nat, NEW j2 \in Nat, n = (IF dx >= dy THEN i2 ELSE j2),
         2 * Off(i2, j2, dx, dy) < IF dx <= dy THEN dy ELSE dx
  PROVE  i2 = i /\ j2 = j
<1>1. i \in Nat /\ j \in Nat /\ f \in Int /\ f = j * dx - i * dy
  BY DEF Close
<1>2. PICK u \in Int, v \in Int, u2 \in Int, v2 \in Int : u = j * dx /\ v = i * dy /\ u2 = j2 * dx /\ v2 = i2 * dy
  <2>1. j * dx \in Int /\ i * dy \in Int /\ j2 * dx \in Int /\ i2 * dy \in Int
    BY <1>1
  <2> QED
    BY <2>1, Zenon
<1>3. /\ 2 * (u2 - v2) < (IF dx <= dy THEN dy ELSE dx)
      /\ -(2 * (u2 - v2)) < (IF dx <= dy THEN dy ELSE dx)
  <2>1. Off(i2, j2, dx, dy) = IF u2 - v2 < 0 THEN -(u2 - v2) ELSE u2 - v2
    BY <1>2, Zenon DEF Off
  <2> QED
    BY <2>1
<1>4. f = u - v
  BY <1>1, <1>2
<1>5. CASE dx >= dy
  <2>1. i2 = i
    BY <1>5 DEF Close
  <2>2. v2 = v
    BY <1>2, <2>1
  <2>3. u2 - u < dx /\ u - u2 < dx
    BY <1>1, <1>3, <1>4, <1>5, <2>2 DEF Close
  <2>4. ASSUME j < j2 PROVE FALSE
    <3>1. PICK k \in Nat : j2 = j + 1 + k
      <4>1. j2 - j - 1 \in Nat /\ j2 = j + 1 + (j2 - j - 1)
        BY <1>1, <2>4
      <4> QED
        BY <4>1, Zenon
    <3>2. u2 = u + dx + k * dx /\ k * dx \in Nat
      BY <1>1, <1>2, <3>1
    <3> QED
      BY <2>3, <3>2
  <2>5. ASSUME j2 < j PROVE FALSE
    <3>1. PICK k \in Nat : j = j2 + 1 + k
      <4>1. j - j2 - 1 \in Nat /\ j = j2 + 1 + (j - j2 - 1)
        BY <1>1, <2>5
      <4> QED
        BY <4>1, Zenon
    <3>2. u = u2 + dx + k * dx /\ k * dx \in Nat
      BY <1>1, <1>2, <3>1
    <3> QED
      BY <2>3, <3>2
  <2> QED
    BY <1>1, <2>1, <2>4, <2>5
<1>6. CASE ~(dx >= dy)
  <2>1. j2 = j
    BY <1>6 DEF Close
  <2>2. u2 = u
    BY <1>2, <2>1
  <2>3. v2 - v < dy /\ v - v2 < dy
    BY <1>1, <1>3, <1>4, <1>6, <2>2 DEF Close
  <2>4. ASSUME i < i2 PROVE FALSE
    <3>1. PICK k \in Nat : i2 = i + 1 + k
      <4>1. i2 - i - 1 \in Nat /\ i2 = i + 1 + (i2 - i - 1)
        BY <1>1, <2>4
      <4> QED
        BY <4>1, Zenon
    <3>2. v2 = v + dy + k * dy /\ k * dy \in Nat
      BY <1>1, <1>2, <3>1
    <3> QED
      BY <2>3, <3>2
  <2>5. ASSUME i2 < i PROVE FALSE
    <3>1. PICK k \in Nat : i = i2 + 1 + k
      <4>1. i - i2 - 1 \in Nat /\ i = i2 + 1 + (i - i2 - 1)
        BY <1>1, <2>5
      <4> QED
        BY <4>1, Zenon
    <3>2. v = v2 + dy + k * dy /\ k * dy \in Nat
      BY <1>1, <1>2, <3>1
    <3> QED
      BY <2>3, <3>2
  <2> QED
    BY <1>1, <2>1, <2>4, <2>5
<1> QED
  BY <1>5, <1>6

\* Less than half a cell off the straight line and no end: between the ends.
LEMMA SureIsWithin ==
  ASSUME NEW dx \in Nat, NEW dy \in Nat, NEW i \in 0..dx, NEW j \in 0..dy, i # 0 \/ j # 0, i # dx \/ j # dy,
         2 * Off(i, j, dx, dy) < IF dx <= dy THEN dy ELSE dx,
         NEW n, n = IF dx >= dy THEN i ELSE j
  PROVE  n \in Nat /\ 0 < n /\ n < IF dx <= dy THEN dy ELSE dx
<1>1. i \in Nat /\ j \in Nat /\ i <= dx /\ j <= dy
  OBVIOUS
<1>2. PICK u \in Int, v \in Int : u = j * dx /\ v = i * dy
  <2>1. j * dx \in Int /\ i * dy \in Int
    BY <1>1
  <2> QED
    BY <2>1, Zenon
<1>3. 2 * (u - v) < (IF dx <= dy THEN dy ELSE dx) /\ -(2 * (u - v)) < (IF dx <= dy THEN dy ELSE dx)
  <2>1. Off(i, j, dx, dy) = IF u - v < 0 THEN -(u - v) ELSE u - v
    BY <1>2, Zenon DEF Off
  <2> QED
    BY <2>1
<1>4. CASE dx >= dy
  <2>1. ASSUME i = 0 PROVE FALSE
    <3>1. PICK k \in Nat : j = k + 1
      <4>1. j - 1 \in Nat /\ j = j - 1 + 1
        BY <1>1, <2>1
      <4> QED
        BY <4>1, Zenon
    <3>2. v = 0 /\ u = k * dx + dx /\ k * dx \in Nat
      BY <1>2, <2>1, <3>1
    <3> QED
      BY <1>3, <1>4, <3>2
  <2>2. ASSUME i = dx PROVE FALSE
    <3>1. PICK k \in Nat : dy = j + 1 + k
      <4>1. dy - j - 1 \in Nat /\ dy = j + 1 + (dy - j - 1)
        BY <1>1, <2>2
      <4> QED
        BY <4>1, Zenon
    <3>2. v = u + dx + k * dx /\ k * dx \in Nat
      BY <1>1, <1>2, <2>2, <3>1
    <3> QED
      BY <1>3, <1>4, <3>2
  <2> QED
    BY <1>1, <1>4, <2>1, <2>2
<1>5. CASE ~(dx >= dy)
  <2>1. ASSUME j = 0 PROVE FALSE
    <3>1. PICK k \in Nat : i = k + 1
      <4>1. i - 1 \in Nat /\ i = i - 1 + 1
        BY <1>1, <2>1
      <4> QED
        BY <4>1, Zenon
    <3>2. u = 0 /\ v = k * dy + dy /\ k * dy \in Nat
      BY <1>2, <2>1, <3>1
    <3> QED
      BY <1>3, <1>5, <3>2
  <2>2. ASSUME j = dy PROVE FALSE
    <3>1. PICK k \in Nat : dx = i + 1 + k
      <4>1. dx - i - 1 \in Nat /\ dx = i + 1 + (dx - i - 1)
        BY <1>1, <2>2
      <4> QED
        BY <4>1, Zenon
    <3>2. u = v + dy + k * dy /\ k * dy \in Nat
      BY <1>1, <1>2, <2>2, <3>1
    <3> QED
      BY <1>3, <1>5, <3>2
  <2> QED
    BY <1>1, <1>5, <2>1, <2>2
<1> QED
  BY <1>4, <1>5

\* The cells between the ends are those the straight line passes, but for cells
\* it touches only at an edge, of which the line takes some and leaves others.
LEMMA LineIsStraight ==
  ASSUME NEW a \in Points, NEW b \in Points
  PROVE  Passed(a, b, TRUE) \subseteq Between(a, b) /\ Between(a, b) \subseteq Passed(a, b, FALSE)
<1> DEFINE dx == Gap(a[1], b[1])
           dy == Gap(a[2], b[2])
           long == LongerGap(a, b)
<1>1. dx \in Nat /\ dy \in Nat
  <2>1. a[1] \in Int /\ a[2] \in Int /\ b[1] \in Int /\ b[2] \in Int
    BY DEF Points
  <2> QED
    BY <2>1, GapOf
<1>2. long \in Nat /\ long = (IF dx <= dy THEN dy ELSE dx)
  BY <1>1 DEF LongerGap
<1>3. PICK cell : Line(a, b) = [n \in 0..long |-> cell[n]] /\ \A n \in 0..long : OnLine(cell[n], n, a, b)
  BY LineIsClose
<1>4. \A c : c \in Between(a, b) <=> \E n \in Nat \ {0} : n < long /\ c = cell[n]
  <2> HIDE DEF long
  <2>1. DOMAIN Line(a, b) = 0..long /\ \A n \in 0..long : Line(a, b)[n] = cell[n]
    BY <1>3
  <2>2. Cardinality(0..long) = long + 1
    BY <1>2, FS_Interval
  <2>3. Cardinality(DOMAIN Line(a, b)) - 2 = long - 1
    BY <1>2, <2>1, <2>2
  <2>4. Between(a, b) = {Line(a, b)[n] : n \in 1..(long - 1)}
    BY <2>3 DEF Between
  <2>5. \A n \in 1..(long - 1) : Line(a, b)[n] = cell[n]
    <3>1. \A n \in 1..(long - 1) : n \in 0..long
      BY <1>2
    <3> QED
      BY <2>1, <3>1
  <2>6. \A n : n \in 1..(long - 1) <=> n \in Nat \ {0} /\ n < long
    BY <1>2
  <2> QED
    BY <2>4, <2>5, <2>6, Zenon
<1>5. ASSUME NEW c \in Between(a, b) PROVE c \in Passed(a, b, FALSE)
  <2>1. PICK n \in Nat \ {0} : n < long /\ c = cell[n]
    BY <1>4
  <2>2. n \in 0..long
    BY <1>2, <2>1
  <2>3. OnLine(c, n, a, b)
    <3> HIDE DEF long
    <3> QED
      BY <1>3, <2>1, <2>2
  <2>4. PICK i \in Nat, j \in Nat, f \in Int :
          Close(i, j, f, dx, dy, n) /\ c = <<Onward(a[1], b[1], i), Onward(a[2], b[2], j)>>
    BY <2>3, Zenon DEF OnLine
  <2>5. n < dx \/ n < dy
    BY <1>1, <1>2, <2>1
  <2>6. /\ i \in 0..dx /\ j \in 0..dy /\ (i # 0 \/ j # 0) /\ (i # dx \/ j # dy)
        /\ 2 * Off(i, j, dx, dy) <= IF dx <= dy THEN dy ELSE dx
    BY <1>1, <2>4, <2>5, WithinLine
  <2>7. 2 * Off(i, j, dx, dy) <= long
    BY <1>2, <2>6, Zenon
  <2>8. Off(i, j, dx, dy) \in Int
    <3>1. j * dx - i * dy \in Int
      BY <1>1
    <3> HIDE DEF dx, dy
    <3> QED
      BY <3>1 DEF Off
  <2>9. 2 * Off(i, j, dx, dy) < long \/ 2 * Off(i, j, dx, dy) = long
    <3> HIDE DEF long, dx, dy
    <3> QED
      BY <1>2, <2>7, <2>8
  <2>10. Beside(c, a, b, FALSE, i, j)
    BY <2>4, <2>6, <2>9 DEF Beside
  <2> QED
    BY <2>6, <2>10, PassedIs
<1>6. ASSUME NEW c \in Passed(a, b, TRUE) PROVE c \in Between(a, b)
  <2>1. PICK i \in 0..dx, j \in 0..dy : Beside(c, a, b, TRUE, i, j)
    BY <1>6, PassedIs
  <2>2. /\ c = <<Onward(a[1], b[1], i), Onward(a[2], b[2], j)>>
        /\ i # 0 \/ j # 0
        /\ i # dx \/ j # dy
        /\ 2 * Off(i, j, dx, dy) < long
    BY <2>1, Zenon DEF Beside
  <2>3. 2 * Off(i, j, dx, dy) < IF dx <= dy THEN dy ELSE dx
    BY <1>2, <2>2, Zenon
  <2> DEFINE n == IF dx >= dy THEN i ELSE j
  <2>4. n \in Nat /\ 0 < n /\ n < IF dx <= dy THEN dy ELSE dx
    <3> HIDE DEF dx, dy
    <3> QED
      BY <1>1, <2>2, <2>3, SureIsWithin
  <2>5. n \in Nat \ {0} /\ n < long /\ n \in 0..long
    <3> HIDE DEF n, long, dx, dy
    <3> QED
      BY <1>2, <2>4
  <2>6. OnLine(cell[n], n, a, b)
    <3> HIDE DEF n, long
    <3> QED
      BY <1>3, <2>5
  <2>7. PICK i1 \in Nat, j1 \in Nat, f \in Int :
          Close(i1, j1, f, dx, dy, n) /\ cell[n] = <<Onward(a[1], b[1], i1), Onward(a[2], b[2], j1)>>
    BY <2>6, Zenon DEF OnLine
  <2>8. i \in Nat /\ j \in Nat
    BY <1>1
  <2>9. i = i1 /\ j = j1
    <3>1. n = IF dx >= dy THEN i ELSE j
      OBVIOUS
    <3> HIDE DEF n, dx, dy
    <3> QED
      BY <1>1, <2>3, <2>7, <2>8, <3>1, SameCell
  <2>10. c = cell[n]
    BY <2>2, <2>7, <2>9, Zenon
  <2> HIDE DEF n
  <2> QED
    BY <1>4, <2>5, <2>10, Zenon
<1> QED
  BY <1>5, <1>6

\* All of them lie on the grid.
LEMMA PassedAreCells ==
  ASSUME NEW a \in Cells(Arena), NEW b \in Cells(Arena), NEW sure \in BOOLEAN
  PROVE  a \in Points /\ b \in Points /\ Passed(a, b, sure) \subseteq Cells(Arena)
<1>1. Arena.width \in Nat /\ Arena.height \in Nat
  BY ArenaAssumption
<1>2. a \in Points /\ b \in Points
  BY <1>1, CellsOf
<1>3. \A c : c \in Cells(Arena) <=> \E x \in 0..(Arena.width - 1), y \in 0..(Arena.height - 1) : c = <<x, y>>
  BY DEF Cells
<1>4. PICK x1 \in 0..(Arena.width - 1), y1 \in 0..(Arena.height - 1) : a = <<x1, y1>>
  BY <1>3
<1>5. PICK x2 \in 0..(Arena.width - 1), y2 \in 0..(Arena.height - 1) : b = <<x2, y2>>
  BY <1>3
<1>6. a[1] = x1 /\ a[2] = y1 /\ b[1] = x2 /\ b[2] = y2
  BY <1>4, <1>5
<1>7. ASSUME NEW m \in Nat, NEW u \in 0..(m - 1), NEW v \in 0..(m - 1), NEW i \in 0..Gap(u, v)
      PROVE  Onward(u, v, i) \in 0..(m - 1)
  BY <1>7 DEF Onward, Gap
<1>8. ASSUME NEW c \in Passed(a, b, sure) PROVE c \in Cells(Arena)
  <2>1. PICK i \in 0..Gap(a[1], b[1]), j \in 0..Gap(a[2], b[2]) : Beside(c, a, b, sure, i, j)
    BY <1>2, <1>8, PassedIs
  <2>2. c = <<Onward(a[1], b[1], i), Onward(a[2], b[2], j)>>
    BY <2>1, Zenon DEF Beside
  <2>3. Onward(x1, x2, i) \in 0..(Arena.width - 1) /\ Onward(y1, y2, j) \in 0..(Arena.height - 1)
    BY <1>1, <1>6, <1>7
  <2> QED
    BY <1>3, <1>6, <2>2, <2>3, Zenon
<1> QED
  BY <1>2, <1>8

\* More cells cover no less.
LEMMA CoverGrows ==
  ASSUME NEW S \in SUBSET Cells(Arena), NEW T \in SUBSET Cells(Arena), S \subseteq T
  PROVE  /\ Covered(Arena, S) \in Nat /\ Covered(Arena, T) \in Nat
         /\ Covered(Arena, S) <= Covered(Arena, T)
<1> DEFINE of(R) == {Arena.cover[c] : c \in R}
<1>1. of(S) \in SUBSET (0..FullCover) /\ of(T) \in SUBSET (0..FullCover) /\ of(S) \subseteq of(T)
  BY ArenaAssumption
<1>2. Covered(Arena, S) = Max({0} \cup of(S)) /\ Covered(Arena, T) = Max({0} \cup of(T))
  BY DEF Covered
<1> HIDE DEF of
<1>3. /\ Max({0} \cup of(S)) \in {0} \cup of(S) /\ Max({0} \cup of(S)) \in 0..FullCover
      /\ \A x \in of(S) : x <= Max({0} \cup of(S))
  BY <1>1, MostOf
<1>4. /\ Max({0} \cup of(T)) \in {0} \cup of(T) /\ Max({0} \cup of(T)) \in 0..FullCover
      /\ \A x \in of(T) : x <= Max({0} \cup of(T))
  BY <1>1, MostOf
<1>5. Max({0} \cup of(S)) <= Max({0} \cup of(T))
  BY <1>1, <1>3, <1>4 DEF FullCover
<1> QED
  BY <1>2, <1>3, <1>4, <1>5 DEF FullCover

LEMMA NothingMisjudged == Misjudged = {}
<1>1. ASSUME NEW a \in Cells(Arena), NEW b \in Cells(Arena)
      PROVE  /\ Agrees(GridSight(Arena, a, b), Arena.opaque, a, b)
             /\ Agrees(MapSight(Arena, a, b), Arena.walls, a, b)
             /\ GridSight(Arena, a, b) =>
                    GridCover(Arena, a, b) \in Covered(Arena, Passed(a, b, TRUE))
                                               ..Covered(Arena, Passed(a, b, FALSE))
  <2>1. a \in Points /\ b \in Points /\ Passed(a, b, TRUE) \subseteq Cells(Arena) /\ Passed(a, b, FALSE) \subseteq Cells(Arena)
    BY PassedAreCells
  <2>2. Passed(a, b, TRUE) \subseteq Between(a, b) /\ Between(a, b) \subseteq Passed(a, b, FALSE)
    BY <2>1, LineIsStraight
  <2>3. GridSight(Arena, a, b) <=> Between(a, b) \cap Arena.opaque = {}
    BY DEF GridSight
  <2>4. Agrees(GridSight(Arena, a, b), Arena.opaque, a, b)
    BY <2>2, <2>3 DEF Agrees
  <2>5. Agrees(MapSight(Arena, a, b), Arena.walls, a, b)
    BY <2>2 DEF Agrees, MapSight
  <2>6. GridSight(Arena, a, b) => GridCover(Arena, a, b) = Covered(Arena, Between(a, b))
    BY DEF GridCover
  <2>7. /\ Covered(Arena, Passed(a, b, TRUE)) \in Nat /\ Covered(Arena, Between(a, b)) \in Nat
        /\ Covered(Arena, Passed(a, b, TRUE)) <= Covered(Arena, Between(a, b))
    BY <2>1, <2>2, CoverGrows
  <2>8. /\ Covered(Arena, Between(a, b)) \in Nat /\ Covered(Arena, Passed(a, b, FALSE)) \in Nat
        /\ Covered(Arena, Between(a, b)) <= Covered(Arena, Passed(a, b, FALSE))
    BY <2>1, <2>2, CoverGrows
  <2>9. Covered(Arena, Between(a, b)) \in Covered(Arena, Passed(a, b, TRUE))..Covered(Arena, Passed(a, b, FALSE))
    <3> DEFINE lo == Covered(Arena, Passed(a, b, TRUE))
               of == Covered(Arena, Between(a, b))
               hi == Covered(Arena, Passed(a, b, FALSE))
    <3>1. lo \in Nat /\ of \in Nat /\ hi \in Nat /\ lo <= of /\ of <= hi
      BY <2>7, <2>8, Zenon
    <3> HIDE DEF lo, of, hi
    <3>2. of \in lo..hi
      BY <3>1
    <3> QED
      BY <3>2 DEF lo, of, hi
  <2> QED
    BY <2>4, <2>5, <2>6, <2>9, Zenon
<1>2. ASSUME NEW v \in Misjudged PROVE FALSE
  <2>1. PICK a \in Cells(Arena), b \in Cells(Arena) : v = <<a, b>>
    BY DEF Misjudged
  <2>2. v[1] = a /\ v[2] = b
    BY <2>1
  <2> QED
    BY <1>1, <2>2 DEF Misjudged
<1> QED
  BY <1>2

LEMMA ViewsFromEntries ==
  ASSUME BoxesAreRanges, \A a \in Actors : at["field"][a] \in Points \cup {Nowhere}
  PROVE  SightIsExact
<1>1. Misjudged = {}
  BY NothingMisjudged
<1>2. ASSUME NEW a \in Actors, at["field"][a] # Nowhere, NEW q \in Field.points
      PROVE  LET p       == at["field"][a]
                 touched == {box \in Field.boxes : Touches(p, q, box)}
             IN  /\ Crossed(Field, p, q) = touched
                 /\ FieldCover(Field, p, q) = FullCover <=> \E box \in touched : box.opaque \/ box.cover = FullCover
  <2>1. at["field"][a] \in Points /\ q \in Points
    BY <1>2, FieldAssumption
  <2> QED
    BY <2>1, FieldViewIsExact
<1> QED
  BY <1>1, <1>2 DEF SightIsExact

----------------------------------------------------------------------------
(* Where an actor stands: what validate_move promises place                 *)

LEMMA BodiesAre ==
  ASSUME Standing, NEW a \in Actors
  PROVE  \A b \in Bodies(a) : b.at \in Points /\ b.size \in Nat
<1>1. \A o \in DOMAIN Others("field", a) : o \in Actors /\ at["field"][o] # Nowhere
  BY DEF Others
<1>2. \A o \in DOMAIN Others("field", a) : at["field"][o] \in Points /\ size[o] \in Nat
  BY <1>1, EntryOf
<1> QED
  BY <1>2 DEF Bodies

\* The cells the others take are among those the routes are tabulated for.
LEMMA TakenIsACrowd ==
  ASSUME Standing, NEW a \in Actors
  PROVE  Taken(a) \in Crowds
<1> DEFINE f == Others("arena", a)
           S == DOMAIN f
<1>1. S = {b \in Actors : b # a /\ at["arena"][b] # Nowhere} /\ \A o \in S : f[o] = at["arena"][o]
  BY DEF Others
<1>2. Taken(a) \subseteq Cells(Arena)
  BY <1>1, EntryOf DEF Taken
<1>3. IsFiniteSet(Actors) /\ IsFiniteSet(Actors \ {a}) /\ Cardinality(Actors) \in Nat
      /\ Cardinality(Actors \ {a}) = Cardinality(Actors) - 1
  BY ActorAssumption, FS_RemoveElement, FS_CardinalityType
<1>4. IsFiniteSet(S) /\ Cardinality(S) <= Cardinality(Actors \ {a}) /\ Cardinality(S) \in Nat
  <2>1. S \in SUBSET (Actors \ {a})
    BY <1>1
  <2> HIDE DEF S
  <2> QED
    BY <1>3, <2>1, FS_Subset, FS_CardinalityType
<1>5. f \in Surjection(S, Taken(a))
  <2>1. f \in [S -> Taken(a)]
    BY <1>1 DEF Taken, Others
  <2>2. \A t \in Taken(a) : \E o \in S : f[o] = t
    BY <1>1 DEF Taken
  <2> HIDE DEF f, S
  <2> QED
    BY <2>1, <2>2 DEF Surjection
<1>6. IsFiniteSet(Taken(a)) /\ Cardinality(Taken(a)) <= Cardinality(S)
  <2> HIDE DEF f, S
  <2> QED
    BY <1>4, <1>5, FS_Surjection
<1>7. Cardinality(Taken(a)) \in Nat
  BY <1>6, FS_CardinalityType
<1>8. Cardinality(Taken(a)) < Cardinality(Actors)
  <2> HIDE DEF f, S
  <2> QED
    BY <1>3, <1>4, <1>6, <1>7
<1> QED
  BY <1>2, <1>8 DEF Crowds

LEMMA VerdictOk ==
  ASSUME NEW cost, NEW budget, Verdict(cost, budget).ok
  PROVE  cost # NoPath
BY DEF Verdict

LEMMA GridVerdict ==
  ASSUME Standing, NEW a \in Actors, NEW to, NEW budget, Validate("arena", a, to, budget).ok
  PROVE  to \in Cells(Arena) /\ Walkable(Arena, Taken(a), to)
<1> DEFINE from == at["arena"][a]
           cost == IF to \in Cells(Arena) THEN GridRoute(Taken(a), from, to) ELSE NoPath
           Fits(r) == r.goal = to /\ r.start = from /\ r.crowd = Taken(a)
<1>1. from # Nowhere /\ cost # NoPath
  <2>1. CASE from = Nowhere
    BY <2>1 DEF Validate, Verdict
  <2>2. CASE from # Nowhere
    <3>1. Validate("arena", a, to, budget) = Verdict(cost, budget)
      BY <2>2 DEF Validate
    <3> HIDE DEF cost
    <3>2. Verdict(cost, budget).ok
      BY <3>1, Zenon
    <3> QED
      BY <2>2, <3>2, VerdictOk
  <2> QED
    BY <2>1, <2>2
<1>2. to \in Cells(Arena) /\ GridRoute(Taken(a), from, to) # NoPath
  BY <1>1
<1>3. from \in Cells(Arena)
  BY <1>1, EntryOf
<1>4. \E r \in GridRoutes : Fits(r)
  <2>1. [crowd |-> Taken(a), start |-> from, goal |-> to, cost |-> GridPath(Arena, Taken(a), from, to)] \in GridRoutes
    BY <1>2, <1>3, TakenIsACrowd DEF GridRoutes
  <2> QED
    BY <2>1
<1>5. PICK r \in GridRoutes : Fits(r) /\ GridRoute(Taken(a), from, to) = r.cost
  BY <1>4, Zenon DEF GridRoute
<1>6. r.cost = GridPath(Arena, Taken(a), from, to)
  BY <1>5 DEF GridRoutes
<1>7. GridPath(Arena, Taken(a), from, to) # NoPath
  BY <1>2, <1>5, <1>6
<1> QED
  BY <1>2, <1>7 DEF GridPath

\* Where another node is full no edge leads to it; an actor that stays in its own
\* leaves the others fewer than the capacity.
LEMMA RoadVerdict ==
  ASSUME Standing, NobodyOverlaps, NEW a \in Actors, NEW to \in Road.nodes, NEW budget,
         Validate("road", a, to, budget).ok
  PROVE  HasRoom(Road, Others("road", a), to)
<1> DEFINE from == at["road"][a]
           others == Others("road", a)
           path == GraphPath(Road, others, from, to)
<1>1. from # Nowhere /\ path # NoPath
  <2>1. CASE from = Nowhere
    BY <2>1 DEF Validate, Verdict
  <2>2. CASE from # Nowhere
    <3>1. Validate("road", a, to, budget) = Verdict(path, budget)
      BY <2>2 DEF Validate
    <3> HIDE DEF path
    <3>2. Verdict(path, budget).ok
      BY <3>1, Zenon
    <3> QED
      BY <2>2, <3>2, VerdictOk
  <2> QED
    BY <2>1, <2>2
<1>2. from \in Road.nodes
  BY <1>1, EntryOf
<1>3. CASE from = to
  <2> DEFINE here == {b \in Actors : at["road"][b] = to}
             rest == {o \in DOMAIN others : others[o] = to}
  <2>1. rest = here \ {a} /\ a \in here
    BY <1>1, <1>3 DEF Others
  <2>2. IsFiniteSet(here)
    BY ActorAssumption, FS_Subset
  <2>3. Road.capacity[to] \in Nat /\ (Road.capacity[to] > 0 => Cardinality(here) <= Road.capacity[to])
    BY RoadAssumption DEF NobodyOverlaps, Roomy
  <2> HIDE DEF here, rest
  <2>4. Cardinality(rest) = Cardinality(here) - 1 /\ Cardinality(here) \in Nat
    BY <2>1, <2>2, FS_RemoveElement, FS_CardinalityType
  <2>5. Road.capacity[to] = 0 \/ Cardinality(rest) < Road.capacity[to]
    BY <2>3, <2>4
  <2> QED
    BY <2>5 DEF HasRoom, rest
<1>4. CASE from # to
  <2> SUFFICES ASSUME ~HasRoom(Road, others, to) PROVE FALSE
    OBVIOUS
  <2> DEFINE steps == [n \in Road.nodes |-> GraphSteps(Road, others, to, n)]
             none  == [n \in Road.nodes |-> 0]
  <2>0. Moves(Road.nodes, steps)
    BY RoadMoves
  <2>1. \A n \in Road.nodes : \A m \in steps[n] : m.to # to
    BY RoadAssumption DEF GraphSteps
  <2>2. \A n \in Road.nodes : none[n] \in Nat
    OBVIOUS
  <2>3. path = Search(Road.nodes, from, to, steps, none)
    BY DEF GraphPath
  <2> HIDE DEF steps, none
  <2>4. Search(Road.nodes, from, to, steps, none) = NoPath
    BY <1>2, <1>4, <2>0, <2>1, <2>2, NeverArrives, RoadAssumption
  <2> QED
    BY <1>1, <2>3, <2>4
<1> QED
  BY <1>3, <1>4

LEMMA FieldVerdict ==
  ASSUME Standing, NEW a \in Actors, NEW to, NEW budget, Validate("field", a, to, budget).ok
  PROVE  ~Collides(Field, Bodies(a), to, size[a])
<1> DEFINE from == at["field"][a]
           hit == Collides(Field, Bodies(a), to, size[a]) \/ Blocked(Field, from, to)
           cost == IF hit THEN NoPath ELSE Distance(from, to)
<1>1. CASE from = Nowhere
  BY <1>1 DEF Validate, Verdict
<1>2. CASE from # Nowhere
  <2>1. Validate("field", a, to, budget) = Verdict(cost, budget)
    BY <1>2 DEF Validate
  <2>2. cost # NoPath
    <3> HIDE DEF cost
    <3>1. Verdict(cost, budget).ok
      BY <2>1, Zenon
    <3> QED
      BY <3>1, VerdictOk
  <2> QED
    BY <2>2
<1> QED
  BY <1>1, <1>2

\* place raises after validate_move agreed for a body alone that is larger than
\* its entry.
LEMMA RaisesForTheLarger ==
  ASSUME Standing, NobodyOverlaps, NEW s \in Spaces, NEW a \in Actors, NEW to \in Spot(s), NEW budget,
         Validate(s, a, to, budget).ok, PlaceRaises(s, a, to)
  PROVE  amiss' = amiss \cup {a}
<1>1. CASE s = "arena"
  BY <1>1, GridVerdict DEF PlaceRaises, MayPlace
<1>2. CASE s = "road"
  BY <1>2, RoadVerdict DEF PlaceRaises, MayPlace, Spot
<1>3. CASE s = "field"
  <2>1. to \in Points /\ size[a] \in Nat /\ Radius[a] \in Nat
    BY <1>3, EntryOf DEF Spot
  <2>2. ~Collides(Field, Bodies(a), to, size[a]) /\ Collides(Field, Bodies(a), to, Radius[a])
    BY <1>3, FieldVerdict DEF PlaceRaises, MayPlace
  <2>3. ~(Radius[a] <= size[a])
    BY <2>1, <2>2, BodiesAre, SmallerFits
  <2> QED
    BY <2>1, <2>3 DEF PlaceRaises
<1> QED
  BY <1>1, <1>2, <1>3 DEF Spaces
----------------------------------------------------------------------------
(* What place keeps                                                         *)

LEMMA KeepsCells ==
  ASSUME Standing, NobodyOverlaps, NEW s \in Spaces, NEW a \in Actors, NEW to \in Spot(s),
         MayPlace(s, a, to), Place(s, a, to),
         NEW b \in Actors, NEW c \in Actors, b # c, at'["arena"][b] # Nowhere
  PROVE  at'["arena"][b] # at'["arena"][c]
<1>1. \A d \in Actors : at'["arena"][d] = IF s = "arena" /\ d = a THEN to ELSE at["arena"][d]
  BY Replaced DEF Spaces
<1>2. \A d, e \in Actors : d # e /\ at["arena"][d] # Nowhere => at["arena"][d] # at["arena"][e]
  BY DEF NobodyOverlaps, Roomy
<1>3. CASE s = "arena"
  <2>1. to \in Cells(Arena) /\ to \notin Taken(a)
    BY <1>3 DEF MayPlace, Walkable
  <2>2. \A o \in Actors : o # a /\ at["arena"][o] # Nowhere => at["arena"][o] \in Taken(a)
    BY DEF Taken, Others
  <2>3. to # Nowhere
    BY <2>1, EntryOf
  <2>4. CASE b = a
    BY <1>1, <1>3, <2>1, <2>2, <2>3, <2>4
  <2>5. CASE c = a
    BY <1>1, <1>3, <2>1, <2>2, <2>5
  <2>6. CASE b # a /\ c # a
    BY <1>1, <1>2, <2>6
  <2> QED
    BY <2>4, <2>5, <2>6
<1>4. CASE s # "arena"
  BY <1>1, <1>2, <1>4
<1> QED
  BY <1>3, <1>4

LEMMA KeepsNodes ==
  ASSUME Standing, NobodyOverlaps, NEW s \in Spaces, NEW a \in Actors, NEW to \in Spot(s),
         MayPlace(s, a, to), Place(s, a, to),
         NEW n \in Road.nodes, Road.capacity[n] > 0
  PROVE  Cardinality({b \in Actors : at'["road"][b] = n}) <= Road.capacity[n]
<1> DEFINE here == {b \in Actors : at["road"][b] = n}
           then == {b \in Actors : at'["road"][b] = n}
           rest == {b \in Actors : b # a /\ at["road"][b] = n}
<1>1. \A b \in Actors : at'["road"][b] = IF s = "road" /\ b = a THEN to ELSE at["road"][b]
  BY Replaced DEF Spaces
<1>2. Cardinality(here) <= Road.capacity[n] /\ Road.capacity[n] \in Nat
  BY RoadAssumption DEF NobodyOverlaps, Roomy
<1>3. IsFiniteSet(here) /\ IsFiniteSet(rest)
  BY ActorAssumption, FS_Subset
<1>4. CASE s = "road" /\ to = n
  <2>1. Cardinality({o \in DOMAIN Others("road", a) : Others("road", a)[o] = n}) < Road.capacity[n]
    BY <1>2, <1>4 DEF MayPlace, HasRoom
  <2>2. {o \in DOMAIN Others("road", a) : Others("road", a)[o] = n} = rest
    BY EntryOf DEF Others
  <2>3. then = rest \cup {a} /\ a \notin rest
    BY <1>1, <1>4
  <2>6. Cardinality(rest) < Road.capacity[n]
    <3> HIDE DEF rest
    <3> QED
      BY <2>1, <2>2
  <2> HIDE DEF rest, then, here
  <2>4. Cardinality(then) = Cardinality(rest) + 1 /\ Cardinality(rest) \in Nat
    BY <1>3, <2>3, FS_AddElement, FS_CardinalityType
  <2>5. Cardinality(then) <= Road.capacity[n]
    BY <1>2, <2>4, <2>6
  <2> QED
    BY <2>5 DEF then
<1>5. CASE ~(s = "road" /\ to = n)
  <2>1. then \subseteq here
    BY <1>1, <1>5
  <2> HIDE DEF then, here
  <2>2. Cardinality(then) <= Cardinality(here) /\ Cardinality(then) \in Nat /\ Cardinality(here) \in Nat
    BY <1>3, <2>1, FS_Subset, FS_CardinalityType
  <2>3. Cardinality(then) <= Road.capacity[n]
    BY <1>2, <2>2
  <2> QED
    BY <2>3 DEF then
<1> QED
  BY <1>4, <1>5

LEMMA KeepsApart ==
  ASSUME Standing, NobodyOverlaps, NEW s \in Spaces, NEW a \in Actors, NEW to \in Spot(s),
         MayPlace(s, a, to), Place(s, a, to),
         NEW b \in Actors, NEW c \in Actors, b # c,
         at'["field"][b] # Nowhere, at'["field"][c] # Nowhere
  PROVE  Square(at'["field"][b], at'["field"][c])
           >= (size'[b] + size'[c]) * (size'[b] + size'[c])
<1>1. \A d \in Actors : at'["field"][d] = IF s = "field" /\ d = a THEN to ELSE at["field"][d]
  BY Replaced DEF Spaces
<1>2. \A d \in Actors : size'[d] = IF s = "field" /\ d = a THEN Radius[a] ELSE size[d]
  BY Replaced
<1>3. \A d, e \in Actors : d # e /\ at["field"][d] # Nowhere /\ at["field"][e] # Nowhere =>
        Square(at["field"][d], at["field"][e]) >= (size[d] + size[e]) * (size[d] + size[e])
  BY DEF NobodyOverlaps, Roomy
<1>4. ASSUME s = "field", NEW o \in Actors, o # a, at["field"][o] # Nowhere
      PROVE  /\ Square(at["field"][o], to) >= (Radius[a] + size[o]) * (Radius[a] + size[o])
             /\ Square(to, at["field"][o]) >= (Radius[a] + size[o]) * (Radius[a] + size[o])
             /\ Radius[a] + size[o] = size[o] + Radius[a]
  <2>1. to \in Points /\ at["field"][o] \in Points /\ size[o] \in Nat /\ Radius[a] \in Nat
    BY <1>4, EntryOf DEF Spot
  <2>2. [at |-> at["field"][o], size |-> size[o]] \in Bodies(a)
    BY <1>4 DEF Bodies, Others
  <2>3. \A x \in Bodies(a) : ~(Square(x.at, to) < (Radius[a] + x.size) * (Radius[a] + x.size))
    BY <1>4 DEF MayPlace, Collides
  <2>4. ~(Square(at["field"][o], to) < (Radius[a] + size[o]) * (Radius[a] + size[o]))
    BY <2>2, <2>3
  <2>5. /\ Square(at["field"][o], to) \in Nat
        /\ Square(at["field"][o], to) = Square(to, at["field"][o])
    BY <2>1, SquareOf
  <2>6. (Radius[a] + size[o]) * (Radius[a] + size[o]) \in Nat
    BY <2>1
  <2>7. Radius[a] + size[o] = size[o] + Radius[a]
    BY <2>1
  <2> QED
    BY <2>4, <2>5, <2>6, <2>7
<1>5. CASE s # "field"
  BY <1>1, <1>2, <1>3, <1>5
<1>6. CASE s = "field" /\ b = a
  <2>1. c # a /\ at["field"][c] # Nowhere
    BY <1>1, <1>6
  <2>2. Square(to, at["field"][c]) >= (Radius[a] + size[c]) * (Radius[a] + size[c])
    BY <1>4, <1>6, <2>1
  <2>3. /\ at'["field"][b] = to /\ at'["field"][c] = at["field"][c]
        /\ size'[b] = Radius[a] /\ size'[c] = size[c]
    BY <1>1, <1>2, <1>6, <2>1
  <2> QED
    BY <2>2, <2>3
<1>7. CASE s = "field" /\ c = a
  <2>1. b # a /\ at["field"][b] # Nowhere
    BY <1>1, <1>7
  <2>2. /\ Square(at["field"][b], to) >= (Radius[a] + size[b]) * (Radius[a] + size[b])
        /\ Radius[a] + size[b] = size[b] + Radius[a]
    BY <1>4, <1>7, <2>1
  <2>3. /\ at'["field"][c] = to /\ at'["field"][b] = at["field"][b]
        /\ size'[c] = Radius[a] /\ size'[b] = size[b]
    BY <1>1, <1>2, <1>7, <2>1
  <2> QED
    BY <2>2, <2>3
<1>8. CASE s = "field" /\ b # a /\ c # a
  BY <1>1, <1>2, <1>3, <1>8
<1> QED
  BY <1>5, <1>6, <1>7, <1>8

LEMMA PlaceKeepsRoom ==
  ASSUME Standing, NobodyOverlaps, NEW s \in Spaces, NEW a \in Actors, NEW to \in Spot(s),
         MayPlace(s, a, to), Place(s, a, to)
  PROVE  NobodyOverlaps'
<1>1. \A b, c \in Actors : b # c /\ at'["arena"][b] # Nowhere => at'["arena"][b] # at'["arena"][c]
  BY KeepsCells
<1>2. \A n \in Road.nodes :
        Road.capacity[n] > 0 => Cardinality({b \in Actors : at'["road"][b] = n}) <= Road.capacity[n]
  BY KeepsNodes
<1>3. \A b, c \in Actors : b # c /\ at'["field"][b] # Nowhere /\ at'["field"][c] # Nowhere =>
        Square(at'["field"][b], at'["field"][c]) >= (size'[b] + size'[c]) * (size'[b] + size'[c])
  BY KeepsApart
<1> QED
  BY <1>1, <1>2, <1>3 DEF NobodyOverlaps, Roomy
----------------------------------------------------------------------------
(* Where the planner walks                                                  *)

LEMMA OfTwo ==
  ASSUME NEW x \in Int, NEW y \in Int
  PROVE  Min({x, y}) \in Int /\ Max({x, y}) \in Int /\ Max({x, y}) >= x
<1>1. \E m \in {x, y} : \A o \in {x, y} : m <= o
  OBVIOUS
<1>2. \E m \in {x, y} : \A o \in {x, y} : m >= o
  OBVIOUS
<1>3. Min({x, y}) \in {x, y}
  BY <1>1, Zenon DEF Min
<1>4. Max({x, y}) \in {x, y} /\ \A o \in {x, y} : Max({x, y}) >= o
  BY <1>2, Zenon DEF Max
<1> QED
  BY <1>3, <1>4

\* Among the hostile there is a nearest one, and among the nearest a weakest.
LEMMA TargetIsHostile ==
  ASSUME Standing, NEW a \in Actors, Hostile(a) # {}
  PROVE  Target(a) \in Hostile(a)
<1> DEFINE gaps == {Apart(a, b) : b \in Hostile(a)}
<1>1. Hostile(a) \subseteq Actors
  BY DEF Hostile, Observed
<1>2. \A b \in Actors : Apart(a, b) \in Nat /\ hp[b] \in Nat
  <2>1. \A b \in Actors : pos[b].xy \in Points /\ hp[b] \in Nat
    BY DEF Standing, Positions
  <2> QED
    BY <2>1, DistanceOf DEF Apart
<1>3. gaps \in SUBSET Nat /\ gaps # {}
  BY <1>1, <1>2
<1>4. PICK gap \in gaps : \A g \in gaps : gap <= g
  <2> HIDE DEF gaps
  <2> QED
    BY <1>3, LeastOf
<1> DEFINE near == {b \in Hostile(a) : Apart(a, b) = gap}
           health == {hp[b] : b \in near}
<1>5. health \in SUBSET Nat /\ health # {}
  BY <1>1, <1>2, <1>4
<1>6. PICK h \in health : \A g \in health : h <= g
  <2> HIDE DEF health
  <2> QED
    BY <1>5, LeastOf
<1>7. PICK t \in near : hp[t] = h
  BY <1>6
<1>8. ASSUME NEW o \in Hostile(a)
      PROVE  \/ Apart(a, t) < Apart(a, o)
             \/ Apart(a, t) = Apart(a, o) /\ hp[t] <= hp[o]
  <2>1. Apart(a, t) = gap /\ gap <= Apart(a, o) /\ gap \in Nat /\ Apart(a, o) \in Nat
    BY <1>1, <1>2, <1>3, <1>4, <1>7
  <2>2. CASE Apart(a, o) = gap
    <3>1. hp[t] <= hp[o]
      BY <1>6, <1>7, <2>2
    <3> QED
      BY <2>1, <2>2, <3>1
  <2>3. CASE Apart(a, o) # gap
    BY <2>1, <2>3
  <2> QED
    BY <2>2, <2>3
<1>9. t \in Hostile(a)
  BY <1>7
<1> QED
  BY <1>8, <1>9, Zenon DEF Target

LEMMA AlongIsAPoint ==
  ASSUME NEW p \in Points, NEW v \in Points, NEW length \in Int
  PROVE  Along(p, v, length).xy \in Points
<1> DEFINE d == Distance(<<0, 0>>, v)
<1>1. d \in Nat
  BY DistanceOf DEF Points
<1>2. p[1] \in Int /\ p[2] \in Int /\ v[1] \in Int /\ v[2] \in Int
  BY DEF Points
<1>3. CASE d = 0
  BY <1>3 DEF Along
<1>4. CASE d # 0
  <2>1. Along(p, v, length).xy = <<p[1] + (v[1] * length) \div d, p[2] + (v[2] * length) \div d>>
    BY <1>4 DEF Along
  <2> HIDE DEF d
  <2>2. ASSUME NEW x \in Int, NEW y \in Int PROVE x + (y * length) \div d \in Int
    <3>1. y * length \in Int
      OBVIOUS
    <3> QED
      BY <1>1, <1>4, <3>1
  <2>3. /\ p[1] + (v[1] * length) \div d \in Int
        /\ p[2] + (v[2] * length) \div d \in Int
    BY <1>2, <2>2
  <2> QED
    BY <2>1, <2>3 DEF Points
<1> QED
  BY <1>3, <1>4

LEMMA WalksToPoints ==
  ASSUME Standing, NEW a \in Actors, NEW c \in Candidates(a), Moving(c)
  PROVE  c.to.xy \in Points
<1> DEFINE t == Target(a)
           d == Apart(a, t)
<1>1. Hostile(a) # {} /\ c.to \in {Toward(a, t), Away(a, t)}
  BY ActorAssumption DEF Candidates, Moving, Plan, Target
<1>2. t \in Actors
  BY <1>1, TargetIsHostile DEF Hostile, Observed
<1> HIDE DEF t
<1>3. pos[a].xy \in Points /\ pos[t].xy \in Points
  BY <1>2 DEF Standing, Positions
<1>4. ASSUME NEW p \in Points, NEW q \in Points PROVE <<p[1] - q[1], p[2] - q[2]>> \in Points
  BY DEF Points
<1>5. Speed[a] \in Int /\ 3 * Speed[a] \in Int /\ 2 * Speed[a] \in Int
  BY ActorAssumption
<1>6. Away(a, t).xy \in Points
  BY <1>3, <1>4, <1>5, AlongIsAPoint DEF Away
<1>7. Min({d, Max({1, 2 * Speed[a]})}) \in Int
  <2>1. d \in Int
    BY <1>3, DistanceOf DEF Apart
  <2>2. Max({1, 2 * Speed[a]}) \in Int
    <3>1. PICK x \in Int : x = 2 * Speed[a]
      BY <1>5
    <3>2. Max({1, x}) \in Int
      BY OfTwo
    <3> QED
      BY <3>1, <3>2
  <2> HIDE DEF d
  <2> QED
    BY <2>1, <2>2, OfTwo
<1>8. Toward(a, t).xy \in Points
  <2> DEFINE travel == Min({d, Max({1, 2 * Speed[a]})})
             v == <<pos[t].xy[1] - pos[a].xy[1], pos[t].xy[2] - pos[a].xy[2]>>
  <2>1. Along(pos[a].xy, v, travel).xy \in Points
    BY <1>3, <1>4, <1>7, AlongIsAPoint
  <2>2. Toward(a, t) = IF travel = d THEN [xy |-> pos[t].xy, exact |-> TRUE] ELSE Along(pos[a].xy, v, travel)
    BY DEF Toward
  <2> HIDE DEF travel, v, d
  <2> QED
    BY <1>3, <2>1, <2>2
<1> QED
  BY <1>1, <1>6, <1>8
----------------------------------------------------------------------------
(* Every action keeps the copies of an actor's place equal                  *)

Placing == Standing /\ NobodyOverlaps /\ StandsWhereItOccupies

\* Where the position of one actor is replaced.
LEMMA PosReplaced ==
  ASSUME Standing, NEW a \in Actors, NEW p \in Positions, pos' = [pos EXCEPT ![a] = p]
  PROVE  pos' \in [Actors -> Positions] /\ \A b \in Actors : pos'[b] = IF b = a THEN p ELSE pos[b]
BY DEF Standing

LEMMA WalkStep ==
  ASSUME Standing, NEW a \in Actors, NEW xy \in Points, pos' = Walk(a, xy)
  PROVE  /\ pos' \in [Actors -> Positions]
         /\ \A b \in Actors : /\ pos'[b].area = pos[b].area /\ pos'[b].node = pos[b].node
                              /\ pos'[b].xy = IF b = a THEN xy ELSE pos[b].xy
         /\ \A b \in Actors \ {a} : pos'[b] = pos[b]
<1> DEFINE p == [pos[a] EXCEPT !.xy = xy]
<1>1. p \in Positions /\ p.area = pos[a].area /\ p.node = pos[a].node /\ p.xy = xy
  BY DEF Standing, Positions
<1>2. pos' = [pos EXCEPT ![a] = p]
  BY DEF Walk
<1> HIDE DEF p
<1>3. pos' \in [Actors -> Positions] /\ \A b \in Actors : pos'[b] = IF b = a THEN p ELSE pos[b]
  BY <1>1, <1>2, PosReplaced
<1> QED
  BY <1>1, <1>3

LEMMA ArriveStep ==
  ASSUME Standing, NEW a \in Actors, NEW s \in Spaces, NEW to \in Spot(s), pos' = Arrive(a, s, to)
  PROVE  /\ pos' \in [Actors -> Positions]
         /\ \A b \in Actors \ {a} : pos'[b] = pos[b]
         /\ pos'[a].area = s
         /\ to = IF s = "road" THEN pos'[a].node ELSE pos'[a].xy
<1>1. CASE s = "road"
  <2> DEFINE p == [pos[a] EXCEPT !.area = s, !.node = to]
  <2>1. to \in Road.nodes
    BY <1>1 DEF Spot
  <2>2. p \in Positions /\ p.area = s /\ p.node = to
    BY <2>1 DEF Standing, Positions
  <2>3. pos' = [pos EXCEPT ![a] = p]
    BY <1>1 DEF Arrive
  <2> HIDE DEF p
  <2>4. pos' \in [Actors -> Positions] /\ \A b \in Actors : pos'[b] = IF b = a THEN p ELSE pos[b]
    BY <2>2, <2>3, PosReplaced
  <2> QED
    BY <1>1, <2>2, <2>4
<1>2. CASE s # "road"
  <2> DEFINE p == [area |-> s, node |-> Nowhere, xy |-> to]
  <2>1. to \in Points
    BY <1>2, CellsArePoints DEF Spot, Spaces
  <2>2. p \in Positions /\ p.area = s /\ p.xy = to
    BY <2>1 DEF Positions
  <2>3. pos' = [pos EXCEPT ![a] = p]
    BY <1>2 DEF Arrive
  <2> HIDE DEF p
  <2>4. pos' \in [Actors -> Positions] /\ \A b \in Actors : pos'[b] = IF b = a THEN p ELSE pos[b]
    BY <2>2, <2>3, PosReplaced
  <2> QED
    BY <1>2, <2>2, <2>4
<1> QED
  BY <1>1, <1>2

LEMMA FreeMoveStep ==
  ASSUME Placing, NEW a \in Actors, NEW xy \in Points, FreeMove(a, xy), UNCHANGED hp
  PROVE  Placing'
<1> USE DEF Placing
<1>1. /\ pos' \in [Actors -> Positions]
      /\ \A b \in Actors : /\ pos'[b].area = pos[b].area /\ pos'[b].node = pos[b].node
                           /\ pos'[b].xy = IF b = a THEN xy ELSE pos[b].xy
  BY WalkStep DEF FreeMove
<1>2. Standing'
  BY <1>1 DEF FreeMove, Standing
<1>3. NobodyOverlaps'
  BY DEF FreeMove, NobodyOverlaps, Roomy
<1>4. StandsWhereItOccupies'
  BY <1>1 DEF FreeMove, StandsWhereItOccupies
<1> QED
  BY <1>2, <1>3, <1>4

\* After place raised the copies of this actor alone may differ.
LEMMA RefusedStep ==
  ASSUME Placing, NEW s \in Spaces, NEW a \in Actors, NEW to \in Spot(s), NEW budget,
         Validate(s, a, to, budget).ok, PlaceRaises(s, a, to), UNCHANGED hp,
         home' \in [Actors -> Spaces \cup {Nowhere}], pos' \in [Actors -> Positions],
         \A b \in Actors \ {a} : home'[b] = home[b] /\ pos'[b] = pos[b]
  PROVE  Placing'
<1> USE DEF Placing
<1>1. amiss' = amiss \cup {a}
  BY RaisesForTheLarger
<1>2. at' = at /\ size' = size
  BY DEF PlaceRaises
<1>3. Standing'
  BY <1>1, <1>2 DEF Standing
<1>4. NobodyOverlaps'
  BY <1>2 DEF NobodyOverlaps, Roomy
<1>5. ASSUME NEW b \in Actors \ amiss', home'[b] # Nowhere
      PROVE  /\ pos'[b].area = home'[b]
             /\ at'[home'[b]][b] = IF home'[b] = "road" THEN pos'[b].node ELSE pos'[b].xy
  <2>1. b \in Actors \ {a} /\ b \in Actors \ amiss
    BY <1>1
  <2>2. home'[b] = home[b] /\ pos'[b] = pos[b]
    BY <2>1
  <2>3. /\ pos[b].area = home[b]
        /\ at[home[b]][b] = IF home[b] = "road" THEN pos[b].node ELSE pos[b].xy
    BY <1>5, <2>1, <2>2 DEF StandsWhereItOccupies
  <2> QED
    BY <1>2, <2>2, <2>3
<1> QED
  BY <1>3, <1>4, <1>5 DEF StandsWhereItOccupies

\* After place succeeded they agree for this actor if area and place do.
LEMMA PlacedStep ==
  ASSUME Placing, NEW s \in Spaces, NEW a \in Actors, NEW to \in Spot(s),
         MayPlace(s, a, to), Place(s, a, to), UNCHANGED hp,
         amiss' \subseteq Actors, amiss \ {a} \subseteq amiss',
         home' \in [Actors -> Spaces \cup {Nowhere}], pos' \in [Actors -> Positions],
         home'[a] = s,
         a \notin amiss' => /\ pos'[a].area = s
                            /\ to = IF s = "road" THEN pos'[a].node ELSE pos'[a].xy,
         \A b \in Actors \ {a} : /\ home'[b] = home[b] /\ pos'[b].area = pos[b].area
                                 /\ pos'[b].node = pos[b].node /\ pos'[b].xy = pos[b].xy
  PROVE  Placing'
<1> USE DEF Placing
<1>1. at' \in Entries /\ size' \in [Actors -> Nat]
  BY PlaceTypes
<1>2. Standing'
  BY <1>1 DEF Standing
<1>3. NobodyOverlaps'
  BY PlaceKeepsRoom
<1>4. \A r \in Spaces, b \in Actors : at'[r][b] = IF r = s /\ b = a THEN to ELSE at[r][b]
  BY Replaced
<1>5. ASSUME NEW b \in Actors \ amiss', home'[b] # Nowhere
      PROVE  /\ pos'[b].area = home'[b]
             /\ at'[home'[b]][b] = IF home'[b] = "road" THEN pos'[b].node ELSE pos'[b].xy
  <2>1. CASE b = a
    BY <1>4, <1>5, <2>1
  <2>2. CASE b # a
    <3>1. b \in Actors \ amiss /\ home'[b] = home[b] /\ home[b] \in Spaces
      BY <1>5, <2>2 DEF Standing
    <3>2. /\ pos[b].area = home[b]
          /\ at[home[b]][b] = IF home[b] = "road" THEN pos[b].node ELSE pos[b].xy
      BY <1>5, <3>1 DEF StandsWhereItOccupies
    <3>3. at'[home[b]][b] = at[home[b]][b]
      BY <1>4, <2>2, <3>1
    <3> QED
      BY <2>2, <3>1, <3>2, <3>3
  <2> QED
    BY <2>1, <2>2
<1> QED
  BY <1>2, <1>3, <1>5 DEF StandsWhereItOccupies
LEMMA MoveStep ==
  ASSUME Placing, NEW a \in Actors, NEW xy \in Points, Move(a, xy), UNCHANGED hp
  PROVE  Placing'
<1> USE DEF Placing
<1>1. home[a] \in {"arena", "field"} /\ home[a] \in Spaces /\ Validate(home[a], a, xy, left[a]).ok
  BY DEF Move, MoveOk, Spaces
<1>2. xy \in Spot(home[a])
  <2>1. CASE home[a] = "arena"
    BY <1>1, <2>1, GridVerdict DEF Spot
  <2>2. CASE home[a] = "field"
    BY <2>2 DEF Spot
  <2> QED
    BY <1>1, <2>1, <2>2
<1>3. /\ pos' \in [Actors -> Positions]
      /\ \A b \in Actors : /\ pos'[b].area = pos[b].area /\ pos'[b].node = pos[b].node
                           /\ pos'[b].xy = IF b = a THEN xy ELSE pos[b].xy
      /\ \A b \in Actors \ {a} : pos'[b] = pos[b]
  BY WalkStep DEF Move
<1>4. home' = home /\ home' \in [Actors -> Spaces \cup {Nowhere}]
  BY DEF Move, Standing
<1>5. CASE MayPlace(home[a], a, xy) /\ Place(home[a], a, xy) /\ UNCHANGED amiss
  <2>1. a \notin amiss' => /\ pos'[a].area = home[a]
                           /\ xy = IF home[a] = "road" THEN pos'[a].node ELSE pos'[a].xy
    BY <1>1, <1>3, <1>5, ActorAssumption DEF StandsWhereItOccupies
  <2>2. amiss' \subseteq Actors /\ amiss \ {a} \subseteq amiss'
    BY <1>5 DEF Standing
  <2>3. home'[a] = home[a] /\ \A b \in Actors \ {a} : home'[b] = home[b]
    BY <1>4
  <2>4. PICK s \in Spaces : s = home[a]
    BY <1>1
  <2> QED
    BY <1>2, <1>3, <1>4, <1>5, <2>1, <2>2, <2>3, <2>4, PlacedStep
<1>6. CASE PlaceRaises(home[a], a, xy)
  BY <1>1, <1>2, <1>3, <1>4, <1>6, RefusedStep
<1> QED
  BY <1>5, <1>6 DEF Move

LEMMA SpatialMoveStep ==
  ASSUME Placing, NEW a \in Actors, NEW s \in Spaces, NEW to \in Spot(s), NEW budget,
         SpatialMove(a, s, to, budget), UNCHANGED hp
  PROVE  Placing'
<1> USE DEF Placing
<1>1. Validate(s, a, to, Allowance(a, budget)).ok
  BY DEF SpatialMove, SpatialOk
<1>2. /\ home' \in [Actors -> Spaces \cup {Nowhere}] /\ home'[a] = s
      /\ \A b \in Actors \ {a} : home'[b] = home[b]
  BY DEF SpatialMove, Standing
<1>3. CASE MayPlace(s, a, to) /\ Place(s, a, to) /\ pos' = Arrive(a, s, to) /\ amiss' = amiss \ {a}
  <2>1. /\ pos' \in [Actors -> Positions]
        /\ \A b \in Actors \ {a} : pos'[b] = pos[b]
        /\ pos'[a].area = s
        /\ to = IF s = "road" THEN pos'[a].node ELSE pos'[a].xy
    BY <1>3, ArriveStep
  <2>2. amiss' \subseteq Actors /\ amiss \ {a} \subseteq amiss'
    BY <1>3 DEF Standing
  <2> QED
    BY <1>2, <1>3, <2>1, <2>2, PlacedStep
<1>4. CASE PlaceRaises(s, a, to) /\ UNCHANGED pos
  <2>1. pos' \in [Actors -> Positions] /\ \A b \in Actors \ {a} : pos'[b] = pos[b]
    BY <1>4 DEF Standing
  <2> QED
    BY <1>1, <1>2, <1>4, <2>1, RefusedStep
<1> QED
  BY <1>3, <1>4 DEF SpatialMove

\* Where nothing moves: an attack, an idle turn, a stutter.
LEMMA StillStep ==
  ASSUME Placing, UNCHANGED <<at, size, home, pos, amiss>>, hp' \in [Actors -> Nat]
  PROVE  Placing'
<1> USE DEF Placing
<1>1. Standing'
  BY DEF Standing
<1>2. NobodyOverlaps'
  BY DEF NobodyOverlaps, Roomy
<1>3. StandsWhereItOccupies'
  BY DEF StandsWhereItOccupies
<1> QED
  BY <1>1, <1>2, <1>3

LEMMA AttackHurts ==
  ASSUME Standing, NEW c, NEW loss \in 0..1, hp' = [hp EXCEPT ![c.who] = Max({0, @ - loss})]
  PROVE  hp' \in [Actors -> Nat]
<1>1. ASSUME NEW x \in Nat PROVE Max({0, x - loss}) \in Nat
  <2>1. PICK y \in Int : y = x - loss
    OBVIOUS
  <2>2. Max({0, y}) \in Int /\ Max({0, y}) >= 0
    BY OfTwo
  <2> QED
    BY <2>1, <2>2
<1>2. hp \in [Actors -> Nat]
  BY DEF Standing
<1> QED
  BY <1>1, <1>2

LEMMA AiTurnStep ==
  ASSUME Placing, NEW a \in Ai, AiTurn(a)
  PROVE  Placing'
<1>0. a \in Actors /\ Standing
  BY ActorAssumption DEF Placing
<1>1. PICK c \in Best(a) : AiAttack(a, c) \/ AiMove(a, c) \/ AiIdle(a, c)
  BY DEF AiTurn
<1>2. CASE AiAttack(a, c)
  <2>1. PICK loss \in 0..1 : hp' = [hp EXCEPT ![c.who] = Max({0, @ - loss})]
    BY <1>2 DEF AiAttack
  <2>2. hp' \in [Actors -> Nat]
    BY <1>0, <2>1, AttackHurts
  <2> QED
    BY <1>2, <2>2, StillStep DEF AiAttack
<1>3. CASE AiMove(a, c)
  <2>1. c.to.xy \in Points
    BY <1>0, <1>3, WalksToPoints DEF Best, AiMove
  <2>2. PICK xy \in Points : xy = c.to.xy
    BY <2>1
  <2>3. UNCHANGED hp /\ (Move(a, xy) \/ FreeMove(a, xy))
    BY <1>3, <2>2 DEF AiMove, Stay
  <2> QED
    BY <1>0, <2>3, MoveStep, FreeMoveStep
<1>4. CASE AiIdle(a, c)
  BY <1>0, <1>4, StillStep DEF AiIdle, Standing
<1> QED
  BY <1>1, <1>2, <1>3, <1>4

LEMMA PlacingInit == TacticsInit => Placing
<1> SUFFICES ASSUME TacticsInit PROVE Placing
  OBVIOUS
<1>1. PICK s \in Starts :
        /\ home = s.home /\ at = s.at /\ size = s.size /\ amiss = {}
        /\ pos = [a \in Actors |->
              IF s.home[a] = Nowhere THEN [area |-> "wild", node |-> Nowhere, xy |-> <<0, 0>>]
              ELSE IF s.home[a] = "road" THEN [area |-> "road", node |-> s.at["road"][a], xy |-> <<0, 0>>]
              ELSE [area |-> s.home[a], node |-> Nowhere, xy |-> s.at[s.home[a]][a]]]
        /\ hp = [a \in Actors |-> MaxHp]
  BY DEF TacticsInit
<1>2. /\ home \in [Actors -> Spaces \cup {Nowhere}] /\ size \in [Actors -> Nat]
      /\ at \in Entries /\ NobodyOverlaps
      /\ \A a \in Actors : home[a] # Nowhere => at[home[a]][a] # Nowhere
  BY <1>1, StartAssumption DEF NobodyOverlaps
<1>3. ASSUME NEW a \in Actors
      PROVE  /\ pos[a] \in Positions
             /\ home[a] # Nowhere =>
                  /\ pos[a].area = home[a]
                  /\ at[home[a]][a] = IF home[a] = "road" THEN pos[a].node ELSE pos[a].xy
  <2>1. /\ at["arena"][a] \in Cells(Arena) \cup {Nowhere}
        /\ at["road"][a] \in Road.nodes \cup {Nowhere}
        /\ at["field"][a] \in Points \cup {Nowhere}
    BY <1>2 DEF Entries
  <2>2. <<0, 0>> \in Points
    BY DEF Points
  <2>3. CASE home[a] = Nowhere
    <3>1. pos[a] = [area |-> "wild", node |-> Nowhere, xy |-> <<0, 0>>]
      BY <1>1, <2>3
    <3> QED
      BY <2>2, <2>3, <3>1 DEF Positions
  <2>4. CASE home[a] = "road" /\ home[a] # Nowhere
    <3>1. pos[a] = [area |-> "road", node |-> at["road"][a], xy |-> <<0, 0>>]
      BY <1>1, <2>4
    <3> QED
      BY <2>1, <2>2, <2>4, <3>1 DEF Positions, Spaces
  <2>5. CASE home[a] # "road" /\ home[a] # Nowhere
    <3>1. pos[a] = [area |-> home[a], node |-> Nowhere, xy |-> at[home[a]][a]]
      BY <1>1, <2>5
    <3>2. home[a] \in {"arena", "field"} /\ at[home[a]][a] # Nowhere
      BY <1>2, <2>5 DEF Spaces
    <3>3. at[home[a]][a] \in Points
      BY <2>1, <3>2, CellsArePoints
    <3> QED
      BY <2>5, <3>1, <3>2, <3>3 DEF Positions, Spaces
  <2> QED
    BY <2>3, <2>4, <2>5
<1>4. hp \in [Actors -> Nat]
  BY <1>1, ActorAssumption
<1>5. pos \in [Actors -> Positions]
  BY <1>1, <1>3
<1>6. Standing
  BY <1>1, <1>2, <1>4, <1>5 DEF Standing
<1>7. StandsWhereItOccupies
  BY <1>3 DEF StandsWhereItOccupies
<1> QED
  BY <1>2, <1>6, <1>7 DEF Placing

LEMMA PlacingNext == Placing /\ [TacticsNext]_tacticsVars => Placing'
<1> SUFFICES ASSUME Placing, [TacticsNext]_tacticsVars PROVE Placing'
  OBVIOUS
<1>0. Cells(Arena) \cup Field.points \subseteq Points
  BY CellsArePoints, FieldAssumption
<1>1. ASSUME NEW a \in Actors \ Ai, NEW xy \in Cells(Arena), Ordered(a), FreeMove(a, xy) PROVE Placing'
  BY <1>0, <1>1, FreeMoveStep DEF Ordered, Stay
<1>2. ASSUME NEW a \in Actors \ Ai, NEW xy \in Cells(Arena) \cup Field.points, Ordered(a), Move(a, xy)
      PROVE  Placing'
  BY <1>0, <1>2, MoveStep DEF Ordered, Stay
<1>3. ASSUME NEW a \in Actors \ Ai, NEW s \in Spaces, NEW b \in Budgets \cup {Nowhere}, NEW to \in Spots(s),
             Ordered(a), SpatialMove(a, s, to, b)
      PROVE  Placing'
  <2>1. to \in Spot(s)
    BY FieldAssumption DEF Spots, Spot, Spaces
  <2> QED
    BY <1>3, <2>1, SpatialMoveStep DEF Ordered, Stay
<1>4. ASSUME NEW a \in Ai, AiTurn(a) PROVE Placing'
  BY <1>4, AiTurnStep
<1>5. CASE UNCHANGED tacticsVars
  BY <1>5, StillStep DEF tacticsVars, Placing, Standing
<1> QED
  BY <1>1, <1>2, <1>3, <1>4, <1>5 DEF TacticsNext

\* The spatial authority keeps its word: whatever actors, spaces, bodies and
\* starts, nobody shares a cell, a full node or another's room after any sequence
\* of orders and turns of the planner.
THEOREM NobodyCollides == TacticsSpec => []NobodyOverlaps
<1>1. Placing => NobodyOverlaps
  BY DEF Placing
<1> QED
  BY <1>1, PlacingInit, PlacingNext, PTL DEF TacticsSpec

\* The position of an actor and the entry of its space agree, and differ only
\* after place raised for a body that is larger than its entry.
THEOREM CopiesOfAPlaceAgree == TacticsSpec => []StandsWhereItOccupies
<1>1. Placing => StandsWhereItOccupies
  BY DEF Placing
<1> QED
  BY <1>1, PlacingInit, PlacingNext, PTL DEF TacticsSpec

\* Whatever the ground costs, the roads and who stands where after any sequence of
\* moves: the searches end, find a way exactly when there is one, on roads and in
\* the tactical grid a cheapest one, and on an arena one that costs no more than
\* plain ground over the cheapest ground times the cheapest.
THEOREM RoutesStayShortest == TacticsSpec => []RoutesAreShortest
<1>1. Placing => RoutesAreShortest
  <2>1. Placing => \A a \in Actors : at["road"][a] \in Road.nodes \cup {Nowhere}
    BY EntryOf DEF Placing
  <2> QED
    BY <2>1, RoutesFromEntries
<1> QED
  BY <1>1, PlacingInit, PlacingNext, PTL DEF TacticsSpec

\* What actors see, on every arena, field and start: a segment crosses a box when
\* a point of it lies inside, boxes together cover no less than each, and a view
\* through the grid is blocked and covered by the cells the straight line passes.
\* The corners of the boxes must be given in order, which nothing checks.
THEOREM SightStaysExact ==
  ASSUME BoxesAreRanges
  PROVE  TacticsSpec => []SightIsExact
<1>1. Placing => SightIsExact
  <2>1. Placing => \A a \in Actors : at["field"][a] \in Points \cup {Nowhere}
    BY EntryOf DEF Placing
  <2> QED
    BY <2>1, ViewsFromEntries
<1> QED
  BY <1>1, PlacingInit, PlacingNext, PTL DEF TacticsSpec
=============================================================================
