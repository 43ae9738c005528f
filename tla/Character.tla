------------------------------ MODULE Character ------------------------------
(***************************************************************************)
(* The lifecycle of a character (characters/lifecycle.py) as the commands  *)
(* of AdvancedGameEngine drive it: levels in several classes, the class    *)
(* resources those levels synchronise, rests, and equipment in slots with  *)
(* attunement over an inventory that shops and item use change.  Hit       *)
(* points are ZeroHp's; features and ability points only ever grow.  A     *)
(* refused call raises before anything is stored.  A resource no class     *)
(* has brought yet reads as none of none.                                  *)
(***************************************************************************)
EXTENDS Integers, FiniteSets, Functions

CONSTANTS
  Class,        \* registered class definitions
  ClassLimit,   \* [Class -> Nat]: their max_level
  MaxLevel,     \* advancement_track.max_level
  Threshold,    \* advancement_track.thresholds
  Mode,         \* AdvancementModes in use: "xp", "milestone"
  Resource,
  Base, PerTwoLevels,   \* ClassResourceDefinition: base_max, 2 * per_level
  Offers,       \* [Class -> SUBSET Resource]: whose resource definitions
  Bonus,        \* [Class -> [Level -> [Resource -> Nat]]]: resource_max_bonus
  Rest,         \* rest profiles
  Halves,       \* [Rest -> [Resource -> 0..2]]: restored halves of the maximum
  Item, Slot,
  Slots,        \* [Item -> SUBSET Slot]: EquipmentDefinition.slots
  Attunable,    \* items with requires_attunement
  MaxAttuned,
  Empty,        \* nothing in a slot
  MaxXp         \* bound: experience awarded

Level == 1..MaxLevel

ASSUME TrackAssumption ==
  /\ MaxLevel \in Nat \ {0} /\ MaxXp \in Nat /\ Mode \subseteq {"xp", "milestone"}
  /\ Threshold \in [Level -> Nat]
  /\ ClassLimit \in [Class -> Level]
ASSUME ResourceAssumption ==
  /\ Base \in [Class -> [Resource -> Nat]] /\ PerTwoLevels \in [Class -> [Resource -> Nat]]
  /\ Offers \in [Class -> SUBSET Resource]
  /\ Bonus \in [Class -> [Level -> [Resource -> Nat]]]
  /\ Halves \in [Rest -> [Resource -> 0..2]]
ASSUME EquipmentAssumption ==
  /\ Slots \in [Item -> SUBSET Slot] /\ \A i \in Item : Slots[i] # {}
  /\ Attunable \subseteq Item /\ MaxAttuned \in Nat /\ Empty \notin Item
ASSUME FiniteAssumption == IsFiniteSet(Item)

VARIABLES
  mode,             \* advancement_track.mode
  levels,           \* progress.classes
  xp, marked,       \* progress.xp; milestone_ready
  maximum, current, \* character_resources
  slots, attuned,   \* equipment
  owned             \* items the inventory holds at least one of

advancement == <<mode, levels, xp, marked>>
resources == <<maximum, current>>
equipment == <<slots, attuned>>
vars == <<mode, levels, xp, marked, maximum, current, slots, attuned, owned>>

----------------------------------------------------------------------------
(* Class resources *)

\* maximum_for_level: base_max + floor(per_level * (level - 1)).
MaximumFor(c, r, level) == Base[c][r] + (PerTwoLevels[c][r] * (level - 1)) \div 2

\* The classes held that define r.
Bringers(r, held) == {c \in Class : held[c] > 0 /\ r \in Offers[c]}

\* _synchronize_class_resources walks the classes and raises the maximum to each
\* definition's; the current value rises with it.
Synchronized(r, held, old) ==
  LET wanted == {old} \cup {MaximumFor(c, r, held[c]) : c \in Bringers(r, held)}
  IN  CHOOSE m \in wanted : \A n \in wanted : n <= m

\* level_up adds the new level's bonus to what is tracked.
Raised(c, r, held) ==
  Synchronized(r, held, maximum[r])
  + IF Bringers(r, held) # {} THEN Bonus[c][held[c]][r] ELSE 0

\* restore_fraction: the fraction of the maximum, rounded up.  The slip adds it to
\* what is left without looking at the maximum.
RestoredFull(r, halves) == current[r] + (maximum[r] * halves + 1) \div 2
Restored(r, halves) ==
  LET target == current[r] + (maximum[r] * halves + 1) \div 2
  IN  IF target < maximum[r] THEN target ELSE maximum[r]

----------------------------------------------------------------------------
\* build_character at level one without starting equipment; a higher level and
\* worn equipment are LevelUp and Equip.
Init ==
  \E first \in Class :
    /\ mode \in Mode
    /\ levels = [c \in Class |-> IF c = first THEN 1 ELSE 0]
    /\ xp = 0 /\ marked = FALSE
    /\ maximum = [r \in Resource |-> IF r \in Offers[first] THEN Base[first][r] ELSE 0]
    /\ current = maximum
    /\ slots = [s \in Slot |-> Empty] /\ attuned = {}
    /\ owned \in SUBSET Item

----------------------------------------------------------------------------
(* Advancement *)

AwardXp ==
  /\ xp < MaxXp /\ xp' = xp + 1
  /\ UNCHANGED <<mode, levels, marked, resources, equipment, owned>>

MarkMilestone(ready) ==
  /\ marked' = ready
  /\ UNCHANGED <<mode, levels, xp, resources, equipment, owned>>

TotalLevel == FoldFunction(+, 0, levels)

\* eligible_for_level.
Eligible ==
  /\ TotalLevel < MaxLevel
  /\ IF mode = "milestone" THEN marked ELSE xp >= Threshold[TotalLevel + 1]

\* Slip: the current values are left alone.
LevelUpUnfilled(c) ==
  LET held == [levels EXCEPT ![c] = @ + 1] IN
  /\ levels[c] < ClassLimit[c] /\ Eligible
  /\ levels' = held
  /\ marked' = (marked /\ mode # "milestone")
  /\ maximum' = [r \in Resource |-> Raised(c, r, held)]
  /\ UNCHANGED <<mode, xp, current, equipment, owned>>

LevelUp(c) ==
  LET held == [levels EXCEPT ![c] = @ + 1] IN
  /\ levels[c] < ClassLimit[c] /\ Eligible
  /\ levels' = held
  /\ marked' = (marked /\ mode # "milestone")
  /\ maximum' = [r \in Resource |-> Raised(c, r, held)]
  /\ current' = [r \in Resource |-> current[r] + (Raised(c, r, held) - maximum[r])]
  /\ UNCHANGED <<mode, xp, equipment, owned>>

TakeRest(p) ==
  /\ current' = [r \in Resource |-> Restored(r, Halves[p][r])]
  /\ UNCHANGED <<advancement, maximum, equipment, owned>>

SpendResource(r, amount) ==
  /\ amount <= current[r]
  /\ current' = [current EXCEPT ![r] = @ - amount]
  /\ UNCHANGED <<advancement, maximum, equipment, owned>>

RestoreResource(r, amount) ==
  /\ current' = [current EXCEPT ![r] =
                   IF @ + amount < maximum[r] THEN @ + amount ELSE maximum[r]]
  /\ UNCHANGED <<advancement, maximum, equipment, owned>>

----------------------------------------------------------------------------
(* Equipment *)

Worn == {slots[s] : s \in Slot} \ {Empty}

\* _remove_equipment_item for each displaced item: it leaves every slot it is in
\* and its attunement.  Slips: it stays in its other slots, or stays attuned.
VacatedHere(s, displaced) == slots[s]
Vacated(s, displaced) == IF slots[s] \in displaced THEN Empty ELSE slots[s]

Displaced(i) == {slots[s] : s \in Slots[i]} \ {Empty, i}
MayAttune(i, kept) == i \in kept \/ Cardinality(kept) < MaxAttuned

Unattuned(displaced) == attuned \ displaced

Equip(i) ==
  LET kept == Unattuned(Displaced(i)) IN
  /\ i \in owned
  /\ i \in Attunable => MayAttune(i, kept)
  /\ slots' = [s \in Slot |-> IF s \in Slots[i] THEN i ELSE Vacated(s, Displaced(i))]
  /\ attuned' = IF i \in Attunable THEN kept \cup {i} ELSE kept
  /\ UNCHANGED <<advancement, resources, owned>>

Unequip(i) ==
  /\ i \in Worn
  /\ slots' = [s \in Slot |-> Vacated(s, {i})]
  /\ attuned' = Unattuned({i})
  /\ UNCHANGED <<advancement, resources, owned>>

----------------------------------------------------------------------------
(* The inventory: a purchase, and a sale or a use, which do not ask what is worn *)

Gain(i) == owned' = owned \cup {i} /\ UNCHANGED <<advancement, resources, equipment>>

LoseLast(i) == i \in owned /\ owned' = owned \ {i} /\ UNCHANGED <<advancement, resources, equipment>>

----------------------------------------------------------------------------
Next ==
  \/ AwardXp
  \/ \E ready \in BOOLEAN : MarkMilestone(ready)
  \/ \E c \in Class : LevelUp(c)
  \/ \E p \in Rest : TakeRest(p)
  \/ \E r \in Resource, amount \in {1, 2} : SpendResource(r, amount) \/ RestoreResource(r, amount)
  \/ \E i \in Item : Equip(i) \/ Unequip(i) \/ Gain(i) \/ LoseLast(i)

Spec == Init /\ [][Next]_vars
----------------------------------------------------------------------------
TypeOK ==
  /\ mode \in Mode /\ xp \in Nat /\ marked \in BOOLEAN
  /\ levels \in [Class -> Nat] /\ \A c \in Class : levels[c] <= ClassLimit[c]
  /\ maximum \in [Resource -> Nat] /\ current \in [Resource -> Nat]
  /\ slots \in [Slot -> Item \cup {Empty}]
  /\ attuned \subseteq Item /\ owned \subseteq Item

\* A resource never holds more than its maximum, and the maximum never allows
\* less than any class of the character defines at its level, in whatever order
\* levels, bonuses and classes that share a resource came.
ResourcesCovered ==
  \A r \in Resource :
    /\ current[r] <= maximum[r]
    /\ \A c \in Bringers(r, levels) : MaximumFor(c, r, levels[c]) <= maximum[r]

\* A new level neither refills what was spent nor takes anything away: what is
\* missing of a resource is the same before and after.
SpentStaysSpent ==
  [][levels' # levels =>
       \A r \in Resource : maximum'[r] - current'[r] = maximum[r] - current[r]]_vars

\* An item is worn in all of its slots or in none, whatever displaced what.
WornWhole ==
  \A i \in Worn : {s \in Slot : slots[s] = i} = Slots[i]

\* Attunement is held by worn items only, and by no more than the limit.
AttunedIsWorn == attuned \subseteq Worn /\ Cardinality(attuned) <= MaxAttuned
=============================================================================
