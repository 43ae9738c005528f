SPECIFICATION Spec
CONSTANTS
  inn = inn
  ambush = ambush
  town = town
  road = road
  player = player
  gm = gm
  None = None
  r1 = r1
  r2 = r2
  Slot = {r1, r2}
  Scene = {inn, ambush}
  MapOf <- MCMapOf
  Encounter = {ambush}
  Worlds <- MCWorlds
  Pressures = {85}
  HistoryCap = 2
  Lore <- MCLore
  Budgets <- MCBudgets
  MaxCrashes = 1
  Entity = {1, 2, 3}
  Actor = {1, 2}
  Viewer = {player, gm}
  ActorsOf <- MCActorsOf
  Condition = {0, 1}
  Fact = {0}
  MaxTime = 1
INVARIANTS AnsweredIsKept RelaxesOnlyWhenDue HiddenStaysHidden CopiesAreFrames
PROPERTIES ExclusiveActsAlone
SYMMETRY Symmetric
CHECK_DEADLOCK FALSE
