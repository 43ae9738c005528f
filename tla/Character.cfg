SPECIFICATION Spec
CONSTANTS
  fighter = fighter
  cleric = cleric
  focus = focus
  rage = rage
  short = short
  long = long
  staff = staff
  sword = sword
  shield = shield
  ring = ring
  left = left
  right = right
  finger = finger
  Class = {fighter, cleric}
  ClassLimit <- Limits
  MaxLevel = 3
  Threshold <- Thresholds
  Mode = {"xp", "milestone"}
  Resource = {focus, rage}
  Base <- Bases
  PerTwoLevels <- Growth
  Offers <- Offered
  Bonus <- Bonuses
  Rest = {short, long}
  Halves <- Recovery
  Item = {staff, sword, shield, ring}
  Slot = {left, right, finger}
  Slots <- Claims
  Attunable = {staff, shield, ring}
  MaxAttuned = 1
  Empty = Empty
  MaxXp = 2
INVARIANTS ResourcesCovered WornWhole
PROPERTY SpentStaysSpent
