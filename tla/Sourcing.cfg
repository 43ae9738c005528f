SPECIFICATION Spec
CONSTANTS
  c1 = c1
  c2 = c2
  i1 = i1
  i2 = i2
  i3 = i3
  Command = {c1, c2}
  Delivery = {i1, i2, i3}
  CommandOf <- Deliveries
  World = World
  Nobody = Nobody
  MaxSequence = 3
  MaxLife = 3
SYMMETRY Duplicates
INVARIANTS LedgerTruthful AnsweredIsDurable LogTellsHistory
CHECK_DEADLOCK FALSE
