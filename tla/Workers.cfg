SPECIFICATION FairSpec
CONSTANTS
  w1 = w1
  w2 = w2
  c1 = c1
  c2 = c2
  Worker = {w1, w2}
  Campaign = {c1, c2}
  Score <- Scores
  Capacity = 1
  TTL = 3
  MaxAge = 3
  Cycle = 1
  Nobody = Nobody
  MaxFaults = 5
INVARIANT OneSimulator
PROPERTY PlacementSettles
