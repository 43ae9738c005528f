SPECIFICATION FairSpec
CONSTANTS
  h1 = h1
  h2 = h2
  g = g
  Human <- Humans
  Ai <- Ais
  Nobody = Nobody
  Mode = {"turn_based", "hybrid", "real_time"}
  Window = {2}
  Roster <- PairRosters
  HumanTime = {0, 1}
  AiTime = {1}
  TickDelta = {1}
  MaxSeq = 6
  MaxTime = 3
 
PROPERTIES TurnKept 
CHECK_DEADLOCK FALSE
