SPECIFICATION Spec
CONSTANTS
  gm = gm
  player = player
  pc = pc
  local = local
  Client = {gm, player}
  UserOf <- Users
  Wants <- Asked
  Creator = gm
  Local = local
  Actor = {pc}
  Viewer = {player}
  Roamer = {player}
  Limit = 1
  QueueSize = 1
  MaxEngines = 2
  MaxEvents = 3
  MaxTickets = 2
  MaxCalls = 2
  MaxRequests = 4
INVARIANTS OneEngine NobodyElsesActor NothingSkipped SpentStaysSpent
PROPERTIES ShowsEverything
CHECK_DEADLOCK FALSE
