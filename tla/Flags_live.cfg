SPECIFICATION LiveSpec
CONSTANTS
  c1 = c1
  c2 = c2
  g1 = g1
  g2 = g2
  g3 = g3
  Instance = {c1}
  Game = {g1}
  None = None
  InstanceOf <- HomeOf
  MaxGames = 1
  MaxBoots = 2
  MaxFaults = 2
CHECK_DEADLOCK FALSE
INVARIANTS LifecycleInv
PROPERTIES Converges StartNotBlocked
