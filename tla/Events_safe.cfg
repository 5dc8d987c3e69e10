SPECIFICATION Spec
CONSTANTS
  Game = {g1, g2}
  None = None
  EventListLen = 2
  MaxEvents = 3
  MaxFlips = 1
  MaxBoots = 2
  MaxStrays = 1
SYMMETRY Symm
CONSTRAINT Small
CHECK_DEADLOCK FALSE
INVARIANTS
  RecordTrue
  KillSwitchHeld
  NothingSkipped
PROPERTIES
  InOrder
