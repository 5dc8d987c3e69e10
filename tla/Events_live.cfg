SPECIFICATION FairSpec
CONSTANTS
  Game = {g1}
  None = None
  EventListLen = 1
  MaxEvents = 1
  MaxFlips = 1
  MaxBoots = 2
  MaxStrays = 0
CHECK_DEADLOCK FALSE
PROPERTIES
  EventuallyHandled
