SPECIFICATION FairSpec
CONSTANTS
  Real = {r1}
  Shadow = {s1}
  None = None
  MaxShadowGames = 1
  MaxConcurrentGames = 2
  ShadowPolicy = "block"
CHECK_DEADLOCK FALSE
PROPERTIES
  RealStartAnswered
  StartedGameReported
