SPECIFICATION Spec
CONSTANTS
  s1 = s1
  s2 = s2
  s3 = s3
  Controller = {s1, s2}
  None = None
  SentinelCount = 1
SYMMETRY Symm
CHECK_DEADLOCK FALSE
INVARIANTS LobbyInv LampTrue IdleWakes
PROPERTIES HoldHonest
