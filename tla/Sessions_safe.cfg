SPECIFICATION Spec
CONSTANTS
  Real = {r1, r2}
  Shadow = {s1, s2}
  None = None
  MaxShadowGames = 2
  MaxConcurrentGames = 2
  ShadowPolicy = "block"
SYMMETRY Symm
CONSTRAINT ThreeStarts
CHECK_DEADLOCK FALSE
INVARIANTS
  SessionInv
  OneRealGame
  NoShadowBesideReal
