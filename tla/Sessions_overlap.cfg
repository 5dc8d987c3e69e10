SPECIFICATION Spec
CONSTANTS
  Real = {r1, r2, r3}
  Shadow = {}
  None = None
  MaxShadowGames = 1
  MaxConcurrentGames = 2
  ShadowPolicy = "block"
CHECK_DEADLOCK FALSE
SYMMETRY Symm
INVARIANTS
  OneRealGameEver
