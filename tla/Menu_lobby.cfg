SPECIFICATION FairSpec
CONSTANTS
  Task = {t1, t2}
  Reset = {r1}
  MaxEntries = 1
  None = None
CHECK_DEADLOCK FALSE
INVARIANTS MenuInv LobbyWhole LastWordKept
PROPERTIES ResetRecovers StartSettles
