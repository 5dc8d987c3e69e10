SPECIFICATION FairSpec
CONSTANTS
  a = a
  b = b
  c = c
  Player = {a, b, c}
  Modes = {"sides", "wolves", "swap", "zombie", "nonstop"}
  Deals <- MCDeals
  None = None
  Undecided = Undecided
  Nobody = Nobody
  TimeLimit = TimeLimit
  MaxReconnects = 1
  MaxDrops <- MCDrops
  MaxDeaths = 1
  Early = {a}
CHECK_DEADLOCK FALSE
INVARIANTS RulesInv VerdictHonoured DeathTold DownZombieDue
PROPERTIES KeepsPromise
