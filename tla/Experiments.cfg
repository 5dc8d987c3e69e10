SPECIFICATION FairSpec
CONSTANTS
  e1 = e1
  e2 = e2
  NoOne = NoOne
  Experiment = {e1, e2}
  FlagOf <- OneFlag
  Budget <- Few
CHECK_DEADLOCK FALSE
INVARIANTS
  ExperimentsInv
  BranchOwned
  PromotedOnce
  StopClean
PROPERTIES
  OffSettles
