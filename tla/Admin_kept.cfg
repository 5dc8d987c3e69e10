SPECIFICATION SettingsSpec
CONSTANTS
  teams = teams
  speed = speed
  allowed = allowed
  low = low
  high = high
  Flag = {teams, speed, allowed}
  Value = {low, high}
  KillSwitch = {allowed}
  Builds <- MCBuilds
  NoValue = NoValue
  Absent = Absent
  Damaged = Damaged
  Newer = Newer
  Unknown = Unknown
  Claimed = Claimed
INVARIANTS MemoryMatchesFile MarkedOnFile AnswersKept
