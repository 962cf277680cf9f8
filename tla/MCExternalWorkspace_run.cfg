SPECIFICATION RetrySpec
CONSTANTS
  Run = {r1}
  Path = {a, b}
  Scope = {a}
  Version = {1, 2}
  NoTask = NoTask
  Other = Other
  Base = Base
  Foreign = Foreign
  NoHead = NoHead
  MaxCommits = 2
  MaxFaults = 1
  MaxCrashes = 1
  MaxEdits = 1
  MaxPushes = 1
  MaxMishaps = 2
INVARIANTS
  TypeOK
  HeadsArePublished
PROPERTIES
  OneResult
  CommitIsValidated
  CommitIsRecorded
CHECK_DEADLOCK FALSE
