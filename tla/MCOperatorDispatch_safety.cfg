CONSTANTS
  t1 = t1  t2 = t2  w1 = w1  w2 = w2  repo = repo
  Task = {t1, t2}
  Worker = {w1, w2}
  Repo = {repo}
  RepoOf <- MCRepoOf
  Writes = {t2}
  Relay = {t1}
  Proof = {t1}
  Capacity = 1
  NoTask = NoTask
  Other = Other
  MaxCommands <- TwiceT1
  MaxCrashes = 1
SPECIFICATION Spec
INVARIANTS TypeOK OneExecution WriteHoldsRow NoAutomaticDuplicate QueuedIsWaiting RunningIsAttended
PROPERTY GatewayIsWanted
CHECK_DEADLOCK FALSE
