CONSTANTS
  t1 = t1  t2 = t2  w1 = w1  w2 = w2  repo = repo
  Task = {t1, t2}
  Worker = {w1, w2}
  Repo = {repo}
  RepoOf <- MCRepoOf
  Writes = {t1}
  Relay = {}
  Proof = {t1}
  Capacity = 2
  NoTask = NoTask
  Other = Other
  MaxCommands <- OnceEach
  MaxCrashes = 0
SPECIFICATION FairSpec
PROPERTIES QueuedIsServed RowIsReleased StopReturns
CHECK_DEADLOCK FALSE
