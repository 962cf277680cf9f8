CONSTANTS
  p1 = p1  p2 = p2  r1 = r1  r2 = r2  t1 = t1  t2 = t2  a = a  b = b
  Proc = {p1, p2}
  Path = {a, b}
  Request = {r1, r2}
  Task = {t1, t2}
  ReqOf <- DistinctReqOf
  TaskOf <- MCTaskOf
  Targets <- MCTargets
  Creates <- MCCreates
  NoTask = NoTask
  NoRequest = NoRequest
  NotLoaded = NotLoaded
  MaxEdits = 0
  MaxFaults = 1
  MaxCrashes = 1
SPECIFICATION RetrySpec
INVARIANT VerifiedIsApplied
PROPERTIES ImplementsAtomicApply WriterIsReleased ResumableWithoutOrphan
