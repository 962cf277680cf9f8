SPECIFICATION Spec
CONSTANTS
  Run = {r1}
  Correlation = {c1}
  Result = {pass, fail}
  Passing = {pass}
  Review = {review}
  Decision = {"ACCEPTED", "REJECTED"}
  Thread = {t1, t2}
  Key = {k1}
  Nothing = Nothing
  MaxRequests = 5
  MaxCalls = 5
  MaxRestarts = 1
SYMMETRY ThreadSymmetry
CHECK_DEADLOCK FALSE
PROPERTIES
  RepeatReturnsPersistedTask
