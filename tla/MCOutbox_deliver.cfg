CONSTANTS
  m1 = m1  m2 = m2  m3 = m3  m4 = m4  d1 = d1  d2 = d2
  Message = {m1, m2, m3, m4}
  Dispatcher = {d1, d2}
  Key = {1, 2, 3}
  Id = {1, 2, 3}
  KeyOf <- MCKeyOf
  IdOf <- MCIdOf
  Age <- MCAge
  Limit = 2
  NoLock = NoLock
  MaxErrors = 2
  MaxCrashes = 1
SPECIFICATION FairSpec
INVARIANTS TypeOK ClaimsAreExclusive AttemptsCoverReceipts
PROPERTIES ImplementsDelivery EveryMessageIsDispatched
CHECK_DEADLOCK FALSE
