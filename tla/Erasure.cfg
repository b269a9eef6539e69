SPECIFICATION FairSpec
CONSTANTS
  i1 = i1
  t1 = t1
  o1 = o1
  o2 = o2
  w1 = w1
  w2 = w2
  None = None
  Installs = {i1}
  PushTokens = {t1}
  Requests = 2
  Objects = {o1, o2}
  Workers = {w1, w2}
  Batch = 1
  MaxFaults = 1
CHECK_DEADLOCK FALSE
INVARIANTS
  AccountTypeOK
  DeletedCannotAct
  NothingLeftBehind
  TokensOpen
PROPERTIES
  EventuallyErased
