SPECIFICATION FairSync
CONSTANTS
  host = host
  guest = guest
  a1 = a1
  a2 = a2
  Members = {host, guest}
  Owner = host
  Shooter <- ByBoth
  Assets = {a1}
  Leavers = {}
  EndsAt = 2
  HardDeleteAt = 5
  UploadTtl = 4
  ClockAhead = 1
  MaxPhotos = 5
  MaxPauses = 1
  JoinUntil = 0
  MaxTime = 2
  Batch = 1
  MaxFaults = 2
  Mixed = FALSE
CHECK_DEADLOCK FALSE
PROPERTIES
  EndSettles
INVARIANTS
  PoliciesAgree
  IgnoredForGood
