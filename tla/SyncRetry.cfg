SPECIFICATION SyncSpec
CONSTANTS
  host = host
  guest = guest
  a1 = a1
  a2 = a2
  Members = {host, guest}
  Owner = host
  Shooter <- ByBoth
  Assets = {a1}
  Leavers = {}
  EndsAt = 4
  HardDeleteAt = 5
  UploadTtl = 1
  ClockAhead = 1
  MaxPhotos = 5
  MaxPauses = 0
  JoinUntil = 0
  MaxTime = 4
  Batch = 1
  MaxFaults = 1
  Mixed = FALSE
VIEW Observed
CHECK_DEADLOCK FALSE
INVARIANTS
  CommitRetrySafe
