SPECIFICATION SyncSpec
CONSTANTS
  host = host
  guest = guest
  a1 = a1
  a2 = a2
  Members = {host, guest}
  Owner = host
  Shooter <- ByGuest
  Assets = {a1, a2}
  Leavers = {guest}
  EndsAt = 2
  HardDeleteAt = 5
  UploadTtl = 1
  ClockAhead = 1
  MaxPhotos = 1
  MaxPauses = 0
  JoinUntil = 0
  MaxTime = 2
  Batch = 1
  MaxFaults = 1
  Mixed = FALSE
VIEW Observed
CHECK_DEADLOCK FALSE
INVARIANTS
  SyncTypeOK
  NoPhotoLeftBehind
  CompleteMeansDelivered
