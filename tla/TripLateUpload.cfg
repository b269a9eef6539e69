SPECIFICATION Spec
CONSTANTS
  h = h
  g1 = g1
  g2 = g2
  p1 = p1
  p2 = p2
  Members = {h, g1}
  Owner = h
  Assets = {p1}
  EndsAt = 2
  HardDeleteAt = 3
  UploadTtl = 1
  ClockAhead = 1
  MaxPhotos = 2
  MaxPauses = 0
  JoinUntil = 1
  MaxTime = 3
CHECK_DEADLOCK FALSE
INVARIANTS
  UploadsCanFinish
