SPECIFICATION RoomSpec

CONSTANTS
  host = host
  guest = guest
  friend = friend
  h1 = h1
  h2 = h2
  g1 = g1
  g2 = g2
  f1 = f1
  a1 = a1
  None = None
  Users = {host, guest}
  Host = host
  Phones = {h1, h2, g1, g2}
  UserOf <- Accounts
  First = h1
  Assets = {a1}
  MaxMembers = 2
  MaxUses = 1
  Limits <- Passing

VIEW Observed

CHECK_DEADLOCK FALSE

INVARIANTS
  RoomTypeOK
  EnvelopesFollowApproval
  ReadinessAgrees
  ReplacementIsOwedEverything

PROPERTIES
  StartedAsSeen
