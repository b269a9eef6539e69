SPECIFICATION FairCreation

CONSTANTS
  None = None
  Trips = {1, 2}
  KeyLife = 1
  MaxWindow = 2
  Grace = 1
  TombstoneLife = 2
  Limits <- Pressed

CHECK_DEADLOCK FALSE

INVARIANTS
  CreationTypeOK
  ShownTripHasKey

PROPERTIES
  OneOutcome
  DiscardOnlyWhenDecided
  UnknownSettles
