SPECIFICATION PhoneSpec

CONSTANTS
  a1 = a1
  a2 = a2
  NoOne = NoOne
  Accounts <- MCAccounts
  MaxEvents = 3

SYMMETRY Symmetric
CHECK_DEADLOCK FALSE

INVARIANTS
  PhoneTypeOK
  OnlyTheSignedIn
  ErasedIsGone
