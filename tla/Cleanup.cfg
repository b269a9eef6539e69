SPECIFICATION FairSpec
CONSTANTS
  a1 = a1
  w1 = w1
  w2 = w2
  t1 = t1
  t2 = t2
  t3 = t3
  t4 = t4
  none = none
  Assets = {a1}
  Workers = {w1, w2}
  Tokens = {t1, t2, t3, t4}
  NoToken = none
  MaxFaults = 2
CHECK_DEADLOCK FALSE
INVARIANTS
  TypeOK
  RetiredForGood
  NeverRetiredEarly
PROPERTIES
  ImplementsRetention
  EverythingRetired
