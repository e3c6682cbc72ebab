SPECIFICATION MCSpec
CONSTANTS
  p1 = p1
  p2 = p2
  p3 = p3
  c1 = c1
  c2 = c2
  k1 = k1
  k2 = k2
  Publishers <- MCPublishers
  Consumers <- MCConsumers
  Closers <- MCClosers
  Dir <- MCDir
  Capacity = 1
  MaxMsgs = 1
CHECK_DEADLOCK FALSE
INVARIANTS
  TypeOK
  StrandedOnlyIfRacing
PROPERTIES
  BothDirectionsHandOff
  NobodyHangsAfterClose
