SPECIFICATION FairSpec
CONSTANTS
  Delivery = {d1, d2}
  k1 = k1
  Key = {k1}
  KeyOf <- SameKey
  Node = {n1, n2}
  NoNode = NoNode
  MaxFaults = 2
INVARIANTS
  TypeOK
  EffectOnce
  NoLostMessage
  AllOrNothing
PROPERTIES
  CommittedIsFinal
  EventuallyProcessed
CHECK_DEADLOCK FALSE
