SPECIFICATION Spec
CONSTANTS
  Delivery = {d1, d2}
  k1 = k1
  Key = {k1}
  KeyOf <- SameKey
  Node = {n1, n2}
  NoNode = NoNode
  MaxFaults = 0
INVARIANT
  SecondIsIgnored
CHECK_DEADLOCK FALSE
