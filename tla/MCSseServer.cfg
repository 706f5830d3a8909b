SPECIFICATION FairSpec
CONSTANTS
  Request = {r1, r2}
  i1 = i1
  Id = {i1}
  IdOf <- SameId
  Server = {s1, s2}
  NoRequest = NoRequest
  MaxFaults = 1
INVARIANTS
  TypeOK
  DoneIsForgotten
  ConnectedIsReachable
PROPERTIES
  GoneIsReleased
  IdIsFreed
  ExpiredIsClosed
