SPECIFICATION Spec
CONSTANTS
  Request = {r1, r2}
  i1 = i1
  Id = {i1}
  IdOf <- SameId
  Server = {s1}
  NoRequest = NoRequest
  MaxFaults = 0
INVARIANTS
  OneClientPerId
