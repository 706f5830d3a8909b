SPECIFICATION FairSpec
CONSTANTS
  Message = {m1}
  Input <- Requests
  Ttl = 2
  West = 1
  Attempts = 3
  MaxReadFaults = 2
  MaxCrashes = 2
INVARIANTS
  RequiredValuesAreSent
