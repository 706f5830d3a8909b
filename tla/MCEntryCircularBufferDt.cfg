SPECIFICATION Spec
CONSTANTS
  Key = {k1, k2, k3}
  EntryState = {Reserved, Committed}
  Capacity = 3
  Null = Null
  EmptyKey = k3
  Reader = {r1}
  Empty = Empty
INVARIANTS
  TypeOK
  LookupIsLinearizable
PROPERTIES
  NoKeyCopied
  RemembersRecentInsertions
