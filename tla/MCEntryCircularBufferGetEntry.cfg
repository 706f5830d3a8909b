SPECIFICATION Spec
CONSTANTS
  Key = {k1, k2}
  EntryState = {Reserved, Committed}
  Capacity = 2
  Null = Null
  EmptyKey = k2
  Reader = {r1}
  Empty = Empty
INVARIANT
  GetEntryAnswersItsKey
