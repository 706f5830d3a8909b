SPECIFICATION Spec
CONSTANTS
  Key = {k1, k2}
  EntryState = {Reserved}
  Capacity = 2
  Null = Null
  EmptyKey = k2
  Thread = {t1, t2}
  BufferId = {b1, b2, b3}
  NoBuffer = NoBuffer
SYMMETRY Symmetry
VIEW InUse
INVARIANTS
  TypeOK
  ErasedStaysErased
PROPERTIES
  IsLossyMemory
