SPECIFICATION FairSpec
CONSTANTS
  a = a
  b = b
  s = s
  Node = {a, b, s}
  Link <- Star
  Setups <- StarSetups
INVARIANTS
  TypeOK
  ChainsAreValid
  BlocksNameTheirPast
  CaughtUpAtRest
PROPERTIES
  ShrinksOnlyByRace
  PendingLostOnlyByRace
  ServersCatchUp
CHECK_DEADLOCK FALSE
