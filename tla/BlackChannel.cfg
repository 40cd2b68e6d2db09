SPECIFICATION Spec
CONSTANTS
  Modulus = 16
  Starts <- MCStarts
  Watchdog = 1
  MaxLag = 3
  MaxTime = 4
  MaxAcks = 1
INVARIANTS
  SilenceIsBounded
PROPERTIES
  DeliveredInOrder
  SequenceVerdictIsTrue
