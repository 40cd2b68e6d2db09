SPECIFICATION ProbeSpec
CONSTANTS
  SeqModulus = 4
  FirstSequence = 3
  MaxTransitions = 2
  MaxRestarts = 1
  MaxCollisions = 1
  QueueSize = 1
INVARIANTS
  ProbeAccounts
  GoodWasPublished
  MeasuredOnce
  ServedAsAsked
PROPERTIES
  TransitionsReachClient
CHECK_DEADLOCK FALSE
