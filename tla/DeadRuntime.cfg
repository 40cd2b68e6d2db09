SPECIFICATION FairSpec
CONSTANTS
  SeqModulus = 8
  FirstSequence = 6
  MaxTransitions = 4
  MaxRestarts = 1
  MaxCollisions = 2
PROPERTY DeadRuntimeNotServed
CHECK_DEADLOCK FALSE
