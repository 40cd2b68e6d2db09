CONSTANTS
  LimitsSet <- MCLimits
  Inputs <- MCInputs
  Infinity <- MCInfinity
  MaxTime = 3
  MaxStep = 1
SPECIFICATION FairSpec
INVARIANTS
  EnergisedWithinLimits
PROPERTIES
  AcknowledgeNeverEnergises
  MotionKeptInBand
  StopEnds
