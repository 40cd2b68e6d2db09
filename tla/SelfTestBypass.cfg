CONSTANTS
  LimitsSet <- MCLimits
  Inputs <- MCInputs
  Infinity <- MCInfinity
  MaxTime = 3
  MaxStep = 1
SPECIFICATION ChannelSpec
INVARIANT TorqueOnlyAfterSelfTest
