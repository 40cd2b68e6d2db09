CONSTANTS
  LimitsSet <- MCLimitsSet
  Inputs <- MCInputs
  Infinity <- MCInfinity
  Limits <- MCLimitsRecord
  Tolerance = 1
  MaxTime = 4
  MaxStep = 1
SPECIFICATION Spec
INVARIANTS
  PermittedByBoth
  LatchHoldsMachineOff
  NoTorqueBeyondTolerance
PROPERTIES
  ReleaseNeedsBoth
