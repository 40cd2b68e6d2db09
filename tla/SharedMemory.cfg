SPECIFICATION MemorySpec
CONSTANTS
  Processes = {p1, p2}
  Handles = {h1, h2}
  Bytes = {1, 2}
  MaxObjects = 2
  MaxMappings = 3
SYMMETRY Symmetry
INVARIANTS
  MappedInside
  OwnedOnce
  NoZeroLengthTrap
