SPECIFICATION FairRing
CONSTANTS
  Capacity = 4
  PosModulus = 8
  MaxPushes = 11
INVARIANTS
  NoSlotRace
PROPERTIES
  ImplementsQueue
  FalseIsGenuine
  EverythingIsPopped
