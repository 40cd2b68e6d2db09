SPECIFICATION FairServer
CONSTANTS
  Clients = {c1, c2}
  NoClient = NoClient
  MaxRequest = 2
  Chunk = 2
  Backlog = 2
  MaxStarts = 2
  MaxFaults = 1
INVARIANTS
  SocketOutlivesThread
  FaultIsNotDenied
CHECK_DEADLOCK FALSE
PROPERTIES
  EveryClientIsServed
  StopReturns
