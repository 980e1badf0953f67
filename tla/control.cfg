\* Three clients at a server of two connections: one that advances the epoch or stops the
\* server, one that works or asks, one that only connects; with damaged requests
\* and a shutdown of the coordinator while it is served.
SPECIFICATION FairSpec
CONSTANTS
  c1 = c1
  c2 = c2
  c3 = c3
  Client = {c1, c2, c3}
  None = None
  Operations <- MCOperations
  Faults = {"damage", "shutdown"}
  MaxConnections = 2
  MaxCalls = 1
INVARIANTS
  TypeOK
  CountersExact
  NothingOutlivesItsServer
  SupersededIsFenced
PROPERTIES
  CallsReturn
  StopEnds
  ShutdownEnds
CHECK_DEADLOCK FALSE
