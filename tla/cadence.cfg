\* Policies of every shape under grants of every kind, on words of six bits.
SPECIFICATION Spec
CONSTANTS
  HalfBits = 3
  Policies <- MCPolicies
  Grants <- MCGrants
  Bindings <- MCBindings
  Instants = {2, 60}
  None = None
  BitsPerByte = 2
  NanosPerSecond = 4
  MaxExceptions = 2
  Ppm = 10
  MaxRate = 30
  MaxQuantum = 4
  MinWindow = 1
  MaxWindow = 16
  MaxInterval = 12
  MaxBurst = 8
  MaxPackets = 4
  Horizon = 3
  MaxLifetime = 5
  Lifetime = 6
INVARIANTS
  PacedWithinCeiling
  FloorsAreCovered
  IntervalIsTight
  BurstIsBounded
  RecheckFindsNothing
  ExpiresWithGrant
  MulDivIsExact
CHECK_DEADLOCK FALSE
