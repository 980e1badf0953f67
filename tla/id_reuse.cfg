\* A table of two entries whose envelopes are evicted before a restart.
SPECIFICATION Spec
CONSTANTS
  f1 = f1
  f2 = f2
  Flow = {f1}
  MaxEnvelopes = 2
  Window = 1
  CompactionFloor = 1
  Faults = {}
  MaxIds = 5
  MaxAttempts = 2
  MaxEpoch = 2
INVARIANTS
  AttemptsBelong
CHECK_DEADLOCK FALSE
