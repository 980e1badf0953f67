\* A table of three entries, filled, evicted, compacted, checkpointed and recovered.
SPECIFICATION Spec
CONSTANTS
  f1 = f1
  f2 = f2
  Flow = {f1, f2}
  MaxEnvelopes = 3
  Window = 1
  CompactionFloor = 2
  Faults = {"journal"}
  MaxIds = 5
  MaxAttempts = 2
  MaxEpoch = 2
SYMMETRY Symmetry
INVARIANTS
  TypeOK
  TableExact
  MintIsFresh
PROPERTIES
  EvictionSparesOpen
CHECK_DEADLOCK FALSE
