\* Two envelopes and two attempts, applied, cancelled, revoked and fenced at once.
SPECIFICATION Spec
CONSTANTS
  t1 = t1
  t2 = t2
  b1 = b1
  h1 = h1
  h2 = h2
  Thread = {t1, t2}
  Backend = {b1}
  Handle = {h1}
  BackendOf <- MCBackendOf
  Readable = {h1}
  NoHandle = NoHandle
  Operations = {"derive", "apply", "cancel", "revoke", "advance"}
  Faults = {"under"}
  MaxEnvelopes = 2
  MaxAttempts = 2
  MaxPending = 2
  MaxGeneration = 1
  MaxEpoch = 3
  MaxBoot = 2
SYMMETRY Symmetry
INVARIANTS
  OneAttemptPerBackend
  NoOrphanedEffect
  OpenAtCurrentEpoch
CHECK_DEADLOCK FALSE
