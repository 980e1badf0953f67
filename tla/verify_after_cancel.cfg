\* verify_attempt races cancel_attempt.
SPECIFICATION Spec
CONSTANTS
  t1 = t1
  t2 = t2
  b1 = b1
  h1 = h1
  h2 = h2
  Thread = {t1, t2}
  Backend = {b1}
  Handle = {h1}
  BackendOf <- MCBackendOf
  Readable = {h1}
  NoHandle = NoHandle
  Operations = {"derive", "apply", "verify", "cancel"}
  Faults = {}
  MaxEnvelopes = 1
  MaxAttempts = 1
  MaxPending = 2
  MaxGeneration = 1
  MaxEpoch = 2
  MaxBoot = 2
SYMMETRY Symmetry
PROPERTIES
  ClosedStaysClosed
CHECK_DEADLOCK FALSE
