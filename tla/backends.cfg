\* Two handles of one backend identity, one of them without readback, replaced and
\* unregistered while attempts are applied, verified and fenced.
SPECIFICATION Spec
CONSTANTS
  t1 = t1
  t2 = t2
  b1 = b1
  h1 = h1
  h2 = h2
  Thread = {t1, t2}
  Backend = {b1}
  Handle = {h1, h2}
  BackendOf <- MCBackendOf
  Readable = {h1}
  NoHandle = NoHandle
  Operations = {"derive", "apply", "verify", "fence", "register", "unregister"}
  Faults = {"misidentify", "unreadable", "drift"}
  MaxEnvelopes = 2
  MaxAttempts = 1
  MaxPending = 2
  MaxGeneration = 1
  MaxEpoch = 2
  MaxBoot = 2
SYMMETRY Symmetry
INVARIANTS
  OneHandlePerAttempt
CHECK_DEADLOCK FALSE
