\* Application racing cancellation, revocation and epoch advances, on a backend
\* that may refuse a request or pace at another rate.
SPECIFICATION FairSpec
CONSTANTS
  t1 = t1
  t2 = t2
  b1 = b1
  h1 = h1
  h2 = h2
  Thread = {t1, t2}
  Backend = {b1}
  Handle = {h1}
  BackendOf <- MCBackendOf
  Readable = {h1}
  NoHandle = NoHandle
  Operations = {"derive", "apply", "cancel", "revoke", "advance"}
  Faults = {"reject", "over", "under"}
  MaxEnvelopes = 1
  MaxAttempts = 1
  MaxPending = 2
  MaxGeneration = 2
  MaxEpoch = 3
  MaxBoot = 2
INVARIANTS
  TypeOK
  ClaimedIsInForce
  OverRateWithdrawn
PROPERTIES
  ImplementsLifecycle
  OperationsEnd
  ClosedIsWithdrawn
CHECK_DEADLOCK FALSE
