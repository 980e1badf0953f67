\* Every operation, with a journal that may refuse appends, an authority that may
\* not answer, backends that come and go, and a restart at any point.
SPECIFICATION Spec
CONSTANTS
  t1 = t1
  t2 = t2
  b1 = b1
  h1 = h1
  h2 = h2
  Thread = {t1, t2}
  Backend = {b1}
  Handle = {h1}
  BackendOf <- MCBackendOf
  Readable = {h1}
  NoHandle = NoHandle
  Operations = {"derive", "apply", "verify", "cancel", "revoke", "fence", "advance", "revalidate", "register", "unregister", "restart"}
  Faults = {"journal", "fetch"}
  MaxEnvelopes = 1
  MaxAttempts = 1
  MaxPending = 2
  MaxGeneration = 1
  MaxEpoch = 3
  MaxBoot = 3
SYMMETRY Symmetry
INVARIANTS
  PendingExact
  EveryEffectHasARecord
  NoClaimAcrossRestart
CHECK_DEADLOCK FALSE
