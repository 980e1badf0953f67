\* One flow and a policy of either layer, rebound and republished, removed, journaled
\* or not, checkpointed and recovered twice.
SPECIFICATION Spec
CONSTANTS
  f1 = f1
  r1 = r1
  p1 = p1
  c1 = c1
  c2 = c2
  None = None
  Flow = {f1}
  Resource = {r1}
  Policy = {p1}
  BindingContent = {c1, c2}
  PolicyContent = {c1}
  Faults = {"journal"}
  MaxFlows = 2
  MaxPolicies = 2
  MaxGeneration = 2
  MaxEpoch = 3
SYMMETRY Symmetry
INVARIANTS
  TypeOK
  PolicyMatchIsExact
  BindingMatchIsExact
  OneLiveBinding
  ReplayIsMemory
CHECK_DEADLOCK FALSE
