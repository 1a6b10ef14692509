SPECIFICATION Spec
CONSTANTS
  w = w
  r = r
  q = q
  effects = effects
  agents = agents
  c1 = c1
  c2 = c2
  c3 = c3
  Branch = {w, r, q}
  Writer = {w}
  AI = {r, q}
  Gate = {effects, agents}
  GatesOf <- MCGatesOf
  EffectGate = effects
  Capacity <- MCCapacity
  Concurrency = 2
  MaxTokens = 4
  MaxAttempt = 2
  Call = {c1, c2, c3}
  Use = {1}
  MaxEpoch = 2
  None = None
SYMMETRY MCSymmetry
INVARIANTS GatesSound CommittedWithinBudget
CHECK_DEADLOCK FALSE
