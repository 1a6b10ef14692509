SPECIFICATION Spec
CONSTANTS
  u1 = u1
  u2 = u2
  u3 = u3
  s1 = s1
  s2 = s2
  n1 = n1
  d1 = d1
  Setup <- Interrupting
  User = {u1, u2}
  System = {}
  Native = {}
  Delegated = {}
  Config = {c1}
  MaxHandoffs = 1
  MaxTurns = 3
  MaxRestarts = 1
  MaxClosing = 2
  None = None
PROPERTIES NeverResent
CHECK_DEADLOCK FALSE
