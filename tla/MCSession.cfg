SPECIFICATION Spec
CONSTANTS
  u1 = u1
  u2 = u2
  u3 = u3
  s1 = s1
  s2 = s2
  n1 = n1
  d1 = d1
  Setup <- WithSubagents
  User = {u1, u2}
  System = {s1}
  Native = {n1}
  Delegated = {}
  Config = {c1, c2}
  MaxHandoffs = 1
  MaxTurns = 2
  MaxRestarts = 1
  MaxClosing = 2
  None = None
SYMMETRY UserSymmetry
INVARIANTS SessionTypeOK TurnWatched SettledIsQuiet NothingStranded CallsReturn
CHECK_DEADLOCK FALSE
