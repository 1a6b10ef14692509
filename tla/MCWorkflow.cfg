SPECIFICATION Spec
CONSTANTS
  plan = plan
  dev = dev
  rev = rev
  Node = {plan, dev, rev}
  Order <- MCOrder
  Ends <- MCEnds
  Entry = plan
  WriteNode = {dev, rev}
  RetrySafe = {rev}
  Asking = {plan}
  MaxAttempts = 2
  MaxTransitions = 4
  MaxCalls = 3
  MaxVisits = 2
  Invalidable = {}
  End = End
  None = None
INVARIANTS ReceiptsResume
CHECK_DEADLOCK FALSE
