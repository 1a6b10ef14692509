SPECIFICATION JournalsSpec
CONSTANTS
  p = p
  q = q
  Owner = {p, q}
  NoRow = NoRow
  TTL = 2
  MaxTime = 6
  MaxEpoch = 3
  parent = parent
  child = child
  Host = {p, q}
  Session = {parent, child}
  Child = {child}
  QueueLimit = 1
  Verifier = {p, q}
  Command = {test}
  Scoped = {test}
  Plan = {p1}
  MaxEdits = 1
  Invalid = Invalid
  Lost = Lost
  Process = {p, q, r}
  Writer = {p, q}
  Repo = {r1, r2}
  Version = {1, 2}
  Provider = {f1, f2}
  Project = {j1, j2}
  f1 = f1
  f2 = f2
  j1 = j1
  j2 = j2
  Request = {r1, r2}
  d1 = d1
  d2 = d2
  d3 = d3
  other = other
  r1 = r1
  r2 = r2
  Foreign = Foreign
  None = None
SYMMETRY Actors
INVARIANTS JournalsTypeOK OrphansSettled FeedComplete PhasesSound Exclusive HandedOutStays LinkedServed
PROPERTIES ImplementsFencedLease InstallSteps ForkSteps
CHECK_DEADLOCK FALSE
