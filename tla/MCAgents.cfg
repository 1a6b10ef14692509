SPECIFICATION AgentsSpec
CONSTANTS
  k1 = k1
  k2 = k2
  f1 = f1
  f2 = f2
  effort = effort
  t1 = t1
  t2 = t2
  t3 = t3
  d1 = d1
  d2 = d2
  w1 = w1
  plan = plan
  dev = dev
  rev = rev
  leave = leave
  Candidate = {k1, k2, k3}
  Base = k1
  Signature = {x1}
  Attempts = 2
  Compact = FALSE
  Asks = TRUE
  Approves = TRUE
  MaxResumes = 1
  None = None
INVARIANTS AgentsTypeOK ArchivedAsAgreed Converges NoCopyTwice ToldBeforeGivingUp TasksAccounted ResultsAccounted OutcomeIsTrue VerifiedOnEvidence NoBlindRewrite FollowsLedger
CHECK_DEADLOCK FALSE
