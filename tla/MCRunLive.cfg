SPECIFICATION FairSpec
CONSTANTS
  a = a
  b = b
  canceller = canceller
  pauser = pauser
  cancel = cancel
  pause = pause
  look = look
  edit = edit
  other = other
  verify = verify
  ask = ask
  done = done
  h1 = h1
  h2 = h2
  Owner = {a}
  Executor = {a}
  Canceller = {}
  Pauser = {}
  Creator = a
  Reasons = {"aborted", "timeout", "lease_lost"}
  NoOwner = NoOwner
  MaxEpoch = 1
  Task = {look, edit, other, done}
  WriteTask = {edit, other}
  AITask = {look}
  Verifier = {}
  Root = {done}
  Human = {}
  End = {done}
  Stage <- Together
  Attempts <- MCAttempts
  MaxAttempt = 2
  MaxTransitions = 4
  FailFast = 0
  RequiresVerified = FALSE
  Hash = {h1}
  InitialHash = h1
  MaxRevision = 3
  Cancel = {}
  Pause = {}
  None = None
  Keep = Keep
INVARIANTS NoCommitConflict
PROPERTIES EveryExecutionEnds
CHECK_DEADLOCK FALSE
