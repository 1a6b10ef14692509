SPECIFICATION Spec
CONSTANTS
  a = a
  b = b
  canceller = canceller
  pauser = pauser
  cancel = cancel
  pause = pause
  look = look
  edit = edit
  other = other
  verify = verify
  ask = ask
  done = done
  h1 = h1
  h2 = h2
  Owner = {a}
  Executor = {a}
  Canceller = {}
  Pauser = {}
  Creator = a
  Reasons = {"aborted", "timeout", "lease_lost"}
  NoOwner = NoOwner
  MaxEpoch = 2
  Task = {edit, verify, done}
  WriteTask = {edit, verify}
  AITask = {edit}
  Verifier = {verify}
  Root = {edit, verify, done}
  Human = {}
  End = {done}
  Stage <- EditThenVerify
  Attempts <- MCAttempts
  MaxAttempt = 2
  MaxTransitions = 4
  FailFast = 0
  RequiresVerified = TRUE
  Hash = {h1, h2}
  InitialHash = h1
  MaxRevision = 4
  Cancel = {}
  Pause = {}
  None = None
  Keep = Keep
PROPERTIES ReplayNeedsRecovery
CHECK_DEADLOCK FALSE
