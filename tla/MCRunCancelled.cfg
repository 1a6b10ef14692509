SPECIFICATION Spec
CONSTANTS
  a = a
  b = b
  canceller = canceller
  pauser = pauser
  cancel = cancel
  pause = pause
  look = look
  edit = edit
  other = other
  verify = verify
  ask = ask
  done = done
  h1 = h1
  h2 = h2
  Owner = {a, canceller}
  Executor = {a}
  Canceller = {canceller}
  Pauser = {}
  Creator = a
  Reasons = {"lease_lost"}
  NoOwner = NoOwner
  MaxEpoch = 3
  Task = {ask, done}
  WriteTask = {}
  AITask = {}
  Verifier = {}
  Root = {ask, done}
  Human = {ask}
  End = {done}
  Stage <- EditThenVerify
  Attempts <- MCAttempts
  MaxAttempt = 2
  MaxTransitions = 4
  FailFast = 0
  RequiresVerified = FALSE
  Hash = {h1}
  InitialHash = h1
  MaxRevision = 1
  Cancel = {cancel}
  Pause = {}
  None = None
  Keep = Keep
PROPERTIES CancelledAdmitsNothing
CHECK_DEADLOCK FALSE
