SPECIFICATION Spec
CONSTANTS
  a = a
  b = b
  canceller = canceller
  pauser = pauser
  cancel = cancel
  pause = pause
  look = look
  edit = edit
  other = other
  verify = verify
  ask = ask
  done = done
  h1 = h1
  h2 = h2
  Owner = {a, canceller, pauser}
  Executor = {a}
  Canceller = {canceller}
  Pauser = {pauser}
  Creator = a
  Reasons = {"aborted", "lease_lost"}
  NoOwner = NoOwner
  MaxEpoch = 2
  Task = {ask, look, done}
  WriteTask = {}
  AITask = {}
  Verifier = {}
  Root = {done}
  Human = {ask}
  End = {done}
  Stage <- AskBeside
  Attempts <- MCAttempts
  MaxAttempt = 2
  MaxTransitions = 4
  FailFast = 0
  RequiresVerified = FALSE
  Hash = {h1}
  InitialHash = h1
  MaxRevision = 1
  Cancel = {cancel}
  Pause = {pause}
  None = None
  Keep = Keep
INVARIANTS CancelSettles
PROPERTIES ImplementsLedger
CHECK_DEADLOCK FALSE
