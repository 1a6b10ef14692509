------------------------ MODULE RunExecution_proofs ------------------------
(***************************************************************************)
(* The ledger is correct for every set of tasks, verifiers and owners,     *)
(* whatever transactions they attempt in whatever order. The executions of *)
(* a run keep their types and their agreement with the ledger, for every   *)
(* workflow and any number of processes, and so every transaction they     *)
(* make is one of the ledger's.                                            *)
(***************************************************************************)
EXTENDS RunExecution, FiniteSetTheorems, TLAPS

(***************************************************************************)
(* The ledger. LedgerInv is inductive. The type invariant and              *)
(* AttemptsConsistent stand alone; a certification stays the candidate's   *)
(* because the candidate only moves in a transaction that writes the       *)
(* certification as well, and its verifier stays settled because           *)
(* AttemptsConsistent keeps a settled attempt out of every status a        *)
(* transaction may leave.                                                  *)
(***************************************************************************)

LedgerInv == LedgerTypeOK /\ AttemptsConsistent /\ CertifiedMatchesCandidate

allVars == <<leaseVars, ledgerVars>>

\* The initial row is well typed, consistent and uncertified.
LEMMA LedgerInitInv == LedgerInit => LedgerInv
<1> SUFFICES ASSUME LedgerInit PROVE LedgerInv
  OBVIOUS
<1> USE FencedLeaseAssumption, RunLedgerAssumption DEF LedgerInit, FencedInit, NoAttempt, RunRow, AttemptRow
<1>1. LedgerTypeOK
  BY DEF LedgerTypeOK, FencedTypeOK, RunStatus, AttemptStatus
<1>2. AttemptsConsistent
  BY DEF AttemptsConsistent
<1>3. CertifiedMatchesCandidate
  BY DEF CertifiedMatchesCandidate
<1> QED
  BY <1>1, <1>2, <1>3 DEF LedgerInv

\* Types are kept by every transaction.
LEMMA LedgerTypeStep == LedgerTypeOK /\ [LedgerNext]_allVars => LedgerTypeOK'
<1> SUFFICES ASSUME LedgerTypeOK, [LedgerNext]_allVars PROVE LedgerTypeOK'
  OBVIOUS
<1>0. /\ attempt \in [Task -> AttemptRow] /\ run \in RunRow /\ FencedTypeOK
      /\ interrupt \in [Task -> {"none", "asked", "answered"}]
      /\ inbox \in [Requests -> {"none", "pending", "consumed"}]
  BY DEF LedgerTypeOK
<1>a. ASSUME NEW o \in Owner, Commit(o), attempt' \in [Task -> AttemptRow], run' \in RunRow,
             interrupt' \in [Task -> {"none", "asked", "answered"}],
             inbox' \in [Requests -> {"none", "pending", "consumed"}]
      PROVE  LedgerTypeOK'
  BY <1>0, <1>a DEF LedgerTypeOK, FencedTypeOK, Commit
<1>1. CASE LeaseStep
  BY <1>0, <1>1 DEF LeaseStep, Take, Drop, LedgerTypeOK, FencedTypeOK, ledgerVars
<1>2. ASSUME NEW r \in Requests, AppendControl(r) PROVE LedgerTypeOK'
  BY <1>0, <1>2 DEF AppendControl, LedgerTypeOK, FencedTypeOK, leaseVars
<1>3. ASSUME NEW o \in Owner, NEW t \in Task, TaskStep(o, t) PROVE LedgerTypeOK'
  <2>0. attempt[t] \in AttemptRow /\ epoch \in Nat
    BY <1>0 DEF FencedTypeOK
  <2>1. CASE Admit(o, t)
    <3>1. [NoAttempt EXCEPT !.n = attempt[t].n + 1, !.status = "running", !.epoch = epoch] \in AttemptRow
      <4>1. NoAttempt \in AttemptRow /\ attempt[t].n + 1 \in Nat
        BY <2>0 DEF NoAttempt, AttemptRow, AttemptStatus
      <4> QED
        BY <2>0, <4>1 DEF AttemptRow, AttemptStatus
    <3>2. attempt' \in [Task -> AttemptRow]
      BY <1>0, <2>1, <3>1 DEF Admit
    <3>3. run' \in RunRow
      BY <1>0, <2>1 DEF Admit, RunRow, RunStatus
    <3> QED
      BY <1>0, <1>a, <2>1, <3>2, <3>3 DEF Admit
  <2>2. CASE Continue(o, t)
    <3>1. [attempt[t] EXCEPT !.status = "running", !.epoch = epoch] \in AttemptRow
      BY <2>0 DEF AttemptRow, AttemptStatus
    <3>2. attempt' \in [Task -> AttemptRow]
      BY <1>0, <2>2, <3>1 DEF Continue
    <3>3. run' \in RunRow
      BY <1>0, <2>2 DEF Continue, RunRow, RunStatus
    <3> QED
      BY <1>0, <1>a, <2>2, <3>2, <3>3 DEF Continue
  <2>3. CASE Fail(o, t)
    <3>1. [attempt[t] EXCEPT !.status = "failed"] \in AttemptRow
      BY <2>0 DEF AttemptRow, AttemptStatus
    <3>2. attempt' \in [Task -> AttemptRow]
      BY <1>0, <2>3, <3>1 DEF Fail
    <3>3. run' \in RunRow
      BY <1>0, <2>3 DEF Fail, RunRow, RunStatus
    <3> QED
      BY <1>0, <1>a, <2>3, <3>2, <3>3 DEF Fail
  <2>4. CASE CommitError(o, t)
    <3>1. \A s \in AttemptStatus : [attempt[t] EXCEPT !.status = s] \in AttemptRow
      BY <2>0 DEF AttemptRow, AttemptStatus
    <3>2. attempt' \in [Task -> AttemptRow]
      BY <1>0, <2>4, <3>1 DEF CommitError, AttemptStatus
    <3>3. run' \in RunRow
      BY <1>0, <2>4 DEF CommitError, RunRow, RunStatus
    <3> QED
      BY <1>0, <1>a, <2>4, <3>2, <3>3 DEF CommitError
  <2>5. CASE AuthorizeRecovery(o, t)
    <3>1. [attempt[t] EXCEPT !.authorized = TRUE] \in AttemptRow
      BY <2>0 DEF AttemptRow, AttemptStatus
    <3>2. attempt' \in [Task -> AttemptRow]
      BY <1>0, <2>5, <3>1 DEF AuthorizeRecovery
    <3> QED
      BY <1>0, <1>a, <2>5, <3>2 DEF AuthorizeRecovery
  <2>6. CASE PrepareInterruption(o, t)
    <3>1. [attempt[t] EXCEPT !.staged = TRUE] \in AttemptRow
      BY <2>0 DEF AttemptRow, AttemptStatus
    <3>2. attempt' \in [Task -> AttemptRow]
      BY <1>0, <2>6, <3>1 DEF PrepareInterruption
    <3> QED
      BY <1>0, <1>a, <2>6, <3>2 DEF PrepareInterruption
  <2>7. CASE CommitInterrupt(o, t)
    <3>1. [attempt[t] EXCEPT !.status = "paused"] \in AttemptRow
      BY <2>0 DEF AttemptRow, AttemptStatus
    <3>2. attempt' \in [Task -> AttemptRow]
      BY <1>0, <2>7, <3>1 DEF CommitInterrupt
    <3>3. run' \in RunRow
      BY <1>0, <2>7 DEF CommitInterrupt, RunRow, RunStatus
    <3> QED
      BY <1>0, <1>a, <2>7, <3>2, <3>3 DEF CommitInterrupt
  <2>8. ASSUME NEW r \in Result, CommitTerminal(o, t, r) PROVE LedgerTypeOK'
    <3>1. r.status \in AttemptStatus /\ [attempt[t] EXCEPT !.status = r.status, !.terminal = TRUE] \in AttemptRow
      BY <2>0 DEF Result, AttemptRow, AttemptStatus
    <3>2. attempt' \in [Task -> AttemptRow]
      BY <1>0, <2>8, <3>1 DEF CommitTerminal
    <3>3. Proposed(r) \in Candidate \union {None}
      BY <1>0 DEF Proposed, Result, RunRow
    <3>4. r.verified \notin {None, Keep} => [hash |-> r.verified.hash, revision |-> r.verified.revision, by |-> t] \in Verified
      BY DEF Result, Candidate, Verified
    <3>5. run' \in RunRow
      <4> DEFINE v == CASE r.verified = Keep -> IF r.candidate # None THEN None ELSE run.verified
                        [] r.verified = None -> None
                        [] OTHER -> [hash |-> r.verified.hash, revision |-> r.verified.revision, by |-> t]
                 f == IF t \notin AITask THEN run.failures ELSE IF r.status = "succeeded" THEN 0 ELSE run.failures + 1
                 c == IF r.completion = "none" THEN run.completion ELSE r.completion
                 s == CASE r.completion = "ok" -> "succeeded" [] r.completion = "failed" -> "failed" [] OTHER -> run.status
      <4>1. v \in Verified \union {None}
        BY <1>0, <3>4 DEF RunRow
      <4>2. f \in Nat /\ c \in {"none", "ok", "failed"} /\ s \in RunStatus
        BY <1>0 DEF RunRow, RunStatus, Result
      <4>3. run' = [run EXCEPT !.candidate = Proposed(r), !.verified = v, !.failures = f, !.completion = c, !.status = s]
        BY <2>8 DEF CommitTerminal
      <4> HIDE DEF v, f, c, s
      <4> QED
        BY <1>0, <3>3, <4>1, <4>2, <4>3 DEF RunRow
    <3> QED
      BY <1>0, <1>a, <2>8, <3>2, <3>5 DEF CommitTerminal
  <2> QED
    BY <1>3, <2>1, <2>2, <2>3, <2>4, <2>5, <2>6, <2>7, <2>8 DEF TaskStep
<1>4. ASSUME NEW o \in Owner, RunStep(o) PROVE LedgerTypeOK'
  <2>1. CASE SettlePause(o)
    BY <1>0, <1>a, <2>1 DEF SettlePause, RunRow, RunStatus
  <2>2. CASE Resumed(o)
    BY <1>0, <1>a, <2>2 DEF Resumed, Consumed
  <2>3. CASE AcknowledgeCancellation(o)
    BY <1>0, <1>a, <2>3 DEF AcknowledgeCancellation, Consumed
  <2>4. CASE CancelSettled(o)
    BY <1>0, <1>a, <2>4 DEF CancelSettled, RunRow, RunStatus
  <2>5. CASE PauseSettled(o)
    BY <1>0, <1>a, <2>5 DEF PauseSettled, RunRow, RunStatus
  <2>6. ASSUME NEW T \in SUBSET Task, AnswerInterrupts(o, T) PROVE LedgerTypeOK'
    BY <1>0, <1>a, <2>6 DEF AnswerInterrupts
  <2>7. ASSUME NEW h \in Hash, InitializeCandidate(o, h) PROVE LedgerTypeOK'
    BY <1>0, <1>a, <2>7, RunLedgerAssumption DEF InitializeCandidate, RunRow, Candidate
  <2>8. ASSUME NEW c \in {"aborted", "paused", "recover_required", "failed"}, ExecutionStopped(o, c) PROVE LedgerTypeOK'
    BY <1>0, <1>a, <2>8 DEF ExecutionStopped, Consumed, RunRow, RunStatus
  <2> QED
    BY <1>4, <2>1, <2>2, <2>3, <2>4, <2>5, <2>6, <2>7, <2>8 DEF RunStep
<1>5. CASE UNCHANGED allVars
  BY <1>0, <1>5 DEF allVars, leaseVars, ledgerVars, LedgerTypeOK, FencedTypeOK
<1> QED
  BY <1>1, <1>2, <1>3, <1>4, <1>5 DEF LedgerNext

\* The rows of attempts, interrupts and the run agree after every transaction.
LEMMA ConsistentStep == LedgerTypeOK /\ AttemptsConsistent /\ [LedgerNext]_allVars => AttemptsConsistent'
<1> SUFFICES ASSUME LedgerTypeOK, AttemptsConsistent, [LedgerNext]_allVars PROVE AttemptsConsistent'
  OBVIOUS
<1>0. /\ attempt \in [Task -> AttemptRow] /\ run \in RunRow /\ epoch \in Nat
      /\ interrupt \in [Task -> {"none", "asked", "answered"}]
  BY DEF LedgerTypeOK, FencedTypeOK
<1> USE DEF AttemptsConsistent
<1>1. CASE LeaseStep
  BY <1>0, <1>1 DEF LeaseStep, Take, Drop, ledgerVars, AttemptRow
<1>2. ASSUME NEW r \in Requests, AppendControl(r) PROVE AttemptsConsistent'
  BY <1>0, <1>2 DEF AppendControl, leaseVars
<1>3. ASSUME NEW o \in Owner, NEW t \in Task, TaskStep(o, t) PROVE AttemptsConsistent'
  <2>1. CASE Admit(o, t)
    BY <1>0, <2>1 DEF Admit, Commit, AttemptRow, NoAttempt
  <2>2. CASE Continue(o, t)
    BY <1>0, <2>2 DEF Continue, Commit, AttemptRow
  <2>3. CASE Fail(o, t)
    BY <1>0, <2>3 DEF Fail, Commit, AttemptRow
  <2>4. CASE CommitError(o, t)
    BY <1>0, <2>4 DEF CommitError, Commit, AttemptRow
  <2>5. CASE AuthorizeRecovery(o, t)
    BY <1>0, <2>5 DEF AuthorizeRecovery, Commit, AttemptRow
  <2>6. CASE PrepareInterruption(o, t) /\ attempt[t].status \in {"running", "paused"}
    BY <1>0, <2>6 DEF PrepareInterruption, Commit, AttemptRow
  <2>7. CASE CommitInterrupt(o, t) /\ attempt[t].status \in {"running", "paused"}
    BY <1>0, <2>7 DEF CommitInterrupt, Commit, AttemptRow
  <2>8. ASSUME NEW r \in Result, CommitTerminal(o, t, r) PROVE AttemptsConsistent'
    BY <1>0, <2>8 DEF CommitTerminal, Commit, Framed, AttemptRow, Result
  <2> QED
    BY <1>3, <2>1, <2>2, <2>3, <2>4, <2>5, <2>6, <2>7, <2>8 DEF TaskStep
<1>4. ASSUME NEW o \in Owner, RunStep(o) PROVE AttemptsConsistent'
  <2>1. CASE SettlePause(o)
    BY <1>0, <2>1 DEF SettlePause, Commit, RunRow
  <2>2. CASE Resumed(o)
    BY <1>0, <2>2 DEF Resumed, Commit, RunRow
  <2>3. CASE AcknowledgeCancellation(o)
    BY <1>0, <2>3 DEF AcknowledgeCancellation, Commit, RunRow
  <2>4. CASE CancelSettled(o)
    BY <1>0, <2>4 DEF CancelSettled, Commit, RunRow
  <2>5. CASE PauseSettled(o)
    BY <1>0, <2>5 DEF PauseSettled, Commit, RunRow
  <2>6. ASSUME NEW T \in SUBSET Task, AnswerInterrupts(o, T) PROVE AttemptsConsistent'
    BY <1>0, <2>6 DEF AnswerInterrupts, Commit, RunRow
  <2>7. ASSUME NEW h \in Hash, InitializeCandidate(o, h) PROVE AttemptsConsistent'
    BY <1>0, <2>7 DEF InitializeCandidate, Commit, RunRow
  <2>8. ASSUME NEW c \in {"aborted", "paused", "recover_required", "failed"}, ExecutionStopped(o, c) PROVE AttemptsConsistent'
    BY <1>0, <2>8 DEF ExecutionStopped, Commit, RunRow
  <2> QED
    BY <1>4, <2>1, <2>2, <2>3, <2>4, <2>5, <2>6, <2>7, <2>8 DEF RunStep
<1>5. CASE UNCHANGED allVars
  BY <1>5 DEF allVars, leaseVars, ledgerVars
<1> QED
  BY <1>1, <1>2, <1>3, <1>4, <1>5 DEF LedgerNext

\* A certification stays that of the run's candidate after every transaction.
LEMMA CertifiedStep ==
  LedgerTypeOK /\ AttemptsConsistent /\ CertifiedMatchesCandidate /\ [LedgerNext]_allVars => CertifiedMatchesCandidate'
<1> SUFFICES ASSUME LedgerTypeOK, AttemptsConsistent, CertifiedMatchesCandidate, [LedgerNext]_allVars
             PROVE  CertifiedMatchesCandidate'
  OBVIOUS
<1>0. /\ attempt \in [Task -> AttemptRow] /\ run \in RunRow /\ epoch \in Nat
      /\ interrupt \in [Task -> {"none", "asked", "answered"}]
  BY DEF LedgerTypeOK, FencedTypeOK
<1> USE DEF CertifiedMatchesCandidate, AttemptsConsistent
<1>1. CASE LeaseStep
  BY <1>0, <1>1, RunLedgerAssumption DEF LeaseStep, Take, Drop, ledgerVars, AttemptRow
<1>2. ASSUME NEW r \in Requests, AppendControl(r) PROVE CertifiedMatchesCandidate'
  BY <1>0, <1>2, RunLedgerAssumption DEF AppendControl, leaseVars
<1>3. ASSUME NEW o \in Owner, NEW t \in Task, TaskStep(o, t) PROVE CertifiedMatchesCandidate'
  <2>1. CASE Admit(o, t)
    BY <1>0, <2>1, RunLedgerAssumption DEF Admit, Commit, AttemptRow
  <2>2. CASE Continue(o, t)
    BY <1>0, <2>2, RunLedgerAssumption DEF Continue, Commit, AttemptRow
  <2>3. CASE Fail(o, t)
    BY <1>0, <2>3, RunLedgerAssumption DEF Fail, Commit, AttemptRow
  <2>4. CASE CommitError(o, t)
    BY <1>0, <2>4, RunLedgerAssumption DEF CommitError, Commit, AttemptRow
  <2>5. CASE AuthorizeRecovery(o, t)
    BY <1>0, <2>5, RunLedgerAssumption DEF AuthorizeRecovery, Commit, AttemptRow
  <2>6. CASE PrepareInterruption(o, t) /\ attempt[t].status \in {"running", "paused"}
    BY <1>0, <2>6, RunLedgerAssumption DEF PrepareInterruption, Commit, AttemptRow
  <2>7. CASE CommitInterrupt(o, t) /\ attempt[t].status \in {"running", "paused"}
    BY <1>0, <2>7, RunLedgerAssumption DEF CommitInterrupt, Commit, AttemptRow
  <2>8. ASSUME NEW r \in Result, CommitTerminal(o, t, r) PROVE CertifiedMatchesCandidate'
    BY <1>0, <2>8, RunLedgerAssumption DEF CommitTerminal, Commit, Framed, AttemptRow, Result
  <2> QED
    BY <1>3, <2>1, <2>2, <2>3, <2>4, <2>5, <2>6, <2>7, <2>8 DEF TaskStep
<1>4. ASSUME NEW o \in Owner, RunStep(o) PROVE CertifiedMatchesCandidate'
  <2>1. CASE SettlePause(o)
    BY <1>0, <2>1, RunLedgerAssumption DEF SettlePause, Commit, RunRow
  <2>2. CASE Resumed(o)
    BY <1>0, <2>2, RunLedgerAssumption DEF Resumed, Commit, RunRow
  <2>3. CASE AcknowledgeCancellation(o)
    BY <1>0, <2>3, RunLedgerAssumption DEF AcknowledgeCancellation, Commit, RunRow
  <2>4. CASE CancelSettled(o)
    BY <1>0, <2>4, RunLedgerAssumption DEF CancelSettled, Commit, RunRow
  <2>5. CASE PauseSettled(o)
    BY <1>0, <2>5, RunLedgerAssumption DEF PauseSettled, Commit, RunRow
  <2>6. ASSUME NEW T \in SUBSET Task, AnswerInterrupts(o, T) PROVE CertifiedMatchesCandidate'
    BY <1>0, <2>6, RunLedgerAssumption DEF AnswerInterrupts, Commit, RunRow
  <2>7. ASSUME NEW h \in Hash, InitializeCandidate(o, h) PROVE CertifiedMatchesCandidate'
    BY <1>0, <2>7, RunLedgerAssumption DEF InitializeCandidate, Commit, RunRow
  <2>8. ASSUME NEW c \in {"aborted", "paused", "recover_required", "failed"}, ExecutionStopped(o, c) PROVE CertifiedMatchesCandidate'
    BY <1>0, <2>8, RunLedgerAssumption DEF ExecutionStopped, Commit, RunRow
  <2> QED
    BY <1>4, <2>1, <2>2, <2>3, <2>4, <2>5, <2>6, <2>7, <2>8 DEF RunStep
<1>5. CASE UNCHANGED allVars
  BY <1>5 DEF allVars, leaseVars, ledgerVars
<1> QED
  BY <1>1, <1>2, <1>3, <1>4, <1>5 DEF LedgerNext

\* A settled attempt keeps its row in every transaction.
LEMMA SettledStep ==
  ASSUME LedgerTypeOK, AttemptsConsistent, [LedgerNext]_allVars, NEW u \in Task, attempt[u].terminal
  PROVE  attempt'[u] = attempt[u]
<1>0. /\ attempt \in [Task -> AttemptRow] /\ run \in RunRow /\ epoch \in Nat
      /\ interrupt \in [Task -> {"none", "asked", "answered"}]
  BY DEF LedgerTypeOK, FencedTypeOK
<1> USE DEF AttemptsConsistent
<1>1. CASE LeaseStep
  BY <1>0, <1>1 DEF LeaseStep, Take, Drop, ledgerVars, AttemptRow
<1>2. ASSUME NEW r \in Requests, AppendControl(r) PROVE attempt'[u] = attempt[u]
  BY <1>0, <1>2 DEF AppendControl, leaseVars
<1>3. ASSUME NEW o \in Owner, NEW t \in Task, TaskStep(o, t) PROVE attempt'[u] = attempt[u]
  <2>1. CASE Admit(o, t)
    BY <1>0, <2>1 DEF Admit, Commit, AttemptRow
  <2>2. CASE Continue(o, t)
    BY <1>0, <2>2 DEF Continue, Commit, AttemptRow
  <2>3. CASE Fail(o, t)
    BY <1>0, <2>3 DEF Fail, Commit, AttemptRow
  <2>4. CASE CommitError(o, t)
    BY <1>0, <2>4 DEF CommitError, Commit, AttemptRow
  <2>5. CASE AuthorizeRecovery(o, t)
    BY <1>0, <2>5 DEF AuthorizeRecovery, Commit, AttemptRow
  <2>6. CASE PrepareInterruption(o, t) /\ attempt[t].status \in {"running", "paused"}
    BY <1>0, <2>6 DEF PrepareInterruption, Commit, AttemptRow
  <2>7. CASE CommitInterrupt(o, t) /\ attempt[t].status \in {"running", "paused"}
    BY <1>0, <2>7 DEF CommitInterrupt, Commit, AttemptRow
  <2>8. ASSUME NEW r \in Result, CommitTerminal(o, t, r) PROVE attempt'[u] = attempt[u]
    BY <1>0, <2>8 DEF CommitTerminal, Commit, Framed, AttemptRow, Result
  <2> QED
    BY <1>3, <2>1, <2>2, <2>3, <2>4, <2>5, <2>6, <2>7, <2>8 DEF TaskStep
<1>4. ASSUME NEW o \in Owner, RunStep(o) PROVE attempt'[u] = attempt[u]
  <2>1. CASE SettlePause(o)
    BY <1>0, <2>1 DEF SettlePause, Commit, RunRow
  <2>2. CASE Resumed(o)
    BY <1>0, <2>2 DEF Resumed, Commit, RunRow
  <2>3. CASE AcknowledgeCancellation(o)
    BY <1>0, <2>3 DEF AcknowledgeCancellation, Commit, RunRow
  <2>4. CASE CancelSettled(o)
    BY <1>0, <2>4 DEF CancelSettled, Commit, RunRow
  <2>5. CASE PauseSettled(o)
    BY <1>0, <2>5 DEF PauseSettled, Commit, RunRow
  <2>6. ASSUME NEW T \in SUBSET Task, AnswerInterrupts(o, T) PROVE attempt'[u] = attempt[u]
    BY <1>0, <2>6 DEF AnswerInterrupts, Commit, RunRow
  <2>7. ASSUME NEW h \in Hash, InitializeCandidate(o, h) PROVE attempt'[u] = attempt[u]
    BY <1>0, <2>7 DEF InitializeCandidate, Commit, RunRow
  <2>8. ASSUME NEW c \in {"aborted", "paused", "recover_required", "failed"}, ExecutionStopped(o, c) PROVE attempt'[u] = attempt[u]
    BY <1>0, <2>8 DEF ExecutionStopped, Commit, RunRow
  <2> QED
    BY <1>4, <2>1, <2>2, <2>3, <2>4, <2>5, <2>6, <2>7, <2>8 DEF RunStep
<1>5. CASE UNCHANGED allVars
  BY <1>5 DEF allVars, leaseVars, ledgerVars
<1> QED
  BY <1>1, <1>2, <1>3, <1>4, <1>5 DEF LedgerNext

\* The candidate is unchanged, or moves to a later revision.
Forward ==
  run'.candidate # run.candidate =>
    run'.candidate # None /\ (run.candidate # None => run'.candidate.revision > run.candidate.revision)

\* No transaction replaces the candidate by an older one.
LEMMA CandidateStep == LedgerTypeOK /\ [LedgerNext]_allVars => Forward
<1> SUFFICES ASSUME LedgerTypeOK, [LedgerNext]_allVars PROVE Forward
  OBVIOUS
<1>0. /\ attempt \in [Task -> AttemptRow] /\ run \in RunRow /\ epoch \in Nat
      /\ interrupt \in [Task -> {"none", "asked", "answered"}]
  BY DEF LedgerTypeOK, FencedTypeOK
<1> USE DEF Forward
<1>1. CASE LeaseStep
  BY <1>0, <1>1, RunLedgerAssumption DEF LeaseStep, Take, Drop, ledgerVars, AttemptRow
<1>2. ASSUME NEW r \in Requests, AppendControl(r) PROVE Forward
  BY <1>0, <1>2, RunLedgerAssumption DEF AppendControl, leaseVars
<1>3. ASSUME NEW o \in Owner, NEW t \in Task, TaskStep(o, t) PROVE Forward
  <2>1. CASE Admit(o, t)
    BY <1>0, <2>1, RunLedgerAssumption DEF Admit, Commit, AttemptRow
  <2>2. CASE Continue(o, t)
    BY <1>0, <2>2, RunLedgerAssumption DEF Continue, Commit, AttemptRow
  <2>3. CASE Fail(o, t)
    BY <1>0, <2>3, RunLedgerAssumption DEF Fail, Commit, AttemptRow
  <2>4. CASE CommitError(o, t)
    BY <1>0, <2>4, RunLedgerAssumption DEF CommitError, Commit, AttemptRow
  <2>5. CASE AuthorizeRecovery(o, t)
    BY <1>0, <2>5, RunLedgerAssumption DEF AuthorizeRecovery, Commit, AttemptRow
  <2>6. CASE PrepareInterruption(o, t) /\ attempt[t].status \in {"running", "paused"}
    BY <1>0, <2>6, RunLedgerAssumption DEF PrepareInterruption, Commit, AttemptRow
  <2>7. CASE CommitInterrupt(o, t) /\ attempt[t].status \in {"running", "paused"}
    BY <1>0, <2>7, RunLedgerAssumption DEF CommitInterrupt, Commit, AttemptRow
  <2>8. ASSUME NEW r \in Result, CommitTerminal(o, t, r) PROVE Forward
    BY <1>0, <2>8, RunLedgerAssumption DEF CommitTerminal, Acceptable, Proposed, Revision, Result, RunRow, Candidate
  <2> QED
    BY <1>3, <2>1, <2>2, <2>3, <2>4, <2>5, <2>6, <2>7, <2>8 DEF TaskStep
<1>4. ASSUME NEW o \in Owner, RunStep(o) PROVE Forward
  <2>1. CASE SettlePause(o)
    BY <1>0, <2>1, RunLedgerAssumption DEF SettlePause, Commit, RunRow
  <2>2. CASE Resumed(o)
    BY <1>0, <2>2, RunLedgerAssumption DEF Resumed, Commit, RunRow
  <2>3. CASE AcknowledgeCancellation(o)
    BY <1>0, <2>3, RunLedgerAssumption DEF AcknowledgeCancellation, Commit, RunRow
  <2>4. CASE CancelSettled(o)
    BY <1>0, <2>4, RunLedgerAssumption DEF CancelSettled, Commit, RunRow
  <2>5. CASE PauseSettled(o)
    BY <1>0, <2>5, RunLedgerAssumption DEF PauseSettled, Commit, RunRow
  <2>6. ASSUME NEW T \in SUBSET Task, AnswerInterrupts(o, T) PROVE Forward
    BY <1>0, <2>6, RunLedgerAssumption DEF AnswerInterrupts, Commit, RunRow
  <2>7. ASSUME NEW h \in Hash, InitializeCandidate(o, h) PROVE Forward
    BY <1>0, <2>7, RunLedgerAssumption DEF InitializeCandidate, Commit, RunRow
  <2>8. ASSUME NEW c \in {"aborted", "paused", "recover_required", "failed"}, ExecutionStopped(o, c) PROVE Forward
    BY <1>0, <2>8, RunLedgerAssumption DEF ExecutionStopped, Commit, RunRow
  <2> QED
    BY <1>4, <2>1, <2>2, <2>3, <2>4, <2>5, <2>6, <2>7, <2>8 DEF RunStep
<1>5. CASE UNCHANGED allVars
  BY <1>5 DEF allVars, leaseVars, ledgerVars
<1> QED
  BY <1>1, <1>2, <1>3, <1>4, <1>5 DEF LedgerNext

-----------------------------------------------------------------------------
\* LedgerInv holds throughout (ledger.ts, every transaction).
THEOREM LedgerInvariant == LedgerSpec => []LedgerInv
<1>1. LedgerInv /\ [LedgerNext]_allVars => LedgerInv'
  BY LedgerTypeStep, ConsistentStep, CertifiedStep DEF LedgerInv
<1> QED
  BY LedgerInitInv, <1>1, PTL DEF LedgerSpec, allVars

\* The rows stay well typed: every status the transactions write is one the
\* readers know.
THEOREM LedgerTypes == LedgerSpec => []LedgerTypeOK
<1>1. LedgerInv => LedgerTypeOK
  BY DEF LedgerInv
<1> QED
  BY LedgerInvariant, <1>1, PTL

\* A certification always names the current candidate and a verifier that settled
\* (ledger.ts:164-188).
THEOREM CertificationSound == LedgerSpec => []CertifiedMatchesCandidate
<1>1. LedgerInv => CertifiedMatchesCandidate
  BY DEF LedgerInv
<1> QED
  BY LedgerInvariant, <1>1, PTL

\* Attempts, interrupts and the completion of the run agree (ledger.ts:83-262).
THEOREM RowsConsistent == LedgerSpec => []AttemptsConsistent
<1>1. LedgerInv => AttemptsConsistent
  BY DEF LedgerInv
<1> QED
  BY LedgerInvariant, <1>1, PTL

\* A settled attempt is settled for good, across tenures and takeovers
\* (ledger.ts:101, 156).
THEOREM SettlementFinal == LedgerSpec => SettledForever
<1>1. LedgerInv /\ [LedgerNext]_allVars
        => [\A t \in Task : attempt[t].terminal => attempt'[t] = attempt[t]]_ledgerVars
  BY SettledStep DEF LedgerInv
<1> QED
  BY LedgerInvariant, <1>1, PTL DEF LedgerSpec, allVars, SettledForever

\* The candidate never moves back (ledger.ts:166).
THEOREM CandidateForward == LedgerSpec => CandidateMovesForward
<1>1. LedgerInv /\ [LedgerNext]_allVars
        => [run'.candidate # run.candidate =>
              /\ run'.candidate # None
              /\ run.candidate # None => run'.candidate.revision > run.candidate.revision]_ledgerVars
  BY CandidateStep DEF LedgerInv, Forward
<1> QED
  BY LedgerInvariant, <1>1, PTL DEF LedgerSpec, allVars, CandidateMovesForward

-----------------------------------------------------------------------------
(***************************************************************************)
(* The executions. The refinement needs more than the types: the ledger    *)
(* may be asked to settle or to stage only what is running under the       *)
(* lease, and what an execution has in flight is running only because      *)
(* nobody else commits under its lease. That is FlightSound; WorkSound     *)
(* says what the work of a call is before and after it drives its graph.   *)
(***************************************************************************)

\* What an execution keeps in memory of one task.
WorkRow == [at : Places, saw : Hash \union {None}, result : Result \union {None}, err : Codes]

\* What an execution knows before and while it drives its graph: the work of a
\* call starts idle, a marked task carries a marker, an erred one a code, and an
\* execution that stops has a code.
WorkSound ==
  \A e \in Executor :
    /\ pc[e] \notin {"graph", "settling", "stopping", "acking", "releasing"} => \A t \in Task : work[e][t] = Idle
    /\ \A t \in Task : At(e, t) = "marked" => work[e][t].result \in Result
    /\ \A t \in Task : At(e, t) = "erred" => work[e][t].err # "none"
    /\ pc[e] = "stopping" => code[e] # "none"

\* A task in flight under the lease has the running attempt of this tenure.
FlightSound ==
  \A e \in Executor, t \in Task :
    holder = e /\ At(e, t) \in InFlight => Framed(e, t) /\ attempt[t].status = "running"

ExecInv == ExecTypeOK /\ LedgerInv /\ WorkSound /\ FlightSound

\* One task of one execution moves.
LEMMA MoveOne ==
  ASSUME ExecTypeOK, NEW e \in Executor, NEW t \in Task, NEW w, Move(e, t, w)
  PROVE  /\ \A d \in Executor, u \in Task : work'[d][u] = IF d = e /\ u = t THEN w ELSE work[d][u]
         /\ w \in WorkRow => work' \in [Executor -> [Task -> WorkRow]]
  BY DEF ExecTypeOK, Move, WorkRow

\* The work of a task after it moved to a place.
LEMMA RowOfPlace ==
  ASSUME NEW place \in Places
  PROVE  /\ [Idle EXCEPT !.at = place] \in WorkRow
         /\ \A c \in Codes : [Idle EXCEPT !.at = place, !.err = c] \in WorkRow
         /\ \A s \in Hash \union {None} : [Idle EXCEPT !.at = place, !.saw = s] \in WorkRow
<1>1. Idle \in WorkRow
  BY DEF Idle, WorkRow, Places, Codes
<1> QED
  BY <1>1 DEF WorkRow

\* The code of a stop is one of the four the ledger knows.
LEMMA StopCodeKnown ==
  ASSUME ExecTypeOK, NEW e \in Executor, NEW S \in SUBSET Erred(e), WorkSound
  PROVE  StopCode(e, S) \in Codes \ {"none"}
<1>1. Cardinality({}) # 1
  BY FS_EmptySet
<1>2. ASSUME NEW t \in S PROVE work[e][t].err \in Codes \ {"none"}
  BY <1>2 DEF Erred, WorkSound, ExecTypeOK
<1>3. CASE S # {}
  <2>1. PICK t \in S : TRUE
    BY <1>3
  <2>2. (CHOOSE c \in Codes : \E u \in S : work[e][u].err = c) \in Codes \ {"none"}
    BY <1>2, <2>1
  <2> QED
    BY <2>2 DEF StopCode, Codes
<1>4. CASE S = {}
  BY <1>1, <1>4 DEF StopCode, Codes
<1> QED
  BY <1>3, <1>4

\* The marker that finalize proposes is one the ledger can store.
LEMMA FinalizedResult ==
  ASSUME ExecTypeOK, NEW t \in Task, NEW saw \in Hash \union {None},
         t \in WriteTask => Revision < MaxRevision
  PROVE  Finalized(t, saw) \in Result
<1> DEFINE proposal == IF t \in WriteTask THEN [hash |-> repo, revision |-> Revision + 1] ELSE None
<1>1. Revision \in Nat
  BY RunLedgerAssumption DEF ExecTypeOK, LedgerTypeOK, RunRow, Candidate, Revision
<1>2. repo \in Hash /\ MaxRevision \in Nat
  BY RunLedgerAssumption DEF ExecTypeOK
<1>3. t \in WriteTask => [hash |-> repo, revision |-> Revision + 1] \in Candidate
  BY <1>1, <1>2 DEF Candidate
<1>4. t \in Verifier => proposal \in Candidate
  BY <1>3, RunExecutionAssumption
<1>5. proposal \in Candidate \union {None}
  BY <1>3
<1> HIDE DEF proposal
<1>6. Finalized(t, saw) =
        [status |-> IF saw = None /\ t \notin Verifier \union End THEN "failed" ELSE "succeeded",
         candidate |-> proposal,
         receipt |-> IF t \in Verifier /\ saw = repo THEN repo ELSE None,
         verified |-> IF t \in Verifier /\ saw = repo THEN proposal
                      ELSE IF t \notin WriteTask /\ run.verified # None /\ run.verified.hash = repo
                      THEN Keep ELSE None,
         completion |-> IF t \in End THEN (IF saw = None THEN "failed" ELSE "ok")
                        ELSE IF t \in Root \ Verifier /\ saw = None THEN "failed" ELSE "none"]
  BY DEF Finalized, proposal
<1> QED
  BY <1>2, <1>4, <1>5, <1>6 DEF Result

-----------------------------------------------------------------------------
\* Every step of the processes is a transaction of the ledger, a step of its
\* lease, or leaves both alone.
LEMMA ExecutorLedgerStep ==
  ASSUME ExecInv, NEW e \in Executor, ExecutorStep(e)
  PROVE  [LedgerNext]_allVars
<1>0. e \in Owner /\ ExecTypeOK /\ WorkSound /\ FlightSound /\ WriteTask \subseteq Task
  BY RunExecutionAssumption, RunLedgerAssumption DEF ExecInv
<1>a. ASSUME RunStep(e) PROVE LedgerNext
  BY <1>0, <1>a DEF LedgerNext
<1>b. ASSUME NEW t \in Task, TaskStep(e, t) PROVE LedgerNext
  BY <1>0, <1>b DEF LedgerNext
<1>c. ASSUME LeaseStep PROVE LedgerNext
  BY <1>c DEF LedgerNext
<1>d. ASSUME UNCHANGED <<leaseVars, ledgerVars>> PROVE UNCHANGED allVars
  BY <1>d DEF allVars
<1>1. CASE AcquireRun(e)
  <2>1. CASE Take(e)
    BY <1>0, <1>1, <1>c, <2>1 DEF AcquireRun, LeaseStep
  <2>2. CASE UNCHANGED leaseVars
    BY <1>1, <1>d, <2>2 DEF AcquireRun
  <2> QED
    BY <1>1, <2>1, <2>2 DEF AcquireRun
<1>2. CASE OpenCandidate(e)
  <2>1. repo \in Hash
    BY <1>0 DEF ExecTypeOK
  <2> QED
    BY <1>2, <1>a, <1>d, <2>1 DEF OpenCandidate, RunStep
<1>3. CASE GiveAnswers(e)
  BY <1>3, <1>a, <1>d DEF GiveAnswers, RunStep
<1>4. CASE Recover(e)
  BY <1>0, <1>4, <1>a, <1>b, <1>d DEF Recover, RunStep, TaskStep
<1>5. CASE StartGraph(e) \/ OpeningLost(e) \/ GraphReturns(e) \/ GraphThrows(e)
  BY <1>5, <1>d DEF StartGraph, OpeningLost, GraphReturns, GraphThrows
<1>6. ASSUME NEW t \in Task, TaskOf(e, t) PROVE [LedgerNext]_allVars
  <2>1. CASE EnterTask(e, t)
    BY <1>b, <2>1 DEF EnterTask, TaskStep
  <2>2. CASE RefuseTask(e, t) \/ Begin(e, t) \/ Finish(e, t) \/ Ask(e, t) \/ Mark(e, t) \/ TaskLost(e, t)
    BY <1>d, <2>2 DEF RefuseTask, Begin, Finish, Ask, Mark, TaskLost
  <2>3. CASE Abandon(e, t)
    <3>1. holder = e => attempt[t].status = "running"
      BY <1>0, <2>3 DEF Abandon, FlightSound, InFlight
    <3> QED
      BY <1>b, <1>d, <2>3, <3>1 DEF Abandon, TaskStep
  <2>4. CASE Retry(e, t)
    BY <1>b, <2>4 DEF Retry, TaskStep
  <2>5. CASE Uncertain(e, t)
    <3>1. attempt[t].status = "running"
      BY <1>0, <2>5 DEF Uncertain, PrepareInterruption, Commit, FlightSound, InFlight
    <3> QED
      BY <1>b, <2>5, <3>1 DEF Uncertain, TaskStep
  <2>6. CASE CommitTask(e, t)
    <3>1. work[e][t].result \in Result
      BY <1>0, <2>6 DEF CommitTask, WorkSound
    <3>2. Framed(e, t)
      BY <2>6 DEF CommitTask, CommitTerminal
    <3> QED
      BY <1>b, <2>6, <3>1, <3>2 DEF CommitTask, TaskStep
  <2>7. CASE CommitAsk(e, t)
    <3>1. attempt[t].status = "running"
      BY <1>0, <2>7 DEF CommitAsk, CommitInterrupt, Commit, FlightSound, InFlight
    <3> QED
      BY <1>b, <2>7, <3>1 DEF CommitAsk, TaskStep
  <2>8. CASE CommitThrown(e, t)
    BY <1>b, <2>8 DEF CommitThrown, TaskStep
  <2> QED
    BY <1>6, <2>1, <2>2, <2>3, <2>4, <2>5, <2>6, <2>7, <2>8 DEF TaskOf
<1>7. CASE Settle(e)
  BY <1>7, <1>a, <1>d DEF Settle, RunStep
<1>8. CASE Stop(e)
  <2>1. code[e] \in {"aborted", "paused", "recover_required", "failed"}
    BY <1>0, <1>8 DEF Stop, WorkSound, ExecTypeOK, Codes
  <2> QED
    BY <1>8, <1>a, <1>d, <2>1 DEF Stop, RunStep
<1>9. CASE Acknowledge(e)
  BY <1>9, <1>a, <1>d DEF Acknowledge, RunStep
<1>10. CASE Release(e)
  BY <1>10, <1>c, <1>d DEF Release, LeaseStep
<1> QED
  BY <1>1, <1>2, <1>3, <1>4, <1>5, <1>6, <1>7, <1>8, <1>9, <1>10 DEF ExecutorStep

\* So is every step of the system.
LEMMA LedgerStep == ExecInv /\ [Next]_vars => [LedgerNext]_allVars
<1> SUFFICES ASSUME ExecInv, [Next]_vars PROVE [LedgerNext]_allVars
  OBVIOUS
<1>0. Canceller \subseteq Owner /\ Pauser \subseteq Owner
  BY RunExecutionAssumption
<1>a. ASSUME NEW o \in Owner, RunStep(o) PROVE LedgerNext
  BY <1>a DEF LedgerNext
<1>c. ASSUME LeaseStep PROVE LedgerNext
  BY <1>c DEF LedgerNext
<1>d. ASSUME UNCHANGED <<leaseVars, ledgerVars>> PROVE UNCHANGED allVars
  BY <1>d DEF allVars
<1>e. ASSUME NEW r \in Requests, AppendControl(r) PROVE LedgerNext
  BY <1>e DEF LedgerNext
<1>f. ASSUME NEW o \in Owner, ControlRelease(o) PROVE [LedgerNext]_allVars
  BY <1>c, <1>d, <1>f DEF ControlRelease, LeaseStep
<1>1. ASSUME NEW e \in Executor, ExecutorStep(e) PROVE [LedgerNext]_allVars
  BY <1>1, ExecutorLedgerStep
<1>2. ASSUME NEW c \in Canceller, CancellerStep(c) PROVE [LedgerNext]_allVars
  <2>1. CASE CancelAppend(c)
    BY <1>d, <1>e, <2>1 DEF CancelAppend, Requests
  <2>2. CASE CancelObserve(c)
    BY <1>0, <1>c, <1>d, <2>2 DEF CancelObserve, LeaseStep
  <2>3. CASE CancelSettle(c) \/ CancelAcknowledge(c)
    BY <1>0, <1>a, <2>3 DEF CancelSettle, CancelAcknowledge, RunStep
  <2> QED
    BY <1>0, <1>2, <1>f, <2>1, <2>2, <2>3 DEF CancellerStep
<1>3. ASSUME NEW p \in Pauser, PauserStep(p) PROVE [LedgerNext]_allVars
  <2>1. CASE PauseObserve(p)
    BY <1>d, <2>1 DEF PauseObserve
  <2>2. CASE PauseRequest(p)
    BY <1>d, <1>e, <2>2 DEF PauseRequest, Requests
  <2>3. CASE PauseTake(p)
    BY <1>0, <1>c, <1>d, <2>3 DEF PauseTake, LeaseStep
  <2>4. CASE PauseSettle(p)
    BY <1>0, <1>a, <2>4 DEF PauseSettle, RunStep
  <2> QED
    BY <1>0, <1>3, <1>f, <2>1, <2>2, <2>3, <2>4 DEF PauserStep
<1>4. CASE Environment
  <2>1. CASE LeaseExpires
    BY <1>c, <2>1 DEF LeaseExpires, LeaseStep
  <2>2. ASSUME NEW e \in Executor, CheckResume(e) \/ Signal(e) \/ Crash(e) \/ \E t \in Task : Edit(e, t)
        PROVE  [LedgerNext]_allVars
    BY <1>d, <2>2 DEF CheckResume, Signal, Crash, Edit
  <2>3. ASSUME NEW t \in WriteTask, Stray(t) PROVE [LedgerNext]_allVars
    BY <1>d, <2>3 DEF Stray
  <2> QED
    BY <1>4, <2>1, <2>2, <2>3 DEF Environment
<1>5. CASE UNCHANGED vars
  BY <1>5, <1>d DEF vars
<1> QED
  BY <1>1, <1>2, <1>3, <1>4, <1>5 DEF Next

-----------------------------------------------------------------------------
\* Where the call of a process may stand.
PcPlaces == {"idle", "created", "checked", "opening", "resuming", "answering",
             "recovering", "starting", "graph", "settling", "stopping", "acking",
             "releasing", "appended", "owning", "requesting"}

\* The types of what the executions add to the ledger.
OwnTypeOK ==
  /\ pc \in [Owner -> PcPlaces]
  /\ sig \in [Executor -> {"none", "aborted", "timeout", "lease_lost"}]
  /\ code \in [Executor -> Codes]
  /\ work \in [Executor -> [Task -> WorkRow]]
  /\ repo \in Hash
  /\ stray \subseteq WriteTask
  /\ began \in [WriteTask -> Nat]
  /\ foreign \in BOOLEAN

\* ExecTypeOK in two parts.
LEMMA TypesSplit == ExecTypeOK <=> LedgerTypeOK /\ OwnTypeOK
  BY DEF ExecTypeOK, OwnTypeOK, PcPlaces, WorkRow

\* Types are kept by the node body.
LEMMA TaskTypeStep ==
  ASSUME ExecInv, NEW e \in Executor, NEW t \in Task, TaskOf(e, t)
  PROVE  OwnTypeOK'
<1>0. OwnTypeOK /\ ExecTypeOK /\ WorkSound /\ WriteTask \subseteq Task
  BY TypesSplit, RunLedgerAssumption DEF ExecInv
<1>a. ASSUME NEW w \in WorkRow, Move(e, t, w), UNCHANGED <<pc, sig, code, repo>>,
             stray' \subseteq WriteTask, began' \in [WriteTask -> Nat], foreign' \in BOOLEAN
      PROVE  OwnTypeOK'
  BY <1>0, <1>a, MoveOne DEF OwnTypeOK
<1>b. UNCHANGED <<pc, sig, code, repo>>
  BY DEF TaskOf, EnterTask, RefuseTask, Begin, Abandon, Finish, Retry, Uncertain, Ask, Mark, CommitTask,
         CommitAsk, CommitThrown, TaskLost
<1>c. stray' \subseteq WriteTask
  BY <1>0 DEF TaskOf, EnterTask, RefuseTask, Begin, Abandon, Finish, Retry, Uncertain, Ask, Mark, CommitTask,
         CommitAsk, CommitThrown, TaskLost, OwnTypeOK
<1>d. began' \in [WriteTask -> Nat] /\ foreign' \in BOOLEAN
  <2>1. began' \in [WriteTask -> Nat]
    <3>1. CASE Begin(e, t)
      BY <1>0, <3>1 DEF Begin, OwnTypeOK
    <3>2. CASE CommitThrown(e, t)
      BY <1>0, <3>2 DEF CommitThrown, OwnTypeOK
    <3>3. CASE began' = began
      BY <1>0, <3>3 DEF OwnTypeOK
    <3> QED
      BY <3>1, <3>2, <3>3 DEF TaskOf, EnterTask, RefuseTask, Abandon, Finish, Retry, Uncertain, Ask, Mark,
         CommitTask, CommitAsk, TaskLost, history
  <2>2. foreign' = foreign \/ foreign' = (foreign /\ t \notin WriteTask)
    BY DEF TaskOf, EnterTask, RefuseTask, Begin, Abandon, Finish, Retry, Uncertain, Ask, Mark, CommitTask,
           CommitAsk, CommitThrown, TaskLost, history
  <2>3. foreign \in BOOLEAN
    BY <1>0 DEF OwnTypeOK
  <2> QED
    BY <2>1, <2>2, <2>3
<1>e. ASSUME NEW place \in Places, Place(e, t, place) PROVE OwnTypeOK'
  <2>1. [Idle EXCEPT !.at = place] \in WorkRow
    BY RowOfPlace
  <2> QED
    BY <1>a, <1>b, <1>c, <1>d, <1>e, <2>1 DEF Place
<1>f. ASSUME NEW c \in Codes, Err(e, t, c) PROVE OwnTypeOK'
  <2>1. "erred" \in Places
    BY DEF Places
  <2>2. [Idle EXCEPT !.at = "erred", !.err = c] \in WorkRow
    BY <1>f, <2>1, RowOfPlace
  <2> QED
    BY <1>a, <1>b, <1>c, <1>d, <1>f, <2>2 DEF Err
<1>1. CASE EnterTask(e, t)
  BY <1>1, <1>e DEF EnterTask, Places
<1>2. CASE RefuseTask(e, t)
  BY <1>2, <1>f DEF RefuseTask, Codes
<1>3. CASE Begin(e, t)
  BY <1>3, <1>e DEF Begin, Places
<1>4. CASE Abandon(e, t)
  BY <1>4, <1>e DEF Abandon, Places
<1>5. CASE Finish(e, t)
  <2>1. PICK saw \in Hash \union {None} : Move(e, t, [Idle EXCEPT !.at = "operated", !.saw = saw])
    BY <1>0, <1>5 DEF Finish, OwnTypeOK
  <2>2. "operated" \in Places
    BY DEF Places
  <2>3. [Idle EXCEPT !.at = "operated", !.saw = saw] \in WorkRow
    BY <2>2, RowOfPlace
  <2> QED
    BY <1>a, <1>b, <1>c, <1>d, <2>1, <2>3
<1>6. CASE Retry(e, t) \/ Uncertain(e, t) \/ Ask(e, t) \/ CommitTask(e, t) \/ CommitAsk(e, t)
  BY <1>6, <1>e DEF Retry, Uncertain, Ask, CommitTask, CommitAsk, Places
<1>7. CASE Mark(e, t)
  <2>1. CASE Place(e, t, "thrown")
    BY <1>e, <2>1 DEF Places
  <2>2. CASE /\ t \in WriteTask => Revision < MaxRevision
             /\ Move(e, t, [work[e][t] EXCEPT !.at = "marked", !.result = Finalized(t, work[e][t].saw)])
    <3>1. work[e][t] \in WorkRow
      BY <1>0 DEF OwnTypeOK
    <3>2. Finalized(t, work[e][t].saw) \in Result
      BY <1>0, <2>2, <3>1, FinalizedResult DEF WorkRow
    <3>3. [work[e][t] EXCEPT !.at = "marked", !.result = Finalized(t, work[e][t].saw)] \in WorkRow
      BY <3>1, <3>2 DEF WorkRow, Places
    <3> QED
      BY <1>a, <1>b, <1>c, <1>d, <2>2, <3>3
  <2> QED
    BY <1>7, <2>1, <2>2 DEF Mark
<1>8. CASE CommitThrown(e, t) \/ TaskLost(e, t)
  BY <1>8, <1>f DEF CommitThrown, TaskLost, Codes
<1> QED
  BY <1>1, <1>2, <1>3, <1>4, <1>5, <1>6, <1>7, <1>8 DEF TaskOf

\* Types are kept by every step.
LEMMA OwnTypeStep == ExecInv /\ [Next]_vars => OwnTypeOK'
<1> SUFFICES ASSUME ExecInv, [Next]_vars PROVE OwnTypeOK'
  OBVIOUS
<1>0. /\ OwnTypeOK /\ ExecTypeOK /\ WorkSound /\ WriteTask \subseteq Task
      /\ Executor \subseteq Owner /\ Canceller \subseteq Owner /\ Pauser \subseteq Owner
  BY TypesSplit, RunLedgerAssumption, RunExecutionAssumption DEF ExecInv
<1>a. ASSUME NEW e \in Executor, Forget(e), stray' \subseteq WriteTask, UNCHANGED <<repo, history>> PROVE OwnTypeOK'
  <2>1. [u \in Task |-> Idle] \in [Task -> WorkRow]
    BY DEF Idle, WorkRow, Places, Codes
  <2> QED
    BY <1>0, <1>a, <2>1 DEF OwnTypeOK, Forget, history, Codes, PcPlaces
<1>1. ASSUME NEW e \in Executor, ExecutorStep(e) PROVE OwnTypeOK'
  <2>1. CASE AcquireRun(e) \/ OpenCandidate(e) \/ GiveAnswers(e) \/ StartGraph(e) \/ OpeningLost(e) \/ GraphReturns(e)
    BY <1>0, <2>1 DEF AcquireRun, OpenCandidate, GiveAnswers, StartGraph, OpeningLost, GraphReturns, Goto, OwnTypeOK,
       PcPlaces, history
  <2>2. StopCode(e, {}) \in Codes /\ \A S \in SUBSET Erred(e) : StopCode(e, S) \in Codes
    BY <1>0, StopCodeKnown
  <2>3. CASE Recover(e)
    BY <1>0, <2>2, <2>3 DEF Recover, Goto, OwnTypeOK, PcPlaces, history
  <2>4. CASE GraphThrows(e)
    BY <1>0, <2>2, <2>4 DEF GraphThrows, Goto, OwnTypeOK, PcPlaces, history
  <2>5. CASE Settle(e) \/ Stop(e) \/ Acknowledge(e)
    BY <1>0, <2>2, <2>5 DEF Settle, Stop, Acknowledge, Goto, OwnTypeOK, PcPlaces, history
  <2>6. CASE Release(e)
    BY <1>0, <1>a, <2>6 DEF Release, Unfinished, OwnTypeOK
  <2> QED
    BY <1>1, <2>1, <2>3, <2>4, <2>5, <2>6, TaskTypeStep DEF ExecutorStep
<1>2. ASSUME NEW c \in Owner, CancellerStep(c) PROVE OwnTypeOK'
  BY <1>0, <1>2 DEF CancellerStep, CancelAppend, CancelObserve, CancelSettle, CancelAcknowledge, ControlRelease,
     Goto, OwnTypeOK, PcPlaces, history
<1>3. ASSUME NEW p \in Owner, PauserStep(p) PROVE OwnTypeOK'
  BY <1>0, <1>3 DEF PauserStep, PauseObserve, PauseRequest, PauseTake, PauseSettle, ControlRelease,
     Goto, OwnTypeOK, PcPlaces, history
<1>4. CASE Environment
  <2>1. CASE LeaseExpires
    BY <1>0, <2>1 DEF LeaseExpires, execVars, history, OwnTypeOK
  <2>2. ASSUME NEW e \in Executor, CheckResume(e) PROVE OwnTypeOK'
    BY <1>0, <2>2 DEF CheckResume, Goto, OwnTypeOK, PcPlaces, history
  <2>3. ASSUME NEW e \in Executor, Signal(e) PROVE OwnTypeOK'
    BY <1>0, <2>3, RunExecutionAssumption DEF Signal, OwnTypeOK, history
  <2>4. ASSUME NEW e \in Executor, Crash(e) PROVE OwnTypeOK'
    BY <1>0, <1>a, <2>4 DEF Crash, Unfinished, OwnTypeOK
  <2>5. ASSUME NEW e \in Executor, NEW t \in Task, Edit(e, t) PROVE OwnTypeOK'
    BY <1>0, <2>5 DEF Edit, OwnTypeOK, history
  <2>6. ASSUME NEW t \in WriteTask, Stray(t) PROVE OwnTypeOK'
    BY <1>0, <2>6 DEF Stray, OwnTypeOK, history
  <2> QED
    BY <1>4, <2>1, <2>2, <2>3, <2>4, <2>5, <2>6 DEF Environment
<1>5. CASE UNCHANGED vars
  BY <1>0, <1>5 DEF vars, execVars, history, OwnTypeOK
<1> QED
  BY <1>0, <1>1, <1>2, <1>3, <1>4, <1>5 DEF Next

-----------------------------------------------------------------------------
\* What a step of somebody else leaves an execution: its own variables, and the
\* rows as long as it owns the run.
LEMMA OthersLeave ==
  ASSUME ExecInv, [Next]_vars, NEW e \in Executor, ~ExecutorStep(e), ~CheckResume(e), ~Crash(e)
  PROVE  /\ work'[e] = work[e] /\ pc'[e] = pc[e] /\ code'[e] = code[e]
         /\ holder' = e => holder = e /\ UNCHANGED <<epoch, run, attempt>>
<1>0. /\ OwnTypeOK /\ e \in Owner /\ Executor \subseteq Owner /\ e # NoOwner
      /\ e \notin Canceller /\ e \notin Pauser
  BY TypesSplit, RunExecutionAssumption, FencedLeaseAssumption DEF ExecInv
<1>1. ASSUME NEW d \in Executor, d # e, ExecutorStep(d)
      PROVE  /\ work'[e] = work[e] /\ pc'[e] = pc[e] /\ code'[e] = code[e]
             /\ holder' = e => holder = e /\ UNCHANGED <<epoch, run, attempt>>
  <2>1. CASE AcquireRun(d) \/ OpenCandidate(d) \/ GiveAnswers(d) \/ Recover(d) \/ StartGraph(d) \/ OpeningLost(d)
    BY <1>0, <1>1, <2>1 DEF AcquireRun, OpenCandidate, GiveAnswers, Recover, StartGraph, OpeningLost, Goto, OwnTypeOK,
       Take, Commit, InitializeCandidate, AnswerInterrupts, AuthorizeRecovery, Resumed, leaseVars, ledgerVars
  <2>2. CASE GraphReturns(d) \/ GraphThrows(d) \/ Settle(d) \/ Stop(d) \/ Acknowledge(d)
    BY <1>0, <1>1, <2>2 DEF GraphReturns, GraphThrows, Settle, Stop, Acknowledge, Goto, OwnTypeOK,
       Commit, SettlePause, ExecutionStopped, AcknowledgeCancellation, leaseVars, ledgerVars
  <2>3. CASE Release(d)
    BY <1>0, <1>1, <2>3 DEF Release, Drop, Forget, OwnTypeOK, leaseVars, ledgerVars
  <2>4. ASSUME NEW t \in Task, TaskOf(d, t)
        PROVE  /\ work'[e] = work[e] /\ pc'[e] = pc[e] /\ code'[e] = code[e]
               /\ holder' = e => holder = e /\ UNCHANGED <<epoch, run, attempt>>
    <3>1. pc'[e] = pc[e] /\ code'[e] = code[e]
      BY <2>4 DEF TaskOf, EnterTask, RefuseTask, Begin, Abandon, Finish, Retry, Uncertain, Ask, Mark, CommitTask,
         CommitAsk, CommitThrown, TaskLost
    <3>2. work'[e] = work[e]
      <4>1. \E w : Move(d, t, w)
        BY <2>4 DEF TaskOf, EnterTask, RefuseTask, Begin, Abandon, Finish, Retry, Uncertain, Ask, Mark, CommitTask,
           CommitAsk, CommitThrown, TaskLost, Place, Err
      <4> QED
        BY <1>0, <1>1, <4>1 DEF Move, OwnTypeOK
    <3>3. holder' = e => holder = e /\ UNCHANGED <<epoch, run, attempt>>
      <4>1. CASE Commit(d)
        BY <1>1, <4>1 DEF Commit
      <4>2. CASE UNCHANGED <<leaseVars, ledgerVars>>
        BY <4>2 DEF leaseVars, ledgerVars
      <4> QED
        BY <2>4, <4>1, <4>2 DEF TaskOf, EnterTask, RefuseTask, Begin, Abandon, Finish, Retry, Uncertain, Ask, Mark,
           CommitTask, CommitAsk, CommitThrown, TaskLost, Admit, Continue, PrepareInterruption, Fail, CommitTerminal,
           CommitInterrupt, CommitError
    <3> QED
      BY <3>1, <3>2, <3>3
  <2> QED
    BY <1>1, <2>1, <2>2, <2>3, <2>4 DEF ExecutorStep
<1>2. ASSUME NEW c \in Canceller, CancellerStep(c)
      PROVE  /\ work'[e] = work[e] /\ pc'[e] = pc[e] /\ code'[e] = code[e]
             /\ holder' = e => holder = e /\ UNCHANGED <<epoch, run, attempt>>
  BY <1>0, <1>2, RunExecutionAssumption DEF CancellerStep, CancelAppend, CancelObserve, CancelSettle,
     CancelAcknowledge, ControlRelease, Goto, OwnTypeOK, Take, Drop, Commit, CancelSettled, AcknowledgeCancellation,
     AppendControl, leaseVars, ledgerVars
<1>3. ASSUME NEW p \in Pauser, PauserStep(p)
      PROVE  /\ work'[e] = work[e] /\ pc'[e] = pc[e] /\ code'[e] = code[e]
             /\ holder' = e => holder = e /\ UNCHANGED <<epoch, run, attempt>>
  BY <1>0, <1>3, RunExecutionAssumption DEF PauserStep, PauseObserve, PauseRequest, PauseTake, PauseSettle,
     ControlRelease, Goto, OwnTypeOK, Take, Drop, Commit, PauseSettled, AppendControl, leaseVars, ledgerVars
<1>4. CASE Environment
  <2>1. CASE LeaseExpires
    BY <1>0, <2>1 DEF LeaseExpires, Drop, execVars
  <2>2. ASSUME NEW d \in Executor, d # e, CheckResume(d) \/ Crash(d)
        PROVE  /\ work'[e] = work[e] /\ pc'[e] = pc[e] /\ code'[e] = code[e]
               /\ holder' = e => holder = e /\ UNCHANGED <<epoch, run, attempt>>
    BY <1>0, <2>2 DEF CheckResume, Crash, Forget, Goto, OwnTypeOK, leaseVars, ledgerVars
  <2>3. ASSUME NEW d \in Executor, Signal(d) \/ \E t \in Task : Edit(d, t)
        PROVE  /\ work'[e] = work[e] /\ pc'[e] = pc[e] /\ code'[e] = code[e]
               /\ holder' = e => holder = e /\ UNCHANGED <<epoch, run, attempt>>
    BY <2>3 DEF Signal, Edit, leaseVars, ledgerVars
  <2>4. ASSUME NEW t \in WriteTask, Stray(t)
        PROVE  /\ work'[e] = work[e] /\ pc'[e] = pc[e] /\ code'[e] = code[e]
               /\ holder' = e => holder = e /\ UNCHANGED <<epoch, run, attempt>>
    BY <2>4 DEF Stray, leaseVars, ledgerVars
  <2> QED
    BY <1>4, <2>1, <2>2, <2>3, <2>4 DEF Environment
<1>5. CASE UNCHANGED vars
  BY <1>5 DEF vars, execVars, leaseVars, ledgerVars
<1> QED
  BY <1>1, <1>2, <1>3, <1>4, <1>5 DEF Next

\* What a step of one task leaves the other tasks of its execution.
LEMMA TaskLeaves ==
  ASSUME ExecInv, NEW e \in Executor, NEW t \in Task, TaskOf(e, t)
  PROVE  /\ UNCHANGED <<pc, sig, code, holder, epoch>>
         /\ \A u \in Task \ {t} : work'[e][u] = work[e][u] /\ attempt'[u] = attempt[u]
<1>0. OwnTypeOK /\ attempt \in [Task -> AttemptRow]
  BY TypesSplit DEF ExecInv, LedgerTypeOK
<1>1. UNCHANGED <<pc, sig, code, holder, epoch>>
  BY DEF TaskOf, EnterTask, RefuseTask, Begin, Abandon, Finish, Retry, Uncertain, Ask, Mark, CommitTask,
     CommitAsk, CommitThrown, TaskLost, Admit, Continue, PrepareInterruption, Fail, CommitTerminal, CommitInterrupt,
     CommitError, Commit, leaseVars
<1>2. \E w : Move(e, t, w)
  BY DEF TaskOf, EnterTask, RefuseTask, Begin, Abandon, Finish, Retry, Uncertain, Ask, Mark, CommitTask,
     CommitAsk, CommitThrown, TaskLost, Place, Err
<1>3. \A u \in Task \ {t} : work'[e][u] = work[e][u]
  BY <1>0, <1>2 DEF Move, OwnTypeOK
<1>4. \/ UNCHANGED ledgerVars \/ Admit(e, t) \/ Continue(e, t) \/ PrepareInterruption(e, t) \/ Fail(e, t)
      \/ (\E r : CommitTerminal(e, t, r)) \/ CommitInterrupt(e, t) \/ CommitError(e, t)
  BY DEF TaskOf, EnterTask, RefuseTask, Begin, Abandon, Finish, Retry, Uncertain, Ask, Mark, CommitTask,
     CommitAsk, CommitThrown, TaskLost
<1>5. \A u \in Task \ {t} : attempt'[u] = attempt[u]
  BY <1>0, <1>4 DEF Admit, Continue, PrepareInterruption, Fail, CommitTerminal, CommitInterrupt, CommitError, ledgerVars
<1> QED
  BY <1>1, <1>3, <1>5

\* WorkSound is kept: a call starts with idle work, and only a task that
\* computed its marker is marked.
LEMMA WorkSoundStep == ExecInv /\ [Next]_vars => WorkSound'
<1> SUFFICES ASSUME ExecInv, [Next]_vars, NEW e \in Executor
             PROVE  /\ pc'[e] \notin {"graph", "settling", "stopping", "acking", "releasing"} => \A t \in Task : work'[e][t] = Idle
                    /\ \A t \in Task : work'[e][t].at = "marked" => work'[e][t].result \in Result
                    /\ \A t \in Task : work'[e][t].at = "erred" => work'[e][t].err # "none"
                    /\ pc'[e] = "stopping" => code'[e] # "none"
  BY DEF WorkSound, At
<1>0. /\ OwnTypeOK /\ ExecTypeOK /\ WorkSound /\ e \in Owner
  BY TypesSplit, RunExecutionAssumption DEF ExecInv
<1>1. /\ pc[e] \notin {"graph", "settling", "stopping", "acking", "releasing"} => \A t \in Task : work[e][t] = Idle
      /\ \A t \in Task : work[e][t].at = "marked" => work[e][t].result \in Result
      /\ \A t \in Task : work[e][t].at = "erred" => work[e][t].err # "none"
      /\ pc[e] = "stopping" => code[e] # "none"
  BY <1>0 DEF WorkSound, At
<1>2. CASE ~ExecutorStep(e) /\ ~CheckResume(e) /\ ~Crash(e)
  BY <1>1, <1>2, OthersLeave
<1>3. CASE Crash(e) \/ Release(e)
  <2>1. pc'[e] = "idle" /\ \A t \in Task : work'[e][t] = Idle
    BY <1>0, <1>3 DEF Crash, Release, Forget, OwnTypeOK
  <2> QED
    BY <2>1 DEF Idle
<1>4. CASE CheckResume(e)
  BY <1>0, <1>1, <1>4 DEF CheckResume, Goto, OwnTypeOK
<1>5. ASSUME NEW t \in Task, TaskOf(e, t)
      PROVE  /\ work'[e][t].at = "marked" => work'[e][t].result \in Result
             /\ work'[e][t].at = "erred" => work'[e][t].err # "none"
  <2>1. ASSUME NEW place \in Places \ {"marked", "erred"}, Place(e, t, place)
        PROVE  work'[e][t].at \notin {"marked", "erred"}
    <3>1. work'[e][t] = [Idle EXCEPT !.at = place]
      BY <1>0, <2>1, MoveOne DEF Place
    <3> QED
      BY <2>1, <3>1 DEF Idle
  <2>2. ASSUME NEW c \in Codes \ {"none"}, Err(e, t, c)
        PROVE  work'[e][t].at = "erred" /\ work'[e][t].err # "none"
    <3>1. work'[e][t] = [Idle EXCEPT !.at = "erred", !.err = c]
      BY <1>0, <2>2, MoveOne DEF Err
    <3> QED
      BY <2>2, <3>1 DEF Idle
  <2>3. CASE EnterTask(e, t) \/ Begin(e, t) \/ Abandon(e, t) \/ Retry(e, t) \/ Uncertain(e, t) \/ Ask(e, t)
             \/ CommitTask(e, t) \/ CommitAsk(e, t)
    BY <2>1, <2>3 DEF EnterTask, Begin, Abandon, Retry, Uncertain, Ask, CommitTask, CommitAsk, Places
  <2>4. CASE RefuseTask(e, t) \/ CommitThrown(e, t) \/ TaskLost(e, t)
    BY <2>2, <2>4 DEF RefuseTask, CommitThrown, TaskLost, Codes
  <2>5. CASE Finish(e, t)
    <3>1. PICK saw : Move(e, t, [Idle EXCEPT !.at = "operated", !.saw = saw])
      BY <2>5 DEF Finish
    <3>2. work'[e][t].at = "operated"
      <4>1. work'[e][t] = [Idle EXCEPT !.at = "operated", !.saw = saw]
        BY <1>0, <3>1, MoveOne
      <4> QED
        BY <4>1 DEF Idle
    <3> QED
      BY <3>2
  <2>6. CASE Mark(e, t)
    <3>1. CASE Place(e, t, "thrown")
      BY <2>1, <3>1 DEF Places
    <3>2. CASE /\ t \in WriteTask => Revision < MaxRevision
               /\ Move(e, t, [work[e][t] EXCEPT !.at = "marked", !.result = Finalized(t, work[e][t].saw)])
      <4>1. work[e][t] \in WorkRow
        BY <1>0 DEF OwnTypeOK
      <4>2. Finalized(t, work[e][t].saw) \in Result
        BY <1>0, <3>2, <4>1, FinalizedResult DEF WorkRow
      <4>3. work'[e][t] = [work[e][t] EXCEPT !.at = "marked", !.result = Finalized(t, work[e][t].saw)]
        BY <1>0, <3>2, MoveOne
      <4> QED
        BY <4>1, <4>2, <4>3 DEF WorkRow
    <3> QED
      BY <2>6, <3>1, <3>2 DEF Mark
  <2> QED
    BY <1>5, <2>3, <2>4, <2>5, <2>6 DEF TaskOf
<1>6. CASE \E t \in Task : TaskOf(e, t)
  <2>1. PICK t \in Task : TaskOf(e, t)
    BY <1>6
  <2>2. pc[e] = "graph"
    BY <2>1 DEF TaskOf, EnterTask, RefuseTask, Begin, Abandon, Finish, Retry, Uncertain, Ask, Mark, CommitTask,
       CommitAsk, CommitThrown, TaskLost
  <2> QED
    BY <1>1, <1>5, <2>1, <2>2, TaskLeaves
<1>7. StopCode(e, {}) # "none" /\ \A S \in SUBSET Erred(e) : StopCode(e, S) # "none"
  BY <1>0, StopCodeKnown
<1>8. CASE AcquireRun(e) \/ OpenCandidate(e) \/ GiveAnswers(e) \/ StartGraph(e) \/ OpeningLost(e) \/ GraphReturns(e)
  BY <1>0, <1>1, <1>8 DEF AcquireRun, OpenCandidate, GiveAnswers, StartGraph, OpeningLost, GraphReturns, Goto, OwnTypeOK
<1>9. CASE Recover(e)
  BY <1>0, <1>1, <1>7, <1>9 DEF Recover, Goto, OwnTypeOK
<1>10. CASE GraphThrows(e)
  BY <1>0, <1>1, <1>7, <1>10 DEF GraphThrows, Goto, OwnTypeOK
<1>11. CASE Settle(e) \/ Stop(e) \/ Acknowledge(e)
  BY <1>0, <1>1, <1>7, <1>11 DEF Settle, Stop, Acknowledge, Goto, OwnTypeOK
<1> QED
  BY <1>2, <1>3, <1>4, <1>6, <1>8, <1>9, <1>10, <1>11 DEF ExecutorStep

\* Where a step leaves its task: either the task enters, or it was in flight, or
\* it is not in flight afterwards.
LEMMA TaskMoves ==
  ASSUME ExecInv, NEW e \in Executor, NEW t \in Task, TaskOf(e, t)
  PROVE  \/ EnterTask(e, t)
         \/ At(e, t) \in InFlight /\ (attempt'[t] = attempt[t] \/ attempt'[t] = [attempt[t] EXCEPT !.staged = TRUE])
         \/ At(e, t)' \notin InFlight
<1>0. OwnTypeOK /\ ExecTypeOK /\ attempt \in [Task -> AttemptRow]
  BY TypesSplit DEF ExecInv, LedgerTypeOK
<1>a. ASSUME NEW place \in {"idle", "waiting", "done"}, Place(e, t, place) PROVE At(e, t)' \notin InFlight
  <2>1. work'[e][t] = [Idle EXCEPT !.at = place]
    BY <1>0, <1>a, MoveOne DEF Place
  <2> QED
    BY <1>a, <2>1 DEF Idle, At, InFlight
<1>b. ASSUME NEW c, Err(e, t, c) PROVE At(e, t)' \notin InFlight
  <2>1. work'[e][t] = [Idle EXCEPT !.at = "erred", !.err = c]
    BY <1>0, <1>b, MoveOne DEF Err
  <2> QED
    BY <2>1 DEF Idle, At, InFlight
<1>1. CASE Begin(e, t) \/ Finish(e, t) \/ Ask(e, t) \/ Mark(e, t)
  BY <1>1 DEF Begin, Finish, Ask, Mark, InFlight, ledgerVars
<1>2. CASE Abandon(e, t) \/ Uncertain(e, t)
  BY <1>0, <1>2 DEF Abandon, Uncertain, PrepareInterruption, InFlight, ledgerVars
<1>3. CASE Retry(e, t) \/ CommitTask(e, t) \/ CommitAsk(e, t)
  BY <1>a, <1>3 DEF Retry, CommitTask, CommitAsk
<1>4. CASE RefuseTask(e, t) \/ CommitThrown(e, t) \/ TaskLost(e, t)
  BY <1>b, <1>4 DEF RefuseTask, CommitThrown, TaskLost
<1> QED
  BY <1>1, <1>2, <1>3, <1>4 DEF TaskOf

\* FlightSound is kept: what runs under the lease is the running attempt of its
\* tenure.
LEMMA FlightSoundStep == ExecInv /\ [Next]_vars => FlightSound'
<1> SUFFICES ASSUME ExecInv, [Next]_vars, NEW e \in Executor, NEW t \in Task,
                    holder' = e, work'[e][t].at \in InFlight
             PROVE  attempt'[t].n > 0 /\ attempt'[t].epoch = epoch' /\ attempt'[t].status = "running"
  BY DEF FlightSound, Framed, At
<1>0. /\ OwnTypeOK /\ ExecTypeOK /\ WorkSound /\ e \in Owner /\ e # NoOwner
      /\ attempt \in [Task -> AttemptRow] /\ epoch \in Nat
  BY TypesSplit, RunExecutionAssumption, FencedLeaseAssumption DEF ExecInv, LedgerTypeOK, FencedTypeOK
<1>1. ASSUME holder = e, work[e][t].at \in InFlight
      PROVE  attempt[t].n > 0 /\ attempt[t].epoch = epoch /\ attempt[t].status = "running"
  BY <1>1 DEF ExecInv, FlightSound, Framed, At
<1>2. CASE ~ExecutorStep(e) /\ ~CheckResume(e) /\ ~Crash(e)
  BY <1>1, <1>2, OthersLeave
<1>3. CASE Crash(e) \/ Release(e)
  BY <1>0, <1>3 DEF Crash, Release, Forget, OwnTypeOK, Idle, InFlight
<1>4. CASE CheckResume(e)
  BY <1>1, <1>4 DEF CheckResume, leaseVars, ledgerVars
<1>5. ASSUME NEW u \in Task, TaskOf(e, u), u # t
      PROVE  attempt'[t].n > 0 /\ attempt'[t].epoch = epoch' /\ attempt'[t].status = "running"
  BY <1>1, <1>5, TaskLeaves
<1>6. CASE TaskOf(e, t)
  <2>1. CASE EnterTask(e, t)
    <3>1. CASE Admit(e, t)
      BY <1>0, <3>1 DEF Admit, Commit, NoAttempt, AttemptRow
    <3>2. CASE Continue(e, t)
      BY <1>0, <3>2 DEF Continue, Commit, AttemptRow, ExecInv, LedgerInv, AttemptsConsistent
    <3> QED
      BY <2>1, <3>1, <3>2 DEF EnterTask
  <2>2. CASE At(e, t) \in InFlight /\ (attempt'[t] = attempt[t] \/ attempt'[t] = [attempt[t] EXCEPT !.staged = TRUE])
    BY <1>0, <1>1, <1>6, <2>2, TaskLeaves DEF At, AttemptRow
  <2> QED
    BY <1>6, <2>1, <2>2, TaskMoves DEF At
<1>7. CASE pc[e] \notin {"graph", "settling", "stopping", "acking", "releasing"} /\ UNCHANGED work
  BY <1>0, <1>7 DEF WorkSound, Idle, InFlight
<1>8. CASE AcquireRun(e) \/ OpenCandidate(e) \/ GiveAnswers(e) \/ Recover(e) \/ StartGraph(e) \/ OpeningLost(e)
  BY <1>7, <1>8 DEF AcquireRun, OpenCandidate, GiveAnswers, Recover, StartGraph, OpeningLost
<1>9. CASE GraphReturns(e) \/ GraphThrows(e) \/ Settle(e) \/ Stop(e) \/ Acknowledge(e)
  BY <1>1, <1>9 DEF GraphReturns, GraphThrows, Settle, Stop, Acknowledge, SettlePause, ExecutionStopped,
     AcknowledgeCancellation, Commit, leaseVars, ledgerVars
<1> QED
  BY <1>2, <1>3, <1>4, <1>5, <1>6, <1>8, <1>9 DEF ExecutorStep

-----------------------------------------------------------------------------
\* In the initial state nothing has moved.
LEMMA ExecInitInv == Init => ExecInv
<1> SUFFICES ASSUME Init PROVE ExecInv
  OBVIOUS
<1>1. LedgerInv
  BY LedgerInitInv DEF Init
<1>2. OwnTypeOK
  BY RunExecutionAssumption DEF Init, OwnTypeOK, PcPlaces, Codes, WorkRow, Places, Idle
<1>3. WorkSound
  BY RunExecutionAssumption DEF Init, WorkSound, Idle, At
<1>4. FlightSound
  BY DEF Init, FlightSound, Idle, At, InFlight
<1> QED
  BY <1>1, <1>2, <1>3, <1>4, TypesSplit DEF ExecInv, LedgerInv

\* Every step keeps ExecInv: the part of the ledger by its own lemmas, since the
\* step is one of the ledger's.
LEMMA ExecInvStep == ExecInv /\ [Next]_vars => ExecInv'
<1> SUFFICES ASSUME ExecInv, [Next]_vars PROVE ExecInv'
  OBVIOUS
<1>1. LedgerInv'
  BY LedgerStep, LedgerTypeStep, ConsistentStep, CertifiedStep DEF ExecInv, LedgerInv
<1>2. OwnTypeOK' /\ WorkSound' /\ FlightSound'
  BY OwnTypeStep, WorkSoundStep, FlightSoundStep
<1>3. ExecTypeOK'
  BY <1>1, <1>2 DEF LedgerInv, ExecTypeOK, OwnTypeOK, PcPlaces, WorkRow
<1> QED
  BY <1>1, <1>2, <1>3 DEF ExecInv

\* Types, the ledger's invariant and what an execution knows of its tasks hold
\* throughout (runs.ts, compiler.ts, execution.ts).
THEOREM ExecutionInvariant == Spec => []ExecInv
  BY ExecInitInv, ExecInvStep, PTL DEF Spec

\* The executions keep to their types.
THEOREM ExecutionTypes == Spec => []ExecTypeOK
<1>1. ExecInv => ExecTypeOK
  BY DEF ExecInv
<1> QED
  BY <1>1, ExecutionInvariant, PTL

\* Every transaction the executions and the control calls make is one of the
\* ledger's, made under the conditions the ledger relies on, so what is proved of
\* the ledger holds of a run (execution.ts, runs.ts).
THEOREM ExecutionRefinesLedger == Spec => ImplementsLedger
<1>1. Init => LedgerInit
  BY DEF Init
<1>2. ExecInv /\ [Next]_vars => [LedgerNext]_<<leaseVars, ledgerVars>>
  BY LedgerStep DEF allVars
<1> QED
  BY <1>1, <1>2, ExecutionInvariant, PTL DEF Spec, ImplementsLedger, LedgerSpec
-----------------------------------------------------------------------------
(***************************************************************************)
(* The safety of the executions: no write operates twice without a         *)
(* recovery, every marker that was computed under the effect gate commits, *)
(* a paused execution has drained, cancelRun settles what it takes, a      *)
(* completed run stays as it is, what is delivered is certified, and a     *)
(* certified candidate is the working tree.                                *)
(*                                                                         *)
(* Each property has an inductive invariant of its own, relative to        *)
(* ExecInv. Whatever a step does, it is about one task at most             *)
(* (StepsOfTask), so each proof looks only at the node body of that task.  *)
(***************************************************************************)

\* What a step that is not about task t leaves of it.
Elsewhere(t) ==
  /\ attempt'[t] = attempt[t]
  /\ t \in WriteTask => began'[t] = began[t]
  /\ \A e \in Executor :
       \/ work'[e][t] = Idle
       \/ work'[e][t] = work[e][t] /\ (holder' = e => holder = e)

\* A step is about task t only when it is one of its node body, or authorizes
\* its recovery.
LEMMA StepsOfTask ==
  ASSUME ExecInv, [Next]_vars, NEW t \in Task
  PROVE  \/ \E e \in Executor : TaskOf(e, t)
         \/ \E e \in Executor : Recover(e) /\ t \in WriteTask /\ AuthorizeRecovery(e, t) /\ began' = [began EXCEPT ![t] = 0]
         \/ Elsewhere(t)
<1>0. /\ OwnTypeOK /\ LedgerTypeOK /\ WorkSound
      /\ Executor \subseteq Owner /\ NoOwner \notin Executor
      /\ Executor \intersect Canceller = {} /\ Executor \intersect Pauser = {}
      /\ attempt \in [Task -> AttemptRow] /\ WriteTask \subseteq Task
  BY TypesSplit, RunExecutionAssumption, FencedLeaseAssumption, RunLedgerAssumption DEF ExecInv, LedgerTypeOK
<1>a. ASSUME UNCHANGED <<attempt, work, began>>, \A e \in Executor : holder' = e => holder = e
      PROVE  Elsewhere(t)
  BY <1>a DEF Elsewhere
<1>b. ASSUME UNCHANGED ledgerVars PROVE UNCHANGED attempt
  BY <1>b DEF ledgerVars
<1>c. ASSUME UNCHANGED leaseVars PROVE UNCHANGED holder
  BY <1>c DEF leaseVars
<1>d. ASSUME NEW e \in Executor, Forget(e), UNCHANGED <<attempt, history>>,
             \A d \in Executor : holder' = d => holder = d
      PROVE  Elsewhere(t)
  <2>1. work'[e][t] = Idle /\ \A d \in Executor \ {e} : work'[d][t] = work[d][t]
    BY <1>0, <1>d DEF Forget, OwnTypeOK
  <2> QED
    BY <1>d, <2>1 DEF Elsewhere, history
<1>e. ASSUME NEW o, Drop \/ Commit(o) PROVE \A d \in Executor : holder' = d => holder = d
  BY <1>0, <1>e DEF Drop, Commit
<1>1. ASSUME NEW e \in Executor, ExecutorStep(e)
      PROVE  \/ TaskOf(e, t)
             \/ Recover(e) /\ t \in WriteTask /\ AuthorizeRecovery(e, t) /\ began' = [began EXCEPT ![t] = 0]
             \/ Elsewhere(t)
  <2>1. CASE AcquireRun(e)
    <3>1. CASE Take(e)
      <4>1. work[e][t] = Idle
        BY <1>0, <2>1 DEF AcquireRun, WorkSound
      <4> QED
        BY <1>0, <2>1, <3>1, <4>1 DEF AcquireRun, Take, Elsewhere, ledgerVars, history
    <3> QED
      BY <1>a, <2>1, <3>1 DEF AcquireRun, leaseVars, ledgerVars, history
  <2>2. CASE OpenCandidate(e) \/ GiveAnswers(e) \/ StartGraph(e) \/ OpeningLost(e)
    BY <1>a, <2>2 DEF OpenCandidate, GiveAnswers, StartGraph, OpeningLost, InitializeCandidate, AnswerInterrupts,
       Commit, leaseVars, ledgerVars, history
  <2>3. CASE Recover(e)
    <3>1. ASSUME NEW u \in WriteTask, AuthorizeRecovery(e, u), began' = [began EXCEPT ![u] = 0], u # t, work' = work
          PROVE  Elsewhere(t)
      BY <1>0, <1>e, <3>1 DEF AuthorizeRecovery, Elsewhere, OwnTypeOK
    <3>2. CASE UNCHANGED <<leaseVars, ledgerVars, history>> /\ work' = work
      BY <1>a, <3>2 DEF leaseVars, ledgerVars, history
    <3>3. CASE Resumed(e) /\ UNCHANGED history /\ work' = work
      BY <1>a, <1>e, <3>3 DEF Resumed, history
    <3> QED
      BY <2>3, <3>1, <3>2, <3>3 DEF Recover
  <2>4. ASSUME NEW u \in Task, TaskOf(e, u), u # t PROVE Elsewhere(t)
    <3>1. attempt'[t] = attempt[t] /\ work'[e][t] = work[e][t] /\ UNCHANGED holder
      BY <2>4, TaskLeaves
    <3>2. \E w : Move(e, u, w)
      BY <2>4 DEF TaskOf, EnterTask, RefuseTask, Begin, Abandon, Finish, Retry, Uncertain, Ask, Mark, CommitTask,
         CommitAsk, CommitThrown, TaskLost, Place, Err
    <3>3. \A d \in Executor \ {e} : work'[d][t] = work[d][t]
      BY <1>0, <3>2 DEF Move, OwnTypeOK
    <3>4. began' = began \/ (u \in WriteTask /\ \E k : began' = [began EXCEPT ![u] = k])
      <4>1. CASE Begin(e, u)
        <5>1. [began EXCEPT ![u] = @ + 1] = [began EXCEPT ![u] = began[u] + 1]
          OBVIOUS
        <5> QED
          BY <4>1, <5>1 DEF Begin
      <4> QED
        BY <2>4, <4>1 DEF TaskOf, EnterTask, RefuseTask, Abandon, Finish, Retry, Uncertain, Ask, Mark, CommitTask,
           CommitAsk, CommitThrown, TaskLost, history
    <3>5. t \in WriteTask => began'[t] = began[t]
      BY <1>0, <2>4, <3>4 DEF OwnTypeOK
    <3> QED
      BY <3>1, <3>3, <3>5 DEF Elsewhere
  <2>5. CASE GraphReturns(e) \/ GraphThrows(e) \/ Settle(e) \/ Stop(e) \/ Acknowledge(e)
    BY <1>a, <2>5 DEF GraphReturns, GraphThrows, Settle, Stop, Acknowledge, SettlePause, ExecutionStopped,
       AcknowledgeCancellation, Commit, leaseVars, ledgerVars, history
  <2>6. CASE Release(e)
    BY <1>b, <1>c, <1>d, <1>e, <2>6 DEF Release
  <2> QED
    BY <1>1, <2>1, <2>2, <2>3, <2>4, <2>5, <2>6 DEF ExecutorStep
<1>2. ASSUME NEW c \in Canceller, CancellerStep(c) PROVE Elsewhere(t)
  BY <1>0, <1>a, <1>2 DEF CancellerStep, CancelAppend, CancelObserve, CancelSettle, CancelAcknowledge, ControlRelease,
     Take, Drop, Commit, CancelSettled, AcknowledgeCancellation, AppendControl, leaseVars, ledgerVars, history
<1>3. ASSUME NEW p \in Pauser, PauserStep(p) PROVE Elsewhere(t)
  BY <1>0, <1>a, <1>3 DEF PauserStep, PauseObserve, PauseRequest, PauseTake, PauseSettle, ControlRelease,
     Take, Drop, Commit, PauseSettled, AppendControl, leaseVars, ledgerVars, history
<1>4. CASE Environment
  <2>1. CASE LeaseExpires
    BY <1>a, <1>b, <1>e, <2>1 DEF LeaseExpires, execVars, history
  <2>2. ASSUME NEW e \in Executor, CheckResume(e) \/ Signal(e) \/ \E u \in Task : Edit(e, u) PROVE Elsewhere(t)
    BY <1>a, <2>2 DEF CheckResume, Signal, Edit, leaseVars, ledgerVars, history
  <2>3. ASSUME NEW e \in Executor, Crash(e) PROVE Elsewhere(t)
    BY <1>b, <1>c, <1>d, <2>3 DEF Crash
  <2>4. ASSUME NEW u \in WriteTask, Stray(u) PROVE Elsewhere(t)
    BY <1>a, <2>4 DEF Stray, leaseVars, ledgerVars, history
  <2> QED
    BY <1>4, <2>1, <2>2, <2>3, <2>4 DEF Environment
<1>5. CASE UNCHANGED vars
  BY <1>a, <1>5 DEF vars, execVars, leaseVars, ledgerVars, history
<1> QED
  BY <1>1, <1>2, <1>3, <1>4, <1>5 DEF Next

-----------------------------------------------------------------------------
\* What is known of the operations of one write: while they may have begun, its
\* attempt is unresolved; what was authorized has no operation begun, and is not
\* in flight.
WriteSound(t) ==
  /\ began[t] <= 1
  /\ attempt[t].authorized => began[t] = 0
  /\ began[t] > 0 /\ ~attempt[t].terminal => attempt[t].status \in {"running", "interrupted"}
  /\ attempt[t].status # "paused"
  /\ \A e \in Executor :
       /\ At(e, t) # "asking"
       /\ holder = e /\ At(e, t) \in InFlight => ~attempt[t].authorized
       /\ holder = e /\ At(e, t) = "admitted" => began[t] = 0

WriteInv == \A t \in WriteTask : WriteSound(t)

\* WriteSound is kept by the node body of the write.
LEMMA WriteTaskStep ==
  ASSUME ExecInv, NEW e \in Executor, NEW t \in WriteTask, TaskOf(e, t), WriteSound(t)
  PROVE  WriteSound(t)'
<1>0. /\ OwnTypeOK /\ ExecTypeOK /\ t \in Task /\ attempt[t] \in AttemptRow /\ attempt \in [Task -> AttemptRow]
      /\ t \notin Human /\ began \in [WriteTask -> Nat] /\ AttemptsConsistent /\ FlightSound
  BY TypesSplit, RunExecutionAssumption, RunLedgerAssumption DEF ExecInv, LedgerTypeOK, OwnTypeOK, LedgerInv
<1>1. holder' = holder /\ epoch' = epoch
  BY <1>0, TaskLeaves
<1>2. \A d \in Executor \ {e} : work'[d][t] = work[d][t]
  <2>1. \E w : Move(e, t, w)
    BY DEF TaskOf, EnterTask, RefuseTask, Begin, Abandon, Finish, Retry, Uncertain, Ask, Mark, CommitTask,
       CommitAsk, CommitThrown, TaskLost, Place, Err
  <2> QED
    BY <1>0, <2>1 DEF Move, OwnTypeOK
<1>3. \A d \in Executor \ {e} : holder = e => holder' # d
  BY <1>1
<1>p. ASSUME NEW place \in Places, Place(e, t, place) PROVE work'[e][t].at = place
  <2>1. work'[e][t] = [Idle EXCEPT !.at = place]
    BY <1>0, <1>p, MoveOne DEF Place
  <2> QED
    BY <2>1 DEF Idle
<1>q. ASSUME NEW c, Err(e, t, c) PROVE work'[e][t].at = "erred"
  <2>1. work'[e][t] = [Idle EXCEPT !.at = "erred", !.err = c]
    BY <1>0, <1>q, MoveOne DEF Err
  <2> QED
    BY <2>1 DEF Idle
\* The write is neither admitted nor asks, and its rows are as they were.
<1>a. ASSUME attempt' = attempt, began' = began, work'[e][t].at \notin {"admitted", "asking"},
             holder = e => At(e, t) \in InFlight \/ work'[e][t].at \notin InFlight
      PROVE  WriteSound(t)'
  BY <1>1, <1>2, <1>a DEF WriteSound, At
<1>4. CASE EnterTask(e, t)
  <2>1. Admit(e, t) /\ work'[e][t].at = "admitted" /\ began' = began
    BY <1>p, <1>4 DEF EnterTask, Continue, WriteSound, Places, history
  <2>2. attempt'[t] = [NoAttempt EXCEPT !.n = attempt[t].n + 1, !.status = "running", !.epoch = epoch]
    BY <1>0, <2>1 DEF Admit
  <2>3. ~attempt'[t].authorized /\ attempt'[t].status = "running"
    BY <2>2 DEF NoAttempt
  <2>4. began[t] = 0
    BY <1>0, <2>1 DEF Admit, Refusal, WriteSound
  <2>5. holder = e
    BY <2>1 DEF Admit, Commit
  <2> QED
    BY <1>1, <1>2, <1>3, <2>1, <2>3, <2>4, <2>5 DEF WriteSound, At, InFlight
<1>5. CASE RefuseTask(e, t) \/ TaskLost(e, t)
  BY <1>a, <1>q, <1>5 DEF RefuseTask, TaskLost, InFlight, ledgerVars, history
<1>6. CASE Begin(e, t)
  <2>1. work'[e][t].at = "operating" /\ began'[t] = began[t] + 1 /\ attempt' = attempt /\ holder = e
    BY <1>0, <1>p, <1>6 DEF Begin, Places, ledgerVars
  <2>2. began[t] = 0 /\ ~attempt[t].authorized /\ attempt[t].status = "running"
    BY <1>0, <1>6, <2>1 DEF Begin, WriteSound, FlightSound, InFlight
  <2> QED
    BY <1>1, <1>2, <1>3, <2>1, <2>2 DEF WriteSound, At
<1>7. CASE Abandon(e, t) \/ Uncertain(e, t)
  <2>1. work'[e][t].at = "thrown" /\ began' = began /\ At(e, t) \in InFlight
    BY <1>p, <1>7 DEF Abandon, Uncertain, Places, history, InFlight
  <2>2. attempt'[t] = attempt[t] \/ attempt'[t] = [attempt[t] EXCEPT !.staged = TRUE]
    BY <1>0, <1>7 DEF Abandon, Uncertain, PrepareInterruption, ledgerVars
  <2>3. /\ attempt'[t].authorized = attempt[t].authorized /\ attempt'[t].status = attempt[t].status
        /\ attempt'[t].terminal = attempt[t].terminal
    BY <1>0, <2>2 DEF AttemptRow
  <2> QED
    BY <1>1, <1>2, <2>1, <2>3 DEF WriteSound, At
<1>8. CASE Finish(e, t)
  <2>1. PICK saw : Move(e, t, [Idle EXCEPT !.at = "operated", !.saw = saw])
    BY <1>8 DEF Finish
  <2>2. work'[e][t] = [Idle EXCEPT !.at = "operated", !.saw = saw]
    BY <1>0, <2>1, MoveOne
  <2>3. work'[e][t].at = "operated"
    BY <2>2 DEF Idle
  <2> QED
    BY <1>a, <1>8, <2>3 DEF Finish, InFlight, ledgerVars, history
<1>9. CASE Mark(e, t)
  <2>1. CASE Place(e, t, "thrown")
    BY <1>a, <1>p, <1>9, <2>1 DEF Mark, Places, InFlight, ledgerVars
  <2>2. CASE Move(e, t, [work[e][t] EXCEPT !.at = "marked", !.result = Finalized(t, work[e][t].saw)])
    <3>1. work'[e][t] = [work[e][t] EXCEPT !.at = "marked", !.result = Finalized(t, work[e][t].saw)]
      BY <1>0, <2>2, MoveOne
    <3>2. work[e][t] \in WorkRow
      BY <1>0 DEF OwnTypeOK
    <3>3. work'[e][t].at = "marked"
      BY <3>1, <3>2 DEF WorkRow
    <3> QED
      BY <1>a, <1>9, <3>3 DEF Mark, InFlight, ledgerVars
  <2> QED
    BY <1>9, <2>1, <2>2 DEF Mark
<1>10. CASE CommitTask(e, t)
  <2>1. PICK r : CommitTerminal(e, t, r)
    BY <1>10 DEF CommitTask
  <2>2. attempt'[t] = [attempt[t] EXCEPT !.status = work[e][t].result.status, !.terminal = TRUE]
    BY <1>0, <1>10 DEF CommitTask, CommitTerminal
  <2>3. work[e][t].result.status \in {"succeeded", "failed"}
    BY <1>0, <1>10 DEF CommitTask, ExecInv, WorkSound, Result
  <2>4. attempt'[t].terminal /\ attempt'[t].status # "paused" /\ attempt'[t].authorized = attempt[t].authorized
    BY <1>0, <2>2, <2>3 DEF AttemptRow
  <2>5. work'[e][t].at = "done" /\ began' = began
    BY <1>p, <1>10 DEF CommitTask, Places, history
  <2>6. holder = e
    BY <2>1 DEF CommitTerminal, Commit
  <2> QED
    BY <1>1, <1>2, <1>3, <2>4, <2>5, <2>6 DEF WriteSound, At, InFlight
<1>11. CASE CommitThrown(e, t)
  <2>1. /\ attempt'[t] = [attempt[t] EXCEPT !.status = "interrupted"] \/ attempt'[t] = [attempt[t] EXCEPT !.status = "failed"]
        /\ holder = e /\ At(e, t) = "thrown"
    BY <1>0, <1>11 DEF CommitThrown, CommitError, Commit
  <2>2. /\ attempt'[t].status \in {"interrupted", "failed"} /\ attempt'[t].authorized = attempt[t].authorized
    BY <1>0, <2>1 DEF AttemptRow
  <2>3. work'[e][t].at = "erred"
    BY <1>q, <1>11 DEF CommitThrown
  <2>4. ~attempt[t].authorized
    BY <2>1 DEF WriteSound, InFlight
  <2>5. began'[t] = IF attempt'[t].status = "failed" THEN 0 ELSE began[t]
    BY <1>0, <1>11 DEF CommitThrown
  <2>6. began'[t] <= 1 /\ (began'[t] > 0 => attempt'[t].status = "interrupted")
    BY <2>2, <2>5 DEF WriteSound
  <2> QED
    BY <1>1, <1>2, <1>3, <2>1, <2>2, <2>3, <2>4, <2>6 DEF WriteSound, At, InFlight
<1>12. ~Retry(e, t) /\ ~Ask(e, t) /\ ~CommitAsk(e, t)
  BY <1>0 DEF Retry, Ask, CommitAsk, WriteSound
<1> QED
  BY <1>4, <1>5, <1>6, <1>7, <1>8, <1>9, <1>10, <1>11, <1>12 DEF TaskOf

\* WriteInv is kept by every step.
LEMMA WriteInvStep == ExecInv /\ WriteInv /\ [Next]_vars => WriteInv'
<1> SUFFICES ASSUME ExecInv, WriteInv, [Next]_vars, NEW t \in WriteTask PROVE WriteSound(t)'
  BY DEF WriteInv
<1>0. WriteSound(t) /\ t \in Task /\ OwnTypeOK /\ WorkSound /\ attempt \in [Task -> AttemptRow]
  BY TypesSplit, RunLedgerAssumption DEF WriteInv, ExecInv, LedgerTypeOK
<1>1. ASSUME NEW e \in Executor, TaskOf(e, t) PROVE WriteSound(t)'
  BY <1>0, <1>1, WriteTaskStep
<1>2. ASSUME NEW e \in Executor, Recover(e), AuthorizeRecovery(e, t), began' = [began EXCEPT ![t] = 0]
      PROVE  WriteSound(t)'
  <2>1. began'[t] = 0 /\ work' = work /\ holder' = e
    BY <1>0, <1>2 DEF Recover, OwnTypeOK, AuthorizeRecovery, Commit
  <2>2. attempt'[t] = [attempt[t] EXCEPT !.authorized = TRUE] /\ attempt[t].status \in {"running", "interrupted"}
    BY <1>0, <1>2 DEF AuthorizeRecovery
  <2>3. attempt'[t].status # "paused"
    BY <1>0, <2>2 DEF AttemptRow
  <2>4. At(e, t) = "idle"
    BY <1>0, <1>2 DEF Recover, WorkSound, At, Idle
  <2> QED
    BY <1>0, <2>1, <2>3, <2>4 DEF WriteSound, At, InFlight
<1>3. ASSUME Elsewhere(t) PROVE WriteSound(t)'
  BY <1>0, <1>3 DEF Elsewhere, WriteSound, At, Idle, InFlight
<1> QED
  BY <1>0, <1>1, <1>2, <1>3, StepsOfTask

\* No operation has begun in the initial state.
LEMMA WriteInvInit == Init => WriteInv
<1> SUFFICES ASSUME Init, NEW t \in WriteTask PROVE WriteSound(t)
  BY DEF WriteInv
<1>1. t \in Task
  BY RunLedgerAssumption
<1> QED
  BY <1>1 DEF Init, LedgerInit, NoAttempt, WriteSound, At, Idle, InFlight

\* A write that was interrupted, by a crash, an abort or a lost lease, does not
\* operate again before a human authorized its recovery: whoever takes the run
\* over finds the attempt unresolved and is refused by enter (ledger.ts:111).
THEOREM NoSilentReplay == Spec => []WriteNeedsRecovery
<1>1. WriteInv => WriteNeedsRecovery
  BY DEF WriteInv, WriteSound, WriteNeedsRecovery
<1> QED
  BY <1>1, ExecutionInvariant, WriteInvInit, WriteInvStep, PTL DEF Spec

-----------------------------------------------------------------------------
\* A marker has the shape finalize gives it: a write proposes a candidate newer
\* than the one of the runs row, and certifies nothing else; a read proposes and
\* certifies nothing.
MarkerSound(t, r) ==
  IF t \in WriteTask
  THEN /\ r.candidate \in Candidate /\ r.candidate.revision > Revision
       /\ r.receipt # None => r.receipt = r.candidate.hash
       /\ r.verified \notin {None, Keep} => t \in Verifier /\ r.receipt # None /\ r.verified = r.candidate
  ELSE r.candidate = None /\ r.receipt = None /\ r.verified \in {None, Keep}

\* The places of a task between its gate and its commit.
Inside == {"operating", "operated", "marked"}

\* Two writes are never between their gate and their commit together, and what
\* they are about to commit is still new.
MarkerInv ==
  \A e \in Executor, t \in Task :
    /\ holder = e /\ At(e, t) = "marked" => MarkerSound(t, work[e][t].result)
    /\ t \in WriteTask /\ At(e, t) \in Inside =>
         \A u \in WriteTask \ {t} : At(e, u) \notin Inside

\* The marker of finalize is sound when it is made.
LEMMA FinalizedSound ==
  ASSUME ExecTypeOK, NEW t \in Task, NEW saw \in Hash \union {None}, t \in WriteTask => Revision < MaxRevision
  PROVE  MarkerSound(t, Finalized(t, saw))
<1>1. Revision \in Nat /\ MaxRevision \in Nat /\ repo \in Hash
  BY RunLedgerAssumption DEF ExecTypeOK, LedgerTypeOK, RunRow, Candidate, Revision
<1>2. CASE t \in WriteTask
  <2>1. [hash |-> repo, revision |-> Revision + 1] \in Candidate
    BY <1>1, <1>2 DEF Candidate
  <2>2. /\ Finalized(t, saw).candidate = [hash |-> repo, revision |-> Revision + 1]
        /\ Finalized(t, saw).receipt \in {repo, None}
        /\ \/ Finalized(t, saw).verified = None
           \/ /\ t \in Verifier /\ Finalized(t, saw).receipt = repo
              /\ Finalized(t, saw).verified = [hash |-> repo, revision |-> Revision + 1]
    BY <1>2 DEF Finalized
  <2>3. repo # None
    BY <1>1, RunExecutionAssumption
  <2> HIDE DEF Finalized
  <2> QED
    BY <1>1, <1>2, <2>1, <2>2, <2>3 DEF MarkerSound
<1>3. CASE t \notin WriteTask
  BY <1>3, RunExecutionAssumption DEF Finalized, MarkerSound
<1> QED
  BY <1>2, <1>3

\* A sound marker passes commitTerminal's checks.
LEMMA MarkerAcceptable ==
  ASSUME NEW t \in Task, NEW r, MarkerSound(t, r)
  PROVE  Acceptable(t, r)
<1>1. None \notin Candidate
  BY RunLedgerAssumption
<1> QED
  BY <1>1 DEF MarkerSound, Acceptable, Proposed

\* What a step changes of the candidate: its revision stays, or the execution
\* that owns the run has no work, or commits the marker of a write.
LEMMA RevisionSteps ==
  ASSUME ExecInv, MarkerInv, [Next]_vars
  PROVE  \/ Revision' = Revision
         \/ \E e \in Executor : holder' = e /\ \A t \in Task : work'[e][t] = Idle
         \/ \E e \in Executor, u \in WriteTask : CommitTask(e, u) /\ holder' = e
<1>0. /\ OwnTypeOK /\ ExecTypeOK /\ WorkSound /\ NoOwner \notin Executor /\ Executor \subseteq Owner /\ run \in RunRow
  BY TypesSplit, RunExecutionAssumption, FencedLeaseAssumption DEF ExecInv, LedgerTypeOK
<1>a. ASSUME run'.candidate = run.candidate PROVE Revision' = Revision
  BY <1>a DEF Revision
<1>b. ASSUME UNCHANGED ledgerVars PROVE run'.candidate = run.candidate
  BY <1>b DEF ledgerVars
<1>1. ASSUME NEW e \in Executor, ExecutorStep(e)
      PROVE  \/ run'.candidate = run.candidate
             \/ holder' = e /\ \A t \in Task : work'[e][t] = Idle
             \/ \E u \in WriteTask : CommitTask(e, u) /\ holder' = e
  <2>1. CASE OpenCandidate(e)
    <3>1. CASE InitializeCandidate(e, repo)
      BY <1>0, <2>1, <3>1 DEF OpenCandidate, InitializeCandidate, Commit, WorkSound
    <3> QED
      BY <1>b, <2>1, <3>1 DEF OpenCandidate
  <2>2. CASE AcquireRun(e) \/ GiveAnswers(e) \/ Recover(e) \/ StartGraph(e) \/ OpeningLost(e) \/ Release(e)
    BY <2>2 DEF AcquireRun, GiveAnswers, Recover, StartGraph, OpeningLost, Release, AnswerInterrupts,
       AuthorizeRecovery, Resumed, ledgerVars
  <2>3. CASE GraphReturns(e) \/ GraphThrows(e) \/ Settle(e) \/ Stop(e) \/ Acknowledge(e)
    BY <1>0, <2>3 DEF GraphReturns, GraphThrows, Settle, Stop, Acknowledge, SettlePause, ExecutionStopped,
       AcknowledgeCancellation, ledgerVars, RunRow
  <2>4. ASSUME NEW u \in Task, TaskOf(e, u)
        PROVE  \/ run'.candidate = run.candidate
               \/ u \in WriteTask /\ CommitTask(e, u) /\ holder' = e
    <3>1. CASE CommitTask(e, u)
      <4>1. holder = e /\ holder' = e /\ At(e, u) = "marked" /\ run'.candidate = Proposed(work[e][u].result)
        BY <1>0, <3>1 DEF CommitTask, CommitTerminal, Commit, RunRow
      <4>2. u \notin WriteTask => work[e][u].result.candidate = None
        BY <4>1 DEF MarkerInv, MarkerSound
      <4> QED
        BY <3>1, <4>1, <4>2 DEF Proposed
    <3>2. CASE EnterTask(e, u)
      BY <1>0, <3>2 DEF EnterTask, Admit, Continue, RunRow
    <3>3. CASE Retry(e, u) \/ CommitAsk(e, u) \/ CommitThrown(e, u)
      BY <1>0, <3>3 DEF Retry, Fail, CommitAsk, CommitInterrupt, CommitThrown, CommitError, RunRow
    <3> QED
      BY <2>4, <3>1, <3>2, <3>3 DEF TaskOf, RefuseTask, Begin, Abandon, Finish, Uncertain, PrepareInterruption, Ask,
         Mark, TaskLost, ledgerVars
  <2> QED
    BY <1>1, <2>1, <2>2, <2>3, <2>4 DEF ExecutorStep
<1>2. ASSUME NEW c \in Canceller, CancellerStep(c) PROVE run'.candidate = run.candidate
  BY <1>0, <1>2 DEF CancellerStep, CancelAppend, CancelObserve, CancelSettle, CancelAcknowledge, ControlRelease,
     CancelSettled, AcknowledgeCancellation, AppendControl, ledgerVars, RunRow
<1>3. ASSUME NEW p \in Pauser, PauserStep(p) PROVE run'.candidate = run.candidate
  BY <1>0, <1>3 DEF PauserStep, PauseObserve, PauseRequest, PauseTake, PauseSettle, ControlRelease,
     PauseSettled, AppendControl, ledgerVars, RunRow
<1>4. ASSUME Environment PROVE run'.candidate = run.candidate
  <2>1. CASE LeaseExpires
    BY <2>1 DEF LeaseExpires, execVars, ledgerVars
  <2>2. ASSUME NEW e \in Executor, CheckResume(e) \/ Signal(e) \/ Crash(e) \/ \E u \in Task : Edit(e, u)
        PROVE  run'.candidate = run.candidate
    BY <2>2 DEF CheckResume, Signal, Crash, Edit, leaseVars, ledgerVars
  <2>3. ASSUME NEW u \in WriteTask, Stray(u) PROVE run'.candidate = run.candidate
    BY <2>3 DEF Stray, leaseVars, ledgerVars
  <2> QED
    BY <1>4, <2>1, <2>2, <2>3 DEF Environment
<1>5. ASSUME UNCHANGED vars PROVE run'.candidate = run.candidate
  BY <1>5 DEF vars, execVars, leaseVars, ledgerVars
<1> QED
  BY <1>1, <1>2, <1>3, <1>4, <1>5, <1>a DEF Next

\* How a task comes to be inside its gate, and to be marked.
LEMMA InsideSteps ==
  ASSUME ExecInv, [Next]_vars, NEW e \in Executor, NEW t \in Task
  PROVE  /\ t \in WriteTask /\ At(e, t)' \in Inside => At(e, t) \in Inside \/ Begin(e, t)
         /\ At(e, t)' = "marked" =>
              \/ work'[e][t] = work[e][t] /\ (holder' = e => holder = e)
              \/ /\ work'[e][t].result = Finalized(t, work[e][t].saw) /\ UNCHANGED <<run, holder>>
                 /\ t \in WriteTask => Revision < MaxRevision
<1>0. OwnTypeOK /\ ExecTypeOK
  BY TypesSplit DEF ExecInv
<1>p. ASSUME NEW place \in Places, Place(e, t, place) PROVE work'[e][t].at = place
  <2>1. work'[e][t] = [Idle EXCEPT !.at = place]
    BY <1>0, <1>p, MoveOne DEF Place
  <2> QED
    BY <2>1 DEF Idle
<1>q. ASSUME NEW c, Err(e, t, c) PROVE work'[e][t].at = "erred"
  <2>1. work'[e][t] = [Idle EXCEPT !.at = "erred", !.err = c]
    BY <1>0, <1>q, MoveOne DEF Err
  <2> QED
    BY <2>1 DEF Idle
<1>1. CASE TaskOf(e, t)
  <2>1. CASE EnterTask(e, t) \/ Retry(e, t) \/ Uncertain(e, t) \/ Ask(e, t) \/ CommitTask(e, t) \/ CommitAsk(e, t)
    <3>1. \E place \in Places \ Inside : Place(e, t, place)
      BY <2>1 DEF EnterTask, Retry, Uncertain, Ask, CommitTask, CommitAsk, Places, Inside
    <3> QED
      BY <1>p, <3>1 DEF At, Inside
  <2>2. CASE RefuseTask(e, t) \/ CommitThrown(e, t) \/ TaskLost(e, t)
    BY <1>q, <2>2 DEF RefuseTask, CommitThrown, TaskLost, At, Inside
  <2>3. CASE Begin(e, t)
    BY <1>p, <2>3 DEF Begin, At, Places
  <2>4. CASE Abandon(e, t)
    BY <1>p, <2>4 DEF Abandon, At, Places, Inside
  <2>5. CASE Finish(e, t)
    <3>1. PICK saw : Move(e, t, [Idle EXCEPT !.at = "operated", !.saw = saw])
      BY <2>5 DEF Finish
    <3>2. work'[e][t] = [Idle EXCEPT !.at = "operated", !.saw = saw]
      BY <1>0, <3>1, MoveOne
    <3>3. work'[e][t].at = "operated"
      BY <3>2 DEF Idle
    <3> QED
      BY <2>5, <3>3 DEF Finish, At, Inside
  <2>6. CASE Mark(e, t)
    <3>1. CASE Place(e, t, "thrown")
      BY <1>p, <3>1 DEF At, Places, Inside
    <3>2. CASE /\ t \in WriteTask => Revision < MaxRevision
               /\ Move(e, t, [work[e][t] EXCEPT !.at = "marked", !.result = Finalized(t, work[e][t].saw)])
      <4>1. work'[e][t] = [work[e][t] EXCEPT !.at = "marked", !.result = Finalized(t, work[e][t].saw)]
        BY <1>0, <3>2, MoveOne
      <4>2. work[e][t] \in WorkRow
        BY <1>0 DEF OwnTypeOK
      <4>3. work'[e][t].result = Finalized(t, work[e][t].saw)
        BY <4>1, <4>2 DEF WorkRow
      <4> QED
        BY <2>6, <3>2, <4>3 DEF Mark, At, Inside, leaseVars, ledgerVars
    <3> QED
      BY <2>6, <3>1, <3>2 DEF Mark
  <2> QED
    BY <1>1, <2>1, <2>2, <2>3, <2>4, <2>5, <2>6 DEF TaskOf
<1>2. ASSUME NEW d \in Executor, d # e, TaskOf(d, t) PROVE work'[e][t] = work[e][t] /\ UNCHANGED holder
  <2>1. \E w : Move(d, t, w)
    BY <1>2 DEF TaskOf, EnterTask, RefuseTask, Begin, Abandon, Finish, Retry, Uncertain, Ask, Mark, CommitTask,
       CommitAsk, CommitThrown, TaskLost, Place, Err
  <2> QED
    BY <1>0, <1>2, <2>1, TaskLeaves DEF Move, OwnTypeOK
<1>3. ASSUME NEW d \in Executor, Recover(d), AuthorizeRecovery(d, t) PROVE work' = work /\ UNCHANGED holder
  BY <1>3 DEF Recover, AuthorizeRecovery, Commit
<1>4. CASE Elsewhere(t)
  BY <1>4 DEF Elsewhere, At, Idle, Inside
<1> QED
  BY <1>1, <1>2, <1>3, <1>4, StepsOfTask DEF At

\* MarkerInv is kept by every step.
LEMMA MarkerInvStep == ExecInv /\ MarkerInv /\ [Next]_vars => MarkerInv'
<1> SUFFICES ASSUME ExecInv, MarkerInv, [Next]_vars, NEW e \in Executor, NEW t \in Task
             PROVE  /\ holder' = e /\ At(e, t)' = "marked" => MarkerSound(t, work[e][t].result)'
                    /\ t \in WriteTask /\ At(e, t)' \in Inside =>
                         \A u \in WriteTask \ {t} : At(e, u)' \notin Inside
  BY DEF MarkerInv
<1>0. OwnTypeOK /\ ExecTypeOK /\ WriteTask \subseteq Task
  BY TypesSplit, RunLedgerAssumption DEF ExecInv
<1>1. ASSUME holder' = e, At(e, t)' = "marked" PROVE MarkerSound(t, work[e][t].result)'
  <2>1. CASE /\ work'[e][t].result = Finalized(t, work[e][t].saw) /\ UNCHANGED <<run, holder>>
             /\ t \in WriteTask => Revision < MaxRevision
    <3>1. work[e][t].saw \in Hash \union {None}
      BY <1>0 DEF OwnTypeOK, WorkRow
    <3>2. MarkerSound(t, work'[e][t].result)
      BY <1>0, <2>1, <3>1, FinalizedSound
    <3> QED
      BY <2>1, <3>2 DEF MarkerSound, Revision
  <2>2. CASE work'[e][t] = work[e][t] /\ holder = e
    <3>1. At(e, t) = "marked" /\ MarkerSound(t, work'[e][t].result)
      BY <1>1, <2>2 DEF MarkerInv, At
    <3>2. CASE Revision' = Revision
      BY <3>1, <3>2 DEF MarkerSound
    <3>3. CASE \E d \in Executor : holder' = d /\ \A u \in Task : work'[d][u] = Idle
      BY <1>1, <3>3 DEF At, Idle
    <3>4. ASSUME NEW d \in Executor, NEW u \in WriteTask, CommitTask(d, u), holder' = d
          PROVE  MarkerSound(t, work[e][t].result)'
      <4>1. d = e
        BY <1>1, <3>4
      <4>2. CASE u = t
        <5>1. work'[e][t] = [Idle EXCEPT !.at = "done"]
          BY <1>0, <3>4, <4>1, <4>2, MoveOne DEF CommitTask, Place
        <5> QED
          BY <1>1, <5>1 DEF At, Idle
      <4>3. CASE u # t
        <5>1. t \notin WriteTask
          BY <1>0, <3>1, <3>4, <4>1, <4>3 DEF CommitTask, MarkerInv, Inside
        <5> QED
          BY <3>1, <5>1 DEF MarkerSound
      <4> QED
        BY <4>2, <4>3
    <3> QED
      BY <3>2, <3>3, <3>4, RevisionSteps
  <2> QED
    BY <1>1, <2>1, <2>2, InsideSteps
<1>2. ASSUME t \in WriteTask, At(e, t)' \in Inside, NEW u \in WriteTask \ {t}, At(e, u)' \in Inside
      PROVE  FALSE
  <2>1. ASSUME NEW v \in WriteTask, NEW x \in WriteTask \ {v}, Begin(e, v), At(e, x) \in Inside PROVE FALSE
    BY <1>0, <2>1 DEF Begin, GateFree, Holding, Inside
  <2>2. ASSUME NEW v \in WriteTask, NEW x \in WriteTask \ {v}, Begin(e, v), Begin(e, x) PROVE FALSE
    <3>1. work'[e][v] = [Idle EXCEPT !.at = "operating"] /\ work'[e][v] = work[e][v]
      BY <1>0, <2>2, MoveOne DEF Begin, Place
    <3> QED
      BY <2>2, <3>1 DEF Begin, At, Idle
  <2>3. At(e, t) \in Inside \/ Begin(e, t)
    BY <1>2, InsideSteps
  <2>4. At(e, u) \in Inside \/ Begin(e, u)
    BY <1>0, <1>2, InsideSteps
  <2>5. ~(At(e, t) \in Inside /\ At(e, u) \in Inside)
    BY <1>0, <1>2 DEF MarkerInv
  <2> QED
    BY <1>2, <2>1, <2>2, <2>3, <2>4, <2>5
<1> QED
  BY <1>1, <1>2

\* Nothing is marked in the initial state.
LEMMA MarkerInvInit == Init => MarkerInv
  BY RunLedgerAssumption DEF Init, MarkerInv, At, Idle, Inside

\* What a task is about to commit under its lease the ledger accepts: the effect
\* gate keeps two writes from computing their markers from the same candidate
\* (execution.ts:60, ledger.ts:156-188).
THEOREM MarkersCommit == Spec => []NoCommitConflict
<1>1. ExecInv /\ MarkerInv => NoCommitConflict
  <2> SUFFICES ASSUME ExecInv, MarkerInv, NEW e \in Executor, NEW t \in Task, At(e, t) = "marked", holder = e
               PROVE  Framed(e, t) /\ attempt[t].status \in {"running", "paused"} /\ Acceptable(t, work[e][t].result)
    BY DEF NoCommitConflict
  <2>1. Framed(e, t) /\ attempt[t].status = "running"
    BY DEF ExecInv, FlightSound, InFlight
  <2>2. Acceptable(t, work[e][t].result)
    BY MarkerAcceptable DEF MarkerInv
  <2> QED
    BY <2>1, <2>2
<1> QED
  BY <1>1, ExecutionInvariant, MarkerInvInit, MarkerInvStep, PTL DEF Spec

-----------------------------------------------------------------------------
\* The places of an execution between its acquisition and its settlement.
Driving == {"opening", "resuming", "answering", "recovering", "starting", "graph", "settling", "stopping"}

\* While an execution drives a run it owns, the attempts its tenure left running
\* are those it has in flight; what stops as paused has nothing in flight.
DrainInv ==
  \A e \in Executor :
    /\ holder = e /\ pc[e] \in Driving =>
         \A t \in Task : attempt[t].status = "running" /\ attempt[t].epoch = epoch => At(e, t) \in InFlight
    /\ pc[e] = "stopping" /\ code[e] = "paused" => Settled(e)

\* A step of the node body leaves its task in flight or its attempt not running.
LEMMA TaskDrains ==
  ASSUME ExecInv, NEW e \in Executor, NEW t \in Task, TaskOf(e, t), holder = e,
         attempt[t].status = "running" /\ attempt[t].epoch = epoch => At(e, t) \in InFlight,
         attempt'[t].status = "running", attempt'[t].epoch = epoch
  PROVE  At(e, t)' \in InFlight
<1>0. OwnTypeOK /\ ExecTypeOK /\ WorkSound /\ attempt \in [Task -> AttemptRow] /\ attempt[t] \in AttemptRow
  BY TypesSplit DEF ExecInv, LedgerTypeOK
<1>p. ASSUME NEW place \in Places, Place(e, t, place) PROVE work'[e][t].at = place
  <2>1. work'[e][t] = [Idle EXCEPT !.at = place]
    BY <1>0, <1>p, MoveOne DEF Place
  <2> QED
    BY <2>1 DEF Idle
<1>1. CASE EnterTask(e, t) \/ Begin(e, t) \/ Abandon(e, t) \/ Uncertain(e, t) \/ Ask(e, t)
  <2>1. \E place \in InFlight : Place(e, t, place)
    BY <1>1 DEF EnterTask, Begin, Abandon, Uncertain, Ask, InFlight
  <2>2. InFlight \subseteq Places
    BY DEF InFlight, Places
  <2> QED
    BY <1>p, <2>1, <2>2 DEF At
<1>2. ~Retry(e, t)
  <2> SUFFICES ASSUME Retry(e, t) PROVE FALSE
    OBVIOUS
  <2>1. attempt'[t] = [attempt[t] EXCEPT !.status = "failed"]
    BY <1>0 DEF Retry, Fail
  <2> QED
    BY <1>0, <2>1 DEF AttemptRow
<1>3. ~CommitTask(e, t)
  <2> SUFFICES ASSUME CommitTask(e, t) PROVE FALSE
    OBVIOUS
  <2>1. attempt'[t] = [attempt[t] EXCEPT !.status = work[e][t].result.status, !.terminal = TRUE]
    BY <1>0 DEF CommitTask, CommitTerminal
  <2>2. work[e][t].result.status \in {"succeeded", "failed"}
    BY <1>0 DEF CommitTask, WorkSound, Result
  <2> QED
    BY <1>0, <2>1, <2>2 DEF AttemptRow
<1>4. ~CommitAsk(e, t)
  <2> SUFFICES ASSUME CommitAsk(e, t) PROVE FALSE
    OBVIOUS
  <2>1. attempt'[t] = [attempt[t] EXCEPT !.status = "paused"]
    BY <1>0 DEF CommitAsk, CommitInterrupt
  <2> QED
    BY <1>0, <2>1 DEF AttemptRow
<1>5. ~CommitThrown(e, t)
  <2> SUFFICES ASSUME CommitThrown(e, t) PROVE FALSE
    OBVIOUS
  <2>1. \/ attempt'[t] = [attempt[t] EXCEPT !.status = "interrupted"]
        \/ attempt'[t] = [attempt[t] EXCEPT !.status = "failed"]
    BY <1>0 DEF CommitThrown, CommitError
  <2> QED
    BY <1>0, <2>1 DEF AttemptRow
<1>6. ~RefuseTask(e, t) /\ ~TaskLost(e, t)
  BY DEF RefuseTask, TaskLost, InFlight, ledgerVars
<1>7. CASE Finish(e, t)
  <2>1. PICK saw : Move(e, t, [Idle EXCEPT !.at = "operated", !.saw = saw])
    BY <1>7 DEF Finish
  <2>2. work'[e][t] = [Idle EXCEPT !.at = "operated", !.saw = saw]
    BY <1>0, <2>1, MoveOne
  <2> QED
    BY <2>2 DEF Idle, At, InFlight
<1>8. CASE Mark(e, t)
  <2>1. CASE Place(e, t, "thrown")
    BY <1>p, <2>1 DEF At, Places, InFlight
  <2>2. CASE Move(e, t, [work[e][t] EXCEPT !.at = "marked", !.result = Finalized(t, work[e][t].saw)])
    <3>1. work'[e][t] = [work[e][t] EXCEPT !.at = "marked", !.result = Finalized(t, work[e][t].saw)]
      BY <1>0, <2>2, MoveOne
    <3>2. work[e][t] \in WorkRow
      BY <1>0 DEF OwnTypeOK
    <3> QED
      BY <3>1, <3>2 DEF At, InFlight, WorkRow
  <2> QED
    BY <1>8, <2>1, <2>2 DEF Mark
<1> QED
  BY <1>1, <1>2, <1>3, <1>4, <1>5, <1>6, <1>7, <1>8 DEF TaskOf

\* DrainInv is kept by every step.
LEMMA DrainInvStep == ExecInv /\ DrainInv /\ [Next]_vars => DrainInv'
<1> SUFFICES ASSUME ExecInv, DrainInv, [Next]_vars, NEW e \in Executor
             PROVE  /\ holder' = e /\ pc'[e] \in Driving =>
                         \A t \in Task : attempt'[t].status = "running" /\ attempt'[t].epoch = epoch' => work'[e][t].at \in InFlight
                    /\ pc'[e] = "stopping" /\ code'[e] = "paused" => \A t \in Task : work'[e][t].at \notin InFlight
  BY DEF DrainInv, At, Settled
<1>0. /\ OwnTypeOK /\ ExecTypeOK /\ WorkSound /\ e \in Owner /\ e # NoOwner /\ epoch \in Nat
      /\ attempt \in [Task -> AttemptRow]
      /\ \A t \in Task : attempt[t].epoch <= epoch
  BY TypesSplit, RunExecutionAssumption, FencedLeaseAssumption DEF ExecInv, LedgerTypeOK, FencedTypeOK, LedgerInv, AttemptsConsistent
<1>1. /\ holder = e /\ pc[e] \in Driving =>
           \A t \in Task : attempt[t].status = "running" /\ attempt[t].epoch = epoch => work[e][t].at \in InFlight
      /\ pc[e] = "stopping" /\ code[e] = "paused" => \A t \in Task : work[e][t].at \notin InFlight
  BY DEF DrainInv, At, Settled
<1>2. CASE ~ExecutorStep(e) /\ ~CheckResume(e) /\ ~Crash(e)
  BY <1>1, <1>2, OthersLeave
<1>3. CASE CheckResume(e) \/ Crash(e) \/ Release(e)
  <2>1. pc'[e] \notin Driving
    BY <1>0, <1>3 DEF CheckResume, Crash, Release, Forget, Goto, OwnTypeOK, Driving
  <2> QED
    BY <2>1 DEF Driving
<1>4. CASE AcquireRun(e)
  <2>1. pc'[e] # "stopping" /\ (Take(e) \/ pc'[e] \notin Driving)
    BY <1>0, <1>4 DEF AcquireRun, Goto, OwnTypeOK, Driving
  <2>2. CASE Take(e)
    <3>1. \A t \in Task : attempt'[t].epoch < epoch'
      BY <1>0, <1>4, <2>2 DEF AcquireRun, Take, ledgerVars, AttemptRow
    <3>2. epoch' \in Nat /\ \A t \in Task : attempt'[t].epoch \in Nat
      BY <1>0, <1>4, <2>2 DEF AcquireRun, Take, ledgerVars, AttemptRow
    <3> QED
      BY <2>1, <3>1, <3>2
  <2> QED
    BY <2>1, <2>2
<1>5. CASE OpenCandidate(e) \/ GiveAnswers(e) \/ StartGraph(e) \/ OpeningLost(e) \/ GraphReturns(e)
  <2>1. UNCHANGED <<attempt, epoch, holder, work>> /\ pc[e] \in Driving /\ pc'[e] # "stopping"
    BY <1>0, <1>5 DEF OpenCandidate, GiveAnswers, StartGraph, OpeningLost, GraphReturns, InitializeCandidate,
       AnswerInterrupts, Commit, Goto, OwnTypeOK, Driving, leaseVars, ledgerVars
  <2> QED
    BY <1>1, <2>1
<1>6. CASE Recover(e)
  <2>1. work' = work /\ (\A t \in Task : work[e][t] = Idle) /\ pc[e] \in Driving /\ UNCHANGED <<epoch, holder>>
    BY <1>0, <1>6 DEF Recover, WorkSound, Driving, AuthorizeRecovery, Resumed, Commit, leaseVars
  <2>2. \A t \in Task : attempt'[t].status = attempt[t].status /\ attempt'[t].epoch = attempt[t].epoch
    <3>1. ASSUME NEW u \in Task, AuthorizeRecovery(e, u)
          PROVE  \A t \in Task : attempt'[t].status = attempt[t].status /\ attempt'[t].epoch = attempt[t].epoch
      BY <1>0, <3>1 DEF AuthorizeRecovery, AttemptRow
    <3> QED
      BY <1>6, <3>1, RunLedgerAssumption DEF Recover, Resumed, ledgerVars
  <2> QED
    BY <1>1, <2>1, <2>2 DEF Idle, InFlight
<1>7. ASSUME NEW t \in Task, TaskOf(e, t)
      PROVE  /\ holder' = e /\ pc'[e] \in Driving =>
                   \A u \in Task : attempt'[u].status = "running" /\ attempt'[u].epoch = epoch' => work'[e][u].at \in InFlight
             /\ pc'[e] # "stopping"
  <2>1. pc[e] = "graph" /\ UNCHANGED <<pc, holder, epoch>>
    BY <1>7, TaskLeaves DEF TaskOf, EnterTask, RefuseTask, Begin, Abandon, Finish, Retry, Uncertain, Ask, Mark, CommitTask,
       CommitAsk, CommitThrown, TaskLost
  <2>2. ASSUME NEW u \in Task, holder' = e, attempt'[u].status = "running", attempt'[u].epoch = epoch'
        PROVE  work'[e][u].at \in InFlight
    <3>1. attempt[u].status = "running" /\ attempt[u].epoch = epoch => At(e, u) \in InFlight
      BY <1>1, <2>1, <2>2 DEF Driving, At
    <3>2. CASE u = t
      BY <1>7, <2>1, <2>2, <3>1, <3>2, TaskDrains DEF At
    <3>3. CASE u # t
      BY <1>7, <2>1, <2>2, <3>1, <3>3, TaskLeaves DEF At
    <3> QED
      BY <3>2, <3>3
  <2> QED
    BY <2>1, <2>2
<1>8. StopCode(e, {}) # "paused"
  BY FS_EmptySet DEF StopCode
<1>9. CASE GraphThrows(e)
  <2>1. UNCHANGED <<attempt, epoch, holder, work>> /\ pc[e] = "graph"
    BY <1>9 DEF GraphThrows, leaseVars, ledgerVars
  <2>2. code'[e] = "paused" => Settled(e)
    <3>1. sig[e] # "none" /\ code' = [code EXCEPT ![e] = StopCode(e, {})] => code'[e] = StopCode(e, {})
      BY <1>0 DEF OwnTypeOK
    <3> QED
      BY <1>8, <1>9, <3>1 DEF GraphThrows
  <2> QED
    BY <1>1, <2>1, <2>2 DEF Driving, Settled, At
<1>10. CASE Settle(e)
  <2>1. code'[e] = StopCode(e, {}) /\ UNCHANGED <<attempt, epoch, holder, work>> /\ pc[e] = "settling"
    BY <1>0, <1>10 DEF Settle, SettlePause, Commit, leaseVars, ledgerVars, OwnTypeOK
  <2> QED
    BY <1>1, <1>8, <2>1 DEF Driving
<1>11. CASE Stop(e) \/ Acknowledge(e)
  <2>1. pc'[e] \in {"acking", "releasing"}
    BY <1>0, <1>11 DEF Stop, Acknowledge, Goto, OwnTypeOK
  <2> QED
    BY <2>1 DEF Driving
<1> QED
  BY <1>2, <1>3, <1>4, <1>5, <1>6, <1>7, <1>9, <1>10, <1>11 DEF ExecutorStep

\* Nobody drives the run in the initial state.
LEMMA DrainInvInit == Init => DrainInv
  BY RunExecutionAssumption DEF Init, LedgerInit, FencedInit, DrainInv, Driving

\* An execution that settles as paused leaves no attempt of its tenure running
\* (runs.ts:248-256).
THEOREM PausedIsDrained == Spec => []PauseDrains
<1>1. ExecInv /\ DrainInv => PauseDrains
  <2> SUFFICES ASSUME ExecInv, DrainInv, NEW e \in Executor, pc[e] = "stopping", code[e] = "paused", holder = e,
                      NEW t \in Task, attempt[t].status = "running"
               PROVE  attempt[t].epoch < epoch
    BY DEF PauseDrains
  <2>1. attempt[t].epoch # epoch
    BY DEF DrainInv, Driving, Settled
  <2>2. attempt[t].epoch <= epoch /\ attempt[t].epoch \in Nat /\ epoch \in Nat
    BY DEF ExecInv, LedgerInv, LedgerTypeOK, FencedTypeOK, AttemptsConsistent, AttemptRow
  <2> QED
    BY <2>1, <2>2
<1> QED
  BY <1>1, ExecutionInvariant, DrainInvInit, DrainInvStep, PTL DEF Spec

-----------------------------------------------------------------------------
\* cancelRun settles the run while it owns it, before it releases it.
CancelInv ==
  \A c \in Canceller : pc[c] \in {"acking", "releasing"} /\ holder = c => RunTerminal

\* CancelInv is kept by every step.
LEMMA CancelInvStep == ExecInv /\ CancelInv /\ [Next]_vars => CancelInv'
<1> SUFFICES ASSUME ExecInv, CancelInv, [Next]_vars, NEW c \in Canceller, pc'[c] \in {"acking", "releasing"}, holder' = c
             PROVE  RunTerminal'
  BY DEF CancelInv
<1>0. /\ OwnTypeOK /\ c \in Owner /\ c # NoOwner /\ c \notin Executor /\ c \notin Pauser
      /\ Executor \subseteq Owner /\ Pauser \subseteq Owner /\ Canceller \subseteq Owner /\ run \in RunRow
  BY TypesSplit, RunExecutionAssumption, FencedLeaseAssumption DEF ExecInv, LedgerTypeOK
<1>a. ASSUME UNCHANGED run, pc'[c] = pc[c], holder = c PROVE RunTerminal'
  BY <1>a DEF CancelInv, RunTerminal
<1>1. ASSUME NEW e \in Executor, ExecutorStep(e) PROVE RunTerminal'
  <2>1. pc'[c] = pc[c]
    <3>1. CASE Release(e)
      BY <1>0, <3>1 DEF Release, Forget, OwnTypeOK
    <3>2. CASE \E t \in Task : TaskOf(e, t)
      BY <3>2, TaskLeaves
    <3> QED
      BY <1>0, <1>1, <3>1, <3>2 DEF ExecutorStep, AcquireRun, OpenCandidate, GiveAnswers, Recover, StartGraph, OpeningLost,
         GraphReturns, GraphThrows, Settle, Stop, Acknowledge, Goto, OwnTypeOK
  <2>2. holder = c /\ UNCHANGED run
    <3>1. CASE Commit(e)
      BY <1>0, <3>1 DEF Commit
    <3>2. CASE Take(e) \/ Drop
      BY <1>0, <3>2 DEF Take, Drop
    <3>3. CASE UNCHANGED <<leaseVars, ledgerVars>>
      BY <3>3 DEF leaseVars, ledgerVars
    <3>4. ASSUME NEW t \in Task, TaskOf(e, t) PROVE Commit(e) \/ UNCHANGED <<leaseVars, ledgerVars>>
      BY <3>4 DEF TaskOf, EnterTask, RefuseTask, Begin, Abandon, Finish, Retry, Uncertain, Ask, Mark, CommitTask,
         CommitAsk, CommitThrown, TaskLost, Admit, Continue, PrepareInterruption, Fail, CommitTerminal,
         CommitInterrupt, CommitError
    <3> QED
      BY <1>1, <3>1, <3>2, <3>3, <3>4 DEF ExecutorStep, AcquireRun, OpenCandidate, GiveAnswers, Recover, StartGraph,
         OpeningLost, GraphReturns, GraphThrows, Settle, Stop, Acknowledge, Release, InitializeCandidate,
         AnswerInterrupts, AuthorizeRecovery, Resumed, SettlePause, ExecutionStopped, AcknowledgeCancellation
  <2> QED
    BY <1>a, <2>1, <2>2
<1>2. ASSUME NEW d \in Canceller, CancellerStep(d) PROVE RunTerminal'
  <2>1. CASE d = c
    <3>1. CASE CancelAppend(c) \/ CancelObserve(c)
      BY <1>0, <3>1 DEF CancelAppend, CancelObserve, Goto, OwnTypeOK
    <3>2. CASE CancelSettle(c)
      <4>1. \/ run' = run /\ (run.status \in {"cancelled", "succeeded"} \/ run.completion # "none")
            \/ run' = [run EXCEPT !.status = "cancelled"]
        BY <3>2 DEF CancelSettle, CancelSettled
      <4> QED
        BY <1>0, <4>1 DEF RunTerminal, RunRow
    <3>3. CASE CancelAcknowledge(c)
      BY <3>3 DEF CancelAcknowledge, AcknowledgeCancellation, Commit, CancelInv, RunTerminal
    <3>4. CASE ControlRelease(c)
      BY <1>0, <3>4 DEF ControlRelease, Goto, OwnTypeOK
    <3> QED
      BY <1>2, <2>1, <3>1, <3>2, <3>3, <3>4 DEF CancellerStep
  <2>2. CASE d # c
    <3>1. pc'[c] = pc[c] /\ holder = c /\ UNCHANGED run
      BY <1>0, <1>2, <2>2 DEF CancellerStep, CancelAppend, CancelObserve, CancelSettle, CancelAcknowledge, ControlRelease,
         Goto, OwnTypeOK, Take, Drop, Commit, CancelSettled, AcknowledgeCancellation, AppendControl, leaseVars, ledgerVars
    <3> QED
      BY <1>a, <3>1
  <2> QED
    BY <2>1, <2>2
<1>3. ASSUME NEW p \in Pauser, PauserStep(p) PROVE RunTerminal'
  <2>1. pc'[c] = pc[c] /\ holder = c /\ UNCHANGED run
    BY <1>0, <1>3 DEF PauserStep, PauseObserve, PauseRequest, PauseTake, PauseSettle, ControlRelease,
       Goto, OwnTypeOK, Take, Drop, Commit, PauseSettled, AppendControl, leaseVars, ledgerVars
  <2> QED
    BY <1>a, <2>1
<1>4. CASE Environment
  <2>1. ~LeaseExpires
    BY <1>0 DEF LeaseExpires, Drop
  <2>2. ASSUME NEW e \in Executor, CheckResume(e) \/ Crash(e) PROVE RunTerminal'
    BY <1>0, <1>a, <2>2 DEF CheckResume, Crash, Forget, Goto, OwnTypeOK, leaseVars, ledgerVars
  <2>3. ASSUME NEW e \in Executor, Signal(e) \/ \E t \in Task : Edit(e, t) PROVE RunTerminal'
    BY <1>a, <2>3 DEF Signal, Edit, leaseVars, ledgerVars
  <2>4. ASSUME NEW t \in WriteTask, Stray(t) PROVE RunTerminal'
    BY <1>a, <2>4 DEF Stray, leaseVars, ledgerVars
  <2> QED
    BY <1>4, <2>1, <2>2, <2>3, <2>4 DEF Environment
<1>5. CASE UNCHANGED vars
  BY <1>a, <1>5 DEF vars, execVars, leaseVars, ledgerVars
<1> QED
  BY <1>1, <1>2, <1>3, <1>4, <1>5 DEF Next

\* No cancellation owns the run in the initial state.
LEMMA CancelInvInit == Init => CancelInv
  BY RunExecutionAssumption, FencedLeaseAssumption DEF Init, LedgerInit, FencedInit, CancelInv

\* cancelRun does not return from a run it took while that run could still be
\* executed (runs.ts, cancelRun).
THEOREM CancelSettlesRun == Spec => []CancelSettles
<1>1. CancelInv => CancelSettles
  BY DEF CancelInv, CancelSettles
<1> QED
  BY <1>1, ExecutionInvariant, CancelInvInit, CancelInvStep, PTL DEF Spec
-----------------------------------------------------------------------------
\* No two writes may run together.
WritesInSequence == \A t, u \in WriteTask : Stage[u] = Stage[t] => u = t

Flying(e, t) == holder = e /\ At(e, t) \in InFlight

\* What is in flight under the lease waits for nothing earlier.
StageInv ==
  \A e \in Executor, t \in Task : Flying(e, t) =>
    \A u \in Task : Stage[u] < Stage[t] => attempt[u].terminal

\* Tasks in flight under the lease are of one super-step, and none has settled.
LEMMA OneStage ==
  ASSUME ExecInv, StageInv, NEW e \in Executor, NEW t \in Task, NEW u \in Task, Flying(e, t), Flying(e, u)
  PROVE  Stage[t] = Stage[u] /\ ~attempt[t].terminal
<1>1. ~attempt[t].terminal /\ ~attempt[u].terminal
  BY DEF ExecInv, FlightSound, LedgerInv, AttemptsConsistent, Flying
<1>2. Stage[t] \in Nat /\ Stage[u] \in Nat
  BY RunExecutionAssumption
<1>3. ~(Stage[t] < Stage[u]) /\ ~(Stage[u] < Stage[t])
  BY <1>1 DEF StageInv
<1> QED
  BY <1>1, <1>2, <1>3

\* A task that LangGraph may run is of the super-step of what is in flight.
LEMMA RunnableStage ==
  ASSUME ExecInv, StageInv, NEW e \in Executor, NEW t \in Task, NEW u \in Task, Flying(e, t), Runnable(u)
  PROVE  Stage[t] = Stage[u]
<1>1. ~attempt[t].terminal /\ ~attempt[u].terminal
  BY OneStage DEF Runnable
<1>2. Stage[t] \in Nat /\ Stage[u] \in Nat
  BY RunExecutionAssumption
<1>3. ~(Stage[t] < Stage[u]) /\ ~(Stage[u] < Stage[t])
  BY <1>1 DEF StageInv, Runnable
<1> QED
  BY <1>2, <1>3

\* A settled attempt stays settled.
LEMMA TerminalStays ==
  ASSUME ExecInv, [Next]_vars, NEW u \in Task, attempt[u].terminal
  PROVE  attempt'[u].terminal
<1>0. /\ OwnTypeOK /\ LedgerTypeOK /\ attempt \in [Task -> AttemptRow] /\ AttemptsConsistent /\ FlightSound
      /\ attempt[u].status \in {"failed", "succeeded"}
  BY TypesSplit DEF ExecInv, LedgerTypeOK, LedgerInv, AttemptsConsistent
<1>1. ASSUME NEW e \in Executor, TaskOf(e, u) PROVE attempt'[u] = attempt[u] \/ attempt'[u].terminal
  <2>1. ~EnterTask(e, u) /\ ~RefuseTask(e, u)
    BY DEF EnterTask, RefuseTask, Runnable
  <2>2. CASE Begin(e, u) \/ Finish(e, u) \/ Ask(e, u) \/ Mark(e, u) \/ TaskLost(e, u)
    BY <2>2 DEF Begin, Finish, Ask, Mark, TaskLost, ledgerVars
  <2>3. CASE Abandon(e, u) \/ Uncertain(e, u)
    BY <1>0, <2>3 DEF Abandon, Uncertain, PrepareInterruption, ledgerVars, AttemptRow
  <2>4. ~Retry(e, u) /\ ~CommitTask(e, u) /\ ~CommitThrown(e, u)
    BY <1>0 DEF Retry, Fail, CommitTask, CommitTerminal, CommitThrown, CommitError
  <2>5. ~CommitAsk(e, u)
    BY <1>0 DEF CommitAsk, CommitInterrupt, Commit, FlightSound, InFlight
  <2> QED
    BY <1>1, <2>1, <2>2, <2>3, <2>4, <2>5 DEF TaskOf
<1>2. ASSUME NEW e \in Executor, AuthorizeRecovery(e, u) PROVE FALSE
  BY <1>0, <1>2 DEF AuthorizeRecovery
<1>3. ASSUME Elsewhere(u) PROVE attempt'[u] = attempt[u]
  BY <1>3 DEF Elsewhere
<1> QED
  BY <1>1, <1>2, <1>3, StepsOfTask

\* What is in flight after a step was in flight before it, or has just entered.
LEMMA FlyingBefore ==
  ASSUME ExecInv, [Next]_vars, NEW e \in Executor, NEW t \in Task, Flying(e, t)'
  PROVE  \/ EnterTask(e, t)
         \/ Flying(e, t) /\ (TaskOf(e, t) \/ work'[e][t] = work[e][t])
<1>0. OwnTypeOK
  BY TypesSplit DEF ExecInv
<1>1. CASE TaskOf(e, t)
  BY <1>1, TaskMoves, TaskLeaves DEF Flying, At
<1>2. ASSUME NEW d \in Executor, TaskOf(d, t), d # e PROVE Flying(e, t) /\ work'[e][t] = work[e][t]
  <2>1. \E w : Move(d, t, w)
    BY <1>2 DEF TaskOf, EnterTask, RefuseTask, Begin, Abandon, Finish, Retry, Uncertain, Ask, Mark, CommitTask,
       CommitAsk, CommitThrown, TaskLost, Place, Err
  <2>2. work'[e][t] = work[e][t]
    BY <1>0, <1>2, <2>1 DEF Move, OwnTypeOK
  <2> QED
    BY <1>2, <2>2, TaskLeaves DEF Flying, At
<1>3. ASSUME NEW d \in Executor, Recover(d), AuthorizeRecovery(d, t) PROVE Flying(e, t) /\ work'[e][t] = work[e][t]
  BY <1>3 DEF Recover, AuthorizeRecovery, Commit, leaseVars, Flying, At
<1>4. CASE Elsewhere(t)
  BY <1>4 DEF Elsewhere, Flying, At, Idle, InFlight
<1> QED
  BY <1>1, <1>2, <1>3, <1>4, StepsOfTask

\* StageInv is kept: a task enters only when everything earlier has settled.
LEMMA StageInvStep == ExecInv /\ StageInv /\ [Next]_vars => StageInv'
<1> SUFFICES ASSUME ExecInv, StageInv, [Next]_vars, NEW e \in Executor, NEW t \in Task, Flying(e, t)',
                    NEW u \in Task, Stage[u] < Stage[t]
             PROVE  attempt'[u].terminal
  BY DEF StageInv
<1>1. attempt[u].terminal
  BY FlyingBefore DEF StageInv, EnterTask, Runnable
<1> QED
  BY <1>1, TerminalStays

\* Nothing is in flight in the initial state.
LEMMA StageInvInit == Init => StageInv
  BY DEF Init, StageInv, Flying, At, Idle, InFlight

-----------------------------------------------------------------------------
\* A step that leaves the certification and the completion of the run, and the status of
\* one that is complete.
RunKept ==
  /\ run'.verified = run.verified
  /\ run'.completion = run.completion
  /\ run.completion # "none" => run'.status = run.status

\* The tree and the certification are touched by the tasks, by pieces that edit and by
\* abandoned ones; nobody else does.
LEMMA TreeSteps ==
  ASSUME ExecInv, [Next]_vars
  PROVE  \/ \E e \in Executor, t \in Task : TaskOf(e, t) \/ Edit(e, t)
         \/ \E t \in WriteTask : Stray(t)
         \/ UNCHANGED <<repo, foreign>> /\ RunKept
<1>0. run \in RunRow
  BY DEF ExecInv, ExecTypeOK, LedgerTypeOK
<1>a. ASSUME UNCHANGED run PROVE RunKept
  BY <1>a DEF RunKept
<1>b. ASSUME NEW s, run.completion = "none", run' = [run EXCEPT !.status = s] PROVE RunKept
  BY <1>0, <1>b DEF RunRow, RunKept
<1>1. ASSUME NEW e \in Executor, ExecutorStep(e), ~\E t \in Task : TaskOf(e, t)
      PROVE  UNCHANGED <<repo, foreign>> /\ RunKept
  <2>1. UNCHANGED <<repo, foreign>>
    BY <1>1 DEF ExecutorStep, AcquireRun, OpenCandidate, GiveAnswers, Recover, StartGraph, OpeningLost, GraphReturns,
       GraphThrows, Settle, Stop, Acknowledge, Release, history
  <2>2. CASE OpenCandidate(e)
    <3>1. CASE UNCHANGED <<leaseVars, ledgerVars>>
      BY <1>a, <2>1, <3>1 DEF ledgerVars
    <3>2. CASE InitializeCandidate(e, repo)
      BY <1>0, <2>1, <3>2 DEF InitializeCandidate, RunRow, RunKept
    <3> QED
      BY <2>2, <3>1, <3>2 DEF OpenCandidate
  <2>3. CASE Settle(e)
    BY <1>a, <1>b, <2>1, <2>3 DEF Settle, SettlePause, ledgerVars
  <2>4. CASE Stop(e)
    <3>1. run' = run \/ (run.completion = "none" /\ \E s : run' = [run EXCEPT !.status = s])
      BY <2>4 DEF Stop, ExecutionStopped, ledgerVars
    <3> QED
      BY <1>a, <1>b, <2>1, <3>1
  <2>5. CASE AcquireRun(e) \/ GiveAnswers(e) \/ Recover(e) \/ StartGraph(e) \/ OpeningLost(e) \/ GraphReturns(e)
             \/ GraphThrows(e) \/ Acknowledge(e) \/ Release(e)
    <3>1. UNCHANGED run
      BY <2>5 DEF AcquireRun, GiveAnswers, Recover, StartGraph, OpeningLost, GraphReturns, GraphThrows, Acknowledge,
         Release, AnswerInterrupts, AuthorizeRecovery, Resumed, AcknowledgeCancellation, ledgerVars
    <3> QED
      BY <1>a, <2>1, <3>1
  <2> QED
    BY <1>1, <2>2, <2>3, <2>4, <2>5 DEF ExecutorStep
<1>2. ASSUME NEW c \in Canceller, CancellerStep(c)
      PROVE  UNCHANGED <<repo, foreign>> /\ RunKept
  <2>1. UNCHANGED <<repo, foreign>> /\ (run' = run \/ (run.completion = "none" /\ run' = [run EXCEPT !.status = "cancelled"]))
    BY <1>2 DEF CancellerStep, CancelAppend, CancelObserve, CancelSettle, CancelAcknowledge, ControlRelease,
       CancelSettled, AcknowledgeCancellation, AppendControl, ledgerVars, history
  <2> QED
    BY <1>a, <1>b, <2>1
<1>3. ASSUME NEW p \in Pauser, PauserStep(p)
      PROVE  UNCHANGED <<repo, foreign>> /\ RunKept
  <2>1. CASE PauseSettle(p)
    <3>1. PauseSettled(p) /\ UNCHANGED <<repo, foreign>>
      BY <2>1 DEF PauseSettle, history
    <3>2. run' = run \/ (run.completion = "none" /\ run' = [run EXCEPT !.status = "paused"])
      BY <3>1 DEF PauseSettled
    <3> QED
      BY <1>a, <1>b, <3>1, <3>2
  <2>2. CASE PauseObserve(p) \/ PauseRequest(p) \/ PauseTake(p) \/ ControlRelease(p)
    BY <1>a, <2>2 DEF PauseObserve, PauseRequest, PauseTake, ControlRelease, AppendControl, ledgerVars, history
  <2> QED
    BY <1>3, <2>1, <2>2 DEF PauserStep
<1>4. CASE Environment
  BY <1>a, <1>4 DEF Environment, LeaseExpires, CheckResume, Signal, Crash, ledgerVars, execVars, history
<1>5. CASE UNCHANGED vars
  BY <1>a, <1>5 DEF vars, execVars, ledgerVars, history
<1> QED
  BY <1>1, <1>2, <1>3, <1>4, <1>5 DEF Next

-----------------------------------------------------------------------------
\* While a write is in flight under the lease nothing is certified, and what its marker is
\* about to certify is the tree, unless somebody without the lease edited it since.
WriteCertifies(e, t) ==
  /\ run.verified = None
  /\ At(e, t) = "marked" =>
       /\ work[e][t].result.verified # Keep
       /\ work[e][t].result.verified # None /\ ~foreign => work[e][t].result.verified.hash = repo

\* The marker of a read certifies nothing.
ReadKeeps(e, t) ==
  At(e, t) = "marked" => work[e][t].result.verified \in {None, Keep} /\ work[e][t].result.candidate = None

CertInv ==
  /\ CertifiedRepository
  /\ \A e \in Executor, t \in WriteTask : Flying(e, t) => WriteCertifies(e, t)
  /\ \A e \in Executor, t \in Task \ WriteTask : ReadKeeps(e, t)

\* One node body moves its own task, and leaves what it does not move.
LEMMA TaskTree ==
  ASSUME ExecInv, NEW e \in Executor, NEW t \in Task, TaskOf(e, t)
  PROVE  /\ repo' = repo
         /\ Mark(e, t) \/ foreign' = foreign
         /\ EnterTask(e, t) \/ CommitTask(e, t) \/ run'.verified = run.verified
         /\ CommitTask(e, t) \/ run'.completion = run.completion
         /\ EnterTask(e, t) \/ Flying(e, t) \/ run' = run
         /\ work'[e][t].at = "marked" => Mark(e, t)
         /\ \A d \in Executor, u \in Task : d # e \/ u # t => work'[d][u] = work[d][u]
<1>0. OwnTypeOK /\ ExecTypeOK /\ run \in RunRow
  BY TypesSplit DEF ExecInv, LedgerTypeOK
<1>1. repo' = repo /\ (Mark(e, t) \/ foreign' = foreign)
  BY DEF TaskOf, EnterTask, RefuseTask, Begin, Abandon, Finish, Retry, Uncertain, Ask, Mark, CommitTask,
     CommitAsk, CommitThrown, TaskLost, history
<1>2. /\ EnterTask(e, t) \/ CommitTask(e, t) \/ run'.verified = run.verified
      /\ CommitTask(e, t) \/ run'.completion = run.completion
  <2>1. CASE Retry(e, t)
    BY <1>0, <2>1 DEF Retry, Fail, RunRow
  <2>2. CASE CommitAsk(e, t)
    BY <1>0, <2>2 DEF CommitAsk, CommitInterrupt, RunRow
  <2>3. CASE CommitThrown(e, t)
    <3>1. \E s : run' = [run EXCEPT !.status = s]
      BY <2>3 DEF CommitThrown, CommitError
    <3> QED
      BY <1>0, <3>1 DEF RunRow
  <2>4. CASE RefuseTask(e, t) \/ Begin(e, t) \/ Abandon(e, t) \/ Finish(e, t) \/ Uncertain(e, t) \/ Ask(e, t)
             \/ Mark(e, t) \/ TaskLost(e, t)
    BY <2>4 DEF RefuseTask, Begin, Abandon, Finish, Uncertain, Ask, Mark, TaskLost, PrepareInterruption, ledgerVars
  <2>5. CASE EnterTask(e, t)
    BY <1>0, <2>5 DEF EnterTask, Admit, Continue, RunRow
  <2> QED
    BY <2>1, <2>2, <2>3, <2>4, <2>5 DEF TaskOf
<1>6. EnterTask(e, t) \/ Flying(e, t) \/ run' = run
  BY DEF TaskOf, RefuseTask, Begin, Abandon, Finish, Retry, Uncertain, Ask, Mark, CommitTask, CommitAsk, CommitThrown,
     TaskLost, Fail, PrepareInterruption, CommitTerminal, CommitInterrupt, CommitError, Commit, ledgerVars, Flying, InFlight
<1>3. \E w : Move(e, t, w)
  BY DEF TaskOf, EnterTask, RefuseTask, Begin, Abandon, Finish, Retry, Uncertain, Ask, Mark, CommitTask,
     CommitAsk, CommitThrown, TaskLost, Place, Err
<1>4. \A d \in Executor, u \in Task : d # e \/ u # t => work'[d][u] = work[d][u]
  BY <1>0, <1>3, MoveOne
<1>5. work'[e][t].at = "marked" => Mark(e, t)
  <2>1. ASSUME NEW place \in Places \ {"marked"}, Place(e, t, place) PROVE work'[e][t].at # "marked"
    <3>1. work'[e][t] = [Idle EXCEPT !.at = place]
      BY <1>0, <2>1, MoveOne DEF Place
    <3> QED
      BY <2>1, <3>1 DEF Idle
  <2>2. ASSUME NEW c, Err(e, t, c) PROVE work'[e][t].at # "marked"
    <3>1. work'[e][t] = [Idle EXCEPT !.at = "erred", !.err = c]
      BY <1>0, <2>2, MoveOne DEF Err
    <3> QED
      BY <3>1 DEF Idle
  <2>3. ASSUME NEW saw, Move(e, t, [Idle EXCEPT !.at = "operated", !.saw = saw]) PROVE work'[e][t].at # "marked"
    <3>1. work'[e][t] = [Idle EXCEPT !.at = "operated", !.saw = saw]
      BY <1>0, <2>3, MoveOne
    <3> QED
      BY <3>1 DEF Idle
  <2>4. CASE EnterTask(e, t) \/ Begin(e, t) \/ Abandon(e, t) \/ Retry(e, t) \/ Uncertain(e, t) \/ Ask(e, t)
             \/ CommitTask(e, t) \/ CommitAsk(e, t)
    BY <2>1, <2>4 DEF EnterTask, Begin, Abandon, Retry, Uncertain, Ask, CommitTask, CommitAsk, Places
  <2>5. CASE RefuseTask(e, t) \/ CommitThrown(e, t) \/ TaskLost(e, t)
    BY <2>2, <2>5 DEF RefuseTask, CommitThrown, TaskLost
  <2>6. CASE Finish(e, t)
    BY <2>3, <2>6 DEF Finish
  <2> QED
    BY <2>4, <2>5, <2>6 DEF TaskOf
<1> QED
  BY <1>1, <1>2, <1>4, <1>5, <1>6

\* A marker that was just computed: a verifier certifies the tree it leaves, a write keeps no
\* certification, a read makes none.
LEMMA JustMarked ==
  ASSUME ExecInv, NEW e \in Executor, NEW t \in Task, Mark(e, t), work'[e][t].at = "marked"
  PROVE  /\ work'[e][t].result = Finalized(t, work[e][t].saw)
         /\ holder = e /\ work'[e][t].saw = work[e][t].saw
         /\ t \in WriteTask => /\ work'[e][t].result.verified # Keep
                               /\ work'[e][t].result.verified # None => work'[e][t].result.verified.hash = repo
         /\ t \notin WriteTask => /\ work'[e][t].result.verified \in {None, Keep}
                                  /\ work'[e][t].result.candidate = None
         /\ t \in End => (work'[e][t].result.completion = "ok" <=> work[e][t].saw # None)
<1>0. OwnTypeOK /\ ExecTypeOK /\ work[e][t] \in WorkRow /\ Verifier \subseteq WriteTask
  BY TypesSplit, RunExecutionAssumption DEF ExecInv, OwnTypeOK
<1>1. ~Place(e, t, "thrown")
  <2> SUFFICES ASSUME Place(e, t, "thrown") PROVE FALSE
    OBVIOUS
  <2>1. work'[e][t] = [Idle EXCEPT !.at = "thrown"]
    BY <1>0, MoveOne DEF Place
  <2> QED
    BY <2>1 DEF Idle
<1>2. /\ holder = e
      /\ t \in WriteTask => Revision < MaxRevision
      /\ Move(e, t, [work[e][t] EXCEPT !.at = "marked", !.result = Finalized(t, work[e][t].saw)])
  BY <1>1 DEF Mark
<1>3. work'[e][t] = [work[e][t] EXCEPT !.at = "marked", !.result = Finalized(t, work[e][t].saw)]
  BY <1>0, <1>2, MoveOne
<1>4. work'[e][t].result = Finalized(t, work[e][t].saw) /\ work'[e][t].saw = work[e][t].saw
  BY <1>0, <1>3 DEF WorkRow
<1>5. t \in WriteTask => /\ Finalized(t, work[e][t].saw).verified # Keep
                         /\ Finalized(t, work[e][t].saw).verified # None => Finalized(t, work[e][t].saw).verified.hash = repo
  <2> SUFFICES ASSUME t \in WriteTask
               PROVE  /\ Finalized(t, work[e][t].saw).verified # Keep
                      /\ Finalized(t, work[e][t].saw).verified # None => Finalized(t, work[e][t].saw).verified.hash = repo
    OBVIOUS
  <2>1. /\ Finalized(t, work[e][t].saw).verified \in {None, [hash |-> repo, revision |-> Revision + 1]}
    BY DEF Finalized
  <2>2. Finalized(t, work[e][t].saw) \in Result
    BY <1>0, <1>2, FinalizedResult DEF WorkRow
  <2>3. [hash |-> repo, revision |-> Revision + 1] \in Candidate
    <3>1. Revision \in Nat /\ repo \in Hash /\ MaxRevision \in Nat
      BY <1>0, RunLedgerAssumption DEF ExecTypeOK, LedgerTypeOK, RunRow, Candidate, Revision
    <3> QED
      BY <1>2, <3>1 DEF Candidate
  <2>4. None # Keep /\ Keep \notin Candidate
    BY RunLedgerAssumption
  <2> QED
    BY <2>1, <2>3, <2>4
<1>6. t \notin WriteTask => /\ Finalized(t, work[e][t].saw).verified \in {None, Keep}
                            /\ Finalized(t, work[e][t].saw).candidate = None
  BY <1>0 DEF Finalized
<1>7. t \in End => (Finalized(t, work[e][t].saw).completion = "ok" <=> work[e][t].saw # None)
  BY DEF Finalized
<1> QED
  BY <1>2, <1>4, <1>5, <1>6, <1>7

\* What a commit leaves of the certification: that of the marker, or less.
LEMMA CommittedVerified ==
  ASSUME ExecInv, NEW e \in Executor, NEW t \in Task, CommitTask(e, t)
  PROVE  /\ Flying(e, t) /\ At(e, t) = "marked" /\ ~Flying(e, t)'
         /\ run'.completion = IF work[e][t].result.completion = "none" THEN run.completion ELSE work[e][t].result.completion
         /\ \/ run'.verified = None
            \/ run'.verified = run.verified /\ work[e][t].result.verified = Keep
            \/ /\ work[e][t].result.verified \notin {None, Keep}
               /\ run'.verified.hash = work[e][t].result.verified.hash
<1>0. OwnTypeOK /\ ExecTypeOK /\ run \in RunRow
  BY TypesSplit DEF ExecInv, LedgerTypeOK
<1>1. holder = e /\ holder' = e /\ At(e, t) = "marked"
  BY TaskLeaves DEF TaskOf, CommitTask, CommitTerminal, Commit
<1>2. work'[e][t].at = "done"
  <2>1. work'[e][t] = [Idle EXCEPT !.at = "done"]
    BY <1>0, MoveOne DEF CommitTask, Place
  <2> QED
    BY <2>1 DEF Idle
<1> DEFINE r == work[e][t].result
<1>3. /\ run'.verified = CASE r.verified = Keep -> IF r.candidate # None THEN None ELSE run.verified
                           [] r.verified = None -> None
                           [] OTHER -> [hash |-> r.verified.hash, revision |-> r.verified.revision, by |-> t]
      /\ run'.completion = IF r.completion = "none" THEN run.completion ELSE r.completion
  BY <1>0 DEF CommitTask, CommitTerminal, RunRow
<1> QED
  BY <1>1, <1>2, <1>3 DEF Flying, At, InFlight

\* CertInv is kept by the node bodies: a certification is made of the tree its verifier leaves,
\* and the next write revokes it before it touches the tree.
LEMMA CertTaskStep ==
  ASSUME WritesInSequence, ExecInv, WriteInv, StageInv, CertInv, [Next]_vars,
         NEW e \in Executor, NEW t \in Task, TaskOf(e, t)
  PROVE  CertInv'
<1>0. OwnTypeOK /\ ExecTypeOK /\ run \in RunRow /\ WriteTask \subseteq Task
  BY TypesSplit, RunLedgerAssumption DEF ExecInv, LedgerTypeOK
<1>1. repo' = repo /\ holder' = holder
  BY TaskTree, TaskLeaves
<1>2. foreign' = foreign \/ (Flying(e, t) /\ t \in WriteTask)
  <2>1. CASE Mark(e, t)
    BY <1>0, <2>1 DEF Mark, Flying, InFlight, ExecTypeOK
  <2> QED
    BY <2>1, TaskTree
<1>3. ASSUME NEW d \in Executor, NEW u \in Task, d # e \/ u # t
      PROVE  work'[d][u] = work[d][u] /\ Flying(d, u)' = Flying(d, u)
  BY <1>1, <1>3, TaskTree DEF Flying, At
<1>4. ASSUME EnterTask(e, t)
      PROVE  \/ t \in WriteTask /\ run'.verified = None
             \/ t \notin WriteTask /\ run'.verified = run.verified
  <2>1. CASE Admit(e, t)
    <3>1. run'.verified = IF t \in WriteTask THEN None ELSE run.verified
      BY <1>0, <2>1 DEF Admit, RunRow
    <3> QED
      BY <3>1
  <2>2. CASE Continue(e, t)
    <3>1. t \notin WriteTask
      BY <2>2 DEF Continue, WriteInv, WriteSound
    <3>2. run'.verified = run.verified
      BY <1>0, <2>2 DEF Continue, RunRow
    <3> QED
      BY <3>1, <3>2
  <2> QED
    BY <1>4, <2>1, <2>2 DEF EnterTask
<1>5. ASSUME CommitTask(e, t), t \notin WriteTask PROVE run'.verified \in {None, run.verified}
  BY <1>5, CommittedVerified DEF CertInv, ReadKeeps
<1>6. CertifiedRepository'
  <2> SUFFICES ASSUME run'.verified # None, ~foreign' PROVE run'.verified.hash = repo
    BY <1>1 DEF CertifiedRepository
  <2>1. CASE run'.verified = run.verified
    BY <1>2, <2>1 DEF CertInv, CertifiedRepository, WriteCertifies
  <2>2. CASE CommitTask(e, t) /\ t \in WriteTask
    <3>1. Flying(e, t) /\ At(e, t) = "marked" /\ ~Mark(e, t)
      BY <2>2, CommittedVerified DEF Mark
    <3>2. foreign' = foreign
      BY <3>1, TaskTree
    <3> QED
      BY <2>2, <3>1, <3>2, CommittedVerified DEF CertInv, WriteCertifies
  <2> QED
    BY <1>4, <1>5, <2>1, <2>2, TaskTree
<1>7. ASSUME NEW d \in Executor, NEW u \in WriteTask, Flying(d, u)' PROVE WriteCertifies(d, u)'
  <2>1. CASE d = e /\ u = t
    <3>1. ~CommitTask(e, t)
      BY <1>7, <2>1, CommittedVerified
    <3>2. run'.verified = None
      <4>1. CASE EnterTask(e, t)
        BY <1>4, <1>7, <2>1, <4>1
      <4>2. CASE ~EnterTask(e, t)
        <5>1. Flying(e, t)
          BY <1>0, <1>7, <2>1, <4>2, FlyingBefore
        <5> QED
          BY <2>1, <3>1, <4>2, <5>1, <1>7, TaskTree DEF CertInv, WriteCertifies
      <4> QED
        BY <4>1, <4>2
    <3>3. ASSUME work'[e][t].at = "marked"
          PROVE  /\ work'[e][t].result.verified # Keep
                 /\ work'[e][t].result.verified # None => work'[e][t].result.verified.hash = repo
      BY <1>7, <2>1, <3>3, TaskTree, JustMarked
    <3> QED
      BY <1>1, <2>1, <3>2, <3>3 DEF WriteCertifies, At
  <2>2. CASE d # e \/ u # t
    <3>1. u \in Task
      BY <1>0
    <3>2. Flying(d, u) /\ work'[d][u] = work[d][u]
      BY <1>3, <1>7, <2>2, <3>1
    <3>3. ~(Flying(e, t) /\ t \in WriteTask)
      <4> SUFFICES ASSUME Flying(e, t), t \in WriteTask PROVE FALSE
        OBVIOUS
      <4>1. d = e
        BY <3>2 DEF Flying
      <4> QED
        BY <2>2, <3>1, <3>2, <4>1, OneStage DEF WritesInSequence
    <3>4. foreign' = foreign
      BY <1>2, <3>3
    <3>5. WriteCertifies(d, u)
      BY <3>2 DEF CertInv
    <3>6. run'.verified = None
      <4>1. CommitTask(e, t) => t \notin WriteTask
        BY <3>3, CommittedVerified
      <4> QED
        BY <1>4, <1>5, <3>5, <4>1, TaskTree DEF WriteCertifies
    <3> QED
      BY <1>1, <3>2, <3>4, <3>5, <3>6 DEF WriteCertifies, At
  <2> QED
    BY <2>1, <2>2
<1>8. ASSUME NEW d \in Executor, NEW u \in Task \ WriteTask PROVE ReadKeeps(d, u)'
  <2>1. CASE d = e /\ u = t
    <3>1. ASSUME work'[e][t].at = "marked"
          PROVE  work'[e][t].result.verified \in {None, Keep} /\ work'[e][t].result.candidate = None
      BY <1>8, <2>1, <3>1, TaskTree, JustMarked
    <3> QED
      BY <2>1, <3>1 DEF ReadKeeps, At
  <2>2. CASE d # e \/ u # t
    BY <1>3, <2>2 DEF CertInv, ReadKeeps, At
  <2> QED
    BY <2>1, <2>2
<1> QED
  BY <1>6, <1>7, <1>8 DEF CertInv

\* CertInv is kept by every step.
LEMMA CertInvStep == WritesInSequence /\ ExecInv /\ WriteInv /\ StageInv /\ CertInv /\ [Next]_vars => CertInv'
<1> SUFFICES ASSUME WritesInSequence, ExecInv, WriteInv, StageInv, CertInv, [Next]_vars PROVE CertInv'
  OBVIOUS
<1>0. WriteTask \subseteq Task /\ OwnTypeOK
  BY TypesSplit, RunLedgerAssumption DEF ExecInv
<1>1. ASSUME NEW e \in Executor, NEW t \in Task, TaskOf(e, t) PROVE CertInv'
  BY <1>1, CertTaskStep
<1>2. ASSUME NEW e \in Executor, NEW t \in Task, Edit(e, t) PROVE CertInv'
  <2>1. UNCHANGED <<holder, run, work>> /\ t \in WriteTask /\ At(e, t) = "operating" /\ foreign' = (foreign \/ holder # e)
    BY <1>2 DEF Edit, leaseVars, ledgerVars
  <2>2. holder = e => Flying(e, t)
    BY <2>1 DEF Flying, InFlight
  <2>3. CertifiedRepository'
    BY <2>1, <2>2 DEF CertInv, CertifiedRepository, WriteCertifies
  <2>4. ASSUME NEW d \in Executor, NEW u \in WriteTask, Flying(d, u)' PROVE WriteCertifies(d, u)'
    <3>1. Flying(d, u) /\ WriteCertifies(d, u)
      BY <2>1, <2>4 DEF Flying, At, CertInv
    <3>2. ASSUME At(d, u) = "marked" PROVE foreign'
      <4> SUFFICES ASSUME holder = e PROVE FALSE
        BY <2>1
      <4>1. d = e /\ Flying(e, t) /\ u # t /\ u \in Task
        BY <1>0, <2>1, <2>2, <3>1, <3>2 DEF Flying
      <4> QED
        BY <2>1, <3>1, <4>1, OneStage DEF WritesInSequence
    <3> QED
      BY <2>1, <3>1, <3>2 DEF WriteCertifies, At
  <2>5. \A d \in Executor, u \in Task \ WriteTask : ReadKeeps(d, u)'
    BY <2>1 DEF CertInv, ReadKeeps, At
  <2> QED
    BY <2>3, <2>4, <2>5 DEF CertInv
<1>3. ASSUME NEW t \in WriteTask, Stray(t) PROVE CertInv'
  <2>1. UNCHANGED <<holder, run, work>> /\ (foreign' \/ UNCHANGED <<repo, foreign>>)
    BY <1>3 DEF Stray, leaseVars, ledgerVars
  <2> QED
    BY <2>1 DEF CertInv, CertifiedRepository, WriteCertifies, ReadKeeps, Flying, At
<1>4. ASSUME UNCHANGED <<repo, foreign>>, run'.verified = run.verified, ~\E e \in Executor, t \in Task : TaskOf(e, t)
      PROVE  CertInv'
  <2>1. CertifiedRepository'
    BY <1>4 DEF CertInv, CertifiedRepository
  <2>2. ASSUME NEW d \in Executor, NEW u \in WriteTask, Flying(d, u)' PROVE WriteCertifies(d, u)'
    <3>1. Flying(d, u) /\ work'[d][u] = work[d][u]
      BY <1>0, <1>4, <2>2, FlyingBefore DEF TaskOf
    <3> QED
      BY <1>4, <3>1 DEF CertInv, WriteCertifies, At
  <2>3. ASSUME NEW d \in Executor, NEW u \in Task \ WriteTask PROVE ReadKeeps(d, u)'
    <3>1. work'[d][u] = work[d][u] \/ work'[d][u] = Idle
      BY <1>4, StepsOfTask DEF Elsewhere
    <3> QED
      BY <3>1 DEF CertInv, ReadKeeps, At, Idle
  <2> QED
    BY <2>1, <2>2, <2>3 DEF CertInv
<1> QED
  BY <1>1, <1>2, <1>3, <1>4, TreeSteps DEF RunKept

\* Nothing is certified in the initial state.
LEMMA CertInvInit == Init => CertInv
<1> SUFFICES ASSUME Init PROVE CertInv
  OBVIOUS
<1>1. \A e \in Executor, t \in Task : At(e, t) = "idle"
  BY DEF Init, At, Idle
<1>2. run.verified = None /\ WriteTask \subseteq Task
  BY RunLedgerAssumption DEF Init, LedgerInit
<1> QED
  BY <1>1, <1>2 DEF CertInv, CertifiedRepository, WriteCertifies, ReadKeeps

\* A certified candidate is the working tree, until an operation that outlived its tenure
\* edits it, in every workflow whose writes are sequential (ledger.ts:112, compiler.ts:122).
THEOREM CertifiedIsRepository == ASSUME WritesInSequence PROVE Spec => []CertifiedRepository
<1>1. CertInv => CertifiedRepository
  BY DEF CertInv
<1>2. ExecInv /\ WriteInv /\ StageInv /\ CertInv /\ [Next]_vars => CertInv'
  BY CertInvStep
<1> QED
  BY <1>1, <1>2, ExecutionInvariant, WriteInvInit, WriteInvStep, StageInvInit, StageInvStep, CertInvInit, PTL DEF Spec

-----------------------------------------------------------------------------
\* A marker completes the run only at a root node, and an end node that found its tree
\* certified when it saw it is still right: nothing else is in flight beside it.
MarksSound(e, t) ==
  At(e, t) = "marked" =>
    /\ work[e][t].result.completion # "none" => t \in Root
    /\ t \in End => (work[e][t].result.completion = "ok" <=> work[e][t].saw # None)

SawCertified(e, t) ==
  Flying(e, t) /\ At(e, t) \in {"operated", "marked"} /\ RequiresVerified /\ work[e][t].saw # None =>
    run.verified # None /\ run.verified.hash = work[e][t].saw

RootInv ==
  /\ \A e \in Executor, t \in Task : MarksSound(e, t)
  /\ \A e \in Executor, t \in End : SawCertified(e, t)
  /\ run.completion # "none" => \A e \in Executor, t \in Task : ~Flying(e, t)

\* Beside a root node in flight nothing is admitted and nothing commits.
LEMMA RootHolds ==
  ASSUME ExecInv, StageInv, [Next]_vars, NEW e \in Executor, NEW t \in Root, Flying(e, t), Flying(e, t)',
         NEW d \in Executor, NEW u \in Task
  PROVE  ~EnterTask(d, u) /\ ~CommitTask(d, u)
<1>0. t \in Task /\ OwnTypeOK
  BY TypesSplit, RunExecutionAssumption DEF ExecInv
<1>1. ~EnterTask(d, u)
  <2> SUFFICES ASSUME EnterTask(d, u) PROVE FALSE
    OBVIOUS
  <2>1. holder = d /\ Runnable(u) /\ At(d, u) = "idle"
    BY DEF EnterTask, Admit, Continue, Commit
  <2>2. d = e /\ Stage[t] = Stage[u]
    BY <1>0, <2>1, RunnableStage DEF Flying
  <2> QED
    BY <2>1, <2>2, RunExecutionAssumption DEF Flying, InFlight
<1>2. ~CommitTask(d, u)
  <2> SUFFICES ASSUME CommitTask(d, u) PROVE FALSE
    OBVIOUS
  <2>1. Flying(d, u) /\ ~Flying(d, u)'
    BY CommittedVerified
  <2>2. d = e
    BY <2>1 DEF Flying
  <2> QED
    BY <1>0, <2>1, <2>2, OneStage, RunExecutionAssumption
<1> QED
  BY <1>1, <1>2

\* What a task carries when it is marked it was just given, or had before.
LEMMA MarksStep ==
  ASSUME ExecInv, [Next]_vars, NEW e \in Executor, NEW t \in Task, MarksSound(e, t)
  PROVE  MarksSound(e, t)'
<1> SUFFICES ASSUME At(e, t)' = "marked"
             PROVE  /\ work'[e][t].result.completion # "none" => t \in Root
                    /\ t \in End => (work'[e][t].result.completion = "ok" <=> work'[e][t].saw # None)
  BY DEF MarksSound, At
<1>1. CASE Mark(e, t)
  <2>1. work'[e][t].result = Finalized(t, work[e][t].saw) /\ work'[e][t].saw = work[e][t].saw
    BY <1>1, JustMarked DEF At
  <2>2. Finalized(t, work[e][t].saw).completion # "none" => t \in Root
    BY RunExecutionAssumption DEF Finalized
  <2> QED
    BY <1>1, <2>1, <2>2, JustMarked DEF At
<1>2. CASE work'[e][t] = work[e][t]
  BY <1>2 DEF MarksSound, At
<1>3. ASSUME NEW d \in Executor, TaskOf(d, t) PROVE Mark(e, t) \/ work'[e][t] = work[e][t]
  BY <1>3, TaskTree DEF At
<1>4. ASSUME Elsewhere(t) PROVE work'[e][t] = work[e][t]
  BY <1>4 DEF Elsewhere, At, Idle
<1> QED
  BY <1>1, <1>2, <1>3, <1>4, StepsOfTask DEF Recover

\* What an end node saw of the tree when its delivery requires a verification.
LEMMA SawStep ==
  ASSUME ExecInv, StageInv, RootInv, [Next]_vars, NEW e \in Executor, NEW t \in End
  PROVE  SawCertified(e, t)'
<1>0. t \in Root /\ t \in Task /\ t \notin WriteTask \union Human /\ OwnTypeOK /\ ExecTypeOK
  BY TypesSplit, RunExecutionAssumption DEF ExecInv
<1> SUFFICES ASSUME Flying(e, t)', At(e, t)' \in {"operated", "marked"}, RequiresVerified, work'[e][t].saw # None
             PROVE  run'.verified # None /\ run'.verified.hash = work'[e][t].saw
  BY DEF SawCertified
<1>1. ~EnterTask(e, t)
  <2> SUFFICES ASSUME EnterTask(e, t) PROVE FALSE
    OBVIOUS
  <2>1. work'[e][t] = [Idle EXCEPT !.at = "admitted"]
    BY <1>0, MoveOne DEF EnterTask, Place
  <2> QED
    BY <2>1 DEF Idle, At
<1>2. Flying(e, t) /\ (TaskOf(e, t) \/ work'[e][t] = work[e][t])
  BY <1>0, <1>1, FlyingBefore
<1>3. run'.verified = run.verified
  <2>1. \A d \in Executor, u \in Task : ~EnterTask(d, u) /\ ~CommitTask(d, u)
    BY <1>0, <1>2, RootHolds
  <2>2. ASSUME NEW d \in Executor, NEW u \in Task, TaskOf(d, u) PROVE run'.verified = run.verified
    BY <2>1, <2>2, TaskTree
  <2>3. ASSUME NEW d \in Executor, NEW u \in Task, Edit(d, u) PROVE run'.verified = run.verified
    BY <2>3 DEF Edit, ledgerVars
  <2>4. ASSUME NEW u \in WriteTask, Stray(u) PROVE run'.verified = run.verified
    BY <2>4 DEF Stray, ledgerVars
  <2> QED
    BY <2>2, <2>3, <2>4, TreeSteps DEF RunKept
<1>4. CASE work'[e][t] = work[e][t]
  BY <1>0, <1>2, <1>3, <1>4 DEF RootInv, SawCertified, At
<1>5. CASE Mark(e, t)
  <2>1. work'[e][t].saw = work[e][t].saw /\ At(e, t) = "operated"
    <3>1. work'[e][t].at = "marked"
      <4>1. ~Place(e, t, "thrown")
        <5> SUFFICES ASSUME Place(e, t, "thrown") PROVE FALSE
          OBVIOUS
        <5>1. work'[e][t] = [Idle EXCEPT !.at = "thrown"]
          BY <1>0, MoveOne DEF Place
        <5> QED
          BY <5>1 DEF Idle, At
      <4>2. work'[e][t] = [work[e][t] EXCEPT !.at = "marked", !.result = Finalized(t, work[e][t].saw)]
        BY <1>0, <1>5, <4>1, MoveOne DEF Mark
      <4> QED
        BY <1>0, <4>2 DEF OwnTypeOK, WorkRow
    <3> QED
      BY <1>0, <1>5, <3>1, JustMarked DEF Mark
  <2> QED
    BY <1>0, <1>2, <1>3, <2>1 DEF RootInv, SawCertified
<1>6. CASE Finish(e, t)
  <2>0. \A A, B, C : t \notin Human /\ t \in End => (CASE t \in End -> A [] t \in Human -> B [] OTHER -> C) = A
    OBVIOUS
  <2>1. PICK saw \in {IF Deliverable THEN repo ELSE None} : Move(e, t, [Idle EXCEPT !.at = "operated", !.saw = saw])
    BY <1>0, <1>6, <2>0 DEF Finish
  <2>2. work'[e][t] = [Idle EXCEPT !.at = "operated", !.saw = saw]
    BY <1>0, <2>1, MoveOne
  <2>3. work'[e][t].saw = saw
    BY <2>2 DEF Idle
  <2> QED
    BY <1>3, <2>1, <2>3 DEF Deliverable
<1>7. CASE Abandon(e, t)
  <2>1. Place(e, t, "operated")
    BY <1>0, <1>7 DEF Abandon
  <2>2. work'[e][t] = [Idle EXCEPT !.at = "operated"]
    BY <1>0, <2>1, MoveOne DEF Place
  <2> QED
    BY <2>2 DEF Idle
<1>8. ASSUME TaskOf(e, t), ~Mark(e, t), ~Finish(e, t), ~Abandon(e, t) PROVE FALSE
  <2>1. ASSUME NEW place \in {"operating", "idle", "thrown", "asking", "done", "waiting"}, Place(e, t, place) PROVE FALSE
    <3>1. work'[e][t] = [Idle EXCEPT !.at = place]
      BY <1>0, <2>1, MoveOne DEF Place
    <3> QED
      BY <3>1 DEF Idle, At
  <2>2. ASSUME NEW c, Err(e, t, c) PROVE FALSE
    <3>1. work'[e][t] = [Idle EXCEPT !.at = "erred", !.err = c]
      BY <1>0, <2>2, MoveOne DEF Err
    <3> QED
      BY <3>1 DEF Idle, At
  <2> QED
    BY <1>1, <1>8, <2>1, <2>2 DEF TaskOf, RefuseTask, Begin, Retry, Uncertain, Ask, CommitTask, CommitAsk, CommitThrown, TaskLost
<1> QED
  BY <1>2, <1>4, <1>5, <1>6, <1>7, <1>8

\* A run completes when its root node commits, and then nothing is in flight.
LEMMA DoneStep ==
  ASSUME ExecInv, StageInv, RootInv, [Next]_vars, run'.completion # "none",
         NEW e \in Executor, NEW t \in Task
  PROVE  ~Flying(e, t)'
<1> SUFFICES ASSUME Flying(e, t)' PROVE FALSE
  OBVIOUS
<1>1. run.completion = "none"
  BY FlyingBefore DEF RootInv, EnterTask, Runnable
<1>2. PICK d \in Executor, u \in Task : CommitTask(d, u)
  <2>1. ASSUME NEW d \in Executor, NEW u \in Task, Edit(d, u) PROVE FALSE
    BY <1>1, <2>1 DEF Edit, ledgerVars
  <2>2. ASSUME NEW u \in WriteTask, Stray(u) PROVE FALSE
    BY <1>1, <2>2 DEF Stray, ledgerVars
  <2>3. ~RunKept
    BY <1>1 DEF RunKept
  <2>4. PICK d \in Executor, u \in Task : TaskOf(d, u)
    BY <2>1, <2>2, <2>3, TreeSteps
  <2> QED
    BY <1>1, <2>4, TaskTree
<1>3. /\ Flying(d, u) /\ ~Flying(d, u)' /\ At(d, u) = "marked"
      /\ u \in Root
  BY <1>1, <1>2, CommittedVerified DEF RootInv, MarksSound
<1>4. ~EnterTask(e, t)
  <2> SUFFICES ASSUME EnterTask(e, t) PROVE FALSE
    OBVIOUS
  <2>1. e # d \/ t # u
    BY <1>2 DEF CommitTask, EnterTask
  <2>2. work'[e][t] = work[e][t]
    BY <1>2, <2>1, TaskTree DEF TaskOf
  <2> QED
    BY <2>2 DEF EnterTask, Flying, At, InFlight
<1>5. Flying(e, t) /\ e = d
  BY <1>3, <1>4, FlyingBefore DEF Flying
<1> QED
  BY <1>3, <1>5, OneStage, RunExecutionAssumption

\* RootInv is inductive.
LEMMA RootInvStep == ExecInv /\ StageInv /\ RootInv /\ [Next]_vars => RootInv'
  BY MarksStep, SawStep, DoneStep DEF RootInv

\* Nothing is marked and nothing in flight in the initial state.
LEMMA RootInvInit == Init => RootInv
<1> SUFFICES ASSUME Init PROVE RootInv
  OBVIOUS
<1>1. \A e \in Executor, t \in Task : At(e, t) = "idle"
  BY DEF Init, At, Idle
<1> QED
  BY <1>1, RunExecutionAssumption DEF RootInv, MarksSound, SawCertified, Flying, InFlight

\* A run that requires verification completes successfully only with the tree of its
\* certification, even if somebody who no longer owns the run edits it (pieces/control.ts:26).
THEOREM DeliveredAreCertified == Spec => []DeliveredIsCertified
<1>1. RootInv => DeliveredIsCertified
  BY RunExecutionAssumption DEF RootInv, MarksSound, SawCertified, DeliveredIsCertified, Flying, InFlight
<1>2. ExecInv /\ StageInv /\ RootInv /\ [Next]_vars => RootInv'
  BY RootInvStep
<1> QED
  BY <1>1, <1>2, ExecutionInvariant, StageInvInit, StageInvStep, RootInvInit, PTL DEF Spec

\* Nothing that is settled later changes the completion or the status of a completed run.
THEOREM CompletionIsFinal == Spec => CompletedStays
<1>1. ExecInv /\ StageInv /\ RootInv /\ [Next]_vars
        => (run.completion # "none" => run'.completion = run.completion /\ run'.status = run.status)
  <2> SUFFICES ASSUME ExecInv, StageInv, RootInv, [Next]_vars, run.completion # "none"
               PROVE  run'.completion = run.completion /\ run'.status = run.status
    OBVIOUS
  <2>1. ASSUME NEW e \in Executor, NEW t \in Task, TaskOf(e, t) PROVE run' = run
    <3>1. ~Flying(e, t) /\ ~EnterTask(e, t)
      BY DEF RootInv, EnterTask, Runnable
    <3> QED
      BY <2>1, <3>1, TaskTree
  <2>2. ASSUME NEW e \in Executor, NEW t \in Task, Edit(e, t) PROVE run' = run
    BY <2>2 DEF Edit, ledgerVars
  <2>3. ASSUME NEW t \in WriteTask, Stray(t) PROVE run' = run
    BY <2>3 DEF Stray, ledgerVars
  <2> QED
    BY <2>1, <2>2, <2>3, TreeSteps DEF RunKept
<1>2. ExecInv /\ StageInv /\ RootInv /\ [Next]_vars => RootInv'
  BY RootInvStep
<1> QED
  BY <1>1, <1>2, ExecutionInvariant, StageInvInit, StageInvStep, RootInvInit, PTL DEF Spec, CompletedStays
=============================================================================
