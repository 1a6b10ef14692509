------------------------------ MODULE RunLedger ------------------------------
(***************************************************************************)
(* The durable ledger of one run (engine/checkpoint/ledger.ts and the      *)
(* control inbox of engine/steering/inbox.ts): what each SQLite            *)
(* transaction checks and writes. One transaction is one action; all but   *)
(* the append of a control request are fenced by the run lease.            *)
(*                                                                         *)
(* A Task is one LangGraph task identity, that is one visit of a node; the *)
(* ledger reads only the latest attempt of a visit, so only that one is    *)
(* kept. Here any owner may call any transaction at any moment: what the   *)
(* module promises does not depend on the executor being well behaved.     *)
(* RunExecution restricts the calls to those the executor makes.           *)
(***************************************************************************)
EXTENDS FencedLease, FiniteSets

CONSTANTS
  Task,            \* visits of the run
  WriteTask,       \* those whose effect is 'write'
  AITask,          \* those that require a provider
  Verifier,        \* kinds verify, implementation, implementation-step
  Hash,            \* candidate fingerprints
  Cancel, Pause,   \* control requests of the two kinds, by request id
  Attempts,        \* Task -> retry.maxAttempts
  MaxTransitions,  \* definition.maxTransitions
  FailFast,        \* policies.failFast, 0 when absent
  MaxAttempt,      \* bound on the physical attempts of a visit
  MaxRevision,     \* bound on candidate revisions
  None, Keep       \* NULL; a marker without the property 'verified'

VARIABLES
  run,        \* the row of table runs
  attempt,    \* Task -> its latest row of table attempts
  interrupt,  \* Task -> its row of table interrupts: none, asked or answered
  inbox       \* control request -> none, pending or consumed

ledgerVars == <<run, attempt, interrupt, inbox>>

RunStatus == {"running", "paused", "interrupted", "failed", "cancelled", "succeeded"}
AttemptStatus == {"none", "running", "paused", "interrupted", "failed", "succeeded"}
Candidate == [hash : Hash, revision : 1..MaxRevision]
Verified == [hash : Hash, revision : 1..MaxRevision, by : Task]
Requests == Cancel \union Pause

RunRow == [status : RunStatus, completion : {"none", "ok", "failed"},
           candidate : Candidate \union {None}, verified : Verified \union {None}, failures : Nat]
AttemptRow == [n : Nat, status : AttemptStatus, epoch : Nat,
               authorized : BOOLEAN, staged : BOOLEAN, terminal : BOOLEAN]

\* What a terminal marker proposes: Keep leaves verified_json alone, None
\* revokes it, a candidate certifies it.
Result == [status : {"succeeded", "failed"}, candidate : Candidate \union {None},
           receipt : Hash \union {None}, verified : Candidate \union {None, Keep},
           completion : {"none", "ok", "failed"}]

ASSUME RunLedgerAssumption ==
  /\ WriteTask \subseteq Task
  /\ AITask \subseteq Task
  /\ Verifier \subseteq Task
  /\ Cancel \intersect Pause = {}
  /\ Attempts \in [Task -> Nat]
  /\ MaxTransitions \in Nat
  /\ MaxAttempt \in Nat
  /\ MaxRevision \in Nat \ {0}
  /\ FailFast \in Nat
  /\ None \notin Candidate \union Verified \union {Keep}
  /\ Keep \notin Candidate

NoAttempt == [n |-> 0, status |-> "none", epoch |-> 0, authorized |-> FALSE,
              staged |-> FALSE, terminal |-> FALSE]

LedgerTypeOK ==
  /\ FencedTypeOK
  /\ run \in RunRow
  /\ attempt \in [Task -> AttemptRow]
  /\ interrupt \in [Task -> {"none", "asked", "answered"}]
  /\ inbox \in [Requests -> {"none", "pending", "consumed"}]

\* RunLedger.initialize
LedgerInit ==
  /\ FencedInit
  /\ run = [status |-> "running", completion |-> "none", candidate |-> None,
            verified |-> None, failures |-> 0]
  /\ attempt = [t \in Task |-> NoAttempt]
  /\ interrupt = [t \in Task |-> "none"]
  /\ inbox = [r \in Requests |-> "none"]

-----------------------------------------------------------------------------
CancelPending == \E r \in Cancel : inbox[r] = "pending"
PausePending == \E r \in Pause : inbox[r] = "pending"
Consumed(kind) == [r \in Requests |-> IF r \in kind /\ inbox[r] = "pending" THEN "consumed" ELSE inbox[r]]

Pending == {t \in Task : interrupt[t] = "asked"}
Visited == {t \in Task : attempt[t].n > 0}
Revision == IF run.candidate = None THEN 0 ELSE run.candidate.revision

\* assertFrame: the frame of this tenure's attempt.
Framed(o, t) == holder = o /\ attempt[t].n > 0 /\ attempt[t].epoch = epoch

\* mutant: an interrupted write is admitted like a read
RefusalOfReads(t) ==
  IF attempt[t].n = 0 /\ Cardinality(Visited) >= MaxTransitions THEN "recursion_limit"
  ELSE IF attempt[t].terminal \/ attempt[t].status = "paused" THEN "none"
  ELSE IF CancelPending THEN "aborted"
  ELSE IF PausePending THEN "paused"
  ELSE IF attempt[t].n >= Attempts[t] /\ ~attempt[t].authorized THEN "retry_exhausted"
  ELSE "none"

\* enter's refusals, in the order of the code. An attempt that settled or waits
\* for an answer passes before the controls are looked at.
Refusal(t) ==
  IF attempt[t].n = 0 /\ Cardinality(Visited) >= MaxTransitions THEN "recursion_limit"
  ELSE IF attempt[t].terminal \/ attempt[t].status = "paused" THEN "none"
  ELSE IF CancelPending THEN "aborted"
  ELSE IF PausePending THEN "paused"
  ELSE IF FailFast > 0 /\ run.failures >= FailFast THEN "fail_fast"
  ELSE IF attempt[t].status = "running" /\ attempt[t].epoch = epoch THEN "attempt_running"
  ELSE IF attempt[t].status \in {"running", "interrupted"} /\ t \in WriteTask
          /\ ~attempt[t].authorized THEN "recover_required"
  ELSE IF attempt[t].n >= Attempts[t] /\ ~attempt[t].authorized THEN "retry_exhausted"
  ELSE "none"

\* enter: a new physical attempt. Admitting a write revokes the certification.
Admit(o, t) ==
  /\ Commit(o)
  /\ Refusal(t) = "none" /\ ~attempt[t].terminal /\ attempt[t].status # "paused"
  /\ attempt[t].n < MaxAttempt
  /\ attempt' = [attempt EXCEPT ![t] = [NoAttempt EXCEPT !.n = attempt[t].n + 1,
                                        !.status = "running", !.epoch = epoch]]
  /\ run' = [run EXCEPT !.status = "running",
                        !.verified = IF t \in WriteTask THEN None ELSE run.verified]
  /\ UNCHANGED <<interrupt, inbox>>

\* enter: an attempt that waited for a human continues under this tenure.
Continue(o, t) ==
  /\ Commit(o)
  /\ attempt[t].status = "paused"
  /\ attempt' = [attempt EXCEPT ![t].status = "running", ![t].epoch = epoch]
  /\ run' = [run EXCEPT !.status = "running"]
  /\ UNCHANGED <<interrupt, inbox>>

\* The candidate a marker leaves in the runs row.
Proposed(r) == IF r.candidate # None THEN r.candidate ELSE run.candidate

\* commitTerminal's checks: candidate_conflict and receipt_invalid. A receipt is
\* the hash of a valid, full verification.
Acceptable(t, r) ==
  /\ r.candidate # None => r.candidate.revision > Revision
  /\ r.receipt # None => Proposed(r) # None /\ r.receipt = Proposed(r).hash
  /\ r.verified \notin {None, Keep} =>
       t \in Verifier /\ r.receipt # None /\ r.verified = Proposed(r)

\* commitTerminal, in the saver's transaction with the pending writes.
CommitTerminal(o, t, r) ==
  /\ Commit(o)
  /\ Framed(o, t)
  /\ attempt[t].status \in {"running", "paused"}
  /\ Acceptable(t, r)
  /\ attempt' = [attempt EXCEPT ![t].status = r.status, ![t].terminal = TRUE]
  /\ run' = [run EXCEPT
       !.candidate = Proposed(r),
       !.verified = CASE r.verified = Keep -> IF r.candidate # None THEN None ELSE run.verified
                      [] r.verified = None -> None
                      [] OTHER -> [hash |-> r.verified.hash, revision |-> r.verified.revision, by |-> t],
       !.failures = IF t \notin AITask THEN run.failures
                    ELSE IF r.status = "succeeded" THEN 0 ELSE run.failures + 1,
       !.completion = IF r.completion = "none" THEN run.completion ELSE r.completion,
       !.status = CASE r.completion = "ok" -> "succeeded" [] r.completion = "failed" -> "failed"
                    [] OTHER -> run.status]
  /\ UNCHANGED <<interrupt, inbox>>

\* fail: a retryable failure closes the attempt without a terminal marker.
Fail(o, t) ==
  /\ Commit(o)
  /\ Framed(o, t) /\ attempt[t].status = "running"
  /\ attempt' = [attempt EXCEPT ![t].status = "failed"]
  /\ run' = [run EXCEPT !.failures = IF t \in AITask THEN run.failures + 1 ELSE run.failures]
  /\ UNCHANGED <<interrupt, inbox>>

\* prepareInterruption: stages the error that the saver is about to settle.
PrepareInterruption(o, t) ==
  /\ Commit(o)
  /\ Framed(o, t)
  /\ attempt' = [attempt EXCEPT ![t].staged = TRUE]
  /\ UNCHANGED <<run, interrupt, inbox>>

\* commitError: the saver settles __error__. Only a staged error of a write is
\* uncertain; every other one is a failure.
CommitError(o, t) ==
  LET status == IF attempt[t].staged /\ t \in WriteTask THEN "interrupted" ELSE "failed"
  IN /\ Commit(o)
     /\ Framed(o, t) /\ attempt[t].status = "running"
     /\ attempt' = [attempt EXCEPT ![t].status = status]
     /\ run' = [run EXCEPT !.status = status]
     /\ UNCHANGED <<interrupt, inbox>>

\* commitInterrupts: the saver settles __interrupt__.
CommitInterrupt(o, t) ==
  /\ Commit(o)
  /\ Framed(o, t)
  /\ interrupt' = [interrupt EXCEPT ![t] = IF @ = "none" THEN "asked" ELSE @]
  /\ attempt' = [attempt EXCEPT ![t].status = "paused"]
  /\ run' = [run EXCEPT !.status = "paused"]
  /\ UNCHANGED inbox

\* answerInterrupts: all answers or none.
AnswerInterrupts(o, T) ==
  /\ Commit(o)
  /\ \A t \in T : interrupt[t] # "none" /\ (interrupt[t] = "asked" => attempt[t].status = "paused")
  /\ interrupt' = [t \in Task |-> IF t \in T THEN "answered" ELSE interrupt[t]]
  /\ UNCHANGED <<run, attempt, inbox>>

\* settlePause
SettlePause(o) ==
  /\ Commit(o)
  /\ Pending # {} /\ run.completion = "none"
  /\ run' = [run EXCEPT !.status = "paused"]
  /\ UNCHANGED <<attempt, interrupt, inbox>>

\* authorizeRecovery
AuthorizeRecovery(o, t) ==
  /\ Commit(o)
  /\ attempt[t].status \in {"running", "interrupted"}
  /\ attempt' = [attempt EXCEPT ![t].authorized = TRUE]
  /\ UNCHANGED <<run, interrupt, inbox>>

\* initializeCandidate
InitializeCandidate(o, h) ==
  /\ Commit(o)
  /\ run.candidate = None
  /\ run' = [run EXCEPT !.candidate = [hash |-> h, revision |-> 1]]
  /\ UNCHANGED <<attempt, interrupt, inbox>>

\* The workflow-resumed transaction: an explicit resume supersedes the pauses.
Resumed(o) ==
  /\ Commit(o)
  /\ inbox' = Consumed(Pause)
  /\ UNCHANGED <<run, attempt, interrupt>>

\* mutant: a completed run is settled again
ExecutionStoppedAlways(o, code) ==
  /\ Commit(o)
  /\ run' = [run EXCEPT !.status =
       CASE code = "aborted" -> "cancelled" [] code = "paused" -> "paused"
         [] OTHER -> IF run.status = "interrupted" \/ code = "recover_required" THEN "interrupted" ELSE "failed"]
  /\ inbox' = IF code = "paused" THEN Consumed(Pause) ELSE inbox
  /\ UNCHANGED <<attempt, interrupt>>

\* The execution-stopped transaction, for the code the executor stopped with.
ExecutionStopped(o, code) ==
  /\ Commit(o)
  /\ IF run.completion # "none" THEN UNCHANGED <<run, inbox>>
     ELSE /\ run' = [run EXCEPT !.status =
               CASE code = "aborted" -> "cancelled"
                 [] code = "paused" -> "paused"
                 [] OTHER -> IF run.status = "interrupted" \/ code = "recover_required"
                             THEN "interrupted" ELSE "failed"]
          /\ inbox' = IF code = "paused" THEN Consumed(Pause) ELSE inbox
  /\ UNCHANGED <<attempt, interrupt>>

\* acknowledgeCancellation
AcknowledgeCancellation(o) ==
  /\ Commit(o)
  /\ inbox' = Consumed(Cancel)
  /\ UNCHANGED <<run, attempt, interrupt>>

\* mutant: a run that stopped is left as it is
CancelSettledRunning(o) ==
  /\ Commit(o)
  /\ run' = IF run.status = "running" THEN [run EXCEPT !.status = "cancelled"] ELSE run
  /\ UNCHANGED <<attempt, interrupt, inbox>>

\* cancelRun's own settlement of an ownerless run.
CancelSettled(o) ==
  /\ Commit(o)
  /\ run' = IF run.status \in {"cancelled", "succeeded"} \/ run.completion # "none" THEN run
            ELSE [run EXCEPT !.status = "cancelled"]
  /\ UNCHANGED <<attempt, interrupt, inbox>>

\* pauseRun's own settlement of an ownerless run.
PauseSettled(o) ==
  /\ Commit(o)
  /\ run' = IF run.completion # "none" \/ run.status # "running" THEN run
            ELSE [run EXCEPT !.status = "paused"]
  /\ UNCHANGED <<attempt, interrupt, inbox>>

RunTerminal == run.completion # "none" \/ run.status \in {"succeeded", "cancelled"}

\* appendControl, by any process and without the lease. Repeating an accepted
\* request changes nothing; a run that ended refuses new ones.
AppendControl(r) ==
  /\ inbox[r] = "none" /\ ~RunTerminal
  /\ inbox' = [inbox EXCEPT ![r] = "pending"]
  /\ UNCHANGED <<run, attempt, interrupt>>
  /\ UNCHANGED leaseVars

-----------------------------------------------------------------------------
LeaseStep == (Drop \/ \E o \in Owner : Take(o)) /\ UNCHANGED ledgerVars

\* The one obligation of the callers: an error or an interrupt is raised only
\* out of the body of a live attempt.
TaskStep(o, t) ==
  \/ Admit(o, t) \/ Continue(o, t) \/ Fail(o, t) \/ CommitError(o, t) \/ AuthorizeRecovery(o, t)
  \/ attempt[t].status \in {"running", "paused"} /\ (PrepareInterruption(o, t) \/ CommitInterrupt(o, t))
  \/ Framed(o, t) /\ \E r \in Result : CommitTerminal(o, t, r)

RunStep(o) ==
  \/ \E T \in SUBSET Task : AnswerInterrupts(o, T)
  \/ SettlePause(o) \/ Resumed(o)
  \/ \E h \in Hash : InitializeCandidate(o, h)
  \/ \E code \in {"aborted", "paused", "recover_required", "failed"} : ExecutionStopped(o, code)
  \/ AcknowledgeCancellation(o) \/ CancelSettled(o) \/ PauseSettled(o)

LedgerNext ==
  \/ LeaseStep
  \/ \E r \in Requests : AppendControl(r)
  \/ \E o \in Owner : RunStep(o) \/ \E t \in Task : TaskStep(o, t)

LedgerSpec == LedgerInit /\ [][LedgerNext]_<<leaseVars, ledgerVars>>

-----------------------------------------------------------------------------
\* A certification names the candidate of the run, hash and revision, and was
\* written by a verifier that settled: no interleaving of admissions, commits
\* and takeovers leaves a certification of a candidate that was replaced, or
\* one nobody's receipt stands for (ledger.ts:164-188).
CertifiedMatchesCandidate ==
  run.verified # None =>
    /\ run.candidate # None
    /\ run.verified.hash = run.candidate.hash
    /\ run.verified.revision = run.candidate.revision
    /\ run.verified.by \in Verifier
    /\ attempt[run.verified.by].terminal

\* What the rows say of an attempt agrees with the rest of the database: it
\* belongs to a tenure that existed, a paused one has the interrupt that an
\* answer will target, and a run completes only on a settled attempt.
AttemptsConsistent ==
  /\ \A t \in Task :
       /\ attempt[t].epoch <= epoch
       /\ attempt[t].status = "paused" => interrupt[t] # "none"
       /\ attempt[t].terminal => attempt[t].status \in {"failed", "succeeded"}
       /\ attempt[t].status \in {"running", "paused"} => attempt[t].n > 0 /\ ~attempt[t].terminal
  /\ run.completion # "none" => \E t \in Task : attempt[t].terminal

\* A settled attempt is never admitted again, never reopened and never settled
\* differently, by its own tenure or by any later one (ledger.ts:101, 156).
SettledForever ==
  [][\A t \in Task : attempt[t].terminal => attempt'[t] = attempt[t]]_ledgerVars

\* The candidate only moves forward: its revision never decreases and a new
\* hash is a new revision, so a proposal made from an older candidate cannot
\* replace a newer one (ledger.ts:166).
CandidateMovesForward ==
  [][run'.candidate # run.candidate =>
       /\ run'.candidate # None
       /\ run.candidate # None => run'.candidate.revision > run.candidate.revision]_ledgerVars
=============================================================================
