----------------------------- MODULE RunExecution -----------------------------
(***************************************************************************)
(* The processes of engine 2 that share one run: executions (createRun and *)
(* resumeRun around execute, engine/runs.ts), cancelRun and pauseRun. An   *)
(* execution drives the tasks of the graph through the compiler's node     *)
(* body (engine/compiler.ts) and the execution port (engine/execution.ts); *)
(* every durable step is a transaction of RunLedger.                       *)
(*                                                                         *)
(* LangGraph is external. It runs the tasks of one super-step together, and *)
(* moves on when all of them have settled; it re-invokes the tasks without *)
(* a settled terminal; on a node error it waits for the other tasks of the *)
(* step, on an aborted signal it does not.                                 *)
(*                                                                         *)
(* The workflow is the constant Stage: tasks of one stage are the branches *)
(* of a map, or a single root node: the root body takes one edge out of    *)
(* each node (compiler.ts:157-174), so that stages follow each other.      *)
(***************************************************************************)
EXTENDS RunLedger

CONSTANTS
  Executor, Canceller, Pauser,  \* the processes, by the call they make
  Creator,                      \* the execution createRun starts
  Reasons,                      \* what may abort an execution
  Stage,                        \* Task -> its super-step
  Root,                         \* nodes of the root body: a failure ends the run
  Human,                        \* approval, question and gate nodes
  End,                          \* end nodes
  RequiresVerified,             \* delivery.requiresVerified
  InitialHash                   \* the repository before the run

ASSUME RunExecutionAssumption ==
  /\ Owner = Executor \union Canceller \union Pauser
  /\ Executor \intersect Canceller = {}
  /\ Executor \intersect Pauser = {}
  /\ Canceller \intersect Pauser = {}
  /\ Creator \in Executor
  /\ Reasons \subseteq {"aborted", "timeout", "lease_lost"}
  /\ Stage \in [Task -> Nat]
  /\ Root \subseteq Task /\ Human \subseteq Task \ WriteTask /\ End \subseteq Root \ (WriteTask \union Human)
  /\ \A t \in Root, u \in Task : Stage[u] = Stage[t] => u = t
  /\ Verifier \subseteq WriteTask
  /\ RequiresVerified \in BOOLEAN
  /\ InitialHash \in Hash
  /\ None \notin Hash

VARIABLES
  pc,       \* process -> where its call stands
  sig,      \* execution -> the reason its AbortController carries, or none
  code,     \* execution -> the error code it stops with
  work,     \* execution -> task -> how far this execution drove it
  repo,     \* fingerprint of the working tree
  stray,    \* writes whose operation outlived its execution's lease
  began,    \* history: write -> operations begun since it was last authorized or known to have failed
  foreign   \* history: the tree was edited without the lease since the last marker of a write

history == <<began, foreign>>
execVars == <<pc, sig, code, work, repo, stray, history>>
vars == <<leaseVars, ledgerVars, execVars>>

Idle == [at |-> "idle", saw |-> None, result |-> None, err |-> "none"]

\* operating to asking and thrown hold the effect gate; erred, waiting and done do not.
Places == {"idle", "admitted", "operating", "operated", "marked", "asking", "thrown",
           "erred", "waiting", "done"}
Codes == {"none", "aborted", "paused", "recover_required", "failed"}

ExecTypeOK ==
  /\ LedgerTypeOK
  /\ pc \in [Owner -> {"idle", "created", "checked", "opening", "resuming", "answering",
                       "recovering", "starting", "graph", "settling", "stopping", "acking",
                       "releasing", "appended", "owning", "requesting"}]
  /\ sig \in [Executor -> {"none", "aborted", "timeout", "lease_lost"}]
  /\ code \in [Executor -> Codes]
  /\ work \in [Executor -> [Task -> [at : Places, saw : Hash \union {None},
                                     result : Result \union {None}, err : Codes]]]
  /\ repo \in Hash
  /\ stray \subseteq WriteTask
  /\ began \in [WriteTask -> Nat]
  /\ foreign \in BOOLEAN

Init ==
  /\ LedgerInit
  /\ pc = [o \in Owner |-> IF o = Creator THEN "created" ELSE "idle"]
  /\ sig = [e \in Executor |-> "none"]
  /\ code = [e \in Executor |-> "none"]
  /\ work = [e \in Executor |-> [t \in Task |-> Idle]]
  /\ repo = InitialHash
  /\ stray = {}
  /\ began = [t \in WriteTask |-> 0]
  /\ foreign = FALSE

-----------------------------------------------------------------------------
Goto(o, place) == pc' = [pc EXCEPT ![o] = place]
At(e, t) == work[e][t].at
Move(e, t, w) == work' = [work EXCEPT ![e][t] = w]
Place(e, t, place) == Move(e, t, [Idle EXCEPT !.at = place])

\* The call ends and what it kept in memory is gone.
Forget(e) ==
  /\ pc' = [pc EXCEPT ![e] = "idle"]
  /\ sig' = [sig EXCEPT ![e] = "none"]
  /\ code' = [code EXCEPT ![e] = "none"]
  /\ work' = [work EXCEPT ![e] = [t \in Task |-> Idle]]
Err(e, t, c) == Move(e, t, [Idle EXCEPT !.at = "erred", !.err = c])

InFlight == {"admitted", "operating", "operated", "marked", "asking", "thrown"}

\* The tasks of the super-step LangGraph is at.
Runnable(t) ==
  /\ run.completion = "none"
  /\ ~attempt[t].terminal
  /\ \A u \in Task : Stage[u] < Stage[t] => attempt[u].terminal

\* Interrupt writes of the current super-step, and those with a durable answer.
Interrupted == {t \in Task : Runnable(t) /\ interrupt[t] # "none"}
Answered == {t \in Interrupted : interrupt[t] = "answered"}

\* mutant: the window ends when the operation returns, not at its terminal commit
HoldingUntilReturn(e) == {t \in Task : At(e, t) = "operating"}

\* DefinitionExecution.held: the effect window of a task ends at its commit.
Holding(e) == {t \in Task : At(e, t) \in {"operating", "operated", "marked", "asking", "thrown"}}

\* mutant: a task also waits for those that only wait
GateFreeQueued(e, t) ==
  \A u \in Task \ {t} : At(e, u) \in {"admitted", "operating", "operated", "marked", "asking", "thrown"} =>
    t \notin WriteTask /\ u \notin WriteTask

\* RepositoryEffectGate: readers together, a writer alone.
GateFree(e, t) == \A u \in Holding(e) \ {t} : t \notin WriteTask /\ u \notin WriteTask

\* mutant: the run stops with the reason of the abort
StopCodeReason(e, S) ==
  IF sig[e] # "none" THEN sig[e] ELSE IF S = {} THEN "failed" ELSE CHOOSE c \in Codes : \E t \in S : work[e][t].err = c

\* The code of execute's catch. An aborted signal decides; of several node
\* errors (an AggregateError) only a pause is looked for.
StopCode(e, S) ==
  CASE sig[e] = "aborted" -> "aborted"
    [] sig[e] \notin {"none", "aborted"} -> "failed"
    [] OTHER -> IF \E t \in S : work[e][t].err = "paused" THEN "paused"
                ELSE IF Cardinality(S) = 1 THEN (CHOOSE c \in Codes : \E t \in S : work[e][t].err = c)
                ELSE "failed"

-----------------------------------------------------------------------------
(* createRun and resumeRun up to the graph *)

\* resumeRun looks at the run, without a lease, and leaves an ended one alone.
CheckResume(e) ==
  /\ pc[e] = "idle" /\ epoch < MaxEpoch
  /\ run.completion = "none" /\ run.status # "cancelled"
  /\ Goto(e, "checked")
  /\ UNCHANGED <<leaseVars, ledgerVars, sig, code, work, repo, stray, history>>

\* execute: lease.acquire, or lease_held.
AcquireRun(e) ==
  /\ pc[e] \in {"created", "checked"}
  /\ \/ /\ Take(e)
        /\ Goto(e, IF pc[e] = "created" THEN "opening" ELSE "resuming")
     \/ /\ holder # NoOwner
        /\ Goto(e, "idle")
        /\ UNCHANGED leaseVars
  /\ UNCHANGED <<ledgerVars, sig, code, work, repo, stray, history>>

\* deps.initializeCandidate, only when the row has none.
OpenCandidate(e) ==
  /\ pc[e] \in {"opening", "resuming"}
  /\ IF run.candidate = None THEN InitializeCandidate(e, repo)
     ELSE UNCHANGED <<leaseVars, ledgerVars>>
  /\ Goto(e, IF pc[e] = "opening" THEN "starting" ELSE "answering")
  /\ UNCHANGED <<sig, code, work, repo, stray, history>>

\* mutant: an answer is stored whether or not its question was asked
GiveAnswersBlind(e) ==
  /\ pc[e] = "answering"
  /\ Commit(e)
  /\ \E T \in SUBSET Task : interrupt' = [t \in Task |-> IF t \in T THEN "answered" ELSE interrupt[t]]
  /\ Goto(e, "recovering")
  /\ UNCHANGED <<run, attempt, inbox, sig, code, work, repo, stray, history>>

\* options.answers, for any interrupts that exist.
GiveAnswers(e) ==
  /\ pc[e] = "answering"
  /\ \/ \E T \in (SUBSET {t \in Task : interrupt[t] # "none"}) \ {{}} : AnswerInterrupts(e, T)
     \/ UNCHANGED <<leaseVars, ledgerVars>>
  /\ Goto(e, "recovering")
  /\ UNCHANGED <<sig, code, work, repo, stray, history>>

\* options.recover: exactly one unresolved write, or recovery_ambiguous.
Recover(e) ==
  /\ pc[e] = "recovering" /\ UNCHANGED <<sig, work, repo, stray>>
  /\ \/ \E t \in WriteTask :
          /\ AuthorizeRecovery(e, t)
          /\ began' = [began EXCEPT ![t] = 0]
          /\ UNCHANGED <<pc, code, foreign>>
     \/ /\ \A t \in WriteTask : attempt[t].status \notin {"running", "interrupted"}
        /\ Goto(e, "stopping") /\ code' = [code EXCEPT ![e] = StopCode(e, {})]
        /\ UNCHANGED <<leaseVars, ledgerVars, history>>
     \/ /\ Resumed(e)
        /\ Goto(e, "starting")
        /\ UNCHANGED <<code, history>>

\* An idle interrupt barrier without answers is reported, not executed.
StartGraph(e) ==
  /\ pc[e] = "starting"
  /\ Goto(e, IF Interrupted # {} /\ Answered = {} THEN "releasing" ELSE "graph")
  /\ UNCHANGED <<leaseVars, ledgerVars, sig, code, work, repo, stray, history>>

\* A transaction of these steps finds the lease gone and throws lease_lost;
\* settling it would need the lease as well.
OpeningLost(e) ==
  /\ pc[e] \in {"opening", "resuming", "answering", "recovering"} /\ holder # e
  /\ Goto(e, "releasing")
  /\ UNCHANGED <<leaseVars, ledgerVars, sig, code, work, repo, stray, history>>

-----------------------------------------------------------------------------
(* One task of the graph: the compiler's node body *)

\* execution.enter
EnterTask(e, t) ==
  /\ pc[e] = "graph" /\ At(e, t) = "idle" /\ Runnable(t)
  /\ sig[e] = "none"
  /\ Admit(e, t) \/ Continue(e, t)
  /\ Place(e, t, "admitted")
  /\ UNCHANGED <<pc, sig, code, repo, stray, history>>

\* enter throws: before the ledger on an aborted signal or a lost lease, by the
\* ledger's refusals, or because the budget is exhausted.
RefuseTask(e, t) ==
  /\ pc[e] = "graph" /\ At(e, t) = "idle" /\ Runnable(t)
  /\ attempt[t].status = "paused" => sig[e] # "none" \/ holder # e
  /\ Err(e, t, IF sig[e] # "none" THEN "aborted"
               ELSE IF holder # e THEN "failed"
               ELSE IF Refusal(t) \in Codes \ {"none"} THEN Refusal(t) ELSE "failed")
  /\ UNCHANGED <<leaseVars, ledgerVars, pc, sig, code, repo, stray, history>>

\* execution.execute: the gate, then the lease and the signal, then the piece.
Begin(e, t) ==
  /\ pc[e] = "graph" /\ At(e, t) = "admitted"
  /\ GateFree(e, t) /\ holder = e /\ sig[e] = "none"
  /\ Place(e, t, "operating")
  /\ began' = IF t \in WriteTask THEN [began EXCEPT ![t] = @ + 1] ELSE began
  /\ UNCHANGED <<leaseVars, ledgerVars, pc, sig, code, repo, stray, foreign>>

\* A write aborted at the gate is uncertain like one aborted in its piece; a
\* read is a known failure.
Abandon(e, t) ==
  /\ pc[e] = "graph" /\ At(e, t) = "admitted"
  /\ sig[e] # "none" \/ holder # e
  /\ IF t \in WriteTask /\ holder = e
     THEN PrepareInterruption(e, t) /\ Place(e, t, "thrown")
     ELSE Place(e, t, IF t \in WriteTask THEN "thrown" ELSE "operated") /\ UNCHANGED <<leaseVars, ledgerVars>>
  /\ UNCHANGED <<pc, sig, code, repo, stray, history>>

\* A piece with effect write changes the working tree while it runs.
Edit(e, t) ==
  /\ At(e, t) = "operating" /\ t \in WriteTask
  /\ repo' \in Hash \ {repo}
  /\ foreign' = (foreign \/ holder # e)
  /\ UNCHANGED <<leaseVars, ledgerVars, pc, sig, code, work, stray, began>>

\* mutant: any certification will do
DeliverableOnceVerified == ~RequiresVerified \/ run.verified # None

\* end: executionSnapshot must be verified when the delivery requires it.
Deliverable == ~RequiresVerified \/ (run.verified # None /\ run.verified.hash = repo)

\* The piece returns: what it saw of the repository, or None for a failure.
Finish(e, t) ==
  /\ At(e, t) = "operating" /\ pc[e] = "graph"
  /\ t \in Human => interrupt[t] = "answered"
  /\ \E saw \in CASE t \in End -> {IF Deliverable THEN repo ELSE None}
                  [] t \in Human -> {repo} [] OTHER -> {repo, None} :
       Move(e, t, [Idle EXCEPT !.at = "operated", !.saw = saw])
  /\ UNCHANGED <<leaseVars, ledgerVars, pc, sig, code, repo, stray, history>>

\* A retryable failure of a read (retrySafe): closed in the ledger, then
\* LangGraph runs the node again.
Retry(e, t) ==
  /\ At(e, t) = "operating" /\ pc[e] = "graph" /\ t \notin WriteTask \union Human \union End
  /\ attempt[t].n < Attempts[t]
  /\ Fail(e, t)
  /\ Place(e, t, "idle")
  /\ UNCHANGED <<pc, sig, code, repo, stray, history>>

\* A write ends in an abort or a timeout: nobody knows what it did.
Uncertain(e, t) ==
  /\ At(e, t) = "operating" /\ pc[e] = "graph" /\ t \in WriteTask
  /\ PrepareInterruption(e, t)
  /\ Place(e, t, "thrown")
  /\ UNCHANGED <<pc, sig, code, repo, stray, history>>

\* The piece asks: interrupt() throws to LangGraph.
Ask(e, t) ==
  /\ At(e, t) = "operating" /\ pc[e] = "graph" /\ t \in Human /\ interrupt[t] # "answered"
  /\ Place(e, t, "asking")
  /\ UNCHANGED <<leaseVars, ledgerVars, pc, sig, code, repo, stray, history>>

\* mutant: the marker proposes the tree the piece saw, not the one it leaves
FinalizedSeen(t, saw) ==
  LET proposal == IF t \in WriteTask THEN [hash |-> IF saw = None THEN repo ELSE saw, revision |-> Revision + 1] ELSE None
      certifies == t \in Verifier /\ saw # None
  IN [status |-> IF saw = None /\ t \notin Verifier \union End THEN "failed" ELSE "succeeded",
      candidate |-> proposal,
      receipt |-> IF certifies THEN saw ELSE None,
      verified |-> IF certifies THEN proposal
                   ELSE IF t \notin WriteTask /\ run.verified # None /\ run.verified.hash = repo
                   THEN Keep ELSE None,
      completion |-> IF t \in End THEN (IF saw = None THEN "failed" ELSE "ok")
                     ELSE IF t \in Root \ Verifier /\ saw = None THEN "failed" ELSE "none"]

\* finalize: what the marker of a finished operation proposes.
Finalized(t, saw) ==
  LET proposal == IF t \in WriteTask THEN [hash |-> repo, revision |-> Revision + 1] ELSE None
      certifies == t \in Verifier /\ saw = repo
  IN [status |-> IF saw = None /\ t \notin Verifier \union End THEN "failed" ELSE "succeeded",
      candidate |-> proposal,
      receipt |-> IF certifies THEN repo ELSE None,
      verified |-> IF certifies THEN proposal
                   ELSE IF t \notin WriteTask /\ run.verified # None /\ run.verified.hash = repo
                   THEN Keep ELSE None,
      completion |-> IF t \in End THEN (IF saw = None THEN "failed" ELSE "ok")
                     ELSE IF t \in Root \ Verifier /\ saw = None THEN "failed" ELSE "none"]

\* execution.terminal computes the marker; fingerprinting or the marker's size
\* may throw instead, outside the node body's try.
Mark(e, t) ==
  /\ At(e, t) = "operated" /\ pc[e] = "graph"
  /\ \/ /\ holder = e /\ (t \in WriteTask => Revision < MaxRevision)
        /\ Move(e, t, [work[e][t] EXCEPT !.at = "marked", !.result = Finalized(t, work[e][t].saw)])
        /\ foreign' = (foreign /\ t \notin WriteTask)
     \/ Place(e, t, "thrown") /\ UNCHANGED foreign
  /\ UNCHANGED <<leaseVars, ledgerVars, pc, sig, code, repo, stray, began>>

\* saver.putWrites with the terminal marker; then committed() opens the gate.
CommitTask(e, t) ==
  /\ At(e, t) = "marked" /\ pc[e] = "graph"
  /\ CommitTerminal(e, t, work[e][t].result)
  /\ Place(e, t, "done")
  /\ UNCHANGED <<pc, sig, code, repo, stray, history>>

\* saver.putWrites with __interrupt__
CommitAsk(e, t) ==
  /\ At(e, t) = "asking" /\ pc[e] = "graph"
  /\ CommitInterrupt(e, t)
  /\ Place(e, t, "waiting")
  /\ UNCHANGED <<pc, sig, code, repo, stray, history>>

\* saver.putWrites with __error__
CommitThrown(e, t) ==
  /\ At(e, t) = "thrown" /\ pc[e] = "graph"
  /\ CommitError(e, t)
  /\ Err(e, t, "failed")
  /\ began' = IF t \in WriteTask /\ attempt'[t].status = "failed" THEN [began EXCEPT ![t] = 0] ELSE began
  /\ UNCHANGED <<pc, sig, code, repo, stray, foreign>>

\* Each of these finds the lease gone; nothing is written.
TaskLost(e, t) ==
  /\ At(e, t) \in {"operating", "marked", "asking", "thrown"} /\ pc[e] = "graph" /\ holder # e
  /\ Err(e, t, "failed")
  /\ stray' = IF At(e, t) = "operating" THEN stray \union ({t} \intersect WriteTask) ELSE stray
  /\ UNCHANGED <<leaseVars, ledgerVars, pc, sig, code, repo, history>>

TaskOf(e, t) ==
  \/ EnterTask(e, t) \/ RefuseTask(e, t) \/ Begin(e, t) \/ Abandon(e, t)
  \/ Finish(e, t) \/ Retry(e, t) \/ Uncertain(e, t) \/ Ask(e, t) \/ Mark(e, t)
  \/ CommitTask(e, t) \/ CommitAsk(e, t) \/ CommitThrown(e, t) \/ TaskLost(e, t)

-----------------------------------------------------------------------------
(* The end of an execution *)

Erred(e) == {t \in Task : At(e, t) = "erred"}
Settled(e) == \A t \in Task : At(e, t) \notin InFlight

\* graph.invoke returns: the run is complete or waits at an interrupt barrier.
GraphReturns(e) ==
  /\ pc[e] = "graph" /\ Erred(e) = {} /\ Settled(e)
  /\ \A t \in Task : Runnable(t) => At(e, t) = "waiting"
  /\ Goto(e, "settling")
  /\ UNCHANGED <<leaseVars, ledgerVars, sig, code, work, repo, stray, history>>

\* graph.invoke throws the errors LangGraph collected: the first one, and those
\* that came before it could abort the others.
GraphThrows(e) ==
  /\ pc[e] = "graph"
  /\ \/ sig[e] # "none" /\ code' = [code EXCEPT ![e] = StopCode(e, {})]
     \/ /\ Settled(e)
        /\ \E S \in (SUBSET Erred(e)) \ {{}} : code' = [code EXCEPT ![e] = StopCode(e, S)]
  /\ Goto(e, IF sig[e] = "lease_lost" THEN "releasing" ELSE "stopping")
  /\ UNCHANGED <<leaseVars, ledgerVars, sig, work, repo, stray, history>>

\* settlePause, then completion_missing when nothing explains the stop.
Settle(e) ==
  /\ pc[e] = "settling"
  /\ IF Pending = {} \/ run.completion # "none"
     THEN /\ UNCHANGED <<leaseVars, ledgerVars>>
          /\ Goto(e, IF run.completion = "none" /\ run.status \notin {"interrupted", "failed"}
                     THEN "stopping" ELSE "releasing")
     ELSE IF holder = e THEN SettlePause(e) /\ Goto(e, "releasing")
     ELSE UNCHANGED <<leaseVars, ledgerVars>> /\ Goto(e, "stopping")
  /\ code' = [code EXCEPT ![e] = StopCode(e, {})]
  /\ UNCHANGED <<sig, work, repo, stray, history>>

\* execution-stopped; without the lease it throws and only the finally runs.
Stop(e) ==
  /\ pc[e] = "stopping"
  /\ IF holder = e THEN ExecutionStopped(e, code[e]) /\ Goto(e, "acking")
     ELSE UNCHANGED <<leaseVars, ledgerVars>> /\ Goto(e, "releasing")
  /\ UNCHANGED <<sig, code, work, repo, stray, history>>

\* A cancellation that is pending by now is acknowledged, whatever the run was
\* settled as.
Acknowledge(e) ==
  /\ pc[e] = "acking"
  /\ IF CancelPending /\ holder = e THEN AcknowledgeCancellation(e)
     ELSE UNCHANGED <<leaseVars, ledgerVars>>
  /\ Goto(e, "releasing")
  /\ UNCHANGED <<sig, code, work, repo, stray, history>>

Unfinished(e) == {t \in WriteTask : At(e, t) = "operating"}

\* The finally of execute: lease.release removes only this tenure's row.
Release(e) ==
  /\ pc[e] = "releasing"
  /\ IF holder = e THEN Drop ELSE UNCHANGED leaseVars
  /\ stray' = stray \union Unfinished(e)
  /\ Forget(e)
  /\ UNCHANGED <<ledgerVars, repo, history>>

-----------------------------------------------------------------------------
(* Signals, failures and the environment *)

Executing(e) == pc[e] \in {"opening", "resuming", "answering", "recovering", "starting", "graph"}

\* The control timer sees a cancellation or the spent active duration, the host
\* is told to terminate, or the heartbeat finds another owner.
Signal(e) ==
  /\ Executing(e) /\ sig[e] = "none"
  /\ \E reason \in Reasons \ (IF holder = e THEN {"lease_lost"} ELSE {}) : sig' = [sig EXCEPT ![e] = reason]
  /\ UNCHANGED <<leaseVars, ledgerVars, pc, code, work, repo, stray, history>>

\* The process of an execution dies; its row stays, its children may live on.
Crash(e) ==
  /\ pc[e] # "idle"
  /\ stray' = stray \union Unfinished(e)
  /\ Forget(e)
  /\ UNCHANGED <<leaseVars, ledgerVars, repo, history>>

\* The owner is dead, or suspended for longer than the TTL.
LeaseExpires == Drop /\ UNCHANGED <<ledgerVars, execVars>>

\* An abandoned operation edits the working tree once more, or ends.
Stray(t) ==
  /\ t \in stray
  /\ \/ repo' \in Hash \ {repo} /\ foreign' = TRUE /\ UNCHANGED stray
     \/ stray' = stray \ {t} /\ UNCHANGED <<repo, foreign>>
  /\ UNCHANGED <<leaseVars, ledgerVars, pc, sig, code, work, began>>

-----------------------------------------------------------------------------
(* cancelRun and pauseRun *)

\* inbox.cancel; a repeated request returns the original record.
CancelAppend(c) ==
  /\ pc[c] = "idle"
  /\ \E r \in Cancel : AppendControl(r) \/ (inbox[r] # "none" /\ UNCHANGED <<leaseVars, ledgerVars>>)
  /\ Goto(c, "appended")
  /\ UNCHANGED <<sig, code, work, repo, stray, history>>

\* A live lease: the owner is left to settle. Otherwise cancelRun takes the run.
CancelObserve(c) ==
  /\ pc[c] = "appended"
  /\ \/ holder # NoOwner /\ UNCHANGED leaseVars /\ Goto(c, "idle")
     \/ Take(c) /\ Goto(c, "owning")
  /\ UNCHANGED <<ledgerVars, sig, code, work, repo, stray, history>>

\* workflow-cancelled
CancelSettle(c) ==
  /\ pc[c] = "owning" /\ c \in Canceller
  /\ CancelSettled(c)
  /\ Goto(c, "acking")
  /\ UNCHANGED <<sig, code, work, repo, stray, history>>

CancelAcknowledge(c) ==
  /\ pc[c] = "acking" /\ AcknowledgeCancellation(c)
  /\ Goto(c, "releasing")
  /\ UNCHANGED <<sig, code, work, repo, stray, history>>

\* pauseRun: terminal, live, already stopped, or ownerless and still running.
PauseObserve(p) ==
  /\ pc[p] = "idle" /\ ~RunTerminal
  /\ \/ holder # NoOwner /\ Goto(p, "requesting")
     \/ holder = NoOwner /\ run.status = "running" /\ Goto(p, "appended")
  /\ UNCHANGED <<leaseVars, ledgerVars, sig, code, work, repo, stray, history>>

\* inbox.pause, or run_terminal when the run ended meanwhile.
PauseRequest(p) ==
  /\ pc[p] = "requesting"
  /\ \/ \E r \in Pause : AppendControl(r)
     \/ (RunTerminal \/ \E r \in Pause : inbox[r] # "none") /\ UNCHANGED <<leaseVars, ledgerVars>>
  /\ Goto(p, "idle")
  /\ UNCHANGED <<sig, code, work, repo, stray, history>>

PauseTake(p) ==
  /\ pc[p] = "appended" /\ p \in Pauser
  /\ \/ holder # NoOwner /\ UNCHANGED leaseVars /\ Goto(p, "idle")
     \/ Take(p) /\ Goto(p, "owning")
  /\ UNCHANGED <<ledgerVars, sig, code, work, repo, stray, history>>

\* workflow-paused
PauseSettle(p) ==
  /\ pc[p] = "owning" /\ p \in Pauser
  /\ PauseSettled(p)
  /\ Goto(p, "releasing")
  /\ UNCHANGED <<sig, code, work, repo, stray, history>>

\* Their finally; they also end here when the lease ran out under them.
ControlRelease(o) ==
  /\ pc[o] = "releasing" \/ (pc[o] \in {"owning", "acking"} /\ holder # o)
  /\ IF holder = o THEN Drop ELSE UNCHANGED leaseVars
  /\ Goto(o, "idle")
  /\ UNCHANGED <<ledgerVars, sig, code, work, repo, stray, history>>

-----------------------------------------------------------------------------
\* What an execution does by itself, once it was started.
ExecutorStep(e) ==
  \/ AcquireRun(e) \/ OpenCandidate(e) \/ GiveAnswers(e) \/ Recover(e) \/ StartGraph(e)
  \/ OpeningLost(e) \/ (\E t \in Task : TaskOf(e, t)) \/ GraphReturns(e) \/ GraphThrows(e)
  \/ Settle(e) \/ Stop(e) \/ Acknowledge(e) \/ Release(e)

CancellerStep(c) ==
  \/ CancelAppend(c) \/ CancelObserve(c) \/ CancelSettle(c) \/ CancelAcknowledge(c) \/ ControlRelease(c)

PauserStep(p) ==
  \/ PauseObserve(p) \/ PauseRequest(p) \/ PauseTake(p) \/ PauseSettle(p) \/ ControlRelease(p)

Environment ==
  \/ LeaseExpires
  \/ \E e \in Executor : CheckResume(e) \/ Signal(e) \/ Crash(e) \/ \E t \in Task : Edit(e, t)
  \/ \E t \in WriteTask : Stray(t)

Next ==
  \/ \E e \in Executor : ExecutorStep(e)
  \/ \E c \in Canceller : CancellerStep(c)
  \/ \E p \in Pauser : PauserStep(p)
  \/ Environment

Spec == Init /\ [][Next]_vars

\* The event loop of a live process runs every promise that can settle; a piece
\* returns or fails (its timers and the abort signal end it).
FairSpec == Spec /\ \A e \in Executor : WF_vars(ExecutorStep(e))

-----------------------------------------------------------------------------
\* A marker that its task computed under the effect gate is still acceptable
\* when the saver commits it under the same lease: no task that runs beside it
\* moved the candidate or settled its attempt meanwhile, so commitTerminal's
\* candidate_conflict, receipt_invalid and attempt_conflict are assertions, not
\* outcomes (execution.ts:60, ledger.ts:156-188).
NoCommitConflict ==
  \A e \in Executor, t \in Task :
    At(e, t) = "marked" /\ holder = e =>
      Framed(e, t) /\ attempt[t].status \in {"running", "paused"} /\ Acceptable(t, work[e][t].result)

\* Of a workflow whose writes are sequential: a certified candidate is the
\* working tree, until an operation that outlived its tenure edits it.
CertifiedRepository == run.verified # None /\ ~foreign => run.verified.hash = repo

\* A write that was interrupted, by a crash, an abort or a lost lease, does not
\* operate again before a human authorized its recovery (ledger.ts:111).
WriteNeedsRecovery == \A t \in WriteTask : began[t] <= 1

\* A completed run keeps its completion and its status, whatever cancellation,
\* pause, error, takeover or late stop is settled after it.
CompletedStays ==
  [][run.completion # "none" => run'.completion = run.completion /\ run'.status = run.status]_vars

\* A run that requires verification is about to complete successfully only when
\* the tree its end node saw is the certified candidate, even if somebody who no
\* longer owns the run edited the tree (pieces/control.ts:26, compiler.ts:122).
DeliveredIsCertified ==
  \A e \in Executor, t \in End :
    At(e, t) = "marked" /\ holder = e /\ work[e][t].result.completion = "ok" /\ RequiresVerified =>
      run.verified # None /\ run.verified.hash = work[e][t].saw

\* An execution that settles as paused leaves no attempt of its tenure running:
\* what was admitted has committed, asked or failed (runs.ts:248-256).
PauseDrains ==
  \A e \in Executor : pc[e] = "stopping" /\ code[e] = "paused" /\ holder = e =>
    \A t \in Task : attempt[t].status = "running" => attempt[t].epoch < epoch

\* cancelRun returns from an ownerless run only when that run is cancelled, or
\* had completed before.
CancelSettles ==
  \A c \in Canceller : pc[c] = "releasing" /\ holder = c => RunTerminal

\* What the tests say of cancelRun: a run cancelled at a human pause rejects
\* subsequent execution (runs.test.ts:234). resumeRun looks at the status before
\* it owns the run, and not again.
CancelledAdmitsNothing ==
  [][run.status = "cancelled" /\ (\E t \in Task : interrupt[t] # "none") =>
       \A t \in Task : attempt'[t].status = "running" => attempt[t].status = "running"]_vars

\* What the specification of the engine says of an unresolved write: no second
\* physical attempt without explicit recovery (durable-workflow-runs/spec.md:22).
ReplayNeedsRecovery ==
  [][\A t \in WriteTask : attempt[t].n > 0 /\ attempt'[t].n > attempt[t].n => attempt[t].authorized]_vars

\* Every transaction the executions and the control calls make is one of the
\* ledger's, made under the conditions the ledger relies on.
ImplementsLedger == LedgerSpec

\* Every call of createRun and resumeRun ends: the gate, the barriers and the
\* retries never leave an execution waiting for itself.
EveryExecutionEnds == \A e \in Executor : pc[e] # "idle" ~> pc[e] = "idle"
=============================================================================
