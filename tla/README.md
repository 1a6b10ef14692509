# Formal models of specrails-core

TLA+ models of specrails-core: checked with TLC on small instances, and proved
with TLAPS where a result should hold for every instance. Source paths are
relative to `src/agent-runtime/` unless they begin with `docs/`, `openspec/`,
`pipeline/` or `installer/`. Every mapped definition, run, mutant, hazard,
finding and theorem is listed in `PROJECT.json`.

## The system

specrails-core runs agent workflows over a repository.

| Part | State it keeps | Operations | What makes it correct |
|---|---|---|---|
| Run lease `engine/checkpoint/lease.ts` | the lease row, the epoch and the active time of a run | acquire, renew, heartbeat, assert, release | one tenure at a time; late owners are fenced; time is charged once |
| Run ledger `engine/checkpoint/{ledger,saver,database}.ts` | attempts, candidate, certification, interrupts, completion, events in one SQLite file | enter, commitTerminal, fail, commitError, commitInterrupts, answer, authorizeRecovery | an attempt settles once; a certification is of the current candidate; uncertain writes wait for a human |
| Executions and controls `engine/{runs,execution,compiler,concurrency}.ts` | in memory: controller, frames, gates | createRun, resumeRun, cancelRun, pauseRun, the node body | no write runs twice unnoticed; controls settle; what is delivered was certified |
| Control inbox `engine/steering/inbox.ts` | steer, cancel and pause requests | append, claim, consume | idempotent, consumed when acted on |
| Provider budget `engine/{budget,invocation-context}.ts` | invocation rows, reservations, usage | offer, start, settle, abandon | concurrent calls stay within the budget |
| Fork `engine/fork.ts`, `engine/storage` | intent manifest, directories, child database | reserve, publish, recover, clean up | a crash leaves nothing or the child; nobody else's directory is touched |
| Active session `session/application/active-session.ts`, `session/domain` | snapshot, provider process, timers, held inputs | send, interrupt, update, stop, close, retire, driver events, timers | an accepted input runs once or is reported; every turn is limited |
| Session service, host and journal `session/application/session-service.ts`, `session/{host,journal}` | host lease, events, subscribers, notification queue | start, recover, append, notify, close | fenced; no orphan; a gap in the feed is announced |
| Delegation `session/application/delegation.ts` | children, outcomes, waits | delegate, wait, stop, observe | every result is told, kept, or sent once |
| Executors `{cli-executor,cli-process,kimi-acp,openai-executor}.ts` | a child process, its pipes, a stream | probe, run, cancel, time out | the outcome told is what happened |
| Compact role loops `compact/` | transcript, read cache, budgets, task groups | tool loop, evidence gate, fix round | no text is paid for twice while it is in view; a task is done on evidence or reported |
| Legacy engine `workflow.ts`, `durable-store.ts`, `graph/`, `core-host.ts` | `checkpoint.json`, directory lease, graph state | runWorkflow, resume, invalidate, correction loop | no cut write repeats unseen; archives what was agreed to; corrections end |
| Verification `engine/pieces/verify.ts`, `verification-repair.ts` | receipts, waves of processes | setup, checks, repair, adoption | verified means that every check passed on this candidate, and none still runs |
| Pipeline state `pipeline/pipeline-state.ts` | phases, receipts, reports, approvals | verify, record, approve, archive, resume | the journal tells the truth at each gate |
| Installer `installer/` | framework store, pointer, registry, lifecycle lock | init, install, swap, stage, assemble, rollback | links resolve; a failure is taken back; a workspace handed out stays |

Executions, control calls, hosts and installers are processes that meet in
SQLite transactions, in files under a lock, and in the working tree, which
nothing protects. Inside a process everything is one event loop: code between
two `await`s is atomic; timers, aborts, provider events and promises interleave
at every `await`. So the hard behaviours are takeovers by expiry, crashes
between two commits, controls that race the owner, effects on the tree that
outlive their tenure, parallel branches, and timers and driver events around an
awaited operation. The hazards in `PROJECT.json` name the lines.

## Modules

| Module | Models | Implements or composes |
|---|---|---|
| `FencedLease` | what a lease promises: holder, epoch, commits under the current tenure | |
| `RunLease` | `lease.ts`: rows, clock, TTL, suspended owners, heartbeats, active time | implements `FencedLease` |
| `RunLedger` | the transactions of the ledger, inbox and `runs.ts`, over `FencedLease` | |
| `RunExecution` | executions, cancellers, pausers; node body, effect gate, crashes, stray subprocesses | extends and implements `RunLedger` |
| `RunInvocations` | the FIFO gates and the provider calls of parallel branches against the budget | |
| `ActiveSession` | one agent session over three drivers | |
| `SessionHost` | hosts of a scope, their journal and the feed to a client | |
| `Delegation` | the sub-agents of a session | |
| `AgentProcess` | one request to a provider: command line, ACP or API | |
| `GuardedLoop`, `CompactDeveloper` | the tool loop of a model without an agent; the developer that runs on it | |
| `CoreGraph` | the implementation graph: budgets, convergence guards, approvals, resumes | |
| `WorkflowRun` | the legacy engine: ledger and LangGraph checkpoints over crashes | |
| `Verification` | visits of a verify node: waves, processes, reuse, repair, adoption | |
| `PipelineJournal` | the phase journal and its gates | |
| `OwnerLock` | the three owner files: journal, lifecycle, workflow lease (`protocol`) | |
| `Registry`, `FrameworkInstall`, `ForkRun` | the workspace registry; the framework store and its commands; the directories of a fork | |
| `MCRunExecution`, `MCSession`, `MCRuntime`, `MCWorkflow` | constants of the runs of one module | |
| `MCJournals` | the components that own a durable record | `RunLease`, `PipelineJournal`, `SessionHost`, `OwnerLock` under each protocol, `Registry`, `FrameworkInstall`, `ForkRun` |
| `MCAgents` | the components that drive agents and judge their work | `CoreGraph`, `GuardedLoop`, `CompactDeveloper`, `Delegation`, `AgentProcess`, `Verification`, `WorkflowRun` |
| `*_proofs` | theorems: `RunExecution_proofs`, `RunInvocations_proofs`, `ActiveSession_proofs`, `SessionHost_proofs`, `WorkflowRun_proofs`, `Verification_proofs` of one module; `Journals_proofs` and `Agents_proofs` of a composition and the modules it extends | |

The components of `MCJournals` share no state, nor do those of `MCAgents`: they
are different processes over different files. A behaviour of a composition picks
one component (`component`) and leaves the others absent; what the run checks of
each is a property of its own. Where components do interact they meet in one
module: executions and the ledger in `RunExecution`, the lease and everything
that commits under it in `FencedLease` (its `Take`, `Drop` and `Commit` are the
only ways to the lease in `RunLedger` and `RunExecution`, with the clock hidden
in `LeaseExpires`), the session and its service in `ActiveSession`, and each of
the three owner files where its users need only that it excludes.

### RunLease
`lease` is the row, `leaseEpoch` the column of `runs`, `token` what each process
believes it owns, `aborted` the executions whose heartbeat failed. `Acquire`,
`Renew`, `Release` are the transactions of `lease.ts`; `FencedCommit`,
`StopActive`, `StartActive` stand for ledger transactions that assert the lease.
`Tick` is the clock; `heldMs` and `lastCommit` are history.

### RunLedger and RunExecution
`run` is the row of `runs`; `attempt[t]` the last attempt of task `t` with its
visit (`staged` is `interruption_json`, `terminal` is `terminal_digest`);
`interrupt` the interrupts rows; `inbox` the control requests. Constants classify
the tasks (`WriteTask`, `AITask`, `Verifier`, `Human`, `Root`, `End`). One task is
one visit: loops are not unrolled. `pc` says where each call stands,
`work[e][t]` how far execution `e` drove task `t` through the node body:
`admitted`, `operating`, `operated`, `marked`, then `done`, `erred` or `waiting`.
`repo` is the working tree, `stray` the writes whose subprocess outlived its
execution, `began` and `foreign` history. `Stage` is the compiled graph: tasks of
one stage run together, as the branches of a map do. Pieces and crashes are the
environment: a piece returns, fails, edits at any moment it operates, or never
returns.

### RunInvocations
`gate` holds free permits, waiters and holders of each FIFO gate, `place` where a
branch stands between admission and commit, `row` the invocation and reservation
of each call. A branch is offered the headroom divided by the concurrency, starts
a call against it, settles what the provider reports (which may exceed what was
reserved: `over`), or is abandoned and settled by the next execution.

### ActiveSession
`session` is one record: the folded snapshot, the fields of the class, the
process with what waits for it to open and the retirements that wait for it to
close, and what the service adds. Each method is an operator from session to
session that keeps its name; an action is one turn of the event loop, and what
the code leaves to microtasks runs at its end, in `Finish`: what was written goes to
the process one entry after the other (`Drain`). `Driver` picks the provider: Claude queues inputs and closes late, Codex also opens late and answers
later, the executor driver runs one turn per input. Their processes may start,
continue, reject, end and crash at will and still report while they close.

### SessionHost, Delegation, AgentProcess
`SessionHost`: `lease`, `epoch`, `born` and `log` are `sessions.sqlite`; per host
`phase`, `token`, the cached snapshots, the queue of notifications (`notes`,
`answers`, `blocked`) and what its client has heard (`seen`, `told`). A host
starts, recovers every session under its epoch, serves, sheds the feed, stops or
dies. `Delegation`: calls that change the parent hold its lock over their awaits,
a wait does not. Results leave `results` before they are sent: `inFlight` are the
deliveries sent and not started, `injected` and `lost` (history) what a turn took in
and what went with a delivery that failed. Of the parent it keeps what these depend
on: its turn, its retirement (`closing`), a pending interrupt (`cut`). `AgentProcess`: a line is what the code makes of it; lines wait
in the pipe, arrive in chunks, and a chunk is handled in one go.

### GuardedLoop, CompactDeveloper, CoreGraph, WorkflowRun, Verification
`GuardedLoop` keeps of the transcript only the answers to reads, errors of reads
included, that were not folded: the cache looks at no other. Folding runs after the
answers of a batch were pushed. `CompactDeveloper` runs one loop per task group,
once more when it was stopped or contradicted, gates ticks on evidence and starts
again from `tasks.md` and the disk. An item reported incomplete withholds every task
whose id it contains (`Withholds`: 1.10 withholds 1.1), and only tasks with a number
(`numbered`) can be ticked. A group has at most 20 open tasks, a result at most 20
items, and ids are distinct. `CoreGraph`: a visit of a
node is one step, a candidate is the content of the repositories with its plan.
`WorkflowRun`: `ledger` is the host's part of `checkpoint.json`, `graph`
LangGraph's checkpoints; a receipt and the checkpoint after it are two commits.
`Verification`: the checkout (`tree`) and the declared inputs are versions that
only grow; `check` holds the row of each check, `alive` the processes of the run,
`strays` those of earlier runs that outlived their kill, `previous` the receipt that
may be reused, `proof` what the last process of a check saw. What a failed check
printed, or dependencies out of their ranges, classify it (`Printed`), also when it
was stopped, killed or given up: it may then start a repair or block on the host.

### PipelineJournal, OwnerLock, Registry, FrameworkInstall, ForkRun
`PipelineJournal`: contents stand for digests; a verification begins, runs beside
everything else and commits its receipt. `OwnerLock`: the system calls are the
steps, processes die between any two of them; `protocol` says which of the three
files a behaviour is about and never changes. `Registry`: an advisory lock file
that anyone may break when it is old. `FrameworkInstall`: versions hold one tree
per provider, `current` is the pointer every project links through; commands hold
the lifecycle lock and die at any step. `ForkRun`: a directory is known by its
inode, a retry removes exactly what the manifest records.

## Runs

| Run | What it shows | Instance |
|---|---|---|
| `recovery` | interrupted writes wait for a human; a certification is the working tree; a delivery is certified and final | 2 executions of edit, verify, end; 2 tenures; a first owner that keeps editing |
| `controls` | cancelRun settles; every transaction is one of the ledger | 1 execution, 1 canceller, 1 pauser, a question beside a read, 2 tenures |
| `live` | markers do not conflict; every execution ends | a read that retries and two writes in a map; weak fairness |
| `runtime` | writers are alone and no permit or waiter is lost; the budget holds | 1 writer, 2 readers that call a provider, 3 calls, 2 tenures |
| `session` | turns are always limited, settled means quiet, nothing is forgotten, no call hangs | Claude and Codex, 2 inputs, 1 sub-agent, 2 turns; stop, update, close, crash (while opening too), failing opens and writes |
| `session_executor` | inputs run once, results are handed over, every input ends | 3 inputs, queued or interrupting, or 2 and a delegated child; interrupt, evict, close, shutdown, 1 restart; fairness of turns |
| `journals` | `MCJournals`: the lease implements `FencedLease`; no orphaned work; the feed announces gaps; the phase journal tells the truth; owner locks exclude; workspaces stay; links resolve and failures roll back; forks touch only their own | 2 or 3 processes per component, 1 edit, 2 versions, 2 providers, 2 projects |
| `agents` | `MCAgents`: archives what was agreed to, converges; no text twice in view, the model is told first; tasks and results accounted; outcomes true; verified on evidence; no blind rewrite | see the module: 3 candidates, 2 attempts; 3 tasks in 2 groups, one id in another, one perhaps without a number; 2 children; token limits on Codex and Kimi; 3 checks in 2 waves; 3 steps and 3 calls |
| `cancelled_runs_again`, `write_replayed`, `session_resent`, `receipts_lost` | disagreements with the documents, below | the smallest that shows each |

Bounds: `MaxEpoch` (tenures), `MaxAttempt`, `MaxRevision`, `MaxTime`, `MaxSeq`,
`MaxEdits`, `MaxEvents` (visits and faults of a verify node), `MaxCalls`,
`MaxVisits`, `MaxResumes`, `MaxTurns`, `MaxHandoffs`, `MaxRestarts`, `MaxClosing`
(retirements that overlap one close), `MaxLines`, `MaxPipe`. The hazards are
pairwise (an owner and a successor, a verification and a write, a control and an
owner, two installers and a swap), so two of each kind meet them; two tenures show
a takeover, and where a third matters (lease rows, a resume after a cancellation)
the run has three. Two hashes tell the certified tree from any other; a third
candidate lets the correction loop come back to the first. Runs end by design when
a bound, a run or a call is over, hence `CHECK_DEADLOCK FALSE`: that nothing waits
forever is the business of `CallsReturn`, `GatesSound` and the liveness properties.

Fairness. `RunExecution!FairSpec`: weak fairness of each step an execution takes by
itself, because the event loop of a live process runs every settled promise and a
piece ends by its own timers and the abort signal; none of signals, crashes, edits,
controls or expiry. `ActiveSession!FairSpec`: an open turn ends or goes silent until
its inactivity limit fires; the provider is not assumed to end it. The other
modules state no liveness.

Every property of a passing run has a mutant: a plausible bug of a mapped
definition that makes TLC violate it.

## What the models disagree with

Four disagreements have a run that shows them (`PROJECT.json` quotes the text):

- A resume overtakes a cancellation: `resumeRun` looks at the status before it
  owns the lease (`cancelled_runs_again`).
- A write whose terminal marker cannot be computed is settled as a plain failure
  and run again (`write_replayed`).
- An interrupting input that the closing process starts after all is sent again
  to the fresh process (`session_resent`).
- A crash between a receipt and the checkpoint after it leaves a legacy run that
  ends as failed although no step failed (`receipts_lost`).

The others have no run of their own. The modules do what the code does.

Executions. Admission revokes the certification, but an admitted write may start
much later: beside a verification in a map it edits the tree under it until its
own marker commits; the delivery check compares with the tree, so only readers of
the status are misled. A cancellation that arrives after a stop was settled for
another reason is acknowledged without cancelling (`engine/runs.ts:183`).
`durable-workflow-runs/spec.md:29` speaks of a resumable cancelled state that
`resumeRun` never resumes.

Sessions. The retirement of an interrupted turn opens a process after a shutdown
that began meanwhile (`active-session.ts:327`). The end of a turn sends what waits
without an open turn to guard it: a deferred update, delegated results or other
held inputs act on the same end, and a held input may be interrupted although
nothing failed (`active-session.ts:527`; `docs/agent-sessions/protocol.md:52`
promises otherwise). A retired turn does not apply the deferred update
(`active-session.ts:778`). The resident cap may retire the session whose send made
it act (`session-service.ts:270`). A terminal input beyond the history is
forgotten, so a retry of it is delivered again (`domain/snapshot.ts:299`). A crash
between createSession and its first append leaves a session without events. The
host loops over `drain` while another drain waits for the stream and never stops
(`host/server.ts:246`; `server.ts:88` says it "resolves after a clean stop").

Implementation graph. A resumed architect is given the answer to its first question
for its second one too, and an answer is lost when the resumed architect fails, so a
design of low confidence may be built on without asking (`docs/agent-runtime.md:205`,
`workflow.ts:361`, `graph/nodes.ts:192`; `LowConfidenceAsks` states it). The transition limit may end a run before its correction
budget (`docs/agent-runtime.md:199`).

Verification. After a repair that changed the candidate, the output names the
candidate and fingerprint of the visit's beginning while `verified` names the new
one (`verify.ts:215`, `verify.ts:223`). A sibling that a failing check cancelled is
blamed when its declared inputs changed or it outlives its kill
(`pipeline/pipeline-state.ts:1220` says it is not). A check that changes its own
declared inputs is an execution error. A setup cancelled in mid-command is
reported as a blocker of the setup. Infrastructure failures count as no progress. A
process given up after its kill may go on through later runs and visits; what it
changes is seen as an edit of the candidate or of declared inputs, and nowhere else.

Pipeline journal. After `archive` is done and the change is reviewed again it can
never be archived again; failing an earlier phase leaves the later ones done; a
superseded verification that commits late invalidates the newer receipt.

Owner locks. A process that dies between the creation of a file and its record, or
while it holds the guard, locks the directory for good (`durable-store.ts:147`).
Registry. Two repositories of one name may get one workspace when a lock is broken
(`WorkspacesApart`). Framework store. A rollback removes the created version before
it restores `current`; a crash between the two renames of a publication leaves
`.previous-…`.

Agents. In the write-only extension read tools run, and so do calls after the
budget notice; a batch that overshoots eats the extension; folding may fold the
very read that the pointer just pushed refers to (`guarded-loop.ts:275`), so the
model has neither and must read again. The developer's gate
looks before the fix round, credits a refused write whose error was compacted,
does not credit files of a contradicted attempt, and drops the open tasks beyond
the twentieth. A task withheld because another id contains its own is neither ticked
nor named in the report, which names only that other id (`developer.ts:551`, `:609`); a
task without a number is neither ticked nor reported when its files exist
(`developer.ts:358`). A delegate whose send fails leaves its child open until the next
host start; results not delivered live in memory only, and a delivery that fails
loses them: they are cleared before it and its failure is swallowed
(`active-session.ts:604`); a wait may return what was sent before. Usage of a `max_turns` failure is that at the throw; a
cancellation between completion and exit makes a completed role fail; a tool call
after the prompt's answer empties the text of a completed ACP role; a grandchild
that keeps the pipes open keeps `runCliProcess` from settling.

Restored content is invisible to every digest (ABA), in the models as in the code.

## Theorems

Proved for every value of the constants that meets the named assumptions. The
assumptions of `FencedLease`, `RunLedger`, `RunExecution`, `PipelineJournal` and
`WorkflowRun` are ASSUMEs that TLC evaluates in the runs; hypotheses a theorem adds
are written in its statement. No set is assumed finite unless said, bounds are any
naturals. Each proof has the same layout: an inductive invariant that TLC checked
first, one lemma per component of it or per action, a last temporal step.

`Journals_proofs`, the lease. `LeaseInv` adds to `EpochsFence` that the row of an
epoch is the one its token asserts and that an open segment starts inside the time
some tenure held. From it: fencing, order of commits, undisturbed tenures, the
bound on the active time, and step by step the refinement of `FencedLease`.

`RunExecution_proofs`, the ledger. `LedgerInv` is the type invariant with
`AttemptsConsistent` and `CertifiedMatchesCandidate`, which need each other: a
certification names a verifier whose attempt is terminal, and only consistency
keeps that attempt from being admitted again. `ExecInv` adds what relates the
memory of an execution to the rows: what it has in flight while it holds the lease
is the running attempt of its tenure (`FlightSound`), a call drives nothing before
its graph starts and a marked task has a marker (`WorkSound`). Every step is then a
transaction of the ledger or none (`ExecutionRefinesLedger`), so what is proved of
`LedgerSpec` holds of every run. On top of `ExecInv`, each with an invariant of its
own (a step is about one task at most, and nobody else touches the lease holder's
rows):

- `WriteNeedsRecovery` (`WriteInv`): an operation that began leaves its attempt
  unresolved, which `enter` refuses; the authorization that lifts the refusal finds
  nothing in flight.
- `NoCommitConflict` (`MarkerInv`): two writes are never between their gate and
  their commit together, so nothing moves the candidate in between.
- `PauseDrains` (`DrainInv`), `CancelSettles` (`CancelInv`): what a tenure left
  running is in flight, and nothing is when the code is `paused`; a canceller
  settles before it acknowledges, and nobody else commits meanwhile.
- `CertifiedRepository` (`StageInv`, `CertInv`): a task runs only when the stages
  before it are terminal, so while a certification stands no write is under way.
  Hypothesis `WritesInSequence`: no two writes share a stage. With parallel writes
  the property is false (see the disagreements), so it is no convenience; the
  `recovery` run satisfies it.
- `DeliveredIsCertified`, `CompletedStays` (`RootInv`): only the root of a workflow
  completes it, alone, after its end node compared the certified candidate with
  the tree.

`RunInvocations_proofs`, the budget (`BudgetInv`): a call in flight is the running row
of its branch and tenure with its whole reservation, so what a settlement gives back
is what the call held.

`RunInvocations_proofs`, the gates (`GateInv`): the permits of each gate add up
(`PermitsSound`) and its first waiter does not fit (`Served`); every branch holds the
first gates of its sequence, waits for at most the next (`InOrder`), and only while
its place allows it (`Placed`). Somebody can always go on because all sequences
follow one order (`GateOrderAssumption`, `execution.ts:44`): who holds the last gate
where anybody waits cannot wait itself. Lemmas say what `Drain`, `Join`, `Return` and
`WithdrawAll` make of a gate; for this they are closed forms of the loops of the
code, which grant the longest run of first waiters that fits, and let all waiters go
on an abort. Branches that coordinate others take no gate and are not modelled.

`Journals_proofs`, the owner locks (`LockInv`, of any protocol): whoever is inside
is recorded in the file, the guard belongs to its one recoverer, and what a recoverer
that looked is about to remove still belongs to a dead process.

`ActiveSession_proofs` (`SessionInv`). A method of the class is an operator on
sessions and an action composes several, so the invariant must hold in the middle of
an action too: `Good(x, H)` says of any session what the class keeps, where `H`, the
hand, holds the entries of a queue whose turn has not come. They count as places of
inputs and as answers to the lock (`Placed`, `LockKept`), so a queue is drained one
entry after the other, and an entry leaves the hand only when its operator has put
what it bears elsewhere. `Base` leaves out what an operator may break for a while,
`Core` what is broken between the loss of a process and the end of its work. Each
operator has a lemma from one of them to `Good`, each action one to `SessionInv`. The
properties alone are not inductive: that an input is somewhere (`NothingStranded`) or
that a turn is limited (`TurnWatched`) survives a retirement only because one that
overlaps another carries what it holds and ends the work when its turn comes, and
that settled means quiet needs that work ends with the process that did it.
Assumption: the null value and the word for a call without an input are no inputs
(`ActiveSessionAssumption`, which the runs evaluate).

`SessionHost_proofs` (`HostInv`): the lease epoch is that of the newest host that
took it; below it nobody appends; a host that serves has recovered every session.
Hypothesis: the null value is no session. The feed (`NumberInv`, `FeedInv`): an
epoch has one host, the owner's cache of a session is the number of its last event
or empty, so the numbers of a batch continue the log (`CommitNumbers`); what waits
for a client is in the order of the log and after everything it received
(`Ordered`), no longer than the limit, and nothing is left behind a writer that is
not blocked. Whatever is dropped is therefore after the position the lag notice
names (`ShedCovered`), and dropping one session is enough: it has no fewer events
queued than were added (`ShedFits`), so the loop of `shed` runs at most once for a
batch. For this the filter of `shed` is given by the rank of what is kept
(`Without`). Hypotheses besides: the limit is a number, the null value is none.

`Journals_proofs`, the phase journal (`JournalInv`): a receipt in the journal that
would still be accepted passed every check on the candidate it names, because
digests of plans, candidates and artifacts stand for contents; what is measured
and committed by one verification is bound to the candidate of its beginning.
Receipts restored by an approval are the ones that were checked.

`Journals_proofs`, the registry (`RegistryInv`): while no living process lost its
lock file (`~broken`), a process inside has the only lock file, and what it has
read is the registry until it writes.

`Journals_proofs`, the framework store (`FrameworkInv`): `WorkInv` says for each
place of the holder of the lifecycle lock what it must still serve and what it
remembers (its version was there or it must remove it, the pointer and the links
are still those it found or will be put back); `PointerInv` says that the pointer
serves every link, except where the code is between two renames or two restores,
where the set aside version or the remembered one would. Needed because a rollback
restores one surface after the other: `LinkedServed` alone says nothing of what it
will restore. `FrameworkAssumption`: the null value is no version, command, tree or
record, and what is asked for are commands.

`Journals_proofs`, the forks (`ForkInv`): only the holder of the lock constructs, and
its manifest in memory is the one on disk (`MineSound`); the manifest names every
directory a fork has left at its path, by its inode (`LeftSound`). So what a cleanup
refuses to remove was made by somebody else. `ForkAssumption`: the directories of a
child are apart, and the null value and the foreign inode are no fork.

`Agents_proofs`, the implementation graph (`GraphInv`, `AgreedInv` for the archive,
a measure of rounds for `Converges`): a candidate that failed stays in the evidence
of its call, and the guards compare with all of it.

`WorkflowRun_proofs` (`WorkflowInv`): the ledger names the step whose write was
cut, and no call gets past `resume` while one is. `Verification_proofs` (`VisitInv`):
versions of the checkout only grow, so a check that finished on the version at the
end saw nothing else; what is reused was passed on equal inputs; and a process of
the run that is alive belongs to a check that runs, or failed the run (`RowSound`).

`Agents_proofs`, the sub-agents (`DelegationInv`): the tree of an open parent and the
coordinator agree on every child until it forgets them; what ended was returned by a
wait or is in exactly one place on its way to the agent, to be sent, under way, taken
in or lost (`ResultsSound`); and a wait keeps only children it knows of, one of which
still runs. Hypothesis: a null value, an outcome and the name of a call differ, and no
child is the name of a call.

`Agents_proofs`, the developer (`DeveloperInv`): no task of a group behind the role
is forgotten (`Accounted`), and what is ticked or about to be has its files
(`Grounded`): `TasksAccounted` alone does not survive the step to the next group,
which skips groups with nothing open. Hypothesis: a task's own id withholds it.

`Agents_proofs`, a request (`ProcessInv`): what was read and what waits in the pipe
is what was written until the execution fails (`PrintSound`), a failure is the first
cause (`CauseSound`), a completed dialogue has its five answers and nothing
forbidden before the last (`AcpSound`), and a process whose pipes have closed left
nothing unread. Hypothesis: the null value is no number, code or outcome.

`Agents_proofs`, the tool loop (`LoopInv`): every turn but a nudged one costs a tool
call, counted with the calls still to run (`TurnsCounted`); so while the model was
not told to answer, the turns are within the tool budget, the extension and the
nudge, and those within the turn limit. `LoopAssumption`: the limit is at least two
above the tool budget (the code adds six, `compact/step.ts:100`), and the words of
the loop (`"pointer"`, `"error"`, `"done"`, `"failed"`) are not the content of a file.
For `NoCopyTwice` (`Copies`): answers have different places, and as long as any answer
to a read of a file is in view, the one the cache knows is, because it is the last
and folding takes the oldest first; so a text comes back in full only after another
one, or when no copy is left.

Compositions. The runs check `MCJournals` and `MCAgents`, so the theorems about
their properties are of those specifications: a step of a composition is a step of
the component the behaviour picked, and its invariant is inductive. The proofs of
an instanced module that has no module of its own for them are written against its
instance (`Projects!`, `Store!`, `Forks!`, `Loop!`, `Delegates!`, `Developer!`, `Provider!`).
`AgentsTypeCorrect` puts the types together (`AgentsTyped`): the types of the legacy
engine and of the tool loop follow from their invariants, those of the graph, the
developer, the sub-agents, the request and the visit are kept beside them, stated
as function equations where SMT needs it. Its hypotheses say only that values are
told apart: a null value is no number, record or outcome. `JournalsTypeCorrect` does
the same for the journals: the types of the lease, the hosts, the phase journal, the
owner files and the framework are parts of their invariants; those of the registry
and of the forks are kept beside them. A registry hands out the least free slug, so its
type needs that a free one exists: there are as many slugs as repositories, and
finitely many (a pigeonhole, `SlugFree`).
The parameters of an instance have names (`MCFork`, `MCTask`, `MCLimits`), which no
proof of a step expands: what is proved of a step holds for any values.

Only model-checked:

- liveness under fairness (`EveryExecutionEnds`, `AcceptedEnds`) and everything with
  ENABLED: out of the prover's reach;
- `NeverResent` and `ResultsHandedOver` of `ActiveSession`: they hold of the setups
  of their run only. An interrupting input on Claude is sent again (`session_resent`),
  and a restart drops results that live in memory.

## Plan

1. Done: the run engine (lease, ledger, executions, budget) with its refinements;
   sessions, hosts, delegation, executors; the legacy engine and verification; the
   phase journal and the installer.
2. Done: every invariant of a passing run, and every action property but the two
   above, is a theorem.
3. Hazards without a property (`PROJECT.json` says why for each): a cancellation
   consumed with another stop, steering claimed by an attempt that dies, the grace
   of an interrupt that ends after the shutdown, inputs beyond the history, `flush`
   over a drain that never ends.
4. Candidates for algorithms: the expression evaluator of workflow documents, the
   classification tables of verification failures, usage baselines.

## Not modelled

The definition language, projections, telemetry and command lines, session domain
values, the testing kit, argument parsing, prompts, redaction, templates and file
copies: formats and pure I/O without state that these properties distinguish, or,
as the compiler of workflow documents, a function whose result is a constant here
(`Stage`). Not followed into their content: the wording of outcomes, provider
protocols below the line or frame, what a fork copies. `PROJECT.json` gives the
reason per component, and per component what is left out of a modelled one.
