------------------------------ MODULE MCAgents -------------------------------
(***************************************************************************)
(* The components that drive agents and bring their work home, one         *)
(* behaviour each: the implementation graph (CoreGraph), the tool loop of  *)
(* a model without an agent (GuardedLoop), the developer that runs on it   *)
(* (CompactDeveloper), the sub-agents of a session (Delegation), one       *)
(* request to a provider (AgentProcess), the visits of a verify node       *)
(* (Verification) and the legacy engine (WorkflowRun).                     *)
(* They share no state, so a behaviour picks one and leaves the others     *)
(* absent.                                                                 *)
(***************************************************************************)
EXTENDS CoreGraph, TLC

CONSTANTS k1, k2,                                \* GuardedLoop
          f1, f2, effort,
          t1, t2, t3,                            \* CompactDeveloper
          d1, d2, w1,                            \* Delegation
          plan, dev, rev, leave                  \* WorkflowRun

VARIABLES
  component,
  disk, transcript, reads, totals, loop, client, batch, loopPhase,
  workspace, numbered, ticked, fixer, feedback, tasks, group, round, writes, claim, report, rolePhase,
  outcome, session, node, results, parent, lock, waits, inFlight, injected, lost, returned,
  request, via, child, code, out, partial, chunk, killed, completed, failure, stream, signal,
  closed, scratch, settled, turn, written, cause,
  version, inputs, stage, base, verifying, wave, check, alive, strays, aborted, cancelled, late, previous,
  failures, nodeVisits, judged, proof, faults,
  ledger, graph, caller, opts, fork, replied, step, shownValues, tries, calls, executions, cut

\* One file of two contents, one of them large, and a loop of one tool call and one more.
MCText == {f1}
MCContent == {k1, k2}
MCSwitch == {effort}
MCLoopTurns == 3
MCToolCalls == 1
MCExtraCalls == 1
MCMaxReply == 1
MCMaxBatch == 1
MCRewriteAt == 2

Loop == INSTANCE GuardedLoop WITH
  File <- MCText, Content <- MCContent, Large <- {k1}, Switch <- MCSwitch,
  MaxTurns <- MCLoopTurns, MaxToolCalls <- MCToolCalls, ExtraCalls <- MCExtraCalls,
  MaxTokens <- 1, MaxReply <- MCMaxReply, MaxBatch <- MCMaxBatch,
  WarnAt <- 3, AbortAt <- 3, ReadRope <- 1, RewriteAt <- MCRewriteAt, ProtectedTail <- 2,
  pc <- loopPhase

\* Two tasks in a first group, 1.1 and 1.10, of which the second names no file, and one in a
\* second group that may carry no number.
MCTask == {t1, t2, t3}
MCFile == {f1, f2}
MCGroups == 2
MCGroupOf == [t \in MCTask |-> IF t = t3 THEN 2 ELSE 1]
MCNames == [t \in MCTask |-> CASE t = t1 -> {f1} [] t = t2 -> {} [] t = t3 -> {f1, f2}]
MCPlans == {MCTask, MCTask \ {t3}}
MCWithholds == [t \in MCTask |-> IF t = t2 THEN {t1, t2} ELSE {t}]

Developer == INSTANCE CompactDeveloper WITH
  Task <- MCTask, File <- MCFile, Groups <- MCGroups, GroupOf <- MCGroupOf, Names <- MCNames,
  Plans <- MCPlans, Item <- MCTask, Withholds <- MCWithholds,
  disk <- workspace, seen <- tasks, attempt <- round, pc <- rolePhase

MCChild == {d1, d2}
MCWaiter == {w1}
MCHandoffs == 1

Delegates == INSTANCE Delegation WITH
  Child <- MCChild, Waiter <- MCWaiter, MaxConcurrent <- 2, MaxHandoffs <- MCHandoffs, answered <- returned

\* Every provider, the limits a request to it may carry, and one turn of two tokens.
MCProvider == {"claude", "codex", "kimi", "api"}
MCLimits == [p \in MCProvider |-> CASE p = "codex" -> {None, 1} [] p = "kimi" -> {1} [] OTHER -> {None}]
MCMaxTurns == 1
MCTurnTokens == 2
MCMaxPipe == 2

Provider == INSTANCE AgentProcess WITH
  Provider <- MCProvider, MaxTurns <- MCMaxTurns, MaxTokens <- MCLimits,
  TurnTokens <- MCTurnTokens, MaxLines <- 3, MaxPipe <- MCMaxPipe

\* Two checks that may run together and one that waits for them; the second may be reused.
MCApart == {<<1, 2>>}
MCFailures == <<{"defect"}, {"environment"}, {"host"}>>

Checks == INSTANCE Verification_proofs WITH
  Setup <- 1, Checks <- 3, Independent <- {1, 2}, Apart <- MCApart, Reusable <- {2},
  Failures <- MCFailures, Adopts <- TRUE, MaxConcurrency <- 2, MaxFailures <- 3,
  MaxEvents <- 3, candidate <- verifying, signal <- cancelled,
  visits <- nodeVisits, claim <- judged,
  tree <- version, progress <- failures

\* A plan that asks, a developer, and a reviewer that may send work back and be retried.
MCNode == {plan, dev, rev}
MCOrder == <<plan, dev, rev>>
MCEnds == [n \in MCNode |-> IF n = dev THEN {rev} ELSE {dev}]
MCInvalidable == {{n} : n \in MCNode}

Legacy == INSTANCE WorkflowRun_proofs WITH
  Node <- MCNode, Order <- MCOrder, Ends <- MCEnds, Entry <- plan, WriteNode <- {dev, rev},
  RetrySafe <- {rev}, Asking <- {plan}, MaxAttempts <- 2, MaxTransitions <- 4, MaxCalls <- 3,
  MaxVisits <- 2, Invalidable <- MCInvalidable, answered <- replied, visits <- executions, End <- leave,
  pc <- caller, node <- step, attempt <- tries, seen <- shownValues

toolLoop == <<disk, transcript, reads, totals, loop, client, batch, loopPhase>>
developer == <<workspace, numbered, ticked, fixer, feedback, tasks, group, round, writes, claim, report,
               rolePhase>>
delegation == <<outcome, session, node, results, parent, lock, waits, inFlight, injected, lost, returned>>
provider == <<request, via, child, code, out, partial, chunk, killed, completed, failure, stream,
              signal, closed, scratch, settled, turn, written, cause>>
verification == <<version, inputs, stage, base, verifying, wave, check, alive, strays, aborted, cancelled,
                  late, previous, failures, nodeVisits, judged, proof, faults>>
legacy == <<ledger, graph, caller, opts, fork, replied, step, shownValues, tries, calls,
            executions, cut>>

\* A component that is not there.
NoCore ==
  /\ at = None /\ status = None /\ reason = None /\ candidate = None /\ open = None /\ design = None
  /\ recent = <<>> /\ review = None /\ receipt = None /\ verified = None /\ visits = None /\ transitions = None
  /\ answered = None /\ consent = None /\ shown = None /\ granted = None /\ resumes = None
NoLoop ==
  /\ disk = None /\ transcript = None /\ reads = None /\ totals = None /\ loop = None /\ client = None
  /\ batch = None /\ loopPhase = None
NoDeveloper ==
  /\ workspace = None /\ numbered = None /\ ticked = None /\ fixer = None /\ feedback = None /\ tasks = None /\ group = None
  /\ round = None /\ writes = None /\ claim = None /\ report = None /\ rolePhase = None
NoDelegation ==
  /\ outcome = None /\ session = None /\ node = None /\ results = None /\ parent = None /\ lock = None
  /\ waits = None /\ inFlight = None /\ injected = None /\ lost = None /\ returned = None
NoProvider ==
  /\ request = None /\ via = None /\ child = None /\ code = None /\ out = None /\ partial = None
  /\ chunk = None /\ killed = None /\ completed = None /\ failure = None /\ stream = None /\ signal = None
  /\ closed = None /\ scratch = None /\ settled = None /\ turn = None /\ written = None /\ cause = None
NoVerification ==
  /\ version = None /\ inputs = None /\ stage = None /\ base = None /\ verifying = None /\ wave = None
  /\ check = None /\ alive = None /\ strays = None /\ aborted = None /\ cancelled = None /\ late = None /\ previous = None
  /\ failures = None /\ nodeVisits = None /\ judged = None /\ proof = None /\ faults = None
NoLegacy ==
  /\ ledger = None /\ graph = None /\ caller = None /\ opts = None /\ fork = None /\ replied = None
  /\ step = None /\ shownValues = None /\ tries = None /\ calls = None /\ executions = None /\ cut = None

AgentsInit ==
  \/ component = "core" /\ Init /\ NoLoop /\ NoDeveloper /\ NoDelegation /\ NoProvider /\ NoVerification /\ NoLegacy
  \/ component = "loop" /\ NoCore /\ Loop!Init /\ NoDeveloper /\ NoDelegation /\ NoProvider /\ NoVerification /\ NoLegacy
  \/ component = "developer" /\ NoCore /\ NoLoop /\ Developer!Init /\ NoDelegation /\ NoProvider /\ NoVerification /\ NoLegacy
  \/ component = "delegation" /\ NoCore /\ NoLoop /\ NoDeveloper /\ Delegates!Init /\ NoProvider /\ NoVerification /\ NoLegacy
  \/ component = "provider" /\ NoCore /\ NoLoop /\ NoDeveloper /\ NoDelegation /\ Provider!Init /\ NoVerification /\ NoLegacy
  \/ component = "verification" /\ NoCore /\ NoLoop /\ NoDeveloper /\ NoDelegation /\ NoProvider /\ Checks!Init /\ NoLegacy
  \/ component = "legacy" /\ NoCore /\ NoLoop /\ NoDeveloper /\ NoDelegation /\ NoProvider /\ NoVerification /\ Legacy!Init

AgentsNext ==
  /\ UNCHANGED component
  /\ \/ component = "core" /\ Next /\ UNCHANGED <<toolLoop, developer, delegation, provider, verification, legacy>>
     \/ component = "loop" /\ Loop!Next /\ UNCHANGED <<vars, developer, delegation, provider, verification, legacy>>
     \/ component = "developer" /\ Developer!Next /\ UNCHANGED <<vars, toolLoop, delegation, provider, verification, legacy>>
     \/ component = "delegation" /\ Delegates!Next /\ UNCHANGED <<vars, toolLoop, developer, provider, verification, legacy>>
     \/ component = "provider" /\ Provider!Next /\ UNCHANGED <<vars, toolLoop, developer, delegation, verification, legacy>>
     \/ component = "verification" /\ Checks!Next /\ UNCHANGED <<vars, toolLoop, developer, delegation, provider, legacy>>
     \/ component = "legacy" /\ Legacy!Next /\ UNCHANGED <<vars, toolLoop, developer, delegation, provider, verification>>

AgentsSpec == AgentsInit /\ [][AgentsNext]_<<component, vars, toolLoop, developer, delegation, provider, verification, legacy>>

-----------------------------------------------------------------------------
(* The properties of the instances, by their own names. Those of the graph,
   ArchivedAsAgreed and Converges, hold of a graph that is absent as well. *)

\* Every graph, transcript, plan, tree of sub-agents, request, visit and ledger keeps its type.
AgentsTypeOK ==
  CASE component = "core" -> CoreTypeOK
    [] component = "loop" -> Loop!LoopTypeOK
    [] component = "developer" -> Developer!DeveloperTypeOK
    [] component = "delegation" -> Delegates!DelegationTypeOK
    [] component = "provider" -> Provider!ProcessTypeOK
    [] component = "verification" -> Checks!VerificationTypeOK
    [] component = "legacy" -> Legacy!WorkflowTypeOK

\* Of the tool loop: no large text is in view twice without another in between, and no model is
\* given up before it was told to answer.
NoCopyTwice == component = "loop" => Loop!NoCopyTwice
ToldBeforeGivingUp == component = "loop" => Loop!ToldBeforeGivingUp

\* Of the developer: every task is ticked on evidence or reported open.
TasksAccounted == component = "developer" => Developer!TasksAccounted

\* Of the sub-agents: a result is returned by a wait, kept, or sent to the agent once.
ResultsAccounted == component = "delegation" => Delegates!ResultsAccounted

\* Of a request: what the session is told is what happened.
OutcomeIsTrue == component = "provider" => Provider!OutcomeIsTrue

\* Of the verify node: what it calls verified, every check has passed on.
VerifiedOnEvidence == component = "verification" => Checks!VerifiedOnEvidence

\* Of the legacy engine: no write is run again unseen, and a call goes where the ledger says.
NoBlindRewrite == component = "legacy" => Legacy!NoBlindRewrite
FollowsLedger == component = "legacy" => Legacy!FollowsLedger

=============================================================================
