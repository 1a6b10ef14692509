----------------------------- MODULE WorkflowRun -----------------------------
(***************************************************************************)
(* The legacy engine (agent-runtime/workflow.ts): calls of runWorkflow on  *)
(* one run, crashes between any two writes, and resumes. The host ledger   *)
(* and LangGraph's checkpoints share an envelope that each commit replaces *)
(* as a whole (durable-store.ts, graph-checkpointer.ts), but a receipt and *)
(* the checkpoint after it are two commits. The lease keeps calls apart    *)
(* (OwnerLock).                                                            *)
(*                                                                         *)
(* LangGraph is external: a checkpoint names the next node and holds the   *)
(* state that node sees; an invocation goes on from a checkpoint and puts  *)
(* a new one after each node.                                              *)
(***************************************************************************)
EXTENDS Integers, Sequences, FiniteSets

CONSTANTS
  Node,            \* the nodes ...
  Order,           \* ... in order of declaration
  Ends,            \* node -> its declared successors
  Entry,
  WriteNode,       \* nodes with effect: 'write'
  RetrySafe,       \* writes that may be retried
  Asking,          \* nodes that ask for an approval or an answer
  MaxAttempts,
  MaxTransitions,  \* transitions of one call
  MaxCalls,        \* bound: calls of runWorkflow
  MaxVisits,       \* bound: executions of a node
  Invalidable,     \* sets of steps a host invalidates
  End,             \* no next step
  None

VARIABLES
  \* checkpoint.json
  ledger,   \* status, next (nextStep), attempt (nextAttempt), transitions, pending, step
  graph,    \* the checkpoints, oldest first
  \* a call
  pc, opts, fork, answered, node, seen, attempt,
  \* history
  calls,
  visits,   \* node -> executions begun
  cut       \* writes whose last execution was cut short and not recovered since

durable == <<ledger, graph>>
call == <<opts, fork, answered, node, seen, attempt>>
vars == <<durable, pc, call, calls, visits, cut>>

Record == [status : {"pending", "running", "interrupted", "paused", "succeeded", "failed", "blocked"},
           next : Node \union {End, None}, update : 0..MaxVisits]
Values == [Node -> 0..MaxVisits]
Statuses == {"running", "paused", "succeeded", "failed", "blocked", "cancelled"}

WorkflowTypeOK ==
  /\ ledger = None \/
       /\ ledger.status \in Statuses /\ ledger.next \in Node \union {End}
       /\ ledger.attempt \in 1..MaxAttempts /\ ledger.transitions \in 0..MaxTransitions
       /\ ledger.pending = None \/ ledger.pending \in [node : Asking, granted : BOOLEAN]
       /\ ledger.step \in [Node -> Record]
  /\ \A i \in DOMAIN graph : graph[i].next \in Node \union {End} /\ graph[i].values \in Values
  /\ pc \in {"off", "resume", "checked", "resumed", "position", "enter", "run", "retry", "route", "finish"}
  /\ node \in Node \union {End, None} /\ seen \in Values /\ attempt \in 0..MaxAttempts
  /\ fork \in Node \union {None} /\ answered \in BOOLEAN
  /\ cut \subseteq Node
  \* a running execution is the one the ledger names
  /\ pc = "run" => ledger.next = node /\ ledger.step[node].status = "running"

NoOpts == [recover |-> FALSE, answer |-> FALSE, invalid |-> {}]
NoValues == [n \in Node |-> 0]

Init ==
  /\ ledger = None /\ graph = <<>>
  /\ pc = "off" /\ opts = NoOpts /\ fork = None /\ answered = FALSE
  /\ node = None /\ seen = NoValues /\ attempt = 0
  /\ calls = 0 /\ visits = NoValues /\ cut = {}

-----------------------------------------------------------------------------
Goto(place) == pc' = place
Finish(status) == ledger' = [ledger EXCEPT !.status = status]

\* The call returns, or its process dies.
Return ==
  /\ pc' = "off" /\ opts' = NoOpts /\ fork' = None /\ answered' = FALSE
  /\ node' = None /\ seen' = NoValues /\ attempt' = 0

\* workflow_started, or an explicit resume.
RunWorkflow(o) ==
  /\ pc = "off" /\ calls < MaxCalls
  /\ calls' = calls + 1
  /\ opts' = o
  /\ IF ledger = None
       THEN /\ ledger' = [status |-> "running", next |-> Entry, attempt |-> 1, transitions |-> 0, pending |-> None,
                          step |-> [n \in Node |-> [status |-> "pending", next |-> None, update |-> 0]]]
            /\ Goto("position")
       ELSE Goto("resume") /\ UNCHANGED ledger
  /\ UNCHANGED <<graph, fork, answered, node, seen, attempt, visits, cut>>

\* mutant: an execution that a cancellation cut is over
DoubtfulRunning == ledger.next # End /\ ledger.step[ledger.next].status = "running"

Doubtful == ledger.next # End /\ ledger.step[ledger.next].status \in {"running", "interrupted"}

\* A write a crash left running, or an abort left ambiguous, needs an explicit decision.
CheckInterrupted ==
  /\ pc = "resume"
  /\ LET marked == IF Doubtful THEN [ledger EXCEPT !.step[ledger.next].status = "interrupted"] ELSE ledger
     IN IF Doubtful /\ ledger.next \in WriteNode /\ ~opts.recover
          THEN /\ ledger' = [marked EXCEPT !.status = "blocked"]
               /\ Return
          ELSE ledger' = marked /\ Goto("checked") /\ UNCHANGED call
  /\ cut' = IF opts.recover THEN cut \ {ledger.next} ELSE cut
  /\ UNCHANGED <<graph, calls, visits>>

Position(n) == CHOOSE i \in DOMAIN Order : Order[i] = n
Reset(r) == [status |-> "pending", next |-> None, update |-> 0]

\* Invalidation goes back to the first stale step, or to an unfinished one before it, and
\* resets it with everything declared after it.
Invalidate ==
  /\ pc = "checked" /\ opts.invalid # {}
  /\ LET stale == {Position(n) : n \in opts.invalid}
         stalest == CHOOSE i \in stale : \A j \in stale : i <= j
         unfinished == {i \in 1..(stalest - 1) : ledger.step[Order[i]].status \in {"blocked", "failed"}}
         first == CHOOSE i \in unfinished \union {stalest} : \A j \in unfinished \union {stalest} : i <= j
     IN /\ ledger' = [ledger EXCEPT !.status = "running", !.next = Order[first], !.attempt = 1, !.pending = None,
                        !.step = [n \in Node |-> IF Position(n) >= first THEN Reset(@[n]) ELSE @[n]]]
        /\ fork' = Order[first]
  /\ Goto("resumed")
  /\ UNCHANGED <<graph, opts, answered, node, seen, attempt, calls, visits, cut>>

\* A pending request is answered by this call, was answered by an earlier one, or the run stays paused.
Answer ==
  /\ pc = "checked" /\ opts.invalid = {}
  /\ IF ledger.pending # None /\ ~ledger.pending.granted /\ ~opts.answer
       THEN Finish("paused") /\ Return
       ELSE IF ledger.status = "succeeded" THEN Return /\ UNCHANGED ledger
       ELSE /\ answered' = (ledger.pending # None)
            /\ Goto("resumed") /\ UNCHANGED <<ledger, opts, fork, node, seen, attempt>>
  /\ UNCHANGED <<graph, calls, visits, cut>>

\* workflow_resumed: a failed visit begins a fresh series of attempts.
Resumed ==
  /\ pc = "resumed"
  /\ ledger' = [ledger EXCEPT
       !.status = "running", !.transitions = 0,
       !.attempt = IF ledger.next # End /\ ledger.step[ledger.next].status \in {"failed", "blocked"} THEN 1 ELSE @,
       !.pending = IF answered THEN [@ EXCEPT !.granted = TRUE] ELSE @]
  /\ Goto("position")
  /\ UNCHANGED <<graph, call, calls, visits, cut>>

-----------------------------------------------------------------------------
(* Where LangGraph goes on. *)

Latest == graph[Len(graph)]

\* mutant: LangGraph goes on where it stopped
NoTarget == IF fork = None /\ graph = <<>> THEN ledger.next ELSE fork

\* The ledger names the next node: when LangGraph stands elsewhere, traversal follows the ledger.
Target ==
  CASE fork # None -> fork
    [] fork = None /\ ledger.next # End /\ (graph = <<>> \/ Latest.next # ledger.next) -> ledger.next
    [] OTHER -> None

\* The checkpoints right before a run of the node.
Before(n) == {i \in DOMAIN graph : graph[i].next = n}

\* Continue from a checkpoint.
GoOnFrom(c) == node' = c.next /\ seen' = c.values /\ Goto("enter")

Seed == [next |-> Entry, values |-> NoValues]

\* deleteThread if there is one, and the first checkpoint of a new one.
StartOver ==
  /\ graph' = <<Seed>>
  /\ GoOnFrom(Seed)
  /\ UNCHANGED ledger

\* The latest checkpoint the target ran from, or a new thread; without either the call ends:
\* "No checkpoint precedes step; start a new run".
StartGraph ==
  /\ pc = "position" /\ ledger.next # End
  /\ LET before == Before(Target)
     IN CASE Target = None -> GoOnFrom(Latest) /\ UNCHANGED <<durable, opts, fork, answered, attempt>>
          [] Target # None /\ before # {} ->
               GoOnFrom(graph[CHOOSE i \in before : \A j \in before : j <= i]) /\ UNCHANGED <<durable, opts, fork, answered, attempt>>
          [] Target = Entry /\ before = {} -> StartOver /\ UNCHANGED <<opts, fork, answered, attempt>>
          [] OTHER -> Finish("failed") /\ Return /\ UNCHANGED graph
  /\ UNCHANGED <<calls, visits, cut>>

\* A crash came between the receipt of the last step and workflow_succeeded.
SkipGraph ==
  /\ pc = "position" /\ ledger.next = End
  /\ Goto("finish")
  /\ UNCHANGED <<durable, call, calls, visits, cut>>

-----------------------------------------------------------------------------
(* wrap(id) *)

StepIs(status) == [ledger EXCEPT !.step[node].status = status]

\* A cancellation or an exhausted budget, as a node begins.
Stop(status) ==
  /\ pc \in {"enter", "finish"}
  /\ Finish(status) /\ Return
  /\ UNCHANGED <<graph, calls, visits, cut>>

TransitionLimit ==
  /\ pc = "enter" /\ ledger.attempt = 1 /\ ledger.transitions >= MaxTransitions
  /\ Finish("blocked") /\ Return
  /\ UNCHANGED <<graph, calls, visits, cut>>

\* A retry passes no check. The replay of a receipt (workflow.ts:331) needs a node other
\* than the ledger's next step, and there is none: FollowsLedger.
StartStep ==
  /\ \/ /\ pc = "enter"
        /\ ledger.attempt = 1 => ledger.transitions < MaxTransitions
        /\ attempt' = ledger.attempt
     \/ pc = "retry" /\ attempt' = attempt
  /\ visits[node] < MaxVisits
  /\ visits' = [visits EXCEPT ![node] = @ + 1]
  /\ ledger' = [StepIs("running") EXCEPT
       !.next = node, !.attempt = attempt',
       !.transitions = IF pc = "enter" /\ ledger.attempt = 1 /\ ledger.step[node].status # "paused" THEN @ + 1 ELSE @]
  /\ Goto("run")
  /\ UNCHANGED <<graph, opts, fork, answered, node, seen, calls, cut>>

\* The request this call answers.
Answered == answered /\ ledger.pending # None /\ ledger.pending.node = node

\* step_paused, workflow_paused. A request that is answered is answered for the whole visit.
Pause ==
  /\ pc = "run" /\ node \in Asking /\ ~Answered
  /\ ledger' = [StepIs("paused") EXCEPT !.status = "paused", !.pending = [node |-> node, granted |-> FALSE]]
  /\ Return
  /\ UNCHANGED <<graph, calls, visits, cut>>

\* The receipt names the successor and holds the update.
Succeed(next) ==
  /\ pc = "run"
  /\ ledger' = [ledger EXCEPT
       !.step[node] = [status |-> "succeeded", next |-> next, update |-> visits[node]],
       !.pending = IF Answered THEN None ELSE @,
       !.next = next, !.attempt = 1]
  /\ Goto("route")
  /\ UNCHANGED <<graph, call, calls, visits, cut>>

\* Blocked, failed for good, an undeclared successor, or an update that is not JSON.
Fail(status) ==
  /\ pc = "run"
  /\ ledger' = [StepIs(status) EXCEPT !.status = status]
  /\ Return
  /\ UNCHANGED <<graph, calls, visits, cut>>

Retry ==
  /\ pc = "run" /\ attempt < MaxAttempts /\ node \notin WriteNode \ RetrySafe
  /\ ledger' = StepIs("failed")
  /\ attempt' = attempt + 1
  /\ Goto("retry")
  /\ UNCHANGED <<graph, opts, fork, answered, node, seen, calls, visits, cut>>

\* The execution settles after the call was cancelled, or after the duration budget of the
\* run ended it.
Cut(status, stopped) ==
  /\ pc = "run"
  /\ ledger' = IF node \in WriteNode THEN [StepIs("interrupted") EXCEPT !.status = "blocked"]
               ELSE [StepIs(status) EXCEPT !.status = stopped]
  /\ cut' = cut \union ({node} \intersect WriteNode)
  /\ Return
  /\ UNCHANGED <<graph, calls, visits>>

\* LangGraph applies the update and puts the checkpoint.
Route ==
  /\ pc = "route"
  /\ LET next == [next |-> ledger.step[node].next,
                  values |-> [seen EXCEPT ![node] = ledger.step[node].update]]
     IN /\ graph' = Append(graph, next)
        /\ IF next.next = End THEN Goto("finish") /\ UNCHANGED <<node, seen>> ELSE GoOnFrom(next)
  /\ UNCHANGED <<ledger, opts, fork, answered, attempt, calls, visits, cut>>

\* The end of the graph. The receipt of the last step names no successor.
Complete ==
  /\ pc = "finish"
  /\ Finish(IF ledger.next = End THEN "succeeded" ELSE "failed")
  /\ Return
  /\ UNCHANGED <<graph, calls, visits, cut>>

Crash ==
  /\ pc # "off"
  /\ cut' = IF pc = "run" THEN cut \union ({node} \intersect WriteNode) ELSE cut
  /\ Return
  /\ UNCHANGED <<durable, calls, visits>>

Next ==
  \/ \E o \in [recover : BOOLEAN, answer : BOOLEAN, invalid : Invalidable \union {{}}] : RunWorkflow(o)
  \/ CheckInterrupted \/ Invalidate \/ Answer \/ Resumed \/ StartGraph \/ SkipGraph
  \/ \E status \in {"blocked", "cancelled"} : Stop(status)
  \/ TransitionLimit \/ StartStep \/ Pause \/ Retry \/ Route \/ Complete \/ Crash
  \/ pc = "run" /\ \E next \in Ends[node] \union {End} : Succeed(next)
  \/ \E status \in {"blocked", "failed"} : Fail(status)
  \/ \E status \in {"succeeded", "failed"}, stopped \in {"cancelled", "blocked"} : Cut(status, stopped)

Spec == Init /\ [][Next]_vars

-----------------------------------------------------------------------------
(* Properties. *)

\* A write whose last execution was cut, by a crash or a cancellation, does not execute
\* again before a call recovers it explicitly, whatever was invalidated in between
\* (workflow.ts:231).
NoBlindRewrite == pc = "run" /\ node \in WriteNode => node \notin cut

\* A call enters only the node the ledger names: what LangGraph lost or kept of an earlier
\* call never executes a committed receipt again, nor a step that was invalidated
\* (workflow.ts:497).
FollowsLedger == pc = "enter" => node = ledger.next

\* "The ledger is authoritative for which node runs next: if LangGraph's own position
\* disagrees after a crash, traversal follows the ledger" (docs/agent-runtime.md:248): a run
\* ends as failed only because a step failed.
ReceiptsResume == ledger # None /\ ledger.status = "failed" => \E n \in Node : ledger.step[n].status = "failed"
=============================================================================
