------------------------------ MODULE Delegation ------------------------------
(***************************************************************************)
(* Sub-agents that the core launches for a session                         *)
(* (session/application/delegation.ts): each is a child session; its end   *)
(* is mirrored into the parent, handed to whoever waits for it, or sent to *)
(* the parent's agent once nothing runs any more.                          *)
(*                                                                         *)
(* Calls that change the parent hold its lock over their awaits, a wait    *)
(* does not. The continuation of a wait runs before any timer or provider  *)
(* event, so it is part of the step that resolves it. Results are taken    *)
(* from the parent before they are sent, and a delivery that fails is not  *)
(* tried again. The parent's inputs, limits and retirements are            *)
(* ActiveSession's; here is what they do to a delivery.                    *)
(***************************************************************************)
EXTENDS Naturals, FiniteSets

CONSTANTS
  Child,
  Waiter,         \* waits the host may have open
  MaxConcurrent,  \* subagentRuntime.maxConcurrent
  MaxHandoffs,    \* limits.maxSettleHandoffs
  None

VARIABLES
  outcome,   \* what the coordinator knows of a child: absent, or None until it ended
  session,   \* the child session: none, open, turn, ended, closed
  node,      \* the child in the parent's tree
  results,   \* delegatedResults: what has not been sent to the agent
  parent,    \* [open, turn, closing, cut, handoffs]: the parent session; closing while it retires
             \* its process, cut while an input that interrupts is pending
  lock,      \* the call that holds the parent's lock: the child being opened, stop, close, retire
             \* or None
  waits,     \* waiter -> the children it waits for, or None
  inFlight,  \* deliveries sent and not started: sets of children
  injected,  \* history: children whose result a turn of the agent took in
  lost,      \* history: children whose delivery failed
  answered   \* history: children whose result a wait returned

vars == <<outcome, session, node, results, parent, lock, waits, inFlight, injected, lost, answered>>

Status == {"completed", "silent", "failed", "stopped", "interrupted"}

DelegationTypeOK ==
  /\ outcome \in [Child -> Status \union {"absent", None}]
  /\ session \in [Child -> {"none", "open", "turn", "ended", "closed"}]
  /\ node \in [Child -> Status \union {"none", "running"}]
  /\ results \subseteq Child /\ injected \subseteq Child /\ answered \subseteq Child
  /\ inFlight \subseteq SUBSET Child /\ lost \subseteq Child
  /\ parent.handoffs \in 0 .. MaxHandoffs
  /\ lock \in Child \union {"stop", "close", "retire", None}
  /\ waits \in [Waiter -> (SUBSET Child) \union {None}]

Init ==
  /\ outcome = [c \in Child |-> "absent"]
  /\ session = [c \in Child |-> "none"] /\ node = session
  /\ results = {} /\ inFlight = {} /\ injected = {} /\ lost = {} /\ answered = {}
  /\ parent = [open |-> TRUE, turn |-> TRUE, closing |-> FALSE, cut |-> FALSE, handoffs |-> 0]
  /\ lock = None /\ waits = [w \in Waiter |-> None]

Known == {c \in Child : outcome[c] # "absent"}
Running == {c \in Child : outcome[c] = None}
Live == {c \in Child : node[c] = "running"}

\* The children whose results are under way.
Sent == UNION inFlight

-----------------------------------------------------------------------------

\* mutant: what a wait returns stays with the parent
CollectNothing(finished, known) == known

\* What a wait returns is not sent any more.
Collect(finished, known) == known \ finished

\* The children in ended have an outcome: the parent's tree shows it, unless the parent has
\* closed, and the waits that have nothing left to wait for return what has finished.
Finish(ended, status) ==
  LET new == {c \in ended : outcome[c] = None}
      told == {c \in new : node[c] = "running" /\ parent.open}
      over == {w \in Waiter : waits[w] # None /\ waits[w] \intersect Running \subseteq new}
      done == {c \in UNION {waits[w] : w \in over} : c \notin Running \ new}
  IN /\ outcome' = [c \in Child |-> IF c \in new THEN status ELSE outcome[c]]
     /\ node' = [c \in Child |-> IF c \in told THEN status ELSE node[c]]
     /\ results' = Collect(done, IF status = "silent" THEN results ELSE results \union told)
     /\ waits' = [w \in Waiter |-> IF w \in over THEN None ELSE waits[w]]
     /\ answered' = answered \union done

\* delegate: the child is entered before anything is awaited.
Delegate(c) ==
  /\ lock = None /\ parent.open /\ outcome[c] = "absent" /\ session[c] = "none"
  /\ Cardinality(Live) < MaxConcurrent
  /\ outcome' = [outcome EXCEPT ![c] = None]
  /\ node' = [node EXCEPT ![c] = "running"]
  /\ lock' = c
  /\ UNCHANGED <<session, results, parent, waits, inFlight, injected, lost, answered>>

OpenChild(c) ==
  /\ lock = c /\ session[c] = "none"
  /\ session' = [session EXCEPT ![c] = "open"]
  /\ UNCHANGED <<outcome, node, results, parent, lock, waits, inFlight, injected, lost, answered>>

SendTask(c) ==
  /\ lock = c /\ session[c] = "open"
  /\ session' = [session EXCEPT ![c] = "turn"]
  /\ lock' = None
  /\ UNCHANGED <<outcome, node, results, parent, waits, inFlight, injected, lost, answered>>

\* The child cannot be opened or sent its task, or somebody closed it first. A session that
\* was opened stays open.
DelegateFails(c) ==
  /\ lock = c
  /\ Finish({c}, "failed")
  /\ lock' = None
  /\ UNCHANGED <<session, parent, inFlight, injected, lost>>

-----------------------------------------------------------------------------
(* observe *)

\* The turn of a child ends; its session is closed without anybody waiting for that.
TurnEnds(c, status) ==
  /\ session[c] = "turn" /\ status \in {"completed", "silent", "failed", "interrupted"}
  /\ session' = [session EXCEPT ![c] = "ended"]
  /\ Finish({c}, status)
  /\ UNCHANGED <<parent, lock, inFlight, injected, lost>>

\* close of the child, by the coordinator or by a host; a turn that runs is cut by it.
CloseChild(c) ==
  /\ session[c] \in {"open", "turn", "ended"}
  /\ session' = [session EXCEPT ![c] = "closed"]
  /\ Finish({c}, "interrupted")
  /\ UNCHANGED <<parent, lock, inFlight, injected, lost>>

-----------------------------------------------------------------------------

\* stop: every target has its outcome before one of them is interrupted.
Stop(targets) ==
  /\ lock = None /\ parent.open
  /\ targets \subseteq Running /\ targets # {}
  /\ Finish(targets, "stopped")
  /\ lock' = "stop"
  /\ UNCHANGED <<session, parent, inFlight, injected, lost>>

\* interrupt and close of the children that were stopped have returned.
Stopped ==
  /\ lock = "stop"
  /\ \A c \in Known : outcome[c] = "stopped" => session[c] = "closed"
  /\ lock' = None
  /\ UNCHANGED <<outcome, session, node, results, parent, waits, inFlight, injected, lost, answered>>

\* close of the parent: its children are stopped and forgotten, then its process is retired, if it
\* has one.
CloseParent ==
  /\ lock = None /\ parent.open
  /\ Finish(Running, "stopped")
  /\ lock' = "close"
  /\ UNCHANGED <<session, parent, inFlight, injected, lost>>

ForgetChildren ==
  /\ lock = "close"
  /\ \A c \in Known : outcome[c] = "stopped" => session[c] = "closed"
  /\ outcome' = [c \in Child |-> "absent"]
  /\ lock' = "retire"
  /\ \E closing \in {TRUE, parent.closing} : parent' = [parent EXCEPT !.closing = closing]
  /\ UNCHANGED <<session, node, results, waits, inFlight, injected, lost, answered>>

ParentClosed ==
  /\ lock = "retire"
  /\ parent' = [parent EXCEPT !.open = FALSE, !.turn = FALSE, !.closing = FALSE, !.cut = FALSE]
  /\ lost' = lost \union Sent /\ inFlight' = {}
  /\ lock' = None
  /\ UNCHANGED <<outcome, session, node, results, waits, injected, answered>>

-----------------------------------------------------------------------------

\* A wait for some children, or for all; it returns at once when none of them runs.
Wait(w, targets) ==
  /\ waits[w] = None /\ parent.open
  /\ targets \subseteq Known
  /\ IF targets \intersect Running = {}
     THEN /\ answered' = answered \union targets
          /\ results' = Collect(targets, results)
          /\ UNCHANGED waits
     ELSE waits' = [waits EXCEPT ![w] = targets] /\ UNCHANGED <<answered, results>>
  /\ UNCHANGED <<outcome, session, node, parent, lock, inFlight, injected, lost>>

\* The timeout of a wait: it returns what has finished.
TimeOut(w) ==
  /\ waits[w] # None
  /\ LET done == waits[w] \ Running
     IN answered' = answered \union done /\ results' = Collect(done, results)
  /\ waits' = [waits EXCEPT ![w] = None]
  /\ UNCHANGED <<outcome, session, node, parent, lock, inFlight, injected, lost>>

\* The settle point, or the end of a turn: what nobody has collected is sent to the agent.
MaybeDeliverDelegatedResults ==
  /\ parent.open /\ ~parent.turn /\ ~parent.closing /\ ~parent.cut
  /\ Live = {} /\ results # {} /\ parent.handoffs < MaxHandoffs
  /\ inFlight' = inFlight \union {results}
  /\ results' = {}
  /\ parent' = [parent EXCEPT !.handoffs = @ + 1]
  /\ UNCHANGED <<outcome, session, node, lock, waits, injected, lost, answered>>

-----------------------------------------------------------------------------
(* The turns and the process of the parent, as far as deliveries go. *)

TakenIn(ds) ==
  /\ injected' = injected \union UNION ds
  /\ inFlight' = inFlight \ ds

Undelivered(ds) ==
  /\ lost' = lost \union UNION ds
  /\ inFlight' = inFlight \ ds

\* A turn starts with some deliveries, with inputs of the user or by itself. One the user sends
\* counts handoffs from zero, and the pending correction may be what it starts with.
ParentTurnStarts(ds) ==
  /\ parent.open /\ ~parent.turn
  /\ TakenIn(ds)
  /\ \E cut \in {FALSE, parent.cut}, handoffs \in {0, parent.handoffs} :
       parent' = [parent EXCEPT !.turn = TRUE, !.cut = cut, !.handoffs = handoffs]
  /\ UNCHANGED <<outcome, session, node, results, lock, waits, lost, answered>>

\* The provider started a delivery in the turn that runs.
InputStarts(d) ==
  /\ parent.open /\ parent.turn
  /\ TakenIn({d})
  /\ UNCHANGED <<outcome, session, node, results, parent, lock, waits, lost, answered>>

ParentTurnEnds ==
  /\ parent.open /\ parent.turn
  /\ parent' = [parent EXCEPT !.turn = FALSE]
  /\ UNCHANGED <<outcome, session, node, results, lock, waits, inFlight, injected, lost, answered>>

\* An input interrupts the turn and is pending until a turn starts with it or it is given up.
Interrupt ==
  /\ parent.open /\ parent.turn
  /\ parent' = [parent EXCEPT !.cut = TRUE]
  /\ UNCHANGED <<outcome, session, node, results, lock, waits, inFlight, injected, lost, answered>>

InterruptFails ==
  /\ parent.open
  /\ parent' = [parent EXCEPT !.cut = FALSE]
  /\ UNCHANGED <<outcome, session, node, results, lock, waits, inFlight, injected, lost, answered>>

\* The write of a delivery fails, or the provider rejects it: the input is journaled as
\* interrupted and nothing else.
DeliveryFails(d) ==
  /\ parent.open
  /\ Undelivered({d})
  /\ UNCHANGED <<outcome, session, node, results, parent, lock, waits, injected, answered>>

Retire ==
  /\ parent.open
  /\ parent' = [parent EXCEPT !.closing = TRUE]
  /\ UNCHANGED <<outcome, session, node, results, lock, waits, inFlight, injected, lost, answered>>

\* The process is retired or has exited: deliveries that did not start end with it, but for those
\* whose write still waits for a new process.
ProcessEnds(ds) ==
  /\ parent.open
  /\ Undelivered(ds)
  /\ parent' = [parent EXCEPT !.turn = FALSE, !.closing = FALSE, !.cut = FALSE]
  /\ UNCHANGED <<outcome, session, node, results, lock, waits, injected, answered>>

Next ==
  \/ \E c \in Child :
       \/ Delegate(c) \/ OpenChild(c) \/ SendTask(c) \/ DelegateFails(c) \/ CloseChild(c)
       \/ \E status \in Status : TurnEnds(c, status)
  \/ \E targets \in SUBSET Child : Stop(targets)
  \/ Stopped \/ CloseParent \/ ForgetChildren \/ ParentClosed
  \/ \E w \in Waiter : TimeOut(w) \/ \E targets \in SUBSET Child : Wait(w, targets)
  \/ MaybeDeliverDelegatedResults
  \/ \E ds \in SUBSET inFlight : ParentTurnStarts(ds) \/ ProcessEnds(ds)
  \/ \E d \in inFlight : InputStarts(d) \/ DeliveryFails(d)
  \/ ParentTurnEnds \/ Interrupt \/ InterruptFails \/ Retire

Spec == Init /\ [][Next]_vars

-----------------------------------------------------------------------------

\* The result of a child is in one place: it waits to be sent, or it was sent once, in one delivery
\* that the agent is still to take in, has taken in, or lost.
SentOnce ==
  /\ results \intersect (Sent \union injected \union lost) = {}
  /\ Sent \intersect (injected \union lost) = {}
  /\ injected \intersect lost = {}
  /\ \A d, e \in inFlight : d # e => d \intersect e = {}

\* While the parent is open, what a child ended with is in its tree, and is accounted for: a wait
\* returned it, or it waits to be sent, or it was sent to the agent, once. What a wait returned is
\* not sent afterwards; a wait may return what was sent before, and a delivery that fails takes its
\* results with it (delegation.ts wait and finish, active-session.ts maybeDeliverDelegatedResults
\* and collectDelegated). No wait goes on when nothing it waits for is running.
ResultsAccounted ==
  parent.open =>
    /\ \A c \in Known \ Running : node[c] = outcome[c]
    /\ \A c \in Child :
         node[c] \in Status \ {"silent"} =>
           c \in results \union answered \union Sent \union injected \union lost
    /\ SentOnce
    /\ results \intersect answered = {}
    /\ \A w \in Waiter : waits[w] # None => waits[w] \intersect Running # {}

=============================================================================
