---------------------------- MODULE ActiveSession ----------------------------
(***************************************************************************)
(* One agent session: ActiveSession (session/application/active-session.ts) *)
(* over its provider driver, below the per-session lock of SessionService   *)
(* (session-service.ts). The session is one record; an operator per method  *)
(* maps a session to the session the method leaves, and an action is one    *)
(* event-loop turn: a call, a driver event, a timer, the end of an open or  *)
(* of a close. What a turn hands to microtasks (a write to a process that   *)
(* is already there, the close of a driver that closes at once) finishes in *)
(* the same action, in Finish, in the order the microtasks run.             *)
(*                                                                         *)
(* The providers are external and modelled by what drivers/ promises:       *)
(*   claude    opens and writes at once, queues inputs itself, closes late  *)
(*   codex     opens late, one turn per request, the request may fail       *)
(*   executor  opens, writes and closes at once, one turn per input         *)
(*                                                                         *)
(* An input "queued" by the provider counts as accepted; sub-agents that    *)
(* were stopped, killed or interrupted count as stopped. Texts, usage,      *)
(* output buffering and tool activity are left out.                         *)
(***************************************************************************)
EXTENDS Naturals, FiniteSets, SequencesExt

CONSTANTS
  User, System,     \* inputs of the host and inputs the session writes itself
  Native, Delegated,\* sub-agents of the provider and child sessions of Core
  Setup,            \* sessions to look at, each with
                    \*   driver    which provider
                    \*   has       the inputs of the host and the sub-agents there are
                    \*   delivery  deliveries the host uses
                    \*   resume    policy.onSubagentsSettled = 'resume-agent'
                    \*   event     what the host and the machine may do besides sending
  Config,           \* values of the configuration
  MaxHandoffs,      \* policy.limits.maxSettleHandoffs
  MaxTurns, MaxRestarts,  \* bounds on turns and host restarts
  MaxClosing,       \* bound on retirements by timers that overlap one close
  None

ASSUME ActiveSessionAssumption ==
  /\ Setup # {}
  /\ \A x \in Setup :
       /\ x.driver \in {"claude", "codex", "executor"}
       /\ x.has \subseteq User \union Native \union Delegated
       /\ x.delivery \subseteq {"queue", "steer", "interrupt"}
       /\ x.resume \in BOOLEAN
       /\ x.event \subseteq {"interrupt", "stop", "update", "close", "shutdown", "evict", "crash", "openFails", "writeFails", "restart"}
       /\ x.driver = "executor" => x.has \intersect Native = {}
       /\ x.has \intersect Native = {} \/ x.has \intersect Delegated = {}
  /\ MaxHandoffs \in Nat /\ MaxTurns \in Nat /\ MaxRestarts \in Nat /\ MaxClosing \in Nat
  /\ Config # {}
  /\ None \notin User \union System \union {"call"} /\ "call" \notin User \union System

VARIABLE session

vars == <<session>>

Input == User \union System
Driver == session.setup.driver
Has == session.setup.has
Delivery == session.setup.delivery
ResumeAgent == session.setup.resume
Event == session.setup.event
NativeQueue == Driver = "claude"
Steerable == Driver \in {"claude", "codex"}
SlowOpen == Driver = "codex"
SlowClose == Driver # "executor"

Timer == {"idle", "stall", "backgroundMax", "turnInactivity", "settle"}
NoTurn == [id |-> 0, inputs |-> {}]
NoPending == [turn |-> 0, inputs |-> <<>>]
NoGrace == [turn |-> 0, then |-> "none"]

NewSession(setup) ==
  [setup |-> setup, status |-> "open", phase |-> "idle", settled |-> TRUE, turn |-> NoTurn, turns |-> 0,
   input |-> [i \in Input |-> "none"], why |-> [i \in Input |-> "none"], delivery |-> [i \in Input |-> "queue"],
   sub |-> [n \in Native \union Delegated |-> "none"], untold |-> {},
   proc |-> "none", waiting |-> <<>>, closing |-> <<>>, outbox |-> <<>>,
   held |-> <<>>, front |-> <<>>, pending |-> NoPending, config |-> CHOOSE c \in Config : TRUE, deferred |-> None,
   timers |-> {}, grace |-> NoGrace, roster |-> None, news |-> {}, results |-> {}, handoffs |-> 0,
   lock |-> None, evict |-> FALSE, down |-> FALSE,
   given |-> <<>>, request |-> {},
   sent |-> [i \in Input |-> 0], tells |-> [i \in Input |-> {}], restarts |-> 0]

Init == \E x \in Setup : session = NewSession(x)

-----------------------------------------------------------------------------
\* Reading the session.

TurnOpen(x) == x.turn # NoTurn
Waiting(x, i) == x.input[i] = "accepted"
Running(x, N) == {n \in N : x.sub[n] = "running"}
IsBusy(x) == TurnOpen(x) \/ Running(x, Native \union Delegated) # {}

\* mutant: the provider's roster is not looked at.
LiveOfTree(x) == Running(x, Native \union Delegated)

\* Running in the tree or, unless the tree says idle, on the provider's roster.
Live(x) ==
  Running(x, Native \union Delegated)
    \union (IF x.roster = None THEN {} ELSE {n \in x.roster : x.sub[n] # "idle"})

InFlight(x) == x.request \union {w.input : w \in {v \in ToSet(x.waiting) : v.kind = "write"}}

\* System inputs not used yet: their number bounds the turns policy starts.
Fresh(x) == {i \in System : x.input[i] = "none"}

\* The entries of a queue that are in I, in their order.
Only(queue, I) ==
  LET kept == {n \in DOMAIN queue : queue[n] \in I}
  IN  [k \in 1 .. Cardinality(kept) |-> queue[CHOOSE n \in kept : Cardinality({m \in kept : m <= n}) = k]]

-----------------------------------------------------------------------------
\* Inputs, timers and locks.

Cancel(x, T) == [x EXCEPT !.timers = @ \ T]
Arm(x, T) == [x EXCEPT !.timers = @ \union T]
CancelAll(x) == [x EXCEPT !.timers = {}, !.grace = NoGrace]
Unlock(x, I) == IF x.lock \in I THEN [x EXCEPT !.lock = None] ELSE x

SetInputs(x, I, state) == [x EXCEPT !.input = [i \in Input |-> IF i \in I THEN state ELSE @[i]]]

Interrupt(x, I, reason) ==
  [SetInputs(x, I, "interrupted") EXCEPT
     !.why = [i \in Input |-> IF i \in I THEN reason ELSE @[i]],
     !.untold = @ \union I]

Accept(x, i, d, items) ==
  [SetInputs(x, {i}, "accepted") EXCEPT !.delivery[i] = d, !.tells[i] = items]

ForgetPendingInterrupt(x, I) ==
  LET left == Only(x.pending.inputs, Input \ I)
  IN  [x EXCEPT !.pending = IF left = <<>> THEN NoPending ELSE [turn |-> x.pending.turn, inputs |-> left]]

\* mutant: a failed write is swallowed and its input stays accepted.
FailWriteSilently(x, I) == Unlock(ForgetPendingInterrupt(x, I), I)

\* A write that fails leaves the input interrupted, never half-sent.
FailWrite(x, I) ==
  Unlock(ForgetPendingInterrupt(Interrupt(x, {i \in I : Waiting(x, i)}, "delivery_failed"), I), I)

-----------------------------------------------------------------------------
\* Ending work: what a retirement and a crash leave behind.

EndRunningWork(x, r) ==
  LET keep == ToSet(r.carry)
      done == IF r.complete THEN {i \in Input \ keep : x.input[i] = "started"} ELSE {}
      lost == {i \in Input \ (keep \union done) : x.input[i] \in {"accepted", "started"}}
      cut == Running(x, Native)
      stays == Running(x, Delegated) # {}
  IN  [Interrupt(SetInputs(x, done, "completed"), lost, r.why) EXCEPT
         !.turn = NoTurn,
         !.sub = [n \in Native \union Delegated |-> IF n \in cut THEN "stopped" ELSE @[n]],
         !.untold = @ \union cut,
         !.held = <<>>, !.front = <<>>, !.pending = NoPending, !.roster = None,
         !.phase = IF stays THEN "background" ELSE "idle",
         !.settled = @ \/ ~stays]

Retirement(why, then) == [kind |-> "retire", why |-> why, carry |-> <<>>, complete |-> FALSE, then |-> then]

\* ensureDriver and driver.send begin: the send itself is left to Finish.
WriteAll(x, inputs, d) ==
  [x EXCEPT !.outbox = @ \o [n \in 1 .. Len(inputs) |-> [kind |-> "write", input |-> inputs[n], delivery |-> d]],
            !.proc = IF @ # "none" THEN @ ELSE IF SlowOpen THEN "opening" ELSE "up"]
Write(x, i, d) == WriteAll(x, <<i>>, d)

\* What the caller of retire does once it returns.
AfterRetire(x, r) ==
  CASE r.then = "carry" /\ x.status = "open" /\ r.carry # <<>> ->
         IF NativeQueue
         THEN WriteAll(x, r.carry, "queue")
         ELSE Write([x EXCEPT !.held = @ \o Tail(r.carry)], Head(r.carry), "queue")
    [] r.then = "close" -> [CancelAll(x) EXCEPT !.status = "closed", !.lock = None]
    [] r.then = "return" -> [x EXCEPT !.lock = None]
    [] OTHER -> x

\* mutant: closing a Codex peer leaves the requests in flight unanswered.
BeginCloseSilently(x, r) == [x EXCEPT !.proc = "closing", !.closing = Append(@, r)]

\* driver.close begins; a Codex peer rejects its requests in flight at once.
BeginClose(x, r) ==
  FailWrite([x EXCEPT !.proc = "closing", !.closing = Append(@, r), !.request = {}], x.request)

\* Without a process only the timers are cancelled; while one opens, retire waits for it.
Retire(x, r) ==
  LET y == CancelAll(x)
  IN  CASE x.proc = "none" -> AfterRetire(y, r)
        [] x.proc = "opening" -> [y EXCEPT !.waiting = Append(@, r)]
        [] OTHER -> BeginClose(y, r)

-----------------------------------------------------------------------------
\* Phases and limits.

ApplyChanges(x, c, then) ==
  LET y == [x EXCEPT !.config = c]
  IN  IF x.proc = "none" THEN AfterRetire(y, Retirement("config_change", then))
      ELSE Retire(y, Retirement("config_change", then))

EnterIdle(x) ==
  LET y == Cancel(x, {"stall", "backgroundMax"})
  IN  CASE x.deferred # None -> ApplyChanges([y EXCEPT !.deferred = None], x.deferred, "none")
        [] x.deferred = None /\ x.proc # "none" -> Arm(y, {"idle"})
        [] OTHER -> y

EnterBackground(x) == Arm(x, {"stall", "backgroundMax"})

\* Every driver event counts as activity.
MarkActivity(x) ==
  Arm(x, (IF TurnOpen(x) THEN {"turnInactivity"} ELSE {}) \union (IF x.phase = "background" THEN {"stall"} ELSE {}))

-----------------------------------------------------------------------------
\* Delivery.

ArmInterruptGrace(x, then) == [x EXCEPT !.grace = [turn |-> x.turn.id, then |-> then]]

DeliverQueued(x, i, d) ==
  IF ~NativeQueue /\ TurnOpen(x) /\ ~(d = "steer" /\ Steerable)
  THEN [x EXCEPT !.held = Append(@, i)]
  ELSE Write(x, i, d)

DeliverInterrupt(x, i) ==
  LET first == x.pending = NoPending
      y == [x EXCEPT !.pending = IF first THEN [turn |-> x.turn.id, inputs |-> <<i>>]
                                 ELSE [turn |-> x.pending.turn, inputs |-> Append(x.pending.inputs, i)]]
      z == IF first THEN ArmInterruptGrace(y, "carry") ELSE y
  IN  CASE first /\ ~TurnOpen(x) -> DeliverQueued(x, i, "queue")
        [] (~first \/ TurnOpen(x)) /\ NativeQueue -> Write(z, i, "interrupt")
        [] OTHER -> [z EXCEPT !.front = Append(@, i)]

Deliver(x, i, d) == IF d = "interrupt" THEN DeliverInterrupt(x, i) ELSE DeliverQueued(x, i, d)

\* The provider did not end the cut turn in time: a fresh process gets the
\* interrupting inputs and what the application still holds.
RetireForInterrupt(x) ==
  LET held == IF NativeQueue THEN x.pending.inputs ELSE x.front \o x.held
      carried == Only(held, {i \in Input : Waiting(x, i)})
  IN  Retire(x, [kind |-> "retire", why |-> "user_interrupt", carry |-> carried, complete |-> TRUE, then |-> "carry"])

\* mutant: the released input is not taken off the queue.
ReleaseAgain(x) ==
  IF TurnOpen(x) \/ x.front \o x.held = <<>> THEN x ELSE DeliverQueued(x, Head(x.front \o x.held), "queue")

ReleaseHeldInput(x) ==
  CASE TurnOpen(x) \/ (x.front = <<>> /\ x.held = <<>>) -> x
    [] ~TurnOpen(x) /\ x.front # <<>> -> DeliverQueued([x EXCEPT !.front = Tail(@)], Head(x.front), "queue")
    [] OTHER -> DeliverQueued([x EXCEPT !.held = Tail(@)], Head(x.held), x.delivery[Head(x.held)])

-----------------------------------------------------------------------------
\* Settlement.

AfterSubagentChange(x) ==
  LET y == [Cancel(x, {"settle", "idle"}) EXCEPT !.settled = FALSE]
  IN  CASE Live(x) # {} /\ x.phase = "idle" /\ ~TurnOpen(x) -> EnterBackground([y EXCEPT !.phase = "background"])
        [] Live(x) # {} /\ ~(x.phase = "idle" /\ ~TurnOpen(x)) -> y
        [] Live(x) = {} /\ ~x.settled -> Arm(x, {"settle"})
        [] OTHER -> x

DeliverSystem(x, items) ==
  LET i == CHOOSE j \in Fresh(x) : TRUE
  IN  Deliver(Accept([x EXCEPT !.handoffs = @ + 1], i, "queue", items), i, "queue")

MayHandOff(x) == x.pending = NoPending /\ x.handoffs < MaxHandoffs /\ Fresh(x) # {}

DeliversResults(x) ==
  x.results # {} /\ ~TurnOpen(x) /\ x.status = "open" /\ x.closing = <<>> /\ MayHandOff(x)

MaybeDeliverDelegatedResults(x) ==
  IF DeliversResults(x) THEN DeliverSystem([x EXCEPT !.results = {}], x.results) ELSE x

MaybeResumeAgent(x) ==
  IF ResumeAgent /\ Has \intersect Delegated = {} /\ Driver # "executor" /\ x.news # {} /\ x.proc \in {"up", "closing"} /\ MayHandOff(x)
  THEN DeliverSystem(x, {})
  ELSE x

OnSettled(x) ==
  LET y == [x EXCEPT !.settled = TRUE]
      z == IF x.phase = "background" THEN EnterIdle([y EXCEPT !.phase = "idle"]) ELSE y
  IN  CASE Live(x) # {} \/ x.status = "closed" -> x
        [] Live(x) = {} /\ x.status # "closed" /\ TurnOpen(x) -> y
        [] Live(x) = {} /\ x.status # "closed" /\ DeliversResults(z) -> MaybeDeliverDelegatedResults(z)
        [] OTHER -> MaybeResumeAgent(z)

SettlePhaseAfterTurn(x) ==
  LET live == Running(x, Native \union Delegated) # {}
      y == IF live THEN EnterBackground([x EXCEPT !.phase = "background"]) ELSE EnterIdle([x EXCEPT !.phase = "idle"])
  IN  CASE ~y.settled /\ "settle" \notin y.timers -> AfterSubagentChange(y)
        [] (y.settled \/ "settle" \in y.timers) /\ ~live -> MaybeDeliverDelegatedResults(y)
        [] OTHER -> y

-----------------------------------------------------------------------------
\* Turns.

\* The input.receipt "started" of some inputs; a terminal input keeps its state.
StartInput(x, I) ==
  LET now == {i \in I : Waiting(x, i)}
  IN  [SetInputs(x, now, "started") EXCEPT
         !.turn = IF TurnOpen(x) THEN [id |-> x.turn.id, inputs |-> x.turn.inputs \union now] ELSE x.turn]

\* mutant: the inactivity limit is armed by the first activity only.
StartTurnUnwatched(x, I) ==
  [Cancel(x, {"idle", "stall"}) EXCEPT
     !.turn = [id |-> x.turns + 1, inputs |-> I], !.turns = @ + 1, !.phase = "turn", !.news = {},
     !.pending = IF ToSet(@.inputs) \intersect I # {} THEN NoPending ELSE @]

StartTurn(x, I) ==
  LET byUser == I # {} /\ ~(I \subseteq System)
  IN  [Arm(Cancel(x, {"idle", "stall"}), {"turnInactivity"}) EXCEPT
         !.turn = [id |-> x.turns + 1, inputs |-> I], !.turns = @ + 1, !.phase = "turn",
         !.handoffs = IF byUser THEN 0 ELSE @, !.news = {},
         !.pending = IF ToSet(@.inputs) \intersect I # {} THEN NoPending ELSE @]

\* mutant: a held input is released before the results are handed over.
CompleteTurnReleasing(x) ==
  LET done == {i \in x.turn.inputs : x.input[i] = "started"}
      y == [SetInputs(Cancel(x, {"turnInactivity"}), done, "completed") EXCEPT !.turn = NoTurn, !.grace = NoGrace]
  IN  SettlePhaseAfterTurn(ReleaseHeldInput(y))

\* mutant: the end of a turn releases no held input.
CompleteTurnHolding(x) ==
  LET done == {i \in x.turn.inputs : x.input[i] = "started"}
      y == [SetInputs(Cancel(x, {"turnInactivity"}), done, "completed") EXCEPT !.turn = NoTurn, !.grace = NoGrace]
  IN  SettlePhaseAfterTurn(y)

CompleteTurn(x) ==
  LET done == {i \in x.turn.inputs : x.input[i] = "started"}
      y == [SetInputs(Cancel(x, {"turnInactivity"}), done, "completed") EXCEPT !.turn = NoTurn, !.grace = NoGrace]
  IN  ReleaseHeldInput(SettlePhaseAfterTurn(y))

-----------------------------------------------------------------------------
\* driver.send, once the driver is there.

\* Claude runs an interrupting input after the ones pending and before the rest.
Ahead(x, i) ==
  LET cuts == ToSet(x.pending.inputs)
  IN  Append(Only(x.given, cuts), i) \o Only(x.given, Input \ cuts)

\* A session closed while its process was opened sends nothing more.
Send(x, w) ==
  LET i == w.input
      y == [x EXCEPT !.sent[i] = @ + 1]
      live == x.status = "open" /\ x.proc # "closing"
  IN  CASE x.status = "closed" -> x
        [] x.status = "open" /\ x.proc = "closing" -> FailWrite(x, {i})
        [] live /\ Driver = "claude" ->
             Unlock([y EXCEPT !.given = IF w.delivery = "interrupt" THEN Ahead(x, i) ELSE Append(@, i)], {i})
        [] live /\ Driver = "codex" ->
             [y EXCEPT !.request = @ \union {i},
                       !.given = IF w.delivery = "steer" /\ TurnOpen(x) THEN @ ELSE Append(@, i)]
        [] live /\ Driver = "executor" /\ TurnOpen(x) -> FailWrite(x, {i})
        [] OTHER -> Unlock(StartTurn(StartInput(y, {i}), {i}), {i})

\* What comes of an entry of a queue: its work ends, it goes to the process that
\* is there, or it is dropped without one.
Entry(x, how, w) ==
  CASE how = "end" -> EndRunningWork(x, w)
    [] how = "go" /\ w.kind = "write" -> Send(x, w)
    [] how = "go" /\ w.kind = "retire" -> BeginClose(x, w)
    [] how = "drop" /\ w.kind = "write" -> FailWrite(x, {w.input})
    [] OTHER -> AfterRetire(x, w)

\* One entry after the other.
Drain(x, how, queue) ==
  LET after[n \in 0 .. Len(queue)] == IF n = 0 THEN x ELSE Entry(after[n - 1], how, queue[n])
  IN  after[Len(queue)]

\* mutant: closing is not reset once the driver has closed.
ClosedStuck(x) ==
  Drain([x EXCEPT !.proc = "none", !.given = <<>>, !.request = {}], "end", x.closing)

\* The process is gone: retirements that overlapped end their work one after
\* the other before any of their callers goes on.
Closed(x) ==
  LET gone == [x EXCEPT !.proc = "none", !.given = <<>>, !.request = {}, !.closing = <<>>]
  IN  Drain(Drain(gone, "end", x.closing), "drop", x.closing)

Dispatch(x) ==
  LET y == [x EXCEPT !.outbox = <<>>]
  IN  IF x.proc = "opening" THEN [y EXCEPT !.waiting = @ \o x.outbox] ELSE Drain(y, "go", x.outbox)

\* The microtasks of a handler: a driver that closes at once has closed before
\* the writes the handler began, which then find it closed.
Finish(x) ==
  IF x.closing = <<>> \/ SlowClose THEN Dispatch(x)
  ELSE Dispatch(Drain(Closed([x EXCEPT !.outbox = <<>>]), "drop", x.outbox))

-----------------------------------------------------------------------------
\* The host's calls: one at a time on a session, none once it is closed or the
\* service shuts down.

Callable == session.status = "open" /\ ~session.down /\ session.lock = None

SendInput(i, d) ==
  /\ Callable
  /\ i \in Has /\ session.input[i] = "none"
  /\ LET told == [Accept(session, i, d, session.untold) EXCEPT !.untold = {}]
         y == Finish(Deliver(told, i, d))
     IN  session' = [y EXCEPT !.lock = IF i \in InFlight(y) THEN i ELSE @]

\* A Codex process that is closing refuses the stop and the call fails.
InterruptTurn ==
  /\ "interrupt" \in Event
  /\ Callable
  /\ TurnOpen(session)
  /\ session.proc = "up" \/ NativeQueue
  /\ session' = ArmInterruptGrace(session, "stop")

\* Claude can only end its process; Codex stops each sub-agent on its own.
StopSubagents ==
  /\ "stop" \in Event
  /\ Callable
  /\ Running(session, Native) # {}
  /\ session.proc \in {"up", "closing"}
  /\ IF Driver = "claude"
     THEN session' = Finish(Retire([session EXCEPT !.lock = "call"], Retirement("host_request", "return")))
     ELSE \E N \in SUBSET Running(session, Native) :
            session' = AfterSubagentChange(
              [session EXCEPT !.sub = [n \in DOMAIN @ |-> IF n \in N THEN "stopped" ELSE @[n]], !.untold = @ \union N])

Update(c) ==
  /\ "update" \in Event
  /\ Callable
  /\ c # (IF session.deferred = None THEN session.config ELSE session.deferred)
  /\ session' = IF IsBusy(session) THEN [session EXCEPT !.deferred = c]
                ELSE Finish(ApplyChanges([session EXCEPT !.lock = "call"], c, "return"))

\* The delegated children are stopped first, then the process is retired.
CloseSession ==
  /\ "close" \in Event
  /\ Callable
  /\ LET cut == Running(session, Delegated)
         stopped == [session EXCEPT !.sub = [n \in DOMAIN @ |-> IF n \in cut THEN "stopped" ELSE @[n]],
                                    !.untold = @ \union cut, !.results = @ \union cut, !.lock = "call"]
     IN  session' = Finish(Retire(IF cut = {} THEN stopped ELSE AfterSubagentChange(stopped),
                                  Retirement("host_request", "close")))

\* The cap chooses a victim at once and queues its retirement on the session's
\* lock, behind the calls that are queued already.
ChooseVictim ==
  /\ "evict" \in Event
  /\ session.status = "open" /\ session.proc # "none" /\ ~IsBusy(session) /\ ~session.evict
  /\ session' = [session EXCEPT !.evict = TRUE]

Evict ==
  /\ session.evict /\ session.lock = None /\ session.status = "open"
  /\ session' = Finish(Retire([session EXCEPT !.evict = FALSE, !.lock = "call"], Retirement("evicted", "return")))

Shutdown ==
  /\ "shutdown" \in Event
  /\ ~session.down /\ session.status = "open"
  /\ session' = Finish(Retire([session EXCEPT !.down = TRUE], Retirement("shutdown", "none")))

DelegatedStarted(n) ==
  /\ Callable
  /\ n \in Has /\ session.sub[n] = "none"
  /\ session' = Finish(AfterSubagentChange([session EXCEPT !.sub[n] = "running"]))

\* A finished child's result waits for the agent unless a host collected it.
DelegatedFinished(n, state, collected) ==
  /\ session.status = "open"
  /\ session.sub[n] = "running"
  /\ session' = Finish(AfterSubagentChange(
       [session EXCEPT !.sub[n] = state, !.untold = IF state = "stopped" THEN @ \union {n} ELSE @,
                       !.results = IF collected THEN @ ELSE @ \union {n}]))

CollectDelegated(n) ==
  /\ n \in session.results /\ ~session.down
  /\ session' = [session EXCEPT !.results = @ \ {n}]

-----------------------------------------------------------------------------
\* Driver events: accepted from the live process, also while it closes.

Hears == session.status = "open" /\ session.proc \in {"up", "closing"}

Heard == MarkActivity(session)

Opened ==
  /\ session.proc = "opening"
  /\ LET up == [session EXCEPT !.proc = "up", !.waiting = <<>>]
     IN  session' = Finish(Drain(up, "go", session.waiting))

\* The process that was to open exits, which ends what runs, or never answers as it should.
OpenFails ==
  /\ "openFails" \in Event
  /\ session.proc = "opening"
  /\ \E exits \in BOOLEAN :
       LET none == [session EXCEPT !.proc = "none", !.waiting = <<>>]
           gone == IF exits /\ none.status = "open"
                   THEN EndRunningWork(CancelAll(none), Retirement("crashed", "none")) ELSE none
       IN  session' = Finish(Drain(gone, "drop", session.waiting))

CloseDone ==
  /\ session.closing # <<>>
  /\ session' = Finish(Closed(session))

\* Codex answers turn/start or turn/steer; it answers for a turn before that turn ends.
RequestAnswered(i) ==
  /\ Hears
  /\ i \in session.request
  /\ i \in ToSet(session.given) \/ TurnOpen(session)
  /\ session' = Unlock([StartInput(Heard, {i}) EXCEPT !.request = @ \ {i}], {i})

RequestFails(i) ==
  /\ "writeFails" \in Event
  /\ i \in session.request /\ i \notin session.turn.inputs
  /\ session' = FailWrite([session EXCEPT !.request = @ \ {i}], {i})

\* The provider starts the inputs it was given; Claude may take several, and
\* goes on by itself after a sub-agent ended.
TurnStarts ==
  /\ Hears /\ Driver # "executor"
  /\ ~TurnOpen(session) /\ session.turns < MaxTurns
  /\ \E k \in (IF NativeQueue THEN 1 .. Len(session.given) ELSE {Len(session.given)} \ {0}) :
       LET I == ToSet(SubSeq(session.given, 1, k))
           seen == IF NativeQueue THEN StartInput(Heard, I) ELSE Heard
       IN  session' = StartTurn([seen EXCEPT !.given = SubSeq(@, k + 1, Len(@))], I)

Continues ==
  /\ Hears /\ NativeQueue
  /\ ~TurnOpen(session) /\ session.turns < MaxTurns
  /\ \E n \in Native : session.sub[n] \in {"idle", "failed"}
  /\ session' = StartTurn(Heard, {})

InputSteered(i) ==
  /\ Hears /\ NativeQueue /\ TurnOpen(session)
  /\ i \in ToSet(session.given) /\ session.delivery[i] = "steer"
  /\ session' = [StartInput(Heard, {i}) EXCEPT !.given = Only(@, Input \ {i})]

InputRejected(i) ==
  /\ Hears /\ NativeQueue
  /\ i \in ToSet(session.given)
  /\ LET y == ForgetPendingInterrupt([Heard EXCEPT !.given = Only(@, Input \ {i})], {i})
     IN  session' = IF Waiting(y, i) THEN SetInputs(y, {i}, "rejected") ELSE y

TurnCompletes ==
  /\ Hears
  /\ TurnOpen(session)
  /\ session.request \intersect session.turn.inputs = {}
  /\ session' = Finish(CompleteTurn(Heard))

SubagentStarts(n) ==
  /\ Hears
  /\ n \in Has
  /\ session.sub[n] = "idle" \/ (session.sub[n] = "none" /\ TurnOpen(session))
  /\ session' = Finish(AfterSubagentChange([Heard EXCEPT !.sub[n] = "running", !.news = @ \ {n}]))

SubagentEnds(n, state) ==
  /\ Hears
  /\ session.sub[n] = "running"
  /\ session' = Finish(AfterSubagentChange(
       [Heard EXCEPT !.sub[n] = state, !.news = IF TurnOpen(session) THEN @ ELSE @ \union {n},
                     !.untold = IF state = "stopped" THEN @ \union {n} ELSE @]))

RosterReported(N) ==
  /\ Hears /\ Driver # "executor"
  /\ N # session.roster
  /\ \A n \in N : session.sub[n] # "none"
  /\ session' = Finish(AfterSubagentChange([Heard EXCEPT !.roster = N]))

\* An exit the session did not ask for.
ProcessExits ==
  /\ "crash" \in Event
  /\ Hears /\ session.closing = <<>> /\ Driver # "executor"
  /\ LET gone == EndRunningWork([CancelAll(session) EXCEPT !.proc = "none", !.given = <<>>, !.request = {}],
                                Retirement("crashed", "none"))
     IN  session' = FailWrite(gone, session.request)

-----------------------------------------------------------------------------
\* Timers.

\* Events of a closing process arm timers again, so retirements may overlap.
Overlaps == Len(session.closing) < MaxClosing /\ Len(session.waiting) < Cardinality(Input) + MaxClosing

Expire(t) == t \in session.timers /\ Overlaps

IdleFires ==
  /\ Expire("idle")
  /\ session' = Finish(Retire(session, Retirement("idle", "none")))

StallFires ==
  /\ Expire("stall")
  /\ session' = Finish(Retire(session, Retirement("stalled", "none")))

BackgroundMaxFires ==
  /\ Expire("backgroundMax")
  /\ session' = Finish(Retire(session, Retirement("limit", "none")))

TurnInactivityFires ==
  /\ Expire("turnInactivity")
  /\ session' = Finish(Retire(session, Retirement("stalled", "none")))

SettleFires ==
  /\ Expire("settle")
  /\ session' = Finish(OnSettled(Cancel(session, {"settle"})))

GraceFires ==
  /\ session.grace # NoGrace /\ Overlaps
  /\ LET y == [session EXCEPT !.grace = NoGrace]
     IN  session' = CASE session.turn.id # session.grace.turn -> y
                      [] session.turn.id = session.grace.turn /\ session.grace.then = "carry" -> Finish(RetireForInterrupt(y))
                      [] OTHER -> Finish(Retire(y, Retirement("user_stop", "none")))

-----------------------------------------------------------------------------
\* The host process is lost and a new one recovers the session from the journal.
HostRestarts ==
  /\ "restart" \in Event
  /\ session.restarts < MaxRestarts
  /\ session.status = "open"
  /\ LET orphans == Running(session, Delegated)
         kept == [NewSession(session.setup) EXCEPT
                    !.phase = session.phase, !.settled = session.settled, !.turn = session.turn, !.turns = session.turns,
                    !.input = session.input, !.why = session.why, !.delivery = session.delivery,
                    !.sub = [n \in Native \union Delegated |-> IF n \in orphans THEN "stopped" ELSE session.sub[n]],
                    !.untold = session.untold \union orphans, !.config = session.config,
                    !.sent = session.sent, !.tells = session.tells, !.restarts = session.restarts + 1]
     IN  session' = EndRunningWork(kept, Retirement("restart", "none"))

Call ==
  \/ \E i \in User, d \in Delivery : SendInput(i, d)
  \/ InterruptTurn
  \/ StopSubagents
  \/ \E c \in Config : Update(c)
  \/ CloseSession
  \/ ChooseVictim
  \/ Evict
  \/ Shutdown
  \/ \E n \in Delegated : DelegatedStarted(n)
  \/ \E n \in Delegated, state \in {"idle", "failed", "stopped"}, collected \in BOOLEAN : DelegatedFinished(n, state, collected)
  \/ \E n \in Delegated : CollectDelegated(n)

DriverEvent ==
  \/ Opened
  \/ OpenFails
  \/ CloseDone
  \/ \E i \in Input : RequestAnswered(i)
  \/ \E i \in Input : RequestFails(i)
  \/ TurnStarts
  \/ Continues
  \/ \E i \in Input : InputSteered(i)
  \/ \E i \in Input : InputRejected(i)
  \/ TurnCompletes
  \/ \E n \in Native : SubagentStarts(n)
  \/ \E n \in Native, state \in {"idle", "failed", "stopped"} : SubagentEnds(n, state)
  \/ \E N \in SUBSET Native : RosterReported(N)
  \/ ProcessExits

TimerFires ==
  \/ IdleFires
  \/ StallFires
  \/ BackgroundMaxFires
  \/ TurnInactivityFires
  \/ SettleFires
  \/ GraceFires

Next == Call \/ DriverEvent \/ TimerFires \/ HostRestarts

Spec == Init /\ [][Next]_vars

-----------------------------------------------------------------------------
\* A turn ends or goes silent until its limit fires: weak fairness of the two,
\* with the condition that enables them written out, which TLC evaluates faster.
TurnMayEnd == Hears /\ TurnOpen(session) /\ session.request \intersect session.turn.inputs = {}

FairSpec == Spec /\ (<>[]TurnMayEnd => []<><<TurnCompletes \/ TurnInactivityFires>>_vars)

-----------------------------------------------------------------------------
\* What the session keeps.

\* The session has the shape the class keeps: closing marks exactly the time a
\* retirement waits for the driver, and only an opening process makes writes wait.
SessionTypeOK ==
  /\ session.status \in {"open", "closed"}
  /\ session.phase \in {"idle", "turn", "background"}
  /\ session.proc \in {"none", "opening", "up", "closing"}
  /\ session.turn.inputs \subseteq Input /\ session.turn.id \in 0 .. session.turns
  /\ session.input \in [Input -> {"none", "accepted", "started", "completed", "rejected", "interrupted"}]
  /\ session.sub \in [Native \union Delegated -> {"none", "running", "idle", "failed", "stopped"}]
  /\ session.timers \subseteq Timer
  /\ session.outbox = <<>>
  /\ session.closing # <<>> <=> session.proc = "closing"
  /\ session.waiting # <<>> => session.proc = "opening"

\* An open turn has a process and, until that process is asked to close, an
\* armed inactivity limit (armTurnInactivity): no turn waits for ever.
TurnWatched ==
  /\ TurnOpen(session) <=> session.phase = "turn"
  /\ TurnOpen(session) => session.proc \in {"up", "closing"}
  /\ TurnOpen(session) /\ session.proc = "up" => "turnInactivity" \in session.timers

\* subagents.settled is true only while no sub-agent runs, in the tree or by the
\* provider's roster, whatever the order of phases and rosters (afterSubagentChange).
SettledIsQuiet ==
  session.settled =>
    \A n \in Native \union Delegated :
      /\ session.sub[n] # "running"
      /\ session.roster # None /\ n \in session.roster => session.sub[n] = "idle"

Carried(x) == UNION {ToSet(r.carry) : r \in {w \in ToSet(x.closing \o x.waiting) : w.kind = "retire"}}

\* An accepted input is always somewhere: held, with the provider, being
\* written, or carried over a retirement. None is forgotten as accepted.
NothingStranded ==
  \A i \in Input : Waiting(session, i) =>
    \/ i \in ToSet(session.held) \union ToSet(session.front) \union ToSet(session.given)
    \/ i \in InFlight(session) \union Carried(session) \union session.turn.inputs

\* A call that holds the session's lock is waiting for something that ends: its
\* write, the opening or the closing of the process. No call waits for ever.
CallsReturn ==
  session.lock # None => session.lock \in InFlight(session) \/ session.closing # <<>> \/ session.waiting # <<>>

-----------------------------------------------------------------------------
\* What a step may never do.

SentNow(i) == session'.sent[i] > session.sent[i]

\* An input the provider has run is never sent to it again, also not by the
\* retirement that carries it over to a fresh process.
NeverResent ==
  [][\A i \in Input : SentNow(i) => session.input[i] \notin {"started", "completed"}]_vars

\* A delegated result leaves the session with an input the provider was sent, or
\* because a host collected it (maybeDeliverDelegatedResults, collectDelegated).
ResultsHandedOver ==
  [][\A d \in session.results \ session'.results :
       \/ \E i \in Input : d \in session'.tells[i] /\ session'.sent[i] > 0
       \/ session' = [session EXCEPT !.results = @ \ {d}]]_vars

\* Every accepted input ends, whoever interrupts, closes or shuts down.
AcceptedEnds ==
  \A i \in User : session.input[i] = "accepted" ~> session.input[i] \in {"completed", "rejected", "interrupted"}

==============================================================================
