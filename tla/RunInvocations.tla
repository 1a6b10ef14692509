---------------------------- MODULE RunInvocations ----------------------------
(***************************************************************************)
(* The parallel branches of one run between their admission and their      *)
(* terminal commit: the permits they wait for (engine/concurrency.ts,      *)
(* engine/execution.ts), and the provider calls the AI branches make       *)
(* against the shared budget (engine/invocation-context.ts and the         *)
(* invocation half of engine/checkpoint/ledger.ts), across takeovers of    *)
(* the run by a later execution.                                           *)
(*                                                                         *)
(* Tokens stand for both budget dimensions: cost has the same rules with   *)
(* one reported number instead of two. The duration budget is left out.    *)
(***************************************************************************)
EXTENDS Integers, FiniteSets, Sequences, SequencesExt

CONSTANTS
  Branch, Writer,    \* the branches; those whose effect is a write
  AI,                \* those that make provider calls
  Gate,              \* the gates of one executor
  GatesOf,           \* branch -> the gates it acquires, in order
  EffectGate,        \* the RepositoryEffectGate
  Capacity,          \* gate -> its permits
  Concurrency,       \* policies.concurrency: the branches that share the headroom
  MaxTokens,         \* budget.max_tokens
  MaxAttempt,        \* physical attempts of a branch
  Call,              \* invocation ids
  Use,               \* bound: the input or output tokens one call may spend
  MaxEpoch,          \* bound: executions that take the run
  None

ASSUME RunInvocationsAssumption ==
  /\ Writer \subseteq Branch /\ AI \subseteq Branch
  /\ EffectGate \in Gate /\ IsFiniteSet(Gate)
  /\ Capacity \in [Gate -> Nat \ {0}]
  /\ GatesOf \in [Branch -> Seq(Gate)]
  /\ Concurrency \in Nat \ {0} /\ MaxTokens \in Nat /\ MaxAttempt \in Nat \ {0} /\ MaxEpoch \in Nat \ {0}
  /\ Use \subseteq Nat
  /\ IsFiniteSet(Call)
  /\ None \notin Nat /\ None \notin Branch /\ None \notin Call

\* Every branch asks for the effect gate, and all ask for their gates in one order: that gate, the
\* limits of the maps around it from the outermost, the agents of the executor (execution.ts:44-52,
\* compiler.ts:141).
ASSUME GateOrderAssumption ==
  /\ \A b \in Branch : EffectGate \in ToSet(GatesOf[b])
  /\ \E rank \in [Gate -> 1..Cardinality(Gate)] :
       \A b \in Branch : \A i, j \in DOMAIN GatesOf[b] : i < j => rank[GatesOf[b][i]] < rank[GatesOf[b][j]]

VARIABLES
  \* the run database
  epoch,      \* lease epoch of the current owner
  cancelled,  \* an unconsumed cancel control
  row,        \* call -> its invocation and reservation rows
  known,      \* budget.known_tokens
  live,       \* SUM(max_tokens) of the reservations
  \* memory of the current executor
  opened,     \* it has settled what earlier executors abandoned
  aborted,    \* its AbortSignal
  gate,       \* gate -> free permits, waiters, holders
  place,      \* branch -> where it stands
  made,       \* branch -> attempts admitted so far
  offered,    \* branch -> the headroom its step context was last offered
  calling,    \* branch -> its call in flight
  \* history
  spent,      \* call -> input and output tokens the provider really used
  over        \* tokens settled calls used beyond what they had reserved

db == <<epoch, cancelled, row, known, live>>
executor == <<opened, aborted, gate, place, made, offered, calling>>
history == <<spent, over>>
vars == <<db, executor, history>>

NoRow == [status |-> "none", branch |-> None, epoch |-> 0, granted |-> 0, reserved |-> None]
FreshGate == [g \in Gate |-> [free |-> Capacity[g], queue |-> <<>>, holders |-> {}]]
Places == {"idle", "admitted", "operating", "offering", "calling", "returned", "failing", "done", "stopped"}

Fresh == {c \in Call : row[c] = NoRow}
Reserved == {c \in Call : row[c].reserved # None}
Sum(S, Op(_)) == FoldSet(LAMBDA c, n : n + Op(c), 0, S)

\* The database and the memory of the executor are well formed; the running
\* total of the reservations is their sum.
InvocationsTypeOK ==
  /\ epoch \in 1..MaxEpoch /\ cancelled \in BOOLEAN
  /\ row \in [Call -> [status : {"none", "running", "settled", "interrupted"}, branch : Branch \union {None},
                       epoch : 0..MaxEpoch, granted : Nat, reserved : Nat \union {None}]]
  /\ known \in Nat /\ over \in Nat
  /\ live = Sum(Reserved, LAMBDA c : row[c].reserved)
  /\ opened \in BOOLEAN /\ aborted \in BOOLEAN
  /\ \A g \in Gate : gate[g].free \in 0..Capacity[g] /\ gate[g].holders \subseteq Branch
  /\ place \in [Branch -> Places]
  /\ made \in [Branch -> 0..MaxAttempt]
  /\ offered \in [Branch -> Nat \union {None}]
  /\ calling \in [Branch -> Call \union {None}]
  /\ spent \in [Call -> [in : Nat, out : Nat]]

Init ==
  /\ epoch = 1 /\ cancelled = FALSE
  /\ row = [c \in Call |-> NoRow]
  /\ known = 0 /\ live = 0
  /\ opened = FALSE /\ aborted = FALSE
  /\ gate = FreshGate
  /\ place = [b \in Branch |-> "idle"]
  /\ made = [b \in Branch |-> 0]
  /\ offered = [b \in Branch |-> None]
  /\ calling = [b \in Branch |-> None]
  /\ spent = [c \in Call |-> [in |-> 0, out |-> 0]]
  /\ over = 0

-----------------------------------------------------------------------------
(* ConcurrencyGate: FIFO weighted permits. *)

\* A write owns the complete repository effect window.
Heavy(g) == IF g = EffectGate THEN Writer ELSE {}
Weight(b, g) == IF b \in Heavy(g) THEN Capacity[g] ELSE 1

\* The weights of a sequence of waiters together.
Cost(g, s) == Len(s) + (Capacity[g] - 1) * Cardinality({i \in DOMAIN s : s[i] \in Heavy(g)})

\* Waiters are granted from the head as long as the next one fits.
Drain(g, p) ==
  LET n == CHOOSE n \in 0..Len(p.queue) :
             /\ Cost(g, SubSeq(p.queue, 1, n)) <= p.free
             /\ n < Len(p.queue) => Cost(g, SubSeq(p.queue, 1, n + 1)) > p.free
      first == SubSeq(p.queue, 1, n)
  IN [free |-> p.free - Cost(g, first), queue |-> SubSeq(p.queue, n + 1, Len(p.queue)),
      holders |-> p.holders \union ToSet(first)]

Join(g, p, b) == Drain(g, [p EXCEPT !.queue = Append(@, b)])

\* The abort listeners of all waiters in turn, in the order of the queue: who is withdrawn lets
\* those behind pass that fit now, and who was granted has no listener any more. The first
\* waiter did not fit. Behind a write the permits that are left go to the first readers; no
\* write fits, now or then, because not all permits are free.
WithdrawAll(g, p) ==
  LET light(n) == {i \in 1..n : p.queue[i] \notin Heavy(g)}
      pass == {i \in light(Len(p.queue)) : Cardinality(light(i)) <= p.free}
  IN [free |-> p.free - Cardinality(pass), queue |-> <<>>,
      holders |-> p.holders \union {p.queue[i] : i \in pass}]

\* mutant: a release does not wake the waiters
ReturnSilently(g, p, b) ==
  IF b \in p.holders
  THEN [p EXCEPT !.free = @ + Weight(b, g), !.holders = @ \ {b}]
  ELSE p

\* The release of a grant; it works once.
Return(g, p, b) ==
  IF b \in p.holders
  THEN Drain(g, [p EXCEPT !.free = @ + Weight(b, g), !.holders = @ \ {b}])
  ELSE p

Queued(b) == \E g \in Gate : b \in ToSet(gate[g].queue)
Holds(b, g) == b \in gate[g].holders
HoldsAll(b) == \A g \in ToSet(GatesOf[b]) : Holds(b, g)
NextGate(b) == GatesOf[b][CHOOSE i \in 1..Len(GatesOf[b]) :
                 ~Holds(b, GatesOf[b][i]) /\ \A j \in 1..(i-1) : Holds(b, GatesOf[b][j])]

Go(b, to) == place' = [place EXCEPT ![b] = to]
Free(b) == gate' = [g \in Gate |-> Return(g, gate[g], b)]

-----------------------------------------------------------------------------
(* Admission. *)

\* RunLedger.checkAdmission, the parts that concern calls and branches.
Admissible == ~cancelled /\ known < MaxTokens

\* RunLedger.enter: a new physical attempt.
Enter(b) ==
  /\ opened /\ ~aborted /\ Admissible
  /\ place[b] = "idle" /\ made[b] < MaxAttempt
  /\ made' = [made EXCEPT ![b] = @ + 1]
  /\ Go(b, "admitted")
  /\ UNCHANGED <<epoch, cancelled, row, known, live, opened, aborted, gate, offered, calling, history>>

\* An admission that checkAdmission refuses ends the branch.
RefuseEntry(b) ==
  /\ opened /\ place[b] = "idle" /\ ~(Admissible /\ ~aborted /\ made[b] < MaxAttempt)
  /\ Go(b, "stopped")
  /\ UNCHANGED <<db, opened, aborted, gate, made, offered, calling, history>>

\* DefinitionExecution.execute asks for the next gate; acquire drains.
Acquire(b) ==
  /\ place[b] = "admitted" /\ ~Queued(b) /\ ~HoldsAll(b) /\ ~aborted
  /\ gate' = [gate EXCEPT ![NextGate(b)] = Join(NextGate(b), @, b)]
  /\ UNCHANGED <<db, opened, aborted, place, made, offered, calling, history>>

Begin(b) ==
  /\ place[b] = "admitted" /\ ~Queued(b) /\ HoldsAll(b) /\ ~aborted
  /\ Go(b, "operating")
  /\ UNCHANGED <<db, opened, aborted, gate, made, offered, calling, history>>

\* A rejected acquire, or an abort seen after the last grant: what is held is released.
GiveUp(b) ==
  /\ place[b] = "admitted" /\ ~Queued(b) /\ aborted
  /\ Free(b)
  /\ Go(b, "stopped")
  /\ UNCHANGED <<db, opened, aborted, made, offered, calling, history>>

-----------------------------------------------------------------------------
(* Provider calls. *)

Max2(x, y) == IF x > y THEN x ELSE y

\* A share of what is neither spent nor reserved. Reservations kept for
\* unreported usage count as live ones.
Headroom == Max2(0, MaxTokens - known - live) \div Max2(1, Concurrency - Cardinality(Reserved))

\* step.remainingBudget: the role invoker and the prompt piece stop on zero or an abort.
Offer(b) ==
  /\ place[b] = "operating" /\ b \in AI
  /\ Cardinality(Fresh) > Cardinality({a \in Branch : place[a] = "offering"})  \* bound
  /\ offered' = [offered EXCEPT ![b] = Headroom]
  /\ Go(b, IF Headroom = 0 \/ aborted THEN "failing" ELSE "offering")
  /\ UNCHANGED <<db, opened, aborted, gate, made, calling, history>>

\* mutant: the reservation is compared with the spent tokens only
FitsUnreserved(b) == known + offered[b] <= MaxTokens

Fits(b) == known + live + offered[b] <= MaxTokens

\* reportInvocationStarted and RunLedger.startInvocation, some awaits later.
Start(b) ==
  /\ place[b] = "offering"
  /\ \/ /\ Admissible /\ Fits(b)
        /\ \E c \in Call :
             /\ row[c] = NoRow
             /\ row' = [row EXCEPT ![c] = [status |-> "running", branch |-> b, epoch |-> epoch,
                                           granted |-> offered[b], reserved |-> offered[b]]]
             /\ calling' = [calling EXCEPT ![b] = c]
        /\ live' = live + offered[b]
        /\ offered' = [offered EXCEPT ![b] = None]
        /\ Go(b, "calling")
     \/ /\ ~(Admissible /\ Fits(b))
        /\ Go(b, "failing")
        /\ UNCHANGED <<row, live, calling, offered>>
  /\ UNCHANGED <<epoch, cancelled, known, opened, aborted, gate, made, history>>

\* The provider ends, successfully or not, having used some tokens: it is asked to stay
\* within the reservation and may not.
Answer(c) ==
  /\ row[c].status = "running" /\ spent[c] = [in |-> 0, out |-> 0]
  /\ \E i, o \in Use : i + o > 0 /\ spent' = [spent EXCEPT ![c] = [in |-> i, out |-> o]]
  /\ place' = [b \in Branch |-> IF calling[b] = c THEN "returned" ELSE place[b]]
  /\ UNCHANGED <<db, opened, aborted, gate, made, offered, calling, over>>

\* What a settlement leaves reserved: only the unreported part.
Kept(c, in, out) ==
  IF in = None \/ out = None
  THEN Max2(0, row[c].reserved - (IF in = None THEN 0 ELSE in) - (IF out = None THEN 0 ELSE out))
  ELSE None

Number(n) == IF n = None THEN 0 ELSE n

\* RunLedger.commitInvocation.
Commit(c, status, in, out) ==
  /\ row' = [row EXCEPT ![c].status = status, ![c].reserved = Kept(c, in, out)]
  /\ known' = known + Number(in) + Number(out)
  /\ live' = live - row[c].reserved + Number(Kept(c, in, out))
  /\ over' = over + Max2(0, Number(in) + Number(out) - row[c].granted)

\* RunLedger.settleInvocation: the frame is still the current one. Either number may be unknown.
Settle(b) ==
  /\ place[b] = "returned"
  /\ LET c == calling[b] IN
     \E in \in {spent[c].in, None}, out \in {spent[c].out, None} : Commit(c, "settled", in, out)
  /\ calling' = [calling EXCEPT ![b] = None]
  /\ Go(b, "operating")
  /\ UNCHANGED <<epoch, cancelled, opened, aborted, gate, made, offered, spent>>

-----------------------------------------------------------------------------
(* The end of a branch: the effect window lasts until its terminal commit. *)

Finish(b) ==
  /\ place[b] = "operating"
  /\ Free(b)
  /\ Go(b, "done")
  /\ UNCHANGED <<db, opened, aborted, made, offered, calling, history>>

\* A failure that may be retried releases and waits for its next admission.
Fail(b) ==
  /\ place[b] \in {"operating", "failing"}
  /\ Free(b)
  /\ Go(b, IF aborted \/ b \in Writer \/ made[b] = MaxAttempt THEN "stopped" ELSE "idle")
  /\ offered' = [offered EXCEPT ![b] = None]
  /\ UNCHANGED <<db, opened, aborted, made, calling, history>>

-----------------------------------------------------------------------------
(* The operator and the executions. *)

\* ControlInbox.cancel.
Cancel ==
  /\ ~cancelled
  /\ cancelled' = TRUE
  /\ UNCHANGED <<epoch, row, known, live, executor, history>>

\* The control timer aborts the signal; the listeners of all waiters run in turn.
Abort ==
  /\ cancelled /\ opened /\ ~aborted
  /\ aborted' = TRUE
  /\ gate' = [g \in Gate |-> WithdrawAll(g, gate[g])]
  /\ UNCHANGED <<db, opened, place, made, offered, calling, history>>

\* Another execution takes the run; the former one is dead, or its frames are refused.
\* A write it left is not admitted again without an explicit recovery (RunLedger).
Takeover ==
  /\ epoch < MaxEpoch
  /\ epoch' = epoch + 1
  /\ opened' = FALSE /\ aborted' = FALSE
  /\ gate' = FreshGate
  /\ place' = [b \in Branch |-> CASE place[b] = "done" -> "done"
                                  [] place[b] # "done" /\ b \in Writer /\ made[b] > 0 -> "stopped"
                                  [] OTHER -> "idle"]
  /\ offered' = [b \in Branch |-> None]
  /\ calling' = [b \in Branch |-> None]
  /\ UNCHANGED <<cancelled, row, known, live, made, history>>

Abandoned == {c \in Call : row[c].status = "running" /\ row[c].epoch < epoch}

\* RunLedger.settleAbandonedInvocations: a lost response does not prove zero spend, so
\* with all usage unknown what is Kept is the whole reservation.
Open ==
  /\ ~opened
  /\ opened' = TRUE
  /\ row' = [c \in Call |-> IF c \in Abandoned THEN [row[c] EXCEPT !.status = "interrupted"] ELSE row[c]]
  /\ UNCHANGED <<epoch, cancelled, known, live, aborted, gate, place, made, offered, calling, history>>

\* A call of a former execution ends at the provider; nobody can settle it any more.
LateAnswer(c) ==
  /\ row[c].status = "interrupted" /\ spent[c] = [in |-> 0, out |-> 0]
  /\ \E i, o \in Use : i + o > 0 /\ spent' = [spent EXCEPT ![c] = [in |-> i, out |-> o]]
  /\ UNCHANGED <<db, executor, over>>

BranchStep(b) ==
  \/ Enter(b) \/ RefuseEntry(b) \/ Acquire(b) \/ Begin(b) \/ GiveUp(b)
  \/ Offer(b) \/ Start(b) \/ Settle(b) \/ Finish(b) \/ Fail(b)

\* Node runs what is ready, the control timer polls, and a provider call ends: its
\* executor has a timeout.
Progress ==
  \/ \E b \in Branch : BranchStep(b)
  \/ \E c \in Call : Answer(c)
  \/ Abort \/ Open

Next ==
  \/ Progress
  \/ \E c \in Call : LateAnswer(c)
  \/ Cancel \/ Takeover

Spec == Init /\ [][Next]_vars

-----------------------------------------------------------------------------
(* Properties. *)

\* Concurrent branches may be offered the same headroom, yet what is known to be spent
\* and what is reserved never exceed the budget by more than what settled calls used
\* beyond their own reservation.
CommittedWithinBudget == known + live <= MaxTokens + over

Windows(b) == place[b] \in {"operating", "offering", "calling", "returned", "failing"}
Settled(b) == place[b] \in {"idle", "done", "stopped"}

\* Neither ended nor waiting for a permit, and what it called is still to answer.
GoesOn(b) ==
  /\ ~Settled(b) /\ ~Queued(b)
  /\ place[b] = "calling" =>
       row[calling[b]].status = "running" /\ spent[calling[b]] = [in |-> 0, out |-> 0]

\* A writer holds the effect window alone, from its first effect to the commit of its
\* terminal, so that no branch reads a half-written tree or certifies it. And as long as a
\* branch has neither finished nor stopped, one of them can go on: no permit is leaked, no
\* waiter is forgotten behind an aborted one and no two branches wait for each other, so
\* each branch settles, since every behaviour is finite (concurrency.ts, execution.ts).
GatesSound ==
  /\ \A b \in Writer, a \in Branch : Windows(a) /\ Windows(b) => a = b
  /\ (\E b \in Branch : ~Settled(b)) => \E b \in Branch : GoesOn(b)

=============================================================================
