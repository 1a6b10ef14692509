-------------------------- MODULE WorkflowRun_proofs --------------------------
(***************************************************************************)
(* The legacy engine resumes safely, for any workflow, any sequence of     *)
(* calls and any crashes. The argument is the ledger: it names the write   *)
(* that was cut, and every way into the graph looks at it first.           *)
(***************************************************************************)
EXTENDS WorkflowRun, WellFoundedInduction, TLAPS

Opts == [recover : BOOLEAN, answer : BOOLEAN, invalid : SUBSET Node]
Point == [next : Node \union {End}, values : Values]
Ledger == [status : Statuses, next : Node \union {End}, attempt : 1..MaxAttempts,
           transitions : 0..MaxTransitions, pending : {None} \union [node : Asking, granted : BOOLEAN],
           step : [Node -> Record]]

\* What the constants have to be: a workflow whose edges and order are about its own nodes.
WorkflowAssumption ==
  /\ Entry \in Node /\ End \notin Node /\ None \notin Node \union {End}
  /\ Asking \subseteq Node
  /\ Ends \in [Node -> SUBSET Node]
  /\ Order \in Seq(Node) /\ \A n \in Node : \E i \in DOMAIN Order : Order[i] = n
  /\ Invalidable \subseteq SUBSET Node
  /\ MaxAttempts \in Nat \ {0} /\ MaxTransitions \in Nat /\ MaxVisits \in Nat
  /\ None \notin Ledger /\ None \notin [node : Asking, granted : BOOLEAN]

\* The ledger, the checkpoints and the call keep their types.
WorkflowShape ==
  /\ ledger \in Ledger \union {None} /\ graph \in Seq(Point)
  /\ pc \in {"off", "resume", "checked", "resumed", "position", "enter", "run", "retry", "route", "finish"}
  /\ opts \in Opts /\ fork \in Node \union {None} /\ answered \in BOOLEAN
  /\ node \in Node \union {End, None} /\ seen \in Values /\ attempt \in 0..MaxAttempts
  /\ visits \in Values /\ cut \subseteq Node

\* Where a call stands says what the ledger holds.
CallSound ==
  /\ pc # "off" => ledger \in Ledger
  /\ pc \in {"off", "resume", "checked"} => fork = None /\ ~answered
  /\ pc \in {"resumed", "position"} /\ fork # None => fork = ledger.next
  /\ pc = "resumed" /\ answered => ledger.pending # None
  /\ pc \in {"enter", "run", "retry", "route"} => node \in Node
  /\ pc \in {"enter", "run"} => ledger.next = node
  /\ pc = "run" => ledger.step[node].status = "running"
  /\ pc \in {"run", "retry"} => attempt \in 1..MaxAttempts
  /\ pc = "route" => ledger.next = ledger.step[node].next

\* What was cut is the write the ledger names, and nobody has got past it.
CutWaits ==
  cut # {} =>
    /\ pc \in {"off", "resume"}
    /\ ledger \in Ledger /\ cut = {ledger.next} /\ ledger.next \in WriteNode \intersect Node /\ Doubtful

WorkflowInv == WorkflowShape /\ CallSound /\ CutWaits

-----------------------------------------------------------------------------
\* A nonempty set of numbers has a first one, and a last one below a bound.
LEMMA FirstOf ==
  ASSUME NEW S \in SUBSET Nat, S # {}
  PROVE  \E i \in S : \A j \in S : i <= j
<1>1. PICK i \in S : \A j \in S : <<j, i>> \notin OpToRel(<, Nat)
  BY NatLessThanWellFounded, WFMin
<1>2. \A j \in S : ~(j < i)
  <2> SUFFICES ASSUME NEW j \in S, j < i PROVE <<j, i>> \in OpToRel(<, Nat)
    BY <1>1
  <2>1. <<j, i>> \in Nat \X Nat /\ <<j, i>>[1] < <<j, i>>[2]
    OBVIOUS
  <2> QED BY <2>1 DEF OpToRel
<1> QED BY <1>2

LEMMA FirstAndLast ==
  ASSUME NEW n \in Nat, NEW S \in SUBSET (1..n), S # {}
  PROVE  (\E i \in S : \A j \in S : i <= j) /\ (\E i \in S : \A j \in S : j <= i)
<1> DEFINE T == {n - i : i \in S}
<1>1. \E i \in S : \A j \in S : i <= j
  <2>1. S \in SUBSET Nat
    OBVIOUS
  <2> QED BY <2>1, FirstOf
<1>2. PICK k \in S : TRUE
  OBVIOUS
<1>3. T \in SUBSET Nat /\ n - k \in T
  <2>1. \A i \in S : n - i \in Nat
    OBVIOUS
  <2> QED BY <2>1
<1>4. PICK t \in T : \A j \in T : t <= j
  <2> HIDE DEF T
  <2> QED BY <1>3, FirstOf
<1>5. PICK i \in S : t = n - i
  OBVIOUS
<1>6. \A j \in S : n - i <= n - j
  BY <1>4, <1>5
<1>7. \A j \in S : j <= i
  BY <1>6
<1> QED BY <1>1, <1>7

\* Every node stands somewhere in the order of declaration.
LEMMA PositionOf ==
  ASSUME WorkflowAssumption, NEW n \in Node
  PROVE  Position(n) \in 1..Len(Order) /\ Order[Position(n)] = n
<1>1. DOMAIN Order = 1..Len(Order)
  BY DEF WorkflowAssumption
<1> QED BY <1>1 DEF WorkflowAssumption, Position

\* What a call begins and ends with.
LEMMA RestTyped ==
  ASSUME WorkflowAssumption
  PROVE  NoOpts \in Opts /\ NoValues \in Values /\ 0 \in 0..MaxAttempts
<1>1. MaxAttempts \in Nat /\ MaxVisits \in Nat
  BY DEF WorkflowAssumption
<1>2. 0 \in 0..MaxVisits /\ 0 \in 0..MaxAttempts
  BY <1>1
<1> QED BY <1>2 DEF NoOpts, Opts, NoValues, Values

LEMMA WorkflowInit == WorkflowAssumption /\ Init => WorkflowInv
<1> SUFFICES ASSUME WorkflowAssumption, Init PROVE WorkflowInv
  OBVIOUS
<1>1. WorkflowShape
  <2>1. graph \in Seq(Point) /\ ledger \in Ledger \union {None} /\ pc = "off" /\ cut = {}
    BY DEF Init
  <2>2. opts \in Opts /\ fork = None /\ answered = FALSE /\ node = None /\ seen \in Values /\ attempt \in 0..MaxAttempts /\ visits \in Values
    BY RestTyped DEF Init
  <2> QED BY <2>1, <2>2 DEF WorkflowShape
<1>2. CallSound
  BY DEF Init, CallSound
<1>3. CutWaits
  BY DEF Init, CutWaits
<1> QED BY <1>1, <1>2, <1>3 DEF WorkflowInv

-----------------------------------------------------------------------------
(* One lemma per group of actions. *)

LEMMA ReturnSound ==
  ASSUME WorkflowAssumption, Return
  PROVE  /\ pc' = "off" /\ fork' = None /\ ~answered'
         /\ opts' \in Opts /\ fork' \in Node \union {None} /\ answered' \in BOOLEAN
         /\ node' \in Node \union {End, None} /\ seen' \in Values /\ attempt' \in 0..MaxAttempts
BY RestTyped DEF Return

\* A call that returns leaves a ledger; what it cut is the step that runs.
LEMMA LeavesSound ==
  ASSUME WorkflowAssumption, WorkflowInv, Return, ledger' \in Ledger, graph' = graph, visits' = visits,
         cut' # {} => /\ cut' = {ledger'.next} /\ ledger'.next \in WriteNode \intersect Node
                      /\ ledger'.step[ledger'.next].status \in {"running", "interrupted"}
  PROVE  WorkflowInv'
<1>1. WorkflowShape'
  BY ReturnSound DEF WorkflowInv, WorkflowShape
<1>2. CallSound'
  BY ReturnSound DEF CallSound
<1>3. CutWaits'
  BY ReturnSound DEF CutWaits, Doubtful, WorkflowAssumption
<1> QED BY <1>1, <1>2, <1>3 DEF WorkflowInv

\* What the actions write into a record of six fields, whatever the fields are.
LEMMA RecordWritten ==
  ASSUME NEW S, NEW N, NEW A, NEW T, NEW P, NEW F,
         NEW l \in [status : S, next : N, attempt : A, transitions : T, pending : P, step : F],
         NEW s \in S, NEW n \in N, NEW a \in A, NEW t \in T, NEW p \in P, NEW f \in F
  PROVE  LET R == [status : S, next : N, attempt : A, transitions : T, pending : P, step : F]
         IN /\ [l EXCEPT !.status = s] \in R
            /\ [l EXCEPT !.step = f] \in R
            /\ [l EXCEPT !.status = s, !.pending = p] \in R
            /\ [l EXCEPT !.next = n, !.attempt = a, !.transitions = t] \in R
            /\ [l EXCEPT !.step = f, !.pending = p, !.next = n, !.attempt = a] \in R
            /\ [l EXCEPT !.status = s, !.transitions = t, !.attempt = a, !.pending = p] \in R
            /\ [l EXCEPT !.status = s, !.next = n, !.attempt = a, !.pending = p, !.step = f] \in R
OBVIOUS

LEMMA LedgerWritten ==
  ASSUME NEW l \in Ledger, NEW s \in Statuses, NEW n \in Node \union {End}, NEW a \in 1..MaxAttempts,
         NEW t \in 0..MaxTransitions, NEW p \in {None} \union [node : Asking, granted : BOOLEAN],
         NEW f \in [Node -> Record]
  PROVE  /\ [l EXCEPT !.status = s] \in Ledger
         /\ [l EXCEPT !.step = f] \in Ledger
         /\ [l EXCEPT !.status = s, !.pending = p] \in Ledger
         /\ [l EXCEPT !.next = n, !.attempt = a, !.transitions = t] \in Ledger
         /\ [l EXCEPT !.step = f, !.pending = p, !.next = n, !.attempt = a] \in Ledger
         /\ [l EXCEPT !.status = s, !.transitions = t, !.attempt = a, !.pending = p] \in Ledger
         /\ [l EXCEPT !.status = s, !.next = n, !.attempt = a, !.pending = p, !.step = f] \in Ledger
BY RecordWritten DEF Ledger

LEMMA LedgerFields ==
  ASSUME NEW l \in Ledger
  PROVE  /\ l.status \in Statuses /\ l.next \in Node \union {End} /\ l.attempt \in 1..MaxAttempts
         /\ l.transitions \in 0..MaxTransitions /\ l.pending \in {None} \union [node : Asking, granted : BOOLEAN]
         /\ l.step \in [Node -> Record]
BY DEF Ledger

Marks == {"pending", "running", "interrupted", "paused", "succeeded", "failed", "blocked"}

\* A step whose status changes.
LEMMA StepTyped ==
  ASSUME NEW l \in Ledger, NEW n \in Node, NEW s \in Marks
  PROVE  /\ [l EXCEPT !.step[n].status = s] \in Ledger
         /\ [l EXCEPT !.step[n].status = s].next = l.next
         /\ [l EXCEPT !.step[n].status = s].attempt = l.attempt
         /\ [l EXCEPT !.step[n].status = s].transitions = l.transitions
         /\ [l EXCEPT !.step[n].status = s].pending = l.pending
         /\ [l EXCEPT !.step[n].status = s].step[n].status = s
<1> DEFINE steps == [l.step EXCEPT ![n].status = s]
           m == [l EXCEPT !.step[n].status = s]
<1>1. m = [l EXCEPT !.step = steps]
  OBVIOUS
<1>2. l.step \in [Node -> Record]
  BY LedgerFields
<1>3. steps \in [Node -> Record] /\ steps[n].status = s
  BY <1>2 DEF Record, Marks
<1>4. m.next = l.next /\ m.attempt = l.attempt /\ m.transitions = l.transitions /\ m.pending = l.pending /\ m.step = steps
  BY <1>1 DEF Ledger
<1> HIDE DEF steps
<1>5. m \in Ledger
  <2> SUFFICES [l EXCEPT !.step = steps] \in Ledger
    BY <1>1
  <2> QED BY <1>3, RecordWritten, LedgerFields DEF Ledger
<1> QED BY <1>3, <1>4, <1>5

LEMMA StatusTyped ==
  ASSUME NEW l \in Ledger, NEW s \in Statuses
  PROVE  /\ [l EXCEPT !.status = s] \in Ledger
         /\ [l EXCEPT !.status = s].next = l.next
         /\ [l EXCEPT !.status = s].pending = l.pending
         /\ [l EXCEPT !.status = s].step = l.step
<1> QED BY RecordWritten, LedgerFields DEF Ledger

LEMMA RunWorkflowSound ==
  ASSUME WorkflowAssumption, WorkflowInv, NEW o \in [recover : BOOLEAN, answer : BOOLEAN, invalid : Invalidable \union {{}}],
         RunWorkflow(o)
  PROVE  WorkflowInv'
<1> USE DEF WorkflowInv
<1>1. o \in Opts
  BY DEF WorkflowAssumption, Opts
<1>2. CASE ledger = None
  <2>1. cut = {} /\ pc' = "position"
    BY <1>2 DEF RunWorkflow, CutWaits, WorkflowAssumption, Goto
  <2>2. [n \in Node |-> [status |-> "pending", next |-> None, update |-> 0]] \in [Node -> Record]
    BY DEF WorkflowAssumption, Record
  <2>3. ledger' \in Ledger
    BY <1>2, <2>2 DEF RunWorkflow, WorkflowAssumption, Ledger, Statuses
  <2>4. fork = None /\ ~answered /\ pc = "off"
    BY DEF RunWorkflow, CallSound
  <2> QED
    BY <1>1, <2>1, <2>3, <2>4 DEF RunWorkflow, WorkflowShape, CallSound, CutWaits
<1>3. CASE ledger # None
  <2>1. pc = "off" /\ pc' = "resume" /\ ledger' = ledger /\ ledger \in Ledger
    BY <1>3 DEF RunWorkflow, Goto, WorkflowShape
  <2> QED
    BY <1>1, <2>1 DEF RunWorkflow, WorkflowShape, CallSound, CutWaits, Doubtful
<1> QED BY <1>2, <1>3

LEMMA CheckInterruptedSound ==
  ASSUME WorkflowAssumption, WorkflowInv, CheckInterrupted
  PROVE  WorkflowInv'
<1> DEFINE marked == IF Doubtful THEN [ledger EXCEPT !.step[ledger.next].status = "interrupted"] ELSE ledger
<1>1. ledger \in Ledger /\ pc = "resume" /\ opts.recover \in BOOLEAN
  BY DEF WorkflowInv, CallSound, WorkflowShape, CheckInterrupted, Opts
<1>2. /\ marked \in Ledger /\ marked.next = ledger.next
      /\ Doubtful => marked.next \in Node /\ marked.step[marked.next].status = "interrupted"
  <2>1. CASE Doubtful
    <3>1. ledger.next \in Node /\ "interrupted" \in Marks
      BY <1>1, <2>1, LedgerFields DEF Doubtful, Marks
    <3> QED BY <1>1, <2>1, <3>1, StepTyped
  <2>2. CASE ~Doubtful
    BY <1>1, <2>2
  <2> QED BY <2>1, <2>2
<1>3. CASE Doubtful /\ ledger.next \in WriteNode /\ ~opts.recover
  <2>1. ledger' = [marked EXCEPT !.status = "blocked"] /\ Return /\ cut' = cut
    BY <1>3 DEF CheckInterrupted
  <2>2. /\ ledger' \in Ledger /\ ledger'.next = ledger.next /\ ledger'.step = marked.step
    <3>1. "blocked" \in Statuses
      BY DEF Statuses
    <3> HIDE DEF marked
    <3> QED BY <1>2, <2>1, <3>1, StatusTyped
  <2>3. cut = {} \/ cut = {ledger.next}
    BY DEF WorkflowInv, CutWaits
  <2> QED
    BY <1>2, <1>3, <2>1, <2>2, <2>3, LeavesSound DEF CheckInterrupted
<1>4. CASE ~(Doubtful /\ ledger.next \in WriteNode /\ ~opts.recover)
  <2>1. ledger' = marked /\ pc' = "checked" /\ UNCHANGED <<call, graph, visits>>
    BY <1>4 DEF CheckInterrupted, Goto
  <2>2. cut' = {}
    BY <1>1, <1>4 DEF CheckInterrupted, WorkflowInv, CutWaits
  <2> HIDE DEF marked
  <2> QED
    BY <1>1, <1>2, <2>1, <2>2 DEF WorkflowInv, WorkflowShape, CallSound, CutWaits, call
<1> QED BY <1>3, <1>4

LEMMA InvalidateSound ==
  ASSUME WorkflowAssumption, WorkflowInv, Invalidate
  PROVE  WorkflowInv'
<1> DEFINE stale == {Position(n) : n \in opts.invalid}
           stalest == CHOOSE i \in stale : \A j \in stale : i <= j
           unfinished == {i \in 1..(stalest - 1) : ledger.step[Order[i]].status \in {"blocked", "failed"}}
           first == CHOOSE i \in unfinished \union {stalest} : \A j \in unfinished \union {stalest} : i <= j
           steps == [n \in Node |-> IF Position(n) >= first THEN Reset(ledger.step[n]) ELSE ledger.step[n]]
<1>1. ledger \in Ledger /\ pc = "checked" /\ cut = {} /\ ~answered /\ opts.invalid \subseteq Node /\ opts.invalid # {}
  BY DEF WorkflowInv, CallSound, CutWaits, WorkflowShape, Invalidate, Opts
<1>2. Len(Order) \in Nat
  BY DEF WorkflowAssumption
<1>3. stale \in SUBSET (1..Len(Order)) /\ stale # {}
  BY <1>1, PositionOf
<1>4. stalest \in 1..Len(Order)
  BY <1>2, <1>3, FirstAndLast
<1>5. unfinished \union {stalest} \in SUBSET (1..Len(Order)) /\ unfinished \union {stalest} # {}
  <2> HIDE DEF stalest
  <2> QED BY <1>2, <1>4
<1>6. first \in 1..Len(Order)
  <2> HIDE DEF unfinished, stalest
  <2> QED BY <1>2, <1>5, FirstAndLast
<1>7. Order[first] \in Node
  <2> HIDE DEF first
  <2> QED BY <1>6 DEF WorkflowAssumption
<1>8. /\ ledger' = [ledger EXCEPT !.status = "running", !.next = Order[first], !.attempt = 1, !.pending = None, !.step = steps]
      /\ fork' = Order[first] /\ pc' = "resumed"
      /\ UNCHANGED <<graph, opts, answered, node, seen, attempt, visits, cut>>
  <2>1. ledger.step = ledger.step
    OBVIOUS
  <2> QED BY <1>1 DEF Invalidate, Goto
<1> HIDE DEF first
<1>9. steps \in [Node -> Record]
  BY <1>1 DEF Ledger, Reset, Record, WorkflowAssumption
<1> HIDE DEF steps
<1>10. ledger' \in Ledger /\ ledger'.next = Order[first]
  <2>1. "running" \in Statuses /\ 1 \in 1..MaxAttempts /\ None \in {None} \union [node : Asking, granted : BOOLEAN]
    BY DEF Statuses, WorkflowAssumption
  <2>2. ledger.transitions \in 0..MaxTransitions
    BY <1>1, LedgerFields
  <2>3. ledger' \in Ledger
    BY <1>1, <1>7, <1>8, <1>9, <2>1, <2>2, LedgerWritten
  <2>4. ledger'.next = Order[first]
    BY <1>1, <1>8 DEF Ledger
  <2> QED BY <2>3, <2>4
<1> QED
  BY <1>1, <1>7, <1>8, <1>10 DEF WorkflowInv, WorkflowShape, CallSound, CutWaits

LEMMA AnswerSound ==
  ASSUME WorkflowAssumption, WorkflowInv, Answer
  PROVE  WorkflowInv'
<1>1. ledger \in Ledger /\ pc = "checked" /\ cut = {} /\ fork = None
  BY DEF WorkflowInv, CallSound, CutWaits, Answer
<1>2. CASE Return
  <2>1. ledger' \in Ledger
    BY <1>1, StatusTyped, "paused" \in Statuses DEF Answer, Finish, Statuses
  <2> QED BY <1>1, <1>2, <2>1, LeavesSound DEF Answer
<1>3. CASE ~Return
  <2>1. /\ answered' = (ledger.pending # None) /\ pc' = "resumed"
        /\ UNCHANGED <<ledger, graph, opts, fork, node, seen, attempt, visits, cut>>
    BY <1>3 DEF Answer, Goto
  <2>2. answered' \in BOOLEAN
    BY <2>1
  <2> QED BY <1>1, <2>1, <2>2 DEF WorkflowInv, WorkflowShape, CallSound, CutWaits
<1> QED BY <1>2, <1>3

LEMMA ResumedSound ==
  ASSUME WorkflowAssumption, WorkflowInv, Resumed
  PROVE  WorkflowInv'
<1>1. ledger \in Ledger /\ pc = "resumed" /\ cut = {} /\ answered \in BOOLEAN
  BY DEF WorkflowInv, WorkflowShape, CallSound, CutWaits, Resumed
<1> DEFINE series == IF ledger.next # End /\ ledger.step[ledger.next].status \in {"failed", "blocked"} THEN 1 ELSE ledger.attempt
           asked == IF answered THEN [ledger.pending EXCEPT !.granted = TRUE] ELSE ledger.pending
<1>2. series \in 1..MaxAttempts
  BY <1>1 DEF Ledger, WorkflowAssumption
<1>3. asked \in {None} \union [node : Asking, granted : BOOLEAN]
  <2>1. answered => ledger.pending \in [node : Asking, granted : BOOLEAN]
    BY <1>1 DEF WorkflowInv, CallSound, Ledger
  <2> QED BY <1>1, <2>1 DEF Ledger
<1>4. ledger' = [ledger EXCEPT !.status = "running", !.transitions = 0, !.attempt = series, !.pending = asked]
  BY DEF Resumed
<1> HIDE DEF series, asked
<1>5. ledger' \in Ledger /\ ledger'.next = ledger.next
  <2>1. "running" \in Statuses /\ 0 \in 0..MaxTransitions
    BY DEF Statuses, WorkflowAssumption
  <2>2. ledger' \in Ledger
    BY <1>1, <1>2, <1>3, <1>4, <2>1, RecordWritten, LedgerFields DEF Ledger
  <2>3. ledger'.next = ledger.next
    BY <1>1, <1>4 DEF Ledger
  <2> QED BY <2>2, <2>3
<1> QED
  BY <1>1, <1>5 DEF Resumed, Goto, call, WorkflowInv, WorkflowShape, CallSound, CutWaits

\* A position LangGraph continues from is one it was handed, with its state.
LEMMA StartGraphSound ==
  ASSUME WorkflowAssumption, WorkflowInv, StartGraph
  PROVE  WorkflowInv'
<1>1. ledger \in Ledger /\ pc = "position" /\ cut = {} /\ ledger.next \in Node /\ graph \in Seq(Point)
  BY LedgerFields DEF WorkflowInv, WorkflowShape, CallSound, CutWaits, StartGraph
<1>2. cut' = {} /\ visits' = visits
  BY <1>1 DEF StartGraph
<1>3. Target = None \/ Target = ledger.next
  BY DEF WorkflowInv, CallSound, StartGraph, Target
<1>4. Target = None => graph # <<>> /\ Latest.next = ledger.next
  BY <1>1 DEF WorkflowInv, WorkflowShape, WorkflowAssumption, StartGraph, Target
<1>5. Target # None => Target = ledger.next /\ Target # End
  BY <1>3 DEF StartGraph
<1>6. ASSUME NEW c \in Point, c.next = ledger.next, GoOnFrom(c), UNCHANGED <<ledger, opts, fork, answered, attempt>>,
             graph' \in Seq(Point)
      PROVE  WorkflowInv'
  <2>1. node' = ledger.next /\ seen' \in Values /\ pc' = "enter"
    BY <1>6 DEF GoOnFrom, Goto, Point
  <2>2. WorkflowShape'
    BY <1>1, <1>2, <1>6, <2>1 DEF WorkflowInv, WorkflowShape
  <2>3. CallSound'
    BY <1>1, <1>6, <2>1 DEF CallSound
  <2> QED BY <1>2, <2>2, <2>3 DEF WorkflowInv, CutWaits
<1>7. CASE Target = None
  <2>1. Latest \in Point
    <3>1. Len(graph) \in 1..Len(graph)
      BY <1>1, <1>4, <1>7
    <3> QED BY <1>1, <3>1 DEF Latest
  <2>2. GoOnFrom(Latest) /\ UNCHANGED <<ledger, graph, opts, fork, answered, attempt>>
    <3>1. Target # Entry
      BY <1>7 DEF WorkflowAssumption
    <3> QED BY <1>7, <3>1 DEF StartGraph, durable
  <2> QED BY <1>1, <1>4, <1>6, <1>7, <2>1, <2>2
<1>8. CASE Target # None /\ Before(Target) # {}
  <2> DEFINE last == CHOOSE i \in Before(Target) : \A j \in Before(Target) : j <= i
  <2>1. Len(graph) \in Nat /\ DOMAIN graph = 1..Len(graph)
    BY <1>1
  <2>2. Before(Target) \in SUBSET (1..Len(graph))
    BY <2>1 DEF Before
  <2>3. last \in Before(Target)
    BY <1>8, <2>1, <2>2, FirstAndLast
  <2>4. graph[last] \in Point /\ graph[last].next = ledger.next
    <3> HIDE DEF last
    <3> QED BY <1>1, <1>5, <1>8, <2>2, <2>3 DEF Before
  <2>5. GoOnFrom(graph[last]) /\ UNCHANGED <<ledger, graph, opts, fork, answered, attempt>>
    BY <1>8 DEF StartGraph, durable
  <2> HIDE DEF last
  <2> QED BY <1>1, <1>6, <2>4, <2>5
<1>9. CASE Target = Entry /\ Before(Target) = {}
  <2>1. Target # None
    BY <1>9 DEF WorkflowAssumption
  <2>2. StartOver /\ UNCHANGED <<opts, fork, answered, attempt>>
    BY <1>9, <2>1 DEF StartGraph
  <2>3. Seed \in Point /\ Seed.next = Entry
    BY RestTyped DEF Seed, Point, WorkflowAssumption
  <2>4. graph' \in Seq(Point)
    BY <2>2, <2>3 DEF StartOver
  <2> QED BY <1>5, <1>6, <1>9, <2>1, <2>2, <2>3, <2>4 DEF StartOver
<1>10. CASE Target # None /\ Target # Entry /\ Before(Target) = {}
  <2>1. Finish("failed") /\ Return /\ graph' = graph
    BY <1>10 DEF StartGraph
  <2>2. ledger' \in Ledger
    BY <1>1, <2>1, StatusTyped DEF Finish, Statuses
  <2> QED BY <1>2, <2>1, <2>2, LeavesSound
<1> QED BY <1>7, <1>8, <1>9, <1>10

\* A call that ends before it runs a node, or after.
LEMMA StopsSound ==
  ASSUME WorkflowAssumption, WorkflowInv, NEW status \in {"blocked", "cancelled"},
         Stop(status) \/ TransitionLimit \/ Complete
  PROVE  WorkflowInv'
<1>1. ledger \in Ledger /\ cut = {} /\ cut' = cut /\ Return /\ graph' = graph /\ visits' = visits
  BY DEF WorkflowInv, CallSound, CutWaits, Stop, TransitionLimit, Complete
<1>2. ledger' \in Ledger
  BY <1>1, StatusTyped DEF Stop, TransitionLimit, Complete, Finish, Statuses
<1> QED BY <1>1, <1>2, LeavesSound

LEMMA SkipGraphSound ==
  ASSUME WorkflowAssumption, WorkflowInv, SkipGraph
  PROVE  WorkflowInv'
BY DEF SkipGraph, Goto, durable, call, WorkflowInv, WorkflowShape, CallSound, CutWaits

\* The execution that begins is that of the step the ledger names.
LEMMA StartStepSound ==
  ASSUME WorkflowAssumption, WorkflowInv, StartStep
  PROVE  WorkflowInv'
<1>1. ledger \in Ledger /\ node \in Node /\ cut = {} /\ pc \in {"enter", "retry"} /\ visits \in Values
  BY DEF WorkflowInv, WorkflowShape, CallSound, CutWaits, StartStep
<1>2. attempt' \in 1..MaxAttempts
  BY <1>1, LedgerFields DEF WorkflowInv, CallSound, StartStep
<1> DEFINE begun == StepIs("running")
           moves == IF pc = "enter" /\ ledger.attempt = 1 /\ ledger.step[node].status # "paused"
                    THEN begun.transitions + 1 ELSE begun.transitions
<1>3. begun \in Ledger /\ begun.step[node].status = "running" /\ begun.transitions = ledger.transitions
  <2>1. "running" \in Marks
    BY DEF Marks
  <2> QED BY <1>1, <2>1, StepTyped DEF StepIs
<1>4. moves \in 0..MaxTransitions
  <2>1. ledger.transitions \in 0..MaxTransitions /\ MaxTransitions \in Nat
    BY <1>1, LedgerFields DEF WorkflowAssumption
  <2>2. pc = "enter" /\ ledger.attempt = 1 => ledger.transitions < MaxTransitions
    BY DEF StartStep
  <2> QED BY <1>3, <2>1, <2>2
<1>5. ledger' = [begun EXCEPT !.next = node, !.attempt = attempt', !.transitions = moves]
  BY DEF StartStep
<1> HIDE DEF begun, moves
<1>6. ledger' \in Ledger
  BY <1>1, <1>2, <1>3, <1>4, <1>5, LedgerFields, RecordWritten DEF Ledger
<1>7. ledger'.next = node /\ ledger'.step[node].status = "running"
  BY <1>3, <1>5 DEF Ledger
<1>8. visits' \in Values
  <2>1. visits[node] \in 0..MaxVisits /\ visits[node] < MaxVisits /\ MaxVisits \in Nat
    BY <1>1 DEF StartStep, Values, WorkflowAssumption
  <2>2. visits[node] + 1 \in 0..MaxVisits
    BY <2>1
  <2> QED BY <1>1, <2>2 DEF StartStep, Values
<1>9. pc' = "run" /\ cut' = {} /\ UNCHANGED <<graph, opts, fork, answered, node, seen>>
  BY <1>1 DEF StartStep, Goto
<1>10. attempt' \in 0..MaxAttempts
  BY <1>2 DEF WorkflowAssumption
<1>11. WorkflowShape'
  BY <1>6, <1>8, <1>9, <1>10 DEF WorkflowInv, WorkflowShape
<1>12. CallSound'
  BY <1>1, <1>2, <1>6, <1>7, <1>9 DEF CallSound
<1> QED BY <1>9, <1>11, <1>12 DEF WorkflowInv, CutWaits

\* A step that pauses, fails or is cut leaves the ledger that names it.
LEMMA PauseSound ==
  ASSUME WorkflowAssumption, WorkflowInv, Pause
  PROVE  WorkflowInv'
<1>1. ledger \in Ledger /\ node \in Node /\ node \in Asking /\ cut = {}
  BY DEF WorkflowInv, WorkflowShape, CallSound, CutWaits, Pause
<1> DEFINE paused == StepIs("paused")
           request == [node |-> node, granted |-> FALSE]
<1>2. paused \in Ledger
  BY <1>1, StepTyped DEF StepIs, Marks
<1>3. request \in {None} \union [node : Asking, granted : BOOLEAN] /\ "paused" \in Statuses
  BY <1>1 DEF Statuses
<1>4. ledger' = [paused EXCEPT !.status = "paused", !.pending = request]
  BY DEF Pause
<1> HIDE DEF paused, request
<1>5. ledger' \in Ledger
  BY <1>2, <1>3, <1>4, LedgerFields, RecordWritten DEF Ledger
<1> QED BY <1>1, <1>5, LeavesSound DEF Pause

LEMMA FailSound ==
  ASSUME WorkflowAssumption, WorkflowInv, NEW status \in {"blocked", "failed"}, Fail(status)
  PROVE  WorkflowInv'
<1>1. ledger \in Ledger /\ node \in Node /\ cut = {}
  BY DEF WorkflowInv, WorkflowShape, CallSound, CutWaits, Fail
<1>2. StepIs(status) \in Ledger
  BY <1>1, StepTyped DEF StepIs, Marks
<1>3. ledger' \in Ledger
  BY <1>2, StatusTyped DEF Fail, Statuses
<1> QED BY <1>1, <1>3, LeavesSound DEF Fail

LEMMA CutSound ==
  ASSUME WorkflowAssumption, WorkflowInv, NEW status \in {"succeeded", "failed"}, NEW stopped \in {"cancelled", "blocked"},
         Cut(status, stopped)
  PROVE  WorkflowInv'
<1>1. ledger \in Ledger /\ node \in Node /\ cut = {} /\ ledger.next = node
  BY DEF WorkflowInv, WorkflowShape, CallSound, CutWaits, Cut
<1>2. CASE node \in WriteNode
  <2>1. StepIs("interrupted") \in Ledger /\ StepIs("interrupted").next = node /\ StepIs("interrupted").step[node].status = "interrupted"
    <3>1. "interrupted" \in Marks
      BY DEF Marks
    <3> QED BY <1>1, <3>1, StepTyped DEF StepIs
  <2>2. ledger' \in Ledger /\ ledger'.next = node /\ ledger'.step[node].status = "interrupted"
    BY <1>2, <2>1, StatusTyped DEF Cut, Statuses
  <2> QED BY <1>1, <1>2, <2>2, LeavesSound DEF Cut
<1>3. CASE node \notin WriteNode
  <2>1. StepIs(status) \in Ledger
    BY <1>1, StepTyped DEF StepIs, Marks
  <2>2. ledger' \in Ledger
    BY <1>3, <2>1, StatusTyped DEF Cut, Statuses
  <2> QED BY <1>1, <1>3, <2>2, LeavesSound DEF Cut
<1> QED BY <1>2, <1>3

LEMMA CrashSound ==
  ASSUME WorkflowAssumption, WorkflowInv, Crash
  PROVE  WorkflowInv'
<1>1. ledger \in Ledger /\ ledger' = ledger /\ graph' = graph /\ visits' = visits /\ Return
  BY DEF WorkflowInv, CallSound, Crash, durable
<1>2. CASE pc = "run"
  <2>1. node \in Node /\ cut = {} /\ ledger.next = node /\ ledger.step[node].status = "running"
    BY <1>2 DEF WorkflowInv, CallSound, CutWaits
  <2> QED BY <1>1, <1>2, <2>1, LeavesSound DEF Crash
<1>3. CASE pc # "run"
  <2>1. cut' # {} => /\ cut' = {ledger.next} /\ ledger.next \in WriteNode \intersect Node
                     /\ ledger.step[ledger.next].status \in {"running", "interrupted"}
    BY <1>3 DEF Crash, WorkflowInv, CutWaits, Doubtful
  <2> QED BY <1>1, <2>1, LeavesSound
<1> QED BY <1>2, <1>3

\* The receipt names the successor, which the ledger then names too.
LEMMA SucceedSound ==
  ASSUME WorkflowAssumption, WorkflowInv, pc = "run", NEW next \in Ends[node] \union {End}, Succeed(next)
  PROVE  WorkflowInv'
<1>1. ledger \in Ledger /\ node \in Node /\ cut = {} /\ visits \in Values
  BY DEF WorkflowInv, WorkflowShape, CallSound, CutWaits
<1>2. next \in Node \union {End}
  BY <1>1 DEF WorkflowAssumption
<1> DEFINE receipt == [status |-> "succeeded", next |-> next, update |-> visits[node]]
           steps == [ledger.step EXCEPT ![node] = receipt]
           asked == IF Answered THEN None ELSE ledger.pending
<1>3. receipt \in Record
  BY <1>1, <1>2 DEF Record, Values
<1>4. steps \in [Node -> Record] /\ steps[node] = receipt
  BY <1>1, <1>3, LedgerFields
<1>5. asked \in {None} \union [node : Asking, granted : BOOLEAN] /\ 1 \in 1..MaxAttempts
  BY <1>1, LedgerFields DEF WorkflowAssumption
<1>6. ledger' = [ledger EXCEPT !.step = steps, !.pending = asked, !.next = next, !.attempt = 1]
  BY DEF Succeed
<1>7. receipt.next = next
  OBVIOUS
<1> HIDE DEF steps, asked, receipt
<1>8. ledger' \in Ledger
  BY <1>1, <1>2, <1>4, <1>5, <1>6, LedgerFields, RecordWritten DEF Ledger
<1>9. ledger'.next = next /\ ledger'.step[node].next = next
  BY <1>1, <1>4, <1>6, <1>7 DEF Ledger
<1>10. pc' = "route" /\ cut' = {} /\ UNCHANGED <<graph, opts, fork, answered, node, seen, attempt, visits>>
  BY <1>1 DEF Succeed, Goto, call
<1>11. WorkflowShape'
  BY <1>8, <1>10 DEF WorkflowInv, WorkflowShape
<1>12. CallSound'
  BY <1>1, <1>8, <1>9, <1>10 DEF CallSound
<1> QED BY <1>10, <1>11, <1>12 DEF WorkflowInv, CutWaits

LEMMA RetrySound ==
  ASSUME WorkflowAssumption, WorkflowInv, Retry
  PROVE  WorkflowInv'
<1>1. ledger \in Ledger /\ node \in Node /\ cut = {} /\ attempt \in 1..MaxAttempts
  BY DEF WorkflowInv, CallSound, CutWaits, Retry
<1>2. ledger' \in Ledger
  BY <1>1, StepTyped DEF Retry, StepIs, Marks
<1>3. attempt' \in 1..MaxAttempts /\ attempt' \in 0..MaxAttempts
  BY <1>1 DEF Retry, WorkflowAssumption
<1>4. pc' = "retry" /\ cut' = {} /\ UNCHANGED <<graph, opts, fork, answered, node, seen, visits>>
  BY <1>1 DEF Retry, Goto
<1> QED BY <1>1, <1>2, <1>3, <1>4 DEF WorkflowInv, WorkflowShape, CallSound, CutWaits

\* LangGraph goes where the receipt points.
LEMMA RouteSound ==
  ASSUME WorkflowAssumption, WorkflowInv, Route
  PROVE  WorkflowInv'
<1>1. /\ ledger \in Ledger /\ node \in Node /\ cut = {} /\ ledger.next = ledger.step[node].next
      /\ graph \in Seq(Point) /\ seen \in Values
  BY DEF WorkflowInv, WorkflowShape, CallSound, CutWaits, Route
<1> DEFINE next == [next |-> ledger.step[node].next, values |-> [seen EXCEPT ![node] = ledger.step[node].update]]
<1>2. ledger.step[node] \in Record
  BY <1>1, LedgerFields
<1>3. ledger.step[node].update \in 0..MaxVisits /\ next.next = ledger.next /\ ledger.next \in Node \union {End}
  BY <1>1, <1>2, LedgerFields DEF Record
<1>4. next.values \in Values
  BY <1>1, <1>3 DEF Values
<1>5. next \in Point
  BY <1>1, <1>3, <1>4 DEF Point
<1>6. /\ graph' = Append(graph, next)
      /\ IF next.next = End THEN pc' = "finish" /\ UNCHANGED <<node, seen>> ELSE GoOnFrom(next)
      /\ cut' = {} /\ UNCHANGED <<ledger, opts, fork, answered, attempt, visits>>
  BY <1>1 DEF Route, Goto
<1> HIDE DEF next
<1>7. graph' \in Seq(Point)
  BY <1>1, <1>5, <1>6
<1>8. CASE ledger.next = End
  BY <1>1, <1>3, <1>6, <1>7, <1>8 DEF WorkflowInv, WorkflowShape, CallSound, CutWaits
<1>9. CASE ledger.next # End
  <2>1. pc' = "enter" /\ node' = ledger.next /\ node' \in Node /\ seen' \in Values
    BY <1>3, <1>4, <1>6, <1>9 DEF GoOnFrom, Goto
  <2> QED BY <1>1, <1>6, <1>7, <2>1 DEF WorkflowInv, WorkflowShape, CallSound, CutWaits
<1> QED BY <1>8, <1>9

LEMMA WorkflowNext == WorkflowAssumption /\ WorkflowInv /\ [Next]_vars => WorkflowInv'
<1> SUFFICES ASSUME WorkflowAssumption, WorkflowInv, [Next]_vars PROVE WorkflowInv'
  OBVIOUS
<1>1. CASE UNCHANGED vars
  BY <1>1 DEF vars, durable, call, WorkflowInv, WorkflowShape, CallSound, CutWaits, Doubtful
<1>2. CASE \E o \in [recover : BOOLEAN, answer : BOOLEAN, invalid : Invalidable \union {{}}] : RunWorkflow(o)
  BY <1>2, RunWorkflowSound
<1>3. CASE CheckInterrupted
  BY <1>3, CheckInterruptedSound
<1>4. CASE Invalidate
  BY <1>4, InvalidateSound
<1>5. CASE Answer
  BY <1>5, AnswerSound
<1>6. CASE Resumed
  BY <1>6, ResumedSound
<1>7. CASE StartGraph
  BY <1>7, StartGraphSound
<1>8. CASE SkipGraph
  BY <1>8, SkipGraphSound
<1>9. CASE (\E status \in {"blocked", "cancelled"} : Stop(status)) \/ TransitionLimit \/ Complete
  <2>1. "blocked" \in {"blocked", "cancelled"}
    OBVIOUS
  <2> QED BY <1>9, <2>1, StopsSound
<1>10. CASE StartStep
  BY <1>10, StartStepSound
<1>11. CASE Pause
  BY <1>11, PauseSound
<1>12. CASE Retry
  BY <1>12, RetrySound
<1>13. CASE Route
  BY <1>13, RouteSound
<1>14. CASE Crash
  BY <1>14, CrashSound
<1>15. CASE pc = "run" /\ \E next \in Ends[node] \union {End} : Succeed(next)
  BY <1>15, SucceedSound
<1>16. CASE \E status \in {"blocked", "failed"} : Fail(status)
  BY <1>16, FailSound
<1>17. CASE \E status \in {"succeeded", "failed"}, stopped \in {"cancelled", "blocked"} : Cut(status, stopped)
  BY <1>17, CutSound
<1> QED
  BY <1>1, <1>2, <1>3, <1>4, <1>5, <1>6, <1>7, <1>8, <1>9, <1>10, <1>11, <1>12, <1>13, <1>14, <1>15, <1>16, <1>17 DEF Next

\* What the invariant says of an execution and of an entry.
LEMMA RunsSafely == WorkflowInv => NoBlindRewrite /\ FollowsLedger
BY DEF WorkflowInv, CallSound, CutWaits, NoBlindRewrite, FollowsLedger

\* Everything keeps its type, and what runs is what the ledger says is running.
LEMMA WorkflowTyped == WorkflowInv => WorkflowTypeOK
<1> SUFFICES ASSUME WorkflowInv PROVE WorkflowTypeOK
  OBVIOUS
<1>1. ledger = None \/
        /\ ledger.status \in Statuses /\ ledger.next \in Node \union {End}
        /\ ledger.attempt \in 1..MaxAttempts /\ ledger.transitions \in 0..MaxTransitions
        /\ ledger.pending = None \/ ledger.pending \in [node : Asking, granted : BOOLEAN]
        /\ ledger.step \in [Node -> Record]
  BY DEF WorkflowInv, WorkflowShape, Ledger
<1>2. \A i \in DOMAIN graph : graph[i].next \in Node \union {End} /\ graph[i].values \in Values
  <2>1. graph \in Seq(Point)
    BY DEF WorkflowInv, WorkflowShape
  <2>2. \A i \in DOMAIN graph : graph[i] \in Point
    BY <2>1
  <2> QED BY <2>2 DEF Point
<1> QED BY <1>1, <1>2 DEF WorkflowInv, WorkflowShape, CallSound, WorkflowTypeOK

-----------------------------------------------------------------------------
\* A write that a crash or a cancellation cut never executes again before a call recovers
\* it, for any workflow, invalidations and crashes (workflow.ts:231).
THEOREM NeverBlind == WorkflowAssumption => (Spec => []NoBlindRewrite)
<1> SUFFICES ASSUME WorkflowAssumption PROVE Spec => []NoBlindRewrite
  OBVIOUS
<1>1. Init => WorkflowInv
  BY WorkflowInit
<1>2. WorkflowInv /\ [Next]_vars => WorkflowInv'
  BY WorkflowNext
<1>3. WorkflowInv => NoBlindRewrite
  BY RunsSafely
<1> QED BY <1>1, <1>2, <1>3, PTL DEF Spec

\* A call enters only the node the ledger names, wherever LangGraph stood (workflow.ts:497).
THEOREM LedgerLeads == WorkflowAssumption => (Spec => []FollowsLedger)
<1> SUFFICES ASSUME WorkflowAssumption PROVE Spec => []FollowsLedger
  OBVIOUS
<1>1. Init => WorkflowInv
  BY WorkflowInit
<1>2. WorkflowInv /\ [Next]_vars => WorkflowInv'
  BY WorkflowNext
<1>3. WorkflowInv => FollowsLedger
  BY RunsSafely
<1> QED BY <1>1, <1>2, <1>3, PTL DEF Spec

=============================================================================
