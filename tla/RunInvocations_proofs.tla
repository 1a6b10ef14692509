------------------------- MODULE RunInvocations_proofs -------------------------
(***************************************************************************)
(* Two results for any number of branches, calls, gates and executions.    *)
(*                                                                         *)
(* What is known to be spent and what is reserved never exceed the budget  *)
(* by more than what settled calls used beyond their reservation.          *)
(*                                                                         *)
(* A writer owns the effect window alone, and some branch can go on as     *)
(* long as one has not settled. The gates are sound one by one (who holds, *)
(* who waits, that the first waiter does not fit), each branch holds the   *)
(* first gates of its sequence and waits for the next, and all sequences   *)
(* follow one order: whoever holds the last gate where somebody waits      *)
(* waits for nothing.                                                      *)
(***************************************************************************)
EXTENDS RunInvocations, FiniteSetTheorems, SequenceTheorems, WellFoundedInduction, TLAPS

Rows == [status : {"none", "running", "settled", "interrupted"}, branch : Branch \union {None},
         epoch : 0..MaxEpoch, granted : Nat, reserved : Nat \union {None}]

\* A call in flight is the running row of its branch and of the current execution, and
\* nothing of its reservation has been given back.
InFlight ==
  \A b \in Branch : place[b] \in {"calling", "returned"} =>
    /\ calling[b] \in Call
    /\ row[calling[b]].status = "running"
    /\ row[calling[b]].branch = b
    /\ row[calling[b]].epoch = epoch
    /\ row[calling[b]].reserved = row[calling[b]].granted

BudgetInv ==
  /\ epoch \in 1..MaxEpoch
  /\ row \in [Call -> Rows]
  /\ known \in Nat /\ live \in Int /\ over \in Nat
  /\ place \in [Branch -> Places]
  /\ offered \in [Branch -> Nat \union {None}]
  /\ calling \in [Branch -> Call \union {None}]
  /\ spent \in [Call -> [in : Nat, out : Nat]]
  /\ \A b \in Branch : place[b] = "offering" => offered[b] \in Nat
  /\ \A b \in Branch : calling[b] # None => place[b] \in {"calling", "returned"}
  /\ InFlight
  /\ CommittedWithinBudget

\* The initial rows satisfy the invariant.
LEMMA BudgetInit == Init => BudgetInv
<1> SUFFICES ASSUME Init PROVE BudgetInv
  OBVIOUS
<1>1. NoRow \in Rows
  BY RunInvocationsAssumption DEF NoRow, Rows
<1>2. place \in [Branch -> Places] /\ \A b \in Branch : place[b] = "idle"
  BY DEF Init, Places
<1> QED
  BY <1>1, <1>2, RunInvocationsAssumption DEF Init, BudgetInv, InFlight, CommittedWithinBudget

\* What a settlement adds to the spent tokens and gives back of the reservation.
LEMMA SettlementBalance ==
  ASSUME NEW c \in Call, row[c] \in Rows, row[c].reserved = row[c].granted,
         NEW in \in Nat \union {None}, NEW out \in Nat \union {None}
  PROVE  /\ Kept(c, in, out) \in Nat \union {None}
         /\ Number(Kept(c, in, out)) \in Nat /\ Number(in) \in Nat /\ Number(out) \in Nat
         /\ Max2(0, Number(in) + Number(out) - row[c].granted) \in Nat
         /\ Number(in) + Number(out) - row[c].reserved + Number(Kept(c, in, out))
              <= Max2(0, Number(in) + Number(out) - row[c].granted)
<1>1. row[c].granted \in Nat
  BY DEF Rows
<1>2. None \notin Nat
  BY RunInvocationsAssumption
<1> QED
  BY <1>1, <1>2 DEF Kept, Number, Max2

\* A share of a natural number is one.
LEMMA ShareIsNatural ==
  ASSUME NEW n \in Nat, NEW m \in Nat \ {0}
  PROVE  n \div m \in Nat
  OBVIOUS

\* What a branch is offered is a natural number.
LEMMA HeadroomIsNatural == BudgetInv => Headroom \in Nat
<1> SUFFICES ASSUME BudgetInv PROVE Headroom \in Nat
  OBVIOUS
<1>1. Max2(0, MaxTokens - known - live) \in Nat
  BY RunInvocationsAssumption DEF BudgetInv, Max2
<1>2. IsFiniteSet(Reserved)
  BY FS_Subset, RunInvocationsAssumption DEF Reserved
<1>3. Cardinality(Reserved) \in Nat
  BY <1>2, FS_CardinalityType
<1>4. Max2(1, Concurrency - Cardinality(Reserved)) \in Nat \ {0}
  BY <1>3, RunInvocationsAssumption DEF Max2
<1> QED
  BY <1>1, <1>4, ShareIsNatural DEF Headroom

\* A branch that moves outside its calls disturbs nothing.
LEMMA PlainMove ==
  ASSUME BudgetInv, NEW b \in Branch, NEW to \in {"idle", "admitted", "operating", "failing", "done", "stopped"},
         place[b] \notin {"calling", "returned"}, place' = [place EXCEPT ![b] = to], UNCHANGED <<epoch, row, known, live, offered, calling, spent, over>>
  PROVE  BudgetInv'
<1>1. place' \in [Branch -> Places] /\ \A a \in Branch : place'[a] \in {"offering", "calling", "returned"} => place'[a] = place[a]
  BY DEF BudgetInv, Places
<1> QED
  BY <1>1 DEF BudgetInv, InFlight, CommittedWithinBudget

\* Every step keeps the invariant.
LEMMA BudgetStep == BudgetInv /\ [Next]_vars => BudgetInv'
<1> SUFFICES ASSUME BudgetInv, [Next]_vars PROVE BudgetInv'
  OBVIOUS
<1> USE RunInvocationsAssumption
<1>1. ASSUME NEW b \in Branch, Enter(b) \/ RefuseEntry(b) \/ Acquire(b) \/ Begin(b) \/ GiveUp(b) \/ Finish(b) PROVE BudgetInv'
  <2>1. CASE Enter(b)
    BY <2>1, PlainMove DEF Enter, Go, history
  <2>2. CASE RefuseEntry(b)
    BY <2>2, PlainMove DEF RefuseEntry, Go, db, history
  <2>3. CASE Acquire(b)
    BY <2>3 DEF Acquire, BudgetInv, InFlight, CommittedWithinBudget, db, history
  <2>4. CASE Begin(b)
    BY <2>4, PlainMove DEF Begin, Go, db, history
  <2>5. CASE GiveUp(b)
    BY <2>5, PlainMove DEF GiveUp, Go, db, history
  <2>6. CASE Finish(b)
    BY <2>6, PlainMove DEF Finish, Go, db, history
  <2> QED
    BY <1>1, <2>1, <2>2, <2>3, <2>4, <2>5, <2>6
<1>2. ASSUME NEW b \in Branch, Fail(b) PROVE BudgetInv'
  BY <1>2 DEF BudgetInv, Rows, InFlight, CommittedWithinBudget, Places, Fail, Go, db, history
<1>3. ASSUME NEW b \in Branch, Offer(b) PROVE BudgetInv'
  <2> DEFINE to == IF Headroom = 0 \/ aborted THEN "failing" ELSE "offering"
  <2>1. /\ place[b] = "operating" /\ place' = [place EXCEPT ![b] = to]
        /\ offered' = [offered EXCEPT ![b] = Headroom]
        /\ UNCHANGED <<epoch, row, known, live, calling, spent, over>>
    BY <1>3 DEF Offer, Go, db, history
  <2>2. to \in {"failing", "offering"} /\ Headroom \in Nat
    BY HeadroomIsNatural
  <2> HIDE DEF to
  <2>3. /\ place' \in [Branch -> Places] /\ offered' \in [Branch -> Nat \union {None}]
        /\ \A a \in Branch : place'[a] = "offering" => offered'[a] \in Nat
    BY <2>1, <2>2 DEF BudgetInv, Places
  <2>4. \A a \in Branch : (place'[a] \in {"calling", "returned"}) <=> (place[a] \in {"calling", "returned"})
    BY <2>1, <2>2 DEF BudgetInv
  <2>5. InFlight'
    <3> SUFFICES ASSUME NEW a \in Branch, place'[a] \in {"calling", "returned"}
                 PROVE  /\ calling[a] \in Call
                        /\ row[calling[a]].status = "running"
                        /\ row[calling[a]].branch = a
                        /\ row[calling[a]].epoch = epoch
                        /\ row[calling[a]].reserved = row[calling[a]].granted
      BY <2>1 DEF InFlight
    <3> QED
      BY <2>4 DEF BudgetInv, InFlight
  <2> QED
    BY <2>1, <2>3, <2>4, <2>5 DEF BudgetInv, CommittedWithinBudget
<1>4. ASSUME NEW b \in Branch, Start(b) PROVE BudgetInv'
  <2>1. CASE ~(Admissible /\ Fits(b))
    BY <1>4, <2>1, PlainMove DEF Start, Go, history
  <2>2. CASE Admissible /\ Fits(b)
    <3>1. PICK c \in Call :
            /\ row[c] = NoRow
            /\ row' = [row EXCEPT ![c] = [status |-> "running", branch |-> b, epoch |-> epoch,
                                          granted |-> offered[b], reserved |-> offered[b]]]
            /\ calling' = [calling EXCEPT ![b] = c]
      BY <1>4, <2>2 DEF Start
    <3>2. live' = live + offered[b] /\ offered' = [offered EXCEPT ![b] = None] /\ place' = [place EXCEPT ![b] = "calling"]
      BY <1>4, <2>2 DEF Start, Go
    <3>3. UNCHANGED <<epoch, known, spent, over>> /\ place[b] = "offering" /\ offered[b] \in Nat
      BY <1>4 DEF Start, history, BudgetInv
    <3>4. row' \in [Call -> Rows]
      BY <3>1, <3>3 DEF BudgetInv, Rows
    <3>5. InFlight'
      BY <3>1, <3>2, <3>3 DEF BudgetInv, InFlight, Rows, NoRow, Places
    <3>6. CommittedWithinBudget'
      BY <2>2, <3>2, <3>3 DEF BudgetInv, CommittedWithinBudget, Fits
    <3> QED
      BY <3>1, <3>2, <3>3, <3>4, <3>5, <3>6 DEF BudgetInv, Places
  <2> QED
    BY <2>1, <2>2
<1>5. ASSUME NEW b \in Branch, Settle(b) PROVE BudgetInv'
  <2> DEFINE c == calling[b]
  <2>1. c \in Call /\ row[c] \in Rows /\ row[c].reserved = row[c].granted /\ row[c].branch = b
    BY <1>5 DEF Settle, BudgetInv, InFlight
  <2>2. PICK in \in {spent[c].in, None}, out \in {spent[c].out, None} : Commit(c, "settled", in, out)
    BY <1>5 DEF Settle
  <2>3. in \in Nat \union {None} /\ out \in Nat \union {None}
    BY <2>1, <2>2 DEF BudgetInv
  <2> HIDE DEF c
  <2>4. /\ Kept(c, in, out) \in Nat \union {None}
        /\ Number(Kept(c, in, out)) \in Nat /\ Number(in) \in Nat /\ Number(out) \in Nat
        /\ Max2(0, Number(in) + Number(out) - row[c].granted) \in Nat
        /\ Number(in) + Number(out) - row[c].reserved + Number(Kept(c, in, out))
             <= Max2(0, Number(in) + Number(out) - row[c].granted)
    BY <2>1, <2>3, SettlementBalance
  <2>5. UNCHANGED <<epoch, offered, spent>> /\ place' = [place EXCEPT ![b] = "operating"] /\ calling' = [calling EXCEPT ![b] = None]
    BY <1>5 DEF Settle, Go
  <2>6. row' \in [Call -> Rows]
    BY <2>1, <2>2, <2>4 DEF Commit, BudgetInv, Rows
  <2>7. row[c].reserved \in Nat
    BY <2>1 DEF Rows
  <2>8. known' \in Nat /\ live' \in Int /\ over' \in Nat /\ CommittedWithinBudget'
    <3>1. /\ known' = known + Number(in) + Number(out)
          /\ live' = live - row[c].reserved + Number(Kept(c, in, out))
          /\ over' = over + Max2(0, Number(in) + Number(out) - row[c].granted)
      BY <2>2 DEF Commit, c
    <3>2. known \in Nat /\ live \in Int /\ over \in Nat /\ known + live <= MaxTokens + over
      BY DEF BudgetInv, CommittedWithinBudget
    <3>3. MaxTokens \in Nat
      BY RunInvocationsAssumption
    <3> HIDE RunInvocationsAssumption
    <3> DEFINE spend == Number(in) + Number(out)
               kept == Number(Kept(c, in, out))
               excess == Max2(0, Number(in) + Number(out) - row[c].granted)
               had == row[c].reserved
    <3>4. spend \in Nat /\ kept \in Nat /\ excess \in Nat /\ had \in Nat /\ spend - had + kept <= excess
      BY <2>4, <2>7
    <3>5. known' = known + spend /\ live' = live - had + kept /\ over' = over + excess
      BY <3>1, <2>4, <3>2
    <3> HIDE DEF spend, kept, excess, had
    <3> QED
      BY <3>2, <3>3, <3>4, <3>5 DEF CommittedWithinBudget
  <2>9. ASSUME NEW a \in Branch, place'[a] \in {"calling", "returned"}
        PROVE  calling'[a] \in Call /\ row'[calling'[a]] = row[calling[a]] /\ calling'[a] = calling[a] /\ place'[a] = place[a]
    <3>1. a # b /\ place'[a] = place[a] /\ calling'[a] = calling[a]
      BY <2>5, <2>9 DEF BudgetInv
    <3>2. calling[a] \in Call /\ row[calling[a]].branch = a
      BY <2>9, <3>1 DEF BudgetInv, InFlight
    <3>3. calling[a] # c
      BY <2>1, <3>1, <3>2
    <3> QED
      BY <2>2, <3>1, <3>2, <3>3 DEF Commit, BudgetInv
  <2>10. InFlight'
    BY <2>5, <2>9 DEF BudgetInv, InFlight
  <2>11. /\ place' \in [Branch -> Places] /\ calling' \in [Branch -> Call \union {None}]
         /\ \A a \in Branch : place'[a] = "offering" => offered'[a] \in Nat
    BY <2>5 DEF BudgetInv, Places
  <2> QED
    BY <2>5, <2>6, <2>8, <2>10, <2>11 DEF BudgetInv
<1>6. ASSUME NEW c \in Call, Answer(c) PROVE BudgetInv'
  <2>1. spent' \in [Call -> [in : Nat, out : Nat]]
    BY <1>6 DEF Answer, BudgetInv
  <2>2. /\ place' \in [Branch -> Places]
        /\ \A a \in Branch : place'[a] = "offering" => place[a] = "offering"
        /\ \A a \in Branch : (place'[a] \in {"calling", "returned"}) => (place[a] \in {"calling", "returned"})
        /\ \A a \in Branch : (calling[a] # None) => (place'[a] \in {"calling", "returned"})
    BY <1>6, RunInvocationsAssumption DEF Answer, BudgetInv, Places
  <2>3. UNCHANGED <<epoch, row, known, live, offered, calling, over>>
    BY <1>6 DEF Answer, db
  <2>4. InFlight'
    <3> SUFFICES ASSUME NEW a \in Branch, place'[a] \in {"calling", "returned"}
                 PROVE  /\ calling[a] \in Call
                        /\ row[calling[a]].status = "running"
                        /\ row[calling[a]].branch = a
                        /\ row[calling[a]].epoch = epoch
                        /\ row[calling[a]].reserved = row[calling[a]].granted
      BY <2>3 DEF InFlight
    <3> QED
      BY <2>2 DEF BudgetInv, InFlight
  <2>5. /\ epoch' \in 1..MaxEpoch /\ row' \in [Call -> Rows] /\ known' \in Nat /\ live' \in Int /\ over' \in Nat
        /\ offered' \in [Branch -> Nat \union {None}] /\ calling' \in [Branch -> Call \union {None}] /\ CommittedWithinBudget'
    BY <2>3 DEF BudgetInv, CommittedWithinBudget
  <2>6. \A b \in Branch : /\ place'[b] = "offering" => offered'[b] \in Nat
                          /\ calling'[b] # None => place'[b] \in {"calling", "returned"}
    BY <2>2, <2>3 DEF BudgetInv
  <2> QED
    BY <2>1, <2>2, <2>4, <2>5, <2>6 DEF BudgetInv
<1>7. ASSUME NEW c \in Call, LateAnswer(c) PROVE BudgetInv'
  <2>1. spent' \in [Call -> [in : Nat, out : Nat]]
    BY <1>7 DEF LateAnswer, BudgetInv
  <2> QED
    BY <1>7, <2>1 DEF LateAnswer, BudgetInv, InFlight, CommittedWithinBudget, db, executor
<1>8. CASE Open
  <2>1. UNCHANGED <<epoch, known, live, place, offered, calling, spent, over>>
    BY <1>8 DEF Open, history
  <2>2. row' \in [Call -> Rows]
    <3>0. \A x \in Rows : [x EXCEPT !.status = "interrupted"] \in Rows
      <4> HIDE RunInvocationsAssumption
      <4> SUFFICES ASSUME NEW x \in Rows PROVE [x EXCEPT !.status = "interrupted"] \in Rows
        OBVIOUS
      <4> QED
        BY DEF Rows
    <3>1. \A c \in Call : [row[c] EXCEPT !.status = "interrupted"] \in Rows
      BY <3>0 DEF BudgetInv
    <3>3. row' = [c \in Call |-> IF c \in Abandoned THEN [row[c] EXCEPT !.status = "interrupted"] ELSE row[c]]
      BY <1>8 DEF Open
    <3>2. \A c \in Call : row[c] \in Rows
      BY DEF BudgetInv
    <3> QED
      BY <3>1, <3>2, <3>3
  <2>3. \A c \in Call : row[c].epoch = epoch => row'[c] = row[c]
    BY <1>8 DEF Open, Abandoned, BudgetInv
  <2>4. InFlight'
    BY <2>1, <2>3 DEF InFlight, BudgetInv
  <2> QED
    BY <2>1, <2>2, <2>4 DEF BudgetInv, CommittedWithinBudget
<1>9. CASE Abort \/ Cancel \/ UNCHANGED vars
  <2>1. UNCHANGED <<epoch, row, known, live, place, offered, calling, spent, over>>
    BY <1>9 DEF Abort, Cancel, db, executor, history, vars
  <2> QED
    BY <2>1 DEF BudgetInv, InFlight, CommittedWithinBudget
<1>10. CASE Takeover
  <2>1. \A b \in Branch : place'[b] \in {"done", "stopped", "idle"} /\ offered'[b] = None /\ calling'[b] = None
    BY <1>10 DEF Takeover
  <2>2. place' \in [Branch -> Places] /\ offered' \in [Branch -> Nat \union {None}] /\ calling' \in [Branch -> Call \union {None}]
    BY <1>10 DEF Takeover, Places
  <2>3. epoch' \in 1..MaxEpoch /\ UNCHANGED <<row, known, live, spent, over>>
    BY <1>10, RunInvocationsAssumption DEF Takeover, BudgetInv, history
  <2> QED
    BY <2>1, <2>2, <2>3 DEF BudgetInv, InFlight, CommittedWithinBudget
<1> QED
  BY <1>1, <1>2, <1>3, <1>4, <1>5, <1>6, <1>7, <1>8, <1>9, <1>10 DEF Next, Progress, BranchStep

\* Concurrent branches never commit the run to more than its budget, but for what a
\* provider used beyond the limit of its call.
THEOREM CommittedWithinBudgetAlways == Spec => []CommittedWithinBudget
<1>1. BudgetInv => CommittedWithinBudget
  BY DEF BudgetInv
<1> QED
  BY <1>1, BudgetInit, BudgetStep, PTL DEF Spec

-----------------------------------------------------------------------------
(* The gates. *)

\* The permits of a gate are all accounted for: a write that holds it owns them all, and
\* otherwise each holder has one. Nobody waits twice, or for what it holds.
PermitsSound(g, p) ==
  /\ p = [free |-> p.free, queue |-> p.queue, holders |-> p.holders]
  /\ p.free \in Nat /\ p.queue \in Seq(Branch)
  /\ p.holders \in SUBSET Branch /\ IsFiniteSet(p.holders)
  /\ \A i, j \in DOMAIN p.queue : p.queue[i] = p.queue[j] => i = j
  /\ \A i \in DOMAIN p.queue : p.queue[i] \notin p.holders
  /\ \/ p.holders \intersect Heavy(g) = {} /\ p.free + Cardinality(p.holders) = Capacity[g]
     \/ p.free = 0 /\ \E b \in Heavy(g) : p.holders = {b}

\* The first waiter does not fit.
Served(g, p) == p.queue # <<>> => Weight(Head(p.queue), g) > p.free

\* What a drain or an abort makes of a gate: holders stay, waiters become holders or go.
Onward(p, q) ==
  /\ p.holders \subseteq q.holders /\ q.holders \subseteq p.holders \union ToSet(p.queue)
  /\ ToSet(q.queue) \subseteq ToSet(p.queue)

\* A product of natural numbers is one, and grows with its factors.
LEMMA Product ==
  ASSUME NEW k \in Nat, NEW c \in Nat
  PROVE  k * c \in Nat /\ (c = 0 => k * c = 0) /\ (c >= 1 => k * c >= k)
OBVIOUS

\* One unit more adds the weight once more.
LEMMA Distributes ==
  ASSUME NEW k \in Nat, NEW c \in Nat
  PROVE  k * (c + 1) = k * c + k
OBVIOUS

\* Every gate has a permit.
LEMMA CapacityFact == ASSUME NEW g \in Gate PROVE Capacity[g] \in Nat \ {0}
BY RunInvocationsAssumption

\* The weights of a sequence of waiters.
LEMMA Costs ==
  ASSUME NEW g \in Gate, NEW s \in Seq(Branch)
  PROVE  /\ Cost(g, s) \in Nat /\ Cost(g, s) >= Len(s)
         /\ (\A i \in DOMAIN s : s[i] \notin Heavy(g)) => Cost(g, s) = Len(s)
         /\ (\E i \in DOMAIN s : s[i] \in Heavy(g)) => Cost(g, s) >= Len(s) + (Capacity[g] - 1)
<1> DEFINE hits == {i \in DOMAIN s : s[i] \in Heavy(g)}
           k == Capacity[g] - 1
<1>1. DOMAIN s = 1 .. Len(s) /\ Len(s) \in Nat /\ hits \subseteq DOMAIN s
  OBVIOUS
<1>2. IsFiniteSet(1 .. Len(s))
  BY <1>1, FS_Interval
<1>3. IsFiniteSet(hits)
  <2> HIDE DEF hits
  <2> QED BY <1>1, <1>2, FS_Subset
<1>4. Cardinality(hits) \in Nat /\ (Cardinality(hits) = 0 <=> hits = {})
  <2> HIDE DEF hits
  <2> QED BY <1>3, FS_CardinalityType, FS_EmptySet
<1>5. k \in Nat
  BY CapacityFact
<1>6. Cost(g, s) = Len(s) + k * Cardinality(hits)
  BY DEF Cost
<1>7. /\ k * Cardinality(hits) \in Nat
      /\ Cardinality(hits) = 0 => k * Cardinality(hits) = 0
      /\ Cardinality(hits) >= 1 => k * Cardinality(hits) >= k
  <2> HIDE DEF hits, k
  <2> QED BY <1>4, <1>5, Product
<1>8. hits = {} <=> \A i \in DOMAIN s : s[i] \notin Heavy(g)
  OBVIOUS
<1> DEFINE more == k * Cardinality(hits)
           c == Cardinality(hits)
<1>9. /\ more \in Nat /\ c \in Nat /\ (c = 0 => more = 0) /\ (c >= 1 => more >= k) /\ Cost(g, s) = Len(s) + more
      /\ (c = 0 <=> \A i \in DOMAIN s : s[i] \notin Heavy(g))
  BY <1>4, <1>6, <1>7, <1>8
<1>10. (\E i \in DOMAIN s : s[i] \in Heavy(g)) => c # 0
  BY <1>9
<1>11. Len(s) \in Nat /\ k \in Nat
  BY <1>1, <1>5
<1>12. /\ Cost(g, s) \in Nat /\ Cost(g, s) >= Len(s)
       /\ c = 0 => Cost(g, s) = Len(s)
       /\ c # 0 => Cost(g, s) >= Len(s) + k
  <2> HIDE DEF more, c, hits, k
  <2> QED BY <1>9, <1>11
<1> QED BY <1>9, <1>10, <1>12

\* Waiters that become holders are as many as their places.
LEMMA Granted ==
  ASSUME NEW g \in Gate, NEW p, PermitsSound(g, p), NEW I \in SUBSET (DOMAIN p.queue)
  PROVE  LET granted == {p.queue[i] : i \in I}
         IN  /\ granted \subseteq Branch /\ granted \subseteq ToSet(p.queue)
             /\ IsFiniteSet(I) /\ Cardinality(I) \in Nat
             /\ IsFiniteSet(p.holders \union granted)
             /\ Cardinality(p.holders \union granted) = Cardinality(p.holders) + Cardinality(I)
<1> DEFINE granted == {p.queue[i] : i \in I}
           f == [i \in I |-> p.queue[i]]
<1>1. /\ p.queue \in Seq(Branch) /\ DOMAIN p.queue = 1 .. Len(p.queue) /\ Len(p.queue) \in Nat
      /\ IsFiniteSet(p.holders)
  BY DEF PermitsSound
<1>2. IsFiniteSet(1 .. Len(p.queue))
  BY <1>1, FS_Interval
<1>3. IsFiniteSet(I) /\ Cardinality(I) \in Nat
  BY <1>1, <1>2, FS_Subset, FS_CardinalityType
<1>4. granted \subseteq Branch /\ granted \subseteq ToSet(p.queue)
  BY <1>1 DEF ToSet
<1>5. f \in Bijection(I, granted)
  BY DEF PermitsSound, Bijection, Injection, Surjection, IsInjective
<1>6. IsFiniteSet(granted) /\ Cardinality(granted) = Cardinality(I)
  <2>1. ExistsBijection(I, granted)
    BY <1>5 DEF ExistsBijection
  <2> HIDE DEF granted
  <2> QED BY <1>3, <2>1, FS_Bijection
<1>7. p.holders \intersect granted = {}
  BY DEF PermitsSound
<1>8. /\ IsFiniteSet(p.holders \union granted)
      /\ Cardinality(p.holders \union granted) = Cardinality(p.holders) + Cardinality(I)
  <2> HIDE DEF granted
  <2>1. Cardinality(p.holders \intersect granted) = 0
    BY <1>7, FS_EmptySet
  <2>2. Cardinality(p.holders) \in Nat
    BY <1>1, FS_CardinalityType
  <2>3. /\ IsFiniteSet(p.holders \union granted)
        /\ Cardinality(p.holders \union granted)
             = Cardinality(p.holders) + Cardinality(granted) - Cardinality(p.holders \intersect granted)
    BY <1>1, <1>6, FS_Union
  <2> QED BY <1>3, <1>6, <2>1, <2>2, <2>3
<1> QED BY <1>3, <1>4, <1>8

\* A set of natural numbers has a smallest one, and a bounded one has a largest one.
LEMMA SmallestOf ==
  ASSUME NEW S \in SUBSET Nat, S # {}
  PROVE  \E i \in S : \A j \in S : i <= j
<1>1. PICK i \in S : \A j \in S : <<j, i>> \notin OpToRel(<, Nat)
  BY NatLessThanWellFounded, WFMin
<1>2. ASSUME NEW j \in S PROVE i <= j
  <2>1. j \in Nat /\ i \in Nat
    OBVIOUS
  <2>2. ~(j < i)
    <3> SUFFICES ASSUME j < i PROVE <<j, i>> \in OpToRel(<, Nat)
      BY <1>1
    <3>1. <<j, i>> \in Nat \X Nat /\ <<j, i>>[1] < <<j, i>>[2]
      BY <2>1
    <3> QED BY <3>1 DEF OpToRel
  <2> QED BY <2>1, <2>2
<1> QED BY <1>2

LEMMA LargestOf ==
  ASSUME NEW n \in Nat, NEW S \in SUBSET (1 .. n), S # {}
  PROVE  \E i \in S : \A j \in S : j <= i
<1> DEFINE T == {n - i : i \in S}
<1>1. T \in SUBSET Nat /\ T # {}
  <2>1. \A i \in S : n - i \in Nat
    OBVIOUS
  <2> QED BY <2>1
<1>2. PICK t \in T : \A u \in T : t <= u
  <2> HIDE DEF T
  <2> QED BY <1>1, SmallestOf
<1>3. PICK i \in S : t = n - i
  OBVIOUS
<1>4. ASSUME NEW j \in S PROVE j <= i
  <2>1. n - i <= n - j /\ j \in 1 .. n /\ i \in 1 .. n
    BY <1>2, <1>3
  <2> HIDE DEF T
  <2> QED BY <2>1
<1> QED BY <1>4

\* One waiter more costs its weight more.
LEMMA OneMore ==
  ASSUME NEW g \in Gate, NEW line \in Seq(Branch), NEW n \in Nat, n < Len(line)
  PROVE  Cost(g, SubSeq(line, 1, n + 1)) = Cost(g, SubSeq(line, 1, n)) + Weight(line[n + 1], g)
<1> DEFINE s == SubSeq(line, 1, n)
           t == SubSeq(line, 1, n + 1)
           hits == {i \in DOMAIN s : s[i] \in Heavy(g)}
           more == {i \in DOMAIN t : t[i] \in Heavy(g)}
           k == Capacity[g] - 1
<1>0. SUFFICES Cost(g, t) = Cost(g, s) + Weight(line[n + 1], g)
  OBVIOUS
<1>1. /\ DOMAIN s = 1 .. n /\ Len(s) = n /\ DOMAIN t = 1 .. (n + 1) /\ Len(t) = n + 1 /\ t[n + 1] = line[n + 1]
      /\ \A i \in 1 .. n : s[i] = line[i] /\ t[i] = line[i]
  OBVIOUS
<1>2. IsFiniteSet(hits) /\ Cardinality(hits) \in Nat /\ n + 1 \notin hits
  <2>1. hits \in SUBSET (1 .. n) /\ IsFiniteSet(1 .. n)
    BY <1>1, FS_Interval
  <2>2. n + 1 \notin 1 .. n
    OBVIOUS
  <2> HIDE DEF hits
  <2> QED BY <2>1, <2>2, FS_Subset, FS_CardinalityType
<1>3. Cost(g, s) = n + k * Cardinality(hits) /\ Cost(g, t) = n + 1 + k * Cardinality(more)
  BY <1>1 DEF Cost
<1>4. k \in Nat /\ Capacity[g] = k + 1
  BY CapacityFact
<1>5. CASE line[n + 1] \in Heavy(g)
  <2>1. more = hits \union {n + 1}
    BY <1>1, <1>5
  <2>2. Cardinality(more) = Cardinality(hits) + 1
    <3> HIDE DEF hits, more
    <3> QED BY <1>2, <2>1, FS_AddElement
  <2>3. k * (Cardinality(hits) + 1) = k * Cardinality(hits) + k
    <3> HIDE DEF hits, k
    <3> QED BY <1>2, <1>4, Distributes
  <2>4. Weight(line[n + 1], g) = k + 1
    BY <1>4, <1>5 DEF Weight
  <2>5. k * Cardinality(hits) \in Nat
    <3> HIDE DEF hits, k
    <3> QED BY <1>2, <1>4, Product
  <2>6. k * Cardinality(more) = k * Cardinality(hits) + k
    BY <2>2, <2>3
  <2> DEFINE x == k * Cardinality(hits)
             y == k * Cardinality(more)
  <2>7. y = x + k /\ x \in Nat /\ Cost(g, s) = n + x /\ Cost(g, t) = n + 1 + y
    BY <1>3, <2>5, <2>6
  <2> HIDE DEF x, y, hits, more, k, s, t
  <2> QED BY <1>4, <2>4, <2>7
<1>6. CASE line[n + 1] \notin Heavy(g)
  <2>1. more = hits
    BY <1>1, <1>6
  <2>4. Weight(line[n + 1], g) = 1
    BY <1>6 DEF Weight
  <2>5. k * Cardinality(hits) \in Nat
    <3> HIDE DEF hits, k
    <3> QED BY <1>2, <1>4, Product
  <2>6. k * Cardinality(more) = k * Cardinality(hits)
    BY <2>1
  <2> DEFINE x == k * Cardinality(hits)
             y == k * Cardinality(more)
  <2>7. y = x /\ x \in Nat /\ Cost(g, s) = n + x /\ Cost(g, t) = n + 1 + y
    BY <1>3, <2>5, <2>6
  <2> HIDE DEF x, y, hits, more, k, s, t
  <2> QED BY <2>4, <2>7
<1> QED BY <1>5, <1>6

\* What is left of a sequence behind its first n elements.
LEMMA TailFrom ==
  ASSUME NEW line \in Seq(Branch), NEW n \in Nat, n <= Len(line)
  PROVE  LET rest == SubSeq(line, n + 1, Len(line))
         IN  /\ rest \in Seq(Branch) /\ Len(rest) = Len(line) - n /\ DOMAIN rest = 1 .. (Len(line) - n)
             /\ \A i \in 1 .. (Len(line) - n) : n + i \in DOMAIN line /\ n + i \in Nat /\ rest[i] = line[n + i]
             /\ ToSet(rest) \subseteq ToSet(line)
<1> DEFINE m == n + 1
           len == Len(line)
           rest == SubSeq(line, m, len)
<1>1. len \in Nat /\ m \in Int /\ len \in Int /\ DOMAIN line = 1 .. len
  OBVIOUS
<1>2. \A i \in m .. len : line[i] \in Branch
  <2>1. \A i \in m .. len : i \in 1 .. len
    BY <1>1
  <2> QED BY <1>1, <2>1
<1>3. /\ rest \in Seq(Branch)
      /\ Len(rest) = IF m <= len THEN len - m + 1 ELSE 0
      /\ \A i \in 1 .. len - m + 1 : rest[i] = line[m + i - 1]
  <2> HIDE DEF m, len
  <2> QED BY <1>1, <1>2, SubSeqProperties
<1>4. Len(rest) = len - n
  <2> HIDE DEF len, rest
  <2>1. n <= len
    BY DEF len
  <2> QED BY <1>1, <1>3, <2>1
<1>5. \A i \in 1 .. (len - n) : n + i \in 1 .. len /\ n + i \in Nat /\ i \in 1 .. len - m + 1 /\ m + i - 1 = n + i
  <2> HIDE DEF len
  <2> QED BY <1>1
<1>6. DOMAIN rest = 1 .. (len - n)
  <2> HIDE DEF rest, len
  <2> QED BY <1>3, <1>4
<1>7. \A i \in 1 .. (len - n) : n + i \in DOMAIN line /\ n + i \in Nat /\ rest[i] = line[n + i]
  <2> HIDE DEF rest, len, m
  <2> QED BY <1>1, <1>3, <1>5
<1>8. ToSet(rest) \subseteq ToSet(line)
  <2> HIDE DEF rest
  <2> QED BY <1>6, <1>7 DEF ToSet
<1> QED BY <1>3, <1>4, <1>6, <1>7, <1>8

\* A drain grants the longest run of first waiters that fits.
LEMMA DrainSound ==
  ASSUME NEW g \in Gate, NEW p, PermitsSound(g, p)
  PROVE  PermitsSound(g, Drain(g, p)) /\ Served(g, Drain(g, p)) /\ Onward(p, Drain(g, p))
<1> DEFINE line == p.queue
           fits(m) == Cost(g, SubSeq(line, 1, m)) <= p.free
           chosen(m) == fits(m) /\ (m < Len(line) => Cost(g, SubSeq(line, 1, m + 1)) > p.free)
           n == CHOOSE m \in 0..Len(line) : chosen(m)
           first == SubSeq(line, 1, n)
           rest == SubSeq(line, n + 1, Len(line))
           q == Drain(g, p)
<1>1. /\ line \in Seq(Branch) /\ DOMAIN line = 1 .. Len(line) /\ Len(line) \in Nat
      /\ p.free \in Nat /\ p.holders \in SUBSET Branch /\ IsFiniteSet(p.holders) /\ Capacity[g] \in Nat \ {0}
  BY CapacityFact DEF PermitsSound
<1>2. \A m \in 0 .. Len(line) :
        /\ SubSeq(line, 1, m) \in Seq(Branch) /\ Len(SubSeq(line, 1, m)) = m
        /\ \A i \in 1 .. m : SubSeq(line, 1, m)[i] = line[i]
  BY <1>1
<1>3. \A m \in 0 .. Len(line) :
        /\ Cost(g, SubSeq(line, 1, m)) \in Nat /\ Cost(g, SubSeq(line, 1, m)) >= m
  BY <1>2, Costs
<1>4. \E m \in 0 .. Len(line) : chosen(m)
  <2> DEFINE S == {m \in 1 .. Len(line) : fits(m)}
  <2>1. CASE S = {}
    <3>1. fits(0)
      <4>1. SubSeq(line, 1, 0) \in Seq(Branch) /\ Len(SubSeq(line, 1, 0)) = 0
        BY <1>1, <1>2
      <4>2. \A i \in DOMAIN SubSeq(line, 1, 0) : SubSeq(line, 1, 0)[i] \notin Heavy(g)
        BY <4>1
      <4>3. Cost(g, SubSeq(line, 1, 0)) = 0
        BY <4>1, <4>2, Costs
      <4> QED BY <1>1, <4>3
    <3>2. 0 < Len(line) => ~fits(1)
      BY <1>1, <2>1
    <3>3. 0 < Len(line) => Cost(g, SubSeq(line, 1, 0 + 1)) > p.free
      BY <1>1, <1>3, <3>2
    <3> QED BY <1>1, <3>1, <3>3
  <2>2. CASE S # {}
    <3>1. PICK m \in S : \A j \in S : j <= m
      <4>1. S \in SUBSET (1 .. Len(line))
        OBVIOUS
      <4> HIDE DEF S
      <4> QED BY <1>1, <2>2, <4>1, LargestOf
    <3>2. m \in 1 .. Len(line) /\ fits(m)
      OBVIOUS
    <3>3. m < Len(line) => m + 1 \in 1 .. Len(line) /\ m + 1 \notin S
      BY <1>1, <3>1, <3>2
    <3>4. m < Len(line) => Cost(g, SubSeq(line, 1, m + 1)) > p.free
      BY <1>1, <1>3, <3>2, <3>3
    <3> QED BY <3>2, <3>4
  <2> QED BY <2>1, <2>2
<1>5. n \in 0 .. Len(line) /\ chosen(n)
  <2> HIDE DEF chosen
  <2> QED BY <1>4
<1>6. q = [free |-> p.free - Cost(g, first), queue |-> rest, holders |-> p.holders \union ToSet(first)]
  BY DEF Drain
<1>7. /\ n \in Nat /\ n <= Len(line) /\ Cost(g, first) \in Nat /\ Cost(g, first) <= p.free /\ Cost(g, first) >= n
      /\ n < Len(line) => Cost(g, SubSeq(line, 1, n + 1)) > p.free
  <2> HIDE DEF n
  <2> QED BY <1>1, <1>3, <1>5
<1>18. Drain(g, p) = q
  OBVIOUS
<1> HIDE DEF n, q
<1>8. /\ first \in Seq(Branch) /\ Len(first) = n /\ \A i \in 1 .. n : first[i] = line[i]
      /\ DOMAIN first = 1 .. n
  BY <1>2, <1>5
<1>9. /\ rest \in Seq(Branch) /\ Len(rest) = Len(line) - n /\ DOMAIN rest = 1 .. (Len(line) - n)
      /\ \A i \in 1 .. (Len(line) - n) : n + i \in DOMAIN line /\ n + i \in Nat /\ rest[i] = line[n + i]
      /\ ToSet(rest) \subseteq ToSet(line)
  BY <1>1, <1>7, TailFrom
<1> DEFINE granted == {line[i] : i \in 1 .. n}
<1>10. ToSet(first) = granted
  BY <1>8 DEF ToSet
<1>11. /\ granted \subseteq Branch /\ granted \subseteq ToSet(line) /\ IsFiniteSet(p.holders \union granted)
       /\ Cardinality(p.holders \union granted) = Cardinality(p.holders) + n
  <2>1. 1 .. n \in SUBSET (DOMAIN line)
    BY <1>1, <1>7
  <2>2. Cardinality(1 .. n) = n
    BY <1>7, FS_Interval
  <2> QED BY <2>1, <2>2, Granted
<1>12. Cardinality(p.holders) \in Nat
  BY <1>1, FS_CardinalityType
<1>13. /\ \A i, j \in DOMAIN rest : rest[i] = rest[j] => i = j
       /\ \A i \in DOMAIN rest : rest[i] \notin p.holders \union granted
  <2>1. \A i \in DOMAIN rest : n + i \in DOMAIN line /\ rest[i] = line[n + i]
    <3> HIDE DEF rest
    <3> QED BY <1>9
  <2>2. \A i \in DOMAIN rest, j \in 1 .. n : line[n + i] # line[j]
    <3> SUFFICES ASSUME NEW i \in DOMAIN rest, NEW j \in 1 .. n, line[n + i] = line[j] PROVE FALSE
      OBVIOUS
    <3>1. j \in DOMAIN line /\ n + i # j
      BY <1>1, <1>7, <1>9
    <3> QED BY <2>1, <3>1 DEF PermitsSound
  <2>3. ASSUME NEW i \in DOMAIN rest, NEW j \in DOMAIN rest, rest[i] = rest[j] PROVE i = j
    <3>1. n + i = n + j
      BY <2>1, <2>3 DEF PermitsSound
    <3> QED BY <1>7, <1>9, <3>1
  <2>4. \A i \in DOMAIN rest : rest[i] \notin p.holders
    BY <2>1 DEF PermitsSound
  <2>5. \A i \in DOMAIN rest : rest[i] \notin granted
    <3> HIDE DEF rest
    <3> QED BY <2>1, <2>2
  <2> HIDE DEF rest, granted
  <2> QED BY <2>3, <2>4, <2>5
<1>14. \/ (p.holders \union granted) \intersect Heavy(g) = {} /\ p.free - Cost(g, first) + (Cardinality(p.holders) + n) = Capacity[g]
       \/ p.free - Cost(g, first) = 0 /\ \E b \in Heavy(g) : p.holders \union granted = {b}
  <2>1. CASE p.free = 0 /\ \E b \in Heavy(g) : p.holders = {b}
    <3>1. n = 0 /\ Cost(g, first) = 0
      BY <1>7, <2>1
    <3>2. granted = {}
      BY <3>1
    <3> HIDE DEF granted
    <3> QED BY <2>1, <3>1, <3>2
  <2>2. CASE p.holders \intersect Heavy(g) = {} /\ p.free + Cardinality(p.holders) = Capacity[g]
    <3>1. CASE \A i \in DOMAIN first : first[i] \notin Heavy(g)
      <4>1. Cost(g, first) = n
        BY <1>8, <3>1, Costs
      <4>2. granted \intersect Heavy(g) = {}
        BY <1>8, <3>1
      <4> HIDE DEF granted
      <4>3. (p.holders \union granted) \intersect Heavy(g) = {}
        BY <2>2, <4>2
      <4>4. p.free - n + (Cardinality(p.holders) + n) = Capacity[g]
        BY <1>1, <1>7, <1>12, <2>2
      <4> QED BY <4>1, <4>3, <4>4
    <3>2. CASE \E i \in DOMAIN first : first[i] \in Heavy(g)
      <4>1. Cost(g, first) >= n + (Capacity[g] - 1)
        BY <1>8, <3>2, Costs
      <4>2. n >= 1
        BY <1>7, <1>8, <3>2
      <4>3. n = 1 /\ Cardinality(p.holders) = 0 /\ p.free - Cost(g, first) = 0
        BY <1>1, <1>7, <1>12, <2>2, <4>1, <4>2
      <4>4. p.holders = {}
        BY <1>1, <4>3, FS_EmptySet
      <4>5. granted = {line[1]} /\ line[1] \in Heavy(g)
        BY <1>8, <3>2, <4>3
      <4> HIDE DEF granted
      <4> QED BY <4>3, <4>4, <4>5
    <3> QED BY <3>1, <3>2
  <2> QED BY <2>1, <2>2 DEF PermitsSound
<1>15. PermitsSound(g, q)
  <2>1. /\ q.free = p.free - Cost(g, first) /\ q.queue = rest /\ q.holders = p.holders \union granted
        /\ q = [free |-> q.free, queue |-> q.queue, holders |-> q.holders]
    <3> HIDE DEF rest, granted
    <3>1. q = [free |-> p.free - Cost(g, first), queue |-> rest, holders |-> p.holders \union granted]
      BY <1>6, <1>10
    <3> HIDE DEF first
    <3> QED BY <3>1
  <2>2. q.free \in Nat
    BY <1>1, <1>7, <2>1
  <2> HIDE DEF granted, rest, first, q
  <2> QED BY <1>1, <1>9, <1>11, <1>13, <1>14, <2>1, <2>2 DEF PermitsSound
<1>16. Served(g, q)
  <2> SUFFICES ASSUME rest # <<>> PROVE Weight(Head(rest), g) > p.free - Cost(g, first)
    BY <1>6 DEF Served
  <2>1. n < Len(line) /\ Head(rest) = line[n + 1] /\ n + 1 \in DOMAIN line
    BY <1>1, <1>7, <1>9
  <2>2. Cost(g, SubSeq(line, 1, n + 1)) > p.free
    BY <1>7, <2>1
  <2>3. Cost(g, SubSeq(line, 1, n + 1)) = Cost(g, first) + Weight(line[n + 1], g)
    BY <1>1, <1>7, <1>8, <2>1, OneMore
  <2>4. Weight(line[n + 1], g) \in Nat
    BY <1>1 DEF Weight
  <2> QED BY <1>1, <1>7, <2>1, <2>2, <2>3, <2>4
<1>17. Onward(p, q)
  <2>1. ToSet(rest) \subseteq ToSet(line)
    BY <1>9
  <2>2. q.queue = rest /\ q.holders = p.holders \union granted
    <3> HIDE DEF rest, granted
    <3>1. q = [free |-> p.free - Cost(g, first), queue |-> rest, holders |-> p.holders \union granted]
      BY <1>6, <1>10
    <3> HIDE DEF first
    <3> QED BY <3>1
  <2> HIDE DEF granted, rest
  <2> QED BY <1>11, <2>1, <2>2 DEF Onward
<1> QED BY <1>15, <1>16, <1>17, <1>18

\* What the listeners of an abort make of a gate.
LEMMA WithdrawSound ==
  ASSUME NEW g \in Gate, NEW p, PermitsSound(g, p)
  PROVE  /\ PermitsSound(g, WithdrawAll(g, p)) /\ WithdrawAll(g, p).queue = <<>>
         /\ Onward(p, WithdrawAll(g, p))
<1> DEFINE line == p.queue
           light(m) == {i \in 1 .. m : line[i] \notin Heavy(g)}
           pass == {i \in light(Len(line)) : Cardinality(light(i)) <= p.free}
           granted == {line[i] : i \in pass}
           q == WithdrawAll(g, p)
<1>1. /\ line \in Seq(Branch) /\ DOMAIN line = 1 .. Len(line) /\ Len(line) \in Nat
      /\ p.free \in Nat /\ p.holders \in SUBSET Branch /\ IsFiniteSet(p.holders)
  BY DEF PermitsSound
<1>2. q = [free |-> p.free - Cardinality(pass), queue |-> <<>>, holders |-> p.holders \union granted]
  BY DEF WithdrawAll
<1>3. \A m \in 0 .. Len(line) : IsFiniteSet(light(m)) /\ Cardinality(light(m)) \in Nat
  <2> SUFFICES ASSUME NEW m \in 0 .. Len(line) PROVE IsFiniteSet(light(m)) /\ Cardinality(light(m)) \in Nat
    OBVIOUS
  <2>1. IsFiniteSet(1 .. m)
    BY <1>1, FS_Interval
  <2> QED BY <2>1, FS_Subset, FS_CardinalityType
<1>4. pass \in SUBSET (1 .. Len(line)) /\ pass \in SUBSET (DOMAIN line) /\ \A i \in pass : line[i] \notin Heavy(g)
  BY <1>1
<1>5. IsFiniteSet(pass) /\ Cardinality(pass) \in Nat
  <2>1. IsFiniteSet(1 .. Len(line))
    BY <1>1, FS_Interval
  <2> HIDE DEF pass
  <2> QED BY <1>4, <2>1, FS_Subset, FS_CardinalityType
<1>6. Cardinality(pass) <= p.free
  <2>1. CASE pass = {}
    <3>1. Cardinality(pass) = 0
      BY <2>1, FS_EmptySet
    <3> QED BY <1>1, <3>1
  <2>2. CASE pass # {}
    <3>1. PICK m \in pass : \A j \in pass : j <= m
      <4> HIDE DEF pass
      <4> QED BY <1>1, <1>4, <2>2, LargestOf
    <3>2. m \in 0 .. Len(line) /\ Cardinality(light(m)) <= p.free
      BY <1>1, <3>1
    <3>3. pass \subseteq light(m)
      <4> SUFFICES ASSUME NEW i \in pass PROVE i \in 1 .. m /\ line[i] \notin Heavy(g)
        OBVIOUS
      <4>1. i \in 1 .. Len(line) /\ i <= m /\ line[i] \notin Heavy(g)
        BY <3>1
      <4> HIDE DEF pass
      <4> QED BY <1>1, <1>4, <4>1
    <3>4. IsFiniteSet(light(m)) /\ Cardinality(light(m)) \in Nat
      BY <1>3, <3>2
    <3>5. Cardinality(pass) <= Cardinality(light(m))
      <4> HIDE DEF pass, light
      <4> QED BY <3>3, <3>4, FS_Subset
    <3> HIDE DEF pass, light
    <3> QED BY <1>1, <1>5, <3>2, <3>4, <3>5
  <2> QED BY <2>1, <2>2
<1>7. /\ granted \subseteq Branch /\ granted \subseteq ToSet(line) /\ IsFiniteSet(p.holders \union granted)
      /\ Cardinality(p.holders \union granted) = Cardinality(p.holders) + Cardinality(pass)
  <2> HIDE DEF pass
  <2> QED BY <1>4, Granted
<1>8. Cardinality(p.holders) \in Nat
  BY <1>1, FS_CardinalityType
<1>9. p.free = 0 => pass = {}
  <2> SUFFICES ASSUME p.free = 0, NEW i \in pass PROVE FALSE
    OBVIOUS
  <2>1. i \in 0 .. Len(line) /\ i \in light(i) /\ Cardinality(light(i)) <= 0
    BY <1>1
  <2>2. IsFiniteSet(light(i)) /\ Cardinality(light(i)) \in Nat
    BY <1>3, <2>1
  <2>3. Cardinality(light(i)) = 0
    BY <2>1, <2>2
  <2>4. light(i) = {}
    <3> HIDE DEF light
    <3> QED BY <2>2, <2>3, FS_EmptySet
  <2> QED BY <2>1, <2>4
<1> HIDE DEF q
<1>10. \/ (p.holders \union granted) \intersect Heavy(g) = {} /\ p.free - Cardinality(pass) + (Cardinality(p.holders) + Cardinality(pass)) = Capacity[g]
       \/ p.free - Cardinality(pass) = 0 /\ \E b \in Heavy(g) : p.holders \union granted = {b}
  <2>1. CASE p.free = 0 /\ \E b \in Heavy(g) : p.holders = {b}
    <3>1. pass = {}
      BY <1>9, <2>1
    <3>2. granted = {}
      BY <3>1
    <3>3. Cardinality(pass) = 0
      BY <3>1, FS_EmptySet
    <3> HIDE DEF granted, pass
    <3> QED BY <2>1, <3>2, <3>3
  <2>2. CASE p.holders \intersect Heavy(g) = {} /\ p.free + Cardinality(p.holders) = Capacity[g]
    <3>1. granted \intersect Heavy(g) = {}
      BY <1>4
    <3> HIDE DEF granted, pass
    <3>2. (p.holders \union granted) \intersect Heavy(g) = {}
      BY <2>2, <3>1
    <3> DEFINE c == Cardinality(p.holders)
               n == Cardinality(pass)
    <3>3. p.free - n + (c + n) = Capacity[g]
      <4>1. c \in Nat /\ n \in Nat /\ p.free + c = Capacity[g]
        BY <1>5, <1>8, <2>2
      <4> HIDE DEF c, n
      <4> QED BY <1>1, <4>1
    <3> QED BY <3>2, <3>3
  <2> QED BY <2>1, <2>2 DEF PermitsSound
<1>11. /\ q.free = p.free - Cardinality(pass) /\ q.queue = <<>> /\ q.holders = p.holders \union granted
       /\ q = [free |-> q.free, queue |-> q.queue, holders |-> q.holders]
  <2> HIDE DEF pass, granted
  <2> QED BY <1>2
<1>12. q.free \in Nat
  <2> HIDE DEF pass
  <2> QED BY <1>1, <1>5, <1>6, <1>11
<1>13. PermitsSound(g, q)
  <2>1. <<>> \in Seq(Branch) /\ DOMAIN <<>> = {}
    OBVIOUS
  <2> HIDE DEF pass, granted
  <2> QED BY <1>1, <1>7, <1>10, <1>11, <1>12, <2>1 DEF PermitsSound
<1>14. Onward(p, q)
  <2>1. ToSet(<<>>) = {}
    BY DEF ToSet
  <2> HIDE DEF pass, granted
  <2> QED BY <1>7, <1>11, <2>1 DEF Onward
<1> QED BY <1>11, <1>13, <1>14 DEF q

\* A gate is a record of three fields.
LEMMA Changed ==
  ASSUME NEW f, NEW s, NEW h, NEW p, p = [free |-> f, queue |-> s, holders |-> h], NEW x, NEW y
  PROVE  /\ [p EXCEPT !.queue = x] = [free |-> f, queue |-> x, holders |-> h]
         /\ [p EXCEPT !.free = x, !.holders = y] = [free |-> x, queue |-> s, holders |-> y]
<1> DEFINE q == [p EXCEPT !.free = x]
<1>1. q = [free |-> x, queue |-> s, holders |-> h]
  OBVIOUS
<1>2. [p EXCEPT !.free = x, !.holders = y] = [q EXCEPT !.holders = y]
  OBVIOUS
<1>3. [q EXCEPT !.holders = y] = [free |-> x, queue |-> s, holders |-> y]
  <2> HIDE DEF q
  <2> QED BY <1>1
<1>4. [p EXCEPT !.queue = x] = [free |-> f, queue |-> x, holders |-> h]
  OBVIOUS
<1> QED BY <1>2, <1>3, <1>4

\* A new waiter goes to the end and is served in its turn.
LEMMA JoinSound ==
  ASSUME NEW g \in Gate, NEW p, PermitsSound(g, p),
         NEW b \in Branch, b \notin ToSet(p.queue), b \notin p.holders
  PROVE  /\ PermitsSound(g, Join(g, p, b)) /\ Served(g, Join(g, p, b))
         /\ p.holders \subseteq Join(g, p, b).holders
         /\ Join(g, p, b).holders \subseteq p.holders \union ToSet(p.queue) \union {b}
         /\ ToSet(Join(g, p, b).queue) \subseteq ToSet(p.queue) \union {b}
<1> DEFINE line == p.queue
           r == [p EXCEPT !.queue = Append(@, b)]
           more == Append(line, b)
           n == Len(line)
<1>1. /\ line \in Seq(Branch) /\ DOMAIN line = 1 .. n /\ n \in Nat
      /\ p = [free |-> p.free, queue |-> line, holders |-> p.holders]
  BY DEF PermitsSound
<1>2. /\ r.free = p.free /\ r.queue = more /\ r.holders = p.holders
      /\ r = [free |-> r.free, queue |-> r.queue, holders |-> r.holders]
  <2>1. r = [free |-> p.free, queue |-> more, holders |-> p.holders]
    <3>1. r = [p EXCEPT !.queue = more]
      OBVIOUS
    <3> HIDE DEF more, r
    <3> QED BY <1>1, <3>1, Changed
  <2> HIDE DEF more, r
  <2> QED BY <2>1
<1>3. /\ more \in Seq(Branch) /\ DOMAIN more = 1 .. (n + 1) /\ more[n + 1] = b
      /\ \A i \in 1 .. n : more[i] = line[i] /\ line[i] # b
  BY <1>1 DEF ToSet
<1>4. \A i \in 1 .. (n + 1) : i \in 1 .. n \/ i = n + 1
  BY <1>1
<1> HIDE DEF more, r
<1>5. /\ \A i, j \in DOMAIN more : more[i] = more[j] => i = j
      /\ \A i \in DOMAIN more : more[i] \notin p.holders
  BY <1>1, <1>3, <1>4 DEF PermitsSound
<1>6. PermitsSound(g, r)
  BY <1>2, <1>3, <1>5 DEF PermitsSound
<1>7. ToSet(more) = ToSet(line) \union {b}
  BY <1>1, <1>3, <1>4 DEF ToSet
<1>8. Join(g, p, b) = Drain(g, r)
  BY DEF Join, r
<1>9. PermitsSound(g, Drain(g, r)) /\ Served(g, Drain(g, r)) /\ Onward(r, Drain(g, r))
  BY <1>6, DrainSound
<1> QED BY <1>2, <1>7, <1>8, <1>9 DEF Onward

\* Who releases holds nothing any more, and those who waited are served.
LEMMA ReturnSound ==
  ASSUME NEW g \in Gate, NEW p, PermitsSound(g, p), Served(g, p), NEW b \in Branch
  PROVE  /\ PermitsSound(g, Return(g, p, b)) /\ Served(g, Return(g, p, b))
         /\ b \notin Return(g, p, b).holders
         /\ p.holders \ {b} \subseteq Return(g, p, b).holders
         /\ Return(g, p, b).holders \subseteq p.holders \union ToSet(p.queue)
         /\ ToSet(Return(g, p, b).queue) \subseteq ToSet(p.queue)
<1>1. CASE b \notin p.holders
  <2>1. Return(g, p, b) = p
    BY <1>1 DEF Return
  <2> QED BY <1>1, <2>1
<1>2. CASE b \in p.holders
  <2> DEFINE r == [p EXCEPT !.free = @ + Weight(b, g), !.holders = @ \ {b}]
             left == p.holders \ {b}
             c == Cardinality(p.holders)
  <2>1. /\ p.queue \in Seq(Branch) /\ DOMAIN p.queue = 1 .. Len(p.queue)
        /\ p.free \in Nat /\ p.holders \in SUBSET Branch /\ IsFiniteSet(p.holders)
        /\ p = [free |-> p.free, queue |-> p.queue, holders |-> p.holders]
    BY DEF PermitsSound
  <2>2. /\ r.free = p.free + Weight(b, g) /\ r.queue = p.queue /\ r.holders = left
        /\ r = [free |-> r.free, queue |-> r.queue, holders |-> r.holders]
    <3>1. r = [free |-> p.free + Weight(b, g), queue |-> p.queue, holders |-> left]
      <4>1. r = [p EXCEPT !.free = p.free + Weight(b, g), !.holders = left]
        BY DEF r
      <4> HIDE DEF left, r
      <4> QED BY <2>1, <4>1, Changed
    <3> HIDE DEF left, r
    <3> QED BY <3>1
  <2>3. left \in SUBSET Branch /\ IsFiniteSet(left) /\ Cardinality(left) = c - 1 /\ c \in Nat
    BY <1>2, <2>1, FS_RemoveElement, FS_CardinalityType
  <2> HIDE DEF r
  <2>4. /\ left \intersect Heavy(g) = {} /\ p.free + Weight(b, g) \in Nat
        /\ p.free + Weight(b, g) + Cardinality(left) = Capacity[g]
    <3>1. CASE p.holders \intersect Heavy(g) = {} /\ p.free + c = Capacity[g]
      <4>1. Weight(b, g) = 1
        BY <1>2, <3>1 DEF Weight
      <4>2. left \intersect Heavy(g) = {}
        BY <3>1
      <4> HIDE DEF left, c
      <4> QED BY <2>1, <2>3, <3>1, <4>1, <4>2
    <3>2. CASE p.free = 0 /\ \E a \in Heavy(g) : p.holders = {a}
      <4>1. b \in Heavy(g) /\ left = {}
        BY <1>2, <3>2
      <4>2. Weight(b, g) = Capacity[g] /\ Cardinality(left) = 0
        BY <4>1, FS_EmptySet DEF Weight
      <4>3. Capacity[g] \in Nat
        BY CapacityFact
      <4> HIDE DEF left
      <4> QED BY <3>2, <4>1, <4>2, <4>3
    <3> QED BY <3>1, <3>2 DEF PermitsSound
  <2>5. PermitsSound(g, r)
    <3> HIDE DEF c
    <3>1. r.holders \subseteq p.holders
      BY <2>2
    <3> HIDE DEF left
    <3> QED BY <2>1, <2>2, <2>3, <2>4, <3>1 DEF PermitsSound
  <2>6. Return(g, p, b) = Drain(g, r)
    BY <1>2 DEF Return, r
  <2>7. PermitsSound(g, Drain(g, r)) /\ Served(g, Drain(g, r)) /\ Onward(r, Drain(g, r))
    BY <2>5, DrainSound
  <2>8. b \notin ToSet(p.queue)
    BY <1>2, <2>1 DEF PermitsSound, ToSet
  <2> QED BY <2>2, <2>6, <2>7, <2>8 DEF Onward
<1> QED BY <1>1, <1>2

\* The gates of a new executor.
LEMMA FreshSound ==
  ASSUME NEW g \in Gate
  PROVE  PermitsSound(g, FreshGate[g]) /\ FreshGate[g].queue = <<>> /\ FreshGate[g].holders = {}
<1> DEFINE p == FreshGate[g]
<1>1. p = [free |-> Capacity[g], queue |-> <<>>, holders |-> {}]
  BY DEF FreshGate
<1>2. /\ p.free = Capacity[g] /\ p.queue = <<>> /\ p.holders = {}
      /\ p = [free |-> p.free, queue |-> p.queue, holders |-> p.holders]
  BY <1>1
<1>3. Capacity[g] \in Nat
  BY CapacityFact
<1>4. IsFiniteSet({}) /\ Cardinality({}) = 0
  BY FS_EmptySet
<1> HIDE DEF p
<1>5. PermitsSound(g, p)
  BY <1>2, <1>3, <1>4 DEF PermitsSound
<1> QED BY <1>2, <1>5 DEF p

Waits(b, g) == b \in ToSet(gate[g].queue)

\* A branch asks for its gates in their order, one at a time, and keeps those it was granted.
InOrder(b) ==
  /\ \A g \in Gate : Holds(b, g) \/ Waits(b, g) => g \in ToSet(GatesOf[b])
  /\ \A i, j \in DOMAIN GatesOf[b] :
       j < i /\ (Holds(b, GatesOf[b][i]) \/ Waits(b, GatesOf[b][i])) => Holds(b, GatesOf[b][j])

\* Whether it holds and waits is what its place says.
Placed(b) ==
  /\ Windows(b) => HoldsAll(b)
  /\ Settled(b) => \A g \in Gate : ~Holds(b, g)
  /\ \A g \in Gate : Waits(b, g) => place[b] = "admitted"

Silent(c) == spent[c] = [in |-> 0, out |-> 0]

\* The gates, the branches at them, and the calls that are still to answer.
GateInv ==
  /\ gate = [g \in Gate |-> gate[g]]
  /\ \A g \in Gate : PermitsSound(g, gate[g]) /\ Served(g, gate[g])
  /\ \A b \in Branch : InOrder(b) /\ Placed(b)
  /\ \A b \in Branch : place[b] = "calling" => Silent(calling[b])
  /\ \A c \in Call : row[c] = NoRow => Silent(c)

\* The gate a branch asks for next is the first it does not hold.
LEMMA NextInOrder ==
  ASSUME NEW b \in Branch, ~HoldsAll(b)
  PROVE  \E i \in DOMAIN GatesOf[b] :
           /\ NextGate(b) = GatesOf[b][i] /\ ~Holds(b, GatesOf[b][i])
           /\ \A j \in DOMAIN GatesOf[b] : j < i => Holds(b, GatesOf[b][j])
<1> DEFINE s == GatesOf[b]
           S == {i \in 1 .. Len(s) : ~Holds(b, s[i])}
           first(i) == ~Holds(b, s[i]) /\ \A j \in 1 .. (i - 1) : Holds(b, s[j])
<1>1. s \in Seq(Gate) /\ DOMAIN s = 1 .. Len(s) /\ Len(s) \in Nat
  BY RunInvocationsAssumption
<1>2. S # {} /\ S \in SUBSET Nat
  BY <1>1 DEF HoldsAll, ToSet
<1>3. PICK i \in S : \A j \in S : i <= j
  <2> HIDE DEF S
  <2> QED BY <1>2, SmallestOf
<1>4. i \in 1 .. Len(s) /\ first(i)
  <2>1. \A j \in 1 .. (i - 1) : j \in 1 .. Len(s) /\ j \in Nat /\ ~(i <= j)
    BY <1>1, <1>3
  <2> QED BY <1>3, <2>1
<1> DEFINE k == CHOOSE i_1 \in 1 .. Len(s) : first(i_1)
<1>5. k \in 1 .. Len(s) /\ first(k)
  <2> HIDE DEF first
  <2> QED BY <1>4
<1>6. NextGate(b) = s[k]
  BY DEF NextGate
<1> HIDE DEF k
<1>7. \A j \in DOMAIN s : j < k => j \in 1 .. (k - 1)
  BY <1>1, <1>5
<1> QED BY <1>1, <1>5, <1>6, <1>7

\* A branch asks for no gate twice.
LEMMA Distinct ==
  ASSUME NEW b \in Branch, NEW i \in DOMAIN GatesOf[b], NEW j \in DOMAIN GatesOf[b], GatesOf[b][i] = GatesOf[b][j]
  PROVE  i = j
<1>1. PICK rank \in [Gate -> 1..Cardinality(Gate)] :
        \A a \in Branch : \A m, n \in DOMAIN GatesOf[a] : m < n => rank[GatesOf[a][m]] < rank[GatesOf[a][n]]
  BY GateOrderAssumption
<1>2. GatesOf[b] \in Seq(Gate)
  BY RunInvocationsAssumption
<1>3. i \in Nat /\ j \in Nat /\ GatesOf[b][i] \in Gate
  BY <1>2
<1>4. rank[GatesOf[b][i]] \in Int
  <2>1. Cardinality(Gate) \in Nat
    BY RunInvocationsAssumption, FS_CardinalityType
  <2> QED BY <1>1, <1>3, <2>1
<1>5. i < j \/ j < i \/ i = j
  BY <1>3
<1>6. (i < j => rank[GatesOf[b][i]] < rank[GatesOf[b][j]]) /\ (j < i => rank[GatesOf[b][j]] < rank[GatesOf[b][i]])
  BY <1>1
<1> QED BY <1>4, <1>5, <1>6

\* A writer that may work holds the effect gate alone.
LEMMA WritesAlone ==
  GateInv => \A b \in Writer, a \in Branch : Windows(a) /\ Windows(b) => a = b
<1> SUFFICES ASSUME GateInv, NEW b \in Writer, NEW a \in Branch, Windows(a), Windows(b) PROVE a = b
  OBVIOUS
<1>1. b \in Branch /\ EffectGate \in Gate
  BY RunInvocationsAssumption
<1>2. a \in gate[EffectGate].holders /\ b \in gate[EffectGate].holders
  BY <1>1, GateOrderAssumption DEF GateInv, Placed, HoldsAll, Holds
<1>3. PermitsSound(EffectGate, gate[EffectGate])
  BY <1>1 DEF GateInv
<1> QED BY <1>2, <1>3 DEF PermitsSound, Heavy

\* Where the first waiter does not fit somebody holds a permit.
LEMMA HeldBySomebody ==
  ASSUME NEW g \in Gate, NEW p, PermitsSound(g, p), Served(g, p), p.queue # <<>>
  PROVE  p.holders # {}
<1> SUFFICES ASSUME p.holders = {} PROVE FALSE
  OBVIOUS
<1>1. Cardinality(p.holders) = 0
  BY FS_EmptySet
<1>2. p.free = Capacity[g] /\ Capacity[g] \in Nat \ {0}
  BY <1>1, CapacityFact DEF PermitsSound
<1>3. Weight(Head(p.queue), g) <= Capacity[g]
  BY <1>2 DEF Weight
<1>4. Weight(Head(p.queue), g) \in Nat
  BY <1>2 DEF Weight
<1> QED BY <1>2, <1>3, <1>4 DEF Served

\* Of the branches that hold the last gate where anybody waits, none waits itself.
LEMMA OneGoesOn ==
  BudgetInv /\ GateInv => ((\E b \in Branch : ~Settled(b)) => \E b \in Branch : GoesOn(b))
<1> SUFFICES ASSUME BudgetInv, GateInv, NEW b \in Branch, ~Settled(b) PROVE \E a \in Branch : GoesOn(a)
  OBVIOUS
<1>1. ASSUME NEW a \in Branch, ~Settled(a), ~Queued(a) PROVE GoesOn(a)
  BY <1>1 DEF BudgetInv, InFlight, GateInv, Silent, GoesOn
<1>2. CASE \A g \in Gate : gate[g].queue = <<>>
  <2>1. ToSet(<<>>) = {}
    BY DEF ToSet
  <2>2. ~Queued(b)
    BY <1>2, <2>1 DEF Queued
  <2> QED BY <1>1, <2>2
<1>3. CASE \E g \in Gate : gate[g].queue # <<>>
  <2>1. PICK rank \in [Gate -> 1..Cardinality(Gate)] :
          \A a \in Branch : \A m, n \in DOMAIN GatesOf[a] : m < n => rank[GatesOf[a][m]] < rank[GatesOf[a][n]]
    BY GateOrderAssumption
  <2>2. Cardinality(Gate) \in Nat
    BY RunInvocationsAssumption, FS_CardinalityType
  <2> DEFINE S == {rank[g] : g \in {h \in Gate : gate[h].queue # <<>>}}
  <2>3. PICK n \in S : \A m \in S : m <= n
    <3>1. S \in SUBSET (1 .. Cardinality(Gate)) /\ S # {}
      BY <1>3, <2>1
    <3> HIDE DEF S
    <3> QED BY <2>2, <3>1, LargestOf
  <2>4. PICK g \in Gate : gate[g].queue # <<>> /\ n = rank[g]
    OBVIOUS
  <2>5. PICK a : a \in gate[g].holders
    BY <2>4, HeldBySomebody DEF GateInv
  <2>6. a \in Branch /\ Holds(a, g) /\ ~Settled(a)
    BY <2>4, <2>5 DEF GateInv, PermitsSound, Placed, Holds
  <2>7. ~Queued(a)
    <3> SUFFICES ASSUME NEW h \in Gate, Waits(a, h) PROVE FALSE
      BY DEF Queued, Waits
    <3>1. ~Holds(a, h)
      BY DEF GateInv, PermitsSound, Holds, Waits, ToSet
    <3>2. GatesOf[a] \in Seq(Gate)
      BY <2>6, RunInvocationsAssumption
    <3>3. PICK i \in DOMAIN GatesOf[a] : GatesOf[a][i] = g
      BY <2>4, <2>6, <3>2 DEF GateInv, InOrder, ToSet
    <3>4. PICK j \in DOMAIN GatesOf[a] : GatesOf[a][j] = h
      BY <2>6, <3>2 DEF GateInv, InOrder, ToSet
    <3>5. i \in Nat /\ j \in Nat /\ i # j
      BY <2>6, <3>1, <3>2, <3>3, <3>4
    <3>6. ~(j < i)
      BY <2>6, <3>1, <3>3, <3>4 DEF GateInv, InOrder
    <3>7. rank[g] < rank[h]
      BY <2>1, <2>6, <3>3, <3>4, <3>5, <3>6
    <3>8. gate[h].queue # <<>>
      BY DEF Waits, ToSet
    <3>9. rank[h] <= rank[g]
      BY <2>3, <2>4, <3>8
    <3>10. rank[g] \in Int /\ rank[h] \in Int
      BY <2>1, <2>2, <2>4
    <3> HIDE DEF S
    <3> QED BY <3>7, <3>9, <3>10
  <2> QED BY <1>1, <2>6, <2>7
<1> QED BY <1>2, <1>3

\* A branch that moves on between its windows, or whose waits end one by one, stays in order.
LEMMA KeepsOrder ==
  ASSUME GateInv, NEW b \in Branch,
         \A g \in Gate : /\ Holds(b, g) => Holds(b, g)'
                         /\ Holds(b, g)' => Holds(b, g) \/ Waits(b, g)
                         /\ Waits(b, g)' => Waits(b, g)
  PROVE  InOrder(b)'
<1>1. GatesOf[b] \in Seq(Gate)
  BY RunInvocationsAssumption
<1>2. \A i \in DOMAIN GatesOf[b] : GatesOf[b][i] \in Gate
  BY <1>1
<1>3. InOrder(b)
  BY DEF GateInv
<1>4. \A g \in Gate : Holds(b, g)' \/ Waits(b, g)' => Holds(b, g) \/ Waits(b, g)
  OBVIOUS
<1>5. \A g \in Gate : Holds(b, g)' \/ Waits(b, g)' => g \in ToSet(GatesOf[b])
  BY <1>3, <1>4 DEF InOrder
<1>6. ASSUME NEW i \in DOMAIN GatesOf[b], NEW j \in DOMAIN GatesOf[b], j < i,
             Holds(b, GatesOf[b][i])' \/ Waits(b, GatesOf[b][i])'
      PROVE  Holds(b, GatesOf[b][j])'
  BY <1>2, <1>3, <1>4, <1>6 DEF InOrder
<1> QED BY <1>5, <1>6 DEF InOrder

\* Nor do they contradict its place.
LEMMA KeepsPlace ==
  ASSUME GateInv, NEW b \in Branch, place'[b] = place[b],
         \A g \in Gate : /\ Holds(b, g) => Holds(b, g)'
                         /\ Holds(b, g)' => Holds(b, g) \/ Waits(b, g)
                         /\ Waits(b, g)' => Waits(b, g)
  PROVE  Placed(b)'
<1>1. GatesOf[b] \in Seq(Gate)
  BY RunInvocationsAssumption
<1>2. ToSet(GatesOf[b]) \subseteq Gate
  BY <1>1 DEF ToSet
<1>3. Placed(b)
  BY DEF GateInv
<1>4. Windows(b)' => HoldsAll(b)'
  BY <1>2, <1>3 DEF Placed, Windows, HoldsAll
<1>5. \A g \in Gate : Waits(b, g)' => place'[b] = "admitted"
  BY <1>3 DEF Placed
<1>6. Settled(b)' => \A g \in Gate : ~Holds(b, g)'
  BY <1>3 DEF Placed, Settled
<1> QED BY <1>4, <1>5, <1>6 DEF Placed

\* A branch that moves while the gates stand still.
LEMMA MovesOn ==
  ASSUME GateInv, NEW b \in Branch, gate' = gate,
         Windows(b)' => HoldsAll(b), Settled(b)' => Settled(b),
         place'[b] = place[b] \/ \A g \in Gate : ~Waits(b, g)
  PROVE  InOrder(b)' /\ Placed(b)'
<1>1. \A g \in Gate : Holds(b, g)' = Holds(b, g) /\ Waits(b, g)' = Waits(b, g)
  BY DEF Holds, Waits
<1>2. InOrder(b)'
  BY <1>1, KeepsOrder
<1>3. HoldsAll(b)' = HoldsAll(b)
  BY DEF HoldsAll, Holds
<1> QED BY <1>1, <1>2, <1>3 DEF Placed, GateInv

\* A step that leaves the gates, and moves at most one branch that keeps what it holds.
LEMMA GatesStand ==
  ASSUME BudgetInv, GateInv, gate' = gate, NEW b \in Branch, NEW to \in Places, place' = [place EXCEPT ![b] = to],
         to \in {"operating", "offering", "calling", "returned", "failing"} => HoldsAll(b),
         to \in {"idle", "done", "stopped"} => Settled(b),
         to = place[b] \/ ~Queued(b)
  PROVE  /\ gate' = [g \in Gate |-> gate'[g]]
         /\ \A g \in Gate : PermitsSound(g, gate'[g]) /\ Served(g, gate'[g])
         /\ \A a \in Branch : InOrder(a)' /\ Placed(a)'
<1>1. gate' = [g \in Gate |-> gate'[g]] /\ \A g \in Gate : PermitsSound(g, gate'[g]) /\ Served(g, gate'[g])
  BY DEF GateInv
<1>2. place'[b] = to /\ \A a \in Branch : a # b => place'[a] = place[a]
  BY DEF BudgetInv
<1>3. InOrder(b)' /\ Placed(b)'
  <2>1. /\ Windows(b)' => HoldsAll(b)
        /\ Settled(b)' => Settled(b)
    BY <1>2 DEF Windows, Settled
  <2>2. place'[b] = place[b] \/ \A g \in Gate : ~Waits(b, g)
    BY <1>2 DEF Queued, Waits
  <2> QED BY <2>1, <2>2, MovesOn
<1>4. ASSUME NEW a \in Branch, a # b PROVE InOrder(a)' /\ Placed(a)'
  <2>1. place'[a] = place[a]
    BY <1>2, <1>4
  <2>2. (Windows(a)' => HoldsAll(a)) /\ (Settled(a)' => Settled(a))
    BY <2>1 DEF Windows, Settled, GateInv, Placed
  <2> QED BY <2>1, <2>2, MovesOn
<1> QED BY <1>1, <1>3, <1>4

\* A branch that ends releases all it holds; the others keep theirs.
LEMMA GatesFreed ==
  ASSUME BudgetInv, GateInv, NEW b \in Branch, Free(b), ~Queued(b),
         NEW to \in {"idle", "done", "stopped"}, place' = [place EXCEPT ![b] = to]
  PROVE  /\ gate' = [g \in Gate |-> gate'[g]]
         /\ \A g \in Gate : PermitsSound(g, gate'[g]) /\ Served(g, gate'[g])
         /\ \A a \in Branch : InOrder(a)' /\ Placed(a)'
<1>1. \A g \in Gate : gate'[g] = Return(g, gate[g], b)
  BY DEF Free
<1>2. gate' = [g \in Gate |-> gate'[g]]
  BY DEF Free
<1>3. \A g \in Gate :
        /\ PermitsSound(g, gate'[g]) /\ Served(g, gate'[g])
        /\ b \notin gate'[g].holders
        /\ gate[g].holders \ {b} \subseteq gate'[g].holders
        /\ gate'[g].holders \subseteq gate[g].holders \union ToSet(gate[g].queue)
        /\ ToSet(gate'[g].queue) \subseteq ToSet(gate[g].queue)
  <2> SUFFICES ASSUME NEW g \in Gate
               PROVE  /\ PermitsSound(g, gate'[g]) /\ Served(g, gate'[g])
                      /\ b \notin gate'[g].holders
                      /\ gate[g].holders \ {b} \subseteq gate'[g].holders
                      /\ gate'[g].holders \subseteq gate[g].holders \union ToSet(gate[g].queue)
                      /\ ToSet(gate'[g].queue) \subseteq ToSet(gate[g].queue)
    OBVIOUS
  <2>1. PermitsSound(g, gate[g]) /\ Served(g, gate[g])
    BY DEF GateInv
  <2>2. gate'[g] = Return(g, gate[g], b)
    BY <1>1
  <2> QED BY <2>1, <2>2, ReturnSound
<1>4. place'[b] = to /\ \A a \in Branch : a # b => place'[a] = place[a]
  BY DEF BudgetInv
<1>5. \A g \in Gate : ~Holds(b, g)' /\ ~Waits(b, g)'
  BY <1>3 DEF Holds, Waits, Queued
<1>6. InOrder(b)' /\ Placed(b)'
  <2>1. GatesOf[b] \in Seq(Gate)
    BY RunInvocationsAssumption
  <2>2. \A i \in DOMAIN GatesOf[b] : GatesOf[b][i] \in Gate
    BY <2>1
  <2>3. InOrder(b)'
    BY <1>5, <2>2 DEF InOrder
  <2>4. ~Windows(b)'
    BY <1>4 DEF Windows
  <2> QED BY <1>5, <2>3, <2>4 DEF Placed
<1>7. ASSUME NEW a \in Branch, a # b PROVE InOrder(a)' /\ Placed(a)'
  <2>1. \A g \in Gate : /\ Holds(a, g) => Holds(a, g)'
                        /\ Holds(a, g)' => Holds(a, g) \/ Waits(a, g)
                        /\ Waits(a, g)' => Waits(a, g)
    BY <1>3, <1>7 DEF Holds, Waits
  <2> QED BY <1>4, <1>7, <2>1, KeepsOrder, KeepsPlace
<1> QED BY <1>2, <1>3, <1>6, <1>7

\* A branch asks for its next gate.
LEMMA GateJoined ==
  ASSUME BudgetInv, GateInv, NEW b \in Branch, Acquire(b)
  PROVE  /\ gate' = [g \in Gate |-> gate'[g]]
         /\ \A g \in Gate : PermitsSound(g, gate'[g]) /\ Served(g, gate'[g])
         /\ \A a \in Branch : InOrder(a)' /\ Placed(a)'
<1>1. place[b] = "admitted" /\ ~Queued(b) /\ ~HoldsAll(b) /\ place' = place
  BY DEF Acquire
<1>2. PICK i \in DOMAIN GatesOf[b] :
        /\ NextGate(b) = GatesOf[b][i] /\ ~Holds(b, GatesOf[b][i])
        /\ \A j \in DOMAIN GatesOf[b] : j < i => Holds(b, GatesOf[b][j])
  BY <1>1, NextInOrder
<1> DEFINE h == GatesOf[b][i]
<1>3. GatesOf[b] \in Seq(Gate) /\ h \in Gate /\ h \in ToSet(GatesOf[b])
  BY RunInvocationsAssumption DEF ToSet
<1>4. gate' = [gate EXCEPT ![h] = Join(h, gate[h], b)]
  BY <1>2 DEF Acquire
<1> HIDE DEF h
<1>5. gate'[h] = Join(h, gate[h], b) /\ \A g \in Gate : g # h => gate'[g] = gate[g]
  BY <1>3, <1>4 DEF GateInv
<1>6. gate' = [g \in Gate |-> gate'[g]]
  BY <1>4 DEF GateInv
<1>7. /\ PermitsSound(h, gate'[h]) /\ Served(h, gate'[h])
      /\ gate[h].holders \subseteq gate'[h].holders
      /\ gate'[h].holders \subseteq gate[h].holders \union ToSet(gate[h].queue) \union {b}
      /\ ToSet(gate'[h].queue) \subseteq ToSet(gate[h].queue) \union {b}
  <2>1. PermitsSound(h, gate[h]) /\ b \notin ToSet(gate[h].queue) /\ b \notin gate[h].holders
    BY <1>1, <1>2, <1>3 DEF GateInv, Queued, Holds, h
  <2> QED BY <1>3, <1>5, <2>1, JoinSound
<1>8. \A g \in Gate : PermitsSound(g, gate'[g]) /\ Served(g, gate'[g])
  BY <1>5, <1>7 DEF GateInv
<1>9. \A g \in Gate : g # h => Holds(b, g)' = Holds(b, g) /\ ~Waits(b, g)'
  BY <1>1, <1>5 DEF Holds, Waits, Queued
<1>10. \A g \in Gate : Holds(b, g) => Holds(b, g)'
  BY <1>7, <1>9 DEF Holds
<1>11. \A j \in DOMAIN GatesOf[b] : GatesOf[b][j] \in Gate
  BY <1>3
<1>12. InOrder(b)'
  <2>1. \A g \in Gate : Holds(b, g)' \/ Waits(b, g)' => g \in ToSet(GatesOf[b])
    BY <1>3, <1>9 DEF GateInv, InOrder
  <2>2. ASSUME NEW m \in DOMAIN GatesOf[b], NEW j \in DOMAIN GatesOf[b], j < m,
               Holds(b, GatesOf[b][m])' \/ Waits(b, GatesOf[b][m])'
        PROVE  Holds(b, GatesOf[b][j])'
    <3>1. CASE GatesOf[b][m] = h
      <4>1. m = i
        BY <3>1, Distinct DEF h
      <4> QED BY <1>2, <1>10, <1>11, <2>2, <4>1
    <3>2. CASE GatesOf[b][m] # h
      <4>1. Holds(b, GatesOf[b][m])
        BY <1>9, <1>11, <2>2, <3>2
      <4>2. Holds(b, GatesOf[b][j])
        BY <2>2, <4>1 DEF GateInv, InOrder
      <4> QED BY <1>10, <1>11, <4>2
    <3> QED BY <3>1, <3>2
  <2> QED BY <2>1, <2>2 DEF InOrder
<1>13. Placed(b)'
  BY <1>1 DEF Placed, Windows, Settled
<1>14. ASSUME NEW a \in Branch, a # b PROVE InOrder(a)' /\ Placed(a)'
  <2>1. \A g \in Gate : /\ Holds(a, g) => Holds(a, g)'
                        /\ Holds(a, g)' => Holds(a, g) \/ Waits(a, g)
                        /\ Waits(a, g)' => Waits(a, g)
    BY <1>5, <1>7, <1>14 DEF Holds, Waits
  <2> QED BY <1>1, <1>14, <2>1, KeepsOrder, KeepsPlace
<1> QED BY <1>6, <1>8, <1>12, <1>13, <1>14

\* An abort lets all waiters go, some of them with a permit.
LEMMA GatesAborted ==
  ASSUME BudgetInv, GateInv, Abort
  PROVE  /\ gate' = [g \in Gate |-> gate'[g]]
         /\ \A g \in Gate : PermitsSound(g, gate'[g]) /\ Served(g, gate'[g])
         /\ \A a \in Branch : InOrder(a)' /\ Placed(a)'
<1>1. place' = place /\ gate' = [g \in Gate |-> gate'[g]] /\ \A g \in Gate : gate'[g] = WithdrawAll(g, gate[g])
  BY DEF Abort
<1>2. \A g \in Gate : PermitsSound(g, gate'[g]) /\ gate'[g].queue = <<>> /\ Onward(gate[g], gate'[g])
  BY <1>1, WithdrawSound DEF GateInv
<1>3. ASSUME NEW a \in Branch PROVE InOrder(a)' /\ Placed(a)'
  <2>1. \A g \in Gate : /\ Holds(a, g) => Holds(a, g)'
                        /\ Holds(a, g)' => Holds(a, g) \/ Waits(a, g)
                        /\ Waits(a, g)' => Waits(a, g)
    BY <1>2 DEF Holds, Waits, Onward
  <2> QED BY <1>1, <2>1, KeepsOrder, KeepsPlace
<1> QED BY <1>1, <1>2, <1>3 DEF Served

\* The gates of a new executor, and branches that hold nothing.
LEMMA GatesFresh ==
  ASSUME NEW p, p = FreshGate
  PROVE  /\ p = [g \in Gate |-> p[g]]
         /\ \A g \in Gate : /\ PermitsSound(g, p[g]) /\ Served(g, p[g])
                            /\ p[g].holders = {} /\ ToSet(p[g].queue) = {}
<1>1. p = [g \in Gate |-> p[g]]
  BY DEF FreshGate
<1>2. ToSet(<<>>) = {}
  BY DEF ToSet
<1> QED BY <1>1, <1>2, FreshSound DEF Served

\* The gates of the first executor satisfy the invariant.
LEMMA GateInit == Init => GateInv
<1> SUFFICES ASSUME Init PROVE GateInv
  OBVIOUS
<1>1. /\ gate = [g \in Gate |-> gate[g]]
      /\ \A g \in Gate : /\ PermitsSound(g, gate[g]) /\ Served(g, gate[g])
                         /\ gate[g].holders = {} /\ ToSet(gate[g].queue) = {}
  BY GatesFresh DEF Init
<1>2. ASSUME NEW b \in Branch PROVE InOrder(b) /\ Placed(b)
  <2>1. GatesOf[b] \in Seq(Gate)
    BY RunInvocationsAssumption
  <2>2. \A i \in DOMAIN GatesOf[b] : GatesOf[b][i] \in Gate
    BY <2>1
  <2>3. \A g \in Gate : ~Holds(b, g) /\ ~Waits(b, g)
    BY <1>1 DEF Holds, Waits
  <2>4. ~Windows(b)
    BY DEF Init, Windows
  <2> QED BY <2>2, <2>3, <2>4 DEF InOrder, Placed
<1> QED BY <1>1, <1>2 DEF Init, GateInv, Silent

\* Every step keeps the gates sound.
LEMMA GateStep == BudgetInv /\ GateInv /\ [Next]_vars => GateInv'
<1> SUFFICES ASSUME BudgetInv, GateInv, [Next]_vars PROVE GateInv'
  OBVIOUS
<1> DEFINE Quiet ==
             /\ \A b \in Branch : place'[b] = "calling" => Silent(calling[b])'
             /\ \A c \in Call : row'[c] = NoRow => Silent(c)'
           AtGates ==
             /\ gate' = [g \in Gate |-> gate'[g]]
             /\ \A g \in Gate : PermitsSound(g, gate'[g]) /\ Served(g, gate'[g])
             /\ \A b \in Branch : InOrder(b)' /\ Placed(b)'
<1>0. AtGates /\ Quiet => GateInv'
  BY DEF GateInv
<1>1. ASSUME NEW b \in Branch, Enter(b) \/ RefuseEntry(b) \/ Begin(b) \/ Offer(b) PROVE AtGates /\ Quiet
  <2>1. PICK to \in Places :
          /\ place' = [place EXCEPT ![b] = to] /\ to # "calling"
          /\ to \in {"operating", "offering", "calling", "returned", "failing"} => HoldsAll(b)
          /\ to \in {"idle", "done", "stopped"} => Settled(b)
          /\ to = place[b] \/ ~Queued(b)
    <3>1. CASE Enter(b)
      BY <3>1 DEF Enter, Go, Places, GateInv, Placed, Queued, Waits
    <3>2. CASE RefuseEntry(b)
      BY <3>2 DEF RefuseEntry, Go, Places, GateInv, Placed, Queued, Waits, Settled
    <3>3. CASE Begin(b)
      BY <3>3 DEF Begin, Go, Places
    <3>4. CASE Offer(b)
      BY <3>4 DEF Offer, Go, Places, GateInv, Placed, Queued, Waits, Windows
    <3> QED BY <1>1, <3>1, <3>2, <3>3, <3>4
  <2>2. UNCHANGED <<gate, row, spent, calling>>
    BY <1>1 DEF Enter, RefuseEntry, Begin, Offer, db, history
  <2>3. AtGates
    <3> HIDE DEF AtGates
    <3> QED BY <2>1, <2>2, GatesStand DEF AtGates
  <2>4. Quiet
    BY <2>1, <2>2 DEF BudgetInv, GateInv, Silent
  <2> QED BY <2>3, <2>4
<1>2. ASSUME NEW b \in Branch, Start(b) PROVE AtGates /\ Quiet
  <2>1. PICK to \in {"calling", "failing"} : place' = [place EXCEPT ![b] = to] /\ (to = "failing" => UNCHANGED <<row, calling>>)
    BY <1>2 DEF Start, Go
  <2>2. place[b] = "offering" /\ UNCHANGED <<gate, spent>>
    BY <1>2 DEF Start, history
  <2>3. AtGates
    <3>1. to \in Places /\ HoldsAll(b) /\ ~Queued(b)
      BY <2>2 DEF GateInv, Placed, Windows, Queued, Waits, Places
    <3> HIDE DEF AtGates
    <3> QED BY <2>1, <2>2, <3>1, GatesStand DEF AtGates
  <2>4. CASE to = "failing"
    BY <2>1, <2>2, <2>3, <2>4 DEF BudgetInv, GateInv, Silent
  <2>5. CASE to = "calling"
    <3>1. PICK c \in Call : row[c] = NoRow /\ calling' = [calling EXCEPT ![b] = c]
            /\ row' = [row EXCEPT ![c] = [status |-> "running", branch |-> b, epoch |-> epoch,
                                          granted |-> offered[b], reserved |-> offered[b]]]
      <4>1. "calling" # "failing" /\ place'[b] = "calling"
        BY <2>1, <2>5 DEF BudgetInv
      <4> QED BY <1>2, <4>1 DEF Start, Go, BudgetInv
    <3>2. Silent(c)
      BY <3>1 DEF GateInv
    <3>3. \A a \in Branch : place'[a] = "calling" => (a = b /\ calling'[a] = c) \/ (place[a] = "calling" /\ calling'[a] = calling[a])
      BY <2>1, <3>1 DEF BudgetInv
    <3>4. \A d \in Call : row'[d] = NoRow => row[d] = NoRow
      BY <3>1 DEF BudgetInv
    <3> QED BY <2>2, <2>3, <3>2, <3>3, <3>4 DEF GateInv, Silent
  <2> QED BY <2>1, <2>4, <2>5
<1>3. ASSUME NEW b \in Branch, Settle(b) PROVE AtGates /\ Quiet
  <2>1. place[b] = "returned" /\ place' = [place EXCEPT ![b] = "operating"] /\ UNCHANGED <<gate, spent>> /\ calling' = [calling EXCEPT ![b] = None]
    BY <1>3 DEF Settle, Go
  <2>2. AtGates
    <3>1. "operating" \in Places /\ HoldsAll(b) /\ ~Queued(b)
      BY <2>1 DEF GateInv, Placed, Windows, Queued, Waits, Places
    <3> HIDE DEF AtGates
    <3> QED BY <2>1, <3>1, GatesStand DEF AtGates
  <2>3. \A a \in Branch : place'[a] = "calling" => place[a] = "calling" /\ calling'[a] = calling[a]
    BY <2>1 DEF BudgetInv
  <2>4. \A d \in Call : row'[d] = NoRow => row[d] = NoRow
    <3>1. PICK k : row' = [row EXCEPT ![calling[b]].status = "settled", ![calling[b]].reserved = k]
      BY <1>3 DEF Settle, Commit
    <3>2. calling[b] \in Call /\ row[calling[b]] \in Rows /\ row \in [Call -> Rows]
      BY <2>1 DEF BudgetInv, InFlight
    <3>3. row'[calling[b]].status = "settled"
      BY <3>1, <3>2 DEF Rows
    <3> QED BY <3>1, <3>2, <3>3 DEF NoRow
  <2> QED BY <2>1, <2>2, <2>3, <2>4 DEF GateInv, Silent
<1>4. ASSUME NEW b \in Branch, GiveUp(b) \/ Finish(b) \/ Fail(b) PROVE AtGates /\ Quiet
  <2>1. PICK to \in {"idle", "done", "stopped"} : place' = [place EXCEPT ![b] = to]
    BY <1>4 DEF GiveUp, Finish, Fail, Go
  <2>2. Free(b) /\ ~Queued(b) /\ UNCHANGED <<row, spent, calling>>
    BY <1>4 DEF GiveUp, Finish, Fail, GateInv, Placed, Queued, Waits, db, history
  <2>3. AtGates
    <3> HIDE DEF AtGates
    <3> QED BY <2>1, <2>2, GatesFreed DEF AtGates
  <2>4. Quiet
    BY <2>1, <2>2 DEF BudgetInv, GateInv, Silent
  <2> QED BY <2>3, <2>4
<1>5. ASSUME NEW b \in Branch, Acquire(b) PROVE AtGates /\ Quiet
  <2>1. AtGates
    <3> HIDE DEF AtGates
    <3> QED BY <1>5, GateJoined DEF AtGates
  <2>2. Quiet
    BY <1>5 DEF Acquire, db, history, GateInv, Silent
  <2> QED BY <2>1, <2>2
<1>6. ASSUME Abort PROVE AtGates /\ Quiet
  <2>1. AtGates
    <3> HIDE DEF AtGates
    <3> QED BY <1>6, GatesAborted DEF AtGates
  <2>2. Quiet
    BY <1>6 DEF Abort, db, history, GateInv, Silent
  <2> QED BY <2>1, <2>2
<1>7. ASSUME NEW c \in Call, Answer(c) PROVE AtGates /\ Quiet
  <2>1. /\ place' = [b \in Branch |-> IF calling[b] = c THEN "returned" ELSE place[b]]
        /\ UNCHANGED <<gate, row, calling>>
        /\ row[c].status = "running" /\ \A d \in Call : d # c => spent'[d] = spent[d]
    BY <1>7 DEF Answer, db, BudgetInv
  <2>2. AtGates
    <3>1. gate' = [g \in Gate |-> gate'[g]] /\ \A g \in Gate : PermitsSound(g, gate'[g]) /\ Served(g, gate'[g])
      BY <2>1 DEF GateInv
    <3>2. ASSUME NEW b \in Branch PROVE InOrder(b)' /\ Placed(b)'
      <4>1. CASE calling[b] = c
        <5>1. place[b] \in {"calling", "returned"} /\ place'[b] = "returned"
          BY <2>1, <4>1, RunInvocationsAssumption DEF BudgetInv
        <5>2. HoldsAll(b) /\ (\A g \in Gate : ~Waits(b, g)) /\ ~(Settled(b)')
          BY <5>1 DEF GateInv, Placed, Windows, Settled
        <5> QED BY <2>1, <5>2, MovesOn
      <4>2. CASE calling[b] # c
        <5>1. place'[b] = place[b]
          BY <2>1, <4>2
        <5>2. (Windows(b)' => HoldsAll(b)) /\ (Settled(b)' => Settled(b))
          BY <5>1 DEF Windows, Settled, GateInv, Placed
        <5> QED BY <2>1, <5>1, <5>2, MovesOn
      <4> QED BY <4>1, <4>2
    <3> QED BY <3>1, <3>2
  <2>3. \A a \in Branch : place'[a] = "calling" => place[a] = "calling" /\ calling[a] # c /\ calling[a] \in Call
    BY <2>1 DEF BudgetInv, InFlight
  <2>4. \A d \in Call : row'[d] = NoRow => row[d] = NoRow /\ d # c
    BY <2>1 DEF NoRow
  <2>5. Quiet
    BY <2>1, <2>3, <2>4 DEF GateInv, Silent
  <2> QED BY <2>2, <2>5
<1>8. ASSUME NEW c \in Call, LateAnswer(c) PROVE AtGates /\ Quiet
  <2>1. /\ UNCHANGED <<gate, row, calling, place>>
        /\ row[c].status = "interrupted" /\ \A d \in Call : d # c => spent'[d] = spent[d]
    BY <1>8 DEF LateAnswer, db, executor, BudgetInv
  <2>2. \A a \in Branch : place[a] = "calling" => calling[a] \in Call /\ calling[a] # c
    BY <2>1 DEF BudgetInv, InFlight
  <2>3. \A d \in Call : row[d] = NoRow => d # c
    BY <2>1 DEF NoRow
  <2>4. AtGates
    BY <2>1 DEF GateInv, InOrder, Placed, Holds, Waits, HoldsAll, Windows, Settled
  <2>5. Quiet
    BY <2>1, <2>2, <2>3 DEF GateInv, Silent
  <2> QED BY <2>4, <2>5
<1>9. ASSUME Open PROVE AtGates /\ Quiet
  <2>1. UNCHANGED <<gate, place, calling, spent>>
    BY <1>9 DEF Open, history
  <2>2. \A d \in Call : row'[d] = NoRow => row[d] = NoRow
    <3>1. \A d \in Call : row'[d] = row[d] \/ row'[d] = [row[d] EXCEPT !.status = "interrupted"]
      BY <1>9 DEF Open
    <3>2. \A d \in Call : [row[d] EXCEPT !.status = "interrupted"].status = "interrupted"
      <4> SUFFICES ASSUME NEW x \in Rows PROVE [x EXCEPT !.status = "interrupted"].status = "interrupted"
        BY DEF BudgetInv
      <4> QED BY DEF Rows
    <3>3. NoRow.status # "interrupted"
      BY DEF NoRow
    <3> QED BY <3>1, <3>2, <3>3
  <2>3. AtGates
    BY <2>1 DEF GateInv, InOrder, Placed, Holds, Waits, HoldsAll, Windows, Settled
  <2>4. Quiet
    BY <2>1, <2>2 DEF GateInv, Silent
  <2> QED BY <2>3, <2>4
<1>10. ASSUME Cancel \/ UNCHANGED vars PROVE AtGates /\ Quiet
  <2>1. UNCHANGED <<gate, row, calling, place, spent>>
    BY <1>10 DEF Cancel, vars, db, executor, history
  <2>2. AtGates
    BY <2>1 DEF GateInv, InOrder, Placed, Holds, Waits, HoldsAll, Windows, Settled
  <2>3. Quiet
    BY <2>1 DEF GateInv, Silent
  <2> QED BY <2>2, <2>3
<1>11. ASSUME Takeover PROVE AtGates /\ Quiet
  <2>1. gate' = FreshGate /\ UNCHANGED <<row, spent>> /\ \A b \in Branch : place'[b] \in {"done", "stopped", "idle"}
    BY <1>11 DEF Takeover, history
  <2>2. /\ gate' = [g \in Gate |-> gate'[g]]
        /\ \A g \in Gate : /\ PermitsSound(g, gate'[g]) /\ Served(g, gate'[g])
                           /\ gate'[g].holders = {} /\ ToSet(gate'[g].queue) = {}
    BY <2>1, GatesFresh
  <2>3. ASSUME NEW b \in Branch PROVE InOrder(b)' /\ Placed(b)'
    <3>1. GatesOf[b] \in Seq(Gate)
      BY RunInvocationsAssumption
    <3>2. \A i \in DOMAIN GatesOf[b] : GatesOf[b][i] \in Gate
      BY <3>1
    <3>3. \A g \in Gate : ~Holds(b, g)' /\ ~Waits(b, g)'
      BY <2>2 DEF Holds, Waits
    <3>4. InOrder(b)'
      BY <3>2, <3>3 DEF InOrder
    <3>5. ~Windows(b)'
      BY <2>1 DEF Windows
    <3> QED BY <3>3, <3>4, <3>5 DEF Placed
  <2>4. Quiet
    BY <2>1 DEF GateInv, Silent
  <2> QED BY <2>2, <2>3, <2>4
<1> HIDE DEF AtGates, Quiet
<1> QED
  BY <1>0, <1>1, <1>2, <1>3, <1>4, <1>5, <1>6, <1>7, <1>8, <1>9, <1>10, <1>11 DEF Next, Progress, BranchStep

\* A writer owns the effect window alone until its terminal is committed, and some branch
\* can always go on until all have settled: however many branches wait at however many gates,
\* no permit is lost and no two branches wait for each other.
THEOREM GatesAreSound == Spec => []GatesSound
<1>1. BudgetInv /\ GateInv => GatesSound
  BY WritesAlone, OneGoesOn DEF GatesSound
<1> QED
  BY <1>1, BudgetInit, BudgetStep, GateInit, GateStep, PTL DEF Spec
=============================================================================
