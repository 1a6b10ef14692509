-------------------------- MODULE SessionHost_proofs --------------------------
(***************************************************************************)
(* For any sessions, children, hosts and queue limits:                     *)
(*   - a host that serves a scope under a valid lease runs everything that *)
(*     is under way in it. The argument is the lease: only its owner       *)
(*     appends, and an owner that serves has recovered every session under *)
(*     this very epoch;                                                    *)
(*   - the feed of a host loses no event of its own. What waits is in      *)
(*     order and after what was received, so the position of a lag notice  *)
(*     is before everything that is shed; the numbers continue the log,    *)
(*     because the owner's cache never lags behind it; and an epoch has    *)
(*     one host.                                                           *)
(***************************************************************************)
EXTENDS SessionHost, SequenceTheorems, FiniteSetTheorems, WellFoundedInduction, TLAPS

\* What the constants have to be.
HostAssumption == None \notin Session

Entry == [seq : Nat, kind : Kinds, by : Nat]

\* Rows, logs and hosts keep their types.
HostShape ==
  /\ lease \in [owner : Host \union {None}, live : BOOLEAN] /\ epoch \in Nat
  /\ born \in [Session -> Nat] /\ log \in [Session -> Seq(Entry)]
  /\ phase \in [Host -> Phases] /\ token \in [Host -> Nat]
  /\ opening \in [Host -> Session \union {None}]
  /\ cache \in [Host -> [Session -> Nat \union {None}]]

\* Only a session with a row has events.
RowsFirst == \A s \in Session : log[s] # <<>> => born[s] > 0

\* A lease that counts has an epoch, and a host that has not started holds none.
LeaseCounts == lease.live => epoch > 0

\* A session that is about to be opened was created by the host that opens it.
OpensItsOwn ==
  \A h \in Host, s \in Session :
    opening[h] = s => phase[h] # "down" /\ token[h] > 0 /\ born[s] = token[h]

HostInv == HostShape /\ RowsFirst /\ LeaseCounts /\ OpensItsOwn /\ OrphansSettled

-----------------------------------------------------------------------------
(* What a transaction appends. *)

\* The last event of a batch that commits is its last kind, under the epoch of its host.
LEMMA AppendedLast ==
  ASSUME NEW old \in Seq(Entry), NEW from \in Nat, NEW by \in Nat, NEW kinds \in Seq(Kinds), kinds # <<>>,
         NEW batch, batch = [i \in 1..Len(kinds) |-> [seq |-> from + i, kind |-> kinds[i], by |-> by]]
  PROVE  /\ old \o batch \in Seq(Entry)
         /\ old \o batch # <<>>
         /\ Last(old \o batch).by = by
         /\ Last(old \o batch).kind = Last(kinds)
<1>1. Len(kinds) \in Nat \ {0} /\ kinds \in [1..Len(kinds) -> Kinds]
  BY EmptySeq, LenProperties
<1>2. batch \in Seq(Entry) /\ Len(batch) = Len(kinds)
  <2>1. \A i \in 1..Len(kinds) : [seq |-> from + i, kind |-> kinds[i], by |-> by] \in Entry
    BY <1>1 DEF Entry
  <2>2. batch \in [1..Len(kinds) -> Entry]
    BY <2>1
  <2> QED BY <1>1, <2>2
<1>3. batch[Len(kinds)] = [seq |-> from + Len(kinds), kind |-> kinds[Len(kinds)], by |-> by]
  BY <1>1
<1>4. /\ old \o batch \in Seq(Entry)
      /\ Len(old \o batch) = Len(old) + Len(batch)
      /\ \A i \in 1..(Len(old) + Len(batch)) : (old \o batch)[i] = IF i <= Len(old) THEN old[i] ELSE batch[i - Len(old)]
  BY <1>2, ConcatProperties
<1>5. Len(old) \in Nat
  BY LenProperties
<1>6. (old \o batch)[Len(old) + Len(kinds)] = batch[Len(kinds)]
  BY <1>1, <1>2, <1>4, <1>5
<1>7. old \o batch # <<>>
  BY <1>1, <1>2, <1>4, <1>5, EmptySeq
<1> QED
  BY <1>2, <1>3, <1>4, <1>6, <1>7 DEF Last

\* A commit needs the lease, writes one log and changes no host but in its cache.
LEMMA CommitWrites ==
  ASSUME HostInv, NEW h \in Host, NEW s \in Session, NEW kinds \in Seq(Kinds), kinds # <<>>, Commit(h, s, kinds)
  PROVE  /\ Owns(h)
         /\ UNCHANGED <<lease, epoch, token>>
         /\ log' \in [Session -> Seq(Entry)]
         /\ \A r \in Session : r # s => log'[r] = log[r]
         /\ log'[s] # <<>> /\ Last(log'[s]).by = token[h] /\ Last(log'[s]).kind = Last(kinds)
         /\ cache' \in [Host -> [Session -> Nat \union {None}]]
<1> DEFINE seqs == [i \in 1..Len(kinds) |-> From(h, s) + i]
           batch == [i \in 1..Len(kinds) |-> [seq |-> seqs[i], kind |-> kinds[i], by |-> token[h]]]
<1>1. /\ Owns(h)
      /\ log' = [log EXCEPT ![s] = @ \o batch]
      /\ cache' = [cache EXCEPT ![h][s] = Last(seqs)]
      /\ UNCHANGED <<lease, epoch, token>>
  BY DEF Commit
<1>2. From(h, s) \in Nat /\ log[s] \in Seq(Entry) /\ token[h] \in Nat
  BY LenProperties DEF HostInv, HostShape, From, Count
<1>3. Len(kinds) \in Nat \ {0}
  BY EmptySeq
<1>4. \A i \in 1..Len(kinds) : seqs[i] = From(h, s) + i
  OBVIOUS
<1>5. batch = [i \in 1..Len(kinds) |-> [seq |-> From(h, s) + i, kind |-> kinds[i], by |-> token[h]]]
  BY <1>4
<1>6. /\ log[s] \o batch \in Seq(Entry) /\ log[s] \o batch # <<>>
      /\ Last(log[s] \o batch).by = token[h] /\ Last(log[s] \o batch).kind = Last(kinds)
  BY <1>2, <1>5, AppendedLast
<1>7. Last(seqs) \in Nat
  <2>1. seqs[Len(kinds)] = From(h, s) + Len(kinds) /\ Len(seqs) = Len(kinds)
    <3>1. seqs \in [1..Len(kinds) -> Nat]
      BY <1>2, <1>3
    <3> QED BY <1>3, <3>1
  <2> QED BY <1>2, <1>3, <2>1 DEF Last
<1> HIDE DEF seqs, batch
<1>8. log' \in [Session -> Seq(Entry)] /\ log'[s] = log[s] \o batch /\ \A r \in Session : r # s => log'[r] = log[r]
  BY <1>1, <1>6 DEF HostInv, HostShape
<1>9. cache' \in [Host -> [Session -> Nat \union {None}]]
  BY <1>1, <1>7 DEF HostInv, HostShape
<1> QED
  BY <1>1, <1>6, <1>8, <1>9

\* One host at most owns the lease.
LEMMA OneOwner ==
  ASSUME NEW g, NEW h, Owns(g), Owns(h) PROVE g = h
BY DEF Owns

\* The batches the hosts write are sequences of kinds.
LEMMA Batches ==
  /\ \A k \in Kinds : <<k>> \in Seq(Kinds) /\ <<k>> # <<>> /\ Last(<<k>>) = k
  /\ \A k, j \in Kinds : <<k, j>> \in Seq(Kinds) /\ <<k, j>> # <<>> /\ Last(<<k, j>>) = j
BY DEF Last

-----------------------------------------------------------------------------
(* The steps. *)

\* A commit of a host for a session with a row keeps the invariant, given what follows for
\* the session if the host serves.
LEMMA CommitKeeps ==
  ASSUME HostAssumption, HostInv, NEW h \in Host, NEW s \in Session, NEW kinds \in Seq(Kinds), kinds # <<>>,
         Commit(h, s, kinds), born[s] > 0, UNCHANGED <<born, phase>>,
         opening' \in [Host -> Session \union {None}],
         \A g \in Host : opening'[g] \in {opening[g], None},
         phase[h] = "serving" => born[s] = token[h] \/ IsOpen(s)
  PROVE  HostInv'
<1>1. /\ Owns(h)
      /\ UNCHANGED <<lease, epoch, token>>
      /\ log' \in [Session -> Seq(Entry)]
      /\ \A r \in Session : r # s => log'[r] = log[r]
      /\ log'[s] # <<>> /\ Last(log'[s]).by = token[h] /\ Last(log'[s]).kind = Last(kinds)
      /\ cache' \in [Host -> [Session -> Nat \union {None}]]
  BY CommitWrites
<1>2. HostShape'
  BY <1>1 DEF HostInv, HostShape
<1>3. RowsFirst' /\ LeaseCounts'
  BY <1>1 DEF HostInv, RowsFirst, LeaseCounts
<1>4. OpensItsOwn'
  BY <1>1 DEF HostAssumption, HostInv, OpensItsOwn
<1>5. OrphansSettled'
  <2> SUFFICES ASSUME NEW g \in Host, phase'[g] = "serving", Owns(g)', NEW r \in Session
               PROVE  /\ Working(r)' => Last(log'[r]).by = token'[g]
                      /\ r \in Child /\ IsOpen(r)' => born'[r] = token'[g]
    BY DEF OrphansSettled
  <2>1. Owns(g) /\ g = h /\ phase[h] = "serving"
    BY <1>1, OneOwner DEF Owns
  <2>2. /\ Working(r) => Last(log[r]).by = token[h]
        /\ r \in Child /\ IsOpen(r) => born[r] = token[h]
    BY <2>1 DEF HostInv, OrphansSettled
  <2>3. CASE r = s
    BY <1>1, <2>1, <2>2, <2>3 DEF IsOpen
  <2>4. CASE r # s
    BY <1>1, <2>1, <2>2, <2>4 DEF Working, IsOpen, Closed
  <2> QED BY <2>3, <2>4
<1> QED
  BY <1>2, <1>3, <1>4, <1>5 DEF HostInv

\* A step that leaves rows, logs and tokens alone, and serves nobody anew.
LEMMA QuietKeeps ==
  ASSUME HostAssumption, HostInv, UNCHANGED <<epoch, born, log, token>>,
         lease' \in [owner : Host \union {None}, live : BOOLEAN],
         lease' = lease \/ ~lease'.live,
         phase' \in [Host -> Phases],
         \A g \in Host : phase'[g] = "serving" => phase[g] = "serving",
         \A g \in Host : phase'[g] = "down" => phase[g] = "down",
         opening' \in [Host -> Session \union {None}],
         \A g \in Host : opening'[g] \in {opening[g], None},
         cache' \in [Host -> [Session -> Nat \union {None}]]
  PROVE  HostInv'
<1>1. HostShape' /\ RowsFirst' /\ LeaseCounts'
  BY DEF HostInv, HostShape, RowsFirst, LeaseCounts
<1>2. OpensItsOwn'
  BY DEF HostAssumption, HostInv, OpensItsOwn
<1>3. OrphansSettled'
  <2> SUFFICES ASSUME NEW g \in Host, phase'[g] = "serving", Owns(g)', NEW r \in Session
               PROVE  /\ Working(r)' => Last(log'[r]).by = token'[g]
                      /\ r \in Child /\ IsOpen(r)' => born'[r] = token'[g]
    BY DEF OrphansSettled
  <2>1. Owns(g) /\ phase[g] = "serving"
    BY DEF Owns
  <2> QED BY <2>1 DEF HostInv, OrphansSettled, Working, IsOpen, Closed
<1> QED
  BY <1>1, <1>2, <1>3 DEF HostInv

\* A host that starts has another epoch than every owner before it, and serves nobody yet.
LEMMA StartKeeps ==
  ASSUME HostAssumption, HostInv, NEW h \in Host, Start(h)
  PROVE  HostInv'
<1>1. /\ phase[h] = "down" /\ epoch' = epoch + 1 /\ lease' = [owner |-> h, live |-> TRUE]
      /\ token' = [token EXCEPT ![h] = epoch + 1]
      /\ phase' = [phase EXCEPT ![h] = "recovering"]
      /\ UNCHANGED <<born, log, opening, cache>>
  BY DEF Start
<1>2. HostShape'
  BY <1>1 DEF HostInv, HostShape, Phases
<1>3. RowsFirst' /\ LeaseCounts'
  BY <1>1 DEF HostInv, HostShape, RowsFirst, LeaseCounts
<1>4. OpensItsOwn'
  BY <1>1 DEF HostInv, HostShape, OpensItsOwn
<1>5. OrphansSettled'
  BY <1>1 DEF HostInv, HostShape, OrphansSettled, Owns
<1> QED
  BY <1>2, <1>3, <1>4, <1>5 DEF HostInv

\* A host serves once nothing of its predecessors is under way.
LEMMA ServeKeeps ==
  ASSUME HostInv, NEW h \in Host, Serve(h)
  PROVE  HostInv'
<1>1. /\ \A s \in Session : ~NeedsRecovery(s) /\ ~(s \in Child /\ IsOpen(s))
      /\ phase' = [phase EXCEPT ![h] = "serving"] /\ phase[h] = "recovering"
      /\ UNCHANGED <<lease, epoch, born, log, token, opening, cache>>
  BY DEF Serve, db
<1>2. HostShape' /\ RowsFirst' /\ LeaseCounts'
  BY <1>1 DEF HostInv, HostShape, RowsFirst, LeaseCounts, Phases
<1>3. OpensItsOwn'
  BY <1>1 DEF HostInv, HostShape, OpensItsOwn
<1>4. \A s \in Session : ~Working(s)
  <2> SUFFICES ASSUME NEW s \in Session, Working(s) PROVE FALSE
    OBVIOUS
  <2>1. log[s] # <<>> /\ Last(log[s]).kind = "started" /\ born[s] > 0
    BY DEF Working, HostInv, RowsFirst
  <2> QED BY <1>1, <2>1 DEF NeedsRecovery, Opened, IsOpen, Closed, Working
<1>5. OrphansSettled'
  BY <1>1, <1>4 DEF OrphansSettled, Working, IsOpen, Closed
<1> QED
  BY <1>2, <1>3, <1>5 DEF HostInv

\* A session gets its row from the host that owns the lease.
LEMMA CreateKeeps ==
  ASSUME HostInv, NEW h \in Host, NEW s \in Session, Create(h, s)
  PROVE  HostInv'
<1>1. /\ phase[h] = "serving" /\ born[s] = 0 /\ Owns(h)
      /\ born' = [born EXCEPT ![s] = token[h]]
      /\ cache' = [cache EXCEPT ![h][s] = 0]
      /\ opening' = [opening EXCEPT ![h] = s]
      /\ UNCHANGED <<lease, epoch, log, phase, token>>
  BY DEF Create
<1>2. HostShape'
  BY <1>1 DEF HostInv, HostShape
<1>3. token[h] > 0
  BY <1>1 DEF HostInv, HostShape, LeaseCounts, Owns
<1>4. RowsFirst' /\ LeaseCounts'
  BY <1>1, <1>3 DEF HostInv, HostShape, RowsFirst, LeaseCounts
<1>5. OpensItsOwn'
  <2> SUFFICES ASSUME NEW g \in Host, NEW r \in Session, opening'[g] = r
               PROVE  phase'[g] # "down" /\ token'[g] > 0 /\ born'[r] = token'[g]
    BY DEF OpensItsOwn
  <2>1. CASE g = h
    BY <1>1, <1>3, <2>1 DEF HostInv, HostShape
  <2>2. CASE g # h
    BY <1>1, <2>2 DEF HostInv, HostShape, OpensItsOwn
  <2> QED BY <2>1, <2>2
<1>6. OrphansSettled'
  <2> SUFFICES ASSUME NEW g \in Host, phase'[g] = "serving", Owns(g)', NEW r \in Session
               PROVE  /\ Working(r)' => Last(log'[r]).by = token'[g]
                      /\ r \in Child /\ IsOpen(r)' => born'[r] = token'[g]
    BY DEF OrphansSettled
  <2>1. Owns(g) /\ g = h
    BY <1>1, OneOwner DEF Owns
  <2>2. CASE r = s
    BY <1>1, <2>1, <2>2 DEF HostInv, HostShape, OrphansSettled, Working
  <2>3. CASE r # s
    BY <1>1, <2>1, <2>3 DEF HostInv, HostShape, OrphansSettled, Working, IsOpen, Closed
  <2> QED BY <2>2, <2>3
<1> QED
  BY <1>2, <1>4, <1>5, <1>6 DEF HostInv

\* What a host commits, from its start to its end.
LEMMA WritingKeeps ==
  ASSUME HostAssumption, HostInv, NEW h \in Host, NEW s \in Session,
         \/ Recover(h, s) \/ CloseOrphan(h, s) \/ Retire(h, s) \/ Close(h, s)
         \/ \E kinds \in {<<"started">>, <<"ended">>, <<"ended", "started">>} : Work(h, s, kinds)
  PROVE  HostInv'
<1>1. PICK kinds \in {<<"interrupted">>, <<"closed">>, <<"interrupted", "closed">>,
                      <<"started">>, <<"ended">>, <<"ended", "started">>} :
        /\ Commit(h, s, kinds) /\ IsOpen(s) /\ UNCHANGED <<born, phase, opening>>
  <2>1. CASE Recover(h, s)
    BY <2>1 DEF Recover, NeedsRecovery, Opened
  <2>2. CASE CloseOrphan(h, s)
    BY <2>2 DEF CloseOrphan
  <2>3. CASE Retire(h, s)
    BY <2>3 DEF Retire, Opened
  <2>4. CASE Close(h, s)
    BY <2>4 DEF Close, Opened
  <2>5. CASE \E kinds \in {<<"started">>, <<"ended">>, <<"ended", "started">>} : Work(h, s, kinds)
    BY <2>5 DEF Work, Opened
  <2> QED BY <2>1, <2>2, <2>3, <2>4, <2>5
<1>2. kinds \in Seq(Kinds) /\ kinds # <<>>
  BY Batches DEF Kinds
<1>3. born[s] > 0
  BY <1>1 DEF IsOpen
<1>4. opening' \in [Host -> Session \union {None}]
  BY <1>1 DEF HostInv, HostShape
<1> QED
  BY <1>1, <1>2, <1>3, <1>4, CommitKeeps

\* The opening record is written by the host that created the session, or not at all.
LEMMA OpenKeeps ==
  ASSUME HostAssumption, HostInv, NEW h \in Host, NEW s \in Session, Open(h, s)
  PROVE  HostInv'
<1>1. /\ opening[h] = s /\ opening' = [opening EXCEPT ![h] = None] /\ UNCHANGED <<born, phase>>
      /\ born[s] = token[h] /\ token[h] > 0
  BY DEF Open, HostInv, OpensItsOwn
<1>2. opening' \in [Host -> Session \union {None}] /\ \A g \in Host : opening'[g] \in {opening[g], None}
  BY <1>1 DEF HostInv, HostShape
<1>3. CASE Commit(h, s, <<"opened">>)
  <2>1. <<"opened">> \in Seq(Kinds) /\ <<"opened">> # <<>>
    BY Batches DEF Kinds
  <2> QED BY <1>1, <1>2, <1>3, <2>1, CommitKeeps
<1>4. CASE UNCHANGED <<db, token, cache, feed>>
  BY <1>1, <1>2, <1>4, QuietKeeps DEF db, HostInv, HostShape
<1> QED
  BY <1>3, <1>4 DEF Open

\* Expiry, losses, stops, the feed and crashes write nothing.
LEMMA RestKeeps ==
  ASSUME HostAssumption, HostInv, NEW h \in Host,
         \/ Expire \/ Drained(h) \/ LeaseLost(h) \/ CloseJournal(h) \/ Flush(h)
         \/ Initialize(h) \/ Stop(h) \/ Crash(h)
         \/ \E s \in Session : CommitFails(h, s)
  PROVE  HostInv'
<1>1. UNCHANGED <<epoch, born, log, token>>
  BY DEF Expire, Drained, LeaseLost, CloseJournal, Flush, Initialize, Stop, Crash, CommitFails, db
<1>2. /\ lease' \in [owner : Host \union {None}, live : BOOLEAN]
      /\ lease' = lease \/ ~lease'.live
  <2>1. lease \in [owner : Host \union {None}, live : BOOLEAN]
    BY DEF HostInv, HostShape
  <2>2. \/ lease' = lease
        \/ lease' = [lease EXCEPT !.live = FALSE]
        \/ lease' = [owner |-> None, live |-> FALSE]
    BY DEF Expire, Drained, LeaseLost, CloseJournal, Flush, Initialize, Stop, Crash, CommitFails, db
  <2>3. CASE lease' = lease
    BY <2>1, <2>3
  <2>4. CASE lease' = [lease EXCEPT !.live = FALSE]
    BY <2>1, <2>4
  <2>5. CASE lease' = [owner |-> None, live |-> FALSE]
    BY <2>5
  <2> QED BY <2>2, <2>3, <2>4, <2>5
<1>3. /\ phase' \in [Host -> Phases]
      /\ \A g \in Host : phase'[g] = "serving" => phase[g] = "serving"
      /\ \A g \in Host : phase'[g] = "down" => phase[g] = "down"
  BY DEF Expire, Drained, LeaseLost, CloseJournal, Flush, Initialize, Stop, Crash, CommitFails, Leave, Phases,
         HostInv, HostShape
<1>4. /\ opening' \in [Host -> Session \union {None}]
      /\ \A g \in Host : opening'[g] \in {opening[g], None}
  BY DEF Expire, Drained, LeaseLost, CloseJournal, Flush, Initialize, Stop, Crash, CommitFails, Leave,
         HostInv, HostShape
<1>5. cache' \in [Host -> [Session -> Nat \union {None}]]
  <2>1. cache \in [Host -> [Session -> Nat \union {None}]]
    BY DEF HostInv, HostShape
  <2>2. \/ cache' = cache
        \/ cache' = [cache EXCEPT ![h] = Each(None)]
        \/ \E s \in Session : cache' = [cache EXCEPT ![h][s] = None]
    BY DEF Expire, Drained, LeaseLost, CloseJournal, Flush, Initialize, Stop, Crash, CommitFails, Leave, Rollback
  <2>3. Each(None) \in [Session -> Nat \union {None}]
    BY DEF Each
  <2> QED BY <2>1, <2>2, <2>3
<1> QED
  BY <1>1, <1>2, <1>3, <1>4, <1>5, QuietKeeps

\* The initial state satisfies the invariant.
LEMMA HostInit == HostAssumption /\ Init => HostInv
<1> SUFFICES ASSUME HostAssumption, Init PROVE HostInv
  OBVIOUS
<1>1. <<>> \in Seq(Entry)
  OBVIOUS
<1> QED
  BY <1>1 DEF HostAssumption, Init, Each, HostInv, HostShape, RowsFirst, LeaseCounts, OpensItsOwn, OrphansSettled, Phases

\* Every step keeps it.
LEMMA HostNext == HostAssumption /\ HostInv /\ [Next]_vars => HostInv'
<1> SUFFICES ASSUME HostAssumption, HostInv, [Next]_vars PROVE HostInv'
  OBVIOUS
<1>1. CASE UNCHANGED vars
  BY <1>1, QuietKeeps DEF vars, db, HostInv, HostShape
<1>2. ASSUME NEW h \in Host, NEW s \in Session,
             \/ Recover(h, s) \/ CloseOrphan(h, s) \/ Retire(h, s) \/ Close(h, s)
             \/ \E kinds \in {<<"started">>, <<"ended">>, <<"ended", "started">>} : Work(h, s, kinds)
      PROVE  HostInv'
  BY <1>2, WritingKeeps
<1>3. ASSUME NEW h \in Host, NEW s \in Session, Open(h, s) PROVE HostInv'
  BY <1>3, OpenKeeps
<1>4. ASSUME NEW h \in Host, NEW s \in Session, Create(h, s) PROVE HostInv'
  BY <1>4, CreateKeeps
<1>5. ASSUME NEW h \in Host, Start(h) \/ Serve(h) PROVE HostInv'
  BY <1>5, StartKeeps, ServeKeeps
<1>6. ASSUME NEW h \in Host,
             \/ Drained(h) \/ LeaseLost(h) \/ CloseJournal(h) \/ Flush(h)
             \/ Initialize(h) \/ Stop(h) \/ Crash(h)
             \/ \E s \in Session : CommitFails(h, s)
      PROVE  HostInv'
  BY <1>6, RestKeeps
<1>7. CASE Expire
  BY <1>7, QuietKeeps DEF Expire, HostInv, HostShape
<1> QED
  BY <1>1, <1>2, <1>3, <1>4, <1>5, <1>6, <1>7 DEF Next, Progress

\* Under the lease of a serving host nothing is under way but its own work, and no delegated
\* child is open but its own, whoever crashed, stalled or lost the lease before.
THEOREM OrphansAreSettled ==
  ASSUME HostAssumption
  PROVE  Spec => []OrphansSettled
<1>1. HostInv => OrphansSettled
  BY DEF HostInv
<1>2. Init => HostInv
  BY HostInit
<1>3. HostInv /\ [Next]_vars => HostInv'
  BY HostNext
<1> QED
  BY <1>1, <1>2, <1>3, PTL DEF Spec
-----------------------------------------------------------------------------
(* The queue without the events of one session. *)

\* A line of a queue.
Line == [s : Session, n : Nat]

Kept(q, b) == {i \in DOMAIN q : q[i].s # b}
Rank(q, b, i) == Cardinality({j \in Kept(q, b) : j <= i})
KeptAt(q, b, n) == CHOOSE i \in Kept(q, b) : Rank(q, b, i) = n

\* A set of numbers has a least one.
LEMMA LeastOf ==
  ASSUME NEW S \in SUBSET Nat, S # {}
  PROVE  \E i \in S : \A j \in S : i <= j
<1>1. PICK i \in S : \A j \in S : <<j, i>> \notin OpToRel(<, Nat)
  BY NatLessThanWellFounded, WFMin
<1>2. ASSUME NEW j \in S PROVE i <= j
  <2>1. <<j, i>> \in Nat \X Nat /\ <<j, i>>[1] = j /\ <<j, i>>[2] = i
    OBVIOUS
  <2>2. j < i => <<j, i>> \in OpToRel(<, Nat)
    BY <2>1 DEF OpToRel
  <2>3. i \in Nat /\ j \in Nat
    OBVIOUS
  <2>4. ~(j < i)
    BY <1>1, <2>2
  <2> QED BY <2>3, <2>4
<1> QED BY <1>2

\* The rank of a place counts what is kept up to it.
LEMMA Ranks ==
  ASSUME NEW q \in Seq(Line), NEW b
  PROVE  /\ Kept(q, b) \subseteq 1..Len(q) /\ IsFiniteSet(Kept(q, b)) /\ Len(q) \in Nat
         /\ \A i \in Kept(q, b) : i \in Nat /\ i > 0
         /\ Cardinality(Kept(q, b)) \in Nat /\ Cardinality(Kept(q, b)) <= Len(q)
         /\ Rank(q, b, 0) = 0 /\ Rank(q, b, Len(q)) = Cardinality(Kept(q, b))
         /\ \A i \in Nat : Rank(q, b, i) \in 0..Cardinality(Kept(q, b))
         /\ \A i \in Nat : Rank(q, b, i + 1) = IF i + 1 \in Kept(q, b) THEN Rank(q, b, i) + 1 ELSE Rank(q, b, i)
         /\ \A i, j \in Nat : i <= j => Rank(q, b, i) <= Rank(q, b, j)
         /\ \A i \in Nat, j \in Kept(q, b) : i < j => Rank(q, b, i) < Rank(q, b, j)
<1> DEFINE kept == Kept(q, b)
           Upto(i) == {j \in kept : j <= i}
<1>1. kept \subseteq 1..Len(q) /\ Len(q) \in Nat
  BY LenProperties DEF Kept
<1>0. \A j \in kept : j \in Nat /\ j > 0
  BY <1>1
<1>2. IsFiniteSet(1..Len(q)) /\ Cardinality(1..Len(q)) = Len(q)
  <2>1. 1 \in Int /\ Len(q) \in Int /\ Len(q) \in Nat
    BY <1>1
  <2> QED BY <2>1, FS_Interval
<1>3. IsFiniteSet(kept) /\ Cardinality(kept) <= Len(q) /\ Cardinality(kept) \in Nat
  BY <1>1, <1>2, FS_Subset, FS_CardinalityType
<1>4. \A i : Rank(q, b, i) = Cardinality(Upto(i))
  BY DEF Rank
<1> HIDE DEF kept
<1>5. \A i : IsFiniteSet(Upto(i)) /\ Cardinality(Upto(i)) \in Nat /\ Cardinality(Upto(i)) <= Cardinality(kept)
  <2> SUFFICES ASSUME NEW i
               PROVE  IsFiniteSet(Upto(i)) /\ Cardinality(Upto(i)) \in Nat /\ Cardinality(Upto(i)) <= Cardinality(kept)
    OBVIOUS
  <2>1. Upto(i) \in SUBSET kept
    OBVIOUS
  <2> HIDE DEF Upto
  <2> QED BY <1>3, <2>1, FS_Subset, FS_CardinalityType
<1>6. Rank(q, b, 0) = 0
  <2>1. \A j \in kept : ~(j <= 0)
    BY <1>0
  <2>2. Upto(0) = {}
    BY <2>1
  <2> QED BY <1>4, <2>2, FS_EmptySet
<1>7. Rank(q, b, Len(q)) = Cardinality(kept)
  <2>2. \A j \in kept : j <= Len(q)
    BY <1>1
  <2>1. Upto(Len(q)) = kept
    BY <2>2
  <2> QED BY <1>4, <2>1
<1>8. ASSUME NEW i \in Nat
      PROVE  Rank(q, b, i + 1) = IF i + 1 \in kept THEN Rank(q, b, i) + 1 ELSE Rank(q, b, i)
  <2>1. CASE i + 1 \in kept
    <3>1. Upto(i + 1) = Upto(i) \cup {i + 1} /\ i + 1 \notin Upto(i)
      BY <1>0, <2>1
    <3>2. Cardinality(Upto(i) \cup {i + 1}) = Cardinality(Upto(i)) + 1
      <4> HIDE DEF Upto
      <4> QED BY <1>5, <3>1, FS_AddElement
    <3> QED BY <1>4, <2>1, <3>1, <3>2
  <2>2. CASE i + 1 \notin kept
    <3>1. Upto(i + 1) = Upto(i)
      BY <1>0, <2>2
    <3> QED BY <1>4, <2>2, <3>1
  <2> QED BY <2>1, <2>2
<1>9. ASSUME NEW i \in Nat, NEW j \in Nat, i <= j PROVE Rank(q, b, i) <= Rank(q, b, j)
  <2>1. Upto(i) \in SUBSET Upto(j)
    BY <1>0, <1>9
  <2>2. Cardinality(Upto(i)) <= Cardinality(Upto(j))
    <3> HIDE DEF Upto
    <3> QED BY <1>5, <2>1, FS_Subset
  <2> QED BY <1>4, <2>2
<1>10. ASSUME NEW i \in Nat, NEW j \in kept, i < j PROVE Rank(q, b, i) < Rank(q, b, j)
  <2>1. j - 1 \in Nat /\ i <= j - 1 /\ (j - 1) + 1 = j
    BY <1>0, <1>10
  <2>2. Rank(q, b, i) <= Rank(q, b, j - 1)
    BY <1>9, <2>1
  <2>3. Rank(q, b, (j - 1) + 1) = Rank(q, b, j - 1) + 1
    BY <1>8, <2>1
  <2>4. Rank(q, b, i) \in Nat /\ Rank(q, b, j - 1) \in Nat
    BY <1>4, <1>5
  <2> QED BY <2>1, <2>2, <2>3, <2>4
<1>11. ASSUME NEW i \in Nat PROVE Rank(q, b, i) \in 0..Cardinality(kept)
  <2>1. Cardinality(Upto(i)) \in Nat /\ Cardinality(Upto(i)) <= Cardinality(kept) /\ Rank(q, b, i) = Cardinality(Upto(i))
    BY <1>4, <1>5
  <2> HIDE DEF Upto
  <2> QED BY <1>3, <2>1
<1> QED
  BY <1>0, <1>1, <1>3, <1>6, <1>7, <1>8, <1>9, <1>10, <1>11 DEF kept

\* Every number up to their count is the rank of one that is kept, and every one that is kept is
\* found by its rank.
LEMMA KeptFound ==
  ASSUME NEW q \in Seq(Line), NEW b
  PROVE  /\ \A n \in 1..Cardinality(Kept(q, b)) : KeptAt(q, b, n) \in Kept(q, b) /\ Rank(q, b, KeptAt(q, b, n)) = n
         /\ \A i \in Kept(q, b) : Rank(q, b, i) \in 1..Cardinality(Kept(q, b)) /\ KeptAt(q, b, Rank(q, b, i)) = i
         /\ \A m, n \in 1..Cardinality(Kept(q, b)) : m < n => KeptAt(q, b, m) < KeptAt(q, b, n)
<1>1. ASSUME NEW n \in 1..Cardinality(Kept(q, b)) PROVE \E i \in Kept(q, b) : Rank(q, b, i) = n
  <2> DEFINE S == {i \in Nat : Rank(q, b, i) >= n}
  <2>1. S # {} /\ S \in SUBSET Nat
    <3>1. Len(q) \in S
      BY Ranks
    <3> QED BY <3>1
  <2>2. PICK i \in S : \A j \in S : i <= j
    <3> HIDE DEF S
    <3> QED BY <2>1, LeastOf
  <2>3. i # 0
    BY <2>2, Ranks
  <2>4. i - 1 \in Nat /\ ~(Rank(q, b, i - 1) >= n) /\ Rank(q, b, i) >= n
    BY <2>2, <2>3
  <2>5. Rank(q, b, i - 1) \in Nat /\ n \in Nat
    BY <2>4, Ranks
  <2>6. Rank(q, b, (i - 1) + 1) = IF (i - 1) + 1 \in Kept(q, b) THEN Rank(q, b, i - 1) + 1 ELSE Rank(q, b, i - 1)
    BY <2>4, Ranks
  <2>7. (i - 1) + 1 = i
    BY <2>2
  <2> QED BY <2>4, <2>5, <2>6, <2>7
<1>2. ASSUME NEW n \in 1..Cardinality(Kept(q, b))
      PROVE  KeptAt(q, b, n) \in Kept(q, b) /\ Rank(q, b, KeptAt(q, b, n)) = n
  BY <1>1 DEF KeptAt
<1>3. ASSUME NEW i \in Kept(q, b), NEW j \in Kept(q, b), Rank(q, b, i) = Rank(q, b, j) PROVE i = j
  <2>1. i \in Nat /\ j \in Nat /\ Rank(q, b, i) \in Nat
    BY Ranks
  <2>2. i < j => Rank(q, b, i) < Rank(q, b, j)
    BY <2>1, Ranks
  <2>3. j < i => Rank(q, b, j) < Rank(q, b, i)
    BY <2>1, Ranks
  <2> QED BY <1>3, <2>1, <2>2, <2>3
<1>4. ASSUME NEW i \in Kept(q, b)
      PROVE  Rank(q, b, i) \in 1..Cardinality(Kept(q, b)) /\ KeptAt(q, b, Rank(q, b, i)) = i
  <2>1. i \in 1..Len(q) /\ Len(q) \in Nat
    BY Ranks
  <2>2. Rank(q, b, 0) < Rank(q, b, i) /\ Rank(q, b, i) \in 0..Cardinality(Kept(q, b)) /\ Rank(q, b, 0) = 0
    BY <2>1, Ranks
  <2>3. Rank(q, b, i) \in 1..Cardinality(Kept(q, b))
    BY <2>2, Ranks
  <2> QED BY <1>2, <1>3, <2>3
<1>5. ASSUME NEW m \in 1..Cardinality(Kept(q, b)), NEW n \in 1..Cardinality(Kept(q, b)), m < n
      PROVE  KeptAt(q, b, m) < KeptAt(q, b, n)
  <2>1. KeptAt(q, b, m) \in Nat /\ KeptAt(q, b, n) \in Nat
    BY <1>2, Ranks
  <2>2. KeptAt(q, b, n) <= KeptAt(q, b, m) => Rank(q, b, KeptAt(q, b, n)) <= Rank(q, b, KeptAt(q, b, m))
    BY <2>1, Ranks
  <2>3. Rank(q, b, KeptAt(q, b, m)) = m /\ Rank(q, b, KeptAt(q, b, n)) = n
    BY <1>2
  <2>4. ~(n <= m)
    BY <1>5, Ranks
  <2> QED BY <2>1, <2>2, <2>3, <2>4
<1> QED BY <1>2, <1>4, <1>5

\* What is shed is of one session; the others stay, in their order.
LEMMA WithoutSound ==
  ASSUME NEW q \in Seq(Line), NEW b
  PROVE  /\ Without(q, b) \in Seq(Line) /\ Len(Without(q, b)) = Cardinality(Kept(q, b))
         /\ \A n \in DOMAIN Without(q, b) : KeptAt(q, b, n) \in DOMAIN q /\ Without(q, b)[n] = q[KeptAt(q, b, n)]
         /\ \A m, n \in DOMAIN Without(q, b) : m < n => KeptAt(q, b, m) < KeptAt(q, b, n)
         /\ \A i \in DOMAIN q : q[i].s # b => \E n \in DOMAIN Without(q, b) : Without(q, b)[n] = q[i]
<1> DEFINE size == Cardinality(Kept(q, b))
<1>1. Without(q, b) = [n \in 1..size |-> q[KeptAt(q, b, n)]]
  BY DEF Without, Kept, Rank, KeptAt
<1>2. size \in Nat
  BY Ranks
<1>3. \A n \in 1..size : KeptAt(q, b, n) \in DOMAIN q /\ q[KeptAt(q, b, n)] \in Line
  <2>1. \A n \in 1..size : KeptAt(q, b, n) \in DOMAIN q
    BY KeptFound DEF Kept
  <2>2. \A i \in DOMAIN q : q[i] \in Line
    OBVIOUS
  <2> QED BY <2>1, <2>2
<1>4. \A m, n \in 1..size : m < n => KeptAt(q, b, m) < KeptAt(q, b, n)
  BY KeptFound
<1>5. \A i \in DOMAIN q : q[i].s # b => \E n \in 1..size : KeptAt(q, b, n) = i
  <2> SUFFICES ASSUME NEW i \in DOMAIN q, q[i].s # b PROVE \E n \in 1..size : KeptAt(q, b, n) = i
    OBVIOUS
  <2>1. i \in Kept(q, b)
    BY DEF Kept
  <2> QED BY <2>1, KeptFound
<1> HIDE DEF size
<1>6. Without(q, b) \in Seq(Line) /\ Len(Without(q, b)) = size /\ DOMAIN Without(q, b) = 1..size
  BY <1>1, <1>2, <1>3
<1> QED
  <2>1. \A n \in DOMAIN Without(q, b) : KeptAt(q, b, n) \in DOMAIN q /\ Without(q, b)[n] = q[KeptAt(q, b, n)]
    BY <1>1, <1>3, <1>6
  <2>2. \A m, n \in DOMAIN Without(q, b) : m < n => KeptAt(q, b, m) < KeptAt(q, b, n)
    BY <1>4, <1>6
  <2>3. \A i \in DOMAIN q : q[i].s # b => \E n \in DOMAIN Without(q, b) : Without(q, b)[n] = q[i]
    BY <1>1, <1>5, <1>6
  <2> QED BY <1>6, <2>1, <2>2, <2>3 DEF size

\* A queue is the events of one session and the others.
LEMMA CountsSplit ==
  ASSUME NEW q \in Seq(Line), NEW b
  PROVE  Queued(q, b) \in Nat /\ Cardinality(Kept(q, b)) + Queued(q, b) = Len(q)
<1> DEFINE others == Kept(q, b)
           own == {i \in DOMAIN q : q[i].s = b}
<1>1. 1 \in Int /\ Len(q) \in Int /\ Len(q) \in Nat /\ DOMAIN q = 1..Len(q)
  BY LenProperties
<1>2. IsFiniteSet(DOMAIN q) /\ Cardinality(DOMAIN q) = Len(q)
  BY <1>1, FS_Interval
<1>3. others \cup own = DOMAIN q /\ others \cap own = {}
  BY DEF Kept
<1>4. others \in SUBSET DOMAIN q /\ own \in SUBSET DOMAIN q
  BY DEF Kept
<1>5. Queued(q, b) = Cardinality(own)
  BY DEF Queued
<1> HIDE DEF others, own
<1>6. IsFiniteSet(others) /\ IsFiniteSet(own)
  BY <1>2, <1>4, FS_Subset
<1>7. Cardinality(others) \in Nat /\ Cardinality(own) \in Nat
  BY <1>6, FS_CardinalityType
<1>8. Cardinality(others \cup own) = Cardinality(others) + Cardinality(own) - Cardinality(others \cap own)
  BY <1>6, FS_Union
<1>9. Cardinality(others \cap own) = 0
  BY <1>3, FS_EmptySet
<1> QED BY <1>2, <1>3, <1>5, <1>7, <1>8, <1>9 DEF others

\* Some session of a queue has most events in it.
LEMMA BusiestSound ==
  ASSUME NEW q \in Seq(Line), q # <<>>
  PROVE  Busiest(q) \in Session /\ \A s : Queued(q, s) <= Queued(q, Busiest(q))
<1> DEFINE Load(k) == Queued(q, q[k].s)
           spare == {Len(q) - Load(k) : k \in DOMAIN q}
<1>1. Len(q) \in Nat /\ DOMAIN q = 1..Len(q) /\ DOMAIN q # {}
  <2>1. Len(q) \in Nat /\ DOMAIN q = 1..Len(q) /\ Len(q) # 0
    BY LenProperties, EmptySeq
  <2>2. 1 \in DOMAIN q
    BY <2>1
  <2> QED BY <2>1, <2>2
<1>2. \A i \in DOMAIN q : Load(i) \in Nat /\ Load(i) <= Len(q)
  <2> SUFFICES ASSUME NEW i \in DOMAIN q PROVE Load(i) \in Nat /\ Load(i) <= Len(q)
    OBVIOUS
  <2>1. Queued(q, q[i].s) \in Nat /\ Cardinality(Kept(q, q[i].s)) + Queued(q, q[i].s) = Len(q)
    BY CountsSplit
  <2>2. Cardinality(Kept(q, q[i].s)) \in Nat
    BY Ranks
  <2> QED BY <1>1, <2>1, <2>2
<1> HIDE DEF Load
<1>3. PICK top \in DOMAIN q : \A j \in DOMAIN q : Load(j) <= Load(top)
  <2>1. spare \in SUBSET Nat
    <3>1. \A i \in DOMAIN q : Len(q) - Load(i) \in Nat
      BY <1>1, <1>2
    <3> QED BY <3>1
  <2>2. spare # {}
    BY <1>1
  <2>3. PICK x \in spare : \A y \in spare : x <= y
    <3> HIDE DEF spare
    <3> QED BY <2>1, <2>2, LeastOf
  <2>4. PICK i \in DOMAIN q : x = Len(q) - Load(i)
    OBVIOUS
  <2>5. ASSUME NEW j \in DOMAIN q PROVE Load(j) <= Load(i)
    <3>1. Len(q) - Load(i) <= Len(q) - Load(j)
      BY <2>3, <2>4
    <3> QED BY <1>1, <1>2, <3>1
  <2> QED BY <2>5
<1>4. PICK i \in DOMAIN q : Load(i) = Load(top) /\ \A j \in DOMAIN q : Load(j) = Load(top) => i <= j
  <2> DEFINE T == {k \in DOMAIN q : Load(k) = Load(top)}
  <2>1. T \in SUBSET Nat /\ T # {}
    BY <1>1
  <2>2. PICK k \in T : \A j \in T : k <= j
    <3> HIDE DEF T
    <3> QED BY <2>1, LeastOf
  <2> QED BY <2>2
<1>5. \A j \in DOMAIN q : Load(j) <= Load(i) /\ (j < i => Load(j) < Load(i))
  <2> SUFFICES ASSUME NEW j \in DOMAIN q PROVE Load(j) <= Load(i) /\ (j < i => Load(j) < Load(i))
    OBVIOUS
  <2>1. Load(j) <= Load(top) /\ Load(top) \in Nat /\ Load(j) \in Nat /\ Load(i) = Load(top)
    BY <1>2, <1>3, <1>4
  <2>2. Load(j) = Load(top) => ~(j < i)
    BY <1>1, <1>4
  <2> QED BY <2>1, <2>2
<1> DEFINE first == CHOOSE n \in DOMAIN q : \A j \in DOMAIN q :
                      Queued(q, q[j].s) <= Queued(q, q[n].s) /\ (j < n => Queued(q, q[j].s) < Queued(q, q[n].s))
<1>6. first \in DOMAIN q /\ \A j \in DOMAIN q : Queued(q, q[j].s) <= Queued(q, q[first].s)
  BY <1>5 DEF Load
<1>7. Busiest(q) = q[first].s
  BY DEF Busiest
<1> HIDE DEF first
<1>8. Busiest(q) \in Session
  <2>1. q[first] \in Line
    BY <1>6
  <2> QED BY <1>7, <2>1 DEF Line
<1>9. ASSUME NEW s PROVE Queued(q, s) <= Queued(q, Busiest(q))
  <2>1. CASE \E j \in DOMAIN q : q[j].s = s
    BY <1>6, <1>7, <2>1
  <2>2. CASE \A j \in DOMAIN q : q[j].s # s
    <3>1. {k \in DOMAIN q : q[k].s = s} = {}
      BY <2>2
    <3>2. Queued(q, s) = 0
      BY <3>1, FS_EmptySet DEF Queued
    <3>3. Queued(q, Busiest(q)) \in Nat
      BY CountsSplit
    <3> QED BY <3>2, <3>3
  <2> QED BY <2>1, <2>2
<1> QED BY <1>8, <1>9

\* What a batch adds to a queue is of its session.
LEMMA Added ==
  ASSUME NEW q \in Seq(Line), NEW s \in Session, NEW seqs \in Seq(Nat)
  PROVE  /\ q \o Lines(s, seqs) \in Seq(Line)
         /\ Len(q \o Lines(s, seqs)) = Len(q) + Len(seqs)
         /\ \A i \in 1..Len(q) : (q \o Lines(s, seqs))[i] = q[i]
         /\ \A i \in 1..Len(seqs) : (q \o Lines(s, seqs))[Len(q) + i] = [s |-> s, n |-> seqs[i]]
         /\ Len(seqs) <= Queued(q \o Lines(s, seqs), s)
<1> DEFINE lines == Lines(s, seqs)
           new == (Len(q) + 1)..(Len(q) + Len(seqs))
           own == {i \in DOMAIN (q \o lines) : (q \o lines)[i].s = s}
<1>1. Len(q) \in Nat /\ Len(seqs) \in Nat /\ \A i \in 1..Len(seqs) : seqs[i] \in Nat
  BY LenProperties
<1>2. lines = [i \in 1..Len(seqs) |-> [s |-> s, n |-> seqs[i]]]
  BY DEF Lines
<1>3. lines \in Seq(Line) /\ Len(lines) = Len(seqs) /\ \A i \in 1..Len(seqs) : lines[i] = [s |-> s, n |-> seqs[i]]
  <2>1. lines \in [1..Len(seqs) -> Line]
    BY <1>1, <1>2 DEF Line
  <2> QED BY <1>1, <1>2, <2>1
<1> HIDE DEF lines
<1>4. /\ q \o lines \in Seq(Line) /\ Len(q \o lines) = Len(q) + Len(lines)
      /\ \A i \in 1..(Len(q) + Len(lines)) : (q \o lines)[i] = IF i <= Len(q) THEN q[i] ELSE lines[i - Len(q)]
  <2>1. lines \in Seq(Line)
    BY <1>3
  <2> QED BY <2>1, ConcatProperties
<1>5. \A i \in 1..Len(q) : (q \o lines)[i] = q[i]
  BY <1>1, <1>3, <1>4
<1>6. ASSUME NEW i \in 1..Len(seqs) PROVE (q \o lines)[Len(q) + i] = [s |-> s, n |-> seqs[i]]
  <2>1. Len(q) + i \in 1..(Len(q) + Len(lines)) /\ ~(Len(q) + i <= Len(q)) /\ (Len(q) + i) - Len(q) = i
    BY <1>1, <1>3
  <2> QED BY <1>3, <1>4, <2>1
<1>7. new \in SUBSET own
  <2> SUFFICES ASSUME NEW k \in new PROVE k \in own
    OBVIOUS
  <2>1. PICK place \in 1..Len(seqs) : k = Len(q) + place
    <3>1. k - Len(q) \in 1..Len(seqs) /\ k = Len(q) + (k - Len(q))
      BY <1>1
    <3> QED BY <3>1
  <2>2. (q \o lines)[Len(q) + place] = [s |-> s, n |-> seqs[place]]
    BY <1>6
  <2>3. k \in DOMAIN (q \o lines)
    BY <1>1, <1>3, <1>4
  <2>4. (q \o lines)[k].s = s
    BY <2>1, <2>2
  <2> QED BY <2>3, <2>4
<1>8. IsFiniteSet(own)
  <2>1. 1 \in Int /\ Len(q \o lines) \in Int /\ DOMAIN (q \o lines) = 1..Len(q \o lines)
    BY <1>1, <1>3, <1>4
  <2>2. IsFiniteSet(1..Len(q \o lines))
    BY <2>1, FS_Interval
  <2>3. own \in SUBSET (1..Len(q \o lines))
    BY <2>1
  <2> HIDE DEF own
  <2> QED BY <2>2, <2>3, FS_Subset
<1>9. Cardinality(new) = Len(seqs)
  <2>1. Len(q) + 1 \in Int /\ Len(q) + Len(seqs) \in Int
    BY <1>1
  <2>2. Cardinality(new) = IF Len(q) + 1 > Len(q) + Len(seqs) THEN 0 ELSE (Len(q) + Len(seqs)) - (Len(q) + 1) + 1
    BY <2>1, FS_Interval
  <2> HIDE DEF new
  <2> QED BY <1>1, <2>2
<1>10. Len(seqs) <= Cardinality(own)
  <2> HIDE DEF new, own
  <2> QED BY <1>7, <1>8, <1>9, FS_Subset
<1>11. Queued(q \o lines, s) = Cardinality(own)
  BY DEF Queued
<1> QED
  BY <1>3, <1>4, <1>5, <1>6, <1>10, <1>11 DEF lines

\* Without its busiest session a queue is no longer than it was before a batch was added.
LEMMA ShedFits ==
  ASSUME NEW q \in Seq(Line), NEW s \in Session, NEW seqs \in Seq(Nat), q \o Lines(s, seqs) # <<>>
  PROVE  Len(Without(q \o Lines(s, seqs), Busiest(q \o Lines(s, seqs)))) <= Len(q)
<1> DEFINE queue == q \o Lines(s, seqs)
           b == Busiest(queue)
<1>1. queue \in Seq(Line) /\ queue # <<>> /\ Len(queue) = Len(q) + Len(seqs) /\ Len(seqs) <= Queued(queue, s)
  BY Added
<1>2. Len(q) \in Nat /\ Len(seqs) \in Nat
  BY LenProperties
<1> HIDE DEF queue
<1>3. Queued(queue, s) <= Queued(queue, b)
  BY <1>1, BusiestSound
<1> HIDE DEF b
<1>4. Queued(queue, b) \in Nat /\ Queued(queue, s) \in Nat /\ Cardinality(Kept(queue, b)) + Queued(queue, b) = Len(queue)
  BY <1>1, CountsSplit
<1>5. Cardinality(Kept(queue, b)) \in Nat /\ Len(Without(queue, b)) = Cardinality(Kept(queue, b))
  BY <1>1, Ranks, WithoutSound
<1>6. Len(Without(queue, b)) <= Len(q)
  BY <1>1, <1>2, <1>3, <1>4, <1>5
<1> QED BY <1>6 DEF queue, b

-----------------------------------------------------------------------------
(* What the writer makes of a queue. *)

\* What a queue has in it.
LEMMA LineAt ==
  ASSUME NEW q \in Seq(Line), NEW i \in DOMAIN q
  PROVE  q[i] \in Line /\ q[i].s \in Session /\ q[i].n \in Nat
<1>1. q[i] \in Line
  OBVIOUS
<1> QED BY <1>1 DEF Line

\* Where a line of a queue is.
LEMMA SeqsAt ==
  ASSUME NEW q \in Seq(Line), NEW s, NEW n
  PROVE  n \in Seqs(q, s) <=> \E i \in DOMAIN q : q[i].s = s /\ q[i].n = n
<1>1. n \in Seqs(q, s) <=> \E x \in ToSet(q) : x.s = s /\ x.n = n
  BY DEF Seqs
<1>2. ToSet(q) = {q[i] : i \in DOMAIN q}
  BY DEF ToSet
<1> QED BY <1>1, <1>2

\* What is written is the front of the queue, what stays is the rest.
LEMMA FrontAndRest ==
  ASSUME NEW q \in Seq(Line), NEW n \in 0..Len(q)
  PROVE  /\ SubSeq(q, 1, n) \in Seq(Line) /\ SubSeq(q, n + 1, Len(q)) \in Seq(Line)
         /\ Len(SubSeq(q, n + 1, Len(q))) = Len(q) - n
         /\ n = Len(q) => SubSeq(q, n + 1, Len(q)) = <<>>
         /\ n = 0 => SubSeq(q, 1, n) = <<>>
         /\ \A i \in DOMAIN q : i \in Nat
         /\ \A i \in DOMAIN SubSeq(q, 1, n) : i \in DOMAIN q /\ i <= n /\ SubSeq(q, 1, n)[i] = q[i]
         /\ \A i \in DOMAIN q : i <= n => i \in DOMAIN SubSeq(q, 1, n)
         /\ \A i \in DOMAIN SubSeq(q, n + 1, Len(q)) :
              i \in Nat /\ i > 0 /\ n + i \in DOMAIN q /\ SubSeq(q, n + 1, Len(q))[i] = q[n + i]
         /\ \A i \in DOMAIN q : ~(i <= n) => \E k \in DOMAIN SubSeq(q, n + 1, Len(q)) : i = n + k
<1>0. Len(q) \in Nat /\ n \in Nat /\ n <= Len(q)
  BY LenProperties
<1>1. Len(q) \in Nat /\ n \in Nat /\ n <= Len(q) /\ DOMAIN q = 1..Len(q) /\ \A i \in 1..Len(q) : q[i] \in Line
  BY LenProperties
<1>2. 1 \in Int /\ n \in Int /\ n + 1 \in Int /\ Len(q) \in Int
  BY <1>1
<1>3. (\A i \in 1..n : q[i] \in Line) /\ (\A i \in (n + 1)..Len(q) : q[i] \in Line)
  BY <1>1
<1>4. /\ SubSeq(q, 1, n) \in Seq(Line) /\ Len(SubSeq(q, 1, n)) = IF 1 <= n THEN n - 1 + 1 ELSE 0
      /\ \A i \in 1..(n - 1 + 1) : SubSeq(q, 1, n)[i] = q[1 + i - 1]
  BY <1>2, <1>3, SubSeqProperties
<1>5. /\ SubSeq(q, n + 1, Len(q)) \in Seq(Line)
      /\ Len(SubSeq(q, n + 1, Len(q))) = IF n + 1 <= Len(q) THEN Len(q) - (n + 1) + 1 ELSE 0
      /\ \A i \in 1..(Len(q) - (n + 1) + 1) : SubSeq(q, n + 1, Len(q))[i] = q[(n + 1) + i - 1]
  BY <1>2, <1>3, SubSeqProperties
<1> DEFINE front == SubSeq(q, 1, n)
           rest == SubSeq(q, n + 1, Len(q))
<1>6. front \in Seq(Line) /\ Len(front) = n /\ \A i \in 1..n : front[i] = q[i]
  <2>1. Len(front) = n
    BY <1>1, <1>4
  <2>2. ASSUME NEW i \in 1..n PROVE front[i] = q[i]
    <3>1. 1 + i - 1 = i /\ n - 1 + 1 = n
      BY <1>1
    <3> QED BY <1>4, <3>1
  <2> QED BY <1>4, <2>1, <2>2
<1>7. rest \in Seq(Line) /\ Len(rest) = Len(q) - n /\ \A i \in 1..(Len(q) - n) : rest[i] = q[n + i]
  <2>1. Len(rest) = Len(q) - n
    <3>1. \A size \in Nat : \A k \in 0..size : (IF k + 1 <= size THEN size - (k + 1) + 1 ELSE 0) = size - k
      OBVIOUS
    <3>2. Len(rest) = IF n + 1 <= Len(q) THEN Len(q) - (n + 1) + 1 ELSE 0
      BY <1>5
    <3> HIDE DEF rest
    <3>3. Len(q) \in Nat
      BY <1>0
    <3> QED BY <3>1, <3>2, <3>3, Zenon
  <2>2. ASSUME NEW i \in 1..(Len(q) - n) PROVE rest[i] = q[n + i]
    <3>1. (n + 1) + i - 1 = n + i /\ Len(q) - (n + 1) + 1 = Len(q) - n
      BY <1>1
    <3> QED BY <1>5, <3>1
  <2> QED BY <1>5, <2>1, <2>2
<1>8. n = Len(q) => rest = <<>>
  <2>1. n = Len(q) => Len(rest) = 0
    BY <1>1, <1>7
  <2> QED BY <1>7, <2>1, EmptySeq
<1>9. n = 0 => front = <<>>
  BY <1>6, EmptySeq
<1> HIDE DEF front, rest
<1>10. DOMAIN front = 1..n /\ DOMAIN rest = 1..(Len(q) - n)
  BY <1>6, <1>7, LenProperties
<1>11. \A i \in DOMAIN front : i \in DOMAIN q /\ i <= n /\ front[i] = q[i]
  BY <1>1, <1>6, <1>10
<1>12. \A i \in DOMAIN q : i \in Nat /\ (i <= n => i \in DOMAIN front)
  BY <1>1, <1>10
<1>13. \A i \in DOMAIN rest : i \in Nat /\ i > 0 /\ n + i \in DOMAIN q /\ rest[i] = q[n + i]
  BY <1>1, <1>7, <1>10
<1>14. ASSUME NEW i \in DOMAIN q, ~(i <= n) PROVE \E k \in DOMAIN rest : i = n + k
  <2>1. i - n \in 1..(Len(q) - n) /\ i = n + (i - n)
    BY <1>1, <1>14
  <2> QED BY <1>10, <2>1
<1> QED BY <1>6, <1>7, <1>8, <1>9, <1>11, <1>12, <1>13, <1>14 DEF front, rest

\* A client has got less of every session than what waits for it, and gets it in order.
Ordered(q, got) ==
  /\ \A i \in DOMAIN q : \A m \in got[q[i].s] : m < q[i].n
  /\ \A i, j \in DOMAIN q : i < j /\ q[i].s = q[j].s => q[i].n < q[j].n

\* An event is received, queued, or after the position of a lag notice.
Covered(q, r, got, heard, s, n) ==
  \/ n \in got[s] \union Seqs(q, s)
  \/ \E d \in heard[s] : d < n
  \/ (\A m \in got[s] : ~(m > n)) /\ \E d \in Seqs(r, s) : d < n

\* What a client has with what was written.
Received(got, q, n) == [s \in Session |-> got[s] \union Seqs(SubSeq(q, 1, n), s)]

\* What was written is received and told, in order, and the rest waits.
LEMMA Written ==
  ASSUME NEW q \in Seq(Line), NEW r \in Seq(Line), NEW got \in [Session -> SUBSET Nat],
         NEW heard \in [Session -> SUBSET Nat], Ordered(q, got),
         NEW m \in 0..Len(r), NEW n \in 0..Len(q), n = 0 \/ m = Len(r)
  PROVE  /\ Received(got, q, n) \in [Session -> SUBSET Nat] /\ Received(heard, r, m) \in [Session -> SUBSET Nat]
         /\ Ordered(SubSeq(q, n + 1, Len(q)), Received(got, q, n))
         /\ \A s \in Session, e \in Nat : Covered(q, r, got, heard, s, e) =>
              Covered(SubSeq(q, n + 1, Len(q)), SubSeq(r, m + 1, Len(r)), Received(got, q, n), Received(heard, r, m), s, e)
<1> DEFINE front == SubSeq(q, 1, n)
           rest == SubSeq(q, n + 1, Len(q))
           first == SubSeq(r, 1, m)
           last == SubSeq(r, m + 1, Len(r))
           got2 == [s \in Session |-> got[s] \union Seqs(front, s)]
           heard2 == [s \in Session |-> heard[s] \union Seqs(first, s)]
<1>0. front \in Seq(Line) /\ rest \in Seq(Line) /\ first \in Seq(Line) /\ last \in Seq(Line)
  BY FrontAndRest
<1>1. /\ \A i \in DOMAIN q : i \in Nat
      /\ \A i \in DOMAIN front : i \in DOMAIN q /\ i <= n /\ front[i] = q[i]
      /\ \A i \in DOMAIN q : i <= n => i \in DOMAIN front
      /\ \A i \in DOMAIN rest : i \in Nat /\ i > 0 /\ n + i \in DOMAIN q /\ rest[i] = q[n + i]
      /\ \A i \in DOMAIN q : ~(i <= n) => \E k \in DOMAIN rest : i = n + k
      /\ n = 0 => front = <<>>
  BY FrontAndRest
<1>2. /\ \A i \in DOMAIN first : i \in DOMAIN r /\ first[i] = r[i]
      /\ \A i \in DOMAIN r : i <= m => i \in DOMAIN first
      /\ \A i \in DOMAIN last : m + i \in DOMAIN r /\ last[i] = r[m + i]
      /\ \A i \in DOMAIN r : ~(i <= m) => \E k \in DOMAIN last : i = m + k
      /\ m = Len(r) => last = <<>>
  BY FrontAndRest
<1> HIDE DEF front, rest, first, last
<1>3. Len(q) \in Nat /\ Len(r) \in Nat /\ n \in Nat /\ m \in Nat /\ n <= Len(q) /\ m <= Len(r)
  BY LenProperties
<1>4. \A s : Seqs(front, s) \subseteq Nat /\ Seqs(first, s) \subseteq Nat
  <2>1. ASSUME NEW s, NEW e, e \in Seqs(front, s) PROVE e \in Nat
    <3>1. PICK i \in DOMAIN front : front[i].n = e
      BY <1>0, <2>1, SeqsAt
    <3> QED BY <1>0, <3>1, LineAt
  <2>2. ASSUME NEW s, NEW e, e \in Seqs(first, s) PROVE e \in Nat
    <3>1. PICK i \in DOMAIN first : first[i].n = e
      BY <1>0, <2>2, SeqsAt
    <3> QED BY <1>0, <3>1, LineAt
  <2> QED BY <2>1, <2>2
<1>5. got2 \in [Session -> SUBSET Nat] /\ heard2 \in [Session -> SUBSET Nat]
  BY <1>4
<1>6. \A s, e : e \in Seqs(q, s) <=> e \in Seqs(front, s) \/ e \in Seqs(rest, s)
  <2> SUFFICES ASSUME NEW s, NEW e PROVE e \in Seqs(q, s) <=> e \in Seqs(front, s) \/ e \in Seqs(rest, s)
    OBVIOUS
  <2>1. ASSUME e \in Seqs(q, s) PROVE e \in Seqs(front, s) \/ e \in Seqs(rest, s)
    <3>1. PICK i \in DOMAIN q : q[i].s = s /\ q[i].n = e
      BY <2>1, SeqsAt
    <3>2. CASE i <= n
      <4>1. i \in DOMAIN front /\ front[i] = q[i]
        BY <1>1, <3>2
      <4> QED BY <1>0, <3>1, <4>1, SeqsAt
    <3>3. CASE ~(i <= n)
      <4>1. PICK k \in DOMAIN rest : i = n + k
        BY <1>1, <3>3
      <4>2. rest[k] = q[i]
        BY <1>1, <4>1
      <4> QED BY <1>0, <3>1, <4>2, SeqsAt
    <3> QED BY <3>2, <3>3
  <2>2. ASSUME e \in Seqs(front, s) PROVE e \in Seqs(q, s)
    <3>1. PICK i \in DOMAIN front : front[i].s = s /\ front[i].n = e
      BY <1>0, <2>2, SeqsAt
    <3>2. i \in DOMAIN q /\ front[i] = q[i]
      BY <1>1, <1>3
    <3> QED BY <3>1, <3>2, SeqsAt
  <2>3. ASSUME e \in Seqs(rest, s) PROVE e \in Seqs(q, s)
    <3>1. PICK i \in DOMAIN rest : rest[i].s = s /\ rest[i].n = e
      BY <1>0, <2>3, SeqsAt
    <3>2. n + i \in DOMAIN q /\ rest[i] = q[n + i]
      BY <1>1
    <3> QED BY <3>1, <3>2, SeqsAt
  <2> QED BY <2>1, <2>2, <2>3
<1>7. \A s, e : e \in Seqs(r, s) => e \in Seqs(first, s) \/ (m < Len(r) /\ e \in Seqs(last, s))
  <2> SUFFICES ASSUME NEW s, NEW e, e \in Seqs(r, s)
               PROVE  e \in Seqs(first, s) \/ (m < Len(r) /\ e \in Seqs(last, s))
    OBVIOUS
  <2>1. PICK i \in DOMAIN r : r[i].s = s /\ r[i].n = e
    BY SeqsAt
  <2>2. CASE i <= m
    <3>1. i \in DOMAIN first /\ first[i] = r[i]
      BY <1>2, <2>2
    <3> QED BY <1>0, <2>1, <3>1, SeqsAt
  <2>3. CASE ~(i <= m)
    <3>1. PICK k \in DOMAIN last : i = m + k
      BY <1>2, <2>3
    <3>2. last[k] = r[i]
      BY <1>2, <3>1
    <3>3. m = Len(r) => e \in Seqs(last, s) /\ last = <<>>
      BY <1>0, <1>2, <2>1, <3>2, SeqsAt
    <3>4. m # Len(r)
      BY <3>1, <3>3
    <3>5. m < Len(r)
      BY <1>3, <3>4
    <3> QED BY <1>0, <2>1, <3>2, <3>5, SeqsAt
  <2> QED BY <2>2, <2>3
<1>8. Ordered(rest, got2)
  <2>1. ASSUME NEW i \in DOMAIN rest, NEW e \in got2[rest[i].s] PROVE e < rest[i].n
    <3>1. n + i \in DOMAIN q /\ rest[i] = q[n + i] /\ i \in Nat /\ i > 0
      BY <1>1, <1>3
    <3>2. q[n + i].s \in Session
      BY <3>1, LineAt
    <3>3. e \in got[q[n + i].s] \/ e \in Seqs(front, q[n + i].s)
      BY <3>1, <3>2
    <3>4. CASE e \in got[q[n + i].s]
      BY <3>1, <3>4 DEF Ordered
    <3>5. CASE e \in Seqs(front, q[n + i].s)
      <4>1. PICK j \in DOMAIN front : front[j].s = q[n + i].s /\ front[j].n = e
        BY <1>0, <3>5, SeqsAt
      <4>2. j \in DOMAIN q /\ front[j] = q[j] /\ j < n + i
        BY <1>1, <1>3, <3>1
      <4>3. q[j].n < q[n + i].n
        BY <3>1, <4>1, <4>2 DEF Ordered
      <4> QED BY <3>1, <4>1, <4>2, <4>3
    <3> QED BY <3>3, <3>4, <3>5
  <2>2. ASSUME NEW i \in DOMAIN rest, NEW j \in DOMAIN rest, i < j, rest[i].s = rest[j].s PROVE rest[i].n < rest[j].n
    <3>1. n + i \in DOMAIN q /\ rest[i] = q[n + i] /\ n + j \in DOMAIN q /\ rest[j] = q[n + j]
      BY <1>1
    <3>2. n + i < n + j
      <4>1. i \in Nat /\ j \in Nat
        BY <1>1
      <4> QED BY <1>3, <2>2, <4>1
    <3> QED BY <2>2, <3>1, <3>2 DEF Ordered
  <2> HIDE DEF got2
  <2> QED BY <2>1, <2>2 DEF Ordered
<1>9. ASSUME NEW s \in Session, NEW e \in Nat, Covered(q, r, got, heard, s, e)
      PROVE  Covered(rest, last, got2, heard2, s, e)
  <2>1. got2[s] = got[s] \union Seqs(front, s) /\ heard2[s] = heard[s] \union Seqs(first, s)
    OBVIOUS
  <2> HIDE DEF got2, heard2
  <2>2. CASE e \in got[s] \union Seqs(q, s)
    BY <1>6, <2>1, <2>2 DEF Covered
  <2>3. CASE \E d \in heard[s] : d < e
    BY <2>1, <2>3 DEF Covered
  <2>4. CASE (\A k \in got[s] : ~(k > e)) /\ \E d \in Seqs(r, s) : d < e
    <3>1. PICK d \in Seqs(r, s) : d < e
      BY <2>4
    <3>2. CASE d \in Seqs(first, s)
      BY <2>1, <3>1, <3>2 DEF Covered
    <3>3. CASE m < Len(r) /\ d \in Seqs(last, s)
      <4>1. n = 0
        BY <1>3, <3>3
      <4>2. Seqs(front, s) = {}
        <5>1. DOMAIN front = {}
          <6>1. front = <<>>
            BY <1>1, <4>1
          <6> QED BY <6>1
        <5>2. \A k : k \notin Seqs(front, s)
          BY <1>0, <5>1, SeqsAt
        <5> QED BY <5>2
      <4> QED BY <2>1, <2>4, <3>1, <3>3, <4>2 DEF Covered
    <3> QED BY <1>7, <3>2, <3>3
  <2> QED BY <1>9, <2>2, <2>3, <2>4 DEF Covered
<1> QED BY <1>5, <1>8, <1>9 DEF front, rest, first, last, Received

\* What is queued is in the journal.
Bounded(q, counts) == \A i \in DOMAIN q : q[i].n > 0 /\ q[i].n <= counts[q[i].s]

\* What a host holds for its client, and what the client has: events that are in the journal, in
\* order, no more than fit the queue, and lag notices of positions the client was at.
FeedOf(q, r, got, heard, counts) ==
  /\ q \in Seq(Line) /\ r \in Seq(Line) /\ Len(q) <= QueueLimit
  /\ got \in [Session -> SUBSET Nat] /\ heard \in [Session -> SUBSET Nat]
  /\ Ordered(q, got)
  /\ Bounded(q, counts)
  /\ \A i \in DOMAIN r : r[i].n <= counts[r[i].s]
  /\ \A s \in Session : \A m \in got[s] : m > 0 /\ m <= counts[s]
  /\ \A s \in Session : \A m \in heard[s] : m <= counts[s]

\* Writing keeps it, and forgets nobody.
LEMMA WritingHolds ==
  ASSUME QueueLimit \in Nat,
         NEW q, NEW r, NEW got, NEW heard, NEW counts \in [Session -> Nat], FeedOf(q, r, got, heard, counts),
         NEW m \in 0..Len(r), NEW n \in 0..Len(q), n = 0 \/ m = Len(r)
  PROVE  /\ FeedOf(SubSeq(q, n + 1, Len(q)), SubSeq(r, m + 1, Len(r)), Received(got, q, n), Received(heard, r, m), counts)
         /\ n = Len(q) => SubSeq(q, n + 1, Len(q)) = <<>>
         /\ m = Len(r) => SubSeq(r, m + 1, Len(r)) = <<>>
         /\ \A s \in Session, e \in Nat : Covered(q, r, got, heard, s, e) =>
              Covered(SubSeq(q, n + 1, Len(q)), SubSeq(r, m + 1, Len(r)), Received(got, q, n), Received(heard, r, m), s, e)
<1> DEFINE front == SubSeq(q, 1, n)
           rest == SubSeq(q, n + 1, Len(q))
           first == SubSeq(r, 1, m)
           last == SubSeq(r, m + 1, Len(r))
           got2 == Received(got, q, n)
           heard2 == Received(heard, r, m)
<1>1. /\ q \in Seq(Line) /\ r \in Seq(Line) /\ Len(q) <= QueueLimit
      /\ got \in [Session -> SUBSET Nat] /\ heard \in [Session -> SUBSET Nat] /\ Ordered(q, got)
  BY DEF FeedOf
<1>2. /\ got2 \in [Session -> SUBSET Nat] /\ heard2 \in [Session -> SUBSET Nat]
      /\ Ordered(rest, got2)
      /\ \A s \in Session, e \in Nat : Covered(q, r, got, heard, s, e) => Covered(rest, last, got2, heard2, s, e)
  BY <1>1, Written
<1>3. /\ front \in Seq(Line) /\ rest \in Seq(Line) /\ Len(rest) = Len(q) - n
      /\ n = Len(q) => rest = <<>>
      /\ \A i \in DOMAIN front : i \in DOMAIN q /\ front[i] = q[i]
      /\ \A i \in DOMAIN rest : n + i \in DOMAIN q /\ rest[i] = q[n + i]
  BY <1>1, FrontAndRest
<1>4. /\ first \in Seq(Line) /\ last \in Seq(Line)
      /\ m = Len(r) => last = <<>>
      /\ \A i \in DOMAIN first : i \in DOMAIN r /\ first[i] = r[i]
      /\ \A i \in DOMAIN last : m + i \in DOMAIN r /\ last[i] = r[m + i]
  BY <1>1, FrontAndRest
<1>11. /\ \A s \in Session : got2[s] = got[s] \union Seqs(front, s)
       /\ \A s \in Session : heard2[s] = heard[s] \union Seqs(first, s)
  BY DEF Received
<1> HIDE DEF front, rest, first, last, got2, heard2
<1>5. Len(rest) <= QueueLimit
  <2>1. Len(q) \in Nat /\ n \in Nat
    BY <1>1, LenProperties
  <2>2. Len(q) <= QueueLimit /\ Len(rest) = Len(q) - n
    BY <1>1, <1>3
  <2> QED BY <2>1, <2>2
<1>6. Bounded(rest, counts)
  BY <1>3 DEF FeedOf, Bounded
<1>7. \A i \in DOMAIN last : last[i].n <= counts[last[i].s]
  BY <1>4 DEF FeedOf
<1>8. \A s \in Session : \A e \in got2[s] : e > 0 /\ e <= counts[s]
  <2> SUFFICES ASSUME NEW s \in Session, NEW e \in got2[s] PROVE e > 0 /\ e <= counts[s]
    OBVIOUS
  <2>3. e \in got[s] \/ e \in Seqs(front, s)
    BY <1>11
  <2>1. CASE e \in got[s]
    BY <2>1 DEF FeedOf
  <2>2. CASE e \in Seqs(front, s)
    <3>1. PICK i \in DOMAIN front : front[i].s = s /\ front[i].n = e
      BY <1>3, <2>2, SeqsAt
    <3>2. i \in DOMAIN q /\ q[i].s = s /\ q[i].n = e
      BY <1>3, <3>1
    <3> QED BY <3>2 DEF FeedOf, Bounded
  <2> QED BY <2>1, <2>2, <2>3
<1>9. \A s \in Session : \A e \in heard2[s] : e <= counts[s]
  <2> SUFFICES ASSUME NEW s \in Session, NEW e \in heard2[s] PROVE e <= counts[s]
    OBVIOUS
  <2>3. e \in heard[s] \/ e \in Seqs(first, s)
    BY <1>11
  <2>1. CASE e \in heard[s]
    BY <2>1 DEF FeedOf
  <2>2. CASE e \in Seqs(first, s)
    <3>1. PICK i \in DOMAIN first : first[i].s = s /\ first[i].n = e
      BY <1>4, <2>2, SeqsAt
    <3>2. i \in DOMAIN r /\ r[i].s = s /\ r[i].n = e
      BY <1>4, <3>1
    <3> QED BY <3>2 DEF FeedOf, Bounded
  <2> QED BY <2>1, <2>2, <2>3
<1>10. FeedOf(rest, last, got2, heard2, counts)
  <2> QED BY <1>2, <1>3, <1>4, <1>5, <1>6, <1>7, <1>8, <1>9 DEF FeedOf
<1> QED BY <1>2, <1>3, <1>4, <1>10 DEF front, rest, first, last, got2, heard2

-----------------------------------------------------------------------------
(* What a publication makes of a queue. *)

\* A bounded set of numbers has a greatest one.
LEMMA GreatestOf ==
  ASSUME NEW S \in SUBSET Nat, S # {}, NEW top \in Nat, \A i \in S : i <= top
  PROVE  Max(S) \in S /\ \A i \in S : i <= Max(S)
<1> DEFINE spare == {top - i : i \in S}
<1>1. spare \in SUBSET Nat /\ spare # {}
  <2>1. \A i \in S : top - i \in Nat
    OBVIOUS
  <2> QED BY <2>1
<1>2. PICK x \in spare : \A y \in spare : x <= y
  <2> HIDE DEF spare
  <2> QED BY <1>1, LeastOf
<1>3. PICK k \in S : x = top - k
  OBVIOUS
<1>4. ASSUME NEW j \in S PROVE k >= j
  <2>1. top - k <= top - j
    BY <1>2, <1>3
  <2>2. k \in Nat /\ j \in Nat
    OBVIOUS
  <2> QED BY <2>1, <2>2
<1>5. Max(S) \in S /\ \A j \in S : Max(S) >= j
  BY <1>4 DEF Max
<1> HIDE DEF spare
<1>6. ASSUME NEW j \in S PROVE j <= Max(S)
  <2>1. Max(S) \in Nat /\ j \in Nat /\ Max(S) >= j
    BY <1>5
  <2> QED BY <2>1
<1> QED BY <1>5, <1>6

\* A batch of events of a session and the length of its log with it.
Numbered(counts, s, k) == [i \in 1..k |-> counts[s] + i]
Grown(counts, s, k) == [counts EXCEPT ![s] = @ + k]

\* One queue has everything of another; a queue has all of a batch.
Carries(q, queue) == \A t \in Session : Seqs(q, t) \subseteq Seqs(queue, t)
HasBatch(queue, counts, s, k) == \A e \in (counts[s] + 1)..(counts[s] + k) : e \in Seqs(queue, s)

\* The lines of a batch continue what waits for the client.
LEMMA AddingHolds ==
  ASSUME NEW q, NEW r, NEW got, NEW heard, NEW counts \in [Session -> Nat], FeedOf(q, r, got, heard, counts),
         NEW s \in Session, NEW k \in Nat,
         NEW queue, queue = q \o Lines(s, Numbered(counts, s, k))
  PROVE  /\ Numbered(counts, s, k) \in Seq(Nat)
         /\ queue \in Seq(Line) /\ Ordered(queue, got) /\ Bounded(queue, Grown(counts, s, k))
         /\ Carries(q, queue) /\ HasBatch(queue, counts, s, k)
<1> DEFINE seqs == Numbered(counts, s, k)
           counts2 == Grown(counts, s, k)
<1>0. /\ counts2[s] = counts[s] + k /\ \A t \in Session : t # s => counts2[t] = counts[t]
      /\ \A t \in Session : counts2[t] \in Nat
      /\ seqs = [i \in 1..k |-> counts[s] + i]
  BY DEF Grown, Numbered
<1> HIDE DEF seqs, counts2
<1>1. seqs \in Seq(Nat) /\ Len(seqs) = k /\ \A j \in 1..k : seqs[j] = counts[s] + j
  <2>1. seqs \in [1..k -> Nat]
    BY <1>0
  <2> QED BY <1>0, <2>1
<1>2. q \in Seq(Line) /\ got \in [Session -> SUBSET Nat] /\ Ordered(q, got)
  BY DEF FeedOf
<1>3. Len(q) \in Nat /\ counts[s] \in Nat
  BY <1>2, LenProperties
<1>4. /\ queue \in Seq(Line) /\ Len(queue) = Len(q) + k
      /\ \A i \in 1..Len(q) : queue[i] = q[i]
      /\ \A j \in 1..k : queue[Len(q) + j] = [s |-> s, n |-> seqs[j]]
  <2>1. seqs \in Seq(Nat)
    BY <1>1
  <2>2. /\ queue \in Seq(Line) /\ Len(queue) = Len(q) + Len(seqs)
        /\ \A i \in 1..Len(q) : queue[i] = q[i]
        /\ \A j \in 1..Len(seqs) : queue[Len(q) + j] = [s |-> s, n |-> seqs[j]]
    <3>1. queue = q \o Lines(s, seqs)
      BY DEF seqs
    <3> QED BY <1>2, <2>1, <3>1, Added
  <2>3. Len(seqs) = k
    BY <1>1
  <2> QED BY <2>2, <2>3
<1>5. /\ \A i \in DOMAIN q : i \in Nat /\ i <= Len(q) /\ i \in DOMAIN queue /\ queue[i] = q[i]
  <2>1. DOMAIN q = 1..Len(q)
    BY <1>2, LenProperties
  <2>2. DOMAIN queue = 1..Len(queue)
    BY <1>4, LenProperties
  <2>3. \A i \in 1..Len(q) : i \in 1..Len(queue)
    BY <1>3, <1>4
  <2> QED BY <1>3, <1>4, <2>1, <2>2, <2>3
<1>6. \A j \in 1..k : Len(q) + j \in DOMAIN queue /\ queue[Len(q) + j].s = s /\ queue[Len(q) + j].n = counts[s] + j
  <2>1. DOMAIN queue = 1..Len(queue)
    BY <1>4, LenProperties
  <2>2. \A j \in 1..k : Len(q) + j \in 1..Len(queue)
    BY <1>3, <1>4
  <2>3. ASSUME NEW j \in 1..k PROVE queue[Len(q) + j].s = s /\ queue[Len(q) + j].n = counts[s] + j
    <3>1. queue[Len(q) + j] = [s |-> s, n |-> seqs[j]] /\ seqs[j] = counts[s] + j
      BY <1>1, <1>4
    <3> QED BY <3>1
  <2> QED BY <2>1, <2>2, <2>3
<1>7. \A i \in DOMAIN queue : i \in DOMAIN q \/ \E j \in 1..k : i = Len(q) + j
  <2> SUFFICES ASSUME NEW i \in DOMAIN queue, i \notin DOMAIN q PROVE \E j \in 1..k : i = Len(q) + j
    OBVIOUS
  <2>1. i \in 1..Len(queue)
    BY <1>4, LenProperties
  <2>2. i \notin 1..Len(q)
    BY <1>2, LenProperties
  <2>3. i - Len(q) \in 1..k /\ i = Len(q) + (i - Len(q))
    BY <1>3, <1>4, <2>1, <2>2
  <2> QED BY <2>3
<1>8. \A i \in DOMAIN q : q[i].s \in Session /\ q[i].n \in Nat /\ q[i].n > 0 /\ q[i].n <= counts[q[i].s]
  BY <1>2, LineAt DEF FeedOf, Bounded
<1>9. \A i \in DOMAIN queue : queue[i].n > 0 /\ queue[i].n <= counts2[queue[i].s]
  <2> SUFFICES ASSUME NEW i \in DOMAIN queue PROVE queue[i].n > 0 /\ queue[i].n <= counts2[queue[i].s]
    OBVIOUS
  <2>1. CASE i \in DOMAIN q
    <3>1. queue[i] = q[i] /\ q[i].n > 0 /\ q[i].n <= counts[q[i].s] /\ q[i].s \in Session /\ q[i].n \in Nat
      BY <1>5, <1>8, <2>1
    <3>2. counts[q[i].s] <= counts2[q[i].s]
      <4>1. CASE q[i].s = s
        BY <1>0, <1>3, <4>1
      <4>2. CASE q[i].s # s
        BY <1>0, <3>1, <4>2
      <4> QED BY <4>1, <4>2
    <3>3. counts[q[i].s] \in Nat /\ counts2[q[i].s] \in Nat
      BY <1>0, <3>1
    <3> QED BY <3>1, <3>2, <3>3
  <2>2. CASE \E j \in 1..k : i = Len(q) + j
    <3>1. PICK j \in 1..k : i = Len(q) + j
      BY <2>2
    <3>2. queue[i].s = s /\ queue[i].n = counts[s] + j
      BY <1>6, <3>1
    <3> QED BY <1>0, <1>3, <3>2
  <2> QED BY <1>7, <2>1, <2>2
<1>10. \A i \in DOMAIN queue : \A m \in got[queue[i].s] : m < queue[i].n
  <2> SUFFICES ASSUME NEW i \in DOMAIN queue, NEW m \in got[queue[i].s] PROVE m < queue[i].n
    OBVIOUS
  <2>1. CASE i \in DOMAIN q
    BY <1>2, <1>5, <2>1 DEF Ordered
  <2>2. CASE \E j \in 1..k : i = Len(q) + j
    <3>1. PICK j \in 1..k : i = Len(q) + j
      BY <2>2
    <3>2. queue[i].s = s /\ queue[i].n = counts[s] + j
      BY <1>6, <3>1
    <3>3. m \in Nat /\ m <= counts[s]
      BY <1>2, <3>2 DEF FeedOf
    <3> QED BY <1>3, <3>2, <3>3
  <2> QED BY <1>7, <2>1, <2>2
<1>11. ASSUME NEW i \in DOMAIN queue, NEW j \in DOMAIN queue, i < j, queue[i].s = queue[j].s
       PROVE  queue[i].n < queue[j].n
  <2>1. CASE j \in DOMAIN q
    <3>1. i \in DOMAIN q
      <4>1. ~(\E x \in 1..k : i = Len(q) + x)
        BY <1>3, <1>5, <1>11, <2>1
      <4> QED BY <1>7, <4>1
    <3> QED BY <1>2, <1>5, <1>11, <2>1, <3>1 DEF Ordered
  <2>2. CASE \E x \in 1..k : j = Len(q) + x
    <3>1. PICK y \in 1..k : j = Len(q) + y
      BY <2>2
    <3>2. queue[j].s = s /\ queue[j].n = counts[s] + y
      BY <1>6, <3>1
    <3>3. CASE i \in DOMAIN q
      <4>1. queue[i].n \in Nat /\ queue[i].n <= counts[s]
        BY <1>5, <1>8, <1>11, <3>2, <3>3
      <4> QED BY <1>3, <3>2, <4>1
    <3>4. CASE \E x \in 1..k : i = Len(q) + x
      <4>1. PICK x \in 1..k : i = Len(q) + x
        BY <3>4
      <4>2. queue[i].n = counts[s] + x
        BY <1>6, <4>1
      <4>3. x < y
        BY <1>3, <1>11, <3>1, <4>1
      <4> QED BY <1>3, <3>2, <4>2, <4>3
    <3> QED BY <1>7, <3>3, <3>4
  <2> QED BY <1>7, <2>1, <2>2
<1>12. Ordered(queue, got)
  BY <1>10, <1>11 DEF Ordered
<1>13. ASSUME NEW t \in Session PROVE Seqs(q, t) \subseteq Seqs(queue, t)
  <2> SUFFICES ASSUME NEW e \in Seqs(q, t) PROVE e \in Seqs(queue, t)
    OBVIOUS
  <2>1. PICK i \in DOMAIN q : q[i].s = t /\ q[i].n = e
    BY <1>2, SeqsAt
  <2>2. i \in DOMAIN queue /\ queue[i] = q[i]
    BY <1>5
  <2> QED BY <1>4, <2>1, <2>2, SeqsAt
<1>14. ASSUME NEW e \in (counts[s] + 1)..(counts[s] + k) PROVE e \in Seqs(queue, s)
  <2>1. PICK j \in 1..k : e = counts[s] + j
    <3>1. e - counts[s] \in 1..k /\ e = counts[s] + (e - counts[s])
      BY <1>3
    <3> QED BY <3>1
  <2>2. Len(q) + j \in DOMAIN queue /\ queue[Len(q) + j].s = s /\ queue[Len(q) + j].n = e
    BY <1>6, <2>1
  <2> QED BY <1>4, <2>2, SeqsAt
<1> QED BY <1>1, <1>4, <1>9, <1>12, <1>13, <1>14 DEF seqs, counts2, Bounded, Carries, HasBatch

\* What is left after one session is shed waits in its order.
LEMMA SheddingHolds ==
  ASSUME NEW queue \in Seq(Line), NEW got, Ordered(queue, got), NEW counts, Bounded(queue, counts), NEW b
  PROVE  /\ Without(queue, b) \in Seq(Line) /\ Ordered(Without(queue, b), got) /\ Bounded(Without(queue, b), counts)
         /\ \A t \in Session : t # b => Seqs(queue, t) \subseteq Seqs(Without(queue, b), t)
<1> DEFINE others == Without(queue, b)
<1>1. /\ others \in Seq(Line)
      /\ \A i \in DOMAIN others : KeptAt(queue, b, i) \in DOMAIN queue /\ others[i] = queue[KeptAt(queue, b, i)]
      /\ \A i, j \in DOMAIN others : i < j => KeptAt(queue, b, i) < KeptAt(queue, b, j)
      /\ \A i \in DOMAIN queue : queue[i].s # b => \E n \in DOMAIN others : others[n] = queue[i]
  BY WithoutSound
<1> HIDE DEF others
<1>2. Bounded(others, counts)
  BY <1>1 DEF Bounded
<1>3. \A i \in DOMAIN others : \A m \in got[others[i].s] : m < others[i].n
  BY <1>1 DEF Ordered
<1>4. ASSUME NEW i \in DOMAIN others, NEW j \in DOMAIN others, i < j, others[i].s = others[j].s
      PROVE  others[i].n < others[j].n
  <2>1. /\ KeptAt(queue, b, i) \in DOMAIN queue /\ KeptAt(queue, b, j) \in DOMAIN queue
        /\ KeptAt(queue, b, i) < KeptAt(queue, b, j)
        /\ others[i] = queue[KeptAt(queue, b, i)] /\ others[j] = queue[KeptAt(queue, b, j)]
    BY <1>1, <1>4
  <2> QED BY <1>4, <2>1 DEF Ordered
<1>5. ASSUME NEW t \in Session, t # b, NEW e \in Seqs(queue, t) PROVE e \in Seqs(others, t)
  <2>1. PICK i \in DOMAIN queue : queue[i].s = t /\ queue[i].n = e
    BY SeqsAt
  <2>2. PICK n \in DOMAIN others : others[n] = queue[i]
    BY <1>1, <1>5, <2>1
  <2> QED BY <1>1, <2>1, <2>2, SeqsAt
<1>6. Ordered(others, got)
  BY <1>3, <1>4 DEF Ordered
<1> QED BY <1>1, <1>2, <1>5, <1>6 DEF others

\* The position a session was at when it was shed: the client has nothing after it.
LEMMA PositionOf ==
  ASSUME NEW got \in [Session -> SUBSET Nat], NEW b \in Session, NEW top \in Nat, \A m \in got[b] : m <= top
  PROVE  /\ Max({0} \union got[b]) \in Nat /\ Max({0} \union got[b]) <= top
         /\ Max({0} \union got[b]) = 0 \/ Max({0} \union got[b]) \in got[b]
<1> DEFINE S == {0} \union got[b]
<1>1. S \in SUBSET Nat /\ S # {} /\ \A m \in S : m <= top
  OBVIOUS
<1> HIDE DEF S
<1>2. Max(S) \in S
  BY <1>1, GreatestOf
<1>3. Max(S) \in Nat /\ Max(S) <= top
  BY <1>1, <1>2
<1>4. Max(S) = 0 \/ Max(S) \in got[b]
  BY <1>2 DEF S
<1> QED BY <1>3, <1>4 DEF S

\* A notice after the others.
LEMMA NoticeAdded ==
  ASSUME NEW r \in Seq(Line), NEW lag \in Line
  PROVE  /\ Append(r, lag) \in Seq(Line)
         /\ \A i \in DOMAIN Append(r, lag) :
              Append(r, lag)[i] = lag \/ (i \in DOMAIN r /\ Append(r, lag)[i] = r[i])
         /\ \A t : Seqs(r, t) \subseteq Seqs(Append(r, lag), t)
         /\ lag.n \in Seqs(Append(r, lag), lag.s)
<1> DEFINE longer == Append(r, lag)
<1>1. longer \in Seq(Line) /\ Len(longer) = Len(r) + 1 /\ (\A i \in 1..Len(r) : longer[i] = r[i]) /\ longer[Len(r) + 1] = lag
  BY AppendProperties
<1> HIDE DEF longer
<1>2. Len(r) \in Nat
  BY LenProperties
<1>3. DOMAIN r = 1..Len(r)
  BY LenProperties
<1>4. DOMAIN longer = 1..(Len(r) + 1)
  BY <1>1, LenProperties
<1>5. \A i \in DOMAIN r : i \in DOMAIN longer /\ longer[i] = r[i]
  BY <1>1, <1>2, <1>3, <1>4
<1>6. \A i \in DOMAIN longer : longer[i] = lag \/ (i \in DOMAIN r /\ longer[i] = r[i])
  BY <1>1, <1>2, <1>3, <1>4
<1>7. ASSUME NEW t, NEW e \in Seqs(r, t) PROVE e \in Seqs(longer, t)
  <2>1. PICK i \in DOMAIN r : r[i].s = t /\ r[i].n = e
    BY SeqsAt
  <2>2. i \in DOMAIN longer /\ longer[i].s = t /\ longer[i].n = e
    BY <1>5, <2>1
  <2> QED BY <1>1, <2>2, SeqsAt
<1>8. lag.n \in Seqs(longer, lag.s)
  <2>1. Len(r) + 1 \in DOMAIN longer
    BY <1>2, <1>4
  <2> QED BY <1>1, <2>1, SeqsAt
<1> QED BY <1>1, <1>6, <1>7, <1>8 DEF longer

\* What was shed is after the position the notice names, and nothing after it was received.
LEMMA ShedCovered ==
  ASSUME NEW queue \in Seq(Line), NEW got \in [Session -> SUBSET Nat], Ordered(queue, got), NEW heard,
         NEW longer \in Seq(Line), NEW b \in Session, NEW d \in Nat, d = 0 \/ d \in got[b], d \in Seqs(longer, b),
         NEW counts, Bounded(queue, counts), NEW q2, \A t \in Session : t # b => Seqs(queue, t) \subseteq Seqs(q2, t),
         NEW t \in Session, NEW e \in Seqs(queue, t)
  PROVE  Covered(q2, longer, got, heard, t, e)
<1>1. CASE t # b
  BY <1>1 DEF Covered
<1>2. CASE t = b
  <2>1. PICK i \in DOMAIN queue : queue[i].s = b /\ queue[i].n = e
    BY <1>2, SeqsAt
  <2>2. e \in Nat
    BY <2>1, LineAt
  <2>3. e > 0 /\ \A m \in got[b] : m < e
    BY <2>1 DEF Ordered, Bounded
  <2>4. d < e
    BY <2>2, <2>3
  <2>5. \A m \in got[b] : ~(m > e)
    <3> SUFFICES ASSUME NEW m \in got[b] PROVE ~(m > e)
      OBVIOUS
    <3>1. m \in Nat /\ m < e
      BY <2>3
    <3> QED BY <2>2, <3>1
  <2> QED BY <1>2, <2>4, <2>5 DEF Covered
<1> QED BY <1>1, <1>2

\* What is too long loses its busiest session, whose client is told from where.
Shed(queue, r, got, q2, longer) ==
  \/ Len(queue) <= QueueLimit /\ q2 = queue /\ longer = r
  \/ /\ ~(Len(queue) <= QueueLimit) /\ q2 = Without(queue, Busiest(queue))
     /\ longer = Append(r, [s |-> Busiest(queue), n |-> Max({0} \union got[Busiest(queue)])])

\* Nothing that was covered is forgotten; a batch is covered.
Remains(q, r, q2, longer, got, heard) ==
  \A t \in Session, e \in Nat : Covered(q, r, got, heard, t, e) => Covered(q2, longer, got, heard, t, e)
BatchCovered(q, r, got, heard, counts, s, k) ==
  \A e \in (counts[s] + 1)..(counts[s] + k) : Covered(q, r, got, heard, s, e)

\* A batch is queued, or the busiest session is shed: no event is forgotten, and none that was
\* queued before.
LEMMA PublishingHolds ==
  ASSUME QueueLimit \in Nat,
         NEW q, NEW r, NEW got, NEW heard, NEW counts \in [Session -> Nat], FeedOf(q, r, got, heard, counts),
         NEW s \in Session, NEW k \in Nat,
         NEW queue, queue = q \o Lines(s, Numbered(counts, s, k)), NEW q2, NEW longer,
         Shed(queue, r, got, q2, longer)
  PROVE  /\ FeedOf(q2, longer, got, heard, Grown(counts, s, k))
         /\ Remains(q, r, q2, longer, got, heard) /\ BatchCovered(q2, longer, got, heard, counts, s, k)
<1> DEFINE counts2 == Grown(counts, s, k)
<1>0. /\ counts2[s] = counts[s] + k /\ \A t \in Session : t # s => counts2[t] = counts[t]
      /\ \A t \in Session : counts2[t] \in Nat
  BY DEF Grown
<1>1. /\ Numbered(counts, s, k) \in Seq(Nat)
      /\ queue \in Seq(Line) /\ Ordered(queue, got) /\ Bounded(queue, counts2)
      /\ \A t \in Session : Seqs(q, t) \subseteq Seqs(queue, t)
      /\ \A e \in (counts[s] + 1)..(counts[s] + k) : e \in Seqs(queue, s)
  <2>1. /\ queue \in Seq(Line) /\ Ordered(queue, got) /\ Bounded(queue, counts2) /\ Numbered(counts, s, k) \in Seq(Nat)
        /\ Carries(q, queue) /\ HasBatch(queue, counts, s, k)
    BY AddingHolds
  <2> QED BY <2>1 DEF Carries, HasBatch
<1> HIDE DEF counts2
<1>2. /\ q \in Seq(Line) /\ r \in Seq(Line) /\ Len(q) <= QueueLimit
      /\ got \in [Session -> SUBSET Nat] /\ heard \in [Session -> SUBSET Nat]
  BY DEF FeedOf
<1>3. \A t \in Session : counts[t] \in Nat /\ counts2[t] \in Nat /\ counts[t] <= counts2[t]
  <2> SUFFICES ASSUME NEW t \in Session PROVE counts[t] \in Nat /\ counts2[t] \in Nat /\ counts[t] <= counts2[t]
    OBVIOUS
  <2>1. CASE t = s
    BY <1>0, <2>1
  <2>2. CASE t # s
    BY <1>0, <2>2
  <2> QED BY <2>1, <2>2
<1>4. \A i \in DOMAIN r : r[i].n <= counts2[r[i].s]
  <2> SUFFICES ASSUME NEW i \in DOMAIN r PROVE r[i].n <= counts2[r[i].s]
    OBVIOUS
  <2>1. r[i].s \in Session /\ r[i].n \in Nat /\ r[i].n <= counts[r[i].s]
    BY <1>2, LineAt DEF FeedOf
  <2> QED BY <1>3, <2>1
<1>5. /\ \A t \in Session : \A m \in got[t] : m > 0 /\ m <= counts2[t]
      /\ \A t \in Session : \A m \in heard[t] : m <= counts2[t]
  <2>1. ASSUME NEW t \in Session, NEW m \in got[t] PROVE m > 0 /\ m <= counts2[t]
    <3>1. m \in Nat /\ m > 0 /\ m <= counts[t]
      BY <1>2 DEF FeedOf
    <3> QED BY <1>3, <3>1
  <2>2. ASSUME NEW t \in Session, NEW m \in heard[t] PROVE m <= counts2[t]
    <3>1. m \in Nat /\ m <= counts[t]
      BY <1>2 DEF FeedOf
    <3> QED BY <1>3, <3>1
  <2> QED BY <2>1, <2>2
<1>a. PICK b : b = Busiest(queue)
  OBVIOUS
<1>6. CASE Len(queue) <= QueueLimit /\ q2 = queue /\ longer = r
  <2>1. FeedOf(q2, longer, got, heard, counts2)
    BY <1>1, <1>2, <1>4, <1>5, <1>6 DEF FeedOf
  <2>2. ASSUME NEW t \in Session, NEW e \in Nat, Covered(q, r, got, heard, t, e)
        PROVE  Covered(q2, longer, got, heard, t, e)
    BY <1>1, <1>6, <2>2 DEF Covered
  <2>3. \A e \in (counts[s] + 1)..(counts[s] + k) : Covered(q2, longer, got, heard, s, e)
    BY <1>1, <1>6 DEF Covered
  <2> QED BY <2>1, <2>2, <2>3 DEF counts2, Remains, BatchCovered
<1>7. CASE /\ ~(Len(queue) <= QueueLimit) /\ q2 = Without(queue, b)
           /\ longer = Append(r, [s |-> b, n |-> Max({0} \union got[b])])
  <2>1. queue # <<>>
    <3>1. Len(<<>>) = 0
      OBVIOUS
    <3> QED BY <1>7, <3>1
  <2>2. b \in Session
    BY <1>1, <1>a, <2>1, BusiestSound
  <2>3. PICK d \in Nat : d = Max({0} \union got[b]) /\ d <= counts2[b] /\ (d = 0 \/ d \in got[b])
    <3>1. counts2[b] \in Nat /\ \A m \in got[b] : m <= counts2[b]
      BY <1>3, <1>5, <2>2
    <3> QED BY <1>2, <2>2, <3>1, PositionOf
  <2>4. PICK lag \in Line : lag = [s |-> b, n |-> d] /\ lag.s = b /\ lag.n = d
    <3>1. [s |-> b, n |-> d] \in Line
      BY <2>2 DEF Line
    <3> QED BY <3>1
  <2>5. longer = Append(r, lag)
    BY <1>7, <2>3, <2>4
  <2>6. /\ longer \in Seq(Line)
        /\ \A i \in DOMAIN longer : longer[i] = lag \/ (i \in DOMAIN r /\ longer[i] = r[i])
        /\ \A t : Seqs(r, t) \subseteq Seqs(longer, t)
        /\ d \in Seqs(longer, b)
    BY <1>2, <2>4, <2>5, NoticeAdded
  <2>10. \A i \in DOMAIN longer : longer[i].n <= counts2[longer[i].s]
    <3> SUFFICES ASSUME NEW i \in DOMAIN longer PROVE longer[i].n <= counts2[longer[i].s]
      OBVIOUS
    <3>1. CASE longer[i] = lag
      BY <2>3, <2>4, <3>1
    <3>2. CASE i \in DOMAIN r /\ longer[i] = r[i]
      BY <1>4, <3>2
    <3> QED BY <2>6, <3>1, <3>2
  <2>11. /\ q2 \in Seq(Line) /\ Ordered(q2, got) /\ Bounded(q2, counts2)
         /\ \A t \in Session : t # b => Seqs(queue, t) \subseteq Seqs(q2, t)
    BY <1>1, <1>7, SheddingHolds
  <2>12. Len(q2) <= QueueLimit
    <3>1. Len(q2) <= Len(q)
      BY <1>1, <1>2, <1>a, <1>7, <2>1, ShedFits
    <3>2. Len(q2) \in Nat /\ Len(q) \in Nat
      BY <1>2, <2>11, LenProperties
    <3> QED BY <1>2, <3>1, <3>2
  <2>13. FeedOf(q2, longer, got, heard, counts2)
    BY <1>2, <1>5, <2>6, <2>10, <2>11, <2>12 DEF FeedOf
  <2>14. ASSUME NEW t \in Session, NEW e \in Nat, e \in Seqs(queue, t) PROVE Covered(q2, longer, got, heard, t, e)
    BY <1>1, <1>2, <2>2, <2>3, <2>6, <2>11, <2>14, ShedCovered
  <2>15. ASSUME NEW t \in Session, NEW e \in Nat, Covered(q, r, got, heard, t, e)
         PROVE  Covered(q2, longer, got, heard, t, e)
    <3>1. CASE e \in got[t]
      BY <3>1 DEF Covered
    <3>2. CASE e \in Seqs(q, t)
      BY <1>1, <2>14, <3>2
    <3>3. CASE \E x \in heard[t] : x < e
      BY <3>3 DEF Covered
    <3>4. CASE (\A m \in got[t] : ~(m > e)) /\ \E x \in Seqs(r, t) : x < e
      <4>1. PICK x \in Seqs(r, t) : x < e
        BY <3>4
      <4>4. x \in Seqs(longer, t)
        BY <2>6
      <4> QED BY <3>4, <4>1, <4>4 DEF Covered
    <3> QED BY <2>15, <3>1, <3>2, <3>3, <3>4 DEF Covered
  <2>16. ASSUME NEW e \in (counts[s] + 1)..(counts[s] + k) PROVE Covered(q2, longer, got, heard, s, e)
    <3>1. e \in Nat
      BY <1>3
    <3> QED BY <1>1, <2>14, <3>1
  <2> QED BY <2>13, <2>15, <2>16 DEF counts2, Remains, BatchCovered
<1> QED BY <1>a, <1>6, <1>7 DEF Shed

-----------------------------------------------------------------------------
(* The feed and the journal. *)

\* What the constants have to be for the feed.
FeedAssumption ==
  HostAssumption /\ None \notin Nat /\ QueueLimit \in Nat /\ MaxEpoch \in Nat /\ MaxSeq \in [Session -> Nat]

\* An epoch belongs to one host.
TokensSound ==
  /\ \A h \in Host : token[h] <= epoch /\ (phase[h] # "down" => token[h] > 0)
  /\ \A g, h \in Host : token[g] = token[h] /\ token[g] > 0 => g = h

\* Rows and events were written under the epochs that were.
JournalSound ==
  /\ epoch <= MaxEpoch
  /\ \A s \in Session : born[s] <= epoch /\ Count(s) <= MaxSeq[s]
  /\ \A s \in Session : \A i \in 1..Count(s) : log[s][i].by > 0 /\ log[s][i].by <= epoch

\* What the owner of the lease remembers of a session is its last number.
CacheSound ==
  \A h \in Host, s \in Session :
    /\ Owns(h) => cache[h][s] = None \/ cache[h][s] = Count(s)
    /\ phase[h] = "down" => cache[h][s] = None

NumberInv == TokensSound /\ JournalSound /\ CacheSound

\* The numbers of a batch follow those of the log, and are the author's.
LEMMA CommitNumbers ==
  ASSUME FeedAssumption, HostInv, NumberInv, NEW h \in Host, NEW s \in Session,
         NEW kinds \in Seq(Kinds), kinds # <<>>, Commit(h, s, kinds)
  PROVE  /\ Len(kinds) \in Nat /\ Len(kinds) > 0
         /\ Count(s)' = Count(s) + Len(kinds) /\ Count(s)' <= MaxSeq[s]
         /\ \A n \in 1..Count(s) : log'[s][n] = log[s][n]
         /\ \A n \in (Count(s) + 1)..Count(s)' : log'[s][n].by = token[h]
         /\ \A r \in Session : r # s => log'[r] = log[r]
         /\ cache' = [cache EXCEPT ![h][s] = Count(s)']
         /\ Publish(h, s, [i \in 1..Len(kinds) |-> Count(s) + i])
         /\ UNCHANGED <<lease, epoch, token, initialized, base>>
<1> DEFINE seqs == [i \in 1..Len(kinds) |-> From(h, s) + i]
           batch == [i \in 1..Len(kinds) |-> [seq |-> seqs[i], kind |-> kinds[i], by |-> token[h]]]
<1>1. /\ Owns(h) /\ Count(s) + Len(kinds) <= MaxSeq[s]
      /\ log' = [log EXCEPT ![s] = @ \o batch]
      /\ cache' = [cache EXCEPT ![h][s] = Last(seqs)]
      /\ Publish(h, s, seqs)
      /\ UNCHANGED <<lease, epoch, token, initialized, base>>
  BY DEF Commit
<1>2. log[s] \in Seq(Entry) /\ token[h] \in Nat /\ log \in [Session -> Seq(Entry)]
  BY DEF HostInv, HostShape
<1>3. Count(s) \in Nat
  BY <1>2, LenProperties DEF Count
<1>4. Len(kinds) \in Nat /\ Len(kinds) > 0 /\ \A i \in 1..Len(kinds) : kinds[i] \in Kinds
  <2>1. Len(kinds) \in Nat /\ Len(kinds) # 0
    BY EmptySeq, LenProperties
  <2> QED BY <2>1
<1>5. From(h, s) = Count(s)
  BY <1>1 DEF From, NumberInv, CacheSound
<1>6. seqs = [i \in 1..Len(kinds) |-> Count(s) + i]
  BY <1>5
<1>7. Last(seqs) = Count(s) + Len(kinds)
  <2>1. seqs \in [1..Len(kinds) -> Nat] /\ seqs[Len(kinds)] = Count(s) + Len(kinds)
    BY <1>3, <1>4, <1>6
  <2>2. Len(seqs) = Len(kinds)
    BY <1>4, <2>1
  <2> QED BY <2>1, <2>2 DEF Last
<1>8. batch = [i \in 1..Len(kinds) |-> [seq |-> Count(s) + i, kind |-> kinds[i], by |-> token[h]]]
  BY <1>6
<1>9. batch \in Seq(Entry) /\ Len(batch) = Len(kinds) /\ \A i \in 1..Len(kinds) : batch[i].by = token[h]
  <2>1. \A i \in 1..Len(kinds) : [seq |-> Count(s) + i, kind |-> kinds[i], by |-> token[h]] \in Entry
    BY <1>2, <1>3, <1>4 DEF Entry
  <2>2. batch \in [1..Len(kinds) -> Entry]
    BY <1>8, <2>1
  <2>3. \A i \in 1..Len(kinds) : batch[i].by = token[h]
    BY <1>8
  <2> HIDE DEF batch
  <2> QED BY <1>4, <2>2, <2>3
<1> HIDE DEF seqs, batch
<1>10. log'[s] = log[s] \o batch /\ \A r \in Session : r # s => log'[r] = log[r]
  BY <1>1, <1>2
<1>11. /\ Len(log[s] \o batch) = Len(log[s]) + Len(batch)
       /\ \A i \in 1..(Len(log[s]) + Len(batch)) :
            (log[s] \o batch)[i] = IF i <= Len(log[s]) THEN log[s][i] ELSE batch[i - Len(log[s])]
  <2>1. batch \in Seq(Entry)
    BY <1>9
  <2> QED BY <1>2, <2>1, ConcatProperties
<1>12. Count(s)' = Count(s) + Len(kinds)
  BY <1>9, <1>10, <1>11 DEF Count
<1>13. ASSUME NEW n \in 1..Count(s) PROVE log'[s][n] = log[s][n]
  <2>1. n \in 1..(Len(log[s]) + Len(batch)) /\ n <= Len(log[s])
    BY <1>3, <1>4, <1>9 DEF Count
  <2> QED BY <1>10, <1>11, <2>1
<1>14. ASSUME NEW n \in (Count(s) + 1)..Count(s)' PROVE log'[s][n].by = token[h]
  <2>1. PICK j \in 1..Len(kinds) : n = Count(s) + j
    <3>1. n - Count(s) \in 1..Len(kinds) /\ n = Count(s) + (n - Count(s))
      BY <1>3, <1>4, <1>12
    <3> QED BY <3>1
  <2>2. /\ Len(log[s]) + j \in 1..(Len(log[s]) + Len(batch)) /\ ~(Len(log[s]) + j <= Len(log[s]))
        /\ (Len(log[s]) + j) - Len(log[s]) = j /\ n = Len(log[s]) + j
    BY <1>3, <1>4, <1>9, <2>1 DEF Count
  <2>3. (log[s] \o batch)[Len(log[s]) + j] = batch[(Len(log[s]) + j) - Len(log[s])]
    BY <1>11, <2>2
  <2>4. log'[s][n] = batch[j]
    BY <1>10, <2>2, <2>3
  <2> QED BY <1>9, <2>4
<1>15. cache' = [cache EXCEPT ![h][s] = Count(s)']
  BY <1>1, <1>7, <1>12
<1>16. Count(s)' <= MaxSeq[s]
  BY <1>1, <1>12
<1> QED BY <1>1, <1>4, <1>6, <1>10, <1>12, <1>13, <1>14, <1>15, <1>16

\* A step that appends nothing, takes no lease and at most forgets what was remembered.
LEMMA NumberQuiet ==
  ASSUME NumberInv, UNCHANGED <<epoch, born, log, token>>,
         \A g \in Host : Owns(g)' => Owns(g),
         \A g \in Host : phase'[g] = "down" <=> phase[g] = "down",
         \A g \in Host, s \in Session : cache'[g][s] = cache[g][s] \/ cache'[g][s] = None
  PROVE  NumberInv'
<1>1. TokensSound'
  BY DEF NumberInv, TokensSound
<1>2. JournalSound'
  BY DEF NumberInv, JournalSound, Count
<1>3. CacheSound'
  BY DEF NumberInv, CacheSound, Count
<1> QED BY <1>1, <1>2, <1>3 DEF NumberInv

\* A batch of the owner.
LEMMA NumberCommit ==
  ASSUME FeedAssumption, HostInv, NumberInv, NEW h \in Host, NEW s \in Session,
         NEW kinds \in Seq(Kinds), kinds # <<>>, Commit(h, s, kinds), UNCHANGED <<born, phase>>, phase[h] # "down"
  PROVE  NumberInv'
<1>1. /\ Len(kinds) \in Nat /\ Len(kinds) > 0
      /\ Count(s)' = Count(s) + Len(kinds) /\ Count(s)' <= MaxSeq[s]
      /\ \A n \in 1..Count(s) : log'[s][n] = log[s][n]
      /\ \A n \in (Count(s) + 1)..Count(s)' : log'[s][n].by = token[h]
      /\ \A r \in Session : r # s => log'[r] = log[r]
      /\ cache' = [cache EXCEPT ![h][s] = Count(s)']
      /\ UNCHANGED <<lease, epoch, token>>
  BY CommitNumbers
<1>2. Count(s) \in Nat /\ token[h] \in Nat /\ epoch \in Nat /\ cache \in [Host -> [Session -> Nat \union {None}]]
  BY LenProperties DEF HostInv, HostShape, Count
<1>3. Owns(h)
  BY DEF Commit
<1>7. token[h] > 0 /\ token[h] <= epoch
  BY DEF NumberInv, TokensSound
<1>4. TokensSound'
  BY <1>1 DEF NumberInv, TokensSound
<1>5. JournalSound'
  <2>1. ASSUME NEW r \in Session PROVE Count(r)' <= MaxSeq[r] /\ \A i \in 1..Count(r)' : log'[r][i].by > 0 /\ log'[r][i].by <= epoch
    <3>1. CASE r # s
      BY <1>1, <3>1 DEF NumberInv, JournalSound, Count
    <3>2. CASE r = s
      <4> SUFFICES ASSUME NEW i \in 1..Count(s)' PROVE log'[s][i].by > 0 /\ log'[s][i].by <= epoch
        BY <1>1, <3>2
      <4>1. i \in 1..Count(s) \/ i \in (Count(s) + 1)..Count(s)'
        BY <1>1, <1>2
      <4>2. CASE i \in 1..Count(s)
        BY <1>1, <4>2 DEF NumberInv, JournalSound
      <4>3. CASE i \in (Count(s) + 1)..Count(s)'
        BY <1>1, <1>7, <4>3
      <4> QED BY <4>1, <4>2, <4>3
    <3> QED BY <3>1, <3>2
  <2> QED BY <1>1, <2>1 DEF NumberInv, JournalSound
<1>6. CacheSound'
  <2> SUFFICES ASSUME NEW g \in Host, NEW r \in Session
               PROVE  /\ Owns(g)' => cache'[g][r] = None \/ cache'[g][r] = Count(r)'
                      /\ phase'[g] = "down" => cache'[g][r] = None
    BY DEF CacheSound
  <2>2. Owns(g)' => g = h
    BY <1>1, <1>3 DEF Owns
  <2>3. CASE g # h
    BY <1>1, <1>2, <2>2, <2>3 DEF NumberInv, CacheSound
  <2>4. CASE g = h
    <3>1. CASE r = s
      BY <1>1, <1>2, <2>4, <3>1
    <3>2. CASE r # s
      BY <1>1, <1>2, <1>3, <2>4, <3>2 DEF NumberInv, CacheSound, Count
    <3> QED BY <3>1, <3>2
  <2> QED BY <2>3, <2>4
<1> QED BY <1>4, <1>5, <1>6 DEF NumberInv

\* Numbers, tokens and caches stay sound, whoever writes, forgets or takes the lease.
LEMMA NumberNext ==
  ASSUME FeedAssumption, HostInv, NumberInv, [Next]_vars
  PROVE  NumberInv'
<1>0. cache \in [Host -> [Session -> Nat \union {None}]] /\ phase \in [Host -> Phases] /\ token \in [Host -> Nat] /\ epoch \in Nat
  BY DEF HostInv, HostShape
<1>1. CASE UNCHANGED vars
  BY <1>1, NumberQuiet DEF vars, db, Owns
<1>2. ASSUME NEW h \in Host, NEW s \in Session, NEW kinds \in Seq(Kinds), kinds # <<>>, Commit(h, s, kinds),
             UNCHANGED <<born, phase>>, phase[h] # "down"
      PROVE  NumberInv'
  BY <1>2, NumberCommit
<1>3. ASSUME NEW h \in Host, NEW s \in Session,
             \/ Recover(h, s) \/ CloseOrphan(h, s) \/ Retire(h, s) \/ Close(h, s)
             \/ \E kinds \in {<<"started">>, <<"ended">>, <<"ended", "started">>} : Work(h, s, kinds)
      PROVE  NumberInv'
  <2>1. PICK kinds \in {<<"interrupted">>, <<"closed">>, <<"interrupted", "closed">>,
                        <<"started">>, <<"ended">>, <<"ended", "started">>} :
          Commit(h, s, kinds) /\ UNCHANGED <<born, phase>> /\ phase[h] # "down"
    <3>1. CASE Recover(h, s)
      BY <3>1 DEF Recover
    <3>2. CASE CloseOrphan(h, s)
      BY <3>2 DEF CloseOrphan
    <3>3. CASE Retire(h, s)
      BY <3>3 DEF Retire
    <3>4. CASE Close(h, s)
      BY <3>4 DEF Close
    <3>5. CASE \E kinds \in {<<"started">>, <<"ended">>, <<"ended", "started">>} : Work(h, s, kinds)
      BY <3>5 DEF Work
    <3> QED BY <1>3, <3>1, <3>2, <3>3, <3>4, <3>5
  <2>2. kinds \in Seq(Kinds) /\ kinds # <<>>
    BY Batches DEF Kinds
  <2> QED BY <1>2, <2>1, <2>2
<1>4. ASSUME NEW h \in Host, NEW s \in Session, Open(h, s) PROVE NumberInv'
  <2>1. UNCHANGED <<born, phase>> /\ phase[h] # "down"
    BY <1>4 DEF Open, HostInv, OpensItsOwn
  <2>2. CASE Commit(h, s, <<"opened">>)
    <3>1. <<"opened">> \in Seq(Kinds) /\ <<"opened">> # <<>>
      BY Batches DEF Kinds
    <3> QED BY <1>2, <2>1, <2>2, <3>1
  <2>3. CASE UNCHANGED <<db, token, cache, feed>>
    BY <2>1, <2>3, NumberQuiet DEF db, Owns
  <2> QED BY <1>4, <2>2, <2>3 DEF Open
<1>5. ASSUME NEW h \in Host, NEW s \in Session, Create(h, s) PROVE NumberInv'
  <2>1. /\ born[s] = 0 /\ Owns(h) /\ phase[h] = "serving"
        /\ born' = [born EXCEPT ![s] = token[h]]
        /\ cache' = [cache EXCEPT ![h][s] = 0]
        /\ UNCHANGED <<lease, epoch, log, phase, token>>
    BY <1>5 DEF Create
  <2>2. Count(s) = 0
    <3>1. log[s] = <<>>
      BY <2>1 DEF HostInv, RowsFirst
    <3> QED BY <3>1 DEF Count
  <2>3. TokensSound'
    BY <2>1 DEF NumberInv, TokensSound
  <2>4. JournalSound'
    BY <2>1 DEF NumberInv, JournalSound, TokensSound, Count, HostInv, HostShape
  <2>5. CacheSound'
    <3> SUFFICES ASSUME NEW g \in Host, NEW r \in Session
                 PROVE  /\ Owns(g)' => cache'[g][r] = None \/ cache'[g][r] = Count(r)'
                        /\ phase'[g] = "down" => cache'[g][r] = None
      BY DEF CacheSound
    <3>1. CASE g = h /\ r = s
      BY <1>0, <2>1, <2>2, <3>1 DEF Count
    <3>2. CASE ~(g = h /\ r = s)
      BY <1>0, <2>1, <3>2 DEF NumberInv, CacheSound, Owns, Count
    <3> QED BY <3>1, <3>2
  <2> QED BY <2>3, <2>4, <2>5 DEF NumberInv
<1>6. ASSUME NEW h \in Host, Start(h) PROVE NumberInv'
  <2>1. /\ phase[h] = "down" /\ epoch < MaxEpoch /\ epoch' = epoch + 1 /\ lease' = [owner |-> h, live |-> TRUE]
        /\ token' = [token EXCEPT ![h] = epoch + 1]
        /\ phase' = [phase EXCEPT ![h] = "recovering"]
        /\ UNCHANGED <<born, log, cache>>
    BY <1>6 DEF Start
  <2>2. TokensSound'
    BY <1>0, <2>1 DEF NumberInv, TokensSound
  <2>3. JournalSound'
    <3>1. epoch' <= MaxEpoch
      BY <1>0, <2>1 DEF FeedAssumption
    <3>2. \A s \in Session : born'[s] <= epoch' /\ Count(s)' <= MaxSeq[s]
      BY <1>0, <2>1 DEF NumberInv, JournalSound, Count, HostInv, HostShape
    <3>3. ASSUME NEW s \in Session, NEW i \in 1..Count(s)' PROVE log'[s][i].by > 0 /\ log'[s][i].by <= epoch'
      <4>1. log[s] \in Seq(Entry) /\ i \in 1..Len(log[s])
        BY <2>1 DEF Count, HostInv, HostShape
      <4>4. log[s][i] \in Entry
        BY <4>1
      <4>2. log[s][i].by \in Nat
        BY <4>4 DEF Entry
      <4>3. log[s][i].by > 0 /\ log[s][i].by <= epoch
        BY <2>1 DEF NumberInv, JournalSound, Count
      <4> QED BY <1>0, <2>1, <4>2, <4>3
    <3> QED BY <3>1, <3>2, <3>3 DEF JournalSound
  <2>4. CacheSound'
    BY <1>0, <2>1 DEF NumberInv, CacheSound, Owns, Count
  <2> QED BY <2>2, <2>3, <2>4 DEF NumberInv
<1>7. ASSUME NEW h \in Host, Serve(h) \/ Initialize(h) \/ Stop(h) \/ LeaseLost(h) PROVE NumberInv'
  <2>1. UNCHANGED <<lease, epoch, born, log, token, cache>>
    BY <1>7 DEF Serve, Initialize, Stop, LeaseLost, db
  <2>2. \A g \in Host : phase'[g] = "down" <=> phase[g] = "down"
    BY <1>0, <1>7 DEF Serve, Initialize, Stop, LeaseLost
  <2> QED BY <2>1, <2>2, NumberQuiet DEF Owns
<1>8. ASSUME NEW h \in Host, Flush(h) \/ Crash(h) PROVE NumberInv'
  <2>1. UNCHANGED <<lease, epoch, born, log, token>>
    BY <1>8 DEF Flush, Crash, db
  <2>2. \A g \in Host : phase'[g] = "down" <=> phase[g] = "down"
    BY <1>0, <1>8 DEF Flush, Crash, Leave
  <2>3. \A g \in Host, s \in Session : cache'[g][s] = cache[g][s] \/ cache'[g][s] = None
    <3>1. cache' = [cache EXCEPT ![h] = Each(None)]
      BY <1>8 DEF Flush, Crash, Leave
    <3> QED BY <1>0, <3>1 DEF Each
  <2> QED BY <2>1, <2>2, <2>3, NumberQuiet DEF Owns
<1>9. ASSUME NEW h \in Host, CloseJournal(h) PROVE NumberInv'
  <2>1. UNCHANGED <<epoch, born, log, token, cache>>
    BY <1>9 DEF CloseJournal
  <2>2. \A g \in Host : phase'[g] = "down" <=> phase[g] = "down"
    BY <1>0, <1>9 DEF CloseJournal
  <2>3. lease' = lease \/ lease' = [owner |-> None, live |-> FALSE]
    BY <1>9 DEF CloseJournal
  <2>4. \A g \in Host : Owns(g)' => Owns(g)
    BY <2>1, <2>3 DEF Owns
  <2> QED BY <2>1, <2>2, <2>4, NumberQuiet
<1>10. ASSUME NEW h \in Host, Drained(h) PROVE NumberInv'
  BY <1>10, NumberQuiet DEF Drained, db, Owns
<1>11. ASSUME NEW h \in Host, NEW s \in Session, CommitFails(h, s) PROVE NumberInv'
  <2>1. UNCHANGED <<lease, epoch, born, log, token, phase>> /\ cache' = [cache EXCEPT ![h][s] = None]
    BY <1>11 DEF CommitFails, Rollback, db
  <2>2. \A g \in Host, r \in Session : cache'[g][r] = cache[g][r] \/ cache'[g][r] = None
    BY <1>0, <2>1
  <2> QED BY <2>1, <2>2, NumberQuiet DEF Owns
<1>12. CASE Expire
  <2>1. UNCHANGED <<epoch, born, log, token, phase, cache>> /\ lease' = [lease EXCEPT !.live = FALSE]
    BY <1>12 DEF Expire
  <2>2. lease \in [owner : Host \union {None}, live : BOOLEAN]
    BY DEF HostInv, HostShape
  <2>3. \A g \in Host : ~Owns(g)'
    BY <2>1, <2>2 DEF Owns
  <2> QED BY <2>1, <2>3, NumberQuiet
<1> QED
  BY <1>1, <1>3, <1>4, <1>5, <1>6, <1>7, <1>8, <1>9, <1>10, <1>11, <1>12 DEF Next, Progress

-----------------------------------------------------------------------------
(* The steps of the feed. *)

Counts == [s \in Session |-> Count(s)]

FeedShape ==
  /\ initialized \in [Host -> BOOLEAN] /\ blocked \in [Host -> BOOLEAN] /\ base \in [Host -> Numbers]
  /\ notes \in [Host -> Seq(Line)] /\ answers \in [Host -> Seq(Line)]
  /\ seen \in [Host -> [Session -> SUBSET Nat]] /\ told \in [Host -> [Session -> SUBSET Nat]]

\* A writer that is not blocked has nothing left, and a host that does not serve yet has no client.
HostFeed(h) ==
  /\ FeedOf(notes[h], answers[h], seen[h], told[h], Counts)
  /\ ~blocked[h] => notes[h] = <<>> /\ answers[h] = <<>>
  /\ phase[h] \in {"down", "recovering"} => ~initialized[h]

FeedInv == FeedShape /\ (\A h \in Host : HostFeed(h)) /\ FeedComplete

\* FeedComplete in the terms of the steps.
FeedCovered ==
  \A h \in Host, s \in Session : initialized[h] /\ phase[h] = "serving" =>
    \A n \in (base[h][s] + 1)..Count(s) :
      log[s][n].by = token[h] => Covered(notes[h], answers[h], seen[h], told[h], s, n)

LEMMA CompleteIsCovered == FeedComplete <=> FeedCovered
BY DEF FeedComplete, FeedCovered, Covered, Later

\* A log that grows takes nothing back.
LEMMA FeedGrows ==
  ASSUME NEW q, NEW r, NEW got, NEW heard, NEW counts \in [Session -> Nat], FeedOf(q, r, got, heard, counts),
         NEW counts2 \in [Session -> Nat], \A t \in Session : counts[t] <= counts2[t]
  PROVE  FeedOf(q, r, got, heard, counts2)
<1>1. /\ q \in Seq(Line) /\ r \in Seq(Line) /\ Len(q) <= QueueLimit
      /\ got \in [Session -> SUBSET Nat] /\ heard \in [Session -> SUBSET Nat] /\ Ordered(q, got)
  BY DEF FeedOf
<1>2. ASSUME NEW i \in DOMAIN q PROVE q[i].n > 0 /\ q[i].n <= counts2[q[i].s]
  <2>1. q[i].s \in Session /\ q[i].n \in Nat /\ q[i].n > 0 /\ q[i].n <= counts[q[i].s]
    BY <1>1, LineAt DEF FeedOf, Bounded
  <2>2. counts[q[i].s] <= counts2[q[i].s] /\ counts[q[i].s] \in Nat /\ counts2[q[i].s] \in Nat
    BY <2>1
  <2> QED BY <2>1, <2>2
<1>3. ASSUME NEW i \in DOMAIN r PROVE r[i].n <= counts2[r[i].s]
  <2>1. r[i].s \in Session /\ r[i].n \in Nat /\ r[i].n <= counts[r[i].s]
    BY <1>1, LineAt DEF FeedOf
  <2>2. counts[r[i].s] <= counts2[r[i].s] /\ counts[r[i].s] \in Nat /\ counts2[r[i].s] \in Nat
    BY <2>1
  <2> QED BY <2>1, <2>2
<1>4. ASSUME NEW t \in Session, NEW m \in got[t] PROVE m > 0 /\ m <= counts2[t]
  <2>1. m \in Nat /\ m > 0 /\ m <= counts[t]
    BY <1>1 DEF FeedOf
  <2>2. counts[t] <= counts2[t] /\ counts[t] \in Nat /\ counts2[t] \in Nat
    OBVIOUS
  <2> QED BY <2>1, <2>2
<1>5. ASSUME NEW t \in Session, NEW m \in heard[t] PROVE m <= counts2[t]
  <2>1. m \in Nat /\ m <= counts[t]
    BY <1>1 DEF FeedOf
  <2>2. counts[t] <= counts2[t] /\ counts[t] \in Nat /\ counts2[t] \in Nat
    OBVIOUS
  <2> QED BY <2>1, <2>2
<1> QED BY <1>1, <1>2, <1>3, <1>4, <1>5 DEF FeedOf, Bounded

\* What only one host's feed does.
OnlyFeedOf(h) ==
  /\ notes' = [notes EXCEPT ![h] = notes'[h]] /\ answers' = [answers EXCEPT ![h] = answers'[h]]
  /\ seen' = [seen EXCEPT ![h] = seen'[h]] /\ told' = [told EXCEPT ![h] = told'[h]]
  /\ blocked' = [blocked EXCEPT ![h] = blocked'[h]] /\ blocked'[h] \in BOOLEAN

\* A writer that is at work leaves nothing unless it is blocked.
LEMMA DrainHolds ==
  ASSUME QueueLimit \in Nat, FeedShape, NEW h \in Host, NEW q, NEW r, NEW counts \in [Session -> Nat],
         FeedOf(q, r, seen[h], told[h], counts), Drain(h, q, r)
  PROVE  /\ OnlyFeedOf(h)
         /\ FeedOf(notes'[h], answers'[h], seen'[h], told'[h], counts)
         /\ ~blocked'[h] => notes'[h] = <<>> /\ answers'[h] = <<>>
         /\ \A s \in Session, e \in Nat :
              Covered(q, r, seen[h], told[h], s, e) => Covered(notes'[h], answers'[h], seen'[h], told'[h], s, e)
<1>1. PICK m \in 0..Len(r), n \in 0..Len(q), full \in BOOLEAN :
        /\ n > 0 => m = Len(r)
        /\ m < Len(r) \/ n < Len(q) => full
        /\ full => m + n > 0
        /\ blocked' = [blocked EXCEPT ![h] = full]
        /\ answers' = [answers EXCEPT ![h] = SubSeq(r, m + 1, Len(r))]
        /\ notes' = [notes EXCEPT ![h] = SubSeq(q, n + 1, Len(q))]
        /\ seen' = [seen EXCEPT ![h] = [s \in Session |-> seen[h][s] \union Seqs(SubSeq(q, 1, n), s)]]
        /\ told' = [told EXCEPT ![h] = [s \in Session |-> told[h][s] \union Seqs(SubSeq(r, 1, m), s)]]
  BY DEF Drain
<1>2. /\ blocked'[h] = full /\ answers'[h] = SubSeq(r, m + 1, Len(r)) /\ notes'[h] = SubSeq(q, n + 1, Len(q))
      /\ seen'[h] = Received(seen[h], q, n) /\ told'[h] = Received(told[h], r, m)
  BY <1>1 DEF FeedShape, Received
<1>3. OnlyFeedOf(h)
  BY <1>1, <1>2 DEF OnlyFeedOf, Received
<1>4. Len(q) \in Nat /\ Len(r) \in Nat
  BY LenProperties DEF FeedOf
<1>5. n = 0 \/ m = Len(r)
  BY <1>1, <1>4
<1>6. /\ FeedOf(notes'[h], answers'[h], seen'[h], told'[h], counts)
      /\ n = Len(q) => notes'[h] = <<>>
      /\ m = Len(r) => answers'[h] = <<>>
      /\ \A s \in Session, e \in Nat :
           Covered(q, r, seen[h], told[h], s, e) => Covered(notes'[h], answers'[h], seen'[h], told'[h], s, e)
  BY <1>2, <1>5, WritingHolds
<1>7. ~full => n = Len(q) /\ m = Len(r)
  BY <1>1, <1>4
<1> QED BY <1>2, <1>3, <1>6, <1>7

\* What is pushed waits for a blocked writer, and is written otherwise.
LEMMA PushHolds ==
  ASSUME QueueLimit \in Nat, FeedShape, NEW h \in Host, NEW q, NEW r, NEW counts \in [Session -> Nat],
         FeedOf(q, r, seen[h], told[h], counts), Push(h, q, r)
  PROVE  /\ OnlyFeedOf(h)
         /\ FeedOf(notes'[h], answers'[h], seen'[h], told'[h], counts)
         /\ ~blocked'[h] => notes'[h] = <<>> /\ answers'[h] = <<>>
         /\ \A s \in Session, e \in Nat :
              Covered(q, r, seen[h], told[h], s, e) => Covered(notes'[h], answers'[h], seen'[h], told'[h], s, e)
<1>1. CASE blocked[h]
  <2>1. notes' = [notes EXCEPT ![h] = q] /\ answers' = [answers EXCEPT ![h] = r] /\ UNCHANGED <<blocked, seen, told>>
    BY <1>1 DEF Push
  <2>2. notes'[h] = q /\ answers'[h] = r /\ blocked'[h]
    BY <1>1, <2>1 DEF FeedShape
  <2>3. OnlyFeedOf(h)
    BY <2>1, <2>2 DEF OnlyFeedOf, FeedShape
  <2> QED BY <2>1, <2>2, <2>3
<1>2. CASE ~blocked[h]
  <2>1. Drain(h, q, r)
    BY <1>2 DEF Push
  <2> QED BY <2>1, DrainHolds
<1> QED BY <1>1, <1>2

\* Numbers of the log.
LEMMA CountsAre ==
  ASSUME HostInv
  PROVE  /\ Counts \in [Session -> Nat]
         /\ \A s \in Session : Count(s) \in Nat /\ Counts[s] = Count(s)
<1>1. ASSUME NEW s \in Session PROVE Count(s) \in Nat
  <2>1. log[s] \in Seq(Entry)
    BY DEF HostInv, HostShape
  <2> QED BY <2>1, LenProperties DEF Count
<1> QED BY <1>1 DEF Counts

\* A step that moves one feed, while logs grow.
LEMMA OneFeed ==
  ASSUME FeedInv, Counts \in [Session -> Nat], Counts' \in [Session -> Nat],
         \A t \in Session : Counts[t] <= Counts'[t],
         NEW h \in Host, OnlyFeedOf(h), FeedOf(notes'[h], answers'[h], seen'[h], told'[h], Counts'),
         ~blocked'[h] => notes'[h] = <<>> /\ answers'[h] = <<>>,
         UNCHANGED <<initialized, base>>,
         \A g \in Host : phase'[g] \in {"down", "recovering"} => phase[g] \in {"down", "recovering"}
  PROVE  FeedShape' /\ \A g \in Host : HostFeed(g)'
<1>1. /\ notes'[h] \in Seq(Line) /\ answers'[h] \in Seq(Line) /\ blocked'[h] \in BOOLEAN
      /\ seen'[h] \in [Session -> SUBSET Nat] /\ told'[h] \in [Session -> SUBSET Nat]
  BY DEF FeedOf, OnlyFeedOf
<1>2. FeedShape
  BY DEF FeedInv
<1>3. /\ notes' \in [Host -> Seq(Line)] /\ answers' \in [Host -> Seq(Line)]
      /\ \A g \in Host : g # h => notes'[g] = notes[g] /\ answers'[g] = answers[g]
  <2>1. /\ notes' = [notes EXCEPT ![h] = notes'[h]] /\ answers' = [answers EXCEPT ![h] = answers'[h]]
        /\ notes \in [Host -> Seq(Line)] /\ answers \in [Host -> Seq(Line)]
    BY <1>2 DEF OnlyFeedOf, FeedShape
  <2> QED BY <1>1, <2>1
<1>4. /\ seen' \in [Host -> [Session -> SUBSET Nat]] /\ told' \in [Host -> [Session -> SUBSET Nat]]
      /\ \A g \in Host : g # h => seen'[g] = seen[g] /\ told'[g] = told[g]
  <2>1. /\ seen' = [seen EXCEPT ![h] = seen'[h]] /\ told' = [told EXCEPT ![h] = told'[h]]
        /\ seen \in [Host -> [Session -> SUBSET Nat]] /\ told \in [Host -> [Session -> SUBSET Nat]]
    BY <1>2 DEF OnlyFeedOf, FeedShape
  <2> QED BY <1>1, <2>1
<1>5. blocked' \in [Host -> BOOLEAN] /\ \A g \in Host : g # h => blocked'[g] = blocked[g]
  <2>1. blocked' = [blocked EXCEPT ![h] = blocked'[h]] /\ blocked \in [Host -> BOOLEAN]
    BY <1>2 DEF OnlyFeedOf, FeedShape
  <2> QED BY <1>1, <2>1
<1>6. FeedShape'
  BY <1>2, <1>3, <1>4, <1>5 DEF FeedShape
<1>7. ASSUME NEW g \in Host PROVE HostFeed(g)'
  <2>1. HostFeed(g)
    BY DEF FeedInv
  <2>2. phase'[g] \in {"down", "recovering"} => ~initialized'[g]
    BY <2>1 DEF HostFeed
  <2>3. CASE g = h
    BY <2>2, <2>3 DEF HostFeed
  <2>4. CASE g # h
    <3>1. FeedOf(notes[g], answers[g], seen[g], told[g], Counts)
      BY <2>1 DEF HostFeed
    <3>2. FeedOf(notes[g], answers[g], seen[g], told[g], Counts')
      BY <3>1, FeedGrows
    <3>3. FeedOf(notes'[g], answers'[g], seen'[g], told'[g], Counts')
      BY <1>3, <1>4, <2>4, <3>2
    <3>4. ~blocked'[g] => notes'[g] = <<>> /\ answers'[g] = <<>>
      BY <1>3, <1>5, <2>1, <2>4 DEF HostFeed
    <3> QED BY <2>2, <3>3, <3>4 DEF HostFeed
  <2> QED BY <2>3, <2>4
<1> QED BY <1>6, <1>7

\* A feed that nothing is pushed to stays as it is.
LEMMA FeedRests ==
  ASSUME FeedShape, NEW h \in Host, UNCHANGED <<notes, answers, blocked, seen, told>>
  PROVE  OnlyFeedOf(h)
<1>1. notes = [notes EXCEPT ![h] = notes[h]] /\ answers = [answers EXCEPT ![h] = answers[h]]
  BY DEF FeedShape
<1>2. seen = [seen EXCEPT ![h] = seen[h]] /\ told = [told EXCEPT ![h] = told[h]]
  BY DEF FeedShape
<1>3. blocked = [blocked EXCEPT ![h] = blocked[h]] /\ blocked[h] \in BOOLEAN
  BY DEF FeedShape
<1> QED BY <1>1, <1>2, <1>3 DEF OnlyFeedOf

\* What was covered stays covered.
KeepsCovered(h) ==
  \A s \in Session, e \in Nat :
    Covered(notes[h], answers[h], seen[h], told[h], s, e) => Covered(notes'[h], answers'[h], seen'[h], told'[h], s, e)

\* What is published to a client that listens reaches it, waits for it, or is told of.
LEMMA PublishHolds ==
  ASSUME FeedAssumption, HostInv, FeedInv, NEW h \in Host, NEW s \in Session, NEW k \in Nat,
         initialized[h] /\ phase[h] = "serving", Publish(h, s, Numbered(Counts, s, k))
  PROVE  /\ OnlyFeedOf(h)
         /\ FeedOf(notes'[h], answers'[h], seen'[h], told'[h], Grown(Counts, s, k))
         /\ ~blocked'[h] => notes'[h] = <<>> /\ answers'[h] = <<>>
         /\ KeepsCovered(h)
         /\ \A e \in (Counts[s] + 1)..(Counts[s] + k) : Covered(notes'[h], answers'[h], seen'[h], told'[h], s, e)
<1> DEFINE queue == notes[h] \o Lines(s, Numbered(Counts, s, k))
           b == Busiest(queue)
           q2 == IF Len(queue) <= QueueLimit THEN queue ELSE Without(queue, b)
           longer == IF Len(queue) <= QueueLimit THEN answers[h] ELSE Append(answers[h], [s |-> b, n |-> LastSent(h, b)])
<1>1. Push(h, q2, longer)
  BY DEF Publish
<1>2. Counts \in [Session -> Nat] /\ FeedShape /\ QueueLimit \in Nat
  BY CountsAre DEF FeedInv, FeedAssumption
<1>3. FeedOf(notes[h], answers[h], seen[h], told[h], Counts)
  BY DEF FeedInv, HostFeed
<1>4. Shed(queue, answers[h], seen[h], q2, longer)
  BY DEF LastSent, Shed
<1> HIDE DEF queue, b, q2, longer
<1>5. /\ FeedOf(q2, longer, seen[h], told[h], Grown(Counts, s, k))
      /\ Remains(notes[h], answers[h], q2, longer, seen[h], told[h])
      /\ BatchCovered(q2, longer, seen[h], told[h], Counts, s, k)
  <2>1. queue = notes[h] \o Lines(s, Numbered(Counts, s, k))
    BY DEF queue
  <2> QED BY <1>2, <1>3, <1>4, <2>1, PublishingHolds
<1>6. Grown(Counts, s, k) \in [Session -> Nat]
  BY <1>2 DEF Grown
<1>7. /\ OnlyFeedOf(h)
      /\ FeedOf(notes'[h], answers'[h], seen'[h], told'[h], Grown(Counts, s, k))
      /\ ~blocked'[h] => notes'[h] = <<>> /\ answers'[h] = <<>>
      /\ \A t \in Session, e \in Nat :
           Covered(q2, longer, seen[h], told[h], t, e) => Covered(notes'[h], answers'[h], seen'[h], told'[h], t, e)
  BY <1>1, <1>2, <1>5, <1>6, PushHolds
<1>8. KeepsCovered(h)
  BY <1>5, <1>7 DEF KeepsCovered, Remains
<1>9. \A e \in (Counts[s] + 1)..(Counts[s] + k) : e \in Nat
  BY <1>2
<1> QED BY <1>5, <1>7, <1>8, <1>9 DEF BatchCovered

\* A host that commits and does not publish, or publishes, keeps every feed.
LEMMA FeedCommit ==
  ASSUME FeedAssumption, HostInv, NumberInv, FeedInv, NEW h \in Host, NEW s \in Session,
         NEW kinds \in Seq(Kinds), kinds # <<>>, Commit(h, s, kinds), UNCHANGED phase, phase[h] # "down"
  PROVE  FeedInv'
<1> DEFINE k == Len(kinds)
<1>1. /\ k \in Nat /\ Count(s)' = Count(s) + k
      /\ \A n \in 1..Count(s) : log'[s][n] = log[s][n]
      /\ \A n \in (Count(s) + 1)..Count(s)' : log'[s][n].by = token[h]
      /\ \A r \in Session : r # s => log'[r] = log[r]
      /\ Publish(h, s, [i \in 1..k |-> Count(s) + i])
      /\ UNCHANGED <<token, initialized, base>>
  BY CommitNumbers
<1> HIDE DEF k
<1>2. Counts \in [Session -> Nat] /\ \A t \in Session : Count(t) \in Nat /\ Counts[t] = Count(t)
  BY CountsAre
<1>3. \A t \in Session : t # s => Count(t)' = Count(t)
  BY <1>1 DEF Count
<1>4. Counts' = Grown(Counts, s, k)
  <2>1. Grown(Counts, s, k) = [t \in Session |-> IF t = s THEN Count(s) + k ELSE Count(t)]
    BY <1>2 DEF Grown
  <2>2. Counts' = [t \in Session |-> Count(t)']
    BY DEF Counts
  <2>3. \A t \in Session : Count(t)' = IF t = s THEN Count(s) + k ELSE Count(t)
    BY <1>1, <1>3
  <2> QED BY <2>1, <2>2, <2>3
<1>5. Counts' \in [Session -> Nat] /\ \A t \in Session : Counts[t] <= Counts'[t]
  BY <1>1, <1>2, <1>4 DEF Grown
<1>6. FeedShape /\ HostFeed(h) /\ FeedCovered
  BY CompleteIsCovered DEF FeedInv
<1>7. Publish(h, s, Numbered(Counts, s, k))
  BY <1>1, <1>2 DEF Numbered
<1>8. /\ OnlyFeedOf(h)
      /\ FeedOf(notes'[h], answers'[h], seen'[h], told'[h], Counts')
      /\ ~blocked'[h] => notes'[h] = <<>> /\ answers'[h] = <<>>
      /\ KeepsCovered(h)
      /\ initialized[h] /\ phase[h] = "serving" =>
           \A e \in (Counts[s] + 1)..(Counts[s] + k) : Covered(notes'[h], answers'[h], seen'[h], told'[h], s, e)
  <2>1. CASE initialized[h] /\ phase[h] = "serving"
    BY <1>1, <1>4, <1>7, <2>1, PublishHolds
  <2>2. CASE ~(initialized[h] /\ phase[h] = "serving")
    <3>1. UNCHANGED <<notes, answers, blocked, seen, told>>
      BY <1>7, <2>2 DEF Publish
    <3>2. OnlyFeedOf(h)
      BY <1>6, <3>1, FeedRests
    <3>3. FeedOf(notes[h], answers[h], seen[h], told[h], Counts)
      BY <1>6 DEF HostFeed
    <3>4. FeedOf(notes[h], answers[h], seen[h], told[h], Counts')
      BY <1>2, <1>5, <3>3, FeedGrows
    <3>5. ~blocked'[h] => notes'[h] = <<>> /\ answers'[h] = <<>>
      BY <1>6, <3>1 DEF HostFeed
    <3>6. KeepsCovered(h)
      BY <3>1 DEF KeepsCovered
    <3> QED BY <2>2, <3>1, <3>2, <3>4, <3>5, <3>6
  <2> QED BY <2>1, <2>2
<1>9. FeedShape' /\ \A g \in Host : HostFeed(g)'
  BY <1>1, <1>2, <1>5, <1>8, OneFeed
<1>10. FeedCovered'
  <2> SUFFICES ASSUME NEW g \in Host, NEW t \in Session, initialized'[g], phase'[g] = "serving",
                      NEW n \in (base'[g][t] + 1)..Count(t)', log'[t][n].by = token'[g]
               PROVE  Covered(notes'[g], answers'[g], seen'[g], told'[g], t, n)
    BY DEF FeedCovered
  <2>1. initialized[g] /\ phase[g] = "serving" /\ base'[g] = base[g] /\ token'[g] = token[g] /\ token[g] > 0
    BY <1>1 DEF NumberInv, TokensSound
  <2>2. base[g][t] \in Nat /\ n \in Nat /\ n > 0
    <3>1. base[g][t] \in Nat
      BY <1>6 DEF FeedShape, Numbers
    <3> QED BY <2>1, <3>1
  <2>3. CASE n <= Count(t)
    <3>1. n \in (base[g][t] + 1)..Count(t) /\ n \in 1..Count(t)
      BY <1>2, <2>1, <2>2, <2>3
    <3>2. log[t][n].by = token[g]
      BY <1>1, <2>1, <3>1
    <3>3. Covered(notes[g], answers[g], seen[g], told[g], t, n)
      BY <1>6, <2>1, <3>1, <3>2 DEF FeedCovered
    <3>4. CASE g = h
      BY <1>8, <2>2, <3>3, <3>4 DEF KeepsCovered
    <3>5. CASE g # h
      <4>1. notes'[g] = notes[g] /\ answers'[g] = answers[g] /\ seen'[g] = seen[g] /\ told'[g] = told[g]
        BY <1>6, <1>8, <3>5 DEF OnlyFeedOf, FeedShape
      <4> QED BY <3>3, <4>1
    <3> QED BY <3>4, <3>5
  <2>4. CASE ~(n <= Count(t))
    <3>1. t = s
      BY <1>2, <1>3, <2>2, <2>4
    <3>2. n \in (Count(s) + 1)..Count(s)' /\ n \in (Counts[s] + 1)..(Counts[s] + k)
      BY <1>1, <1>2, <2>2, <2>4, <3>1
    <3>3. log'[s][n].by = token[h]
      BY <1>1, <3>2
    <3>4. g = h
      BY <2>1, <3>1, <3>3 DEF NumberInv, TokensSound
    <3> QED BY <1>8, <2>1, <3>1, <3>2, <3>4
  <2> QED BY <2>3, <2>4
<1>11. FeedComplete'
  BY <1>10 DEF FeedComplete, FeedCovered, Covered, Later
<1> QED BY <1>9, <1>11 DEF FeedInv

\* Steps that append nothing and leave what the hosts hold for their clients.
LEMMA FeedQuiet ==
  ASSUME FeedInv, UNCHANGED <<log, feed>>,
         \A g \in Host : initialized[g] /\ phase'[g] = "serving" => phase[g] = "serving" /\ token'[g] = token[g],
         \A g \in Host : phase'[g] \in {"down", "recovering"} => phase[g] \in {"down", "recovering"}
  PROVE  FeedInv'
<1>1. UNCHANGED <<initialized, notes, answers, blocked, base, seen, told>> /\ log' = log
  BY DEF feed
<1>2. FeedShape'
  BY <1>1 DEF FeedInv, FeedShape
<1>3. Counts' = Counts /\ \A s \in Session : Count(s)' = Count(s)
  BY <1>1 DEF Counts, Count
<1>4. ASSUME NEW g \in Host PROVE HostFeed(g)'
  <2>1. HostFeed(g)
    BY DEF FeedInv
  <2>2. FeedOf(notes'[g], answers'[g], seen'[g], told'[g], Counts')
    BY <1>1, <1>3, <2>1 DEF HostFeed
  <2> QED BY <1>1, <2>1, <2>2 DEF HostFeed
<1>5. FeedComplete'
  BY <1>1, <1>3 DEF FeedInv, FeedComplete, Later
<1> QED BY <1>2, <1>4, <1>5 DEF FeedInv

\* The output of a host drains.
LEMMA FeedDrained ==
  ASSUME FeedAssumption, HostInv, FeedInv, NEW h \in Host, Drained(h)
  PROVE  FeedInv'
<1>1. Drain(h, notes[h], answers[h]) /\ UNCHANGED <<log, phase, token, initialized, base>>
  BY DEF Drained, db
<1>2. Counts \in [Session -> Nat] /\ \A t \in Session : Count(t) \in Nat /\ Counts[t] = Count(t)
  BY CountsAre
<1>3. Counts' = Counts /\ \A s \in Session : Count(s)' = Count(s)
  BY <1>1 DEF Counts, Count
<1>4. FeedShape /\ FeedOf(notes[h], answers[h], seen[h], told[h], Counts) /\ QueueLimit \in Nat
  BY DEF FeedInv, HostFeed, FeedAssumption
<1>5. /\ OnlyFeedOf(h)
      /\ FeedOf(notes'[h], answers'[h], seen'[h], told'[h], Counts)
      /\ ~blocked'[h] => notes'[h] = <<>> /\ answers'[h] = <<>>
      /\ \A s \in Session, e \in Nat :
           Covered(notes[h], answers[h], seen[h], told[h], s, e) =>
             Covered(notes'[h], answers'[h], seen'[h], told'[h], s, e)
  BY <1>1, <1>2, <1>4, DrainHolds
<1>6. FeedShape' /\ \A g \in Host : HostFeed(g)'
  <2>1. \A t \in Session : Counts[t] <= Counts'[t]
    BY <1>2, <1>3
  <2>2. Counts' \in [Session -> Nat] /\ FeedOf(notes'[h], answers'[h], seen'[h], told'[h], Counts')
    BY <1>2, <1>3, <1>5
  <2> QED BY <1>1, <1>2, <1>5, <2>1, <2>2, OneFeed
<1>7. FeedComplete'
  <2> SUFFICES ASSUME NEW g \in Host, NEW t \in Session, initialized'[g], phase'[g] = "serving",
                      NEW n \in (base'[g][t] + 1)..Count(t)', log'[t][n].by = token'[g]
               PROVE  Covered(notes'[g], answers'[g], seen'[g], told'[g], t, n)
    BY DEF FeedComplete, Covered, Later
  <2>1. n \in (base[g][t] + 1)..Count(t) /\ n \in Nat
    <3>1. base[g][t] \in Nat
      BY <1>4 DEF FeedShape, Numbers
    <3> QED BY <1>1, <1>2, <1>3, <3>1
  <2>2. Covered(notes[g], answers[g], seen[g], told[g], t, n)
    BY <1>1, <2>1 DEF FeedInv, FeedComplete, Covered, Later
  <2>3. CASE g = h
    BY <1>5, <2>1, <2>2, <2>3
  <2>4. CASE g # h
    <3>1. notes'[g] = notes[g] /\ answers'[g] = answers[g] /\ seen'[g] = seen[g] /\ told'[g] = told[g]
      BY <1>4, <1>5, <2>4 DEF OnlyFeedOf, FeedShape
    <3> QED BY <2>2, <3>1
  <2> QED BY <2>3, <2>4
<1> QED BY <1>6, <1>7 DEF FeedInv

\* A client that initializes is owed nothing of the past.
LEMMA FeedInitialize ==
  ASSUME HostInv, FeedInv, NEW h \in Host, Initialize(h)
  PROVE  FeedInv'
<1>1. /\ phase[h] = "serving"
      /\ initialized' = [initialized EXCEPT ![h] = TRUE]
      /\ base' = [base EXCEPT ![h] = [s \in Session |-> Count(s)]]
      /\ UNCHANGED <<log, phase, token, notes, answers, blocked, seen, told>>
  BY DEF Initialize, db
<1>2. \A t \in Session : Count(t) \in Nat
  BY CountsAre
<1>3. [s \in Session |-> Count(s)] \in Numbers
  BY <1>2 DEF Numbers
<1>4. FeedShape'
  BY <1>1, <1>3 DEF FeedInv, FeedShape
<1>5. Counts' = Counts /\ \A s \in Session : Count(s)' = Count(s)
  BY <1>1 DEF Counts, Count
<1>6. ASSUME NEW g \in Host PROVE HostFeed(g)'
  <2>1. HostFeed(g)
    BY DEF FeedInv
  <2>2. FeedOf(notes'[g], answers'[g], seen'[g], told'[g], Counts')
    BY <1>1, <1>5, <2>1 DEF HostFeed
  <2>3. phase'[g] \in {"down", "recovering"} => ~initialized'[g]
    BY <1>1, <2>1 DEF HostFeed, FeedInv, FeedShape
  <2> QED BY <1>1, <2>1, <2>2, <2>3 DEF HostFeed
<1>7. FeedComplete'
  <2> SUFFICES ASSUME NEW g \in Host, NEW t \in Session, initialized'[g], phase'[g] = "serving",
                      NEW n \in (base'[g][t] + 1)..Count(t)', log'[t][n].by = token'[g]
               PROVE  Covered(notes'[g], answers'[g], seen'[g], told'[g], t, n)
    BY DEF FeedComplete, Covered, Later
  <2>1. base \in [Host -> Numbers] /\ initialized \in [Host -> BOOLEAN]
    BY DEF FeedInv, FeedShape
  <2>2. CASE g = h
    <3>1. base'[g][t] = Count(t) /\ Count(t)' = Count(t)
      BY <1>1, <1>5, <2>1, <2>2
    <3> QED BY <1>2, <3>1
  <2>3. CASE g # h
    <3>1. base'[g] = base[g] /\ initialized'[g] = initialized[g]
      BY <1>1, <2>1, <2>3
    <3> QED BY <1>1, <1>5, <3>1 DEF FeedInv, FeedComplete, Covered, Later
  <2> QED BY <2>2, <2>3
<1> QED BY <1>4, <1>6, <1>7 DEF FeedInv

\* Nobody holds anything for a client.
LEMMA EmptyFeed ==
  ASSUME FeedAssumption, NEW counts
  PROVE  FeedOf(<<>>, <<>>, Each({}), Each({}), counts)
<1>1. <<>> \in Seq(Line) /\ Len(<<>>) = 0 /\ DOMAIN <<>> = {}
  <2>1. DOMAIN <<>> = 1..0 /\ 1..0 = {}
    OBVIOUS
  <2> QED BY <2>1
<1>2. Each({}) \in [Session -> SUBSET Nat] /\ \A s \in Session : Each({})[s] = {}
  BY DEF Each
<1>3. Len(<<>>) <= QueueLimit
  BY <1>1 DEF FeedAssumption
<1> QED BY <1>1, <1>2, <1>3 DEF FeedOf, Ordered, Bounded

\* What a process held is gone with it.
LEMMA FeedLeaves ==
  ASSUME FeedAssumption, HostInv, FeedInv, NEW h \in Host, NEW to \in {"gone", "spinning"}, Leave(h, to),
         UNCHANGED <<db, token>>
  PROVE  FeedInv'
<1>1. /\ phase' = [phase EXCEPT ![h] = to]
      /\ initialized' = [initialized EXCEPT ![h] = FALSE] /\ blocked' = [blocked EXCEPT ![h] = FALSE]
      /\ notes' = [notes EXCEPT ![h] = <<>>] /\ answers' = [answers EXCEPT ![h] = <<>>]
      /\ base' = [base EXCEPT ![h] = Each(0)]
      /\ seen' = [seen EXCEPT ![h] = Each({})] /\ told' = [told EXCEPT ![h] = Each({})]
      /\ UNCHANGED <<log, token>>
  BY DEF Leave, db
<1>2. FeedShape /\ phase \in [Host -> Phases]
  BY DEF FeedInv, HostInv, HostShape
<1>3. <<>> \in Seq(Line) /\ Each(0) \in Numbers /\ Each({}) \in [Session -> SUBSET Nat]
  BY DEF Each, Numbers
<1>4. FeedShape'
  BY <1>1, <1>2, <1>3 DEF FeedShape
<1>5. Counts' = Counts /\ \A s \in Session : Count(s)' = Count(s)
  BY <1>1 DEF Counts, Count
<1>6. /\ notes'[h] = <<>> /\ answers'[h] = <<>> /\ seen'[h] = Each({}) /\ told'[h] = Each({})
      /\ ~initialized'[h] /\ phase'[h] = to
  BY <1>1, <1>2 DEF FeedShape
<1>7. ASSUME NEW g \in Host, g # h
      PROVE  /\ notes'[g] = notes[g] /\ answers'[g] = answers[g] /\ seen'[g] = seen[g] /\ told'[g] = told[g]
             /\ initialized'[g] = initialized[g] /\ blocked'[g] = blocked[g] /\ base'[g] = base[g]
             /\ phase'[g] = phase[g]
  BY <1>1, <1>2, <1>7 DEF FeedShape
<1>8. ASSUME NEW g \in Host PROVE HostFeed(g)'
  <2>1. CASE g = h
    <3>1. FeedOf(notes'[h], answers'[h], seen'[h], told'[h], Counts')
      BY <1>6, EmptyFeed
    <3> QED BY <1>6, <2>1, <3>1 DEF HostFeed
  <2>2. CASE g # h
    <3>1. HostFeed(g)
      BY DEF FeedInv
    <3>2. FeedOf(notes'[g], answers'[g], seen'[g], told'[g], Counts')
      BY <1>5, <1>7, <2>2, <3>1 DEF HostFeed
    <3> QED BY <1>7, <2>2, <3>1, <3>2 DEF HostFeed
  <2> QED BY <2>1, <2>2
<1>9. FeedComplete'
  <2> SUFFICES ASSUME NEW g \in Host, NEW t \in Session, initialized'[g], phase'[g] = "serving",
                      NEW n \in (base'[g][t] + 1)..Count(t)', log'[t][n].by = token'[g]
               PROVE  Covered(notes'[g], answers'[g], seen'[g], told'[g], t, n)
    BY DEF FeedComplete, Covered, Later
  <2>1. g # h
    BY <1>6
  <2> QED BY <1>1, <1>5, <1>7, <2>1 DEF FeedInv, FeedComplete, Covered, Later
<1> QED BY <1>4, <1>8, <1>9 DEF FeedInv

LEMMA FeedInit == FeedAssumption /\ Init => FeedInv
<1> SUFFICES ASSUME FeedAssumption, Init PROVE FeedInv
  OBVIOUS
<1>1. <<>> \in Seq(Line) /\ Each(0) \in Numbers /\ Each({}) \in [Session -> SUBSET Nat]
  BY DEF Each, Numbers
<1>2. FeedShape
  BY <1>1 DEF Init, FeedShape
<1>3. ASSUME NEW g \in Host PROVE HostFeed(g)
  <2>1. FeedOf(notes[g], answers[g], seen[g], told[g], Counts)
    BY EmptyFeed DEF Init
  <2> QED BY <2>1 DEF Init, HostFeed
<1>4. FeedComplete
  BY DEF Init, FeedComplete
<1> QED BY <1>2, <1>3, <1>4 DEF FeedInv

\* Every step keeps the feeds.
LEMMA FeedNext ==
  ASSUME FeedAssumption, HostInv, NumberInv, FeedInv, [Next]_vars
  PROVE  FeedInv'
<1>0. phase \in [Host -> Phases] /\ token \in [Host -> Nat] /\ \A g \in Host : HostFeed(g)
  BY DEF HostInv, HostShape, FeedInv
<1>1. CASE UNCHANGED vars
  BY <1>1, FeedQuiet DEF vars, db
<1>2. ASSUME NEW h \in Host, NEW s \in Session,
             \/ Recover(h, s) \/ CloseOrphan(h, s) \/ Retire(h, s) \/ Close(h, s)
             \/ \E kinds \in {<<"started">>, <<"ended">>, <<"ended", "started">>} : Work(h, s, kinds)
      PROVE  FeedInv'
  <2>1. PICK kinds \in {<<"interrupted">>, <<"closed">>, <<"interrupted", "closed">>,
                        <<"started">>, <<"ended">>, <<"ended", "started">>} :
          Commit(h, s, kinds) /\ UNCHANGED phase /\ phase[h] # "down"
    <3>1. CASE Recover(h, s)
      BY <3>1 DEF Recover
    <3>2. CASE CloseOrphan(h, s)
      BY <3>2 DEF CloseOrphan
    <3>3. CASE Retire(h, s)
      BY <3>3 DEF Retire
    <3>4. CASE Close(h, s)
      BY <3>4 DEF Close
    <3>5. CASE \E kinds \in {<<"started">>, <<"ended">>, <<"ended", "started">>} : Work(h, s, kinds)
      BY <3>5 DEF Work
    <3> QED BY <1>2, <3>1, <3>2, <3>3, <3>4, <3>5
  <2>2. kinds \in Seq(Kinds) /\ kinds # <<>>
    BY Batches DEF Kinds
  <2> QED BY <2>1, <2>2, FeedCommit
<1>3. ASSUME NEW h \in Host, NEW s \in Session, Open(h, s) PROVE FeedInv'
  <2>1. UNCHANGED phase /\ phase[h] # "down"
    BY <1>3 DEF Open, HostInv, OpensItsOwn
  <2>2. CASE Commit(h, s, <<"opened">>)
    <3>1. <<"opened">> \in Seq(Kinds) /\ <<"opened">> # <<>>
      BY Batches DEF Kinds
    <3> QED BY <2>1, <2>2, <3>1, FeedCommit
  <2>3. CASE UNCHANGED <<db, token, cache, feed>>
    BY <2>1, <2>3, FeedQuiet DEF db
  <2> QED BY <1>3, <2>2, <2>3 DEF Open
<1>4. ASSUME NEW h \in Host, NEW s \in Session, Create(h, s) \/ CommitFails(h, s) PROVE FeedInv'
  <2>1. UNCHANGED <<log, feed, phase, token>>
    BY <1>4 DEF Create, CommitFails, db
  <2> QED BY <2>1, FeedQuiet
<1>5. ASSUME NEW h \in Host, Start(h) PROVE FeedInv'
  <2>1. /\ UNCHANGED <<log, feed>> /\ phase[h] = "down"
        /\ phase' = [phase EXCEPT ![h] = "recovering"]
        /\ token' = [token EXCEPT ![h] = epoch + 1]
    BY <1>5 DEF Start
  <2>2. /\ \A g \in Host : initialized[g] /\ phase'[g] = "serving" => phase[g] = "serving" /\ token'[g] = token[g]
        /\ \A g \in Host : phase'[g] \in {"down", "recovering"} => phase[g] \in {"down", "recovering"}
    BY <1>0, <2>1
  <2> QED BY <2>1, <2>2, FeedQuiet
<1>6. ASSUME NEW h \in Host, Serve(h) \/ Stop(h) \/ LeaseLost(h) \/ CloseJournal(h) PROVE FeedInv'
  <2>1. UNCHANGED <<log, feed, token>>
    BY <1>6 DEF Serve, Stop, LeaseLost, CloseJournal, db
  <2>2. /\ \A g \in Host : initialized[g] /\ phase'[g] = "serving" => phase[g] = "serving" /\ token'[g] = token[g]
        /\ \A g \in Host : phase'[g] \in {"down", "recovering"} => phase[g] \in {"down", "recovering"}
    <3>1. PICK to \in {"serving", "stopping", "lost", "flushing"} :
            phase' = [phase EXCEPT ![h] = to] /\ (to = "serving" => phase[h] = "recovering")
      BY <1>6 DEF Serve, Stop, LeaseLost, CloseJournal
    <3>2. phase[h] = "recovering" => ~initialized[h]
      BY <1>0 DEF HostFeed
    <3> QED BY <1>0, <2>1, <3>1, <3>2
  <2> QED BY <2>1, <2>2, FeedQuiet
<1>7. ASSUME NEW h \in Host, Flush(h) \/ Crash(h) PROVE FeedInv'
  <2>1. PICK to \in {"gone", "spinning"} : Leave(h, to) /\ UNCHANGED <<db, token>>
    BY <1>7 DEF Flush, Crash
  <2> QED BY <2>1, FeedLeaves
<1>8. ASSUME NEW h \in Host, Drained(h) \/ Initialize(h) PROVE FeedInv'
  BY <1>8, FeedDrained, FeedInitialize
<1>9. CASE Expire
  BY <1>9, FeedQuiet DEF Expire
<1> QED
  BY <1>1, <1>2, <1>3, <1>4, <1>5, <1>6, <1>7, <1>8, <1>9 DEF Next, Progress

LEMMA NumberInit == FeedAssumption /\ Init => NumberInv
<1> SUFFICES ASSUME FeedAssumption, Init PROVE NumberInv
  OBVIOUS
<1>1. TokensSound
  BY DEF Init, TokensSound
<1>2. \A s \in Session : Count(s) = 0 /\ 1..Count(s) = {}
  <2>1. Len(<<>>) = 0 /\ 1..0 = {}
    OBVIOUS
  <2>2. \A s \in Session : log[s] = <<>>
    BY DEF Init, Each
  <2> QED BY <2>1, <2>2 DEF Count
<1>3. JournalSound
  BY <1>2 DEF Init, Each, JournalSound, FeedAssumption
<1>4. CacheSound
  BY DEF Init, Each, CacheSound
<1> QED BY <1>1, <1>3, <1>4 DEF NumberInv

\* Every event of a session is received by a client that listens, waits for it, or is after the
\* position of a notice, for any queue limit, sessions, clients and hosts.
THEOREM FeedIsComplete ==
  ASSUME FeedAssumption
  PROVE  Spec => []FeedComplete
<1>1. Init => HostInv /\ NumberInv /\ FeedInv
  BY HostInit, NumberInit, FeedInit DEF FeedAssumption
<1>2. HostInv /\ NumberInv /\ FeedInv /\ [Next]_vars => (HostInv /\ NumberInv /\ FeedInv)'
  BY HostNext, NumberNext, FeedNext DEF FeedAssumption
<1>3. FeedInv => FeedComplete
  BY DEF FeedInv
<1> QED
  BY <1>1, <1>2, <1>3, PTL DEF Spec

\* What the invariants say of the types.
LEMMA HostTyped ==
  ASSUME FeedAssumption, HostInv, NumberInv, FeedInv
  PROVE  HostTypeOK
<1>1. /\ epoch \in Nat /\ MaxEpoch \in Nat /\ epoch <= MaxEpoch
      /\ born \in [Session -> Nat] /\ token \in [Host -> Nat]
      /\ \A s \in Session : born[s] <= epoch
      /\ \A h \in Host : token[h] <= epoch
  BY DEF FeedAssumption, HostInv, HostShape, NumberInv, TokensSound, JournalSound
<1>2. epoch \in 0..MaxEpoch /\ born \in [Session -> 0..MaxEpoch] /\ token \in [Host -> 0..MaxEpoch]
  <2>1. \A s \in Session : born[s] \in 0..MaxEpoch
    BY <1>1
  <2>2. \A h \in Host : token[h] \in 0..MaxEpoch
    BY <1>1
  <2> QED BY <1>1, <2>1, <2>2
<1>3. ASSUME NEW s \in Session PROVE ToSet(log[s]) \subseteq Events /\ Count(s) <= MaxSeq[s]
  <2>1. log[s] \in Seq(Entry)
    BY DEF HostInv, HostShape
  <2>3. DOMAIN log[s] = 1..Count(s)
    BY <2>1, LenProperties DEF Count
  <2>2. ASSUME NEW i \in DOMAIN log[s] PROVE log[s][i] \in Events
    <3>1. log[s][i] \in Entry
      BY <2>1
    <3>2. log[s][i].by > 0 /\ log[s][i].by <= epoch
      BY <2>3 DEF NumberInv, JournalSound
    <3>3. log[s][i].by \in 1..MaxEpoch
      BY <1>1, <3>1, <3>2 DEF Entry
    <3> QED BY <3>1, <3>3 DEF Entry, Events
  <2> QED BY <2>2 DEF ToSet, NumberInv, JournalSound
<1>4. ASSUME NEW h \in Host PROVE Len(notes[h]) <= QueueLimit /\ (~blocked[h] => notes[h] = <<>> /\ answers[h] = <<>>)
  BY DEF FeedInv, HostFeed, FeedOf
<1>5. ASSUME NEW h \in Host, NEW s \in Session PROVE seen[h][s] \subseteq 1..MaxSeq[s] /\ told[h][s] \subseteq 0..MaxSeq[s]
  <2>1. Counts[s] \in Nat /\ MaxSeq[s] \in Nat /\ Counts[s] <= MaxSeq[s]
    BY CountsAre DEF FeedAssumption, NumberInv, JournalSound
  <2>2. FeedOf(notes[h], answers[h], seen[h], told[h], Counts)
    BY DEF FeedInv, HostFeed
  <2>3. ASSUME NEW m \in seen[h][s] PROVE m \in 1..MaxSeq[s]
    <3>1. m \in Nat /\ m > 0 /\ m <= Counts[s]
      BY <2>2 DEF FeedOf
    <3> QED BY <2>1, <3>1
  <2>4. ASSUME NEW m \in told[h][s] PROVE m \in 0..MaxSeq[s]
    <3>1. m \in Nat /\ m <= Counts[s]
      BY <2>2 DEF FeedOf
    <3> QED BY <2>1, <3>1
  <2> QED BY <2>3, <2>4
<1>6. /\ lease \in [owner : Host \union {None}, live : BOOLEAN]
      /\ phase \in [Host -> Phases] /\ opening \in [Host -> Session \union {None}]
      /\ cache \in [Host -> [Session -> Nat \union {None}]]
  BY DEF HostInv, HostShape
<1>7. initialized \in [Host -> BOOLEAN] /\ blocked \in [Host -> BOOLEAN] /\ base \in [Host -> Numbers]
  BY DEF FeedInv, FeedShape
<1> QED BY <1>2, <1>3, <1>4, <1>5, <1>6, <1>7 DEF HostTypeOK

\* The rows, the hosts and the feeds keep their types.
THEOREM HostTypeCorrect ==
  ASSUME FeedAssumption
  PROVE  Spec => []HostTypeOK
<1>1. Init => HostInv /\ NumberInv /\ FeedInv
  BY HostInit, NumberInit, FeedInit DEF FeedAssumption
<1>2. HostInv /\ NumberInv /\ FeedInv /\ [Next]_vars => (HostInv /\ NumberInv /\ FeedInv)'
  BY HostNext, NumberNext, FeedNext DEF FeedAssumption
<1>3. HostInv /\ NumberInv /\ FeedInv => HostTypeOK
  BY HostTyped DEF FeedAssumption
<1> QED
  BY <1>1, <1>2, <1>3, PTL DEF Spec

===============================================================================
