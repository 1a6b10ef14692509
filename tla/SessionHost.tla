------------------------------ MODULE SessionHost ------------------------------
(***************************************************************************)
(* The session hosts of one scope: the journal one of them owns            *)
(* (session/journal/sqlite-journal.ts), the start and stop of a host       *)
(* (session/index.ts, session/host/server.ts, the recovery of              *)
(* session/application/session-service.ts) and the event feed to its       *)
(* client, with backpressure, lag notices and a takeover by a later host.  *)
(*                                                                         *)
(* A session is what it journals: it is opened, its agent works or rests,  *)
(* it is closed. ActiveSession says how it gets there.                     *)
(***************************************************************************)
EXTENDS Integers, Sequences, SequencesExt, FiniteSetsExt

CONSTANTS
  Host,        \* host processes; each starts once
  Session,     \* session ids
  Child,       \* those of delegated sub-agents
  QueueLimit,  \* notificationQueueLimit
  MaxSeq,      \* session -> bound: its events
  MaxEpoch,    \* bound: hosts that take the scope
  None

VARIABLES
  \* sessions.sqlite
  lease,       \* host_lease: its owner, or None without a row, and whether it is unexpired
  epoch,       \* lease_epoch
  born,        \* session -> epoch that created its row, 0 without a row
  log,         \* session -> its events
  \* host processes
  phase,       \* host -> where it stands
  token,       \* host -> epoch of its lease
  opening,     \* host -> session created and not yet opened
  cache,       \* host -> session -> last_seq of its cached snapshot
  initialized, \* host -> its client has initialized
  notes,       \* host -> queued notifications
  answers,     \* host -> queued responses (the lag notices)
  blocked,     \* host -> the writer waits for the output to drain
  \* clients
  base,        \* host -> session -> last_seq at initialization
  seen,        \* host -> session -> seqs received
  told         \* host -> session -> deliveredSeq of the lag notices received

db == <<lease, epoch, born, log>>
feed == <<initialized, notes, answers, blocked, base, seen, told>>
vars == <<db, phase, token, opening, cache, feed>>

Kinds == {"opened", "started", "ended", "interrupted", "closed"}
Events == [seq : Nat, kind : Kinds, by : 1..MaxEpoch]
Phases == {"down", "recovering", "serving", "stopping", "lost", "flushing", "spinning", "gone"}
Numbers == [Session -> Nat]

Count(s) == Len(log[s])
Working(s) == log[s] # <<>> /\ Last(log[s]).kind = "started"
Closed(s) == log[s] # <<>> /\ Last(log[s]).kind = "closed"
IsOpen(s) == born[s] > 0 /\ ~Closed(s)
Opened(s) == IsOpen(s) /\ log[s] # <<>>

HostTypeOK ==
  /\ lease \in [owner : Host \union {None}, live : BOOLEAN] /\ epoch \in 0..MaxEpoch
  /\ born \in [Session -> 0..MaxEpoch]
  /\ \A s \in Session : ToSet(log[s]) \subseteq Events /\ Count(s) <= MaxSeq[s]
  /\ phase \in [Host -> Phases] /\ token \in [Host -> 0..MaxEpoch]
  /\ opening \in [Host -> Session \union {None}]
  /\ cache \in [Host -> [Session -> Nat \union {None}]]
  /\ initialized \in [Host -> BOOLEAN] /\ blocked \in [Host -> BOOLEAN]
  /\ \A h \in Host : Len(notes[h]) <= QueueLimit /\ (~blocked[h] => notes[h] = <<>> /\ answers[h] = <<>>)
  /\ base \in [Host -> Numbers]
  /\ \A h \in Host, s \in Session : seen[h][s] \subseteq 1..MaxSeq[s] /\ told[h][s] \subseteq 0..MaxSeq[s]

Each(x) == [s \in Session |-> x]

Init ==
  /\ lease = [owner |-> None, live |-> FALSE] /\ epoch = 0
  /\ born = Each(0) /\ log = Each(<<>>)
  /\ phase = [h \in Host |-> "down"] /\ token = [h \in Host |-> 0]
  /\ opening = [h \in Host |-> None] /\ cache = [h \in Host |-> Each(None)]
  /\ initialized = [h \in Host |-> FALSE] /\ blocked = [h \in Host |-> FALSE]
  /\ notes = [h \in Host |-> <<>>] /\ answers = [h \in Host |-> <<>>]
  /\ base = [h \in Host |-> Each(0)]
  /\ seen = [h \in Host |-> Each({})] /\ told = [h \in Host |-> Each({})]

-----------------------------------------------------------------------------
(* The feed of a host to its client. *)

\* A queued line is of a session and carries one number: an event its own, a lag notice the
\* position that was delivered.
Seqs(q, s) == {x.n : x \in {y \in ToSet(q) : y.s = s}}

\* mutant: a line counts as sent when it is queued
LastSentQueued(h, s) == Max({0} \union seen[h][s] \union Seqs(notes[h], s))

\* lastSent, set as a line is written.
LastSent(h, s) == Max({0} \union seen[h][s])

\* SessionHost.drain writes responses first, m of them, then notifications, n of them, until
\* the output pushes back or nothing is left.
Drain(h, q, r) ==
  \E m \in 0..Len(r), n \in 0..Len(q), full \in BOOLEAN :
    /\ n > 0 => m = Len(r)
    /\ m < Len(r) \/ n < Len(q) => full
    /\ full => m + n > 0
    /\ blocked' = [blocked EXCEPT ![h] = full]
    /\ answers' = [answers EXCEPT ![h] = SubSeq(r, m + 1, Len(r))]
    /\ notes' = [notes EXCEPT ![h] = SubSeq(q, n + 1, Len(q))]
    /\ seen' = [seen EXCEPT ![h] = [s \in Session |-> @[s] \union Seqs(SubSeq(q, 1, n), s)]]
    /\ told' = [told EXCEPT ![h] = [s \in Session |-> @[s] \union Seqs(SubSeq(r, 1, m), s)]]

\* Queued lines wait for a writer that is blocked.
Push(h, q, r) ==
  IF blocked[h]
  THEN /\ notes' = [notes EXCEPT ![h] = q] /\ answers' = [answers EXCEPT ![h] = r]
       /\ UNCHANGED <<blocked, seen, told>>
  ELSE Drain(h, q, r)

\* The session with most queued events, the first queued of those that tie.
Queued(q, s) == Cardinality({i \in DOMAIN q : q[i].s = s})
Busiest(q) ==
  q[CHOOSE i \in DOMAIN q : \A j \in DOMAIN q :
      Queued(q, q[j].s) <= Queued(q, q[i].s) /\ (j < i => Queued(q, q[j].s) < Queued(q, q[i].s))].s

\* The queue without the events of a session: its n-th is the n-th of the others.
Without(q, b) ==
  LET kept == {i \in DOMAIN q : q[i].s # b}
  IN  [n \in 1..Cardinality(kept) |-> q[CHOOSE i \in kept : Cardinality({j \in kept : j <= i}) = n]]

Lines(s, seqs) == [i \in 1..Len(seqs) |-> [s |-> s, n |-> seqs[i]]]

\* mutant: the queue has no limit
PublishAll(h, s, seqs) == Push(h, notes[h] \o Lines(s, seqs), answers[h])

\* SessionHost.publish and shed. One session is dropped at most: it has no fewer events
\* queued than were added.
Publish(h, s, seqs) ==
  LET queue == notes[h] \o Lines(s, seqs)
      b == Busiest(queue)
  IN IF ~initialized[h] \/ phase[h] # "serving" THEN UNCHANGED <<notes, answers, blocked, seen, told>>
     ELSE IF Len(queue) <= QueueLimit THEN Push(h, queue, answers[h])
     ELSE Push(h, Without(queue, b), Append(answers[h], [s |-> b, n |-> LastSent(h, b)]))

\* The output drained.
Drained(h) ==
  /\ blocked[h] /\ phase[h] \notin {"spinning", "gone"}
  /\ Drain(h, notes[h], answers[h])
  /\ UNCHANGED <<db, phase, token, opening, cache, initialized, base>>

-----------------------------------------------------------------------------
(* The journal. *)

\* mutant: an expired or replaced lease is not noticed
OwnsOnce(h) == token[h] > 0

\* assertLease, in every write transaction.
Owns(h) == lease = [owner |-> h, live |-> TRUE] /\ epoch = token[h]

\* The sequence numbers continue the cached snapshot, or the stored one.
From(h, s) == IF cache[h][s] = None THEN Count(s) ELSE cache[h][s]

\* SqliteSessionJournal.append: the batch and the snapshot commit together; then it is published.
Commit(h, s, kinds) ==
  LET seqs == [i \in 1..Len(kinds) |-> From(h, s) + i] IN
  /\ Owns(h) /\ Count(s) + Len(kinds) <= MaxSeq[s]
  /\ log' = [log EXCEPT ![s] = @ \o [i \in 1..Len(kinds) |-> [seq |-> seqs[i], kind |-> kinds[i], by |-> token[h]]]]
  /\ cache' = [cache EXCEPT ![h][s] = Last(seqs)]
  /\ Publish(h, s, seqs)
  /\ UNCHANGED <<lease, epoch, token, initialized, base>>

\* A commit that fails forgets what it cached.
Rollback(h, s) == cache' = [cache EXCEPT ![h][s] = None]

\* The disk is full, or busy for too long.
CommitFails(h, s) ==
  /\ phase[h] = "serving" /\ initialized[h] /\ opening[h] = None /\ Owns(h) /\ Opened(s) /\ Count(s) < MaxSeq[s]
  /\ Rollback(h, s)
  /\ UNCHANGED <<db, phase, token, opening, feed>>

\* acquireLease, in SqliteSessionJournal.open.
Start(h) ==
  /\ phase[h] = "down" /\ ~lease.live /\ epoch < MaxEpoch
  /\ epoch' = epoch + 1
  /\ lease' = [owner |-> h, live |-> TRUE]
  /\ token' = [token EXCEPT ![h] = epoch + 1]
  /\ phase' = [phase EXCEPT ![h] = "recovering"]
  /\ UNCHANGED <<born, log, opening, cache, feed>>

\* No heartbeat for a minute: the process is suspended, or dead.
Expire ==
  /\ lease.live
  /\ lease' = [lease EXCEPT !.live = FALSE]
  /\ UNCHANGED <<epoch, born, log, phase, token, opening, cache, feed>>

\* A failed renewal: host.leaseLost, and the host stops without further writes.
LeaseLost(h) ==
  /\ phase[h] = "serving" /\ ~Owns(h)
  /\ phase' = [phase EXCEPT ![h] = "lost"]
  /\ UNCHANGED <<db, token, opening, cache, feed>>

-----------------------------------------------------------------------------
(* Startup: SessionService.recover, one transaction per session. *)

NeedsRecovery(s) == Opened(s) /\ Working(s)

Recover(h, s) ==
  /\ phase[h] = "recovering" /\ NeedsRecovery(s)
  /\ Commit(h, s, <<"interrupted">>)
  /\ UNCHANGED <<born, phase, opening>>

\* A delegated child cannot outlive the host that ran it.
CloseOrphan(h, s) ==
  /\ phase[h] = "recovering" /\ s \in Child /\ IsOpen(s) /\ ~\E r \in Session : NeedsRecovery(r)
  /\ Commit(h, s, <<"closed">>)
  /\ UNCHANGED <<born, phase, opening>>

Serve(h) ==
  /\ phase[h] = "recovering"
  /\ \A s \in Session : ~NeedsRecovery(s) /\ ~(s \in Child /\ IsOpen(s))
  /\ phase' = [phase EXCEPT ![h] = "serving"]
  /\ UNCHANGED <<db, token, opening, cache, feed>>

Initialize(h) ==
  /\ phase[h] = "serving" /\ ~initialized[h]
  /\ initialized' = [initialized EXCEPT ![h] = TRUE]
  /\ base' = [base EXCEPT ![h] = [s \in Session |-> Count(s)]]
  /\ UNCHANGED <<db, phase, token, opening, cache, notes, answers, blocked, seen, told>>

-----------------------------------------------------------------------------
(* Service: what a session journals. *)

\* SessionService.open creates the row in one transaction ...
Create(h, s) ==
  /\ phase[h] = "serving" /\ initialized[h] /\ opening[h] = None /\ born[s] = 0 /\ Owns(h)
  /\ born' = [born EXCEPT ![s] = token[h]]
  /\ cache' = [cache EXCEPT ![h][s] = 0]
  /\ opening' = [opening EXCEPT ![h] = s]
  /\ UNCHANGED <<lease, epoch, log, phase, token, feed>>

\* ... and its opening record in the next one.
Open(h, s) ==
  /\ opening[h] = s
  /\ \/ Commit(h, s, <<"opened">>)
     \/ ~Owns(h) /\ UNCHANGED <<db, token, cache, feed>>
  /\ opening' = [opening EXCEPT ![h] = None]
  /\ UNCHANGED <<born, phase>>

Work(h, s, kinds) ==
  /\ phase[h] = "serving" /\ initialized[h] /\ opening[h] = None /\ Opened(s) /\ Working(s) = (Head(kinds) = "ended")
  /\ Count(s) + Len(kinds) < MaxSeq[s]  \* bound: room for the end of the work
  /\ Commit(h, s, kinds)
  /\ UNCHANGED <<born, phase, opening>>

\* ActiveSession.close: its work is recorded as interrupted with it.
Close(h, s) ==
  /\ phase[h] = "serving" /\ initialized[h] /\ opening[h] = None /\ Opened(s)
  /\ Commit(h, s, IF Working(s) THEN <<"interrupted", "closed">> ELSE <<"closed">>)
  /\ UNCHANGED <<born, phase, opening>>

-----------------------------------------------------------------------------
(* Stop. *)

\* host.shutdown, the end of the input or a signal; the feed is unsubscribed first.
Stop(h) ==
  /\ phase[h] = "serving" /\ opening[h] = None
  /\ phase' = [phase EXCEPT ![h] = "stopping"]
  /\ UNCHANGED <<db, token, opening, cache, feed>>

\* SessionService.shutdown retires every provider; a refused write is ignored.
Retire(h, s) ==
  /\ phase[h] = "stopping" /\ Opened(s) /\ Working(s)
  /\ Commit(h, s, <<"interrupted">>)
  /\ UNCHANGED <<born, phase, opening>>

\* SqliteSessionJournal.close, after every session retired, or at once when the lease was lost.
CloseJournal(h) ==
  /\ \/ phase[h] = "stopping" /\ (Owns(h) => ~\E s \in Session : Opened(s) /\ Working(s) /\ Count(s) < MaxSeq[s])
     \/ phase[h] = "lost"
  /\ lease' = IF lease.owner = h /\ epoch = token[h] THEN [owner |-> None, live |-> FALSE] ELSE lease
  /\ phase' = [phase EXCEPT ![h] = "flushing"]
  /\ UNCHANGED <<epoch, born, log, token, opening, cache, feed>>

\* The process does nothing any more: what it and its client hold is forgotten.
Leave(h, to) ==
  /\ phase' = [phase EXCEPT ![h] = to]
  /\ opening' = [opening EXCEPT ![h] = None]
  /\ cache' = [cache EXCEPT ![h] = Each(None)]
  /\ initialized' = [initialized EXCEPT ![h] = FALSE] /\ blocked' = [blocked EXCEPT ![h] = FALSE]
  /\ notes' = [notes EXCEPT ![h] = <<>>] /\ answers' = [answers EXCEPT ![h] = <<>>]
  /\ base' = [base EXCEPT ![h] = Each(0)]
  /\ seen' = [seen EXCEPT ![h] = Each({})] /\ told' = [told EXCEPT ![h] = Each({})]

\* SessionHost.flush: with lines queued behind a blocked writer, its loop awaits calls that
\* return at once, and the event that would unblock the writer is never processed.
Flush(h) ==
  /\ phase[h] = "flushing"
  /\ Leave(h, IF notes[h] \o answers[h] = <<>> THEN "gone" ELSE "spinning")
  /\ UNCHANGED <<db, token>>

Crash(h) ==
  /\ phase[h] \notin {"down", "gone"}
  /\ Leave(h, "gone")
  /\ UNCHANGED <<db, token>>

Progress(h) ==
  \/ Drained(h) \/ LeaseLost(h) \/ CloseJournal(h) \/ Flush(h)
  \/ \E s \in Session : Recover(h, s) \/ CloseOrphan(h, s) \/ Open(h, s) \/ Retire(h, s)

Next ==
  \/ Expire
  \/ \E h \in Host :
       \/ Progress(h)
       \/ Start(h) \/ Serve(h) \/ Initialize(h) \/ Stop(h) \/ Crash(h)
       \/ \E s \in Session :
            \/ Create(h, s) \/ Close(h, s) \/ CommitFails(h, s)
            \/ \E kinds \in {<<"started">>, <<"ended">>, <<"ended", "started">>} : Work(h, s, kinds)

Spec == Init /\ [][Next]_vars

-----------------------------------------------------------------------------
(* Properties. *)

\* A host that serves under a valid lease has none of the work of its predecessors left:
\* a session works, or a delegated child is open, only for the host that runs it.
OrphansSettled ==
  \A h \in Host : phase[h] = "serving" /\ Owns(h) =>
    \A s \in Session :
      /\ Working(s) => Last(log[s]).by = token[h]
      /\ s \in Child /\ IsOpen(s) => born[s] = token[h]

\* Nothing is lost to the client: an event committed while it was subscribed is received,
\* queued, or after the position that a lag notice names, and the notice comes before any
\* later event of the session.
Later(h, s, n) == \E m \in seen[h][s] : m > n
FeedComplete ==
  \A h \in Host, s \in Session : initialized[h] /\ phase[h] = "serving" =>
    \A n \in (base[h][s] + 1)..Count(s) :
      log[s][n].by = token[h] =>
        \/ n \in seen[h][s] \union Seqs(notes[h], s)
        \/ \E d \in told[h][s] : d < n
        \/ ~Later(h, s, n) /\ \E d \in Seqs(answers[h], s) : d < n

=============================================================================
