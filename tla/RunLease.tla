------------------------------- MODULE RunLease -------------------------------
(***************************************************************************)
(* The execution lease of one run (engine/checkpoint/lease.ts): one row in *)
(* the run database, taken, renewed and released in transactions by        *)
(* independent operating-system processes, with the accounting of the time *)
(* a run was actively executing (runs.active_duration_ms), which the lease *)
(* keeps because a crashed owner cannot.                                    *)
(*                                                                         *)
(* Every SQLite transaction (BEGIN IMMEDIATE ... COMMIT) is one step. Time  *)
(* is Date.now(), shared by the processes of one host.                     *)
(***************************************************************************)
EXTENDS Naturals

CONSTANTS
  Owner,     \* execute() calls; each draws a fresh owner UUID per tenure
  NoRow,     \* the lease table has no row / a process holds no token
  TTL,       \* LEASE_MS
  MaxTime,   \* bound on the clock
  MaxEpoch   \* bound on the number of tenures

ASSUME RunLeaseAssumption ==
  /\ NoRow \notin Owner
  /\ TTL \in Nat \ {0}
  /\ MaxTime \in Nat
  /\ MaxEpoch \in Nat

VARIABLES
  now,              \* Date.now()
  lease,            \* the row of table lease: owner, epoch, expiresAt; or NoRow
  leaseEpoch,       \* runs.lease_epoch
  activeMs,         \* runs.active_duration_ms
  activeStartedAt,  \* runs.active_started_at, NoRow for NULL
  token,            \* per process: the epoch of the token it holds, 0 for none
  aborted,          \* per process: the heartbeat reported lease_lost
  lastCommit,       \* history: epoch of the last fenced mutation that committed
  heldMs            \* history: time that passed under an unexpired lease

vars == <<now, lease, leaseEpoch, activeMs, activeStartedAt, token, aborted, lastCommit, heldMs>>

Row == [owner : Owner, epoch : Nat, expiresAt : Nat]

ASSUME NoRowAssumption == NoRow \notin Row

TypeOK ==
  /\ now \in Nat
  /\ lease \in Row \union {NoRow}
  /\ leaseEpoch \in Nat
  /\ activeMs \in Nat
  /\ activeStartedAt \in Nat \union {NoRow}
  /\ token \in [Owner -> Nat]
  /\ aborted \in [Owner -> BOOLEAN]
  /\ lastCommit \in Nat
  /\ heldMs \in Nat

Init ==
  /\ now = 0
  /\ lease = NoRow
  /\ leaseEpoch = 0
  /\ activeMs = 0
  /\ activeStartedAt = NoRow
  /\ token = [o \in Owner |-> 0]
  /\ aborted = [o \in Owner |-> FALSE]
  /\ lastCommit = 0
  /\ heldMs = 0

-----------------------------------------------------------------------------
\* RunLease.assert: the row is this token's row and has not expired.
Asserted(o) ==
  /\ lease # NoRow
  /\ lease.owner = o
  /\ lease.epoch = token[o]
  /\ lease.expiresAt > now

\* The lease of the current moment: the owner of an unexpired row.
Holder == IF lease # NoRow /\ lease.expiresAt > now THEN lease.owner ELSE NoRow

Least(a, b) == IF a <= b THEN a ELSE b

\* The active time that is open in the runs row, counted at most up to the end
\* of the tenure that opened it: a dead owner was not executing after expiry.
OpenActive ==
  IF activeStartedAt = NoRow THEN 0
  ELSE LET end == IF lease = NoRow THEN now ELSE Least(now, lease.expiresAt)
       IN  IF end > activeStartedAt THEN end - activeStartedAt ELSE 0

\* mutant: the lease_held check is missing
FreeAlways == TRUE

\* No row, or one whose time has run out (lease.ts:21).
Free == lease # NoRow => lease.expiresAt <= now

\* lease.acquire: refused with lease_held while the row has not expired. An
\* expired row is replaced (lease_recovered) under the next epoch.
Acquire(o) ==
  /\ token[o] = 0
  /\ Free
  /\ leaseEpoch < MaxEpoch
  /\ leaseEpoch' = leaseEpoch + 1
  /\ lease' = [owner |-> o, epoch |-> leaseEpoch + 1, expiresAt |-> now + TTL]
  /\ token' = [token EXCEPT ![o] = leaseEpoch + 1]
  /\ aborted' = [aborted EXCEPT ![o] = FALSE]
  /\ activeMs' = activeMs + OpenActive
  /\ activeStartedAt' = now
  /\ UNCHANGED <<now, lastCommit, heldMs>>

\* heartbeat: the timer renews the row for another TTL ...
Renew(o) ==
  /\ token[o] # 0
  /\ ~aborted[o]
  /\ Asserted(o)
  /\ lease' = [lease EXCEPT !.expiresAt = now + TTL]
  /\ UNCHANGED <<now, leaseEpoch, activeMs, activeStartedAt, token, aborted, lastCommit, heldMs>>

\* ... or finds the lease expired or replaced, stops itself and aborts the
\* execution with lease_lost.
HeartbeatLost(o) ==
  /\ token[o] # 0
  /\ ~aborted[o]
  /\ ~Asserted(o)
  /\ aborted' = [aborted EXCEPT ![o] = TRUE]
  /\ UNCHANGED <<now, lease, leaseEpoch, activeMs, activeStartedAt, token, lastCommit, heldMs>>

\* lease.release, in the finally of execute(): deletes only the row of this
\* very tenure (even after it expired) and closes the open active time.
Release(o) ==
  /\ token[o] # 0
  /\ token' = [token EXCEPT ![o] = 0]
  /\ IF lease # NoRow /\ lease.owner = o /\ lease.epoch = token[o]
     THEN /\ lease' = NoRow
          /\ activeMs' = activeMs + OpenActive
          /\ activeStartedAt' = NoRow
     ELSE UNCHANGED <<lease, activeMs, activeStartedAt>>
  /\ UNCHANGED <<now, leaseEpoch, aborted, lastCommit, heldMs>>

\* A fenced mutation of the ledger: assert and write in one transaction. The
\* execution does not look at its abort signal here, only at the row.
FencedCommit(o) ==
  /\ token[o] # 0
  /\ Asserted(o)
  /\ lastCommit' = token[o]
  /\ UNCHANGED <<now, lease, leaseEpoch, activeMs, activeStartedAt, token, aborted, heldMs>>

\* The ledger stops the active clock when the run pauses, fails or completes
\* (commitInterrupts, commitError, settlePause, commitTerminal, execution-stopped).
StopActive(o) ==
  /\ token[o] # 0
  /\ Asserted(o)
  /\ activeMs' = activeMs + OpenActive
  /\ activeStartedAt' = NoRow
  /\ lastCommit' = token[o]
  /\ UNCHANGED <<now, lease, leaseEpoch, token, aborted, heldMs>>

\* RunLedger.enter restarts it when an attempt is admitted.
StartActive(o) ==
  /\ token[o] # 0
  /\ Asserted(o)
  /\ activeStartedAt' = IF activeStartedAt = NoRow THEN now ELSE activeStartedAt
  /\ lastCommit' = token[o]
  /\ UNCHANGED <<now, lease, leaseEpoch, activeMs, token, aborted, heldMs>>

\* The process dies: its token is gone, its row stays until it expires.
Crash(o) ==
  /\ token[o] # 0
  /\ token' = [token EXCEPT ![o] = 0]
  /\ UNCHANGED <<now, lease, leaseEpoch, activeMs, activeStartedAt, aborted, lastCommit, heldMs>>

Tick ==
  /\ now < MaxTime
  /\ now' = now + 1
  /\ heldMs' = heldMs + (IF Holder = NoRow THEN 0 ELSE 1)
  /\ UNCHANGED <<lease, leaseEpoch, activeMs, activeStartedAt, token, aborted, lastCommit>>

OwnerStep(o) ==
  \/ Acquire(o) \/ Renew(o) \/ HeartbeatLost(o) \/ Release(o)
  \/ FencedCommit(o) \/ StopActive(o) \/ StartActive(o) \/ Crash(o)

Next == Tick \/ \E o \in Owner : OwnerStep(o)

Spec == Init /\ [][Next]_vars

-----------------------------------------------------------------------------
\* The epochs fence: the row is always the newest tenure, no token is newer
\* than the run's epoch and no two processes hold tokens of one epoch. So of
\* all the processes that believe they own the run (suspended ones included)
\* at most one passes assert (lease.ts:33), whatever the clock does.
EpochsFence ==
  /\ lease # NoRow => lease.epoch = leaseEpoch
  /\ \A o \in Owner : token[o] <= leaseEpoch
  /\ \A o, p \in Owner : token[o] # 0 /\ token[o] = token[p] => o = p

\* A mutation committed under one epoch is never followed by a mutation of an
\* older one: late effects cannot commit, whatever the clocks and heartbeats do.
CommitsFollowEpochs == [][lastCommit' >= lastCommit]_vars

\* The active time charged to a run, the interval still open included, never
\* exceeds the time that passed under an unexpired lease, although a crash
\* leaves the interval open for the next owner to close: nothing is counted
\* twice and nothing after the expiry of a dead owner (ledger.activeDurationMs,
\* which the maxDurationMs budget is compared with).
ActiveTimeBounded == activeMs + OpenActive <= heldMs

\* A live tenure ends by its own release or by time, never by the release of an
\* older owner that wakes up late nor by another acquire (lease.ts:54, 58).
LiveTenureUndisturbed ==
  [][Holder # NoRow /\ Holder' # Holder
       => now' > now \/ \E o \in Owner : o = Holder /\ token[o] # 0 /\ token'[o] = 0]_vars

\* The lease with its rows, clock and heartbeat implements the fenced lease.
Fenced == INSTANCE FencedLease WITH
  NoOwner <- NoRow, holder <- Holder, epoch <- leaseEpoch

ImplementsFencedLease == Fenced!FencedSpec
=============================================================================
