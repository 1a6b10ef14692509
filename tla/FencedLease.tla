----------------------------- MODULE FencedLease -----------------------------
(***************************************************************************)
(* What a run lease promises to the rest of the engine: at most one owner  *)
(* at a time, every tenure under a fresh and larger epoch, and durable     *)
(* mutations committed only by the owner of the current tenure.            *)
(*                                                                         *)
(* RunLease implements this specification with rows, a clock, a TTL and a  *)
(* heartbeat; RunLedger is built on its actions, so that the engine model *)
(* never mentions time.                                                    *)
(***************************************************************************)
EXTENDS Naturals

CONSTANTS
  Owner,     \* the processes that may execute or settle a run
  NoOwner,   \* the lease is free: no row, or a row that has expired
  MaxEpoch   \* bound on the number of tenures

ASSUME FencedLeaseAssumption ==
  /\ NoOwner \notin Owner
  /\ MaxEpoch \in Nat

VARIABLES
  holder,      \* the process whose token passes RunLease.assert, or NoOwner
  epoch,       \* the epoch of the last tenure
  lastCommit   \* the epoch under which the last durable mutation committed

leaseVars == <<holder, epoch, lastCommit>>

FencedTypeOK ==
  /\ holder \in Owner \union {NoOwner}
  /\ epoch \in Nat
  /\ lastCommit \in Nat

FencedInit ==
  /\ holder = NoOwner
  /\ epoch = 0
  /\ lastCommit = 0

\* A free lease is taken under the next epoch.
Take(o) ==
  /\ holder = NoOwner
  /\ epoch < MaxEpoch
  /\ holder' = o
  /\ epoch' = epoch + 1
  /\ UNCHANGED lastCommit

\* A tenure ends: the lease is released, or its time runs out.
Drop ==
  /\ holder # NoOwner
  /\ holder' = NoOwner
  /\ UNCHANGED <<epoch, lastCommit>>

\* The owner commits a mutation of the run.
Commit(o) ==
  /\ holder = o
  /\ lastCommit' = epoch
  /\ UNCHANGED <<holder, epoch>>

FencedNext == Drop \/ \E o \in Owner : Take(o) \/ Commit(o)

FencedSpec == FencedInit /\ [][FencedNext]_leaseVars
=============================================================================
