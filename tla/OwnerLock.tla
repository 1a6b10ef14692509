------------------------------ MODULE OwnerLock ------------------------------
(***************************************************************************)
(* The owner files that keep two processes out of one directory. Three     *)
(* protocols share one shape, an exclusive creation and a guarded removal  *)
(* of an owner that died:                                                  *)
(*   journal    locked, of pipeline/pipeline-state.ts: the file is created *)
(*              empty and written, the guard's holder creates it anew;     *)
(*   lifecycle  withFrameworkLifecycleLock, of the installer: a complete   *)
(*              record is linked, the guard's holder only removes;         *)
(*   workflow   acquireWorkflowLease, of agent-runtime/durable-store.ts: a *)
(*              directory is made and its owner.json written into it.      *)
(* Processes die between any two steps; the system calls are the steps. A  *)
(* pid is not reused and every process is on this machine: an owner that   *)
(* cannot be looked up counts as alive.                                    *)
(***************************************************************************)
CONSTANT Process  \* operations, each with a pid and a token of its own

VARIABLES
  protocol, \* which of the three
  file,     \* the lock: no file, or the one file with who created it and whether its owner is written
  guard,    \* likewise the recovery guard, with who created it
  pc,       \* where each process is
  seen      \* the lock as a recovery has read it

vars == <<protocol, file, guard, pc, seen>>

Protocols == {"journal", "lifecycle", "workflow"}

Owners(p, written) == {[by |-> p, written |-> written]}

Recovering == {"guarded", "dead", "confirmed", "removed"}
Inside == {"inside", "leaving"}

LockTypeOK ==
  /\ protocol \in Protocols
  /\ file \subseteq [by : Process, written : BOOLEAN]
  /\ guard \subseteq Process
  /\ pc \in [Process -> {"idle", "refused", "created", "retry", "again", "died"} \union Recovering \union Inside]
  /\ seen \in [Process -> SUBSET [by : Process, written : BOOLEAN]]

Init ==
  /\ protocol \in Protocols
  /\ file = {} /\ guard = {}
  /\ pc = [p \in Process |-> "idle"] /\ seen = [p \in Process |-> {}]

Go(p, to) == pc' = [pc EXCEPT ![p] = to]

\* An exclusive creation: empty, but for a linked record.
Creates(p, elsewhere) ==
  IF file # {} THEN Go(p, elsewhere) /\ UNCHANGED file
  ELSE IF protocol = "lifecycle" THEN file' = Owners(p, TRUE) /\ Go(p, "inside")
  ELSE file' = Owners(p, FALSE) /\ Go(p, "created")

Create(p) ==
  /\ pc[p] = "idle"
  /\ Creates(p, "retry")
  /\ UNCHANGED <<guard, seen>>

\* The owner is written into what was created, ...
Publish(p) ==
  /\ pc[p] = "created"
  /\ file' = IF file = Owners(p, FALSE) THEN Owners(p, TRUE) ELSE file
  /\ Go(p, "inside")
  /\ UNCHANGED <<guard, seen>>

\* ... or the write throws: the workflow lease is removed, a journal lock stays behind.
PublishFails(p) ==
  /\ pc[p] = "created" /\ protocol # "lifecycle"
  /\ file' = IF protocol = "workflow" THEN {} ELSE file
  /\ Go(p, "refused")
  /\ UNCHANGED <<guard, seen>>

-----------------------------------------------------------------------------
(* Recovery of a dead owner. *)

\* mutant: recoveries are not serialized
EnterTogether(p) ==
  /\ pc[p] = "retry"
  /\ guard' = {p} /\ Go(p, "guarded")
  /\ UNCHANGED <<file, seen>>

EnterGuard(p) ==
  /\ pc[p] = "retry"
  /\ IF guard = {} THEN guard' = {p} /\ Go(p, "guarded") ELSE UNCHANGED guard /\ Go(p, "refused")
  /\ UNCHANGED <<file, seen>>

\* The guard is released as the recovery ends, but in a process that dies.
Leaves(p, to) == guard' = {} /\ Go(p, to)

\* A file nobody wrote yet has no owner to look up, although its creator may be dead.
Stale == \E owner \in file : owner.written /\ pc[owner.by] = "died"

\* What the file says is read and its process is looked up.
ReadOwner(p) ==
  /\ pc[p] = "guarded"
  /\ IF Stale THEN Go(p, "dead") /\ seen' = [seen EXCEPT ![p] = file] /\ UNCHANGED guard
     ELSE IF file = {} /\ protocol # "workflow" THEN Go(p, "removed") /\ UNCHANGED <<seen, guard>>
     ELSE Leaves(p, "refused") /\ UNCHANGED seen
  /\ UNCHANGED file

\* The owner files of the journal and of the lifecycle are read a second time.
Confirm(p) ==
  /\ pc[p] = "dead"
  /\ IF protocol = "workflow" \/ file = seen[p]
     THEN Go(p, "confirmed") /\ UNCHANGED guard
     ELSE Leaves(p, "refused")
  /\ UNCHANGED <<file, seen>>

Remove(p) ==
  /\ pc[p] = "confirmed"
  /\ file' = {}
  /\ Go(p, "removed")
  /\ UNCHANGED <<guard, seen>>

\* Whoever creates it first has it: the recovery fails if that was another one.
Recreate(p) ==
  /\ pc[p] = "removed"
  /\ IF protocol = "lifecycle" THEN UNCHANGED file /\ Go(p, "again") ELSE Creates(p, "refused")
  /\ guard' = {}
  /\ UNCHANGED seen

\* The second attempt of the installer, which recovers nothing any more.
LinkAgain(p) ==
  /\ pc[p] = "again"
  /\ Creates(p, "refused")
  /\ UNCHANGED <<guard, seen>>

-----------------------------------------------------------------------------
(* Release: the file is read, and removed only if it carries the own token. *)

Owned(p) == file = Owners(p, TRUE)

Leave(p) ==
  /\ pc[p] = "inside"
  /\ Go(p, IF Owned(p) THEN "leaving" ELSE "idle")
  /\ UNCHANGED <<file, guard, seen>>

Release(p) ==
  /\ pc[p] = "leaving"
  /\ file' = {}
  /\ Go(p, "idle")
  /\ UNCHANGED <<guard, seen>>

\* The caller tries again.
TryAgain(p) ==
  /\ pc[p] = "refused"
  /\ Go(p, "idle")
  /\ UNCHANGED <<file, guard, seen>>

Die(p) ==
  /\ pc[p] \notin {"idle", "died"}
  /\ Go(p, "died")
  /\ UNCHANGED <<file, guard, seen>>

Next ==
  /\ UNCHANGED protocol
  /\ \E p \in Process :
       \/ Create(p) \/ Publish(p) \/ PublishFails(p)
       \/ EnterGuard(p) \/ ReadOwner(p) \/ Confirm(p) \/ Remove(p) \/ Recreate(p) \/ LinkAgain(p)
       \/ Leave(p) \/ Release(p) \/ TryAgain(p) \/ Die(p)

Spec == Init /\ [][Next]_vars

-----------------------------------------------------------------------------
(* Properties. *)

\* Two processes never hold the lock at once, whoever died holding it and however many
\* contenders found its owner dead.
Exclusive == \A p, q \in Process : pc[p] \in Inside /\ pc[q] \in Inside => p = q

=============================================================================
