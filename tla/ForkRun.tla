------------------------------- MODULE ForkRun -------------------------------
(***************************************************************************)
(* Forking a run at a historical cut (engine/fork.ts): the child is built  *)
(* in directories that are reserved through a manifest which survives the  *)
(* process (storage/fork-allocation.ts), and published by one rename. A    *)
(* host that lost the answer asks again with the same request.             *)
(*                                                                         *)
(* All forks here are asked for the same child. A directory is known by    *)
(* its inode: by the fork that made it, or as foreign.                     *)
(***************************************************************************)
EXTENDS Naturals, Sequences

CONSTANTS
  Fork,      \* requests for a fork, each in a process of its own
  Request,   \* what they carry: a request id and the digest of what is asked for
  RequestOf, \* fork -> its request, or None
  Targets,   \* the directories of the child in the order they are reserved, its root first
  Foreign,
  None

VARIABLES
  lock,      \* the fork that constructs
  manifest,  \* intent.json: whose it is, and what was reserved, with the inodes that were recorded
  place,     \* target -> the directory there
  temporary, \* target -> the directory that is renamed into place
  child,     \* the receipt in the published child
  mine,      \* the manifest in the constructing process
  pc,
  answer     \* what a fork was told

vars == <<lock, manifest, place, temporary, child, mine, pc, answer>>

Target == {Targets[n] : n \in DOMAIN Targets}
Root == Head(Targets)
Inode == Fork \union {Foreign, None}
Allocations == UNION {[1..n -> [target : Target, inode : Inode]] : n \in 0..Len(Targets)}
Manifests == [request : Request \union {None}, allocations : Allocations]
Receipt == Request \union {None}
NoChild == [published |-> FALSE, receipt |-> None]

ForkTypeOK ==
  /\ lock \in Fork \union {None}
  /\ manifest \in Manifests /\ mine \in Manifests
  /\ place \in [Target -> Inode] /\ temporary \in [Target -> Inode]
  /\ child \in [published : BOOLEAN, receipt : Receipt]
  /\ pc \in [Fork -> {"idle", "opened", "recover", "look", "reserve", "make", "record", "rename",
                      "build", "publish", "cleanup", "remove", "over", "died"}]
  /\ answer \in [Fork -> {"none", "forked", "exists", "failed"}]

Init ==
  /\ lock = None /\ child = NoChild
  /\ manifest = [request |-> None, allocations |-> <<>>] /\ mine = manifest
  /\ place = [t \in Target |-> None] /\ temporary = place
  /\ pc = [f \in Fork |-> "idle"] /\ answer = [f \in Fork |-> "none"]

Go(f, to) == pc' = [pc EXCEPT ![f] = to]
Answer(f, what) == answer' = [answer EXCEPT ![f] = what]

\* The process lets go of the lock, which SQLite does for one that dies.
Over(f, what) == lock' = None /\ Go(f, "over") /\ Answer(f, what)

Count == Len(mine.allocations)
Reserving == mine.allocations[Count].target

-----------------------------------------------------------------------------

\* ForkAllocation.open: nobody waits for the lock.
Open(f) ==
  /\ pc[f] = "idle"
  /\ IF lock # None THEN Go(f, "over") /\ Answer(f, "failed") /\ UNCHANGED <<lock, mine>>
     ELSE /\ lock' = f /\ Go(f, "opened") /\ UNCHANGED answer
          /\ mine' = [request |-> RequestOf[f], allocations |-> <<>>]
  /\ UNCHANGED <<manifest, place, temporary, child>>

\* A child that was published answers the request it was made for, and no other.
LookForChild(f) ==
  /\ pc[f] = "opened"
  /\ IF child.published
     THEN Over(f, IF RequestOf[f] # None /\ child.receipt = RequestOf[f] THEN "forked" ELSE "exists")
     ELSE Go(f, "recover") /\ UNCHANGED <<lock, answer>>
  /\ UNCHANGED <<manifest, place, temporary, child, mine>>

\* What a construction left is taken over by a retry of the same request.
Recover(f) ==
  /\ pc[f] = "recover"
  /\ IF manifest.allocations = <<>> THEN Go(f, "look") /\ UNCHANGED <<lock, mine, answer>>
     ELSE IF RequestOf[f] = None \/ manifest.request # RequestOf[f]
     THEN Over(f, "exists") /\ UNCHANGED mine
     ELSE mine' = manifest /\ Go(f, "cleanup") /\ UNCHANGED <<lock, answer>>
  /\ UNCHANGED <<manifest, place, temporary, child>>

\* An error while the fork owns the allocation ends in a cleanup of what it reserved.
Fails(f, what) == Go(f, "cleanup") /\ Answer(f, what)

\* Neither the child's directory may be there, nor may the source be leased or the cut be gone.
Look(f) ==
  /\ pc[f] = "look"
  /\ \/ place[Root] # None /\ Fails(f, "exists")
     \/ Fails(f, "failed")
     \/ place[Root] = None /\ Go(f, "reserve") /\ UNCHANGED answer
  /\ UNCHANGED <<lock, manifest, place, temporary, child, mine>>

-----------------------------------------------------------------------------
(* ForkAllocation.reserve *)

SaveIntent(f) ==
  /\ pc[f] = "reserve"
  /\ LET t == Targets[Count + 1]
     IN IF place[t] # None THEN Fails(f, "exists") /\ UNCHANGED <<mine, manifest>>
        ELSE /\ mine' = [mine EXCEPT !.allocations = Append(@, [target |-> t, inode |-> None])]
             /\ manifest' = mine'
             /\ Go(f, "make") /\ UNCHANGED answer
  /\ UNCHANGED <<lock, place, temporary, child>>

MakeTemporary(f) ==
  /\ pc[f] = "make"
  /\ temporary' = [temporary EXCEPT ![Reserving] = f]
  /\ Go(f, "record")
  /\ UNCHANGED <<lock, manifest, place, child, mine, answer>>

\* mutant: the inode is not saved before the directory is in place
RecordLate(f) ==
  /\ pc[f] = "record"
  /\ mine' = [mine EXCEPT !.allocations[Count].inode = f]
  /\ Go(f, "rename")
  /\ UNCHANGED <<lock, manifest, place, temporary, child, answer>>

RecordInode(f) ==
  /\ pc[f] = "record"
  /\ mine' = [mine EXCEPT !.allocations[Count].inode = f]
  /\ manifest' = mine'
  /\ Go(f, "rename")
  /\ UNCHANGED <<lock, place, temporary, child, answer>>

Rename(f) ==
  /\ pc[f] = "rename"
  /\ IF place[Reserving] # None THEN Fails(f, "exists") /\ UNCHANGED <<place, temporary>>
     ELSE /\ place' = [place EXCEPT ![Reserving] = f]
          /\ temporary' = [temporary EXCEPT ![Reserving] = None]
          /\ Go(f, "build") /\ UNCHANGED answer
  /\ UNCHANGED <<lock, manifest, child, mine>>

-----------------------------------------------------------------------------

\* The staged database, the artifacts and the journal are filled in; not every source has
\* artifacts or a journal to reserve a directory for.
Build(f) ==
  /\ pc[f] = "build"
  /\ \/ Fails(f, "failed")
     \/ Count < Len(Targets) /\ Go(f, "reserve") /\ UNCHANGED answer
     \/ Go(f, "publish") /\ UNCHANGED answer
  /\ UNCHANGED <<lock, manifest, place, temporary, child, mine>>

\* The database is renamed into the child's root, with its receipt.
Publish(f) ==
  /\ pc[f] = "publish"
  /\ IF place[Root] = f
     THEN /\ child' = [published |-> TRUE, receipt |-> RequestOf[f]]
          /\ Over(f, "forked")
     ELSE Fails(f, "failed") /\ UNCHANGED <<child, lock>>
  /\ UNCHANGED <<manifest, place, temporary, mine>>

-----------------------------------------------------------------------------
(* ForkAllocation.cleanup *)

Recorded(a) == a.inode # None

\* What is at the paths of an allocation is what the manifest says of it.
Owned(a) ==
  /\ place[a.target] # None => Recorded(a) /\ place[a.target] = a.inode
  /\ temporary[a.target] # None /\ Recorded(a) => temporary[a.target] = a.inode

\* Every path is validated before any is removed.
Validate(f) ==
  /\ pc[f] = "cleanup"
  /\ IF \A n \in 1..Count : Owned(mine.allocations[n])
     THEN Go(f, "remove") /\ UNCHANGED <<lock, answer>>
     ELSE Over(f, "exists")
  /\ UNCHANGED <<manifest, place, temporary, child, mine>>

\* In the reverse of their order, and the manifest is saved empty at last.
RemoveAll(f) ==
  /\ pc[f] = "remove"
  /\ LET left == {n \in 1..Count : place[mine.allocations[n].target] # None \/ temporary[mine.allocations[n].target] # None}
         last == CHOOSE n \in left : \A m \in left : m <= n
     IN IF left # {}
        THEN /\ place' = [place EXCEPT ![mine.allocations[last].target] = None]
             /\ temporary' = [temporary EXCEPT ![mine.allocations[last].target] = None]
             /\ UNCHANGED <<lock, manifest, mine, pc, answer>>
        ELSE /\ mine' = [mine EXCEPT !.allocations = <<>>]
             /\ manifest' = [request |-> RequestOf[f], allocations |-> <<>>]
             /\ IF answer[f] = "none" THEN Go(f, "look") /\ UNCHANGED <<lock, answer>> ELSE Over(f, answer[f])
             /\ UNCHANGED <<place, temporary>>
  /\ UNCHANGED child

-----------------------------------------------------------------------------

Die(f) ==
  /\ pc[f] \notin {"idle", "over", "died"}
  /\ lock' = None
  /\ Go(f, "died")
  /\ UNCHANGED <<manifest, place, temporary, child, mine, answer>>

\* Somebody else makes a directory there, perhaps in the place of one that a dead fork left.
\* Nobody does so within a cleanup, which does not wait for anything.
Intrude(t) ==
  /\ place[t] # Foreign /\ ~child.published
  /\ \A f \in Fork : pc[f] # "remove"
  /\ place' = [place EXCEPT ![t] = Foreign]
  /\ UNCHANGED <<lock, manifest, temporary, child, mine, pc, answer>>

Next ==
  \/ \E f \in Fork :
       \/ Open(f) \/ LookForChild(f) \/ Recover(f) \/ Look(f)
       \/ SaveIntent(f) \/ MakeTemporary(f) \/ RecordInode(f) \/ Rename(f)
       \/ Build(f) \/ Publish(f) \/ Validate(f) \/ RemoveAll(f) \/ Die(f)
  \/ \E t \in Target : Intrude(t)

Spec == Init /\ [][Next]_vars

-----------------------------------------------------------------------------
(* Properties. *)

\* No fork ever removes a directory it did not make, nor a child that was published.
RemovesOnlyItsOwn ==
  /\ \A t \in Target : place[t] = Foreign => place'[t] = Foreign
  /\ child.published => child'.published /\ place'[Root] = place[Root]
OnlyItsOwnRemoved == [][RemovesOnlyItsOwn]_vars

\* Nothing a dead construction left keeps a retry of the same request from the child: it is
\* told that the run exists only where somebody else's directory stands, or where another
\* request has the child or was interrupted in making it.
RefusalsHaveCause ==
  \A f \in Fork :
    answer[f] # "exists" /\ answer'[f] = "exists" /\ RequestOf[f] # None =>
      \/ \E t \in Target : place[t] = Foreign
      \/ child.published /\ child.receipt # RequestOf[f]
      \/ manifest.allocations # <<>> /\ manifest.request # RequestOf[f]
RetriesGetTheirChild == [][RefusalsHaveCause]_vars

=============================================================================
