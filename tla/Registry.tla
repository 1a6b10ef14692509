------------------------------- MODULE Registry -------------------------------
(***************************************************************************)
(* The registry of projects that Core and Desktop share                    *)
(* (installer/util/registry.ts): a file that is read without a lock,       *)
(* and read, modified and renamed into place under an advisory lock file   *)
(* that anyone may break once it is older than its time to live.           *)
(*                                                                         *)
(* The repositories have one basename: the slug of one is the number of    *)
(* its suffix, and slugs name workspaces.                                  *)
(***************************************************************************)
EXTENDS Naturals, FiniteSets

CONSTANTS
  Writer,     \* calls, each in a process of its own
  Repo,       \* repositories of one name
  Suspended,  \* whether a process that lives may keep the lock beyond its time to live
  None

VARIABLES
  registry,  \* repository -> slug
  lock,      \* no file, or the one lock file: who created it, whether its token is written
  old,       \* the lock file is older than LOCK_STALE_MS
  pc,        \* where each call is
  call,      \* what it does, for which repository
  fresh,     \* the registry as it read it
  result,    \* the slug of the workspace it was given
  broken     \* history: the lock of a living process was broken

vars == <<registry, lock, old, pc, call, fresh, result, broken>>

Slug == 1..Cardinality(Repo)
Registries == [Repo -> Slug \union {None}]

RegistryTypeOK ==
  /\ registry \in Registries
  /\ lock \subseteq [by : Writer, written : BOOLEAN] /\ old \in BOOLEAN /\ (lock = {} => ~old)
  /\ pc \in [Writer -> {"idle", "waiting", "breaking", "created", "inside", "read", "unlocking", "unlinking", "over", "died"}]
  /\ call \in [Writer -> [op : {"allocate", "record"}, repo : Repo] \union {None}]
  /\ fresh \in [Writer -> Registries] /\ result \in [Writer -> Slug \union {None}]
  /\ broken \in BOOLEAN

Nothing == [r \in Repo |-> None]

Init ==
  /\ registry = Nothing /\ lock = {} /\ old = FALSE
  /\ pc = [w \in Writer |-> "idle"] /\ call = [w \in Writer |-> None]
  /\ fresh = [w \in Writer |-> Nothing] /\ result = [w \in Writer |-> None]
  /\ broken = FALSE

Go(w, to) == pc' = [pc EXCEPT ![w] = to]

\* resolveArtifacts looks without the lock first; an entry it finds is the answer.
Resolve(w, r) ==
  /\ pc[w] = "idle"
  /\ call' = [call EXCEPT ![w] = [op |-> "allocate", repo |-> r]]
  /\ IF registry[r] # None THEN result' = [result EXCEPT ![w] = registry[r]] /\ Go(w, "over")
     ELSE UNCHANGED result /\ Go(w, "waiting")
  /\ fresh' = [fresh EXCEPT ![w] = registry]
  /\ UNCHANGED <<registry, lock, old, broken>>

\* recordSuccessfulInstall, and the merge of a new provider into an entry.
RecordInstall(w, r) ==
  /\ pc[w] = "idle"
  /\ call' = [call EXCEPT ![w] = [op |-> "record", repo |-> r]]
  /\ Go(w, "waiting")
  /\ UNCHANGED <<registry, lock, old, fresh, result, broken>>

-----------------------------------------------------------------------------
(* withFileLock *)

Open(w) ==
  /\ pc[w] = "waiting" /\ lock = {}
  /\ lock' = {[by |-> w, written |-> FALSE]} /\ old' = FALSE
  /\ Go(w, "created")
  /\ UNCHANGED <<registry, call, fresh, result, broken>>

WriteToken(w) ==
  /\ pc[w] = "created"
  /\ lock' = {[l EXCEPT !.written = l.written \/ l.by = w] : l \in lock}
  /\ Go(w, "inside")
  /\ UNCHANGED <<registry, old, call, fresh, result, broken>>

\* The lock is held: its age is looked up, ...
FindStale(w) ==
  /\ pc[w] = "waiting" /\ lock # {} /\ old
  /\ Go(w, "breaking")
  /\ UNCHANGED <<registry, lock, old, call, fresh, result, broken>>

\* ... and whatever is there then is removed.
Break(w) ==
  /\ pc[w] = "breaking"
  /\ lock' = {} /\ old' = FALSE
  /\ broken' = (broken \/ \E l \in lock : pc[l.by] # "died")
  /\ Go(w, "waiting")
  /\ UNCHANGED <<registry, call, fresh, result>>

\* Fail closed: the deadline has passed while the lock was held.
TimeOut(w) ==
  /\ pc[w] = "waiting" /\ lock # {} /\ ~old
  /\ Go(w, "over")
  /\ UNCHANGED <<registry, lock, old, call, fresh, result, broken>>

\* mutant: the entry is allocated from the registry that was read before the lock
NotReadAgain(w) == fresh[w]

ReadAgain(w) == registry

ReadRegistry(w) ==
  /\ pc[w] = "inside"
  /\ fresh' = [fresh EXCEPT ![w] = ReadAgain(w)]
  /\ Go(w, "read")
  /\ UNCHANGED <<registry, lock, old, call, result, broken>>

\* allocateSlug: the first suffix that no entry has.
AllocateSlug(known) ==
  CHOOSE s \in Slug : s \notin {known[r] : r \in Repo} /\ \A t \in 1..(s - 1) : t \in {known[r] : r \in Repo}

\* The whole registry is written as it was read, with the entry that changes.
WriteRegistry(w) ==
  LET known == fresh[w]
      repo == call[w].repo
  IN /\ pc[w] = "read"
     /\ IF call[w].op = "record"
        THEN /\ registry' = IF known[repo] # None THEN known ELSE registry
             /\ UNCHANGED result
        ELSE LET slug == IF known[repo] # None THEN known[repo] ELSE AllocateSlug(known)
             IN /\ registry' = IF known[repo] # None THEN registry ELSE [known EXCEPT ![repo] = slug]
                /\ result' = [result EXCEPT ![w] = slug]
     /\ Go(w, "unlocking")
     /\ UNCHANGED <<lock, old, call, fresh, broken>>

\* The lock is removed if it carries the own token when it is read.
ReadToken(w) ==
  /\ pc[w] = "unlocking"
  /\ Go(w, IF lock = {[by |-> w, written |-> TRUE]} THEN "unlinking" ELSE "over")
  /\ UNCHANGED <<registry, lock, old, call, fresh, result, broken>>

Unlink(w) ==
  /\ pc[w] = "unlinking"
  /\ lock' = {} /\ old' = FALSE
  /\ broken' = (broken \/ \E l \in lock : l.by # w)
  /\ Go(w, "over")
  /\ UNCHANGED <<registry, call, fresh, result>>

-----------------------------------------------------------------------------

Age ==
  /\ ~old /\ \E l \in lock : Suspended \/ pc[l.by] = "died"
  /\ old' = TRUE
  /\ UNCHANGED <<registry, lock, pc, call, fresh, result, broken>>

Die(w) ==
  /\ pc[w] \notin {"idle", "over", "died"}
  /\ Go(w, "died")
  /\ UNCHANGED <<registry, lock, old, call, fresh, result, broken>>

Next ==
  \/ \E w \in Writer :
       \/ \E r \in Repo : Resolve(w, r) \/ RecordInstall(w, r)
       \/ Open(w) \/ WriteToken(w) \/ FindStale(w) \/ Break(w) \/ TimeOut(w)
       \/ ReadRegistry(w) \/ WriteRegistry(w) \/ ReadToken(w) \/ Unlink(w) \/ Die(w)
  \/ Age

Spec == Init /\ [][Next]_vars

-----------------------------------------------------------------------------
(* Properties. *)

\* While nobody's lock was broken under it, the workspace a call was given stays the one the
\* registry has for its repository, however many calls overlap and die.
HandedOutStays ==
  ~broken => \A w \in Writer : result[w] # None => registry[call[w].repo] = result[w]

\* Two repositories never resolve to the same writable workspace.
WorkspacesApart ==
  \A v, w \in Writer : result[v] # None /\ result[v] = result[w] => call[v].repo = call[w].repo

=============================================================================
