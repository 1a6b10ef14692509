--------------------------- MODULE FrameworkInstall ---------------------------
(***************************************************************************)
(* The framework store that every project on a machine links into, and     *)
(* the commands that change it (installer/commands, installer/phases,      *)
(* util/install-transaction.ts): a version holds one tree per provider,    *)
(* `current` names the version that is served, and an installation that    *)
(* fails is rolled back. Projects are relocated: their workspaces link     *)
(* through `current`.                                                      *)
(*                                                                         *)
(* Commands run in processes that may die at any step. The lifecycle lock  *)
(* is OwnerLock's, taken here in one step and freed by a death; the        *)
(* registry has its own lock (Registry) and is written outside this one.   *)
(***************************************************************************)
EXTENDS Naturals

CONSTANTS
  Command,   \* commands, each in a process of its own
  Version,   \* a set of naturals, in the order of releases
  Provider,
  Project,
  Asked,     \* bound: the commands that are asked for
  None

VARIABLES
  store,       \* version -> provider -> its tree: none, one without a valid stamp, a whole one; None: no directory
  aside,       \* the version a publication has set aside, with its trees
  current,     \* the version the pointer names
  registered,  \* project -> the providers of its registry entry
  linked,      \* project -> the providers its workspace links through the pointer
  marker,      \* project -> specrails-version
  custom,      \* project -> whether its owner has edited a reserved file
  holder,      \* who has the lifecycle lock
  cmd,         \* what each command is
  pc,          \* where it is
  todo,        \* of the holder: the providers it has still to materialize
  required,    \* of the holder: the providers the pointer's next version must serve
  saved,       \* of the holder: the surfaces as the installation found them
  torn         \* history: a command died where the pointer dangled

vars == <<store, aside, current, registered, linked, marker, custom, holder, cmd, pc, todo, required, saved, torn>>

Tree == {"none", "unstamped", "whole"}
Trees == [Provider -> Tree]
NoTrees == [v \in Provider |-> "none"]
Commands ==
  [kind : {"init", "assemble"}, version : Version, provider : Provider, project : Project]
    \union [kind : {"install", "stage", "swap"}, version : Version, provider : Provider, project : {None}]
Surfaces ==
  [current : Version \union {None}, present : BOOLEAN, linked : SUBSET Provider,
   marker : Version \union {None}, custom : BOOLEAN]

InstallTypeOK ==
  /\ store \in [Version -> Trees \union {None}]
  /\ aside \in [version : Version, trees : Trees] \union {None}
  /\ current \in Version \union {None}
  /\ registered \in [Project -> SUBSET Provider] /\ linked \in [Project -> SUBSET Provider]
  /\ marker \in [Project -> Version \union {None}] /\ custom \in [Project -> BOOLEAN]
  /\ holder \in Command \union {None}
  /\ cmd \in [Command -> Commands \union {None}]
  /\ pc \in [Command -> {"idle", "waiting", "materialize", "publish", "swap", "assemble", "openspec",
                         "record", "remove", "repoint", "restore", "failed", "done", "over", "died"}]
  /\ todo \subseteq Provider /\ required \subseteq Provider
  /\ saved \in Surfaces \union {None} /\ torn \in BOOLEAN

\* Nothing, or a version that serves a project, of before the stamps perhaps, and others staged.
Init ==
  /\ aside = None /\ holder = None
  /\ cmd = [c \in Command |-> None] /\ pc = [c \in Command |-> "idle"]
  /\ todo = {} /\ required = {} /\ saved = None /\ torn = FALSE
  /\ custom = [j \in Project |-> FALSE]
  /\ \/ current = None /\ store = [v \in Version |-> None] /\ linked = [j \in Project |-> {}]
     \/ /\ current \in Version
        /\ \E trees \in Trees \ {NoTrees}, staged \in SUBSET Provider, i \in Project :
             /\ store = [v \in Version |->
                  IF v = current THEN trees
                  ELSE IF staged = {} THEN None
                  ELSE [p \in Provider |-> IF p \in staged THEN "whole" ELSE "none"]]
             /\ linked = [j \in Project |-> IF j = i THEN {p \in Provider : trees[p] # "none"} ELSE {}]
  /\ registered = linked
  /\ marker = [j \in Project |-> IF linked[j] = {} THEN None ELSE current]

Go(c, to) == pc' = [pc EXCEPT ![c] = to]
Kind(c) == cmd[c].kind
Target(c) == cmd[c].version
Job(c) == cmd[c].project

-----------------------------------------------------------------------------
(* What the commands ask of the store. *)

Serves(v, p) == v # None /\ store[v] # None /\ store[v][p] # "none"

\* The version behind the pointer, which may dangle.
CurrentVersion == IF current # None /\ store[current] # None THEN current ELSE None

Downgrades(v) == CurrentVersion # None /\ v < CurrentVersion

\* The providers of other projects, which the pointer serves as well.
ResolveRequired(requested) ==
  requested \union (UNION {registered[j] : j \in Project}) \union {p \in Provider : Serves(current, p)}

Complete(v, providers) == store[v] # None /\ \A p \in providers : store[v][p] = "whole"

-----------------------------------------------------------------------------
(* Admission. *)

\* A command is asked for; an installation looks for a downgrade and enters its provider into
\* the registry before it has the lock. Desktop has registered what it assembles.
Ask(c, command) ==
  /\ pc[c] = "idle"
  /\ cmd' = [cmd EXCEPT ![c] = command]
  /\ IF command.kind = "init" /\ Downgrades(command.version)
     THEN Go(c, "over") /\ UNCHANGED registered
     ELSE /\ registered' = IF command.kind \in {"init", "assemble"}
                           THEN [registered EXCEPT ![command.project] = @ \union {command.provider}]
                           ELSE registered
          /\ IF command.kind = "init" /\ marker[command.project] # None /\ command.version < marker[command.project]
             THEN Go(c, "over") ELSE Go(c, "waiting")
  /\ UNCHANGED <<store, aside, current, linked, marker, custom, holder, todo, required, saved, torn>>

\* The lock is not waited for.
Admit(c) ==
  /\ pc[c] = "waiting"
  /\ IF holder # None THEN Go(c, "over") /\ UNCHANGED <<holder, saved, todo, required>>
     ELSE /\ holder' = c
          /\ \/ /\ Kind(c) = "init"
                /\ LET requested == linked[Job(c)] \union {cmd[c].provider}
                   IN required' = ResolveRequired(requested)
                /\ todo' = required'
                /\ saved' = [current |-> current, present |-> store[Target(c)] # None,
                             linked |-> linked[Job(c)], marker |-> marker[Job(c)], custom |-> custom[Job(c)]]
                /\ Go(c, IF Downgrades(Target(c)) \/ (marker[Job(c)] # None /\ Target(c) < marker[Job(c)])
                         THEN "failed" ELSE "materialize")
             \/ /\ Kind(c) = "install"
                /\ required' = ResolveRequired({cmd[c].provider}) /\ todo' = required' /\ saved' = None
                /\ Go(c, IF Downgrades(Target(c)) THEN "failed" ELSE "materialize")
             \/ /\ Kind(c) = "stage"
                /\ required' = {} /\ todo' = {cmd[c].provider} /\ saved' = None
                /\ Go(c, IF Downgrades(Target(c)) THEN "failed" ELSE "materialize")
             \/ /\ Kind(c) = "swap"
                /\ required' = ResolveRequired({cmd[c].provider}) /\ todo' = {} /\ saved' = None
                /\ Go(c, "swap")
             \/ /\ Kind(c) = "assemble"
                /\ required' = {cmd[c].provider} /\ todo' = {} /\ saved' = None
                /\ Go(c, IF CurrentVersion \in {Target(c), None} /\ Serves(current, cmd[c].provider)
                            /\ Complete(Target(c), {cmd[c].provider})
                         THEN "assemble" ELSE "failed")
  /\ UNCHANGED <<store, aside, current, registered, linked, marker, custom, cmd, torn>>

\* Whatever throws in an installation rolls it back; the other commands only stop.
Throws(c) == Go(c, IF Kind(c) = "init" THEN "remove" ELSE "failed")

-----------------------------------------------------------------------------
(* installFramework: one provider's tree is built beside the version, which is then replaced. *)

\* A tree whose stamp matches is reused.
Reuse(c) ==
  /\ pc[c] = "materialize"
  /\ \E p \in todo : store[Target(c)] # None /\ store[Target(c)][p] = "whole" /\ todo' = todo \ {p}
  /\ UNCHANGED <<store, aside, current, registered, linked, marker, custom, holder, cmd, pc, required, saved, torn>>

SetAside(c) ==
  /\ pc[c] = "materialize"
  /\ \E p \in todo : ~Complete(Target(c), {p})
  /\ aside' = IF store[Target(c)] = None THEN None ELSE [version |-> Target(c), trees |-> store[Target(c)]]
  /\ store' = [store EXCEPT ![Target(c)] = None]
  /\ Go(c, "publish")
  /\ UNCHANGED <<current, registered, linked, marker, custom, holder, cmd, todo, required, saved, torn>>

\* mutant: the provider's tree is built without its siblings
PublishAlone(c) ==
  /\ pc[c] = "publish"
  /\ \E p \in todo :
       /\ store' = [store EXCEPT ![Target(c)] = [NoTrees EXCEPT ![p] = "whole"]]
       /\ todo' = todo \ {p}
  /\ aside' = None
  /\ Go(c, "materialize")
  /\ UNCHANGED <<current, registered, linked, marker, custom, holder, cmd, required, saved, torn>>

\* Its siblings come with it.
Publish(c) ==
  LET before == IF aside = None THEN NoTrees ELSE aside.trees
  IN /\ pc[c] = "publish"
     /\ \E p \in todo :
          /\ before[p] # "whole"
          /\ store' = [store EXCEPT ![Target(c)] = [before EXCEPT ![p] = "whole"]]
          /\ todo' = todo \ {p}
     /\ aside' = None
     /\ Go(c, "materialize")
     /\ UNCHANGED <<current, registered, linked, marker, custom, holder, cmd, required, saved, torn>>

\* The second rename fails: what was set aside comes back.
PublishFails(c) ==
  /\ pc[c] = "publish"
  /\ store' = IF aside = None THEN store ELSE [store EXCEPT ![aside.version] = aside.trees]
  /\ aside' = None
  /\ Throws(c)
  /\ UNCHANGED <<current, registered, linked, marker, custom, holder, cmd, todo, required, saved, torn>>

\* The source of a provider is not whole.
MaterializeFails(c) ==
  /\ pc[c] = "materialize" /\ todo # {}
  /\ Throws(c)
  /\ UNCHANGED <<store, aside, current, registered, linked, marker, custom, holder, cmd, todo, required, saved, torn>>

Materialized(c) ==
  /\ pc[c] = "materialize" /\ todo = {}
  /\ Go(c, IF Kind(c) = "stage" THEN "done" ELSE "swap")
  /\ UNCHANGED <<store, aside, current, registered, linked, marker, custom, holder, cmd, todo, required, saved, torn>>

\* The version is checked for every provider and the pointer moves at once.
Swap(c) ==
  /\ pc[c] = "swap"
  /\ IF Complete(Target(c), required)
     THEN current' = Target(c) /\ Go(c, IF Kind(c) = "init" THEN "assemble" ELSE "done")
     ELSE UNCHANGED current /\ Throws(c)
  /\ UNCHANGED <<store, aside, registered, linked, marker, custom, holder, cmd, todo, required, saved, torn>>

-----------------------------------------------------------------------------
(* The workspace. *)

\* One provider after the other is linked, with the manifest and the version each time.
Assemble(c) ==
  /\ pc[c] = "assemble"
  /\ LET providers == IF Kind(c) = "init" THEN saved.linked \union {cmd[c].provider} ELSE {cmd[c].provider}
     IN \E p \in providers :
          /\ linked' = [linked EXCEPT ![Job(c)] = @ \union {p}]
          /\ marker' = [marker EXCEPT ![Job(c)] = Target(c)]
          /\ IF providers \subseteq linked'[Job(c)]
             THEN Go(c, IF Kind(c) = "init" THEN "openspec" ELSE "done")
             ELSE UNCHANGED pc
  /\ UNCHANGED <<store, aside, current, registered, custom, holder, cmd, todo, required, saved, torn>>

AssembleFails(c) ==
  /\ pc[c] = "assemble"
  /\ Throws(c)
  /\ UNCHANGED <<store, aside, current, registered, linked, marker, custom, holder, cmd, todo, required, saved, torn>>

\* OpenSpec runs in the repository, for minutes; its owner works there.
OpenSpec(c) ==
  /\ pc[c] = "openspec"
  /\ Go(c, "record") \/ Throws(c)
  /\ UNCHANGED <<store, aside, current, registered, linked, marker, custom, holder, cmd, todo, required, saved, torn>>

UserEdits(j) ==
  /\ ~custom[j] /\ \E c \in Command : pc[c] \in {"openspec", "record"} /\ Job(c) = j
  /\ custom' = [custom EXCEPT ![j] = TRUE]
  /\ UNCHANGED <<store, aside, current, registered, linked, marker, holder, cmd, pc, todo, required, saved, torn>>

\* The registry's lock may not be had in time.
Record(c) ==
  /\ pc[c] = "record"
  /\ \/ Go(c, "done") /\ registered' = [registered EXCEPT ![Job(c)] = @ \union {cmd[c].provider}]
     \/ Throws(c) /\ UNCHANGED registered
  /\ UNCHANGED <<store, aside, current, linked, marker, custom, holder, cmd, todo, required, saved, torn>>

-----------------------------------------------------------------------------
(* withInstallRollback: the surfaces are restored in the reverse of their order. *)

\* A version this installation created is removed, one that was there stays as it is.
RemoveVersion(c) ==
  /\ pc[c] = "remove"
  /\ store' = IF saved.present THEN store ELSE [store EXCEPT ![Target(c)] = None]
  /\ Go(c, "repoint")
  /\ UNCHANGED <<aside, current, registered, linked, marker, custom, holder, cmd, todo, required, saved, torn>>

Repoint(c) ==
  /\ pc[c] = "repoint"
  /\ current' = saved.current
  /\ Go(c, "restore")
  /\ UNCHANGED <<store, aside, registered, linked, marker, custom, holder, cmd, todo, required, saved, torn>>

\* mutant: the reserved files are restored with the rest
RestoreEverything(c) ==
  /\ pc[c] = "restore"
  /\ linked' = [linked EXCEPT ![Job(c)] = saved.linked]
  /\ marker' = [marker EXCEPT ![Job(c)] = saved.marker]
  /\ custom' = [custom EXCEPT ![Job(c)] = saved.custom]
  /\ Go(c, "failed")
  /\ UNCHANGED <<store, aside, current, registered, holder, cmd, todo, required, saved, torn>>

Restore(c) ==
  /\ pc[c] = "restore"
  /\ linked' = [linked EXCEPT ![Job(c)] = saved.linked]
  /\ marker' = [marker EXCEPT ![Job(c)] = saved.marker]
  /\ Go(c, "failed")
  /\ UNCHANGED <<store, aside, current, registered, custom, holder, cmd, todo, required, saved, torn>>

\* The lock is given back.
Leave(c) ==
  /\ pc[c] \in {"done", "failed"}
  /\ holder' = None /\ saved' = None /\ todo' = {} /\ required' = {}
  /\ cmd' = [cmd EXCEPT ![c] = None]
  /\ Go(c, "over")
  /\ UNCHANGED <<store, aside, current, registered, linked, marker, custom, torn>>

\* The version the pointer names is being replaced, or the rollback has not reached the
\* pointer, or the links that were made through it.
Dangling(c) ==
  \/ pc[c] = "publish" /\ current = Target(c)
  \/ pc[c] = "repoint" /\ current # saved.current
  \/ pc[c] = "restore" /\ linked[Job(c)] # saved.linked

\* The next command finds the owner of the lock dead; what was set aside stays aside.
Die(c) ==
  /\ holder = c
  /\ holder' = None /\ aside' = None /\ saved' = None /\ todo' = {} /\ required' = {}
  /\ torn' = (torn \/ Dangling(c))
  /\ cmd' = [cmd EXCEPT ![c] = None]
  /\ Go(c, "died")
  /\ UNCHANGED <<store, current, registered, linked, marker, custom>>

Next ==
  \/ \E c \in Command :
       \/ \E command \in Asked : Ask(c, command)
       \/ Admit(c) \/ Reuse(c) \/ SetAside(c) \/ Publish(c) \/ PublishFails(c) \/ MaterializeFails(c)
       \/ Materialized(c) \/ Swap(c) \/ Assemble(c) \/ AssembleFails(c) \/ OpenSpec(c) \/ Record(c)
       \/ RemoveVersion(c) \/ Repoint(c) \/ Restore(c) \/ Leave(c) \/ Die(c)
  \/ \E j \in Project : UserEdits(j)

Spec == Init /\ [][Next]_vars

-----------------------------------------------------------------------------
(* Properties. *)

\* Unless a command died while the pointer dangled, what any workspace links through the
\* pointer is in the version it names, whichever project's command moved it.
LinkedServed ==
  ~torn /\ (\A c \in Command : ~Dangling(c)) =>
    \A j \in Project : \A p \in linked[j] : Serves(current, p)

\* Even after that, the pointer only ever moves to a version that serves every workspace.
MoveServesAll ==
  current' # current /\ (\A c \in Command : pc[c] # "repoint") =>
    \A j \in Project : \A p \in linked'[j] : store'[current'][p] = "whole"
MovesServeAll == [][MoveServesAll]_vars

\* An installation that failed has left the pointer and the workspace as it found them and
\* took back no edit of a reserved file.
FailureRollsBack ==
  /\ \A j \in Project : custom[j] => custom'[j]
  /\ \A c \in Command :
       pc[c] # "failed" /\ pc'[c] = "failed" /\ saved # None =>
         /\ current' = saved.current /\ linked'[Job(c)] = saved.linked /\ marker'[Job(c)] = saved.marker
         /\ (store'[Target(c)] # None) = saved.present
RollsBack == [][FailureRollsBack]_vars

=============================================================================
