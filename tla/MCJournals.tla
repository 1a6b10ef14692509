------------------------------ MODULE MCJournals ------------------------------
(***************************************************************************)
(* The components that keep other processes out of a file, one behaviour   *)
(* each: the lease of a run (RunLease), the hosts of a session scope       *)
(* (SessionHost), the pipeline journal (PipelineJournal), the three owner  *)
(* files (OwnerLock), the registry of projects (Registry), the framework   *)
(* store (FrameworkInstall) and the directories of a fork (ForkRun). They  *)
(* share no state, so a behaviour picks one, or one protocol of the owner  *)
(* files: the lease and the pipeline journal rest where they begin, the    *)
(* others are absent.                                                      *)
(***************************************************************************)
EXTENDS RunLease, PipelineJournal, TLC

CONSTANTS
  Host, Session, Child, QueueLimit,                  \* SessionHost
  Process,                                           \* OwnerLock
  Writer, Repo,                                      \* Registry
  Version, Provider, Project, f1, f2, j1, j2,        \* FrameworkInstall
  Request, d1, d2, d3, other, r1, r2, Foreign,       \* ForkRun
  p, q, parent, child

VARIABLES
  component,
  hostLease, epoch, born, log, hostPhase, hostToken, opening, cache,
  initialized, notes, answers, blocked, base, received, told,
  file, guard, at, read,
  registry, lock, old, stage, call, fresh, result, broken,
  store, aside, current, registered, linked, marker, custom, holder, cmd, step,
  todo, required, saved, torn,
  forkLock, manifest, place, temporary, forked, mine, forkPhase, answer

MCMaxSeq == [s \in Session |-> 3]

Hosts == INSTANCE SessionHost_proofs WITH
  MaxSeq <- MCMaxSeq, MaxEpoch <- 2,
  lease <- hostLease, token <- hostToken, phase <- hostPhase, seen <- received
Locks == INSTANCE OwnerLock WITH protocol <- component, pc <- at, seen <- read
Projects == INSTANCE Registry WITH pc <- stage, Suspended <- TRUE

\* Two installations into one project or into two, and a swap, a staging and an assembly beside them.
MCAsked ==
  [kind : {"init"}, version : Version, provider : {f1}, project : {j1}]
    \union [kind : {"init", "assemble"}, version : Version, provider : {f2}, project : {j2}]
    \union [kind : {"install", "stage", "swap"}, version : {2}, provider : {f2}, project : {None}]
    \union [kind : {"swap"}, version : {1}, provider : {f1}, project : {None}]

Store == INSTANCE FrameworkInstall WITH Command <- Owner, Asked <- MCAsked, pc <- step

\* Two forks carry one request, the third carries none.
MCFork == Owner \union {other}
MCRequestOf == [f \in MCFork |-> IF f = other THEN None ELSE r1]
MCTargets == <<d1, d2, d3>>

Forks == INSTANCE ForkRun WITH
  Fork <- MCFork, RequestOf <- MCRequestOf, Targets <- MCTargets,
  lock <- forkLock, child <- forked, pc <- forkPhase

hosts == <<hostLease, epoch, born, log, hostPhase, hostToken, opening, cache,
           initialized, notes, answers, blocked, base, received, told>>
locks == <<file, guard, at, read>>
projects == <<registry, lock, old, stage, call, fresh, result, broken>>
frameworks == <<store, aside, current, registered, linked, marker, custom, holder, cmd, step,
                todo, required, saved, torn>>
forks == <<forkLock, manifest, place, temporary, forked, mine, forkPhase, answer>>

\* A component that is not there.
NoHosts ==
  /\ hostLease = None /\ epoch = None /\ born = None /\ log = None /\ hostPhase = None
  /\ hostToken = None /\ opening = None /\ cache = None /\ initialized = None /\ notes = None
  /\ answers = None /\ blocked = None /\ base = None /\ received = None /\ told = None
NoLock ==
  /\ file = None /\ guard = None /\ at = None /\ read = None
NoProjects ==
  /\ registry = None /\ lock = None /\ old = None /\ stage = None /\ call = None
  /\ fresh = None /\ result = None /\ broken = None
NoFrameworks ==
  /\ store = None /\ aside = None /\ current = None /\ registered = None /\ linked = None
  /\ marker = None /\ custom = None /\ holder = None /\ cmd = None /\ step = None
  /\ todo = None /\ required = None /\ saved = None /\ torn = None
NoForks ==
  /\ forkLock = None /\ manifest = None /\ place = None /\ temporary = None
  /\ forked = None /\ mine = None /\ forkPhase = None /\ answer = None

JournalsInit ==
  /\ Init /\ PipelineInit
  /\ \/ component = "lease" /\ NoHosts /\ NoLock /\ NoProjects /\ NoFrameworks /\ NoForks
     \/ component = "hosts" /\ Hosts!Init /\ NoLock /\ NoProjects /\ NoFrameworks /\ NoForks
     \/ component = "pipeline" /\ NoHosts /\ NoLock /\ NoProjects /\ NoFrameworks /\ NoForks
     \/ NoHosts /\ Locks!Init /\ NoProjects /\ NoFrameworks /\ NoForks
     \/ component = "registry" /\ NoHosts /\ NoLock /\ Projects!Init /\ NoFrameworks /\ NoForks
     \/ component = "framework" /\ NoHosts /\ NoLock /\ NoProjects /\ Store!Init /\ NoForks
     \/ component = "fork" /\ NoHosts /\ NoLock /\ NoProjects /\ NoFrameworks /\ Forks!Init

JournalsNext ==
  /\ UNCHANGED component
  /\ \/ component = "lease" /\ Next /\ UNCHANGED <<hosts, pipelineVars, locks, projects, frameworks, forks>>
     \/ component = "hosts" /\ Hosts!Next /\ UNCHANGED <<vars, pipelineVars, locks, projects, frameworks, forks>>
     \/ component = "pipeline" /\ PipelineNext /\ UNCHANGED <<vars, hosts, locks, projects, frameworks, forks>>
     \/ component \in Locks!Protocols /\ Locks!Next /\ UNCHANGED <<vars, hosts, pipelineVars, projects, frameworks, forks>>
     \/ component = "registry" /\ Projects!Next /\ UNCHANGED <<vars, hosts, pipelineVars, locks, frameworks, forks>>
     \/ component = "framework" /\ Store!Next /\ UNCHANGED <<vars, hosts, pipelineVars, locks, projects, forks>>
     \/ component = "fork" /\ Forks!Next /\ UNCHANGED <<vars, hosts, pipelineVars, locks, projects, frameworks>>

JournalsSpec ==
  JournalsInit /\ [][JournalsNext]_<<component, vars, hosts, pipelineVars, locks, projects, frameworks, forks>>

-----------------------------------------------------------------------------
(* The properties of the instances, by their own names. *)

\* Every row, journal, owner file and registry keeps its type.
JournalsTypeOK ==
  CASE component = "lease" -> TypeOK
    [] component = "hosts" -> Hosts!HostTypeOK
    [] component = "pipeline" -> PipelineTypeOK
    [] component = "registry" -> Projects!RegistryTypeOK
    [] component = "framework" -> Store!InstallTypeOK
    [] component = "fork" -> Forks!ForkTypeOK
    [] OTHER -> Locks!LockTypeOK

\* Of the hosts: no session loses its orphaned children, and a live client hears of every
\* event or of the last one before a gap.
OrphansSettled == component = "hosts" => Hosts!OrphansSettled
FeedComplete == component = "hosts" => Hosts!FeedComplete

\* Of the owner files: no two holders. Of the registry: no entry that was handed out is lost.
Exclusive == component \in Locks!Protocols => Locks!Exclusive
HandedOutStays == component = "registry" => Projects!HandedOutStays

\* Of the framework: links resolve, a move serves every project, a failure is taken back.
LinkedServed == component = "framework" => Store!LinkedServed
InstallSteps ==
  [][component = "framework" => Store!MoveServesAll /\ Store!FailureRollsBack]_frameworks

\* Of the forks: nobody's directory is removed, and a retry is refused only with a cause.
ForkSteps ==
  [][component = "fork" => Forks!RemovesOnlyItsOwn /\ Forks!RefusalsHaveCause]_forks

-----------------------------------------------------------------------------
\* Processes are interchangeable.
Actors == Permutations({p, q})
=============================================================================
