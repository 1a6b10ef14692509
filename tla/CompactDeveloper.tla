-------------------------- MODULE CompactDeveloper --------------------------
(* The compact developer (src/agent-runtime/compact/developer.ts): one tool *)
(* loop per task group of tasks.md, a gate that ticks a task only on        *)
(* evidence, the test command run after each group with one fix round, and  *)
(* the host ticking tasks.md.  A role that fails or dies is run again and   *)
(* starts from what tasks.md and the disk hold.  Guardrails are at their    *)
(* default, all on.  A group has at most 20 open tasks and a result at most *)
(* 20 items, which is where the code cuts its report, and the ids of the    *)
(* tasks are distinct.  The corrections of a synthetic group are no tasks   *)
(* of the plan and are left out of the report.                              *)
EXTENDS Integers, FiniteSets

CONSTANTS
  Task, File,
  Groups,      \* number of task groups
  GroupOf,     \* task -> its group
  Names,       \* task -> the files its sentence names
  Plans,       \* the sets of tasks that may carry a number in tasks.md
  Item,        \* what a report calls incomplete: the ids of tasks, and other text
  Withholds,   \* item -> the tasks whose id it contains or whose text contains it
  None

VARIABLES
  disk,        \* file -> absent, stub or code
  numbered,    \* the tasks that carry a number in tasks.md
  ticked,      \* the tasks checked off in tasks.md
  fixer,       \* the role runs with the fixer stance
  feedback,    \* the host supplied feedback
  seen,        \* tasks.md as the role read it when it began
  group,       \* the group at work; Groups + 1 is the synthetic one
  attempt,
  writes,      \* files written in the current loop (groupWrites)
  claim,       \* the loop's result: [files, items, done] or None
  report,      \* [files, incomplete]: what the role will return
  pc

vars == <<disk, numbered, ticked, fixer, feedback, seen, group, attempt, writes, claim, report,
          pc>>

TasksOf(g) == {t \in Task : GroupOf[t] = g}
Open == TasksOf(group) \ seen
Matched(items) == UNION {Withholds[i] : i \in items}
NoReport == [files |-> {}, incomplete |-> {}]

Init ==
  /\ disk \in [File -> {"absent", "code"}]
  /\ numbered \in Plans
  /\ ticked = {} /\ seen = {}
  /\ fixer \in BOOLEAN /\ feedback \in BOOLEAN
  /\ group = 0 /\ attempt = 0
  /\ writes = {} /\ claim = None
  /\ report = NoReport
  /\ pc = "start"

-----------------------------------------------------------------------------

\* The groups with a task that was open when the role read tasks.md.
Pending(done) == {g \in 1 .. Groups : TasksOf(g) \ done # {}}

FirstOf(groups) == CHOOSE g \in groups : \A h \in groups : g <= h

Work(g) ==
  /\ group' = g /\ attempt' = 0
  /\ writes' = {} /\ claim' = None
  /\ pc' = "loop"

Rest(done, g) == {h \in Pending(done) : h > g}

\* The next pending group, or the end of the role.
NextGroup ==
  IF Rest(seen, group) # {} THEN Work(FirstOf(Rest(seen, group)))
  ELSE /\ pc' = "done" /\ claim' = None
       /\ UNCHANGED <<group, attempt, writes>>

\* With nothing open, feedback becomes one synthetic group of corrections.
Start ==
  /\ pc = "start"
  /\ seen' = ticked
  /\ report' = NoReport
  /\ IF Pending(ticked) # {} THEN Work(FirstOf(Pending(ticked)))
     ELSE IF feedback THEN Work(Groups + 1)
     ELSE pc' = "done" /\ UNCHANGED <<group, attempt, writes, claim>>
  /\ UNCHANGED <<disk, numbered, ticked, fixer, feedback>>

\* A write the guards let through; a populated file may be reduced to a
\* stub, but not emptied.
Edit(f, as) ==
  /\ pc \in {"loop", "fix"}
  /\ as \in {"stub", "code"}
  /\ disk' = [disk EXCEPT ![f] = as]
  /\ writes' = writes \cup {f}
  /\ UNCHANGED <<numbered, ticked, fixer, feedback, seen, group, attempt, claim, report, pc>>

\* A loop that repeats itself or falls silent is run once more: its tasks are
\* reported open and what landed on the disk is credited.  The second time
\* the group is given up.
Stopped ==
  /\ pc = "loop"
  /\ report' = [files |-> report.files \cup writes,
                incomplete |-> report.incomplete \cup Open]
  /\ IF attempt = 0 THEN attempt' = 1 /\ writes' = {} /\ UNCHANGED <<group, claim, pc>>
     ELSE NextGroup
  /\ UNCHANGED <<disk, numbered, ticked, fixer, feedback, seen>>

\* Mutant: the model is taken at its word.
NothingUnproved(items) == {}

\* A file a task names exists and is more than a stub.
Proved(f) == disk[f] = "code"

\* Evidence: of the tasks no item withholds, the ones whose named files are
\* missing or stubs stay open.
Unproved(items) ==
  {t \in Open \ Matched(items) : \E f \in Names[t] : ~Proved(f)}

HasResult(files, items) ==
  /\ claim' = [files |-> files, items |-> items,
               done |-> Open \ (Matched(items) \cup Unproved(items))]
  /\ report' = [files |-> report.files \cup files,
                incomplete |-> report.incomplete \cup Unproved(items)]
  /\ pc' = IF files # {} /\ ~fixer /\ group <= Groups THEN "check" ELSE "record"
  /\ UNCHANGED <<disk, numbered, ticked, fixer, feedback, seen, group, attempt, writes>>

\* The files of a result and what it calls incomplete are the model's words.
Result(files, items) ==
  /\ pc = "loop"
  /\ HasResult(files, items)

\* The write calls of the transcript that were not answered with an error; a
\* refused write whose error was folded away by then counts as a write.
WrittenFiles(folded) == writes \cup folded

\* No structured result even when asked again: it is rebuilt from the
\* transcript and every task stays open.
NoResult(folded) ==
  /\ pc = "loop"
  /\ HasResult(WrittenFiles(folded), Open)

\* "There is no code to work on" against a disk that holds some: once more,
\* with the inventory in front of the model.
Contradicted(items) ==
  /\ pc = "loop" /\ attempt = 0
  /\ items # {}
  /\ \E f \in File : disk[f] # "absent"
  /\ attempt' = 1 /\ writes' = {}
  /\ UNCHANGED <<disk, numbered, ticked, fixer, feedback, seen, group, claim, report, pc>>

\* The repository's own test command, if there is one.  A failure, or a new
\* test file it does not run, opens one fix round.
Check(fine) ==
  /\ pc = "check"
  /\ pc' = IF fine THEN "record" ELSE "fix"
  /\ writes' = {}
  /\ UNCHANGED <<disk, numbered, ticked, fixer, feedback, seen, group, attempt, claim, report>>

\* The fix round ends, however it ends; the second check is only reported.
EndFix ==
  /\ pc = "fix"
  /\ report' = [report EXCEPT !.files = @ \cup writes]
  /\ pc' = "record"
  /\ UNCHANGED <<disk, numbered, ticked, fixer, feedback, seen, group, attempt, writes, claim>>

\* The host ticks the done tasks, those that carry a number, and hands the
\* progress over; a hand-over that fails is only reported.
Record ==
  /\ pc = "record"
  /\ report' = [report EXCEPT !.incomplete = @ \cup claim.items]
  /\ ticked' = ticked \cup (claim.done \cap numbered)
  /\ NextGroup
  /\ UNCHANGED <<disk, numbered, fixer, feedback, seen>>

\* Any other error, the deadline of the group, or a crash: what the role kept
\* in memory is gone.
Fail ==
  /\ pc \in {"loop", "check", "fix", "record"}
  /\ pc' = "failed"
  /\ claim' = None /\ report' = NoReport /\ writes' = {}
  /\ UNCHANGED <<disk, numbered, ticked, fixer, feedback, seen, group, attempt>>

\* The step is run again: after a failure, or as a correction.
Again ==
  /\ pc \in {"failed", "done"}
  /\ pc' = "start"
  /\ fixer' \in BOOLEAN /\ feedback' \in BOOLEAN
  /\ UNCHANGED <<disk, numbered, ticked, seen, group, attempt, writes, claim, report>>

Next ==
  \/ Start \/ Stopped \/ EndFix \/ Record \/ Fail \/ Again
  \/ \E f \in File, as \in {"stub", "code"} : Edit(f, as)
  \/ \E files \in SUBSET File, items \in SUBSET Item : Result(files, items)
  \/ \E folded \in SUBSET File : NoResult(folded)
  \/ \E items \in SUBSET Item : Contradicted(items)
  \/ \E fine \in BOOLEAN : Check(fine)

Spec == Init /\ [][Next]_vars

-----------------------------------------------------------------------------

DeveloperTypeOK ==
  /\ disk \in [File -> {"absent", "stub", "code"}]
  /\ numbered \in Plans /\ ticked \subseteq Task /\ seen \subseteq Task
  /\ group \in 0 .. Groups + 1 /\ attempt \in 0 .. 1
  /\ writes \subseteq File
  /\ report.files \subseteq File /\ report.incomplete \subseteq Item
  /\ pc \in {"start", "loop", "check", "fix", "record", "done", "failed"}

\* The files a task names are there.
HasFiles(t) == \A f \in Names[t] : disk[f] # "absent"

\* A task is ticked only with a number, and with the files it names on disk.
\* When the role ends, every task of the plan is ticked, or something reported
\* as incomplete covers it (its own id, or an item that contains it: a
\* reported 1.10 is all that says 1.1 is open), or it carries no number to
\* tick it by and has its files: no group that was stopped, cut off or
\* contradicted drops a task, in this run or after a failed one.  What was
\* reported of a first attempt may be ticked by the second.
TasksAccounted ==
  /\ \A t \in ticked : t \in numbered /\ HasFiles(t)
  /\ pc = "done" =>
       \A t \in Task : \/ t \in ticked \cup Matched(report.incomplete)
                       \/ t \notin numbered /\ HasFiles(t)

=============================================================================
