---------------------------- MODULE Verification ----------------------------
(***************************************************************************)
(* A visit of the verify node: the host's setup commands, the checks, one  *)
(* repair of the environment and one adoption of what the checks generate  *)
(* (engine/pieces/verify.ts), each a run of executeVerification            *)
(* (pipeline/pipeline-state.ts): waves of processes that stop each other,  *)
(* time out or outlive their kill, results reused from the last receipt,   *)
(* and evidence of every check.                                            *)
(*                                                                         *)
(* The checkout and the declared inputs of a check are versions that only  *)
(* grow: an edit that restores earlier content is invisible to every       *)
(* fingerprint of the code.                                                *)
(***************************************************************************)
EXTENDS Naturals, FiniteSets

CONSTANTS
  Setup,           \* the number of setup commands
  Checks,          \* the number of checks
  Independent,     \* the checks that declare a group and resources
  Apart,           \* pairs of checks of different repositories and disjoint resources
  Reusable,        \* the checks whose results may be reused
  Failures,        \* check -> the ways in which its process may fail: defect, host, environment
  Adopts,          \* the guardrail verification-output-adoption
  MaxConcurrency,
  MaxFailures,     \* equal failures of an unchanged candidate (3 in the code)
  MaxEvents,       \* bound: visits, and edits, cancellations, limits and failures to record
  None

VARIABLES
  tree,      \* the version of the candidate
  inputs,    \* the version of the declared inputs and tools
  stage,     \* the run of the visit: setup, checks, repaired, adopting, or idle
  base,      \* the candidate when the visit began
  candidate, \* the candidate the run verifies
  wave,      \* the first check of the wave that runs, or 0
  check,     \* check -> [at, outcome, exit, lost, before, evidence]; lost: the exit code is -1
  alive,     \* processes of the run; one that was given up may outlive its check
  strays,    \* processes that outlived the run that gave them up
  aborted,   \* the run's controller
  signal, late, \* the host cancelled; the deadline has passed
  previous,  \* the last valid full receipt: [candidate, inputs], or None
  progress,  \* [fingerprint, count]
  visits,
  faults,    \* what went wrong so far; with the visits, bounded by MaxEvents
  claim,     \* what the last visit returned, and the run that decided: [outcome, verified, of]
  proof      \* history: check -> [tree, inputs] when its last process ended well, or None

verdict == <<previous, progress, claim>>
process == <<wave, check, alive, strays, aborted>>
visit == <<stage, base, candidate, visits>>
vars == <<tree, inputs, visit, process, signal, late, verdict, proof, faults>>

Plan(s) == IF s = "setup" THEN 1 .. Setup ELSE 1 .. Checks

\* Contiguous waves: a check joins the wave before it when both are independent, nothing in
\* the wave stands in its way, and there is room.
First[i \in 1 .. Checks] ==
  IF i = 1 THEN 1
  ELSE IF /\ {i - 1, i} \subseteq Independent /\ i - First[i - 1] < MaxConcurrency
          /\ \A j \in First[i - 1] .. i - 1 : <<j, i>> \in Apart
       THEN First[i - 1] ELSE i
Wave(s, i) == IF s = "setup" THEN {i} ELSE {j \in 1 .. Checks : First[j] = i}

Outcomes == {"passed", "failed", "timed-out", "cancelled", "interrupted", None}
Exits == {"ok", "defect", "host", "environment"}

Idle == [at |-> "waiting", outcome |-> None, exit |-> "defect", lost |-> FALSE, before |-> 0, evidence |-> None]
All == 1 .. IF Setup > Checks THEN Setup ELSE Checks

Version == 0 .. 2 * MaxEvents

VerificationTypeOK ==
  /\ tree \in Version /\ inputs \in Version
  /\ stage \in {"idle", "setup", "checks", "repaired", "adopting"}
  /\ check \in [All -> [at : {"waiting", "asked", "running", "stopping", "over", "threw"},
                        outcome : Outcomes, exit : Exits, lost : BOOLEAN, before : Version,
                        evidence : {"pending", "executed", "reused", "not-run", None}]]
  /\ alive \subseteq All /\ strays \subseteq All
  /\ previous # None => previous.candidate \in Version
  /\ progress.count \in 0 .. MaxEvents /\ visits + faults \in 0 .. MaxEvents
  /\ claim.verified \in Version \union {None}

Init ==
  /\ tree = 0 /\ inputs = 0
  /\ stage = "idle" /\ base = 0 /\ candidate = 0 /\ visits = 0
  /\ wave = 0 /\ check = [c \in All |-> Idle] /\ alive = {} /\ strays = {} /\ aborted = FALSE
  /\ signal = FALSE /\ late = FALSE /\ faults = 0
  /\ previous = None /\ progress = [fingerprint |-> None, count |-> 0]
  /\ claim = [outcome |-> None, verified |-> None, of |-> None]
  /\ proof = [c \in All |-> None]

Fault == visits + faults < MaxEvents /\ faults' = faults + 1

-----------------------------------------------------------------------------
(* The run. *)

\* A run starts with rows of its own; what the last one gave up may go on.
Fresh ==
  /\ wave' = 0 /\ check' = [c \in All |-> Idle] /\ aborted' = signal
  /\ alive' = {} /\ strays' = strays \union alive

\* ... on the candidate as it is now.
Begin(s) == stage' = s /\ candidate' = tree /\ Fresh

Reuse(c) ==
  /\ stage # "setup" /\ c \in Reusable
  /\ previous # None /\ previous.candidate = candidate /\ previous.inputs[c] = inputs

\* The checks of the next wave are looked up and announced in one go.
StartWave(i) ==
  /\ stage # "idle" /\ ~aborted
  /\ i \in Plan(stage) /\ Wave(stage, i) # {}
  /\ \A j \in 1 .. i - 1 : check[j].at = "over"
  /\ \A j \in Wave(stage, i) : check[j].at = "waiting"
  /\ wave' = i
  /\ check' = [c \in All |->
       IF c \notin Wave(stage, i) THEN check[c]
       ELSE IF Reuse(c) THEN [Idle EXCEPT !.at = "over", !.outcome = "passed", !.exit = "ok",
                                          !.before = inputs, !.evidence = "reused"]
       ELSE [Idle EXCEPT !.at = "asked", !.before = inputs, !.evidence = "pending"]]
  /\ UNCHANGED <<tree, inputs, visit, alive, strays, aborted, signal, late, verdict, proof, faults>>

\* The controller aborts: every process of the wave is killed, and those that were being
\* stopped count as cancelled too.
Cancelled(checks) ==
  [c \in All |-> IF checks[c].at \in {"running", "stopping"}
                 THEN [checks[c] EXCEPT !.at = "stopping", !.outcome = "cancelled"]
                 ELSE checks[c]]

\* mutant: nobody looks at the inputs again
Untouched(c) == TRUE

\* What a reusable check declared is as it was when the check was looked up.
Unchanged(c) == c \in Reusable /\ stage # "setup" => inputs = check[c].before

\* A check is over: its result is recorded, or cannot be, which fails the run.
End(c, outcome, exit, lost, recorded) ==
  LET result == [check[c] EXCEPT
        !.at = IF recorded THEN "over" ELSE "threw",
        !.outcome = IF Unchanged(c) THEN outcome ELSE "failed",
        !.exit = exit, !.lost = lost \/ ~Unchanged(c),
        !.evidence = IF recorded THEN "executed" ELSE @]
      good == recorded /\ exit = "ok" /\ ~result.lost
  IN /\ check' = IF good THEN [check EXCEPT ![c] = result] ELSE Cancelled([check EXCEPT ![c] = result])
     /\ aborted' = (aborted \/ ~good)

\* What a failed check printed, or dependencies out of their ranges, may speak of the host or
\* of the environment, even when it was stopped (exit -1).
Printed(c) == Failures[c] \union {"defect"}

\* A check without an exit code of its own.
Lost(c, outcome, printed, recorded) == printed \in Printed(c) /\ End(c, outcome, printed, TRUE, recorded)

\* The check was announced: it is spawned, unless the run was aborted or the time is over.
Spawn(c) ==
  /\ check[c].at = "asked" /\ ~aborted /\ ~late
  /\ check' = [check EXCEPT ![c].at = "running"]
  /\ alive' = alive \union {c}
  /\ UNCHANGED <<tree, inputs, visit, wave, strays, aborted, signal, late, verdict, proof, faults>>

NotSpawned(c) ==
  /\ check[c].at = "asked"
  /\ \E printed \in Printed(c) \ {"host"} :
       \/ aborted /\ Lost(c, "cancelled", printed, TRUE) /\ UNCHANGED faults
       \/ ~aborted /\ late /\ Lost(c, "timed-out", printed, TRUE) /\ UNCHANGED faults
       \/ ~aborted /\ ~late /\ Lost(c, "failed", printed, TRUE) /\ Fault
       \/ Lost(c, "failed", printed, FALSE) /\ Fault
  /\ UNCHANGED <<tree, inputs, visit, wave, alive, strays, signal, late, verdict, proof>>

\* The process closes: by itself, by the kill of stop, or by a kill from outside.
Exit(c, exit, recorded) ==
  /\ check[c].at \in {"running", "stopping"} /\ c \in alive
  /\ alive' = alive \ {c}
  /\ \/ check[c].at = "running" /\ exit \in Failures[c] \union {"ok"}
        /\ \E printed \in IF exit = "ok" /\ ~Unchanged(c) THEN Printed(c) ELSE {exit} :
             End(c, IF exit = "ok" THEN "passed" ELSE "failed", printed, FALSE, recorded)
     \/ exit = "killed"
        /\ \E printed \in Printed(c) :
             Lost(c, IF check[c].at = "stopping" THEN check[c].outcome ELSE "failed", printed, recorded)
  /\ proof' = IF stage = "setup" THEN proof
              ELSE [proof EXCEPT ![c] = IF exit = "ok" THEN [tree |-> tree, inputs |-> inputs] ELSE None]
  /\ IF recorded THEN UNCHANGED faults ELSE Fault
  /\ UNCHANGED <<tree, inputs, visit, wave, strays, signal, late, verdict>>

\* The limit or the watchdog of silence; they keep running while the process is stopped.
Limit(c) ==
  /\ check[c].at \in {"running", "stopping"} /\ check[c].outcome # "timed-out"
  /\ check' = [check EXCEPT ![c].at = "stopping", ![c].outcome = "timed-out"]
  /\ Fault
  /\ UNCHANGED <<tree, inputs, visit, wave, alive, strays, aborted, signal, late, verdict, proof>>

\* Five seconds after the kill the process is given up, and may go on.
GiveUp(c, recorded) ==
  /\ check[c].at = "stopping"
  /\ \E printed \in Printed(c) : Lost(c, "interrupted", printed, recorded)
  /\ proof' = IF stage = "setup" THEN proof ELSE [proof EXCEPT ![c] = None]
  /\ Fault
  /\ UNCHANGED <<tree, inputs, visit, wave, alive, strays, signal, late, verdict>>

\* A process that was given up ends after all, in its run, after it, or in a later one.
StrayExits(c) ==
  /\ \/ c \in alive /\ check[c].at \notin {"running", "stopping"} /\ alive' = alive \ {c} /\ UNCHANGED strays
     \/ c \in strays /\ strays' = strays \ {c} /\ UNCHANGED alive
  /\ UNCHANGED <<tree, inputs, visit, wave, check, aborted, signal, late, verdict, proof, faults>>

Cancel ==
  /\ stage # "idle" /\ ~signal
  /\ signal' = TRUE /\ aborted' = TRUE /\ check' = Cancelled(check)
  /\ Fault
  /\ UNCHANGED <<tree, inputs, visit, wave, alive, strays, late, verdict, proof>>

DeadlinePasses ==
  /\ stage # "idle" /\ ~late /\ late' = TRUE /\ Fault
  /\ UNCHANGED <<tree, inputs, visit, process, signal, verdict, proof>>

\* A process of the run, a stray or somebody else changes the candidate or the declared inputs.
Edit ==
  /\ \/ tree' = tree + 1 /\ inputs' \in {inputs, inputs + 1}
     \/ UNCHANGED tree /\ inputs' = inputs + 1
  /\ Fault
  /\ UNCHANGED <<visit, process, signal, late, verdict, proof>>

-----------------------------------------------------------------------------
(* The receipt, and what the visit makes of it. *)

Ran == {c \in Plan(stage) : check[c].at = "over"}
Bad == {c \in Ran : check[c].exit # "ok" \/ check[c].lost}
Started == {c \in Plan(stage) : check[c].at # "waiting"}

\* Every wave that started has ended, and no other will.
RunEnds ==
  /\ stage # "idle"
  /\ Started = Ran
  /\ Ran = Plan(stage) \/ aborted

Green == Ran = Plan(stage) /\ Bad = {}
Valid == Green /\ ~signal /\ ~late /\ tree = candidate

Infrastructure == \E c \in Bad : check[c].lost /\ check[c].outcome # "cancelled"
Host == \E c \in Bad : check[c].exit = "host"

\* A check that passed may have printed what looks like a missing tool.
Environment == \E c \in Ran : "environment" \in (IF c \in Bad THEN {check[c].exit} ELSE Failures[c])

\* Everything passed, but the checks rewrote the candidate themselves.
SelfMutationOnly == Green /\ tree # candidate

NotRun == [c \in All |-> IF c \in Plan(stage) /\ check[c].at = "waiting" THEN "not-run" ELSE check[c].evidence]

\* The visit is over; of its last run only the evidence is kept.
Settle(outcome, verified, evidence) ==
  /\ claim' = [outcome |-> outcome, verified |-> verified, of |-> stage]
  /\ stage' = "idle" /\ wave' = 0
  /\ check' = [c \in All |-> [Idle EXCEPT !.evidence = evidence[c]]]
  /\ UNCHANGED <<tree, base, candidate, visits, alive, strays, aborted>>

\* The setup: it prepares the workspace and judges nothing.
SetupEnds ==
  /\ RunEnds /\ stage = "setup"
  /\ IF Infrastructure THEN Settle("failed", None, NotRun) /\ UNCHANGED inputs
     ELSE IF Bad # {} THEN Settle("blocked", None, NotRun) /\ UNCHANGED inputs
     ELSE /\ Begin("checks") /\ UNCHANGED <<tree, inputs, base, visits, claim>>
  /\ UNCHANGED <<signal, late, previous, progress, proof, faults>>

\* The same failures of the candidate the visit began with, in a row.
Code(c) == IF check[c].lost THEN "lost" ELSE check[c].exit
Fingerprint == [candidate |-> base, failures |-> {<<c, Code(c)>> : c \in Bad}]
Times == IF Valid THEN 0 ELSE IF progress.fingerprint = Fingerprint THEN progress.count + 1 ELSE 1

\* The environment is repaired once: the installs may be refused, fail, or change the
\* dependencies and, repairing a lockfile, the candidate.
Repairs == stage = "checks" /\ ~Valid /\ ~Host /\ Environment

RepairEnvironment ==
  /\ RunEnds /\ Repairs
  /\ \/ Settle("blocked", None, NotRun) /\ UNCHANGED inputs
        /\ progress' = [fingerprint |-> Fingerprint, count |-> Times]
     \/ /\ inputs' = inputs + 1 /\ tree' \in {tree, tree + 1}
        /\ stage' = "repaired" /\ candidate' = tree' /\ Fresh
        /\ UNCHANGED <<base, visits, claim, progress>>
  /\ UNCHANGED <<signal, late, previous, proof, faults>>

Adoptable == stage \in {"checks", "repaired"} /\ SelfMutationOnly /\ ~signal /\ ~late

\* What the checks generated stays in the candidate, which is verified once more.
Adopt ==
  /\ RunEnds /\ Adoptable /\ Adopts
  /\ Begin("adopting")
  /\ UNCHANGED <<tree, inputs, base, visits, signal, late, verdict, proof, faults>>

\* The last receipt of the visit decides, the first one too when no install succeeded.
Judge ==
  /\ RunEnds /\ stage # "setup"
  /\ ~(Adoptable /\ Adopts)
  /\ LET nondeterministic == SelfMutationOnly /\ (stage = "adopting" \/ (~signal /\ ~late))
         stalled == ~Infrastructure /\ ~Valid /\ Times >= MaxFailures
     IN Settle(CASE nondeterministic -> "nondeterministic"
                 [] ~nondeterministic /\ Host -> "blocked"
                 [] ~nondeterministic /\ ~Host ->
                      IF stalled THEN "stalled" ELSE IF Infrastructure THEN "failed"
                      ELSE IF Valid THEN "pass" ELSE "fail",
               IF Valid THEN candidate ELSE None, NotRun)
  /\ progress' = [fingerprint |-> Fingerprint, count |-> Times]
  /\ previous' = IF Valid THEN [candidate |-> candidate, inputs |-> [c \in 1 .. Checks |-> check[c].before]]
                 ELSE previous
  /\ UNCHANGED <<inputs, signal, late, proof, faults>>

\* A result or the receipt could not be recorded: the visit throws, when the wave is over.
Throw ==
  /\ stage # "idle"
  /\ \/ /\ \E c \in Plan(stage) : check[c].at = "threw"
        /\ \A c \in Wave(stage, wave) : check[c].at \in {"over", "threw"}
        /\ UNCHANGED faults
     \/ RunEnds /\ Fault
  /\ Settle("threw", None, [c \in All |-> check[c].evidence])
  /\ UNCHANGED <<inputs, signal, late, previous, progress, proof>>

\* The node is visited again.
Visit ==
  /\ stage = "idle" /\ visits + faults < MaxEvents /\ ~signal
  /\ visits' = visits + 1
  /\ base' = tree /\ late' = FALSE
  /\ claim' = [outcome |-> None, verified |-> None, of |-> None]
  /\ Begin(IF Setup > 0 THEN "setup" ELSE "checks")
  /\ UNCHANGED <<tree, inputs, signal, previous, progress, proof, faults>>

Next ==
  \/ \E i \in All : StartWave(i)
  \/ \E c \in All :
       \/ Spawn(c) \/ NotSpawned(c) \/ Limit(c) \/ StrayExits(c)
       \/ \E recorded \in BOOLEAN : GiveUp(c, recorded)
       \/ \E exit \in Exits \union {"killed"}, recorded \in BOOLEAN : Exit(c, exit, recorded)
  \/ Cancel \/ DeadlinePasses \/ Edit
  \/ SetupEnds \/ RepairEnvironment \/ Adopt \/ Judge \/ Throw \/ Visit

Spec == Init /\ [][Next]_vars

-----------------------------------------------------------------------------

\* A candidate is verified only by evidence about itself: of every check of the plan the last
\* process ended well, on that candidate, and with the declared inputs the receipt names,
\* however many visits ago it ran. No process of the run that judged is alive, not even one
\* that was given up: that fails the run. A stray of an earlier run may be, and what it changes
\* is an edit like any other. No check of a visit that judged is without its evidence
\* (pipeline-state.ts executeVerification, verify.ts execute).
VerifiedOnEvidence ==
  /\ claim.verified # None =>
       /\ alive = {} /\ claim.outcome = "pass"
       /\ \A c \in 1 .. Checks :
            /\ proof[c] # None /\ proof[c].tree = claim.verified
            /\ c \in Reusable => proof[c].inputs = previous.inputs[c]
  /\ (stage = "idle" /\ claim.outcome \notin {None, "threw"}) =>
       \A c \in Plan(claim.of) : check[c].evidence \in {"executed", "reused", "not-run"}

=============================================================================
