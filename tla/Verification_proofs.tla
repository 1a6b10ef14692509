-------------------------- MODULE Verification_proofs --------------------------
(***************************************************************************)
(* A candidate is called verified only on evidence about itself, for any   *)
(* plan, any waves, and whatever is edited, cancelled or killed meanwhile. *)
(* The argument is that versions only grow: a check that passed in this    *)
(* run saw a candidate no older than the run's, and a result that is       *)
(* reused belongs to the last process of its check.                        *)
(***************************************************************************)
EXTENDS Verification, TLAPS

Proof == [tree : Nat, inputs : Nat]
Receipt == [candidate : Nat, inputs : [1 .. Checks -> Nat]]
Row == [at : {"waiting", "asked", "running", "stopping", "over", "threw"}, outcome : Outcomes, exit : Exits,
        lost : BOOLEAN, before : Nat, evidence : {"pending", "executed", "reused", "not-run", None}]

\* What the constants have to be.
VerificationAssumption ==
  /\ Setup \in Nat /\ Checks \in Nat
  /\ Failures \in [All -> SUBSET Exits]
  /\ None \notin Proof

\* Versions, rows, proofs and the last receipt keep their types.
VisitShape ==
  /\ tree \in Nat /\ inputs \in Nat /\ candidate \in Nat /\ candidate <= tree
  /\ stage \in {"idle", "setup", "checks", "repaired", "adopting"}
  /\ check \in [All -> Row] /\ alive \subseteq All /\ strays \subseteq All
  /\ proof \in [All -> Proof \union {None}]
  /\ previous \in Receipt \union {None}

\* The last process of the check ended well on this candidate with these inputs.
Shown(c, version, declared) ==
  proof[c] \in Proof /\ proof[c].tree = version /\ (c \in Reusable => proof[c].inputs = declared)

\* The last receipt is not ahead of the code; while it can be reused it tells the truth.
ReceiptSound ==
  previous # None =>
    /\ previous.candidate <= candidate
    /\ \A c \in 1 .. Checks :
         /\ previous.inputs[c] <= inputs
         /\ c \in Reusable /\ previous.candidate = candidate /\ previous.inputs[c] = inputs =>
              Shown(c, candidate, inputs)

Judging == stage \in {"checks", "repaired", "adopting"}

\* A check that is executed could not be reused, and one that passed proved it.
RowSound(c) ==
  /\ check[c].before <= inputs
  /\ check[c].at # "waiting" => stage # "idle" /\ c \in Plan(stage)
  /\ check[c].at = "over" => check[c].evidence \in {"executed", "reused"}
  /\ (Judging /\ check[c].at \in {"asked", "running", "stopping"} /\ c \in Reusable
        /\ previous # None /\ previous.candidate = candidate) => previous.inputs[c] < check[c].before
  /\ (Judging /\ check[c].at = "over" /\ check[c].exit = "ok" /\ ~check[c].lost) =>
       /\ proof[c] \in Proof /\ candidate <= proof[c].tree /\ proof[c].tree <= tree
       /\ c \in Reusable => proof[c].inputs = check[c].before
  /\ (stage # "idle" /\ c \in alive) =>
       check[c].at \in {"running", "stopping", "threw"} \/ (check[c].at = "over" /\ check[c].lost)

VisitInv ==
  /\ VisitShape /\ ReceiptSound /\ \A c \in All : RowSound(c)
  /\ stage # "idle" => claim.verified = None
  /\ VerifiedOnEvidence

-----------------------------------------------------------------------------
LEMMA Plans ==
  ASSUME VerificationAssumption
  PROVE  /\ 1 .. Checks \subseteq All /\ 1 .. Setup \subseteq All
         /\ Judging => Plan(stage) = 1 .. Checks
         /\ \A s : Plan(s) \subseteq All
BY DEF VerificationAssumption, All, Plan, Judging

LEMMA IdleRow == Idle \in Row
BY DEF Idle, Row, Outcomes, Exits

LEMMA VisitInit == VerificationAssumption /\ Init => VisitInv
<1> SUFFICES ASSUME VerificationAssumption, Init PROVE VisitInv
  OBVIOUS
<1>1. VisitShape
  BY IdleRow DEF Init, VisitShape
<1>2. ReceiptSound
  BY DEF Init, ReceiptSound
<1>3. \A c \in All : check[c] = Idle
  BY DEF Init
<1>4. \A c \in All : RowSound(c)
  BY <1>3 DEF Init, RowSound, Idle, Judging
<1>5. VerifiedOnEvidence
  BY DEF Init, VerifiedOnEvidence
<1> QED BY <1>1, <1>2, <1>4, <1>5 DEF VisitInv, Init

-----------------------------------------------------------------------------
(* Within a run. *)

\* A row goes on without a result.
Moves(r, q) ==
  /\ q.exit = r.exit /\ q.lost = r.lost /\ q.before = r.before /\ q.evidence = r.evidence
  /\ \/ q.at = r.at
     \/ r.at = "asked" /\ q.at = "running"
     \/ r.at \in {"running", "stopping"} /\ q.at = "stopping"

Within == stage # "idle" /\ UNCHANGED <<tree, inputs, stage, candidate, previous, claim, strays>>

LEMMA MovedSound ==
  ASSUME VisitInv, Within, NEW c \in All, Moves(check[c], check'[c]), proof'[c] = proof[c],
         c \in alive' => c \in alive \/ check'[c].at = "running"
  PROVE  RowSound(c)'
<1>1. RowSound(c)
  BY DEF VisitInv
<1> QED BY <1>1 DEF RowSound, Moves, Within, Judging

\* A step of the run keeps the invariant when it keeps the rows and what was shown.
LEMMA WithinSound ==
  ASSUME VisitInv, Within, check' \in [All -> Row], alive' \subseteq All, proof' \in [All -> Proof \union {None}],
         \A c \in All : RowSound(c)',
         \A c \in 1 .. Checks :
           (c \in Reusable /\ previous # None /\ previous.candidate = candidate /\ previous.inputs[c] = inputs) => proof'[c] = proof[c]
  PROVE  VisitInv'
<1>1. VisitShape'
  BY DEF VisitInv, VisitShape, Within
<1>2. ReceiptSound'
  BY DEF VisitInv, ReceiptSound, Shown, Within
<1>3. VerifiedOnEvidence'
  BY DEF VisitInv, VerifiedOnEvidence, Within
<1> QED BY <1>1, <1>2, <1>3 DEF VisitInv, Within

LEMMA CancelledMoves ==
  ASSUME NEW checks \in [All -> Row]
  PROVE  Cancelled(checks) \in [All -> Row] /\ \A c \in All : Moves(checks[c], Cancelled(checks)[c])
<1>1. \A c \in All : /\ Cancelled(checks)[c] \in Row
                     /\ Moves(checks[c], Cancelled(checks)[c])
  <2> SUFFICES ASSUME NEW c \in All
               PROVE  Cancelled(checks)[c] \in Row /\ Moves(checks[c], Cancelled(checks)[c])
    OBVIOUS
  <2>1. checks[c] \in Row
    OBVIOUS
  <2>2. CASE checks[c].at \in {"running", "stopping"}
    <3>1. Cancelled(checks)[c] = [checks[c] EXCEPT !.at = "stopping", !.outcome = "cancelled"]
      BY <2>2 DEF Cancelled
    <3> QED BY <2>1, <2>2, <3>1 DEF Row, Moves, Outcomes
  <2>3. CASE checks[c].at \notin {"running", "stopping"}
    <3>1. Cancelled(checks)[c] = checks[c]
      BY <2>3 DEF Cancelled
    <3> QED BY <2>1, <3>1 DEF Moves
  <2> QED BY <2>2, <2>3
<1>2. Cancelled(checks) = [c \in All |-> Cancelled(checks)[c]]
  BY DEF Cancelled
<1> QED BY <1>1, <1>2

\* Spawns, limits, cancellations and the deadline.
LEMMA MovesSound ==
  ASSUME VerificationAssumption, VisitInv,
         Cancel \/ DeadlinePasses \/ \E c \in All : Spawn(c) \/ Limit(c)
  PROVE  VisitInv'
<1>0. check \in [All -> Row] /\ alive \subseteq All /\ proof \in [All -> Proof \union {None}]
  BY DEF VisitInv, VisitShape
<1>1. CASE Cancel
  <2>1. Within /\ check' = Cancelled(check) /\ UNCHANGED <<alive, proof>>
    BY <1>1 DEF Cancel, Within, visit, verdict
  <2>2. \A c \in All : RowSound(c)'
    BY <1>0, <2>1, CancelledMoves, MovedSound
  <2> QED BY <1>0, <2>1, <2>2, CancelledMoves, WithinSound
<1>2. CASE DeadlinePasses
  <2>1. Within /\ UNCHANGED <<check, alive, proof>>
    BY <1>2 DEF DeadlinePasses, Within, visit, verdict, process
  <2>2. \A c \in All : RowSound(c)'
    <3>1. \A c \in All : Moves(check[c], check'[c])
      BY <2>1 DEF Moves
    <3> QED BY <2>1, <3>1, MovedSound
  <2> QED BY <1>0, <2>1, <2>2, WithinSound
<1>3. ASSUME NEW c \in All, Spawn(c) \/ Limit(c) PROVE VisitInv'
  <2>1. check[c] \in Row /\ check[c].at # "waiting"
    BY <1>0, <1>3 DEF Spawn, Limit
  <2>2. Within /\ proof' = proof
    BY <1>3, <2>1 DEF VisitInv, RowSound, Spawn, Limit, Within, visit, verdict
  <2>3. PICK q : q \in Row /\ Moves(check[c], q) /\ check' = [check EXCEPT ![c] = q]
                 /\ ((q.at = "running" /\ alive' = alive \union {c}) \/ alive' = alive)
    <3>1. CASE Spawn(c)
      <4> DEFINE q == [check[c] EXCEPT !.at = "running"]
      <4>1. q \in Row /\ Moves(check[c], q) /\ q.at = "running"
        BY <2>1, <3>1 DEF Row, Moves, Spawn
      <4>2. check' = [check EXCEPT ![c] = q] /\ alive' = alive \union {c}
        BY <1>0, <3>1 DEF Spawn
      <4> QED BY <4>1, <4>2
    <3>2. CASE Limit(c)
      <4> DEFINE q == [check[c] EXCEPT !.at = "stopping", !.outcome = "timed-out"]
      <4>1. q \in Row /\ Moves(check[c], q)
        BY <2>1, <3>2 DEF Row, Moves, Limit, Outcomes
      <4>2. check' = [check EXCEPT ![c] = q] /\ alive' = alive
        BY <1>0, <3>2 DEF Limit
      <4> QED BY <4>1, <4>2
    <3> QED BY <1>3, <3>1, <3>2
  <2>4. check' \in [All -> Row] /\ check'[c] = q /\ \A d \in All \ {c} : check'[d] = check[d]
    BY <1>0, <2>3
  <2>5. \A d \in All : RowSound(d)'
    <3> SUFFICES ASSUME NEW d \in All PROVE RowSound(d)'
      OBVIOUS
    <3>1. Moves(check[d], check'[d])
      BY <2>3, <2>4 DEF Moves
    <3>2. d \in alive' => d \in alive \/ check'[d].at = "running"
      BY <2>3, <2>4
    <3> QED BY <2>2, <3>1, <3>2, MovedSound
  <2> QED BY <1>0, <2>2, <2>3, <2>4, <2>5, WithinSound
<1> QED BY <1>1, <1>2, <1>3

\* A row that has its result, when that could be recorded.
Results(r, q, exit, recorded) ==
  /\ q.at = IF recorded THEN "over" ELSE "threw"
  /\ q.exit = exit /\ q.before = r.before
  /\ recorded => q.evidence = "executed"

\* What End leaves behind.
LEMMA EndRow ==
  ASSUME VisitShape, NEW c \in All, NEW outcome \in Outcomes, NEW exit \in Exits, NEW lost \in BOOLEAN,
         NEW recorded \in BOOLEAN, End(c, outcome, exit, lost, recorded)
  PROVE  /\ check' \in [All -> Row]
         /\ Results(check[c], check'[c], exit, recorded)
         /\ (lost => check'[c].lost = TRUE) /\ (~Unchanged(c) => check'[c].lost = TRUE)
         /\ \A d \in All : d # c => Moves(check[d], check'[d])
<1> DEFINE result == [check[c] EXCEPT
        !.at = IF recorded THEN "over" ELSE "threw",
        !.outcome = IF Unchanged(c) THEN outcome ELSE "failed",
        !.exit = exit, !.lost = lost \/ ~Unchanged(c),
        !.evidence = IF recorded THEN "executed" ELSE @]
           rows == [check EXCEPT ![c] = result]
<1>1. check \in [All -> Row] /\ check[c] \in Row
  BY DEF VisitShape
<1>2. result \in Row
  BY <1>1 DEF Row, Outcomes
<1>3. /\ result.at = IF recorded THEN "over" ELSE "threw"
      /\ result.exit = exit /\ result.before = check[c].before
      /\ (lost => result.lost = TRUE) /\ (~Unchanged(c) => result.lost = TRUE)
      /\ recorded => result.evidence = "executed"
  BY <1>1 DEF Row
<1>4. check' = rows \/ check' = Cancelled(rows)
  BY DEF End
<1> HIDE DEF result
<1>5. rows \in [All -> Row] /\ rows[c] = result /\ \A d \in All : d # c => rows[d] = check[d]
  BY <1>1, <1>2
<1> HIDE DEF rows
<1>6. /\ check' \in [All -> Row]
      /\ \A d \in All : Moves(rows[d], check'[d])
  <2>1. CASE check' = rows
    BY <1>5, <2>1 DEF Moves
  <2>2. CASE check' = Cancelled(rows)
    BY <1>5, <2>2, CancelledMoves
  <2> QED BY <1>4, <2>1, <2>2
<1>7. check'[c].at = IF recorded THEN "over" ELSE "threw"
  BY <1>3, <1>5, <1>6 DEF Moves
<1>8. Results(check[c], check'[c], exit, recorded)
  BY <1>3, <1>5, <1>6, <1>7 DEF Moves, Results
<1> QED BY <1>3, <1>5, <1>6, <1>8 DEF Moves

LEMMA PrintedExits ==
  ASSUME VerificationAssumption, NEW c \in All
  PROVE  Printed(c) \subseteq Exits
BY DEF VerificationAssumption, Printed, Exits

\* A check that is executed may not be reused, so a lost process takes nothing away.
LEMMA Unused ==
  ASSUME VerificationAssumption, VisitInv, NEW c \in All, c \in 1 .. Checks, c \in Reusable,
         check[c].at \in {"running", "stopping"}, stage # "setup",
         previous # None, previous.candidate = candidate, previous.inputs[c] = inputs
  PROVE  FALSE
<1>1. RowSound(c) /\ VisitShape
  BY DEF VisitInv
<1>2. Judging
  BY <1>1 DEF RowSound, VisitShape, Judging
<1>3. inputs < check[c].before /\ check[c].before <= inputs
  BY <1>1, <1>2 DEF RowSound
<1>4. inputs \in Nat /\ check[c].before \in Nat
  BY <1>1 DEF VisitShape, Row
<1> QED BY <1>3, <1>4

\* A check that ends without a process that ended well.
LEMMA LostSound ==
  ASSUME VerificationAssumption, VisitInv, NEW c \in All, NEW outcome \in Outcomes, NEW printed, NEW recorded \in BOOLEAN,
         check[c].at # "waiting", Lost(c, outcome, printed, recorded),
         \/ proof' = proof
         \/ check[c].at \in {"running", "stopping"} /\ stage # "setup" /\ proof' = [proof EXCEPT ![c] = None],
         UNCHANGED <<tree, inputs, stage, candidate, previous, claim, alive, strays>>
  PROVE  VisitInv'
<1>1. RowSound(c) /\ VisitShape
  BY DEF VisitInv
<1>2. Within
  BY <1>1 DEF RowSound, Within
<1>3. /\ check' \in [All -> Row] /\ check'[c].at = (IF recorded THEN "over" ELSE "threw") /\ check'[c].lost
      /\ check'[c].before = check[c].before /\ (recorded => check'[c].evidence = "executed")
      /\ \A d \in All : d # c => Moves(check[d], check'[d])
  <2>1. printed \in Exits /\ TRUE \in BOOLEAN
    BY PrintedExits DEF Lost
  <2>2. End(c, outcome, printed, TRUE, recorded)
    BY DEF Lost
  <2>3. VisitShape
    BY <1>1
  <2>4. /\ check' \in [All -> Row]
        /\ Results(check[c], check'[c], printed, recorded)
        /\ check'[c].lost = TRUE
        /\ \A d \in All : d # c => Moves(check[d], check'[d])
    BY <2>1, <2>2, <2>3, EndRow
  <2> QED BY <2>4 DEF Results
<1>4. RowSound(c)'
  BY <1>1, <1>2, <1>3 DEF RowSound, Within, Judging
<1>5. proof' \in [All -> Proof \union {None}] /\ \A d \in All \ {c} : proof'[d] = proof[d]
  BY <1>1 DEF VisitShape
<1>6. \A d \in All : RowSound(d)'
  BY <1>2, <1>3, <1>4, <1>5, MovedSound
<1>7. \A d \in 1 .. Checks :
        (d \in Reusable /\ previous # None /\ previous.candidate = candidate /\ previous.inputs[d] = inputs) => proof'[d] = proof[d]
  BY <1>5, Unused, Plans
<1>8. alive' \subseteq All
  BY <1>1 DEF VisitShape
<1> QED BY <1>2, <1>3, <1>5, <1>6, <1>7, <1>8, WithinSound

LEMMA EndsSound ==
  ASSUME VerificationAssumption, VisitInv, NEW c \in All, NotSpawned(c) \/ \E recorded \in BOOLEAN : GiveUp(c, recorded)
  PROVE  VisitInv'
<1>1. CASE NotSpawned(c)
  <2>1. PICK outcome \in {"cancelled", "timed-out", "failed"}, recorded \in BOOLEAN, printed \in Printed(c) :
          Lost(c, outcome, printed, recorded)
    BY <1>1 DEF NotSpawned
  <2>2. outcome \in Outcomes
    BY DEF Outcomes
  <2> QED BY <1>1, <2>1, <2>2, LostSound DEF NotSpawned, visit, verdict
<1>2. ASSUME NEW recorded \in BOOLEAN, GiveUp(c, recorded) PROVE VisitInv'
  <2>1. "interrupted" \in Outcomes
    BY DEF Outcomes
  <2>2. PICK printed \in Printed(c) : Lost(c, "interrupted", printed, recorded)
    BY <1>2 DEF GiveUp
  <2>3. /\ check[c].at = "stopping" /\ UNCHANGED <<tree, inputs, stage, candidate, previous, claim, alive, strays>>
        /\ proof' = proof \/ (stage # "setup" /\ proof' = [proof EXCEPT ![c] = None])
    BY <1>2 DEF GiveUp, visit, verdict
  <2> QED BY <2>1, <2>2, <2>3, LostSound
<1> QED BY <1>1, <1>2

\* What a process that was given up leaves, when it ends.
LEMMA StraySound ==
  ASSUME VerificationAssumption, VisitInv, NEW c \in All, StrayExits(c)
  PROVE  VisitInv'
<1>1. /\ UNCHANGED <<tree, inputs, stage, candidate, check, proof, previous, claim>>
      /\ alive' \subseteq alive /\ strays' \subseteq strays
  BY DEF StrayExits, visit, verdict
<1>2. VisitShape'
  BY <1>1 DEF VisitInv, VisitShape
<1>3. ReceiptSound'
  BY <1>1 DEF VisitInv, ReceiptSound, Shown
<1>4. \A d \in All : RowSound(d)'
  BY <1>1 DEF VisitInv, RowSound, Judging
<1>5. VerifiedOnEvidence'
  BY <1>1 DEF VisitInv, VerifiedOnEvidence, Plan
<1> QED BY <1>1, <1>2, <1>3, <1>4, <1>5 DEF VisitInv

\* A process that ends well proves that its check passes on the code of now.
LEMMA ExitSound ==
  ASSUME VerificationAssumption, VisitInv, NEW c \in All, NEW exit \in Exits \union {"killed"},
         NEW recorded \in BOOLEAN, Exit(c, exit, recorded)
  PROVE  VisitInv'
<1>1. RowSound(c) /\ VisitShape /\ check[c].at \in {"running", "stopping"} /\ c \in alive
  BY DEF VisitInv, Exit
<1>2. Within
  BY <1>1 DEF RowSound, Within, Exit, visit, verdict
<1>3. /\ check' \in [All -> Row] /\ check'[c].at = (IF recorded THEN "over" ELSE "threw")
      /\ check'[c].before = check[c].before /\ (recorded => check'[c].evidence = "executed")
      /\ check'[c].exit = "ok" /\ ~check'[c].lost => exit = "ok" /\ Unchanged(c)
      /\ \A d \in All : d # c => Moves(check[d], check'[d])
  <2>1. CASE exit = "killed"
    <3>1. PICK outcome \in Outcomes, printed \in Printed(c) : Lost(c, outcome, printed, recorded)
      <4>1. check[c].outcome \in Outcomes /\ "failed" \in Outcomes
        BY <1>1 DEF VisitShape, Row, Outcomes
      <4>2. exit \notin Failures[c] \union {"ok"}
        BY <2>1 DEF VerificationAssumption, Exits
      <4> QED BY <4>1, <4>2 DEF Exit
    <3>2. printed \in Exits /\ TRUE \in BOOLEAN
      BY PrintedExits
    <3>3. End(c, outcome, printed, TRUE, recorded) /\ VisitShape
      BY <1>1, <3>1 DEF Lost
    <3>4. /\ check' \in [All -> Row]
          /\ Results(check[c], check'[c], printed, recorded)
          /\ check'[c].lost = TRUE
          /\ \A d \in All : d # c => Moves(check[d], check'[d])
      BY <3>2, <3>3, EndRow
    <3> QED BY <3>2, <3>4 DEF Results
  <2>2. CASE exit # "killed"
    <3>1. PICK outcome \in Outcomes, printed \in Exits :
            End(c, outcome, printed, FALSE, recorded) /\ (Unchanged(c) => printed = exit)
      <4>1. "passed" \in Outcomes /\ "failed" \in Outcomes /\ exit \in Exits
        BY <2>2 DEF Outcomes
      <4>2. PICK printed \in IF exit = "ok" /\ ~Unchanged(c) THEN Printed(c) ELSE {exit} :
              End(c, IF exit = "ok" THEN "passed" ELSE "failed", printed, FALSE, recorded)
        BY <2>2 DEF Exit
      <4>3. printed \in Exits /\ (Unchanged(c) => printed = exit)
        BY <4>1, PrintedExits
      <4> QED BY <4>1, <4>2, <4>3
    <3>2. exit \in Exits /\ FALSE \in BOOLEAN /\ VisitShape
      BY <1>1, <2>2
    <3>3. /\ check' \in [All -> Row]
          /\ Results(check[c], check'[c], printed, recorded)
          /\ ~Unchanged(c) => check'[c].lost = TRUE
          /\ \A d \in All : d # c => Moves(check[d], check'[d])
      BY <3>1, <3>2, EndRow
    <3> QED BY <3>1, <3>3 DEF Results
  <2> QED BY <2>1, <2>2
<1>4. /\ stage = "setup" => proof' = proof
      /\ stage # "setup" => proof' = [proof EXCEPT ![c] = IF exit = "ok" THEN [tree |-> tree, inputs |-> inputs] ELSE None]
      /\ alive' = alive \ {c}
  BY DEF Exit
<1>5. proof' \in [All -> Proof \union {None}] /\ \A d \in All \ {c} : proof'[d] = proof[d]
  <2>1. [tree |-> tree, inputs |-> inputs] \in Proof
    BY <1>1 DEF VisitShape, Proof
  <2> QED BY <1>1, <1>4, <2>1 DEF VisitShape
<1>6. Judging /\ exit = "ok" => proof'[c] \in Proof /\ proof'[c].tree = tree /\ proof'[c].inputs = inputs
  <2>1. [tree |-> tree, inputs |-> inputs] \in Proof
    BY <1>1 DEF VisitShape, Proof
  <2> QED BY <1>1, <1>4, <2>1 DEF VisitShape, Judging
<1>7. RowSound(c)'
  <2>1. Judging /\ c \in Reusable /\ Unchanged(c) => inputs = check[c].before
    BY DEF Judging, Unchanged
  <2> QED BY <1>1, <1>2, <1>3, <1>4, <1>6, <2>1 DEF RowSound, Within, Judging, VisitShape
<1>8. \A d \in All : RowSound(d)'
  BY <1>2, <1>3, <1>4, <1>5, <1>7, MovedSound
<1>9. \A d \in 1 .. Checks :
        (d \in Reusable /\ previous # None /\ previous.candidate = candidate /\ previous.inputs[d] = inputs) => proof'[d] = proof[d]
  BY <1>1, <1>4, <1>5, Unused, Plans
<1>10. alive' \subseteq All
  BY <1>1, <1>4 DEF VisitShape
<1> QED BY <1>2, <1>3, <1>5, <1>8, <1>9, <1>10, WithinSound

\* Looking a wave up: what is executed could not be reused, what is reused was shown.
LEMMA StartWaveSound ==
  ASSUME VerificationAssumption, VisitInv, NEW i \in All, StartWave(i)
  PROVE  VisitInv'
<1>1. VisitShape /\ stage # "idle" /\ \A c \in All : RowSound(c)
  BY DEF VisitInv, StartWave
<1>2. Within /\ UNCHANGED <<alive, proof>>
  BY <1>1 DEF Within, StartWave, visit, verdict
<1>3. Wave(stage, i) \subseteq Plan(stage)
  BY DEF StartWave, Wave, Plan
<1> DEFINE reused == [Idle EXCEPT !.at = "over", !.outcome = "passed", !.exit = "ok", !.before = inputs, !.evidence = "reused"]
           asked == [Idle EXCEPT !.at = "asked", !.before = inputs, !.evidence = "pending"]
<1>4. /\ reused \in Row /\ reused.at = "over" /\ reused.before = inputs /\ reused.evidence = "reused"
      /\ asked \in Row /\ asked.at = "asked" /\ asked.before = inputs
  BY <1>1 DEF VisitShape, Idle, Row, Outcomes, Exits
<1> HIDE DEF reused, asked
<1>5. ASSUME NEW c \in All
      PROVE  /\ c \notin Wave(stage, i) => check'[c] = check[c]
             /\ c \in Wave(stage, i) /\ Reuse(c) => check'[c] = reused
             /\ c \in Wave(stage, i) /\ ~Reuse(c) => check'[c] = asked
  BY DEF StartWave, reused, asked
<1>6. check' \in [All -> Row]
  <2>1. \A c \in All : check'[c] \in Row
    BY <1>1, <1>4, <1>5 DEF VisitShape
  <2>2. check' = [c \in All |-> check'[c]]
    BY DEF StartWave
  <2> QED BY <2>1, <2>2
<1>7. \A c \in All : RowSound(c)'
  <2> SUFFICES ASSUME NEW c \in All PROVE RowSound(c)'
    OBVIOUS
  <2>1. CASE c \notin Wave(stage, i)
    <3>1. Moves(check[c], check'[c])
      BY <1>5, <2>1 DEF Moves
    <3> QED BY <1>2, <3>1, MovedSound
  <2>2. check[c].at = "waiting" => c \notin alive
    BY <1>1 DEF RowSound
  <2>3. c \in Wave(stage, i) => check[c].at = "waiting"
    BY DEF StartWave
  <2>4. CASE c \in Wave(stage, i) /\ Reuse(c)
    <3>1. check'[c] = reused /\ c \in Plan(stage) /\ c \notin alive
      BY <1>3, <1>5, <2>2, <2>3, <2>4
    <3>2. Judging => proof[c] \in Proof /\ proof[c].tree = candidate /\ (c \in Reusable => proof[c].inputs = inputs)
      <4>1. Judging => c \in 1 .. Checks
        BY <3>1, Plans
      <4> QED BY <2>4, <4>1 DEF VisitInv, ReceiptSound, Reuse, Shown
    <3> QED BY <1>1, <1>2, <1>4, <3>1, <3>2 DEF RowSound, Within, Judging, VisitShape
  <2>5. CASE c \in Wave(stage, i) /\ ~Reuse(c)
    <3>1. check'[c] = asked /\ c \in Plan(stage) /\ c \notin alive
      BY <1>3, <1>5, <2>2, <2>3, <2>5
    <3>2. (Judging /\ c \in Reusable /\ previous # None /\ previous.candidate = candidate) => previous.inputs[c] < inputs
      <4> SUFFICES ASSUME Judging, c \in Reusable, previous # None, previous.candidate = candidate
                   PROVE  previous.inputs[c] < inputs
        OBVIOUS
      <4>1. c \in 1 .. Checks
        BY <3>1, Plans
      <4>2. previous.inputs[c] <= inputs /\ previous.inputs[c] \in Nat /\ inputs \in Nat
        BY <1>1, <4>1 DEF VisitInv, ReceiptSound, VisitShape, Receipt
      <4>3. previous.inputs[c] # inputs
        BY <2>5 DEF Reuse, Judging
      <4> QED BY <4>2, <4>3
    <3> QED BY <1>1, <1>2, <1>4, <3>1, <3>2 DEF RowSound, Within, Judging, VisitShape
  <2> QED BY <2>1, <2>4, <2>5
<1> QED BY <1>1, <1>2, <1>6, <1>7, WithinSound DEF VisitShape

-----------------------------------------------------------------------------
(* Versions move on, runs begin and visits end. *)

LEMMA EditSound ==
  ASSUME VerificationAssumption, VisitInv, Edit
  PROVE  VisitInv'
<1>1. VisitShape /\ \A c \in All : RowSound(c)
  BY DEF VisitInv
<1>2. /\ tree' \in Nat /\ inputs' \in Nat /\ tree <= tree' /\ inputs <= inputs' /\ (inputs' = inputs \/ inputs < inputs')
      /\ UNCHANGED <<stage, candidate, check, alive, strays, proof, previous, claim>>
  BY <1>1 DEF Edit, VisitShape, visit, process, verdict
<1>3. VisitShape'
  BY <1>1, <1>2 DEF VisitShape
<1>4. ReceiptSound'
  <2> SUFFICES ASSUME previous # None PROVE ReceiptSound'
    BY <1>2 DEF ReceiptSound
  <2>1. previous.candidate <= candidate /\ previous \in Receipt
    BY <1>1 DEF VisitInv, ReceiptSound, VisitShape
  <2>2. ASSUME NEW c \in 1 .. Checks
        PROVE  /\ previous.inputs[c] <= inputs'
               /\ previous.inputs[c] = inputs' => inputs' = inputs
    <3>1. previous.inputs[c] <= inputs /\ previous.inputs[c] \in Nat /\ inputs \in Nat
      BY <1>1, <2>1 DEF VisitInv, ReceiptSound, VisitShape, Receipt
    <3> QED BY <1>2, <3>1
  <2> QED BY <1>2, <2>1, <2>2 DEF VisitInv, ReceiptSound, Shown
<1>5. \A c \in All : RowSound(c)'
  <2> SUFFICES ASSUME NEW c \in All PROVE RowSound(c)'
    OBVIOUS
  <2>1. RowSound(c) /\ check[c].before \in Nat /\ tree \in Nat /\ inputs \in Nat
    BY <1>1 DEF VisitShape, Row
  <2>2. check[c].before <= inputs'
    BY <1>2, <2>1 DEF RowSound
  <2>3. proof[c] \in Proof /\ proof[c].tree <= tree => proof[c].tree <= tree'
    BY <1>2, <2>1 DEF Proof
  <2> QED BY <1>2, <2>1, <2>2, <2>3 DEF RowSound, Judging
<1>6. VerifiedOnEvidence'
  BY <1>2 DEF VisitInv, VerifiedOnEvidence
<1> QED BY <1>2, <1>3, <1>4, <1>5, <1>6 DEF VisitInv

\* The last receipt, when a run begins on the code of now.
LEMMA ReceiptForward ==
  ASSUME VerificationAssumption, VisitInv, candidate' = tree', tree' \in Nat, tree <= tree', inputs' \in Nat, inputs <= inputs',
         UNCHANGED <<previous, proof>>
  PROVE  ReceiptSound'
<1> SUFFICES ASSUME previous # None PROVE ReceiptSound'
  BY DEF ReceiptSound
<1>1. /\ VisitShape /\ previous \in Receipt /\ previous.candidate \in Nat /\ candidate \in Nat /\ tree \in Nat
      /\ previous.candidate <= candidate /\ candidate <= tree
  BY DEF VisitInv, ReceiptSound, VisitShape, Receipt
<1>2. previous.candidate <= candidate' /\ (previous.candidate = candidate' => candidate' = candidate)
  BY <1>1
<1>3. ASSUME NEW c \in 1 .. Checks
      PROVE  previous.inputs[c] <= inputs' /\ (previous.inputs[c] = inputs' => inputs' = inputs)
  <2>1. previous.inputs[c] <= inputs /\ previous.inputs[c] \in Nat /\ inputs \in Nat
    BY <1>1 DEF VisitInv, ReceiptSound, VisitShape, Receipt
  <2> QED BY <2>1
<1> QED BY <1>2, <1>3 DEF VisitInv, ReceiptSound, Shown

\* A run that begins has nothing to answer for.
LEMMA FreshSound ==
  ASSUME VerificationAssumption, VisitInv, candidate' = tree', tree' \in Nat, tree <= tree', inputs' \in Nat, inputs <= inputs',
         UNCHANGED <<previous, proof>>, stage' \in {"setup", "checks", "repaired", "adopting"},
         check' = [c \in All |-> Idle], alive' = {}, strays' = strays \union alive, claim'.verified = None
  PROVE  VisitInv'
<1>1. VisitShape'
  BY IdleRow DEF VisitInv, VisitShape
<1>2. \A c \in All : check'[c] = Idle
  OBVIOUS
<1>3. \A c \in All : RowSound(c)'
  BY <1>2 DEF RowSound, Idle
<1>4. VerifiedOnEvidence'
  BY DEF VerifiedOnEvidence
<1> QED BY <1>1, <1>3, <1>4, ReceiptForward DEF VisitInv

\* A run that ended: every check of the plan has its result, or never started.
LEMMA EndedSound ==
  ASSUME VerificationAssumption, VisitInv, RunEnds
  PROVE  /\ \A c \in Plan(stage) : /\ check[c].at \in {"over", "waiting"}
                                   /\ NotRun[c] \in {"executed", "reused", "not-run"}
         /\ \A c \in All : NotRun[c] \in {"pending", "executed", "reused", "not-run", None}
<1>1. VisitShape /\ \A c \in All : RowSound(c)
  BY DEF VisitInv
<1>2. \A c \in Plan(stage) : c \in All /\ check[c].at \in {"over", "waiting"}
  BY Plans DEF RunEnds, Started, Ran
<1>3. \A c \in All : /\ c \in Plan(stage) /\ check[c].at = "waiting" => NotRun[c] = "not-run"
                     /\ ~(c \in Plan(stage) /\ check[c].at = "waiting") => NotRun[c] = check[c].evidence
  BY DEF NotRun
<1>4. \A c \in Plan(stage) : NotRun[c] \in {"executed", "reused", "not-run"}
  BY <1>1, <1>2, <1>3 DEF RowSound
<1>5. \A c \in All : NotRun[c] \in {"pending", "executed", "reused", "not-run", None}
  BY <1>1, <1>3 DEF VisitShape, Row
<1> QED BY <1>2, <1>4, <1>5

\* A visit that settles without a verified candidate.
LEMMA SettleSound ==
  ASSUME VerificationAssumption, VisitInv, NEW outcome, NEW verified, NEW evidence,
         \A c \in All : evidence[c] \in {"pending", "executed", "reused", "not-run", None},
         outcome \notin {None, "threw"} => \A c \in Plan(stage) : evidence[c] \in {"executed", "reused", "not-run"},
         Settle(outcome, verified, evidence), UNCHANGED <<inputs, proof>>,
         previous' \in Receipt \union {None}, ReceiptSound',
         verified # None =>
           /\ alive = {} /\ outcome = "pass"
           /\ \A c \in 1 .. Checks : proof[c] # None /\ proof[c].tree = verified
                                     /\ (c \in Reusable => proof[c].inputs = previous'.inputs[c])
  PROVE  VisitInv'
<1>1. VisitShape /\ UNCHANGED <<tree, inputs, candidate, alive, strays, proof>> /\ stage' = "idle"
      /\ claim' = [outcome |-> outcome, verified |-> verified, of |-> stage]
  BY DEF VisitInv, Settle
<1>2. \A c \in All : check'[c] = [Idle EXCEPT !.evidence = evidence[c]]
  BY DEF Settle
<1>3. \A c \in All : check'[c] \in Row /\ check'[c].at = "waiting" /\ check'[c].before = 0 /\ check'[c].evidence = evidence[c]
  <2> SUFFICES ASSUME NEW c \in All
               PROVE  check'[c] \in Row /\ check'[c].at = "waiting" /\ check'[c].before = 0 /\ check'[c].evidence = evidence[c]
    OBVIOUS
  <2>1. check'[c] = [at |-> "waiting", outcome |-> None, exit |-> "defect", lost |-> FALSE, before |-> 0, evidence |-> evidence[c]]
    BY <1>2 DEF Idle
  <2> QED BY <2>1 DEF Row, Outcomes, Exits
<1>4. check' \in [All -> Row]
  <2>1. check' = [c \in All |-> check'[c]]
    BY DEF Settle
  <2> QED BY <1>3, <2>1
<1>5. VisitShape'
  BY <1>1, <1>4 DEF VisitShape
<1>6. \A c \in All : RowSound(c)'
  BY <1>1, <1>3 DEF RowSound, Judging, VisitShape
<1>7. VerifiedOnEvidence'
  <2>1. claim'.verified = verified /\ claim'.outcome = outcome /\ claim'.of = stage
    BY <1>1
  <2>2. \A c \in Plan(stage) : check'[c].evidence = evidence[c]
    BY <1>3, Plans
  <2> QED BY <1>1, <2>1, <2>2 DEF VerifiedOnEvidence, Plan
<1> QED BY <1>1, <1>5, <1>6, <1>7 DEF VisitInv

\* Setups, repairs, adoptions, failures to record, and the next visit.
LEMMA TurnsSound ==
  ASSUME VerificationAssumption, VisitInv, SetupEnds \/ RepairEnvironment \/ Adopt \/ Throw \/ Visit
  PROVE  VisitInv'
<1>1. VisitShape /\ tree \in Nat /\ inputs \in Nat /\ (stage # "idle" => claim.verified = None)
  BY DEF VisitInv, VisitShape
<1>2. previous' = previous => previous' \in Receipt \union {None}
  BY <1>1 DEF VisitShape
<1>3. ASSUME NEW outcome, NEW evidence, Settle(outcome, None, evidence), UNCHANGED <<inputs, proof, previous>>,
             \A c \in All : evidence[c] \in {"pending", "executed", "reused", "not-run", None},
             outcome \notin {None, "threw"} => \A c \in Plan(stage) : evidence[c] \in {"executed", "reused", "not-run"}
      PROVE  VisitInv'
  <2>1. ReceiptSound'
    BY <1>3 DEF VisitInv, ReceiptSound, Shown, Settle
  <2> DEFINE verified == None
  <2>2. Settle(outcome, verified, evidence) /\ verified = None
    BY <1>3
  <2> HIDE DEF verified
  <2> QED BY <1>2, <1>3, <2>1, <2>2, SettleSound
<1>4. CASE SetupEnds
  <2>1. CASE Begin("checks")
    <3>1. /\ candidate' = tree' /\ tree' = tree /\ inputs' = inputs /\ UNCHANGED <<previous, proof, claim>>
          /\ stage' = "checks" /\ check' = [c \in All |-> Idle] /\ alive' = {} /\ strays' = strays \union alive /\ stage # "idle"
      BY <1>4, <2>1 DEF SetupEnds, Begin, Fresh, Settle, RunEnds
    <3> QED BY <1>1, <3>1, FreshSound
  <2>2. CASE \E outcome \in {"failed", "blocked"} : Settle(outcome, None, NotRun) /\ UNCHANGED inputs
    BY <1>3, <1>4, <2>2, EndedSound DEF SetupEnds
  <2> QED BY <1>4, <2>1, <2>2 DEF SetupEnds
<1>5. CASE RepairEnvironment
  <2>1. CASE Settle("blocked", None, NotRun) /\ UNCHANGED inputs
    BY <1>3, <1>5, <2>1, EndedSound DEF RepairEnvironment
  <2>2. CASE ~(Settle("blocked", None, NotRun) /\ UNCHANGED inputs)
    <3>1. /\ inputs' = inputs + 1 /\ tree' \in {tree, tree + 1} /\ stage' = "repaired" /\ candidate' = tree'
          /\ check' = [c \in All |-> Idle] /\ alive' = {} /\ strays' = strays \union alive /\ UNCHANGED <<claim, previous, proof>> /\ stage # "idle"
      BY <1>5, <2>2 DEF RepairEnvironment, Fresh, RunEnds
    <3>2. tree' \in Nat /\ tree <= tree' /\ inputs' \in Nat /\ inputs <= inputs'
      BY <1>1, <3>1
    <3> QED BY <1>1, <3>1, <3>2, FreshSound
  <2> QED BY <2>1, <2>2
<1>6. CASE Adopt
  <2>1. /\ candidate' = tree' /\ tree' = tree /\ inputs' = inputs /\ UNCHANGED <<previous, proof, claim>>
        /\ stage' = "adopting" /\ check' = [c \in All |-> Idle] /\ alive' = {} /\ strays' = strays \union alive /\ stage # "idle"
    BY <1>6 DEF Adopt, Begin, Fresh, RunEnds, verdict
  <2> QED BY <1>1, <2>1, FreshSound
<1>7. CASE Throw
  <2> DEFINE evidence == [c \in All |-> check[c].evidence]
  <2>1. \A c \in All : evidence[c] \in {"pending", "executed", "reused", "not-run", None}
    BY <1>1 DEF VisitShape, Row
  <2>2. Settle("threw", None, evidence) /\ UNCHANGED <<inputs, proof, previous>>
    BY <1>7 DEF Throw
  <2> HIDE DEF evidence
  <2> QED BY <1>3, <2>1, <2>2
<1>8. CASE Visit
  <2>1. /\ candidate' = tree' /\ tree' = tree /\ inputs' = inputs /\ UNCHANGED <<previous, proof>>
        /\ stage' \in {"setup", "checks"} /\ check' = [c \in All |-> Idle] /\ alive' = {} /\ strays' = strays \union alive /\ claim'.verified = None
    BY <1>8 DEF Visit, Begin, Fresh
  <2> QED BY <1>1, <2>1, FreshSound
<1> QED BY <1>4, <1>5, <1>6, <1>7, <1>8

\* The verdict: a valid run has shown every check on the candidate it names.
LEMMA JudgeSound ==
  ASSUME VerificationAssumption, VisitInv, Judge
  PROVE  VisitInv'
<1>1. VisitShape /\ Judging /\ Plan(stage) = 1 .. Checks /\ 1 .. Checks \subseteq All /\ RunEnds
  <2>1. Judging /\ VisitShape /\ RunEnds
    BY DEF VisitInv, VisitShape, Judge, RunEnds, Judging
  <2> QED BY <2>1, Plans
<1>2. Valid => \A c \in 1 .. Checks : check[c].at = "over" /\ check[c].exit = "ok" /\ ~check[c].lost
  BY <1>1 DEF Valid, Green, Ran, Bad
<1>3. Valid => alive = {}
  <2> SUFFICES ASSUME Valid, NEW c \in alive PROVE FALSE
    OBVIOUS
  <2>1. c \in All /\ RowSound(c) /\ stage # "idle"
    BY <1>1 DEF VisitInv, VisitShape, Judging
  <2>2. c \in 1 .. Checks
    BY <1>1, <2>1 DEF RowSound
  <2> QED BY <1>2, <2>1, <2>2 DEF RowSound
<1>4. Valid => \A c \in 1 .. Checks :
        /\ proof[c] \in Proof /\ proof[c].tree = candidate /\ (c \in Reusable => proof[c].inputs = check[c].before)
        /\ check[c].before <= inputs /\ check[c].before \in Nat
  <2> SUFFICES ASSUME Valid, NEW c \in 1 .. Checks
               PROVE  /\ proof[c] \in Proof /\ proof[c].tree = candidate /\ (c \in Reusable => proof[c].inputs = check[c].before)
                      /\ check[c].before <= inputs /\ check[c].before \in Nat
    OBVIOUS
  <2>1. c \in All /\ RowSound(c) /\ tree = candidate
    BY <1>1 DEF VisitInv, Valid
  <2>2. proof[c] \in Proof /\ candidate <= proof[c].tree /\ proof[c].tree <= tree /\ (c \in Reusable => proof[c].inputs = check[c].before)
    BY <1>1, <1>2, <2>1 DEF RowSound
  <2>3. proof[c].tree \in Nat /\ candidate \in Nat
    BY <1>1, <2>2 DEF Proof, VisitShape
  <2>4. check[c].before \in Nat /\ check[c].before <= inputs
    BY <1>1, <2>1 DEF VisitShape, Row, RowSound
  <2> QED BY <2>1, <2>2, <2>3, <2>4
<1> DEFINE receipt == [candidate |-> candidate, inputs |-> [c \in 1 .. Checks |-> check[c].before]]
<1>5. /\ receipt.candidate = candidate /\ (Valid => receipt \in Receipt)
      /\ \A c \in 1 .. Checks : receipt.inputs[c] = check[c].before
  BY <1>1, <1>4 DEF Receipt, VisitShape
<1>6. /\ Valid => previous' = receipt
      /\ ~Valid => previous' = previous
      /\ UNCHANGED <<inputs, proof, tree, candidate>>
  BY DEF Judge, Settle
<1> HIDE DEF receipt
<1>7. previous' \in Receipt \union {None}
  BY <1>1, <1>5, <1>6 DEF VisitShape
<1>8. ReceiptSound'
  <2>1. CASE Valid
    <3>1. candidate <= candidate
      BY <1>1 DEF VisitShape
    <3> QED BY <1>4, <1>5, <1>6, <2>1, <3>1 DEF ReceiptSound, Shown
  <2>2. CASE ~Valid
    BY <1>6, <2>2 DEF VisitInv, ReceiptSound, Shown
  <2> QED BY <2>1, <2>2
<1> DEFINE verified == IF Valid THEN candidate ELSE None
<1>9. PICK outcome : Settle(outcome, verified, NotRun) /\ (Valid => outcome = "pass")
  <2>1. Valid => ~SelfMutationOnly /\ ~Host /\ ~Infrastructure
    BY DEF Valid, Green, SelfMutationOnly, Host, Infrastructure
  <2> QED BY <2>1 DEF Judge
<1>10. verified # None => Valid /\ verified = candidate
  OBVIOUS
<1> HIDE DEF verified
<1>11. verified # None =>
           /\ alive = {} /\ outcome = "pass"
           /\ \A c \in 1 .. Checks : proof[c] # None /\ proof[c].tree = verified
                                     /\ (c \in Reusable => proof[c].inputs = previous'.inputs[c])
  BY <1>3, <1>4, <1>5, <1>6, <1>9, <1>10 DEF VerificationAssumption
<1> QED BY <1>1, <1>6, <1>7, <1>8, <1>9, <1>11, EndedSound, SettleSound

-----------------------------------------------------------------------------
LEMMA VisitNext == VerificationAssumption /\ VisitInv /\ [Next]_vars => VisitInv'
<1> SUFFICES ASSUME VerificationAssumption, VisitInv, [Next]_vars PROVE VisitInv'
  OBVIOUS
<1>1. CASE UNCHANGED vars
  BY <1>1 DEF vars, visit, process, verdict, VisitInv, VisitShape, ReceiptSound, Shown, RowSound, Judging, VerifiedOnEvidence
<1>2. CASE \E i \in All : StartWave(i)
  BY <1>2, StartWaveSound
<1>3. CASE Cancel \/ DeadlinePasses \/ \E c \in All : Spawn(c) \/ Limit(c)
  BY <1>3, MovesSound
<1>4. CASE \E c \in All : NotSpawned(c) \/ (\E recorded \in BOOLEAN : GiveUp(c, recorded)) \/ StrayExits(c)
  BY <1>4, EndsSound, StraySound
<1>5. CASE \E c \in All, exit \in Exits \union {"killed"}, recorded \in BOOLEAN : Exit(c, exit, recorded)
  BY <1>5, ExitSound
<1>6. CASE Edit
  BY <1>6, EditSound
<1>7. CASE SetupEnds \/ RepairEnvironment \/ Adopt \/ Throw \/ Visit
  BY <1>7, TurnsSound
<1>8. CASE Judge
  BY <1>8, JudgeSound
<1> QED BY <1>1, <1>2, <1>3, <1>4, <1>5, <1>6, <1>7, <1>8 DEF Next

-----------------------------------------------------------------------------
(* The types, within the bounds of the run. *)

\* A visit ends once, and repairs the environment once.
Ended == IF stage = "idle" THEN visits ELSE visits - 1
Moved == faults + (IF stage \in {"setup", "checks"} THEN visits - 1 ELSE visits)

VisitTyped ==
  /\ visits \in Nat /\ faults \in Nat /\ visits + faults <= MaxEvents
  /\ stage # "idle" => visits >= 1
  /\ progress.count \in Nat /\ progress.count <= Ended
  /\ tree <= Moved /\ inputs <= Moved
  /\ claim.verified # None => claim.verified \in Nat /\ claim.verified <= tree

LEMMA TypedInit == MaxEvents \in Nat /\ Init => VisitTyped
BY DEF Init, VisitTyped, Ended, Moved

\* A step within a run, or one that fails.
LEMMA WithinTyped ==
  ASSUME MaxEvents \in Nat, VisitShape, VisitTyped, UNCHANGED <<stage, visits, progress, claim>>,
         faults' = faults \/ Fault, tree' \in Nat, inputs' \in Nat,
         \/ UNCHANGED <<tree, inputs>>
         \/ Fault /\ tree <= tree' /\ tree' <= tree + 1 /\ inputs' <= inputs + 1
  PROVE  VisitTyped'
BY DEF VisitShape, VisitTyped, Fault, Ended, Moved

LEMMA SettleTyped ==
  ASSUME MaxEvents \in Nat, VisitShape, VisitTyped, stage # "idle",
         NEW outcome, NEW verified, NEW evidence, Settle(outcome, verified, evidence),
         verified = None \/ (verified \in Nat /\ verified <= tree),
         faults' = faults \/ Fault, UNCHANGED inputs,
         progress' = progress \/ progress' = [fingerprint |-> Fingerprint, count |-> Times]
  PROVE  VisitTyped'
<1>1. stage' = "idle" /\ UNCHANGED <<tree, visits>> /\ claim'.verified = verified
  BY DEF Settle
<1>2. visits \in Nat /\ faults \in Nat /\ visits >= 1 /\ progress.count \in Nat /\ progress.count <= visits - 1
  BY DEF VisitTyped, Ended
<1>3. faults' \in Nat /\ visits + faults' <= MaxEvents /\ faults <= faults'
  BY <1>2 DEF VisitTyped, Fault
<1>4. Times \in Nat /\ Times <= visits
  BY <1>2 DEF Times
<1>5. progress'.count \in Nat /\ progress'.count <= visits
  BY <1>2, <1>4
<1>6. Ended' = visits /\ Moved' = faults' + visits
  BY <1>1 DEF Ended, Moved
<1>7. tree <= Moved' /\ inputs <= Moved'
  BY <1>2, <1>3, <1>6 DEF VisitTyped, Moved, VisitShape
<1> QED BY <1>1, <1>2, <1>3, <1>5, <1>6, <1>7 DEF VisitTyped

LEMMA TypedNext ==
  ASSUME MaxEvents \in Nat, VisitInv, VisitInv', VisitTyped, [Next]_vars
  PROVE  VisitTyped'
<1>1. VisitShape /\ tree' \in Nat /\ inputs' \in Nat /\ candidate \in Nat /\ candidate <= tree
  BY DEF VisitInv, VisitShape
<1>2. CASE \/ \E i \in All : StartWave(i)
           \/ \E c \in All :
                \/ Spawn(c) \/ NotSpawned(c) \/ Limit(c) \/ StrayExits(c)
                \/ \E recorded \in BOOLEAN : GiveUp(c, recorded)
                \/ \E exit \in Exits \union {"killed"}, recorded \in BOOLEAN : Exit(c, exit, recorded)
           \/ Cancel \/ DeadlinePasses \/ UNCHANGED vars
  <2>1. UNCHANGED <<tree, inputs, stage, visits, progress, claim>> /\ (faults' = faults \/ Fault)
    BY <1>2 DEF StartWave, Spawn, NotSpawned, Limit, StrayExits, GiveUp, Exit, Cancel, DeadlinePasses, vars, visit, verdict
  <2> QED BY <1>1, <2>1, WithinTyped
<1>3. CASE Edit
  <2>1. /\ UNCHANGED <<stage, visits, progress, claim>> /\ Fault
        /\ tree <= tree' /\ tree' <= tree + 1 /\ inputs' <= inputs + 1
    BY <1>1, <1>3 DEF Edit, visit, verdict, VisitShape
  <2> QED BY <1>1, <2>1, WithinTyped
<1>4. CASE SetupEnds
  <2>1. /\ stage = "setup" /\ UNCHANGED <<inputs, faults, progress>>
        /\ \/ \E outcome \in {"failed", "blocked"} : Settle(outcome, None, NotRun)
           \/ stage' = "checks" /\ UNCHANGED <<tree, visits, claim>>
    BY <1>4 DEF SetupEnds, Begin
  <2>2. CASE \E outcome \in {"failed", "blocked"} : Settle(outcome, None, NotRun)
    BY <1>1, <2>1, <2>2, SettleTyped
  <2>3. CASE stage' = "checks" /\ UNCHANGED <<tree, visits, claim>>
    BY <1>1, <2>1, <2>3 DEF VisitTyped, Ended, Moved
  <2> QED BY <2>1, <2>2, <2>3
<1>5. CASE RepairEnvironment
  <2>1. stage = "checks" /\ UNCHANGED faults
    BY <1>5 DEF RepairEnvironment, Repairs
  <2>2. CASE Settle("blocked", None, NotRun) /\ UNCHANGED inputs /\ progress' = [fingerprint |-> Fingerprint, count |-> Times]
    BY <1>1, <2>1, <2>2, SettleTyped
  <2>3. CASE inputs' = inputs + 1 /\ tree' \in {tree, tree + 1} /\ stage' = "repaired" /\ UNCHANGED <<visits, claim, progress>>
    BY <1>1, <2>1, <2>3 DEF VisitShape, VisitTyped, Ended, Moved
  <2> QED BY <1>5, <2>2, <2>3 DEF RepairEnvironment
<1>6. CASE Adopt
  <2>1. stage \in {"checks", "repaired"} /\ stage' = "adopting" /\ UNCHANGED <<tree, inputs, visits, progress, claim, faults>>
    BY <1>6 DEF Adopt, Adoptable, Begin, verdict
  <2> QED BY <1>1, <2>1 DEF VisitShape, VisitTyped, Ended, Moved
<1>7. CASE Judge
  <2>1. /\ stage # "idle" /\ UNCHANGED <<inputs, faults>> /\ progress' = [fingerprint |-> Fingerprint, count |-> Times]
        /\ \E outcome : Settle(outcome, IF Valid THEN candidate ELSE None, NotRun)
    BY <1>7 DEF Judge, RunEnds
  <2> QED BY <1>1, <2>1, SettleTyped
<1>8. CASE Throw
  <2>1. /\ stage # "idle" /\ UNCHANGED <<inputs, progress>> /\ (faults' = faults \/ Fault)
        /\ Settle("threw", None, [c \in All |-> check[c].evidence])
    BY <1>8 DEF Throw
  <2> QED BY <1>1, <2>1, SettleTyped
<1>9. CASE Visit
  <2>1. /\ stage = "idle" /\ visits + faults < MaxEvents /\ visits' = visits + 1 /\ stage' \in {"setup", "checks"}
        /\ claim'.verified = None /\ UNCHANGED <<tree, inputs, progress, faults>>
    BY <1>9 DEF Visit, Begin
  <2> QED BY <1>1, <2>1 DEF VisitShape, VisitTyped, Ended, Moved
<1> QED BY <1>2, <1>3, <1>4, <1>5, <1>6, <1>7, <1>8, <1>9 DEF Next

\* Within the bounds of the run everything keeps its type.
LEMMA VisitTypes == MaxEvents \in Nat /\ VisitInv /\ VisitTyped => VerificationTypeOK
<1> SUFFICES ASSUME MaxEvents \in Nat, VisitInv, VisitTyped PROVE VerificationTypeOK
  OBVIOUS
<1>1. /\ visits \in Nat /\ faults \in Nat /\ visits + faults <= MaxEvents
      /\ tree \in Nat /\ inputs \in Nat /\ candidate \in Nat /\ candidate <= tree
      /\ tree <= MaxEvents /\ inputs <= MaxEvents /\ progress.count \in 0 .. MaxEvents
  BY DEF VisitInv, VisitShape, VisitTyped, Ended, Moved
<1>2. \A n \in Nat : n <= tree \/ n <= inputs => n \in Version
  BY <1>1 DEF Version
<1>3. previous # None => previous.candidate \in Version
  BY <1>1, <1>2 DEF VisitInv, VisitShape, ReceiptSound, Receipt
<1>4. \A c \in All : check[c] \in Row /\ check[c].before \in Version
  BY <1>2 DEF VisitInv, VisitShape, RowSound, Row
<1>5. claim.verified \in Version \union {None}
  BY <1>2 DEF VisitTyped
<1>6. check \in [All -> [at : {"waiting", "asked", "running", "stopping", "over", "threw"},
                         outcome : Outcomes, exit : Exits, lost : BOOLEAN, before : Version,
                         evidence : {"pending", "executed", "reused", "not-run", None}]]
  <2>1. check = [c \in All |-> check[c]]
    BY DEF VisitInv, VisitShape
  <2> QED BY <1>4, <2>1 DEF Row
<1> QED BY <1>1, <1>2, <1>3, <1>5, <1>6 DEF VisitInv, VisitShape, VerificationTypeOK

\* What the verify node calls verified, the last process of every check passed on, with the
\* declared inputs the receipt names, for any plan and any interleaving of processes, edits,
\* cancellations, limits and kills (pipeline-state.ts executeVerification, verify.ts execute).
THEOREM VerifiedIsShown == VerificationAssumption => (Spec => []VerifiedOnEvidence)
<1> SUFFICES ASSUME VerificationAssumption PROVE Spec => []VerifiedOnEvidence
  OBVIOUS
<1>1. Init => VisitInv
  BY VisitInit
<1>2. VisitInv /\ [Next]_vars => VisitInv'
  BY VisitNext
<1>3. VisitInv => VerifiedOnEvidence
  BY DEF VisitInv
<1> QED BY <1>1, <1>2, <1>3, PTL DEF Spec

=============================================================================
