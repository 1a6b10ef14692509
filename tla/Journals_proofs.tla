---------------------------- MODULE Journals_proofs ----------------------------
(***************************************************************************)
(* Proofs of the journals and of their composition:                        *)
(*   - the lease of a run, for every number of executions, every TTL and   *)
(*     every schedule of clock, heartbeats, crashes and takeovers;         *)
(*   - the pipeline journal, for any verifiers, checks, plans and edits;   *)
(*   - the owner locks: two processes never hold one at once, whichever of *)
(*     the three protocols it follows and however many processes contend;  *)
(*   - the composition that the run checks: every step belongs to one      *)
(*     component and leaves the variables of the others alone, so what     *)
(*     SessionHost_proofs and the rest prove holds there too.              *)
(***************************************************************************)
EXTENDS MCJournals, SequenceTheorems, FiniteSetTheorems, WellFoundedInduction, TLAPS

-----------------------------------------------------------------------------
(* The lease of a run. EpochsFence is inductive next to the type invariant;
   the bound on the active time also needs that no row means no open interval
   (otherwise idle time would be charged) and that an open interval began in
   the past. *)

LeaseInv ==
  /\ TypeOK
  /\ EpochsFence
  /\ lastCommit <= leaseEpoch
  /\ lease = NoRow => activeStartedAt = NoRow
  /\ activeStartedAt # NoRow => activeStartedAt <= now
  /\ ActiveTimeBounded

\* The open active time is a duration.
LEMMA OpenActiveNat == ASSUME TypeOK PROVE OpenActive \in Nat
  BY DEF TypeOK, OpenActive, Least, Row

LEMMA LeaseInitInv == Init => LeaseInv
  BY RunLeaseAssumption DEF Init, LeaseInv, TypeOK, EpochsFence, ActiveTimeBounded, OpenActive

\* Types are kept by every step.
LEMMA LeaseTypeStep == TypeOK /\ [Next]_vars => TypeOK'
<1> SUFFICES ASSUME TypeOK, [Next]_vars PROVE TypeOK'
  OBVIOUS
<1>0. OpenActive \in Nat
  BY OpenActiveNat
<1> USE RunLeaseAssumption DEF TypeOK, Row
<1>1. CASE Tick
  BY <1>1 DEF Tick
<1>2. ASSUME NEW o \in Owner, OwnerStep(o) PROVE TypeOK'
  <2>1. CASE Acquire(o)
    BY <1>0, <2>1 DEF Acquire
  <2>2. CASE Renew(o)
    BY <2>2 DEF Renew, Asserted
  <2>3. CASE HeartbeatLost(o)
    BY <2>3 DEF HeartbeatLost
  <2>4. CASE Release(o)
    BY <1>0, <2>4 DEF Release
  <2>5. CASE FencedCommit(o)
    BY <2>5 DEF FencedCommit
  <2>6. CASE StopActive(o)
    BY <1>0, <2>6 DEF StopActive
  <2>7. CASE StartActive(o)
    BY <2>7 DEF StartActive
  <2>8. CASE Crash(o)
    BY <2>8 DEF Crash
  <2> QED
    BY <1>2, <2>1, <2>2, <2>3, <2>4, <2>5, <2>6, <2>7, <2>8 DEF OwnerStep
<1>3. CASE UNCHANGED vars
  BY <1>3 DEF vars
<1> QED
  BY <1>1, <1>2, <1>3 DEF Next

\* The fencing conjuncts are kept by every step.
LEMMA FenceStep ==
  TypeOK /\ EpochsFence /\ lastCommit <= leaseEpoch /\ [Next]_vars
    => EpochsFence' /\ lastCommit' <= leaseEpoch'
<1> SUFFICES ASSUME TypeOK, EpochsFence, lastCommit <= leaseEpoch, [Next]_vars
             PROVE EpochsFence' /\ lastCommit' <= leaseEpoch'
  OBVIOUS
<1> USE DEF TypeOK, Row, EpochsFence
<1>1. CASE Tick
  BY <1>1 DEF Tick
<1>2. ASSUME NEW o \in Owner, OwnerStep(o)
      PROVE EpochsFence' /\ lastCommit' <= leaseEpoch'
  <2>1. CASE Acquire(o)
    BY <2>1 DEF Acquire
  <2>2. CASE Renew(o)
    BY <2>2 DEF Renew, Asserted
  <2>3. CASE HeartbeatLost(o)
    BY <2>3 DEF HeartbeatLost
  <2>4. CASE Release(o)
    BY <2>4 DEF Release
  <2>5. CASE FencedCommit(o)
    BY <2>5 DEF FencedCommit
  <2>6. CASE StopActive(o)
    BY <2>6 DEF StopActive
  <2>7. CASE StartActive(o)
    BY <2>7 DEF StartActive
  <2>8. CASE Crash(o)
    BY <2>8 DEF Crash
  <2> QED
    BY <1>2, <2>1, <2>2, <2>3, <2>4, <2>5, <2>6, <2>7, <2>8 DEF OwnerStep
<1>3. CASE UNCHANGED vars
  BY <1>3 DEF vars
<1> QED
  BY <1>1, <1>2, <1>3 DEF Next

ActiveInv ==
  /\ lease = NoRow => activeStartedAt = NoRow
  /\ activeStartedAt # NoRow => activeStartedAt <= now
  /\ ActiveTimeBounded

\* The accounting conjuncts are kept by every step.
LEMMA ActiveStep == TypeOK /\ ActiveInv /\ [Next]_vars => ActiveInv'
<1> SUFFICES ASSUME TypeOK, ActiveInv, [Next]_vars PROVE ActiveInv'
  OBVIOUS
<1> USE RunLeaseAssumption, NoRowAssumption
        DEF TypeOK, Row, ActiveInv, ActiveTimeBounded, OpenActive, Least
<1>1. CASE Tick
  <2>1. lease # NoRow => lease.owner # NoRow
    OBVIOUS
  <2>2. (lease = NoRow => activeStartedAt = NoRow)' /\ (activeStartedAt # NoRow => activeStartedAt <= now)'
    BY <1>1 DEF Tick
  <2>3. CASE lease = NoRow
    BY <1>1, <2>3 DEF Tick, Holder
  <2>4. CASE lease # NoRow /\ lease.expiresAt > now
    <3>1. heldMs' = heldMs + 1
      BY <1>1, <2>1, <2>4 DEF Tick, Holder
    <3>2. OpenActive' <= OpenActive + 1
      BY <1>1, <2>4 DEF Tick
    <3> QED
      BY <1>1, <2>2, <3>1, <3>2, OpenActiveNat DEF Tick
  <2>5. CASE lease # NoRow /\ ~(lease.expiresAt > now)
    BY <1>1, <2>2, <2>5 DEF Tick, Holder
  <2> QED
    BY <2>3, <2>4, <2>5
<1>2. ASSUME NEW o \in Owner, OwnerStep(o) PROVE ActiveInv'
  <2>1. CASE Acquire(o)
    <3>1. lease' \in Row
      BY <2>1 DEF Acquire
    <3>2. lease' # NoRow
      BY <3>1
    <3>3. activeStartedAt' = now /\ now' = now
      BY <2>1 DEF Acquire
    <3>4. OpenActive' = 0
      BY <3>2, <3>3, <2>1 DEF Acquire
    <3> QED
      BY <2>1, <3>2, <3>3, <3>4 DEF Acquire
  <2>2. CASE Renew(o)
    <3>1. lease' \in Row /\ lease' # NoRow
      BY <2>2 DEF Renew, Asserted
    <3>2. OpenActive' = OpenActive
      BY <2>2, <3>1 DEF Renew, Asserted
    <3> QED
      BY <2>2, <3>1, <3>2 DEF Renew
  <2>3. CASE HeartbeatLost(o)
    BY <2>3 DEF HeartbeatLost
  <2>4. CASE Release(o)
    BY <2>4 DEF Release
  <2>5. CASE FencedCommit(o)
    BY <2>5 DEF FencedCommit
  <2>6. CASE StopActive(o)
    BY <2>6 DEF StopActive, Asserted
  <2>7. CASE StartActive(o)
    BY <2>7 DEF StartActive, Asserted
  <2>8. CASE Crash(o)
    BY <2>8 DEF Crash
  <2> QED
    BY <1>2, <2>1, <2>2, <2>3, <2>4, <2>5, <2>6, <2>7, <2>8 DEF OwnerStep
<1>3. CASE UNCHANGED vars
  BY <1>3 DEF vars
<1> QED
  BY <1>1, <1>2, <1>3 DEF Next

LEMMA LeaseNext == LeaseInv /\ [Next]_vars => LeaseInv'
BY LeaseTypeStep, FenceStep, ActiveStep DEF LeaseInv, ActiveInv

THEOREM LeaseInvariant == Spec => []LeaseInv
BY LeaseInitInv, LeaseNext, PTL DEF Spec

\* At most one process passes RunLease.assert, for any number of processes.
THEOREM LeaseFenced == Spec => []EpochsFence
<1>1. LeaseInv => EpochsFence
  BY DEF LeaseInv
<1> QED
  BY LeaseInvariant, <1>1, PTL

\* The active duration of a run is bounded by the time it was leased, for
\* every TTL and every schedule of crashes and takeovers.
THEOREM ActiveDurationSound == Spec => []ActiveTimeBounded
<1>1. LeaseInv => ActiveTimeBounded
  BY DEF LeaseInv
<1> QED
  BY LeaseInvariant, <1>1, PTL

\* No mutation of an older tenure commits after one of a newer tenure.
THEOREM LateEffectsNeverCommit == Spec => CommitsFollowEpochs
<1>1. LeaseInv /\ [Next]_vars => lastCommit' >= lastCommit \/ UNCHANGED vars
  <2> SUFFICES ASSUME LeaseInv, [Next]_vars PROVE lastCommit' >= lastCommit
    OBVIOUS
  <2> USE DEF LeaseInv, TypeOK, EpochsFence
  <2>1. ASSUME NEW o \in Owner, Asserted(o), lastCommit' = token[o] PROVE lastCommit' >= lastCommit
    BY <2>1 DEF Asserted
  <2>2. CASE lastCommit' = lastCommit
    BY <2>2
  <2> QED
    BY <2>1, <2>2 DEF Next, OwnerStep, Tick, Acquire, Renew, HeartbeatLost, Release,
       FencedCommit, StopActive, StartActive, Crash, vars
<1> QED
  BY LeaseInvariant, <1>1, PTL DEF Spec, CommitsFollowEpochs

\* A live tenure is ended only by its own owner or by the clock.
THEOREM TenureUndisturbed == Spec => LiveTenureUndisturbed
<1> DEFINE Undisturbed ==
      Holder # NoRow /\ Holder' # Holder
        => now' > now \/ \E o \in Owner : o = Holder /\ token[o] # 0 /\ token'[o] = 0
<1>1. LeaseInv /\ [Next]_vars => Undisturbed
  <2> SUFFICES ASSUME LeaseInv, [Next]_vars, now' = now, Holder # NoRow, Holder' # Holder
               PROVE \E o \in Owner : o = Holder /\ token[o] # 0 /\ token'[o] = 0
    BY DEF Next, OwnerStep, Tick, Acquire, Renew, HeartbeatLost, Release,
       FencedCommit, StopActive, StartActive, Crash, vars, LeaseInv, TypeOK
  <2> USE RunLeaseAssumption, NoRowAssumption DEF LeaseInv, TypeOK, Row, EpochsFence, Holder
  <2>1. PICK o \in Owner : OwnerStep(o)
    BY DEF Next, Tick, vars
  <2>2. CASE Acquire(o)
    BY <2>2 DEF Acquire, Free
  <2>3. CASE Renew(o)
    <3>1. lease' \in Row /\ lease' # NoRow
      BY <2>3 DEF Renew, Asserted
    <3> QED
      BY <2>3, <3>1 DEF Renew, Asserted
  <2>4. CASE Release(o)
    BY <2>4 DEF Release
  <2> QED
    BY <2>1, <2>2, <2>3, <2>4
       DEF OwnerStep, HeartbeatLost, FencedCommit, StopActive, StartActive, Crash
<1> QED
  BY LeaseInvariant, <1>1, PTL DEF Spec, LiveTenureUndisturbed

\* Rows, clock and heartbeat implement the fenced lease the engine relies on.
THEOREM LeaseRefinement == Spec => ImplementsFencedLease
<1>1. Init => Fenced!FencedInit
  BY DEF Init, Fenced!FencedInit, Holder
<1>2. LeaseInv /\ [Next]_vars => [Fenced!FencedNext]_(Fenced!leaseVars)
  <2> SUFFICES ASSUME LeaseInv, [Next]_vars
               PROVE Fenced!FencedNext \/ UNCHANGED <<Holder, leaseEpoch, lastCommit>>
    BY DEF Fenced!leaseVars
  <2> USE RunLeaseAssumption, NoRowAssumption DEF LeaseInv, TypeOK, Row, EpochsFence, Holder
  <2>1. CASE Tick
    BY <2>1 DEF Tick, Fenced!FencedNext, Fenced!Drop
  <2>2. ASSUME NEW o \in Owner, OwnerStep(o)
        PROVE Fenced!FencedNext \/ UNCHANGED <<Holder, leaseEpoch, lastCommit>>
    <3>1. CASE Acquire(o)
      <4>1. lease' \in Row /\ lease' # NoRow
        BY <3>1 DEF Acquire
      <4>2. Holder' = o
        BY <3>1, <4>1 DEF Acquire
      <4>3. Holder = NoRow
        BY <3>1 DEF Acquire, Free
      <4> QED
        BY <3>1, <4>2, <4>3 DEF Acquire, Fenced!FencedNext, Fenced!Take
    <3>2. CASE Renew(o)
      <4>1. lease' \in Row /\ lease' # NoRow
        BY <3>2 DEF Renew, Asserted
      <4> QED
        BY <3>2, <4>1 DEF Renew, Asserted
    <3>3. CASE HeartbeatLost(o)
      BY <3>3 DEF HeartbeatLost
    <3>4. CASE Release(o)
      BY <3>4 DEF Release, Fenced!FencedNext, Fenced!Drop
    <3>5. ASSUME Asserted(o), lastCommit' = token[o], UNCHANGED <<now, lease, leaseEpoch>>
          PROVE Fenced!FencedNext
      BY <3>5 DEF Asserted, Fenced!FencedNext, Fenced!Commit
    <3>6. CASE Crash(o)
      BY <3>6 DEF Crash
    <3> QED
      BY <2>2, <3>1, <3>2, <3>3, <3>4, <3>5, <3>6
         DEF OwnerStep, FencedCommit, StopActive, StartActive
  <2>3. CASE UNCHANGED vars
    BY <2>3 DEF vars
  <2> QED
    BY <2>1, <2>2, <2>3 DEF Next
<1> QED
  BY LeaseInvariant, <1>1, <1>2, PTL DEF Spec, ImplementsFencedLease, Fenced!FencedSpec

-----------------------------------------------------------------------------
(* The pipeline journal: a valid receipt passed, what is archived was verified
   and accepted, and a resume goes on only behind what holds now. *)

\* A full receipt passed every check of its plan, unless a plan was bound since.
Passes(r, done, here) == r.kind = "full" /\ (r.plan = None => here = None) => \A c \in Command : <<r.plan, r.candidate, c>> \in done

HeldPasses == verification \notin {None, Invalid} => Passes(verification, passed, plan)

\* What was measured is not ahead of the repositories, which never go back under a verification
\* that is current: each check that is done passed on what was measured, if that still stands.
Past(c, here) == c[1] <= here[1] /\ c[2] <= here[2]

RunsSound ==
  \A v \in Verifier : Working(v) =>
    /\ run[v].previous \notin {None, Invalid} => Passes(run[v].previous, passed, plan)
    /\ Past(run[v].candidate, Cand)
    /\ run[v].measured => run[v].left = {}
    /\ run[v].kind = "full" /\ IsCurrent(v) =>
         \A c \in Command \ run[v].left : <<plan, run[v].candidate, c>> \in passed

\* A report that is held was accepted, and an approval rests on such a report and on a receipt.
ReportAccepted == acceptance # None => <<acceptance.plan, acceptance.candidate, acceptance.artifact>> \in accepted
ApprovalGrounded ==
  approval # None =>
    /\ \A c \in Command : <<plan, approval.candidate, c>> \in passed
    /\ <<plan, approval.candidate, approval.artifact>> \in accepted

JournalInv ==
  PipelineTypeOK /\ HeldPasses /\ RunsSound /\ ReportAccepted /\ ApprovalGrounded /\ ArchivedIsReviewed

-----------------------------------------------------------------------------
(* Lemmas. *)

\* What is measured is a candidate and an artifact.
LEMMA Measured ==
  ASSUME PipelineTypeOK
  PROVE  /\ Cand \in Candidates /\ Art \in Artifacts
         /\ candidate \in Nat /\ artifact \in Nat /\ artifact # 0
         /\ Cand[1] = candidate /\ Cand[2] \in {0, artifact} /\ Cand[2] \in Nat
         /\ <<candidate, 0>> \in Candidates /\ artifact \in Artifacts
BY JournalAssumption DEF PipelineTypeOK, Cand, Art, Candidates, Artifacts, Contents

\* A receipt that is valid passed.
LEMMA ValidPassed ==
  ASSUME JournalInv, ReceiptValid
  PROVE  \A c \in Command : <<plan, Cand, c>> \in passed
<1>1. verification \in Receipt
  BY Measured DEF JournalInv, PipelineTypeOK, ReceiptValid, Receipt
<1>2. verification \notin {None, Invalid}
  BY <1>1, JournalAssumption
<1>3. verification.kind = "full" /\ verification.candidate = Cand /\ verification.plan = plan
  BY DEF ReceiptValid
<1> QED
  BY <1>2, <1>3 DEF JournalInv, HeldPasses, Passes

\* A report that is valid was accepted.
LEMMA ValidAccepted ==
  ASSUME JournalInv, AcceptanceValid
  PROVE  acceptance \in Report /\ <<plan, Cand, Art>> \in accepted
<1>1. acceptance \in Report
  BY Measured DEF JournalInv, PipelineTypeOK, AcceptanceValid, Report
<1>2. acceptance # None
  BY <1>1, JournalAssumption
<1>3. acceptance.candidate = Cand /\ acceptance.artifact = Art /\ acceptance.plan = plan
  BY DEF AcceptanceValid
<1> QED
  BY <1>1, <1>2, <1>3 DEF JournalInv, ReportAccepted

\* No verification works behind a save.
LEMMA SavedStops ==
  ASSUME Saved
  PROVE  /\ run' \in [Verifier -> Verification \union {None, Lost}]
         /\ \A v \in Verifier : run'[v] \in {None, Lost}
BY DEF Saved

\* A save that keeps the receipt, the reports and the approval is sound if its phases are.
LEMMA SavedSound ==
  ASSUME JournalInv, Saved, UNCHANGED <<candidate, artifact, moved, plan, verification, acceptance, passed, accepted>>,
         approval' \in {approval, None},
         phase' \in [Phases -> [candidate : Candidates, artifact : Artifacts] \union {None}],
         archived' \in BOOLEAN, preview' \in Candidates \union {None},
         ArchivedIsReviewed'
  PROVE  JournalInv'
<1>1. /\ run' \in [Verifier -> Verification \union {None, Lost}]
      /\ \A v \in Verifier : run'[v] \in {None, Lost}
  BY SavedStops DEF JournalInv, PipelineTypeOK
<1>2. PipelineTypeOK'
  BY <1>1 DEF JournalInv, PipelineTypeOK
<1>3. HeldPasses' /\ ReportAccepted'
  BY DEF JournalInv, HeldPasses, Passes, ReportAccepted
<1>4. RunsSound'
  BY <1>1 DEF RunsSound, Working
<1>5. ApprovalGrounded'
  BY DEF JournalInv, ApprovalGrounded
<1> QED
  BY <1>2, <1>3, <1>4, <1>5 DEF JournalInv

\* A step of a verification, or of an agent, that keeps what the journal holds.
LEMMA JournalKept ==
  ASSUME JournalInv, UNCHANGED <<moved, phase, plan, verification, acceptance, approval, archived, accepted>>,
         passed \subseteq passed'
  PROVE  HeldPasses' /\ ReportAccepted' /\ ApprovalGrounded' /\ ArchivedIsReviewed'
BY DEF JournalInv, HeldPasses, Passes, ReportAccepted, ApprovalGrounded, ArchivedIsReviewed, Done

\* The initial state satisfies the invariant.
LEMMA JournalInit == PipelineInit => JournalInv
<1> SUFFICES ASSUME PipelineInit PROVE JournalInv
  OBVIOUS
<1>1. PipelineTypeOK
  <2>1. candidate \in Contents /\ artifact \in Contents
    BY JournalAssumption DEF PipelineInit, Contents
  <2>2. phase \in [Phases -> [candidate : Candidates, artifact : Artifacts] \union {None}]
    BY DEF PipelineInit
  <2>3. run \in [Verifier -> Verification \union {None, Lost}] /\ \A v \in Verifier : run[v] = None
    BY DEF PipelineInit
  <2>4. \A v \in Verifier : run[v] \in {None, Lost}
    BY <2>3
  <2> QED
    BY <2>1, <2>2, <2>3, <2>4 DEF PipelineInit, PipelineTypeOK, Plans
<1>2. HeldPasses /\ RunsSound /\ ReportAccepted /\ ApprovalGrounded /\ ArchivedIsReviewed
  BY DEF PipelineInit, HeldPasses, RunsSound, Working, ReportAccepted, ApprovalGrounded, ArchivedIsReviewed, Done, Phases
<1> QED
  BY <1>1, <1>2 DEF JournalInv

-----------------------------------------------------------------------------
(* The operations that save. *)

LEMMA RunningKeeps ==
  ASSUME JournalInv, NEW ph \in Phases, Running(ph)
  PROVE  JournalInv'
<1>1. phase' \in [Phases -> [candidate : Candidates, artifact : Artifacts] \union {None}]
  BY DEF Running, JournalInv, PipelineTypeOK
<1>2. ArchivedIsReviewed'
  BY DEF Running, JournalInv, ArchivedIsReviewed, Done, Phases
<1> QED
  BY <1>1, <1>2, SavedSound DEF Running, world, JournalInv, PipelineTypeOK

LEMMA FailedKeeps ==
  ASSUME JournalInv, NEW ph \in Phases, Failed(ph)
  PROVE  JournalInv'
<1>1. phase' \in [Phases -> [candidate : Candidates, artifact : Artifacts] \union {None}]
  BY DEF Failed, JournalInv, PipelineTypeOK
<1>2. ArchivedIsReviewed'
  BY DEF Failed, JournalInv, PipelineTypeOK, ArchivedIsReviewed, Done, Phases
<1> QED
  BY <1>1, <1>2, SavedSound DEF Failed, world, JournalInv, PipelineTypeOK

\* A design, a development or a review that is done.
LEMMA PhaseDoneKeeps ==
  ASSUME JournalInv, DesignDone \/ DevelopmentDone \/ ReviewDone
  PROVE  JournalInv'
<1>1. PICK ph \in {"architect", "developer", "reviewer"} : Complete(ph, Cand, Art)
  BY DEF DesignDone, DevelopmentDone, ReviewDone
<1>2. /\ Saved
      /\ UNCHANGED <<world, plan, verification, acceptance, approval, archived, preview, passed, accepted>>
  BY DEF DesignDone, DevelopmentDone, ReviewDone
<1>3. phase' \in [Phases -> [candidate : Candidates, artifact : Artifacts] \union {None}]
  BY <1>1, Measured DEF Complete, JournalInv, PipelineTypeOK, Phases
<1>4. ArchivedIsReviewed'
  BY <1>1, <1>2 DEF Complete, JournalInv, PipelineTypeOK, ArchivedIsReviewed, Done, Phases
<1> QED
  BY <1>2, <1>3, <1>4, SavedSound DEF world, JournalInv, PipelineTypeOK

\* The approval is of what is archived.
LEMMA ArchiveDoneKeeps ==
  ASSUME JournalInv, ArchiveDone
  PROVE  JournalInv'
<1>1. phase' \in [Phases -> [candidate : Candidates, artifact : Artifacts] \union {None}]
  BY Measured DEF ArchiveDone, Complete, JournalInv, PipelineTypeOK, Phases
<1>2. approval \in Approval
  BY Measured DEF ArchiveDone, Approved, Approval, JournalInv, PipelineTypeOK
<1>3. approval # None /\ approval.candidate = <<candidate, 0>> /\ approval.artifact = artifact
  BY <1>2, JournalAssumption DEF ArchiveDone, Approved
<1>4. phase'["archive"] = [candidate |-> <<candidate, 0>>, artifact |-> artifact]
  BY DEF ArchiveDone, Complete, JournalInv, PipelineTypeOK, Phases
<1>5. ArchivedIsReviewed'
  BY <1>3, <1>4 DEF ArchiveDone, JournalInv, ApprovalGrounded, ArchivedIsReviewed
<1> QED
  BY <1>1, <1>5, SavedSound DEF ArchiveDone, world, JournalInv, PipelineTypeOK

LEMMA BindKeeps ==
  ASSUME JournalInv, NEW pl \in Plan, BindVerificationPlan(pl)
  PROVE  JournalInv'
<1>1. /\ run' \in [Verifier -> Verification \union {None, Lost}]
      /\ \A v \in Verifier : run'[v] \in {None, Lost}
  BY SavedStops DEF BindVerificationPlan, JournalInv, PipelineTypeOK
<1>2. PipelineTypeOK'
  BY <1>1 DEF BindVerificationPlan, world, JournalInv, PipelineTypeOK, Plans
<1>3. HeldPasses' /\ ReportAccepted' /\ ApprovalGrounded' /\ ArchivedIsReviewed'
  BY JournalAssumption DEF BindVerificationPlan, JournalInv, HeldPasses, Passes, ReportAccepted, ApprovalGrounded, ArchivedIsReviewed, Done
<1>4. RunsSound'
  BY <1>1 DEF RunsSound, Working
<1> QED
  BY <1>2, <1>3, <1>4 DEF JournalInv

LEMMA RecordKeeps ==
  ASSUME JournalInv, NEW ok \in BOOLEAN, RecordAcceptance(ok)
  PROVE  JournalInv'
<1>1. /\ run' \in [Verifier -> Verification \union {None, Lost}]
      /\ \A v \in Verifier : run'[v] \in {None, Lost}
  BY SavedStops DEF RecordAcceptance, JournalInv, PipelineTypeOK
<1> DEFINE report == [candidate |-> Cand, artifact |-> Art, plan |-> plan]
<1>2. report \in Report
  BY Measured DEF Report, JournalInv, PipelineTypeOK
<1>3. acceptance' = (IF ok THEN report ELSE None)
  BY DEF RecordAcceptance
<1>4. <<plan, Cand, Art>> \in Plans \X Candidates \X Artifacts
  BY Measured DEF JournalInv, PipelineTypeOK
<1>5. accepted' = IF ok THEN accepted \union {<<plan, Cand, Art>>} ELSE accepted
  BY DEF RecordAcceptance
<1>6. ReportAccepted'
  <2>1. report.plan = plan /\ report.candidate = Cand /\ report.artifact = Art
    OBVIOUS
  <2> HIDE DEF report
  <2>2. CASE ok
    <3>1. acceptance' = report /\ <<plan, Cand, Art>> \in accepted'
      BY <1>3, <1>5, <2>2
    <3> QED
      BY <2>1, <3>1 DEF ReportAccepted
  <2>3. CASE ~ok
    BY <1>3, <2>3 DEF ReportAccepted
  <2> QED BY <2>2, <2>3
<1>7. phase' \in [Phases -> [candidate : Candidates, artifact : Artifacts] \union {None}] /\ phase'["archive"] = None
  BY DEF RecordAcceptance, JournalInv, PipelineTypeOK, Phases
<1>8. acceptance' \in Report \union {None} /\ accepted' \subseteq Plans \X Candidates \X Artifacts
  <2> HIDE DEF report
  <2>1. acceptance' \in Report \union {None}
    BY <1>2, <1>3
  <2>2. accepted' \subseteq Plans \X Candidates \X Artifacts
    BY <1>4, <1>5 DEF JournalInv, PipelineTypeOK
  <2> QED BY <2>1, <2>2
<1>9. UNCHANGED <<candidate, artifact, moved, plan, verification, archived, preview, passed>> /\ approval' = None
  BY DEF RecordAcceptance, world
<1> HIDE DEF report
<1>10. PipelineTypeOK'
  BY <1>1, <1>7, <1>8, <1>9 DEF JournalInv, PipelineTypeOK
<1>11. HeldPasses' /\ ApprovalGrounded' /\ ArchivedIsReviewed'
  BY <1>7, <1>9 DEF JournalInv, HeldPasses, Passes, ApprovalGrounded, ArchivedIsReviewed, Done
<1>12. RunsSound'
  BY <1>1 DEF RunsSound, Working
<1> QED
  BY <1>6, <1>10, <1>11, <1>12 DEF JournalInv

\* The approval rests on the receipt and on the report that are valid as it is given.
LEMMA CheckArchiveKeeps ==
  ASSUME JournalInv, CheckArchive
  PROVE  JournalInv'
<1>1. /\ run' \in [Verifier -> Verification \union {None, Lost}]
      /\ \A v \in Verifier : run'[v] \in {None, Lost}
  BY SavedStops DEF CheckArchive, JournalInv, PipelineTypeOK
<1>2. approval' = [candidate |-> Cand, artifact |-> Art, acceptance |-> acceptance]
  BY DEF CheckArchive
<1>3. approval' \in Approval
  BY <1>2, Measured, ValidAccepted DEF CheckArchive, Approval, JournalInv
<1>4. UNCHANGED <<candidate, artifact, moved, phase, plan, verification, acceptance, archived, preview, passed, accepted>>
  BY DEF CheckArchive, world
<1>5. PipelineTypeOK'
  BY <1>1, <1>3, <1>4 DEF JournalInv, PipelineTypeOK
<1>6. approval'.candidate = Cand /\ approval'.artifact = Art
  BY <1>2
<1>7. ApprovalGrounded'
  BY <1>4, <1>6, ValidPassed, ValidAccepted DEF CheckArchive, ApprovalGrounded
<1>8. HeldPasses' /\ ReportAccepted' /\ ArchivedIsReviewed'
  BY <1>4 DEF JournalInv, HeldPasses, Passes, ReportAccepted, ArchivedIsReviewed, Done
<1>9. RunsSound'
  BY <1>1 DEF RunsSound, Working
<1> QED
  BY <1>5, <1>7, <1>8, <1>9 DEF JournalInv

LEMMA PreviewKeeps ==
  ASSUME JournalInv, PreparePreview
  PROVE  JournalInv'
<1>1. preview' \in Candidates \union {None}
  BY Measured DEF PreparePreview, JournalInv
<1>2. ArchivedIsReviewed'
  BY DEF PreparePreview, JournalInv, ArchivedIsReviewed, Done
<1> QED
  BY <1>1, <1>2, SavedSound DEF PreparePreview, world, JournalInv, PipelineTypeOK

LEMMA ApplyKeeps ==
  ASSUME JournalInv, ApplyPreview
  PROVE  JournalInv'
<1>1. /\ run' \in [Verifier -> Verification \union {None, Lost}]
      /\ \A v \in Verifier : run'[v] \in {None, Lost}
  BY SavedStops DEF ApplyPreview, JournalInv, PipelineTypeOK
<1>2. candidate' \in Contents
  BY Measured, JournalAssumption DEF ApplyPreview, Room, JournalInv, PipelineTypeOK, Contents
<1>3. phase' \in [Phases -> [candidate : Candidates, artifact : Artifacts] \union {None}] /\ phase'["archive"] = None
  BY DEF ApplyPreview, JournalInv, PipelineTypeOK, Phases
<1>4. UNCHANGED <<artifact, moved, plan, acceptance, approval, archived, passed, accepted>>
      /\ verification' = None /\ preview' = None
  BY DEF ApplyPreview
<1>5. PipelineTypeOK'
  BY <1>1, <1>2, <1>3, <1>4 DEF JournalInv, PipelineTypeOK
<1>6. HeldPasses' /\ ReportAccepted' /\ ApprovalGrounded' /\ ArchivedIsReviewed'
  BY <1>3, <1>4 DEF JournalInv, HeldPasses, ReportAccepted, ApprovalGrounded, ArchivedIsReviewed, Done
<1>7. RunsSound'
  BY <1>1 DEF RunsSound, Working
<1> QED
  BY <1>5, <1>6, <1>7 DEF JournalInv

-----------------------------------------------------------------------------
(* The verifications. *)

\* A verification starts with every check left, on what it measures.
LEMMA StartKeeps ==
  ASSUME JournalInv, NEW v \in Verifier, NEW kind \in {"full", "scoped"}, StartVerification(v, kind)
  PROVE  JournalInv'
<1> DEFINE begun == [kind |-> kind, candidate |-> Cand, plan |-> plan, previous |-> verification,
                     left |-> IF kind = "full" THEN Command ELSE Scoped, measured |-> FALSE]
<1>1. /\ run' = [u \in Verifier |-> run'[u]]
      /\ run'[v] = begun
      /\ \A u \in Verifier \ {v} : run'[u] \in {None, Lost}
  <2>1. run' = [u \in Verifier |-> run'[u]]
    BY DEF StartVerification
  <2>2. run'[v] = begun
    BY DEF StartVerification
  <2>3. ASSUME NEW u \in Verifier \ {v} PROVE run'[u] \in {None, Lost}
    <3>1. CASE run[u] # None
      BY <3>1 DEF StartVerification
    <3>2. CASE run[u] = None
      BY <3>2 DEF StartVerification
    <3> QED BY <3>1, <3>2
  <2> QED BY <2>1, <2>2, <2>3
<1>2. /\ begun.kind = kind /\ begun.candidate = Cand /\ begun.plan = plan /\ begun.previous = verification
      /\ begun.left = (IF kind = "full" THEN Command ELSE Scoped) /\ begun.measured = FALSE
  OBVIOUS
<1> HIDE DEF begun
<1>3. /\ UNCHANGED <<candidate, artifact, moved, phase, plan, archived, preview, passed, accepted>>
      /\ acceptance' = None /\ approval' = None
      /\ verification' = IF verification = None THEN None ELSE Invalid
  BY DEF StartVerification, world
<1>4. PipelineTypeOK'
  <2>1. verification' \in Receipt \union {None, Invalid}
    BY <1>3
  <2>2. \A u \in Verifier : run'[u] \notin {None, Lost} => u = v
    BY <1>1
  <2>3. \A u, w \in Verifier : u # w => run'[u] \in {None, Lost} \/ run'[w] \in {None, Lost}
    BY <2>2
  <2>4. begun \in Verification /\ begun.plan = plan'
    <3>1. (IF kind = "full" THEN Command ELSE Scoped) \in SUBSET Command
      BY JournalAssumption
    <3>2. begun \in Verification
      BY <3>1, Measured DEF begun, Verification, JournalInv, PipelineTypeOK
    <3> QED BY <1>2, <1>3, <3>2
  <2>5. \A u \in Verifier : run'[u] \in Verification \union {None, Lost}
    BY <1>1, <2>4
  <2>6. run' \in [Verifier -> Verification \union {None, Lost}]
    BY <1>1, <2>5
  <2> QED
    BY <1>1, <1>3, <2>1, <2>2, <2>3, <2>4, <2>6 DEF JournalInv, PipelineTypeOK
<1>5. HeldPasses' /\ ReportAccepted' /\ ApprovalGrounded' /\ ArchivedIsReviewed'
  BY <1>3 DEF JournalInv, HeldPasses, ReportAccepted, ApprovalGrounded, ArchivedIsReviewed, Done
<1>6. RunsSound'
  <2>1. Cand' = Cand
    BY <1>3 DEF Cand, Unknown
  <2>2. Past(Cand, Cand')
    BY <2>1, Measured DEF JournalInv, Past
  <2>3. verification \notin {None, Invalid} => Passes(verification, passed', plan')
    BY <1>3 DEF JournalInv, HeldPasses
  <2>4. kind = "full" => Command \ begun.left = {}
    BY <1>2
  <2>5. \A u \in Verifier : Working(u)' => u = v
    BY <1>1 DEF Working
  <2>6. run'[v].candidate = Cand /\ run'[v].previous = verification /\ run'[v].kind = kind
        /\ run'[v].left = begun.left /\ run'[v].measured = FALSE
    BY <1>1, <1>2
  <2> QED
    BY <2>2, <2>3, <2>4, <2>5, <2>6 DEF RunsSound
<1> QED
  BY <1>4, <1>5, <1>6 DEF JournalInv

\* What is current now was current before: the repositories never come back.
LEMMA NeverBack ==
  ASSUME NEW c \in Candidates, NEW here \in Candidates, NEW next \in Candidates,
         Past(c, here), Past(here, next)
  PROVE  Past(c, next) /\ (c = next => c = here)
BY JournalAssumption DEF Candidates, Contents, Artifacts, Past

\* A verification goes on: what it drops from its list has passed.
GoesOn(u) ==
  /\ Working(u)
  /\ run'[u].kind = run[u].kind /\ run'[u].candidate = run[u].candidate
  /\ run'[u].previous = run[u].previous /\ run'[u].left \subseteq run[u].left
  /\ run'[u].measured => run'[u].left = {}
  /\ IsCurrent(u) => \A c \in run[u].left \ run'[u].left : <<plan, run[u].candidate, c>> \in passed'

\* The verifications go on or stop, while the repositories stay or move on.
LEMMA RunsKept ==
  ASSUME JournalInv, PipelineTypeOK', UNCHANGED plan, Past(Cand, Cand'), passed \subseteq passed',
         \A u \in Verifier : run'[u] \in {None, Lost, run[u]} \/ GoesOn(u)
  PROVE  RunsSound'
<1> SUFFICES ASSUME NEW u \in Verifier, Working(u)'
             PROVE  /\ run'[u].previous \notin {None, Invalid} => Passes(run'[u].previous, passed', plan')
                    /\ Past(run'[u].candidate, Cand')
                    /\ run'[u].measured => run'[u].left = {}
                    /\ run'[u].kind = "full" /\ run'[u].candidate = Cand' =>
                         \A c \in Command \ run'[u].left : <<plan', run'[u].candidate, c>> \in passed'
  BY DEF RunsSound, IsCurrent
<1>1. Working(u)
  BY DEF Working, GoesOn
<1>2. GoesOn(u)
  <2>1. CASE run'[u] = run[u]
    BY <1>1, <2>1 DEF JournalInv, RunsSound, GoesOn
  <2>2. CASE run'[u] # run[u]
    BY <2>2 DEF Working
  <2> QED BY <2>1, <2>2
<1>3. run[u].candidate \in Candidates /\ Cand \in Candidates /\ Cand' \in Candidates
  <2>1. Cand' \in Candidates
    BY JournalAssumption DEF PipelineTypeOK, Cand, Candidates, Artifacts, Contents
  <2> QED
    BY <1>1, <2>1, Measured DEF JournalInv, PipelineTypeOK, Working, Verification
<1>4. Past(run[u].candidate, Cand') /\ (run[u].candidate = Cand' => run[u].candidate = Cand)
  BY <1>1, <1>3, NeverBack DEF JournalInv, RunsSound
<1>5. run[u].previous \notin {None, Invalid} => Passes(run[u].previous, passed', plan')
  BY <1>1 DEF JournalInv, RunsSound, Passes
<1>6. ASSUME run[u].kind = "full", run[u].candidate = Cand', NEW c \in Command \ run'[u].left
      PROVE  <<plan, run[u].candidate, c>> \in passed'
  <2>1. IsCurrent(u)
    BY <1>4, <1>6 DEF IsCurrent
  <2>2. CASE c \in run[u].left
    BY <1>2, <1>6, <2>1, <2>2 DEF GoesOn
  <2>3. CASE c \notin run[u].left
    BY <1>1, <1>6, <2>1, <2>3 DEF JournalInv, RunsSound
  <2> QED BY <2>2, <2>3
<1> QED
  BY <1>2, <1>4, <1>5, <1>6 DEF GoesOn

\* A check passes now on what is there, or has passed before on what was measured.
LEMMA CheckKeeps ==
  ASSUME JournalInv, NEW v \in Verifier, NEW c \in Command, Check(v, c)
  PROVE  JournalInv'
<1>1. /\ Working(v) /\ c \in run[v].left
      /\ run' = [run EXCEPT ![v].left = @ \ {c}]
      /\ UNCHANGED <<candidate, artifact, moved, phase, plan, verification, acceptance, approval, archived, preview, accepted>>
      /\ passed' = passed \union {<<plan, Cand, c>>} \/ (Reusable(v) /\ UNCHANGED passed)
  BY DEF Check, world, journal
<1>2. /\ DOMAIN run' = Verifier
      /\ \A u \in Verifier \ {v} : run'[u] = run[u]
      /\ run'[v] = [run[v] EXCEPT !.left = @ \ {c}]
  BY <1>1 DEF JournalInv, PipelineTypeOK
<1>3. run[v] \in Verification /\ run[v].plan = plan
  BY <1>1 DEF JournalInv, PipelineTypeOK, Working
<1>4. /\ run'[v] \in Verification
      /\ run'[v].kind = run[v].kind /\ run'[v].candidate = run[v].candidate /\ run'[v].plan = plan
      /\ run'[v].previous = run[v].previous /\ run'[v].left = run[v].left \ {c}
      /\ run'[v].measured = run[v].measured
  BY <1>2, <1>3 DEF Verification
<1>5. passed \subseteq passed' /\ passed' \subseteq Plans \X Candidates \X Command
  BY <1>1, Measured DEF JournalInv, PipelineTypeOK
<1>6. PipelineTypeOK'
  <2>1. \A u, w \in Verifier : u # w => run'[u] \in {None, Lost} \/ run'[w] \in {None, Lost}
    BY <1>1, <1>2 DEF JournalInv, PipelineTypeOK, Working
  <2>2. run' \in [Verifier -> Verification \union {None, Lost}]
    BY <1>1, <1>4 DEF JournalInv, PipelineTypeOK
  <2> QED
    BY <1>1, <1>2, <1>4, <1>5, <2>1, <2>2 DEF JournalInv, PipelineTypeOK
<1>7. IsCurrent(v) => <<plan, run[v].candidate, c>> \in passed'
  <2>1. CASE passed' = passed \union {<<plan, Cand, c>>}
    BY <2>1 DEF IsCurrent
  <2>2. CASE Reusable(v) /\ UNCHANGED passed
    <3>1. run[v].previous \in Receipt
      BY <1>3, <2>2 DEF Reusable, Receipt, Verification
    <3>2. Passes(run[v].previous, passed, plan)
      BY <1>1, <3>1, JournalAssumption DEF JournalInv, RunsSound
    <3>3. run[v].previous.kind = "full" /\ run[v].previous.plan = plan /\ run[v].previous.candidate = run[v].candidate
      BY <1>3, <2>2 DEF Reusable
    <3> QED
      BY <2>2, <3>2, <3>3 DEF Passes
  <2> QED BY <1>1, <2>1, <2>2
<1>8. Past(Cand, Cand')
  BY <1>1, Measured DEF JournalInv, Past, Cand, Unknown
<1>9. run[v].measured => run[v].left = {}
  BY <1>1 DEF JournalInv, RunsSound
<1>10. RunsSound'
  <2>1. GoesOn(v)
    BY <1>1, <1>4, <1>7, <1>9 DEF GoesOn
  <2>2. \A u \in Verifier : run'[u] \in {None, Lost, run[u]} \/ GoesOn(u)
    BY <1>2, <2>1
  <2> QED
    BY <1>1, <1>5, <1>6, <1>8, <2>2, RunsKept
<1>11. HeldPasses' /\ ReportAccepted' /\ ApprovalGrounded' /\ ArchivedIsReviewed'
  BY <1>1, <1>5, JournalKept
<1> QED
  BY <1>6, <1>10, <1>11 DEF JournalInv

\* A verification that is cancelled or that dies.
LEMMA VerifierStops ==
  ASSUME JournalInv, NEW v \in Verifier, NEW s \in {None, Lost}, run' = [run EXCEPT ![v] = s],
         UNCHANGED <<world, journal, passed, accepted>>
  PROVE  JournalInv'
<1>1. UNCHANGED <<candidate, artifact, moved, phase, plan, verification, acceptance, approval, archived,
                  preview, passed, accepted>>
  BY DEF world, journal
<1>2. /\ run' \in [Verifier -> Verification \union {None, Lost}]
      /\ run'[v] = s /\ \A u \in Verifier \ {v} : run'[u] = run[u]
  BY DEF JournalInv, PipelineTypeOK
<1>3. PipelineTypeOK'
  BY <1>1, <1>2 DEF JournalInv, PipelineTypeOK
<1>4. Past(Cand, Cand')
  BY <1>1, Measured DEF JournalInv, Past, Cand, Unknown
<1>5. \A u \in Verifier : run'[u] \in {None, Lost, run[u]}
  BY <1>2
<1>6. RunsSound'
  BY <1>1, <1>3, <1>4, <1>5, RunsKept
<1>7. HeldPasses' /\ ReportAccepted' /\ ApprovalGrounded' /\ ArchivedIsReviewed'
  BY <1>1, JournalKept
<1> QED
  BY <1>3, <1>6, <1>7 DEF JournalInv

\* What is measured after the last check is what was measured before the first.
LEMMA MeasureKeeps ==
  ASSUME JournalInv, NEW v \in Verifier, Measure(v)
  PROVE  JournalInv'
<1>1. CASE ~IsCurrent(v)
  BY <1>1, VerifierStops DEF Measure
<1>2. CASE IsCurrent(v)
  <2>1. /\ Working(v) /\ run[v].left = {}
        /\ run' = [run EXCEPT ![v] = [run[v] EXCEPT !.measured = TRUE]]
        /\ UNCHANGED <<candidate, artifact, moved, phase, plan, verification, acceptance, approval, archived,
                       preview, passed, accepted>>
    BY <1>2 DEF Measure, world, journal
  <2>2. /\ \A u \in Verifier \ {v} : run'[u] = run[u]
        /\ run'[v] = [run[v] EXCEPT !.measured = TRUE]
    BY <2>1 DEF JournalInv, PipelineTypeOK
  <2>3. run[v] \in Verification /\ run[v].plan = plan
    BY <2>1 DEF JournalInv, PipelineTypeOK, Working
  <2>4. /\ run'[v] \in Verification
        /\ run'[v].kind = run[v].kind /\ run'[v].candidate = run[v].candidate /\ run'[v].plan = plan
        /\ run'[v].previous = run[v].previous /\ run'[v].left = run[v].left
    BY <2>2, <2>3 DEF Verification
  <2>5. PipelineTypeOK'
    <3>1. \A u, w \in Verifier : u # w => run'[u] \in {None, Lost} \/ run'[w] \in {None, Lost}
      BY <2>1, <2>2 DEF JournalInv, PipelineTypeOK, Working
    <3>2. run' \in [Verifier -> Verification \union {None, Lost}]
      BY <2>1, <2>4 DEF JournalInv, PipelineTypeOK
    <3> QED
      BY <2>1, <2>2, <2>4, <3>1, <3>2 DEF JournalInv, PipelineTypeOK
  <2>6. Past(Cand, Cand')
    BY <2>1, Measured DEF JournalInv, Past, Cand, Unknown
  <2>7. RunsSound'
    <3>1. GoesOn(v)
      BY <2>1, <2>4 DEF GoesOn
    <3>2. \A u \in Verifier : run'[u] \in {None, Lost, run[u]} \/ GoesOn(u)
      BY <2>2, <3>1
    <3> QED
      BY <2>1, <2>5, <2>6, <3>2, RunsKept
  <2>8. HeldPasses' /\ ReportAccepted' /\ ApprovalGrounded' /\ ArchivedIsReviewed'
    BY <2>1, JournalKept
  <2> QED
    BY <2>5, <2>7, <2>8 DEF JournalInv
<1> QED BY <1>1, <1>2

\* The receipt that commits passed: this verification's, the one it replaced, or the one that is held.
LEMMA CommitKeeps ==
  ASSUME JournalInv, NEW v \in Verifier, CommitReceipt(v)
  PROVE  JournalInv'
<1> DEFINE own == [kind |-> run[v].kind, candidate |-> run[v].candidate, plan |-> run[v].plan]
<1>1. /\ run[v] = Lost \/ (Working(v) /\ run[v].measured)
      /\ UNCHANGED <<candidate, artifact, moved, phase, plan, acceptance, approval, archived, preview, passed,
                     accepted>>
  BY DEF CommitReceipt, world
<1>2. /\ run' \in [Verifier -> Verification \union {None, Lost}]
      /\ \A u \in Verifier : run'[u] \in {None, Lost}
  BY DEF CommitReceipt
<1>3. \/ verification' \in {Invalid, verification}
      \/ Working(v) /\ run[v].measured /\ IsCurrent(v) /\ verification' = own
      \/ Working(v) /\ run[v].previous \notin {None, Invalid} /\ verification' = run[v].previous
  <2>1. CASE run[v] = Lost \/ ~IsCurrent(v)
    BY <2>1 DEF CommitReceipt, IsCurrent
  <2>2. CASE run[v] # Lost /\ IsCurrent(v)
    <3>1. CASE run[v].kind = "full" \/ verification = None
      <4>1. verification' = own
        BY <2>2, <3>1 DEF CommitReceipt, IsCurrent
      <4> QED BY <1>1, <2>2, <4>1
    <3>2. CASE /\ ~(run[v].kind = "full" \/ verification = None)
               /\ run[v].previous \notin {None, Invalid} /\ run[v].previous.candidate = run[v].candidate
      <4>1. verification' = run[v].previous
        BY <2>2, <3>2 DEF CommitReceipt, IsCurrent
      <4> QED BY <1>1, <2>2, <3>2, <4>1
    <3>3. CASE /\ ~(run[v].kind = "full" \/ verification = None)
               /\ ~(run[v].previous \notin {None, Invalid} /\ run[v].previous.candidate = run[v].candidate)
      BY <2>2, <3>3 DEF CommitReceipt, IsCurrent
    <3> QED BY <3>1, <3>2, <3>3
  <2> QED BY <2>1, <2>2
<1>4. Working(v) => run[v] \in Verification /\ run[v].plan = plan
  BY DEF JournalInv, PipelineTypeOK, Working
<1>5. own.kind = run[v].kind /\ own.candidate = run[v].candidate /\ own.plan = run[v].plan
  OBVIOUS
<1>6. Working(v) => own \in Receipt
  BY <1>4 DEF Receipt, Verification
<1> HIDE DEF own
<1>7. verification' \in Receipt \union {None, Invalid}
  BY <1>3, <1>4, <1>6 DEF JournalInv, PipelineTypeOK, Verification
<1>8. PipelineTypeOK'
  BY <1>1, <1>2, <1>7 DEF JournalInv, PipelineTypeOK
<1>9. HeldPasses'
  <2>1. CASE verification' \in {Invalid, verification}
    BY <1>1, <2>1 DEF JournalInv, HeldPasses, Passes
  <2>2. CASE Working(v) /\ run[v].measured /\ IsCurrent(v) /\ verification' = own
    <3>1. own.kind = "full" => \A c \in Command : <<own.plan, own.candidate, c>> \in passed
      BY <1>4, <1>5, <2>2 DEF JournalInv, RunsSound
    <3> QED
      BY <1>1, <2>2, <3>1 DEF HeldPasses, Passes
  <2>3. CASE Working(v) /\ run[v].previous \notin {None, Invalid} /\ verification' = run[v].previous
    BY <1>1, <2>3 DEF JournalInv, RunsSound, HeldPasses, Passes
  <2> QED BY <1>3, <2>1, <2>2, <2>3
<1>10. ReportAccepted' /\ ApprovalGrounded' /\ ArchivedIsReviewed'
  BY <1>1 DEF JournalInv, ReportAccepted, ApprovalGrounded, ArchivedIsReviewed, Done
<1>11. RunsSound'
  BY <1>2 DEF RunsSound, Working
<1> QED
  BY <1>8, <1>9, <1>10, <1>11 DEF JournalInv

\* The repositories move on, and nothing is lost of what is known about them.
LEMMA WorldKeeps ==
  ASSUME JournalInv, Edit \/ EditArtifact \/ Move
  PROVE  JournalInv'
<1>1. /\ UNCHANGED <<phase, plan, verification, acceptance, approval, archived, run, passed, accepted>>
      /\ preview' \in {preview, None}
  BY DEF Edit, EditArtifact, Move, journal
<1>2. candidate' \in Contents /\ artifact' \in Contents /\ moved' \in BOOLEAN
  <2>1. MaxEdits \in Nat /\ candidate \in Contents /\ artifact \in Contents /\ moved \in BOOLEAN
    BY JournalAssumption DEF JournalInv, PipelineTypeOK
  <2>2. CASE Edit
    BY <2>1, <2>2 DEF Edit, Room, Contents
  <2>3. CASE EditArtifact
    BY <2>1, <2>3 DEF EditArtifact, Room, Contents
  <2>4. CASE Move
    BY <2>1, <2>4 DEF Move
  <2> QED BY <2>2, <2>3, <2>4
<1>3. PipelineTypeOK'
  BY <1>1, <1>2 DEF JournalInv, PipelineTypeOK
<1>4. Past(Cand, Cand')
  BY Measured DEF Edit, EditArtifact, Move, journal, JournalInv, PipelineTypeOK, Past, Cand, Unknown
<1>5. RunsSound'
  BY <1>1, <1>3, <1>4, RunsKept
<1>6. HeldPasses' /\ ReportAccepted' /\ ApprovalGrounded' /\ ArchivedIsReviewed'
  BY <1>1 DEF JournalInv, HeldPasses, Passes, ReportAccepted, ApprovalGrounded, ArchivedIsReviewed, Done
<1> QED
  BY <1>3, <1>5, <1>6 DEF JournalInv

\* Every step keeps the invariant.
LEMMA JournalNext == JournalInv /\ [PipelineNext]_pipelineVars => JournalInv'
<1> SUFFICES ASSUME JournalInv, [PipelineNext]_pipelineVars PROVE JournalInv'
  OBVIOUS
<1>1. CASE UNCHANGED pipelineVars
  <2>1. UNCHANGED <<candidate, artifact, moved, phase, plan, verification, acceptance, approval, archived,
                    preview, run, passed, accepted>>
    BY <1>1 DEF pipelineVars, world, journal
  <2>2. PipelineTypeOK' /\ HeldPasses' /\ ReportAccepted' /\ ApprovalGrounded' /\ ArchivedIsReviewed'
    BY <2>1 DEF JournalInv, PipelineTypeOK, HeldPasses, Passes, ReportAccepted, ApprovalGrounded,
                ArchivedIsReviewed, Done
  <2>3. Past(Cand, Cand')
    BY <2>1, Measured DEF JournalInv, Past, Cand, Unknown
  <2>4. RunsSound'
    BY <2>1, <2>2, <2>3, RunsKept
  <2> QED BY <2>2, <2>4 DEF JournalInv
<1>2. ASSUME NEW ph \in Phases, Running(ph) \/ Failed(ph) PROVE JournalInv'
  BY <1>2, RunningKeeps, FailedKeeps
<1>3. CASE DesignDone \/ DevelopmentDone \/ ReviewDone \/ ArchiveDone
  BY <1>3, PhaseDoneKeeps, ArchiveDoneKeeps
<1>4. ASSUME NEW pl \in Plan, BindVerificationPlan(pl) PROVE JournalInv'
  BY <1>4, BindKeeps
<1>5. ASSUME NEW ok \in BOOLEAN, RecordAcceptance(ok) PROVE JournalInv'
  BY <1>5, RecordKeeps
<1>6. CASE CheckArchive \/ PreparePreview \/ ApplyPreview
  BY <1>6, CheckArchiveKeeps, PreviewKeeps, ApplyKeeps
<1>7. ASSUME NEW v \in Verifier, NEW kind \in {"full", "scoped"}, StartVerification(v, kind) PROVE JournalInv'
  BY <1>7, StartKeeps
<1>8. ASSUME NEW v \in Verifier, NEW c \in Command, Check(v, c) PROVE JournalInv'
  BY <1>8, CheckKeeps
<1>9. ASSUME NEW v \in Verifier, CheckFails(v) \/ VerifierEnds(v) PROVE JournalInv'
  BY <1>9, VerifierStops DEF CheckFails, VerifierEnds
<1>10. ASSUME NEW v \in Verifier, Measure(v) \/ CommitReceipt(v) PROVE JournalInv'
  BY <1>10, MeasureKeeps, CommitKeeps
<1>11. CASE Edit \/ EditArtifact \/ Move
  BY <1>11, WorldKeeps
<1> QED
  BY <1>1, <1>2, <1>3, <1>4, <1>5, <1>6, <1>7, <1>8, <1>9, <1>10, <1>11 DEF PipelineNext

-----------------------------------------------------------------------------
(* What the invariant says of a receipt and of a resume. *)

LEMMA ReceiptSound == JournalInv => ReceiptPassed
<1> SUFFICES ASSUME JournalInv PROVE ReceiptPassed
  OBVIOUS
<1>1. ASSUME verification \notin {None, Invalid}, verification.kind = "full", verification.plan = plan
      PROVE  \A c \in Command : <<plan, verification.candidate, c>> \in passed
  <2>1. \A c \in Command : <<verification.plan, verification.candidate, c>> \in passed
    BY <1>1 DEF JournalInv, HeldPasses, Passes
  <2> QED BY <1>1, <2>1
<1> QED
  BY <1>1 DEF ReceiptPassed

\* The phases are in their order.
LEMMA PhaseOrder ==
  /\ Phase[1] = "architect" /\ Phase[2] = "developer" /\ Phase[3] = "reviewer" /\ Phase[4] = "archive"
  /\ \A i \in 1..4 : Phase[i] # None
<1>1. Phase[1] = "architect" /\ Phase[2] = "developer" /\ Phase[3] = "reviewer" /\ Phase[4] = "archive"
  BY DEF Phase
<1>2. \A i \in 1..4 : i = 1 \/ i = 2 \/ i = 3 \/ i = 4
  OBVIOUS
<1>3. \A i \in 1..4 : Phase[i] \in Phases
  BY <1>1, <1>2 DEF Phases
<1> QED
  BY <1>1, <1>3, JournalAssumption

\* Behind the review no earlier phase is stale, the receipt is valid and so is the report.
LEMMA BehindReview ==
  ASSUME ResumePhase \in {"archive", None}
  PROVE  /\ ~Stale("architect") /\ ~Stale("developer") /\ ~Stale("reviewer")
         /\ ReceiptValid /\ AcceptanceValid
<1> DEFINE stale == \E i \in 1..4 : Stale(Phase[i])
           reached == CHOOSE i \in 1..4 : Stale(Phase[i]) /\ \A j \in 1..(i - 1) : ~Stale(Phase[j])
           first == IF stale THEN Resume(Phase[reached]) ELSE None
<1>1. ResumePhase = IF /\ first \in {None, "archive"}
                       /\ \/ ~ReceiptValid /\ Done("developer")
                          \/ ~AcceptanceValid /\ Done("reviewer")
                    THEN "reviewer" ELSE first
  BY DEF ResumePhase
<1>2. None # "reviewer"
  BY JournalAssumption DEF Phases
<1>3. /\ first \in {None, "archive"}
      /\ ~(~ReceiptValid /\ Done("developer")) /\ ~(~AcceptanceValid /\ Done("reviewer"))
  <2> HIDE DEF first
  <2> QED BY <1>1, <1>2
<1>4. ~Stale("architect") /\ ~Stale("developer") /\ ~Stale("reviewer")
  <2>1. CASE ~stale
    <3>1. \A i \in 1..4 : ~Stale(Phase[i])
      BY <2>1
    <3> QED
      BY <3>1, PhaseOrder
  <2>2. CASE stale
    <3>1. \E i \in 1..4 : Stale(Phase[i]) /\ \A j \in 1..(i - 1) : ~Stale(Phase[j])
      <4>1. \A i \in 1..4 : i = 1 \/ i = 2 \/ i = 3 \/ i = 4
        OBVIOUS
      <4>2. \A j \in 1..(1 - 1) : FALSE
        OBVIOUS
      <4>3. /\ \A j \in 1..(2 - 1) : j = 1
            /\ \A j \in 1..(3 - 1) : j = 1 \/ j = 2
            /\ \A j \in 1..(4 - 1) : j = 1 \/ j = 2 \/ j = 3
        OBVIOUS
      <4>4. CASE Stale(Phase[1])
        BY <4>2, <4>4
      <4>5. CASE ~Stale(Phase[1]) /\ Stale(Phase[2])
        BY <4>3, <4>5
      <4>6. CASE ~Stale(Phase[1]) /\ ~Stale(Phase[2]) /\ Stale(Phase[3])
        BY <4>3, <4>6
      <4>7. CASE ~Stale(Phase[1]) /\ ~Stale(Phase[2]) /\ ~Stale(Phase[3])
        <5>1. Stale(Phase[4])
          BY <2>2, <4>1, <4>7
        <5> QED BY <4>3, <4>7, <5>1
      <4> QED BY <4>4, <4>5, <4>6, <4>7
    <3>2. reached \in 1..4 /\ \A j \in 1..(reached - 1) : ~Stale(Phase[j])
      BY <3>1
    <3> HIDE DEF reached, stale
    <3>3. first = Resume(Phase[reached])
      BY <2>2
    <3>4. reached = 4
      <4>1. reached \in {1, 2, 3, 4}
        BY <3>2
      <4>2. Phase[reached] # None
        BY <3>2, PhaseOrder
      <4>3. Resume(Phase[reached]) \in {Phase[reached], "reviewer"}
        BY DEF Resume
      <4>4. Phase[reached] = "archive"
        BY <1>2, <1>3, <3>3, <4>2, <4>3
      <4> QED
        BY <4>1, <4>4, PhaseOrder
    <3>5. ~Stale(Phase[1]) /\ ~Stale(Phase[2]) /\ ~Stale(Phase[3])
      BY <3>2, <3>4
    <3> QED
      BY <3>5, PhaseOrder
  <2> QED BY <2>1, <2>2
<1>5. Done("developer") /\ Done("reviewer")
  BY <1>4 DEF Stale
<1> QED
  BY <1>3, <1>4, <1>5

LEMMA ResumeSound == JournalInv => ResumeIsSound
<1> SUFFICES ASSUME JournalInv, ResumePhase \in {"archive", None}
             PROVE  /\ phase["reviewer"].candidate = Cand /\ phase["architect"].artifact = Art
                    /\ \A c \in Command : <<plan, Cand, c>> \in passed
                    /\ <<plan, Cand, Art>> \in accepted
  BY DEF ResumeIsSound
<1>1. /\ ~Stale("architect") /\ ~Stale("developer") /\ ~Stale("reviewer")
      /\ ReceiptValid /\ AcceptanceValid
  BY BehindReview
<1>2. phase["architect"].artifact = Art /\ phase["reviewer"].candidate = Cand
  BY <1>1 DEF Stale, ReviewedCandidate
<1> QED
  BY <1>1, <1>2, ValidPassed, ValidAccepted

-----------------------------------------------------------------------------
\* Every journal keeps its type, and one verification reached most works.
THEOREM PipelineTypeCorrect == PipelineSpec => []PipelineTypeOK
<1>1. JournalInv => PipelineTypeOK
  BY DEF JournalInv
<1> QED
  BY <1>1, JournalInit, JournalNext, PTL DEF PipelineSpec

\* A valid full receipt passed every check of the plan on its very candidate, whatever
\* verifications overlapped, whatever was edited and whichever receipt was restored.
THEOREM ReceiptsPassed == PipelineSpec => []ReceiptPassed
BY JournalInit, JournalNext, ReceiptSound, PTL DEF PipelineSpec

\* What is archived passed every check and was accepted with exactly those artifacts.
THEOREM ArchiveReviewed == PipelineSpec => []ArchivedIsReviewed
<1>1. JournalInv => ArchivedIsReviewed
  BY DEF JournalInv
<1> QED
  BY <1>1, JournalInit, JournalNext, PTL DEF PipelineSpec

\* A run that says it may go on behind the review has reviewed, verified and accepted what is there.
THEOREM ResumesSound == PipelineSpec => []ResumeIsSound
BY JournalInit, JournalNext, ResumeSound, PTL DEF PipelineSpec

\* The journal tells the truth reached each of its gates, for any plans, checks, verifications and edits.
THEOREM PipelineSound == PipelineSpec => []PhasesSound
<1>1. JournalInv => ArchivedIsReviewed
  BY DEF JournalInv
<1>2. JournalInv => PhasesSound
  BY <1>1, ReceiptSound, ResumeSound DEF PhasesSound
<1> QED
  BY <1>2, JournalInit, JournalNext, PTL DEF PipelineSpec

-----------------------------------------------------------------------------
(* The composition. *)

journalsVars == <<component, vars, hosts, pipelineVars, locks, projects, frameworks, forks>>

\* In the composition the lease and the pipeline journal behave as they do alone.
THEOREM JournalsImplement == JournalsSpec => Spec /\ PipelineSpec
<1>1. JournalsInit => Init /\ PipelineInit
  BY DEF JournalsInit
<1>2. [JournalsNext]_journalsVars => [Next]_vars /\ [PipelineNext]_pipelineVars
  BY DEF JournalsNext, journalsVars
<1> QED
  BY <1>1, <1>2, PTL DEF JournalsSpec, journalsVars, Spec, PipelineSpec

\* So the gates of the pipeline journal tell the truth there, and the lease keeps its promise.
THEOREM JournalsSound == JournalsSpec => []PhasesSound /\ ImplementsFencedLease
BY JournalsImplement, PipelineSound, LeaseRefinement, PTL

-----------------------------------------------------------------------------
(* The owner locks, whichever of the three protocols they follow. *)

\* Whoever recovers has the guard to itself, whoever has the lock is recorded in it, and
\* what a recovery is about to remove still belongs to a dead process.
LockGuardHeld == \A x \in Process : at[x] \in Locks!Recovering => guard = {x}
HolderRecorded == \A x \in Process : at[x] \in Locks!Inside => file = Locks!Owners(x, TRUE)
CreatorRecorded == \A x \in Process : at[x] = "created" => file = Locks!Owners(x, FALSE)
DeadStaysDead == \A x \in Process : at[x] \in {"dead", "confirmed"} => Locks!Stale

LockInv == Locks!LockTypeOK /\ LockGuardHeld /\ HolderRecorded /\ CreatorRecorded /\ DeadStaysDead

\* Owners tells apart who created a file and whether it was written.
LEMMA OwnersDiffer ==
  ASSUME NEW x, NEW y, NEW v, NEW w, Locks!Owners(x, v) = Locks!Owners(y, w)
  PROVE  x = y /\ v = w
<1>1. [by |-> x, written |-> v] = [by |-> y, written |-> w]
  BY DEF Locks!Owners
<1> QED BY <1>1

\* An owner is what a lock may hold.
LEMMA OwnersTyped ==
  ASSUME NEW x \in Process, NEW w \in BOOLEAN
  PROVE  Locks!Owners(x, w) \subseteq [by : Process, written : BOOLEAN]
BY DEF Locks!Owners

\* The initial state satisfies the invariant.
LEMMA LockInit == Locks!Init => LockInv
BY DEF Locks!Init, LockInv, Locks!LockTypeOK, LockGuardHeld, HolderRecorded, CreatorRecorded, DeadStaysDead, Locks!Recovering, Locks!Inside

\* Every step keeps it.
LEMMA LockNext == LockInv /\ [Locks!Next]_(Locks!vars) => LockInv'
<1> SUFFICES ASSUME LockInv, [Locks!Next]_(Locks!vars) PROVE LockInv'
  OBVIOUS
<1>0. component' \in Locks!Protocols
  BY DEF LockInv, Locks!LockTypeOK, Locks!Next, Locks!vars
<1> USE DEF Locks!Recovering, Locks!Inside, Locks!Go
<1>1. ASSUME UNCHANGED Locks!vars PROVE LockInv'
  BY <1>1 DEF LockInv, Locks!LockTypeOK, LockGuardHeld, HolderRecorded, CreatorRecorded, DeadStaysDead, Locks!Stale, Locks!vars
<1>2. ASSUME NEW x \in Process, Locks!Create(x) PROVE LockInv'
  <2>1. Locks!LockTypeOK'
    <3>1. file' \in {{}, file, Locks!Owners(x, FALSE), Locks!Owners(x, TRUE)}
      BY <1>2 DEF Locks!Create, Locks!Creates
    <3>2. file' \subseteq [by : Process, written : BOOLEAN]
      BY <3>1, OwnersTyped DEF LockInv, Locks!LockTypeOK
    <3>3. guard' \subseteq Process
      BY <1>2 DEF LockInv, Locks!LockTypeOK, Locks!Create, Locks!Creates
    <3>4. at' \in [Process -> {"idle", "refused", "created", "retry", "again", "died"} \union Locks!Recovering \union Locks!Inside]
      BY <1>2 DEF LockInv, Locks!LockTypeOK, Locks!Create, Locks!Creates
    <3>5. read' \in [Process -> SUBSET [by : Process, written : BOOLEAN]]
      BY <1>2 DEF LockInv, Locks!LockTypeOK, Locks!Create
    <3> QED BY <1>0, <3>2, <3>3, <3>4, <3>5 DEF Locks!LockTypeOK
  <2>2. LockGuardHeld'
    BY <1>2 DEF LockInv, Locks!LockTypeOK, LockGuardHeld, Locks!Create, Locks!Creates
  <2>3. HolderRecorded'
    BY <1>2 DEF LockInv, Locks!LockTypeOK, LockGuardHeld, HolderRecorded, CreatorRecorded, DeadStaysDead, Locks!Stale, Locks!Owners, Locks!Create, Locks!Creates
  <2>4. CreatorRecorded'
    BY <1>2 DEF LockInv, Locks!LockTypeOK, LockGuardHeld, HolderRecorded, CreatorRecorded, DeadStaysDead, Locks!Stale, Locks!Owners, Locks!Create, Locks!Creates
  <2>5. DeadStaysDead'
    BY <1>2 DEF LockInv, Locks!LockTypeOK, LockGuardHeld, HolderRecorded, CreatorRecorded, DeadStaysDead, Locks!Stale, Locks!Owners, Locks!Create, Locks!Creates
  <2> QED BY <2>1, <2>2, <2>3, <2>4, <2>5 DEF LockInv
<1>3. ASSUME NEW x \in Process, Locks!Publish(x) PROVE LockInv'
  <2>1. Locks!LockTypeOK'
    <3>1. file' \in {{}, file, Locks!Owners(x, FALSE), Locks!Owners(x, TRUE)}
      BY <1>3 DEF Locks!Publish
    <3>2. file' \subseteq [by : Process, written : BOOLEAN]
      BY <3>1, OwnersTyped DEF LockInv, Locks!LockTypeOK
    <3>3. guard' \subseteq Process
      BY <1>3 DEF LockInv, Locks!LockTypeOK, Locks!Publish
    <3>4. at' \in [Process -> {"idle", "refused", "created", "retry", "again", "died"} \union Locks!Recovering \union Locks!Inside]
      BY <1>3 DEF LockInv, Locks!LockTypeOK, Locks!Publish
    <3>5. read' \in [Process -> SUBSET [by : Process, written : BOOLEAN]]
      BY <1>3 DEF LockInv, Locks!LockTypeOK, Locks!Publish
    <3> QED BY <1>0, <3>2, <3>3, <3>4, <3>5 DEF Locks!LockTypeOK
  <2>2. LockGuardHeld'
    BY <1>3 DEF LockInv, Locks!LockTypeOK, LockGuardHeld, Locks!Publish
  <2>3. HolderRecorded'
    <3>1. file' = Locks!Owners(x, TRUE) /\ at' = [at EXCEPT ![x] = "inside"]
      BY <1>3 DEF LockInv, CreatorRecorded, Locks!Publish
    <3>2. \A y \in Process : at[y] \in Locks!Inside => FALSE
      <4> SUFFICES ASSUME NEW y \in Process, at[y] \in Locks!Inside PROVE FALSE
        OBVIOUS
      <4>1. Locks!Owners(y, TRUE) = Locks!Owners(x, FALSE)
        BY <1>3 DEF LockInv, HolderRecorded, CreatorRecorded, Locks!Publish
      <4> QED BY <4>1, OwnersDiffer
    <3> QED BY <3>1, <3>2 DEF LockInv, Locks!LockTypeOK, HolderRecorded
  <2>4. CreatorRecorded'
    <3>1. at' = [at EXCEPT ![x] = "inside"] /\ at[x] = "created"
      BY <1>3 DEF Locks!Publish
    <3>2. \A y \in Process : at[y] = "created" => y = x
      <4> SUFFICES ASSUME NEW y \in Process, at[y] = "created" PROVE y = x
        OBVIOUS
      <4>1. Locks!Owners(y, FALSE) = Locks!Owners(x, FALSE)
        BY <3>1 DEF LockInv, CreatorRecorded
      <4> QED BY <4>1, OwnersDiffer
    <3> QED BY <3>1, <3>2 DEF LockInv, Locks!LockTypeOK, CreatorRecorded
  <2>5. DeadStaysDead'
    BY <1>3 DEF LockInv, Locks!LockTypeOK, LockGuardHeld, HolderRecorded, CreatorRecorded, DeadStaysDead, Locks!Stale, Locks!Owners, Locks!Publish
  <2> QED BY <2>1, <2>2, <2>3, <2>4, <2>5 DEF LockInv
<1>4. ASSUME NEW x \in Process, Locks!PublishFails(x) PROVE LockInv'
  <2>1. Locks!LockTypeOK'
    BY <1>0, <1>4, OwnersTyped DEF LockInv, Locks!LockTypeOK, Locks!PublishFails
  <2>2. LockGuardHeld'
    BY <1>4 DEF LockInv, Locks!LockTypeOK, LockGuardHeld, Locks!PublishFails
  <2>3. HolderRecorded'
    BY <1>4 DEF LockInv, Locks!LockTypeOK, LockGuardHeld, HolderRecorded, CreatorRecorded, DeadStaysDead, Locks!Stale, Locks!Owners, Locks!PublishFails
  <2>4. CreatorRecorded'
    BY <1>4 DEF LockInv, Locks!LockTypeOK, LockGuardHeld, HolderRecorded, CreatorRecorded, DeadStaysDead, Locks!Stale, Locks!Owners, Locks!PublishFails
  <2>5. DeadStaysDead'
    BY <1>4 DEF LockInv, Locks!LockTypeOK, LockGuardHeld, HolderRecorded, CreatorRecorded, DeadStaysDead, Locks!Stale, Locks!Owners, Locks!PublishFails
  <2> QED BY <2>1, <2>2, <2>3, <2>4, <2>5 DEF LockInv
<1>5. ASSUME NEW x \in Process, Locks!EnterGuard(x) PROVE LockInv'
  <2>1. Locks!LockTypeOK'
    BY <1>0, <1>5, OwnersTyped DEF LockInv, Locks!LockTypeOK, Locks!EnterGuard
  <2>2. LockGuardHeld'
    BY <1>5 DEF LockInv, Locks!LockTypeOK, LockGuardHeld, Locks!EnterGuard
  <2>3. HolderRecorded'
    BY <1>5 DEF LockInv, Locks!LockTypeOK, LockGuardHeld, HolderRecorded, CreatorRecorded, DeadStaysDead, Locks!Stale, Locks!Owners, Locks!EnterGuard
  <2>4. CreatorRecorded'
    BY <1>5 DEF LockInv, Locks!LockTypeOK, LockGuardHeld, HolderRecorded, CreatorRecorded, DeadStaysDead, Locks!Stale, Locks!Owners, Locks!EnterGuard
  <2>5. DeadStaysDead'
    BY <1>5 DEF LockInv, Locks!LockTypeOK, LockGuardHeld, HolderRecorded, CreatorRecorded, DeadStaysDead, Locks!Stale, Locks!Owners, Locks!EnterGuard
  <2> QED BY <2>1, <2>2, <2>3, <2>4, <2>5 DEF LockInv
<1>6. ASSUME NEW x \in Process, Locks!ReadOwner(x) PROVE LockInv'
  <2>1. Locks!LockTypeOK'
    BY <1>0, <1>6, OwnersTyped DEF LockInv, Locks!LockTypeOK, Locks!ReadOwner, Locks!Leaves
  <2>2. LockGuardHeld'
    BY <1>6 DEF LockInv, Locks!LockTypeOK, LockGuardHeld, Locks!ReadOwner, Locks!Leaves
  <2>3. HolderRecorded'
    BY <1>6 DEF LockInv, Locks!LockTypeOK, LockGuardHeld, HolderRecorded, CreatorRecorded, DeadStaysDead, Locks!Stale, Locks!Owners, Locks!ReadOwner, Locks!Leaves
  <2>4. CreatorRecorded'
    BY <1>6 DEF LockInv, Locks!LockTypeOK, LockGuardHeld, HolderRecorded, CreatorRecorded, DeadStaysDead, Locks!Stale, Locks!Owners, Locks!ReadOwner, Locks!Leaves
  <2>5. DeadStaysDead'
    BY <1>6 DEF LockInv, Locks!LockTypeOK, LockGuardHeld, HolderRecorded, CreatorRecorded, DeadStaysDead, Locks!Stale, Locks!Owners, Locks!ReadOwner, Locks!Leaves
  <2> QED BY <2>1, <2>2, <2>3, <2>4, <2>5 DEF LockInv
<1>7. ASSUME NEW x \in Process, Locks!Confirm(x) PROVE LockInv'
  <2>1. Locks!LockTypeOK'
    BY <1>0, <1>7, OwnersTyped DEF LockInv, Locks!LockTypeOK, Locks!Confirm, Locks!Leaves
  <2>2. LockGuardHeld'
    BY <1>7 DEF LockInv, Locks!LockTypeOK, LockGuardHeld, Locks!Confirm, Locks!Leaves
  <2>3. HolderRecorded'
    BY <1>7 DEF LockInv, Locks!LockTypeOK, LockGuardHeld, HolderRecorded, CreatorRecorded, DeadStaysDead, Locks!Stale, Locks!Owners, Locks!Confirm, Locks!Leaves
  <2>4. CreatorRecorded'
    BY <1>7 DEF LockInv, Locks!LockTypeOK, LockGuardHeld, HolderRecorded, CreatorRecorded, DeadStaysDead, Locks!Stale, Locks!Owners, Locks!Confirm, Locks!Leaves
  <2>5. DeadStaysDead'
    BY <1>7 DEF LockInv, Locks!LockTypeOK, LockGuardHeld, HolderRecorded, CreatorRecorded, DeadStaysDead, Locks!Stale, Locks!Owners, Locks!Confirm, Locks!Leaves
  <2> QED BY <2>1, <2>2, <2>3, <2>4, <2>5 DEF LockInv
<1>8. ASSUME NEW x \in Process, Locks!Remove(x) PROVE LockInv'
  <2>1. Locks!LockTypeOK'
    BY <1>0, <1>8, OwnersTyped DEF LockInv, Locks!LockTypeOK, Locks!Remove
  <2>2. LockGuardHeld'
    BY <1>8 DEF LockInv, Locks!LockTypeOK, LockGuardHeld, Locks!Remove
  <2>3. HolderRecorded'
    BY <1>8 DEF LockInv, Locks!LockTypeOK, LockGuardHeld, HolderRecorded, CreatorRecorded, DeadStaysDead, Locks!Stale, Locks!Owners, Locks!Remove
  <2>4. CreatorRecorded'
    BY <1>8 DEF LockInv, Locks!LockTypeOK, LockGuardHeld, HolderRecorded, CreatorRecorded, DeadStaysDead, Locks!Stale, Locks!Owners, Locks!Remove
  <2>5. DeadStaysDead'
    BY <1>8 DEF LockInv, Locks!LockTypeOK, LockGuardHeld, HolderRecorded, CreatorRecorded, DeadStaysDead, Locks!Stale, Locks!Owners, Locks!Remove
  <2> QED BY <2>1, <2>2, <2>3, <2>4, <2>5 DEF LockInv
<1>9. ASSUME NEW x \in Process, Locks!Recreate(x) PROVE LockInv'
  <2>1. Locks!LockTypeOK'
    <3>1. file' \in {{}, file, Locks!Owners(x, FALSE), Locks!Owners(x, TRUE)}
      BY <1>9 DEF Locks!Recreate, Locks!Creates
    <3>2. file' \subseteq [by : Process, written : BOOLEAN]
      BY <3>1, OwnersTyped DEF LockInv, Locks!LockTypeOK
    <3>3. guard' \subseteq Process
      BY <1>9 DEF LockInv, Locks!LockTypeOK, Locks!Recreate, Locks!Creates
    <3>4. at' \in [Process -> {"idle", "refused", "created", "retry", "again", "died"} \union Locks!Recovering \union Locks!Inside]
      BY <1>9 DEF LockInv, Locks!LockTypeOK, Locks!Recreate, Locks!Creates
    <3>5. read' \in [Process -> SUBSET [by : Process, written : BOOLEAN]]
      BY <1>9 DEF LockInv, Locks!LockTypeOK, Locks!Recreate
    <3> QED BY <1>0, <3>2, <3>3, <3>4, <3>5 DEF Locks!LockTypeOK
  <2>2. LockGuardHeld'
    BY <1>9 DEF LockInv, Locks!LockTypeOK, LockGuardHeld, Locks!Recreate, Locks!Creates
  <2>3. HolderRecorded'
    BY <1>9 DEF LockInv, Locks!LockTypeOK, LockGuardHeld, HolderRecorded, CreatorRecorded, DeadStaysDead, Locks!Stale, Locks!Owners, Locks!Recreate, Locks!Creates
  <2>4. CreatorRecorded'
    BY <1>9 DEF LockInv, Locks!LockTypeOK, LockGuardHeld, HolderRecorded, CreatorRecorded, DeadStaysDead, Locks!Stale, Locks!Owners, Locks!Recreate, Locks!Creates
  <2>5. DeadStaysDead'
    BY <1>9 DEF LockInv, Locks!LockTypeOK, LockGuardHeld, HolderRecorded, CreatorRecorded, DeadStaysDead, Locks!Stale, Locks!Owners, Locks!Recreate, Locks!Creates
  <2> QED BY <2>1, <2>2, <2>3, <2>4, <2>5 DEF LockInv
<1>10. ASSUME NEW x \in Process, Locks!LinkAgain(x) PROVE LockInv'
  <2>1. Locks!LockTypeOK'
    <3>1. file' \in {{}, file, Locks!Owners(x, FALSE), Locks!Owners(x, TRUE)}
      BY <1>10 DEF Locks!LinkAgain, Locks!Creates
    <3>2. file' \subseteq [by : Process, written : BOOLEAN]
      BY <3>1, OwnersTyped DEF LockInv, Locks!LockTypeOK
    <3>3. guard' \subseteq Process
      BY <1>10 DEF LockInv, Locks!LockTypeOK, Locks!LinkAgain, Locks!Creates
    <3>4. at' \in [Process -> {"idle", "refused", "created", "retry", "again", "died"} \union Locks!Recovering \union Locks!Inside]
      BY <1>10 DEF LockInv, Locks!LockTypeOK, Locks!LinkAgain, Locks!Creates
    <3>5. read' \in [Process -> SUBSET [by : Process, written : BOOLEAN]]
      BY <1>10 DEF LockInv, Locks!LockTypeOK, Locks!LinkAgain
    <3> QED BY <1>0, <3>2, <3>3, <3>4, <3>5 DEF Locks!LockTypeOK
  <2>2. LockGuardHeld'
    BY <1>10 DEF LockInv, Locks!LockTypeOK, LockGuardHeld, Locks!LinkAgain, Locks!Creates
  <2>3. HolderRecorded'
    BY <1>10 DEF LockInv, Locks!LockTypeOK, LockGuardHeld, HolderRecorded, CreatorRecorded, DeadStaysDead, Locks!Stale, Locks!Owners, Locks!LinkAgain, Locks!Creates
  <2>4. CreatorRecorded'
    BY <1>10 DEF LockInv, Locks!LockTypeOK, LockGuardHeld, HolderRecorded, CreatorRecorded, DeadStaysDead, Locks!Stale, Locks!Owners, Locks!LinkAgain, Locks!Creates
  <2>5. DeadStaysDead'
    BY <1>10 DEF LockInv, Locks!LockTypeOK, LockGuardHeld, HolderRecorded, CreatorRecorded, DeadStaysDead, Locks!Stale, Locks!Owners, Locks!LinkAgain, Locks!Creates
  <2> QED BY <2>1, <2>2, <2>3, <2>4, <2>5 DEF LockInv
<1>11. ASSUME NEW x \in Process, Locks!Leave(x) PROVE LockInv'
  <2>1. Locks!LockTypeOK'
    BY <1>0, <1>11, OwnersTyped DEF LockInv, Locks!LockTypeOK, Locks!Leave, Locks!Owned
  <2>2. LockGuardHeld'
    BY <1>11 DEF LockInv, Locks!LockTypeOK, LockGuardHeld, Locks!Leave, Locks!Owned
  <2>3. HolderRecorded'
    BY <1>11 DEF LockInv, Locks!LockTypeOK, LockGuardHeld, HolderRecorded, CreatorRecorded, DeadStaysDead, Locks!Stale, Locks!Owners, Locks!Leave, Locks!Owned
  <2>4. CreatorRecorded'
    BY <1>11 DEF LockInv, Locks!LockTypeOK, LockGuardHeld, HolderRecorded, CreatorRecorded, DeadStaysDead, Locks!Stale, Locks!Owners, Locks!Leave, Locks!Owned
  <2>5. DeadStaysDead'
    BY <1>11 DEF LockInv, Locks!LockTypeOK, LockGuardHeld, HolderRecorded, CreatorRecorded, DeadStaysDead, Locks!Stale, Locks!Owners, Locks!Leave, Locks!Owned
  <2> QED BY <2>1, <2>2, <2>3, <2>4, <2>5 DEF LockInv
<1>12. ASSUME NEW x \in Process, Locks!Release(x) PROVE LockInv'
  <2>1. Locks!LockTypeOK'
    BY <1>0, <1>12, OwnersTyped DEF LockInv, Locks!LockTypeOK, Locks!Release
  <2>2. LockGuardHeld'
    BY <1>12 DEF LockInv, Locks!LockTypeOK, LockGuardHeld, Locks!Release
  <2>3. HolderRecorded'
    BY <1>12 DEF LockInv, Locks!LockTypeOK, LockGuardHeld, HolderRecorded, CreatorRecorded, DeadStaysDead, Locks!Stale, Locks!Owners, Locks!Release
  <2>4. CreatorRecorded'
    BY <1>12 DEF LockInv, Locks!LockTypeOK, LockGuardHeld, HolderRecorded, CreatorRecorded, DeadStaysDead, Locks!Stale, Locks!Owners, Locks!Release
  <2>5. DeadStaysDead'
    BY <1>12 DEF LockInv, Locks!LockTypeOK, LockGuardHeld, HolderRecorded, CreatorRecorded, DeadStaysDead, Locks!Stale, Locks!Owners, Locks!Release
  <2> QED BY <2>1, <2>2, <2>3, <2>4, <2>5 DEF LockInv
<1>13. ASSUME NEW x \in Process, Locks!TryAgain(x) PROVE LockInv'
  <2>1. Locks!LockTypeOK'
    BY <1>0, <1>13, OwnersTyped DEF LockInv, Locks!LockTypeOK, Locks!TryAgain
  <2>2. LockGuardHeld'
    BY <1>13 DEF LockInv, Locks!LockTypeOK, LockGuardHeld, Locks!TryAgain
  <2>3. HolderRecorded'
    BY <1>13 DEF LockInv, Locks!LockTypeOK, LockGuardHeld, HolderRecorded, CreatorRecorded, DeadStaysDead, Locks!Stale, Locks!Owners, Locks!TryAgain
  <2>4. CreatorRecorded'
    BY <1>13 DEF LockInv, Locks!LockTypeOK, LockGuardHeld, HolderRecorded, CreatorRecorded, DeadStaysDead, Locks!Stale, Locks!Owners, Locks!TryAgain
  <2>5. DeadStaysDead'
    BY <1>13 DEF LockInv, Locks!LockTypeOK, LockGuardHeld, HolderRecorded, CreatorRecorded, DeadStaysDead, Locks!Stale, Locks!Owners, Locks!TryAgain
  <2> QED BY <2>1, <2>2, <2>3, <2>4, <2>5 DEF LockInv
<1>14. ASSUME NEW x \in Process, Locks!Die(x) PROVE LockInv'
  <2>1. Locks!LockTypeOK'
    BY <1>0, <1>14, OwnersTyped DEF LockInv, Locks!LockTypeOK, Locks!Die
  <2>2. LockGuardHeld'
    BY <1>14 DEF LockInv, Locks!LockTypeOK, LockGuardHeld, Locks!Die
  <2>3. HolderRecorded'
    BY <1>14 DEF LockInv, Locks!LockTypeOK, LockGuardHeld, HolderRecorded, CreatorRecorded, DeadStaysDead, Locks!Stale, Locks!Owners, Locks!Die
  <2>4. CreatorRecorded'
    BY <1>14 DEF LockInv, Locks!LockTypeOK, LockGuardHeld, HolderRecorded, CreatorRecorded, DeadStaysDead, Locks!Stale, Locks!Owners, Locks!Die
  <2>5. DeadStaysDead'
    BY <1>14 DEF LockInv, Locks!LockTypeOK, LockGuardHeld, HolderRecorded, CreatorRecorded, DeadStaysDead, Locks!Stale, Locks!Owners, Locks!Die
  <2> QED BY <2>1, <2>2, <2>3, <2>4, <2>5 DEF LockInv
<1> QED BY <1>1, <1>2, <1>3, <1>4, <1>5, <1>6, <1>7, <1>8, <1>9, <1>10, <1>11, <1>12, <1>13, <1>14 DEF Locks!Next

\* The invariant keeps two processes apart.
LEMMA HoldersApart == LockInv => Locks!Exclusive
<1> SUFFICES ASSUME LockInv, NEW x \in Process, NEW y \in Process, at[x] \in Locks!Inside, at[y] \in Locks!Inside
             PROVE  x = y
  BY DEF Locks!Exclusive
<1>1. Locks!Owners(x, TRUE) = Locks!Owners(y, TRUE)
  BY DEF LockInv, HolderRecorded
<1> QED BY <1>1, OwnersDiffer

\* Type correctness of the owner locks.
THEOREM LockTypeCorrect == Locks!Spec => []Locks!LockTypeOK
<1>1. LockInv => Locks!LockTypeOK
  BY DEF LockInv
<1> QED BY <1>1, LockInit, LockNext, PTL DEF Locks!Spec

\* At most one process is inside the lock of pipeline journals, framework stores and workflow
\* leases: the guard serializes recoveries, and only the lock of a dead process is removed.
THEOREM LockIsExclusive == Locks!Spec => []Locks!Exclusive
BY HoldersApart, LockInit, LockNext, PTL DEF Locks!Spec

-----------------------------------------------------------------------------
(* The owner locks in the composition. *)

\* The protocol of the locks is the component of the behaviour.
LocksInv == component \in Locks!Protocols => LockInv

LEMMA LocksInit == JournalsInit => LocksInv
<1>1. JournalsInit /\ component \in Locks!Protocols => Locks!Init
  BY DEF JournalsInit, Locks!Protocols
<1> QED
  BY <1>1, LockInit DEF LocksInv

LEMMA LocksNext == LocksInv /\ [JournalsNext]_journalsVars => LocksInv'
<1> SUFFICES ASSUME LocksInv, [JournalsNext]_journalsVars, component' \in Locks!Protocols PROVE LockInv'
  BY DEF LocksInv
<1>1. UNCHANGED component
  BY DEF JournalsNext, journalsVars
<1>2. [Locks!Next]_(Locks!vars)
  BY <1>1 DEF JournalsNext, journalsVars, locks, Locks!vars, Locks!Protocols
<1> QED BY <1>1, <1>2, LockNext DEF LocksInv

\* At most one process is inside a journal, a framework store or a workflow directory.
THEOREM JournalsExclusive == JournalsSpec => []Exclusive
<1>1. LocksInv => Exclusive
  BY HoldersApart DEF LocksInv, Exclusive
<1> QED
  BY <1>1, LocksInit, LocksNext, PTL DEF JournalsSpec, journalsVars

-----------------------------------------------------------------------------
HostsInv == component = "hosts" => Hosts!HostInv

LEMMA HostsInit == Hosts!HostAssumption /\ JournalsInit => HostsInv
<1>1. JournalsInit => (component = "hosts" => Hosts!Init)
  BY DEF JournalsInit, Locks!Init, Locks!Protocols
<1> QED
  BY <1>1, Hosts!HostInit DEF HostsInv

LEMMA HostsNext == Hosts!HostAssumption /\ HostsInv /\ [JournalsNext]_journalsVars => HostsInv'
<1> SUFFICES ASSUME Hosts!HostAssumption, HostsInv, [JournalsNext]_journalsVars PROVE HostsInv'
  OBVIOUS
<1>1. UNCHANGED component
  BY DEF JournalsNext, journalsVars
<1>2. CASE component = "hosts"
  <2>1. [Hosts!Next]_(Hosts!vars)
    BY <1>2 DEF JournalsNext, journalsVars, hosts, Hosts!vars, Hosts!db, Hosts!feed
  <2> QED BY <1>1, <1>2, <2>1, Hosts!HostNext DEF HostsInv
<1> QED
  BY <1>1, <1>2 DEF HostsInv

\* Under the lease of a serving host nothing is under way but its own work, and no delegated
\* child is open but its own.
THEOREM JournalsSettled ==
  ASSUME None \notin Session
  PROVE  JournalsSpec => []OrphansSettled
<1>1. Hosts!HostAssumption
  BY DEF Hosts!HostAssumption
<1>2. HostsInv => OrphansSettled
  BY DEF HostsInv, Hosts!HostInv, OrphansSettled
<1>3. JournalsInit => HostsInv
  BY <1>1, HostsInit
<1>4. HostsInv /\ [JournalsNext]_journalsVars => HostsInv'
  BY <1>1, HostsNext
<1> QED
  BY <1>2, <1>3, <1>4, PTL DEF JournalsSpec, journalsVars

\* The feeds of the hosts, with the numbers they carry.
FeedsInv == component = "hosts" => Hosts!HostInv /\ Hosts!NumberInv /\ Hosts!FeedInv

LEMMA FeedsInit == Hosts!FeedAssumption /\ JournalsInit => FeedsInv
<1>1. JournalsInit => (component = "hosts" => Hosts!Init)
  BY DEF JournalsInit, Locks!Init, Locks!Protocols
<1>2. Hosts!FeedAssumption => Hosts!HostAssumption
  BY DEF Hosts!FeedAssumption
<1> QED
  BY <1>1, <1>2, Hosts!HostInit, Hosts!NumberInit, Hosts!FeedInit DEF FeedsInv

LEMMA FeedsNext == Hosts!FeedAssumption /\ FeedsInv /\ [JournalsNext]_journalsVars => FeedsInv'
<1> SUFFICES ASSUME Hosts!FeedAssumption, FeedsInv, [JournalsNext]_journalsVars PROVE FeedsInv'
  OBVIOUS
<1>1. UNCHANGED component
  BY DEF JournalsNext, journalsVars
<1>2. CASE component = "hosts"
  <2>1. [Hosts!Next]_(Hosts!vars)
    BY <1>2 DEF JournalsNext, journalsVars, hosts, Hosts!vars, Hosts!db, Hosts!feed
  <2>2. Hosts!HostAssumption
    BY DEF Hosts!FeedAssumption
  <2>3. Hosts!HostInv /\ Hosts!NumberInv /\ Hosts!FeedInv
    BY <1>2 DEF FeedsInv
  <2>4. Hosts!HostInv'
    BY <2>1, <2>2, <2>3, Hosts!HostNext
  <2>5. Hosts!NumberInv'
    BY <2>1, <2>3, Hosts!NumberNext
  <2>6. Hosts!FeedInv'
    BY <2>1, <2>3, Hosts!FeedNext
  <2> QED BY <2>4, <2>5, <2>6 DEF FeedsInv
<1> QED
  BY <1>1, <1>2 DEF FeedsInv

\* What the hosts need of the constants.
HostsAssumption == None \notin Session /\ None \notin Nat /\ QueueLimit \in Nat

LEMMA HostsAssumed == HostsAssumption => Hosts!FeedAssumption
BY DEF HostsAssumption, Hosts!FeedAssumption, Hosts!HostAssumption, MCMaxSeq

\* Nothing is lost to the client of a serving host: an event is received, waits for it, or is
\* after the position of a lag notice.
THEOREM JournalsFeed ==
  ASSUME HostsAssumption
  PROVE  JournalsSpec => []FeedComplete
<1>1. FeedsInv => FeedComplete
  BY DEF FeedsInv, Hosts!FeedInv, FeedComplete
<1>2. JournalsInit => FeedsInv
  BY HostsAssumed, FeedsInit
<1>3. FeedsInv /\ [JournalsNext]_journalsVars => FeedsInv'
  BY HostsAssumed, FeedsNext
<1> QED
  BY <1>1, <1>2, <1>3, PTL DEF JournalsSpec, journalsVars

-----------------------------------------------------------------------------
(* The registry. While no living process lost its lock file, whoever is in the
   lock has the only lock file there is, and what it read is the registry. *)

\* The lock file is there and is the writer's.
Holds(w) == lock # {} /\ \A l \in lock : l.by = w
Locked == {"created", "inside", "read", "unlocking", "unlinking"}

WriterSound(w) ==
  /\ stage[w] \in Locked => Holds(w)
  /\ stage[w] = "read" => fresh[w] = registry
  /\ result[w] # None => stage[w] \in {"unlocking", "unlinking", "over", "died"} /\ registry[call[w].repo] = result[w]

RegistryShape ==
  /\ registry = [r \in Repo |-> registry[r]] /\ lock \subseteq [by : Writer, written : BOOLEAN]
  /\ stage = [w \in Writer |-> stage[w]] /\ call = [w \in Writer |-> call[w]]
  /\ fresh = [w \in Writer |-> fresh[w]] /\ result = [w \in Writer |-> result[w]]
  /\ \A w \in Writer : fresh[w] = [r \in Repo |-> fresh[w][r]] /\ (stage[w] # "idle" => call[w].repo \in Repo)

RegistryInv == RegistryShape /\ (~broken => \A w \in Writer : WriterSound(w))

LEMMA RegistryInit == Projects!Init => RegistryInv
BY DEF Projects!Init, Projects!Nothing, RegistryInv, RegistryShape, WriterSound, Locked

\* Only one writer has the lock file.
LEMMA OneHolder ==
  ASSUME NEW v, NEW w, Holds(v), Holds(w)
  PROVE  v = w
BY DEF Holds

\* The variables stay functions on writers and repositories.
LEMMA RegistryShapeNext == RegistryShape /\ [Projects!Next]_projects => RegistryShape'
<1> SUFFICES ASSUME RegistryShape, [Projects!Next]_projects PROVE RegistryShape'
  OBVIOUS
<1> USE DEF RegistryShape, Projects!Go
<1>1. CASE UNCHANGED projects
  BY <1>1 DEF projects
<1>2. ASSUME NEW w \in Writer, NEW r \in Repo, Projects!Resolve(w, r) PROVE RegistryShape'
  <2>1. CASE registry[r] # None
    BY <1>2, <2>1 DEF Projects!Resolve
  <2>2. CASE registry[r] = None
    BY <1>2, <2>2 DEF Projects!Resolve
  <2> QED BY <2>1, <2>2
<1>3. ASSUME NEW w \in Writer, NEW r \in Repo, Projects!RecordInstall(w, r) PROVE RegistryShape'
  BY <1>3 DEF Projects!RecordInstall
<1>4. ASSUME NEW w \in Writer, Projects!Open(w) \/ Projects!WriteToken(w) PROVE RegistryShape'
  <2>1. lock' \subseteq [by : Writer, written : BOOLEAN]
    <3>1. CASE Projects!Open(w)
      BY <3>1 DEF Projects!Open
    <3>2. CASE Projects!WriteToken(w)
      BY <3>2 DEF Projects!WriteToken
    <3> QED BY <1>4, <3>1, <3>2
  <2> QED BY <1>4, <2>1 DEF Projects!Open, Projects!WriteToken
<1>7. ASSUME NEW w \in Writer, Projects!Break(w) \/ Projects!Unlink(w) PROVE RegistryShape'
  BY <1>7 DEF Projects!Break, Projects!Unlink
<1>8. ASSUME NEW w \in Writer,
             Projects!FindStale(w) \/ Projects!TimeOut(w) \/ Projects!ReadToken(w) \/ Projects!Die(w)
      PROVE  RegistryShape'
  BY <1>8 DEF Projects!FindStale, Projects!TimeOut, Projects!ReadToken, Projects!Die
<1>9. ASSUME NEW w \in Writer, Projects!ReadRegistry(w) PROVE RegistryShape'
  <2>1. UNCHANGED <<registry, lock, call, result>> /\ stage' = [stage EXCEPT ![w] = "read"]
        /\ fresh' = [fresh EXCEPT ![w] = registry] /\ stage[w] # "idle"
    BY <1>9 DEF Projects!ReadRegistry, Projects!ReadAgain
  <2>2. \A v \in Writer : fresh'[v] = IF v = w THEN registry ELSE fresh[v]
    BY <2>1
  <2>3. \A v \in Writer : fresh'[v] = [r \in Repo |-> fresh'[v][r]]
    BY <2>2
  <2> QED BY <2>1, <2>3
<1>5. ASSUME NEW w \in Writer, Projects!WriteRegistry(w) PROVE RegistryShape'
  <2>1. call[w].repo \in Repo /\ fresh[w] = [r \in Repo |-> fresh[w][r]]
    BY <1>5 DEF Projects!WriteRegistry
  <2>2. UNCHANGED <<lock, call, fresh>> /\ stage' = [stage EXCEPT ![w] = "unlocking"] /\ \A v \in Writer : stage'[v] # "idle" => stage[v] # "idle"
    BY <1>5 DEF Projects!WriteRegistry
  <2>3. registry' = [r \in Repo |-> registry'[r]]
    BY <1>5, <2>1 DEF Projects!WriteRegistry
  <2>4. result' = [v \in Writer |-> result'[v]]
    BY <1>5 DEF Projects!WriteRegistry
  <2> QED BY <2>1, <2>2, <2>3, <2>4
<1>6. CASE Projects!Age
  BY <1>6 DEF Projects!Age
<1> QED
  BY <1>1, <1>2, <1>3, <1>4, <1>5, <1>6, <1>7, <1>8, <1>9 DEF Projects!Next

\* A step keeps what holds of each writer.
LEMMA RegistryNext == RegistryInv /\ [Projects!Next]_projects => RegistryInv'
<1> SUFFICES ASSUME RegistryInv, [Projects!Next]_projects, ~broken', NEW v \in Writer PROVE WriterSound(v)'
  BY RegistryShapeNext DEF RegistryInv
<1>0. RegistryShape /\ ~broken /\ (\A w \in Writer : WriterSound(w)) /\ WriterSound(v)
  <2>1. broken => broken'
    BY DEF projects, Projects!Next, Projects!Resolve, Projects!RecordInstall, Projects!Open, Projects!WriteToken,
           Projects!FindStale, Projects!Break, Projects!TimeOut, Projects!ReadRegistry, Projects!WriteRegistry,
           Projects!ReadToken, Projects!Unlink, Projects!Die, Projects!Age
  <2> QED BY <2>1 DEF RegistryInv
<1>a. \A w \in Writer : stage[w] \in Locked /\ stage[v] \in Locked => v = w
  BY <1>0, OneHolder DEF WriterSound
<1> USE <1>0 DEF RegistryShape, WriterSound, Holds, Locked, Projects!Go
<1>1. CASE UNCHANGED projects
  BY <1>1 DEF projects
<1>2. ASSUME NEW w \in Writer, NEW r \in Repo, Projects!Resolve(w, r) PROVE WriterSound(v)'
  <2>1. CASE v = w
    BY <1>2, <2>1 DEF Projects!Resolve
  <2>2. CASE v # w
    BY <1>2, <2>2 DEF Projects!Resolve
  <2> QED BY <2>1, <2>2
<1>3. ASSUME NEW w \in Writer, NEW r \in Repo, Projects!RecordInstall(w, r) PROVE WriterSound(v)'
  BY <1>3 DEF Projects!RecordInstall
<1>4. ASSUME NEW w \in Writer, Projects!Open(w) PROVE WriterSound(v)'
  BY <1>4 DEF Projects!Open
<1>5. ASSUME NEW w \in Writer, Projects!WriteToken(w) PROVE WriterSound(v)'
  <2>1. stage[v] \in Locked => lock' # {} /\ \A l \in lock' : l.by = v
    <3> SUFFICES ASSUME stage[v] \in Locked PROVE lock' # {} /\ \A l \in lock' : l.by = v
      OBVIOUS
    <3>1. v = w /\ Holds(w)
      BY <1>5, <1>a DEF Projects!WriteToken
    <3> DEFINE Marked(l) == [l EXCEPT !.written = l.written \/ l.by = w]
    <3>2. lock' = {Marked(l) : l \in lock}
      BY <1>5 DEF Projects!WriteToken
    <3>3. ASSUME NEW l \in lock PROVE Marked(l).by = v
      <4>1. l \in [by : Writer, written : BOOLEAN] /\ l.by = v
        BY <3>1
      <4> QED BY <4>1
    <3> HIDE DEF Marked
    <3> QED BY <3>1, <3>2, <3>3
  <2> QED BY <1>5, <2>1 DEF Projects!WriteToken
<1>6. ASSUME NEW w \in Writer, Projects!FindStale(w) \/ Projects!TimeOut(w) \/ Projects!Die(w) PROVE WriterSound(v)'
  BY <1>6 DEF Projects!FindStale, Projects!TimeOut, Projects!Die
<1>7. ASSUME NEW w \in Writer, Projects!Break(w) PROVE WriterSound(v)'
  <2>1. stage[v] \notin Locked
    BY <1>7 DEF Projects!Break
  <2> QED BY <1>7, <2>1 DEF Projects!Break
<1>8. ASSUME NEW w \in Writer, Projects!ReadRegistry(w) PROVE WriterSound(v)'
  BY <1>8 DEF Projects!ReadRegistry, Projects!ReadAgain
<1>9. ASSUME NEW w \in Writer, Projects!WriteRegistry(w) PROVE WriterSound(v)'
  <2> DEFINE repo == call[w].repo
  <2>1. stage[w] = "read" /\ fresh[w] = registry /\ repo \in Repo
    BY <1>9 DEF Projects!WriteRegistry
  <2>2. /\ stage' = [stage EXCEPT ![w] = "unlocking"] /\ UNCHANGED <<lock, call, fresh>>
    BY <1>9 DEF Projects!WriteRegistry
  <2>3. v # w => stage[v] \notin Locked
    BY <1>a, <2>1
  <2>4. CASE call[w].op = "record" \/ registry[repo] # None
    <3>1. registry' = registry /\ (result' = result \/ result' = [result EXCEPT ![w] = registry[repo]])
      BY <1>9, <2>1, <2>4 DEF Projects!WriteRegistry
    <3> QED BY <2>1, <2>2, <2>3, <3>1
  <2>5. CASE call[w].op # "record" /\ registry[repo] = None
    <3>1. PICK slug : registry' = [registry EXCEPT ![repo] = slug] /\ result' = [result EXCEPT ![w] = slug]
      BY <1>9, <2>1, <2>5 DEF Projects!WriteRegistry
    <3> QED BY <2>1, <2>2, <2>3, <2>5, <3>1
  <2> QED BY <2>4, <2>5
<1>10. ASSUME NEW w \in Writer, Projects!ReadToken(w) PROVE WriterSound(v)'
  BY <1>10 DEF Projects!ReadToken
<1>11. ASSUME NEW w \in Writer, Projects!Unlink(w) PROVE WriterSound(v)'
  <2>1. v # w => stage[v] \notin Locked
    BY <1>11, <1>a DEF Projects!Unlink
  <2> QED BY <1>11, <2>1 DEF Projects!Unlink
<1>12. CASE Projects!Age
  BY <1>12 DEF Projects!Age
<1> QED
  BY <1>1, <1>2, <1>3, <1>4, <1>5, <1>6, <1>7, <1>8, <1>9, <1>10, <1>11, <1>12 DEF Projects!Next

LEMMA RegistryHandsOut == RegistryInv => Projects!HandedOutStays
BY DEF RegistryInv, WriterSound, Projects!HandedOutStays

ProjectsInv == component = "registry" => RegistryInv

LEMMA ProjectsNext == ProjectsInv /\ [JournalsNext]_journalsVars => ProjectsInv'
<1> SUFFICES ASSUME ProjectsInv, [JournalsNext]_journalsVars PROVE ProjectsInv'
  OBVIOUS
<1>1. UNCHANGED component
  BY DEF JournalsNext, journalsVars
<1>2. CASE component = "registry"
  <2>1. [Projects!Next]_projects
    BY <1>2 DEF JournalsNext, journalsVars
  <2> QED BY <1>1, <1>2, <2>1, RegistryNext DEF ProjectsInv
<1> QED
  BY <1>1, <1>2 DEF ProjectsInv

\* While no living process lost its lock file to an age it had not reached, a slug that was
\* handed out to a repository stays the entry of that repository.
THEOREM JournalsHandOut == JournalsSpec => []HandedOutStays
<1>1. JournalsInit => ProjectsInv
  BY RegistryInit DEF JournalsInit, Locks!Init, Locks!Protocols, ProjectsInv
<1>2. ProjectsInv => HandedOutStays
  BY RegistryHandsOut DEF ProjectsInv, HandedOutStays
<1> QED
  BY <1>1, <1>2, ProjectsNext, PTL DEF JournalsSpec, journalsVars

-----------------------------------------------------------------------------
(* The framework store. The inductive invariant says what the holder of the
   lifecycle lock remembers and what it must still put back: WorkInv where it
   stands, PointerInv what the pointer serves meanwhile. *)

FrameworkAssumption ==
  /\ MCAsked \subseteq Store!Commands
  /\ None \notin Version \union Owner \union Store!Trees \union Store!Commands \union Store!Surfaces
  /\ None \notin [version : Version, trees : Store!Trees]

AtWork == {"materialize", "publish", "swap", "assemble", "openspec", "record",
            "remove", "repoint", "restore", "failed", "done"}

\* Who works has the lock, and knows what it was asked.
HolderSound ==
  /\ \A c \in Owner : step[c] \in AtWork => holder = c
  /\ holder # None => step[holder] \in AtWork
  /\ \A c \in Owner : step[c] \in AtWork \union {"waiting"} => cmd[c] \in Store!Commands
  /\ holder = None => saved = None /\ aside = None

\* Where the holder stands says what it was asked to do, and what it must remember.
StageSound(c) ==
  /\ step[c] \in {"materialize", "publish"} => Store!Kind(c) \in {"init", "install", "stage"}
  /\ step[c] = "swap" => Store!Kind(c) \in {"init", "install", "swap"}
  /\ step[c] = "assemble" => Store!Kind(c) \in {"init", "assemble"}
  /\ step[c] \in {"openspec", "record", "remove", "repoint", "restore"} => Store!Kind(c) = "init"
  /\ saved # None <=> Store!Kind(c) = "init"
  /\ aside # None => step[c] = "publish" /\ aside.version = Store!Target(c)
  /\ step[c] = "publish" => store[Store!Target(c)] = None

\* What is linked is registered, and so required of the version the pointer will name.
LinksRegistered ==
  /\ \A j \in Project : linked[j] \subseteq registered[j]
  /\ \A c \in Owner : step[c] \in AtWork \union {"waiting"} /\ Store!Kind(c) \in {"init", "assemble"} =>
       cmd[c].provider \in registered[Store!Job(c)]
  /\ saved # None => saved.linked \subseteq registered[Store!Job(holder)]

Requires(c) ==
  /\ step[c] \in {"materialize", "publish", "swap", "assemble"} /\ Store!Kind(c) \in {"init", "install", "swap"} =>
       \A j \in Project : linked[j] \subseteq required
  /\ step[c] \in {"materialize", "publish", "swap", "assemble"} /\ Store!Kind(c) = "init" =>
       saved.linked \union {cmd[c].provider} \subseteq required

\* What an installation remembers is what it found.
Remembers(c) ==
  saved # None =>
    /\ step[c] \in {"materialize", "publish", "swap"} =>
         linked[Store!Job(c)] = saved.linked /\ current = saved.current
    /\ step[c] = "restore" => current = saved.current
    /\ step[c] = "publish" /\ saved.present => aside # None
    /\ step[c] \in {"materialize", "swap", "assemble", "openspec", "record", "remove"} /\ saved.present =>
         store[Store!Target(c)] # None
    /\ step[c] \in {"repoint", "restore"} => (store[Store!Target(c)] # None <=> saved.present)

WorkInv ==
  /\ Store!InstallTypeOK /\ HolderSound /\ LinksRegistered
  /\ holder # None => StageSound(holder) /\ Requires(holder) /\ Remembers(holder)

\* A version is there and serves what the workspaces link.
Good(links, v) == (v # None => store[v] # None) /\ \A j \in Project : \A s \in links[j] : Store!Serves(v, s)
Found(c) == [linked EXCEPT ![Store!Job(c)] = saved.linked]

PointerSound(c) ==
  /\ step[c] \in {"materialize", "swap", "assemble", "openspec", "record", "remove", "failed", "done"} => Good(linked, current)
  /\ step[c] = "publish" /\ current # Store!Target(c) => Good(linked, current)
  /\ step[c] = "publish" /\ current = Store!Target(c) =>
       aside # None /\ \A j \in Project : \A s \in linked[j] : aside.trees[s] # "none"
  /\ step[c] = "repoint" /\ current = saved.current => Good(linked, current)
  /\ step[c] = "assemble" /\ Store!Kind(c) = "init" => \A s \in required : Store!Serves(current, s)
  /\ step[c] = "assemble" /\ Store!Kind(c) = "assemble" => Store!Serves(current, cmd[c].provider)
  /\ saved # None /\ step[c] \notin {"publish", "failed", "done"} => Good(Found(c), saved.current)
  /\ saved # None => (~saved.present => saved.current # Store!Target(c))

PointerInv ==
  ~torn => IF holder = None THEN Good(linked, current) ELSE PointerSound(holder)

FrameworkInv == WorkInv /\ PointerInv

\* What a command names.
LEMMA CommandNames ==
  ASSUME NEW x \in Store!Commands
  PROVE  /\ x.version \in Version /\ x.provider \in Provider
         /\ x.kind \in {"init", "assemble", "install", "stage", "swap"}
         /\ x.kind \in {"init", "assemble"} => x.project \in Project
BY DEF Store!Commands

\* The same of the command of whoever waits or works.
LEMMA CommandKnown ==
  ASSUME FrameworkAssumption, HolderSound, NEW c \in Owner, step[c] \in AtWork \union {"waiting"}
  PROVE  /\ cmd[c] \in Store!Commands /\ Store!Target(c) \in Version /\ cmd[c].provider \in Provider
         /\ Store!Kind(c) \in {"init", "assemble", "install", "stage", "swap"}
         /\ Store!Kind(c) \in {"init", "assemble"} => Store!Job(c) \in Project
<1>1. cmd[c] \in Store!Commands
  BY DEF HolderSound
<1> QED BY <1>1, CommandNames DEF Store!Target, Store!Kind, Store!Job

LEMMA FrameworkInit == FrameworkAssumption /\ Store!Init => FrameworkInv
<1> SUFFICES ASSUME FrameworkAssumption, Store!Init PROVE FrameworkInv
  OBVIOUS
<1>1. linked \in [Project -> SUBSET Provider] /\ store \in [Version -> Store!Trees \union {None}] /\ current \in Version \union {None}
  <2>1. CASE current = None
    BY <2>1 DEF Store!Init, FrameworkAssumption
  <2>2. CASE current # None
    <3>1. PICK trees \in Store!Trees \ {Store!NoTrees}, staged \in SUBSET Provider, i \in Project :
             /\ store = [v \in Version |->
                  IF v = current THEN trees
                  ELSE IF staged = {} THEN None
                  ELSE [s \in Provider |-> IF s \in staged THEN "whole" ELSE "none"]]
             /\ linked = [j \in Project |-> IF j = i THEN {s \in Provider : trees[s] # "none"} ELSE {}]
      BY <2>2 DEF Store!Init
    <3>2. [s \in Provider |-> IF s \in staged THEN "whole" ELSE "none"] \in Store!Trees
      BY DEF Store!Trees, Store!Tree
    <3> QED BY <2>2, <3>1, <3>2 DEF Store!Init
  <2> QED BY <2>1, <2>2
<1>2. Good(linked, current)
  <2>1. CASE current = None
    BY <2>1 DEF Store!Init, Good, FrameworkAssumption
  <2>2. CASE current # None
    <3>1. PICK trees \in Store!Trees \ {Store!NoTrees}, staged \in SUBSET Provider, i \in Project :
             /\ store = [v \in Version |->
                  IF v = current THEN trees
                  ELSE IF staged = {} THEN None
                  ELSE [s \in Provider |-> IF s \in staged THEN "whole" ELSE "none"]]
             /\ linked = [j \in Project |-> IF j = i THEN {s \in Provider : trees[s] # "none"} ELSE {}]
      BY <2>2 DEF Store!Init
    <3>2. store[current] = trees /\ trees # None
      BY <2>2, <3>1 DEF Store!Init, FrameworkAssumption
    <3> QED BY <2>2, <3>1, <3>2 DEF Good, Store!Serves
  <2> QED BY <2>1, <2>2
<1>3. Store!InstallTypeOK
  BY <1>1 DEF Store!Init, Store!InstallTypeOK
<1>4. HolderSound /\ LinksRegistered
  BY <1>1 DEF Store!Init, HolderSound, LinksRegistered, AtWork
<1> QED
  BY <1>2, <1>3, <1>4 DEF Store!Init, FrameworkInv, WorkInv, PointerInv

\* A step of the holder leaves the lock, the other commands and what the commands are.
LEMMA HolderMoves ==
  ASSUME FrameworkAssumption, Store!InstallTypeOK, HolderSound, NEW c \in Owner, step[c] \in AtWork,
         NEW to \in AtWork, Store!Go(c, to), UNCHANGED <<holder, cmd, saved>>
  PROVE  HolderSound' /\ holder = c /\ holder' = c /\ step'[c] = to
         /\ \A d \in Owner : d # c => step'[d] = step[d] /\ step[d] \notin AtWork
BY DEF FrameworkAssumption, Store!InstallTypeOK, HolderSound, Store!Go, AtWork

\* What the holder does, by the actions.
Works(c) ==
  \/ Store!Reuse(c) \/ Store!SetAside(c) \/ Store!Publish(c) \/ Store!PublishFails(c)
     \/ Store!MaterializeFails(c)
  \/ Store!Materialized(c) \/ Store!Swap(c) \/ Store!Assemble(c) \/ Store!AssembleFails(c)
     \/ Store!OpenSpec(c) \/ Store!Record(c)
  \/ Store!RemoveVersion(c) \/ Store!Repoint(c) \/ Store!Restore(c)

LEMMA HolderWorks ==
  ASSUME FrameworkAssumption, Store!InstallTypeOK, HolderSound, NEW c \in Owner, Works(c)
  PROVE  /\ step[c] \in AtWork /\ holder = c /\ holder' = c /\ UNCHANGED <<holder, cmd, saved, torn>>
         /\ step'[c] \in AtWork /\ HolderSound'
         /\ \A d \in Owner : d # c => step'[d] = step[d] /\ step[d] \notin AtWork
<1> USE DEF Store!Go, Store!Throws, AtWork
<1>1. step[c] \in AtWork /\ UNCHANGED <<holder, cmd, saved, torn>>
  BY
    DEF Works, Store!Reuse, Store!SetAside, Store!Publish, Store!PublishFails, Store!MaterializeFails,
        Store!Materialized, Store!Swap, Store!Assemble, Store!AssembleFails, Store!OpenSpec, Store!Record,
        Store!RemoveVersion, Store!Repoint, Store!Restore
<1>2. \E to \in AtWork : Store!Go(c, to)
  <2> DEFINE Stays == step' = step
  <2>0. Stays => Store!Go(c, step[c])
    BY DEF Store!InstallTypeOK
  <2>1. CASE Store!Reuse(c)
    BY <1>1, <2>0, <2>1 DEF Store!Reuse
  <2>2. CASE Store!SetAside(c) \/ Store!Publish(c) \/ Store!PublishFails(c) \/ Store!MaterializeFails(c)
             \/ Store!Materialized(c)
    BY <2>2 DEF Store!SetAside, Store!Publish, Store!PublishFails, Store!MaterializeFails, Store!Materialized
  <2>3. CASE Store!Swap(c)
    BY <2>3 DEF Store!Swap
  <2>4. CASE Store!Assemble(c)
    BY <1>1, <2>0, <2>4 DEF Store!Assemble
  <2>5. CASE Store!AssembleFails(c) \/ Store!OpenSpec(c) \/ Store!Record(c) \/ Store!RemoveVersion(c)
             \/ Store!Repoint(c) \/ Store!Restore(c)
    BY <2>5
      DEF Store!AssembleFails, Store!OpenSpec, Store!Record, Store!RemoveVersion, Store!Repoint,
          Store!Restore
  <2> QED BY <2>1, <2>2, <2>3, <2>4, <2>5 DEF Works
<1>3. PICK to \in AtWork : Store!Go(c, to)
  BY <1>2
<1> HIDE DEF Store!Go, AtWork
<1> QED BY <1>1, <1>3, HolderMoves

\* The variables keep their types.
LEMMA TypeWorks ==
  ASSUME FrameworkAssumption, Store!InstallTypeOK, HolderSound, NEW c \in Owner, StageSound(c), Works(c)
  PROVE  Store!InstallTypeOK'
<1>1. step[c] \in AtWork /\ UNCHANGED <<holder, cmd, saved, torn>>
  BY HolderWorks
<1>2. /\ Store!Target(c) \in Version /\ cmd[c].provider \in Provider
      /\ Store!Kind(c) \in {"init", "assemble"} => Store!Job(c) \in Project
  BY <1>1, CommandKnown
<1>3. saved # None => /\ saved.current \in Version \union {None} /\ saved.linked \subseteq Provider
                      /\ saved.marker \in Version \union {None}
  BY DEF Store!InstallTypeOK, Store!Surfaces
<1>4. aside # None => aside.version \in Version /\ aside.trees \in Store!Trees
  BY DEF Store!InstallTypeOK
<1> USE DEF Store!InstallTypeOK, Store!Go, Store!Throws
<1>5. CASE Store!Reuse(c) \/ Store!MaterializeFails(c) \/ Store!Materialized(c)
           \/ Store!AssembleFails(c) \/ Store!OpenSpec(c)
  BY <1>5 DEF Store!Reuse, Store!MaterializeFails, Store!Materialized, Store!AssembleFails, Store!OpenSpec
<1>6. CASE Store!SetAside(c)
  BY <1>2, <1>6 DEF Store!SetAside
<1>7. CASE Store!Publish(c)
  <2> DEFINE before == IF aside = None THEN Store!NoTrees ELSE aside.trees
  <2>1. PICK s \in todo : store' = [store EXCEPT ![Store!Target(c)] = [before EXCEPT ![s] = "whole"]] /\ todo' = todo \ {s}
    BY <1>7 DEF Store!Publish
  <2>2. before \in Store!Trees
    BY <1>4 DEF Store!NoTrees, Store!Trees, Store!Tree
  <2>3. [before EXCEPT ![s] = "whole"] \in Store!Trees
    BY <2>2 DEF Store!Trees, Store!Tree
  <2> HIDE DEF before
  <2> QED BY <1>7, <2>1, <2>3 DEF Store!Publish
<1>8. CASE Store!PublishFails(c)
  BY <1>4, <1>8 DEF Store!PublishFails
<1>9. CASE Store!Swap(c) \/ Store!Repoint(c)
  BY <1>2, <1>3, <1>9 DEF Store!Swap, Store!Repoint, StageSound
<1>10. CASE Store!Assemble(c)
  <2>1. PICK s \in Provider : /\ linked' = [linked EXCEPT ![Store!Job(c)] = @ \union {s}]
                              /\ marker' = [marker EXCEPT ![Store!Job(c)] = Store!Target(c)]
    BY <1>2, <1>3, <1>10 DEF Store!Assemble, StageSound
  <2>2. linked' \in [Project -> SUBSET Provider] /\ marker' \in [Project -> Version \union {None}]
    BY <1>2, <2>1
  <2>3. step' = [step EXCEPT ![c] = "openspec"] \/ step' = [step EXCEPT ![c] = "done"] \/ step' = step
    BY <1>10 DEF Store!Assemble
  <2> QED BY <1>10, <2>2, <2>3 DEF Store!Assemble
<1>11. CASE Store!Record(c)
  BY <1>2, <1>11 DEF Store!Record, StageSound
<1>12. CASE Store!RemoveVersion(c)
  BY <1>12 DEF Store!RemoveVersion
<1>13. CASE Store!Restore(c)
  <2>1. saved # None
    BY <1>13 DEF Store!Restore, StageSound
  <2>2. linked' \in [Project -> SUBSET Provider] /\ marker' \in [Project -> Version \union {None}]
    BY <1>3, <2>1, <1>13 DEF Store!Restore
  <2> QED BY <1>13, <2>2 DEF Store!Restore
<1> QED BY <1>5, <1>6, <1>7, <1>8, <1>9, <1>10, <1>11, <1>12, <1>13 DEF Works

\* What is linked stays registered.
LEMMA LinksWork ==
  ASSUME FrameworkAssumption, Store!InstallTypeOK, HolderSound, LinksRegistered, NEW c \in Owner,
         StageSound(c), Works(c)
  PROVE  LinksRegistered'
<1>1. /\ step[c] \in AtWork /\ holder = c /\ holder' = c /\ UNCHANGED <<holder, cmd, saved, torn>>
      /\ step'[c] \in AtWork
      /\ \A d \in Owner : d # c => step'[d] = step[d]
  BY HolderWorks
<1>2. /\ Store!Kind(c) \in {"init", "assemble"} => Store!Job(c) \in Project /\ cmd[c].provider \in registered[Store!Job(c)]
      /\ cmd[c].provider \in Provider
  BY <1>1, CommandKnown DEF LinksRegistered
<1>3. linked \in [Project -> SUBSET Provider] /\ registered \in [Project -> SUBSET Provider]
  BY DEF Store!InstallTypeOK
<1>4. \A j \in Project : registered[j] \subseteq registered'[j]
  <2>1. CASE Store!Record(c)
    BY <1>2, <1>3, <2>1 DEF Store!Record, StageSound
  <2>2. CASE ~Store!Record(c)
    BY <2>2
      DEF Works, Store!Reuse, Store!SetAside, Store!Publish, Store!PublishFails, Store!MaterializeFails,
          Store!Materialized, Store!Swap, Store!Assemble, Store!AssembleFails, Store!OpenSpec,
          Store!RemoveVersion, Store!Repoint, Store!Restore
  <2> QED BY <2>1, <2>2
<1>5. \A j \in Project : linked'[j] \subseteq registered'[j]
  <2>1. CASE Store!Assemble(c)
    <3>1. Store!Job(c) \in Project /\ (Store!Kind(c) = "init" <=> saved # None)
      BY <1>2, <2>1 DEF Store!Assemble, StageSound
    <3>2. PICK s \in registered[Store!Job(c)] : linked' = [linked EXCEPT ![Store!Job(c)] = @ \union {s}]
      <4>1. Store!Kind(c) = "init" => saved.linked \subseteq registered[Store!Job(c)]
        BY <1>1, <3>1 DEF LinksRegistered
      <4> QED BY <1>2, <2>1, <3>1, <4>1 DEF Store!Assemble, StageSound
    <3> QED BY <1>3, <1>4, <3>1, <3>2 DEF LinksRegistered
  <2>2. CASE Store!Restore(c)
    <3>1. saved # None /\ Store!Job(c) \in Project /\ saved.linked \subseteq registered[Store!Job(c)]
      BY <1>1, <1>2, <2>2 DEF Store!Restore, StageSound, LinksRegistered
    <3> QED BY <1>3, <1>4, <2>2, <3>1 DEF Store!Restore, LinksRegistered
  <2>3. CASE ~Store!Assemble(c) /\ ~Store!Restore(c)
    <3>1. linked' = linked
      BY <2>3
        DEF Works, Store!Reuse, Store!SetAside, Store!Publish, Store!PublishFails, Store!MaterializeFails,
            Store!Materialized, Store!Swap, Store!Record, Store!AssembleFails, Store!OpenSpec,
            Store!RemoveVersion, Store!Repoint
    <3> QED BY <1>4, <3>1 DEF LinksRegistered
  <2> QED BY <2>1, <2>2, <2>3
<1>6. \A d \in Owner : step'[d] \in AtWork \union {"waiting"} /\ Store!Kind(d)' \in {"init", "assemble"} =>
        cmd'[d].provider \in registered'[Store!Job(d)']
  <2> SUFFICES ASSUME NEW d \in Owner, step'[d] \in AtWork \union {"waiting"}, Store!Kind(d) \in {"init", "assemble"}
               PROVE  cmd[d].provider \in registered'[Store!Job(d)]
    BY <1>1 DEF Store!Kind, Store!Job
  <2>1. step[d] \in AtWork \union {"waiting"}
    BY <1>1
  <2>2. Store!Job(d) \in Project /\ cmd[d].provider \in registered[Store!Job(d)]
    BY <2>1, CommandKnown DEF LinksRegistered
  <2> QED BY <1>4, <2>2
<1>7. saved' # None => saved'.linked \subseteq registered'[Store!Job(holder)']
  BY <1>1, <1>2, <1>4 DEF LinksRegistered, Store!Job, StageSound
<1> QED BY <1>5, <1>6, <1>7 DEF LinksRegistered

\* Where the holder stands still says what it was asked.
LEMMA StageWorks ==
  ASSUME FrameworkAssumption, Store!InstallTypeOK, HolderSound, NEW c \in Owner, StageSound(c), Works(c)
  PROVE  StageSound(c)'
<1>1. UNCHANGED <<cmd, saved>> /\ step[c] \in AtWork /\ step'[c] \in AtWork
  BY HolderWorks
<1>2. Store!Target(c) \in Version /\ Store!Kind(c) \in {"init", "assemble", "install", "stage", "swap"}
  BY <1>1, CommandKnown
<1>3. /\ Store!Kind(c)' = Store!Kind(c) /\ Store!Target(c)' = Store!Target(c)
  BY <1>1 DEF Store!Kind, Store!Target
<1> USE DEF Store!InstallTypeOK, Store!Go, Store!Throws
<1>4. CASE Store!Reuse(c) \/ Store!MaterializeFails(c) \/ Store!Materialized(c)
           \/ Store!AssembleFails(c) \/ Store!OpenSpec(c) \/ Store!Record(c)
  BY <1>1, <1>2, <1>3, <1>4
    DEF StageSound, Store!Reuse, Store!MaterializeFails, Store!Materialized, Store!AssembleFails,
        Store!OpenSpec, Store!Record
<1>5. CASE Store!SetAside(c)
  <2>1. aside' # None => aside'.version = Store!Target(c)
    BY <1>5 DEF Store!SetAside
  <2>2. step'[c] = "publish" /\ store'[Store!Target(c)] = None /\ step[c] = "materialize"
    BY <1>2, <1>5 DEF Store!SetAside
  <2> QED BY <1>1, <1>3, <2>1, <2>2 DEF StageSound
<1>6. CASE Store!Publish(c)
  <2>1. step'[c] = "materialize" /\ step[c] = "publish" /\ aside' = None
    BY <1>6 DEF Store!Publish
  <2> QED BY <1>1, <1>3, <2>1 DEF StageSound
<1>7. CASE Store!PublishFails(c)
  <2>1. step'[c] \in {"remove", "failed"} /\ aside' = None /\ (step'[c] = "remove" => Store!Kind(c) = "init")
    BY <1>7 DEF Store!PublishFails
  <2> QED BY <1>1, <1>3, <2>1 DEF StageSound
<1>8. CASE Store!Swap(c) \/ Store!Assemble(c)
  <2>1. step'[c] \in {"assemble", "openspec", "remove", "failed", "done"} /\ aside' = aside /\ step[c] # "publish"
        /\ (step'[c] \in {"remove", "openspec"} => Store!Kind(c) = "init") /\ (step'[c] = "assemble" => Store!Kind(c) \in {"init", "assemble"})
    BY <1>8 DEF Store!Swap, Store!Assemble, StageSound
  <2> QED BY <1>1, <1>3, <2>1 DEF StageSound
<1>9. CASE Store!RemoveVersion(c) \/ Store!Repoint(c) \/ Store!Restore(c)
  <2>1. step'[c] \in {"repoint", "restore", "failed"} /\ aside' = aside /\ step[c] \in {"remove", "repoint", "restore"}
    BY <1>9 DEF Store!RemoveVersion, Store!Repoint, Store!Restore
  <2> QED BY <1>1, <1>3, <2>1 DEF StageSound
<1> QED BY <1>4, <1>5, <1>6, <1>7, <1>8, <1>9 DEF Works

\* What an installation must serve and what it found.
LEMMA RequiresWork ==
  ASSUME FrameworkAssumption, Store!InstallTypeOK, HolderSound, NEW c \in Owner, StageSound(c),
         Requires(c), Works(c)
  PROVE  Requires(c)'
<1>1. UNCHANGED <<cmd, saved>> /\ step[c] \in AtWork /\ step'[c] \in AtWork
  BY HolderWorks
<1>2. /\ Store!Kind(c) \in {"init", "assemble", "install", "stage", "swap"} /\ cmd[c].provider \in Provider
      /\ Store!Kind(c) \in {"init", "assemble"} => Store!Job(c) \in Project
  BY <1>1, CommandKnown
<1>3. /\ Store!Kind(c)' = Store!Kind(c) /\ Store!Job(c)' = Store!Job(c)
  BY <1>1 DEF Store!Kind, Store!Job
<1> USE DEF Store!InstallTypeOK, Store!Go, Store!Throws
<1>4. CASE Store!Reuse(c) \/ Store!SetAside(c) \/ Store!Publish(c) \/ Store!Materialized(c)
  <2>1. step[c] \in {"materialize", "publish"} /\ UNCHANGED <<linked, required>>
    BY <1>4 DEF Store!Reuse, Store!SetAside, Store!Publish, Store!Materialized
  <2> QED BY <1>1, <1>3, <2>1 DEF Requires
<1>5. CASE Store!Swap(c) \/ Store!Assemble(c)
  <2>1. required' = required /\ step[c] \in {"swap", "assemble"}
    BY <1>5 DEF Store!Swap, Store!Assemble
  <2>2. Store!Kind(c) = "init" => \A j \in Project : linked'[j] \subseteq required
    <3>1. CASE Store!Swap(c)
      BY <2>1, <3>1 DEF Store!Swap, Requires
    <3>2. CASE Store!Assemble(c)
      <4> SUFFICES ASSUME Store!Kind(c) = "init" PROVE \A j \in Project : linked'[j] \subseteq required
        OBVIOUS
      <4>1. (\A j \in Project : linked[j] \subseteq required) /\ saved.linked \union {cmd[c].provider} \subseteq required
        BY <2>1 DEF Requires
      <4>2. PICK s \in required : linked' = [linked EXCEPT ![Store!Job(c)] = @ \union {s}]
        BY <3>2, <4>1 DEF Store!Assemble
      <4> QED BY <1>2, <4>1, <4>2
    <3> QED BY <1>5, <3>1, <3>2
  <2>3. step'[c] \notin {"materialize", "publish", "swap"} /\ (step'[c] = "assemble" => Store!Kind(c) \in {"init", "assemble"})
    BY <1>5 DEF Store!Swap, Store!Assemble, StageSound
  <2> QED BY <1>1, <1>3, <2>1, <2>2, <2>3 DEF Requires
<1>6. CASE Store!PublishFails(c) \/ Store!MaterializeFails(c) \/ Store!AssembleFails(c)
           \/ Store!OpenSpec(c) \/ Store!Record(c) \/ Store!RemoveVersion(c) \/ Store!Repoint(c)
           \/ Store!Restore(c)
  <2>1. step'[c] \notin {"materialize", "publish", "swap", "assemble"}
    BY <1>6
      DEF Store!PublishFails, Store!MaterializeFails, Store!AssembleFails, Store!OpenSpec, Store!Record,
          Store!RemoveVersion, Store!Repoint, Store!Restore
  <2> QED BY <2>1 DEF Requires
<1> QED BY <1>4, <1>5, <1>6 DEF Works

LEMMA RemembersWork ==
  ASSUME FrameworkAssumption, Store!InstallTypeOK, HolderSound, NEW c \in Owner, StageSound(c),
         Remembers(c), Works(c)
  PROVE  Remembers(c)'
<1>1. UNCHANGED <<cmd, saved>> /\ step[c] \in AtWork /\ step'[c] \in AtWork
  BY HolderWorks
<1>2. Store!Target(c) \in Version /\ (Store!Kind(c) \in {"init", "assemble"} => Store!Job(c) \in Project)
  BY <1>1, CommandKnown
<1>3. /\ Store!Target(c)' = Store!Target(c) /\ Store!Job(c)' = Store!Job(c)
  BY <1>1 DEF Store!Target, Store!Job
<1> SUFFICES ASSUME saved # None PROVE Remembers(c)'
  BY <1>1 DEF Remembers
<1>4. Store!Kind(c) = "init"
  BY DEF StageSound
<1>5. None \notin Store!Trees /\ [Provider -> Store!Tree] = Store!Trees
  BY DEF FrameworkAssumption, Store!Trees
<1> USE DEF Store!InstallTypeOK, Store!Go, Store!Throws
<1>6. CASE Store!Reuse(c) \/ Store!MaterializeFails(c) \/ Store!Materialized(c)
           \/ Store!AssembleFails(c) \/ Store!OpenSpec(c) \/ Store!Record(c)
  <2>1. UNCHANGED <<store, aside, linked, current>>
    BY <1>6
      DEF Store!Reuse, Store!MaterializeFails, Store!Materialized, Store!AssembleFails, Store!OpenSpec,
          Store!Record
  <2>2. /\ step'[c] \in {"materialize", "publish", "swap"} => step[c] = "materialize"
        /\ step'[c] \notin {"publish", "repoint", "restore"}
        /\ step[c] \in {"materialize", "assemble", "openspec", "record"}
    BY <1>4, <1>6
      DEF Store!Reuse, Store!MaterializeFails, Store!Materialized, Store!AssembleFails, Store!OpenSpec,
          Store!Record
  <2> QED BY <1>1, <1>3, <2>1, <2>2 DEF Remembers
<1>7. CASE Store!SetAside(c)
  <2>1. step[c] = "materialize" /\ step'[c] = "publish" /\ UNCHANGED <<linked, current>>
    BY <1>7 DEF Store!SetAside
  <2>2. saved.present => aside' # None
    <3>1. ASSUME saved.present PROVE aside' = [version |-> Store!Target(c),
                 trees |-> store[Store!Target(c)]] /\ store[Store!Target(c)] \in Store!Trees
      BY <1>2, <1>7, <2>1, <3>1 DEF Store!SetAside, Remembers
    <3>2. ASSUME saved.present PROVE aside' \in [version : Version, trees : Store!Trees]
      BY <1>2, <3>1, <3>2
    <3> QED BY <3>2 DEF FrameworkAssumption
  <2> QED BY <1>1, <1>3, <2>1, <2>2 DEF Remembers
<1>8. CASE Store!Publish(c)
  <2>1. step[c] = "publish" /\ step'[c] = "materialize" /\ UNCHANGED <<linked, current>>
    BY <1>8 DEF Store!Publish
  <2>2. store'[Store!Target(c)] # None
    <3> DEFINE before == IF aside = None THEN Store!NoTrees ELSE aside.trees
    <3>1. PICK s : store' = [store EXCEPT ![Store!Target(c)] = [before EXCEPT ![s] = "whole"]]
      BY <1>8 DEF Store!Publish
    <3>2. before \in Store!Trees
      BY DEF Store!NoTrees, Store!Trees, Store!Tree
    <3>3. [before EXCEPT ![s] = "whole"] \in Store!Trees
      BY <3>2 DEF Store!Trees, Store!Tree
    <3> HIDE DEF before
    <3> QED BY <1>2, <1>5, <3>1, <3>3
  <2> QED BY <1>1, <1>3, <2>1, <2>2 DEF Remembers
<1>9. CASE Store!PublishFails(c)
  <2>1. step[c] = "publish" /\ step'[c] = "remove" /\ UNCHANGED <<linked, current>>
    BY <1>4, <1>9 DEF Store!PublishFails
  <2>2. ASSUME saved.present PROVE store'[Store!Target(c)] # None
    <3>1. aside # None /\ aside.version = Store!Target(c) /\ aside.trees \in Store!Trees
      BY <2>1, <2>2 DEF Remembers, StageSound
    <3> QED BY <1>2, <1>5, <1>9, <3>1 DEF Store!PublishFails
  <2> QED BY <1>1, <1>3, <2>1, <2>2 DEF Remembers
<1>10. CASE Store!Swap(c) \/ Store!Assemble(c)
  <2>1. step'[c] \in {"assemble", "openspec", "remove", "done"} /\ step[c] \in {"swap", "assemble"} /\ store' = store
    BY <1>4, <1>10 DEF Store!Swap, Store!Assemble
  <2> QED BY <1>1, <1>3, <2>1 DEF Remembers
<1>11. CASE Store!RemoveVersion(c)
  <2>1. step[c] = "remove" /\ step'[c] = "repoint"
    BY <1>11 DEF Store!RemoveVersion
  <2>2. store'[Store!Target(c)] # None <=> saved.present
    BY <1>2, <2>1, <1>11 DEF Store!RemoveVersion, Remembers
  <2> QED BY <1>1, <1>3, <2>1, <2>2 DEF Remembers
<1>12. CASE Store!Repoint(c)
  <2>1. step[c] = "repoint" /\ step'[c] = "restore" /\ current' = saved.current /\ store' = store
    BY <1>12 DEF Store!Repoint
  <2> QED BY <1>1, <1>3, <2>1 DEF Remembers
<1>13. CASE Store!Restore(c)
  <2>1. step'[c] = "failed"
    BY <1>13 DEF Store!Restore
  <2> QED BY <2>1 DEF Remembers
<1> QED BY <1>6, <1>7, <1>8, <1>9, <1>10, <1>11, <1>12, <1>13 DEF Works

\* A command comes, gets the lock, gives it back or dies; the owner of a project edits.
LEMMA WorkAsk ==
  ASSUME FrameworkAssumption, WorkInv, NEW c \in Owner, NEW command \in MCAsked, Store!Ask(c, command)
  PROVE  WorkInv'
<1>1. /\ command \in Store!Commands /\ step[c] = "idle" /\ cmd' = [cmd EXCEPT ![c] = command]
      /\ UNCHANGED <<store, aside, current, linked, marker, custom, holder, todo, required, saved, torn>>
      /\ c # holder
  BY DEF FrameworkAssumption, Store!Ask, WorkInv, HolderSound, AtWork
<1>2. PICK to \in {"over", "waiting"} : step' = [step EXCEPT ![c] = to]
  BY DEF Store!Ask, Store!Go
<1>3. command.kind \in {"init", "assemble"} => command.project \in Project /\ command.provider \in Provider
  BY <1>1, CommandNames
<1>4. registered' \in [Project -> SUBSET Provider] /\ \A j \in Project : registered[j] \subseteq registered'[j]
  BY <1>3 DEF Store!Ask, WorkInv, Store!InstallTypeOK
<1>5. Store!InstallTypeOK'
  BY <1>1, <1>2, <1>4 DEF WorkInv, Store!InstallTypeOK
<1>6. \A d \in Owner : d # c => step'[d] = step[d] /\ cmd'[d] = cmd[d]
  BY <1>1, <1>2 DEF WorkInv, Store!InstallTypeOK
<1>7. step'[c] = to /\ cmd'[c] = command
  BY <1>1, <1>2 DEF WorkInv, Store!InstallTypeOK
<1>8. HolderSound'
  BY <1>1, <1>6, <1>7 DEF WorkInv, HolderSound, AtWork, Store!InstallTypeOK
<1>9. \A d \in Owner : step'[d] \in AtWork \union {"waiting"} /\ Store!Kind(d)' \in {"init", "assemble"} =>
        cmd'[d].provider \in registered'[Store!Job(d)']
  <2> SUFFICES ASSUME NEW d \in Owner, step'[d] \in AtWork \union {"waiting"}, cmd'[d].kind \in {"init", "assemble"}
               PROVE  cmd'[d].provider \in registered'[cmd'[d].project]
    BY DEF Store!Kind, Store!Job
  <2>1. CASE d = c
    <3>1. to = "waiting" /\ command.kind \in {"init", "assemble"}
      BY <1>7, <2>1 DEF AtWork
    <3>2. registered' = [registered EXCEPT ![command.project] = @ \union {command.provider}]
      BY <1>2, <1>7, <2>1, <3>1 DEF Store!Ask, Store!Go, WorkInv, Store!InstallTypeOK
    <3> QED BY <1>3, <1>7, <2>1, <3>1, <3>2 DEF WorkInv, Store!InstallTypeOK
  <2>2. CASE d # c
    <3>1. step[d] \in AtWork \union {"waiting"} /\ Store!Kind(d) \in {"init", "assemble"}
      BY <1>6, <2>2 DEF Store!Kind
    <3>2. Store!Job(d) \in Project /\ cmd[d].provider \in registered[Store!Job(d)]
      BY <3>1, CommandKnown DEF WorkInv, LinksRegistered
    <3> QED BY <1>4, <1>6, <2>2, <3>2 DEF Store!Job
  <2> QED BY <2>1, <2>2
<1>10. saved' # None => saved'.linked \subseteq registered'[Store!Job(holder)']
  <2> SUFFICES ASSUME saved # None PROVE saved.linked \subseteq registered'[Store!Job(holder)']
    BY <1>1
  <2>1. holder \in Owner /\ Store!Kind(holder) = "init" /\ step[holder] \in AtWork
    BY DEF WorkInv, HolderSound, Store!InstallTypeOK, StageSound
  <2>2. Store!Job(holder) \in Project /\ saved.linked \subseteq registered[Store!Job(holder)]
    BY <2>1, CommandKnown DEF WorkInv, LinksRegistered
  <2> QED BY <1>1, <1>4, <1>6, <2>1, <2>2 DEF Store!Job
<1>11. LinksRegistered'
  BY <1>1, <1>4, <1>9, <1>10 DEF LinksRegistered, WorkInv
<1>12. holder' # None => StageSound(holder)' /\ Requires(holder)' /\ Remembers(holder)'
  <2> SUFFICES ASSUME holder # None PROVE StageSound(holder)' /\ Requires(holder)' /\ Remembers(holder)'
    BY <1>1
  <2>1. holder \in Owner
    BY DEF WorkInv, Store!InstallTypeOK
  <2>2. step'[holder] = step[holder] /\ cmd'[holder] = cmd[holder] /\ holder' = holder
    BY <1>1, <1>6, <2>1
  <2> QED BY <1>1, <2>2 DEF WorkInv, StageSound, Requires, Remembers, Store!Kind, Store!Target, Store!Job
<1> QED BY <1>5, <1>8, <1>11, <1>12 DEF WorkInv

LEMMA WorkAdmit ==
  ASSUME FrameworkAssumption, WorkInv, NEW c \in Owner, Store!Admit(c)
  PROVE  WorkInv'
<1>1. /\ step[c] = "waiting"
      /\ UNCHANGED <<store, aside, current, registered, linked, marker, custom, cmd, torn>>
  BY DEF Store!Admit
<1>2. cmd[c] \in Store!Commands /\ Store!Target(c) \in Version /\ cmd[c].provider \in Provider
      /\ Store!Kind(c) \in {"init", "assemble", "install", "stage", "swap"}
      /\ (Store!Kind(c) \in {"init", "assemble"} => Store!Job(c) \in Project)
  BY <1>1, CommandKnown DEF WorkInv
<1>3. CASE holder # None
  <2>1. Store!Go(c, "over") /\ UNCHANGED <<holder, saved, todo, required>>
    BY <1>3 DEF Store!Admit
  <2>2. step' = [step EXCEPT ![c] = "over"] /\ c # holder /\ holder \in Owner
    BY <1>1, <1>3, <2>1 DEF Store!Go, WorkInv, HolderSound, AtWork, Store!InstallTypeOK
  <2>3. \A d \in Owner : d # c => step'[d] = step[d]
    BY <2>2 DEF WorkInv, Store!InstallTypeOK
  <2>4. step'[c] = "over"
    BY <2>2 DEF WorkInv, Store!InstallTypeOK
  <2>5. Store!InstallTypeOK'
    BY <1>1, <2>1, <2>2 DEF WorkInv, Store!InstallTypeOK
  <2>6. HolderSound'
    BY <1>1, <2>1, <2>2, <2>3, <2>4 DEF WorkInv, HolderSound, AtWork
  <2>7. LinksRegistered'
    BY <1>1, <2>1, <2>3, <2>4 DEF WorkInv, LinksRegistered, AtWork, Store!Kind, Store!Job
  <2>8. StageSound(holder)' /\ Requires(holder)' /\ Remembers(holder)'
    BY <1>1, <1>3, <2>1, <2>2, <2>3
      DEF WorkInv, StageSound, Requires, Remembers, Store!Kind, Store!Target, Store!Job
  <2> QED BY <2>5, <2>6, <2>7, <2>8 DEF WorkInv
<1>4. CASE holder = None
  <2>1. saved = None /\ aside = None /\ holder' = c /\ c # None
    BY <1>4 DEF Store!Admit, WorkInv, HolderSound, FrameworkAssumption
  <2>2. /\ Store!Kind(c) = "init" =>
            /\ required' = Store!ResolveRequired(linked[Store!Job(c)] \union {cmd[c].provider}) /\ todo' = required'
            /\ saved' = [current |-> current, present |-> store[Store!Target(c)] # None,
                         linked |-> linked[Store!Job(c)], marker |-> marker[Store!Job(c)], custom |-> custom[Store!Job(c)]]
            /\ (Store!Go(c, "failed") \/ Store!Go(c, "materialize"))
        /\ Store!Kind(c) = "install" =>
            /\ required' = Store!ResolveRequired({cmd[c].provider}) /\ todo' = required' /\ saved' = None
            /\ (Store!Go(c, "failed") \/ Store!Go(c, "materialize"))
        /\ Store!Kind(c) = "stage" =>
            /\ required' = {} /\ todo' = {cmd[c].provider} /\ saved' = None
            /\ (Store!Go(c, "failed") \/ Store!Go(c, "materialize"))
        /\ Store!Kind(c) = "swap" =>
            /\ required' = Store!ResolveRequired({cmd[c].provider}) /\ todo' = {} /\ saved' = None
            /\ Store!Go(c, "swap")
        /\ Store!Kind(c) = "assemble" =>
            /\ required' = {cmd[c].provider} /\ todo' = {} /\ saved' = None
            /\ (Store!Go(c, "failed") \/ Store!Go(c, "assemble"))
    BY <1>4 DEF Store!Admit
  <2>3. PICK to \in {"failed", "materialize", "swap", "assemble"} : step' = [step EXCEPT ![c] = to]
    BY <1>2, <2>2 DEF Store!Go
  <2>4. step'[c] = to /\ \A d \in Owner : d # c => step'[d] = step[d]
    BY <2>3 DEF WorkInv, Store!InstallTypeOK
  <2>5. \A asked \in SUBSET Provider :
          Store!ResolveRequired(asked) \subseteq Provider /\ asked \subseteq Store!ResolveRequired(asked)
            /\ \A j \in Project : linked[j] \subseteq Store!ResolveRequired(asked)
    <3> SUFFICES ASSUME NEW asked \in SUBSET Provider
                 PROVE  /\ Store!ResolveRequired(asked) \subseteq Provider /\ asked \subseteq Store!ResolveRequired(asked)
                        /\ \A j \in Project : linked[j] \subseteq Store!ResolveRequired(asked)
      OBVIOUS
    <3> DEFINE served == {s \in Provider : Store!Serves(current, s)}
               entered == UNION {registered[j] : j \in Project}
    <3>1. entered \subseteq Provider /\ \A j \in Project : registered[j] \subseteq entered
      BY DEF WorkInv, Store!InstallTypeOK
    <3>2. Store!ResolveRequired(asked) = asked \union entered \union served /\ served \subseteq Provider
      BY DEF Store!ResolveRequired
    <3> HIDE DEF served, entered
    <3> QED BY <3>1, <3>2 DEF WorkInv, LinksRegistered
  <2>6. Store!Kind(c) = "init" => linked[Store!Job(c)] \union {cmd[c].provider} \in SUBSET Provider
    BY <1>2 DEF WorkInv, Store!InstallTypeOK
  <2>7. required' \subseteq Provider /\ todo' \subseteq Provider
    BY <1>2, <2>2, <2>5, <2>6
  <2>8. /\ Store!Kind(c) # "init" => saved' = None
        /\ Store!Kind(c) = "init" =>
            /\ saved' \in Store!Surfaces /\ saved'.current = current /\ saved'.linked = linked[Store!Job(c)]
            /\ (saved'.present <=> store[Store!Target(c)] # None)
    <3>1. Store!Kind(c) # "init" => saved' = None
      BY <1>2, <2>2
    <3>2. ASSUME Store!Kind(c) = "init" PROVE current \in Version \union {None} /\ linked[Store!Job(c)] \subseteq Provider
                                        /\ marker[Store!Job(c)] \in Version \union {None}
                                        /\ custom[Store!Job(c)] \in BOOLEAN
      BY <1>2, <3>2 DEF WorkInv, Store!InstallTypeOK
    <3> DEFINE found == [current |-> current, present |-> store[Store!Target(c)] # None,
                         linked |-> linked[Store!Job(c)], marker |-> marker[Store!Job(c)], custom |-> custom[Store!Job(c)]]
    <3>3. Store!Kind(c) = "init" => saved' = found
      BY <2>2
    <3>4. Store!Kind(c) = "init" => found \in Store!Surfaces
      BY <3>2 DEF Store!Surfaces
    <3>5. /\ found.current = current /\ found.linked = linked[Store!Job(c)]
          /\ (found.present <=> store[Store!Target(c)] # None)
      BY Zenon
    <3> HIDE DEF found
    <3> QED BY <3>1, <3>3, <3>4, <3>5
  <2>9. Store!InstallTypeOK'
    BY <1>1, <2>1, <2>3, <2>7, <2>8 DEF WorkInv, Store!InstallTypeOK
  <2>10. HolderSound'
    <3>1. \A d \in Owner : step[d] \notin AtWork
      BY <1>4 DEF WorkInv, HolderSound, FrameworkAssumption
    <3> QED BY <1>1, <1>2, <2>1, <2>4, <3>1 DEF WorkInv, HolderSound, AtWork
  <2>11. LinksRegistered'
    <3>1. \A d \in Owner : step'[d] \in AtWork \union {"waiting"} => step[d] \in AtWork \union {"waiting"}
      BY <1>1, <2>4
    <3>2. saved' # None => saved'.linked \subseteq registered'[Store!Job(holder)']
      BY <1>1, <1>2, <2>1, <2>8 DEF WorkInv, LinksRegistered, Store!Job
    <3> QED BY <1>1, <3>1, <3>2 DEF WorkInv, LinksRegistered, Store!Kind, Store!Job
  <2>12. /\ Store!Kind(c)' = Store!Kind(c) /\ Store!Target(c)' = Store!Target(c)
         /\ Store!Job(c)' = Store!Job(c)
    BY <1>1 DEF Store!Kind, Store!Target, Store!Job
  <2>13. StageSound(c)'
    <3>1. saved' # None <=> Store!Kind(c) = "init"
      BY <2>8 DEF FrameworkAssumption
    <3>2. /\ step'[c] = "materialize" => Store!Kind(c) \in {"init", "install", "stage"}
          /\ step'[c] = "swap" => Store!Kind(c) = "swap"
          /\ step'[c] = "assemble" => Store!Kind(c) = "assemble"
      BY <1>2, <2>2, <2>3, <2>4 DEF Store!Go, WorkInv, Store!InstallTypeOK
    <3> QED BY <1>1, <2>1, <2>4, <2>12, <3>1, <3>2 DEF StageSound
  <2>14. Requires(c)'
    <3>1. Store!Kind(c) \in {"init", "install", "swap"} => \A j \in Project : linked[j] \subseteq required'
      BY <1>2, <2>2, <2>5, <2>6
    <3>2. Store!Kind(c) = "init" => saved'.linked \union {cmd[c].provider} \subseteq required'
      BY <2>2, <2>5, <2>6, <2>8
    <3> QED BY <1>1, <2>12, <3>1, <3>2 DEF Requires
  <2>15. Remembers(c)'
    <3>1. step'[c] \notin {"publish", "repoint", "restore"}
      BY <2>4
    <3> QED BY <1>1, <2>8, <2>12, <3>1 DEF Remembers
  <2> QED BY <2>1, <2>9, <2>10, <2>11, <2>13, <2>14, <2>15 DEF WorkInv
<1> QED BY <1>3, <1>4

LEMMA WorkEnds ==
  ASSUME FrameworkAssumption, WorkInv, NEW c \in Owner, Store!Leave(c) \/ Store!Die(c)
  PROVE  WorkInv'
<1>1. holder = c
  BY DEF Store!Leave, Store!Die, WorkInv, HolderSound, AtWork
<1>2. /\ holder' = None /\ saved' = None /\ todo' = {} /\ required' = {} /\ cmd' = [cmd EXCEPT ![c] = None]
      /\ UNCHANGED <<store, current, registered, linked, marker, custom>>
  BY DEF Store!Leave, Store!Die
<1>3. PICK to \in {"over", "died"} : step' = [step EXCEPT ![c] = to]
  BY DEF Store!Leave, Store!Die, Store!Go
<1>4. aside' = None
  <2>1. c # None
    BY DEF FrameworkAssumption
  <2> QED BY <1>1, <2>1 DEF Store!Leave, Store!Die, WorkInv, StageSound
<1>5. torn' \in BOOLEAN
  BY DEF Store!Leave, Store!Die, WorkInv, Store!InstallTypeOK, Store!Dangling
<1>6. \A d \in Owner : step'[d] = (IF d = c THEN to ELSE step[d]) /\ (d # c => cmd'[d] = cmd[d])
  BY <1>2, <1>3 DEF WorkInv, Store!InstallTypeOK
<1>7. Store!InstallTypeOK'
  BY <1>2, <1>3, <1>4, <1>5 DEF WorkInv, Store!InstallTypeOK
<1>8. HolderSound'
  BY <1>1, <1>2, <1>4, <1>6 DEF WorkInv, HolderSound, AtWork
<1>9. LinksRegistered'
  BY <1>2, <1>6 DEF WorkInv, LinksRegistered, AtWork, Store!Kind, Store!Job
<1> QED BY <1>2, <1>7, <1>8, <1>9 DEF WorkInv

LEMMA WorkNext == FrameworkAssumption /\ WorkInv /\ [Store!Next]_frameworks => WorkInv'
<1> SUFFICES ASSUME FrameworkAssumption, WorkInv, [Store!Next]_frameworks PROVE WorkInv'
  OBVIOUS
<1>1. CASE UNCHANGED frameworks
  BY <1>1
    DEF frameworks, WorkInv, Store!InstallTypeOK, HolderSound, LinksRegistered, StageSound, Requires,
        Remembers, Store!Kind, Store!Target, Store!Job
<1>2. ASSUME NEW j \in Project, Store!UserEdits(j) PROVE WorkInv'
  BY <1>2
    DEF Store!UserEdits, WorkInv, Store!InstallTypeOK, HolderSound, LinksRegistered, StageSound, Requires,
        Remembers, Store!Kind, Store!Target, Store!Job
<1>3. ASSUME NEW c \in Owner, Works(c) PROVE WorkInv'
  <2>1. step[c] \in AtWork /\ holder = c /\ holder' = c /\ HolderSound'
    BY <1>3, HolderWorks DEF WorkInv
  <2>2. c # None
    BY DEF FrameworkAssumption
  <2> QED
    BY <1>3, <2>1, <2>2, TypeWorks, LinksWork, StageWorks, RequiresWork, RemembersWork DEF WorkInv
<1> QED
  BY <1>1, <1>2, <1>3, WorkAsk, WorkAdmit, WorkEnds DEF Store!Next, Works

\* Before the workspace is touched it is as the installation found it.
LEMMA FoundSame ==
  ASSUME Store!InstallTypeOK, NEW c \in Owner, Store!Job(c) \in Project, linked[Store!Job(c)] = saved.linked
  PROVE  Found(c) = linked
BY DEF Found, Store!InstallTypeOK

\* Good(links, v) only asks for the store.
LEMMA GoodStays ==
  ASSUME NEW links, NEW v, Good(links, v), store' = store
  PROVE  Good(links, v)'
BY DEF Good, Store!Serves

\* Steps that leave the store, the pointer and the links alone.
LEMMA PointerRests ==
  ASSUME FrameworkAssumption, WorkInv, NEW c \in Owner, PointerSound(c),
         Store!Reuse(c) \/ Store!MaterializeFails(c) \/ Store!Materialized(c) \/ Store!AssembleFails(c) \/ Store!OpenSpec(c) \/ Store!Record(c)
  PROVE  PointerSound(c)'
<1>1. UNCHANGED <<cmd, saved, store, aside, current, linked, required>>
  BY
    DEF Store!Reuse, Store!MaterializeFails, Store!Materialized, Store!AssembleFails, Store!OpenSpec,
        Store!Record
<1>2. /\ step[c] \in {"materialize", "assemble", "openspec", "record"}
      /\ step'[c] \in {"materialize", "swap", "remove", "record", "failed", "done"}
  BY
    DEF Store!Reuse, Store!MaterializeFails, Store!Materialized, Store!AssembleFails, Store!OpenSpec,
        Store!Record, Store!Go, Store!Throws, WorkInv, Store!InstallTypeOK
<1>3. /\ Store!Kind(c)' = Store!Kind(c) /\ Store!Target(c)' = Store!Target(c)
      /\ Store!Job(c)' = Store!Job(c) /\ Found(c)' = Found(c)
      /\ Good(linked, current)' <=> Good(linked, current)
      /\ Good(Found(c), saved.current)' <=> Good(Found(c), saved.current)
  BY <1>1 DEF Store!Kind, Store!Target, Store!Job, Found, Good, Store!Serves
<1> QED BY <1>1, <1>2, <1>3 DEF PointerSound

LEMMA PointerSetsAside ==
  ASSUME FrameworkAssumption, WorkInv, NEW c \in Owner, holder = c, PointerSound(c), Store!SetAside(c)
  PROVE  PointerSound(c)'
<1>1. /\ step[c] = "materialize" /\ step' = [step EXCEPT ![c] = "publish"]
      /\ UNCHANGED <<cmd, saved, current, linked, required>>
      /\ store' = [store EXCEPT ![Store!Target(c)] = None]
      /\ aside' = IF store[Store!Target(c)] = None THEN None ELSE [version |-> Store!Target(c), trees |-> store[Store!Target(c)]]
  BY DEF Store!SetAside, Store!Go
<1>2. step'[c] = "publish"
  BY <1>1 DEF WorkInv, Store!InstallTypeOK
<1>3. Store!Target(c) \in Version /\ Good(linked, current) /\ Store!Target(c)' = Store!Target(c)
  BY <1>1, CommandKnown DEF WorkInv, PointerSound, AtWork, Store!Target
<1>4. current # Store!Target(c) => Good(linked, current)'
  BY <1>1, <1>3 DEF Good, Store!Serves, WorkInv, Store!InstallTypeOK
<1>5. current = Store!Target(c) => aside' # None /\ \A j \in Project : \A s \in linked[j] : aside'.trees[s] # "none"
  <2> SUFFICES ASSUME current = Store!Target(c)
               PROVE  aside' # None /\ \A j \in Project : \A s \in linked[j] : aside'.trees[s] # "none"
    OBVIOUS
  <2>1. Store!Target(c) # None
    BY <1>3 DEF FrameworkAssumption
  <2>2. store[Store!Target(c)] \in Store!Trees /\ \A j \in Project : \A s \in linked[j] : store[Store!Target(c)][s] # "none"
    BY <1>3, <2>1 DEF Good, Store!Serves, WorkInv, Store!InstallTypeOK
  <2>3. aside' = [version |-> Store!Target(c), trees |-> store[Store!Target(c)]] /\ aside' \in [version : Version, trees : Store!Trees]
    BY <1>1, <1>3, <2>2 DEF FrameworkAssumption
  <2> QED BY <2>2, <2>3 DEF FrameworkAssumption
<1> QED BY <1>1, <1>2, <1>3, <1>4, <1>5 DEF PointerSound

LEMMA PointerPublishes ==
  ASSUME FrameworkAssumption, WorkInv, NEW c \in Owner, holder = c, PointerSound(c),
         Store!Publish(c) \/ Store!PublishFails(c)
  PROVE  PointerSound(c)'
<1>1. /\ step[c] = "publish" /\ UNCHANGED <<cmd, saved, current, linked, required>>
      /\ step'[c] \in {"materialize", "remove", "failed"}
  BY DEF Store!Publish, Store!PublishFails, Store!Go, Store!Throws, WorkInv, Store!InstallTypeOK
<1>2. /\ Store!Target(c) \in Version /\ Store!Target(c) # None /\ Store!Target(c)' = Store!Target(c)
      /\ Store!Job(c)' = Store!Job(c)
      /\ Store!Kind(c) = "init" => Store!Job(c) \in Project
  BY <1>1, CommandKnown DEF WorkInv, AtWork, Store!Target, Store!Job, FrameworkAssumption
<1>3. \A v \in Version : v # Store!Target(c) => store'[v] = store[v]
  <2>1. CASE Store!Publish(c)
    BY <2>1 DEF Store!Publish, WorkInv, Store!InstallTypeOK
  <2>2. CASE Store!PublishFails(c)
    BY <1>1, <2>2 DEF Store!PublishFails, WorkInv, Store!InstallTypeOK, StageSound, FrameworkAssumption
  <2> QED BY <2>1, <2>2
<1>4. aside # None => store'[Store!Target(c)] \in Store!Trees /\ \A s \in Provider : aside.trees[s] # "none" => store'[Store!Target(c)][s] # "none"
  <2> SUFFICES ASSUME aside # None
               PROVE  store'[Store!Target(c)] \in Store!Trees /\ \A s \in Provider : aside.trees[s] # "none" => store'[Store!Target(c)][s] # "none"
    OBVIOUS
  <2>1. aside.trees \in Store!Trees /\ aside.version = Store!Target(c)
    BY <1>1 DEF WorkInv, Store!InstallTypeOK, StageSound, FrameworkAssumption
  <2>2. CASE Store!Publish(c)
    <3>1. PICK s : store' = [store EXCEPT ![Store!Target(c)] = [aside.trees EXCEPT ![s] = "whole"]]
      BY <2>2 DEF Store!Publish
    <3>2. store'[Store!Target(c)] = [aside.trees EXCEPT ![s] = "whole"]
      BY <1>2, <3>1 DEF WorkInv, Store!InstallTypeOK
    <3> QED BY <2>1, <3>2 DEF Store!Trees, Store!Tree
  <2>3. CASE Store!PublishFails(c)
    <3>1. store'[Store!Target(c)] = aside.trees
      BY <1>2, <2>1, <2>3 DEF Store!PublishFails, WorkInv, Store!InstallTypeOK
    <3> QED BY <2>1, <3>1
  <2> QED BY <2>2, <2>3
<1>5. None \notin Store!Trees
  BY DEF FrameworkAssumption
<1>6. (current # None => store'[current] # None)
      /\ \A j \in Project : \A s \in linked[j] : current # None /\ store'[current] # None /\ store'[current][s] # "none"
  <2>1. CASE current = Store!Target(c)
    <3>1. aside # None /\ \A j \in Project : \A s \in linked[j] : aside.trees[s] # "none"
      BY <1>1, <2>1 DEF PointerSound
    <3>2. \A j \in Project : linked[j] \subseteq Provider
      BY DEF WorkInv, Store!InstallTypeOK
    <3> QED BY <1>2, <1>4, <1>5, <2>1, <3>1, <3>2
  <2>2. CASE current # Store!Target(c)
    <3>1. Good(linked, current) /\ current \in Version \union {None}
      BY <1>1, <2>2 DEF PointerSound, WorkInv, Store!InstallTypeOK
    <3> QED BY <1>3, <2>2, <3>1 DEF Good, Store!Serves
  <2> QED BY <2>1, <2>2
<1>7. Good(linked, current)'
  BY <1>1, <1>6 DEF Good, Store!Serves
<1>8. saved # None => Good(Found(c), saved.current)' /\ (~saved.present => saved.current # Store!Target(c))
  <2> SUFFICES ASSUME saved # None PROVE Good(Found(c), saved.current)' /\ (~saved.present => saved.current # Store!Target(c))
    OBVIOUS
  <2>1. Store!Job(c) \in Project /\ linked[Store!Job(c)] = saved.linked /\ current = saved.current
    BY <1>1, <1>2 DEF WorkInv, FrameworkAssumption, StageSound, Remembers
  <2>2. Found(c) = linked /\ Found(c)' = Found(c)
    BY <1>1, <1>2, <2>1, FoundSame DEF WorkInv, Found
  <2>3. Good(Found(c), saved.current)'
    BY <1>1, <1>7, <2>1, <2>2
  <2> QED BY <2>3 DEF PointerSound
<1> QED BY <1>1, <1>2, <1>7, <1>8 DEF PointerSound

LEMMA PointerMoves ==
  ASSUME FrameworkAssumption, WorkInv, NEW c \in Owner, holder = c, PointerSound(c),
         Store!Swap(c) \/ Store!Assemble(c)
  PROVE  PointerSound(c)'
<1>1. /\ step[c] \in {"swap", "assemble"} /\ UNCHANGED <<cmd, saved, store, aside, required>>
      /\ step'[c] \in {"assemble", "openspec", "remove", "failed", "done"}
  BY DEF Store!Swap, Store!Assemble, Store!Go, Store!Throws, WorkInv, Store!InstallTypeOK
<1>2. /\ Store!Target(c) \in Version /\ Store!Target(c) # None /\ Store!Target(c)' = Store!Target(c)
      /\ Store!Job(c)' = Store!Job(c) /\ Store!Kind(c)' = Store!Kind(c)
      /\ Store!Kind(c) \in {"init", "assemble"} => Store!Job(c) \in Project
      /\ Store!Kind(c) \in {"init", "assemble", "install", "stage", "swap"}
  BY <1>1, CommandKnown DEF WorkInv, AtWork, Store!Target, Store!Job, Store!Kind, FrameworkAssumption
<1>3. c # None /\ StageSound(c) /\ Requires(c) /\ Store!InstallTypeOK
  BY DEF WorkInv, FrameworkAssumption
<1>4. Found(c)' = Found(c)
  <2>1. CASE Store!Swap(c)
    BY <1>1, <1>2, <2>1 DEF Store!Swap, Found
  <2>2. CASE Store!Assemble(c)
    <3>1. Store!Job(c) \in Project
      BY <1>2, <1>3, <2>2 DEF Store!Assemble, StageSound
    <3>2. PICK s : linked' = [linked EXCEPT ![Store!Job(c)] = @ \union {s}]
      BY <2>2 DEF Store!Assemble
    <3> QED BY <1>1, <1>2, <1>3, <3>1, <3>2 DEF Found, Store!InstallTypeOK
  <2> QED BY <2>1, <2>2
<1>5. saved # None => Good(Found(c), saved.current)' /\ (~saved.present => saved.current # Store!Target(c))
  BY <1>1, <1>4, GoodStays DEF PointerSound
<1>6. CASE Store!Swap(c)
  <2>1. CASE Store!Complete(Store!Target(c), required)
    <3>1. current' = Store!Target(c) /\ linked' = linked /\ step'[c] \in {"assemble", "done"} /\ (step'[c] = "assemble" => Store!Kind(c) = "init")
      BY <1>3, <1>6, <2>1 DEF Store!Swap, Store!Go, Store!InstallTypeOK
    <3>2. \A s \in required : Store!Serves(Store!Target(c), s)
      BY <1>2, <2>1 DEF Store!Complete, Store!Serves
    <3>3. store[Store!Target(c)] # None /\ \A j \in Project : linked[j] \subseteq required
      BY <1>1, <1>3, <1>6, <2>1 DEF Store!Complete, Requires, Store!Swap, StageSound
    <3>4. Good(linked, current)'
      BY <1>1, <3>1, <3>2, <3>3 DEF Good, Store!Serves
    <3>5. \A s \in required : Store!Serves(current, s)'
      BY <1>1, <3>1, <3>2 DEF Store!Serves
    <3> QED BY <1>1, <1>2, <1>5, <3>1, <3>4, <3>5 DEF PointerSound
  <2>2. CASE ~Store!Complete(Store!Target(c), required)
    <3>1. UNCHANGED <<current, linked>> /\ step'[c] \in {"remove", "failed"} /\ step[c] = "swap"
      BY <1>3, <1>6, <2>2 DEF Store!Swap, Store!Go, Store!Throws, Store!InstallTypeOK
    <3>2. Good(linked, current)'
      BY <1>1, <3>1 DEF PointerSound, Good, Store!Serves
    <3> QED BY <1>1, <1>2, <1>5, <3>1, <3>2 DEF PointerSound
  <2> QED BY <2>1, <2>2
<1>7. CASE Store!Assemble(c)
  <2>1. step[c] = "assemble" /\ Good(linked, current) /\ current' = current /\ Store!Kind(c) \in {"init", "assemble"}
        /\ Store!Job(c) \in Project /\ (Store!Kind(c) = "assemble" => step'[c] # "openspec")
    BY <1>2, <1>3, <1>7 DEF Store!Assemble, PointerSound, StageSound, Store!Go, Store!InstallTypeOK
  <2>2. PICK s : linked' = [linked EXCEPT ![Store!Job(c)] = @ \union {s}] /\ Store!Serves(current, s)
    <3>1. CASE Store!Kind(c) = "init"
      <4>1. PICK s \in saved.linked \union {cmd[c].provider} : linked' = [linked EXCEPT ![Store!Job(c)] = @ \union {s}]
        BY <1>7, <3>1 DEF Store!Assemble
      <4>2. s \in required
        BY <1>3, <2>1, <3>1, <4>1 DEF Requires
      <4> QED BY <2>1, <3>1, <4>1, <4>2 DEF PointerSound
    <3>2. CASE Store!Kind(c) = "assemble"
      BY <1>7, <2>1, <3>2 DEF Store!Assemble, PointerSound
    <3> QED BY <2>1, <3>1, <3>2
  <2>3. \A j \in Project : linked'[j] \subseteq linked[j] \union {s}
    BY <1>3, <2>2 DEF Store!InstallTypeOK
  <2>4. Good(linked, current)'
    BY <1>1, <2>1, <2>2, <2>3 DEF Good, Store!Serves
  <2>5. /\ Store!Kind(c) = "init" => \A r \in required : Store!Serves(current, r)'
        /\ Store!Kind(c) = "assemble" => Store!Serves(current, cmd[c].provider)'
    BY <1>1, <2>1 DEF PointerSound, Store!Serves
  <2> QED BY <1>1, <1>2, <1>5, <2>1, <2>4, <2>5 DEF PointerSound
<1> QED BY <1>6, <1>7

LEMMA PointerRollsBack ==
  ASSUME FrameworkAssumption, WorkInv, NEW c \in Owner, holder = c, PointerSound(c),
         Store!RemoveVersion(c) \/ Store!Repoint(c) \/ Store!Restore(c)
  PROVE  PointerSound(c)'
<1>1. UNCHANGED <<cmd, saved, aside, required>> /\ step[c] \in {"remove", "repoint", "restore"} /\ c # None
  BY DEF Store!RemoveVersion, Store!Repoint, Store!Restore, FrameworkAssumption
<1>2. StageSound(c) /\ Remembers(c) /\ Store!InstallTypeOK /\ saved # None /\ Store!Kind(c) = "init"
  BY <1>1 DEF WorkInv, StageSound
<1>3. /\ Store!Target(c) \in Version /\ Store!Target(c) # None /\ Store!Target(c)' = Store!Target(c)
      /\ Store!Job(c)' = Store!Job(c) /\ Store!Kind(c)' = Store!Kind(c)
      /\ Store!Job(c) \in Project
  BY <1>1, <1>2, CommandKnown DEF WorkInv, AtWork, Store!Target, Store!Job, Store!Kind, FrameworkAssumption
<1>4. Good(Found(c), saved.current) /\ (~saved.present => saved.current # Store!Target(c))
      /\ saved.current \in Version \union {None}
  BY <1>1, <1>2 DEF PointerSound, Store!InstallTypeOK, Store!Surfaces
<1>5. CASE Store!RemoveVersion(c)
  <2>1. step'[c] = "repoint" /\ UNCHANGED <<current, linked>> /\ step[c] = "remove"
    BY <1>2, <1>5 DEF Store!RemoveVersion, Store!Go, Store!InstallTypeOK
  <2>2. store'[saved.current] = store[saved.current] \/ saved.current = None
    BY <1>2, <1>3, <1>4, <1>5 DEF Store!RemoveVersion, Store!InstallTypeOK
  <2>3. Found(c)' = Found(c)
    BY <1>1, <1>3, <2>1 DEF Found
  <2>4. Good(Found(c), saved.current)'
    BY <1>1, <1>4, <2>2, <2>3 DEF Good, Store!Serves
  <2>5. current = saved.current => Good(linked, current)'
    BY <1>1, <2>1, <2>2 DEF PointerSound, Good, Store!Serves
  <2> QED BY <1>1, <1>2, <1>3, <1>4, <2>1, <2>4, <2>5 DEF PointerSound
<1>6. CASE Store!Repoint(c)
  <2>1. step'[c] = "restore" /\ UNCHANGED <<store, linked>>
    BY <1>2, <1>6 DEF Store!Repoint, Store!Go, Store!InstallTypeOK
  <2>2. Good(Found(c), saved.current)'
    BY <1>1, <1>3, <1>4, <2>1 DEF Good, Store!Serves, Found
  <2> QED BY <1>1, <1>2, <1>3, <1>4, <2>1, <2>2 DEF PointerSound
<1>7. CASE Store!Restore(c)
  <2>1. step'[c] = "failed" /\ UNCHANGED <<store, current>> /\ linked' = Found(c) /\ current = saved.current
    BY <1>2, <1>7 DEF Store!Restore, Store!Go, Store!InstallTypeOK, Remembers, Found
  <2>2. Good(linked, current)'
    BY <1>4, <2>1 DEF Good, Store!Serves
  <2> QED BY <1>1, <1>3, <1>4, <2>1, <2>2 DEF PointerSound
<1> QED BY <1>5, <1>6, <1>7

\* A command gets the lock, gives it back or dies.
LEMMA PointerAdmits ==
  ASSUME FrameworkAssumption, WorkInv, WorkInv', NEW c \in Owner, holder = None, Good(linked, current),
         Store!Admit(c)
  PROVE  PointerSound(c)' /\ holder' = c
<1>1. /\ UNCHANGED <<store, aside, current, registered, linked, marker, custom, cmd, torn>> /\ holder' = c
      /\ step[c] = "waiting"
  BY DEF Store!Admit
<1>2. /\ Store!Target(c) \in Version /\ Store!Target(c) # None /\ Store!Target(c)' = Store!Target(c)
      /\ Store!Job(c)' = Store!Job(c) /\ Store!Kind(c)' = Store!Kind(c)
      /\ (Store!Kind(c) \in {"init", "assemble"} => Store!Job(c) \in Project) /\ Store!Kind(c) \in {"init", "assemble", "install", "stage", "swap"}
  BY <1>1, CommandKnown DEF WorkInv, Store!Target, Store!Job, Store!Kind, FrameworkAssumption
<1>3. /\ Store!Kind(c) # "init" => saved' = None
      /\ Store!Kind(c) = "init" =>
          /\ saved'.current = current /\ saved'.linked = linked[Store!Job(c)]
          /\ (saved'.present <=> store[Store!Target(c)] # None)
  <2> DEFINE found == [current |-> current, present |-> store[Store!Target(c)] # None,
                       linked |-> linked[Store!Job(c)], marker |-> marker[Store!Job(c)], custom |-> custom[Store!Job(c)]]
  <2>1. Store!Kind(c) = "init" => saved' = found
    BY DEF Store!Admit
  <2>2. Store!Kind(c) # "init" => saved' = None
    BY <1>2 DEF Store!Admit
  <2>3. found.current = current /\ found.linked = linked[Store!Job(c)] /\ (found.present <=> store[Store!Target(c)] # None)
    BY Zenon
  <2> HIDE DEF found
  <2> QED BY <2>1, <2>2, <2>3
<1>4. step'[c] \in {"failed", "materialize", "swap", "assemble"} /\ (step'[c] = "assemble" => Store!Kind(c) = "assemble")
  BY <1>2 DEF Store!Admit, Store!Go, WorkInv, Store!InstallTypeOK
<1>5. Good(linked, current)'
  BY <1>1 DEF Good, Store!Serves
<1>6. step'[c] = "assemble" => Store!Serves(current, cmd[c].provider)'
  <2> SUFFICES ASSUME step'[c] = "assemble" PROVE Store!Serves(current, cmd[c].provider)'
    OBVIOUS
  <2>1. Store!Kind(c) = "assemble"
    BY <1>4
  <2>2. Store!Go(c, IF Store!CurrentVersion \in {Store!Target(c), None} /\ Store!Serves(current, cmd[c].provider)
                            /\ Store!Complete(Store!Target(c), {cmd[c].provider})
                         THEN "assemble" ELSE "failed")
    BY <2>1 DEF Store!Admit
  <2>3. Store!Serves(current, cmd[c].provider)
    BY <2>2 DEF Store!Go, WorkInv, Store!InstallTypeOK
  <2> QED BY <1>1, <2>3 DEF Store!Serves
<1>7. saved' # None => Good(Found(c), saved.current)' /\ (~saved'.present => saved'.current # Store!Target(c))
  <2> SUFFICES ASSUME saved' # None PROVE Good(Found(c), saved.current)' /\ (~saved'.present => saved'.current # Store!Target(c))
    OBVIOUS
  <2>1. Store!Kind(c) = "init" /\ Store!Job(c) \in Project
    BY <1>2, <1>3
  <2>2. Found(c)' = linked
    BY <1>1, <1>2, <1>3, <2>1 DEF Found, WorkInv, Store!InstallTypeOK
  <2>3. Good(Found(c), saved.current)'
    BY <1>1, <1>3, <1>5, <2>1, <2>2
  <2> QED BY <1>2, <1>3, <2>1, <2>3 DEF Good
<1> QED BY <1>1, <1>2, <1>4, <1>5, <1>6, <1>7 DEF PointerSound

LEMMA PointerEnds ==
  ASSUME FrameworkAssumption, WorkInv, NEW c \in Owner, holder = c, PointerSound(c),
         Store!Leave(c) \/ Store!Die(c), ~torn'
  PROVE  Good(linked, current)' /\ holder' = None
<1>1. UNCHANGED <<store, current, linked>> /\ holder' = None
  BY DEF Store!Leave, Store!Die
<1>2. c # None /\ step[c] \in AtWork /\ StageSound(c) /\ Remembers(c)
  BY DEF FrameworkAssumption, WorkInv, HolderSound
<1>3. Good(linked, current)
  <2>1. CASE Store!Leave(c)
    BY <2>1 DEF Store!Leave, PointerSound
  <2>2. CASE Store!Die(c)
    <3>1. ~Store!Dangling(c)
      BY <2>2 DEF Store!Die
    <3>2. CASE step[c] = "publish"
      BY <3>1, <3>2 DEF Store!Dangling, PointerSound
    <3>3. CASE step[c] = "repoint"
      BY <3>1, <3>3 DEF Store!Dangling, PointerSound
    <3>4. CASE step[c] = "restore"
      <4>1. saved # None /\ Store!Job(c) \in Project /\ linked[Store!Job(c)] = saved.linked /\ current = saved.current
        BY <1>2, <3>1, <3>4, CommandKnown DEF Store!Dangling, StageSound, Remembers, WorkInv
      <4>2. Found(c) = linked
        BY <4>1, FoundSame DEF WorkInv
      <4> QED BY <3>4, <4>1, <4>2 DEF PointerSound
    <3> QED BY <1>2, <3>2, <3>3, <3>4 DEF PointerSound, AtWork
  <2> QED BY <2>1, <2>2
<1> QED BY <1>1, <1>3 DEF Good, Store!Serves

\* Nothing the holder relies on changes.
LEMMA PointerWaits ==
  ASSUME PointerInv, UNCHANGED <<store, aside, current, linked, holder, required, saved, torn>>,
         holder # None => step'[holder] = step[holder] /\ cmd'[holder] = cmd[holder]
  PROVE  PointerInv'
BY DEF PointerInv, PointerSound, Good, Store!Serves, Found, Store!Target, Store!Kind, Store!Job

LEMMA PointerNext == FrameworkAssumption /\ FrameworkInv /\ [Store!Next]_frameworks => FrameworkInv'
<1> SUFFICES ASSUME FrameworkAssumption, WorkInv, PointerInv, [Store!Next]_frameworks PROVE PointerInv'
  BY WorkNext DEF FrameworkInv
<1>0. WorkInv'
  BY WorkNext
<1>1. CASE UNCHANGED frameworks
  BY <1>1, PointerWaits DEF frameworks
<1>2. ASSUME NEW j \in Project, Store!UserEdits(j) PROVE PointerInv'
  BY <1>2, PointerWaits DEF Store!UserEdits
<1>3. ASSUME NEW c \in Owner, NEW command \in MCAsked, Store!Ask(c, command) PROVE PointerInv'
  <2>1. c # holder /\ UNCHANGED <<store, aside, current, linked, holder, required, saved, torn>>
    BY <1>3 DEF Store!Ask, WorkInv, HolderSound, AtWork, FrameworkAssumption
  <2>2. \A d \in Owner : d # c => step'[d] = step[d] /\ cmd'[d] = cmd[d]
    BY <1>3 DEF Store!Ask, Store!Go, WorkInv, Store!InstallTypeOK
  <2>3. holder # None => holder \in Owner
    BY DEF WorkInv, Store!InstallTypeOK
  <2> QED BY <2>1, <2>2, <2>3, PointerWaits
<1>4. ASSUME NEW c \in Owner, Store!Admit(c) PROVE PointerInv'
  <2>1. CASE holder # None
    <3>1. c # holder /\ UNCHANGED <<store, aside, current, linked, holder, required, saved, torn, cmd>>
      BY <1>4, <2>1 DEF Store!Admit, WorkInv, HolderSound, AtWork
    <3>2. \A d \in Owner : d # c => step'[d] = step[d]
      BY <1>4, <2>1 DEF Store!Admit, Store!Go, WorkInv, Store!InstallTypeOK
    <3>3. holder \in Owner
      BY <2>1 DEF WorkInv, Store!InstallTypeOK
    <3> QED BY <3>1, <3>2, <3>3, PointerWaits
  <2>2. CASE holder = None
    <3>1. torn' = torn /\ c # None
      BY <1>4 DEF Store!Admit, FrameworkAssumption
    <3> QED BY <1>0, <1>4, <2>2, <3>1, PointerAdmits DEF PointerInv
  <2> QED BY <2>1, <2>2
<1>5. ASSUME NEW c \in Owner, Store!Leave(c) \/ Store!Die(c) PROVE PointerInv'
  <2>1. holder = c /\ c # None
    BY <1>5 DEF Store!Leave, Store!Die, WorkInv, HolderSound, AtWork, FrameworkAssumption
  <2>2. torn => torn'
    BY <1>5, Zenon DEF Store!Leave, Store!Die
  <2> QED BY <1>5, <2>1, <2>2, PointerEnds DEF PointerInv
<1>6. ASSUME NEW c \in Owner, Works(c) PROVE PointerInv'
  <2>1. holder = c /\ holder' = c /\ c # None /\ torn' = torn
    BY <1>6, HolderWorks DEF WorkInv, FrameworkAssumption
  <2>2. ~torn => PointerSound(c)
    BY <2>1 DEF PointerInv
  <2>3. ~torn => PointerSound(c)'
    BY <1>6, <2>1, <2>2, PointerRests, PointerSetsAside, PointerPublishes, PointerMoves, PointerRollsBack
      DEF Works
  <2> QED BY <2>1, <2>3 DEF PointerInv
<1> QED
  BY <1>1, <1>2, <1>3, <1>4, <1>5, <1>6 DEF Store!Next, Works

\* What LinkedServed says follows where the holder stands.
LEMMA InvServes == FrameworkAssumption /\ FrameworkInv => Store!LinkedServed
<1> SUFFICES ASSUME FrameworkAssumption, WorkInv, PointerInv, ~torn, \A c \in Owner : ~Store!Dangling(c)
             PROVE  Good(linked, current)
  BY DEF FrameworkInv, Store!LinkedServed, Good
<1>1. CASE holder = None
  BY <1>1 DEF PointerInv
<1>2. CASE holder # None
  <2>1. holder \in Owner /\ step[holder] \in AtWork /\ PointerSound(holder) /\ StageSound(holder) /\ Remembers(holder)
    BY <1>2 DEF WorkInv, PointerInv, Store!InstallTypeOK, HolderSound
  <2>2. ~Store!Dangling(holder)
    BY <2>1
  <2>3. CASE step[holder] = "restore"
    <3>1. saved # None /\ Store!Job(holder) \in Project /\ linked[Store!Job(holder)] = saved.linked /\ current = saved.current
      BY <2>1, <2>2, <2>3, CommandKnown DEF Store!Dangling, StageSound, Remembers, WorkInv
    <3>2. Found(holder) = linked
      BY <2>1, <3>1, FoundSame DEF WorkInv
    <3> QED BY <2>1, <2>3, <3>1, <3>2 DEF PointerSound
  <2>4. CASE step[holder] # "restore"
    BY <2>1, <2>2, <2>4 DEF Store!Dangling, PointerSound, AtWork
  <2> QED BY <2>3, <2>4
<1> QED BY <1>1, <1>2

\* The pointer moves only in a swap, which has checked the version, and in a rollback.
LEMMA StepServesAll ==
  FrameworkAssumption /\ WorkInv /\ [Store!Next]_frameworks => Store!MoveServesAll
<1> SUFFICES ASSUME FrameworkAssumption, WorkInv, [Store!Next]_frameworks, current' # current, \A c \in Owner : step[c] # "repoint"
             PROVE  \A j \in Project : \A s \in linked'[j] : store'[current'][s] = "whole"
  BY DEF Store!MoveServesAll
<1>1. PICK c \in Owner : Store!Swap(c)
  BY
    DEF frameworks, Store!Next, Store!Ask, Store!Admit, Store!Reuse, Store!SetAside, Store!Publish,
        Store!PublishFails, Store!MaterializeFails, Store!Materialized, Store!Assemble,
        Store!AssembleFails, Store!OpenSpec, Store!Record, Store!RemoveVersion, Store!Repoint,
        Store!Restore, Store!Leave, Store!Die, Store!UserEdits
<1>2. Store!Complete(Store!Target(c), required) /\ current' = Store!Target(c) /\ UNCHANGED <<linked, store>> /\ step[c] = "swap"
  BY <1>1 DEF Store!Swap
<1>3. c # None /\ holder = c /\ Store!Kind(c) \in {"init", "install", "swap"} /\ Requires(c)
  BY <1>2 DEF FrameworkAssumption, WorkInv, HolderSound, AtWork, StageSound
<1> QED BY <1>2, <1>3 DEF Requires, Store!Complete

\* Only an admission that is refused, a rollback that is over and a command that is not an
\* installation come to `failed`.
LEMMA StepRollsBack ==
  FrameworkAssumption /\ FrameworkInv /\ [Store!Next]_frameworks => Store!FailureRollsBack
<1> SUFFICES ASSUME FrameworkAssumption, WorkInv, [Store!Next]_frameworks PROVE Store!FailureRollsBack
  BY DEF FrameworkInv
<1>1. \A j \in Project : custom[j] => custom'[j]
  <2>1. ASSUME NEW i \in Project, Store!UserEdits(i) PROVE \A j \in Project : custom[j] => custom'[j]
    BY <2>1 DEF Store!UserEdits, WorkInv, Store!InstallTypeOK
  <2>2. CASE \A i \in Project : ~Store!UserEdits(i)
    <3>1. custom' = custom
      BY <2>2
        DEF frameworks, Store!Next, Store!Ask, Store!Admit, Store!Reuse, Store!SetAside, Store!Publish,
            Store!PublishFails, Store!MaterializeFails, Store!Materialized, Store!Swap, Store!Assemble,
            Store!AssembleFails, Store!OpenSpec, Store!Record, Store!RemoveVersion, Store!Repoint,
            Store!Restore, Store!Leave, Store!Die
    <3> QED BY <3>1
  <2> QED BY <2>1, <2>2
<1>2. ASSUME NEW c \in Owner, step[c] # "failed", step'[c] = "failed", saved # None
      PROVE  /\ current' = saved.current /\ linked'[Store!Job(c)] = saved.linked /\ marker'[Store!Job(c)] = saved.marker
             /\ (store'[Store!Target(c)] # None) = saved.present
  <2>1. holder # None
    BY <1>2 DEF WorkInv, HolderSound
  <2>2. ASSUME NEW d \in Owner, NEW command \in MCAsked, Store!Ask(d, command) PROVE FALSE
    BY <1>2, <2>2 DEF Store!Ask, Store!Go, WorkInv, Store!InstallTypeOK
  <2>3. ASSUME NEW d \in Owner, Store!Admit(d) PROVE FALSE
    BY <1>2, <2>1, <2>3 DEF Store!Admit, Store!Go, WorkInv, Store!InstallTypeOK
  <2>4. ASSUME NEW d \in Owner, Store!Leave(d) \/ Store!Die(d) PROVE FALSE
    BY <1>2, <2>4 DEF Store!Leave, Store!Die, Store!Go, WorkInv, Store!InstallTypeOK
  <2>5. ASSUME NEW j \in Project, Store!UserEdits(j) PROVE FALSE
    BY <1>2, <2>5 DEF Store!UserEdits
  <2>6. PICK d \in Owner : Works(d)
    BY <1>2, <2>2, <2>3, <2>4, <2>5 DEF Store!Next, Works, frameworks
  <2>7. d = c /\ holder = c /\ c # None
    BY <1>2, <2>6, HolderWorks DEF WorkInv, FrameworkAssumption
  <2>8. StageSound(c) /\ Remembers(c) /\ Store!Kind(c) = "init"
    BY <1>2, <2>7 DEF WorkInv, StageSound
  <2>9. Store!Restore(c)
    BY <1>2, <2>6, <2>7, <2>8
      DEF Works, Store!Reuse, Store!SetAside, Store!Publish, Store!PublishFails, Store!MaterializeFails,
          Store!Materialized, Store!Swap, Store!Assemble, Store!AssembleFails, Store!OpenSpec,
          Store!Record, Store!RemoveVersion, Store!Repoint, Store!Go, Store!Throws, WorkInv,
          Store!InstallTypeOK
  <2>10. /\ step[c] = "restore" /\ UNCHANGED <<store, current, cmd>>
         /\ linked' = [linked EXCEPT ![Store!Job(c)] = saved.linked]
         /\ marker' = [marker EXCEPT ![Store!Job(c)] = saved.marker]
    BY <2>9 DEF Store!Restore
  <2>11. Store!Job(c) \in Project /\ saved.present \in BOOLEAN
    BY <1>2, <2>8, <2>10, CommandKnown DEF WorkInv, AtWork, Store!InstallTypeOK, Store!Surfaces
  <2>12. current' = saved.current /\ ((store'[Store!Target(c)] # None) <=> saved.present)
    BY <1>2, <2>8, <2>10 DEF Remembers
  <2>13. linked'[Store!Job(c)] = saved.linked /\ marker'[Store!Job(c)] = saved.marker
    BY <2>10, <2>11 DEF WorkInv, Store!InstallTypeOK
  <2> QED BY <2>11, <2>12, <2>13
<1> QED BY <1>1, <1>2 DEF Store!FailureRollsBack

FrameworksInv == component = "framework" => FrameworkInv

\* A step of the composition that is the framework's.
LEMMA FrameworkStep ==
  ASSUME component = "framework", [JournalsNext]_journalsVars
  PROVE  [Store!Next]_frameworks
BY DEF JournalsNext, journalsVars

LEMMA FrameworksInit == FrameworkAssumption /\ JournalsInit => FrameworksInv
BY FrameworkInit DEF JournalsInit, Locks!Init, Locks!Protocols, FrameworksInv

LEMMA FrameworksNext == FrameworkAssumption /\ FrameworksInv /\ [JournalsNext]_journalsVars => FrameworksInv'
<1> SUFFICES ASSUME FrameworkAssumption, FrameworksInv, [JournalsNext]_journalsVars PROVE FrameworksInv'
  OBVIOUS
<1>1. UNCHANGED component
  BY DEF JournalsNext, journalsVars
<1> QED
  BY <1>1, FrameworkStep, PointerNext DEF FrameworksInv

\* Unless a command died where the pointer dangled, what any workspace links through the
\* pointer is in the version it names, in every step of every command.
THEOREM JournalsServe ==
  ASSUME FrameworkAssumption
  PROVE  JournalsSpec => []LinkedServed
<1>1. JournalsInit => FrameworksInv
  BY FrameworksInit
<1>2. FrameworksInv /\ [JournalsNext]_journalsVars => FrameworksInv'
  BY FrameworksNext
<1>3. FrameworksInv => LinkedServed
  BY InvServes DEF FrameworksInv, LinkedServed
<1> QED
  BY <1>1, <1>2, <1>3, PTL DEF JournalsSpec, journalsVars

\* The pointer moves only to a version that serves every workspace, and an installation that
\* failed has left pointer, workspace and edits as it found them.
THEOREM JournalsInstall ==
  ASSUME FrameworkAssumption
  PROVE  JournalsSpec => InstallSteps
<1>1. JournalsInit => FrameworksInv
  BY FrameworksInit
<1>2. FrameworksInv /\ [JournalsNext]_journalsVars => FrameworksInv'
  BY FrameworksNext
<1>3. FrameworksInv /\ [JournalsNext]_journalsVars =>
        [component = "framework" => Store!MoveServesAll /\ Store!FailureRollsBack]_frameworks
  BY FrameworkStep, StepServesAll, StepRollsBack DEF FrameworksInv, FrameworkInv
<1> QED
  BY <1>1, <1>2, <1>3, PTL DEF JournalsSpec, journalsVars, InstallSteps

-----------------------------------------------------------------------------
(* The directories of a fork. The inductive invariant says what the manifest
   knows of what every fork has left on disk, and that only the holder of the
   lock, whose copy in memory is the manifest's, adds to it. *)

ForkAssumption ==
  /\ MCTargets \in Seq(Forks!Target) /\ Len(MCTargets) > 0
  /\ \A m, n \in 1..Len(MCTargets) : MCTargets[m] = MCTargets[n] => m = n
  /\ None \notin MCFork \union {Foreign} /\ Foreign \notin MCFork

Constructing == {"opened", "recover", "look", "reserve", "make", "record", "rename", "build", "publish",
                 "cleanup", "remove"}
Reserves == Constructing \ {"opened", "recover"}
Allocation == [target : Forks!Target, inode : MCFork \union {None}]

ForkShape ==
  /\ manifest = [request |-> manifest.request, allocations |-> manifest.allocations]
  /\ mine = [request |-> mine.request, allocations |-> mine.allocations]
  /\ manifest.allocations \in Seq(Allocation) /\ mine.allocations \in Seq(Allocation)
  /\ place \in [Forks!Target -> Forks!Inode] /\ temporary \in [Forks!Target -> Forks!Inode]
  /\ forkPhase \in [MCFork -> Constructing \union {"idle", "over", "died"}]
  /\ answer = [f \in MCFork |-> answer[f]]

\* Who constructs has the lock, and nobody does once there is a child.
LockSound ==
  \A f \in MCFork : forkPhase[f] \in Constructing => forkLock = f /\ (forked.published => forkPhase[f] = "opened")

\* The manifest knows every directory a fork has left, by its inode.
LeftSound ==
  /\ Len(manifest.allocations) <= Len(MCTargets)
  /\ \A n \in 1..Len(manifest.allocations) : manifest.allocations[n].target = MCTargets[n]
  /\ \A n \in 1..Len(manifest.allocations) :
       temporary[MCTargets[n]] # None /\ manifest.allocations[n].inode # None =>
         temporary[MCTargets[n]] = manifest.allocations[n].inode
  /\ ~forked.published => \A n \in 1..Len(MCTargets) :
       place[MCTargets[n]] \in MCFork =>
         n <= Len(manifest.allocations) /\ manifest.allocations[n].inode = place[MCTargets[n]]

\* Who constructs has the manifest in memory; what it is about to rename is not in place.
MineSound(f) ==
  /\ forkPhase[f] \in Reserves => mine.allocations = manifest.allocations
  /\ forkPhase[f] \in {"opened", "recover", "look"} => mine.allocations = <<>>
  /\ forkPhase[f] = "reserve" => Forks!Count < Len(MCTargets)
  /\ forkPhase[f] \in {"make", "record", "rename"} =>
       Forks!Count > 0 /\ place[MCTargets[Forks!Count]] \notin MCFork
  /\ forkPhase[f] = "make" => mine.allocations[Forks!Count].inode = None
  /\ forkPhase[f] = "record" => temporary[MCTargets[Forks!Count]] = f
  /\ forkPhase[f] = "rename" => mine.allocations[Forks!Count].inode = f
  /\ forkPhase[f] = "remove" => \A n \in 1..Forks!Count : place[MCTargets[n]] # Foreign

ForkInv == ForkShape /\ LockSound /\ LeftSound /\ \A f \in MCFork : MineSound(f)

LEMMA ForkInit == ForkAssumption /\ Forks!Init => ForkInv
<1> SUFFICES ASSUME ForkAssumption, Forks!Init PROVE ForkInv
  OBVIOUS
<1>1. manifest.allocations = <<>> /\ mine.allocations = <<>> /\ forked.published = FALSE
  BY DEF Forks!Init, Forks!NoChild
<1>2. ForkShape
  BY <1>1 DEF Forks!Init, ForkShape, Forks!Inode
<1>3. LeftSound
  BY <1>1 DEF Forks!Init, LeftSound, ForkAssumption, Forks!Target
<1> QED
  BY <1>1, <1>2, <1>3 DEF Forks!Init, ForkInv, LockSound, MineSound, Constructing, Reserves

\* What a fork does while it constructs.
Constructs(f) ==
  \/ Forks!LookForChild(f) \/ Forks!Recover(f) \/ Forks!Look(f) \/ Forks!SaveIntent(f)
     \/ Forks!MakeTemporary(f) \/ Forks!RecordInode(f)
  \/ Forks!Rename(f) \/ Forks!Build(f) \/ Forks!Publish(f) \/ Forks!Validate(f) \/ Forks!RemoveAll(f)
     \/ Forks!Die(f)

\* It has the lock, and nobody else constructs.
LEMMA Alone ==
  ASSUME ForkShape, LockSound, NEW f \in MCFork, Constructs(f)
  PROVE  /\ forkPhase[f] \in Constructing /\ forkLock = f
         /\ \A g \in MCFork :
              g # f => forkPhase[g] \notin Constructing /\ forkPhase'[g] = forkPhase[g] /\ answer'[g] = answer[g]
<1>1. forkPhase[f] \in Constructing
  BY
    DEF ForkShape, Constructs, Forks!LookForChild, Forks!Recover, Forks!Look, Forks!SaveIntent,
        Forks!MakeTemporary, Forks!RecordInode, Forks!Rename, Forks!Build, Forks!Publish, Forks!Validate,
        Forks!RemoveAll, Forks!Die, Constructing
<1>2. forkLock = f /\ \A g \in MCFork : g # f => forkPhase[g] \notin Constructing
  BY <1>1 DEF LockSound
<1>3. \A g \in MCFork : g # f => forkPhase'[g] = forkPhase[g] /\ answer'[g] = answer[g]
  BY
    DEF ForkShape, Constructs, Forks!LookForChild, Forks!Recover, Forks!Look, Forks!SaveIntent,
        Forks!MakeTemporary, Forks!RecordInode, Forks!Rename, Forks!Build, Forks!Publish, Forks!Validate,
        Forks!RemoveAll, Forks!Die, Forks!Go, Forks!Answer, Forks!Over, Forks!Fails
<1> QED BY <1>1, <1>2, <1>3

\* The rows of what is reserved.
LEMMA Reserved ==
  ASSUME ForkAssumption, ForkShape, LeftSound, NEW f \in MCFork, MineSound(f), forkPhase[f] \in Reserves
  PROVE  /\ Forks!Count \in 0..Len(MCTargets) /\ Len(manifest.allocations) = Forks!Count
         /\ \A n \in 1..Forks!Count :
              /\ mine.allocations[n].target = MCTargets[n] /\ MCTargets[n] \in Forks!Target
              /\ mine.allocations[n].inode \in MCFork \union {None}
         /\ \A n \in 1..Len(MCTargets) : MCTargets[n] \in Forks!Target
<1>1. mine.allocations = manifest.allocations
  BY DEF MineSound
<1>2. Forks!Count \in Nat /\ \A n \in 1..Forks!Count : mine.allocations[n] \in Allocation
  BY DEF ForkShape, Forks!Count
<1>3. Forks!Count <= Len(MCTargets) /\ \A n \in 1..Forks!Count : mine.allocations[n].target = MCTargets[n]
  BY <1>1 DEF LeftSound, Forks!Count
<1>4. Len(MCTargets) \in Nat /\ \A n \in 1..Len(MCTargets) : MCTargets[n] \in Forks!Target
  BY DEF ForkAssumption
<1> QED BY <1>1, <1>2, <1>3, <1>4 DEF Allocation, Forks!Count

\* The steps on what is reserved, as equations.
LEMMA Recording ==
  ASSUME ForkAssumption, ForkShape, LeftSound, NEW f \in MCFork, MineSound(f), forkPhase[f] = "record",
         Forks!RecordInode(f)
  PROVE  /\ mine' = manifest' /\ mine'.allocations \in Seq(Allocation) /\ Len(mine'.allocations) = Forks!Count
         /\ mine' = [request |-> mine'.request, allocations |-> mine'.allocations]
         /\ \A n \in 1..Forks!Count :
              /\ mine'.allocations[n].target = mine.allocations[n].target
              /\ mine'.allocations[n].inode = IF n = Forks!Count THEN f ELSE mine.allocations[n].inode
<1> DEFINE s == mine.allocations
           a == [s[Forks!Count] EXCEPT !.inode = f]
<1>1. s \in Seq(Allocation) /\ Forks!Count = Len(s) /\ Forks!Count > 0 /\ Forks!Count \in Nat
  BY DEF ForkShape, MineSound, Forks!Count
<1>2. s[Forks!Count] \in Allocation
  BY <1>1
<1>3. a \in Allocation /\ a.target = s[Forks!Count].target /\ a.inode = f
  BY <1>2 DEF Allocation
<1>4. mine' = [mine EXCEPT !.allocations = [s EXCEPT ![Forks!Count] = a]] /\ manifest' = mine'
  BY DEF Forks!RecordInode
<1>5. /\ mine'.allocations = [s EXCEPT ![Forks!Count] = a]
      /\ mine' = [request |-> mine'.request, allocations |-> mine'.allocations]
  BY <1>4 DEF ForkShape
<1> HIDE DEF s, a
<1>6. /\ [s EXCEPT ![Forks!Count] = a] \in Seq(Allocation) /\ Len([s EXCEPT ![Forks!Count] = a]) = Len(s)
      /\ \A n \in 1..Len(s) : [s EXCEPT ![Forks!Count] = a][n] = IF n = Forks!Count THEN a ELSE s[n]
  BY <1>1, <1>3, ExceptSeq
<1> QED BY <1>1, <1>3, <1>4, <1>5, <1>6 DEF s

LEMMA Intending ==
  ASSUME ForkAssumption, ForkShape, LeftSound, NEW f \in MCFork, MineSound(f), forkPhase[f] = "reserve",
         Forks!SaveIntent(f),
         place[MCTargets[Forks!Count + 1]] = None
  PROVE  /\ mine' = manifest' /\ mine'.allocations \in Seq(Allocation)
         /\ Len(mine'.allocations) = Forks!Count + 1
         /\ mine' = [request |-> mine'.request, allocations |-> mine'.allocations]
         /\ \A n \in 1..Forks!Count : mine'.allocations[n] = mine.allocations[n]
         /\ mine'.allocations[Forks!Count + 1].target = MCTargets[Forks!Count + 1]
         /\ mine'.allocations[Forks!Count + 1].inode = None
<1> DEFINE s == mine.allocations
           a == [target |-> MCTargets[Forks!Count + 1], inode |-> None]
<1>1. s \in Seq(Allocation) /\ Forks!Count = Len(s) /\ Forks!Count \in Nat
  BY DEF ForkShape, Forks!Count
<1>2. a \in Allocation /\ a.target = MCTargets[Forks!Count + 1] /\ a.inode = None
  <2>1. Forks!Count + 1 \in 1..Len(MCTargets)
    BY <1>1 DEF MineSound, ForkAssumption
  <2> QED BY <2>1 DEF Allocation, ForkAssumption
<1>3. mine' = [mine EXCEPT !.allocations = Append(s, a)] /\ manifest' = mine'
  BY DEF Forks!SaveIntent
<1>4. /\ mine'.allocations = Append(s, a)
      /\ mine' = [request |-> mine'.request, allocations |-> mine'.allocations]
  BY <1>3 DEF ForkShape
<1> HIDE DEF s, a
<1>5. /\ Append(s, a) \in Seq(Allocation) /\ Len(Append(s, a)) = Len(s) + 1
      /\ \A n \in 1..Len(s) : Append(s, a)[n] = s[n]
      /\ Append(s, a)[Len(s) + 1] = a
  BY <1>1, <1>2
<1> QED BY <1>1, <1>2, <1>3, <1>4, <1>5 DEF s

\* Steps that reserve nothing and remove nothing.
Waits(f) ==
  \/ Forks!LookForChild(f) \/ Forks!Recover(f) \/ Forks!Look(f) \/ Forks!Build(f)
  \/ Forks!Publish(f) \/ Forks!Validate(f) \/ Forks!Die(f)

LEMMA WaitsNext ==
  ASSUME ForkAssumption, ForkInv, NEW f \in MCFork, Waits(f)
  PROVE  ForkInv'
<1>1. /\ forkPhase[f] \in Constructing /\ forkLock = f
      /\ \A g \in MCFork :
           g # f => forkPhase[g] \notin Constructing /\ forkPhase'[g] = forkPhase[g] /\ answer'[g] = answer[g]
  BY Alone DEF ForkInv, Waits, Constructs
<1>2. UNCHANGED <<manifest, place, temporary>>
  BY
    DEF Waits, Forks!LookForChild, Forks!Recover, Forks!Look, Forks!Build, Forks!Publish, Forks!Validate,
        Forks!Die
<1>3. PICK to \in Constructing \union {"over", "died"} : forkPhase' = [forkPhase EXCEPT ![f] = to]
  BY
    DEF Waits, Forks!LookForChild, Forks!Recover, Forks!Look, Forks!Build, Forks!Publish, Forks!Validate,
        Forks!Die, Forks!Go, Forks!Over, Forks!Fails, Constructing
<1>4. forkPhase'[f] = to
  BY <1>3 DEF ForkInv, ForkShape
<1>5. mine' = mine \/ (mine' = manifest /\ Forks!Recover(f))
  BY
    DEF Waits, Forks!LookForChild, Forks!Recover, Forks!Look, Forks!Build, Forks!Publish, Forks!Validate,
        Forks!Die
<1>6. answer' = [g \in MCFork |-> answer'[g]]
  BY
    DEF Waits, Forks!LookForChild, Forks!Recover, Forks!Look, Forks!Build, Forks!Publish, Forks!Validate,
        Forks!Die, Forks!Over, Forks!Fails, Forks!Answer, ForkInv, ForkShape
<1>7. ForkShape'
  BY <1>2, <1>3, <1>5, <1>6 DEF ForkInv, ForkShape, Constructing
<1>8. /\ forked' = forked \/ (Forks!Publish(f) /\ to = "over" /\ forked'.published)
      /\ to = "opened" => FALSE
      /\ forkLock' = forkLock \/ to \in {"over", "died"}
      /\ forked.published => to \in {"over", "died"}
  BY <1>1, <1>4
    DEF Waits, Forks!LookForChild, Forks!Recover, Forks!Look, Forks!Build, Forks!Publish, Forks!Validate,
        Forks!Die, Forks!Over, Forks!Fails, Forks!Go, ForkInv, ForkShape, LockSound, Constructing
<1>9. LockSound'
  <2> SUFFICES ASSUME NEW g \in MCFork, forkPhase'[g] \in Constructing
               PROVE  forkLock' = g /\ (forked'.published => forkPhase'[g] = "opened")
    BY DEF LockSound
  <2>1. g = f /\ to \notin {"over", "died"}
    BY <1>1, <1>4 DEF Constructing
  <2> QED BY <1>1, <1>8, <2>1
<1>10. forked.published => forked'.published
  BY <1>8
<1>11. LeftSound'
  BY <1>2, <1>10 DEF ForkInv, LeftSound
<1>12. ASSUME NEW g \in MCFork PROVE MineSound(g)'
  <2>1. CASE g # f
    BY <1>1, <2>1 DEF MineSound, Constructing, Reserves
  <2>2. CASE g = f
    <3>1. MineSound(f)
      BY DEF ForkInv
    <3>2. CASE Forks!LookForChild(f)
      <4>1. mine' = mine /\ forkPhase[f] = "opened" /\ to \in {"recover", "over"}
        BY <1>4, <3>2 DEF Forks!LookForChild, Forks!Over, Forks!Go, ForkInv, ForkShape
      <4> QED BY <1>4, <2>2, <3>1, <4>1 DEF MineSound, Reserves, Constructing
    <3>3. CASE Forks!Recover(f)
      <4>1. CASE manifest.allocations = <<>>
        <5>1. to = "look" /\ mine' = mine /\ forkPhase[f] = "recover"
          BY <1>4, <3>3, <4>1 DEF Forks!Recover, Forks!Go, ForkInv, ForkShape
        <5> QED BY <1>2, <1>4, <2>2, <3>1, <4>1, <5>1 DEF MineSound, Reserves, Constructing
      <4>2. CASE manifest.allocations # <<>>
        <5>1. to = "over" \/ (to = "cleanup" /\ mine' = manifest)
          BY <1>4, <3>3, <4>2 DEF Forks!Recover, Forks!Over, Forks!Go, ForkInv, ForkShape
        <5> QED BY <1>2, <1>4, <2>2, <5>1 DEF MineSound, Reserves, Constructing
      <4> QED BY <4>1, <4>2
    <3>4. CASE Forks!Look(f)
      <4>1. forkPhase[f] = "look" /\ mine' = mine /\ to \in {"cleanup", "reserve"}
        BY <1>4, <3>4 DEF Forks!Look, Forks!Fails, Forks!Go, ForkInv, ForkShape
      <4>2. mine.allocations = <<>> /\ mine.allocations = manifest.allocations
        BY <3>1, <4>1 DEF MineSound, Reserves, Constructing
      <4> QED BY <1>2, <1>4, <2>2, <4>1, <4>2
        DEF MineSound, Reserves, Constructing, Forks!Count, ForkAssumption
    <3>5. CASE Forks!Build(f)
      <4>1. /\ forkPhase[f] = "build" /\ mine' = mine /\ to \in {"cleanup", "reserve", "publish"}
            /\ (to = "reserve" => Forks!Count < Len(MCTargets))
        BY <1>4, <3>5 DEF Forks!Build, Forks!Fails, Forks!Go, ForkInv, ForkShape
      <4> QED BY <1>2, <1>4, <2>2, <3>1, <4>1 DEF MineSound, Reserves, Constructing, Forks!Count
    <3>6. CASE Forks!Publish(f) \/ Forks!Die(f)
      <4>1. mine' = mine /\ to \in {"over", "cleanup", "died"} /\ (to = "cleanup" => forkPhase[f] = "publish")
        BY <1>4, <3>6 DEF Forks!Publish, Forks!Die, Forks!Over, Forks!Fails, Forks!Go, ForkInv, ForkShape
      <4> QED BY <1>2, <1>4, <2>2, <3>1, <4>1 DEF MineSound, Reserves, Constructing
    <3>7. CASE Forks!Validate(f)
      <4>1. forkPhase[f] = "cleanup" /\ mine' = mine /\ to \in {"over", "remove"}
            /\ (to = "remove" => \A n \in 1..Forks!Count : Forks!Owned(mine.allocations[n]))
        BY <1>4, <3>7 DEF Forks!Validate, Forks!Over, Forks!Go, ForkInv, ForkShape
      <4>2. to = "remove" => \A n \in 1..Forks!Count : place[MCTargets[n]] # Foreign
        <5>1. \A n \in 1..Forks!Count :
                /\ mine.allocations[n].target = MCTargets[n]
                /\ mine.allocations[n].inode \in MCFork \union {None}
          BY <3>1, <4>1, Reserved DEF ForkInv, Reserves, Constructing
        <5> QED BY <4>1, <5>1 DEF Forks!Owned, Forks!Recorded, ForkAssumption
      <4> QED BY <1>2, <1>4, <2>2, <3>1, <4>1, <4>2 DEF MineSound, Reserves, Constructing, Forks!Count
    <3> QED BY <3>2, <3>3, <3>4, <3>5, <3>6, <3>7 DEF Waits
  <2> QED BY <2>1, <2>2
<1> QED BY <1>7, <1>9, <1>11, <1>12 DEF ForkInv

\* Steps that write the manifest or the directories: who does them, and what they keep.
Writes(f) ==
  \/ Forks!SaveIntent(f) \/ Forks!MakeTemporary(f) \/ Forks!RecordInode(f)
  \/ Forks!Rename(f) \/ Forks!RemoveAll(f)

LEMMA WritesKeep ==
  ASSUME ForkAssumption, ForkInv, NEW f \in MCFork, Writes(f)
  PROVE  /\ forkPhase[f] \in Reserves /\ ~forked.published /\ forked' = forked
         /\ LockSound' /\ forkPhase' \in [MCFork -> Constructing \union {"idle", "over", "died"}]
         /\ answer' = [g \in MCFork |-> answer'[g]] /\ forkPhase'[f] # "opened"
         /\ \A g \in MCFork : g # f => MineSound(g)'
<1>1. /\ forkPhase[f] \in Constructing /\ forkLock = f
      /\ \A g \in MCFork :
           g # f => forkPhase[g] \notin Constructing /\ forkPhase'[g] = forkPhase[g] /\ answer'[g] = answer[g]
  BY Alone DEF ForkInv, Writes, Constructs
<1>2. forkPhase[f] \in Reserves /\ forked' = forked
  BY
    DEF Writes, Forks!SaveIntent, Forks!MakeTemporary, Forks!RecordInode, Forks!Rename, Forks!RemoveAll,
        Reserves, Constructing
<1>3. ~forked.published
  BY <1>2 DEF ForkInv, LockSound, Reserves, Constructing
<1>4. PICK to \in (Constructing \ {"opened"}) \union {"over"} :
        forkPhase' = [forkPhase EXCEPT ![f] = to] /\ (to # "over" => forkLock' = forkLock)
  <2>1. CASE Forks!SaveIntent(f) \/ Forks!MakeTemporary(f) \/ Forks!RecordInode(f) \/ Forks!Rename(f)
    BY <2>1
      DEF Forks!SaveIntent, Forks!MakeTemporary, Forks!RecordInode, Forks!Rename, Forks!Fails, Forks!Go,
          Constructing
  <2>2. CASE Forks!RemoveAll(f)
    <3>1. CASE forkPhase' = forkPhase /\ forkLock' = forkLock
      <4>1. forkPhase' = [forkPhase EXCEPT ![f] = "remove"] /\ forkLock' = forkLock
        BY <2>2, <3>1 DEF Forks!RemoveAll, ForkInv, ForkShape
      <4> QED BY <4>1 DEF Constructing
    <3>2. CASE ~(forkPhase' = forkPhase /\ forkLock' = forkLock)
      <4>1. (Forks!Go(f, "look") /\ forkLock' = forkLock) \/ Forks!Go(f, "over")
        BY <2>2, <3>2 DEF Forks!RemoveAll, Forks!Over
      <4> QED BY <4>1 DEF Forks!Go, Constructing
    <3> QED BY <3>1, <3>2
  <2> QED BY <2>1, <2>2 DEF Writes
<1>5. forkPhase'[f] = to /\ forkPhase' \in [MCFork -> Constructing \union {"idle", "over", "died"}]
  BY <1>4 DEF ForkInv, ForkShape
<1>6. LockSound'
  BY <1>1, <1>2, <1>3, <1>4, <1>5 DEF LockSound, Constructing
<1>7. answer' = [g \in MCFork |-> answer'[g]]
  BY
    DEF Writes, Forks!SaveIntent, Forks!MakeTemporary, Forks!RecordInode, Forks!Rename, Forks!RemoveAll,
        Forks!Over, Forks!Fails, Forks!Answer, ForkInv, ForkShape
<1>8. \A g \in MCFork : g # f => MineSound(g)'
  BY <1>1 DEF MineSound, Constructing, Reserves
<1> QED BY <1>2, <1>3, <1>5, <1>6, <1>7, <1>8

LEMMA IntentNext ==
  ASSUME ForkAssumption, ForkInv, NEW f \in MCFork, Forks!SaveIntent(f)
  PROVE  ForkInv'
<1>1. /\ forkPhase[f] = "reserve" /\ ~forked.published /\ forked' = forked
      /\ LockSound' /\ forkPhase' \in [MCFork -> Constructing \union {"idle", "over", "died"}]
      /\ answer' = [g \in MCFork |-> answer'[g]]
      /\ \A g \in MCFork : g # f => MineSound(g)'
  BY WritesKeep DEF Writes, Forks!SaveIntent
<1>2. UNCHANGED <<place, temporary>> /\ MineSound(f) /\ ForkShape /\ LeftSound
  BY DEF Forks!SaveIntent, ForkInv
<1>3. /\ Forks!Count \in 0..Len(MCTargets)
      /\ Len(manifest.allocations) = Forks!Count /\ mine.allocations = manifest.allocations
      /\ Forks!Count < Len(MCTargets) /\ Len(MCTargets) \in Nat
  BY <1>1, <1>2, Reserved DEF Reserves, Constructing, MineSound, ForkAssumption
<1>4. CASE place[MCTargets[Forks!Count + 1]] # None
  <2>1. UNCHANGED <<mine, manifest>> /\ forkPhase'[f] = "cleanup"
    BY <1>2, <1>4 DEF Forks!SaveIntent, Forks!Fails, Forks!Go, ForkShape
  <2>2. ForkShape' /\ LeftSound'
    BY <1>1, <1>2, <2>1 DEF ForkShape, LeftSound
  <2>3. MineSound(f)'
    BY <1>1, <1>2, <2>1 DEF MineSound, Reserves, Constructing
  <2> QED BY <1>1, <2>2, <2>3 DEF ForkInv
<1>5. CASE place[MCTargets[Forks!Count + 1]] = None
  <2> DEFINE k == Forks!Count
  <2>1. forkPhase'[f] = "make"
    BY <1>2, <1>5 DEF Forks!SaveIntent, Forks!Go, ForkShape
  <2>2. /\ mine' = manifest' /\ mine'.allocations \in Seq(Allocation) /\ Len(mine'.allocations) = k + 1
        /\ mine' = [request |-> mine'.request, allocations |-> mine'.allocations]
        /\ \A n \in 1..k : mine'.allocations[n] = mine.allocations[n]
        /\ mine'.allocations[k + 1].target = MCTargets[k + 1] /\ mine'.allocations[k + 1].inode = None
    BY <1>1, <1>2, <1>5, Intending
  <2>3. ForkShape'
    BY <1>1, <1>2, <2>2 DEF ForkShape
  <2> HIDE DEF k
  <2>4. k \in Nat /\ k < Len(MCTargets) /\ Len(manifest.allocations) = k /\ Len(MCTargets) \in Nat
    BY <1>3 DEF k
  <2>5. LeftSound'
    <3>0. \A n \in 1..k :
            /\ mine'.allocations[n] = manifest.allocations[n]
            /\ manifest.allocations[n].target = MCTargets[n]
            /\ temporary[MCTargets[n]] # None /\ manifest.allocations[n].inode # None =>
                 temporary[MCTargets[n]] = manifest.allocations[n].inode
      BY <1>2, <1>3, <2>2, <2>4 DEF LeftSound
    <3>1. \A n \in 1..(k + 1) : mine'.allocations[n].target = MCTargets[n]
      <4> SUFFICES ASSUME NEW n \in 1..(k + 1) PROVE mine'.allocations[n].target = MCTargets[n]
        OBVIOUS
      <4>1. n \in 1..k \/ n = k + 1
        BY <2>4
      <4> QED BY <2>2, <3>0, <4>1
    <3>2. \A n \in 1..(k + 1) : temporary[MCTargets[n]] # None /\ mine'.allocations[n].inode # None =>
                                  temporary[MCTargets[n]] = mine'.allocations[n].inode
      <4> SUFFICES ASSUME NEW n \in 1..(k + 1), temporary[MCTargets[n]] # None,
                          mine'.allocations[n].inode # None
                   PROVE  temporary[MCTargets[n]] = mine'.allocations[n].inode
        OBVIOUS
      <4>1. n \in 1..k \/ n = k + 1
        BY <2>4
      <4> QED BY <2>2, <3>0, <4>1
    <3>3. \A n \in 1..Len(MCTargets) : place[MCTargets[n]] \in MCFork =>
            n <= k + 1 /\ mine'.allocations[n].inode = place[MCTargets[n]]
      <4> SUFFICES ASSUME NEW n \in 1..Len(MCTargets), place[MCTargets[n]] \in MCFork
                   PROVE  n <= k + 1 /\ mine'.allocations[n].inode = place[MCTargets[n]]
        OBVIOUS
      <4>1. n <= k /\ manifest.allocations[n].inode = place[MCTargets[n]]
        BY <1>1, <1>2, <2>4 DEF LeftSound
      <4> QED BY <1>3, <2>2, <2>4, <4>1
    <3> QED BY <1>1, <1>2, <2>2, <2>4, <3>1, <3>2, <3>3 DEF LeftSound
  <2>6. place[MCTargets[k + 1]] \notin MCFork
    BY <1>5 DEF ForkAssumption, k
  <2>7. Forks!Count' = k + 1
    BY <2>2 DEF Forks!Count
  <2>8. MineSound(f)'
    BY <1>2, <2>1, <2>2, <2>4, <2>6, <2>7 DEF MineSound, Reserves, Constructing
  <2> QED BY <1>1, <2>3, <2>5, <2>8 DEF ForkInv
<1> QED BY <1>4, <1>5

LEMMA TemporaryNext ==
  ASSUME ForkAssumption, ForkInv, NEW f \in MCFork, Forks!MakeTemporary(f)
  PROVE  ForkInv'
<1>1. /\ forkPhase[f] = "make" /\ ~forked.published /\ forked' = forked
      /\ LockSound' /\ forkPhase' \in [MCFork -> Constructing \union {"idle", "over", "died"}]
      /\ answer' = [g \in MCFork |-> answer'[g]]
      /\ \A g \in MCFork : g # f => MineSound(g)'
  BY WritesKeep DEF Writes, Forks!MakeTemporary
<1>2. /\ UNCHANGED <<place, manifest, mine>>
      /\ MineSound(f) /\ ForkShape /\ LeftSound /\ forkPhase'[f] = "record"
  BY DEF Forks!MakeTemporary, Forks!Go, ForkInv, ForkShape
<1>3. /\ Forks!Count \in 1..Len(MCTargets)
      /\ Len(manifest.allocations) = Forks!Count /\ mine.allocations = manifest.allocations
      /\ Len(MCTargets) \in Nat /\ MCTargets[Forks!Count] \in Forks!Target
      /\ Forks!Reserving = MCTargets[Forks!Count]
      /\ mine.allocations[Forks!Count].inode = None
  BY <1>1, <1>2, Reserved DEF Reserves, Constructing, MineSound, ForkAssumption, Forks!Reserving
<1>4. temporary' = [temporary EXCEPT ![MCTargets[Forks!Count]] = f]
  BY <1>3 DEF Forks!MakeTemporary
<1>5. ForkShape'
  BY <1>1, <1>2, <1>3, <1>4 DEF ForkShape, Forks!Inode
<1>6. \A n \in 1..Len(MCTargets) : n # Forks!Count => temporary'[MCTargets[n]] = temporary[MCTargets[n]]
  BY <1>3, <1>4 DEF ForkAssumption, ForkInv, ForkShape
<1>7. LeftSound'
  <2>1. \A n \in 1..Len(manifest.allocations) :
          temporary'[MCTargets[n]] # None /\ manifest.allocations[n].inode # None =>
            temporary'[MCTargets[n]] = manifest.allocations[n].inode
    BY <1>2, <1>3, <1>6 DEF LeftSound
  <2> QED BY <1>1, <1>2, <2>1 DEF LeftSound
<1>8. MineSound(f)'
  BY <1>1, <1>2, <1>3, <1>4 DEF MineSound, Reserves, Constructing, Forks!Count, ForkInv, ForkShape
<1> QED BY <1>1, <1>5, <1>7, <1>8 DEF ForkInv

LEMMA RecordNext ==
  ASSUME ForkAssumption, ForkInv, NEW f \in MCFork, Forks!RecordInode(f)
  PROVE  ForkInv'
<1>1. /\ forkPhase[f] = "record" /\ ~forked.published /\ forked' = forked
      /\ LockSound' /\ forkPhase' \in [MCFork -> Constructing \union {"idle", "over", "died"}]
      /\ answer' = [g \in MCFork |-> answer'[g]]
      /\ \A g \in MCFork : g # f => MineSound(g)'
  BY WritesKeep DEF Writes, Forks!RecordInode
<1>2. /\ UNCHANGED <<place, temporary>>
      /\ MineSound(f) /\ ForkShape /\ LeftSound /\ forkPhase'[f] = "rename"
  BY DEF Forks!RecordInode, Forks!Go, ForkInv, ForkShape
<1> DEFINE k == Forks!Count
<1>3. /\ k \in 1..Len(MCTargets) /\ Len(manifest.allocations) = k /\ mine.allocations = manifest.allocations
      /\ Len(MCTargets) \in Nat
  BY <1>1, <1>2, Reserved DEF Reserves, Constructing, MineSound, ForkAssumption
<1>4. /\ mine' = manifest' /\ mine'.allocations \in Seq(Allocation) /\ Len(mine'.allocations) = k
      /\ mine' = [request |-> mine'.request, allocations |-> mine'.allocations]
      /\ \A n \in 1..k : /\ mine'.allocations[n].target = mine.allocations[n].target
                         /\ mine'.allocations[n].inode = IF n = k THEN f ELSE mine.allocations[n].inode
  BY <1>1, <1>2, Recording
<1>5. ForkShape'
  BY <1>1, <1>2, <1>4 DEF ForkShape
<1>6. place[MCTargets[k]] \notin MCFork /\ temporary[MCTargets[k]] = f
  BY <1>1, <1>2 DEF MineSound
<1> HIDE DEF k
<1>7. LeftSound'
  <2>1. \A n \in 1..k : mine'.allocations[n].target = MCTargets[n]
    BY <1>2, <1>3, <1>4 DEF LeftSound
  <2>2. \A n \in 1..k : temporary[MCTargets[n]] # None /\ mine'.allocations[n].inode # None =>
                          temporary[MCTargets[n]] = mine'.allocations[n].inode
    BY <1>2, <1>3, <1>4, <1>6 DEF LeftSound
  <2>3. \A n \in 1..Len(MCTargets) : place[MCTargets[n]] \in MCFork =>
          n <= k /\ mine'.allocations[n].inode = place[MCTargets[n]]
    <3> SUFFICES ASSUME NEW n \in 1..Len(MCTargets), place[MCTargets[n]] \in MCFork
                 PROVE  n <= k /\ mine'.allocations[n].inode = place[MCTargets[n]]
      OBVIOUS
    <3>1. n <= k /\ manifest.allocations[n].inode = place[MCTargets[n]]
      BY <1>1, <1>2, <1>3 DEF LeftSound
    <3> QED BY <1>3, <1>4, <1>6, <3>1
  <2> QED BY <1>1, <1>2, <1>3, <1>4, <2>1, <2>2, <2>3 DEF LeftSound
<1>8. Forks!Count' = k
  BY <1>4 DEF Forks!Count
<1>9. MineSound(f)'
  BY <1>2, <1>3, <1>4, <1>6, <1>8 DEF MineSound, Reserves, Constructing
<1> QED BY <1>1, <1>5, <1>7, <1>9 DEF ForkInv

LEMMA RenameNext ==
  ASSUME ForkAssumption, ForkInv, NEW f \in MCFork, Forks!Rename(f)
  PROVE  ForkInv'
<1>1. /\ forkPhase[f] = "rename" /\ ~forked.published /\ forked' = forked
      /\ LockSound' /\ forkPhase' \in [MCFork -> Constructing \union {"idle", "over", "died"}]
      /\ answer' = [g \in MCFork |-> answer'[g]]
      /\ \A g \in MCFork : g # f => MineSound(g)'
  BY WritesKeep DEF Writes, Forks!Rename
<1>2. UNCHANGED <<manifest, mine>> /\ MineSound(f) /\ ForkShape /\ LeftSound
  BY DEF Forks!Rename, ForkInv
<1>3. /\ Forks!Count \in 1..Len(MCTargets)
      /\ Len(manifest.allocations) = Forks!Count /\ mine.allocations = manifest.allocations
      /\ Len(MCTargets) \in Nat /\ MCTargets[Forks!Count] \in Forks!Target
      /\ Forks!Reserving = MCTargets[Forks!Count]
      /\ mine.allocations[Forks!Count].inode = f
  BY <1>1, <1>2, Reserved DEF Reserves, Constructing, MineSound, ForkAssumption, Forks!Reserving
<1>4. CASE place[Forks!Reserving] # None
  <2>1. UNCHANGED <<place, temporary>> /\ forkPhase'[f] = "cleanup"
    BY <1>2, <1>4 DEF Forks!Rename, Forks!Fails, Forks!Go, ForkShape
  <2>2. ForkShape' /\ LeftSound'
    BY <1>1, <1>2, <2>1 DEF ForkShape, LeftSound
  <2>3. MineSound(f)'
    BY <1>1, <1>2, <2>1 DEF MineSound, Reserves, Constructing
  <2> QED BY <1>1, <2>2, <2>3 DEF ForkInv
<1>5. CASE place[Forks!Reserving] = None
  <2>1. /\ place' = [place EXCEPT ![MCTargets[Forks!Count]] = f]
        /\ temporary' = [temporary EXCEPT ![MCTargets[Forks!Count]] = None]
        /\ forkPhase'[f] = "build"
    BY <1>2, <1>3, <1>5 DEF Forks!Rename, Forks!Go, ForkShape
  <2>2. ForkShape'
    BY <1>1, <1>2, <2>1 DEF ForkShape, Forks!Inode
  <2>3. \A n \in 1..Len(MCTargets) :
          /\ place'[MCTargets[n]] = IF n = Forks!Count THEN f ELSE place[MCTargets[n]]
          /\ temporary'[MCTargets[n]] = IF n = Forks!Count THEN None ELSE temporary[MCTargets[n]]
    BY <1>2, <1>3, <2>1 DEF ForkAssumption, ForkShape
  <2>4. LeftSound'
    <3>1. \A n \in 1..Len(manifest.allocations) :
            temporary'[MCTargets[n]] # None /\ manifest.allocations[n].inode # None =>
              temporary'[MCTargets[n]] = manifest.allocations[n].inode
      BY <1>2, <1>3, <2>3 DEF LeftSound
    <3>2. \A n \in 1..Len(MCTargets) : place'[MCTargets[n]] \in MCFork =>
            n <= Len(manifest.allocations) /\ manifest.allocations[n].inode = place'[MCTargets[n]]
      BY <1>1, <1>2, <1>3, <2>3 DEF LeftSound
    <3> QED BY <1>1, <1>2, <3>1, <3>2 DEF LeftSound
  <2>5. MineSound(f)'
    BY <1>1, <1>2, <2>1 DEF MineSound, Reserves, Constructing
  <2> QED BY <1>1, <2>2, <2>4, <2>5 DEF ForkInv
<1> QED BY <1>4, <1>5

LEMMA LastOf ==
  ASSUME NEW n \in Nat, NEW S \in SUBSET (1..n), S # {}
  PROVE  \E i \in S : \A j \in S : j <= i
<1> DEFINE T == {n - i : i \in S}
<1>1. PICK k \in S : TRUE
  OBVIOUS
<1>2. T \in SUBSET Nat /\ n - k \in T
  <2>1. \A i \in S : n - i \in Nat
    OBVIOUS
  <2> QED BY <2>1
<1>3. PICK t \in T : \A j \in T : <<j, t>> \notin OpToRel(<, Nat)
  <2> HIDE DEF T
  <2> QED BY <1>2, NatLessThanWellFounded, WFMin
<1>4. \A j \in T : ~(j < t)
  <2> SUFFICES ASSUME NEW j \in T, j < t PROVE <<j, t>> \in OpToRel(<, Nat)
    BY <1>3
  <2>1. <<j, t>> \in Nat \X Nat /\ <<j, t>>[1] < <<j, t>>[2]
    BY <1>2
  <2> QED BY <2>1 DEF OpToRel
<1>5. PICK i \in S : t = n - i
  OBVIOUS
<1>6. \A j \in S : ~(n - j < n - i)
  BY <1>4, <1>5
<1>7. ASSUME NEW j \in S PROVE j <= i
  <2>1. j \in 1..n /\ i \in 1..n
    OBVIOUS
  <2> HIDE DEF T
  <2> QED BY <1>6, <2>1
<1> QED BY <1>7

\* What is removed is no one else's, and the manifest is emptied once nothing is left.
LEMMA RemoveNext ==
  ASSUME ForkAssumption, ForkInv, NEW f \in MCFork, Forks!RemoveAll(f)
  PROVE  ForkInv' /\ \A t \in Forks!Target : place[t] = Foreign => place'[t] = Foreign
<1>1. /\ forkPhase[f] = "remove" /\ ~forked.published /\ forked' = forked
      /\ LockSound' /\ forkPhase' \in [MCFork -> Constructing \union {"idle", "over", "died"}]
      /\ answer' = [g \in MCFork |-> answer'[g]] /\ forkPhase'[f] # "opened"
      /\ \A g \in MCFork : g # f => MineSound(g)'
  BY WritesKeep DEF Writes, Forks!RemoveAll
<1>2. MineSound(f) /\ ForkShape /\ LeftSound
  BY DEF ForkInv
<1>3. /\ Forks!Count \in 0..Len(MCTargets)
      /\ Len(manifest.allocations) = Forks!Count /\ mine.allocations = manifest.allocations
      /\ Len(MCTargets) \in Nat
      /\ \A n \in 1..Forks!Count :
           mine.allocations[n].target = MCTargets[n] /\ MCTargets[n] \in Forks!Target /\ place[MCTargets[n]] # Foreign
  BY <1>1, <1>2, Reserved DEF Reserves, Constructing, MineSound, ForkAssumption
<1> DEFINE left ==
             {n \in 1..Forks!Count :
                \/ place[mine.allocations[n].target] # None
                \/ temporary[mine.allocations[n].target] # None}
           last == CHOOSE n \in left : \A m \in left : m <= n
<1>4. CASE left # {}
  <2>1. last \in 1..Forks!Count
    <3>1. \E n \in left : \A m \in left : m <= n
      <4>1. left \in SUBSET (1..Forks!Count) /\ Forks!Count \in Nat
        BY <1>3
      <4> HIDE DEF left
      <4> QED BY <1>4, <4>1, LastOf
    <3> QED BY <3>1
  <2>2. /\ place' = [place EXCEPT ![mine.allocations[last].target] = None]
        /\ temporary' = [temporary EXCEPT ![mine.allocations[last].target] = None]
        /\ UNCHANGED <<forkLock, manifest, mine, forkPhase, answer>>
    BY <1>4 DEF Forks!RemoveAll
  <2> HIDE DEF last, left
  <2>3. /\ place' = [place EXCEPT ![MCTargets[last]] = None]
        /\ temporary' = [temporary EXCEPT ![MCTargets[last]] = None]
        /\ MCTargets[last] \in Forks!Target /\ place[MCTargets[last]] # Foreign
    BY <1>3, <2>1, <2>2
  <2>4. ForkShape'
    BY <1>1, <1>2, <2>2, <2>3 DEF ForkShape, Forks!Inode
  <2>5. /\ \A n \in 1..Len(MCTargets) :
             /\ place'[MCTargets[n]] # place[MCTargets[n]] => place'[MCTargets[n]] = None
             /\ temporary'[MCTargets[n]] # temporary[MCTargets[n]] => temporary'[MCTargets[n]] = None
        /\ \A t \in Forks!Target : place[t] = Foreign => place'[t] = Foreign
    BY <1>2, <2>3 DEF ForkAssumption, ForkShape
  <2>6. LeftSound'
    BY <1>1, <1>2, <1>3, <2>2, <2>5 DEF LeftSound, ForkAssumption
  <2>7. MineSound(f)'
    <3>1. Forks!Count' = Forks!Count /\ forkPhase'[f] = "remove" /\ mine'.allocations = manifest'.allocations
      BY <1>1, <1>3, <2>2 DEF Forks!Count
    <3>2. \A n \in 1..Forks!Count : place'[MCTargets[n]] # Foreign
      BY <1>3, <2>5 DEF ForkAssumption
    <3> QED BY <3>1, <3>2 DEF MineSound, Reserves, Constructing
  <2> QED BY <1>1, <2>4, <2>5, <2>6, <2>7 DEF ForkInv
<1>5. CASE left = {}
  <2>1. /\ mine' = [mine EXCEPT !.allocations = <<>>]
        /\ manifest' = [request |-> MCRequestOf[f], allocations |-> <<>>]
        /\ UNCHANGED <<place, temporary>>
        /\ forkPhase'[f] \in {"look", "over"}
    BY <1>2, <1>5 DEF Forks!RemoveAll, Forks!Over, Forks!Go, ForkShape
  <2>2. mine'.allocations = <<>> /\ manifest'.allocations = <<>>
    BY <1>2, <2>1 DEF ForkShape
  <2>3. ForkShape'
    BY <1>1, <1>2, <2>1, <2>2 DEF ForkShape
  <2>4. \A n \in 1..Len(MCTargets) : place[MCTargets[n]] \notin MCFork
    <3> SUFFICES ASSUME NEW n \in 1..Len(MCTargets), place[MCTargets[n]] \in MCFork PROVE FALSE
      OBVIOUS
    <3>1. n \in 1..Forks!Count
      BY <1>1, <1>2, <1>3 DEF LeftSound
    <3> QED BY <1>3, <1>5, <3>1 DEF ForkAssumption
  <2>5. LeftSound'
    BY <1>3, <2>1, <2>2, <2>4 DEF LeftSound
  <2>6. MineSound(f)'
    BY <2>1, <2>2 DEF MineSound, Reserves, Constructing
  <2> QED BY <1>1, <2>1, <2>3, <2>5, <2>6 DEF ForkInv
<1> QED BY <1>4, <1>5

LEMMA OpenNext ==
  ASSUME ForkAssumption, ForkInv, NEW f \in MCFork, Forks!Open(f)
  PROVE  ForkInv'
<1>1. /\ forkPhase[f] = "idle" /\ UNCHANGED <<manifest, place, temporary, forked>>
      /\ ForkShape /\ LockSound /\ LeftSound /\ \A g \in MCFork : MineSound(g)
  BY DEF Forks!Open, ForkInv
<1>2. CASE forkLock # None
  <2>1. /\ forkPhase' = [forkPhase EXCEPT ![f] = "over"]
        /\ UNCHANGED <<forkLock, mine>> /\ answer' = [answer EXCEPT ![f] = "failed"]
    BY <1>2 DEF Forks!Open, Forks!Go, Forks!Answer
  <2>2. \A g \in MCFork : forkPhase'[g] = IF g = f THEN "over" ELSE forkPhase[g]
    BY <1>1, <2>1 DEF ForkShape
  <2>3. ForkShape' /\ LockSound' /\ LeftSound'
    BY <1>1, <2>1, <2>2 DEF ForkShape, LockSound, LeftSound, Constructing
  <2>4. \A g \in MCFork : MineSound(g)'
    BY <1>1, <2>1, <2>2 DEF MineSound, Reserves, Constructing, Forks!Count
  <2> QED BY <2>3, <2>4 DEF ForkInv
<1>3. CASE forkLock = None
  <2>1. /\ forkPhase' = [forkPhase EXCEPT ![f] = "opened"] /\ forkLock' = f /\ answer' = answer
        /\ mine' = [request |-> MCRequestOf[f], allocations |-> <<>>] /\ mine'.allocations = <<>>
    BY <1>3 DEF Forks!Open, Forks!Go
  <2>2. \A g \in MCFork : forkPhase'[g] = IF g = f THEN "opened" ELSE forkPhase[g]
    BY <1>1, <2>1 DEF ForkShape
  <2>3. \A g \in MCFork : forkPhase[g] \notin Constructing
    BY <1>1, <1>3 DEF LockSound, ForkAssumption
  <2>4. ForkShape' /\ LockSound' /\ LeftSound'
    BY <1>1, <2>1, <2>2, <2>3 DEF ForkShape, LockSound, LeftSound, Constructing
  <2>5. \A g \in MCFork : MineSound(g)'
    BY <1>1, <2>1, <2>2, <2>3 DEF MineSound, Reserves, Constructing
  <2> QED BY <2>4, <2>5 DEF ForkInv
<1> QED BY <1>2, <1>3

LEMMA IntrudeNext ==
  ASSUME ForkAssumption, ForkInv, NEW t \in Forks!Target, Forks!Intrude(t)
  PROVE  ForkInv' /\ \A u \in Forks!Target : place[u] = Foreign => place'[u] = Foreign
<1>1. /\ UNCHANGED <<forkLock, manifest, temporary, forked, mine, forkPhase, answer>> /\ ~forked.published
      /\ \A f \in MCFork : forkPhase[f] # "remove"
      /\ ForkShape /\ LockSound /\ LeftSound /\ \A g \in MCFork : MineSound(g)
  BY DEF Forks!Intrude, ForkInv
<1>2. \A u \in Forks!Target : place'[u] = IF u = t THEN Foreign ELSE place[u]
  BY <1>1 DEF Forks!Intrude, ForkShape
<1>3. ForkShape' /\ LockSound'
  BY <1>1 DEF Forks!Intrude, ForkShape, LockSound, Forks!Inode
<1>4. \A n \in 1..Len(MCTargets) : place'[MCTargets[n]] \in MCFork => place'[MCTargets[n]] = place[MCTargets[n]]
  BY <1>2 DEF ForkAssumption
<1>5. LeftSound'
  BY <1>1, <1>4 DEF LeftSound
<1>6. ASSUME NEW g \in MCFork PROVE MineSound(g)'
  <2>1. MineSound(g) /\ forkPhase[g] # "remove"
    BY <1>1
  <2>2. ASSUME forkPhase[g] \in {"make", "record",
               "rename"} PROVE place'[MCTargets[Forks!Count]] \notin MCFork
    <3>1. Forks!Count \in 1..Len(MCTargets)
      BY <1>1, <2>1, <2>2, Reserved DEF Reserves, Constructing, MineSound
    <3> QED BY <1>4, <2>1, <2>2, <3>1 DEF MineSound
  <2> QED BY <1>1, <2>1, <2>2 DEF MineSound, Forks!Count
<1> QED BY <1>2, <1>3, <1>5, <1>6 DEF ForkInv

LEMMA ForkNext == ForkAssumption /\ ForkInv /\ [Forks!Next]_forks => ForkInv'
<1> SUFFICES ASSUME ForkAssumption, ForkInv, [Forks!Next]_forks PROVE ForkInv'
  OBVIOUS
<1>1. CASE Forks!Next
  <2>1. ASSUME NEW t \in Forks!Target, Forks!Intrude(t) PROVE ForkInv'
    BY <2>1, IntrudeNext
  <2>2. ASSUME NEW f \in MCFork, Waits(f) PROVE ForkInv'
    BY <2>2, WaitsNext
  <2>3. ASSUME NEW f \in MCFork, Forks!Open(f) PROVE ForkInv'
    BY <2>3, OpenNext
  <2>4. ASSUME NEW f \in MCFork, Writes(f) PROVE ForkInv'
    BY <2>4, IntentNext, TemporaryNext, RecordNext, RenameNext, RemoveNext DEF Writes
  <2> QED BY <1>1, <2>1, <2>2, <2>3, <2>4 DEF Forks!Next, Waits, Writes
<1>2. CASE UNCHANGED forks
  <2>1. ForkShape' /\ LockSound' /\ LeftSound' /\ \A g \in MCFork : MineSound(g)'
    BY <1>2 DEF forks, ForkInv, ForkShape, LockSound, LeftSound, MineSound, Forks!Count
  <2> QED BY <2>1 DEF ForkInv
<1> QED BY <1>1, <1>2

LEMMA OwnRemoved ==
  ASSUME ForkAssumption, ForkInv, [Forks!Next]_forks
  PROVE  Forks!RemovesOnlyItsOwn
<1>1. CASE Forks!Next
  <2>1. ASSUME NEW t \in Forks!Target, Forks!Intrude(t) PROVE Forks!RemovesOnlyItsOwn
    BY <2>1, IntrudeNext DEF Forks!Intrude, Forks!RemovesOnlyItsOwn
  <2>2. ASSUME NEW f \in MCFork, Waits(f) \/ Forks!Open(f) PROVE Forks!RemovesOnlyItsOwn
    <3>1. place' = place
      BY <2>2
        DEF Waits, Forks!LookForChild, Forks!Recover, Forks!Look, Forks!Build, Forks!Publish,
            Forks!Validate, Forks!Die, Forks!Open
    <3>2. forked' = forked \/ forked'.published
      BY <2>2
        DEF Waits, Forks!LookForChild, Forks!Recover, Forks!Look, Forks!Build, Forks!Publish,
            Forks!Validate, Forks!Die, Forks!Open
    <3> QED BY <3>1, <3>2 DEF Forks!RemovesOnlyItsOwn
  <2>3. ASSUME NEW f \in MCFork, Writes(f) PROVE Forks!RemovesOnlyItsOwn
    <3>1. ~forked.published
      BY <2>3, WritesKeep
    <3>2. CASE Forks!Rename(f)
      <4>1. \/ place' = place
            \/ (place' = [place EXCEPT ![Forks!Reserving] = f] /\ place[Forks!Reserving] = None)
        BY <3>2 DEF Forks!Rename
      <4> QED BY <3>1, <4>1 DEF Forks!RemovesOnlyItsOwn, ForkInv, ForkShape, ForkAssumption
    <3>3. CASE Forks!RemoveAll(f)
      BY <3>1, <3>3, RemoveNext DEF Forks!RemovesOnlyItsOwn
    <3>4. CASE Forks!SaveIntent(f) \/ Forks!MakeTemporary(f) \/ Forks!RecordInode(f)
      BY <3>1, <3>4 DEF Forks!SaveIntent, Forks!MakeTemporary, Forks!RecordInode, Forks!RemovesOnlyItsOwn
    <3> QED BY <2>3, <3>2, <3>3, <3>4 DEF Writes
  <2> QED BY <1>1, <2>1, <2>2, <2>3 DEF Forks!Next, Waits, Writes
<1>2. CASE UNCHANGED forks
  BY <1>2 DEF forks, Forks!RemovesOnlyItsOwn
<1> QED BY <1>1, <1>2

\* What stands where a construction has not come yet is somebody else's.
LEMMA UnmadeIsForeign ==
  ASSUME ForkAssumption, ForkInv, ~forked.published, NEW n \in 1..Len(MCTargets),
         place[MCTargets[n]] # None,
         \/ n > Len(manifest.allocations)
         \/ place[MCTargets[n]] \notin MCFork
         \/ manifest.allocations[n].inode # place[MCTargets[n]]
  PROVE  \E t \in Forks!Target : place[t] = Foreign
<1>1. MCTargets[n] \in Forks!Target /\ n \in Nat /\ Len(manifest.allocations) \in Nat
  BY DEF ForkAssumption, ForkInv, ForkShape
<1>2. place[MCTargets[n]] \notin MCFork
  BY <1>1 DEF ForkInv, LeftSound
<1>3. place[MCTargets[n]] \in MCFork \union {Foreign, None}
  BY <1>1 DEF ForkInv, ForkShape, Forks!Inode
<1> QED BY <1>1, <1>2, <1>3

LEMMA CauseKnown ==
  ASSUME ForkAssumption, ForkInv, [Forks!Next]_forks
  PROVE  Forks!RefusalsHaveCause
<1> SUFFICES ASSUME NEW f \in MCFork, answer[f] # "exists", answer'[f] = "exists", MCRequestOf[f] # None
             PROVE  \/ \E t \in Forks!Target : place[t] = Foreign
                    \/ forked.published /\ forked.receipt # MCRequestOf[f]
                    \/ manifest.allocations # <<>> /\ manifest.request # MCRequestOf[f]
  BY DEF Forks!RefusalsHaveCause
<1>1. Forks!Open(f) \/ Constructs(f)
  <2>1. answer' # answer
    OBVIOUS
  <2>2. PICK g \in MCFork : Forks!Open(g) \/ Constructs(g)
    BY <2>1 DEF Forks!Next, Forks!Intrude, forks, Constructs
  <2>3. g = f
    <3>1. CASE Forks!Open(g)
      BY <3>1 DEF Forks!Open, Forks!Answer, ForkInv, ForkShape
    <3>2. CASE Constructs(g)
      BY <3>2, Alone DEF ForkInv
    <3> QED BY <2>2, <3>1, <3>2
  <2> QED BY <2>2, <2>3
<1>2. ForkShape /\ LockSound /\ LeftSound /\ MineSound(f) /\ Len(MCTargets) \in Nat /\ Len(MCTargets) > 0
  BY DEF ForkInv, ForkAssumption
<1>3. CASE Forks!Open(f) \/ Forks!RecordInode(f) \/ Forks!MakeTemporary(f) \/ Forks!Publish(f)
           \/ Forks!Build(f) \/ Forks!Die(f) \/ Forks!RemoveAll(f)
  <2>1. answer'[f] \in {answer[f], "failed", "forked"}
    BY <1>2, <1>3
      DEF Forks!Open, Forks!RecordInode, Forks!MakeTemporary, Forks!Publish, Forks!Build, Forks!Die,
          Forks!RemoveAll, Forks!Over, Forks!Fails, Forks!Answer, ForkShape
  <2> QED BY <2>1
<1>4. CASE Forks!LookForChild(f)
  BY <1>2, <1>4 DEF Forks!LookForChild, Forks!Over, Forks!Answer, ForkShape
<1>5. CASE Forks!Recover(f)
  BY <1>2, <1>5 DEF Forks!Recover, Forks!Over, Forks!Answer
<1>6. CASE Forks!Look(f)
  <2>1. forkPhase[f] = "look" /\ place[MCTargets[1]] # None
    BY <1>2, <1>6 DEF Forks!Look, Forks!Fails, Forks!Answer, ForkShape, Forks!Root, ForkAssumption
  <2>2. ~forked.published /\ manifest.allocations = <<>>
    BY <1>2, <2>1 DEF LockSound, MineSound, Constructing, Reserves
  <2> QED BY <1>2, <2>1, <2>2, UnmadeIsForeign
<1>7. CASE Forks!SaveIntent(f)
  <2>1. forkPhase[f] = "reserve" /\ place[MCTargets[Forks!Count + 1]] # None
    BY <1>2, <1>7 DEF Forks!SaveIntent, Forks!Fails, Forks!Answer, ForkShape
  <2>2. /\ ~forked.published /\ Forks!Count \in Nat /\ Forks!Count < Len(MCTargets)
        /\ Len(manifest.allocations) = Forks!Count
    BY <1>2, <2>1, Reserved DEF LockSound, MineSound, Constructing, Reserves
  <2>3. Forks!Count + 1 \in 1..Len(MCTargets)
    BY <1>2, <2>2
  <2> QED BY <2>1, <2>2, <2>3, UnmadeIsForeign
<1>8. CASE Forks!Rename(f)
  <2>1. forkPhase[f] = "rename" /\ place[Forks!Reserving] # None
    BY <1>2, <1>8 DEF Forks!Rename, Forks!Fails, Forks!Answer, ForkShape
  <2>2. /\ ~forked.published /\ Forks!Count \in 1..Len(MCTargets)
        /\ Forks!Reserving = MCTargets[Forks!Count] /\ place[MCTargets[Forks!Count]] \notin MCFork
    BY <1>2, <2>1, Reserved DEF LockSound, MineSound, Constructing, Reserves, Forks!Reserving
  <2> QED BY <2>1, <2>2, UnmadeIsForeign
<1>9. CASE Forks!Validate(f)
  <2>1. forkPhase[f] = "cleanup" /\ \E n \in 1..Forks!Count : ~Forks!Owned(mine.allocations[n])
    BY <1>2, <1>9 DEF Forks!Validate, Forks!Over, Forks!Answer, ForkShape
  <2>2. PICK n \in 1..Forks!Count : ~Forks!Owned(mine.allocations[n])
    BY <2>1
  <2>3. /\ ~forked.published /\ n \in 1..Len(MCTargets) /\ mine.allocations[n].target = MCTargets[n]
        /\ mine.allocations[n] = manifest.allocations[n] /\ n <= Len(manifest.allocations)
    BY <1>2, <2>1, Reserved DEF LockSound, MineSound, Constructing, Reserves
  <2>4. temporary[MCTargets[n]] # None /\ manifest.allocations[n].inode # None =>
          temporary[MCTargets[n]] = manifest.allocations[n].inode
    BY <1>2, <2>3 DEF LeftSound
  <2>5. place[MCTargets[n]] # None /\ manifest.allocations[n].inode # place[MCTargets[n]]
    BY <2>2, <2>3, <2>4 DEF Forks!Owned, Forks!Recorded
  <2> QED BY <2>3, <2>5, UnmadeIsForeign
<1> QED
  BY <1>1, <1>3, <1>4, <1>5, <1>6, <1>7, <1>8, <1>9 DEF Constructs

ForksInv == component = "fork" => ForkInv

\* A step of the composition that is a fork's.
LEMMA ForksStep ==
  ASSUME component = "fork", [JournalsNext]_journalsVars
  PROVE  [Forks!Next]_forks
BY DEF JournalsNext, journalsVars

LEMMA ForksNext == ForkAssumption /\ ForksInv /\ [JournalsNext]_journalsVars => ForksInv'
<1> SUFFICES ASSUME ForkAssumption, ForksInv, [JournalsNext]_journalsVars PROVE ForksInv'
  OBVIOUS
<1>1. UNCHANGED component
  BY DEF JournalsNext, journalsVars
<1> QED
  BY <1>1, ForksStep, ForkNext DEF ForksInv

\* No fork removes a directory that another process made nor touches a child that was
\* published, whoever dies or intrudes meanwhile, and a fork is told that the run exists only
\* for a cause: nothing its own dead predecessor left is one.
THEOREM JournalsFork ==
  ASSUME ForkAssumption
  PROVE  JournalsSpec => ForkSteps
<1>1. JournalsInit => ForksInv
  BY ForkInit DEF JournalsInit, Locks!Init, Locks!Protocols, ForksInv
<1>2. ForksInv /\ [JournalsNext]_journalsVars => ForksInv'
  BY ForksNext
<1>3. ForksInv /\ [JournalsNext]_journalsVars =>
        [component = "fork" => Forks!RemovesOnlyItsOwn /\ Forks!RefusalsHaveCause]_forks
  BY ForksStep, OwnRemoved, CauseKnown DEF ForksInv
<1> QED
  BY <1>1, <1>2, <1>3, PTL DEF JournalsSpec, journalsVars, ForkSteps

-----------------------------------------------------------------------------
(* The types of all of them. The registry and the forks need a little more than
   their invariants: that a registry without an entry has a free slug (there are
   as many slugs as repositories), and who may be in a lock, a manifest and a
   receipt. *)

\* What the registry needs of the constants.
RegistryAssumption == IsFiniteSet(Repo) /\ None \notin Nat

\* A registry without an entry for a repository has a free slug.
LEMMA SlugFree ==
  ASSUME RegistryAssumption, NEW known \in Projects!Registries, NEW repo \in Repo, known[repo] = None
  PROVE  Projects!AllocateSlug(known) \in Projects!Slug
<1> DEFINE size == Cardinality(Repo)
           used == {known[r] : r \in Repo}
           others == Repo \ {repo}
<1>1. size \in Nat
  BY FS_CardinalityType DEF RegistryAssumption
<1>2. Projects!Slug = 1..size
  <2>1. Projects!Cardinality(Repo) = Cardinality(Repo)
    BY Zenon DEF Projects!Cardinality, Cardinality
  <2> QED BY <2>1 DEF Projects!Slug
<1>3. IsFiniteSet(others) /\ Cardinality(others) = size - 1
  BY FS_RemoveElement DEF RegistryAssumption
<1>4. IsFiniteSet(1..size) /\ Cardinality(1..size) = size
  <2>1. 1 \in Int /\ size \in Int
    BY <1>1
  <2> HIDE DEF size
  <2>2. IsFiniteSet(1..size) /\ Cardinality(1..size) = IF 1 > size THEN 0 ELSE size - 1 + 1
    BY <2>1, FS_Interval
  <2> QED BY <1>1, <2>2
<1> HIDE DEF size
<1>5. \E s \in 1..size : s \notin used
  <2> SUFFICES ASSUME \A s \in 1..size : s \in used PROVE FALSE
    OBVIOUS
  <2> DEFINE f == [s \in 1..size |-> CHOOSE r \in Repo : known[r] = s]
  <2>1. ASSUME NEW s \in 1..size PROVE f[s] \in others /\ known[f[s]] = s
    <3>1. \E r \in Repo : known[r] = s
      OBVIOUS
    <3>2. f[s] \in Repo /\ known[f[s]] = s
      BY <3>1
    <3>3. s \in Nat
      BY <1>1
    <3>4. f[s] # repo
      BY <3>2, <3>3 DEF RegistryAssumption
    <3> QED BY <3>2, <3>4
  <2>2. f \in [1..size -> others]
    BY <2>1
  <2> HIDE DEF f, others
  <2>3. Cardinality(others) < Cardinality(1..size)
    BY <1>1, <1>3, <1>4
  <2>4. PICK x \in 1..size, y \in 1..size : x # y /\ f[x] = f[y]
    BY <1>3, <1>4, <2>2, <2>3, FS_PigeonHole
  <2> QED BY <2>1, <2>4
<1> DEFINE free == {s \in 1..size : s \notin used}
<1>6. free \in SUBSET Nat /\ free # {}
  BY <1>1, <1>5
<1>7. PICK least \in free : \A s \in free : least <= s
  <2> HIDE DEF free
  <2> QED BY <1>6, Hosts!LeastOf
<1>8. least \in 1..size /\ least \notin used /\ \A t \in 1..(least - 1) : t \in used
  <2>1. least \in 1..size /\ least \notin used
    OBVIOUS
  <2>2. ASSUME NEW t \in 1..(least - 1) PROVE t \in used
    <3>1. t \in 1..size /\ ~(least <= t)
      BY <1>1, <2>1
    <3> QED BY <1>7, <3>1
  <2> QED BY <2>1, <2>2
<1> HIDE DEF used, free
<1>9. \E s \in Projects!Slug : s \notin used /\ \A t \in 1..(s - 1) : t \in used
  BY <1>2, <1>8
<1> QED BY <1>9 DEF Projects!AllocateSlug, used

\* A token that is written leaves a lock file.
Stamped(l, w) == [l EXCEPT !.written = l.written \/ l.by = w]
TokenIn(files, w) == {Stamped(l, w) : l \in files}
LEMMA TokenWritten ==
  ASSUME NEW files \in SUBSET [by : Writer, written : BOOLEAN], NEW w
  PROVE  TokenIn(files, w) \subseteq [by : Writer, written : BOOLEAN] /\ (TokenIn(files, w) = {} => files = {})
<1>1. ASSUME NEW l \in files PROVE Stamped(l, w) \in [by : Writer, written : BOOLEAN]
  <2>1. l \in [by : Writer, written : BOOLEAN]
    OBVIOUS
  <2>3. PICK v \in BOOLEAN : v = (l.written \/ l.by = w)
    OBVIOUS
  <2>4. Stamped(l, w) = [l EXCEPT !.written = v]
    BY <2>3, Zenon DEF Stamped
  <2>5. [l EXCEPT !.written = v] \in [by : Writer, written : BOOLEAN]
    BY <2>1
  <2> QED BY <2>4, <2>5, Zenon
<1> QED BY <1>1 DEF TokenIn

\* The registry, its lock file and its writers keep their types.
LEMMA RegistryTypeNext ==
  RegistryAssumption /\ Projects!RegistryTypeOK /\ RegistryShape /\ [Projects!Next]_projects => Projects!RegistryTypeOK'
<1> SUFFICES ASSUME RegistryAssumption, Projects!RegistryTypeOK, RegistryShape, [Projects!Next]_projects PROVE Projects!RegistryTypeOK'
  OBVIOUS
<1> USE DEF Projects!RegistryTypeOK, Projects!Go
<1>1. CASE UNCHANGED projects
  BY <1>1 DEF projects
<1>2. ASSUME NEW w \in Writer, NEW r \in Repo, Projects!Resolve(w, r) PROVE Projects!RegistryTypeOK'
  <2>1. result' \in [Writer -> Projects!Slug \union {None}]
    <3>1. registry[r] \in Projects!Slug \union {None}
      BY DEF Projects!Registries
    <3> QED BY <1>2, <3>1 DEF Projects!Resolve
  <2>2. stage' \in [Writer -> {"idle", "waiting", "breaking", "created", "inside", "read", "unlocking", "unlinking", "over", "died"}]
    BY <1>2 DEF Projects!Resolve
  <2>3. call' \in [Writer -> [op : {"allocate", "record"}, repo : Repo] \union {None}]
    BY <1>2 DEF Projects!Resolve
  <2> QED BY <1>2, <2>1, <2>2, <2>3 DEF Projects!Resolve
<1>3. ASSUME NEW w \in Writer, NEW r \in Repo, Projects!RecordInstall(w, r) PROVE Projects!RegistryTypeOK'
  <2>1. call' \in [Writer -> [op : {"allocate", "record"}, repo : Repo] \union {None}]
    BY <1>3 DEF Projects!RecordInstall
  <2> QED BY <1>3, <2>1 DEF Projects!RecordInstall
<1>4. ASSUME NEW w \in Writer, Projects!Open(w) \/ Projects!WriteToken(w) PROVE Projects!RegistryTypeOK'
  <2>1. lock' \subseteq [by : Writer, written : BOOLEAN]
    <3>1. CASE Projects!Open(w)
      <4>1. lock' = {[by |-> w, written |-> FALSE]}
        BY <3>1 DEF Projects!Open
      <4> QED BY <4>1
    <3>2. CASE Projects!WriteToken(w)
      <4>1. lock' = TokenIn(lock, w)
        BY <3>2 DEF Projects!WriteToken, TokenIn, Stamped
      <4>2. lock \in SUBSET [by : Writer, written : BOOLEAN]
        OBVIOUS
      <4> QED BY <4>1, <4>2, TokenWritten
    <3> QED BY <1>4, <3>1, <3>2
  <2>2. old' \in BOOLEAN /\ (lock' = {} => ~old')
    <3>1. CASE Projects!Open(w)
      BY <3>1 DEF Projects!Open
    <3>2. CASE Projects!WriteToken(w)
      <4>1. old' = old /\ lock' = TokenIn(lock, w)
        BY <3>2 DEF Projects!WriteToken, TokenIn, Stamped
      <4>2. lock \in SUBSET [by : Writer, written : BOOLEAN]
        OBVIOUS
      <4>3. lock' = {} => lock = {}
        BY <4>1, <4>2, TokenWritten
      <4> QED BY <4>1, <4>3
    <3> QED BY <1>4, <3>1, <3>2
  <2>3. stage' = [stage EXCEPT ![w] = "created"] \/ stage' = [stage EXCEPT ![w] = "inside"]
    BY <1>4 DEF Projects!Open, Projects!WriteToken
  <2>4. UNCHANGED <<registry, call, fresh, result, broken>>
    BY <1>4 DEF Projects!Open, Projects!WriteToken
  <2> QED BY <2>1, <2>2, <2>3, <2>4
<1>5. ASSUME NEW w \in Writer, Projects!Break(w) \/ Projects!Unlink(w) PROVE Projects!RegistryTypeOK'
  BY <1>5 DEF Projects!Break, Projects!Unlink
<1>6. ASSUME NEW w \in Writer,
             Projects!FindStale(w) \/ Projects!TimeOut(w) \/ Projects!ReadToken(w) \/ Projects!Die(w)
      PROVE  Projects!RegistryTypeOK'
  BY <1>6 DEF Projects!FindStale, Projects!TimeOut, Projects!ReadToken, Projects!Die
<1>7. ASSUME NEW w \in Writer, Projects!ReadRegistry(w) PROVE Projects!RegistryTypeOK'
  BY <1>7 DEF Projects!ReadRegistry, Projects!ReadAgain
<1>8. ASSUME NEW w \in Writer, Projects!WriteRegistry(w) PROVE Projects!RegistryTypeOK'
  <2>0. call[w].repo \in Repo
    BY <1>8 DEF Projects!WriteRegistry, RegistryShape
  <2> DEFINE known == fresh[w]
             repo == call[w].repo
             slug == IF known[repo] # None THEN known[repo] ELSE Projects!AllocateSlug(known)
  <2>1. known \in Projects!Registries /\ known[repo] \in Projects!Slug \union {None}
    BY <2>0 DEF Projects!Registries
  <2>2. slug \in Projects!Slug
    BY <2>0, <2>1, SlugFree
  <2>3. /\ \/ registry' = known \/ registry' = registry \/ registry' = [known EXCEPT ![repo] = slug]
        /\ result' = result \/ result' = [result EXCEPT ![w] = slug]
        /\ stage' = [stage EXCEPT ![w] = "unlocking"]
        /\ UNCHANGED <<lock, old, call, fresh, broken>>
    BY <1>8 DEF Projects!WriteRegistry
  <2> HIDE DEF known, repo, slug
  <2>4. registry' \in Projects!Registries
    <3>1. [known EXCEPT ![repo] = slug] \in Projects!Registries
      BY <2>1, <2>2 DEF Projects!Registries
    <3> QED BY <2>1, <2>3, <3>1
  <2>5. result' \in [Writer -> Projects!Slug \union {None}]
    BY <2>2, <2>3
  <2> QED BY <2>3, <2>4, <2>5
<1>9. CASE Projects!Age
  BY <1>9 DEF Projects!Age
<1> QED
  BY <1>1, <1>2, <1>3, <1>4, <1>5, <1>6, <1>7, <1>8, <1>9 DEF Projects!Next

\* What the types of the forks need besides.
ForkTyped ==
  /\ forkLock \in MCFork \union {None}
  /\ manifest.request \in Request \union {None} /\ mine.request \in Request \union {None}
  /\ Len(mine.allocations) <= Len(MCTargets)
  /\ forked \in [published : BOOLEAN, receipt : Request \union {None}]
  /\ answer \in [MCFork -> {"none", "forked", "exists", "failed"}]

\* What a step makes of the lock, the manifests, the receipt and the answers.
ForkMoves(f) ==
  /\ forkLock' \in {forkLock, f, None}
  /\ mine'.request \in {mine.request, manifest.request, MCRequestOf[f]}
  /\ manifest'.request \in {mine.request, manifest.request, MCRequestOf[f]}
  /\ mine'.allocations \in {mine.allocations, manifest.allocations, manifest'.allocations, <<>>}
  /\ forked' = forked \/ forked' = [published |-> TRUE, receipt |-> MCRequestOf[f]]
  /\ answer' = answer \/ \E x \in {answer[f], "forked", "exists", "failed"} : answer' = [answer EXCEPT ![f] = x]

LEMMA ForkMovesSo ==
  ASSUME ForkShape, NEW f \in MCFork,
         \/ Forks!Open(f) \/ Forks!LookForChild(f) \/ Forks!Recover(f) \/ Forks!Look(f)
         \/ Forks!SaveIntent(f) \/ Forks!MakeTemporary(f) \/ Forks!RecordInode(f) \/ Forks!Rename(f)
         \/ Forks!Build(f) \/ Forks!Publish(f) \/ Forks!Validate(f) \/ Forks!RemoveAll(f) \/ Forks!Die(f)
  PROVE  ForkMoves(f)
<1> USE DEF ForkMoves, Forks!Go, Forks!Answer, Forks!Over, Forks!Fails
<1>0. mine = [request |-> mine.request, allocations |-> mine.allocations]
  BY DEF ForkShape
<1>1. CASE Forks!Open(f)
  BY <1>1 DEF Forks!Open
<1>2. CASE Forks!LookForChild(f)
  BY <1>2 DEF Forks!LookForChild
<1>3. CASE Forks!Recover(f)
  BY <1>3 DEF Forks!Recover
<1>4. CASE Forks!Look(f)
  BY <1>4 DEF Forks!Look
<1>5. CASE Forks!SaveIntent(f)
  <2>1. \/ UNCHANGED <<mine, manifest>> /\ answer' = [answer EXCEPT ![f] = "exists"]
        \/ /\ \E x : mine' = [mine EXCEPT !.allocations = x]
           /\ manifest' = mine' /\ UNCHANGED answer
    BY <1>5 DEF Forks!SaveIntent
  <2>2. mine'.request = mine.request /\ (manifest' = manifest \/ manifest' = mine')
    BY <1>0, <2>1
  <2>3. UNCHANGED <<forkLock, forked>>
    BY <1>5 DEF Forks!SaveIntent
  <2>4. mine'.allocations \in {mine.allocations, manifest'.allocations}
    BY <2>1
  <2> QED BY <2>1, <2>2, <2>3, <2>4
<1>6. CASE Forks!MakeTemporary(f)
  BY <1>6 DEF Forks!MakeTemporary
<1>7. CASE Forks!RecordInode(f)
  <2>1. /\ mine' = [mine EXCEPT !.allocations[Forks!Count].inode = f] /\ manifest' = mine'
        /\ UNCHANGED <<forkLock, forked, answer>>
    BY <1>7 DEF Forks!RecordInode
  <2>2. mine'.request = mine.request
    BY <1>0, <2>1
  <2> QED BY <2>1, <2>2
<1>8. CASE Forks!Rename(f)
  BY <1>8 DEF Forks!Rename
<1>9. CASE Forks!Build(f)
  BY <1>9 DEF Forks!Build
<1>10. CASE Forks!Publish(f)
  BY <1>10 DEF Forks!Publish
<1>11. CASE Forks!Validate(f)
  BY <1>11 DEF Forks!Validate
<1>12. CASE Forks!RemoveAll(f)
  <2>1. \/ UNCHANGED <<forkLock, manifest, mine, answer>>
        \/ /\ mine' = [mine EXCEPT !.allocations = <<>>]
           /\ manifest' = [request |-> MCRequestOf[f], allocations |-> <<>>]
           /\ \/ UNCHANGED <<forkLock, answer>>
              \/ forkLock' = None /\ answer' = [answer EXCEPT ![f] = answer[f]]
    BY <1>12 DEF Forks!RemoveAll
  <2>2. mine' = mine \/ (mine'.request = mine.request /\ mine'.allocations = <<>>)
    BY <1>0, <2>1
  <2>3. manifest' = manifest \/ manifest'.request = MCRequestOf[f]
    BY <2>1
  <2>4. forkLock' \in {forkLock, None} /\ (answer' = answer \/ answer' = [answer EXCEPT ![f] = answer[f]])
    BY <2>1
  <2>5. forked' = forked
    BY <1>12 DEF Forks!RemoveAll
  <2> QED BY <2>2, <2>3, <2>4, <2>5
<1>13. CASE Forks!Die(f)
  BY <1>13 DEF Forks!Die
<1> QED
  BY <1>1, <1>2, <1>3, <1>4, <1>5, <1>6, <1>7, <1>8, <1>9, <1>10, <1>11, <1>12, <1>13

\* The types of the forks are kept.
LEMMA ForkTypedNext ==
  ASSUME ForkAssumption, r1 \in Request, ForkInv, ForkInv', ForkTyped, [Forks!Next]_forks
  PROVE  ForkTyped'
<1>1. CASE UNCHANGED forks
  BY <1>1 DEF forks, ForkTyped
<1>2. ASSUME NEW t \in Forks!Target, Forks!Intrude(t) PROVE ForkTyped'
  BY <1>2 DEF Forks!Intrude, ForkTyped
<1>3. ASSUME NEW f \in MCFork, ForkMoves(f) PROVE ForkTyped'
  <2>1. MCRequestOf[f] \in Request \union {None}
    BY DEF MCRequestOf
  <2>2. forkLock' \in MCFork \union {None}
    BY <1>3 DEF ForkMoves, ForkTyped
  <2>3. manifest'.request \in Request \union {None} /\ mine'.request \in Request \union {None}
    BY <1>3, <2>1 DEF ForkMoves, ForkTyped
  <2>4. Len(mine'.allocations) <= Len(MCTargets)
    <3>1. Len(manifest.allocations) <= Len(MCTargets) /\ Len(manifest'.allocations) <= Len(MCTargets)
      BY DEF ForkInv, LeftSound
    <3>2. Len(<<>>) <= Len(MCTargets)
      <4>1. Len(<<>>) = 0 /\ Len(MCTargets) \in Nat
        BY LenProperties DEF ForkAssumption
      <4> QED BY <4>1
    <3>3. mine'.allocations \in {mine.allocations, manifest.allocations, manifest'.allocations, <<>>}
      BY <1>3 DEF ForkMoves
    <3>4. Len(mine.allocations) <= Len(MCTargets)
      BY DEF ForkTyped
    <3>5. CASE mine'.allocations = mine.allocations
      BY <3>4, <3>5
    <3>6. CASE mine'.allocations = manifest.allocations
      BY <3>1, <3>6
    <3>7. CASE mine'.allocations = manifest'.allocations
      BY <3>1, <3>7
    <3>8. CASE mine'.allocations = <<>>
      BY <3>2, <3>8
    <3> QED BY <3>3, <3>5, <3>6, <3>7, <3>8
  <2>5. forked' \in [published : BOOLEAN, receipt : Request \union {None}]
    <3>1. forked' = forked \/ forked' = [published |-> TRUE, receipt |-> MCRequestOf[f]]
      BY <1>3 DEF ForkMoves
    <3>2. [published |-> TRUE, receipt |-> MCRequestOf[f]] \in [published : BOOLEAN, receipt : Request \union {None}]
      BY <2>1
    <3> QED BY <3>1, <3>2, Zenon DEF ForkTyped
  <2>6. answer' \in [MCFork -> {"none", "forked", "exists", "failed"}]
    BY <1>3 DEF ForkMoves, ForkTyped
  <2> QED BY <2>2, <2>3, <2>4, <2>5, <2>6 DEF ForkTyped
<1> QED
  BY <1>1, <1>2, <1>3, ForkMovesSo DEF Forks!Next, ForkInv

\* What is in a manifest.
LEMMA ManifestTyped ==
  ASSUME NEW m, m = [request |-> m.request, allocations |-> m.allocations], m.request \in Request \union {None},
         m.allocations \in Seq(Allocation), Len(m.allocations) <= Len(MCTargets)
  PROVE  m \in Forks!Manifests
<1> DEFINE size == Len(m.allocations)
           all == [target : Forks!Target, inode : Forks!Inode]
<1>1. size \in Nat /\ m.allocations \in [1..size -> Allocation]
  BY LenProperties
<1>2. Allocation \subseteq all
  BY DEF Allocation, Forks!Inode
<1>3. m.allocations \in [1..size -> all]
  BY <1>1, <1>2
<1>4. size \in 0..Len(MCTargets)
  BY <1>1
<1>5. m.allocations \in UNION {[1..n -> all] : n \in 0..Len(MCTargets)}
  <2> HIDE DEF size, all
  <2> QED BY <1>3, <1>4
<1>6. m.allocations \in Forks!Allocations
  BY <1>5 DEF Forks!Allocations
<1> QED BY <1>6 DEF Forks!Manifests

LEMMA ForksTyped ==
  ASSUME ForkAssumption, ForkInv, ForkTyped
  PROVE  Forks!ForkTypeOK
<1>1. manifest \in Forks!Manifests /\ mine \in Forks!Manifests
  BY ManifestTyped DEF ForkInv, ForkShape, ForkTyped, LeftSound
<1>2. forkPhase \in [MCFork -> {"idle", "opened", "recover", "look", "reserve", "make", "record", "rename",
                                "build", "publish", "cleanup", "remove", "over", "died"}]
  BY DEF ForkInv, ForkShape, Constructing
<1> QED BY <1>1, <1>2 DEF Forks!ForkTypeOK, Forks!Receipt, ForkInv, ForkShape, ForkTyped

LEMMA RegistryTypeInit == Projects!Init => Projects!RegistryTypeOK
<1> SUFFICES ASSUME Projects!Init PROVE Projects!RegistryTypeOK
  OBVIOUS
<1>1. registry \in Projects!Registries
  BY DEF Projects!Init, Projects!Registries, Projects!Nothing
<1>2. fresh \in [Writer -> Projects!Registries]
  BY <1>1 DEF Projects!Init, Projects!Nothing
<1>3. /\ stage \in [Writer -> {"idle", "waiting", "breaking", "created", "inside", "read", "unlocking", "unlinking",
                               "over", "died"}]
      /\ call \in [Writer -> [op : {"allocate", "record"}, repo : Repo] \union {None}]
      /\ result \in [Writer -> Projects!Slug \union {None}]
  BY DEF Projects!Init
<1> QED BY <1>1, <1>2, <1>3 DEF Projects!Init, Projects!RegistryTypeOK

LEMMA ForkTypedInit == ForkAssumption /\ Forks!Init => ForkTyped
<1> SUFFICES ASSUME ForkAssumption, Forks!Init PROVE ForkTyped
  OBVIOUS
<1>1. Len(mine.allocations) <= Len(MCTargets)
  <2>1. mine.allocations = <<>> /\ Len(<<>>) = 0 /\ Len(MCTargets) \in Nat
    BY LenProperties DEF ForkAssumption, Forks!Init
  <2> QED BY <2>1
<1> QED
  BY <1>1 DEF Forks!Init, Forks!NoChild, ForkTyped

\* The inductive invariant of the composition that the types follow from.
Components ==
  {"lease", "hosts", "pipeline", "journal", "lifecycle", "workflow", "registry", "framework", "fork"}
JournalsTyped ==
  /\ component \in Components
  /\ LeaseInv /\ JournalInv
  /\ FeedsInv /\ LocksInv /\ ProjectsInv /\ FrameworksInv /\ ForksInv
  /\ component = "registry" => Projects!RegistryTypeOK
  /\ component = "fork" => ForkTyped

\* What the components need of the constants.
JournalsAssumption ==
  HostsAssumption /\ RegistryAssumption /\ FrameworkAssumption /\ ForkAssumption /\ r1 \in Request

LEMMA TypedInit == JournalsAssumption /\ JournalsInit => JournalsTyped
<1> SUFFICES ASSUME JournalsAssumption, JournalsInit PROVE JournalsTyped
  OBVIOUS
<1>1. LeaseInv /\ JournalInv
  BY LeaseInitInv, JournalInit DEF JournalsInit
<1>2. FeedsInv /\ LocksInv /\ FrameworksInv
  BY HostsAssumed, FeedsInit, LocksInit, FrameworksInit DEF JournalsAssumption
<1>3. component = "registry" => Projects!Init
  BY DEF JournalsInit, Locks!Init, Locks!Protocols
<1>4. component = "fork" => Forks!Init
  BY DEF JournalsInit, Locks!Init, Locks!Protocols
<1>5. ProjectsInv /\ ForksInv
  BY <1>3, <1>4, RegistryInit, ForkInit DEF JournalsAssumption, ProjectsInv, ForksInv
<1>6. (component = "registry" => Projects!RegistryTypeOK) /\ (component = "fork" => ForkTyped)
  BY <1>3, <1>4, RegistryTypeInit, ForkTypedInit DEF JournalsAssumption
<1>7. component \in Components
  BY DEF JournalsInit, Locks!Init, Locks!Protocols, Components
<1> QED BY <1>1, <1>2, <1>5, <1>6, <1>7 DEF JournalsTyped

LEMMA TypedNext == JournalsAssumption /\ JournalsTyped /\ [JournalsNext]_journalsVars => JournalsTyped'
<1> SUFFICES ASSUME JournalsAssumption, JournalsTyped, [JournalsNext]_journalsVars PROVE JournalsTyped'
  OBVIOUS
<1>1. UNCHANGED component
  BY DEF JournalsNext, journalsVars
<1>2. [Next]_vars /\ [PipelineNext]_pipelineVars
  BY DEF JournalsNext, journalsVars
<1>3. LeaseInv' /\ JournalInv'
  BY <1>2, LeaseNext, JournalNext DEF JournalsTyped
<1>4. FeedsInv' /\ LocksInv' /\ ProjectsInv' /\ FrameworksInv' /\ ForksInv'
  BY HostsAssumed, FeedsNext, LocksNext, ProjectsNext, FrameworksNext, ForksNext
    DEF JournalsAssumption, JournalsTyped
<1>5. ASSUME component = "registry" PROVE Projects!RegistryTypeOK'
  <2>1. [Projects!Next]_projects
    BY <1>5 DEF JournalsNext, journalsVars
  <2>2. RegistryShape /\ Projects!RegistryTypeOK
    BY <1>5 DEF JournalsTyped, ProjectsInv, RegistryInv
  <2> QED BY <2>1, <2>2, RegistryTypeNext DEF JournalsAssumption
<1>6. ASSUME component = "fork" PROVE ForkTyped'
  <2>1. [Forks!Next]_forks
    BY <1>6, ForksStep
  <2>2. ForkInv /\ ForkInv' /\ ForkTyped
    BY <1>1, <1>4, <1>6 DEF JournalsTyped, ForksInv
  <2> QED BY <2>1, <2>2, ForkTypedNext DEF JournalsAssumption
<1> QED BY <1>1, <1>3, <1>4, <1>5, <1>6 DEF JournalsTyped

LEMMA TypedSo == JournalsAssumption /\ JournalsTyped => JournalsTypeOK
<1> SUFFICES ASSUME JournalsAssumption, JournalsTyped PROVE JournalsTypeOK
  OBVIOUS
<1>1. TypeOK /\ PipelineTypeOK
  BY DEF JournalsTyped, LeaseInv, JournalInv
<1>2. ASSUME component = "hosts" PROVE Hosts!HostTypeOK
  BY <1>2, HostsAssumed, Hosts!HostTyped DEF JournalsAssumption, JournalsTyped, FeedsInv
<1>3. component = "registry" => Projects!RegistryTypeOK
  BY DEF JournalsTyped
<1>4. component = "framework" => Store!InstallTypeOK
  BY DEF JournalsTyped, FrameworksInv, FrameworkInv, WorkInv
<1>5. ASSUME component = "fork" PROVE Forks!ForkTypeOK
  BY <1>5, ForksTyped DEF JournalsAssumption, JournalsTyped, ForksInv
<1>6. component \in Locks!Protocols => Locks!LockTypeOK
  BY DEF JournalsTyped, LocksInv, LockInv
<1>7. component \in Components
  BY DEF JournalsTyped
<1> QED
  <2>1. CASE component = "lease" \/ component = "pipeline"
    BY <1>1, <2>1 DEF JournalsTypeOK
  <2>2. CASE component = "hosts"
    BY <1>2, <2>2 DEF JournalsTypeOK
  <2>3. CASE component = "registry"
    BY <1>3, <2>3 DEF JournalsTypeOK
  <2>4. CASE component = "framework"
    BY <1>4, <2>4 DEF JournalsTypeOK
  <2>5. CASE component = "fork"
    BY <1>5, <2>5 DEF JournalsTypeOK
  <2>6. CASE component \in Locks!Protocols
    BY <1>6, <2>6 DEF JournalsTypeOK, Locks!Protocols
  <2> QED BY <1>7, <2>1, <2>2, <2>3, <2>4, <2>5, <2>6 DEF Components, Locks!Protocols

\* Every row, log, owner file, registry, pointer and manifest keeps its type, for every
\* number of processes, hosts, repositories and forks.
THEOREM JournalsTypeCorrect ==
  ASSUME JournalsAssumption
  PROVE  JournalsSpec => []JournalsTypeOK
BY TypedInit, TypedNext, TypedSo, PTL DEF JournalsSpec, journalsVars

=============================================================================
