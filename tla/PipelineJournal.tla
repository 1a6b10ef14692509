---------------------------- MODULE PipelineJournal ----------------------------
(***************************************************************************)
(* The journal that gates one pipeline run (pipeline/pipeline-state.ts):   *)
(* phases, verification receipts, acceptance evidence and archive          *)
(* approval, over a candidate and design artifacts that agents edit at any *)
(* time, with verifications that overlap each other and every other        *)
(* operation.                                                              *)
(*                                                                         *)
(* Contents stand for their digests and are never restored: a digest       *)
(* cannot tell a file that was changed and changed back. The journal lock  *)
(* makes each operation atomic (OwnerLock).                                *)
(***************************************************************************)
EXTENDS Integers, FiniteSets

CONSTANTS
  Verifier,      \* concurrent verify operations
  Command,       \* checks of a full verification
  Scoped,        \* those of a scoped one
  Plan,          \* verification plan hashes
  MaxEdits,      \* bound: edits of the candidate and of the design artifacts
  Invalid,       \* a receipt that is not valid: nothing reads the rest of it
  Lost,          \* a verification whose receipt can only be invalid
  None

Phase == <<"architect", "developer", "reviewer", "archive">>
Phases == {"architect", "developer", "reviewer", "archive"}

VARIABLES
  \* the repositories
  candidate,     \* content of the candidate
  artifact,      \* content of the design artifacts
  moved,         \* the change directory has moved to the archive
  \* state.json
  phase,         \* phase -> the contents it was completed for, None when it is not done
  plan,          \* hash of the bound verification plan
  verification,  \* the current receipt
  acceptance,    \* the acceptance receipt, None unless it resolves every requirement
  approval,      \* archiveApproval
  archived,      \* archivePath is set
  preview,       \* baseHash of the prepared preview, while it can still be the candidate
  \* verify operations
  run,
  \* history
  passed,        \* checks that ran and passed: plan, candidate, command
  accepted       \* plan, candidate and artifact of the complete acceptance reports

world == <<candidate, artifact, moved>>
journal == <<phase, plan, verification, acceptance, approval, archived, preview>>
pipelineVars == <<world, journal, run, passed, accepted>>

Contents == 1..(MaxEdits + 1)
Artifacts == Contents \union {0}
Candidates == Contents \X Artifacts
Plans == Plan \union {None}
Receipt == [kind : {"full", "scoped"}, candidate : Candidates, plan : Plans]
Report == [candidate : Candidates, artifact : Artifacts, plan : Plans]
Approval == [candidate : Candidates, artifact : Artifacts, acceptance : Report \union {None}]
Verification ==
  [kind : {"full", "scoped"}, candidate : Candidates, plan : Plans, previous : Receipt \union {None, Invalid},
   left : SUBSET Command, measured : BOOLEAN]

ASSUME JournalAssumption ==
  /\ MaxEdits \in Nat /\ Scoped \subseteq Command /\ None \notin Plan
  /\ None \notin Phases \union Receipt \union Report \union Approval
  /\ Invalid \notin Receipt

PipelineTypeOK ==
  /\ candidate \in Contents /\ artifact \in Contents /\ moved \in BOOLEAN
  /\ phase \in [Phases -> [candidate : Candidates, artifact : Artifacts] \union {None}]
  /\ plan \in Plans
  /\ verification \in Receipt \union {None, Invalid} /\ acceptance \in Report \union {None}
  /\ approval \in Approval \union {None}
  /\ archived \in BOOLEAN /\ preview \in Candidates \union {None}
  /\ run \in [Verifier -> Verification \union {None, Lost}]
  /\ \A v \in Verifier : run[v] \notin {None, Lost} => run[v].plan = plan
  /\ \A v, w \in Verifier : v # w => run[v] \in {None, Lost} \/ run[w] \in {None, Lost}
  /\ passed \subseteq Plans \X Candidates \X Command
  /\ accepted \subseteq Plans \X Candidates \X Artifacts

PipelineInit ==
  /\ candidate = 1 /\ artifact = 1 /\ moved = FALSE
  /\ phase = [p \in Phases |-> None]
  /\ plan = None /\ verification = None /\ acceptance = None /\ approval = None
  /\ archived = FALSE /\ preview = None
  /\ run = [v \in Verifier |-> None]
  /\ passed = {} /\ accepted = {}

-----------------------------------------------------------------------------
(* Gates. *)

\* The task, confidence and design gates read files that no property tells apart: an operation
\* they refuse changes nothing. A phase that is pending, running, blocked or failed is not done.
Done(p) == phase[p] # None

Index(p) == CHOOSE i \in 1..4 : Phase[i] = p
Earlier(p) == {q \in Phases : Index(q) < Index(p)}

\* The change directory is outside the candidate, but not where it moved before the journal knows.
Unknown == moved /\ ~archived

\* fingerprintCandidate.
Cand == <<candidate, IF Unknown THEN artifact ELSE 0>>

\* artifactFingerprint of activeArtifactPath: missing after such a move.
Art == IF Unknown THEN 0 ELSE artifact

\* inspectReceipt.
ReceiptValid == verification = [kind |-> "full", candidate |-> Cand, plan |-> plan]

\* inspectAcceptance.
AcceptanceValid ==
  acceptance = [candidate |-> Cand, artifact |-> Art, plan |-> plan]

DesignUnchanged == Art # 0 /\ Done("architect") /\ phase["architect"].artifact = Art

\* Every save increments the revision, and a verification under an older one is not current.
Saved == run' = [v \in Verifier |-> IF run[v] = None THEN None ELSE Lost]

-----------------------------------------------------------------------------
(* transitionPipeline *)

Running(p) ==
  /\ \A q \in Earlier(p) : Done(q)
  /\ phase' = [q \in Phases |-> IF q \in Earlier(p) THEN phase[q] ELSE None]
  /\ Saved
  /\ UNCHANGED <<world, plan, verification, acceptance, approval, archived, preview, passed, accepted>>

\* A blocked or failed phase leaves the later ones as they are.
Failed(p) ==
  /\ phase' = [phase EXCEPT ![p] = None]
  /\ Saved
  /\ UNCHANGED <<world, plan, verification, acceptance, approval, archived, preview, passed, accepted>>

Complete(p, c, a) == phase' = [phase EXCEPT ![p] = [candidate |-> c, artifact |-> a]]

DesignDone ==
  /\ Art # 0
  /\ Complete("architect", Cand, Art)
  /\ Saved
  /\ UNCHANGED <<world, plan, verification, acceptance, approval, archived, preview, passed, accepted>>

DevelopmentDone ==
  /\ Done("architect")
  /\ DesignUnchanged /\ ReceiptValid
  /\ Complete("developer", Cand, Art)
  /\ Saved
  /\ UNCHANGED <<world, plan, verification, acceptance, approval, archived, preview, passed, accepted>>

ReviewDone ==
  /\ \A q \in Earlier("reviewer") : Done(q)
  /\ DesignUnchanged /\ ReceiptValid /\ AcceptanceValid
  /\ Complete("reviewer", Cand, Art)
  /\ Saved
  /\ UNCHANGED <<world, plan, verification, acceptance, approval, archived, preview, passed, accepted>>

\* mutant: the approval is not compared with the content that is archived
ApprovedEver == approval # None

\* The archive was authorized for this exact reviewed candidate.
Approved == approval = [candidate |-> <<candidate, 0>>, artifact |-> artifact, acceptance |-> acceptance]

\* The artifacts are looked up where they moved; a second archive finds them active.
ArchiveDone ==
  /\ \A q \in Earlier("archive") : Done(q)
  /\ moved /\ ~archived
  /\ Approved
  /\ archived' = TRUE
  /\ Complete("archive", <<candidate, 0>>, artifact)
  /\ Saved
  /\ UNCHANGED <<world, plan, verification, acceptance, approval, preview, passed, accepted>>

-----------------------------------------------------------------------------
(* Evidence. *)

\* bindVerificationPlan. A run that has a plan never has none again: that history is forgotten.
BindVerificationPlan(p) ==
  /\ p # plan /\ ~Done("archive")
  /\ plan' = p /\ acceptance' = None /\ approval' = None
  /\ passed' = {x \in passed : x[1] # None} /\ accepted' = {x \in accepted : x[1] # None}
  /\ Saved
  /\ UNCHANGED <<world, phase, verification, archived, preview>>

\* recordAcceptance: a new report requires a new review and a new approval.
RecordAcceptance(ok) ==
  /\ Done("developer") /\ ~Done("archive")
  /\ acceptance' = IF ok THEN [candidate |-> Cand, artifact |-> Art, plan |-> plan] ELSE None
  /\ phase' = [phase EXCEPT !["reviewer"] = None, !["archive"] = None]
  /\ approval' = None
  /\ accepted' = IF ok THEN accepted \union {<<plan, Cand, Art>>} ELSE accepted
  /\ Saved
  /\ UNCHANGED <<world, plan, verification, archived, preview, passed>>

\* checkArchive.
CheckArchive ==
  /\ Done("reviewer")
  /\ ReceiptValid /\ AcceptanceValid /\ DesignUnchanged
  /\ phase["reviewer"].candidate = Cand /\ phase["reviewer"].artifact = Art
  /\ approval' = [candidate |-> Cand, artifact |-> Art, acceptance |-> acceptance]
  /\ Saved
  /\ UNCHANGED <<world, phase, plan, verification, acceptance, archived, preview, passed, accepted>>

\* bound: edits are left, for agents and for a preview
Room == candidate + artifact < MaxEdits + 2

\* preparePreview, and applyPreview up to the verification it starts.
PreparePreview ==
  /\ Room
  /\ preview' = Cand
  /\ Saved
  /\ UNCHANGED <<world, phase, plan, verification, acceptance, approval, archived, passed, accepted>>

ApplyPreview ==
  /\ preview = Cand /\ Room
  /\ candidate' = candidate + 1
  /\ preview' = None
  /\ verification' = None
  /\ phase' = [q \in Phases |-> IF q = "architect" THEN phase[q] ELSE None]
  /\ Saved
  /\ UNCHANGED <<artifact, moved, plan, acceptance, approval, archived, passed, accepted>>

-----------------------------------------------------------------------------
(* verifyPipeline, executeVerification *)

\* The earlier receipt is no longer current from here on, nor are the verifications under way.
StartVerification(v, kind) ==
  /\ run[v] = None
  /\ run' = [u \in Verifier |->
       CASE u = v -> [kind |-> kind, candidate |-> Cand, plan |-> plan, previous |-> verification,
                      left |-> IF kind = "full" THEN Command ELSE Scoped, measured |-> FALSE]
         [] u # v /\ run[u] # None -> Lost
         [] OTHER -> None]
  /\ verification' = IF verification = None THEN None ELSE Invalid
  /\ acceptance' = None /\ approval' = None
  /\ UNCHANGED <<world, phase, plan, archived, preview, passed, accepted>>

Working(v) == run[v] \notin {None, Lost}

\* A result of the receipt this verification replaced, with the same plan and candidate.
Reusable(v) == run[v].previous = [kind |-> "full", candidate |-> run[v].candidate, plan |-> run[v].plan]

\* One check of a wave runs on the files it finds, or is reused.
Check(v, c) ==
  /\ Working(v) /\ c \in run[v].left
  /\ \/ passed' = passed \union {<<plan, Cand, c>>}
     \/ Reusable(v) /\ UNCHANGED passed
  /\ run' = [run EXCEPT ![v].left = @ \ {c}]
  /\ UNCHANGED <<world, journal, accepted>>

\* A failure, an abort or the deadline cancels the other checks.
CheckFails(v) ==
  /\ Working(v) /\ run[v].left # {}
  /\ run' = [run EXCEPT ![v] = Lost]
  /\ UNCHANGED <<world, journal, passed, accepted>>

IsCurrent(v) == run[v].candidate = Cand

\* The candidate is measured after the last check, ...
Measure(v) ==
  /\ Working(v) /\ run[v].left = {} /\ ~run[v].measured
  /\ run' = [run EXCEPT ![v] = IF IsCurrent(v) THEN [@ EXCEPT !.measured = TRUE] ELSE Lost]
  /\ UNCHANGED <<world, journal, passed, accepted>>

\* ... and again as the receipt commits. A scoped pass never replaces a full receipt.
CommitReceipt(v) ==
  /\ run[v] = Lost \/ (Working(v) /\ run[v].measured)
  /\ verification' =
       IF run[v] = Lost \/ ~IsCurrent(v) THEN Invalid
       ELSE IF run[v].kind = "full" \/ verification = None
       THEN [kind |-> run[v].kind, candidate |-> run[v].candidate, plan |-> run[v].plan]
       ELSE IF run[v].previous \notin {None, Invalid} /\ run[v].previous.candidate = run[v].candidate
       THEN run[v].previous
       ELSE verification
  /\ run' = [u \in Verifier |-> IF u = v \/ run[u] = None THEN None ELSE Lost]
  /\ UNCHANGED <<world, phase, plan, acceptance, approval, archived, preview, passed, accepted>>

\* The process dies, or an evidence write throws.
VerifierEnds(v) ==
  /\ run[v] # None
  /\ run' = [run EXCEPT ![v] = None]
  /\ UNCHANGED <<world, journal, passed, accepted>>

-----------------------------------------------------------------------------
(* The agents, and the checks that change what they check. *)

\* A preview that can no longer be applied is forgotten.
Edit ==
  /\ Room
  /\ candidate' = candidate + 1
  /\ preview' = None
  /\ UNCHANGED <<artifact, moved, phase, plan, verification, acceptance, approval, archived, run, passed, accepted>>

EditArtifact ==
  /\ Room
  /\ artifact' = artifact + 1
  /\ UNCHANGED <<candidate, moved, phase, plan, verification, acceptance, approval, archived, run, passed, accepted>>
  /\ preview' = IF Room' THEN preview ELSE None

Move ==
  /\ ~moved /\ moved' = TRUE
  /\ UNCHANGED <<candidate, artifact, journal, run, passed, accepted>>

PipelineNext ==
  \/ \E p \in Phases : Running(p) \/ Failed(p)
  \/ DesignDone \/ DevelopmentDone \/ ReviewDone \/ ArchiveDone
  \/ \E p \in Plan : BindVerificationPlan(p)
  \/ \E ok \in BOOLEAN : RecordAcceptance(ok)
  \/ CheckArchive \/ PreparePreview \/ ApplyPreview
  \/ \E v \in Verifier :
       \/ \E kind \in {"full", "scoped"} : StartVerification(v, kind)
       \/ \E c \in Command : Check(v, c)
       \/ CheckFails(v) \/ Measure(v) \/ CommitReceipt(v) \/ VerifierEnds(v)
  \/ Edit \/ EditArtifact \/ Move

PipelineSpec == PipelineInit /\ [][PipelineNext]_pipelineVars

-----------------------------------------------------------------------------
(* inspectPipeline *)

ReviewedCandidate == Done("reviewer") /\ phase["reviewer"].candidate = Cand

Stale(p) ==
  \/ ~Done(p)
  \/ p = "architect" /\ phase[p].artifact # Art
  \/ p \in {"developer", "reviewer"} /\ phase[p].candidate # Cand /\ ~ReviewedCandidate

\* A stale development is reviewed again, not developed again.
Resume(p) == IF p = "developer" /\ Done(p) THEN "reviewer" ELSE p

ResumePhase ==
  LET first == IF \E i \in 1..4 : Stale(Phase[i])
               THEN Resume(Phase[CHOOSE i \in 1..4 : Stale(Phase[i]) /\ \A j \in 1..(i - 1) : ~Stale(Phase[j])])
               ELSE None
  IN IF first \in {None, "archive"}
        /\ \/ ~ReceiptValid /\ Done("developer")
           \/ ~AcceptanceValid /\ Done("reviewer")
     THEN "reviewer" ELSE first

-----------------------------------------------------------------------------
(* Properties. *)

\* A valid full receipt in the journal is the truth: every check of the plan ran on that
\* very candidate and passed, whatever verifications overlapped, whatever was edited
\* meanwhile and whichever receipt was restored.
ReceiptPassed ==
  verification \notin {None, Invalid} /\ verification.kind = "full" /\ verification.plan = plan =>
    \A c \in Command : <<plan, verification.candidate, c>> \in passed

\* What is archived passed every check of the plan, and a complete acceptance report
\* describes exactly that candidate with exactly those artifacts, although approval,
\* move and archive are three operations apart.
ArchivedIsReviewed ==
  Done("archive") =>
    /\ \A c \in Command : <<plan, phase["archive"].candidate, c>> \in passed
    /\ <<plan, phase["archive"].candidate, phase["archive"].artifact>> \in accepted

\* A run that says it may go on behind the review has reviewed, verified and accepted
\* the candidate and the design as they are now.
ResumeIsSound ==
  ResumePhase \in {"archive", None} =>
    /\ phase["reviewer"].candidate = Cand /\ phase["architect"].artifact = Art
    /\ \A c \in Command : <<plan, Cand, c>> \in passed
    /\ <<plan, Cand, Art>> \in accepted

\* The journal tells the truth at each of its gates, over any number of verifications that
\* overlap the edits and each other.
PhasesSound == ReceiptPassed /\ ArchivedIsReviewed /\ ResumeIsSound

=============================================================================
