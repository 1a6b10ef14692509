------------------------------ MODULE CoreGraph ------------------------------
(***************************************************************************)
(* The implementation graph (agent-runtime/graph/nodes.ts, convergence.ts, *)
(* core-host.ts): architect, developer, fixer, verify, reviewer, archive,  *)
(* the budgets and guards of its correction loop, and the resumes of a run *)
(* that stopped. A visit of a node is one step: the engine that makes it   *)
(* durable is WorkflowRun, the journal it reports to PipelineJournal.      *)
(*                                                                         *)
(* A candidate stands for the content of the repositories and the plan     *)
(* that verifies it; agents are external, and may change it to any other.  *)
(***************************************************************************)
EXTENDS Integers, Sequences, FiniteSets, SequencesExt

CONSTANTS
  Candidate,
  Base,           \* the repository before the run
  Signature,      \* identities of a failure
  Attempts,       \* limits.maxAttempts
  Compact,        \* the compact developer finishes its tasks over several visits
  Asks,           \* architect.onLowConfidence = 'ask'
  Approves,       \* approvalBeforeArchive
  MaxResumes,     \* bound: explicit resumes
  None

ASSUME CoreAssumption ==
  /\ Base \in Candidate /\ None \notin Candidate
  /\ Attempts \in Nat \ {0} /\ Compact \in BOOLEAN

Core == <<"architect", "developer", "fixer", "verify", "reviewer", "archive">>

VARIABLES
  at,          \* the next node, or end
  status,      \* running, paused, blocked, failed, succeeded
  reason,      \* why the run is blocked
  candidate,
  open,        \* tasks are unchecked
  design,      \* confidence of the design that was accepted
  recent,      \* outcomes of verify since the resume
  review,      \* the verdict: none, rejected, approved
  receipt,     \* candidate of the journal's valid receipt
  visits,      \* visits of developer and fixer since the resume
  transitions,
  answered,    \* this call answers the architect's question
  consent,     \* candidate this call may archive
  shown,       \* history: candidate the host was shown as it was asked
  verified,    \* history: candidate of the last verification that passed
  granted,     \* history: candidates a host granted
  resumes

progress == <<at, status, reason>>
tree == <<candidate, open>>
budget == <<visits, transitions>>
host == <<answered, consent, shown, granted, resumes>>
evidence == <<recent, receipt, verified>>
vars == <<progress, tree, evidence, design, review, budget, host>>

Outcome == [candidate : Candidate, passed : BOOLEAN, signature : Signature \union {None}]
MaxTransitions == Attempts * 3 + 3 + (IF Compact THEN Attempts * 4 ELSE 0)

CoreTypeOK ==
  /\ at \in ToSet(Core) \union {"end"}
  /\ status \in {"running", "paused", "blocked", "failed", "succeeded"}
  /\ candidate \in Candidate /\ open \in BOOLEAN
  /\ design \in {"none", "clear", "low"}
  /\ recent \in Seq(Outcome) /\ review \in {"none", "rejected", "approved"}
  /\ {receipt, consent, shown, verified} \subseteq Candidate \union {None}
  /\ transitions \in 0..MaxTransitions /\ granted \subseteq Candidate
  \* the budgets stop a visit that exceeds them
  /\ visits.developer <= Attempts * (IF Compact THEN 2 ELSE 1) + 1 /\ visits.fixer <= Attempts + 1
  /\ (status = "succeeded") = (at = "end")

Init ==
  /\ at = "architect" /\ status = "running" /\ reason = "none"
  /\ candidate = Base /\ open = TRUE
  /\ design = "none"
  /\ recent = <<>> /\ review = "none" /\ receipt = None
  /\ visits = [developer |-> 0, fixer |-> 0] /\ transitions = 0
  /\ answered = FALSE /\ consent = None /\ shown = None /\ verified = None /\ granted = {} /\ resumes = 0

-----------------------------------------------------------------------------
\* A visit within the engine's transition limit; a question that was answered is the same visit.
Visit(n) ==
  /\ status = "running" /\ at = n /\ transitions < MaxTransitions
  /\ transitions' = IF answered /\ n = "architect" THEN transitions ELSE transitions + 1

GoTo(n) == at' = n /\ UNCHANGED <<status, reason>>
Stop(s, why) == status' = s /\ reason' = why /\ UNCHANGED at

TransitionLimit ==
  /\ status = "running" /\ at # "end" /\ transitions >= MaxTransitions
  /\ Stop("blocked", "transitions")
  /\ UNCHANGED <<tree, design, evidence, review, budget, host>>

Implementers == {"developer", "fixer"}

\* The provider fails, runs out of time, or edits what cannot be undone: a design and an
\* implementation can be continued then.
RoleFails(n, s, c) ==
  /\ Visit(n)
  /\ s = "blocked" => n \in Implementers \union {"architect"}
  /\ c # candidate => n \in Implementers \union {"reviewer"}
  /\ visits' = IF n \in Implementers THEN [visits EXCEPT ![n] = @ + 1] ELSE visits
  /\ candidate' = c
  /\ open' \in IF n \in Implementers THEN BOOLEAN ELSE {open}
  /\ Stop(s, "role")
  /\ UNCHANGED <<design, evidence, review, host>>

\* The design is of low confidence although it was investigated once more, or questions block it.
\* The answer this call brought answers whatever the architect asks in it.
Architect(confidence, asks) ==
  /\ Visit("architect")
  /\ IF ~answered /\ (asks \/ (confidence = "low" /\ Asks))
       THEN Stop("paused", "question") /\ UNCHANGED design
       ELSE GoTo("developer") /\ design' = confidence
  /\ UNCHANGED <<tree, evidence, review, visits, host>>

Limit(n) == IF n = "developer" /\ Compact THEN Attempts * 2 ELSE Attempts

\* A visit above its budget ends before a provider is called.
OverLimit(n) ==
  /\ Visit(n) /\ visits[n] >= Limit(n)
  /\ visits' = [visits EXCEPT ![n] = @ + 1]
  /\ Stop("blocked", "limit")
  /\ UNCHANGED <<tree, design, evidence, review, host>>

Implement(n, c, o) ==
  /\ Visit(n) /\ visits[n] < Limit(n)
  /\ visits' = [visits EXCEPT ![n] = @ + 1]
  /\ candidate' = c /\ open' = o
  /\ GoTo("verify")
  /\ UNCHANGED <<design, evidence, review, host>>

-----------------------------------------------------------------------------
(* verify *)

ReturnOpen ==
  /\ Visit("verify") /\ open
  /\ GoTo("developer")
  /\ UNCHANGED <<tree, design, evidence, review, visits, host>>

\* unchangedFailure
FailedBefore == \E i \in DOMAIN recent : ~recent[i].passed /\ recent[i].candidate = candidate

Unchanged ==
  /\ Visit("verify") /\ ~open /\ FailedBefore
  /\ Stop("blocked", "loop")
  /\ UNCHANGED <<tree, design, evidence, review, visits, host>>

\* The reviewer rejected what the correction left as it was.
Disputed == recent # <<>> /\ Last(recent).passed /\ review = "rejected" /\ Last(recent).candidate = candidate

Reviews == Cardinality({i \in DOMAIN recent : recent[i].passed /\ recent[i].candidate = candidate})

DisputeEnds ==
  /\ Visit("verify") /\ ~open /\ ~FailedBefore /\ Disputed /\ Reviews >= 2
  /\ Stop("blocked", "dispute")
  /\ UNCHANGED <<tree, design, evidence, review, visits, host>>

ReuseEvidence ==
  /\ Visit("verify") /\ ~open /\ ~FailedBefore /\ Disputed /\ Reviews < 2 /\ receipt = candidate
  /\ recent' = Append(recent, Last(recent))
  /\ GoTo("reviewer")
  /\ UNCHANGED <<tree, design, review, receipt, verified, visits, host>>

Runs ==
  /\ Visit("verify") /\ ~open /\ ~FailedBefore
  /\ Disputed => Reviews < 2 /\ receipt # candidate

\* A precondition of the host, or output that changes whenever the commands run.
HostBlocks(c) ==
  /\ Runs
  /\ candidate' = c /\ receipt' = None
  /\ Stop("blocked", "host")
  /\ UNCHANGED <<open, design, recent, verified, review, visits, host>>

\* The outcomes at the end of recent that failed alike.
Repeats(s) ==
  Cardinality({i \in DOMAIN recent : \A j \in i..Len(recent) : ~recent[j].passed /\ recent[j].signature = s})

\* mutant: only the last round is compared
DivergesLast(c, s) ==
  recent # <<>> /\ ~Last(recent).passed /\ (Last(recent).candidate = c \/ Repeats(s) >= 2)

\* divergence
Diverges(c, s) ==
  \/ \E i \in DOMAIN recent : ~recent[i].passed /\ recent[i].candidate = c
  \/ Repeats(s) >= 2
  \/ /\ recent # <<>> /\ Last(recent).passed
     /\ \E i \in DOMAIN recent : ~recent[i].passed /\ recent[i].signature = s

\* A command failed; or its output, or the tests it left out, contradict a receipt that stays
\* valid. The commands may have rewritten the candidate.
VerifyFails(c, s, contradicted) ==
  /\ Runs
  /\ candidate' = c
  /\ receipt' = IF contradicted THEN c ELSE None
  /\ IF Diverges(c, s)
       THEN Stop("blocked", "loop") /\ UNCHANGED recent
       ELSE GoTo("fixer") /\ recent' = Append(recent, [candidate |-> c, passed |-> FALSE, signature |-> s])
  /\ UNCHANGED <<open, design, review, verified, visits, host>>

\* Output the commands generated themselves is adopted once.
VerifyPasses(c) ==
  /\ Runs
  /\ candidate' = c /\ receipt' = c /\ verified' = c
  /\ recent' = Append(recent, [candidate |-> c, passed |-> TRUE, signature |-> None])
  /\ GoTo("reviewer")
  /\ UNCHANGED <<open, design, review, visits, host>>

-----------------------------------------------------------------------------
(* reviewer, archive *)

\* Only a candidate with a valid receipt is approved.
Reviewer(verdict, c) ==
  /\ Visit("reviewer")
  /\ verdict = "approved" => receipt = c
  /\ candidate' = c /\ review' = verdict
  /\ GoTo(IF verdict = "approved" THEN "archive" ELSE "fixer")
  /\ UNCHANGED <<open, design, evidence, visits, host>>

\* mutant: an approval is for the run
ConsentedOnce == ~Approves \/ consent # None

\* archiveApproved
Consented == ~Approves \/ consent = candidate

AskApproval ==
  /\ Visit("archive") /\ ~Consented
  /\ shown' = candidate
  /\ Stop("paused", "approval")
  /\ UNCHANGED <<tree, design, evidence, review, visits, answered, consent, granted, resumes>>

Archive ==
  /\ Visit("archive") /\ Consented
  /\ review = "approved" /\ receipt = candidate
  /\ at' = "end" /\ status' = "succeeded" /\ reason' = "none"
  /\ UNCHANGED <<tree, design, evidence, review, visits, host>>

-----------------------------------------------------------------------------
Stopped == status \in {"paused", "blocked", "failed"}

\* Whoever stands between two calls may change the candidate.
Edit(c) ==
  /\ Stopped /\ c # candidate
  /\ candidate' = c
  /\ UNCHANGED <<progress, open, evidence, design, review, budget, host>>

\* validateCompleted: a receipt is kept only to wait for the approval or to retry a failed archive.
\* Otherwise the run goes on at verify, or at the role before it that did not finish.
ResumesAt ==
  IF at = "archive" /\ reason = "role" /\ receipt = candidate THEN "archive"
  ELSE IF at \in {"reviewer", "archive"} \/ reason = "transitions" THEN "verify"
  ELSE at

\* grantedArchiveScope: the approval is for the candidate found now, if its evidence holds.
Resume(answers) ==
  /\ Stopped /\ resumes < MaxResumes
  /\ status = "paused" => answers \/ (reason = "approval" /\ receipt # candidate)
  /\ resumes' = resumes + 1
  /\ status' = "running" /\ reason' = "none" /\ at' = ResumesAt
  /\ visits' = [n \in Implementers |-> 0] /\ transitions' = 0 /\ recent' = <<>>
  /\ answered' = (reason = "question")
  /\ consent' = IF reason = "approval" /\ answers /\ receipt = candidate /\ review = "approved"
                  THEN candidate ELSE None
  /\ granted' = IF reason = "approval" /\ answers THEN granted \union {shown} ELSE granted
  /\ UNCHANGED <<tree, design, review, receipt, verified, shown>>

Next ==
  \/ TransitionLimit
  \/ \E n \in ToSet(Core), s \in {"blocked", "failed"}, c \in Candidate : RoleFails(n, s, c)
  \/ \E confidence \in {"clear", "low"}, asks \in BOOLEAN : Architect(confidence, asks)
  \/ \E n \in Implementers : OverLimit(n) \/ \E c \in Candidate, o \in BOOLEAN : Implement(n, c, o)
  \/ ReturnOpen \/ Unchanged \/ DisputeEnds \/ ReuseEvidence
  \/ \E c \in Candidate, s \in Signature, contradicted \in BOOLEAN : VerifyFails(c, s, contradicted)
  \/ \E c \in Candidate : HostBlocks(c) \/ VerifyPasses(c) \/ Edit(c)
  \/ \E verdict \in {"rejected", "approved"}, c \in Candidate : Reviewer(verdict, c)
  \/ AskApproval \/ Archive
  \/ \E answers \in BOOLEAN : Resume(answers)

Spec == Init /\ [][Next]_vars

-----------------------------------------------------------------------------
\* What is archived passed its last verification, was approved by the reviewer and, where the
\* policy asks, by a host that was shown this candidate: an approval outlives neither a correction
\* nor an edit between two calls (archiveConsent, validateCompleted, archive).
ArchivedAsAgreed ==
  at = "end" => verified = candidate /\ review = "approved" /\ (Approves => candidate \in granted)

\* Within a call no round comes back to a candidate that failed, and no failure survives a third
\* round (convergence.ts, verifyNode).
Converges ==
  /\ \A i, j \in DOMAIN recent :
       i < j /\ ~recent[i].passed /\ ~recent[j].passed => recent[i].candidate # recent[j].candidate
  /\ \A i \in 1..(Len(recent) - 2) :
       ~ \A j \in i..(i + 2) : ~recent[j].passed /\ recent[j].signature = recent[i].signature

\* A design of low confidence is not built on where the policy is to ask. The code does not keep
\* this: a resumed architect is given the answer to its first question for its second one too.
LowConfidenceAsks == Asks => design # "low"
=============================================================================
