---------------------------- MODULE Agents_proofs -----------------------------
(***************************************************************************)
(* Proofs of the implementation graph and of the composition the run       *)
(* checks:                                                                 *)
(*   - the graph archives only what was agreed to, and its corrections     *)
(*     come to an end, for every set of candidates, every limit of         *)
(*     attempts and every policy;                                          *)
(*   - what Verification_proofs and WorkflowRun_proofs prove of the        *)
(*     verify node and of the legacy engine holds in the composition: each *)
(*     step belongs to one component and leaves the others alone, and the  *)
(*     plan and the workflow of the instances are what the proofs assume;  *)
(*   - a tool loop shows no text twice without another in between and     *)
(*     tells its model before it gives up (GuardedLoop);                   *)
(*   - the results of sub-agents reach the agent (Delegation), the tasks   *)
(*     of a developer are accounted for (CompactDeveloper) and the outcome *)
(*     of a request is what happened (AgentProcess). Their steps are       *)
(*     proved of the instances, of any values for their parameters, and    *)
(*     what they assume of those is shown at the end.                      *)
(***************************************************************************)
EXTENDS MCAgents, FiniteSetTheorems, SequenceTheorems, WellFoundedInduction, TLAPS

\* A run that works was not stopped for anything, and no visit exceeded its budget.
RunsClean ==
  status = "running" =>
    /\ reason = "none"
    /\ \A n \in Implementers : visits[n] <= Limit(n)

\* The visits are counted, one more than the budget at most.
VisitsCounted ==
  /\ visits \in [Implementers -> Nat]
  /\ \A n \in Implementers : visits[n] <= Limit(n) + 1

\* Whoever waits for an approval was shown a candidate.
AskedShown == reason = "approval" => shown \in Candidate

GraphInv == CoreTypeOK /\ VisitsCounted /\ RunsClean /\ AskedShown

\* The constants as the steps need them.
LEMMA GraphFacts ==
  /\ Attempts \in Nat \ {0}
  /\ MaxTransitions \in Nat
  /\ \A n \in Implementers : Limit(n) \in Nat
  /\ Limit("developer") = Attempts * (IF Compact THEN 2 ELSE 1)
  /\ Limit("fixer") = Attempts
  /\ Implementers = {"developer", "fixer"}
  /\ ToSet(Core) = {"architect", "developer", "fixer", "verify", "reviewer", "archive"}
<1>1. MaxTransitions \in Nat
  BY CoreAssumption DEF MaxTransitions
<1>2. /\ Limit("developer") = Attempts * (IF Compact THEN 2 ELSE 1)
      /\ Limit("fixer") = Attempts
  BY CoreAssumption DEF Limit
<1>3. Limit("developer") \in Nat /\ Limit("fixer") \in Nat
  BY CoreAssumption DEF Limit
<1>4. /\ DOMAIN Core = 1..6
      /\ Core[1] = "architect" /\ Core[2] = "developer" /\ Core[3] = "fixer"
      /\ Core[4] = "verify" /\ Core[5] = "reviewer" /\ Core[6] = "archive"
  BY DEF Core
<1>5. ToSet(Core) = {Core[i] : i \in 1..6}
  BY <1>4 DEF ToSet
<1>6. 1..6 = {1, 2, 3, 4, 5, 6}
  OBVIOUS
<1>7. ToSet(Core) = {"architect", "developer", "fixer", "verify", "reviewer", "archive"}
  BY <1>4, <1>5, <1>6
<1> QED
  BY CoreAssumption, <1>1, <1>2, <1>3, <1>7 DEF Implementers

\* The initial state satisfies the invariant.
LEMMA GraphInit == Init => GraphInv
<1> SUFFICES ASSUME Init PROVE GraphInv
  OBVIOUS
<1>1. visits \in [Implementers -> Nat] /\ visits.developer = 0 /\ visits.fixer = 0
  BY DEF Init, Implementers
<1>2. \A n \in Implementers : visits[n] = 0
  BY <1>1 DEF Implementers
<1>3. recent \in Seq(Outcome)
  BY DEF Init
<1>4. CoreTypeOK
  BY <1>1, <1>3, GraphFacts, CoreAssumption DEF CoreTypeOK, Init
<1> QED
  BY <1>1, <1>2, <1>4, GraphFacts DEF GraphInv, VisitsCounted, RunsClean, AskedShown, Init

\* Every step keeps it.
LEMMA GraphNext == GraphInv /\ [Next]_vars => GraphInv'
<1> SUFFICES ASSUME GraphInv, [Next]_vars PROVE GraphInv'
  OBVIOUS
<1> USE GraphFacts
<1>1. ASSUME UNCHANGED vars PROVE GraphInv'
  BY <1>1 DEF GraphInv, CoreTypeOK, VisitsCounted, RunsClean, AskedShown, vars, progress, tree, evidence, budget, host
<1>2. CASE TransitionLimit
  BY <1>2 DEF GraphInv, CoreTypeOK, VisitsCounted, RunsClean, AskedShown, tree, evidence, budget, host, TransitionLimit, Stop
<1>3. ASSUME NEW n \in ToSet(Core), NEW s \in {"blocked", "failed"}, NEW c \in Candidate, RoleFails(n, s, c)
      PROVE  GraphInv'
  BY <1>3 DEF GraphInv, CoreTypeOK, VisitsCounted, RunsClean, AskedShown, evidence, host, RoleFails, Visit, Stop
<1>4. ASSUME NEW confidence \in {"clear", "low"}, NEW asks \in BOOLEAN, Architect(confidence, asks)
      PROVE  GraphInv'
  BY <1>4 DEF GraphInv, CoreTypeOK, VisitsCounted, RunsClean, AskedShown, tree, evidence, host, Architect, Visit, Stop, GoTo
<1>5. ASSUME NEW n \in Implementers, OverLimit(n) PROVE GraphInv'
  BY <1>5 DEF GraphInv, CoreTypeOK, VisitsCounted, RunsClean, AskedShown, tree, evidence, host, OverLimit, Visit, Stop
<1>6. ASSUME NEW n \in Implementers, NEW c \in Candidate, NEW o \in BOOLEAN, Implement(n, c, o)
      PROVE  GraphInv'
  BY <1>6 DEF GraphInv, CoreTypeOK, VisitsCounted, RunsClean, AskedShown, evidence, host, Implement, Visit, GoTo
<1>7. CASE ReturnOpen \/ Unchanged \/ DisputeEnds
  BY <1>7 DEF GraphInv, CoreTypeOK, VisitsCounted, RunsClean, AskedShown, tree, evidence, host,
             ReturnOpen, Unchanged, DisputeEnds, Visit, Stop, GoTo
<1>8. CASE ReuseEvidence
  BY <1>8 DEF GraphInv, CoreTypeOK, VisitsCounted, RunsClean, AskedShown, tree, host, ReuseEvidence, Disputed, Last, Visit, GoTo
<1>9. ASSUME NEW c \in Candidate, NEW s \in Signature, NEW contradicted \in BOOLEAN,
             VerifyFails(c, s, contradicted)
      PROVE  GraphInv'
  <2>1. [candidate |-> c, passed |-> FALSE, signature |-> s] \in Outcome
    BY DEF Outcome
  <2>2. recent' \in Seq(Outcome)
    BY <1>9, <2>1 DEF GraphInv, CoreTypeOK, VerifyFails
  <2>3. receipt' \in Candidate \union {None}
    BY <1>9 DEF VerifyFails
  <2>4. CASE Diverges(c, s)
    BY <1>9, <2>2, <2>3, <2>4
       DEF GraphInv, CoreTypeOK, VisitsCounted, RunsClean, AskedShown, host, VerifyFails, Runs, Visit, Stop
  <2>5. CASE ~Diverges(c, s)
    BY <1>9, <2>2, <2>3, <2>5
       DEF GraphInv, CoreTypeOK, VisitsCounted, RunsClean, AskedShown, host, VerifyFails, Runs, Visit, GoTo
  <2> QED BY <2>4, <2>5
<1>10. ASSUME NEW c \in Candidate, HostBlocks(c) PROVE GraphInv'
  BY <1>10 DEF GraphInv, CoreTypeOK, VisitsCounted, RunsClean, AskedShown, host, HostBlocks, Runs, Visit, Stop
<1>11. ASSUME NEW c \in Candidate, VerifyPasses(c) PROVE GraphInv'
  BY <1>11 DEF GraphInv, CoreTypeOK, VisitsCounted, RunsClean, AskedShown, Outcome, host, VerifyPasses, Runs, Visit, GoTo
<1>12. ASSUME NEW c \in Candidate, Edit(c) PROVE GraphInv'
  BY <1>12 DEF GraphInv, CoreTypeOK, VisitsCounted, RunsClean, AskedShown, progress, evidence, budget, host, Edit, Stopped
<1>13. ASSUME NEW verdict \in {"rejected", "approved"}, NEW c \in Candidate, Reviewer(verdict, c)
       PROVE  GraphInv'
  BY <1>13 DEF GraphInv, CoreTypeOK, VisitsCounted, RunsClean, AskedShown, evidence, host, Reviewer, Visit, GoTo
<1>14. CASE AskApproval
  BY <1>14 DEF GraphInv, CoreTypeOK, VisitsCounted, RunsClean, AskedShown, tree, evidence, AskApproval, Visit, Stop
<1>15. CASE Archive
  BY <1>15 DEF GraphInv, CoreTypeOK, VisitsCounted, RunsClean, AskedShown, tree, evidence, host, Archive, Visit
<1>16. ASSUME NEW answers \in BOOLEAN, Resume(answers) PROVE GraphInv'
  BY <1>16 DEF GraphInv, CoreTypeOK, VisitsCounted, RunsClean, AskedShown, tree, Resume, ResumesAt, Stopped
<1> QED
  BY <1>1, <1>2, <1>3, <1>4, <1>5, <1>6, <1>7, <1>8, <1>9, <1>10, <1>11, <1>12, <1>13, <1>14, <1>15, <1>16
     DEF Next

\* Every graph keeps its type and its budgets.
THEOREM GraphTypeCorrect == Spec => []CoreTypeOK
<1>1. GraphInv => CoreTypeOK
  BY DEF GraphInv
<1> QED
  BY <1>1, GraphInit, GraphNext, PTL DEF Spec

-----------------------------------------------------------------------------
(* What is archived was agreed to. *)

\* A round that passed last is the verification that passed last.
LastPassed == recent # <<>> /\ Last(recent).passed => verified = Last(recent).candidate

\* Behind the verification, the valid receipt is of what passed.
ReceiptPassedLast == at \in {"reviewer", "archive"} => receipt = verified

\* The archive works on the candidate of the receipt.
ArchivesReceipt == at = "archive" /\ status = "running" => receipt = candidate

\* The host is asked about the candidate of the receipt, and consents to what it was asked about.
AskedAboutReceipt == reason = "approval" => at = "archive" /\ shown = receipt
ConsentGranted == consent = None \/ consent \in granted

AgreedInv ==
  /\ LastPassed /\ ReceiptPassedLast /\ ArchivesReceipt /\ AskedAboutReceipt /\ ConsentGranted
  /\ ArchivedAsAgreed

\* The initial state satisfies it.
LEMMA AgreedInit == Init => AgreedInv
BY DEF Init, AgreedInv, LastPassed, ReceiptPassedLast, ArchivesReceipt, AskedAboutReceipt, ConsentGranted,
       ArchivedAsAgreed

\* Every step keeps it.
LEMMA AgreedNext == GraphInv /\ AgreedInv /\ [Next]_vars => AgreedInv'
<1> SUFFICES ASSUME GraphInv, AgreedInv, [Next]_vars PROVE AgreedInv'
  OBVIOUS
<1> USE GraphFacts DEF AgreedInv, LastPassed, ReceiptPassedLast, ArchivesReceipt, AskedAboutReceipt,
                       ConsentGranted, ArchivedAsAgreed
<1>1. ASSUME UNCHANGED vars PROVE AgreedInv'
  BY <1>1 DEF vars, progress, tree, evidence, budget, host
<1>2. CASE TransitionLimit
  BY <1>2 DEF tree, evidence, budget, host, TransitionLimit, Stop
<1>3. ASSUME NEW n \in ToSet(Core), NEW s \in {"blocked", "failed"}, NEW c \in Candidate, RoleFails(n, s, c)
      PROVE  AgreedInv'
  BY <1>3 DEF evidence, host, RoleFails, Visit, Stop
<1>4. ASSUME NEW confidence \in {"clear", "low"}, NEW asks \in BOOLEAN, Architect(confidence, asks)
      PROVE  AgreedInv'
  BY <1>4 DEF GraphInv, RunsClean, tree, evidence, host, Architect, Visit, Stop, GoTo
<1>5. ASSUME NEW n \in Implementers, OverLimit(n) PROVE AgreedInv'
  BY <1>5 DEF tree, evidence, host, OverLimit, Visit, Stop
<1>6. ASSUME NEW n \in Implementers, NEW c \in Candidate, NEW o \in BOOLEAN, Implement(n, c, o)
      PROVE  AgreedInv'
  BY <1>6 DEF GraphInv, RunsClean, evidence, host, Implement, Visit, GoTo
<1>7. CASE ReturnOpen \/ Unchanged \/ DisputeEnds
  BY <1>7 DEF GraphInv, RunsClean, tree, evidence, host, ReturnOpen, Unchanged, DisputeEnds, Visit, Stop, GoTo
<1>8. CASE ReuseEvidence
  <2>1. recent' # <<>> /\ Last(recent') = Last(recent)
    BY <1>8 DEF GraphInv, CoreTypeOK, ReuseEvidence, Last
  <2>2. recent # <<>> /\ Last(recent).passed /\ Last(recent).candidate = candidate /\ receipt = candidate
    BY <1>8 DEF ReuseEvidence, Disputed
  <2> QED
    BY <1>8, <2>1, <2>2 DEF GraphInv, RunsClean, tree, host, ReuseEvidence, Visit, GoTo
<1>9. ASSUME NEW c \in Candidate, NEW s \in Signature, NEW contradicted \in BOOLEAN,
             VerifyFails(c, s, contradicted)
      PROVE  AgreedInv'
  <2>1. CASE Diverges(c, s)
    BY <1>9, <2>1 DEF host, VerifyFails, Runs, Visit, Stop
  <2>2. CASE ~Diverges(c, s)
    <3>1. ~Last(recent').passed
      BY <1>9, <2>2 DEF GraphInv, CoreTypeOK, VerifyFails, Last
    <3> QED
      BY <1>9, <2>2, <3>1 DEF GraphInv, RunsClean, host, VerifyFails, Runs, Visit, GoTo
  <2> QED BY <2>1, <2>2
<1>10. ASSUME NEW c \in Candidate, HostBlocks(c) PROVE AgreedInv'
  BY <1>10 DEF host, HostBlocks, Runs, Visit, Stop
<1>11. ASSUME NEW c \in Candidate, VerifyPasses(c) PROVE AgreedInv'
  <2>1. Last(recent').candidate = c
    BY <1>11 DEF GraphInv, CoreTypeOK, VerifyPasses, Last
  <2> QED
    BY <1>11, <2>1 DEF GraphInv, RunsClean, host, VerifyPasses, Runs, Visit, GoTo
<1>12. ASSUME NEW c \in Candidate, Edit(c) PROVE AgreedInv'
  BY <1>12 DEF GraphInv, CoreTypeOK, progress, evidence, budget, host, Edit, Stopped
<1>13. ASSUME NEW verdict \in {"rejected", "approved"}, NEW c \in Candidate, Reviewer(verdict, c)
       PROVE  AgreedInv'
  BY <1>13 DEF GraphInv, RunsClean, evidence, host, Reviewer, Visit, GoTo
<1>14. CASE AskApproval
  BY <1>14 DEF tree, evidence, AskApproval, Visit, Stop
<1>15. CASE Archive
  <2>1. candidate # None
    BY CoreAssumption DEF GraphInv, CoreTypeOK
  <2> QED
    BY <1>15, <2>1 DEF tree, evidence, host, Archive, Visit, Consented
<1>16. ASSUME NEW answers \in BOOLEAN, Resume(answers) PROVE AgreedInv'
  BY <1>16 DEF GraphInv, CoreTypeOK, tree, Resume, ResumesAt, Stopped
<1> QED
  BY <1>1, <1>2, <1>3, <1>4, <1>5, <1>6, <1>7, <1>8, <1>9, <1>10, <1>11, <1>12, <1>13, <1>14, <1>15, <1>16
     DEF Next

\* What is archived passed its last verification, was approved by the reviewer and, where the
\* policy asks, by a host that was shown this very candidate, whoever edits it between two calls.
THEOREM ArchiveAgreed == Spec => []ArchivedAsAgreed
<1>1. AgreedInv => ArchivedAsAgreed
  BY DEF AgreedInv
<1> QED
  BY <1>1, GraphInit, GraphNext, AgreedInit, AgreedNext, PTL DEF Spec

-----------------------------------------------------------------------------
(* The corrections come to an end. *)

\* Two rounds at the end of recent that failed alike are counted as such.
LEMMA RepeatsTwice ==
  ASSUME recent \in Seq(Outcome), Len(recent) >= 2, NEW s,
         \A j \in (Len(recent) - 1)..Len(recent) : ~recent[j].passed /\ recent[j].signature = s
  PROVE  Repeats(s) >= 2
<1> DEFINE alike == {i \in DOMAIN recent : \A j \in i..Len(recent) : ~recent[j].passed /\ recent[j].signature = s}
           last == Len(recent)
<1>0. last \in Nat /\ last = Len(recent)
  OBVIOUS
<1>1. last \in Nat /\ last - 1 # last /\ last - 1 \in 1..last /\ last \in 1..last /\ DOMAIN recent = 1..last
  OBVIOUS
<1> HIDE DEF last
<1>2. {last - 1, last} \subseteq alike
  BY <1>0, <1>1
<1>3. IsFiniteSet(alike)
  <2>1. IsFiniteSet(1..last)
    BY <1>1, FS_Interval
  <2> QED
    BY <1>1, <2>1, FS_Subset
<1>4. Cardinality({last - 1, last}) = 2
  <2>2. IsFiniteSet({last - 1}) /\ Cardinality({last - 1}) = 1
    BY FS_Singleton
  <2>3. Cardinality({last - 1} \union {last}) = 2
    <3>1. last \notin {last - 1}
      BY <1>1
    <3>2. Cardinality({last - 1} \union {last}) = Cardinality({last - 1}) + 1
      BY <2>2, <3>1, FS_AddElement
    <3> QED BY <2>2, <3>2
  <2>4. {last - 1} \union {last} = {last - 1, last}
    OBVIOUS
  <2> QED BY <2>3, <2>4
<1>5. Cardinality({last - 1, last}) <= Cardinality(alike)
  BY <1>2, <1>3, FS_Subset
<1>6. Cardinality(alike) \in Nat
  BY <1>3, FS_CardinalityType
<1>7. Repeats(s) = Cardinality(alike)
  BY DEF Repeats
<1> HIDE DEF alike
<1> QED
  BY <1>4, <1>5, <1>6, <1>7

\* A round that fails unlike any before keeps the rounds apart.
LEMMA FailureApart ==
  ASSUME recent \in Seq(Outcome), Converges, NEW c \in Candidate, NEW s \in Signature, ~Diverges(c, s),
         recent' = Append(recent, [candidate |-> c, passed |-> FALSE, signature |-> s])
  PROVE  Converges'
<1> DEFINE n == Len(recent)
           new == [candidate |-> c, passed |-> FALSE, signature |-> s]
<1>0. n \in Nat /\ n = Len(recent)
  OBVIOUS
<1>1. /\ n \in Nat /\ n = Len(recent) /\ DOMAIN recent = 1..n /\ DOMAIN recent' = 1..(n + 1) /\ Len(recent') = n + 1
      /\ \A i \in 1..n : recent'[i] = recent[i]
      /\ recent'[n + 1] = new
  OBVIOUS
<1> HIDE DEF n
<1>2. \A i \in 1..n : ~recent[i].passed => recent[i].candidate # c
  BY <1>1 DEF Diverges
<1>3. \A i, j \in DOMAIN recent' :
        i < j /\ ~recent'[i].passed /\ ~recent'[j].passed => recent'[i].candidate # recent'[j].candidate
  <2> SUFFICES ASSUME NEW i \in 1..(n + 1), NEW j \in 1..(n + 1), i < j, ~recent'[i].passed, ~recent'[j].passed
               PROVE  recent'[i].candidate # recent'[j].candidate
    BY <1>1
  <2>1. i \in 1..n /\ recent'[i] = recent[i]
    BY <1>1
  <2>2. CASE j \in 1..n
    <3>1. recent'[j] = recent[j]
      BY <1>1, <2>2
    <3>2. \A k, l \in 1..n : k < l /\ ~recent[k].passed /\ ~recent[l].passed => recent[k].candidate # recent[l].candidate
      <4>1. \A k, l \in DOMAIN recent : k < l /\ ~recent[k].passed /\ ~recent[l].passed => recent[k].candidate # recent[l].candidate
        BY ZenonT(20) DEF Converges
      <4>2. DOMAIN recent = 1..n
        BY <1>1
      <4> QED BY <4>1, <4>2, ZenonT(20)
    <3> QED BY <2>1, <2>2, <3>1, <3>2
  <2>3. CASE j = n + 1
    BY <1>1, <1>2, <2>1, <2>3
  <2> QED BY <1>0, <2>2, <2>3
<1>4. \A i \in 1..(Len(recent') - 2) :
        ~ \A j \in i..(i + 2) : ~recent'[j].passed /\ recent'[j].signature = recent'[i].signature
  <2> SUFFICES ASSUME NEW i \in 1..(n - 1),
                      \A j \in i..(i + 2) : ~recent'[j].passed /\ recent'[j].signature = recent'[i].signature
               PROVE  FALSE
    BY <1>1
  <2>1. CASE i <= n - 2
    <3>1. i \in 1..(n - 2) /\ \A j \in i..(i + 2) : j \in 1..n
      BY <1>1, <2>1
    <3>2. \A j \in i..(i + 2) : ~recent[j].passed /\ recent[j].signature = recent[i].signature
      BY <1>1, <3>1
    <3> QED
      BY <1>1, <3>1, <3>2 DEF Converges
  <2>2. CASE i = n - 1
    <3>1. n + 1 \in i..(i + 2) /\ n \in i..(i + 2) /\ n - 1 \in i..(i + 2) /\ n >= 2 /\ n - 1 \in 1..n /\ n \in 1..n
      BY <1>1, <2>2
    <3>2. recent'[n + 1].signature = s
      BY <1>1
    <3>3. recent'[n - 1].signature = s /\ ~recent'[n - 1].passed /\ recent'[n].signature = s /\ ~recent'[n].passed
      BY <2>2, <3>1, <3>2
    <3>4. \A j \in (n - 1)..n : ~recent[j].passed /\ recent[j].signature = s
      <4>1. \A j \in (n - 1)..n : j = n - 1 \/ j = n
        BY <1>0
      <4> QED BY <1>1, <3>1, <3>3, <4>1
    <3>5. Repeats(s) >= 2
      BY <1>0, <3>1, <3>4, RepeatsTwice
    <3> QED
      BY <3>5 DEF Diverges
  <2> QED
    BY <1>1, <2>1, <2>2
<1> QED
  BY <1>3, <1>4 DEF Converges

\* A round that passes keeps the failures apart.
LEMMA PassApart ==
  ASSUME recent \in Seq(Outcome), Converges, NEW o, o.passed, recent' = Append(recent, o)
  PROVE  Converges'
<1> DEFINE n == Len(recent)
<1>0. n \in Nat /\ n = Len(recent)
  OBVIOUS
<1>1. /\ n \in Nat /\ n = Len(recent) /\ DOMAIN recent = 1..n /\ DOMAIN recent' = 1..(n + 1) /\ Len(recent') = n + 1
      /\ \A i \in 1..n : recent'[i] = recent[i]
      /\ recent'[n + 1] = o
  OBVIOUS
<1> HIDE DEF n
<1>2. \A i, j \in DOMAIN recent' :
        i < j /\ ~recent'[i].passed /\ ~recent'[j].passed => recent'[i].candidate # recent'[j].candidate
  <2> SUFFICES ASSUME NEW i \in 1..(n + 1), NEW j \in 1..(n + 1), i < j, ~recent'[i].passed, ~recent'[j].passed
               PROVE  recent'[i].candidate # recent'[j].candidate
    BY <1>1
  <2>1. i \in 1..n /\ j \in 1..n
    BY <1>1
  <2> QED
    BY <1>1, <2>1 DEF Converges
<1>3. \A i \in 1..(Len(recent') - 2) :
        ~ \A j \in i..(i + 2) : ~recent'[j].passed /\ recent'[j].signature = recent'[i].signature
  <2> SUFFICES ASSUME NEW i \in 1..(n - 1),
                      \A j \in i..(i + 2) : ~recent'[j].passed /\ recent'[j].signature = recent'[i].signature
               PROVE  FALSE
    <3>1. Len(recent') - 2 = n - 1
      BY <1>0, <1>1
    <3> QED BY <3>1
  <2>1. i # n - 1
    <3>1. CASE i = n - 1
      <4>1. n + 1 \in i..(i + 2)
        BY <1>1, <3>1
      <4> QED BY <1>1, <4>1
    <3> QED BY <3>1
  <2>2. i \in 1..(n - 2) /\ \A j \in i..(i + 2) : j \in 1..n
    BY <1>1, <2>1
  <2>3. \A j \in i..(i + 2) : ~recent[j].passed /\ recent[j].signature = recent[i].signature
    BY <1>1, <2>2
  <2> QED
    BY <1>1, <2>2, <2>3 DEF Converges
<1> QED
  BY <1>2, <1>3 DEF Converges

\* Every step keeps the rounds apart.
LEMMA ConvergesNext == GraphInv /\ Converges /\ [Next]_vars => Converges'
<1> SUFFICES ASSUME GraphInv, Converges, [Next]_vars PROVE Converges'
  OBVIOUS
<1>0. recent \in Seq(Outcome)
  BY DEF GraphInv, CoreTypeOK
<1>1. CASE UNCHANGED recent
  BY <1>1 DEF Converges
<1>2. ASSUME NEW c \in Candidate, NEW s \in Signature, NEW contradicted \in BOOLEAN,
             VerifyFails(c, s, contradicted)
      PROVE  Converges'
  <2>1. CASE Diverges(c, s)
    BY <1>1, <1>2, <2>1 DEF VerifyFails
  <2>2. CASE ~Diverges(c, s)
    BY <1>0, <1>2, <2>2, FailureApart DEF VerifyFails
  <2> QED BY <2>1, <2>2
<1>3. ASSUME NEW c \in Candidate, VerifyPasses(c) PROVE Converges'
  BY <1>0, <1>3, PassApart DEF VerifyPasses
<1>4. CASE ReuseEvidence
  BY <1>0, <1>4, PassApart DEF ReuseEvidence, Disputed
<1>5. ASSUME NEW answers \in BOOLEAN, Resume(answers) PROVE Converges'
  BY <1>5 DEF Resume, Converges
<1> QED
  BY <1>1, <1>2, <1>3, <1>4, <1>5
     DEF Next, vars, evidence, TransitionLimit, RoleFails, Architect, OverLimit, Implement, ReturnOpen,
         Unchanged, DisputeEnds, HostBlocks, Edit, Reviewer, AskApproval, Archive

\* Within a call no round comes back to a candidate that failed, and no failure survives a third
\* round, however the agents edit and whatever the commands report.
THEOREM CorrectionConverges == Spec => []Converges
<1>1. Init => Converges
  BY DEF Init, Converges
<1> QED
  BY <1>1, GraphInit, GraphNext, ConvergesNext, PTL DEF Spec

-----------------------------------------------------------------------------
(* The composition. *)

agentsVars == <<component, vars, toolLoop, developer, delegation, provider, verification, legacy>>

\* The verify node of the run: one setup command and three checks.
LEMMA ChecksAssumed ==
  ASSUME None \notin Checks!Proof
  PROVE  Checks!VerificationAssumption
<1>1. 1 \in Nat /\ 3 \in Nat /\ Checks!All = {1, 2, 3}
  BY DEF Checks!All
<1>2. MCFailures \in [Checks!All -> SUBSET Checks!Exits]
  BY <1>1 DEF MCFailures, Checks!Exits
<1> QED
  BY <1>1, <1>2 DEF Checks!VerificationAssumption

\* The workflow of the run: plan, developer and reviewer, three steps besides its end.
LEMMA LegacyAssumed ==
  ASSUME leave \notin MCNode, None \notin MCNode \union {leave},
         None \notin Legacy!Ledger, None \notin [node : {plan}, granted : BOOLEAN]
  PROVE  Legacy!WorkflowAssumption
<1>1. plan \in MCNode /\ {plan} \subseteq MCNode /\ MCNode = {plan, dev, rev}
  BY DEF MCNode
<1>2. MCEnds \in [MCNode -> SUBSET MCNode]
  BY <1>1 DEF MCEnds
<1>3. MCOrder \in Seq(MCNode) /\ \A n \in MCNode : \E i \in DOMAIN MCOrder : MCOrder[i] = n
  <2>1. MCOrder[1] = plan /\ MCOrder[2] = dev /\ MCOrder[3] = rev /\ DOMAIN MCOrder = 1..3
    BY DEF MCOrder
  <2>2. MCOrder \in Seq(MCNode)
    BY <1>1 DEF MCOrder
  <2>3. 1 \in 1..3 /\ 2 \in 1..3 /\ 3 \in 1..3
    OBVIOUS
  <2> QED BY <1>1, <2>1, <2>2, <2>3
<1>4. MCInvalidable \subseteq SUBSET MCNode
  BY DEF MCInvalidable
<1>5. 2 \in Nat \ {0} /\ 4 \in Nat /\ 2 \in Nat
  OBVIOUS
<1> QED
  BY <1>1, <1>2, <1>3, <1>4, <1>5 DEF Legacy!WorkflowAssumption

ChecksInv == component = "verification" => Checks!VisitInv
LegacyInv == component = "legacy" => Legacy!WorkflowInv

LEMMA ChecksInit == Checks!VerificationAssumption /\ AgentsInit => ChecksInv
<1>1. AgentsInit => (component = "verification" => Checks!Init)
  BY DEF AgentsInit
<1> QED BY <1>1, Checks!VisitInit DEF ChecksInv

LEMMA ChecksNext == Checks!VerificationAssumption /\ ChecksInv /\ [AgentsNext]_agentsVars => ChecksInv'
<1> SUFFICES ASSUME Checks!VerificationAssumption, ChecksInv, [AgentsNext]_agentsVars PROVE ChecksInv'
  OBVIOUS
<1>1. UNCHANGED component
  BY DEF AgentsNext, agentsVars
<1>2. CASE component = "verification"
  <2>1. [Checks!Next]_(Checks!vars)
    BY <1>2 DEF AgentsNext, agentsVars, verification, Checks!vars, Checks!visit, Checks!process, Checks!verdict
  <2> QED BY <1>1, <1>2, <2>1, Checks!VisitNext DEF ChecksInv
<1> QED BY <1>1, <1>2 DEF ChecksInv

LEMMA LegacyInit == Legacy!WorkflowAssumption /\ AgentsInit => LegacyInv
<1>1. AgentsInit => (component = "legacy" => Legacy!Init)
  BY DEF AgentsInit
<1> QED BY <1>1, Legacy!WorkflowInit DEF LegacyInv

LEMMA LegacyNext == Legacy!WorkflowAssumption /\ LegacyInv /\ [AgentsNext]_agentsVars => LegacyInv'
<1> SUFFICES ASSUME Legacy!WorkflowAssumption, LegacyInv, [AgentsNext]_agentsVars PROVE LegacyInv'
  OBVIOUS
<1>1. UNCHANGED component
  BY DEF AgentsNext, agentsVars
<1>2. CASE component = "legacy"
  <2>1. [Legacy!Next]_(Legacy!vars)
    BY <1>2 DEF AgentsNext, agentsVars, legacy, Legacy!vars, Legacy!durable, Legacy!call
  <2> QED BY <1>1, <1>2, <2>1, Legacy!WorkflowNext DEF LegacyInv
<1> QED BY <1>1, <1>2 DEF LegacyInv

\* The graph of a composition is absent or as it is by itself.
AgentsGraph ==
  IF component = "core" THEN GraphInv /\ AgreedInv /\ Converges ELSE at = None /\ recent = <<>>

LEMMA AgentsGraphKept ==
  /\ AgentsInit => AgentsGraph
  /\ AgentsGraph /\ [AgentsNext]_agentsVars => AgentsGraph'
<1>1. AgentsInit => AgentsGraph
  <2> SUFFICES ASSUME AgentsInit PROVE AgentsGraph
    OBVIOUS
  <2>1. CASE component = "core"
    <3>1. Init
      BY <2>1 DEF AgentsInit
    <3>2. Converges
      BY <3>1 DEF Init, Converges
    <3> QED BY <2>1, <3>1, <3>2, GraphInit, AgreedInit DEF AgentsGraph
  <2>2. CASE component # "core"
    BY <2>2 DEF AgentsInit, NoCore, AgentsGraph
  <2> QED BY <2>1, <2>2
<1>2. ASSUME AgentsGraph, [AgentsNext]_agentsVars PROVE AgentsGraph'
  <2>1. component' = component
    BY <1>2 DEF AgentsNext, agentsVars
  <2>2. CASE component = "core"
    <3>1. [Next]_vars
      BY <1>2, <2>2 DEF AgentsNext, agentsVars
    <3>2. GraphInv /\ AgreedInv /\ Converges
      BY <1>2, <2>2 DEF AgentsGraph
    <3> QED BY <2>1, <2>2, <3>1, <3>2, GraphNext, AgreedNext, ConvergesNext DEF AgentsGraph
  <2>3. CASE component # "core"
    <3>1. UNCHANGED vars
      BY <1>2, <2>3 DEF AgentsNext, agentsVars
    <3>2. at' = at /\ recent' = recent
      BY <3>1 DEF vars, progress, tree, evidence, budget, host
    <3> QED BY <1>2, <2>1, <2>3, <3>2 DEF AgentsGraph
  <2> QED BY <2>2, <2>3
<1> QED BY <1>1, <1>2

\* The graph of the composition archives only what was verified last, approved and agreed to.
THEOREM AgentsArchive ==
  ASSUME None # "end"
  PROVE  AgentsSpec => []ArchivedAsAgreed
<1>1. AgentsGraph => ArchivedAsAgreed
  BY DEF AgentsGraph, AgreedInv, ArchivedAsAgreed
<1> QED BY <1>1, AgentsGraphKept, PTL DEF AgentsSpec, agentsVars

\* The corrections of the composition's graph come to an end.
THEOREM AgentsConverge == AgentsSpec => []Converges
<1>1. AgentsGraph => Converges
  BY DEF AgentsGraph, Converges
<1> QED BY <1>1, AgentsGraphKept, PTL DEF AgentsSpec, agentsVars

\* What the verify node calls verified, every check has passed on.
THEOREM AgentsVerify ==
  ASSUME None \notin Checks!Proof
  PROVE  AgentsSpec => []VerifiedOnEvidence
<1>1. Checks!VerificationAssumption
  BY ChecksAssumed
<1>2. ChecksInv => VerifiedOnEvidence
  BY DEF ChecksInv, Checks!VisitInv, VerifiedOnEvidence
<1>3. AgentsInit => ChecksInv
  BY <1>1, ChecksInit
<1>4. ChecksInv /\ [AgentsNext]_agentsVars => ChecksInv'
  BY <1>1, ChecksNext
<1> QED BY <1>2, <1>3, <1>4, PTL DEF AgentsSpec, agentsVars

\* The legacy engine runs no write again that a crash or a cancellation cut short and that nobody
\* has recovered.
THEOREM AgentsResumeSafely ==
  ASSUME leave \notin MCNode, None \notin MCNode \union {leave},
         None \notin Legacy!Ledger, None \notin [node : {plan}, granted : BOOLEAN]
  PROVE  AgentsSpec => []NoBlindRewrite
<1>1. Legacy!WorkflowAssumption
  BY LegacyAssumed
<1>2. LegacyInv => NoBlindRewrite
  BY Legacy!RunsSafely DEF LegacyInv, NoBlindRewrite
<1>3. AgentsInit => LegacyInv
  BY <1>1, LegacyInit
<1>4. LegacyInv /\ [AgentsNext]_agentsVars => LegacyInv'
  BY <1>1, LegacyNext
<1> QED BY <1>2, <1>3, <1>4, PTL DEF AgentsSpec, agentsVars

\* A call enters no step but the one its ledger names, whatever the checkpoints lost or kept.
THEOREM AgentsFollowLedger ==
  ASSUME leave \notin MCNode, None \notin MCNode \union {leave},
         None \notin Legacy!Ledger, None \notin [node : {plan}, granted : BOOLEAN]
  PROVE  AgentsSpec => []FollowsLedger
<1>1. Legacy!WorkflowAssumption
  BY LegacyAssumed
<1>2. LegacyInv => FollowsLedger
  BY Legacy!RunsSafely DEF LegacyInv, FollowsLedger
<1>3. AgentsInit => LegacyInv
  BY <1>1, LegacyInit
<1>4. LegacyInv /\ [AgentsNext]_agentsVars => LegacyInv'
  BY <1>1, LegacyNext
<1> QED BY <1>2, <1>3, <1>4, PTL DEF AgentsSpec, agentsVars

-----------------------------------------------------------------------------
(* The sub-agents of a session (Delegation). *)

\* The null value is no outcome and no call, and no child is the name of a call.
DelegationAssumption ==
  /\ None \notin Delegates!Status \union {"absent", "close", "retire"}
  /\ MCChild \intersect {"stop", "close", "retire"} = {}

\* While the parent is open its tree and the coordinator agree on every child, until the
\* coordinator forgets them.
TreeSound ==
  /\ outcome \in [MCChild -> Delegates!Status \union {"absent", None}]
  /\ node = [c \in MCChild |-> node[c]]
  /\ parent.open =>
       \A c \in MCChild :
         /\ outcome[c] = None => node[c] = "running"
         /\ outcome[c] \in Delegates!Status => node[c] = outcome[c]
         /\ outcome[c] = "absent" /\ lock # "retire" => node[c] = "none"

\* Where the result of a child may be, unless a wait returned it.
Places == results \union Delegates!Sent \union injected \union lost

Finished == {c \in MCChild : node[c] \in Delegates!Status}

\* What ended is in one place or was returned, and nothing else is.
ResultsSound ==
  /\ Delegates!SentOnce
  /\ Places \subseteq Finished
  /\ \A c \in MCChild : node[c] \in Delegates!Status \ {"silent"} => c \in Places \union returned
  /\ parent.open => returned \subseteq Finished /\ results \intersect returned = {}

WaitsSound ==
  /\ waits = [w \in MCWaiter |-> waits[w]]
  /\ parent.open =>
       \A w \in MCWaiter :
         waits[w] # None => waits[w] \subseteq Delegates!Known /\ waits[w] \intersect Delegates!Running # {}

\* Nothing runs any more once the children of a closing parent were stopped.
ClosingSound == lock \in {"close", "retire"} => Delegates!Running = {}

ParentShape ==
  parent = [open |-> parent.open, turn |-> parent.turn, closing |-> parent.closing, cut |-> parent.cut,
            handoffs |-> parent.handoffs]

DelegationInv == ParentShape /\ TreeSound /\ ResultsSound /\ WaitsSound /\ ClosingSound

LEMMA DelegationInit == DelegationAssumption /\ Delegates!Init => DelegationInv
<1> SUFFICES ASSUME DelegationAssumption, Delegates!Init PROVE DelegationInv
  OBVIOUS
<1>1. TreeSound
  BY DEF Delegates!Init, TreeSound, DelegationAssumption, Delegates!Status
<1>2. ResultsSound
  <2>1. Delegates!Sent = {}
    BY DEF Delegates!Init, Delegates!Sent
  <2> QED BY <2>1 DEF Delegates!Init, ResultsSound, Delegates!Status, Delegates!SentOnce, Places, Finished
<1>3. WaitsSound /\ ClosingSound
  BY DEF Delegates!Init, WaitsSound, ClosingSound, DelegationAssumption
<1> QED BY <1>1, <1>2, <1>3 DEF Delegates!Init, DelegationInv, ParentShape

LEMMA SentStays == inFlight' = inFlight => Delegates!Sent' = Delegates!Sent
BY DEF Delegates!Sent

\* The end of some children: the tree shows it, and their results go to the waits that are
\* over or stay to be sent.
LEMMA FinishKeeps ==
  ASSUME DelegationAssumption, DelegationInv, NEW ended \in SUBSET MCChild, NEW how \in Delegates!Status,
         Delegates!Finish(ended, how), UNCHANGED <<parent, inFlight, injected, lost>>,
         lock # "retire" \/ lock' = lock, lock' = lock \/ lock' # "close" \/ Delegates!Running \subseteq ended,
         lock' = lock \/ lock' # "retire"
  PROVE  DelegationInv'
<1> DEFINE new == {c \in ended : outcome[c] = None}
           told == {c \in new : node[c] = "running" /\ parent.open}
           over == {w \in MCWaiter : waits[w] # None /\ waits[w] \intersect Delegates!Running \subseteq new}
           done == {c \in UNION {waits[w] : w \in over} : c \notin Delegates!Running \ new}
<1>1. /\ outcome' = [c \in MCChild |-> IF c \in new THEN how ELSE outcome[c]]
      /\ node' = [c \in MCChild |-> IF c \in told THEN how ELSE node[c]]
      /\ results' = (IF how = "silent" THEN results ELSE results \union told) \ done
      /\ waits' = [w \in MCWaiter |-> IF w \in over THEN None ELSE waits[w]]
      /\ returned' = returned \union done
  BY DEF Delegates!Finish, Delegates!Collect
<1>2. /\ new \subseteq MCChild /\ \A c \in new : outcome[c] = None
      /\ told \subseteq new /\ (parent.open => told = new) /\ (~parent.open => told = {})
      /\ over \subseteq MCWaiter /\ how \notin {"absent", None, "running", "none"}
      /\ Delegates!Status \intersect {"absent", None, "running", "none"} = {}
      /\ \A c \in told : c \in MCChild /\ node[c] = "running"
  BY DEF DelegationInv, TreeSound, DelegationAssumption, Delegates!Status
<1>3. Delegates!Running' = Delegates!Running \ new
  BY <1>1, <1>2 DEF Delegates!Running
<1>4. parent.open => Delegates!Known' = Delegates!Known
  BY <1>1, <1>2 DEF Delegates!Known, DelegationAssumption
<1>5. parent.open => done \subseteq {c \in MCChild : outcome'[c] \in Delegates!Status}
  <2> SUFFICES ASSUME parent.open, NEW c \in done PROVE c \in MCChild /\ outcome'[c] \in Delegates!Status
    OBVIOUS
  <2>1. PICK w \in over : c \in waits[w]
    OBVIOUS
  <2>2. c \in Delegates!Known /\ c \in MCChild
    BY <2>1 DEF DelegationInv, WaitsSound, Delegates!Known
  <2>3. c \notin Delegates!Running \ new
    OBVIOUS
  <2> QED BY <1>1, <2>2, <2>3 DEF Delegates!Running, Delegates!Known, DelegationInv, TreeSound
<1>6. \A w \in over : waits[w] # None /\ waits[w] \intersect Delegates!Running \subseteq new
  OBVIOUS
<1>7. \A w \in MCWaiter \ over : waits[w] = None \/ ~(waits[w] \intersect Delegates!Running \subseteq new)
  OBVIOUS
<1>8. ClosingSound'
  BY <1>3 DEF DelegationInv, ClosingSound, Delegates!Running
<1> HIDE DEF new, told, over, done
<1>9. TreeSound'
  BY <1>1, <1>2 DEF DelegationInv, TreeSound
<1>10. Finished' = Finished \union told
  BY <1>1, <1>2 DEF Finished
<1>11. ResultsSound'
  <2> DEFINE sent == Delegates!Sent \union injected \union lost
  <2>1. sent' = sent /\ Places = results \union sent /\ Places' = results' \union sent
    BY SentStays DEF Places
  <2>2. results \intersect sent = {} /\ Places \subseteq Finished /\ told \intersect Finished = {}
    BY <1>2 DEF DelegationInv, ResultsSound, Delegates!SentOnce, Finished, Places
  <2>3. results' \intersect sent = {}
    BY <1>1, <2>1, <2>2
  <2>4. Delegates!SentOnce'
    <3>1. results' \intersect (Delegates!Sent \union injected \union lost) = {}
      BY <2>3
    <3> QED BY <3>1, SentStays DEF DelegationInv, ResultsSound, Delegates!SentOnce
  <2> HIDE DEF sent
  <2>5. Places' \subseteq Finished'
    BY <1>1, <1>10, <2>1, <2>2
  <2>6. ASSUME NEW c \in MCChild, node'[c] \in Delegates!Status \ {"silent"}
        PROVE  c \in Places' \union returned'
    <3>1. CASE c \in told
      BY <1>1, <2>1, <2>6, <3>1
    <3>2. CASE c \notin told
      <4>1. c \in Places \union returned
        BY <1>1, <2>6, <3>2 DEF DelegationInv, ResultsSound
      <4> QED BY <1>1, <2>1, <4>1
    <3> QED BY <3>1, <3>2
  <2>7. parent'.open => returned' \subseteq Finished' /\ results' \intersect returned' = {}
    <3> SUFFICES ASSUME parent.open
                 PROVE  returned' \subseteq Finished' /\ results' \intersect returned' = {}
      OBVIOUS
    <3>1. returned \subseteq Finished /\ results \intersect returned = {}
      BY DEF DelegationInv, ResultsSound
    <3>2. done \subseteq Finished'
      BY <1>5, <1>9 DEF TreeSound, Finished
    <3> QED BY <1>1, <1>10, <2>2, <3>1, <3>2
  <2> QED BY <2>4, <2>5, <2>6, <2>7 DEF ResultsSound
<1>12. WaitsSound'
  <2>1. waits' = [v \in MCWaiter |-> waits'[v]]
    BY <1>1 DEF DelegationInv, WaitsSound
  <2>2. ASSUME parent.open, NEW w \in MCWaiter, waits'[w] # None
        PROVE  waits'[w] \subseteq Delegates!Known' /\ waits'[w] \intersect Delegates!Running' # {}
    <3>1. w \notin over /\ waits'[w] = waits[w]
      BY <1>1, <2>2
    <3>2. waits[w] \subseteq Delegates!Known /\ ~(waits[w] \intersect Delegates!Running \subseteq new)
      BY <1>7, <2>2, <3>1 DEF DelegationInv, WaitsSound
    <3> QED BY <1>3, <1>4, <2>2, <3>1, <3>2
  <2> QED BY <2>1, <2>2 DEF WaitsSound
<1> QED BY <1>8, <1>9, <1>11, <1>12 DEF DelegationInv, ParentShape

\* A step that leaves the results alone keeps what is known of them.
LEMMA ResultsStay ==
  ASSUME ResultsSound, UNCHANGED <<node, results, inFlight, injected, lost, returned>>,
         parent'.open => parent.open
  PROVE  ResultsSound'
BY SentStays DEF ResultsSound, Delegates!SentOnce, Places, Finished

LEMMA DelegateKeeps ==
  ASSUME DelegationAssumption, DelegationInv, NEW c \in MCChild, Delegates!Delegate(c)
  PROVE  DelegationInv'
<1>1. /\ parent.open /\ outcome[c] = "absent" /\ lock = None /\ lock' = c
      /\ outcome' = [outcome EXCEPT ![c] = None] /\ node' = [node EXCEPT ![c] = "running"]
      /\ UNCHANGED <<results, parent, waits, inFlight, injected, lost, returned>>
  BY DEF Delegates!Delegate
<1>2. \A d \in MCChild :
        /\ outcome'[d] = IF d = c THEN None ELSE outcome[d]
        /\ node'[d] = IF d = c THEN "running" ELSE node[d]
  BY <1>1 DEF DelegationInv, TreeSound
<1>3. /\ None \notin Delegates!Status /\ "absent" \notin Delegates!Status /\ None # "absent"
      /\ lock # "retire" /\ lock' \notin {"close", "retire"}
  BY <1>1 DEF DelegationAssumption, Delegates!Status
<1>4. TreeSound'
  BY <1>1, <1>2, <1>3 DEF DelegationInv, TreeSound
<1>5. ResultsSound'
  <2>1. c \notin Finished
    BY <1>1, <1>3 DEF DelegationInv, TreeSound, Finished, Delegates!Status
  <2>2. Finished' = Finished
    BY <1>2, <2>1 DEF Finished, Delegates!Status
  <2>3. Places' = Places /\ Delegates!SentOnce'
    BY <1>1, SentStays DEF Places, DelegationInv, ResultsSound, Delegates!SentOnce
  <2>4. \A d \in MCChild : node'[d] \in Delegates!Status \ {"silent"} => d \in Places' \union returned'
    BY <1>1, <1>2, <2>3 DEF DelegationInv, ResultsSound, Delegates!Status
  <2> QED BY <1>1, <2>2, <2>3, <2>4 DEF DelegationInv, ResultsSound
<1>6. Delegates!Known \subseteq Delegates!Known' /\ Delegates!Running \subseteq Delegates!Running'
  BY <1>1, <1>2, <1>3 DEF Delegates!Known, Delegates!Running
<1>7. WaitsSound' /\ ClosingSound'
  BY <1>1, <1>3, <1>6 DEF DelegationInv, WaitsSound, ClosingSound
<1> QED BY <1>1, <1>4, <1>5, <1>7 DEF DelegationInv, ParentShape

\* What a wait returns leaves the results of the parent.
LEMMA ReturnKeeps ==
  ASSUME DelegationInv, NEW done, parent.open => done \subseteq Finished,
         returned' = returned \union done, results' = results \ done,
         UNCHANGED <<node, parent, inFlight, injected, lost>>
  PROVE  ResultsSound'
<1>1. ResultsSound
  BY DEF DelegationInv
<1>2. Places' \subseteq Places /\ Places \subseteq Places' \union done /\ Finished' = Finished
  BY SentStays DEF Places, Finished
<1>3. Delegates!SentOnce'
  BY <1>1, SentStays DEF ResultsSound, Delegates!SentOnce
<1>4. parent'.open => returned' \subseteq Finished' /\ results' \intersect returned' = {}
  BY <1>1, <1>2 DEF ResultsSound
<1> QED BY <1>1, <1>2, <1>3, <1>4 DEF ResultsSound

LEMMA WaitKeeps ==
  ASSUME DelegationAssumption, DelegationInv, NEW w \in MCWaiter, NEW targets \in SUBSET MCChild,
         Delegates!Wait(w, targets)
  PROVE  DelegationInv'
<1>1. /\ UNCHANGED <<outcome, node, parent, lock, inFlight, injected, lost>>
      /\ parent.open /\ targets \subseteq Delegates!Known
  BY DEF Delegates!Wait
<1>2. /\ TreeSound' /\ Delegates!Known' = Delegates!Known /\ Delegates!Running' = Delegates!Running
      /\ ClosingSound' /\ ParentShape'
  BY <1>1 DEF DelegationInv, TreeSound, Delegates!Known, Delegates!Running, ClosingSound, ParentShape
<1>3. CASE targets \intersect Delegates!Running = {}
  <2>1. returned' = returned \union targets /\ results' = results \ targets /\ waits' = waits
    BY <1>3 DEF Delegates!Wait, Delegates!Collect
  <2>2. targets \subseteq Finished
    BY <1>1, <1>3 DEF Delegates!Known, Delegates!Running, DelegationInv, TreeSound, Finished
  <2>3. ResultsSound'
    BY <1>1, <2>1, <2>2, ReturnKeeps
  <2> QED BY <1>1, <1>2, <2>1, <2>3 DEF DelegationInv, WaitsSound
<1>4. CASE targets \intersect Delegates!Running # {}
  <2>1. waits' = [waits EXCEPT ![w] = targets] /\ UNCHANGED <<returned, results>>
    BY <1>4 DEF Delegates!Wait
  <2>2. ResultsSound'
    BY <1>1, <2>1, ResultsStay DEF DelegationInv
  <2>3. waits' = [v \in MCWaiter |-> waits'[v]]
    BY <2>1 DEF DelegationInv, WaitsSound
  <2>4. \A v \in MCWaiter : waits'[v] = IF v = w THEN targets ELSE waits[v]
    BY <2>1 DEF DelegationInv, WaitsSound
  <2>5. WaitsSound'
    BY <1>1, <1>2, <1>4, <2>3, <2>4 DEF DelegationInv, WaitsSound
  <2> QED BY <1>1, <1>2, <2>2, <2>5 DEF DelegationInv
<1> QED BY <1>3, <1>4

LEMMA TimeOutKeeps ==
  ASSUME DelegationAssumption, DelegationInv, NEW w \in MCWaiter, Delegates!TimeOut(w)
  PROVE  DelegationInv'
<1> DEFINE done == waits[w] \ Delegates!Running
<1>1. /\ waits[w] # None /\ UNCHANGED <<outcome, node, parent, lock, inFlight, injected, lost>>
      /\ returned' = returned \union done /\ results' = results \ done
      /\ waits' = [waits EXCEPT ![w] = None]
  BY DEF Delegates!TimeOut, Delegates!Collect
<1>2. /\ TreeSound' /\ Delegates!Known' = Delegates!Known /\ Delegates!Running' = Delegates!Running
      /\ ClosingSound' /\ ParentShape'
  BY <1>1 DEF DelegationInv, TreeSound, Delegates!Known, Delegates!Running, ClosingSound, ParentShape
<1>3. parent.open => done \subseteq Finished
  BY <1>1 DEF DelegationInv, WaitsSound, TreeSound, Delegates!Known, Delegates!Running, Finished
<1> HIDE DEF done
<1>4. ResultsSound'
  BY <1>1, <1>3, ReturnKeeps
<1>5. /\ waits' = [v \in MCWaiter |-> waits'[v]]
      /\ \A v \in MCWaiter : waits'[v] = IF v = w THEN None ELSE waits[v]
  BY <1>1 DEF DelegationInv, WaitsSound
<1>6. WaitsSound'
  BY <1>1, <1>2, <1>5 DEF DelegationInv, WaitsSound
<1> QED BY <1>1, <1>2, <1>4, <1>6 DEF DelegationInv

\* A delivery moves results from one place to another.
LEMMA MoveKeeps ==
  ASSUME ResultsSound, UNCHANGED <<node, returned>>, parent'.open => parent.open,
         Places' = Places, results' \subseteq results, Delegates!SentOnce'
  PROVE  ResultsSound'
<1>1. Finished' = Finished
  BY DEF Finished
<1> QED BY <1>1 DEF ResultsSound

LEMMA UnionAdd ==
  ASSUME NEW many, NEW one, NEW x
  PROVE  x \in UNION (many \union {one}) <=> x \in UNION many \/ x \in one
<1>1. ASSUME x \in UNION (many \union {one}) PROVE x \in UNION many \/ x \in one
  <2>1. PICK d \in many \union {one} : x \in d
    BY <1>1
  <2>2. d \in many => x \in UNION many
    BY <2>1
  <2> QED BY <2>1, <2>2
<1>2. ASSUME x \in one PROVE x \in UNION (many \union {one})
  <2>1. one \in many \union {one}
    OBVIOUS
  <2> QED BY <1>2, <2>1
<1>3. ASSUME x \in UNION many PROVE x \in UNION (many \union {one})
  <2>1. PICK d \in many : x \in d
    BY <1>3
  <2> QED BY <2>1
<1> QED BY <1>1, <1>2, <1>3

LEMMA DeliverKeeps ==
  ASSUME DelegationInv, Delegates!MaybeDeliverDelegatedResults
  PROVE  ResultsSound'
<1>1. /\ inFlight' = inFlight \union {results} /\ results' = {}
      /\ UNCHANGED <<node, returned, injected, lost>> /\ parent.open
      /\ parent'.open => parent.open
  BY DEF Delegates!MaybeDeliverDelegatedResults
<1>2. \A x : x \in Delegates!Sent' <=> (x \in Delegates!Sent \/ x \in results)
  BY <1>1, UnionAdd DEF Delegates!Sent
<1>3. ResultsSound /\ Delegates!SentOnce
  BY DEF DelegationInv, ResultsSound
<1>4. \A d \in inFlight : d \intersect results = {}
  <2>1. \A d \in inFlight : \A x : x \in d => x \in Delegates!Sent
    BY DEF Delegates!Sent
  <2> QED BY <1>3, <2>1 DEF Delegates!SentOnce
<1>5. Places' = Places
  BY <1>1, <1>2 DEF Places
<1>6. \A d, e \in inFlight' : d # e => d \intersect e = {}
  BY <1>1, <1>3, <1>4 DEF Delegates!SentOnce
<1>7. Delegates!SentOnce'
  BY <1>1, <1>2, <1>3, <1>6 DEF Delegates!SentOnce
<1> QED BY <1>1, <1>3, <1>5, <1>7, MoveKeeps

\* Deliveries that leave the queue are in no other that stays.
LEMMA Leaving ==
  ASSUME Delegates!SentOnce, NEW ds \in SUBSET inFlight, inFlight' = inFlight \ ds, NEW x
  PROVE  /\ x \in Delegates!Sent <=> (x \in Delegates!Sent' \/ x \in UNION ds)
         /\ ~(x \in Delegates!Sent' /\ x \in UNION ds)
<1>1. ASSUME x \in Delegates!Sent PROVE x \in Delegates!Sent' \/ x \in UNION ds
  <2>1. PICK d \in inFlight : x \in d
    BY <1>1 DEF Delegates!Sent
  <2>2. d \in ds => x \in UNION ds
    BY <2>1
  <2>3. d \in inFlight' => x \in Delegates!Sent'
    BY <2>1 DEF Delegates!Sent
  <2> QED BY <2>1, <2>2, <2>3
<1>2. ASSUME x \in UNION ds
      PROVE  \E e \in ds : x \in e /\ x \in Delegates!Sent
  <2>1. PICK e \in ds : x \in e
    BY <1>2
  <2> QED BY <2>1 DEF Delegates!Sent
<1>3. ASSUME x \in Delegates!Sent'
      PROVE  \E d \in inFlight \ ds : x \in d /\ x \in Delegates!Sent
  <2>1. PICK d \in inFlight' : x \in d
    BY <1>3 DEF Delegates!Sent
  <2> QED BY <2>1 DEF Delegates!Sent
<1>4. ~(x \in Delegates!Sent' /\ x \in UNION ds)
  <2>1. \A d \in inFlight \ ds, e \in ds : d \intersect e = {}
    BY DEF Delegates!SentOnce
  <2> QED BY <1>2, <1>3, <2>1
<1> QED BY <1>1, <1>2, <1>3, <1>4

LEMMA TakenInKeeps ==
  ASSUME ResultsSound, NEW ds \in SUBSET inFlight, Delegates!TakenIn(ds),
         UNCHANGED <<node, results, lost, returned>>, parent'.open => parent.open
  PROVE  ResultsSound'
<1> DEFINE gone == UNION ds
<1>1. injected' = injected \union gone /\ inFlight' = inFlight \ ds
  BY DEF Delegates!TakenIn
<1>2. Delegates!SentOnce
  BY DEF ResultsSound
<1>3. \A x : x \in Delegates!Sent <=> (x \in Delegates!Sent' \/ x \in gone)
  BY <1>1, <1>2, Leaving
<1>4. \A x : ~(x \in Delegates!Sent' /\ x \in gone)
  BY <1>1, <1>2, Leaving
<1> HIDE DEF gone
<1>5. Places' = Places
  BY <1>1, <1>3 DEF Places
<1>6. Delegates!SentOnce'
  BY <1>1, <1>2, <1>3, <1>4 DEF Delegates!SentOnce
<1> QED BY <1>5, <1>6, MoveKeeps

LEMMA UndeliveredKeeps ==
  ASSUME ResultsSound, NEW ds \in SUBSET inFlight, Delegates!Undelivered(ds),
         UNCHANGED <<node, results, injected, returned>>, parent'.open => parent.open
  PROVE  ResultsSound'
<1> DEFINE gone == UNION ds
<1>1. lost' = lost \union gone /\ inFlight' = inFlight \ ds
  BY DEF Delegates!Undelivered
<1>2. Delegates!SentOnce
  BY DEF ResultsSound
<1>3. \A x : x \in Delegates!Sent <=> (x \in Delegates!Sent' \/ x \in gone)
  BY <1>1, <1>2, Leaving
<1>4. \A x : ~(x \in Delegates!Sent' /\ x \in gone)
  BY <1>1, <1>2, Leaving
<1> HIDE DEF gone
<1>5. Places' = Places
  BY <1>1, <1>3 DEF Places
<1>6. Delegates!SentOnce'
  BY <1>1, <1>2, <1>3, <1>4 DEF Delegates!SentOnce
<1> QED BY <1>5, <1>6, MoveKeeps

\* What the parent does with its turns, its process and the deliveries.
ParentActs ==
  \/ Delegates!MaybeDeliverDelegatedResults
  \/ \E ds \in SUBSET inFlight : Delegates!ParentTurnStarts(ds) \/ Delegates!ProcessEnds(ds)
  \/ \E d \in inFlight : Delegates!InputStarts(d) \/ Delegates!DeliveryFails(d)
  \/ Delegates!ParentTurnEnds \/ Delegates!Interrupt \/ Delegates!InterruptFails \/ Delegates!Retire

LEMMA ParentActsShape ==
  ASSUME ParentShape, ParentActs
  PROVE  ParentShape' /\ parent'.open = parent.open /\ parent.open
<1>1. CASE Delegates!MaybeDeliverDelegatedResults \/ \E d \in inFlight : Delegates!DeliveryFails(d)
  BY <1>1 DEF Delegates!MaybeDeliverDelegatedResults, Delegates!DeliveryFails, ParentShape
<1>2. CASE \E ds \in SUBSET inFlight : Delegates!ParentTurnStarts(ds) \/ Delegates!ProcessEnds(ds)
  BY <1>2 DEF Delegates!ParentTurnStarts, Delegates!ProcessEnds, ParentShape
<1>3. CASE \/ Delegates!ParentTurnEnds \/ Delegates!Interrupt \/ Delegates!InterruptFails \/ Delegates!Retire
           \/ \E d \in inFlight : Delegates!InputStarts(d)
  BY <1>3
    DEF Delegates!ParentTurnEnds, Delegates!Interrupt, Delegates!InterruptFails, Delegates!Retire,
        Delegates!InputStarts, ParentShape
<1> QED BY <1>1, <1>2, <1>3 DEF ParentActs

LEMMA ParentActsKeep ==
  ASSUME DelegationInv, ParentActs
  PROVE  DelegationInv'
<1>1. ParentShape' /\ parent'.open = parent.open
  BY ParentActsShape DEF DelegationInv
<1>2. UNCHANGED <<outcome, node, lock, waits>>
  BY
    DEF ParentActs, Delegates!MaybeDeliverDelegatedResults, Delegates!ParentTurnStarts,
        Delegates!ProcessEnds, Delegates!InputStarts, Delegates!DeliveryFails, Delegates!ParentTurnEnds,
        Delegates!Interrupt, Delegates!InterruptFails, Delegates!Retire
<1>3. Delegates!Known' = Delegates!Known /\ Delegates!Running' = Delegates!Running
  BY <1>2 DEF Delegates!Known, Delegates!Running
<1>4. TreeSound' /\ WaitsSound' /\ ClosingSound'
  BY <1>1, <1>2, <1>3 DEF DelegationInv, TreeSound, WaitsSound, ClosingSound
<1>5. ResultsSound
  BY DEF DelegationInv
<1>6. ResultsSound'
  <2>1. ASSUME NEW ds \in SUBSET inFlight, Delegates!ParentTurnStarts(ds) PROVE ResultsSound'
    BY <1>1, <1>5, <2>1, TakenInKeeps DEF Delegates!ParentTurnStarts
  <2>2. ASSUME NEW ds \in SUBSET inFlight, Delegates!ProcessEnds(ds) PROVE ResultsSound'
    BY <1>1, <1>5, <2>2, UndeliveredKeeps DEF Delegates!ProcessEnds
  <2>3. ASSUME NEW d \in inFlight, Delegates!InputStarts(d) PROVE ResultsSound'
    <3>1. {d} \in SUBSET inFlight
      OBVIOUS
    <3> QED BY <1>1, <1>5, <2>3, <3>1, TakenInKeeps DEF Delegates!InputStarts
  <2>4. ASSUME NEW d \in inFlight, Delegates!DeliveryFails(d) PROVE ResultsSound'
    <3>1. {d} \in SUBSET inFlight
      OBVIOUS
    <3> QED BY <1>1, <1>5, <2>4, <3>1, UndeliveredKeeps DEF Delegates!DeliveryFails
  <2>5. CASE Delegates!ParentTurnEnds \/ Delegates!Interrupt \/ Delegates!InterruptFails \/ Delegates!Retire
    BY <1>1, <1>5, <2>5, ResultsStay
      DEF Delegates!ParentTurnEnds, Delegates!Interrupt, Delegates!InterruptFails, Delegates!Retire
  <2> QED BY <2>1, <2>2, <2>3, <2>4, <2>5, DeliverKeeps DEF ParentActs
<1> QED BY <1>1, <1>4, <1>6 DEF DelegationInv

LEMMA ForgetKeeps ==
  ASSUME DelegationAssumption, DelegationInv, Delegates!ForgetChildren
  PROVE  DelegationInv'
<1>1. /\ lock = "close" /\ lock' = "retire" /\ outcome' = [c \in MCChild |-> "absent"]
      /\ UNCHANGED <<node, results, waits, inFlight, injected, lost, returned>>
  BY DEF Delegates!ForgetChildren
<1>2. PICK closing \in {TRUE, parent.closing} : parent' = [parent EXCEPT !.closing = closing]
  BY DEF Delegates!ForgetChildren
<1>3. ParentShape' /\ parent'.open = parent.open
  BY <1>2 DEF DelegationInv, ParentShape
<1>4. "absent" \notin Delegates!Status /\ None # "absent"
  BY DEF DelegationAssumption, Delegates!Status
<1>5. Delegates!Running = {} /\ Delegates!Running' = {}
  BY <1>1, <1>4 DEF DelegationInv, ClosingSound, Delegates!Running
<1>6. TreeSound'
  BY <1>1, <1>4 DEF DelegationInv, TreeSound
<1>7. ResultsSound'
  BY <1>1, <1>3, ResultsStay DEF DelegationInv
<1>8. WaitsSound'
  BY <1>1, <1>3, <1>5 DEF DelegationInv, WaitsSound
<1> QED BY <1>3, <1>5, <1>6, <1>7, <1>8 DEF DelegationInv, ClosingSound

LEMMA ClosedKeeps ==
  ASSUME DelegationAssumption, DelegationInv, Delegates!ParentClosed
  PROVE  DelegationInv'
<1>1. /\ lock' = None /\ UNCHANGED <<outcome, node, results, waits, injected, returned>>
      /\ parent' = [parent EXCEPT !.open = FALSE, !.turn = FALSE, !.closing = FALSE, !.cut = FALSE]
      /\ lost' = lost \union UNION inFlight /\ inFlight' = inFlight \ inFlight
  BY DEF Delegates!ParentClosed, Delegates!Sent
<1>2. ParentShape' /\ ~parent'.open
  BY <1>1 DEF DelegationInv, ParentShape
<1>3. ResultsSound'
  <2>1. ResultsSound /\ UNCHANGED <<node, results, injected, returned>>
    BY <1>1 DEF DelegationInv
  <2>2. Delegates!Undelivered(inFlight)
    BY <1>1 DEF Delegates!Undelivered
  <2> QED BY <1>2, <2>1, <2>2, UndeliveredKeeps
<1>4. TreeSound' /\ WaitsSound'
  BY <1>1, <1>2 DEF DelegationInv, TreeSound, WaitsSound
<1>5. Delegates!Running' = Delegates!Running /\ lock = "retire"
  BY <1>1 DEF Delegates!Running, Delegates!ParentClosed
<1>6. ClosingSound'
  BY <1>5 DEF DelegationInv, ClosingSound
<1> QED BY <1>2, <1>3, <1>4, <1>6 DEF DelegationInv

LEMMA DelegationNext == DelegationAssumption /\ DelegationInv /\ [Delegates!Next]_delegation => DelegationInv'
<1> SUFFICES ASSUME DelegationAssumption, DelegationInv, [Delegates!Next]_delegation PROVE DelegationInv'
  OBVIOUS
<1>1. ASSUME NEW c \in MCChild, Delegates!DelegateFails(c) PROVE DelegationInv'
  <2>1. lock # "retire" /\ lock' \notin {"close", "retire"} /\ {c} \in SUBSET MCChild
    BY <1>1 DEF Delegates!DelegateFails, DelegationAssumption
  <2>2. Delegates!Finish({c}, "failed") /\ UNCHANGED <<parent, inFlight, injected, lost>>
    BY <1>1 DEF Delegates!DelegateFails
  <2> QED BY <2>1, <2>2, FinishKeeps DEF Delegates!Status
<1>2. ASSUME NEW c \in MCChild,
             Delegates!CloseChild(c) \/ \E how \in Delegates!Status : Delegates!TurnEnds(c, how)
      PROVE  DelegationInv'
  <2>1. PICK how \in Delegates!Status :
          Delegates!Finish({c}, how) /\ UNCHANGED <<parent, lock, inFlight, injected, lost>>
    BY <1>2 DEF Delegates!CloseChild, Delegates!TurnEnds, Delegates!Status
  <2> QED BY <2>1, FinishKeeps
<1>3. ASSUME NEW targets \in SUBSET MCChild, Delegates!Stop(targets) PROVE DelegationInv'
  <2>1. /\ lock # "retire" /\ lock' \notin {"close", "retire"}
        /\ Delegates!Finish(targets, "stopped") /\ UNCHANGED <<parent, inFlight, injected, lost>>
    BY <1>3 DEF Delegates!Stop, DelegationAssumption
  <2> QED BY <2>1, FinishKeeps DEF Delegates!Status
<1>4. CASE Delegates!CloseParent
  <2>1. Delegates!Running \in SUBSET MCChild
    BY DEF Delegates!Running
  <2>2. /\ lock # "retire" /\ lock' = "close"
        /\ Delegates!Finish(Delegates!Running, "stopped") /\ UNCHANGED <<parent, inFlight, injected, lost>>
    BY <1>4 DEF Delegates!CloseParent, DelegationAssumption
  <2>3. lock' # "retire" /\ Delegates!Running \subseteq Delegates!Running
    BY <2>2
  <2> HIDE DEF DelegationInv
  <2> QED BY <2>1, <2>2, <2>3, FinishKeeps DEF Delegates!Status
<1>5. ASSUME \/ Delegates!Stopped
             \/ \E c \in MCChild : Delegates!OpenChild(c) \/ Delegates!SendTask(c)
             \/ UNCHANGED delegation
      PROVE  DelegationInv'
  <2>1. /\ UNCHANGED <<outcome, node, results, parent, waits, inFlight, injected, lost, returned>>
        /\ lock' = lock \/ (lock \in MCChild \union {"stop"} /\ lock' = None)
    BY <1>5 DEF Delegates!Stopped, Delegates!OpenChild, Delegates!SendTask, delegation
  <2>2. Delegates!Known' = Delegates!Known /\ Delegates!Running' = Delegates!Running
    BY <2>1 DEF Delegates!Known, Delegates!Running
  <2>3. lock' = lock \/ (lock # "retire" /\ lock' \notin {"close", "retire"})
    BY <2>1 DEF DelegationAssumption
  <2>4. ResultsSound'
    BY <2>1, ResultsStay DEF DelegationInv
  <2> QED BY <2>1, <2>2, <2>3, <2>4 DEF DelegationInv, ParentShape, TreeSound, WaitsSound, ClosingSound
<1> QED
  BY <1>1, <1>2, <1>3, <1>4, <1>5, DelegateKeeps, WaitKeeps, TimeOutKeeps, ParentActsKeep, ForgetKeeps,
     ClosedKeeps
    DEF Delegates!Next, ParentActs

LEMMA ResultsReach == DelegationAssumption /\ DelegationInv => Delegates!ResultsAccounted
<1> SUFFICES ASSUME DelegationAssumption, DelegationInv, parent.open PROVE Delegates!ResultsAccounted
  BY DEF Delegates!ResultsAccounted
<1>1. \A c \in Delegates!Known \ Delegates!Running : node[c] = outcome[c]
  BY DEF DelegationInv, TreeSound, Delegates!Known, Delegates!Running
<1>2. \A c \in MCChild :
        node[c] \in Delegates!Status \ {"silent"} =>
          c \in results \union returned \union Delegates!Sent \union injected \union lost
  BY DEF DelegationInv, ResultsSound, Places
<1>3. Delegates!SentOnce /\ results \intersect returned = {}
  BY DEF DelegationInv, ResultsSound
<1>4. \A w \in MCWaiter : waits[w] # None => waits[w] \intersect Delegates!Running # {}
  BY DEF DelegationInv, WaitsSound
<1> QED BY <1>1, <1>2, <1>3, <1>4 DEF Delegates!ResultsAccounted

\* What the end of children leaves behind is of its type.
LEMMA FinishTyped ==
  ASSUME Delegates!DelegationTypeOK, NEW ended \in SUBSET MCChild, NEW how \in Delegates!Status,
         Delegates!Finish(ended, how), UNCHANGED <<parent, inFlight, injected, lost>>,
         session' \in [MCChild -> {"none", "open", "turn", "ended", "closed"}],
         lock' \in MCChild \union {"stop", "close", "retire", None}
  PROVE  Delegates!DelegationTypeOK'
<1> DEFINE new == {c \in ended : outcome[c] = None}
           told == {c \in new : node[c] = "running" /\ parent.open}
           over == {w \in MCWaiter : waits[w] # None /\ waits[w] \intersect Delegates!Running \subseteq new}
           done == {c \in UNION {waits[w] : w \in over} : c \notin Delegates!Running \ new}
<1>1. /\ outcome' = [c \in MCChild |-> IF c \in new THEN how ELSE outcome[c]]
      /\ node' = [c \in MCChild |-> IF c \in told THEN how ELSE node[c]]
      /\ results' = Delegates!Collect(done, IF how = "silent" THEN results ELSE results \union told)
      /\ waits' = [w \in MCWaiter |-> IF w \in over THEN None ELSE waits[w]]
      /\ returned' = returned \union done
  BY DEF Delegates!Finish
<1>2. over \subseteq MCWaiter /\ \A w \in over : waits[w] \subseteq MCChild
  BY DEF Delegates!DelegationTypeOK
<1>3. done \subseteq MCChild
  BY <1>2
<1> HIDE DEF new, told, over, done
<1>4. outcome' \in [MCChild -> Delegates!Status \union {"absent", None}]
  BY <1>1 DEF Delegates!DelegationTypeOK
<1>5. node' \in [MCChild -> Delegates!Status \union {"none", "running"}]
  BY <1>1 DEF Delegates!DelegationTypeOK
<1>6. waits' \in [MCWaiter -> (SUBSET MCChild) \union {None}]
  BY <1>1 DEF Delegates!DelegationTypeOK
<1>7. told \subseteq MCChild
  BY DEF told, new
<1> QED BY <1>1, <1>3, <1>4, <1>5, <1>6, <1>7 DEF Delegates!DelegationTypeOK, Delegates!Collect

LEMMA DelegationTypedInit == MCHandoffs \in Nat /\ Delegates!Init => Delegates!DelegationTypeOK
BY DEF Delegates!Init, Delegates!DelegationTypeOK

LEMMA DelegationTypedNext ==
  ASSUME MCHandoffs \in Nat, DelegationInv, Delegates!DelegationTypeOK, [Delegates!Next]_delegation
  PROVE  Delegates!DelegationTypeOK'
<1>1. ASSUME NEW c \in MCChild,
             \/ Delegates!DelegateFails(c) \/ Delegates!CloseChild(c)
             \/ \E how \in Delegates!Status : Delegates!TurnEnds(c, how)
      PROVE  Delegates!DelegationTypeOK'
  <2>1. PICK how \in Delegates!Status : Delegates!Finish({c}, how) /\ UNCHANGED <<parent, inFlight, injected, lost>>
    BY <1>1 DEF Delegates!DelegateFails, Delegates!CloseChild, Delegates!TurnEnds, Delegates!Status
  <2>2. /\ session' \in [MCChild -> {"none", "open", "turn", "ended", "closed"}]
        /\ lock' \in MCChild \union {"stop", "close", "retire", None}
    BY <1>1
      DEF Delegates!DelegateFails, Delegates!CloseChild, Delegates!TurnEnds, Delegates!DelegationTypeOK
  <2>3. {c} \in SUBSET MCChild
    OBVIOUS
  <2> QED BY <2>1, <2>2, <2>3, FinishTyped
<1>2. ASSUME NEW targets \in SUBSET MCChild, Delegates!Stop(targets)
      PROVE  Delegates!DelegationTypeOK'
  BY <1>2, FinishTyped DEF Delegates!Stop, Delegates!Status, Delegates!DelegationTypeOK
<1>3. CASE Delegates!CloseParent
  <2>1. Delegates!Running \in SUBSET MCChild
    BY DEF Delegates!Running
  <2> QED BY <1>3, <2>1, FinishTyped DEF Delegates!CloseParent, Delegates!Status, Delegates!DelegationTypeOK
<1>4. ASSUME NEW c \in MCChild, Delegates!Delegate(c) PROVE Delegates!DelegationTypeOK'
  BY <1>4 DEF Delegates!Delegate, Delegates!DelegationTypeOK
<1>5. ASSUME NEW c \in MCChild, Delegates!OpenChild(c) \/ Delegates!SendTask(c)
      PROVE  Delegates!DelegationTypeOK'
  BY <1>5 DEF Delegates!OpenChild, Delegates!SendTask, Delegates!DelegationTypeOK
<1>6. ASSUME NEW w \in MCWaiter, NEW targets \in SUBSET MCChild, Delegates!Wait(w, targets)
      PROVE  Delegates!DelegationTypeOK'
  BY <1>6 DEF Delegates!Wait, Delegates!Collect, Delegates!DelegationTypeOK
<1>7. ASSUME NEW w \in MCWaiter, Delegates!TimeOut(w) PROVE Delegates!DelegationTypeOK'
  <2>1. waits[w] \subseteq MCChild
    BY <1>7 DEF Delegates!TimeOut, Delegates!DelegationTypeOK
  <2> QED BY <1>7, <2>1 DEF Delegates!TimeOut, Delegates!Collect, Delegates!DelegationTypeOK
<1>8. CASE ParentActs
  <2>1. ParentShape /\ parent.handoffs \in 0 .. MCHandoffs
    BY DEF DelegationInv, Delegates!DelegationTypeOK
  <2>2. parent'.handoffs \in 0 .. MCHandoffs
    <3>1. CASE Delegates!MaybeDeliverDelegatedResults
      <4>1. parent'.handoffs = parent.handoffs + 1 /\ parent.handoffs < MCHandoffs
        BY <2>1, <3>1 DEF Delegates!MaybeDeliverDelegatedResults, ParentShape
      <4> QED BY <2>1, <4>1
    <3>2. CASE \E ds \in SUBSET inFlight : Delegates!ParentTurnStarts(ds) \/ Delegates!ProcessEnds(ds)
      <4>1. parent'.handoffs \in {0, parent.handoffs}
        BY <2>1, <3>2 DEF Delegates!ParentTurnStarts, Delegates!ProcessEnds, ParentShape
      <4> QED BY <2>1, <4>1
    <3>3. CASE \/ \E d \in inFlight : Delegates!InputStarts(d) \/ Delegates!DeliveryFails(d)
               \/ Delegates!ParentTurnEnds \/ Delegates!Interrupt \/ Delegates!InterruptFails
               \/ Delegates!Retire
      <4>1. parent'.handoffs = parent.handoffs
        BY <2>1, <3>3
          DEF Delegates!InputStarts, Delegates!DeliveryFails, Delegates!ParentTurnEnds,
              Delegates!Interrupt, Delegates!InterruptFails, Delegates!Retire, ParentShape
      <4> QED BY <2>1, <4>1
    <3> QED BY <1>8, <3>1, <3>2, <3>3 DEF ParentActs
  <2>3. /\ results' \subseteq MCChild /\ inFlight' \subseteq SUBSET MCChild
        /\ injected' \subseteq MCChild /\ lost' \subseteq MCChild
    <3>1. UNION inFlight \subseteq MCChild
      BY DEF Delegates!DelegationTypeOK
    <3>2. \A ds \in SUBSET inFlight : UNION ds \subseteq MCChild
      BY <3>1
    <3> QED BY <1>8, <3>2
      DEF ParentActs, Delegates!DelegationTypeOK, Delegates!MaybeDeliverDelegatedResults,
          Delegates!ParentTurnStarts, Delegates!ProcessEnds, Delegates!InputStarts,
          Delegates!DeliveryFails, Delegates!ParentTurnEnds, Delegates!Interrupt,
          Delegates!InterruptFails, Delegates!Retire, Delegates!TakenIn, Delegates!Undelivered
  <2>4. UNCHANGED <<outcome, session, node, lock, waits, returned>>
    BY <1>8
      DEF ParentActs, Delegates!MaybeDeliverDelegatedResults,
          Delegates!ParentTurnStarts, Delegates!ProcessEnds, Delegates!InputStarts,
          Delegates!DeliveryFails, Delegates!ParentTurnEnds, Delegates!Interrupt,
          Delegates!InterruptFails, Delegates!Retire
  <2> QED BY <2>2, <2>3, <2>4 DEF Delegates!DelegationTypeOK
<1>9. CASE Delegates!ForgetChildren \/ Delegates!ParentClosed
  <2>1. parent'.handoffs = parent.handoffs
    BY <1>9 DEF Delegates!ForgetChildren, Delegates!ParentClosed, DelegationInv, ParentShape
  <2>2. UNION inFlight \subseteq MCChild
    BY DEF Delegates!DelegationTypeOK
  <2>3. /\ lost' \subseteq MCChild /\ inFlight' \subseteq SUBSET MCChild
        /\ outcome' \in [MCChild -> Delegates!Status \union {"absent", None}]
        /\ lock' \in MCChild \union {"stop", "close", "retire", None}
    BY <1>9, <2>2
      DEF Delegates!ForgetChildren, Delegates!ParentClosed, Delegates!Sent, Delegates!DelegationTypeOK
  <2>4. UNCHANGED <<session, node, results, waits, injected, returned>>
    BY <1>9 DEF Delegates!ForgetChildren, Delegates!ParentClosed
  <2> QED BY <2>1, <2>3, <2>4 DEF Delegates!DelegationTypeOK
<1>10. CASE Delegates!Stopped \/ UNCHANGED delegation
  BY <1>10 DEF Delegates!Stopped, delegation, Delegates!DelegationTypeOK
<1> QED BY <1>1, <1>2, <1>3, <1>4, <1>5, <1>6, <1>7, <1>8, <1>9, <1>10 DEF Delegates!Next, ParentActs

-----------------------------------------------------------------------------
(* The tasks of a developer (CompactDeveloper). *)

\* The groups are numbered, every task is in one of them, and its own id withholds it.
DeveloperAssumption ==
  /\ MCGroups \in Nat /\ MCGroupOf \in [MCTask -> 1 .. MCGroups] /\ MCNames \in [MCTask -> SUBSET MCFile]
  /\ \A t \in MCTask : t \in MCWithholds[t]

\* The role is at work on a group, and has a result of it.
AtWork == {"loop", "check", "fix", "record"}
Claimed == AtWork \ {"loop"}

DeveloperShape ==
  /\ workspace = [f \in MCFile |-> workspace[f]]
  /\ numbered \in MCPlans /\ ticked \subseteq MCTask /\ tasks \subseteq ticked
  /\ rolePhase \in AtWork \union {"start", "done", "failed"}
  /\ report = [files |-> report.files, incomplete |-> report.incomplete]
  /\ group \in 0 .. MCGroups + 1
  /\ rolePhase \in Claimed => claim.done \subseteq MCTask

\* What is ticked, or called done, has its files.
Grounded ==
  /\ \A t \in ticked : t \in numbered /\ Developer!HasFiles(t)
  /\ rolePhase \in Claimed => \A t \in claim.done : Developer!HasFiles(t)

\* A task the role is through with: ticked, covered by an item of its report, or without a number
\* and with its files.
Settled(t) ==
  \/ t \in ticked \/ t \in Developer!Matched(report.incomplete)
  \/ t \notin numbered /\ Developer!HasFiles(t)

\* No task of a group that the role is through with is forgotten, and none of the group it
\* is about to record.
Accounted ==
  /\ rolePhase \in AtWork => \A t \in MCTask : MCGroupOf[t] < group => Settled(t)
  /\ rolePhase \in Claimed =>
       Developer!Open \subseteq
         claim.done \union Developer!Matched(claim.items) \union Developer!Matched(report.incomplete)
  /\ rolePhase = "done" => \A t \in MCTask : Settled(t)

DeveloperInv == DeveloperShape /\ Grounded /\ Accounted

LEMMA DeveloperInit == DeveloperAssumption /\ Developer!Init => DeveloperInv
BY
  DEF DeveloperAssumption, Developer!Init, Developer!NoReport, DeveloperInv, DeveloperShape, Grounded,
      Accounted, AtWork, Claimed

LEMMA FirstGroup ==
  ASSUME NEW groups \in SUBSET Nat, groups # {}
  PROVE  Developer!FirstOf(groups) \in groups /\ \A h \in groups : Developer!FirstOf(groups) <= h
<1>1. PICK g \in groups : \A h \in groups : <<h, g>> \notin OpToRel(<, Nat)
  BY NatLessThanWellFounded, WFMin
<1>2. \A h \in groups : ~(h < g)
  <2> SUFFICES ASSUME NEW h \in groups, h < g PROVE <<h, g>> \in OpToRel(<, Nat)
    BY <1>1
  <2>1. <<h, g>> \in Nat \X Nat /\ <<h, g>>[1] < <<h, g>>[2]
    OBVIOUS
  <2> QED BY <2>1 DEF OpToRel
<1>3. \A h \in groups : g <= h
  BY <1>2
<1> QED BY <1>3 DEF Developer!FirstOf

\* The next group leaves no task behind, and the end of the role none at all.
LEMMA Onwards ==
  ASSUME DeveloperAssumption, group \in 0 .. MCGroups + 1, Developer!NextGroup, tasks' = tasks,
         \A t \in MCTask : MCGroupOf[t] <= group => Settled(t)',
         \A t \in tasks : Settled(t)'
  PROVE  Accounted' /\ rolePhase' \in {"loop", "done"} /\ group' \in 0 .. MCGroups + 1
<1> DEFINE ahead == Developer!Rest(tasks, group)
<1>1. /\ ahead \in SUBSET (1 .. MCGroups)
      /\ \A t \in MCTask : t \notin tasks /\ MCGroupOf[t] > group => MCGroupOf[t] \in ahead
  <2>1. \A t \in MCTask : MCGroupOf[t] \in 1 .. MCGroups
    BY DEF DeveloperAssumption
  <2> QED BY <2>1 DEF Developer!Rest, Developer!Pending, Developer!TasksOf
<1>2. \A t \in MCTask : MCGroupOf[t] \in Int /\ group \in Int /\ MCGroups \in Nat
  BY DEF DeveloperAssumption
<1>3. CASE ahead # {}
  <2>1. rolePhase' = "loop" /\ group' = Developer!FirstOf(ahead)
    BY <1>3 DEF Developer!NextGroup, Developer!Work
  <2>2. group' \in ahead /\ \A h \in ahead : group' <= h
    <3>1. ahead \in SUBSET Nat
      BY <1>1
    <3> HIDE DEF ahead
    <3> QED BY <1>3, <2>1, <3>1, FirstGroup
  <2> HIDE DEF ahead
  <2>3. group' \in 1 .. MCGroups
    BY <1>1, <2>2
  <2>4. ASSUME NEW t \in MCTask, MCGroupOf[t] < group' PROVE Settled(t)'
    <3>1. CASE MCGroupOf[t] <= group
      BY <3>1
    <3>2. CASE ~(MCGroupOf[t] <= group)
      BY <1>1, <1>2, <2>2, <2>3, <2>4, <3>2
    <3> QED BY <3>1, <3>2
  <2>5. rolePhase' \in AtWork /\ rolePhase' \notin Claimed /\ rolePhase' # "done"
    BY <2>1 DEF AtWork, Claimed
  <2>6. group' \in 0 .. MCGroups + 1
    BY <2>3 DEF DeveloperAssumption
  <2> QED BY <2>1, <2>4, <2>5, <2>6 DEF Accounted
<1>4. CASE ahead = {}
  <2>1. rolePhase' = "done" /\ group' = group
    BY <1>4 DEF Developer!NextGroup
  <2>2. ASSUME NEW t \in MCTask PROVE Settled(t)'
    <3>1. CASE MCGroupOf[t] <= group
      BY <3>1
    <3>2. CASE ~(MCGroupOf[t] <= group)
      BY <1>1, <1>2, <1>4, <3>2
    <3> QED BY <3>1, <3>2
  <2>3. rolePhase' \notin AtWork /\ rolePhase' \notin Claimed
    BY <2>1 DEF AtWork, Claimed
  <2> QED BY <2>1, <2>2, <2>3 DEF Accounted
<1> QED BY <1>3, <1>4

LEMMA StartKeepsPlan ==
  ASSUME DeveloperAssumption, DeveloperInv, Developer!Start
  PROVE  DeveloperInv'
<1>1. /\ tasks' = ticked /\ report' = Developer!NoReport /\ UNCHANGED <<workspace, numbered, ticked>>
      /\ report'.incomplete = {}
      /\ DeveloperShape /\ Grounded
  BY DEF Developer!Start, Developer!NoReport, DeveloperInv
<1>2. /\ Developer!Pending(ticked) \in SUBSET (1 .. MCGroups)
      /\ \A t \in MCTask : t \notin ticked => MCGroupOf[t] \in Developer!Pending(ticked)
      /\ \A t \in MCTask : MCGroupOf[t] \in 1 .. MCGroups
      /\ MCGroups \in Nat
  BY DEF DeveloperAssumption, Developer!Pending, Developer!TasksOf
<1>3. /\ rolePhase' \in {"loop", "done"} /\ group' \in 0 .. MCGroups + 1
      /\ rolePhase' = "loop" => \A t \in MCTask : MCGroupOf[t] < group' => t \in ticked
      /\ rolePhase' = "done" => MCTask \subseteq ticked
  <2>1. CASE Developer!Pending(ticked) # {}
    <3>1. rolePhase' = "loop" /\ group' = Developer!FirstOf(Developer!Pending(ticked))
      BY <2>1 DEF Developer!Start, Developer!Work
    <3>2. group' \in Developer!Pending(ticked) /\ \A h \in Developer!Pending(ticked) : group' <= h
      <4>1. Developer!Pending(ticked) \in SUBSET Nat
        BY <1>2
      <4> QED BY <2>1, <3>1, <4>1, FirstGroup
    <3> QED BY <1>2, <3>1, <3>2
  <2>2. CASE Developer!Pending(ticked) = {} /\ feedback
    <3>1. rolePhase' = "loop" /\ group' = MCGroups + 1
      BY <2>2 DEF Developer!Start, Developer!Work
    <3> QED BY <1>2, <2>2, <3>1
  <2>3. CASE Developer!Pending(ticked) = {} /\ ~feedback
    <3>1. rolePhase' = "done" /\ group' = group
      BY <2>3 DEF Developer!Start
    <3> QED BY <1>1, <1>2, <2>3, <3>1 DEF DeveloperShape
  <2> QED BY <2>1, <2>2, <2>3
<1>4. DeveloperShape' /\ Grounded'
  BY <1>1, <1>3 DEF DeveloperShape, Grounded, Developer!HasFiles, Developer!NoReport, AtWork, Claimed
<1>5. \A t \in ticked : Settled(t)'
  BY <1>1 DEF Settled
<1>6. Accounted'
  BY <1>1, <1>3, <1>5 DEF Accounted, AtWork, Claimed
<1> QED BY <1>4, <1>6 DEF DeveloperInv

LEMMA ResultKeepsPlan ==
  ASSUME DeveloperAssumption, DeveloperInv, NEW files, NEW items, rolePhase = "loop",
         Developer!HasResult(files, items)
  PROVE  DeveloperInv'
<1> DEFINE done == Developer!Open \ (Developer!Matched(items) \union Developer!Unproved(items))
<1>1. /\ claim' = [files |-> files, items |-> items, done |-> done]
      /\ report' = [files |-> report.files \union files,
                   incomplete |-> report.incomplete \union Developer!Unproved(items)]
      /\ rolePhase' \in {"check", "record"} /\ UNCHANGED <<workspace, numbered, ticked, tasks, group>>
  BY DEF Developer!HasResult
<1>2. /\ claim'.done = done /\ claim'.items = items
      /\ report'.incomplete = report.incomplete \union Developer!Unproved(items)
  BY <1>1
<1>3. /\ done \subseteq MCTask /\ Developer!Open' = Developer!Open
      /\ Developer!Open \subseteq done \union Developer!Matched(items) \union Developer!Unproved(items)
      /\ Developer!Unproved(items) \subseteq MCTask
  BY <1>1 DEF Developer!Open, Developer!TasksOf, Developer!Unproved
<1>4. \A t \in done : Developer!HasFiles(t)
  BY DEF Developer!Unproved, Developer!Proved, Developer!HasFiles
<1> HIDE DEF done
<1>5. \A t \in MCTask : Developer!HasFiles(t) => Developer!HasFiles(t)'
  BY <1>1 DEF Developer!HasFiles
<1>6. DeveloperShape' /\ Grounded'
  BY <1>1, <1>2, <1>3, <1>4, <1>5 DEF DeveloperInv, DeveloperShape, Grounded, AtWork, Claimed
<1>7. /\ Developer!Matched(report.incomplete) \subseteq Developer!Matched(report.incomplete)'
      /\ Developer!Unproved(items) \subseteq Developer!Matched(report.incomplete)'
      /\ Developer!Matched(claim.items)' = Developer!Matched(items)
  BY <1>2, <1>3 DEF DeveloperAssumption, Developer!Matched
<1>8. \A t \in MCTask : Settled(t) => Settled(t)'
  BY <1>1, <1>5, <1>7 DEF Settled
<1>9. Accounted'
  BY <1>1, <1>2, <1>3, <1>7, <1>8 DEF DeveloperInv, Accounted, AtWork, Claimed
<1> QED BY <1>6, <1>9 DEF DeveloperInv

LEMMA StoppedKeepsPlan ==
  ASSUME DeveloperAssumption, DeveloperInv, Developer!Stopped
  PROVE  DeveloperInv'
<1>1. /\ report' = [files |-> report.files \union writes,
                   incomplete |-> report.incomplete \union Developer!Open]
      /\ report'.incomplete = report.incomplete \union Developer!Open
      /\ rolePhase = "loop" /\ UNCHANGED <<workspace, numbered, ticked, tasks>>
      /\ \/ UNCHANGED <<group, rolePhase>>
         \/ Developer!NextGroup
      /\ DeveloperShape /\ Grounded
  BY DEF Developer!Stopped, DeveloperInv
<1>2. \A t \in MCTask : Developer!HasFiles(t) => Developer!HasFiles(t)'
  BY <1>1 DEF Developer!HasFiles
<1>3. /\ Developer!Matched(report.incomplete) \subseteq Developer!Matched(report.incomplete)'
      /\ Developer!Open \subseteq Developer!Matched(report.incomplete)'
  BY <1>1 DEF DeveloperAssumption, Developer!Matched, Developer!Open, Developer!TasksOf
<1>4. \A t \in MCTask : Settled(t) => Settled(t)'
  BY <1>1, <1>2, <1>3 DEF Settled
<1>5. \A t \in tasks : Settled(t)'
  BY <1>1 DEF Settled, DeveloperShape
<1>6. \A t \in MCTask : MCGroupOf[t] <= group => Settled(t)'
  <2> SUFFICES ASSUME NEW t \in MCTask, MCGroupOf[t] <= group PROVE Settled(t)'
    OBVIOUS
  <2>1. CASE MCGroupOf[t] < group
    BY <1>1, <1>4, <2>1 DEF DeveloperInv, Accounted, AtWork
  <2>2. CASE MCGroupOf[t] = group
    <3>1. t \in tasks \/ t \in Developer!Open
      BY <2>2 DEF Developer!Open, Developer!TasksOf
    <3>2. t \in Developer!Open => Settled(t)'
      BY <1>3 DEF Settled
    <3> QED BY <1>5, <3>1, <3>2
  <2> QED BY <1>1, <2>1, <2>2 DEF DeveloperAssumption, DeveloperShape
<1>7. Accounted' /\ rolePhase' \in {"loop", "done"} /\ group' \in 0 .. MCGroups + 1
  <2>1. CASE Developer!NextGroup
    BY <1>1, <1>5, <1>6, <2>1, Onwards DEF DeveloperShape
  <2>2. CASE UNCHANGED <<group, rolePhase>>
    BY <1>1, <1>4, <2>2 DEF DeveloperInv, DeveloperShape, Accounted, Claimed, AtWork
  <2> QED BY <1>1, <2>1, <2>2
<1>8. DeveloperShape' /\ Grounded'
  BY <1>1, <1>2, <1>7 DEF DeveloperShape, Grounded, AtWork, Claimed
<1> QED BY <1>7, <1>8 DEF DeveloperInv

LEMMA RecordKeepsPlan ==
  ASSUME DeveloperAssumption, DeveloperInv, Developer!Record
  PROVE  DeveloperInv'
<1>1. /\ report' = [report EXCEPT !.incomplete = report.incomplete \union claim.items]
      /\ rolePhase = "record" /\ Developer!NextGroup /\ UNCHANGED <<workspace, numbered, tasks>>
      /\ ticked' = ticked \union (claim.done \intersect numbered)
      /\ DeveloperShape /\ Grounded /\ claim.done \subseteq MCTask
  BY DEF Developer!Record, DeveloperInv, DeveloperShape, AtWork, Claimed
<1>2. /\ report'.incomplete = report.incomplete \union claim.items
      /\ report' = [files |-> report'.files, incomplete |-> report'.incomplete]
  BY <1>1 DEF DeveloperShape
<1>3. \A t \in MCTask : Developer!HasFiles(t) => Developer!HasFiles(t)'
  BY <1>1 DEF Developer!HasFiles
<1>4. /\ Developer!Matched(report.incomplete) \subseteq Developer!Matched(report.incomplete)'
      /\ Developer!Matched(claim.items) \subseteq Developer!Matched(report.incomplete)'
  BY <1>2 DEF Developer!Matched
<1>5. /\ \A t \in MCTask : Settled(t) => Settled(t)'
      /\ \A t \in tasks : Settled(t)'
      /\ \A t \in claim.done : Settled(t)'
      /\ \A t \in Developer!Matched(claim.items) \union Developer!Matched(report.incomplete) : Settled(t)'
  <2>1. \A t \in claim.done : Developer!HasFiles(t)' /\ (t \in ticked' \/ t \notin numbered')
    BY <1>1, <1>3 DEF Grounded, Claimed, AtWork
  <2>2. ticked \subseteq ticked' /\ tasks \subseteq ticked /\ numbered' = numbered
    BY <1>1 DEF DeveloperShape
  <2> QED BY <1>3, <1>4, <2>1, <2>2 DEF Settled
<1>6. \A t \in MCTask : MCGroupOf[t] <= group => Settled(t)'
  <2> SUFFICES ASSUME NEW t \in MCTask, MCGroupOf[t] <= group PROVE Settled(t)'
    OBVIOUS
  <2>1. CASE MCGroupOf[t] < group
    BY <1>1, <1>5, <2>1 DEF DeveloperInv, Accounted, AtWork
  <2>2. CASE MCGroupOf[t] = group
    <3>1. t \in tasks \union Developer!Open
      BY <2>2 DEF Developer!Open, Developer!TasksOf
    <3>2. Developer!Open \subseteq
            claim.done \union Developer!Matched(claim.items) \union Developer!Matched(report.incomplete)
      BY <1>1 DEF DeveloperInv, Accounted, AtWork, Claimed
    <3> QED BY <1>5, <3>1, <3>2
  <2> QED BY <1>1, <2>1, <2>2 DEF DeveloperAssumption, DeveloperShape
<1>7. Accounted' /\ rolePhase' \in {"loop", "done"} /\ group' \in 0 .. MCGroups + 1
  BY <1>1, <1>5, <1>6, Onwards DEF DeveloperShape
<1>8. DeveloperShape'
  BY <1>1, <1>2, <1>7 DEF DeveloperShape, AtWork, Claimed
<1>9. Grounded'
  BY <1>1, <1>3, <1>7 DEF Grounded, DeveloperShape, AtWork, Claimed
<1> QED BY <1>7, <1>8, <1>9 DEF DeveloperInv

LEMMA EditKeepsPlan ==
  ASSUME DeveloperAssumption, DeveloperInv, NEW f \in MCFile, NEW as \in {"stub", "code"},
         Developer!Edit(f, as)
  PROVE  DeveloperInv'
<1>1. /\ workspace' = [workspace EXCEPT ![f] = as]
      /\ UNCHANGED <<numbered, ticked, tasks, group, claim, report, rolePhase>>
  BY DEF Developer!Edit
<1>2. \A g \in MCFile : workspace[g] # "absent" => workspace'[g] # "absent"
  BY <1>1 DEF DeveloperInv, DeveloperShape
<1>3. \A t \in MCTask : Developer!HasFiles(t) => Developer!HasFiles(t)'
  BY <1>2 DEF Developer!HasFiles, DeveloperAssumption
<1>4. DeveloperShape'
  BY <1>1 DEF DeveloperInv, DeveloperShape
<1>5. Grounded'
  BY <1>1, <1>3 DEF DeveloperInv, DeveloperShape, Grounded
<1>6. \A t \in MCTask : Settled(t) => Settled(t)'
  BY <1>1, <1>3 DEF Settled, Developer!Matched
<1>7. Accounted'
  BY <1>1, <1>6 DEF DeveloperInv, Accounted, Developer!Open, Developer!Matched
<1> QED BY <1>4, <1>5, <1>7 DEF DeveloperInv

LEMMA OthersKeepPlan ==
  ASSUME DeveloperAssumption, DeveloperInv,
         \/ Developer!EndFix \/ Developer!Fail \/ Developer!Again \/ UNCHANGED developer
         \/ \E items \in SUBSET MCTask : Developer!Contradicted(items)
         \/ \E fine \in BOOLEAN : Developer!Check(fine)
  PROVE  DeveloperInv'
<1>1. /\ UNCHANGED <<workspace, numbered, ticked, tasks, group>>
      /\ claim' = claim \/ rolePhase' = "failed"
  BY
    DEF Developer!EndFix, Developer!Fail, Developer!Again, developer, Developer!Contradicted,
        Developer!Check
<1>2. /\ report' = [files |-> report'.files, incomplete |-> report'.incomplete]
      /\ rolePhase' \notin {"start", "failed"} => report'.incomplete = report.incomplete
  BY
    DEF Developer!EndFix, Developer!Fail, Developer!Again, developer, Developer!Contradicted,
        Developer!Check, Developer!NoReport, DeveloperInv, DeveloperShape
<1>3. /\ rolePhase' \in AtWork \union {"start", "done", "failed"}
      /\ rolePhase' = "loop" => rolePhase = "loop"
      /\ rolePhase' \in Claimed => rolePhase \in Claimed
      /\ rolePhase' = "done" => rolePhase = "done"
  BY
    DEF Developer!EndFix, Developer!Fail, Developer!Again, developer, Developer!Contradicted,
        Developer!Check, DeveloperInv, DeveloperShape, AtWork, Claimed
<1>4. DeveloperShape'
  BY <1>1, <1>2, <1>3 DEF DeveloperInv, DeveloperShape, Claimed, AtWork
<1>5. \A t \in MCTask : Developer!HasFiles(t)' <=> Developer!HasFiles(t)
  BY <1>1 DEF Developer!HasFiles
<1>6. Grounded'
  BY <1>1, <1>3, <1>5 DEF DeveloperInv, DeveloperShape, Grounded, Claimed, AtWork
<1>7. rolePhase' \notin {"start", "failed"} =>
        /\ Developer!Matched(report.incomplete)' = Developer!Matched(report.incomplete)
        /\ Developer!Matched(claim.items)' = Developer!Matched(claim.items)
        /\ \A t \in MCTask : Settled(t) => Settled(t)'
  BY <1>1, <1>2, <1>5 DEF Developer!Matched, Settled
<1>8. Accounted'
  BY <1>1, <1>2, <1>3, <1>7 DEF DeveloperInv, Accounted, Claimed, AtWork, Developer!Open
<1> QED BY <1>4, <1>6, <1>8 DEF DeveloperInv

LEMMA DeveloperNext == DeveloperAssumption /\ DeveloperInv /\ [Developer!Next]_developer => DeveloperInv'
<1> SUFFICES ASSUME DeveloperAssumption, DeveloperInv, [Developer!Next]_developer PROVE DeveloperInv'
  OBVIOUS
<1>1. ASSUME NEW files, NEW items, Developer!Result(files, items) PROVE DeveloperInv'
  BY <1>1, ResultKeepsPlan DEF Developer!Result
<1>2. ASSUME NEW folded, Developer!NoResult(folded) PROVE DeveloperInv'
  BY <1>2, ResultKeepsPlan DEF Developer!NoResult
<1> QED
  BY <1>1, <1>2, StartKeepsPlan, StoppedKeepsPlan, RecordKeepsPlan, EditKeepsPlan, OthersKeepPlan
    DEF Developer!Next

LEMMA PlanAccounted == DeveloperInv => Developer!TasksAccounted
BY DEF DeveloperInv, Grounded, Accounted, Settled, Developer!TasksAccounted

\* The types, with the items of a result.
DeveloperTyped ==
  Developer!DeveloperTypeOK /\ (rolePhase \in Claimed => claim.items \subseteq MCTask)

LEMMA DeveloperTypedInit == DeveloperAssumption /\ Developer!Init => DeveloperTyped
BY
  DEF DeveloperAssumption, Developer!Init, Developer!NoReport, DeveloperTyped, Developer!DeveloperTypeOK,
      Claimed, AtWork

LEMMA DeveloperTypedNext ==
  ASSUME DeveloperInv, DeveloperInv', DeveloperTyped, [Developer!Next]_developer
  PROVE  DeveloperTyped'
<1>1. /\ numbered' \in MCPlans /\ ticked' \subseteq MCTask /\ tasks' \subseteq MCTask /\ group' \in 0 .. MCGroups + 1
      /\ rolePhase' \in {"start", "loop", "check", "fix", "record", "done", "failed"}
  BY DEF DeveloperInv, DeveloperShape, AtWork
<1>2. report = [files |-> report.files, incomplete |-> report.incomplete]
  BY DEF DeveloperInv, DeveloperShape
<1>3. /\ workspace \in [MCFile -> {"absent", "stub", "code"}] /\ round \in 0 .. 1 /\ writes \subseteq MCFile
      /\ report.files \subseteq MCFile /\ report.incomplete \subseteq MCTask
      /\ Developer!Open \subseteq MCTask
      /\ rolePhase \in Claimed => claim.items \subseteq MCTask
  BY DEF DeveloperTyped, Developer!DeveloperTypeOK, Developer!Open, Developer!TasksOf
<1> SUFFICES /\ workspace' \in [MCFile -> {"absent", "stub", "code"}] /\ round' \in 0 .. 1
             /\ writes' \subseteq MCFile
             /\ report'.files \subseteq MCFile /\ report'.incomplete \subseteq MCTask
             /\ rolePhase' \in Claimed => claim'.items \subseteq MCTask
  BY <1>1 DEF DeveloperTyped, Developer!DeveloperTypeOK
<1>4. CASE Developer!Start \/ Developer!Fail
  BY <1>3, <1>4 DEF Developer!Start, Developer!Fail, Developer!NoReport, Developer!Work, Claimed, AtWork
<1>5. CASE Developer!EndFix
  BY <1>2, <1>3, <1>5 DEF Developer!EndFix, Claimed, AtWork
<1>6. Developer!NextGroup => round' \in 0 .. 1 /\ writes' \subseteq MCFile /\ rolePhase' \notin Claimed
  BY <1>3 DEF Developer!NextGroup, Developer!Work, Claimed, AtWork
<1>7. CASE Developer!Stopped
  BY <1>3, <1>6, <1>7 DEF Developer!Stopped, Claimed, AtWork
<1>8. CASE Developer!Record
  BY <1>2, <1>3, <1>6, <1>8 DEF Developer!Record, Claimed, AtWork
<1>9. ASSUME NEW f \in MCFile, NEW as \in {"stub", "code"}, Developer!Edit(f, as)
      PROVE  workspace' \in [MCFile -> {"absent", "stub", "code"}] /\ writes' \subseteq MCFile
             /\ UNCHANGED <<round, report, claim, rolePhase>>
  BY <1>3, <1>9 DEF Developer!Edit
<1>10. ASSUME NEW files \in SUBSET MCFile, NEW items \in SUBSET MCTask,
              Developer!HasResult(files, items)
       PROVE  /\ report'.files \subseteq MCFile /\ report'.incomplete \subseteq MCTask
              /\ claim'.items \subseteq MCTask /\ UNCHANGED <<workspace, round, writes>>
  BY <1>3, <1>10 DEF Developer!HasResult, Developer!Unproved
<1>11. CASE \E files \in SUBSET MCFile, items \in SUBSET MCTask : Developer!Result(files, items)
  BY <1>3, <1>10, <1>11 DEF Developer!Result
<1>12. CASE \E folded \in SUBSET MCFile : Developer!NoResult(folded)
  BY <1>3, <1>10, <1>12 DEF Developer!NoResult, Developer!WrittenFiles
<1>13. CASE \/ Developer!Again \/ UNCHANGED developer
            \/ \E items \in SUBSET MCTask : Developer!Contradicted(items)
            \/ \E fine \in BOOLEAN : Developer!Check(fine)
  BY <1>3, <1>13 DEF Developer!Again, developer, Developer!Contradicted, Developer!Check, Claimed, AtWork
<1> QED BY <1>3, <1>4, <1>5, <1>7, <1>8, <1>9, <1>11, <1>12, <1>13 DEF Developer!Next

-----------------------------------------------------------------------------
(* The outcome of a request (AgentProcess). *)

FailureCodes ==
  {"aborted", "timeout", "idle_timeout", "max_turns", "provider_spawn_error", "invalid_response",
   "provider_execution_error", "incomplete_response", "tool_policy_violation"}

\* Limits are numbers, and the null value is no limit, no code and no outcome.
ProcessAssumption ==
  /\ MCMaxTurns \in Nat /\ MCTurnTokens \in Nat
  /\ \A p \in MCProvider : MCLimits[p] \subseteq Nat \union {None}
  /\ None \notin Nat \union FailureCodes
  /\ \A c, u : Provider!Ends(c, u) # None

Line == Provider!Lines("print") \union Provider!Lines("acp")

\* What went wrong first is the failure of the execution, if it has one.
CauseSound ==
  /\ failure = None <=> cause = None
  /\ failure # None => failure.code = cause /\ cause # "result"

\* A command line: until it fails every line it wrote was read or waits.
PrintSound ==
  /\ completed = FALSE
  /\ failure = None => stream \o out = written /\ Provider!Count(stream, "turn") <= MCMaxTurns

ForbiddenLast ==
  \A i, j \in DOMAIN stream : stream[i] = "forbidden" /\ stream[j] = "answer" => j < i

\* A dialogue is completed by its fifth answer; what is forbidden comes too late to be done.
AcpSound == completed = TRUE /\ failure = None => Provider!Answered = 5 /\ ForbiddenLast

\* A process, and what of its output has arrived.
PipeSound ==
  /\ child \in {"running", "exited", "closed", "lost"}
  /\ child = "lost" => failure # None
  /\ child = "closed" => out = <<>> /\ partial = FALSE
  /\ chunk <= Len(out) /\ (partial = TRUE => chunk < Len(out))
  /\ CauseSound

WorkSound ==
  /\ via \in {"probe", "print", "acp", "api"}
  /\ via = "api" <=> request.provider = "api"
  /\ via = "api" => /\ child = "none" /\ scratch = FALSE /\ failure = None /\ chunk = 0
                    /\ cause \in {None, "aborted", "timeout"} /\ (cause = "aborted" => signal = TRUE)
  /\ via # "api" => PipeSound
  /\ via = "probe" => /\ stream = <<>> /\ out = <<>> /\ written = <<>>
                      /\ completed = FALSE /\ child \in {"running", "lost"}
  /\ via = "print" => PrintSound
  /\ via = "acp" => AcpSound

Resting ==
  /\ child = "none" /\ out = <<>> /\ stream = <<>> /\ written = <<>> /\ chunk = 0
  /\ partial = FALSE /\ completed = FALSE /\ scratch = FALSE
  /\ failure = None /\ settled = None /\ cause = None

ProcessInv ==
  /\ request.limit # None => request.limit \in Nat
  /\ out \in Seq(Line) /\ stream \in Seq(Line) /\ written \in Seq(Line) /\ chunk \in Nat
  /\ partial \in BOOLEAN /\ completed \in BOOLEAN /\ signal \in BOOLEAN /\ scratch \in BOOLEAN
  /\ turn = "none" => Resting
  /\ settled = None => turn \in {"none", "started"}
  /\ Provider!Working => WorkSound
  /\ settled # None => turn # "none" /\ chunk = 0 /\ Provider!OutcomeIsTrue

\* The instance counts as the library does.
LEMMA CountOf ==
  ASSUME NEW s, NEW y
  PROVE  Provider!Count(s, y) = Cardinality({i \in DOMAIN s : s[i] = y})
<1>1. \A S : Provider!Cardinality(S) = Cardinality(S)
  BY Zenon DEF Provider!Cardinality, Cardinality
<1> QED BY <1>1 DEF Provider!Count

\* How often a line was read.
LEMMA Counted ==
  ASSUME NEW S, NEW s \in Seq(S), NEW y
  PROVE  /\ {i \in DOMAIN s : s[i] = y} \in SUBSET (1 .. Len(s)) /\ IsFiniteSet({i \in DOMAIN s : s[i] = y})
         /\ Provider!Count(s, y) \in Nat
         /\ Provider!Has(s, y) <=> \E i \in DOMAIN s : s[i] = y
<1> DEFINE hits == {i \in DOMAIN s : s[i] = y}
<1>1. hits \in SUBSET (1 .. Len(s))
  OBVIOUS
<1>2. IsFiniteSet(1 .. Len(s))
  BY FS_Interval
<1>3. IsFiniteSet(hits)
  BY <1>1, <1>2, FS_Subset
<1>4. Cardinality(hits) \in Nat
  BY <1>3, FS_CardinalityType
<1>5. Cardinality(hits) = 0 <=> hits = {}
  BY <1>3, FS_EmptySet
<1>6. Provider!Count(s, y) = Cardinality(hits)
  BY CountOf
<1>7. hits # {} <=> \E i \in DOMAIN s : s[i] = y
  OBVIOUS
<1> HIDE DEF hits
<1>8. Provider!Has(s, y) <=> hits # {}
  BY <1>4, <1>5, <1>6 DEF Provider!Has
<1> QED BY <1>1, <1>3, <1>4, <1>6, <1>7, <1>8 DEF hits

LEMMA CountedNext ==
  ASSUME NEW S, NEW s \in Seq(S), NEW x \in S, NEW y
  PROVE  Provider!Count(Append(s, x), y) = IF x = y THEN Provider!Count(s, y) + 1 ELSE Provider!Count(s, y)
<1> DEFINE hits == {i \in DOMAIN s : s[i] = y}
           then == {i \in DOMAIN Append(s, x) : Append(s, x)[i] = y}
<1>1. /\ Len(s) \in Nat /\ DOMAIN s = 1 .. Len(s) /\ DOMAIN Append(s, x) = 1 .. (Len(s) + 1)
      /\ Append(s, x)[Len(s) + 1] = x
      /\ \A i \in 1 .. Len(s) : Append(s, x)[i] = s[i]
  OBVIOUS
<1>2. IsFiniteSet(hits) /\ Len(s) + 1 \notin hits
  <2>1. IsFiniteSet(hits)
    BY Counted
  <2>2. Len(s) + 1 \notin hits
    BY <1>1
  <2> QED BY <2>1, <2>2
<1>3. CASE x = y
  <2>1. then = hits \union {Len(s) + 1}
    BY <1>1, <1>3
  <2>2. Cardinality(hits \union {Len(s) + 1}) = Cardinality(hits) + 1
    <3> HIDE DEF hits, then
    <3> QED BY <1>2, FS_AddElement
  <2> QED BY <1>3, <2>1, <2>2, CountOf
<1>4. CASE x # y
  <2>1. then = hits
    BY <1>1, <1>4
  <2> QED BY <1>4, <2>1 DEF Provider!Count
<1> QED BY <1>3, <1>4

LEMMA LargestOf ==
  ASSUME NEW n \in Nat, NEW S \in SUBSET (1 .. n), S # {}
  PROVE  \E i \in S : \A j \in S : j <= i
<1> DEFINE T == {n - i : i \in S}
<1>1. PICK k \in S : TRUE
  OBVIOUS
<1>2. T \in SUBSET Nat /\ n - k \in T
  <2>1. \A i \in S : n - i \in Nat
    OBVIOUS
  <2> QED BY <2>1
<1>3. PICK t \in T : \A j \in T : <<j, t>> \notin OpToRel(<, Nat)
  <2> HIDE DEF T
  <2> QED BY <1>2, NatLessThanWellFounded, WFMin
<1>4. \A j \in T : ~(j < t)
  <2> SUFFICES ASSUME NEW j \in T, j < t PROVE <<j, t>> \in OpToRel(<, Nat)
    BY <1>3
  <2>1. <<j, t>> \in Nat \X Nat /\ <<j, t>>[1] < <<j, t>>[2]
    BY <1>2
  <2> QED BY <2>1 DEF OpToRel
<1>5. PICK i \in S : t = n - i
  OBVIOUS
<1>6. \A j \in S : ~(n - j < n - i)
  BY <1>4, <1>5
<1>7. ASSUME NEW j \in S PROVE j <= i
  <2>1. j \in 1 .. n /\ i \in 1 .. n
    OBVIOUS
  <2> HIDE DEF T
  <2> QED BY <1>6, <2>1
<1> QED BY <1>7

LEMMA LastPlace ==
  ASSUME NEW S, NEW s \in Seq(S), NEW y
  PROVE  /\ Provider!LastOf(s, y) \in Nat
         /\ ~Provider!Has(s, y) => Provider!LastOf(s, y) = 0
         /\ Provider!Has(s, y) => Provider!LastOf(s, y) \in DOMAIN s
<1> DEFINE hits == {i \in DOMAIN s : s[i] = y}
<1>1. CASE ~Provider!Has(s, y)
  BY <1>1 DEF Provider!LastOf
<1>2. CASE Provider!Has(s, y)
  <2>1. Len(s) \in Nat /\ hits \in SUBSET (1 .. Len(s))
    OBVIOUS
  <2>0. hits # {}
    <3>1. \E i \in DOMAIN s : s[i] = y
      BY <1>2, Counted
    <3> QED BY <3>1
  <2>2. \E i \in hits : \A j \in hits : j <= i
    <3> HIDE DEF hits
    <3> QED BY <2>0, <2>1, LargestOf
  <2>3. \E i \in DOMAIN s : s[i] = y /\ \A j \in DOMAIN s : s[j] = y => j <= i
    BY <2>2
  <2>4. Provider!LastOf(s, y) \in DOMAIN s
    BY <1>2, <2>3 DEF Provider!LastOf
  <2> QED BY <1>2, <2>1, <2>4
<1> QED BY <1>1, <1>2

LEMMA ReportedNat ==
  ASSUME ProcessAssumption, NEW s \in Seq(Line)
  PROVE  Provider!Reported(s) \in Nat \union {None}
<1>1. MCTurnTokens * Provider!Count(s, "turn") \in Nat
  <2>1. Provider!Count(s, "turn") \in Nat /\ MCTurnTokens \in Nat
    BY Counted DEF ProcessAssumption
  <2> QED BY <2>1
<1>2. ASSUME Provider!Has(s, "final")
      PROVE  MCTurnTokens * Provider!Count(SubSeq(s, 1, Provider!LastOf(s, "final")), "turn") \in Nat
  <2>1. Provider!LastOf(s, "final") \in DOMAIN s
    BY <1>2, LastPlace
  <2>2. SubSeq(s, 1, Provider!LastOf(s, "final")) \in Seq(Line)
    BY <2>1
  <2>3. Provider!Count(SubSeq(s, 1, Provider!LastOf(s, "final")), "turn") \in Nat
    BY <2>2, Counted
  <2> QED BY <2>3 DEF ProcessAssumption
<1> QED
  BY <1>1, <1>2 DEF Provider!Reported

\* A command that the executor takes for a success ended as one, within its limit.
LEMMA VerdictResult ==
  ASSUME ProcessAssumption, NEW s \in Seq(Line), NEW exit, Provider!Verdict(s, exit).code = "result",
         request.limit # None => request.limit \in Nat
  PROVE  /\ exit = 0 /\ Provider!Has(s, "final")
         /\ Provider!LastOf(s, "error") <= Provider!LastOf(s, "final")
         /\ request.limit # None => Provider!Verdict(s, exit).usage \in 0 .. request.limit
<1> DEFINE atLimit == request.provider = "claude" /\ Provider!Has(s, "limit")
<1>1. ~atLimit
  BY DEF Provider!Verdict, Provider!Ends
<1>2. exit = 0 /\ ~Provider!Failed(s)
  BY <1>1 DEF Provider!Verdict, Provider!Ends
<1>3. Provider!Terminal(s)
  BY <1>1, <1>2 DEF Provider!Verdict, Provider!Ends
<1>4. Provider!Has(s, "final")
  BY <1>1, <1>3 DEF Provider!Terminal
<1>5. Provider!LastOf(s, "error") <= Provider!LastOf(s, "final")
  <2>1. /\ Provider!LastOf(s, "error") \in Nat /\ Provider!LastOf(s, "final") \in Nat
        /\ (~Provider!Has(s, "error") => Provider!LastOf(s, "error") = 0)
    BY LastPlace
  <2>2. ~(Provider!LastOf(s, "error") > Provider!LastOf(s, "final")) \/ ~Provider!Has(s, "error")
    BY <1>2 DEF Provider!Failed
  <2> QED BY <2>1, <2>2
<1>6. ASSUME request.limit # None PROVE Provider!Verdict(s, exit).usage \in 0 .. request.limit
  <2>1. /\ Provider!Reported(s) # None /\ ~(Provider!Reported(s) > request.limit)
        /\ Provider!Verdict(s, exit).usage = Provider!Reported(s)
    BY <1>1, <1>2, <1>3, <1>6 DEF Provider!Verdict, Provider!Ends
  <2> QED BY <1>6, <2>1, ReportedNat
<1> QED BY <1>2, <1>4, <1>5, <1>6

\* The first failure is the cause, whatever fails later.
LEMMA FailSound ==
  ASSUME ProcessAssumption, CauseSound, NEW c \in FailureCodes, NEW u, Provider!Fail(c, u)
  PROVE  CauseSound' /\ failure' # None
<1>1. Provider!Ends(c, u) # None /\ Provider!Ends(c, u).code = c /\ c # None /\ c # "result"
  BY DEF ProcessAssumption, FailureCodes, Provider!Ends
<1>2. CASE failure = None
  <2>1. failure' = Provider!Ends(c, u) /\ cause' = c
    BY <1>2 DEF Provider!Fail, Provider!Earliest, CauseSound
  <2> QED BY <1>1, <2>1 DEF CauseSound
<1>3. CASE failure # None
  <2>1. failure' = failure /\ cause' = cause
    BY <1>3 DEF Provider!Fail, Provider!Earliest, CauseSound
  <2> QED BY <1>3, <2>1 DEF CauseSound
<1> QED BY <1>2, <1>3

\* A line is handled: the stream grows by it, or it changes nothing.
LEMMA PrintLineSound ==
  ASSUME ProcessAssumption, CauseSound, stream \in Seq(Line), NEW line \in Line, Provider!PrintLine(line),
         failure = None => Provider!Count(stream, "turn") <= MCMaxTurns
  PROVE  /\ CauseSound' /\ stream' = Append(stream, line) /\ completed' = completed
         /\ failure' = None => failure = None /\ Provider!Count(stream', "turn") <= MCMaxTurns
<1>1. stream' = Append(stream, line) /\ completed' = completed
  BY DEF Provider!PrintLine
<1>2. CASE line = "turn" /\ Provider!Count(stream', "turn") > MCMaxTurns
  <2>1. Provider!Fail("max_turns", Provider!Reported(stream'))
    BY <1>2 DEF Provider!PrintLine
  <2>2. CauseSound' /\ failure' # None
    BY <2>1, FailSound DEF FailureCodes
  <2> QED BY <1>1, <2>2
<1>3. CASE ~(line = "turn" /\ Provider!Count(stream', "turn") > MCMaxTurns)
  <2>1. UNCHANGED <<failure, cause>>
    BY <1>3 DEF Provider!PrintLine, Provider!Healthy
  <2>2. CauseSound'
    BY <2>1 DEF CauseSound
  <2>3. failure' = None => Provider!Count(stream', "turn") <= MCMaxTurns
    <3>1. CASE line = "turn"
      <4>1. Provider!Count(stream', "turn") \in Nat /\ MCMaxTurns \in Nat
        BY <1>1, Counted, AppendProperties DEF ProcessAssumption
      <4> QED BY <1>3, <3>1, <4>1
    <3>2. CASE line # "turn"
      <4>1. Provider!Count(stream', "turn") = Provider!Count(stream, "turn")
        BY <1>1, <3>2, CountedNext
      <4> QED BY <2>1, <4>1
    <3> QED BY <3>1, <3>2
  <2> QED BY <1>1, <2>1, <2>2, <2>3
<1> QED BY <1>2, <1>3

LEMMA AcpLineSound ==
  ASSUME ProcessAssumption, CauseSound, AcpSound, stream \in Seq(Line), NEW line \in Line,
         Provider!AcpLine(line),
         completed \in BOOLEAN
  PROVE  /\ CauseSound' /\ AcpSound' /\ stream' \in Seq(Line) /\ completed' \in BOOLEAN
         /\ failure' = None => failure = None
<1> DEFINE problem == Provider!AcpProblem(line)
           over == line = "answer" /\ Provider!Answered = 4 /\ problem = None
<1>1. problem \in FailureCodes \union {None}
  BY DEF Provider!AcpProblem, FailureCodes
<1>2. /\ stream' = (IF Provider!Idle(line) THEN stream ELSE Append(stream, line))
      /\ completed' = (completed \/ over)
      /\ problem # None => Provider!Fail(problem, None)
      /\ problem = None => UNCHANGED <<failure, cause>>
  BY DEF Provider!AcpLine
<1>3. stream' \in Seq(Line) /\ completed' \in BOOLEAN
  BY <1>2
<1>4. /\ Provider!Answered \in Nat
      /\ \A y : Provider!Count(Append(stream, line), y) =
                IF line = y THEN Provider!Count(stream, y) + 1 ELSE Provider!Count(stream, y)
  BY Counted, CountedNext DEF Provider!Answered
<1>5. CASE problem # None
  <2>1. CauseSound' /\ failure' # None
    BY <1>1, <1>2, <1>5, FailSound
  <2> QED BY <1>3, <2>1 DEF AcpSound
<1>6. CASE problem = None
  <2>1. CauseSound'
    BY <1>2, <1>6 DEF CauseSound
  <2>2. ASSUME completed' = TRUE, failure' = None PROVE Provider!Answered' = 5 /\ ForbiddenLast'
    <3>1. CASE over
      <4>1. /\ ~Provider!Idle(line) /\ ~Provider!Has(stream, "forbidden") /\ line = "answer"
            /\ Provider!Answered = 4
        BY <1>6, <3>1 DEF Provider!Idle, Provider!AcpProblem, ProcessAssumption, FailureCodes
      <4>2. stream' = Append(stream, "answer") /\ "answer" \in Line
        BY <1>2, <4>1
      <4>3. Provider!Answered' = 5
        BY <1>4, <4>1, <4>2 DEF Provider!Answered
      <4>4. \A i \in DOMAIN stream : stream[i] # "forbidden"
        BY <4>1, Counted
      <4>5. \A i \in DOMAIN stream' : stream'[i] # "forbidden"
        BY <4>2, <4>4
      <4> QED BY <4>3, <4>5 DEF ForbiddenLast
    <3>2. CASE ~over
      <4>1. completed = TRUE /\ failure = None
        BY <1>2, <1>6, <2>2, <3>2
      <4>2. Provider!Answered = 5 /\ ForbiddenLast
        BY <4>1 DEF AcpSound
      <4>3. line # "answer"
        BY <1>6, <4>2 DEF Provider!AcpProblem, ProcessAssumption, FailureCodes
      <4>4. CASE stream' = stream
        BY <4>2, <4>4 DEF Provider!Answered, ForbiddenLast
      <4>5. CASE stream' = Append(stream, line)
        <5>1. Provider!Answered' = 5
          BY <1>4, <4>2, <4>3, <4>5 DEF Provider!Answered
        <5>2. /\ DOMAIN stream = 1 .. Len(stream) /\ DOMAIN stream' = 1 .. (Len(stream) + 1)
              /\ Len(stream) \in Nat
              /\ \A i \in DOMAIN stream : stream'[i] = stream[i]
              /\ stream'[Len(stream) + 1] = line
          BY <4>5
        <5>3. ForbiddenLast'
          <6> SUFFICES ASSUME NEW i \in DOMAIN stream', NEW j \in DOMAIN stream',
                              stream'[i] = "forbidden", stream'[j] = "answer"
                       PROVE  j < i
            BY DEF ForbiddenLast
          <6>1. j \in DOMAIN stream /\ stream[j] = "answer"
            BY <4>3, <5>2
          <6>2. CASE i \in DOMAIN stream
            BY <4>2, <5>2, <6>1, <6>2 DEF ForbiddenLast
          <6>3. CASE i = Len(stream) + 1
            BY <5>2, <6>1, <6>3
          <6> QED BY <5>2, <6>2, <6>3
        <5> QED BY <5>1, <5>3
      <4> QED BY <1>2, <4>4, <4>5
    <3> QED BY <3>1, <3>2
  <2> QED BY <1>2, <1>3, <1>6, <2>1, <2>2 DEF AcpSound
<1> QED BY <1>5, <1>6

LEMMA ProcessInit == ProcessAssumption /\ Provider!Init => ProcessInv
<1> SUFFICES ASSUME ProcessAssumption, Provider!Init PROVE ProcessInv
  OBVIOUS
<1>1. request.limit \in Nat \union {None}
  BY DEF Provider!Init, ProcessAssumption
<1>2. Resting /\ turn = "none" /\ ~Provider!Working
  BY DEF Provider!Init, Resting, Provider!Working
<1>3. partial \in BOOLEAN /\ completed \in BOOLEAN /\ signal \in BOOLEAN /\ scratch \in BOOLEAN
  BY DEF Provider!Init
<1>4. out \in Seq(Line) /\ stream \in Seq(Line) /\ written \in Seq(Line) /\ chunk \in Nat
  BY DEF Provider!Init
<1> QED BY <1>1, <1>2, <1>3, <1>4 DEF ProcessInv, Resting

\* Once a request is settled, and before it starts, nothing else happens.
LEMMA NothingAfter ==
  ASSUME ProcessInv, settled # None, [Provider!Next]_provider
  PROVE  UNCHANGED provider
<1>1. turn # "none" /\ chunk = 0 /\ ~Provider!Working
  BY DEF ProcessInv, Provider!Working
<1> QED
  BY <1>1
    DEF Provider!Next, Provider!Start, Provider!Refuse, Provider!Cancel, Provider!ProbeEnds,
        Provider!Spawned, Provider!LaunchFails, Provider!TimeOut, Provider!Write, Provider!Arrive,
        Provider!ReadLine, Provider!Exit, Provider!CloseFailed, Provider!TakeRest, Provider!Conclude,
        Provider!ApiCall, Provider!ApiTimeOut, Provider!ApiEnds, ProcessInv

LEMMA SameSound ==
  ASSUME ProcessInv, UNCHANGED provider
  PROVE  ProcessInv'
BY
  DEF ProcessInv, provider, Provider!process, Provider!Working, WorkSound, Resting,
      Provider!OutcomeIsTrue, PipeSound, CauseSound, PrintSound, AcpSound, ForbiddenLast,
      Provider!Answered

LEMMA StartSound ==
  ASSUME ProcessAssumption, ProcessInv, Provider!Start \/ Provider!Refuse
  PROVE  ProcessInv'
<1>1. turn = "none" /\ Resting /\ request' = request
  BY DEF Provider!Start, Provider!Refuse, ProcessInv
<1>2. CASE Provider!Refuse
  <2>1. /\ settled' = Provider!Ends("usage_unavailable", None) /\ turn' = "failed"
        /\ UNCHANGED <<request, via, Provider!process, failure, stream, signal, closed, scratch, written, cause>>
    BY <1>2 DEF Provider!Refuse
  <2>2. settled' # None /\ settled'.code # "result" /\ ~Provider!Working'
    BY <2>1 DEF ProcessAssumption, Provider!Ends, Provider!Working
  <2>3. Provider!OutcomeIsTrue'
    BY <1>1, <2>1, <2>2 DEF Provider!OutcomeIsTrue, Resting, Provider!process
  <2> QED BY <1>1, <2>1, <2>2, <2>3 DEF ProcessInv, Resting, Provider!process
<1>3. CASE Provider!Start
  <2>1. /\ turn' = "started"
        /\ UNCHANGED <<request, code, out, partial, chunk, completed, failure, stream, signal, settled,
                      written, cause>>
        /\ child' = (IF request.provider = "api" THEN "none" ELSE "running")
        /\ scratch' = (request.provider # "api")
    BY <1>3 DEF Provider!Start
  <2>2. via' \in {"probe", "print", "api"} /\ (via' = "api" <=> request.provider = "api")
    BY <1>3 DEF Provider!Start
  <2>3. CauseSound'
    BY <1>1, <2>1 DEF CauseSound, Resting
  <2>4. Provider!Count(stream', "turn") = 0
    <3>1. stream' = <<>>
      BY <1>1, <2>1 DEF Resting
    <3>2. {i \in DOMAIN stream' : stream'[i] = "turn"} = {}
      BY <3>1
    <3> QED BY <3>2, FS_EmptySet, CountOf
  <2>5. PipeSound' \/ via' = "api"
    BY <1>1, <2>1, <2>2, <2>3 DEF PipeSound, Resting
  <2>6. PrintSound'
    BY <1>1, <2>1, <2>4 DEF PrintSound, Resting, ProcessAssumption
  <2>7. WorkSound'
    <3>1. CASE request.provider = "api"
      <4>1. via' = "api" /\ child' = "none"
        BY <2>1, <2>2, <3>1
      <4>2. scratch' = FALSE
        BY <2>1, <3>1
      <4> QED BY <1>1, <2>1, <3>1, <4>1, <4>2 DEF WorkSound, Resting, ProcessAssumption, FailureCodes
    <3>2. CASE request.provider # "api"
      BY <1>1, <2>1, <2>2, <2>5, <2>6, <3>2 DEF WorkSound, Resting
    <3> QED BY <3>1, <3>2
  <2>8. scratch' \in BOOLEAN
    BY <2>1
  <2> QED BY <1>1, <2>1, <2>7, <2>8 DEF ProcessInv, Resting, Provider!Working
<1> QED BY <1>2, <1>3

\* What the steps of a request that is under way share.
Works == Provider!Working /\ settled' = None /\ turn' = turn /\ request' = request

LEMMA WorkNext ==
  ASSUME ProcessInv, Works, WorkSound',
         out' \in Seq(Line), stream' \in Seq(Line), written' \in Seq(Line), chunk' \in Nat,
         partial' \in BOOLEAN, completed' \in BOOLEAN, signal' \in BOOLEAN, scratch' \in BOOLEAN
  PROVE  ProcessInv'
BY DEF ProcessInv, Works, Provider!Working

LEMMA CancelSound ==
  ASSUME ProcessAssumption, ProcessInv, NEW close \in BOOLEAN, Provider!Cancel(close)
  PROVE  ProcessInv'
<1>1. /\ Works /\ WorkSound /\ chunk = 0 /\ signal' = TRUE
      /\ UNCHANGED <<via, child, out, partial, chunk, completed, stream, scratch, written>>
  BY DEF Provider!Cancel, Works, Provider!Working, ProcessInv
<1>2. CASE Provider!Listening
  <2>1. Provider!Fail("aborted", None) /\ via # "api"
    BY <1>1, <1>2 DEF Provider!Cancel, WorkSound, Provider!Listening
  <2>2. CauseSound' /\ failure' # None
    BY <1>1, <2>1, FailSound DEF WorkSound, PipeSound, FailureCodes
  <2>3. PipeSound'
    BY <1>1, <2>1, <2>2 DEF WorkSound, PipeSound
  <2>4. WorkSound'
    BY <1>1, <2>1, <2>2, <2>3 DEF WorkSound, PrintSound, AcpSound, Works
  <2> QED BY <1>1, <2>4, WorkNext DEF ProcessInv
<1>3. CASE ~Provider!Listening
  <2>1. /\ cause' = (IF via = "api" /\ cause = None THEN "aborted" ELSE cause)
        /\ UNCHANGED failure
    BY <1>3 DEF Provider!Cancel
  <2>2. WorkSound'
    <3>1. CASE via = "api"
      BY <1>1, <2>1, <3>1 DEF WorkSound, Works
    <3>2. CASE via # "api"
      BY <1>1, <2>1, <3>2
        DEF WorkSound, PipeSound, CauseSound, PrintSound, AcpSound, ForbiddenLast, Provider!Answered,
            Works
    <3> QED BY <3>1, <3>2
  <2> QED BY <1>1, <2>2, WorkNext DEF ProcessInv
<1> QED BY <1>2, <1>3

LEMMA TimeOutSound ==
  ASSUME ProcessAssumption, ProcessInv, NEW limit \in {"timeout", "idle_timeout"}, Provider!TimeOut(limit)
  PROVE  ProcessInv'
<1>1. /\ Works /\ WorkSound /\ Provider!Listening /\ Provider!Fail(limit, None)
      /\ UNCHANGED <<via, child, out, partial, chunk, completed, stream, scratch, written, signal>>
  BY DEF Provider!TimeOut, Works, Provider!Working, ProcessInv
<1>2. via # "api"
  BY <1>1 DEF WorkSound, Provider!Listening
<1>3. CauseSound' /\ failure' # None
  BY <1>1, <1>2, FailSound DEF WorkSound, PipeSound, FailureCodes
<1>4. PipeSound'
  BY <1>1, <1>2, <1>3 DEF WorkSound, PipeSound
<1>5. WorkSound'
  BY <1>1, <1>2, <1>3, <1>4 DEF WorkSound, PrintSound, AcpSound, Works
<1> QED BY <1>1, <1>5, WorkNext DEF ProcessInv

LEMMA LaunchSound ==
  ASSUME ProcessAssumption, ProcessInv, Provider!LaunchFails
  PROVE  ProcessInv'
<1>1. /\ Works /\ WorkSound /\ child = "running" /\ child' = "lost"
      /\ failure' = Provider!Ends("provider_spawn_error", None) /\ cause' = "provider_spawn_error"
      /\ UNCHANGED <<via, out, partial, chunk, completed, stream, scratch, written, signal>>
  BY DEF Provider!LaunchFails, Provider!Spawned, Works, Provider!Working, ProcessInv
<1>2. via # "api"
  BY <1>1 DEF WorkSound
<1>3. CauseSound' /\ failure' # None
  BY <1>1 DEF CauseSound, Provider!Ends, ProcessAssumption, FailureCodes
<1>4. PipeSound'
  BY <1>1, <1>2, <1>3 DEF WorkSound, PipeSound
<1>5. WorkSound'
  BY <1>1, <1>2, <1>3, <1>4 DEF WorkSound, PrintSound, AcpSound, Works
<1> QED BY <1>1, <1>5, WorkNext DEF ProcessInv

LEMMA WriteSound ==
  ASSUME ProcessAssumption, ProcessInv, NEW line \in Line, NEW ended \in BOOLEAN,
         Provider!Write(line, ended)
  PROVE  ProcessInv'
<1>1. /\ Works /\ WorkSound /\ child = "running" /\ via \in {"print", "acp"} /\ chunk = 0 /\ failure = None
      /\ out' = Append(out, line) /\ written' = (IF via = "print" THEN Append(written, line) ELSE written)
      /\ partial' = ~ended
      /\ UNCHANGED <<via, child, chunk, completed, failure, cause, stream, scratch, signal>>
      /\ out \in Seq(Line) /\ stream \in Seq(Line) /\ written \in Seq(Line)
  BY DEF Provider!Write, Provider!Spawned, Works, Provider!Working, ProcessInv
<1>2. /\ out' \in Seq(Line) /\ written' \in Seq(Line) /\ partial' \in BOOLEAN /\ Len(out') > 0
  BY <1>1
<1>3. PipeSound'
  BY <1>1, <1>2 DEF WorkSound, PipeSound, CauseSound
<1>4. via = "print" => PrintSound'
  <2> SUFFICES ASSUME via = "print" PROVE PrintSound'
    OBVIOUS
  <2>1. stream \o out = written /\ completed = FALSE /\ Provider!Count(stream, "turn") <= MCMaxTurns
    BY <1>1 DEF WorkSound, PrintSound
  <2>2. stream \o Append(out, line) = Append(stream \o out, line)
    BY <1>1
  <2> QED BY <1>1, <2>1, <2>2 DEF PrintSound
<1>5. via = "acp" => AcpSound'
  BY <1>1 DEF WorkSound, AcpSound, ForbiddenLast, Provider!Answered
<1>6. WorkSound'
  BY <1>1, <1>3, <1>4, <1>5 DEF WorkSound, Works
<1> QED BY <1>1, <1>2, <1>6, WorkNext DEF ProcessInv

LEMMA ArriveSound ==
  ASSUME ProcessAssumption, ProcessInv, NEW n \in Nat, Provider!Arrive(n)
  PROVE  ProcessInv'
<1>1. /\ Works /\ WorkSound /\ child \in {"running", "exited"} /\ n \in 1 .. Provider!Whole /\ chunk' = n
      /\ UNCHANGED <<via, child, out, partial, completed, failure, cause, stream, written, scratch, signal>>
      /\ out \in Seq(Line)
  BY DEF Provider!Arrive, Works, Provider!Working, ProcessInv
<1>2. chunk' <= Len(out) /\ (partial = TRUE => chunk' < Len(out)) /\ n <= Len(out)
  BY <1>1 DEF Provider!Whole
<1>3. via # "api" => PipeSound'
  BY <1>1, <1>2 DEF WorkSound, PipeSound, CauseSound
<1>4. WorkSound'
  <2>1. via # "api"
    BY <1>1 DEF WorkSound
  <2> QED BY <1>1, <1>3, <2>1 DEF WorkSound, PrintSound, AcpSound, ForbiddenLast, Provider!Answered, Works
<1> QED BY <1>1, <1>4, WorkNext DEF ProcessInv

LEMMA ExitSound ==
  ASSUME ProcessAssumption, ProcessInv, NEW c \in {0, 1}, Provider!Exit(c)
  PROVE  ProcessInv'
<1>1. /\ Works /\ WorkSound /\ via \in {"print", "acp"} /\ child' = "exited" /\ child = "running"
      /\ UNCHANGED <<via, out, partial, chunk, completed, failure, cause, stream, written, scratch, signal>>
  BY DEF Provider!Exit, Provider!Spawned, Works, Provider!Working, ProcessInv
<1>2. PipeSound'
  BY <1>1 DEF WorkSound, PipeSound, CauseSound
<1>3. WorkSound'
  BY <1>1, <1>2 DEF WorkSound, PrintSound, AcpSound, ForbiddenLast, Provider!Answered, Works
<1> QED BY <1>1, <1>3, WorkNext DEF ProcessInv

LEMMA ApiSound ==
  ASSUME ProcessAssumption, ProcessInv, Provider!ApiCall \/ Provider!ApiTimeOut
  PROVE  ProcessInv'
<1>1. /\ Works /\ WorkSound /\ via = "api" /\ stream \in Seq(Line)
      /\ UNCHANGED <<via, child, out, partial, chunk, completed, failure, written, scratch, signal>>
      /\ cause' \in {cause, "timeout"} /\ stream' \in {stream, Append(stream, "turn")}
  BY DEF Provider!ApiCall, Provider!ApiTimeOut, Provider!process, Works, Provider!Working, ProcessInv
<1>2. "turn" \in Line
  BY DEF Line, Provider!Lines
<1>3. stream' \in Seq(Line)
  BY <1>1, <1>2
<1>4. WorkSound'
  BY <1>1 DEF WorkSound, Works
<1> QED BY <1>1, <1>3, <1>4, WorkNext DEF ProcessInv

LEMMA Carried ==
  ASSUME NEW S, NEW s \in Seq(S), NEW t \in Seq(S), t # <<>>
  PROVE  Head(t) \in S /\ Tail(t) \in Seq(S) /\ Append(s, Head(t)) \o Tail(t) = s \o t
<1>1. /\ Head(t) \in S /\ Tail(t) \in Seq(S) /\ Len(Tail(t)) = Len(t) - 1 /\ Len(t) \in Nat \ {0}
      /\ Len(s) \in Nat
  OBVIOUS
<1>2. Len(Append(s, Head(t)) \o Tail(t)) = Len(s \o t)
  BY <1>1
<1>3. ASSUME NEW i \in 1 .. Len(s \o t) PROVE (Append(s, Head(t)) \o Tail(t))[i] = (s \o t)[i]
  BY <1>1
<1>4. Append(s, Head(t)) \o Tail(t) \in Seq(S) /\ s \o t \in Seq(S)
  BY <1>1
<1> QED BY <1>1, <1>2, <1>3, <1>4, SeqEqual

\* The next line of a chunk, or the one without an end.
LEMMA HandleSound ==
  ASSUME ProcessAssumption, ProcessInv, Works, out # <<>>, Provider!Handle(Head(out)),
         via \in {"print", "acp"},
         via' = via, out' = Tail(out), written' = written, chunk' \in Nat, chunk' <= Len(out'),
         child' \in {child, "closed"}, child # "closed",
         child' = "closed" => out' = <<>> /\ partial' = FALSE,
         partial' = TRUE => chunk' < Len(out'), partial' \in BOOLEAN, UNCHANGED <<signal, scratch>>
  PROVE  ProcessInv'
<1>1. /\ WorkSound /\ PipeSound /\ out \in Seq(Line) /\ stream \in Seq(Line) /\ written \in Seq(Line)
      /\ via # "api" /\ request.provider # "api" /\ completed \in BOOLEAN
  BY DEF ProcessInv, Works, WorkSound
<1>2. /\ Head(out) \in Line /\ out' \in Seq(Line)
      /\ Append(stream, Head(out)) \o out' = stream \o out
  BY <1>1, Carried
<1>3. /\ CauseSound' /\ stream' \in Seq(Line) /\ completed' \in BOOLEAN
      /\ failure' = None => failure = None
      /\ via = "print" => PrintSound'
      /\ via = "acp" => AcpSound'
  <2>1. CASE via = "print"
    <3>1. Provider!PrintLine(Head(out)) /\ PrintSound /\ CauseSound
      BY <1>1, <2>1 DEF Provider!Handle, WorkSound, PipeSound
    <3>2. /\ CauseSound' /\ stream' = Append(stream, Head(out)) /\ completed' = completed
          /\ failure' = None => failure = None /\ Provider!Count(stream', "turn") <= MCMaxTurns
      BY <1>1, <1>2, <3>1, PrintLineSound DEF PrintSound
    <3>3. stream' \in Seq(Line)
      BY <1>1, <1>2, <3>2
    <3> QED BY <1>1, <1>2, <2>1, <3>1, <3>2, <3>3 DEF PrintSound
  <2>2. CASE via = "acp"
    <3>1. Provider!AcpLine(Head(out)) /\ AcpSound /\ CauseSound
      BY <1>1, <2>2 DEF Provider!Handle, WorkSound, PipeSound
    <3> QED BY <1>1, <1>2, <2>2, <3>1, AcpLineSound
  <2> QED BY <2>1, <2>2
<1>4. PipeSound'
  BY <1>1, <1>3 DEF PipeSound
<1>5. WorkSound'
  BY <1>1, <1>3, <1>4 DEF WorkSound, Works
<1> QED BY <1>1, <1>2, <1>3, <1>5, WorkNext DEF ProcessInv

LEMMA ReadLineSound ==
  ASSUME ProcessAssumption, ProcessInv, Provider!ReadLine
  PROVE  ProcessInv'
<1>1. /\ chunk > 0 /\ chunk' = chunk - 1 /\ out' = Tail(out) /\ Provider!Handle(Head(out)) /\ chunk \in Nat
      /\ UNCHANGED <<request, via, child, partial, signal, closed, scratch, settled, turn, written>>
      /\ out \in Seq(Line) /\ partial \in BOOLEAN
  BY DEF Provider!ReadLine, ProcessInv
<1>2. Works /\ WorkSound
  BY <1>1 DEF ProcessInv, Resting, Works, Provider!Working
<1>3. via \in {"print", "acp"} /\ PipeSound /\ out # <<>> /\ child # "closed"
  BY <1>1, <1>2 DEF WorkSound, PipeSound
<1>4. /\ chunk' \in Nat /\ chunk' <= Len(out') /\ (partial' = TRUE => chunk' < Len(out'))
  <2>1. Len(Tail(out)) = Len(out) - 1 /\ Len(out) \in Nat
    BY <1>1, <1>3
  <2> QED BY <1>1, <1>3, <2>1 DEF PipeSound
<1> QED BY <1>1, <1>2, <1>3, <1>4, HandleSound

\* A process that has closed after its last whole line was read.
LEMMA DrainedSound ==
  ASSUME ProcessInv, Provider!Working, Provider!Drained, failure = None
  PROVE  /\ via \in {"print", "acp"} /\ PipeSound /\ child \in {"exited", "closed"}
         /\ partial = FALSE => out = <<>>
         /\ partial = TRUE => Len(out) = 1 /\ child = "exited"
         /\ chunk = 0
<1>1. WorkSound /\ out \in Seq(Line) /\ partial \in BOOLEAN /\ chunk \in Nat /\ Len(out) \in Nat
  BY DEF ProcessInv
<1>2. via # "api" /\ PipeSound
  BY <1>1 DEF WorkSound, Provider!Drained
<1>3. child \in {"exited", "closed"}
  BY <1>2 DEF PipeSound, Provider!Drained
<1>4. via \in {"print", "acp"}
  BY <1>1, <1>2, <1>3 DEF WorkSound
<1>5. CASE child = "closed"
  BY <1>1, <1>2, <1>4, <1>5 DEF PipeSound
<1>6. CASE child = "exited"
  <2>1. Provider!Whole = 0
    BY <1>6 DEF Provider!Drained
  <2>2. CASE partial = TRUE
    <3>1. Len(out) - 1 = 0
      BY <2>1, <2>2 DEF Provider!Whole
    <3>2. Len(out) = 1 /\ chunk < Len(out)
      BY <1>1, <1>2, <2>2, <3>1 DEF PipeSound
    <3>3. chunk = 0
      BY <1>1, <3>2
    <3> QED BY <1>2, <1>4, <1>6, <2>2, <3>2, <3>3
  <2>3. CASE partial = FALSE
    <3>1. Len(out) = 0
      BY <2>1, <2>3 DEF Provider!Whole
    <3> QED BY <1>1, <1>2, <1>4, <1>6, <2>3, <3>1 DEF PipeSound
  <2> QED BY <1>1, <2>2, <2>3
<1> QED BY <1>3, <1>5, <1>6

LEMMA TakeRestSound ==
  ASSUME ProcessAssumption, ProcessInv, Provider!TakeRest
  PROVE  ProcessInv'
<1>1. /\ Provider!Working /\ failure = None /\ Provider!Drained /\ partial /\ out' = <<>>
      /\ partial' = FALSE /\ child' = "closed"
      /\ Provider!Handle(Head(out)) /\ chunk' = chunk
      /\ UNCHANGED <<request, via, signal, closed, scratch, settled, turn, written>>
      /\ out \in Seq(Line) /\ partial \in BOOLEAN
  BY DEF Provider!TakeRest, ProcessInv
<1>2. /\ via \in {"print", "acp"} /\ PipeSound /\ Len(out) = 1 /\ child = "exited" /\ chunk = 0
  <2>1. partial = TRUE
    BY <1>1
  <2> QED BY <1>1, <2>1, DrainedSound
<1>3. out # <<>> /\ out' = Tail(out) /\ Len(out') = 0
  <2>1. Tail(out) \in Seq(Line) /\ Len(Tail(out)) = 0
    BY <1>1, <1>2
  <2>2. Tail(out) = <<>>
    BY <2>1, EmptySeq
  <2> QED BY <1>1, <1>2, <2>2
<1>4. Works
  BY <1>1 DEF Works, Provider!Working
<1>5. /\ via' = via /\ written' = written /\ chunk' \in Nat /\ chunk' <= Len(out')
      /\ child' \in {child, "closed"} /\ child # "closed"
      /\ (child' = "closed" => out' = <<>> /\ partial' = FALSE)
      /\ (partial' = TRUE => chunk' < Len(out')) /\ partial' \in BOOLEAN
  <2>1. partial' = FALSE /\ partial' \in BOOLEAN /\ child' = "closed" /\ out' = <<>>
    BY <1>1
  <2>2. chunk' = 0 /\ Len(out') = 0
    BY <1>1, <1>2, <1>3
  <2>3. via' = via /\ written' = written
    BY <1>1
  <2>4. child # "closed"
    BY <1>2
  <2>5. partial' = TRUE => FALSE
    BY <2>1
  <2>6. child' = "closed" => out' = <<>> /\ partial' = FALSE
    BY <2>1
  <2>7. child' \in {child, "closed"}
    BY <2>1
  <2>8. chunk' \in Nat /\ chunk' <= Len(out')
    BY <2>2
  <2> QED BY <2>1, <2>3, <2>4, <2>5, <2>6, <2>7, <2>8
<1> QED BY <1>1, <1>2, <1>3, <1>4, <1>5, HandleSound

-----------------------------------------------------------------------------

LEMMA OverSound ==
  ASSUME ProcessAssumption, Provider!Working, NEW end, Provider!Over(end)
  PROVE  /\ settled' # None /\ settled'.code = end.code /\ scratch' = FALSE /\ turn' # "none"
         /\ end.code = "result" => settled'.usage = end.usage
<1>1. turn = "started"
  BY DEF Provider!Working
<1>2. turn' # "none"
  BY <1>1 DEF Provider!Over
<1> QED BY <1>2 DEF Provider!Over, Provider!Ends, ProcessAssumption

LEMMA EndsCode == \A c, u : Provider!Ends(c, u).code = c
BY DEF Provider!Ends

\* A request that is over stays as it is.
LEMMA SettleNext ==
  ASSUME ProcessInv, settled' # None, turn' # "none", chunk' = 0, Provider!OutcomeIsTrue',
         UNCHANGED <<request, out, stream, written, partial, completed, signal>>, scratch' = FALSE
  PROVE  ProcessInv'
BY DEF ProcessInv, Provider!Working

LEMMA ProbeSound ==
  ASSUME ProcessAssumption, ProcessInv, NEW flag \in {"print", "acp", "none"}, Provider!ProbeEnds(flag)
  PROVE  ProcessInv'
<1>1. /\ Provider!Working /\ WorkSound /\ via = "probe" /\ child = "running" /\ chunk = 0
      /\ UNCHANGED <<request, out, partial, chunk, completed, failure, stream, signal, written, cause>>
      /\ stream = <<>> /\ out = <<>> /\ written = <<>> /\ completed = FALSE /\ PipeSound
      /\ stream \in Seq(Line) /\ out \in Seq(Line) /\ written \in Seq(Line)
  BY DEF Provider!ProbeEnds, Provider!Spawned, ProcessInv, WorkSound
<1>2. CASE failure # None
  <2>1. Provider!Over(failure) /\ child' = "exited" /\ failure.code = cause /\ cause # "result"
    BY <1>1, <1>2 DEF Provider!ProbeEnds, PipeSound, CauseSound
  <2>2. Provider!OutcomeIsTrue'
    BY <1>1, <2>1, OverSound DEF Provider!OutcomeIsTrue
  <2> QED BY <1>1, <2>1, <2>2, OverSound, SettleNext
<1>3. CASE failure = None /\ flag = "none"
  <2>1. /\ Provider!Over(Provider!Ends("provider_capability_unsupported", None)) /\ child' = "exited"
        /\ cause = None
    BY <1>1, <1>3 DEF Provider!ProbeEnds, PipeSound, CauseSound
  <2>2. settled'.code # "result"
    <3>1. Provider!Ends("provider_capability_unsupported", None).code = "provider_capability_unsupported"
      BY EndsCode
    <3> QED BY <1>1, <2>1, <3>1, OverSound
  <2>3. Provider!OutcomeIsTrue'
    BY <1>1, <2>1, <2>2, OverSound DEF Provider!OutcomeIsTrue
  <2> QED BY <1>1, <2>1, <2>3, OverSound, SettleNext
<1>4. CASE failure = None /\ flag # "none"
  <2>1. via' = flag /\ flag \in {"print", "acp"} /\ UNCHANGED <<child, settled, scratch, turn>>
    BY <1>4 DEF Provider!ProbeEnds
  <2>2. PipeSound'
    BY <1>1, <2>1 DEF PipeSound, CauseSound
  <2>3. Provider!Count(stream', "turn") = 0
    <3>1. {i \in DOMAIN stream' : stream'[i] = "turn"} = {}
      BY <1>1
    <3> QED BY <3>1, FS_EmptySet, CountOf
  <2>4. PrintSound'
    BY <1>1, <2>3 DEF PrintSound, ProcessAssumption
  <2>5. AcpSound'
    BY <1>1 DEF AcpSound
  <2>6. WorkSound'
    BY <1>1, <2>1, <2>2, <2>4, <2>5 DEF WorkSound
  <2>7. Works
    BY <1>1, <2>1 DEF Works, Provider!Working
  <2> QED BY <1>1, <2>1, <2>6, <2>7, WorkNext DEF ProcessInv
<1> QED BY <1>2, <1>3, <1>4

LEMMA CloseSound ==
  ASSUME ProcessAssumption, ProcessInv, Provider!CloseFailed
  PROVE  ProcessInv'
<1>1. /\ Provider!Working /\ WorkSound /\ chunk = 0 /\ failure # None /\ Provider!Drained
      /\ Provider!Over(failure)
      /\ UNCHANGED <<request, Provider!process, failure, signal, closed, written, cause, stream>>
  BY DEF Provider!CloseFailed, ProcessInv
<1>2. failure.code = cause /\ cause # "result" /\ child # "running"
  BY <1>1 DEF WorkSound, PipeSound, CauseSound, Provider!Drained
<1>3. Provider!OutcomeIsTrue'
  BY <1>1, <1>2, OverSound DEF Provider!OutcomeIsTrue, Provider!process
<1> QED BY <1>1, <1>3, OverSound, SettleNext DEF Provider!process

LEMMA ConcludeSound ==
  ASSUME ProcessAssumption, ProcessInv, Provider!Conclude
  PROVE  ProcessInv'
<1>1. /\ Provider!Working /\ WorkSound /\ failure = None /\ Provider!Drained /\ partial = FALSE
      /\ UNCHANGED <<request, Provider!process, failure, signal, closed, written, cause, stream>>
      /\ stream \in Seq(Line) /\ out \in Seq(Line) /\ (request.limit # None => request.limit \in Nat)
      /\ completed \in BOOLEAN
  BY DEF Provider!Conclude, ProcessInv
<1>2. /\ via \in {"print", "acp"} /\ PipeSound /\ child \in {"exited", "closed"} /\ out = <<>> /\ chunk = 0
  BY <1>1, DrainedSound
<1>3. cause = None /\ UNCHANGED <<child, code, out, partial, chunk, completed>>
  BY <1>1, <1>2 DEF PipeSound, CauseSound, Provider!process
<1>4. CASE via = "print"
  <2>1. Provider!Over(Provider!Verdict(stream, code)) /\ PrintSound
    BY <1>1, <1>4 DEF Provider!Conclude, WorkSound
  <2>2. /\ settled' # None /\ settled'.code = Provider!Verdict(stream, code).code /\ scratch' = FALSE
        /\ turn' # "none"
        /\ Provider!Verdict(stream, code).code = "result" =>
             settled'.usage = Provider!Verdict(stream, code).usage
    BY <1>1, <2>1, OverSound
  <2>3. stream = written /\ Provider!Count(stream, "turn") <= MCMaxTurns /\ completed = FALSE
    <3>1. stream \o out = stream
      BY <1>1, <1>2
    <3> QED BY <1>1, <2>1, <3>1 DEF PrintSound
  <2>4. settled'.code = "result" =>
          /\ code = 0 /\ Provider!Has(stream, "final")
          /\ Provider!LastOf(stream, "error") <= Provider!LastOf(stream, "final")
          /\ request.limit # None => settled'.usage \in 0 .. request.limit
    <3> SUFFICES ASSUME settled'.code = "result"
                 PROVE  /\ code = 0 /\ Provider!Has(stream, "final")
                        /\ Provider!LastOf(stream, "error") <= Provider!LastOf(stream, "final")
                        /\ request.limit # None => settled'.usage \in 0 .. request.limit
      OBVIOUS
    <3>1. /\ Provider!Verdict(stream, code).code = "result"
          /\ settled'.usage = Provider!Verdict(stream, code).usage
      BY <2>2
    <3>2. /\ code = 0 /\ Provider!Has(stream, "final")
          /\ Provider!LastOf(stream, "error") <= Provider!LastOf(stream, "final")
          /\ request.limit # None => Provider!Verdict(stream, code).usage \in 0 .. request.limit
      BY <1>1, <3>1, VerdictResult
    <3> QED BY <3>1, <3>2
  <2>5. Provider!OutcomeIsTrue'
    BY <1>1, <1>2, <1>3, <2>2, <2>3, <2>4 DEF Provider!OutcomeIsTrue
  <2> QED BY <1>1, <1>2, <1>3, <2>2, <2>5, SettleNext
<1>5. CASE via = "acp"
  <2>1. /\ AcpSound
        /\ completed = TRUE => Provider!Over(Provider!Ends("result", None))
        /\ completed = FALSE => Provider!Over(Provider!Ends("incomplete_response", None))
    BY <1>1, <1>5 DEF Provider!Conclude, WorkSound
  <2>2. CASE completed = TRUE
    <3>1. settled' # None /\ scratch' = FALSE /\ turn' # "none"
      BY <1>1, <2>1, <2>2, OverSound
    <3>2. Provider!Answered = 5 /\ ForbiddenLast
      BY <1>1, <2>1, <2>2 DEF AcpSound
    <3>3. Provider!OutcomeIsTrue'
      BY <1>1, <1>2, <1>3, <2>2, <3>1, <3>2 DEF Provider!OutcomeIsTrue, ForbiddenLast, Provider!Answered
    <3> QED BY <1>1, <1>2, <1>3, <3>1, <3>3, SettleNext
  <2>3. CASE completed = FALSE
    <3>1. settled' # None /\ scratch' = FALSE /\ turn' # "none" /\ settled'.code # "result"
      <4>1. Provider!Ends("incomplete_response", None).code = "incomplete_response"
        BY EndsCode
      <4> QED BY <1>1, <2>1, <2>3, <4>1, OverSound
    <3>2. Provider!OutcomeIsTrue'
      BY <1>1, <1>2, <1>3, <3>1 DEF Provider!OutcomeIsTrue
    <3> QED BY <1>1, <1>2, <1>3, <3>1, <3>2, SettleNext
  <2> QED BY <1>1, <2>2, <2>3
<1> QED BY <1>2, <1>4, <1>5

LEMMA ApiEndsSound ==
  ASSUME ProcessAssumption, ProcessInv, Provider!ApiEnds
  PROVE  ProcessInv'
<1>1. /\ Provider!Working /\ WorkSound /\ via = "api" /\ request.provider = "api" /\ child = "none"
      /\ chunk = 0
      /\ cause \in {None, "aborted", "timeout"} /\ (cause = "aborted" => signal = TRUE)
      /\ signal \in BOOLEAN
      /\ UNCHANGED <<request, Provider!process, failure, signal, closed, written, cause, stream>>
  BY DEF Provider!ApiEnds, ProcessInv, WorkSound
<1>2. PICK c \in {"result", "provider_request_error", "aborted", "timeout"} :
        /\ Provider!Over(Provider!Ends(c, Provider!Spent))
        /\ c = "provider_request_error" => cause = None
        /\ c = "timeout" => cause # None /\ signal = FALSE
  <2>1. \/ Provider!Over(Provider!Ends("result", Provider!Spent))
        \/ Provider!Over(Provider!Ends("provider_request_error", Provider!Spent)) /\ cause = None
        \/ /\ cause # None
           /\ Provider!Over(Provider!Ends(IF signal THEN "aborted" ELSE "timeout", Provider!Spent))
    BY DEF Provider!ApiEnds
  <2>2. CASE signal = TRUE
    BY <2>1, <2>2
  <2>3. CASE signal = FALSE
    BY <2>1, <2>3
  <2> QED BY <1>1, <2>2, <2>3
<1>3. settled' # None /\ settled'.code = c /\ scratch' = FALSE /\ turn' # "none"
  <2>1. Provider!Ends(c, Provider!Spent).code = c
    BY EndsCode
  <2> QED BY <1>1, <1>2, <2>1, OverSound
<1>4. Provider!OutcomeIsTrue'
  BY <1>1, <1>2, <1>3 DEF Provider!OutcomeIsTrue, Provider!process
<1> QED BY <1>1, <1>3, <1>4, SettleNext DEF Provider!process

LEMMA ProcessNext ==
  ProcessAssumption /\ MCMaxPipe \in Nat /\ ProcessInv /\ [Provider!Next]_provider => ProcessInv'
<1> SUFFICES ASSUME ProcessAssumption, MCMaxPipe \in Nat, ProcessInv, [Provider!Next]_provider
             PROVE  ProcessInv'
  OBVIOUS
<1>1. CASE UNCHANGED provider
  BY <1>1, SameSound
<1>2. CASE Provider!Next
  <2>1. \A n \in 1 .. MCMaxPipe : n \in Nat
    OBVIOUS
  <2>2. \A line \in Provider!Lines("print") \union Provider!Lines("acp") : line \in Line
    BY DEF Line
  <2> QED
    BY <1>2, <2>1, <2>2, StartSound, CancelSound, ProbeSound, LaunchSound, TimeOutSound, WriteSound,
      ArriveSound, ReadLineSound, ExitSound, CloseSound, TakeRestSound, ConcludeSound, ApiSound,
      ApiEndsSound
      DEF Provider!Next
<1> QED BY <1>1, <1>2

LEMMA OutcomeTrue == ProcessInv => Provider!OutcomeIsTrue
BY DEF ProcessInv, Provider!OutcomeIsTrue

\* The types that the outcome of a request does not depend on.
Told ==
  /\ via \in {"probe", "print", "acp", "api", None}
  /\ child \in {"none", "running", "exited", "closed", "lost"} /\ code \in {0, 1}
  /\ turn \in {"none", "started", "completed", "stopped", "failed"}
  /\ killed \in BOOLEAN /\ closed \in BOOLEAN

\* What was used is a number or unknown.
UsageSound ==
  /\ settled # None => settled.usage \in Provider!Usage
  /\ failure # None => failure.usage \in Provider!Usage

ProcessTyped ==
  /\ request \in [provider : MCProvider, resumed : BOOLEAN, read : BOOLEAN,
                  limit : UNION {MCLimits[p] : p \in MCProvider}]
  /\ Told /\ UsageSound /\ Len(out) <= MCMaxPipe

LEMMA EndsUsage == \A c, u : Provider!Ends(c, u).usage = u
BY DEF Provider!Ends

LEMMA OverTyped ==
  ASSUME ProcessAssumption, Told, NEW end, end.usage \in Provider!Usage, Provider!Over(end),
         stream' \in Seq(Line)
  PROVE  /\ settled'.usage \in Provider!Usage /\ via' = None
         /\ turn' \in {"none", "started", "completed", "stopped", "failed"}
<1> DEFINE usage == IF end.usage = None /\ end.code # "result" /\ via = "print"
                     THEN Provider!Reported(stream') ELSE end.usage
<1>1. usage \in Provider!Usage
  BY ReportedNat DEF Provider!Usage
<1>2. settled' = Provider!Ends(end.code, usage) /\ via' = None
  BY DEF Provider!Over
<1>3. turn' \in {"none", "started", "completed", "stopped", "failed"}
  BY DEF Provider!Over, Told
<1> HIDE DEF usage
<1> QED BY <1>1, <1>2, <1>3, EndsUsage

LEMMA FailTyped ==
  ASSUME UsageSound, NEW c, NEW u \in Provider!Usage, Provider!Fail(c, u)
  PROVE  killed' = TRUE /\ (failure' # None => failure'.usage \in Provider!Usage)
BY EndsUsage DEF Provider!Fail, Provider!Earliest, UsageSound

LEMMA VerdictTyped ==
  ASSUME ProcessAssumption, NEW s \in Seq(Line), NEW exit
  PROVE  Provider!Verdict(s, exit).usage \in Provider!Usage
BY ReportedNat, EndsUsage DEF Provider!Verdict, Provider!Usage

LEMMA HandleTyped ==
  ASSUME ProcessAssumption, UsageSound, killed \in BOOLEAN, NEW line, Provider!Handle(line),
         stream' \in Seq(Line)
  PROVE  killed' \in BOOLEAN /\ (failure' # None => failure'.usage \in Provider!Usage)
<1>1. None \in Provider!Usage /\ Provider!Reported(stream') \in Provider!Usage
  BY ReportedNat DEF Provider!Usage
<1>2. CASE via = "print"
  BY <1>1, <1>2, FailTyped DEF Provider!Handle, Provider!PrintLine, Provider!Healthy, UsageSound
<1>3. CASE via # "print"
  BY <1>1, <1>3, FailTyped DEF Provider!Handle, Provider!AcpLine, UsageSound
<1> QED BY <1>2, <1>3

LEMMA ProcessTypedInit == ProcessAssumption /\ MCMaxPipe \in Nat \ {0} /\ Provider!Init => ProcessTyped
<1> SUFFICES ASSUME MCMaxPipe \in Nat \ {0}, Provider!Init PROVE ProcessTyped
  OBVIOUS
<1>1. Len(out) <= MCMaxPipe
  <2>1. Len(out) = 0
    BY DEF Provider!Init
  <2> QED BY <2>1
<1>2. Told /\ UsageSound
  BY DEF Provider!Init, Told, UsageSound
<1> QED BY <1>1, <1>2 DEF Provider!Init, ProcessTyped

LEMMA ProcessTypedNext ==
  ASSUME ProcessAssumption, MCMaxPipe \in Nat \ {0}, ProcessInv, ProcessInv', ProcessTyped,
         [Provider!Next]_provider
  PROVE  ProcessTyped'
<1>1. /\ None \in Provider!Usage /\ stream' \in Seq(Line) /\ Told /\ UsageSound /\ Len(out) <= MCMaxPipe
      /\ out \in Seq(Line) /\ stream \in Seq(Line)
  BY DEF Provider!Usage, ProcessInv, ProcessTyped
<1>2. request' = request
  BY
    DEF Provider!Next, provider, Provider!Start, Provider!Refuse, Provider!Cancel, Provider!ProbeEnds,
        Provider!LaunchFails, Provider!TimeOut, Provider!Write, Provider!Arrive, Provider!ReadLine,
        Provider!Exit, Provider!CloseFailed, Provider!TakeRest, Provider!Conclude, Provider!ApiCall,
        Provider!ApiTimeOut, Provider!ApiEnds
<1> SUFFICES Told' /\ UsageSound' /\ Len(out') <= MCMaxPipe
  BY <1>2 DEF ProcessTyped
<1>3. CASE Provider!Start
  BY <1>1, <1>3 DEF Provider!Start, Told, UsageSound
<1>4. CASE Provider!Refuse
  BY <1>1, <1>4, EndsUsage DEF Provider!Refuse, Provider!process, Told, UsageSound
<1>5. ASSUME NEW close \in BOOLEAN, Provider!Cancel(close)
      PROVE  Told' /\ UsageSound' /\ Len(out') <= MCMaxPipe
  BY <1>1, <1>5, FailTyped DEF Provider!Cancel, Told, UsageSound
<1>6. ASSUME NEW flag \in {"print", "acp", "none"}, Provider!ProbeEnds(flag)
      PROVE  Told' /\ UsageSound' /\ Len(out') <= MCMaxPipe
  BY <1>1, <1>6, OverTyped, EndsUsage DEF Provider!ProbeEnds, Told, UsageSound
<1>7. CASE Provider!LaunchFails
  BY <1>1, <1>7, EndsUsage DEF Provider!LaunchFails, Told, UsageSound
<1>8. ASSUME NEW limit, Provider!TimeOut(limit) PROVE Told' /\ UsageSound' /\ Len(out') <= MCMaxPipe
  BY <1>1, <1>8, FailTyped DEF Provider!TimeOut, Told, UsageSound
<1>9. ASSUME NEW line, NEW ended, Provider!Write(line, ended)
      PROVE  Told' /\ UsageSound' /\ Len(out') <= MCMaxPipe
  <2>1. out' = Append(out, line) /\ (Len(out) < MCMaxPipe \/ Len(out) < 1) /\ Len(out) \in Nat
    BY <1>1, <1>9 DEF Provider!Write
  <2>2. Len(out') <= MCMaxPipe
    BY <1>1, <2>1
  <2> QED BY <1>1, <1>9, <2>2 DEF Provider!Write, Told, UsageSound
<1>10. CASE \/ \E n \in 1 .. MCMaxPipe : Provider!Arrive(n)
            \/ \E c \in {0, 1} : Provider!Exit(c)
            \/ Provider!ApiCall \/ Provider!ApiTimeOut \/ UNCHANGED provider
  BY <1>1, <1>10
    DEF Provider!Arrive, Provider!Exit, Provider!ApiCall, Provider!ApiTimeOut, provider,
        Provider!process, Told, UsageSound
<1>11. ASSUME NEW line, Provider!Handle(line), out' \in {Tail(out), <<>>}, out # <<>>,
              child' \in {child, "closed"},
              UNCHANGED <<via, code, closed, settled, turn>>
       PROVE  Told' /\ UsageSound' /\ Len(out') <= MCMaxPipe
  <2>1. Len(out') <= MCMaxPipe
    BY <1>1, <1>11
  <2> QED BY <1>1, <1>11, <2>1, HandleTyped DEF Told, UsageSound
<1>12. CASE Provider!ReadLine
  <2>1. out # <<>>
    <3>1. chunk > 0 /\ chunk \in Nat
      BY <1>12 DEF Provider!ReadLine, ProcessInv
    <3>2. Provider!Working /\ WorkSound /\ via # "api"
      BY <3>1 DEF ProcessInv, Provider!Working, Resting, WorkSound
    <3>3. chunk <= Len(out)
      BY <3>2 DEF WorkSound, PipeSound
    <3> QED BY <3>1, <3>3
  <2> QED BY <1>11, <1>12, <2>1 DEF Provider!ReadLine
<1>13. CASE Provider!TakeRest
  <2>1. out # <<>>
    <3>1. Provider!Working /\ Provider!Drained /\ failure = None /\ partial = TRUE
      BY <1>13 DEF Provider!TakeRest, ProcessInv
    <3>2. Len(out) = 1
      BY <3>1, DrainedSound
    <3> QED BY <3>2
  <2> QED BY <1>11, <1>13, <2>1 DEF Provider!TakeRest
<1>14. CASE Provider!CloseFailed
  BY <1>1, <1>14, OverTyped DEF Provider!CloseFailed, Provider!process, Told, UsageSound
<1>15. CASE Provider!Conclude
  <2>1. PICK end : end.usage \in Provider!Usage /\ Provider!Over(end)
    <3>1. /\ Provider!Verdict(stream, code).usage \in Provider!Usage
          /\ Provider!Ends("result", None).usage \in Provider!Usage
          /\ Provider!Ends("incomplete_response", None).usage \in Provider!Usage
      BY <1>1, VerdictTyped, EndsUsage
    <3> QED BY <1>15, <3>1 DEF Provider!Conclude
  <2> QED BY <1>1, <1>15, <2>1, OverTyped DEF Provider!Conclude, Provider!process, Told, UsageSound
<1>16. CASE Provider!ApiEnds
  <2>1. Provider!Spent \in Provider!Usage
    BY <1>1 DEF Provider!Spent, Provider!Usage
  <2>2. PICK end : end.usage \in Provider!Usage /\ Provider!Over(end)
    BY <1>16, <2>1, EndsUsage DEF Provider!ApiEnds
  <2> QED BY <1>1, <1>16, <2>2, OverTyped DEF Provider!ApiEnds, Provider!process, Told, UsageSound
<1> QED BY <1>3, <1>4, <1>5, <1>6, <1>7, <1>8, <1>9, <1>10, <1>12, <1>13, <1>14, <1>15, <1>16
  DEF Provider!Next

\* Every request keeps its type.
LEMMA ProcessTypes == ProcessInv /\ ProcessTyped => Provider!ProcessTypeOK
<1> SUFFICES ASSUME ProcessInv, ProcessTyped PROVE Provider!ProcessTypeOK
  OBVIOUS
<1>1. chunk \in 0 .. Len(out)
  <2>1. chunk \in Nat /\ Len(out) \in Nat
    BY DEF ProcessInv
  <2>2. CASE ~Provider!Working
    BY <2>1, <2>2 DEF ProcessInv, Resting, Provider!Working
  <2>3. CASE Provider!Working
    BY <2>1, <2>3 DEF ProcessInv, WorkSound, PipeSound
  <2> QED BY <2>2, <2>3, <2>1
<1>2. {partial, killed, completed, signal, closed, scratch} \subseteq BOOLEAN
  BY DEF ProcessInv, ProcessTyped, Told
<1> QED BY <1>1, <1>2 DEF ProcessInv, ProcessTyped, Told, UsageSound, Provider!ProcessTypeOK, Line

-----------------------------------------------------------------------------
(* The tool loop of a model without an agent (GuardedLoop). *)

\* The turns outlast the tool budget by two (the code adds six, compact/step.ts:100), and what a tool
\* answers in its own words is no content of a file.
LoopAssumption ==
  /\ MCLoopTurns \in Nat /\ MCToolCalls \in Nat /\ MCExtraCalls \in Nat /\ MCToolCalls + 2 <= MCLoopTurns
  /\ MCRewriteAt \in Nat \ {0} /\ MCMaxBatch \in Nat
  /\ {"pointer", "error", "done", "failed"} \intersect MCContent = {}
  /\ None \notin Nat

LoopRow ==
  [turn : Nat, calls : Nat, nudged : BOOLEAN, notice : BOOLEAN, extended : BOOLEAN, wrote : BOOLEAN,
   retried : BOOLEAN, previous : Loop!Call \union {None}, consecutive : Nat, streak : 0 .. MCRewriteAt - 1,
   lastWritten : MCText \union {None}]

TranscriptRow == [length : Nat, shown : SUBSET [index : Nat, file : MCText, content : Loop!Body]]

LoopShape ==
  /\ disk \in [MCText -> MCContent]
  /\ transcript \in TranscriptRow /\ \A s \in transcript.shown : s.index < transcript.length
  /\ loop \in LoopRow
  /\ batch \in Seq(Loop!Call)
  /\ loopPhase \in {"ask", "wait", "calls"} \union Loop!Ended

Nudges == IF loop.nudged THEN 1 ELSE 0
ExtraTurns == IF loop.extended THEN MCExtraCalls ELSE 0

\* Every turn but a nudged one costs a tool call, and as long as the model was not told to
\* answer, the turns have not used up the tool budget.
TurnsCounted ==
  /\ loop.turn <= MCLoopTurns + ExtraTurns
  /\ loop.consecutive <= loop.calls
  /\ loopPhase = "ask" => loop.turn <= loop.calls + Nudges
  /\ loopPhase = "wait" => loop.turn <= loop.calls + Nudges + 1
  /\ loopPhase = "calls" => loop.turn <= loop.calls + Nudges + Len(batch)
  /\ ~loop.notice => loop.turn <= MCToolCalls + ExtraTurns + Nudges

\* What the reads show: two answers have different places, the cache knows the last answer of
\* every file that still shows one, and between two copies there is another text.
Copies(view, cache) ==
  /\ \A s, t \in view : s.index = t.index => s = t
  /\ \A s \in view :
       /\ cache[s.file] \in Nat /\ s.index <= cache[s.file]
       /\ \E u \in view : u.file = s.file /\ u.index = cache[s.file]
  /\ \A s, t \in view :
       s.file = t.file /\ s.content = t.content /\ s.content = k1 /\ s.index < t.index =>
         \E u \in view :
           u.file = s.file /\ s.index < u.index /\ u.index < t.index /\ u.content # s.content

ViewSound == reads \in [MCText -> Nat \union {None}] /\ Copies(transcript.shown, reads)

LoopInv == LoopShape /\ TurnsCounted /\ Loop!ToldBeforeGivingUp /\ ViewSound

\* A call that is well formed names a file, and what to write there.
LEMMA CallFields ==
  ASSUME NEW c \in Loop!Call
  PROVE  /\ c.tool \in {"read", "write"} => c.file \in MCText
         /\ c.tool = "write" => c.content \in MCContent
<1>1. CASE c \in [tool : {"read"}, file : MCText, content : {None}]
  BY <1>1
<1>2. CASE c \in [tool : {"write"}, file : MCText, content : MCContent]
  BY <1>2
<1>3. CASE c = Loop!Malformed
  <2>1. Loop!Malformed.tool = "malformed"
    BY DEF Loop!Malformed
  <2> QED BY <1>3, <2>1
<1> QED BY <1>1, <1>2, <1>3 DEF Loop!Call

LEMMA LoopInit == LoopAssumption /\ Loop!Init => LoopInv
<1> SUFFICES ASSUME LoopAssumption, Loop!Init PROVE LoopInv
  OBVIOUS
<1>1. transcript.length = 2 /\ transcript.shown = {} /\ transcript \in TranscriptRow
  BY DEF Loop!Init, TranscriptRow
<1> DEFINE fresh == [turn |-> 0, calls |-> 0, nudged |-> FALSE, notice |-> FALSE,
                     extended |-> FALSE, wrote |-> FALSE, retried |-> FALSE,
                     previous |-> None, consecutive |-> 0, streak |-> 0, lastWritten |-> None]
<1>2. fresh \in LoopRow
  <2>1. 0 \in 0 .. MCRewriteAt - 1
    BY DEF LoopAssumption
  <2> QED BY <2>1 DEF LoopRow
<1>3. loop = fresh
  BY DEF Loop!Init
<1>4. fresh.turn = 0 /\ fresh.calls = 0 /\ fresh.consecutive = 0
  OBVIOUS
<1>5. batch \in Seq(Loop!Call) /\ loopPhase = "ask" /\ disk \in [MCText -> MCContent]
  BY DEF Loop!Init
<1> HIDE DEF fresh
<1>6. LoopShape
  BY <1>1, <1>2, <1>3, <1>5 DEF LoopShape
<1>7. Nudges \in Nat /\ ExtraTurns \in Nat
  BY DEF Nudges, ExtraTurns, LoopAssumption
<1>8. TurnsCounted
  BY <1>3, <1>4, <1>5, <1>7 DEF TurnsCounted, LoopAssumption
<1>9. ViewSound
  BY <1>1 DEF Loop!Init, ViewSound, Copies
<1> QED BY <1>5, <1>6, <1>8, <1>9 DEF LoopInv, Loop!ToldBeforeGivingUp

\* A step that shows and caches nothing new.
LEMMA ViewRests ==
  ASSUME ViewSound, reads' = reads, transcript'.shown = transcript.shown
  PROVE  ViewSound'
BY DEF ViewSound

\* The oldest answers are folded: whatever is left of a file, its last answer is.
LEMMA CopiesFolded ==
  ASSUME NEW view \in SUBSET [index : Nat, file : MCText, content : Loop!Body], NEW cache, NEW upto \in Int,
         Copies(view, cache)
  PROVE  Copies({s \in view : s.index >= upto}, cache)
<1> DEFINE rest == {s \in view : s.index >= upto}
<1>1. \A s \in rest : s \in view /\ s.index \in Nat /\ s.index >= upto
  OBVIOUS
<1>2. ASSUME NEW s \in rest
      PROVE  /\ cache[s.file] \in Nat /\ s.index <= cache[s.file]
             /\ \E u \in rest : u.file = s.file /\ u.index = cache[s.file]
  <2>1. /\ cache[s.file] \in Nat /\ s.index <= cache[s.file]
        /\ \E u \in view : u.file = s.file /\ u.index = cache[s.file]
    BY <1>1 DEF Copies
  <2>2. PICK u \in view : u.file = s.file /\ u.index = cache[s.file]
    BY <2>1
  <2>3. u.index >= upto
    BY <1>1, <2>1, <2>2
  <2> QED BY <2>1, <2>2, <2>3
<1>3. ASSUME NEW s \in rest, NEW t \in rest,
             s.file = t.file /\ s.content = t.content /\ s.content = k1 /\ s.index < t.index
      PROVE  \E u \in rest :
               u.file = s.file /\ s.index < u.index /\ u.index < t.index /\ u.content # s.content
  <2>1. PICK u \in view :
          u.file = s.file /\ s.index < u.index /\ u.index < t.index /\ u.content # s.content
    BY <1>1, <1>3 DEF Copies
  <2>2. u.index \in Nat /\ u.index >= upto
    BY <1>1, <2>1
  <2> QED BY <2>1, <2>2
<1>4. \A s, t \in rest : s.index = t.index => s = t
  BY <1>1 DEF Copies
<1> HIDE DEF rest
<1>5. Copies(rest, cache)
  BY <1>2, <1>3, <1>4 DEF Copies
<1> QED BY <1>5 DEF rest

\* An answer is added that the cache will know, of another text than the last one in view.
LEMMA CopiesGrow ==
  ASSUME NEW view \in SUBSET [index : Nat, file : MCText, content : Loop!Body],
         NEW cache \in [MCText -> Nat \union {None}], NEW n \in Nat, NEW f \in MCText, NEW body,
         \A s \in view : s.index < n,
         \A u \in view : u.file = f /\ u.index = cache[f] /\ u.content = body => body # k1,
         Copies(view, cache)
  PROVE  Copies(view \union {[index |-> n, file |-> f, content |-> body]}, [cache EXCEPT ![f] = n])
<1> DEFINE row == [index |-> n, file |-> f, content |-> body]
           more == view \union {row}
           known == [cache EXCEPT ![f] = n]
<1>1. row.index = n /\ row.file = f /\ row.content = body
  OBVIOUS
<1>2. \A s \in view : s.index \in Nat /\ s.index < n /\ s.file \in MCText
  OBVIOUS
<1>3. known[f] = n /\ \A g \in MCText : g # f => known[g] = cache[g]
  OBVIOUS
<1>4. \A s \in more : s \in view \/ s = row
  OBVIOUS
<1>5. row \in more /\ view \subseteq more
  OBVIOUS
<1> HIDE DEF row, more, known
<1>6. \A s, t \in more : s.index = t.index => s = t
  BY <1>1, <1>2, <1>4 DEF Copies
<1>7. ASSUME NEW s \in more
      PROVE  /\ known[s.file] \in Nat /\ s.index <= known[s.file]
             /\ \E u \in more : u.file = s.file /\ u.index = known[s.file]
  <2>1. CASE s.file = f
    <3>1. s.index <= n
      BY <1>1, <1>2, <1>4
    <3> QED BY <1>1, <1>3, <1>5, <2>1, <3>1
  <2>2. CASE s.file # f
    <3>1. s \in view /\ known[s.file] = cache[s.file]
      BY <1>1, <1>2, <1>3, <1>4, <2>2
    <3>2. /\ cache[s.file] \in Nat /\ s.index <= cache[s.file]
          /\ \E u \in view : u.file = s.file /\ u.index = cache[s.file]
      BY <3>1 DEF Copies
    <3> QED BY <1>5, <3>1, <3>2
  <2> QED BY <2>1, <2>2
<1>8. ASSUME NEW s \in more, NEW t \in more,
             s.file = t.file /\ s.content = t.content /\ s.content = k1 /\ s.index < t.index
      PROVE  \E u \in more :
               u.file = s.file /\ s.index < u.index /\ u.index < t.index /\ u.content # s.content
  <2>1. s \in view
    BY <1>1, <1>2, <1>4, <1>8
  <2>2. CASE t \in view
    <3>1. \E u \in view :
            u.file = s.file /\ s.index < u.index /\ u.index < t.index /\ u.content # s.content
      BY <1>8, <2>1, <2>2 DEF Copies
    <3> QED BY <1>5, <3>1
  <2>3. CASE t = row
    <3>1. s.file = f /\ s.content = body /\ body = k1 /\ t.index = n
      BY <1>1, <1>8, <2>3
    <3>2. PICK u \in view : u.file = s.file /\ u.index = cache[s.file]
      BY <2>1 DEF Copies
    <3>3. s.index <= u.index /\ u.index < n /\ u.index \in Nat /\ s.index \in Nat
      BY <1>2, <2>1, <3>2 DEF Copies
    <3>4. u.content # body
      BY <3>1, <3>2
    <3>5. s.index # u.index
      BY <2>1, <3>1, <3>4 DEF Copies
    <3>6. s.index < u.index
      BY <3>3, <3>5
    <3> QED BY <1>5, <3>1, <3>2, <3>3, <3>4, <3>6
  <2> QED BY <1>4, <2>2, <2>3
<1>9. Copies(more, known)
  BY <1>6, <1>7, <1>8 DEF Copies
<1> QED BY <1>9 DEF more, known, row

\* The counters after a tool call.
LEMMA CountedSound ==
  ASSUME LoopAssumption, loop \in LoopRow, loop.consecutive <= loop.calls, NEW c \in Loop!Call,
         NEW wrote \in BOOLEAN
  PROVE  LET l == Loop!Counted(c, wrote)
         IN  /\ l \in LoopRow /\ l.turn = loop.turn /\ l.calls = loop.calls + 1 /\ l.consecutive <= l.calls
             /\ l.nudged = loop.nudged /\ l.extended = loop.extended /\ l.notice = loop.notice
<1> DEFINE streak == IF Loop!Rewriting(c) THEN 0 ELSE Loop!Streak(c)
           l == Loop!Counted(c, wrote)
<1>1. Loop!Streak(c) \in Nat
  BY DEF Loop!Streak, LoopRow
<1>2. streak \in 0 .. MCRewriteAt - 1
  BY <1>1 DEF Loop!Rewriting, LoopAssumption
<1>3. Loop!Consecutive(c) \in Nat /\ Loop!Consecutive(c) <= loop.calls + 1
  BY DEF Loop!Consecutive, LoopRow
<1>4. Loop!LastWritten(c) \in MCText \union {None}
  BY CallFields DEF Loop!LastWritten, LoopRow
<1>5. l = [turn |-> loop.turn, calls |-> loop.calls + 1, nudged |-> loop.nudged, notice |-> loop.notice,
           extended |-> loop.extended, wrote |-> loop.wrote \/ wrote, retried |-> loop.retried,
           previous |-> c, consecutive |-> Loop!Consecutive(c), streak |-> streak,
           lastWritten |-> Loop!LastWritten(c)]
  <2> HIDE DEF streak
  <2>1. Loop!Counted(c, wrote) = [loop EXCEPT
               !.calls = @ + 1, !.previous = c, !.consecutive = Loop!Consecutive(c),
               !.streak = streak, !.lastWritten = Loop!LastWritten(c), !.wrote = @ \/ wrote]
    BY DEF Loop!Counted, streak
  <2> QED BY <2>1 DEF LoopRow
<1>6. loop.calls + 1 \in Nat /\ loop.turn \in Nat
  BY DEF LoopRow
<1>7. /\ loop.nudged \in BOOLEAN /\ loop.notice \in BOOLEAN /\ loop.extended \in BOOLEAN
      /\ loop.retried \in BOOLEAN
      /\ (loop.wrote \/ wrote) \in BOOLEAN
  BY DEF LoopRow
<1> HIDE DEF l, streak
<1>8. l \in LoopRow
  BY <1>2, <1>3, <1>4, <1>5, <1>6, <1>7 DEF LoopRow
<1>9. l.turn = loop.turn /\ l.calls = loop.calls + 1 /\ l.consecutive = Loop!Consecutive(c)
  BY <1>5
<1>10. l.nudged = loop.nudged /\ l.extended = loop.extended /\ l.notice = loop.notice
  BY <1>5, Zenon
<1> QED BY <1>3, <1>8, <1>9, <1>10 DEF l

\* The body of an answer in the words of the loop leaves what is shown, the text of a file adds to it.
LEMMA PushedSound ==
  ASSUME LoopAssumption, LoopShape, NEW c \in Loop!Call, NEW body, Loop!Pushed(c, body), batch # <<>>,
         body \in Loop!Body => c.file \in MCText
  PROVE  /\ transcript' \in TranscriptRow /\ \A s \in transcript'.shown : s.index < transcript'.length
         /\ body \notin Loop!Body => transcript'.shown = transcript.shown
         /\ body \in Loop!Body =>
              transcript'.shown =
                transcript.shown \union {[index |-> transcript.length, file |-> c.file, content |-> body]}
         /\ batch' \in Seq(Loop!Call) /\ Len(batch') = Len(batch) - 1
<1> DEFINE row == [index |-> transcript.length, file |-> c.file, content |-> body]
           kept == IF body \in Loop!Body THEN transcript.shown \union {row} ELSE transcript.shown
<1>1. /\ transcript.length \in Nat
      /\ transcript.shown \in SUBSET [index : Nat, file : MCText, content : Loop!Body]
      /\ transcript = [length |-> transcript.length, shown |-> transcript.shown]
      /\ \A s \in transcript.shown : s.index < transcript.length
  BY DEF LoopShape, TranscriptRow
<1>2. body \in Loop!Body => row \in [index : Nat, file : MCText, content : Loop!Body]
  BY <1>1
<1>3. kept \in SUBSET [index : Nat, file : MCText, content : Loop!Body] /\ transcript.shown \subseteq kept
  BY <1>1, <1>2
<1>4. transcript' = [length |-> transcript.length + 1, shown |-> kept]
  BY <1>1 DEF Loop!Pushed
<1>5. row.index = transcript.length
  OBVIOUS
<1>6. \A s \in kept : s.index \in Nat /\ s.index < transcript.length + 1
  <2> SUFFICES ASSUME NEW s \in kept PROVE s.index \in Nat /\ s.index < transcript.length + 1
    OBVIOUS
  <2>1. CASE s \in transcript.shown
    BY <1>1, <2>1
  <2>2. CASE s = row
    <3> HIDE DEF row
    <3> QED BY <1>1, <1>5, <2>2
  <2> QED BY <2>1, <2>2
<1> HIDE DEF kept
<1>7. /\ transcript'.length = transcript.length + 1 /\ transcript'.shown = kept
      /\ transcript' \in TranscriptRow
  BY <1>1, <1>3, <1>4 DEF TranscriptRow
<1>8. batch' \in Seq(Loop!Call) /\ Len(batch') = Len(batch) - 1
  BY HeadTailProperties DEF Loop!Pushed, LoopShape
<1>9. /\ body \notin Loop!Body => kept = transcript.shown
      /\ body \in Loop!Body => kept = transcript.shown \union {row}
  BY DEF kept
<1> QED BY <1>6, <1>7, <1>8, <1>9

\* A tool call: its turn is accounted for.
LEMMA RanSound ==
  ASSUME LoopAssumption, LoopInv, loopPhase = "calls", batch # <<>>, NEW wrote \in BOOLEAN,
         loop' = Loop!Counted(Head(batch), wrote)
  PROVE  /\ loop' \in LoopRow /\ Head(batch) \in Loop!Call
         /\ batch' = batch /\ loopPhase' = "tool_loop" => TurnsCounted'
         /\ Len(batch') = Len(batch) - 1 /\ loopPhase' = "calls" => TurnsCounted'
<1> DEFINE c == Head(batch)
<1>1. c \in Loop!Call /\ Len(batch) \in Nat /\ Len(batch) >= 1
  BY DEF LoopInv, LoopShape
<1>2. /\ loop' \in LoopRow /\ loop'.turn = loop.turn /\ loop'.calls = loop.calls + 1
      /\ loop'.consecutive <= loop'.calls
      /\ loop'.nudged = loop.nudged /\ loop'.extended = loop.extended /\ loop'.notice = loop.notice
  <2> HIDE DEF c
  <2>1. loop \in LoopRow /\ loop.consecutive <= loop.calls
    BY DEF LoopInv, LoopShape, TurnsCounted
  <2> QED BY <1>1, <2>1, CountedSound DEF c
<1>3. Nudges' = Nudges /\ ExtraTurns' = ExtraTurns /\ Nudges \in Nat /\ ExtraTurns \in Nat
  BY <1>2 DEF Nudges, ExtraTurns, LoopAssumption
<1>4. loop.turn \in Nat /\ loop.calls \in Nat
  BY DEF LoopInv, LoopShape, LoopRow
<1>5. /\ loop.turn <= MCLoopTurns + ExtraTurns /\ loop.turn <= loop.calls + Nudges + Len(batch)
      /\ ~loop.notice => loop.turn <= MCToolCalls + ExtraTurns + Nudges
  BY DEF LoopInv, TurnsCounted
<1>6. ~loop'.notice => ~loop.notice
  BY <1>2, Zenon
<1>7. MCLoopTurns \in Nat /\ MCToolCalls \in Nat
  BY DEF LoopAssumption
<1>8. ASSUME Len(batch') = Len(batch) - 1, loopPhase' = "calls" PROVE TurnsCounted'
  <2>1. loop'.turn <= loop'.calls + Nudges' + Len(batch')
    BY <1>1, <1>2, <1>3, <1>4, <1>5, <1>8
  <2> QED BY <1>2, <1>3, <1>5, <1>6, <1>8, <2>1 DEF TurnsCounted
<1>9. ASSUME batch' = batch, loopPhase' = "tool_loop" PROVE TurnsCounted'
  BY <1>2, <1>3, <1>5, <1>6, <1>9 DEF TurnsCounted
<1> QED BY <1>1, <1>2, <1>8, <1>9

\* A step that leaves the counters and ends the loop for another reason, or goes on where it was.
LEMMA RestKeeps ==
  ASSUME LoopInv, UNCHANGED <<disk, transcript, reads, loop, batch>>,
         loopPhase' = loopPhase \/ loopPhase' \in Loop!Ended \ {"max_turns"}
  PROVE  LoopInv'
<1>1. Nudges' = Nudges /\ ExtraTurns' = ExtraTurns
  BY DEF Nudges, ExtraTurns
<1>2. LoopShape'
  BY DEF LoopInv, LoopShape
<1>3. loopPhase' \in {"ask", "wait", "calls"} => loopPhase' = loopPhase
  BY DEF Loop!Ended
<1>4. TurnsCounted'
  BY <1>1, <1>3 DEF LoopInv, TurnsCounted
<1>5. Loop!ToldBeforeGivingUp' /\ ViewSound'
  BY ViewRests DEF LoopInv, Loop!ToldBeforeGivingUp
<1> QED BY <1>2, <1>4, <1>5 DEF LoopInv

\* A new turn, with the extension and the notice it may bring.
LEMMA AskKeeps == LoopAssumption /\ LoopInv /\ Loop!Ask => LoopInv'
<1> SUFFICES ASSUME LoopAssumption, LoopInv, Loop!Ask PROVE LoopInv'
  OBVIOUS
<1> DEFINE extended == loop.extended \/ Loop!Grants(loop)
           told == Loop!Exhausted(loop, extended) /\ ~loop.notice
           extra == IF extended THEN MCExtraCalls ELSE 0
<1>1. loop \in LoopRow /\ loop.turn \in Nat /\ loop.calls \in Nat /\ loop.consecutive <= loop.calls
  BY DEF LoopInv, LoopShape, LoopRow, TurnsCounted
<1>2. loop' = [loop EXCEPT !.turn = @ + 1, !.extended = extended, !.notice = @ \/ told]
  BY DEF Loop!Ask
<1>3. extended \in BOOLEAN /\ told \in BOOLEAN
  BY <1>1 DEF LoopRow, Loop!Grants, Loop!Exhausted
<1>4. loop' = [turn |-> loop.turn + 1, calls |-> loop.calls, nudged |-> loop.nudged,
               notice |-> loop.notice \/ told, extended |-> extended, wrote |-> loop.wrote,
               retried |-> loop.retried, previous |-> loop.previous, consecutive |-> loop.consecutive,
               streak |-> loop.streak, lastWritten |-> loop.lastWritten]
  <2> HIDE DEF extended, told
  <2> QED BY <1>1, <1>2 DEF LoopRow
<1>5. /\ loop'.turn = loop.turn + 1 /\ loop'.calls = loop.calls /\ loop'.consecutive = loop.consecutive
      /\ loop' \in LoopRow
  <2>1. (loop.notice \/ told) \in BOOLEAN
    OBVIOUS
  <2> HIDE DEF extended, told
  <2> QED BY <1>1, <1>3, <1>4, <2>1 DEF LoopRow
<1>6. loop'.nudged = loop.nudged /\ (loop'.notice <=> loop.notice \/ told) /\ (loop'.extended <=> extended)
  <2> HIDE DEF extended, told
  <2> QED BY <1>3, <1>4, Zenon
<1>7. /\ loopPhase = "ask" /\ loopPhase' \in {"token_budget", "wait"}
      /\ loop.turn < Loop!TurnLimit(loop) /\ UNCHANGED <<disk, batch>>
  BY DEF Loop!Ask
<1>8. /\ MCLoopTurns \in Nat /\ MCToolCalls \in Nat /\ extra \in Nat /\ Nudges \in Nat /\ ExtraTurns \in Nat
      /\ ExtraTurns <= extra /\ Nudges' = Nudges /\ ExtraTurns' = extra
  BY <1>6 DEF LoopAssumption, Nudges, ExtraTurns
<1>9. loop.turn < MCLoopTurns + ExtraTurns /\ loop.turn <= loop.calls + Nudges
  BY <1>7 DEF Loop!TurnLimit, ExtraTurns, LoopInv, TurnsCounted
<1>10. ~loop'.notice => loop.calls < MCToolCalls + extra
  <2>1. ~loop'.notice => ~Loop!Exhausted(loop, extended)
    BY <1>6
  <2> QED BY <1>1, <1>8, <2>1 DEF Loop!Exhausted
<1> HIDE DEF extra
<1>11. TurnsCounted'
  <2>1. loop'.turn <= MCLoopTurns + ExtraTurns' /\ loop'.turn <= loop'.calls + Nudges' + 1
    BY <1>1, <1>5, <1>8, <1>9
  <2>2. ~loop'.notice => loop'.turn <= MCToolCalls + ExtraTurns' + Nudges'
    BY <1>1, <1>5, <1>8, <1>9, <1>10
  <2> QED BY <1>1, <1>5, <1>7, <2>1, <2>2 DEF TurnsCounted
<1>12. /\ transcript' \in TranscriptRow /\ \A s \in transcript'.shown : s.index < transcript'.length
       /\ transcript'.shown = transcript.shown
  <2> DEFINE n == (IF Loop!Grants(loop) THEN 1 ELSE 0) + (IF told THEN 1 ELSE 0)
  <2>1. n \in Nat
    OBVIOUS
  <2>2. /\ transcript \in TranscriptRow /\ transcript.length \in Nat
        /\ \A s \in transcript.shown : s.index \in Nat /\ s.index < transcript.length
    BY DEF LoopInv, LoopShape, TranscriptRow
  <2>3. transcript' = [transcript EXCEPT !.length = @ + n]
    <3>1. transcript' = [transcript EXCEPT
            !.length = @ + (IF Loop!Grants(loop) THEN 1 ELSE 0) + (IF told THEN 1 ELSE 0)]
      BY DEF Loop!Ask
    <3> HIDE DEF told
    <3> QED BY <2>2, <3>1
  <2> HIDE DEF n
  <2>4. /\ transcript'.length = transcript.length + n /\ transcript'.shown = transcript.shown
        /\ transcript' \in TranscriptRow
    BY <2>1, <2>2, <2>3 DEF TranscriptRow
  <2> QED BY <2>1, <2>2, <2>4
<1>13. LoopShape'
  BY <1>5, <1>7, <1>12 DEF LoopInv, LoopShape, Loop!Ended
<1>14. Loop!ToldBeforeGivingUp'
  BY <1>7 DEF Loop!ToldBeforeGivingUp
<1>15. ViewSound'
  BY <1>12, ViewRests DEF Loop!Ask, LoopInv
<1> QED BY <1>11, <1>13, <1>14, <1>15 DEF LoopInv

\* The turns are used up only when the tool budget was, and then the model was told.
LEMMA GiveUpKeeps == LoopAssumption /\ LoopInv /\ Loop!GiveUp => LoopInv'
<1> SUFFICES ASSUME LoopAssumption, LoopInv, Loop!GiveUp PROVE LoopInv'
  OBVIOUS
<1>1. /\ loopPhase = "ask" /\ loop.turn >= MCLoopTurns + ExtraTurns /\ loopPhase' = "max_turns"
      /\ UNCHANGED <<disk, transcript, reads, loop, batch>>
  BY DEF Loop!GiveUp, Loop!TurnLimit, ExtraTurns
<1>2. loop.notice
  <2>1. ~loop.notice => loop.turn <= MCToolCalls + ExtraTurns + Nudges
    BY DEF LoopInv, TurnsCounted
  <2>2. Nudges \in {0, 1} /\ ExtraTurns \in Nat /\ loop.turn \in Nat
    BY DEF Nudges, ExtraTurns, LoopAssumption, LoopInv, LoopShape, LoopRow
  <2>3. MCLoopTurns \in Nat /\ MCToolCalls \in Nat /\ MCToolCalls + 2 <= MCLoopTurns
    BY DEF LoopAssumption
  <2>4. ~(loop.turn <= MCToolCalls + ExtraTurns + Nudges)
    BY <1>1, <2>2, <2>3
  <2> QED BY <2>1, <2>4, Zenon
<1>3. Nudges' = Nudges /\ ExtraTurns' = ExtraTurns
  BY <1>1 DEF Nudges, ExtraTurns
<1>4. LoopShape'
  BY <1>1 DEF LoopInv, LoopShape, Loop!Ended
<1>5. TurnsCounted'
  BY <1>1, <1>3 DEF LoopInv, TurnsCounted
<1>6. loop'.notice
  BY <1>1, <1>2, Zenon
<1>7. ViewSound'
  BY <1>1, ViewRests DEF LoopInv
<1> QED BY <1>4, <1>5, <1>6, <1>7 DEF LoopInv, Loop!ToldBeforeGivingUp

LEMMA CutOffKeeps ==
  ASSUME LoopInv, NEW tokens, NEW room, Loop!CutOff(tokens, room)
  PROVE  LoopInv'
<1>1. loop \in LoopRow /\ loop' = [loop EXCEPT !.retried = TRUE] /\ loopPhase = "wait"
  BY DEF LoopInv, LoopShape, Loop!CutOff
<1>2. /\ loop' \in LoopRow /\ loop'.turn = loop.turn /\ loop'.calls = loop.calls
      /\ loop'.consecutive = loop.consecutive /\ loop'.nudged = loop.nudged
      /\ loop'.extended = loop.extended /\ loop'.notice = loop.notice
  BY <1>1 DEF LoopRow
<1>3. /\ loopPhase' \in {"incomplete_response", "token_budget", "wait"}
      /\ UNCHANGED <<disk, transcript, reads, batch>>
  BY DEF Loop!CutOff, Loop!UnlessCharged
<1>4. Nudges' = Nudges /\ ExtraTurns' = ExtraTurns
  BY <1>2 DEF Nudges, ExtraTurns
<1>5. LoopShape'
  BY <1>2, <1>3 DEF LoopInv, LoopShape, Loop!Ended
<1>6. ~loop'.notice => ~loop.notice
  BY <1>2, Zenon
<1>7. TurnsCounted'
  BY <1>1, <1>2, <1>3, <1>4, <1>6 DEF LoopInv, TurnsCounted
<1>8. ViewSound'
  BY <1>3, ViewRests DEF LoopInv
<1> QED BY <1>3, <1>5, <1>7, <1>8 DEF LoopInv, Loop!ToldBeforeGivingUp

LEMMA EmptyKeeps ==
  ASSUME LoopAssumption, LoopInv, NEW tokens, Loop!ReplyEmpty(tokens)
  PROVE  LoopInv'
<1>1. CASE loop.nudged
  <2>1. UNCHANGED <<disk, transcript, reads, loop, batch>> /\ loopPhase' = "invalid_response"
    BY <1>1 DEF Loop!ReplyEmpty, Loop!Charged, Loop!UnlessCharged
  <2> QED BY <2>1, RestKeeps DEF Loop!Ended
<1>2. CASE ~loop.nudged
  <2>1. /\ loop' = [loop EXCEPT !.nudged = TRUE] /\ transcript' = [transcript EXCEPT !.length = @ + 2]
        /\ loopPhase = "wait" /\ loopPhase' = "ask" /\ UNCHANGED <<disk, reads, batch>>
    BY <1>2 DEF Loop!ReplyEmpty, Loop!Charged, Loop!UnlessCharged
  <2>2. /\ loop' \in LoopRow /\ loop'.turn = loop.turn /\ loop'.calls = loop.calls
        /\ loop'.consecutive = loop.consecutive /\ loop'.nudged = TRUE
        /\ loop'.extended = loop.extended /\ loop'.notice = loop.notice
    BY <2>1 DEF LoopInv, LoopShape, LoopRow
  <2>3. Nudges = 0 /\ Nudges' = 1 /\ ExtraTurns' = ExtraTurns /\ ExtraTurns \in Nat
    BY <1>2, <2>2 DEF Nudges, ExtraTurns, LoopAssumption
  <2>4. /\ transcript.length \in Nat /\ transcript' \in TranscriptRow
        /\ transcript'.length = transcript.length + 2 /\ transcript'.shown = transcript.shown
        /\ \A s \in transcript.shown : s.index \in Nat /\ s.index < transcript.length
    BY <2>1 DEF LoopInv, LoopShape, TranscriptRow
  <2>5. LoopShape'
    BY <2>1, <2>2, <2>4 DEF LoopInv, LoopShape
  <2>6. ~loop'.notice => ~loop.notice
    BY <2>2, Zenon
  <2>7. TurnsCounted'
    <3>1. /\ loop.turn <= loop.calls + Nudges + 1
          /\ (~loop.notice => loop.turn <= MCToolCalls + ExtraTurns + Nudges)
      BY <2>1 DEF LoopInv, TurnsCounted
    <3>2. loop.turn \in Nat /\ loop.calls \in Nat /\ MCToolCalls \in Nat
      BY DEF LoopInv, LoopShape, LoopRow, LoopAssumption
    <3>3. loop'.turn <= loop'.calls + Nudges'
      BY <2>2, <2>3, <3>1, <3>2
    <3>4. ~loop'.notice => loop'.turn <= MCToolCalls + ExtraTurns' + Nudges'
      BY <2>2, <2>3, <2>6, <3>1, <3>2
    <3> QED BY <2>1, <2>2, <2>3, <3>3, <3>4 DEF LoopInv, TurnsCounted
  <2>8. ViewSound'
    BY <2>1, <2>4, ViewRests DEF LoopInv
  <2> QED BY <2>1, <2>5, <2>7, <2>8 DEF LoopInv, Loop!ToldBeforeGivingUp
<1> QED BY <1>1, <1>2

LEMMA CallsKeep ==
  ASSUME LoopAssumption, LoopInv, NEW tokens, NEW made \in Loop!Batch, Loop!ReplyCalls(tokens, made)
  PROVE  LoopInv'
<1>1. PICK n \in 1 .. MCMaxBatch : made \in [1 .. n -> Loop!Call]
  BY DEF Loop!Batch
<1>2. made \in Seq(Loop!Call) /\ Len(made) = n /\ n \in Nat /\ n >= 1
  BY <1>1 DEF LoopAssumption
<1>3. /\ loopPhase = "wait" /\ loopPhase' = "calls" /\ batch' = made /\ UNCHANGED <<disk, reads, loop>>
      /\ transcript' = [transcript EXCEPT !.length = @ + 1]
  BY DEF Loop!ReplyCalls, Loop!Charged, Loop!UnlessCharged
<1>4. /\ transcript.length \in Nat /\ transcript' \in TranscriptRow
      /\ transcript'.length = transcript.length + 1 /\ transcript'.shown = transcript.shown
      /\ \A s \in transcript.shown : s.index \in Nat /\ s.index < transcript.length
  BY <1>3 DEF LoopInv, LoopShape, TranscriptRow
<1>5. LoopShape'
  BY <1>2, <1>3, <1>4 DEF LoopInv, LoopShape
<1>6. /\ Nudges' = Nudges /\ ExtraTurns' = ExtraTurns /\ Nudges \in Nat /\ loop.turn \in Nat
      /\ loop.calls \in Nat
  BY <1>3 DEF Nudges, ExtraTurns, LoopInv, LoopShape, LoopRow
<1>7. loop.turn <= loop.calls + Nudges + Len(made)
  BY <1>2, <1>3, <1>6 DEF LoopInv, TurnsCounted
<1>8. TurnsCounted'
  BY <1>3, <1>6, <1>7 DEF LoopInv, TurnsCounted
<1>9. ViewSound'
  BY <1>3, <1>4, ViewRests DEF LoopInv
<1> QED BY <1>3, <1>5, <1>8, <1>9 DEF LoopInv, Loop!ToldBeforeGivingUp

\* A call that is run or refused is counted, answered and taken from the response.
LEMMA RunKeeps ==
  ASSUME LoopAssumption, LoopInv, loopPhase = "calls", batch # <<>>, NEW wrote \in BOOLEAN, NEW body,
         loop' = Loop!Counted(Head(batch), wrote), Loop!Pushed(Head(batch), body),
         body \in Loop!Body => Head(batch).file \in MCText, disk' \in [MCText -> MCContent],
         IF body \in Loop!Body
         THEN /\ reads' = Loop!Cached(Head(batch).file)
              /\ body = k1 => ~\E u \in transcript.shown :
                                 /\ u.file = Head(batch).file /\ u.index = reads[u.file]
                                 /\ u.content = k1
         ELSE reads' = reads,
         loopPhase' = loopPhase
  PROVE  LoopInv'
<1>1. /\ loop' \in LoopRow /\ Head(batch) \in Loop!Call
      /\ Len(batch') = Len(batch) - 1 /\ loopPhase' = "calls" => TurnsCounted'
  BY RanSound
<1>2. /\ transcript' \in TranscriptRow /\ \A s \in transcript'.shown : s.index < transcript'.length
      /\ body \notin Loop!Body => transcript'.shown = transcript.shown
      /\ body \in Loop!Body =>
           transcript'.shown = transcript.shown \union
             {[index |-> transcript.length, file |-> Head(batch).file, content |-> body]}
      /\ batch' \in Seq(Loop!Call) /\ Len(batch') = Len(batch) - 1
  BY <1>1, PushedSound DEF LoopInv
<1>3. LoopShape'
  BY <1>1, <1>2 DEF LoopInv, LoopShape
<1>4. ViewSound'
  <2>1. CASE body \notin Loop!Body
    BY <1>2, <2>1, ViewRests DEF LoopInv
  <2>2. CASE body \in Loop!Body
    <3> DEFINE f == Head(batch).file
               row == [index |-> transcript.length, file |-> f, content |-> body]
    <3>1. /\ transcript.shown \in SUBSET [index : Nat, file : MCText, content : Loop!Body]
          /\ transcript.length \in Nat /\ f \in MCText /\ \A s \in transcript.shown : s.index < transcript.length
      BY <2>2 DEF LoopInv, LoopShape, TranscriptRow
    <3>2. reads \in [MCText -> Nat \union {None}] /\ Copies(transcript.shown, reads)
      BY DEF LoopInv, ViewSound
    <3>3. reads' = [reads EXCEPT ![f] = transcript.length]
      BY <2>2 DEF Loop!Cached
    <3>4. \A u \in transcript.shown : u.file = f /\ u.index = reads[f] /\ u.content = body => body # k1
      BY <2>2
    <3> HIDE DEF f
    <3>5. Copies(transcript.shown \union {row}, [reads EXCEPT ![f] = transcript.length])
      BY <3>1, <3>2, <3>4, CopiesGrow
    <3>6. transcript'.shown = transcript.shown \union {row}
      BY <1>2, <2>2 DEF f
    <3> HIDE DEF row
    <3>7. Copies(transcript.shown \union {row}, [reads EXCEPT ![f] = transcript.length]) = Copies(transcript'.shown, reads')
      BY <3>3, <3>6
    <3>8. reads' \in [MCText -> Nat \union {None}]
      BY <3>1, <3>2, <3>3
    <3> QED BY <3>5, <3>7, <3>8 DEF ViewSound
  <2> QED BY <2>1, <2>2
<1> QED BY <1>1, <1>2, <1>3, <1>4 DEF LoopInv, Loop!ToldBeforeGivingUp

LEMMA LoopNext == LoopAssumption /\ LoopInv /\ [Loop!Next]_toolLoop => LoopInv'
<1> SUFFICES ASSUME LoopAssumption, LoopInv, [Loop!Next]_toolLoop PROVE LoopInv'
  OBVIOUS
<1>1. ASSUME \/ Loop!Abort \/ Loop!ConnectionLost \/ Loop!ServerBusy
             \/ \E s \in MCSwitch : Loop!FieldRejected(s)
             \/ UNCHANGED toolLoop
      PROVE  LoopInv'
  <2>1. /\ UNCHANGED <<disk, transcript, reads, loop, batch>>
        /\ (loopPhase' = loopPhase \/ loopPhase' \in Loop!Ended \ {"max_turns"})
    BY <1>1 DEF Loop!Abort, Loop!ConnectionLost, Loop!ServerBusy, Loop!FieldRejected, toolLoop, Loop!Ended
  <2> QED BY <2>1, RestKeeps
<1>2. ASSUME NEW tokens \in 0 .. MCMaxReply,
             \/ Loop!Overspend(tokens)
             \/ \E how \in {"text", "invalid_tool_call"} : Loop!ReplyEnds(tokens, how)
      PROVE  LoopInv'
  <2>1. UNCHANGED <<disk, transcript, reads, loop, batch>> /\ loopPhase' \in Loop!Ended \ {"max_turns"}
    BY <1>2 DEF Loop!Overspend, Loop!ReplyEnds, Loop!Charged, Loop!UnlessCharged, Loop!Ended
  <2> QED BY <2>1, RestKeeps
<1>3. CASE Loop!Respond
  BY <1>2, <1>3, CutOffKeeps, EmptyKeeps, CallsKeep DEF Loop!Respond
<1>4. CASE Loop!StopRepeating
  <2>1. /\ loopPhase = "calls" /\ batch # <<>> /\ loop' = Loop!Counted(Head(batch), FALSE)
        /\ loopPhase' = "tool_loop"
        /\ UNCHANGED <<disk, transcript, reads, batch>>
    BY <1>4 DEF Loop!StopRepeating
  <2>2. loop' \in LoopRow /\ TurnsCounted' /\ ViewSound'
    BY <2>1, RanSound, ViewRests DEF LoopInv
  <2> QED BY <2>1, <2>2 DEF LoopInv, LoopShape, Loop!ToldBeforeGivingUp, Loop!Ended
<1>5. CASE Loop!Refuse
  <2>1. /\ loopPhase = "calls" /\ batch # <<>> /\ loop' = Loop!Counted(Head(batch), FALSE)
        /\ Loop!Pushed(Head(batch), "error")
        /\ UNCHANGED <<disk, reads, loopPhase>> /\ "error" \notin Loop!Body /\ disk \in [MCText -> MCContent]
    BY <1>5 DEF Loop!Refuse, Loop!Body, LoopAssumption, LoopInv, LoopShape
  <2> QED BY <2>1, RunKeeps
<1>6. CASE Loop!Write
  <2>1. /\ loopPhase = "calls" /\ batch # <<>> /\ loop' = Loop!Counted(Head(batch), TRUE)
        /\ Loop!Pushed(Head(batch), "done")
        /\ Head(batch).tool = "write" /\ disk' = [disk EXCEPT ![Head(batch).file] = Head(batch).content]
        /\ UNCHANGED <<loopPhase, reads>> /\ "done" \notin Loop!Body
    BY <1>6 DEF Loop!Write, Loop!Body, LoopAssumption
  <2>2. disk' \in [MCText -> MCContent]
    <3>1. Head(batch) \in Loop!Call
      BY <2>1 DEF LoopInv, LoopShape
    <3> QED BY <2>1, <3>1, CallFields DEF LoopInv, LoopShape
  <2> QED BY <2>1, <2>2, RunKeeps
<1>7. CASE Loop!Read \/ Loop!ReadFails
  <2> DEFINE c == Head(batch)
  <2>1. /\ loopPhase = "calls" /\ batch # <<>> /\ c \in Loop!Call /\ loop' = Loop!Counted(c, FALSE)
        /\ c.tool = "read" /\ UNCHANGED <<disk, loopPhase>> /\ disk \in [MCText -> MCContent]
    <3>1. /\ loopPhase = "calls" /\ batch # <<>> /\ loop' = Loop!Counted(c, FALSE)
          /\ c.tool = "read" /\ UNCHANGED <<disk, loopPhase>>
      BY <1>7 DEF Loop!Read, Loop!ReadFails
    <3>2. c \in Loop!Call /\ disk \in [MCText -> MCContent]
      BY <3>1 DEF LoopInv, LoopShape
    <3> QED BY <3>1, <3>2
  <2>2. c.file \in MCText
    BY <2>1, CallFields
  <2>3. \/ Loop!Pushed(c, "pointer") /\ reads' = reads
        \/ /\ Loop!Pushed(c, disk[c.file]) /\ reads' = Loop!Cached(c.file)
           /\ ~(disk[c.file] \in {k1} /\ Loop!StillShown(c.file))
        \/ Loop!Pushed(c, "failed") /\ reads' = Loop!Cached(c.file)
    BY <1>7 DEF Loop!Read, Loop!ReadFails
  <2>4. CASE Loop!Pushed(c, "pointer") /\ reads' = reads
    <3>1. "pointer" \notin Loop!Body
      BY DEF Loop!Body, LoopAssumption
    <3> QED BY <2>1, <2>4, <3>1, RunKeeps
  <2>5. CASE /\ Loop!Pushed(c, disk[c.file]) /\ reads' = Loop!Cached(c.file)
             /\ ~(disk[c.file] \in {k1} /\ Loop!StillShown(c.file))
    <3>1. disk[c.file] \in Loop!Body
      BY <2>1, <2>2 DEF Loop!Body
    <3>2. ASSUME disk[c.file] = k1, NEW u \in transcript.shown, u.file = c.file, u.index = reads[u.file],
                 u.content = k1
          PROVE  FALSE
      <4>1. u = [index |-> reads[c.file], file |-> c.file, content |-> disk[c.file]] /\ reads[c.file] \in Nat
        BY <3>2 DEF LoopInv, LoopShape, TranscriptRow
      <4>2. Loop!StillShown(c.file)
        BY <3>2, <4>1 DEF Loop!StillShown, LoopAssumption
      <4> QED BY <2>5, <3>2, <4>2
    <3>3. disk[c.file] = k1 => ~\E u \in transcript.shown :
                                  u.file = c.file /\ u.index = reads[u.file] /\ u.content = k1
      BY <3>2
    <3> QED BY <2>1, <2>2, <2>5, <3>1, <3>3, RunKeeps
  <2>6. CASE Loop!Pushed(c, "failed") /\ reads' = Loop!Cached(c.file)
    <3>1. "failed" \in Loop!Body /\ "failed" # k1
      BY DEF Loop!Body, LoopAssumption, MCContent
    <3> QED BY <2>1, <2>2, <2>6, <3>1, RunKeeps
  <2> QED BY <2>3, <2>4, <2>5, <2>6
<1>8. ASSUME (\E upto \in 3 .. transcript.length : Loop!Fold(upto)) \/ Loop!KeepAll PROVE LoopInv'
  <2>1. /\ loopPhase = "calls" /\ batch = <<>> /\ loopPhase' = "ask" /\ UNCHANGED <<disk, reads, loop, batch>>
        /\ \/ transcript' = transcript
           \/ \E upto \in Int : transcript' = [transcript EXCEPT !.shown = {s \in @ : s.index >= upto}]
    BY <1>8 DEF Loop!Fold, Loop!KeepAll
  <2>2. /\ transcript' \in TranscriptRow /\ transcript'.length = transcript.length
        /\ transcript'.shown \subseteq transcript.shown
    BY <2>1 DEF LoopInv, LoopShape, TranscriptRow
  <2>3. LoopShape'
    BY <2>1, <2>2 DEF LoopInv, LoopShape
  <2>4. Nudges' = Nudges /\ ExtraTurns' = ExtraTurns /\ Nudges \in Nat /\ loop.calls \in Nat
    BY <2>1 DEF Nudges, ExtraTurns, LoopInv, LoopShape, LoopRow
  <2>5. Len(batch) = 0
    BY <2>1
  <2>6. TurnsCounted'
    BY <2>1, <2>4, <2>5 DEF LoopInv, TurnsCounted
  <2>7. ViewSound'
    <3>1. CASE transcript' = transcript
      BY <2>1, <3>1, ViewRests DEF LoopInv
    <3>2. CASE transcript' # transcript
      <4>1. PICK upto \in Int : transcript' = [transcript EXCEPT !.shown = {s \in @ : s.index >= upto}]
        BY <2>1, <3>2
      <4>2. transcript'.shown = {s \in transcript.shown : s.index >= upto}
        BY <4>1 DEF LoopInv, LoopShape, TranscriptRow
      <4>3. transcript.shown \in SUBSET [index : Nat, file : MCText, content : Loop!Body]
        BY DEF LoopInv, LoopShape, TranscriptRow
      <4>4. Copies({s \in transcript.shown : s.index >= upto}, reads)
        BY <4>3, CopiesFolded DEF LoopInv, ViewSound
      <4> QED BY <2>1, <4>2, <4>4 DEF LoopInv, ViewSound
    <3> QED BY <3>1, <3>2
  <2> QED BY <2>1, <2>3, <2>6, <2>7 DEF LoopInv, Loop!ToldBeforeGivingUp
<1> QED
  BY <1>1, <1>3, <1>4, <1>5, <1>6, <1>7, <1>8, AskKeeps, GiveUpKeeps DEF Loop!Next, toolLoop

\* What is counted keeps the limits it was given.
LEMMA LoopTyped == LoopAssumption /\ LoopInv => Loop!LoopTypeOK
<1> SUFFICES ASSUME LoopAssumption, LoopInv PROVE Loop!LoopTypeOK
  OBVIOUS
<1>1. loop.turn \in 0 .. MCLoopTurns + MCExtraCalls
  BY DEF LoopInv, LoopShape, LoopRow, TurnsCounted, ExtraTurns, LoopAssumption
<1> QED BY <1>1 DEF LoopInv, LoopShape, LoopRow, TurnsCounted, Loop!LoopTypeOK, TranscriptRow

-----------------------------------------------------------------------------
(* The same of the sub-agents, the developer and the requests of the composition. *)

DelegatesInv == component = "delegation" => DelegationInv
DevelopersInv == component = "developer" => DeveloperInv
ProvidersInv == component = "provider" => ProcessInv
LoopsInv == component = "loop" => LoopInv

LEMMA DelegatesNext ==
  DelegationAssumption /\ DelegatesInv /\ [AgentsNext]_agentsVars => DelegatesInv'
<1> SUFFICES ASSUME DelegationAssumption, DelegatesInv, [AgentsNext]_agentsVars PROVE DelegatesInv'
  OBVIOUS
<1>1. UNCHANGED component
  BY DEF AgentsNext, agentsVars
<1>2. CASE component = "delegation"
  <2>1. [Delegates!Next]_delegation
    BY <1>2 DEF AgentsNext, agentsVars
  <2> QED BY <1>1, <1>2, <2>1, DelegationNext DEF DelegatesInv
<1> QED BY <1>1, <1>2 DEF DelegatesInv

LEMMA DevelopersNext ==
  DeveloperAssumption /\ DevelopersInv /\ [AgentsNext]_agentsVars => DevelopersInv'
<1> SUFFICES ASSUME DeveloperAssumption, DevelopersInv, [AgentsNext]_agentsVars PROVE DevelopersInv'
  OBVIOUS
<1>1. UNCHANGED component
  BY DEF AgentsNext, agentsVars
<1>2. CASE component = "developer"
  <2>1. [Developer!Next]_developer
    BY <1>2 DEF AgentsNext, agentsVars
  <2> QED BY <1>1, <1>2, <2>1, DeveloperNext DEF DevelopersInv
<1> QED BY <1>1, <1>2 DEF DevelopersInv

LEMMA ProvidersNext ==
  ProcessAssumption /\ MCMaxPipe \in Nat /\ ProvidersInv /\ [AgentsNext]_agentsVars => ProvidersInv'
<1> SUFFICES ASSUME ProcessAssumption, MCMaxPipe \in Nat, ProvidersInv, [AgentsNext]_agentsVars
             PROVE  ProvidersInv'
  OBVIOUS
<1>1. UNCHANGED component
  BY DEF AgentsNext, agentsVars
<1>2. CASE component = "provider"
  <2>1. [Provider!Next]_provider
    BY <1>2 DEF AgentsNext, agentsVars
  <2> QED BY <1>1, <1>2, <2>1, ProcessNext DEF ProvidersInv
<1> QED BY <1>1, <1>2 DEF ProvidersInv

LEMMA LoopsNext ==
  LoopAssumption /\ LoopsInv /\ [AgentsNext]_agentsVars => LoopsInv'
<1> SUFFICES ASSUME LoopAssumption, LoopsInv, [AgentsNext]_agentsVars, component = "loop"
             PROVE  LoopInv'
  BY DEF LoopsInv, AgentsNext, agentsVars
<1>1. component' = component /\ LoopInv /\ [Loop!Next]_toolLoop
  BY DEF LoopsInv, AgentsNext, agentsVars, toolLoop
<1> QED BY <1>1, LoopNext

\* The tool loop of the run: one call in three turns.
LEMMA LoopAssumed ==
  ASSUME {"pointer", "error", "done", "failed"} \intersect MCContent = {}, None \notin Nat
  PROVE  LoopAssumption
BY DEF LoopAssumption, MCLoopTurns, MCToolCalls, MCExtraCalls, MCRewriteAt, MCMaxBatch

\* The constants of the instances are what the proofs assume.
LEMMA InstancesAssumed ==
  /\ DeveloperAssumption
  /\ MCMaxPipe \in Nat
  /\ (/\ None \notin Nat \union FailureCodes
      /\ \A c, u : Provider!Ends(c, u) # None) => ProcessAssumption
<1>1. DeveloperAssumption
  <2>1. MCGroups \in Nat /\ MCGroupOf \in [MCTask -> 1 .. MCGroups]
    BY DEF MCGroups, MCGroupOf
  <2>2. MCNames \in [MCTask -> SUBSET MCFile]
    BY DEF MCNames, MCTask, MCFile
  <2>3. \A t \in MCTask : t \in MCWithholds[t]
    BY DEF MCWithholds
  <2> QED BY <2>1, <2>2, <2>3 DEF DeveloperAssumption
<1>2. MCMaxPipe \in Nat /\ MCMaxTurns \in Nat /\ MCTurnTokens \in Nat
  BY DEF MCMaxPipe, MCMaxTurns, MCTurnTokens
<1>3. \A p \in MCProvider : MCLimits[p] \subseteq Nat \union {None}
  BY DEF MCLimits
<1> QED BY <1>1, <1>2, <1>3 DEF ProcessAssumption

\* What a sub-agent came to is returned by a wait, kept to be sent, or was sent to the agent in one
\* delivery, taken in, under way or lost; and no wait is left for children that have all ended.
THEOREM AgentsDeliver ==
  ASSUME DelegationAssumption
  PROVE  AgentsSpec => []ResultsAccounted
<1>1. AgentsInit => DelegatesInv
  BY DelegationInit DEF AgentsInit, DelegatesInv
<1>2. DelegatesInv /\ [AgentsNext]_agentsVars => DelegatesInv'
  BY DelegatesNext
<1>3. DelegatesInv => ResultsAccounted
  BY ResultsReach DEF DelegatesInv, ResultsAccounted
<1> QED BY <1>1, <1>2, <1>3, PTL DEF AgentsSpec, agentsVars

\* When a developer is done, every task is ticked, with a number and with the files it names on
\* disk, or covered by something it reported incomplete, or without a number and with its files.
THEOREM AgentsAccount == AgentsSpec => []TasksAccounted
<1>1. DeveloperAssumption
  BY InstancesAssumed
<1>2. AgentsInit => DevelopersInv
  BY <1>1, DeveloperInit DEF AgentsInit, DevelopersInv
<1>3. DevelopersInv /\ [AgentsNext]_agentsVars => DevelopersInv'
  BY <1>1, DevelopersNext
<1>4. DevelopersInv => TasksAccounted
  BY <1>1, PlanAccounted DEF DevelopersInv, TasksAccounted
<1> QED BY <1>2, <1>3, <1>4, PTL DEF AgentsSpec, agentsVars

\* What a session is told of its request is what happened: the first thing that went wrong, or
\* the success of a whole stream within its limits.
THEOREM AgentsTellTrue ==
  ASSUME None \notin Nat \union FailureCodes, \A c, u : Provider!Ends(c, u) # None
  PROVE  AgentsSpec => []OutcomeIsTrue
<1>1. ProcessAssumption /\ MCMaxPipe \in Nat
  BY InstancesAssumed
<1>2. AgentsInit => ProvidersInv
  BY <1>1, ProcessInit DEF AgentsInit, ProvidersInv
<1>3. ProvidersInv /\ [AgentsNext]_agentsVars => ProvidersInv'
  BY <1>1, ProvidersNext
<1>4. ProvidersInv => OutcomeIsTrue
  BY OutcomeTrue DEF ProvidersInv, OutcomeIsTrue
<1> QED BY <1>2, <1>3, <1>4, PTL DEF AgentsSpec, agentsVars

\* No tool loop is given up for its turns before its model was told to answer.
THEOREM AgentsTold ==
  ASSUME {"pointer", "error", "done", "failed"} \intersect MCContent = {}, None \notin Nat
  PROVE  AgentsSpec => []ToldBeforeGivingUp
<1>1. LoopAssumption
  BY LoopAssumed
<1>2. AgentsInit => LoopsInv
  BY <1>1, LoopInit DEF AgentsInit, LoopsInv
<1>3. LoopsInv /\ [AgentsNext]_agentsVars => LoopsInv'
  BY <1>1, LoopsNext
<1>4. LoopsInv => ToldBeforeGivingUp
  BY DEF LoopsInv, LoopInv, ToldBeforeGivingUp
<1> QED BY <1>2, <1>3, <1>4, PTL DEF AgentsSpec, agentsVars

\* No large text a tool loop has read is in view twice unless another of the same file is in between,
\* whatever was written, refused and folded since.
THEOREM AgentsReadOnce ==
  ASSUME {"pointer", "error", "done", "failed"} \intersect MCContent = {}, None \notin Nat
  PROVE  AgentsSpec => []NoCopyTwice
<1>1. LoopAssumption
  BY LoopAssumed
<1>2. AgentsInit => LoopsInv
  BY <1>1, LoopInit DEF AgentsInit, LoopsInv
<1>3. LoopsInv /\ [AgentsNext]_agentsVars => LoopsInv'
  BY <1>1, LoopsNext
<1>4. LoopsInv => NoCopyTwice
  BY DEF LoopsInv, LoopInv, ViewSound, Copies, Loop!NoCopyTwice, NoCopyTwice
<1> QED BY <1>2, <1>3, <1>4, PTL DEF AgentsSpec, agentsVars

-----------------------------------------------------------------------------
(* The types of the composition. *)

Components == {"core", "loop", "developer", "delegation", "provider", "verification", "legacy"}

\* What is proved of each component, of the one that is there.
AgentsInv ==
  /\ component \in Components
  /\ DelegatesInv /\ DevelopersInv /\ ProvidersInv /\ LoopsInv /\ ChecksInv /\ LegacyInv

AgentsTyped ==
  /\ component = "core" => GraphInv
  /\ component = "developer" => DeveloperTyped
  /\ component = "delegation" => Delegates!DelegationTypeOK
  /\ component = "provider" => ProcessTyped
  /\ component = "verification" => Checks!VisitTyped

\* What the components assume of their values.
AgentsAssumption ==
  /\ DelegationAssumption /\ DeveloperAssumption /\ ProcessAssumption /\ LoopAssumption
  /\ Checks!VerificationAssumption /\ Legacy!WorkflowAssumption

\* The components of the run are what their proofs assume, where their values are told apart.
LEMMA AgentsAssumed ==
  ASSUME DelegationAssumption, None \notin Nat \union FailureCodes,
         \A c, u : Provider!Ends(c, u) # None,
         {"pointer", "error", "done", "failed"} \intersect MCContent = {},
         None \notin Checks!Proof, leave \notin MCNode, None \notin MCNode \union {leave},
         None \notin Legacy!Ledger, None \notin [node : {plan}, granted : BOOLEAN]
  PROVE  AgentsAssumption
BY InstancesAssumed, LoopAssumed, ChecksAssumed, LegacyAssumed DEF AgentsAssumption

LEMMA AgentsStart == AgentsAssumption /\ AgentsInit => AgentsInv /\ AgentsTyped
<1> SUFFICES ASSUME AgentsAssumption, AgentsInit PROVE AgentsInv /\ AgentsTyped
  OBVIOUS
<1>1. MCHandoffs \in Nat /\ MCMaxPipe \in Nat \ {0} /\ 3 \in Nat
  BY DEF MCHandoffs, MCMaxPipe
<1>2. /\ component \in Components
      /\ component = "core" => Init
      /\ component = "loop" => Loop!Init
      /\ component = "developer" => Developer!Init
      /\ component = "delegation" => Delegates!Init
      /\ component = "provider" => Provider!Init
      /\ component = "verification" => Checks!Init
  BY DEF AgentsInit, Components
<1>3. DelegatesInv /\ DevelopersInv /\ ProvidersInv /\ LoopsInv
  BY <1>2, DelegationInit, DeveloperInit, ProcessInit, LoopInit
    DEF AgentsAssumption, DelegatesInv, DevelopersInv, ProvidersInv, LoopsInv
<1>4. ChecksInv /\ LegacyInv
  BY ChecksInit, LegacyInit DEF AgentsAssumption
<1>5. AgentsTyped
  BY <1>1, <1>2, GraphInit, DeveloperTypedInit, DelegationTypedInit, ProcessTypedInit, Checks!TypedInit
    DEF AgentsAssumption, AgentsTyped
<1> QED BY <1>2, <1>3, <1>4, <1>5 DEF AgentsInv

LEMMA AgentsKeep ==
  AgentsAssumption /\ AgentsInv /\ AgentsTyped /\ [AgentsNext]_agentsVars => AgentsInv' /\ AgentsTyped'
<1> SUFFICES ASSUME AgentsAssumption, AgentsInv, AgentsTyped, [AgentsNext]_agentsVars
             PROVE  AgentsInv' /\ AgentsTyped'
  OBVIOUS
<1>1. MCHandoffs \in Nat /\ MCMaxPipe \in Nat \ {0} /\ 3 \in Nat
  BY DEF MCHandoffs, MCMaxPipe
<1>2. component' = component
  BY DEF AgentsNext, agentsVars
<1>3. DelegatesInv' /\ DevelopersInv' /\ ProvidersInv' /\ LoopsInv'
  BY <1>1, DelegatesNext, DevelopersNext, ProvidersNext, LoopsNext DEF AgentsAssumption, AgentsInv
<1>4. ChecksInv' /\ LegacyInv'
  BY ChecksNext, LegacyNext DEF AgentsAssumption, AgentsInv
<1>5. AgentsInv'
  BY <1>2, <1>3, <1>4 DEF AgentsInv
<1>6. component = "core" => GraphInv'
  <2> SUFFICES ASSUME component = "core" PROVE GraphInv'
    OBVIOUS
  <2>1. GraphInv /\ [Next]_vars
    BY DEF AgentsTyped, AgentsNext, agentsVars
  <2> QED BY <2>1, GraphNext
<1>7. component = "developer" => DeveloperTyped'
  <2> SUFFICES ASSUME component = "developer" PROVE DeveloperTyped'
    OBVIOUS
  <2>1. [Developer!Next]_developer
    BY DEF AgentsNext, agentsVars
  <2> QED BY <1>2, <1>3, <2>1, DeveloperTypedNext DEF AgentsInv, AgentsTyped, DevelopersInv
<1>8. component = "delegation" => Delegates!DelegationTypeOK'
  <2> SUFFICES ASSUME component = "delegation" PROVE Delegates!DelegationTypeOK'
    OBVIOUS
  <2>1. [Delegates!Next]_delegation
    BY DEF AgentsNext, agentsVars
  <2> QED BY <1>1, <2>1, DelegationTypedNext DEF AgentsInv, AgentsTyped, DelegatesInv
<1>9. component = "provider" => ProcessTyped'
  <2> SUFFICES ASSUME component = "provider" PROVE ProcessTyped'
    OBVIOUS
  <2>1. [Provider!Next]_provider
    BY DEF AgentsNext, agentsVars
  <2> QED BY <1>1, <1>2, <1>3, <2>1, ProcessTypedNext DEF AgentsAssumption, AgentsInv, AgentsTyped, ProvidersInv
<1>10. component = "verification" => Checks!VisitTyped'
  <2> SUFFICES ASSUME component = "verification" PROVE Checks!VisitTyped'
    OBVIOUS
  <2>1. [Checks!Next]_(Checks!vars)
    BY DEF AgentsNext, agentsVars, verification, Checks!vars, Checks!visit, Checks!process, Checks!verdict
  <2> QED BY <1>1, <1>2, <1>4, <2>1, Checks!TypedNext DEF AgentsInv, AgentsTyped, ChecksInv
<1> QED BY <1>2, <1>5, <1>6, <1>7, <1>8, <1>9, <1>10 DEF AgentsTyped

\* Every graph, transcript, plan, tree of sub-agents, request, visit and ledger keeps its type, and
\* with it the bounds of what it counts.
THEOREM AgentsTypeCorrect ==
  ASSUME DelegationAssumption, None \notin Nat \union FailureCodes,
         \A c, u : Provider!Ends(c, u) # None,
         {"pointer", "error", "done", "failed"} \intersect MCContent = {},
         None \notin Checks!Proof, leave \notin MCNode, None \notin MCNode \union {leave},
         None \notin Legacy!Ledger, None \notin [node : {plan}, granted : BOOLEAN]
  PROVE  AgentsSpec => []AgentsTypeOK
<1>1. AgentsAssumption
  BY AgentsAssumed
<1>2. AgentsInit => AgentsInv /\ AgentsTyped
  BY <1>1, AgentsStart
<1>3. AgentsInv /\ AgentsTyped /\ [AgentsNext]_agentsVars => AgentsInv' /\ AgentsTyped'
  BY <1>1, AgentsKeep
<1>4. AgentsInv /\ AgentsTyped => AgentsTypeOK
  <2> SUFFICES ASSUME AgentsInv, AgentsTyped PROVE AgentsTypeOK
    OBVIOUS
  <2>1. CASE component = "core"
    BY <2>1 DEF AgentsTyped, GraphInv, AgentsTypeOK
  <2>2. CASE component = "loop"
    <3>1. Loop!LoopTypeOK
      BY <1>1, <2>2, LoopTyped DEF AgentsAssumption, AgentsInv, LoopsInv
    <3> QED BY <2>2, <3>1 DEF AgentsTypeOK
  <2>3. CASE component = "developer"
    BY <2>3 DEF AgentsTyped, DeveloperTyped, AgentsTypeOK
  <2>4. CASE component = "delegation"
    BY <2>4 DEF AgentsTyped, AgentsTypeOK
  <2>5. CASE component = "provider"
    <3>1. Provider!ProcessTypeOK
      BY <2>5, ProcessTypes DEF AgentsInv, AgentsTyped, ProvidersInv
    <3> QED BY <2>5, <3>1 DEF AgentsTypeOK
  <2>6. CASE component = "verification"
    <3>1. 3 \in Nat
      OBVIOUS
    <3>2. Checks!VerificationTypeOK
      BY <2>6, <3>1, Checks!VisitTypes DEF AgentsInv, AgentsTyped, ChecksInv
    <3> QED BY <2>6, <3>2 DEF AgentsTypeOK
  <2>7. CASE component = "legacy"
    <3>1. Legacy!WorkflowTypeOK
      BY <2>7, Legacy!WorkflowTyped DEF AgentsInv, LegacyInv
    <3> QED BY <2>7, <3>1 DEF AgentsTypeOK
  <2> QED BY <2>1, <2>2, <2>3, <2>4, <2>5, <2>6, <2>7 DEF AgentsInv, Components
<1> QED BY <1>2, <1>3, <1>4, PTL DEF AgentsSpec, agentsVars

=============================================================================
