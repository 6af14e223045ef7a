--------------------------- MODULE ResubmitProofs ---------------------------
(***************************************************************************)
(* Machine-checked proofs about Resubmit for any number of runs and any    *)
(* set of reports.                                                         *)
(***************************************************************************)
EXTENDS Resubmit, TLAPS

-----------------------------------------------------------------------------
(* Facts about plans, digests and approvals *)

\* The fields of the plan of a report (plan_resubmission).
LEMMA PlanFacts ==
    ASSUME NEW r \in Reports
    PROVE  /\ PlanOf[r] = Plan(r)
           /\ PlanOf[r].plan_digest = PlanDigest(r)
           /\ PlanOf[r].evidence_digest = EvidenceDigest(r)
           /\ PlanOf[r].eligibility = Eligibility(r)
           /\ PlanOf[r].blockers = PlanBlockers(r)
           /\ PlanOf[r].ready = Ready(r)
           /\ DigestOf(r) = PlanDigest(r)
BY DEF PlanOf, Plan, DigestOf

\* The digest binds all that execution depends on: `ready' is no part of the
\* payload, yet two plans with one digest are ready together.
LEMMA DigestBindsPlan ==
    ASSUME NEW r, NEW s, PlanDigest(r) = PlanDigest(s)
    PROVE  /\ Ready(r) <=> Ready(s)
           /\ SelectedCommand(SubmissionValues(r)) = SelectedCommand(SubmissionValues(s))
           /\ EvidenceDigest(r) = EvidenceDigest(s)
<1>1. DigestPayload(r) = DigestPayload(s)
  BY DEF PlanDigest, Digest
<1>2. /\ DigestPayload(r).blockers = DigestPayload(s).blockers
      /\ DigestPayload(r).eligibility = DigestPayload(s).eligibility
      /\ DigestPayload(r).selected_command = DigestPayload(s).selected_command
      /\ DigestPayload(r).evidence_digest = DigestPayload(s).evidence_digest
  BY <1>1
<1>3. /\ PlanBlockers(r) = PlanBlockers(s)
      /\ Eligibility(r) = Eligibility(s)
      /\ SelectedCommand(SubmissionValues(r)) = SelectedCommand(SubmissionValues(s))
      /\ EvidenceDigest(r) = EvidenceDigest(s)
  BY <1>2 DEF DigestPayload
<1>4. ASSUME NEW x, PlanBlockers(x) = {}
      PROVE  ReplyReady(x)
  BY <1>4 DEF PlanBlockers
<1>5. QED
  BY <1>3, <1>4 DEF Ready

\* create_approval makes an approval.
LEMMA ApprovalRecordType ==
    ASSUME NEW r \in Reports, NEW a \in Approvers
    PROVE  /\ ApprovalRecord(PlanOf[r], a) \in Approvals
           /\ ApprovalRecord(PlanOf[r], a).planned_submission_digest = PlanDigest(r)
           /\ ApprovalRecord(PlanOf[r], a).evidence_digest = EvidenceDigest(r)
BY PlanFacts DEF ApprovalRecord, Approvals, Digests

\* An approval file that parses holds an approval.
LEMMA SavedFiles ==
    /\ \A a \in Approvals : Saved(a) \in ApprovalFiles /\ Saved(a).kind = "saved" /\ Saved(a).approval = a
    /\ \A f \in ApprovalFiles : f.kind = "saved" => f.approval \in Approvals /\ f = Saved(f.approval)
    /\ {Absent, Empty, Torn, Malformed} \subseteq ApprovalFiles
    /\ \A f \in {Absent, Empty, Torn, Malformed} : f.kind # "saved"
<1>1. \A a \in Approvals : Saved(a) \in ApprovalFiles
  BY DEF ApprovalFiles
<1>2. \A a : Saved(a).kind = "saved" /\ Saved(a).approval = a
  BY DEF Saved
<1>3. \A f \in {Absent, Empty, Torn, Malformed} : f \in ApprovalFiles /\ f.kind # "saved"
  BY DEF ApprovalFiles, Absent, Empty, Torn, Malformed
<1>4. ASSUME NEW f \in ApprovalFiles, f.kind = "saved"
      PROVE  f.approval \in Approvals /\ f = Saved(f.approval)
  <2>1. PICK a \in Approvals : f = Saved(a)
    BY <1>3, <1>4 DEF ApprovalFiles
  <2>2. QED
    BY <2>1, <1>2
<1>5. QED
  BY <1>1, <1>2, <1>3, <1>4

\* What execute_resubmit lets through.
LEMMA ExecutionAllowed ==
    ASSUME NEW r \in Reports, NEW a, NEW d,
           ExecutionBlockers(PlanOf[r], PlanOf[r], a, d) = {}
    PROVE  /\ a # NULL
           /\ a.decision = "APPROVED"
           /\ a.planned_submission_digest = PlanDigest(r)
           /\ d = PlanDigest(r)
           /\ Ready(r)
<1>1. ApprovalBlockers(PlanOf[r], a, d) = {} /\ PlanOf[r].ready
  BY DEF ExecutionBlockers
<1>2. a # NULL
  BY <1>1 DEF ApprovalBlockers
<1>3. /\ ApprovalStatus(PlanOf[r], a) = "APPROVED"
      /\ a.planned_submission_digest = PlanOf[r].plan_digest
      /\ d = PlanOf[r].plan_digest
  BY <1>1, <1>2 DEF ApprovalBlockers
<1>4. a.decision = "APPROVED"
  BY <1>2, <1>3 DEF ApprovalStatus, StatusFor
<1>5. QED
  BY <1>1, <1>2, <1>3, <1>4, PlanFacts
-----------------------------------------------------------------------------
(* Types *)

Typed == TypeOK /\ RunsHoldReports

\* No run has anything at first.
LEMMA TypedInit == Init => Typed
<1> SUFFICES ASSUME Init PROVE Typed
  OBVIOUS
<1>1. approvalFile \in ApprovalFiles
  <2>1. CASE approvalFile = Absent
    BY <2>1, SavedFiles
  <2>2. CASE \E r \in PriorReports, a \in Approvers : approvalFile = Saved(ApprovalRecord(Plan(r), a))
    <3>1. PICK r \in PriorReports, a \in Approvers : approvalFile = Saved(ApprovalRecord(Plan(r), a))
      BY <2>2
    <3>2. r \in Reports
      BY ResubmitAssumption
    <3>3. ApprovalRecord(Plan(r), a) \in Approvals
      BY <3>2, ApprovalRecordType, PlanFacts
    <3>4. QED
      BY <3>1, <3>3, SavedFiles
  <2>3. QED
    BY <2>1, <2>2 DEF Init
<1>2. QED
  BY <1>1, ResubmitAssumption
     DEF Init, Typed, TypeOK, RunsHoldReports, Unfinished, Locations, ReviewStates

\* The record an approve run writes is an approval of the report it holds.
LEMMA OverwriteType ==
    ASSUME NEW i \in Runs, Typed, pc[i] = "write",
           NEW f \in Overwrite(i)
    PROVE  /\ f \in ApprovalFiles
           /\ f.kind = "saved" => \/ f = approvalFile
                                  \/ f = Saved(ApprovalRecord(PlanOf[report[i]], approver[i]))
<1>1. report[i] \in Reports /\ approver[i] \in Approvers
  BY DEF Typed, RunsHoldReports, Unfinished
<1>2. Saved(ApprovalRecord(PlanOf[report[i]], approver[i])) \in ApprovalFiles
  BY <1>1, ApprovalRecordType, SavedFiles
<1>3. f \in {approvalFile, Saved(ApprovalRecord(PlanOf[report[i]], approver[i])), Torn}
  BY DEF Overwrite
<1>4. QED
  BY <1>2, <1>3, SavedFiles DEF Typed, TypeOK

\* Every step keeps the types and the reports the runs hold.
LEMMA TypedStep == Typed /\ [Next]_vars => Typed'
<1> SUFFICES ASSUME Typed, [Next]_vars
             PROVE  Typed'
  OBVIOUS
<1> USE DEF Typed, TypeOK, RunsHoldReports, Unfinished, Locations
<1>1. ASSUME NEW i \in Runs, Start(i)
      PROVE  Typed'
  <2>1. digestArg' \in [Runs -> Digests \cup {NULL}]
    BY <1>1 DEF Start
  <2>2. approver' \in [Runs -> Approvers \cup {NULL}]
    BY <1>1 DEF Start
  <2>3. QED
    BY <1>1, <2>1, <2>2 DEF Start, Goto, files, remote
<1>2. ASSUME NEW i \in Runs, LoadReport(i)
      PROVE  Typed'
  <2>1. reportFile \in Reports
    BY <1>2 DEF LoadReport
  <2>2. granted' \subseteq Reports
    BY <1>2, <2>1 DEF LoadReport
  <2>3. ASSUME i \in ApproveRuns, CanApprove(PlanOf[reportFile], digestArg[i], approver[i])
        PROVE  reportFile \in granted' /\ approver[i] \in Approvers
    BY <1>2, <2>1, <2>3, PlanFacts DEF LoadReport, CanApprove
  <2>4. granted \subseteq granted'
    BY <1>2 DEF LoadReport
  <2>5. QED
    BY <1>2, <2>1, <2>2, <2>3, <2>4 DEF LoadReport, Goto, Abort, Shown, files, remote
<1>3. ASSUME NEW i \in Runs, LoadReportFails(i)
      PROVE  Typed'
  BY <1>3 DEF LoadReportFails, Goto, Abort, Shown, files, remote
<1>4. ASSUME NEW i \in Runs, TruncateApproval(i)
      PROVE  Typed'
  <2>1. approvalFile' \in ApprovalFiles
    BY <1>4, SavedFiles DEF TruncateApproval
  <2>2. CASE Goto(i, "truncate", "write")
    BY <1>4, <2>1, <2>2 DEF TruncateApproval, Goto, Abort, remote
  <2>3. CASE Abort(i, "truncate")
    BY <1>4, <2>1, <2>3 DEF TruncateApproval, Goto, Abort, Shown, remote
  <2>4. QED
    BY <1>4, <2>2, <2>3 DEF TruncateApproval
<1>5. ASSUME NEW i \in Runs, WriteApproval(i)
      PROVE  Typed'
  <2>1. approvalFile' \in ApprovalFiles
    BY <1>5, OverwriteType, SavedFiles DEF WriteApproval, Goto, Abort
  <2>2. QED
    BY <1>5, <2>1 DEF WriteApproval, Goto, Abort, Shown, remote
<1>6. ASSUME NEW i \in Runs, Replan(i)
      PROVE  Typed'
  BY <1>6 DEF Replan, Goto, Abort, Shown, files, remote
<1>7. ASSUME NEW i \in Runs, LoadApproval(i)
      PROVE  Typed'
  <2>1. Loaded(approvalFile) \in Approvals \cup {NULL}
    BY SavedFiles DEF Loaded
  <2>2. QED
    BY <1>7, <2>1 DEF LoadApproval, Goto, Abort, Shown, files, remote
<1>8. ASSUME NEW i \in Runs, LoadApprovalFails(i)
      PROVE  Typed'
  BY <1>8 DEF LoadApprovalFails, Goto, Abort, Shown, files, remote
<1>9. ASSUME NEW i \in Runs, RefuseExecution(i)
      PROVE  Typed'
  BY <1>9 DEF RefuseExecution, Goto, files, remote
<1>10. ASSUME NEW i \in Runs, Submit(i)
       PROVE  Typed'
  BY <1>10 DEF Submit, Goto, Abort, Shown, files
<1>11. ASSUME NEW i \in Runs, SubmitReturns(i)
       PROVE  Typed'
  BY <1>11 DEF SubmitReturns, Goto, files, remote
<1>12. ASSUME NEW i \in Runs, ReadStatus(i)
       PROVE  Typed'
  BY <1>12 DEF ReadStatus, Goto, Abort, Shown, files, remote
<1>13. ASSUME NEW i \in Runs, Report(i)
       PROVE  Typed'
  <2>1. Final(i) \in Finals
    BY DEF Final, Finals
  <2>2. QED
    BY <1>13, <2>1 DEF Report, Goto, Shown, files, remote
<1>14. ASSUME NEW i \in Runs, Crash(i)
       PROVE  Typed'
  BY <1>14 DEF Crash, remote
<1>15. ASSUME NEW i \in Runs, AppStoreAnswers(i)
       PROVE  Typed'
  BY <1>15 DEF AppStoreAnswers, ReviewStates, files
<1>16. CASE ReviewMoves
  BY <1>16 DEF ReviewMoves, ReviewStates, files
<1>17. CASE EditReport
  BY <1>17 DEF EditReport, remote
<1>18. CASE WithdrawApproval
  <2>1. ASSUME approvalFile.kind = "saved"
        PROVE  /\ [approvalFile.approval EXCEPT !.decision = "REJECTED"] \in Approvals
               /\ [approvalFile.approval EXCEPT !.approved_by = NULL] \in Approvals
    BY <2>1, SavedFiles DEF Approvals
  <2>2. approvalFile' \in ApprovalFiles
    <3>1. CASE approvalFile' = Absent
      BY <3>1, SavedFiles
    <3>2. CASE /\ approvalFile.kind = "saved"
               /\ approvalFile' \in { Saved([approvalFile.approval EXCEPT !.decision = "REJECTED"]),
                                      Saved([approvalFile.approval EXCEPT !.approved_by = NULL]),
                                      Malformed }
      BY <2>1, <3>2, SavedFiles
    <3>3. QED
      BY <1>18, <3>1, <3>2 DEF WithdrawApproval
  <2>3. handle' \in [Runs -> BOOLEAN]
    BY <1>18 DEF WithdrawApproval
  <2>4. QED
    BY <1>18, <2>2, <2>3 DEF WithdrawApproval, remote
<1>19. CASE UNCHANGED vars
  BY <1>19 DEF vars
<1>20. QED
  BY <1>1, <1>2, <1>3, <1>4, <1>5, <1>6, <1>7, <1>8, <1>9, <1>10, <1>11, <1>12, <1>13,
     <1>14, <1>15, <1>16, <1>17, <1>18, <1>19
     DEF Next, RunStep

\* Every state is typed, whatever the runs, reports and approvers: among the
\* rest, what load_approval returns is an approval or nothing.
THEOREM TypeCorrect == Spec => []TypeOK
<1>1. Typed => TypeOK
  BY DEF Typed
<1>2. QED
  BY <1>1, TypedInit, TypedStep, PTL DEF Spec
-----------------------------------------------------------------------------
(* No approval without a grant, in the file and in the runs that read it *)

Granted == FileWasGranted /\ LoadedWasGranted

\* The approval an earlier release left was granted.
LEMMA GrantedInit == Init => Granted
<1> SUFFICES ASSUME Init PROVE Granted
  OBVIOUS
<1>1. LoadedWasGranted
  BY DEF Init, LoadedWasGranted
<1>2. CASE approvalFile = Absent
  BY <1>1, <1>2, SavedFiles DEF Granted, FileWasGranted
<1>3. CASE \E r \in PriorReports, a \in Approvers : approvalFile = Saved(ApprovalRecord(Plan(r), a))
  <2>1. PICK r \in PriorReports, a \in Approvers : approvalFile = Saved(ApprovalRecord(Plan(r), a))
    BY <1>3
  <2>2. r \in Reports /\ r \in granted
    BY <2>1, ResubmitAssumption DEF Init
  <2>3. approvalFile = Saved(ApprovalRecord(PlanOf[r], a))
    BY <2>1, <2>2, PlanFacts
  <2>4. approvalFile.approval = ApprovalRecord(PlanOf[r], a)
    BY <2>2, <2>3, ApprovalRecordType, SavedFiles
  <2>5. QED
    BY <1>1, <2>2, <2>4, ApprovalRecordType DEF Granted, FileWasGranted, Bound
<1>4. QED
  BY <1>2, <1>3 DEF Init

\* Grants are never taken back, so what was bound stays bound.
LEMMA BoundStays ==
    ASSUME NEW a, granted \subseteq granted', Bound(a)
    PROVE  a.decision = "APPROVED" =>
              \E r \in granted' : /\ a.planned_submission_digest = PlanDigest(r)
                                 /\ a.evidence_digest = EvidenceDigest(r)
BY DEF Bound

\* No step takes back a grant.
LEMMA GrantsGrow == [Next]_vars => granted \subseteq granted'
BY DEF Next, RunStep, vars, Start, LoadReport, LoadReportFails, TruncateApproval,
       WriteApproval, Replan, LoadApproval, LoadApprovalFails, RefuseExecution, Submit,
       SubmitReturns, ReadStatus, Report, Crash, AppStoreAnswers, ReviewMoves, EditReport,
       WithdrawApproval

\* Every step keeps readable approvals bound to granted reports.
LEMMA GrantedStep == Typed /\ Granted /\ [Next]_vars => Granted'
<1> SUFFICES ASSUME Typed, Granted, [Next]_vars
             PROVE  Granted'
  OBVIOUS
<1>1. granted \subseteq granted'
  BY GrantsGrow
<1>2. ASSUME approvalFile' = approvalFile
      PROVE  FileWasGranted'
  BY <1>1, <1>2, BoundStays DEF Granted, FileWasGranted, Bound
<1>3. ASSUME approval' = approval
      PROVE  LoadedWasGranted'
  BY <1>1, <1>3, BoundStays DEF Granted, LoadedWasGranted, Bound
<1>4. ASSUME NEW i \in Runs, TruncateApproval(i)
      PROVE  FileWasGranted'
  BY <1>2, <1>4, SavedFiles DEF TruncateApproval, FileWasGranted
<1>5. ASSUME NEW i \in Runs, WriteApproval(i)
      PROVE  FileWasGranted'
  <2>1. CASE approvalFile' = approvalFile
    BY <1>2, <2>1
  <2>2. CASE approvalFile' = Torn
    BY <2>2, SavedFiles DEF FileWasGranted
  <2>3. CASE pc[i] = "write" /\ approvalFile' = Saved(ApprovalRecord(PlanOf[report[i]], approver[i]))
    <3>1. report[i] \in Reports /\ report[i] \in granted' /\ approver[i] \in Approvers
      BY <1>1, <2>3 DEF Typed, RunsHoldReports, Unfinished
    <3>2. approvalFile'.approval = ApprovalRecord(PlanOf[report[i]], approver[i])
      BY <2>3, <3>1, ApprovalRecordType, SavedFiles
    <3>3. QED
      BY <3>1, <3>2, ApprovalRecordType DEF FileWasGranted, Bound
  <2>4. QED
    BY <1>5, <2>1, <2>2, <2>3 DEF WriteApproval, Overwrite, Goto, Abort
<1>6. ASSUME NEW i \in Runs, LoadApproval(i)
      PROVE  LoadedWasGranted'
  <2>1. approval' = [approval EXCEPT ![i] = Loaded(approvalFile)]
    BY <1>6 DEF LoadApproval
  <2>2. Loaded(approvalFile) # NULL => Bound(Loaded(approvalFile))
    BY DEF Loaded, Granted, FileWasGranted
  <2>3. ASSUME NEW j \in Runs, approval'[j] # NULL
        PROVE  Bound(approval'[j])
    BY <2>1, <2>2, <2>3 DEF Granted, LoadedWasGranted, Typed, TypeOK
  <2>4. QED
    BY <1>1, <2>3, BoundStays DEF LoadedWasGranted, Bound
<1>7. ASSUME WithdrawApproval
      PROVE  FileWasGranted'
  <2>1. CASE approvalFile' \in {Absent, Malformed}
    BY <2>1, SavedFiles DEF FileWasGranted
  <2>2. CASE /\ approvalFile.kind = "saved"
             /\ approvalFile' = Saved([approvalFile.approval EXCEPT !.decision = "REJECTED"])
    <3>1. approvalFile.approval \in Approvals
      BY <2>2, SavedFiles DEF Typed, TypeOK
    <3>2. [approvalFile.approval EXCEPT !.decision = "REJECTED"] \in Approvals
      BY <3>1 DEF Approvals
    <3>3. approvalFile'.approval.decision = "REJECTED"
      BY <2>2, <3>1, <3>2, SavedFiles DEF Approvals
    <3>4. QED
      BY <3>3 DEF FileWasGranted, Bound
  <2>3. CASE /\ approvalFile.kind = "saved"
             /\ approvalFile' = Saved([approvalFile.approval EXCEPT !.approved_by = NULL])
    <3>1. approvalFile.approval \in Approvals
      BY <2>3, SavedFiles DEF Typed, TypeOK
    <3>2. [approvalFile.approval EXCEPT !.approved_by = NULL] \in Approvals
      BY <3>1 DEF Approvals
    <3>3. /\ approvalFile'.approval.decision = approvalFile.approval.decision
          /\ approvalFile'.approval.planned_submission_digest
                = approvalFile.approval.planned_submission_digest
          /\ approvalFile'.approval.evidence_digest = approvalFile.approval.evidence_digest
      BY <2>3, <3>1, <3>2, SavedFiles DEF Approvals
    <3>4. QED
      BY <1>1, <2>3, <3>3, BoundStays DEF Granted, FileWasGranted, Bound
  <2>4. QED
    BY <1>7, <2>1, <2>2, <2>3 DEF WithdrawApproval
<1>8. FileWasGranted'
  <2>1. CASE \E i \in Runs : TruncateApproval(i) \/ WriteApproval(i)
    BY <1>4, <1>5, <2>1
  <2>2. CASE WithdrawApproval
    BY <1>7, <2>2
  <2>3. CASE approvalFile' = approvalFile
    BY <1>2, <2>3
  <2>4. QED
    BY <2>1, <2>2, <2>3
       DEF Next, RunStep, vars, files, Start, LoadReport, LoadReportFails, Replan, LoadApproval,
           LoadApprovalFails, RefuseExecution, Submit, SubmitReturns, ReadStatus, Report,
           Crash, AppStoreAnswers, ReviewMoves, EditReport
<1>9. LoadedWasGranted'
  <2>1. CASE \E i \in Runs : LoadApproval(i)
    BY <1>6, <2>1
  <2>2. CASE approval' = approval
    BY <1>3, <2>2
  <2>3. QED
    BY <2>1, <2>2
       DEF Next, RunStep, vars, Start, LoadReport, LoadReportFails, TruncateApproval,
           WriteApproval, Replan, LoadApprovalFails, RefuseExecution, Submit, SubmitReturns,
           ReadStatus, Report, Crash, AppStoreAnswers, ReviewMoves, EditReport,
           WithdrawApproval
<1>10. QED
  BY <1>8, <1>9 DEF Granted

\* A readable approval in the file was given by a person, whatever writers,
\* crashes and editors did to the file (write_approval, load_approval).
THEOREM FileOnlyHoldsGrants == Spec => []FileWasGranted
<1>1. Granted => FileWasGranted
  BY DEF Granted
<1>2. QED
  BY <1>1, TypedInit, TypedStep, GrantedInit, GrantedStep, PTL DEF Spec
-----------------------------------------------------------------------------
(* What has been sent had been granted *)

AfterSubmit == {"submitting", "status", "report", "done", "dead"}

\* A run that has sent keeps its report and never comes back to send again.
LEMMA SentStaysPut ==
    ASSUME Typed, SentWasGranted, [Next]_vars, NEW j \in Runs, Sent(j)
    PROVE  report'[j] = report[j] /\ pc'[j] \in AfterSubmit
<1>1. pc[j] \in AfterSubmit
  BY DEF SentWasGranted, AfterSubmit
<1> USE <1>1 DEF Typed, TypeOK, AfterSubmit, Goto, Abort
<1>2. ASSUME NEW i \in Runs, \/ Start(i) \/ LoadReport(i) \/ LoadReportFails(i)
                             \/ TruncateApproval(i) \/ WriteApproval(i) \/ Replan(i)
      PROVE  report'[j] = report[j] /\ pc'[j] \in AfterSubmit
  BY <1>2 DEF Start, LoadReport, LoadReportFails, TruncateApproval, WriteApproval, Replan
<1>3. ASSUME NEW i \in Runs, \/ LoadApproval(i) \/ LoadApprovalFails(i) \/ RefuseExecution(i)
                             \/ Submit(i)
      PROVE  report'[j] = report[j] /\ pc'[j] \in AfterSubmit
  BY <1>3 DEF LoadApproval, LoadApprovalFails, RefuseExecution, Submit
<1>4. ASSUME NEW i \in Runs, \/ SubmitReturns(i) \/ ReadStatus(i) \/ Report(i) \/ Crash(i)
                             \/ AppStoreAnswers(i)
      PROVE  report'[j] = report[j] /\ pc'[j] \in AfterSubmit
  BY <1>4 DEF SubmitReturns, ReadStatus, Report, Crash, AppStoreAnswers
<1>5. ASSUME ReviewMoves \/ EditReport \/ WithdrawApproval \/ UNCHANGED vars
      PROVE  report'[j] = report[j] /\ pc'[j] \in AfterSubmit
  BY <1>5 DEF ReviewMoves, EditReport, WithdrawApproval, vars
<1>6. QED
  BY <1>2, <1>3, <1>4, <1>5 DEF Next, RunStep

\* Only Submit sends.
LEMMA OnlySubmitSends ==
    ASSUME Typed, [Next]_vars, NEW j \in Runs, ~Sent(j), Sent(j)'
    PROVE  /\ pc[j] = "execute" /\ ~Blocked(j)
           /\ pc'[j] = "submitting" /\ report' = report
<1> USE DEF Typed, TypeOK, Sent
<1>1. \/ \E i \in Runs : Submit(i) \/ AppStoreAnswers(i)
      \/ delivery' = delivery
  BY DEF Next, RunStep, vars, remote, Start, LoadReport, LoadReportFails, TruncateApproval,
         WriteApproval, Replan, LoadApproval, LoadApprovalFails, RefuseExecution,
         SubmitReturns, ReadStatus, Report, Crash, ReviewMoves, EditReport, WithdrawApproval
<1>2. ASSUME NEW i \in Runs, AppStoreAnswers(i)
      PROVE  FALSE
  BY <1>2 DEF AppStoreAnswers
<1>3. ASSUME NEW i \in Runs, Submit(i)
      PROVE  /\ pc[j] = "execute" /\ ~Blocked(j)
             /\ pc'[j] = "submitting" /\ report' = report
  <2>1. i = j /\ delivery' # delivery
    BY <1>3 DEF Submit
  <2>2. QED
    BY <1>3, <2>1 DEF Submit, Goto, Abort
<1>4. QED
  BY <1>1, <1>2, <1>3

\* Every step keeps what was sent under a grant.
LEMMA SentStep == Typed /\ Granted /\ SentWasGranted /\ [Next]_vars => SentWasGranted'
<1> SUFFICES ASSUME Typed, Granted, SentWasGranted, [Next]_vars, NEW j \in Runs, Sent(j)'
             PROVE  /\ report'[j] \in Reports
                    /\ Ready(report'[j])
                    /\ \E r \in granted' : PlanDigest(r) = PlanDigest(report'[j])
                    /\ pc'[j] \in AfterSubmit
  BY DEF SentWasGranted, AfterSubmit
<1>1. granted \subseteq granted'
  BY GrantsGrow
<1>2. CASE Sent(j)
  <2>1. report'[j] = report[j] /\ pc'[j] \in AfterSubmit
    BY <1>2, SentStaysPut
  <2>2. QED
    BY <1>1, <1>2, <2>1 DEF SentWasGranted
<1>3. CASE ~Sent(j)
  <2>1. /\ pc[j] = "execute" /\ ~Blocked(j)
        /\ pc'[j] = "submitting" /\ report'[j] = report[j]
    BY <1>3, OnlySubmitSends
  <2>2. report[j] \in Reports
    BY <2>1 DEF Typed, RunsHoldReports, Unfinished
  <2>3. /\ approval[j] # NULL
        /\ approval[j].decision = "APPROVED"
        /\ approval[j].planned_submission_digest = PlanDigest(report[j])
        /\ Ready(report[j])
    BY <2>1, <2>2, ExecutionAllowed DEF Blocked
  <2>4. \E r \in granted : PlanDigest(r) = PlanDigest(report[j])
    BY <2>3 DEF Granted, LoadedWasGranted, Bound
  <2>5. QED
    BY <1>1, <2>1, <2>2, <2>3, <2>4 DEF AfterSubmit
<1>4. QED
  BY <1>2, <1>3

\* Nothing is sent at first.
LEMMA SentInit == Init => SentWasGranted
BY DEF Init, SentWasGranted, Sent

\* Every sent command is the command of a plan that was ready when a person
\* approved it, in any interleaving of runs, edits and crashes
\* (validate_approval, execute_resubmit).
THEOREM OnlyApprovedCommandsAreSent == Spec => []SentCommandWasApproved
<1>1. SentWasGranted => SentCommandWasApproved
  <2> SUFFICES ASSUME SentWasGranted, NEW i \in Runs, Sent(i)
               PROVE  \E r \in granted :
                         /\ Ready(r)
                         /\ SelectedCommand(SubmissionValues(r))
                               = SelectedCommand(SubmissionValues(report[i]))
    BY DEF SentCommandWasApproved
  <2>1. PICK r \in granted : PlanDigest(r) = PlanDigest(report[i])
    BY DEF SentWasGranted
  <2>2. Ready(report[i])
    BY DEF SentWasGranted
  <2>3. QED
    BY <2>1, <2>2, DigestBindsPlan
<1>2. QED
  BY <1>1, TypedInit, TypedStep, GrantedInit, GrantedStep, SentInit, SentStep, PTL DEF Spec

\* An approval is not used up: its digest may be executed again after an error,
\* a lost answer or a success.  However reports and approvals were changed in
\* between, every execution of one digest sends the same command on the same
\* evidence (validate_approval, execute_resubmit).
RetriesSendTheSame ==
    \A i, j \in Runs : Sent(i) /\ Sent(j) /\ digestArg[i] = digestArg[j] =>
        /\ SelectedCommand(SubmissionValues(report[i])) = SelectedCommand(SubmissionValues(report[j]))
        /\ EvidenceDigest(report[i]) = EvidenceDigest(report[j])

\* A command leaves for the very plan whose digest was typed.
SentAsTyped == \A i \in Runs : Sent(i) => digestArg[i] = PlanDigest(report[i])

\* Only a run that starts is given a digest.
LEMMA DigestArgStays ==
    ASSUME Typed, [Next]_vars, NEW j \in Runs, pc[j] # "idle"
    PROVE  digestArg'[j] = digestArg[j]
<1> USE DEF Typed, TypeOK
<1>1. (\E i \in Runs : Start(i)) \/ digestArg' = digestArg
  BY DEF Next, RunStep, vars, LoadReport, LoadReportFails, TruncateApproval,
         WriteApproval, Replan, LoadApproval, LoadApprovalFails, RefuseExecution, Submit,
         SubmitReturns, ReadStatus, Report, Crash, AppStoreAnswers, ReviewMoves, EditReport,
         WithdrawApproval
<1>2. ASSUME NEW i \in Runs, Start(i)
      PROVE  digestArg'[j] = digestArg[j]
  <2>1. i # j
    BY <1>2 DEF Start, Goto
  <2>2. QED
    BY <1>2, <2>1 DEF Start
<1>3. QED
  BY <1>1, <1>2

\* Every step keeps what was sent as typed.
LEMMA SentAsTypedStep ==
    Typed /\ SentWasGranted /\ SentAsTyped /\ [Next]_vars => SentAsTyped'
<1> SUFFICES ASSUME Typed, SentWasGranted, SentAsTyped, [Next]_vars, NEW j \in Runs, Sent(j)'
             PROVE  digestArg'[j] = PlanDigest(report'[j])
  BY DEF SentAsTyped
<1>1. CASE Sent(j)
  <2>1. pc[j] # "idle"
    BY <1>1 DEF SentWasGranted
  <2>2. report'[j] = report[j] /\ digestArg'[j] = digestArg[j]
    BY <1>1, <2>1, SentStaysPut, DigestArgStays
  <2>3. QED
    BY <1>1, <2>2 DEF SentAsTyped
<1>2. CASE ~Sent(j)
  <2>1. /\ pc[j] = "execute" /\ ~Blocked(j)
        /\ report'[j] = report[j]
    BY <1>2, OnlySubmitSends
  <2>2. report[j] \in Reports
    BY <2>1 DEF Typed, RunsHoldReports, Unfinished
  <2>3. digestArg[j] = PlanDigest(report[j])
    BY <2>1, <2>2, ExecutionAllowed DEF Blocked
  <2>4. QED
    BY <2>1, <2>3, DigestArgStays
<1>3. QED
  BY <1>1, <1>2

\* However often a digest is executed, and whatever became of the report and the
\* approval in between, the command and the evidence it is sent on are the same
\* (validate_approval, execute_resubmit).
THEOREM RetriesAlwaysSendTheSame == Spec => []RetriesSendTheSame
<1>1. Init => SentAsTyped
  BY DEF Init, SentAsTyped, Sent
<1>2. SentAsTyped => RetriesSendTheSame
  <2> SUFFICES ASSUME SentAsTyped, NEW i \in Runs, NEW j \in Runs, Sent(i), Sent(j),
                      digestArg[i] = digestArg[j]
               PROVE  /\ SelectedCommand(SubmissionValues(report[i]))
                            = SelectedCommand(SubmissionValues(report[j]))
                      /\ EvidenceDigest(report[i]) = EvidenceDigest(report[j])
    BY DEF RetriesSendTheSame
  <2>1. PlanDigest(report[i]) = PlanDigest(report[j])
    BY DEF SentAsTyped
  <2>2. QED
    BY <2>1, DigestBindsPlan
<1>3. QED
  BY <1>1, <1>2, TypedInit, TypedStep, GrantedInit, GrantedStep, SentInit, SentStep,
     SentAsTypedStep, PTL DEF Spec

\* Without explicit evidence digests an approval binds the whole report: what
\* is sent is a report that was granted, part by part.
THEOREM OnlyApprovedReportsAreSent ==
    ASSUME \A r \in Reports : r.evidence_digest = NULL
    PROVE  Spec => []SentReportWasApproved
<1>1. ASSUME NEW r \in Reports, NEW s \in Reports, PlanDigest(r) = PlanDigest(s)
      PROVE  r = s
  <2>1. EvidenceDigest(r) = EvidenceDigest(s)
    BY <1>1, DigestBindsPlan
  <2>2. QED
    BY <2>1 DEF EvidenceDigest, Digest
<1>2. Typed /\ SentWasGranted => SentReportWasApproved
  <2> SUFFICES ASSUME Typed, SentWasGranted, NEW i \in ExecuteRuns, Sent(i)
               PROVE  report[i] \in granted
    BY DEF SentReportWasApproved
  <2>1. i \in Runs
    BY DEF Runs
  <2>2. PICK r \in granted : PlanDigest(r) = PlanDigest(report[i])
    BY <2>1 DEF SentWasGranted
  <2>3. r \in Reports /\ report[i] \in Reports
    BY <2>1 DEF Typed, TypeOK, SentWasGranted
  <2>4. QED
    BY <1>1, <2>2, <2>3
<1>3. QED
  BY <1>2, TypedInit, TypedStep, GrantedInit, GrantedStep, SentInit, SentStep, PTL DEF Spec
-----------------------------------------------------------------------------
(* What is reported is what happened *)

Truthful == AnswersAreTrue /\ FinishedAreShown

\* Nothing is shown or answered at first.
LEMMA TruthfulInit == Init => Truthful
<1> SUFFICES ASSUME Init, NEW i \in Runs
             PROVE  /\ returncode[i] # 0 /\ pc[i] = "idle"
                    /\ execution[i] = "NOT_RUN" /\ shown[i] = NULL
  BY DEF Truthful, AnswersAreTrue, FinishedAreShown
<1>1. QED
  BY ResubmitAssumption DEF Init

\* A run that sent has a ready plan, and READY is not shown as BLOCKED.
LEMMA SentIsNotBlocked ==
    ASSUME SentWasGranted, NEW i \in Runs, Sent(i)
    PROVE  Final(i) # "BLOCKED"
<1>1. report[i] \in Reports /\ Ready(report[i])
  BY DEF SentWasGranted
<1>2. PlanOf[report[i]].ready /\ PlanOf[report[i]].eligibility = "YES"
  BY <1>1, PlanFacts DEF Ready
<1>3. PlanStatus(PlanOf[report[i]]) = "READY"
  BY <1>2 DEF PlanStatus
<1>4. QED
  BY <1>3 DEF Final

\* Every step keeps what is shown true of what was sent.
LEMMA TruthfulStep == Typed /\ SentWasGranted /\ Truthful /\ [Next]_vars => Truthful'
<1> SUFFICES ASSUME Typed, SentWasGranted, Truthful, [Next]_vars
             PROVE  Truthful'
  OBVIOUS
<1> USE ResubmitAssumption DEF Typed, TypeOK, Truthful, AnswersAreTrue, FinishedAreShown, Sent
<1>1. ASSUME NEW i \in Runs, \/ Start(i) \/ LoadReport(i) \/ LoadReportFails(i)
      PROVE  Truthful'
  BY <1>1 DEF Start, LoadReport, LoadReportFails, Goto, Abort, remote
<1>2. ASSUME NEW i \in Runs, \/ TruncateApproval(i) \/ WriteApproval(i) \/ Replan(i)
      PROVE  Truthful'
  BY <1>2 DEF TruncateApproval, WriteApproval, Replan, Goto, Abort, remote
<1>3. ASSUME NEW i \in Runs, \/ LoadApproval(i) \/ LoadApprovalFails(i) \/ RefuseExecution(i)
      PROVE  Truthful'
  BY <1>3 DEF LoadApproval, LoadApprovalFails, RefuseExecution, Goto, Abort, remote
<1>4. ASSUME NEW i \in Runs, Submit(i)
      PROVE  Truthful'
  <2>1. ~Sent(i)
    BY <1>4 DEF Submit, SentWasGranted
  <2>2. QED
    BY <1>4, <2>1 DEF Submit, Goto, Abort
<1>5. ASSUME NEW i \in Runs, SubmitReturns(i)
      PROVE  Truthful'
  BY <1>5 DEF SubmitReturns, Goto, remote
<1>6. ASSUME NEW i \in Runs, ReadStatus(i)
      PROVE  Truthful'
  BY <1>6 DEF ReadStatus, Goto, Abort, remote
<1>7. ASSUME NEW i \in Runs, Report(i)
      PROVE  Truthful'
  <2>1. Final(i) = "RESUBMITTED_VERIFIED" => execution[i] = "SUCCESS"
    BY DEF Final
  <2>2. Final(i) = "BLOCKED" => ~Sent(i)
    BY <1>7, SentIsNotBlocked
  <2>3. QED
    BY <1>7, <2>1, <2>2 DEF Report, Goto, remote
<1>8. ASSUME NEW i \in Runs, Crash(i)
      PROVE  Truthful'
  BY <1>8 DEF Crash, remote
<1>9. ASSUME NEW i \in Runs, AppStoreAnswers(i)
      PROVE  Truthful'
  BY <1>9 DEF AppStoreAnswers
<1>10. ASSUME ReviewMoves \/ EditReport \/ WithdrawApproval \/ UNCHANGED vars
       PROVE  Truthful'
  BY <1>10 DEF ReviewMoves, EditReport, WithdrawApproval, vars, remote
<1>11. QED
  BY <1>1, <1>2, <1>3, <1>4, <1>5, <1>6, <1>7, <1>8, <1>9, <1>10 DEF Next, RunStep

\* Types, grants of what was sent, and true answers, in every state.
LEMMA TruthfulAlways == Spec => [](Typed /\ SentWasGranted /\ Truthful)
BY TypedInit, TypedStep, GrantedInit, GrantedStep, SentInit, SentStep, TruthfulInit,
   TruthfulStep, PTL DEF Spec

\* RESUBMITTED_VERIFIED is only ever said of a submission the App Store took
\* from that run, however often the app's status moves or other runs submit
\* (execute_resubmit, verify_post_submit_state, ClosedLoopReport.final).
THEOREM VerifiedIsTrue == Spec => []VerifiedWasAccepted
<1>1. Truthful => VerifiedWasAccepted
  BY DEF Truthful, AnswersAreTrue, FinishedAreShown, VerifiedWasAccepted
<1>2. QED
  BY <1>1, TruthfulAlways, PTL

\* A run that reports BLOCKED sent nothing: the guard of execute_resubmit and
\* the separately computed plan_status agree.
THEOREM BlockedIsTrue == Spec => []BlockedSentNothing
<1>1. Truthful => BlockedSentNothing
  BY DEF Truthful, FinishedAreShown, BlockedSentNothing
<1>2. QED
  BY <1>1, TruthfulAlways, PTL

\* The invariant that carries the safety properties, and that a run checks, is
\* inductive as it stands in these layers.
THEOREM InductiveInvariantHolds == Spec => []IInv
<1>1. Typed /\ Granted /\ SentWasGranted /\ Truthful => IInv
  BY DEF IInv, Typed, Granted, Truthful
<1>2. QED
  BY <1>1, TypedInit, TypedStep, GrantedInit, GrantedStep, SentInit, SentStep, TruthfulInit,
     TruthfulStep, PTL DEF Spec
-----------------------------------------------------------------------------
(* What is withdrawn stays withdrawn *)

\* Only approve runs write the approval.
Writers == \A i \in Runs : pc[i] \in {"truncate", "write"} => i \in ApproveRuns

\* No step makes a writer of another run.
LEMMA WritersStep == Typed /\ Writers /\ [Next]_vars => Writers'
<1> SUFFICES ASSUME Typed, Writers, [Next]_vars
             PROVE  Writers'
  OBVIOUS
<1> USE DEF Typed, TypeOK, Writers, Goto, Abort
<1>1. ASSUME NEW i \in Runs, \/ Start(i) \/ LoadReport(i) \/ LoadReportFails(i)
                             \/ TruncateApproval(i) \/ WriteApproval(i) \/ Replan(i)
      PROVE  Writers'
  BY <1>1 DEF Start, LoadReport, LoadReportFails, TruncateApproval, WriteApproval, Replan
<1>2. ASSUME NEW i \in Runs, \/ LoadApproval(i) \/ LoadApprovalFails(i) \/ RefuseExecution(i)
                             \/ Submit(i)
      PROVE  Writers'
  BY <1>2 DEF LoadApproval, LoadApprovalFails, RefuseExecution, Submit
<1>3. ASSUME NEW i \in Runs, \/ SubmitReturns(i) \/ ReadStatus(i) \/ Report(i) \/ Crash(i)
                             \/ AppStoreAnswers(i)
      PROVE  Writers'
  BY <1>3 DEF SubmitReturns, ReadStatus, Report, Crash, AppStoreAnswers
<1>4. ASSUME ReviewMoves \/ EditReport \/ WithdrawApproval \/ UNCHANGED vars
      PROVE  Writers'
  BY <1>4 DEF ReviewMoves, EditReport, WithdrawApproval, vars
<1>5. QED
  BY <1>1, <1>2, <1>3, <1>4 DEF Next, RunStep

\* An approval that approves nothing.
Useless(a) == a = NULL \/ a.decision = "REJECTED" \/ a.approved_by = NULL

\* It does not pass the guard of an execution.
LEMMA UselessBlocks ==
    ASSUME NEW i \in Runs, Useless(approval[i]), Typed
    PROVE  Blocked(i)
<1> DEFINE p == PlanOf[report[i]]
<1>1. ApprovalBlockers(p, approval[i], digestArg[i]) # {}
  <2>1. CASE approval[i] = NULL
    BY <2>1 DEF ApprovalBlockers
  <2>2. CASE approval[i] # NULL
    <3>1. approval[i].decision \in {"APPROVED", "REJECTED"}
      BY <2>2 DEF Typed, TypeOK, Approvals
    <3>2. ApprovalStatus(p, approval[i]) # "APPROVED"
      BY <2>2, <3>1 DEF Useless, ApprovalStatus, StatusFor
    <3>3. QED
      BY <2>2, <3>2 DEF ApprovalBlockers
  <2>3. QED
    BY <2>1, <2>2
<1>2. QED
  BY <1>1 DEF Blocked, ExecutionBlockers

\* Once every approve run is over, only a person touches the file, and then
\* takes back more.
LEMMA WithdrawnStays == Typed /\ Writers /\ Withdrawn /\ [Next]_vars => Withdrawn'
<1> SUFFICES ASSUME Typed, Writers, Withdrawn, [Next]_vars
             PROVE  Withdrawn'
  OBVIOUS
<1> DEFINE Over == \A i \in ApproveRuns : pc[i] \in {"done", "dead"}
           Back == \/ approvalFile.kind # "saved"
                   \/ approvalFile.approval.decision = "REJECTED"
                   \/ approvalFile.approval.approved_by = NULL
<1>1. Over'
  <2> USE DEF Typed, TypeOK, Withdrawn, Goto, Abort
  <2> SUFFICES ASSUME NEW j \in ApproveRuns PROVE pc'[j] \in {"done", "dead"}
    OBVIOUS
  <2>1. j \in Runs /\ pc[j] \in {"done", "dead"}
    BY DEF Runs
  <2>2. ASSUME NEW i \in Runs, \/ Start(i) \/ LoadReport(i) \/ LoadReportFails(i)
                               \/ TruncateApproval(i) \/ WriteApproval(i) \/ Replan(i)
        PROVE  pc'[j] = pc[j]
    BY <2>1, <2>2 DEF Start, LoadReport, LoadReportFails, TruncateApproval, WriteApproval, Replan
  <2>3. ASSUME NEW i \in Runs, \/ LoadApproval(i) \/ LoadApprovalFails(i) \/ RefuseExecution(i)
                               \/ Submit(i)
        PROVE  pc'[j] = pc[j]
    BY <2>1, <2>3 DEF LoadApproval, LoadApprovalFails, RefuseExecution, Submit
  <2>4. ASSUME NEW i \in Runs, \/ SubmitReturns(i) \/ ReadStatus(i) \/ Report(i) \/ Crash(i)
                               \/ AppStoreAnswers(i)
        PROVE  pc'[j] = pc[j]
    BY <2>1, <2>4 DEF SubmitReturns, ReadStatus, Report, Crash, AppStoreAnswers
  <2>5. ASSUME ReviewMoves \/ EditReport \/ WithdrawApproval \/ UNCHANGED vars
        PROVE  pc'[j] = pc[j]
    BY <2>5 DEF ReviewMoves, EditReport, WithdrawApproval, vars
  <2>6. QED
    BY <2>1, <2>2, <2>3, <2>4, <2>5 DEF Next, RunStep
<1>2. approvalFile' = approvalFile \/ WithdrawApproval
  <2>1. ASSUME NEW i \in Runs, pc[i] \in {"truncate", "write"}
        PROVE  FALSE
    BY <2>1 DEF Writers, Withdrawn
  <2>2. ~\E i \in Runs : TruncateApproval(i) \/ WriteApproval(i)
    BY <2>1 DEF TruncateApproval, WriteApproval, Goto, Abort
  <2>3. QED
    BY <2>2 DEF Next, RunStep, vars, files, Start, LoadReport, LoadReportFails, Replan,
           LoadApproval, LoadApprovalFails, RefuseExecution, Submit, SubmitReturns,
           ReadStatus, Report, Crash, AppStoreAnswers, ReviewMoves, EditReport
<1>3. WithdrawApproval => Back'
  <2>1. Absent.kind # "saved" /\ Malformed.kind # "saved"
    BY DEF Absent, Malformed
  <2>2. ASSUME approvalFile.kind = "saved"
        PROVE  approvalFile.approval \in Approvals
    BY <2>2, SavedFiles DEF Typed, TypeOK
  <2>3. ASSUME approvalFile.kind = "saved",
               \/ approvalFile' = Saved([approvalFile.approval EXCEPT !.decision = "REJECTED"])
               \/ approvalFile' = Saved([approvalFile.approval EXCEPT !.approved_by = NULL])
        PROVE  Back'
    BY <2>2, <2>3 DEF Saved, Approvals
  <2>4. QED
    BY <2>1, <2>3 DEF WithdrawApproval
<1>4. Back
  BY DEF Withdrawn
<1>5. QED
  BY <1>1, <1>2, <1>3, <1>4 DEF Withdrawn

\* An execute run that can no longer send: what it will read, or has read,
\* approves nothing.
Harmless(i) ==
    /\ ~Sent(i)
    /\ \/ pc[i] \in {"idle", "load", "loadApproval", "report", "done", "dead"}
       \/ pc[i] = "execute" /\ Useless(approval[i])

\* No step gives such a run an approval to send under.
LEMMA HarmlessStays ==
    ASSUME NEW j \in ExecuteRuns
    PROVE  Typed /\ Withdrawn /\ Harmless(j) /\ [Next]_vars => Harmless(j)'
<1> SUFFICES ASSUME Typed, Withdrawn, Harmless(j), [Next]_vars
             PROVE  Harmless(j)'
  OBVIOUS
<1>1. j \in Runs /\ j \notin ApproveRuns
  BY ResubmitAssumption DEF Runs
<1>2. pc[j] = "execute" => Blocked(j)
  BY <1>1, UselessBlocks DEF Harmless
<1>3. ~Sent(j)'
  BY <1>1, <1>2, OnlySubmitSends DEF Harmless
<1>4. Useless(Loaded(approvalFile))
  BY DEF Withdrawn, Loaded, Useless
<1> DEFINE Stays == \/ pc'[j] \in {"idle", "load", "loadApproval", "report", "done", "dead"}
                    \/ pc'[j] = "execute" /\ Useless(approval'[j])
<1>5. Stays
  <2> USE <1>1, <1>2, <1>4 DEF Typed, TypeOK, Harmless, Goto, Abort
  <2>1. ASSUME NEW i \in Runs, \/ Start(i) \/ LoadReport(i) \/ LoadReportFails(i)
                               \/ TruncateApproval(i) \/ WriteApproval(i) \/ Replan(i)
        PROVE  Stays
    BY <2>1 DEF Start, LoadReport, LoadReportFails, TruncateApproval, WriteApproval, Replan
  <2>2. ASSUME NEW i \in Runs, LoadApproval(i)
        PROVE  Stays
    <3>1. CASE i = j
      BY <2>2, <3>1 DEF LoadApproval
    <3>2. CASE i # j
      BY <2>2, <3>2 DEF LoadApproval
    <3>3. QED
      BY <3>1, <3>2
  <2>3. ASSUME NEW i \in Runs, \/ LoadApprovalFails(i) \/ RefuseExecution(i) \/ Submit(i)
        PROVE  Stays
    BY <2>3 DEF LoadApprovalFails, RefuseExecution, Submit
  <2>4. ASSUME NEW i \in Runs, \/ SubmitReturns(i) \/ ReadStatus(i) \/ Report(i) \/ Crash(i)
                               \/ AppStoreAnswers(i)
        PROVE  Stays
    BY <2>4 DEF SubmitReturns, ReadStatus, Report, Crash, AppStoreAnswers
  <2>5. ASSUME ReviewMoves \/ EditReport \/ WithdrawApproval \/ UNCHANGED vars
        PROVE  Stays
    BY <2>5 DEF ReviewMoves, EditReport, WithdrawApproval, vars
  <2>6. QED
    BY <2>1, <2>2, <2>3, <2>4, <2>5 DEF Next, RunStep
<1>6. QED
  BY <1>3, <1>5 DEF Harmless

\* An approval that was taken back while no approve run was under way is never
\* used by a run that had not read it yet, at any later time (load_approval,
\* validate_approval).
THEOREM WithdrawalsHold == Spec => WithdrawalHolds
<1>1. \A i \in ExecuteRuns :
          Spec => [](Withdrawn /\ pc[i] \in {"idle", "load", "loadApproval"} => [](~Sent(i)))
  <2> TAKE i \in ExecuteRuns
  <2>1. Init => Writers
    BY DEF Init, Writers
  <2>2. Typed /\ SentWasGranted /\ Withdrawn /\ pc[i] \in {"idle", "load", "loadApproval"}
        => Harmless(i)
    BY DEF SentWasGranted, Harmless, Runs
  <2>3. Harmless(i) => ~Sent(i)
    BY DEF Harmless
  <2>4. Typed /\ Withdrawn /\ Harmless(i) /\ [Next]_vars => Harmless(i)'
    BY HarmlessStays
  <2>5. QED
    BY <2>1, <2>2, <2>3, <2>4, WritersStep, WithdrawnStays, TruthfulAlways, PTL DEF Spec
<1>2. QED
  BY <1>1 DEF WithdrawalHolds
-----------------------------------------------------------------------------
(* Refinement: every step of the loop is a step of the promise or none *)

\* The initial states map to initial states of the promise.
LEMMA PromiseInit == Init => Promise!AInit
<1> SUFFICES ASSUME Init PROVE Promise!AInit
  OBVIOUS
<1>1. GrantedDigests \subseteq Digests
  BY ResubmitAssumption, PlanFacts DEF Init, GrantedDigests, Digests
<1>2. SentDigests = [i \in Runs |-> NULL]
  BY DEF Init, SentDigests, Sent
<1>3. Progress = [i \in Runs |-> "none"]
  BY DEF Init, Progress
<1>4. QED
  BY <1>1, <1>2, <1>3 DEF Promise!AInit

\* Steps that touch neither grants nor submissions are stuttering steps.
LEMMA NothingPromised ==
    ASSUME Typed, SentWasGranted, [Next]_vars,
           granted' = granted, delivery' = delivery,
           \A j \in Runs : execution'[j] = "SUCCESS" <=> execution[j] = "SUCCESS"
    PROVE  UNCHANGED <<GrantedDigests, SentDigests, Progress>>
<1>1. GrantedDigests' = GrantedDigests
  BY DEF GrantedDigests
<1>2. SentDigests' = SentDigests
  BY SentStaysPut DEF SentDigests, Sent
<1>3. Progress' = Progress
  BY DEF Progress
<1>4. QED
  BY <1>1, <1>2, <1>3

\* Loading a report approves at most its own digest.
LEMMA LoadPromises ==
    ASSUME Typed, SentWasGranted, [Next]_vars, NEW i \in Runs, LoadReport(i)
    PROVE  [Promise!ANext]_<<GrantedDigests, SentDigests, Progress>>
<1>1. reportFile \in Reports /\ delivery' = delivery /\ execution' = execution
  BY DEF LoadReport, remote, Typed, TypeOK
<1>2. CASE granted' = granted
  BY <1>1, <1>2, NothingPromised
<1>3. CASE granted' = granted \cup {reportFile}
  <2>1. GrantedDigests' = GrantedDigests \cup {DigestOf(reportFile)}
    BY <1>3 DEF GrantedDigests
  <2>2. DigestOf(reportFile) \in Digests
    BY <1>1, PlanFacts DEF Digests
  <2>3. SentDigests' = SentDigests
    BY <1>1, SentStaysPut DEF SentDigests, Sent
  <2>4. Progress' = Progress
    BY <1>1 DEF Progress
  <2>5. Promise!Approve(DigestOf(reportFile))
    BY <2>1, <2>2, <2>3, <2>4 DEF Promise!Approve
  <2>6. QED
    BY <2>2, <2>5 DEF Promise!ANext
<1>4. QED
  BY <1>2, <1>3 DEF LoadReport

\* Submitting sends an intent that is approved and ready.
LEMMA SubmitPromises ==
    ASSUME Typed, Granted, SentWasGranted, Truthful, [Next]_vars, NEW i \in Runs, Submit(i)
    PROVE  [Promise!ANext]_<<GrantedDigests, SentDigests, Progress>>
<1> USE DEF Typed, TypeOK
<1>1. granted' = granted /\ execution' = execution /\ report' = report
  BY DEF Submit
<1>2. CASE delivery' = delivery
  BY <1>1, <1>2, NothingPromised
<1>3. CASE delivery' = [delivery EXCEPT ![i] = "sent"]
  <2>1. ~Sent(i) /\ execution[i] # "SUCCESS"
    BY DEF Submit, SentWasGranted, Truthful, AnswersAreTrue
  <2>2. Sent(i)'
    BY <1>3 DEF Sent
  <2>3. SentWasGranted'
    BY SentStep
  <2>4. /\ report[i] \in Reports
        /\ Ready(report[i])
        /\ \E r \in granted : PlanDigest(r) = PlanDigest(report[i])
    BY <1>1, <2>2, <2>3 DEF SentWasGranted
  <2>5. DigestOf(report[i]) \in GrantedDigests \cap ReadyDigests
    BY <2>4, PlanFacts DEF GrantedDigests, ReadyDigests
  <2>6. GrantedDigests' = GrantedDigests
    BY <1>1 DEF GrantedDigests
  <2>7. SentDigests' = [SentDigests EXCEPT ![i] = DigestOf(report[i])]
    BY <1>1, <1>3 DEF SentDigests, Sent
  <2>8. Progress[i] = "none" /\ Progress' = [Progress EXCEPT ![i] = "sent"]
    BY <1>1, <1>3, <2>1 DEF Progress, Sent
  <2>9. Promise!Send(i, DigestOf(report[i]))
    BY <2>5, <2>6, <2>7, <2>8 DEF Promise!Send, Promise!Move
  <2>10. DigestOf(report[i]) \in Digests
    BY <2>4, PlanFacts DEF Digests
  <2>11. QED
    BY <2>9, <2>10 DEF Promise!ANext
<1>4. QED
  BY <1>2, <1>3 DEF Submit

\* The store's answer settles what was sent.
LEMMA AnswerPromises ==
    ASSUME Typed, SentWasGranted, Truthful, [Next]_vars, NEW i \in Runs, AppStoreAnswers(i)
    PROVE  [Promise!ANext]_<<GrantedDigests, SentDigests, Progress>>
<1> USE DEF Typed, TypeOK
<1>1. granted' = granted /\ execution' = execution /\ report' = report /\ delivery[i] = "sent"
  BY DEF AppStoreAnswers
<1>2. execution[i] # "SUCCESS"
  BY <1>1 DEF Truthful, AnswersAreTrue
<1>3. PICK to \in {"accepted", "refused"} : delivery' = [delivery EXCEPT ![i] = to]
  BY DEF AppStoreAnswers
<1>4. GrantedDigests' = GrantedDigests
  BY <1>1 DEF GrantedDigests
<1>5. SentDigests' = SentDigests
  BY <1>1, <1>3 DEF SentDigests, Sent
<1>6. Progress[i] = "sent" /\ Progress' = [Progress EXCEPT ![i] = to]
  BY <1>1, <1>2, <1>3 DEF Progress
<1>7. Promise!Settle(i)
  BY <1>3, <1>4, <1>5, <1>6 DEF Promise!Settle, Promise!Move
<1>8. QED
  BY <1>7 DEF Promise!ANext

\* A verified status is only reached from an accepted submission.
LEMMA StatusPromises ==
    ASSUME Typed, SentWasGranted, Truthful, [Next]_vars, NEW i \in Runs, ReadStatus(i)
    PROVE  [Promise!ANext]_<<GrantedDigests, SentDigests, Progress>>
<1> USE DEF Typed, TypeOK
<1>1. granted' = granted /\ delivery' = delivery /\ report' = report /\ pc[i] = "status"
  BY DEF ReadStatus, remote, Goto, Abort
<1>2. delivery[i] = "accepted" /\ execution[i] # "SUCCESS"
  BY <1>1 DEF Truthful, AnswersAreTrue
<1>3. CASE execution'[i] # "SUCCESS"
  <2>1. \A j \in Runs : execution'[j] = "SUCCESS" <=> execution[j] = "SUCCESS"
    BY <1>2, <1>3 DEF ReadStatus
  <2>2. QED
    BY <1>1, <2>1, NothingPromised
<1>4. CASE execution'[i] = "SUCCESS"
  <2>1. execution' = [execution EXCEPT ![i] = "SUCCESS"]
    BY <1>2, <1>4 DEF ReadStatus
  <2>2. GrantedDigests' = GrantedDigests
    BY <1>1 DEF GrantedDigests
  <2>3. SentDigests' = SentDigests
    BY <1>1 DEF SentDigests, Sent
  <2>4. Progress[i] = "accepted" /\ Progress' = [Progress EXCEPT ![i] = "verified"]
    BY <1>1, <1>2, <2>1 DEF Progress
  <2>5. Promise!Settle(i)
    BY <2>2, <2>3, <2>4 DEF Promise!Settle, Promise!Move
  <2>6. QED
    BY <2>5 DEF Promise!ANext
<1>5. QED
  BY <1>3, <1>4

\* Every step of the loop is a step of the promise or none.
LEMMA PromiseStep ==
    Typed /\ Granted /\ SentWasGranted /\ Truthful /\ [Next]_vars
        => [Promise!ANext]_<<GrantedDigests, SentDigests, Progress>>
<1> SUFFICES ASSUME Typed, Granted, SentWasGranted, Truthful, [Next]_vars
             PROVE  [Promise!ANext]_<<GrantedDigests, SentDigests, Progress>>
  OBVIOUS
<1>1. ASSUME NEW i \in Runs,
             \/ LoadReport(i) \/ Submit(i) \/ AppStoreAnswers(i) \/ ReadStatus(i)
      PROVE  [Promise!ANext]_<<GrantedDigests, SentDigests, Progress>>
  BY <1>1, LoadPromises, SubmitPromises, AnswerPromises, StatusPromises
<1>2. ASSUME NEW i \in Runs, SubmitReturns(i)
      PROVE  UNCHANGED <<GrantedDigests, SentDigests, Progress>>
  <2>1. execution[i] = "NOT_RUN"
    BY <1>2 DEF SubmitReturns, Goto, Truthful, AnswersAreTrue, Typed, TypeOK
  <2>2. /\ granted' = granted /\ delivery' = delivery
        /\ \A j \in Runs : execution'[j] = "SUCCESS" <=> execution[j] = "SUCCESS"
    BY <1>2, <2>1 DEF SubmitReturns, remote, Typed, TypeOK
  <2>3. QED
    BY <2>2, NothingPromised
<1>3. ASSUME NEW i \in Runs,
             \/ Start(i) \/ LoadReportFails(i) \/ TruncateApproval(i) \/ WriteApproval(i)
             \/ Replan(i) \/ LoadApproval(i) \/ LoadApprovalFails(i) \/ RefuseExecution(i)
             \/ Report(i) \/ Crash(i)
      PROVE  UNCHANGED <<GrantedDigests, SentDigests, Progress>>
  <2>1. granted' = granted /\ delivery' = delivery /\ execution' = execution
    BY <1>3 DEF Start, LoadReportFails, TruncateApproval, WriteApproval, Replan,
                LoadApproval, LoadApprovalFails, RefuseExecution, Report, Crash, remote
  <2>2. QED
    BY <2>1, NothingPromised
<1>4. ASSUME ReviewMoves \/ EditReport \/ WithdrawApproval \/ UNCHANGED vars
      PROVE  UNCHANGED <<GrantedDigests, SentDigests, Progress>>
  <2>1. granted' = granted /\ delivery' = delivery /\ execution' = execution
    BY <1>4 DEF ReviewMoves, EditReport, WithdrawApproval, vars, remote
  <2>2. QED
    BY <2>1, NothingPromised
<1>5. QED
  BY <1>1, <1>2, <1>3, <1>4 DEF Next, RunStep

\* The loop of processes, files, crashes and edits implements its promise:
\* what is sent is an approved and ready intent, and only what the store took
\* is called verified.
THEOREM LoopImplementsPromise == Spec => ImplementsPromise
<1>1. Spec => []Granted /\ []SentWasGranted
  BY TypedInit, TypedStep, GrantedInit, GrantedStep, SentInit, SentStep, PTL DEF Spec
<1>2. QED
  BY <1>1, TruthfulAlways, PromiseInit, PromiseStep, PTL
     DEF Spec, ImplementsPromise, Promise!ASpec
=============================================================================
