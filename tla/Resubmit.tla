------------------------------ MODULE Resubmit ------------------------------
(***************************************************************************)
(* The closed resubmission loop as it runs: CLI invocations of             *)
(* scripts/readiness_check.py --resubmit-plan, each an operating system    *)
(* process of its own, working on two shared files (the recovery report    *)
(* and <project>/.asc/resubmit/approval.json) and on App Store Connect     *)
(* through the `asc' command.  Nothing locks either file, so every read,   *)
(* truncation, write and subprocess call is a step of its own, and people  *)
(* may edit both files between any two steps.                              *)
(*                                                                         *)
(* A run is one invocation.  Its flag decides what it does: PlanRuns have  *)
(* none, ApproveRuns have --approve-resubmit, ExecuteRuns have             *)
(* --execute-resubmit (the CLI refuses both at once).                      *)
(***************************************************************************)
EXTENDS ResubmitPlan

CONSTANTS
    PlanRuns, ApproveRuns, ExecuteRuns,
    Reports,        \* the recovery reports that may be on disk
    Approvers,      \* values of --approved-by that are not blank
    PriorReports    \* reports whose approval an earlier release left behind

ASSUME ResubmitAssumption ==
    /\ PlanRuns \cap ApproveRuns = {}
    /\ PlanRuns \cap ExecuteRuns = {}
    /\ ApproveRuns \cap ExecuteRuns = {}
    /\ PriorReports \subseteq Reports
    /\ NULL \notin Reports
    /\ NULL \notin Approvers
    /\ NULL \notin {0, 1}           \* not a return code
    /\ NULL \notin {"RESUBMITTED_VERIFIED", "BLOCKED"}

VARIABLES
    reportFile,     \* the recovery report on disk; NULL when it cannot be parsed
    approvalFile,   \* approval.json
    granted,        \* history: the reports whose exact plan digest a person typed
                    \* into an approve run that then loaded that report
    pc,             \* where each run is
    digestArg,      \* --approval-digest, NULL when it is not given
    approver,       \* --approved-by, NULL when it is blank
    report,         \* the report a run loaded, once and for all
    approval,       \* the approval a run loaded, NULL when there is none
    handle,         \* a run's open file still is approval.json
    delivery,       \* what became of a run's submit command at the App Store
    returncode,     \* what the run's submit command returned
    execution,      \* ExecutionResult.status
    shown,          \* the exit code and closed-loop report of a finished run
    review          \* review state of the app, as `asc review status' tells it

files == <<reportFile, approvalFile, handle>>
remote == <<delivery, returncode, review>>
vars == <<reportFile, approvalFile, granted, pc, digestArg, approver, report, approval,
          handle, delivery, returncode, execution, shown, review>>

Runs == PlanRuns \cup ApproveRuns \cup ExecuteRuns

\* plan_resubmission is pure: the plan of every report, computed once.
PlanOf == [r \in Reports |-> Plan(r)]

Digests == {PlanDigest(r) : r \in Reports}

Approvals ==
    [ decision                  : {"APPROVED", "REJECTED"},
      approved_by               : Approvers \cup {NULL},
      evidence_digest           : {EvidenceDigest(r) : r \in Reports},
      planned_submission_digest : Digests ]

\* Contents of approval.json.  json.loads fails on an empty or torn file and
\* load_approval returns None; a malformed one (unknown decision) raises
\* ValueError.
Absent == [kind |-> "absent"]
Empty == [kind |-> "empty"]
Torn == [kind |-> "torn"]
Malformed == [kind |-> "malformed"]
Saved(a) == [kind |-> "saved", approval |-> a]
ApprovalFiles == {Absent, Empty, Torn, Malformed} \cup {Saved(a) : a \in Approvals}

Locations == {"idle", "load", "truncate", "write", "replan", "loadApproval", "execute",
              "submitting", "status", "report", "done", "dead"}
Finals == {"RESUBMITTED_VERIFIED", "BLOCKED", "NEEDS_USER_ACTION"}
Shown == [exit : 0..2, final : Finals \cup {NULL}]
ReviewStates == {"REJECTED", "WAITING_FOR_REVIEW", "IN_REVIEW"}
AcceptedStates == {"WAITING_FOR_REVIEW", "IN_REVIEW"}

Init ==
    /\ reportFile \in Reports
    /\ granted = PriorReports
    /\ approvalFile \in {Absent} \cup
         {Saved(ApprovalRecord(Plan(r), a)) : r \in PriorReports, a \in Approvers}
    /\ pc = [i \in Runs |-> "idle"]
    /\ digestArg = [i \in Runs |-> NULL]
    /\ approver = [i \in Runs |-> NULL]
    /\ report = [i \in Runs |-> NULL]
    /\ approval = [i \in Runs |-> NULL]
    /\ handle = [i \in Runs |-> FALSE]
    /\ delivery = [i \in Runs |-> "none"]
    /\ returncode = [i \in Runs |-> NULL]
    /\ execution = [i \in Runs |-> "NOT_RUN"]
    /\ shown = [i \in Runs |-> NULL]
    /\ review = "REJECTED"

Goto(i, from, to) ==
    /\ pc[i] = from
    /\ pc' = [pc EXCEPT ![i] = to]

\* An OSError, ValueError or usage error ends the run with exit code 2.
Abort(i, from) ==
    /\ Goto(i, from, "done")
    /\ shown' = [shown EXCEPT ![i] = [exit |-> 2, final |-> NULL]]

-----------------------------------------------------------------------------
(* A run *)

Start(i) ==
    /\ Goto(i, "idle", "load")
    /\ digestArg' \in {[digestArg EXCEPT ![i] = d] :
                         d \in IF i \in PlanRuns THEN {NULL} ELSE Digests \cup {NULL}}
    /\ approver' \in {[approver EXCEPT ![i] = a] :
                         a \in IF i \in ApproveRuns THEN Approvers \cup {NULL} ELSE {NULL}}
    /\ UNCHANGED <<files, granted, report, approval, remote, execution, shown>>

\* load_recovery_report, plan_resubmission and, in an approve run, the checks
\* of create_approval.
LoadReport(i) ==
    /\ reportFile # NULL
    /\ report' = [report EXCEPT ![i] = reportFile]
    /\ \/ /\ i \notin ApproveRuns
          /\ Goto(i, "load", "loadApproval")
          /\ UNCHANGED shown
       \/ /\ i \in ApproveRuns
          /\ CanApprove(PlanOf[reportFile], digestArg[i], approver[i])
          /\ Goto(i, "load", "truncate")
          /\ UNCHANGED shown
       \/ /\ i \in ApproveRuns
          /\ ~CanApprove(PlanOf[reportFile], digestArg[i], approver[i])
          /\ Abort(i, "load")
    /\ granted' = granted \cup {r \in {reportFile} : i \in ApproveRuns /\ digestArg[i] = PlanDigest(r)}
    /\ UNCHANGED <<files, digestArg, approver, approval, remote, execution>>

LoadReportFails(i) ==
    /\ reportFile = NULL
    /\ Abort(i, "load")
    /\ UNCHANGED <<files, granted, digestArg, approver, report, approval, remote, execution>>

\* write_approval is Path.write_text: opening truncates, closing writes.
TruncateApproval(i) ==
    /\ \/ /\ Goto(i, "truncate", "write")
          /\ approvalFile' = Empty
          /\ handle' = [handle EXCEPT ![i] = TRUE]
          /\ UNCHANGED shown
       \/ /\ Abort(i, "truncate")
          /\ UNCHANGED <<approvalFile, handle>>
    /\ UNCHANGED <<reportFile, granted, digestArg, approver, report, approval, remote, execution>>

\* What a write at offset 0 leaves: its record, or that record and the tail
\* of a longer text written since this run truncated.
Overwrite(i) ==
    LET mine == Saved(ApprovalRecord(PlanOf[report[i]], approver[i]))
    IN  IF handle[i]
        THEN {mine} \cup {f \in {Torn} : approvalFile # Empty}
        ELSE {approvalFile}

WriteApproval(i) ==
    /\ \/ /\ Goto(i, "write", "replan")
          /\ approvalFile' \in Overwrite(i)
          /\ UNCHANGED shown
       \/ /\ Abort(i, "write")
          /\ approvalFile' = IF handle[i] THEN Torn ELSE approvalFile
    /\ handle' = [handle EXCEPT ![i] = FALSE]
    /\ UNCHANGED <<reportFile, granted, digestArg, approver, report, approval, remote, execution>>

\* The second plan_resubmission of an approve run only re-reads approval.json.
Replan(i) ==
    /\ \/ /\ approvalFile # Malformed
          /\ Goto(i, "replan", "loadApproval")
          /\ UNCHANGED shown
       \/ /\ approvalFile = Malformed
          /\ Abort(i, "replan")
    /\ UNCHANGED <<files, granted, digestArg, approver, report, approval, remote, execution>>

\* Mutant of Loaded: what is not an approval is passed on instead of None.
LoadedUnchecked(file) == IF file.kind = "saved" THEN file.approval ELSE file

Loaded(file) == IF file.kind = "saved" THEN file.approval ELSE NULL

LoadApproval(i) ==
    /\ approvalFile # Malformed
    /\ approval' = [approval EXCEPT ![i] = Loaded(approvalFile)]
    /\ \/ /\ i \notin ExecuteRuns
          /\ Goto(i, "loadApproval", "report")
          /\ UNCHANGED shown
       \/ /\ i \in ExecuteRuns
          /\ digestArg[i] # NULL
          /\ Goto(i, "loadApproval", "execute")
          /\ UNCHANGED shown
       \/ /\ i \in ExecuteRuns
          /\ digestArg[i] = NULL
          /\ Abort(i, "loadApproval")
    /\ UNCHANGED <<files, granted, digestArg, approver, report, remote, execution>>

LoadApprovalFails(i) ==
    /\ approvalFile = Malformed
    /\ Abort(i, "loadApproval")
    /\ UNCHANGED <<files, granted, digestArg, approver, report, approval, remote, execution>>

\* execute_resubmit's guard.  The CLI computes current_plan from the report it
\* already holds, not from the file.
Blocked(i) ==
    ExecutionBlockers(PlanOf[report[i]], PlanOf[report[i]], approval[i], digestArg[i]) # {}

RefuseExecution(i) ==
    /\ Goto(i, "execute", "report")
    /\ Blocked(i)
    /\ UNCHANGED <<files, granted, digestArg, approver, report, approval, remote, execution, shown>>

\* The one mutation: the selected command starts, or `asc' cannot be started.
Submit(i) ==
    /\ pc[i] = "execute" /\ ~Blocked(i)
    /\ \/ /\ Goto(i, "execute", "submitting")
          /\ delivery' = [delivery EXCEPT ![i] = "sent"]
          /\ UNCHANGED shown
       \/ /\ Abort(i, "execute")
          /\ UNCHANGED delivery
    /\ UNCHANGED <<files, granted, digestArg, approver, report, approval, returncode,
                   execution, review>>

\* Mutant of SubmitReturns: the return code is not looked at.
SubmitReturnsUnchecked(i) ==
    /\ returncode[i] # NULL
    /\ Goto(i, "submitting", "status")
    /\ UNCHANGED <<files, granted, digestArg, approver, report, approval, remote, execution, shown>>

\* Mutant of SubmitReturns: a failed command has no way out.
SubmitReturnsOnSuccess(i) ==
    /\ returncode[i] = 0
    /\ Goto(i, "submitting", "status")
    /\ UNCHANGED <<files, granted, digestArg, approver, report, approval, remote, execution, shown>>

SubmitReturns(i) ==
    /\ returncode[i] # NULL
    /\ \/ /\ returncode[i] # 0
          /\ Goto(i, "submitting", "report")
          /\ execution' = [execution EXCEPT ![i] = "FAILED"]
       \/ /\ returncode[i] = 0
          /\ Goto(i, "submitting", "status")
          /\ UNCHANGED execution
    /\ UNCHANGED <<files, granted, digestArg, approver, report, approval, remote, shown>>

Verified(code, state) == code = 0 /\ state \in AcceptedStates

\* `asc review status --app': its output may be unreadable (NULL), its exit
\* code may be an error, or it cannot be started at all.
ReadStatus(i) ==
    /\ \/ \E state \in {review, NULL}, code \in {0, 1} :
             /\ Goto(i, "status", "report")
             /\ execution' = [execution EXCEPT ![i] =
                    IF Verified(code, state) THEN "SUCCESS" ELSE "FAILED"]
             /\ UNCHANGED shown
       \/ /\ Abort(i, "status")
          /\ UNCHANGED execution
    /\ UNCHANGED <<files, granted, digestArg, approver, report, approval, remote>>

\* ClosedLoopReport.final
Final(i) ==
    CASE execution[i] = "SUCCESS" -> "RESUBMITTED_VERIFIED"
      [] execution[i] # "SUCCESS" /\ PlanStatus(PlanOf[report[i]]) = "BLOCKED" -> "BLOCKED"
      [] execution[i] # "SUCCESS" /\ PlanStatus(PlanOf[report[i]]) # "BLOCKED" -> "NEEDS_USER_ACTION"

ExitZero(i) ==
    IF i \in ExecuteRuns
    THEN Final(i) = "RESUBMITTED_VERIFIED"
    ELSE PlanStatus(PlanOf[report[i]]) = "READY"

Report(i) ==
    /\ Goto(i, "report", "done")
    /\ shown' = [shown EXCEPT ![i] =
                    [exit |-> IF ExitZero(i) THEN 0 ELSE 1, final |-> Final(i)]]
    /\ UNCHANGED <<files, granted, digestArg, approver, report, approval, remote, execution>>

\* The process is killed.  Buffered text is lost with it; a command already
\* started lives on.
Crash(i) ==
    /\ pc[i] \notin {"idle", "done", "dead"}
    /\ pc' = [pc EXCEPT ![i] = "dead"]
    /\ handle' = [handle EXCEPT ![i] = FALSE]
    /\ UNCHANGED <<reportFile, approvalFile, granted, digestArg, approver, report, approval,
                   remote, execution, shown>>

-----------------------------------------------------------------------------
(* App Store Connect and the `asc' command (external) *)

\* The App Store takes the submission or not; a lost answer turns an accepted
\* submission into an error, and an exit code 0 means it was accepted.
AppStoreAnswers(i) ==
    /\ delivery[i] = "sent"
    /\ \/ /\ delivery' = [delivery EXCEPT ![i] = "accepted"]
          /\ review' = "WAITING_FOR_REVIEW"
          /\ returncode' \in {[returncode EXCEPT ![i] = code] : code \in {0, 1}}
       \/ /\ delivery' = [delivery EXCEPT ![i] = "refused"]
          /\ returncode' = [returncode EXCEPT ![i] = 1]
          /\ UNCHANGED review
    /\ UNCHANGED <<files, granted, pc, digestArg, approver, report, approval, execution, shown>>

\* Review goes on, or another submission of the same app enters it.
ReviewMoves ==
    /\ \/ review = "WAITING_FOR_REVIEW" /\ review' = "IN_REVIEW"
       \/ review = "IN_REVIEW" /\ review' = "REJECTED"
       \/ review = "REJECTED" /\ review' = "WAITING_FOR_REVIEW"
    /\ UNCHANGED <<files, granted, pc, digestArg, approver, report, approval, delivery,
                   returncode, execution, shown>>

-----------------------------------------------------------------------------
(* People and other tools *)

EditReport ==
    /\ reportFile' \in (Reports \cup {NULL}) \ {reportFile}
    /\ UNCHANGED <<approvalFile, handle, granted, pc, digestArg, approver, report, approval,
                   remote, execution, shown>>

\* An approval can be taken back by hand: deleted, rejected, unsigned, or
\* broken.  An editor replaces the file, which orphans open handles, or
\* rewrites it in place.
WithdrawApproval ==
    /\ \/ /\ approvalFile # Absent
          /\ approvalFile' = Absent
          /\ handle' = [i \in Runs |-> FALSE]
       \/ /\ approvalFile.kind = "saved"
          /\ approvalFile' \in { Saved([approvalFile.approval EXCEPT !.decision = "REJECTED"]),
                                 Saved([approvalFile.approval EXCEPT !.approved_by = NULL]),
                                 Malformed }
          /\ handle' \in {handle, [i \in Runs |-> FALSE]}
    /\ UNCHANGED <<reportFile, granted, pc, digestArg, approver, report, approval, remote,
                   execution, shown>>

-----------------------------------------------------------------------------
RunStep(i) ==
    \/ LoadReport(i) \/ LoadReportFails(i)
    \/ TruncateApproval(i) \/ WriteApproval(i) \/ Replan(i)
    \/ LoadApproval(i) \/ LoadApprovalFails(i)
    \/ RefuseExecution(i) \/ Submit(i) \/ SubmitReturns(i) \/ ReadStatus(i)
    \/ Report(i)

Next ==
    \/ \E i \in Runs : Start(i) \/ RunStep(i) \/ Crash(i) \/ AppStoreAnswers(i)
    \/ ReviewMoves \/ EditReport \/ WithdrawApproval

Spec == Init /\ [][Next]_vars

\* A started process keeps running, and the `asc' command returns.  People are
\* under no obligation.
Fairness == \A i \in Runs : WF_vars(RunStep(i)) /\ WF_vars(AppStoreAnswers(i))

FairSpec == Spec /\ Fairness
-----------------------------------------------------------------------------
(* Properties *)

Sent(i) == delivery[i] # "none"

TypeOK ==
    /\ reportFile \in Reports \cup {NULL}
    /\ approvalFile \in ApprovalFiles
    /\ granted \subseteq Reports
    /\ pc \in [Runs -> Locations]
    /\ digestArg \in [Runs -> Digests \cup {NULL}]
    /\ approver \in [Runs -> Approvers \cup {NULL}]
    /\ report \in [Runs -> Reports \cup {NULL}]
    /\ approval \in [Runs -> Approvals \cup {NULL}]
    /\ handle \in [Runs -> BOOLEAN]
    /\ delivery \in [Runs -> {"none", "sent", "accepted", "refused"}]
    /\ returncode \in [Runs -> {0, 1, NULL}]
    /\ execution \in [Runs -> {"NOT_RUN", "SUCCESS", "FAILED"}]
    /\ shown \in [Runs -> Shown \cup {NULL}]
    /\ review \in ReviewStates

\* Whatever runs, edits, torn writes and crashes came in between, a command
\* that left for the App Store has a person's approval of a plan with the very
\* same command, and that plan was ready when it was approved
\* (create_approval, load_approval, validate_approval, execute_resubmit).
SentCommandWasApproved ==
    \A i \in Runs : Sent(i) =>
        \E r \in granted :
            /\ Ready(r)
            /\ SelectedCommand(SubmissionValues(r)) = SelectedCommand(SubmissionValues(report[i]))

\* The README's binding promise: the report a command is sent for is, in every
\* part (build, version, reply, fix evidence), a report that was approved.
SentReportWasApproved == \A i \in ExecuteRuns : Sent(i) => report[i] \in granted

\* RESUBMITTED_VERIFIED is only said of a submission the App Store took from
\* this very run, although the status read after it is that of the whole app
\* and moves on by itself (execute_resubmit, ClosedLoopReport.final).
VerifiedWasAccepted ==
    \A i \in Runs : shown[i] # NULL /\ shown[i].final = "RESUBMITTED_VERIFIED"
                        => delivery[i] = "accepted"

\* A run that reports BLOCKED sent nothing (ClosedLoopReport.plan_status is
\* computed apart from the execution guard; they must agree).
BlockedSentNothing ==
    \A i \in Runs : shown[i] # NULL /\ shown[i].final = "BLOCKED" => ~Sent(i)

Unfinished == {"truncate", "write", "replan", "loadApproval", "execute", "submitting", "status", "report"}

\* The digests of an approved record are those of a report that was granted.
Bound(a) ==
    a.decision = "APPROVED" =>
        \E r \in granted : /\ a.planned_submission_digest = PlanDigest(r)
                          /\ a.evidence_digest = EvidenceDigest(r)

\* What is readable in the file is an approval some person gave, or a withdrawal
\* (write_approval, load_approval).
FileWasGranted == approvalFile.kind = "saved" => Bound(approvalFile.approval)

RunsHoldReports ==
    \A i \in Runs : /\ pc[i] \in Unfinished => report[i] \in Reports
                    /\ pc[i] \in {"truncate", "write"} => /\ report[i] \in granted
                                                        /\ approver[i] \in Approvers

LoadedWasGranted == \A i \in Runs : approval[i] # NULL => Bound(approval[i])

\* A command out for the App Store left under an approval of its very digest.
SentWasGranted ==
    \A i \in Runs : Sent(i) =>
        /\ report[i] \in Reports
        /\ Ready(report[i])
        /\ \E r \in granted : PlanDigest(r) = PlanDigest(report[i])
        /\ pc[i] \in {"submitting", "status", "report", "done", "dead"}

AnswersAreTrue ==
    \A i \in Runs : /\ returncode[i] = 0 => delivery[i] = "accepted"
                    /\ pc[i] = "status" => delivery[i] = "accepted"
                    /\ execution[i] = "SUCCESS" => delivery[i] = "accepted"
                    /\ execution[i] # "NOT_RUN" => pc[i] \in {"report", "done", "dead"}

FinishedAreShown ==
    \A i \in Runs : shown[i] # NULL =>
        /\ pc[i] = "done"
        /\ shown[i].final = "RESUBMITTED_VERIFIED" => execution[i] = "SUCCESS"
        /\ shown[i].final = "BLOCKED" => ~Sent(i)

\* The inductive invariant.
IInv ==
    /\ TypeOK
    /\ FileWasGranted
    /\ RunsHoldReports
    /\ LoadedWasGranted
    /\ SentWasGranted
    /\ AnswersAreTrue
    /\ FinishedAreShown

\* No approve run is under way and the file approves nothing.
Withdrawn ==
    /\ \A i \in ApproveRuns : pc[i] \in {"done", "dead"}
    /\ \/ approvalFile.kind # "saved"
       \/ approvalFile.approval.decision = "REJECTED"
       \/ approvalFile.approval.approved_by = NULL

\* An approval taken back stays taken back: no execute run that had not yet
\* read it sends anything, however the remaining runs interleave
\* (load_approval, ApprovalRecord.status_for).
WithdrawalHolds ==
    \A i \in ExecuteRuns :
        [](Withdrawn /\ pc[i] \in {"idle", "load", "loadApproval"} => [](~Sent(i)))

\* Every started run ends with an exit code or is killed: no error path waits
\* for something that never comes (main, resubmit branch).
RunsEnd == \A i \in Runs : pc[i] = "load" ~> pc[i] \in {"done", "dead"}

-----------------------------------------------------------------------------
(* The abstract specification, seen through the files and the runs *)

DigestOf(r) == PlanOf[r].plan_digest

ReadyDigests == {DigestOf(r) : r \in {x \in Reports : PlanOf[x].ready}}
GrantedDigests == {DigestOf(r) : r \in granted}
SentDigests == [i \in Runs |-> IF Sent(i) THEN DigestOf(report[i]) ELSE NULL]
Progress == [i \in Runs |-> IF execution[i] = "SUCCESS" THEN "verified" ELSE delivery[i]]

Promise == INSTANCE ApprovedSubmission WITH
    Attempts     <- Runs,
    Intents      <- Digests,
    ReadyIntents <- ReadyDigests,
    approved     <- GrantedDigests,
    intent       <- SentDigests,
    attempt      <- Progress

\* The loop of runs, files and crashes implements the promise.
ImplementsPromise == Promise!ASpec
=============================================================================
