CONSTANTS
    NULL = NULL
    PlanRuns = {}
    ApproveRuns = {a1}
    ExecuteRuns = {e1}
    Reports <- PinnedReplies
    Approvers = {u1}
    PriorReports <- NoReports
SPECIFICATION Spec
INVARIANTS
    SentReportWasApproved
