\* An approve and an execute run; the report may be edited into one with another
\* reply, or into one that is blocked.
CONSTANTS
    NULL = NULL
    PlanRuns = {}
    ApproveRuns = {a1}
    ExecuteRuns = {e1}
    Reports <- ThreeReports
    Approvers = {u1}
    PriorReports <- NoReports
SPECIFICATION Spec
INVARIANTS
    TypeOK
    SentCommandWasApproved
    SentReportWasApproved
    BlockedSentNothing
PROPERTIES
    ImplementsPromise
    WithdrawalHolds
