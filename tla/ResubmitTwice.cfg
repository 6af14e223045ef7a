\* Two execute runs, with an approval left behind.
CONSTANTS
    NULL = NULL
    PlanRuns = {}
    ApproveRuns = {}
    ExecuteRuns = {e1, e2}
    Reports <- OneReport
    Approvers = {u1}
    PriorReports <- OneReport
SPECIFICATION FairSpec
INVARIANTS
    VerifiedWasAccepted
    IInv
PROPERTIES
    RunsEnd
