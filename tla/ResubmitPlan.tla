---------------------------- MODULE ResubmitPlan ----------------------------
(***************************************************************************)
(* The pure part of Phase 7 (closed-loop resubmission): the eligibility    *)
(* gate over a recovery report, the resubmission plan with its binding     *)
(* digest, and the approval check.  No state: Resubmit.tla runs these      *)
(* operators inside CLI invocations.                                       *)
(*                                                                         *)
(* A recovery report is a record                                           *)
(*   candidate        Phase 6 verdict, NULL when the summary has none      *)
(*   verification     cause id -> [status, reason]  (one result per cause) *)
(*   causes           set of [id, status, runtime, confirmation]           *)
(*   draft            NULL or [id, ready, claims, body]  (reply_drafts[0]) *)
(*   audit            which of the defensive audit fields are set          *)
(*   sections         the mappings searched for ids, in lookup order       *)
(*   report_id, plan_id, evidence_digest    explicit values or NULL        *)
(*                                                                         *)
(* A SHA-256 digest is the digested value itself, tagged: equal digests    *)
(* are equal contents (collision freedom is the one assumption made).      *)
(***************************************************************************)
EXTENDS Naturals, Sequences

CONSTANT NULL

IdFields == {"app_id", "version", "build_id", "submission_id"}

ConditionalReasons ==
    {"requires_runtime", "requires_user_confirmation", "asc_only", "user_confirmation"}

-----------------------------------------------------------------------------
(* Eligibility *)

Candidate(r) == IF r.candidate = NULL THEN "NO" ELSE r.candidate

MissingRecovery(r) ==
    r.candidate = NULL /\ r.draft = NULL /\ DOMAIN r.verification = {}

\* A cause counts as settled when its own verification result says so.
Settled(r, id) ==
    id \in DOMAIN r.verification /\ r.verification[id].status \in {"VERIFIED", "USER_ATTESTED"}

ReplyReady(r) == r.draft # NULL /\ r.draft.ready

ReplyClaims(r) == IF r.draft = NULL THEN {} ELSE r.draft.claims

Undecided(v) == v.status \in {"UNVERIFIED", "UNKNOWN"}

\* Mutant of PendingReasons: causes that have no result are forgotten.
PendingReasonsOfResults(r) ==
    {r.verification[id].reason : id \in {x \in DOMAIN r.verification :
        Undecided(r.verification[x]) /\ r.verification[x].reason \in ConditionalReasons}}
    \cup {reason \in {"phase6_external_evidence_pending"} : Candidate(r) = "CONDITIONAL"}

PendingReasons(r) ==
    {r.verification[id].reason : id \in {x \in DOMAIN r.verification :
        /\ Undecided(r.verification[x])
        /\ r.verification[x].reason \in ConditionalReasons}}
    \cup {reason \in {"phase6_external_evidence_pending"} : Candidate(r) = "CONDITIONAL"}
    \cup {reason \in {"requires_runtime"} :
            \E c \in r.causes : c.runtime /\ ~Settled(r, c.id)}
    \cup {reason \in {"requires_user_confirmation"} :
            \E c \in r.causes : c.confirmation /\ ~Settled(r, c.id)}

MachineIssue(v) ==
    \/ Undecided(v) /\ v.reason \notin ConditionalReasons
    \/ v.status \notin {"VERIFIED", "USER_ATTESTED", "FORBIDDEN_TO_CLAIM", "UNVERIFIED", "UNKNOWN"}

ForbiddenClaim(r) ==
    \/ \E id \in DOMAIN r.verification : r.verification[id].status = "FORBIDDEN_TO_CLAIM"
    \/ "FORBIDDEN_TO_CLAIM" \in ReplyClaims(r)
    \/ "forbidden_claims" \in r.audit

UnresolvedContradiction(r) ==
    \/ \E c \in r.causes : c.status = "CONTRADICTED" /\ ~Settled(r, c.id)
    \/ r.audit \cap {"unresolved_contradictions", "privacy_contradictions", "contradictions"} # {}

\* Which blocker each condition of the gate raises.
BlockerConditions(r) ==
    [ phase6_recovery_not_eligible  |-> Candidate(r) = "NO",
      missing_recovery_verification |-> DOMAIN r.verification = {},
      unverified_machine_issue      |-> \E id \in DOMAIN r.verification :
                                            MachineIssue(r.verification[id]),
      forbidden_claim               |-> ForbiddenClaim(r),
      unresolved_contradiction      |-> UnresolvedContradiction(r),
      reply_not_ready               |-> /\ ~ReplyReady(r)
                                        /\ PendingReasons(r) \cap ConditionalReasons = {},
      stale_build_version           |-> "stale" \in r.audit,
      unresolved_blocked_findings   |-> "blocked_findings" \in r.audit ]

GateBlockers(r) ==
    IF MissingRecovery(r)
    THEN {"missing_recovery_result"}
    ELSE {b \in DOMAIN BlockerConditions(r) : BlockerConditions(r)[b]}

GateReasons(r) == IF MissingRecovery(r) THEN {} ELSE PendingReasons(r)

Eligibility(r) ==
    CASE GateBlockers(r) # {}                           -> "NO"
      [] GateBlockers(r) = {} /\ GateReasons(r) # {}    -> "CONDITIONAL"
      [] GateBlockers(r) = {} /\ GateReasons(r) = {}    -> "YES"

-----------------------------------------------------------------------------
(* The plan *)

\* The first section, in lookup order, that carries the field.
SubmissionValue(r, field) ==
    IF \E i \in DOMAIN r.sections : r.sections[i][field] # NULL
    THEN r.sections[CHOOSE i \in DOMAIN r.sections :
             /\ r.sections[i][field] # NULL
             /\ \A j \in 1..(i - 1) : r.sections[j][field] = NULL][field]
    ELSE NULL

SubmissionValues(r) == [field \in IdFields |-> SubmissionValue(r, field)]

MissingIds(ids) == {field \in IdFields : ids[field] = NULL}

\* build_commands: the primary mutation and its fallback, all ids or nothing.
PrimaryCommand(ids) ==
    [verb |-> "submit", app |-> ids["app_id"], version |-> ids["version"], build |-> ids["build_id"]]

FallbackCommand(ids) == [verb |-> "submissions-submit", id |-> ids["submission_id"]]

SelectedCommand(ids) == IF MissingIds(ids) = {} THEN PrimaryCommand(ids) ELSE NULL

Commands(ids) == IF MissingIds(ids) = {} THEN <<PrimaryCommand(ids), FallbackCommand(ids)>> ELSE <<>>

Digest(value) == <<"sha256", value>>

\* Mutant of EvidenceDigest: only the fix evidence is digested, not the reply.
EvidenceDigestOfFixes(r) == Digest(r.verification)

EvidenceDigest(r) ==
    IF r.evidence_digest # NULL THEN <<"given", r.evidence_digest>> ELSE Digest(r)

\* An explicit id wins; else the id is derived from the report's own id.
PlanId(r) ==
    CASE r.plan_id # NULL                      -> <<"given", r.plan_id>>
      [] r.plan_id = NULL /\ r.report_id # NULL -> <<"resubmit", r.report_id>>
      [] r.plan_id = NULL /\ r.report_id = NULL -> Digest(r)

PlanBlockers(r) ==
    GateBlockers(r)
    \cup {b \in {"reply_not_ready"} : ~ReplyReady(r)}
    \cup MissingIds(SubmissionValues(r))

RequiredActions(r) ==
    GateReasons(r)
    \cup (IF Eligibility(r) = "NO" THEN GateBlockers(r) ELSE {})
    \cup {a \in {"prepare_ready_to_send_reply"} : ~ReplyReady(r)}
    \cup PlanBlockers(r)

\* The submission intent an approval binds (ResubmitPlan.digest_payload).
\* `ready' is not part of it.
DigestPayload(r) ==
    [ plan_id            |-> PlanId(r),
      ids                |-> SubmissionValues(r),
      reply_draft_id     |-> IF r.draft = NULL THEN NULL ELSE r.draft.id,
      recovery_report_id |-> r.report_id,
      required_actions   |-> RequiredActions(r),
      blockers           |-> PlanBlockers(r),
      commands           |-> Commands(SubmissionValues(r)),
      selected_command   |-> SelectedCommand(SubmissionValues(r)),
      evidence_digest    |-> EvidenceDigest(r),
      eligibility        |-> Eligibility(r) ]

PlanDigest(r) == Digest(DigestPayload(r))

Ready(r) == Eligibility(r) = "YES" /\ ReplyReady(r) /\ PlanBlockers(r) = {}

\* plan_resubmission, without the displayed approval status.
Plan(r) ==
    [ plan_digest      |-> PlanDigest(r),
      evidence_digest  |-> EvidenceDigest(r),
      eligibility      |-> Eligibility(r),
      blockers         |-> PlanBlockers(r),
      selected_command |-> SelectedCommand(SubmissionValues(r)),
      ready            |-> Ready(r) ]

\* Mutant of PlanStatus: missing ids and an unready reply are not looked at.
PlanStatusOfGate(plan) == IF plan.eligibility = "YES" THEN "READY" ELSE "BLOCKED"

\* ClosedLoopReport.plan_status
PlanStatus(plan) ==
    IF plan.eligibility = "CONDITIONAL" /\ plan.blockers = {}
    THEN "CONDITIONAL"
    ELSE IF plan.ready THEN "READY" ELSE "BLOCKED"

-----------------------------------------------------------------------------
(* Approval *)

CanApprove(plan, digest, approver) ==
    digest # NULL /\ digest = plan.plan_digest /\ approver # NULL

ApprovalRecord(plan, approver) ==
    [ decision                  |-> "APPROVED",
      approved_by               |-> approver,
      evidence_digest           |-> plan.evidence_digest,
      planned_submission_digest |-> plan.plan_digest ]

\* Mutant of StatusFor: the decision is not looked at.
StatusForAnyDecision(approval, plan) ==
    IF \/ approval.planned_submission_digest # plan.plan_digest
       \/ approval.evidence_digest # plan.evidence_digest
    THEN "STALE"
    ELSE "APPROVED"

\* ApprovalRecord.status_for
StatusFor(approval, plan) ==
    IF approval.decision # "APPROVED"
    THEN approval.decision
    ELSE IF \/ approval.planned_submission_digest # plan.plan_digest
            \/ approval.evidence_digest # plan.evidence_digest
            \/ approval.approved_by = NULL
         THEN "STALE"
         ELSE "APPROVED"

ApprovalStatus(plan, approval) ==
    IF approval = NULL THEN "PENDING" ELSE StatusFor(approval, plan)

\* Mutant of ApprovalBlockers: a missing approval blocks nothing.
ApprovalBlockersIfAny(plan, approval, digest) ==
    IF approval = NULL
    THEN {}
    ELSE {b \in {"approval_not_approved"} : ApprovalStatus(plan, approval) # "APPROVED"}

\* validate_approval: nothing blocks exactly when the approval binds this plan.
ApprovalBlockers(plan, approval, digest) ==
    IF approval = NULL
    THEN {"missing_approval"}
    ELSE {b \in {"approval_digest_mismatch"} : digest # plan.plan_digest}
         \cup {b \in {"approval_not_approved"} : ApprovalStatus(plan, approval) # "APPROVED"}
         \cup {b \in {"approval_not_bound_to_plan"} :
                   approval.planned_submission_digest # plan.plan_digest}

\* Mutant of ExecutionBlockers: an approved plan is taken to be ready.
ExecutionBlockersOfApproval(plan, current, approval, digest) ==
    ApprovalBlockers(plan, approval, digest)
    \cup {b \in {"missing_execution_command"} : plan.selected_command = NULL}

\* The whole guard of execute_resubmit before its one mutation.
ExecutionBlockers(plan, current, approval, digest) ==
    ApprovalBlockers(plan, approval, digest)
    \cup {b \in {"stale_plan"} : current.plan_digest # plan.plan_digest}
    \cup {b \in {"plan_not_ready"} : ~plan.ready}
    \cup {b \in {"eligibility_not_yes"} : plan.eligibility # "YES"}
    \cup {b \in {"missing_execution_command"} : plan.selected_command = NULL}
=============================================================================
