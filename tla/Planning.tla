------------------------------ MODULE Planning ------------------------------
(***************************************************************************)
(* A recovery report as reruns of Phase 6 and people change it, one part   *)
(* at a time, and what the gate, the plan and an approval make of it.      *)
(***************************************************************************)
EXTENDS ResubmitPlan

CONSTANTS
    Verifications,  \* results of the causes
    CauseSets,
    Drafts,         \* replies, NULL when there is none
    Bodies,         \* what their text may be edited to
    Audits,
    SectionLists    \* the sections with ids

NoIds == [field \in IdFields |-> NULL]
NoResults == [id \in {} |-> NULL]

\* The audit fields evaluate_eligibility looks at.
AuditFields == {"forbidden_claims", "unresolved_contradictions", "privacy_contradictions",
                "contradictions", "stale", "blocked_findings"}

\* Replies have a body to edit; four sections may carry ids, and the report itself.
ASSUME PartsAssumption ==
    /\ \A d \in Drafts \ {NULL} : DOMAIN d = {"id", "ready", "claims", "body"} /\ d.ready \in BOOLEAN
    /\ Audits \subseteq SUBSET AuditFields
    /\ \A sections \in SectionLists : \E n \in 0..5 : DOMAIN sections = 1..n
    /\ NULL \notin {"YES", "CONDITIONAL", "NO", "explicit-user"}

VARIABLE rep

Init ==
    rep = [ candidate |-> NULL, verification |-> NoResults, causes |-> {},
            draft |-> NULL, audit |-> {}, sections |-> <<NoIds>>,
            report_id |-> "recovery", plan_id |-> NULL, evidence_digest |-> NULL ]

\* Phase 6 writes the parts of its result together ...
Recover ==
    /\ rep.candidate = NULL
    /\ \E c \in {"YES", "CONDITIONAL", "NO"}, v \in Verifications, s \in CauseSets, d \in Drafts :
           rep' = [rep EXCEPT !.candidate = c, !.verification = v, !.causes = s, !.draft = d]

\* ... later phases and people add to it.
Audit == \E a \in Audits : rep' = [rep EXCEPT !.audit = a]
Discover == \E s \in SectionLists : rep' = [rep EXCEPT !.sections = s]
EditReply == rep.draft # NULL /\ \E b \in Bodies : rep' = [rep EXCEPT !.draft.body = b]

Next == Recover \/ Audit \/ Discover \/ EditReply

Spec == Init /\ [][Next]_rep

-----------------------------------------------------------------------------
(* Properties *)

Own == ApprovalRecord(Plan(rep), "explicit-user")

\* What "all gates" means, said at once: the recovery is complete and settled,
\* nothing contradicts it, the reply can go out and every id is known.
AllGates(r) ==
    /\ r.candidate = "YES"
    /\ DOMAIN r.verification # {}
    /\ \A id \in DOMAIN r.verification : Settled(r, id)
    /\ \A c \in r.causes : c.status = "CONTRADICTED" \/ c.runtime \/ c.confirmation
                              => Settled(r, c.id)
    /\ r.audit = {}
    /\ r.draft # NULL /\ r.draft.ready /\ "FORBIDDEN_TO_CLAIM" \notin r.draft.claims
    /\ \A field \in IdFields : \E i \in DOMAIN r.sections : r.sections[i][field] # NULL

\* A plan is ready exactly when every gate is passed (evaluate_eligibility,
\* plan_resubmission: a dozen separate blockers add up to this).
ReadyMeansAllGates == Ready(rep) <=> AllGates(rep)

\* What the plan run's exit code 0 tells a user: approving the printed digest
\* is all that is missing, and without READY no approval ever suffices
\* (plan_status against execute_resubmit's own guard).
ReadyPlansExecute ==
    PlanStatus(Plan(rep)) = "READY"
        <=> ExecutionBlockers(Plan(rep), Plan(rep), Own, PlanDigest(rep)) = {}

\* Any change of the report makes the approval it had stale, whichever part
\* changed (plan_resubmission, stable_digest, ApprovalRecord.status_for).
AnyChangeMakesStale == [][StatusFor(Own, Plan(rep')) = "STALE"]_rep
=============================================================================
