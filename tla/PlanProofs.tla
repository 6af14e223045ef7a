----------------------------- MODULE PlanProofs -----------------------------
(***************************************************************************)
(* What a plan and its approval promise, for every recovery report that    *)
(* reruns and people can make of any parts.                                *)
(***************************************************************************)
EXTENDS Planning, TLAPS

-----------------------------------------------------------------------------
(* The reports there can be *)

\* A reply as drafted or edited.
Edited(d, b) == [d EXCEPT !.body = b]

Replies ==
    Drafts \cup {NULL} \cup UNION {{Edited(d, b) : b \in Bodies} : d \in Drafts \ {NULL}}

Reports ==
    [ candidate       : {NULL, "YES", "CONDITIONAL", "NO"},
      verification    : Verifications \cup {NoResults},
      causes          : CauseSets \cup {{}},
      draft           : Replies,
      audit           : Audits \cup {{}},
      sections        : SectionLists \cup {<<NoIds>>},
      report_id       : {"recovery"},
      plan_id         : {NULL},
      evidence_digest : {NULL} ]

LEMMA RepliesType ==
    /\ \A d \in Replies \ {NULL} : d.ready \in BOOLEAN
    /\ \A d \in Replies \ {NULL}, b \in Bodies : Edited(d, b) \in Replies
    /\ Drafts \subseteq Replies /\ NULL \in Replies
<1>1. \A d : d \in Replies <=> \/ d \in Drafts \/ d = NULL
                               \/ \E e \in Drafts \ {NULL}, b \in Bodies : d = Edited(e, b)
  BY DEF Replies
<1>2. ASSUME NEW d \in Drafts \ {NULL}
      PROVE  /\ d.ready \in BOOLEAN
             /\ \A b \in Bodies : Edited(d, b).ready = d.ready
  BY PartsAssumption DEF Edited
<1>3. ASSUME NEW d \in Drafts \ {NULL}, NEW a \in Bodies, NEW b \in Bodies
      PROVE  Edited(Edited(d, a), b) = Edited(d, b)
  BY DEF Edited
<1>4. ASSUME NEW d \in Replies \ {NULL}
      PROVE  d.ready \in BOOLEAN
  <2>1. CASE d \in Drafts
    BY <1>2, <2>1
  <2>2. CASE \E e \in Drafts \ {NULL}, b \in Bodies : d = Edited(e, b)
    BY <1>2, <2>2
  <2>3. QED
    BY <1>1, <2>1, <2>2
<1>5. ASSUME NEW d \in Replies \ {NULL}, NEW b \in Bodies
      PROVE  Edited(d, b) \in Replies
  <2>1. CASE d \in Drafts
    BY <1>1, <2>1
  <2>2. CASE \E e \in Drafts \ {NULL}, a \in Bodies : d = Edited(e, a)
    BY <1>1, <1>3, <2>2
  <2>3. QED
    BY <1>1, <2>1, <2>2
<1>6. QED
  BY <1>1, <1>4, <1>5

TypeOK == rep \in Reports

\* The parts of a report keep their shape (run_recovery's result, the audit
\* and submission sections added to it, the edited reply).
LEMMA ReportType == Spec => []TypeOK
<1>1. Init => TypeOK
  <2> SUFFICES ASSUME Init
               PROVE  rep \in Reports
    BY DEF TypeOK
  <2> DEFINE sections == <<NoIds>>
  <2>1. rep = [ candidate |-> NULL, verification |-> NoResults, causes |-> {},
                draft |-> NULL, audit |-> {}, sections |-> sections,
                report_id |-> "recovery", plan_id |-> NULL, evidence_digest |-> NULL ]
    BY DEF Init
  <2>2. sections \in SectionLists \cup {<<NoIds>>}
    OBVIOUS
  <2> HIDE DEF sections
  <2>3. QED
    BY <2>1, <2>2, RepliesType DEF Reports
<1>2. TypeOK /\ [Next]_rep => TypeOK'
  <2> SUFFICES ASSUME rep \in Reports, [Next]_rep
               PROVE  rep' \in Reports
    BY DEF TypeOK
  <2>1. CASE Recover
    <3>1. PICK c \in {"YES", "CONDITIONAL", "NO"}, v \in Verifications, s \in CauseSets, d \in Drafts :
              rep' = [rep EXCEPT !.candidate = c, !.verification = v, !.causes = s, !.draft = d]
      BY <2>1, Zenon DEF Recover
    <3>2. QED
      BY <3>1, RepliesType DEF Reports
  <2>2. CASE Audit
    BY <2>2 DEF Audit, Reports
  <2>3. CASE Discover
    BY <2>3 DEF Discover, Reports
  <2>4. CASE EditReply
    <3>1. PICK b \in Bodies : rep' = [rep EXCEPT !.draft.body = b]
      BY <2>4 DEF EditReply
    <3>2. rep' = [rep EXCEPT !.draft = [rep.draft EXCEPT !.body = b]]
      BY <3>1
    <3>3. rep.draft \in Replies \ {NULL}
      BY <2>4 DEF EditReply, Reports
    <3>4. [rep.draft EXCEPT !.body = b] \in Replies
      BY <3>3, RepliesType DEF Edited
    <3>5. QED
      BY <3>2, <3>4 DEF Reports
  <2>5. CASE UNCHANGED rep
    BY <2>5
  <2>6. QED
    BY <2>1, <2>2, <2>3, <2>4, <2>5 DEF Next
<1>3. QED
  BY <1>1, <1>2, PTL DEF Spec

-----------------------------------------------------------------------------
(* The gate and the ids *)

\* No blocker is raised exactly when each of the gate's conditions fails.
LEMMA GateIsClear ==
    ASSUME NEW r, ~MissingRecovery(r)
    PROVE  GateBlockers(r) = {}
               <=> /\ Candidate(r) # "NO"
                   /\ DOMAIN r.verification # {}
                   /\ \A id \in DOMAIN r.verification : ~MachineIssue(r.verification[id])
                   /\ ~ForbiddenClaim(r)
                   /\ ~UnresolvedContradiction(r)
                   /\ ReplyReady(r) \/ PendingReasons(r) \cap ConditionalReasons # {}
                   /\ "stale" \notin r.audit
                   /\ "blocked_findings" \notin r.audit
<1> DEFINE conditions == BlockerConditions(r)
<1>1. /\ DOMAIN conditions =
             {"phase6_recovery_not_eligible", "missing_recovery_verification",
              "unverified_machine_issue", "forbidden_claim", "unresolved_contradiction",
              "reply_not_ready", "stale_build_version", "unresolved_blocked_findings"}
      /\ conditions["phase6_recovery_not_eligible"] = (Candidate(r) = "NO")
      /\ conditions["missing_recovery_verification"] = (DOMAIN r.verification = {})
      /\ conditions["unverified_machine_issue"] =
             \E id \in DOMAIN r.verification : MachineIssue(r.verification[id])
      /\ conditions["forbidden_claim"] = ForbiddenClaim(r)
      /\ conditions["unresolved_contradiction"] = UnresolvedContradiction(r)
      /\ conditions["reply_not_ready"] =
             (~ReplyReady(r) /\ PendingReasons(r) \cap ConditionalReasons = {})
      /\ conditions["stale_build_version"] = ("stale" \in r.audit)
      /\ conditions["unresolved_blocked_findings"] = ("blocked_findings" \in r.audit)
  BY DEF BlockerConditions
<1>2. GateBlockers(r) = {b \in DOMAIN conditions : conditions[b]}
  BY DEF GateBlockers
<1> HIDE DEF conditions
<1>3. QED
  BY <1>1, <1>2, Zenon

\* Nothing is pending exactly when the verdict is final and no result and no
\* cause waits for somebody.
LEMMA NothingPending ==
    ASSUME NEW r
    PROVE  PendingReasons(r) = {}
               <=> /\ Candidate(r) # "CONDITIONAL"
                   /\ \A id \in DOMAIN r.verification :
                          ~ /\ Undecided(r.verification[id])
                            /\ r.verification[id].reason \in ConditionalReasons
                   /\ \A c \in r.causes : c.runtime \/ c.confirmation => Settled(r, c.id)
<1>1. PendingReasons(r) = {}
          <=> /\ \A id \in DOMAIN r.verification :
                     ~ /\ Undecided(r.verification[id])
                       /\ r.verification[id].reason \in ConditionalReasons
              /\ Candidate(r) # "CONDITIONAL"
              /\ ~ \E c \in r.causes : c.runtime /\ ~Settled(r, c.id)
              /\ ~ \E c \in r.causes : c.confirmation /\ ~Settled(r, c.id)
  BY Zenon DEF PendingReasons
<1>2. QED
  BY <1>1

\* The lookup finds an id exactly when some section carries it.
LEMMA IdsAreFound ==
    ASSUME NEW r \in Reports
    PROVE  MissingIds(SubmissionValues(r)) = {}
               <=> \A field \in IdFields : \E i \in DOMAIN r.sections : r.sections[i][field] # NULL
<1>1. ASSUME NEW field \in IdFields
      PROVE  SubmissionValue(r, field) # NULL
                 <=> \E i \in DOMAIN r.sections : r.sections[i][field] # NULL
  <2> DEFINE carries(i) == r.sections[i][field] # NULL
             first(i) == carries(i) /\ \A j \in 1..(i - 1) : ~carries(j)
  <2>1. PICK n \in 0..5 : DOMAIN r.sections = 1..n
    <3>1. DOMAIN <<NoIds>> = 1..1
      OBVIOUS
    <3>2. QED
      BY <3>1, PartsAssumption DEF Reports
  <2>2. ASSUME \E i \in 1..n : carries(i)
        PROVE  \E i \in 1..n : first(i)
    <3> HIDE DEF carries
    <3>1. n \in {0, 1, 2, 3, 4, 5}
      BY <2>1
    <3>2. QED
      BY <2>2, <3>1
  <2>3. CASE \E i \in 1..n : carries(i)
    <3>1. SubmissionValue(r, field) = r.sections[CHOOSE i \in DOMAIN r.sections : first(i)][field]
      BY <2>1, <2>3, Zenon DEF SubmissionValue
    <3>2. first(CHOOSE i \in DOMAIN r.sections : first(i))
      BY <2>1, <2>2, <2>3, Zenon
    <3>3. QED
      BY <2>1, <2>3, <3>1, <3>2
  <2>4. CASE ~ \E i \in 1..n : carries(i)
    BY <2>1, <2>4 DEF SubmissionValue
  <2>5. QED
    BY <2>3, <2>4
<1>2. QED
  BY <1>1 DEF MissingIds, SubmissionValues

-----------------------------------------------------------------------------
(* Theorems *)

\* For every report, a plan is ready exactly when the report passes all the
\* gates at once (evaluate_eligibility, plan_resubmission).
LEMMA ReadyIsAllGates ==
    ASSUME NEW r \in Reports
    PROVE  Ready(r) <=> AllGates(r)
<1>1. /\ r.candidate \in {NULL, "YES", "CONDITIONAL", "NO"}
      /\ r.audit \subseteq AuditFields
      /\ r.draft # NULL => r.draft.ready \in BOOLEAN
  BY PartsAssumption, RepliesType DEF Reports
<1>2. Candidate(r) \notin {"NO", "CONDITIONAL"} <=> r.candidate = "YES"
  BY <1>1, PartsAssumption DEF Candidate
<1>3. Ready(r) <=> /\ ReplyReady(r)
                   /\ GateBlockers(r) = {} /\ GateReasons(r) = {}
                   /\ MissingIds(SubmissionValues(r)) = {}
  <2>1. Eligibility(r) = "YES" <=> GateBlockers(r) = {} /\ GateReasons(r) = {}
    BY DEF Eligibility
  <2>2. PlanBlockers(r) = {}
            <=> /\ GateBlockers(r) = {} /\ MissingIds(SubmissionValues(r)) = {}
                /\ ReplyReady(r)
    BY Zenon DEF PlanBlockers
  <2>3. QED
    BY <2>1, <2>2 DEF Ready
<1>4. CASE r.draft = NULL
  BY <1>3, <1>4 DEF ReplyReady, AllGates
<1>5. CASE r.draft # NULL
  <2>1. ~MissingRecovery(r) /\ (ReplyReady(r) <=> r.draft.ready) /\ ReplyClaims(r) = r.draft.claims
    BY <1>5 DEF MissingRecovery, ReplyReady, ReplyClaims
  <2>2. GateReasons(r) = PendingReasons(r)
    BY <2>1 DEF GateReasons
  <2>3. \A id \in DOMAIN r.verification :
            Settled(r, id)
                <=> LET v == r.verification[id]
                    IN  /\ ~MachineIssue(v)
                        /\ v.status # "FORBIDDEN_TO_CLAIM"
                        /\ ~(Undecided(v) /\ v.reason \in ConditionalReasons)
    BY DEF Settled, MachineIssue, Undecided
  <2>4. r.audit = {}
            <=> /\ "forbidden_claims" \notin r.audit
                /\ r.audit \cap {"unresolved_contradictions", "privacy_contradictions",
                                 "contradictions"} = {}
                /\ "stale" \notin r.audit /\ "blocked_findings" \notin r.audit
    BY <1>1 DEF AuditFields
  <2>5. ForbiddenClaim(r)
            <=> \/ \E id \in DOMAIN r.verification :
                       r.verification[id].status = "FORBIDDEN_TO_CLAIM"
                \/ "FORBIDDEN_TO_CLAIM" \in r.draft.claims
                \/ "forbidden_claims" \in r.audit
    BY <2>1 DEF ForbiddenClaim
  <2>6. UnresolvedContradiction(r)
            <=> \/ \E c \in r.causes : c.status = "CONTRADICTED" /\ ~Settled(r, c.id)
                \/ r.audit \cap {"unresolved_contradictions", "privacy_contradictions",
                                 "contradictions"} # {}
    BY DEF UnresolvedContradiction
  <2>7. AllGates(r)
            <=> /\ r.candidate = "YES"
                /\ DOMAIN r.verification # {}
                /\ \A id \in DOMAIN r.verification : Settled(r, id)
                /\ \A c \in r.causes : c.status = "CONTRADICTED" \/ c.runtime \/ c.confirmation
                                          => Settled(r, c.id)
                /\ r.audit = {}
                /\ r.draft.ready /\ "FORBIDDEN_TO_CLAIM" \notin r.draft.claims
                /\ MissingIds(SubmissionValues(r)) = {}
    BY <1>5, IdsAreFound DEF AllGates
  <2>8. Ready(r)
            <=> /\ r.draft.ready
                /\ r.candidate = "YES"
                /\ DOMAIN r.verification # {}
                /\ \A id \in DOMAIN r.verification :
                       LET v == r.verification[id]
                       IN  /\ ~MachineIssue(v)
                           /\ ~(Undecided(v) /\ v.reason \in ConditionalReasons)
                /\ ~ForbiddenClaim(r)
                /\ ~UnresolvedContradiction(r)
                /\ \A c \in r.causes : c.runtime \/ c.confirmation => Settled(r, c.id)
                /\ "stale" \notin r.audit /\ "blocked_findings" \notin r.audit
                /\ MissingIds(SubmissionValues(r)) = {}
    BY <1>2, <1>3, <2>1, <2>2, GateIsClear, NothingPending
  <2>9. QED
    BY <2>3, <2>4, <2>5, <2>6, <2>7, <2>8
<1>6. QED
  BY <1>4, <1>5

\* A plan is ready exactly when every gate is passed, whatever the parts of
\* the report are and however it came about (evaluate_eligibility,
\* plan_resubmission).
THEOREM ReadyMeansAllGatesHolds == Spec => []ReadyMeansAllGates
<1>1. TypeOK => ReadyMeansAllGates
  BY ReadyIsAllGates DEF ReadyMeansAllGates, TypeOK
<1>2. QED
  BY <1>1, ReportType, PTL

\* READY means that the user's approval of the printed digest is all that is
\* missing, provided NULL stands for no approval and no command
\* (plan_status, validate_approval, execute_resubmit).
THEOREM ReadyPlansExecuteHolds ==
    ASSUME \A r \in Reports : /\ ApprovalRecord(Plan(r), "explicit-user") # NULL
                              /\ PrimaryCommand(SubmissionValues(r)) # NULL
    PROVE  Spec => []ReadyPlansExecute
<1>1. ASSUME TypeOK
      PROVE  ReadyPlansExecute
  <2>0. rep \in Reports
    BY <1>1 DEF TypeOK
  <2> DEFINE plan == Plan(rep)
  <2>1. /\ plan.plan_digest = PlanDigest(rep)
        /\ plan.evidence_digest = EvidenceDigest(rep)
        /\ plan.eligibility = Eligibility(rep)
        /\ plan.selected_command = SelectedCommand(SubmissionValues(rep))
        /\ plan.ready = Ready(rep)
    BY DEF Plan
  <2>2. /\ Own.decision = "APPROVED" /\ Own.approved_by = "explicit-user"
        /\ Own.evidence_digest = plan.evidence_digest
        /\ Own.planned_submission_digest = plan.plan_digest
        /\ Own # NULL
    BY <2>0 DEF Own, ApprovalRecord
  <2> HIDE DEF plan
  <2>3. ApprovalBlockers(plan, Own, PlanDigest(rep)) = {}
    BY <2>1, <2>2, PartsAssumption DEF ApprovalBlockers, ApprovalStatus, StatusFor
  <2>4. Ready(rep) => /\ Eligibility(rep) = "YES"
                      /\ SelectedCommand(SubmissionValues(rep)) # NULL
    BY <2>0 DEF Ready, PlanBlockers, SelectedCommand
  <2>5. ExecutionBlockers(plan, plan, Own, PlanDigest(rep)) = {} <=> Ready(rep)
    BY <2>1, <2>3, <2>4, Zenon DEF ExecutionBlockers
  <2>6. PlanStatus(plan) = "READY" <=> Ready(rep)
    BY <2>1, <2>4 DEF PlanStatus
  <2>7. QED
    BY <2>5, <2>6 DEF ReadyPlansExecute, plan
<1>2. QED
  BY <1>1, ReportType, PTL

\* Whatever part of a report changes, the approval it had is stale
\* (stable_digest over the whole report, ApprovalRecord.status_for).
THEOREM AnyChangeMakesStaleHolds == Spec => AnyChangeMakesStale
<1>1. ASSUME TypeOK, TypeOK'
      PROVE  [StatusFor(Own, Plan(rep')) = "STALE"]_rep
  <2> SUFFICES ASSUME rep' # rep
               PROVE  StatusFor(Own, Plan(rep')) = "STALE"
    OBVIOUS
  <2>1. EvidenceDigest(rep) = Digest(rep) /\ EvidenceDigest(rep') = Digest(rep')
    BY <1>1 DEF TypeOK, Reports, EvidenceDigest
  <2>2. Digest(rep) # Digest(rep')
    BY DEF Digest
  <2>3. /\ Own.decision = "APPROVED"
        /\ Own.evidence_digest = EvidenceDigest(rep)
        /\ Plan(rep').evidence_digest = EvidenceDigest(rep')
    BY DEF Own, ApprovalRecord, Plan
  <2>4. QED
    BY <2>1, <2>2, <2>3 DEF StatusFor
<1>2. QED
  BY <1>1, ReportType, PTL DEF Spec, AnyChangeMakesStale
=============================================================================
