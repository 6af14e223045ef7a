------------------------------ MODULE Recovery ------------------------------
(***************************************************************************)
(* The pure part of Phase 6: from a parsed rejection and what the engines  *)
(* of Phases 3, 4 and 5 say of the project to root causes, verification    *)
(* results, a reply and the resubmit candidate.                            *)
(*                                                                         *)
(* A rejection is what the parser finds in Apple's text:                   *)
(*   [id, guidelines : the numbers cited, signals : the keyword groups]    *)
(* The engines' answers are a record                                       *)
(*   review    category -> status, always there                            *)
(*   privacy   [gate, contradictions] of Phase 4, NULL without --privacy   *)
(*   design    [gate, localization] of Phase 5, NULL without --design      *)
(* One root cause per category, so a cause is named by its category.       *)
(***************************************************************************)
EXTENDS ResubmitPlan

\* The categories of the rules that apple_rules/app_review_guidelines.json
\* has for a guideline; any other guideline has none.
GuidelineCategories ==
    [ g2_1   |-> {"PERFORMANCE", "REVIEW_ACCESS"},
      g2_3   |-> {"METADATA"},
      g5_1_1 |-> {"PERFORMANCE", "METADATA", "PRIVACY"},
      g4_0   |-> {} ]

Guidelines == DOMAIN GuidelineCategories

\* SIGNAL_CATEGORY_MAP; the parser's "device_platform" has no category.
SignalCategory ==
    [ review_access     |-> "REVIEW_ACCESS",
      privacy           |-> "PRIVACY",
      metadata_refs     |-> "METADATA",
      crash_performance |-> "TECHNICAL",
      design_hig        |-> "DESIGN_HIG",
      localization      |-> "LOCALIZATION",
      screenshot        |-> "SCREENSHOT_ASSET",
      payments_iap      |-> "PAYMENTS_IAP",
      legal_policy      |-> "LEGAL_POLICY" ]

Signals == DOMAIN SignalCategory \cup {"device_platform"}

Rejections(ids) == [id : ids, guidelines : SUBSET Guidelines, signals : SUBSET Signals]

CauseIds ==
    {"PERFORMANCE", "UNKNOWN"} \cup {SignalCategory[s] : s \in DOMAIN SignalCategory}

-----------------------------------------------------------------------------
(* Mapping *)

MapGuideline(g) ==
    [ source     |-> g,
      category   |-> IF \E c \in CauseIds : GuidelineCategories[g] = {c}
                     THEN CHOOSE c \in CauseIds : GuidelineCategories[g] = {c}
                     ELSE "UNKNOWN",
      confidence |-> IF GuidelineCategories[g] = {} THEN "LOW" ELSE "HIGH" ]

MapSignal(s) == [source |-> s, category |-> SignalCategory[s], confidence |-> "MEDIUM"]

Unmapped == [source |-> NULL, category |-> "UNKNOWN", confidence |-> "LOW"]

MapRejection(rejection) ==
    LET mappings == {MapGuideline(g) : g \in rejection.guidelines}
                    \cup {MapSignal(s) : s \in rejection.signals \cap DOMAIN SignalCategory}
    IN IF mappings = {} THEN {Unmapped} ELSE mappings

-----------------------------------------------------------------------------
(* Root causes *)

\* A mapping to UNKNOWN only counts when it is the only one.
Considered(mappings) ==
    {m \in mappings : m.category = "UNKNOWN" => mappings = {m}}

CauseCategories(mappings) ==
    IF Considered(mappings) = {}
    THEN {"UNKNOWN"}
    ELSE {m.category : m \in Considered(mappings)}

HighConfidence(mappings, c) ==
    \E m \in Considered(mappings) : m.category = c /\ m.confidence = "HIGH"

Normalize(status) == IF status \in {"PASS", "BLOCKED"} THEN status ELSE NULL

\* category_recheck_status: ask the engine that owns the category.
Recheck(engines, c) ==
    CASE c = "PRIVACY" /\ engines.privacy # NULL       -> Normalize(engines.privacy.gate)
      [] c = "PRIVACY" /\ engines.privacy = NULL       -> Normalize(engines.review["PRIVACY"])
      [] c \in {"PERFORMANCE", "METADATA", "REVIEW_ACCESS"} -> Normalize(engines.review[c])
      [] c = "DESIGN_HIG" /\ engines.design # NULL     -> Normalize(engines.design.gate)
      [] c = "LOCALIZATION" /\ engines.design # NULL   -> Normalize(engines.design.localization)
      [] OTHER                                         -> NULL

NeedsRuntime(c) == c = "TECHNICAL"

NeedsConfirmation(c) == c \in {"PAYMENTS_IAP", "LEGAL_POLICY", "SCREENSHOT_ASSET"}

\* _category_root_cause, _crash_root_cause and the UNKNOWN cause
RootCause(mappings, engines, c) ==
    LET recheck == Recheck(engines, c)
        confirmed == recheck = "BLOCKED"
        passed == recheck = "PASS"
    IN [ id           |-> c,
         status       |-> CASE confirmed                                       -> "CONFIRMED"
                            [] passed /\ HighConfidence(mappings, c)          -> "CONTRADICTED"
                            [] passed /\ ~HighConfidence(mappings, c)         -> "LIKELY"
                            [] ~confirmed /\ ~passed                          -> "UNKNOWN",
         runtime      |-> NeedsRuntime(c) /\ ~confirmed,
         confirmation |-> ~confirmed /\ (passed \/ NeedsConfirmation(c) \/ c = "UNKNOWN") ]

RootCauses(mappings, engines) ==
    {RootCause(mappings, engines, c) : c \in CauseCategories(mappings)}

-----------------------------------------------------------------------------
(* Verification: attested is the set of categories a person vouches for *)

Result(status, reason) == [status |-> status, reason |-> reason]

\* Mutant of VerifyRootCause: no news is good news.
VerifyRootCauseUnlessBlocked(cause, engines, attested) ==
    CASE cause.id \in attested                    -> Result("USER_ATTESTED", NULL)
      [] cause.id \notin attested /\ Recheck(engines, cause.id) = "BLOCKED"
                                                  -> Result("UNVERIFIED", "still_blocked")
      [] OTHER                                    -> Result("VERIFIED", NULL)

\* Mutant of VerifyRootCause: the missing runtime evidence is not reported.
VerifyRootCauseLocally(cause, engines, attested) ==
    LET recheck == Recheck(engines, cause.id)
    IN CASE cause.id \in attested                     -> Result("USER_ATTESTED", NULL)
         [] cause.id \notin attested /\ recheck = "PASS" -> Result("VERIFIED", NULL)
         [] OTHER                                     -> Result("UNVERIFIED", NULL)

VerifyRootCause(cause, engines, attested) ==
    LET recheck == Recheck(engines, cause.id)
        forbidden == cause.id \in {"PAYMENTS_IAP", "LEGAL_POLICY"}
        open == cause.id \notin attested /\ ~forbidden
        silent == open /\ recheck = NULL
    IN CASE cause.id \in attested                   -> Result("USER_ATTESTED", NULL)
         [] cause.id \notin attested /\ forbidden   -> Result("FORBIDDEN_TO_CLAIM", NULL)
         [] open /\ recheck = "PASS"                -> Result("VERIFIED", NULL)
         [] open /\ recheck = "BLOCKED"             -> Result("UNVERIFIED", "still_blocked")
         [] silent /\ cause.runtime                 -> Result("UNVERIFIED", "requires_runtime")
         [] silent /\ ~cause.runtime /\ cause.confirmation
                                                    -> Result("UNVERIFIED", "requires_user_confirmation")
         [] silent /\ ~cause.runtime /\ ~cause.confirmation
                                                    -> Result("UNVERIFIED", "still_blocked")

VerifyRootCauses(causes, engines, attested) ==
    [id \in {c.id : c \in causes} |->
        VerifyRootCause(CHOOSE c \in causes : c.id = id, engines, attested)]

-----------------------------------------------------------------------------
(* The reply *)

Resolved == {"VERIFIED", "USER_ATTESTED"}

ClaimKind(cause, result) ==
    CASE result.status = "VERIFIED" /\ cause.status = "CONTRADICTED"                -> "dispute"
      [] result.status \in Resolved /\ ~(result.status = "VERIFIED" /\ cause.status = "CONTRADICTED")
                                                                                   -> "fix"
      [] result.status \notin Resolved                                             -> "clarification"

Claims(causes, results) ==
    {[subject |-> c.id, kind |-> ClaimKind(c, results[c.id]), status |-> results[c.id].status]
        : c \in causes}

ResponseMode(claims) ==
    LET kinds == {c.kind : c \in claims}
        statuses == {c.status : c \in claims}
    IN CASE kinds = {"dispute"}                           -> "DISPUTE_WITH_EVIDENCE"
         [] kinds \subseteq {"clarification"}             -> "CLARIFICATION"
         [] OTHER -> IF statuses \subseteq Resolved THEN "FIXED" ELSE "PARTIALLY_FIXED"

ClaimStatuses == Resolved \cup {"FORBIDDEN_TO_CLAIM", "UNVERIFIED"}

Drafts ==
    [ id : {"reply"} \X STRING, ready : BOOLEAN, claims : SUBSET ClaimStatuses,
      body : [ mode : {"DISPUTE_WITH_EVIDENCE", "CLARIFICATION", "FIXED", "PARTIALLY_FIXED"},
               claims : SUBSET [ subject : CauseIds, kind : {"dispute", "fix", "clarification"},
                                 status : ClaimStatuses ] ] ]

\* draft_reply; ready_to_send is derived from the claims.
DraftReply(rejection, causes, results) ==
    LET claims == Claims(causes, results)
        statuses == {c.status : c \in claims}
    IN [ id     |-> <<"reply", rejection.id>>,
         ready  |-> statuses \cap {"FORBIDDEN_TO_CLAIM", "UNVERIFIED"} = {},
         claims |-> statuses,
         body   |-> [mode |-> ResponseMode(claims), claims |-> claims] ]

-----------------------------------------------------------------------------
(* The resubmit candidate *)

\* Mutant of HasOrphanedBlocker: only the rejected categories are looked at.
HasOrphanedBlockerIfCovered(covered, engines) ==
    \E c \in {"PERFORMANCE", "METADATA", "REVIEW_ACCESS", "PRIVACY"} \cap covered :
        engines.review[c] = "BLOCKED"

HasOrphanedBlocker(covered, engines) ==
    \/ \E c \in {"PERFORMANCE", "METADATA", "REVIEW_ACCESS", "PRIVACY"} \ covered :
            engines.review[c] = "BLOCKED"
    \/ engines.privacy # NULL /\ engines.privacy.gate = "BLOCKED" /\ "PRIVACY" \notin covered
    \/ engines.design # NULL /\ engines.design.gate = "BLOCKED" /\ "DESIGN_HIG" \notin covered

\* Mutant of ContradictionOpen: a cause Apple only hinted at counts too.
ContradictionOpenOfAnyPass(causes, results) ==
    \E c \in causes : c.status \in {"CONTRADICTED", "LIKELY"} /\ results[c.id].status # "VERIFIED"

ContradictionOpen(causes, results) ==
    \E c \in causes : c.status = "CONTRADICTED" /\ results[c.id].status # "VERIFIED"

\* Mutant of Refused: a cause that is still blocked is only pending.
RefusedUnlessPending(causes, results, engines) ==
    \/ HasOrphanedBlocker(DOMAIN results, engines)
    \/ \E id \in DOMAIN results : results[id].status = "FORBIDDEN_TO_CLAIM"
    \/ ContradictionOpen(causes, results)

\* The conditions under which the verdict is NO whatever is pending.
Refused(causes, results, engines) ==
    \/ HasOrphanedBlocker(DOMAIN results, engines)
    \/ \E id \in DOMAIN results : results[id].status = "FORBIDDEN_TO_CLAIM"
    \/ ContradictionOpen(causes, results)
    \/ \E id \in DOMAIN results : results[id].reason = "still_blocked"

Pending(results) ==
    \E id \in DOMAIN results :
        results[id].reason \in {"requires_runtime", "requires_user_confirmation", "asc_only"}

\* _compute_resubmit_candidate
ResubmitCandidate(causes, results, draft, engines) ==
    CASE Refused(causes, results, engines)                                     -> "NO"
      [] ~Refused(causes, results, engines) /\ Pending(results)                -> "CONDITIONAL"
      [] ~Refused(causes, results, engines) /\ ~Pending(results) /\ draft.ready  -> "YES"
      [] ~Refused(causes, results, engines) /\ ~Pending(results) /\ ~draft.ready -> "NO"

\* _compute_resubmit_candidate over everything before it in run_recovery
Candidacy(rejection, engines, attested) ==
    LET causes == RootCauses(MapRejection(rejection), engines)
        results == VerifyRootCauses(causes, engines, attested)
    IN ResubmitCandidate(causes, results, DraftReply(rejection, causes, results), engines)

\* The RecoveryResult as Phase 7 reads it back; audit is what the rest of the
\* saved payload says that the eligibility gate looks for.
RecoveryReport(rejection, engines, attested, audit) ==
    LET causes == RootCauses(MapRejection(rejection), engines)
        results == VerifyRootCauses(causes, engines, attested)
    IN [ candidate       |-> Candidacy(rejection, engines, attested),
         verification    |-> results,
         causes          |-> causes,
         draft           |-> DraftReply(rejection, causes, results),
         audit           |-> audit,
         sections        |-> <<>>,
         report_id       |-> rejection.id,
         plan_id         |-> NULL,
         evidence_digest |-> NULL ]
=============================================================================
