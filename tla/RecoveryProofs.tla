--------------------------- MODULE RecoveryProofs ---------------------------
(***************************************************************************)
(* Machine-checked: the verdict of Phase 6 and the eligibility gate of     *)
(* Phase 7 agree, and what a report and an exit code say, nothing that was *)
(* lacking throughout the run gainsays, for every project, all privacy and *)
(* design sources, every rejection, every attestation file and every edit. *)
(***************************************************************************)
EXTENDS RecoveryLoop, EvidenceProofs

-----------------------------------------------------------------------------
(* Causes and their results *)

\* Every rejection has at least one root cause, UNKNOWN if no other (map_rejection).
LEMMA CausesExist ==
    ASSUME NEW r, NEW e
    PROVE  RootCauses(MapRejection(r), e) # {}
<1> DEFINE mappings == MapRejection(r)
<1>1. CauseCategories(mappings) # {}
  BY DEF CauseCategories
<1>2. PICK c \in CauseCategories(mappings) : TRUE
  BY <1>1
<1>3. RootCause(mappings, e, c) \in RootCauses(mappings, e)
  BY <1>2 DEF RootCauses
<1>4. QED
  BY <1>3

\* A recheck is PASS, BLOCKED or no answer (_normalize).
LEMMA RecheckType ==
    ASSUME NEW e, NEW c
    PROVE  Recheck(e, c) \in {"PASS", "BLOCKED", NULL}
<1>1. \A status : Normalize(status) \in {"PASS", "BLOCKED", NULL}
  BY DEF Normalize
<1>2. QED
  BY <1>1 DEF Recheck

\* A result is unverified exactly when it says what is pending.
LEMMA ResultType ==
    ASSUME NEW cause, NEW e, NEW attested
    PROVE  VerifyRootCause(cause, e, attested) \in Results
<1>1. /\ Result("USER_ATTESTED", NULL) \in Results
      /\ Result("FORBIDDEN_TO_CLAIM", NULL) \in Results
      /\ Result("VERIFIED", NULL) \in Results
      /\ \A reason \in {"still_blocked", "requires_runtime", "requires_user_confirmation"} :
             Result("UNVERIFIED", reason) \in Results
  BY DEF Result, Results, Resolved
<1>2. QED
  BY <1>1, RecheckType DEF VerifyRootCause

\* Every cause has one result (verify_root_causes).
LEMMA ResultsType ==
    ASSUME NEW causes, NEW e, NEW attested
    PROVE  LET results == VerifyRootCauses(causes, e, attested)
           IN /\ DOMAIN results = {c.id : c \in causes}
              /\ \A id \in DOMAIN results : results[id] \in Results
BY ResultType DEF VerifyRootCauses

\* The claims of the reply have the statuses of the results (draft_reply).
LEMMA StatusesClaimed ==
    ASSUME NEW causes, NEW results
    PROVE  {c.status : c \in Claims(causes, results)} = {results[c.id].status : c \in causes}
<1> DEFINE claim(c) == [ subject |-> c.id, kind |-> ClaimKind(c, results[c.id]),
                         status |-> results[c.id].status ]
<1>1. Claims(causes, results) = {claim(c) : c \in causes}
  BY Zenon DEF Claims
<1>2. \A c : claim(c).status = results[c.id].status
  OBVIOUS
<1> HIDE DEF claim
<1>3. QED
  BY <1>1, <1>2

\* The reply is ready when no result is forbidden or unverified.
LEMMA DraftReady ==
    ASSUME NEW r, NEW e, NEW attested
    PROVE  LET causes == RootCauses(MapRejection(r), e)
               results == VerifyRootCauses(causes, e, attested)
               draft == DraftReply(r, causes, results)
           IN /\ draft.claims = {results[id].status : id \in DOMAIN results}
              /\ draft.ready <=> \A id \in DOMAIN results : results[id].status \in Resolved
<1> DEFINE causes == RootCauses(MapRejection(r), e)
           results == VerifyRootCauses(causes, e, attested)
           draft == DraftReply(r, causes, results)
           statuses == {results[id].status : id \in DOMAIN results}
<1>1. DOMAIN results = {c.id : c \in causes} /\ \A id \in DOMAIN results : results[id] \in Results
  BY ResultsType
<1>2. {c.status : c \in Claims(causes, results)} = {results[c.id].status : c \in causes}
  BY StatusesClaimed
<1>3. {results[c.id].status : c \in causes} = statuses
  BY <1>1
<1>4. draft.claims = statuses
  BY <1>2, <1>3 DEF DraftReply
<1>5. draft.ready <=> statuses \cap {"FORBIDDEN_TO_CLAIM", "UNVERIFIED"} = {}
  BY <1>2, <1>3 DEF DraftReply
<1>6. \A v \in Results : v.status \in Resolved <=> v.status \notin {"FORBIDDEN_TO_CLAIM", "UNVERIFIED"}
  BY DEF Results, Resolved
<1>7. QED
  BY <1>1, <1>4, <1>5, <1>6

\* What each verdict of recovery says of the results.
LEMMA Verdicts ==
    ASSUME NEW r, NEW e, NEW attested
    PROVE  LET causes == RootCauses(MapRejection(r), e)
               results == VerifyRootCauses(causes, e, attested)
               verdict == Candidacy(r, e, attested)
           IN /\ verdict \in {"YES", "CONDITIONAL", "NO"}
              /\ verdict = "YES" => \A id \in DOMAIN results : results[id].status \in Resolved
              /\ verdict # "NO" =>
                    /\ \A c \in causes : c.status = "CONTRADICTED" => results[c.id].status = "VERIFIED"
                    /\ \A id \in DOMAIN results : /\ results[id].status # "FORBIDDEN_TO_CLAIM"
                                                  /\ results[id].reason # "still_blocked"
              /\ verdict = "CONDITIONAL" =>
                    \E id \in DOMAIN results : results[id].status = "UNVERIFIED"
<1> DEFINE causes == RootCauses(MapRejection(r), e)
           results == VerifyRootCauses(causes, e, attested)
           draft == DraftReply(r, causes, results)
           refused == Refused(causes, results, e)
           pending == Pending(results)
<1>1. \A id \in DOMAIN results : results[id] \in Results
  BY ResultsType
<1>2. /\ refused => Candidacy(r, e, attested) = "NO"
      /\ ~refused /\ pending => Candidacy(r, e, attested) = "CONDITIONAL"
      /\ ~refused /\ ~pending /\ draft.ready => Candidacy(r, e, attested) = "YES"
      /\ ~refused /\ ~pending /\ ~draft.ready => Candidacy(r, e, attested) = "NO"
  BY DEF Candidacy, ResubmitCandidate
<1>3. ~refused =>
          /\ \A c \in causes : c.status = "CONTRADICTED" => results[c.id].status = "VERIFIED"
          /\ \A id \in DOMAIN results : /\ results[id].status # "FORBIDDEN_TO_CLAIM"
                                        /\ results[id].reason # "still_blocked"
  BY DEF Refused, ContradictionOpen
<1>4. pending => \E id \in DOMAIN results : results[id].status = "UNVERIFIED"
  <2>1. \A v \in Results :
            v.reason \in {"requires_runtime", "requires_user_confirmation", "asc_only"}
            => v.status = "UNVERIFIED"
    BY NullAssumption DEF Results, ConditionalReasons
  <2>2. QED
    BY <1>1, <2>1 DEF Pending
<1>5. draft.ready => \A id \in DOMAIN results : results[id].status \in Resolved
  BY DraftReady
<1>6. QED
  BY <1>2, <1>3, <1>4, <1>5

-----------------------------------------------------------------------------
(* The two verdicts *)

\* The category of every cause is one of the known categories.
LEMMA CausesType ==
    ASSUME NEW r \in RejectionSet, NEW e
    PROVE  \A c \in RootCauses(MapRejection(r), e) : c.id \in CauseIds
<1>1. r.guidelines \subseteq Guidelines
  BY LoopAssumption DEF Rejections
<1>2. \A g : MapGuideline(g).category \in CauseIds
  <2> SUFFICES ASSUME NEW g PROVE MapGuideline(g).category \in CauseIds
    OBVIOUS
  <2>1. CASE \E c \in CauseIds : GuidelineCategories[g] = {c}
    BY <2>1 DEF MapGuideline
  <2>2. CASE ~\E c \in CauseIds : GuidelineCategories[g] = {c}
    BY <2>2 DEF MapGuideline, CauseIds
  <2>3. QED
    BY <2>1, <2>2
<1>3. \A s \in DOMAIN SignalCategory : MapSignal(s).category \in CauseIds
  BY DEF MapSignal, CauseIds
<1>4. Unmapped.category \in CauseIds
  BY DEF Unmapped, CauseIds
<1>5. \A m \in MapRejection(r) : m.category \in CauseIds
  BY <1>2, <1>3, <1>4 DEF MapRejection
<1>6. CauseCategories(MapRejection(r)) \subseteq CauseIds
  BY <1>5 DEF CauseCategories, Considered, CauseIds
<1>7. \A c : RootCause(MapRejection(r), e, c).id = c
  BY DEF RootCause
<1>8. QED
  BY <1>6, <1>7 DEF RootCauses

\* run_recovery always drafts a reply, so Phase 7 never misses one.
LEMMA DraftIsThere ==
    ASSUME NEW r \in RejectionSet, NEW e, NEW attested
    PROVE  LET causes == RootCauses(MapRejection(r), e)
               results == VerifyRootCauses(causes, e, attested)
           IN DraftReply(r, causes, results) # NULL
<1> DEFINE causes == RootCauses(MapRejection(r), e)
           results == VerifyRootCauses(causes, e, attested)
           claims == Claims(causes, results)
           statuses == {c.status : c \in claims}
<1>1. <<"reply", r.id>> \in {"reply"} \X STRING
  BY LoopAssumption DEF Rejections
<1>2. ResponseMode(claims) \in {"DISPUTE_WITH_EVIDENCE", "CLARIFICATION", "FIXED", "PARTIALLY_FIXED"}
  BY DEF ResponseMode
<1>3. \A c \in causes : /\ c.id \in CauseIds
                        /\ results[c.id].status \in ClaimStatuses
                        /\ ClaimKind(c, results[c.id]) \in {"dispute", "fix", "clarification"}
  <2>1. \A c \in causes : results[c.id] \in Results
    BY ResultsType
  <2>2. \A v \in Results : v.status \in ClaimStatuses
    BY DEF Results, ClaimStatuses, Resolved
  <2>3. \A c, v : ClaimKind(c, v) \in {"dispute", "fix", "clarification"}
    BY DEF ClaimKind
  <2>4. QED
    BY <2>1, <2>2, <2>3, CausesType
<1> HIDE DEF causes, results
<1>4. claims \subseteq [ subject : CauseIds, kind : {"dispute", "fix", "clarification"},
                        status : ClaimStatuses ]
  BY <1>3 DEF Claims
<1>5. statuses \subseteq ClaimStatuses
  BY <1>4
<1> HIDE DEF claims
<1>6. DraftReply(r, causes, results)
          = [ id     |-> <<"reply", r.id>>,
              ready  |-> statuses \cap {"FORBIDDEN_TO_CLAIM", "UNVERIFIED"} = {},
              claims |-> statuses,
              body   |-> [mode |-> ResponseMode(claims), claims |-> claims] ]
  BY DEF DraftReply, claims
<1> HIDE DEF statuses
<1>7. DraftReply(r, causes, results) \in Drafts
  BY <1>1, <1>2, <1>4, <1>5, <1>6 DEF Drafts
<1>8. QED
  BY <1>7, NullAssumption DEF causes, results

\* The conditions the eligibility gate holds against a report, one by one.
LEMMA Conditions ==
    ASSUME NEW R
    PROVE  /\ DOMAIN BlockerConditions(R) =
                  {"phase6_recovery_not_eligible", "missing_recovery_verification",
                   "unverified_machine_issue", "forbidden_claim", "unresolved_contradiction",
                   "reply_not_ready", "stale_build_version", "unresolved_blocked_findings"}
           /\ BlockerConditions(R)["phase6_recovery_not_eligible"] = (Candidate(R) = "NO")
           /\ BlockerConditions(R)["missing_recovery_verification"] = (DOMAIN R.verification = {})
           /\ BlockerConditions(R)["unverified_machine_issue"] =
                  \E id \in DOMAIN R.verification : MachineIssue(R.verification[id])
           /\ BlockerConditions(R)["forbidden_claim"] = ForbiddenClaim(R)
           /\ BlockerConditions(R)["unresolved_contradiction"] = UnresolvedContradiction(R)
           /\ BlockerConditions(R)["reply_not_ready"] =
                  (~ReplyReady(R) /\ PendingReasons(R) \cap ConditionalReasons = {})
           /\ BlockerConditions(R)["stale_build_version"] = ("stale" \in R.audit)
           /\ BlockerConditions(R)["unresolved_blocked_findings"] = ("blocked_findings" \in R.audit)
BY DEF BlockerConditions

\* Whatever else the payload shows, the gate agrees with the verdict.
LEMMA VerdictsAgree ==
    ASSUME NEW r \in RejectionSet, NEW e, NEW attested,
           NEW audit \in SUBSET {"blocked_findings", "privacy_contradictions"}
    PROVE  Eligibility(RecoveryReport(r, e, attested, audit))
               = IF audit = {} THEN Candidacy(r, e, attested) ELSE "NO"
<1> DEFINE causes == RootCauses(MapRejection(r), e)
           results == VerifyRootCauses(causes, e, attested)
           draft == DraftReply(r, causes, results)
           verdict == Candidacy(r, e, attested)
           R == RecoveryReport(r, e, attested, audit)
<1>1. /\ R.candidate = verdict /\ R.verification = results /\ R.causes = causes
      /\ R.draft = draft /\ R.audit = audit
  BY DEF RecoveryReport
<1>2. /\ DOMAIN results = {c.id : c \in causes} /\ DOMAIN results # {}
      /\ \A id \in DOMAIN results : results[id] \in Results
  <2>1. /\ DOMAIN results = {c.id : c \in causes}
        /\ \A id \in DOMAIN results : results[id] \in Results
    BY ResultsType
  <2>2. causes # {}
    BY CausesExist
  <2> HIDE DEF causes, results
  <2>3. QED
    BY <2>1, <2>2
<1>3. /\ verdict \in {"YES", "CONDITIONAL", "NO"}
      /\ verdict = "YES" => \A id \in DOMAIN results : results[id].status \in Resolved
      /\ verdict # "NO" =>
            /\ \A c \in causes : c.status = "CONTRADICTED" => results[c.id].status = "VERIFIED"
            /\ \A id \in DOMAIN results : /\ results[id].status # "FORBIDDEN_TO_CLAIM"
                                          /\ results[id].reason # "still_blocked"
  BY Verdicts
<1>4. /\ draft.claims = {results[id].status : id \in DOMAIN results}
      /\ draft.ready <=> \A id \in DOMAIN results : results[id].status \in Resolved
      /\ draft # NULL
  BY DraftReady, DraftIsThere
<1> HIDE DEF causes, results, draft, verdict, R
<1>5. Candidate(R) = verdict /\ ~MissingRecovery(R)
  BY <1>1, <1>2, <1>3, NullAssumption DEF Candidate, MissingRecovery
<1>6. GateBlockers(R) = {b \in DOMAIN BlockerConditions(R) : BlockerConditions(R)[b]}
      /\ GateReasons(R) = PendingReasons(R)
  BY <1>5 DEF GateBlockers, GateReasons
<1>7. CASE verdict = "NO"
  <2>1. "phase6_recovery_not_eligible" \in GateBlockers(R)
    BY <1>5, <1>6, <1>7, Conditions
  <2>2. QED
    BY <2>1, <1>7 DEF Eligibility, verdict, R
<1>8. CASE audit # {}
  <2>1. UnresolvedContradiction(R) \/ "blocked_findings" \in R.audit
    BY <1>1, <1>8 DEF UnresolvedContradiction
  <2>2. GateBlockers(R) # {}
    BY <2>1, <1>6, Conditions
  <2>3. QED
    BY <2>2, <1>8 DEF Eligibility, R
<1>9. CASE verdict \in {"YES", "CONDITIONAL"} /\ audit = {}
  <2>1. ~ForbiddenClaim(R)
    BY <1>1, <1>3, <1>4, <1>9 DEF ForbiddenClaim, ReplyClaims
  <2>2. ~UnresolvedContradiction(R)
    BY <1>1, <1>2, <1>3, <1>9 DEF UnresolvedContradiction, Settled
  <2>3. \A id \in DOMAIN results : ~MachineIssue(results[id])
    BY <1>2, <1>3, <1>9 DEF MachineIssue, Undecided, Results, Resolved, ConditionalReasons
  <2>4. verdict = "CONDITIONAL" => "phase6_external_evidence_pending" \in PendingReasons(R)
    BY <1>5 DEF PendingReasons
  <2>5. verdict = "YES" => ReplyReady(R) /\ PendingReasons(R) = {}
    <3> SUFFICES ASSUME verdict = "YES" PROVE ReplyReady(R) /\ PendingReasons(R) = {}
      OBVIOUS
    <3>1. \A id \in DOMAIN results : results[id].status \in Resolved
      BY <1>3
    <3>2. ReplyReady(R)
      BY <1>1, <1>4, <3>1 DEF ReplyReady
    <3>3. \A c \in causes : Settled(R, c.id)
      BY <1>1, <1>2, <3>1 DEF Settled, Resolved
    <3>4. \A id \in DOMAIN results : ~Undecided(results[id])
      BY <3>1 DEF Undecided, Resolved
    <3>5. PendingReasons(R) = {}
      BY <1>1, <1>5, <3>3, <3>4 DEF PendingReasons
    <3>6. QED
      BY <3>2, <3>5
  <2>6. \A b \in DOMAIN BlockerConditions(R) : ~BlockerConditions(R)[b]
    <3>1. PendingReasons(R) \cap ConditionalReasons # {} \/ ReplyReady(R)
      <4>1. CASE verdict = "YES"
        BY <4>1, <2>5
      <4>2. CASE verdict = "CONDITIONAL"
        <5>1. PICK id \in DOMAIN results : results[id].status = "UNVERIFIED"
          BY <4>2, Verdicts DEF results, causes, verdict
        <5>2. results[id].reason \in ConditionalReasons /\ Undecided(results[id])
          BY <1>2, <1>3, <4>2, <5>1 DEF Results, Resolved, ConditionalReasons, Undecided
        <5>3. results[id].reason \in PendingReasons(R)
          BY <1>1, <5>2 DEF PendingReasons
        <5>4. QED
          BY <5>2, <5>3
      <4>3. QED
        BY <1>9, <4>1, <4>2
    <3>2. QED
      BY <1>1, <1>2, <1>5, <1>9, <2>1, <2>2, <2>3, <3>1, Conditions
  <2>7. GateBlockers(R) = {}
    BY <1>6, <2>6
  <2>8. Eligibility(R) = verdict
    BY <1>6, <1>9, <2>4, <2>5, <2>7 DEF Eligibility
  <2>9. QED
    BY <2>8, <1>9 DEF verdict, R
<1>10. QED
  BY <1>3, <1>7, <1>8, <1>9

-----------------------------------------------------------------------------
(* Types *)

\* A roll-up of statuses is a status (category_status).
LEMMA RollupType ==
    ASSUME NEW S \in SUBSET Statuses
    PROVE  Rollup(S) \in Statuses
<1>1. CASE S = {}
  BY <1>1, StatusesListed DEF Rollup
<1>2. CASE S # {}
  BY <1>2, RollupIsWorst
<1>3. QED
  BY <1>1, <1>2

\* A gate is one of three words.
LEMMA GateType ==
    ASSUME NEW S
    PROVE  Gate(S) \in {"BLOCKED", "CONDITIONAL", "PASS"}
BY DEF Gate

\* A presence check gives PASS or what its rule says of a missing thing.
LEMMA PresenceType ==
    ASSUME NEW there, NEW missing \in Statuses
    PROVE  Presence(there, missing) \in Statuses
BY StatusesListed DEF Presence

\* The technical gate gives statuses, with and without a project file.
LEMMA TechnicalType ==
    ASSUME NEW p \in Projects
    PROVE  /\ DOMAIN Technical(p) \subseteq DOMAIN TechnicalStatus(p)
           /\ "PUBSPEC_VERSION" \in DOMAIN Technical(p)
           /\ \A rule \in DOMAIN Technical(p) : Technical(p)[rule] \in Statuses
<1>1. p.pubspec \in {"missing", "versionless", "malformed", "valid"}
      /\ p.settings \in [Settings -> SettingValues]
  BY DEF Projects, Facts
<1>2. VersionStatus(p) \in Statuses
  BY <1>1, StatusesListed DEF VersionStatus
<1>3. \A value \in SettingValues, required \in BOOLEAN : SettingStatus(value, required) \in Statuses
  BY StatusesListed DEF SettingStatus, SettingValues
<1>4. \A s \in Settings : /\ SettingStatus(p.settings[s], TRUE) \in Statuses
                          /\ SettingStatus(p.settings[s], FALSE) \in Statuses
  BY <1>1, <1>3
<1>5. \A there : Presence(there, "BLOCKED") \in Statuses /\ Presence(there, "UNKNOWN") \in Statuses
  BY StatusesListed, PresenceType
<1>6. "BLOCKED" \in Statuses /\ "ADVISORY" \in Statuses
  BY StatusesListed
<1>7. \A rule \in DOMAIN TechnicalStatus(p) : TechnicalStatus(p)[rule] \in Statuses
  <2>1. /\ SettingStatus(p.settings["PRODUCT_BUNDLE_IDENTIFIER"], TRUE) \in Statuses
        /\ SettingStatus(p.settings["DEVELOPMENT_TEAM"], FALSE) \in Statuses
        /\ SettingStatus(p.settings["TARGETED_DEVICE_FAMILY"], FALSE) \in Statuses
        /\ SettingStatus(p.settings["IPHONEOS_DEPLOYMENT_TARGET"], FALSE) \in Statuses
    BY <1>4 DEF Settings
  <2>2. DOMAIN TechnicalStatus(p) =
            {"PROJECT", "PUBSPEC", "PUBSPEC_VERSION", "PBXPROJ", "BUNDLE_ID", "TEAM_ID",
             "DEVICE_FAMILY", "INFO_PLIST", "ENTITLEMENTS", "DEPLOYMENT_TARGET",
             "RELEASE_CONFIG", "RUNNER_TARGET"}
    BY DEF TechnicalStatus
  <2>3. /\ TechnicalStatus(p)["PROJECT"] \in Statuses
        /\ TechnicalStatus(p)["PUBSPEC"] \in Statuses
        /\ TechnicalStatus(p)["INFO_PLIST"] \in Statuses
        /\ TechnicalStatus(p)["RELEASE_CONFIG"] \in Statuses
        /\ TechnicalStatus(p)["RUNNER_TARGET"] \in Statuses
    BY <1>5 DEF TechnicalStatus
  <2>4. /\ TechnicalStatus(p)["PUBSPEC_VERSION"] \in Statuses
        /\ TechnicalStatus(p)["PBXPROJ"] \in Statuses
        /\ TechnicalStatus(p)["ENTITLEMENTS"] \in Statuses
    BY <1>2, <1>6 DEF TechnicalStatus
  <2>5. /\ TechnicalStatus(p)["BUNDLE_ID"] \in Statuses
        /\ TechnicalStatus(p)["TEAM_ID"] \in Statuses
        /\ TechnicalStatus(p)["DEVICE_FAMILY"] \in Statuses
        /\ TechnicalStatus(p)["DEPLOYMENT_TARGET"] \in Statuses
    BY <2>1 DEF TechnicalStatus
  <2>6. QED
    BY <2>2, <2>3, <2>4, <2>5
<1>8. TechnicalRules(p) \subseteq DOMAIN TechnicalStatus(p) /\ "PUBSPEC_VERSION" \in TechnicalRules(p)
  BY DEF TechnicalRules, TechnicalStatus
<1>9. QED
  BY <1>7, <1>8 DEF Technical

\* The metadata gate gives statuses.
LEMMA MetadataType ==
    ASSUME NEW p \in Projects
    PROVE  \A rule \in DOMAIN Metadata(p) : Metadata(p)[rule] \in Statuses
<1>1. \A there : Presence(there, "UNKNOWN") \in Statuses /\ Presence(there, "ADVISORY") \in Statuses
  BY StatusesListed, PresenceType
<1>2. \A url : UrlStatus(p, url) \in Statuses
  BY StatusesListed DEF UrlStatus
<1>3. QED
  BY <1>1, <1>2 DEF Metadata

\* The reviewability gate gives statuses.
LEMMA ReviewabilityType ==
    ASSUME NEW p \in Projects
    PROVE  \A rule \in DOMAIN Reviewability(p) : Reviewability(p)[rule] \in Statuses
<1>1. ReviewInfo(p) \in Statuses /\ Permissions(p) \in Statuses
  BY StatusesListed DEF ReviewInfo, Permissions
<1>2. \A there : Presence(there, "UNKNOWN") \in Statuses
  BY StatusesListed, PresenceType
<1>3. "RISK" \in Statuses /\ "UNKNOWN" \in Statuses /\ "ADVISORY" \in Statuses
  BY StatusesListed
<1>4. QED
  BY <1>1, <1>2, <1>3 DEF Reviewability

\* All findings of a readiness report are statuses.
LEMMA ReadinessType ==
    ASSUME NEW p \in Projects
    PROVE  FoundStatuses(Readiness(p)) \subseteq Statuses
<1>1. /\ DOMAIN Readiness(p) = {"technical", "metadata", "reviewability"}
      /\ Readiness(p)["technical"] = Technical(p)
      /\ Readiness(p)["metadata"] = Metadata(p)
      /\ Readiness(p)["reviewability"] = Reviewability(p)
  BY DEF Readiness
<1>2. \A gate \in DOMAIN Readiness(p) : \A rule \in DOMAIN Readiness(p)[gate] :
          Readiness(p)[gate][rule] \in Statuses
  BY <1>1, TechnicalType, MetadataType, ReviewabilityType
<1>3. QED
  BY <1>2 DEF FoundStatuses

\* The rules of the pre-review give a status each, whatever project the
\* readiness findings were made of.
LEMMA FindingsType ==
    ASSUME NEW p \in Projects, NEW q \in Projects
    PROVE  LET findings == ReviewFindings(p, Readiness(q))
           IN \A c \in Categories : {findings[c][rule] : rule \in DOMAIN findings[c]} \subseteq Statuses
<1> DEFINE f == Readiness(q)
           findings == ReviewFindings(p, f)
<1>1. f.technical = Technical(q) /\ f.metadata = Metadata(q) /\ f.reviewability = Reviewability(q)
  BY DEF Readiness
<1> HIDE DEF f
<1>2. "PASS" \in Statuses /\ "BLOCKED" \in Statuses /\ "RISK" \in Statuses /\ "UNKNOWN" \in Statuses
  BY StatusesListed
<1>3. \A rule \in DOMAIN Performance(p, f) : Performance(p, f)[rule] \in Statuses
  <2>1. ProjectStructure(f) \in Statuses
    BY <1>1, TechnicalType, RollupType DEF ProjectStructure
  <2>2. f.technical["PUBSPEC_VERSION"] \in Statuses
    BY <1>1, TechnicalType
  <2>3. PermissionDescriptions(p) \in Statuses
    BY <1>2 DEF PermissionDescriptions
  <2>4. QED
    BY <1>2, <2>1, <2>2, <2>3 DEF Performance
<1>4. \A rule \in DOMAIN MetadataRules(p, f) : MetadataRules(p, f)[rule] \in Statuses
  <2>1. {"DISPLAY_NAME", "PRIVACY_POLICY", "SUPPORT_URL", "LOCALIZATIONS"} \subseteq DOMAIN f.metadata
    BY <1>1 DEF Metadata
  <2>2. \A rule \in DOMAIN f.metadata : f.metadata[rule] \in Statuses
    BY <1>1, MetadataType
  <2>3. f.technical["PUBSPEC_VERSION"] \in Statuses /\ PlaceholderStrings(p) \in Statuses
    BY <1>1, <1>2, TechnicalType DEF PlaceholderStrings
  <2>4. QED
    BY <2>1, <2>2, <2>3 DEF MetadataRules
<1>5. {"LOGIN", "REVIEW_INFO", "REVIEW_NOTES", "BACKEND", "PERMISSIONS"} \subseteq DOMAIN f.reviewability
      /\ \A rule \in DOMAIN f.reviewability : f.reviewability[rule] \in Statuses
  BY <1>1, ReviewabilityType DEF Reviewability
<1>6. \A rule \in DOMAIN ReviewAccess(f) : ReviewAccess(f)[rule] \in Statuses
  BY <1>5 DEF ReviewAccess
<1>7. \A rule \in DOMAIN Privacy(p, f) : Privacy(p, f)[rule] \in Statuses
  <2>1. Presence(p.published, "UNKNOWN") \in Statuses
    BY <1>2, PresenceType
  <2>2. QED
    BY <1>5, <2>1 DEF Privacy
<1>8. /\ findings["PERFORMANCE"] = Performance(p, f) /\ findings["METADATA"] = MetadataRules(p, f)
      /\ findings["REVIEW_ACCESS"] = ReviewAccess(f) /\ findings["PRIVACY"] = Privacy(p, f)
  BY DEF ReviewFindings
<1> HIDE DEF findings
<1>9. \A c \in Categories : {findings[c][rule] : rule \in DOMAIN findings[c]} \subseteq Statuses
  BY <1>3, <1>4, <1>6, <1>7, <1>8 DEF Categories
<1>10. QED
  BY <1>9 DEF findings, f

\* Every category has one status.
LEMMA CategoryType ==
    ASSUME NEW p \in Projects, NEW q \in Projects
    PROVE  CategoryStatus(ReviewFindings(p, Readiness(q))) \in [Categories -> Statuses]
<1> DEFINE findings == ReviewFindings(p, Readiness(q))
<1>1. \A c \in Categories : Rollup({findings[c][rule] : rule \in DOMAIN findings[c]}) \in Statuses
  BY FindingsType, RollupType
<1>2. QED
  BY <1>1 DEF CategoryStatus

\* What TypeOK says of a report, of any report recovery makes.
LEMMA ReportType ==
    ASSUME NEW r, NEW e, NEW attested, NEW audit
    PROVE  LET R == RecoveryReport(r, e, attested, audit)
           IN /\ R.candidate \in {"YES", "CONDITIONAL", "NO"}
              /\ DOMAIN R.verification = {c.id : c \in R.causes}
              /\ \A id \in DOMAIN R.verification : R.verification[id] \in Results
<1> DEFINE causes == RootCauses(MapRejection(r), e)
           results == VerifyRootCauses(causes, e, attested)
           R == RecoveryReport(r, e, attested, audit)
<1>1. R.candidate = Candidacy(r, e, attested) /\ R.causes = causes /\ R.verification = results
  BY DEF RecoveryReport
<1>2. Candidacy(r, e, attested) \in {"YES", "CONDITIONAL", "NO"}
  BY Verdicts
<1>3. /\ DOMAIN results = {c.id : c \in causes}
      /\ \A id \in DOMAIN results : results[id] \in Results
  BY ResultsType
<1> HIDE DEF causes, results, R
<1>4. QED
  BY <1>1, <1>2, <1>3 DEF R

\* The inductive invariant: types, and that the readiness findings of a run
\* are those of some project, though not of the present one.
LoopInv ==
    /\ TypeOK
    /\ lacking \subseteq Lacks(proj, areas)
    /\ pc # "idle" => \E p \in ProjectSet : readiness = Readiness(p)

\* The inductive invariant: types, and a readiness report of some project.
LEMMA LoopInvHolds == Spec => []LoopInv
<1> USE LoopAssumption
<1>1. Init => LoopInv
  <2> SUFFICES ASSUME Init PROVE LoopInv
    OBVIOUS
  <2>1. shown.review = NULL
    BY DEF Init, Nothing
  <2>2. changes \in 0..MaxChanges
    BY DEF Init
  <2>3. QED
    BY <2>1, <2>2 DEF Init, LoopInv, TypeOK
<1>2. ASSUME LoopInv, [Next]_vars
      PROVE  LoopInv'
  <2>1. CASE UNCHANGED vars
    BY <1>2, <2>1 DEF LoopInv, TypeOK, vars, inputs, run
  <2>2. ASSUME NEW fs \in FlagSet, Start(fs)
        PROVE  LoopInv'
    <3>1. proj \in ProjectSet /\ proj \in Projects
      BY <1>2 DEF LoopInv, TypeOK
    <3>2. FoundStatuses(readiness') \subseteq Statuses
      BY <2>2, <3>1, ReadinessType DEF Start
    <3>3. shown'.review = NULL
      BY <2>2 DEF Start, Nothing
    <3>4. QED
      BY <1>2, <2>2, <3>1, <3>2, <3>3 DEF Start, inputs, LoopInv, TypeOK
  <2>3. CASE ShowPreReview
    <3>1. shown'.review \in {NULL, "BLOCKED", "CONDITIONAL", "PASS"}
      <4>1. CASE "pre_review" \in flags
        <5> DEFINE gate == PreReviewGate(ReviewFindings(proj, readiness))
        <5>1. gate \in {"BLOCKED", "CONDITIONAL", "PASS"}
          BY GateType DEF PreReviewGate
        <5> HIDE DEF gate
        <5>2. shown' = [shown EXCEPT !.review = gate]
          BY <2>3, <4>1 DEF ShowPreReview, gate
        <5>3. QED
          BY <5>1, <5>2
      <4>2. CASE "pre_review" \notin flags
        BY <1>2, <2>3, <4>2 DEF ShowPreReview, LoopInv, TypeOK
      <4>3. QED
        BY <4>1, <4>2
    <3>2. QED
      BY <1>2, <2>3, <3>1 DEF ShowPreReview, inputs, LoopInv, TypeOK
  <2>4. CASE RunAreas
    BY <1>2, <2>4 DEF RunAreas, inputs, LoopInv, TypeOK
  <2>5. CASE Review
    <3>1. PICK q \in ProjectSet : readiness = Readiness(q)
      BY <1>2, <2>5 DEF Review, LoopInv
    <3>2. CategoryStatus(ReviewFindings(proj, readiness)) \in [Categories -> Statuses]
      BY <1>2, <3>1, CategoryType DEF LoopInv, TypeOK
    <3>3. engines'.review \in [Categories -> Statuses]
      BY <2>5, <3>2 DEF Review
    <3>4. QED
      BY <1>2, <2>5, <3>3 DEF Review, inputs, LoopInv, TypeOK
  <2>6. CASE Recover
    <3>1. report' = RecoveryReport(parsed, engines, Attested(parsed), Audit)
      BY <2>6 DEF Recover
    <3>2. /\ report'.candidate \in {"YES", "CONDITIONAL", "NO"}
          /\ DOMAIN report'.verification = {c.id : c \in report'.causes}
          /\ \A id \in DOMAIN report'.verification : report'.verification[id] \in Results
      BY <3>1, ReportType
    <3>3. exit' \in {0, 1}
      BY <2>6 DEF Recover, ExitCode
    <3>4. QED
      BY <1>2, <2>6, <3>2, <3>3 DEF Recover, inputs, LoopInv, TypeOK
  <2>7. CASE Interrupt
    <3>1. shown'.review = NULL
      BY <2>7 DEF Interrupt, Nothing
    <3>2. QED
      BY <1>2, <2>7, <3>1 DEF Interrupt, inputs, LoopInv, TypeOK
  <2>8. CASE EditProject \/ EditAttestations \/ NewRejection
    <3>1. Change /\ changes' \in 0..MaxChanges
      BY <1>2, <2>8 DEF EditProject, EditAttestations, NewRejection, Change, LoopInv, TypeOK
    <3>2. /\ proj' \in ProjectSet /\ areas' \in AreaSet
          /\ attestations' \in AttestationSet /\ rejection' \in RejectionSet
      BY <1>2, <2>8 DEF EditProject, EditAttestations, NewRejection, LoopInv, TypeOK
    <3>3. lacking' \subseteq Lacks(proj', areas')
      <4>1. CASE EditProject
        BY <4>1 DEF EditProject
      <4>2. CASE EditAttestations \/ NewRejection
        BY <1>2, <4>2 DEF EditAttestations, NewRejection, LoopInv
      <4>3. QED
        BY <2>8, <4>1, <4>2
    <3>4. UNCHANGED <<pc, flags, readiness, shown, engines, parsed, report, exit>>
      BY <3>1 DEF Change, run
    <3>5. TypeOK'
      BY <1>2, <3>1, <3>2, <3>3, <3>4 DEF LoopInv, TypeOK
    <3>6. QED
      BY <1>2, <3>3, <3>4, <3>5 DEF LoopInv
  <2>9. QED
    BY <1>2, <2>1, <2>2, <2>3, <2>4, <2>5, <2>6, <2>7, <2>8 DEF Next
<1>3. QED
  BY <1>1, <1>2, PTL DEF Spec

\* The type invariant, with what it says of reports, for every set of
\* projects, messages, attestation files, privacy and design sources.
THEOREM LoopTypeCorrect == Spec => []TypeOK
<1>1. LoopInv => TypeOK
  BY DEF LoopInv
<1>2. QED
  BY <1>1, LoopInvHolds, PTL

\* At any point of any run, the eligibility gate gives the saved report the
\* verdict recovery gave it, or NO when the payload shows a blocked finding or
\* a privacy contradiction.
THEOREM TwoPhasesAgree == Spec => []PhasesAgree
<1>1. Init => PhasesAgree
  BY DEF Init, PhasesAgree
<1>2. ASSUME PhasesAgree, LoopInv, [Next]_vars
      PROVE  PhasesAgree'
  <2>1. CASE Recover
    <3>1. parsed \in RejectionSet
      BY <1>2, <2>1 DEF Recover, LoopInv, TypeOK
    <3>2. Audit \in SUBSET {"blocked_findings", "privacy_contradictions"}
      BY DEF Audit
    <3>3. /\ report' = RecoveryReport(parsed, engines, Attested(parsed), Audit)
          /\ report'.audit = Audit
          /\ report'.candidate = Candidacy(parsed, engines, Attested(parsed))
      BY <2>1 DEF Recover, RecoveryReport
    <3>4. QED
      BY <3>1, <3>2, <3>3, VerdictsAgree DEF PhasesAgree
  <2>2. CASE \E fs \in FlagSet : Start(fs)
    BY <2>2 DEF Start, PhasesAgree
  <2>3. CASE \/ ShowPreReview \/ RunAreas \/ Review \/ Interrupt
             \/ EditProject \/ EditAttestations \/ NewRejection \/ UNCHANGED vars
    <3>1. report' = report
      BY <2>3 DEF ShowPreReview, RunAreas, Review, Interrupt, EditProject, EditAttestations,
                  NewRejection, Change, run, vars
    <3>2. QED
      BY <1>2, <3>1 DEF PhasesAgree
  <2>4. QED
    BY <1>2, <2>1, <2>2, <2>3 DEF Next
<1>3. QED
  BY <1>1, <1>2, LoopInvHolds, PTL DEF Spec
-----------------------------------------------------------------------------
(* From the facts of a project to statuses, and back *)

StatusesOf(findings, c) == {findings[c][rule] : rule \in DOMAIN findings[c]}

\* What it means that an app lacks something.
LEMMA LackingMeans ==
    ASSUME NEW p, NEW a
    PROVE  /\ "project" \in Lacks(p, a) <=> ~p.xcode
           /\ "version" \in Lacks(p, a) <=> p.pubspec \in {"missing", "versionless"}
           /\ "valid_version" \in Lacks(p, a) <=> p.pubspec # "valid"
           /\ "info_plist" \in Lacks(p, a) <=> p.pbx /\ ~p.info
           /\ "right_usage" \in Lacks(p, a) <=> p.camera /\ p.usage # "right"
           /\ "usage" \in Lacks(p, a) <=> p.usage = "none"
           /\ "name" \in Lacks(p, a) <=> p.display \in {"none", "unresolved"}
           /\ "real_texts" \in Lacks(p, a) <=> "placeholder" \in {p.display, p.description}
           /\ "localizations" \in Lacks(p, a) <=> ~p.lproj
           /\ "urls" \in Lacks(p, a) <=>
                  /\ p.urls # {"privacy", "support"}
                  /\ \A c \in p.files : p.text[c] \cap {"privacy_url", "support_url"} = {}
           /\ "publication" \in Lacks(p, a) <=> ~p.published
           /\ "sign_in" \in Lacks(p, a) <=> ~SignInSeen(p)
           /\ "review_info" \in Lacks(p, a) <=> ~ReviewInfoSeen(p)
           /\ "review_access" \in Lacks(p, a) <=> SignInSeen(p) /\ ~ReviewInfoSeen(p)
           /\ "declarations" \in Lacks(p, a) <=> Defective(a.privacy)
           /\ "sound_design" \in Lacks(p, a) <=> DesignDefect(a)
           /\ "finished_design" \in Lacks(p, a) <=> ~Finished(a)
           /\ "localized_design" \in Lacks(p, a) <=> ~Localized(a.design)
BY DEF Lacks, Lacking

\* What blocks a category, in the project its rules look at as in the one the
\* readiness findings were made of, is found by one of the rules (run_pre_review).
LEMMA BlockersAreFound ==
    ASSUME NEW p \in Projects, NEW q \in Projects, NEW a, NEW b,
           NEW c \in {"PERFORMANCE", "METADATA", "REVIEW_ACCESS"},
           NEW x \in Blocking(c), x \in Lacks(p, a), x \in Lacks(q, b)
    PROVE  "BLOCKED" \in StatusesOf(ReviewFindings(p, Readiness(q)), c)
<1> DEFINE f == Readiness(q)
           findings == ReviewFindings(p, f)
<1>1. f.technical = Technical(q) /\ f.metadata = Metadata(q) /\ f.reviewability = Reviewability(q)
  BY DEF Readiness
<1>2. /\ findings["PERFORMANCE"] = Performance(p, f) /\ findings["METADATA"] = MetadataRules(p, f)
      /\ findings["REVIEW_ACCESS"] = ReviewAccess(f)
  BY DEF ReviewFindings
<1>3. f.technical["PUBSPEC_VERSION"] = VersionStatus(q)
  BY <1>1 DEF Technical, TechnicalRules, TechnicalStatus
<1> HIDE DEF f
<1>4. "version" \in Lacks(q, b) => VersionStatus(q) = "BLOCKED"
  BY LackingMeans DEF VersionStatus
<1>5. CASE c = "PERFORMANCE"
  <2>1. "PROJECT" \in DOMAIN f.technical /\ f.technical["PROJECT"] = Presence(q.xcode, "BLOCKED")
    BY <1>1 DEF Technical, TechnicalRules, TechnicalStatus
  <2>2. q.pbx => "INFO_PLIST" \in DOMAIN f.technical /\ f.technical["INFO_PLIST"] = Presence(q.info, "BLOCKED")
    BY <1>1 DEF Technical, TechnicalRules, TechnicalStatus
  <2>3. ~q.xcode \/ (q.pbx /\ ~q.info) => ProjectStructure(f) = "BLOCKED"
    <3> DEFINE S == {f.technical[rule] : rule \in StructureRules \cap DOMAIN f.technical}
    <3>1. S \in SUBSET Statuses
      BY <1>1, TechnicalType
    <3>2. S # {}
      BY <2>1 DEF StructureRules
    <3>3. ~q.xcode \/ (q.pbx /\ ~q.info) => "BLOCKED" \in S
      BY <2>1, <2>2 DEF StructureRules, Presence
    <3>4. ProjectStructure(f) = Rollup(S)
      BY DEF ProjectStructure
    <3> HIDE DEF S
    <3>5. QED
      BY <3>1, <3>2, <3>3, <3>4, RollupIsWorst
  <2>4. p.camera /\ p.usage # "right" => PermissionDescriptions(p) = "BLOCKED"
    BY DEF PermissionDescriptions
  <2>5. /\ DOMAIN findings[c] = {"PROJECT_STRUCTURE", "VERSION_BUILD", "PLACEHOLDER_CONFIG",
                                 "PERMISSION_DESCRIPTIONS"}
        /\ findings[c]["PROJECT_STRUCTURE"] = ProjectStructure(f)
        /\ findings[c]["VERSION_BUILD"] = VersionStatus(q)
        /\ findings[c]["PERMISSION_DESCRIPTIONS"] = PermissionDescriptions(p)
    BY <1>2, <1>3, <1>5 DEF Performance
  <2>6. x \in {"project", "version", "info_plist", "right_usage"}
    BY <1>5 DEF Blocking
  <2>7. \/ ProjectStructure(f) = "BLOCKED" \/ VersionStatus(q) = "BLOCKED"
        \/ PermissionDescriptions(p) = "BLOCKED"
    BY <1>4, <2>3, <2>4, <2>6, LackingMeans
  <2> HIDE DEF findings
  <2>8. "BLOCKED" \in StatusesOf(findings, c)
    BY <2>5, <2>7 DEF StatusesOf
  <2>9. QED
    BY <1>5, <2>8 DEF f, findings
<1>6. CASE c = "METADATA"
  <2>1. "real_texts" \in Lacks(p, a) => PlaceholderStrings(p) = "BLOCKED"
    BY LackingMeans DEF PlaceholderStrings
  <2>2. /\ {"VERSION_COHERENT", "PLACEHOLDER_STRINGS"} \subseteq DOMAIN findings[c]
        /\ findings[c]["VERSION_COHERENT"] = VersionStatus(q)
        /\ findings[c]["PLACEHOLDER_STRINGS"] = PlaceholderStrings(p)
    BY <1>2, <1>3, <1>6 DEF MetadataRules
  <2>3. x \in {"version", "real_texts"}
    BY <1>6 DEF Blocking
  <2>4. VersionStatus(q) = "BLOCKED" \/ PlaceholderStrings(p) = "BLOCKED"
    BY <1>4, <2>1, <2>3
  <2> HIDE DEF findings
  <2>5. "BLOCKED" \in StatusesOf(findings, c)
    BY <2>2, <2>4 DEF StatusesOf
  <2>6. QED
    BY <1>6, <2>5 DEF f, findings
<1>7. CASE c = "REVIEW_ACCESS"
  <2>1. "DEMO_CREDENTIALS" \in DOMAIN findings[c] /\ findings[c]["DEMO_CREDENTIALS"] = ReviewInfo(q)
    BY <1>1, <1>2, <1>7 DEF ReviewAccess, Reviewability
  <2>2. x = "review_access"
    BY <1>7 DEF Blocking
  <2>3. ReviewInfo(q) = "BLOCKED"
    BY <2>2, LackingMeans DEF ReviewInfo
  <2> HIDE DEF findings
  <2>4. "BLOCKED" \in StatusesOf(findings, c)
    BY <2>1, <2>3 DEF StatusesOf
  <2>5. QED
    BY <1>7, <2>4 DEF f, findings
<1>8. QED
  BY <1>5, <1>6, <1>7

\* So the category's status is BLOCKED, and so is the gate.
LEMMA BlockersBlock ==
    ASSUME NEW p \in Projects, NEW q \in Projects, NEW a, NEW b,
           NEW c \in {"PERFORMANCE", "METADATA", "REVIEW_ACCESS"},
           NEW x \in Blocking(c), x \in Lacks(p, a), x \in Lacks(q, b)
    PROVE  /\ CategoryStatus(ReviewFindings(p, Readiness(q)))[c] = "BLOCKED"
           /\ PreReviewGate(ReviewFindings(p, Readiness(q))) = "BLOCKED"
<1> DEFINE findings == ReviewFindings(p, Readiness(q))
<1>1. "BLOCKED" \in StatusesOf(findings, c)
  BY BlockersAreFound
<1>2. \A d \in Categories : StatusesOf(findings, d) \subseteq Statuses
  BY FindingsType DEF StatusesOf
<1>3. c \in Categories
  BY DEF Categories
<1> HIDE DEF findings
<1>4. CategoryStatus(findings)[c] = Rollup(StatusesOf(findings, c))
  BY <1>3 DEF CategoryStatus, StatusesOf
<1>5. CategoryStatus(findings)[c] = "BLOCKED"
  BY <1>1, <1>2, <1>3, <1>4, RollupIsWorst
<1>6. "BLOCKED" \in UNION {StatusesOf(findings, d) : d \in Categories}
  BY <1>1, <1>3
<1>7. PreReviewGate(findings) = "BLOCKED"
  BY <1>6 DEF PreReviewGate, StatusesOf, Gate
<1>8. QED
  BY <1>5, <1>7 DEF findings

\* A category passes when all of its rules do.
LEMMA CategoryPasses ==
    ASSUME NEW p \in Projects, NEW q \in Projects, NEW c \in Categories,
           CategoryStatus(ReviewFindings(p, Readiness(q)))[c] = "PASS"
    PROVE  \A rule \in DOMAIN ReviewFindings(p, Readiness(q))[c] :
               ReviewFindings(p, Readiness(q))[c][rule] = "PASS"
<1> DEFINE findings == ReviewFindings(p, Readiness(q))
<1>1. StatusesOf(findings, c) \in SUBSET Statuses
  BY FindingsType DEF StatusesOf
<1> HIDE DEF findings
<1>2. Rollup(StatusesOf(findings, c)) = "PASS"
  BY DEF CategoryStatus, StatusesOf, findings
<1>3. StatusesOf(findings, c) # {}
  BY <1>2 DEF Rollup
<1>4. StatusesOf(findings, c) = {"PASS"}
  BY <1>1, <1>2, <1>3, RollupPasses
<1>5. \A rule \in DOMAIN findings[c] : findings[c][rule] = "PASS"
  BY <1>4 DEF StatusesOf
<1>6. QED
  BY <1>5 DEF findings

\* What passing says, category by category: of what it promises, each thing is
\* there in the project the rule looked at, or in the one the finding it carries
\* over was made of. REVIEW_ACCESS never passes, for the backend is only ever
\* advised on.
LEMMA PassingMeans ==
    ASSUME NEW p \in Projects, NEW q \in Projects, NEW a, NEW b, NEW c \in Categories,
           CategoryStatus(ReviewFindings(p, Readiness(q)))[c] = "PASS"
    PROVE  /\ c # "REVIEW_ACCESS"
           /\ c \in {"PRIVACY", "METADATA"} => Lacks(p, a) \cap Lacks(q, b) \cap Promised[c] = {}
<1> DEFINE f == Readiness(q)
           findings == ReviewFindings(p, f)
<1>1. \A rule \in DOMAIN findings[c] : findings[c][rule] = "PASS"
  BY CategoryPasses
<1>2. f.technical = Technical(q) /\ f.metadata = Metadata(q) /\ f.reviewability = Reviewability(q)
  BY DEF Readiness
<1>3. f.technical["PUBSPEC_VERSION"] = VersionStatus(q)
  BY <1>2 DEF Technical, TechnicalRules, TechnicalStatus
<1> HIDE DEF f
<1>4. /\ findings["METADATA"] = MetadataRules(p, f)
      /\ findings["REVIEW_ACCESS"] = ReviewAccess(f) /\ findings["PRIVACY"] = Privacy(p, f)
  BY DEF ReviewFindings
<1> HIDE DEF findings
<1>5. c # "REVIEW_ACCESS"
  <2> SUFFICES ASSUME c = "REVIEW_ACCESS" PROVE FALSE
    OBVIOUS
  <2>1. findings[c]["BACKEND_DEPENDENCY"] = "ADVISORY" /\ "BACKEND_DEPENDENCY" \in DOMAIN findings[c]
    BY <1>2, <1>4 DEF ReviewAccess, Reviewability
  <2>2. QED
    BY <1>1, <2>1
<1>6. ASSUME c = "PRIVACY" PROVE Lacks(p, a) \cap Lacks(q, b) \cap Promised[c] = {}
  <2>1. /\ "APP_PRIVACY_PUBLICATION" \in DOMAIN findings[c]
        /\ findings[c]["APP_PRIVACY_PUBLICATION"] = Presence(p.published, "UNKNOWN")
        /\ "PERMISSION_USAGE_DESCRIPTIONS" \in DOMAIN findings[c]
        /\ findings[c]["PERMISSION_USAGE_DESCRIPTIONS"] = Permissions(q)
    BY <1>2, <1>4, <1>6 DEF Privacy, Reviewability
  <2>2. Presence(p.published, "UNKNOWN") = "PASS" /\ Permissions(q) = "PASS"
    BY <1>1, <2>1
  <2>3. "publication" \notin Lacks(p, a)
    BY <2>2, LackingMeans DEF Presence
  <2>4. "usage" \notin Lacks(q, b)
    BY <2>2, LackingMeans DEF Permissions
  <2>5. Promised[c] = {"publication", "usage"}
    BY <1>6 DEF Promised
  <2>6. QED
    BY <2>3, <2>4, <2>5
<1>7. ASSUME c = "METADATA" PROVE Lacks(p, a) \cap Lacks(q, b) \cap Promised[c] = {}
  <2>1. /\ DOMAIN findings[c] = {"DISPLAY_NAME", "VERSION_COHERENT", "PRIVACY_URL_CANDIDATE",
                                 "SUPPORT_URL_CANDIDATE", "PLACEHOLDER_STRINGS",
                                 "LOCALIZATION_CONSISTENCY"}
        /\ findings[c]["DISPLAY_NAME"] = Presence(q.display \in {"placeholder", "real"}, "UNKNOWN")
        /\ findings[c]["VERSION_COHERENT"] = VersionStatus(q)
        /\ findings[c]["PRIVACY_URL_CANDIDATE"] = UrlStatus(q, "privacy")
        /\ findings[c]["SUPPORT_URL_CANDIDATE"] = UrlStatus(q, "support")
        /\ findings[c]["PLACEHOLDER_STRINGS"] = PlaceholderStrings(p)
        /\ findings[c]["LOCALIZATION_CONSISTENCY"] = Presence(q.lproj, "ADVISORY")
    BY <1>2, <1>3, <1>4, <1>7 DEF MetadataRules, Metadata
  <2>2. /\ Presence(q.display \in {"placeholder", "real"}, "UNKNOWN") = "PASS"
        /\ VersionStatus(q) = "PASS" /\ PlaceholderStrings(p) = "PASS"
        /\ UrlStatus(q, "privacy") = "PASS" /\ UrlStatus(q, "support") = "PASS"
        /\ Presence(q.lproj, "ADVISORY") = "PASS"
    BY <1>1, <2>1
  <2>3. q.lproj /\ q.display \in {"placeholder", "real"}
    BY <2>2 DEF Presence
  <2>4. p.display # "placeholder" /\ p.description # "placeholder"
    BY <2>2 DEF PlaceholderStrings
  <2>5. /\ q.pubspec \in {"missing", "versionless", "malformed", "valid"}
        /\ q.urls \subseteq {"privacy", "support"}
    BY DEF Projects, Facts
  <2>6. q.pubspec = "valid"
    BY <2>2, <2>5 DEF VersionStatus
  <2>7. \/ "privacy" \in q.urls /\ "support" \in q.urls
        \/ Mentions(q, {}, "privacy_url") \/ Mentions(q, {}, "support_url")
    BY <2>2 DEF UrlStatus
  <2>8. Searched(q, {}) = q.files
    BY DEF Searched
  <2>9. \A subject : Mentions(q, {}, subject) => \E g \in q.files : subject \in q.text[g]
    BY <2>8 DEF Mentions
  <2>10. \/ q.urls = {"privacy", "support"}
         \/ \E g \in q.files : q.text[g] \cap {"privacy_url", "support_url"} # {}
    BY <2>5, <2>7, <2>9
  <2>11. /\ Lacks(q, b) \cap {"valid_version", "name", "localizations", "urls"} = {}
         /\ "real_texts" \notin Lacks(p, a)
    BY <2>3, <2>4, <2>6, <2>10, LackingMeans
  <2>12. Promised[c] = {"valid_version", "name", "real_texts", "localizations", "urls"}
    BY <1>7 DEF Promised
  <2>13. QED
    BY <2>11, <2>12
<1>8. QED
  BY <1>5, <1>6, <1>7

\* What the readiness report says when it has no BLOCKED finding, and when it
\* has no UNKNOWN one either.
LEMMA FoundMeans ==
    ASSUME NEW q \in Projects, NEW b, "BLOCKED" \notin FoundStatuses(Readiness(q))
    PROVE  /\ Lacks(q, b) \cap {"project", "version", "info_plist", "review_access"} = {}
           /\ "UNKNOWN" \notin FoundStatuses(Readiness(q)) =>
                  Lacks(q, b) \cap {"valid_version", "sign_in", "review_info"} = {}
<1> DEFINE f == Readiness(q)
<1>1. /\ DOMAIN f = {"technical", "metadata", "reviewability"}
      /\ f["technical"] = Technical(q) /\ f["reviewability"] = Reviewability(q)
  BY DEF Readiness
<1> HIDE DEF f
<1>2. /\ \A rule \in DOMAIN Technical(q) : Technical(q)[rule] \in FoundStatuses(f)
      /\ \A rule \in DOMAIN Reviewability(q) : Reviewability(q)[rule] \in FoundStatuses(f)
  BY <1>1 DEF FoundStatuses
<1>3. /\ "PROJECT" \in DOMAIN Technical(q) /\ Technical(q)["PROJECT"] = Presence(q.xcode, "BLOCKED")
      /\ "PUBSPEC_VERSION" \in DOMAIN Technical(q)
      /\ Technical(q)["PUBSPEC_VERSION"] = VersionStatus(q)
      /\ q.pbx => /\ "INFO_PLIST" \in DOMAIN Technical(q)
                  /\ Technical(q)["INFO_PLIST"] = Presence(q.info, "BLOCKED")
  BY DEF Technical, TechnicalRules, TechnicalStatus
<1>4. /\ "REVIEW_INFO" \in DOMAIN Reviewability(q) /\ Reviewability(q)["REVIEW_INFO"] = ReviewInfo(q)
      /\ "LOGIN" \in DOMAIN Reviewability(q)
      /\ Reviewability(q)["LOGIN"] = IF SignInSeen(q) THEN "RISK" ELSE "UNKNOWN"
  BY DEF Reviewability
<1>5. /\ Presence(q.xcode, "BLOCKED") # "BLOCKED" /\ VersionStatus(q) # "BLOCKED"
      /\ q.pbx => Presence(q.info, "BLOCKED") # "BLOCKED"
      /\ ReviewInfo(q) # "BLOCKED"
  BY <1>2, <1>3, <1>4 DEF f
<1>6. q.xcode /\ (q.pbx => q.info)
  BY <1>5 DEF Presence
<1>7. q.pubspec \notin {"missing", "versionless"}
  BY <1>5 DEF VersionStatus
<1>8. ~(SignInSeen(q) /\ ~ReviewInfoSeen(q))
  BY <1>5 DEF ReviewInfo
<1>9. Lacks(q, b) \cap {"project", "version", "info_plist", "review_access"} = {}
  BY <1>6, <1>7, <1>8, LackingMeans
<1>10. ASSUME "UNKNOWN" \notin FoundStatuses(Readiness(q))
       PROVE  Lacks(q, b) \cap {"valid_version", "sign_in", "review_info"} = {}
  <2>1. /\ VersionStatus(q) # "UNKNOWN" /\ ReviewInfo(q) # "UNKNOWN"
        /\ (IF SignInSeen(q) THEN "RISK" ELSE "UNKNOWN") # "UNKNOWN"
    BY <1>2, <1>3, <1>4, <1>10 DEF f
  <2>2. q.pubspec \in {"missing", "versionless", "malformed", "valid"}
    BY DEF Projects, Facts
  <2>3. q.pubspec = "valid"
    BY <1>7, <2>1, <2>2 DEF VersionStatus
  <2>4. SignInSeen(q)
    BY <2>1
  <2>5. ReviewInfoSeen(q)
    BY <1>5, <2>1, <2>4 DEF ReviewInfo
  <2>6. QED
    BY <2>3, <2>4, <2>5, LackingMeans
<1>11. QED
  BY <1>9, <1>10

\* The engine of Phase 4 answers BLOCKED for a defect, and otherwise CONDITIONAL.
LEMMA PrivacyAnswers ==
    ASSUME NEW a \in AreaSet, NEW f
    PROVE  /\ PrivacyOf(a, f) # NULL
           /\ PrivacyOf(a, f).gate \in {"BLOCKED", "CONDITIONAL"}
           /\ PrivacyOf(a, f).gate = "BLOCKED" <=> Defective(a.privacy)
<1> DEFINE policy == f.metadata.PRIVACY_POLICY
           result == PrivacyOfSources(a.privacy, policy)
<1>1. IsSources(a.privacy)
  BY LoopAssumption
<1>2. result.gate = "BLOCKED" <=> Defective(a.privacy)
  BY <1>1, BlockedIsDefect
<1>3. result.gate # "PASS"
  BY NeverPasses
<1>4. \A ev, is, con, can : PrivacyGate(ev, is, con, can, policy) \in {"BLOCKED", "CONDITIONAL", "PASS"}
  BY DEF PrivacyGate
<1>5. result.gate \in {"BLOCKED", "CONDITIONAL", "PASS"}
  BY <1>4 DEF PrivacyOfSources, PrivacyResult
<1>6. PrivacyOf(a, f) = [gate |-> result.gate, contradictions |-> result.contradictions # {}]
  BY DEF PrivacyOf
<1> HIDE DEF result
<1>7. (result.contradictions # {}) \in BOOLEAN
  OBVIOUS
<1>8. PrivacyOf(a, f) \in [gate : {"BLOCKED", "CONDITIONAL", "PASS"}, contradictions : BOOLEAN]
  BY <1>5, <1>6, <1>7
<1>9. PrivacyOf(a, f).gate = result.gate
  BY <1>6
<1>10. QED
  BY <1>2, <1>3, <1>5, <1>8, <1>9, AnswersAssumption

\* The engine of Phase 5 answers BLOCKED when there is a defect, and passes
\* when translations are complete and nothing depends on rendering.
LEMMA DesignAnswers ==
    ASSUME NEW a \in AreaSet
    PROVE  /\ DesignOf(a) # NULL
           /\ DesignOf(a).gate \in {"BLOCKED", "CONDITIONAL", "PASS"}
           /\ DesignDefect(a) => DesignOf(a).gate = "BLOCKED"
           /\ DesignOf(a).gate = "PASS" => Finished(a)
           /\ DesignOf(a).localization = "PASS" => Localized(a.design)
<1> DEFINE d == a.design
           m == a.measured
           findings == DesignFindings(d, m)
           result == DesignResult(d, m)
           All == UNION {StatusesIn(findings, area) : area \in DesignAreaNames}
           Local == StatusesIn(findings, "LOCALIZATION")
<1>1. IsFacts(d)
  BY LoopAssumption
<1>2. DesignOf(a) = [gate |-> result.gate, localization |-> result.area["LOCALIZATION"]]
  BY DEF DesignOf
<1>3. /\ result.gate \in {"BLOCKED", "CONDITIONAL", "PASS"}
      /\ result.area \in [DesignAreaNames -> Statuses]
  BY GateOfAreas
<1>4. result.gate = Gate(All) /\ result.area["LOCALIZATION"] = Rollup(Local)
  BY DEF DesignResult, DesignGate, AreaStatus, DesignAreaNames
<1>5. Local \in SUBSET Statuses /\ Local # {}
  BY DesignStatuses DEF DesignAreaNames
<1>6. /\ findings["ACCESSIBILITY"] = [ TOUCH_TARGET_SIZE          |-> TouchTargetSize(d, m),
                                       ICON_BUTTON_SEMANTIC_LABEL |-> IconButtonSemanticLabel(d),
                                       DYNAMIC_TYPE               |-> DynamicType(d) ]
      /\ findings["LAYOUT"] = [ SAFE_AREA            |-> SafeArea(d),
                                HARDCODED_DIMENSIONS |-> HardcodedDimensions(d) ]
      /\ findings["LOCALIZATION"] = [ HARDCODED_STRING     |-> HardcodedString(d),
                                      MISSING_KEY          |-> MissingKey(d),
                                      FIXED_TEXT_CONTAINER |-> FixedTextContainer(d) ]
  BY DEF DesignFindings
<1> HIDE DEF findings, result
<1>7. /\ HardcodedString(d) \in Local /\ MissingKey(d) \in Local /\ FixedTextContainer(d) \in Local
      /\ TouchTargetSize(d, m) \in StatusesIn(findings, "ACCESSIBILITY")
      /\ IconButtonSemanticLabel(d) \in StatusesIn(findings, "ACCESSIBILITY")
      /\ SafeArea(d) \in StatusesIn(findings, "LAYOUT")
  BY <1>6 DEF StatusesIn
<1>8. /\ TouchTargetSize(d, m) \in All /\ IconButtonSemanticLabel(d) \in All
      /\ SafeArea(d) \in All /\ MissingKey(d) \in All
  BY <1>7 DEF DesignAreaNames
<1> HIDE DEF All, Local
<1>9. /\ MissingKey(d) \in {"PASS", "BLOCKED", "UNKNOWN"}
      /\ KeyGap(d) => MissingKey(d) = "BLOCKED"
      /\ MissingKey(d) = "PASS" => Translated(d)
  <2>1. KeyGap(d) => \E p \in DOMAIN d.arbs : d.arbs[p] # AllKeys(d)
    BY DEF KeyGap
  <2>2. KeyGap(d) => \E p, q \in DOMAIN d.arbs : p # q
    BY DEF KeyGap
  <2>3. QED
    BY <2>1, <2>2 DEF MissingKey, Translated
<1>10. DesignDefect(a) => result.gate = "BLOCKED"
  <2>1. Undersized(d, m) # {} => TouchTargetSize(d, m) = "BLOCKED"
    <3>1. Undersized(d, m) # {} => Wrapping(d) # {} /\ d.boxes # {}
      BY DEF Undersized, Wrapping
    <3>2. Undersized(d, m) # {} => AnyInteractive(d)
      BY <1>1, <3>1 DEF AnyInteractive, IsFacts
    <3>3. QED
      BY <3>2 DEF TouchTargetSize
  <2>2. "unexcused" \in d.icons => IconButtonSemanticLabel(d) = "BLOCKED"
    BY DEF IconButtonSemanticLabel
  <2>3. DesignDefect(a) => "BLOCKED" \in All
    BY <1>8, <1>9, <2>1, <2>2 DEF DesignDefect
  <2>4. QED
    BY <1>4, <2>3 DEF Gate
<1>11. ASSUME result.gate = "PASS"
       PROVE  Translated(d) /\ ~RenderingOpen(a)
  <2>1. "BLOCKED" \notin All /\ "UNKNOWN" \notin All
    BY <1>4, <1>11 DEF Gate
  <2>2. Translated(d)
    BY <1>8, <1>9, <2>1
  <2>3. "unexcused" \notin d.scaffolds[IF d.code THEN "code" ELSE "elsewhere"]
    BY <1>8, <2>1 DEF SafeArea
  <2>4. ASSUME AnyInteractive(d), Wrapping(d) = {} \/ \E b \in Wrapping(d) : ~Known(b, m)
        PROVE  FALSE
    <3>1. Wrapping(d) = {} \/ Unresolved(d, m) # {}
      BY <2>4 DEF Unresolved
    <3>2. TouchTargetSize(d, m) \in {"BLOCKED", "UNKNOWN"}
      BY <2>4, <3>1 DEF TouchTargetSize
    <3>3. QED
      BY <1>8, <2>1, <3>2
  <2>5. QED
    BY <2>2, <2>3, <2>4 DEF RenderingOpen
<1>12. ASSUME result.area["LOCALIZATION"] = "PASS"
       PROVE  /\ Translated(d) /\ ~d.strings
              /\ ~\E b \in d.boxes : b.text /\ b.width # <<>> /\ Head(b.width).value <= 150
  <2>1. Local = {"PASS"}
    BY <1>4, <1>5, <1>12, RollupPasses
  <2>2. HardcodedString(d) = "PASS" /\ MissingKey(d) = "PASS" /\ FixedTextContainer(d) = "PASS"
    BY <1>7, <2>1
  <2>3. ~d.strings
    BY <2>2 DEF HardcodedString, RiskIf
  <2>4. ~\E b \in d.boxes : b.text /\ b.width # <<>> /\ Head(b.width).value <= 150
    BY <2>2 DEF FixedTextContainer, RiskIf, FixedContainerMaxWidth
  <2>5. QED
    BY <1>9, <2>2, <2>3, <2>4
<1>13. DesignOf(a) \in [gate : {"BLOCKED", "CONDITIONAL", "PASS"}, localization : Statuses]
  <2>1. result.area["LOCALIZATION"] \in Statuses
    BY <1>3 DEF DesignAreaNames
  <2>2. QED
    BY <1>2, <1>3, <2>1
<1>14. DesignOf(a) # NULL
  BY <1>13, AnswersAssumption
<1>15. DesignOf(a).gate = result.gate /\ DesignOf(a).localization = result.area["LOCALIZATION"]
  BY <1>2
<1>16. QED
  BY <1>3, <1>10, <1>11, <1>12, <1>14, <1>15 DEF Finished, Localized

-----------------------------------------------------------------------------
(* From the engines' answers to the verdict and the claims *)

\* The result of a cause is that of its root cause (verify_root_causes).
LEMMA ResultOf ==
    ASSUME NEW r, NEW e, NEW attested, NEW c \in RootCauses(MapRejection(r), e)
    PROVE  LET results == VerifyRootCauses(RootCauses(MapRejection(r), e), e, attested)
           IN /\ c.id \in DOMAIN results
              /\ results[c.id] = VerifyRootCause(c, e, attested)
<1> DEFINE mappings == MapRejection(r)
           causes == RootCauses(mappings, e)
<1>1. \A d \in causes : d = RootCause(mappings, e, d.id)
  BY DEF RootCauses, RootCause
<1> HIDE DEF causes, mappings
<1>2. (CHOOSE d \in causes : d.id = c.id) = c
  BY <1>1 DEF causes, mappings
<1>3. QED
  BY <1>2 DEF VerifyRootCauses, causes, mappings

\* A YES leaves no engine's BLOCKED that nobody vouched for.
LEMMA BlockedIsBacked ==
    ASSUME NEW r, NEW e, NEW attested, Candidacy(r, e, attested) = "YES"
    PROVE  /\ \A c \in {"PERFORMANCE", "METADATA", "REVIEW_ACCESS"} :
                  e.review[c] = "BLOCKED" => c \in attested
           /\ e.privacy # NULL /\ e.privacy.gate = "BLOCKED" => "PRIVACY" \in attested
           /\ e.design # NULL /\ e.design.gate = "BLOCKED" => "DESIGN_HIG" \in attested
<1> DEFINE causes == RootCauses(MapRejection(r), e)
           results == VerifyRootCauses(causes, e, attested)
<1>1. ~Refused(causes, results, e)
  <2>1. Candidacy(r, e, attested) = ResubmitCandidate(causes, results, DraftReply(r, causes, results), e)
    BY DEF Candidacy
  <2>2. QED
    BY <2>1 DEF ResubmitCandidate
<1>2. DOMAIN results = {c.id : c \in causes}
  BY ResultsType
<1>3. \A c \in causes : results[c.id] = VerifyRootCause(c, e, attested)
  BY ResultOf
<1> HIDE DEF causes, results
<1>4. ~HasOrphanedBlocker(DOMAIN results, e)
  BY <1>1 DEF Refused
<1>5. ASSUME NEW c, c \notin {"PAYMENTS_IAP", "LEGAL_POLICY"}, c \in DOMAIN results,
             Recheck(e, c) = "BLOCKED"
      PROVE  c \in attested
  <2>1. PICK cause \in causes : cause.id = c
    BY <1>2, <1>5
  <2>2. results[c].reason # "still_blocked"
    BY <1>1, <1>5 DEF Refused
  <2>3. c \notin attested => VerifyRootCause(cause, e, attested) = Result("UNVERIFIED", "still_blocked")
    BY <1>5, <2>1, AnswersAssumption DEF VerifyRootCause
  <2>4. Result("UNVERIFIED", "still_blocked").reason = "still_blocked"
    BY DEF Result
  <2>5. QED
    BY <1>3, <2>1, <2>2, <2>3, <2>4
<1>6. ASSUME NEW c \in {"PERFORMANCE", "METADATA", "REVIEW_ACCESS"}, e.review[c] = "BLOCKED"
      PROVE  c \in attested
  <2>1. c \in DOMAIN results
    BY <1>4, <1>6 DEF HasOrphanedBlocker
  <2>2. Recheck(e, c) = "BLOCKED"
    BY <1>6 DEF Recheck, Normalize
  <2>3. QED
    BY <1>5, <1>6, <2>1, <2>2
<1>7. ASSUME e.privacy # NULL, e.privacy.gate = "BLOCKED"
      PROVE  "PRIVACY" \in attested
  <2>1. "PRIVACY" \in DOMAIN results
    BY <1>4, <1>7 DEF HasOrphanedBlocker
  <2>2. Recheck(e, "PRIVACY") = "BLOCKED"
    BY <1>7 DEF Recheck, Normalize
  <2>3. QED
    BY <1>5, <2>1, <2>2
<1>8. ASSUME e.design # NULL, e.design.gate = "BLOCKED"
      PROVE  "DESIGN_HIG" \in attested
  <2>1. "DESIGN_HIG" \in DOMAIN results
    BY <1>4, <1>8 DEF HasOrphanedBlocker
  <2>2. Recheck(e, "DESIGN_HIG") = "BLOCKED"
    BY <1>8 DEF Recheck, Normalize
  <2>3. QED
    BY <1>5, <2>1, <2>2
<1>9. QED
  BY <1>6, <1>7, <1>8

\* Nothing is VERIFIED but by a recheck that passed.
LEMMA VerifiedIsRechecked ==
    ASSUME NEW cause, NEW e, NEW attested,
           VerifyRootCause(cause, e, attested).status = "VERIFIED"
    PROVE  cause.id \notin attested /\ Recheck(e, cause.id) = "PASS"
<1>1. \A reason : Result("USER_ATTESTED", reason).status # "VERIFIED"
                  /\ Result("FORBIDDEN_TO_CLAIM", reason).status # "VERIFIED"
                  /\ Result("UNVERIFIED", reason).status # "VERIFIED"
  BY DEF Result
<1>2. Recheck(e, cause.id) \in {"PASS", "BLOCKED", NULL}
  BY RecheckType
<1>3. CASE cause.id \in attested \/ cause.id \in {"PAYMENTS_IAP", "LEGAL_POLICY"}
  BY <1>1, <1>3 DEF VerifyRootCause
<1>4. CASE cause.id \notin attested /\ cause.id \notin {"PAYMENTS_IAP", "LEGAL_POLICY"}
  <2>1. CASE Recheck(e, cause.id) = "BLOCKED"
    BY <1>1, <1>4, <2>1, AnswersAssumption DEF VerifyRootCause
  <2>2. CASE Recheck(e, cause.id) = NULL
    BY <1>1, <1>4, <2>2, AnswersAssumption DEF VerifyRootCause
  <2>3. QED
    BY <1>2, <1>4, <2>1, <2>2
<1>5. QED
  BY <1>3, <1>4

\* No guideline and no signal is mapped to PERFORMANCE alone, so no cause is.
LEMMA NoPerformanceCause ==
    ASSUME NEW r \in RejectionSet, NEW e, NEW c \in RootCauses(MapRejection(r), e)
    PROVE  c.id # "PERFORMANCE"
<1>1. r.guidelines \subseteq {"g2_1", "g2_3", "g5_1_1", "g4_0"}
  BY LoopAssumption DEF Rejections, Guidelines, GuidelineCategories
<1>2. ASSUME NEW g \in r.guidelines
      PROVE  MapGuideline(g).category # "PERFORMANCE"
  <2>1. GuidelineCategories[g] # {"PERFORMANCE"}
    BY <1>1 DEF GuidelineCategories
  <2>2. CASE \E d \in CauseIds : GuidelineCategories[g] = {d}
    <3> DEFINE chosen == CHOOSE d \in CauseIds : GuidelineCategories[g] = {d}
    <3>1. GuidelineCategories[g] = {chosen}
      BY <2>2
    <3>2. MapGuideline(g).category = chosen
      BY <2>2 DEF MapGuideline
    <3> HIDE DEF chosen
    <3>3. QED
      BY <2>1, <3>1, <3>2
  <2>3. CASE ~\E d \in CauseIds : GuidelineCategories[g] = {d}
    BY <2>3 DEF MapGuideline
  <2>4. QED
    BY <2>2, <2>3
<1>3. \A s \in DOMAIN SignalCategory : MapSignal(s).category # "PERFORMANCE"
  BY DEF MapSignal, SignalCategory
<1>4. Unmapped.category # "PERFORMANCE"
  BY DEF Unmapped
<1>5. \A m \in MapRejection(r) : m.category # "PERFORMANCE"
  BY <1>2, <1>3, <1>4 DEF MapRejection
<1>6. "PERFORMANCE" \notin CauseCategories(MapRejection(r))
  BY <1>5 DEF CauseCategories, Considered
<1>7. \E d \in CauseCategories(MapRejection(r)) : c.id = d
  BY DEF RootCauses, RootCause
<1>8. QED
  BY <1>6, <1>7

\* One attestation more than a YES rests on, for a cause that was VERIFIED,
\* takes the YES back when that cause was CONTRADICTED, and only then.
LEMMA OneAttestationMore ==
    ASSUME NEW r, NEW e, NEW attested, Candidacy(r, e, attested) = "YES",
           NEW c \in RootCauses(MapRejection(r), e)
    PROVE  LET results == VerifyRootCauses(RootCauses(MapRejection(r), e), e, attested)
               more == {id \in DOMAIN results : results[id].status = "USER_ATTESTED"} \cup {c.id}
           IN results[c.id].status = "VERIFIED" =>
                  (Candidacy(r, e, more) # "YES" <=> c.status = "CONTRADICTED")
<1> DEFINE causes == RootCauses(MapRejection(r), e)
           results == VerifyRootCauses(causes, e, attested)
           more == {id \in DOMAIN results : results[id].status = "USER_ATTESTED"} \cup {c.id}
           after == VerifyRootCauses(causes, e, more)
           draft == DraftReply(r, causes, after)
<1> SUFFICES ASSUME results[c.id].status = "VERIFIED"
             PROVE  Candidacy(r, e, more) # "YES" <=> c.status = "CONTRADICTED"
  OBVIOUS
<1>1. DOMAIN results = {d.id : d \in causes} /\ DOMAIN after = {d.id : d \in causes}
  BY ResultsType
<1>2. \A d \in causes : /\ results[d.id] = VerifyRootCause(d, e, attested)
                        /\ after[d.id] = VerifyRootCause(d, e, more)
  BY ResultOf
<1>3. \A d \in causes : d = RootCause(MapRejection(r), e, d.id)
  BY DEF RootCauses, RootCause
<1>4. \A id \in DOMAIN results : results[id].status \in Resolved
  BY Verdicts
<1>5. \A d \in causes : d.status = "CONTRADICTED" => results[d.id].status = "VERIFIED"
  BY Verdicts
<1>6. ~Refused(causes, results, e)
  <2>1. Candidacy(r, e, attested) = ResubmitCandidate(causes, results, DraftReply(r, causes, results), e)
    BY DEF Candidacy
  <2>2. QED
    BY <2>1 DEF ResubmitCandidate
<1>7. Candidacy(r, e, more) = ResubmitCandidate(causes, after, draft, e)
  BY DEF Candidacy
<1>8. draft.ready <=> \A id \in DOMAIN after : after[id].status \in Resolved
  BY DraftReady
<1> HIDE DEF causes, results, after, draft
<1>9. \A id \in more : \A d : d.id = id => VerifyRootCause(d, e, more) = Result("USER_ATTESTED", NULL)
  BY DEF VerifyRootCause
<1>10. ASSUME NEW d \in causes
       PROVE  /\ d.id \in more => after[d.id] = Result("USER_ATTESTED", NULL)
              /\ d.id \notin more => results[d.id].status = "VERIFIED" /\ after[d.id] = Result("VERIFIED", NULL)
  <2>1. CASE d.id \in more
    BY <1>2, <1>9, <2>1
  <2>2. CASE d.id \notin more
    <3>1. results[d.id].status = "VERIFIED"
      BY <1>1, <1>4, <2>2 DEF Resolved
    <3>2. VerifyRootCause(d, e, attested).status = "VERIFIED"
      BY <1>2, <3>1
    <3>3. d.id \notin attested /\ Recheck(e, d.id) = "PASS"
      BY <3>2, VerifiedIsRechecked
    <3>4. d.id \notin {"PAYMENTS_IAP", "LEGAL_POLICY"}
      BY <3>2, <3>3 DEF VerifyRootCause, Result
    <3>5. VerifyRootCause(d, e, more) = Result("VERIFIED", NULL)
      BY <2>2, <3>3, <3>4, AnswersAssumption DEF VerifyRootCause
    <3>6. QED
      BY <1>2, <2>2, <3>1, <3>5
  <2>3. QED
    BY <2>1, <2>2
<1>11. \A status : Result(status, NULL).status = status /\ Result(status, NULL).reason = NULL
  BY DEF Result
<1>12. \A id \in DOMAIN after : after[id].status \in Resolved /\ after[id].reason = NULL
  BY <1>1, <1>10, <1>11 DEF Resolved
<1>13. ContradictionOpen(causes, after) <=> c.status = "CONTRADICTED"
  <2>1. c \in causes /\ c.id \in more
    BY DEF causes
  <2>2. after[c.id].status = "USER_ATTESTED"
    BY <1>10, <1>11, <2>1
  <2>3. c.status = "CONTRADICTED" => ContradictionOpen(causes, after)
    BY <2>1, <2>2 DEF ContradictionOpen
  <2>4. ASSUME NEW d \in causes, d.status = "CONTRADICTED", after[d.id].status # "VERIFIED"
        PROVE  c.status = "CONTRADICTED"
    <3>1. d.id \in more
      BY <1>10, <1>11, <2>4
    <3>2. results[d.id].status = "VERIFIED"
      BY <1>5, <2>4
    <3>3. d.id = c.id
      BY <3>1, <3>2
    <3>4. d = c
      BY <1>3, <2>1, <3>3
    <3>5. QED
      BY <2>4, <3>4
  <2>5. QED
    BY <2>3, <2>4 DEF ContradictionOpen
<1>14. Refused(causes, after, e) <=> c.status = "CONTRADICTED"
  <2>1. ~HasOrphanedBlocker(DOMAIN after, e)
    BY <1>1, <1>6 DEF Refused
  <2>2. \A id \in DOMAIN after : after[id].status # "FORBIDDEN_TO_CLAIM" /\ after[id].reason # "still_blocked"
    BY <1>12, NullAssumption DEF Resolved
  <2>3. QED
    BY <1>13, <2>1, <2>2 DEF Refused
<1>15. ~Pending(after)
  <2>1. NULL \notin {"requires_runtime", "requires_user_confirmation", "asc_only"}
    BY NullAssumption DEF ConditionalReasons
  <2>2. QED
    BY <1>12, <2>1 DEF Pending
<1>16. draft.ready
  BY <1>8, <1>12
<1>17. Candidacy(r, e, more) = "YES" <=> ~Refused(causes, after, e)
  BY <1>7, <1>15, <1>16 DEF ResubmitCandidate
<1>18. QED
  BY <1>14, <1>17

-----------------------------------------------------------------------------
(* What a run has read *)

\* A version of the app there was during the run: what has been lacking ever
\* since the run started, it lacks.
Seen(p, a) == p \in Projects /\ a \in AreaSet /\ lacking \subseteq Lacks(p, a)

\* The readiness report, the engines' answers and what recovery decides on are each
\* made of one such version, and not all of them of the same.
ReadinessSeen == \E p, a : Seen(p, a) /\ readiness = Readiness(p)

PreReviewSeen ==
    "pre_review" \in flags =>
        \E p, a : Seen(p, a) /\ shown.review = PreReviewGate(ReviewFindings(p, readiness))

AreasSeen ==
    \E p, a :
        /\ Seen(p, a)
        /\ shown.privacy = IF "privacy" \in flags THEN PrivacyOf(a, readiness) ELSE NULL
        /\ shown.design = IF "design" \in flags THEN DesignOf(a) ELSE NULL

EnginesSeen ==
    \E p, a :
        /\ Seen(p, a)
        /\ engines = [ review  |-> CategoryStatus(ReviewFindings(p, readiness)),
                       privacy |-> shown.privacy,
                       design  |-> shown.design ]

\* GatesShown, of any such record.
GatesOf(sh) ==
    {g \in {sh.review} : sh.review # NULL}
    \cup {sh[engine].gate : engine \in {x \in {"privacy", "design"} : sh[x] # NULL}}

\* A run that has come to one of these stages, or to its end.
Past(stages) == pc \in stages \/ report # NULL \/ exit # NULL

\* The inductive invariant: a run under way has reported nothing yet, what it has
\* read so far it read of versions there were, a report is one of what was parsed
\* and of the engines asked, and the exit code is one of the findings shown.
RunInv ==
    /\ Seen(proj, areas) /\ rejection \in RejectionSet
    /\ pc \in {"idle", "pre_review", "areas", "review", "recover"}
    /\ shown = [review |-> shown.review, privacy |-> shown.privacy, design |-> shown.design]
    /\ pc # "idle" => report = NULL /\ exit = NULL
    /\ Past({"pre_review", "areas", "review", "recover"}) => ReadinessSeen
    /\ Past({"areas", "review", "recover"}) => PreReviewSeen
    /\ Past({"review", "recover"}) => AreasSeen
    /\ Past({"recover"}) => EnginesSeen /\ parsed \in RejectionSet
    /\ report # NULL =>
           \E given, audit : report = RecoveryReport(parsed, engines, given, audit)
    /\ exit # NULL => exit = ExitCode(readiness, GatesOf(shown), "strict" \in flags)

\* A version seen stays one, for less and less has been lacking throughout.
LEMMA StillSeen ==
    ASSUME lacking' \subseteq lacking, flags' = flags, readiness' = readiness
    PROVE  /\ \A p, a : Seen(p, a) => Seen(p, a)'
           /\ ReadinessSeen => ReadinessSeen'
           /\ shown'.review = shown.review /\ PreReviewSeen => PreReviewSeen'
           /\ shown'.privacy = shown.privacy /\ shown'.design = shown.design =>
                  /\ AreasSeen => AreasSeen'
                  /\ engines' = engines /\ EnginesSeen => EnginesSeen'
<1>1. \A p, a : Seen(p, a) => Seen(p, a)'
  BY DEF Seen
<1>2. ReadinessSeen => ReadinessSeen'
  BY <1>1 DEF ReadinessSeen
<1>3. shown'.review = shown.review /\ PreReviewSeen => PreReviewSeen'
  BY <1>1 DEF PreReviewSeen
<1>4. shown'.privacy = shown.privacy /\ shown'.design = shown.design /\ AreasSeen => AreasSeen'
  BY <1>1 DEF AreasSeen
<1>5. shown'.privacy = shown.privacy /\ shown'.design = shown.design
      /\ engines' = engines /\ EnginesSeen => EnginesSeen'
  BY <1>1 DEF EnginesSeen
<1>6. QED
  BY <1>1, <1>2, <1>3, <1>4, <1>5

\* The run's own steps read of the version there is.
LEMMA RunStepsKeep ==
    ASSUME RunInv, ShowPreReview \/ RunAreas \/ Review \/ Recover
    PROVE  RunInv'
<1>1. UNCHANGED <<proj, areas, rejection, flags, readiness, lacking>>
  BY DEF ShowPreReview, RunAreas, Review, Recover, inputs
<1>2. Seen(proj, areas) /\ Seen(proj, areas)'
  BY <1>1 DEF RunInv, Seen
<1>3. pc # "idle" /\ report = NULL /\ exit = NULL /\ ReadinessSeen
  BY DEF ShowPreReview, RunAreas, Review, Recover, RunInv, Past
<1>4. ReadinessSeen'
  BY <1>1, <1>3, StillSeen
<1>5. CASE ShowPreReview
  <2>1. pc = "pre_review" /\ pc' = "areas" /\ UNCHANGED <<engines, parsed, report, exit>>
    BY <1>5 DEF ShowPreReview
  <2>2. /\ shown' = [review |-> shown'.review, privacy |-> shown'.privacy, design |-> shown'.design]
        /\ "pre_review" \in flags => shown'.review = PreReviewGate(ReviewFindings(proj, readiness))
    BY <1>5 DEF ShowPreReview, RunInv
  <2>3. PreReviewSeen'
    BY <1>1, <1>2, <2>2 DEF PreReviewSeen
  <2>4. QED
    BY <1>1, <1>2, <1>3, <1>4, <2>1, <2>2, <2>3 DEF RunInv, Past
<1>6. CASE RunAreas
  <2>1. pc = "areas" /\ pc' = "review" /\ UNCHANGED <<engines, parsed, report, exit>>
    BY <1>6 DEF RunAreas
  <2>2. shown' = [ review  |-> shown.review,
                   privacy |-> IF "privacy" \in flags THEN PrivacyOf(areas, readiness) ELSE NULL,
                   design  |-> IF "design" \in flags THEN DesignOf(areas) ELSE NULL ]
    BY <1>6 DEF RunAreas, RunInv
  <2>3. PreReviewSeen'
    BY <1>1, <2>1, <2>2, StillSeen DEF RunInv, Past
  <2>4. AreasSeen'
    BY <1>1, <1>2, <2>2 DEF AreasSeen
  <2>5. QED
    BY <1>1, <1>2, <1>3, <1>4, <2>1, <2>2, <2>3, <2>4 DEF RunInv, Past
<1>7. CASE Review
  <2>1. pc = "review" /\ pc' = "recover" /\ UNCHANGED <<shown, report, exit>>
    BY <1>7 DEF Review
  <2>2. /\ parsed' = rejection
        /\ engines' = [ review  |-> CategoryStatus(ReviewFindings(proj, readiness)),
                        privacy |-> shown.privacy, design |-> shown.design ]
    BY <1>7 DEF Review
  <2>3. PreReviewSeen' /\ AreasSeen'
    BY <1>1, <2>1, StillSeen DEF RunInv, Past
  <2>4. EnginesSeen'
    BY <1>1, <1>2, <2>1, <2>2 DEF EnginesSeen
  <2>5. QED
    BY <1>1, <1>2, <1>3, <1>4, <2>1, <2>2, <2>3, <2>4 DEF RunInv, Past
<1>8. CASE Recover
  <2>1. pc = "recover" /\ pc' = "idle" /\ UNCHANGED <<shown, engines, parsed>>
    BY <1>8 DEF Recover
  <2>2. /\ report' = RecoveryReport(parsed, engines, Attested(parsed), Audit)
        /\ exit' = ExitCode(readiness, GatesOf(shown), "strict" \in flags)
    BY <1>8 DEF Recover, GatesShown, GatesOf
  <2>3. PreReviewSeen' /\ AreasSeen' /\ EnginesSeen'
    BY <1>1, <2>1, StillSeen DEF RunInv, Past
  <2>4. \E given, audit : report' = RecoveryReport(parsed', engines', given, audit)
    BY <2>1, <2>2
  <2>5. QED
    BY <1>1, <1>2, <1>4, <2>1, <2>2, <2>3, <2>4 DEF RunInv, Past
<1>9. QED
  BY <1>5, <1>6, <1>7, <1>8

\* So it holds throughout, whatever the person does in between.
LEMMA RunInvHolds == Spec => []RunInv
<1>1. Init => RunInv
  BY LoopAssumption DEF Init, Nothing, RunInv, Seen, Past
<1>2. ASSUME RunInv, [Next]_vars
      PROVE  RunInv'
  <2>1. ASSUME UNCHANGED run, lacking' \subseteq lacking, Seen(proj, areas)',
               rejection' \in RejectionSet
        PROVE  RunInv'
    <3>1. UNCHANGED <<pc, flags, readiness, shown, engines, parsed, report, exit>>
      BY <2>1 DEF run
    <3>2. /\ ReadinessSeen => ReadinessSeen'
          /\ PreReviewSeen => PreReviewSeen'
          /\ AreasSeen => AreasSeen'
          /\ EnginesSeen => EnginesSeen'
      BY <2>1, <3>1, StillSeen
    <3>3. \A stages : Past(stages)' = Past(stages)
      BY <3>1 DEF Past
    <3>4. QED
      BY <1>2, <2>1, <3>1, <3>2, <3>3 DEF RunInv
  <2>2. CASE UNCHANGED vars
    <3>1. UNCHANGED <<run, proj, areas, rejection, lacking>>
      BY <2>2 DEF vars, inputs
    <3>2. QED
      BY <1>2, <2>1, <3>1 DEF RunInv, Seen
  <2>3. ASSUME NEW fs \in FlagSet, Start(fs)
        PROVE  RunInv'
    <3>1. /\ pc' = "pre_review" /\ shown' = Nothing /\ report' = NULL /\ exit' = NULL
          /\ readiness' = Readiness(proj) /\ lacking' = Lacks(proj, areas)
          /\ UNCHANGED <<proj, areas, rejection>>
      BY <2>3 DEF Start, inputs
    <3>2. Seen(proj, areas)' /\ ReadinessSeen'
      BY <1>2, <3>1 DEF RunInv, Seen, ReadinessSeen
    <3>3. Nothing = [review |-> Nothing.review, privacy |-> Nothing.privacy, design |-> Nothing.design]
      BY DEF Nothing
    <3>4. QED
      BY <1>2, <3>1, <3>2, <3>3 DEF RunInv, Past
  <2>4. CASE ShowPreReview \/ RunAreas \/ Review \/ Recover
    BY <1>2, <2>4, RunStepsKeep
  <2>5. CASE Interrupt
    <3>1. /\ pc' = "idle" /\ shown' = Nothing /\ report' = NULL /\ exit' = NULL
          /\ lacking' = {} /\ UNCHANGED <<proj, areas, rejection>>
      BY <1>2, <2>5 DEF Interrupt, inputs, RunInv
    <3>2. Nothing = [review |-> Nothing.review, privacy |-> Nothing.privacy, design |-> Nothing.design]
      BY DEF Nothing
    <3>3. QED
      BY <1>2, <3>1, <3>2 DEF RunInv, Seen, Past
  <2>6. CASE EditProject
    <3>1. /\ UNCHANGED <<run, rejection>> /\ lacking' = lacking \cap Lacks(proj', areas')
          /\ proj' \in ProjectSet /\ areas' \in AreaSet
      BY <2>6 DEF EditProject, Change
    <3>2. Seen(proj, areas)'
      BY <3>1, LoopAssumption DEF Seen
    <3>3. QED
      BY <1>2, <2>1, <3>1, <3>2 DEF RunInv
  <2>7. CASE EditAttestations \/ NewRejection
    <3>1. UNCHANGED <<run, proj, areas, lacking>> /\ rejection' \in RejectionSet
      BY <1>2, <2>7 DEF EditAttestations, NewRejection, Change, RunInv
    <3>2. Seen(proj, areas)'
      BY <1>2, <3>1 DEF RunInv, Seen
    <3>3. QED
      BY <2>1, <3>1, <3>2
  <2>8. QED
    BY <1>2, <2>2, <2>3, <2>4, <2>5, <2>6, <2>7 DEF Next
<1>3. QED
  BY <1>1, <1>2, PTL DEF Spec

-----------------------------------------------------------------------------
(* The properties *)

\* What blocked a category throughout, the engine of that category answered
\* BLOCKED to, although one answer may be made of two versions.
LEMMA BlockersAnswered ==
    ASSUME ReadinessSeen, AreasSeen, EnginesSeen, NEW c \in Asked(flags),
           lacking \cap Blocking(c) # {}
    PROVE  /\ c \in {"PERFORMANCE", "METADATA", "REVIEW_ACCESS"} => engines.review[c] = "BLOCKED"
           /\ c = "PRIVACY" => engines.privacy # NULL /\ engines.privacy.gate = "BLOCKED"
           /\ c = "DESIGN_HIG" => engines.design # NULL /\ engines.design.gate = "BLOCKED"
<1>1. PICK x \in Blocking(c) : x \in lacking
  OBVIOUS
<1>2. PICK q, b : Seen(q, b) /\ readiness = Readiness(q)
  BY DEF ReadinessSeen
<1>3. PICK p, a : /\ Seen(p, a)
                  /\ engines = [ review  |-> CategoryStatus(ReviewFindings(p, readiness)),
                                 privacy |-> shown.privacy,
                                 design  |-> shown.design ]
  BY DEF EnginesSeen
<1>4. PICK o, d :
          /\ Seen(o, d)
          /\ shown.privacy = IF "privacy" \in flags THEN PrivacyOf(d, readiness) ELSE NULL
          /\ shown.design = IF "design" \in flags THEN DesignOf(d) ELSE NULL
  BY DEF AreasSeen
<1>5. x \in Lacks(q, b) /\ x \in Lacks(p, a) /\ x \in Lacks(o, d)
  BY <1>1, <1>2, <1>3, <1>4 DEF Seen
<1>6. CASE c \in {"PERFORMANCE", "METADATA", "REVIEW_ACCESS"}
  <2>1. CategoryStatus(ReviewFindings(p, Readiness(q)))[c] = "BLOCKED"
    BY <1>1, <1>2, <1>3, <1>5, <1>6, BlockersBlock DEF Seen
  <2>2. QED
    BY <1>2, <1>3, <1>6, <2>1
<1>7. CASE c = "PRIVACY"
  <2>1. "privacy" \in flags /\ x = "declarations"
    BY <1>1, <1>7 DEF Asked, Blocking
  <2>2. Defective(d.privacy)
    BY <1>5, <2>1, LackingMeans
  <2>3. engines.privacy = PrivacyOf(d, readiness) /\ d \in AreaSet
    BY <1>3, <1>4, <2>1 DEF Seen
  <2>4. QED
    BY <1>7, <2>2, <2>3, PrivacyAnswers
<1>8. CASE c = "DESIGN_HIG"
  <2>1. "design" \in flags /\ x = "sound_design"
    BY <1>1, <1>8 DEF Asked, Blocking
  <2>2. DesignDefect(d)
    BY <1>5, <2>1, LackingMeans
  <2>3. engines.design = DesignOf(d) /\ d \in AreaSet
    BY <1>3, <1>4, <2>1 DEF Seen
  <2>4. QED
    BY <1>8, <2>2, <2>3, DesignAnswers
<1>9. QED
  BY <1>6, <1>7, <1>8

\* Whatever is edited during the run, a YES of recovery rests on a person's word
\* for every category with a blocker that was there throughout, in the project,
\* in the privacy declarations or in the design.
THEOREM YesIsAlwaysBacked == Spec => YesIsBacked
<1> DEFINE Backed ==
        report = NULL /\ report' # NULL /\ report'.candidate = "YES" =>
            \A c \in Asked(flags) : lacking \cap Blocking(c) # {} => c \in Attested(parsed)
<1>1. ASSUME RunInv, [Next]_vars
      PROVE  Backed
  <2> SUFFICES ASSUME report = NULL, report' # NULL, report'.candidate = "YES",
                      NEW c \in Asked(flags), lacking \cap Blocking(c) # {}
               PROVE  c \in Attested(parsed)
    OBVIOUS
  <2>1. Recover
    BY <1>1 DEF Next, Start, ShowPreReview, RunAreas, Review, Interrupt, EditProject,
                EditAttestations, NewRejection, Change, run, vars
  <2>2. ReadinessSeen /\ AreasSeen /\ EnginesSeen
    BY <1>1, <2>1 DEF Recover, RunInv, Past
  <2>3. Candidacy(parsed, engines, Attested(parsed)) = "YES"
    BY <2>1 DEF Recover, RecoveryReport
  <2>4. /\ c \in {"PERFORMANCE", "METADATA", "REVIEW_ACCESS"} => engines.review[c] = "BLOCKED"
        /\ c = "PRIVACY" => engines.privacy # NULL /\ engines.privacy.gate = "BLOCKED"
        /\ c = "DESIGN_HIG" => engines.design # NULL /\ engines.design.gate = "BLOCKED"
    BY <2>2, BlockersAnswered
  <2>5. c \in {"PERFORMANCE", "METADATA", "REVIEW_ACCESS", "PRIVACY", "DESIGN_HIG"}
    BY DEF Asked
  <2>6. QED
    BY <2>3, <2>4, <2>5, BlockedIsBacked
<1>2. QED
  BY <1>1, RunInvHolds, PTL DEF Spec, YesIsBacked

\* What the reply to Apple claims as VERIFIED promises nothing that was lacking
\* throughout the run, whatever was edited meanwhile.
THEOREM VerifiedIsAlwaysTrue == Spec => []VerifiedIsTrue
<1>1. RunInv => VerifiedIsTrue
  <2> SUFFICES ASSUME RunInv, report # NULL, NEW id \in DOMAIN report.verification,
                      report.verification[id].status = "VERIFIED"
               PROVE  id \in Provable(flags) /\ lacking \cap Promised[id] = {}
    BY DEF VerifiedIsTrue
  <2>1. PICK given, audit : report = RecoveryReport(parsed, engines, given, audit)
    BY DEF RunInv
  <2> DEFINE causes == RootCauses(MapRejection(parsed), engines)
             results == VerifyRootCauses(causes, engines, given)
  <2>2. report.verification = results
    BY <2>1 DEF RecoveryReport
  <2>3. DOMAIN results = {c.id : c \in causes}
    BY ResultsType
  <2>4. PICK c \in causes : c.id = id
    BY <2>2, <2>3
  <2>5. results[id] = VerifyRootCause(c, engines, given)
    BY <2>4, ResultOf
  <2>6. Recheck(engines, id) = "PASS"
    BY <2>2, <2>4, <2>5, VerifiedIsRechecked
  <2>7. id # "PERFORMANCE"
    BY <2>4, NoPerformanceCause DEF RunInv, Past
  <2> HIDE DEF causes, results
  <2>8. \A status : Normalize(status) = "PASS" => status = "PASS"
    BY AnswersAssumption DEF Normalize
  <2>9. PICK q, b : Seen(q, b) /\ readiness = Readiness(q)
    BY DEF RunInv, Past, ReadinessSeen
  <2>10. PICK p, a : /\ Seen(p, a)
                     /\ engines = [ review  |-> CategoryStatus(ReviewFindings(p, readiness)),
                                    privacy |-> shown.privacy,
                                    design  |-> shown.design ]
    BY DEF RunInv, Past, EnginesSeen
  <2>11. PICK o, d :
             /\ Seen(o, d)
             /\ shown.privacy = IF "privacy" \in flags THEN PrivacyOf(d, readiness) ELSE NULL
             /\ shown.design = IF "design" \in flags THEN DesignOf(d) ELSE NULL
    BY DEF RunInv, Past, AreasSeen
  <2>12. lacking \subseteq Lacks(q, b) \cap Lacks(p, a) \cap Lacks(o, d)
    BY <2>9, <2>10, <2>11 DEF Seen
  <2>13. ASSUME id \in {"METADATA", "REVIEW_ACCESS", "PRIVACY"}, engines.review[id] = "PASS"
         PROVE  id # "REVIEW_ACCESS" /\ lacking \cap Promised[id] = {}
    <3>1. p \in Projects /\ q \in Projects /\ id \in Categories
      BY <2>9, <2>10, <2>13 DEF Seen, Categories
    <3>2. CategoryStatus(ReviewFindings(p, Readiness(q)))[id] = "PASS"
      BY <2>9, <2>10, <2>13
    <3>3. /\ id # "REVIEW_ACCESS"
          /\ id \in {"PRIVACY", "METADATA"} => Lacks(p, a) \cap Lacks(q, b) \cap Promised[id] = {}
      BY <3>1, <3>2, PassingMeans
    <3>4. QED
      BY <2>12, <2>13, <3>3
  <2>14. CASE id \in {"METADATA", "REVIEW_ACCESS"}
    <3>1. engines.review[id] = "PASS"
      BY <2>6, <2>8, <2>14 DEF Recheck
    <3>2. QED
      BY <2>13, <2>14, <3>1 DEF Provable
  <2>15. CASE id = "PRIVACY" /\ "privacy" \in flags
    <3>1. engines.privacy # NULL /\ engines.privacy.gate \in {"BLOCKED", "CONDITIONAL"}
      BY <2>10, <2>11, <2>15, PrivacyAnswers DEF Seen
    <3>2. engines.privacy.gate = "PASS"
      BY <2>6, <2>8, <2>15, <3>1 DEF Recheck
    <3>3. QED
      BY <3>1, <3>2
  <2>16. CASE id = "PRIVACY" /\ "privacy" \notin flags
    <3>1. engines.privacy = NULL
      BY <2>10, <2>11, <2>16
    <3>2. engines.review[id] = "PASS"
      BY <2>6, <2>8, <2>16, <3>1 DEF Recheck
    <3>3. QED
      BY <2>13, <2>16, <3>2 DEF Provable
  <2>17. CASE id = "DESIGN_HIG"
    <3>1. engines.design # NULL /\ engines.design.gate = "PASS"
      BY <2>6, <2>8, <2>17, AnswersAssumption DEF Recheck
    <3>2. "design" \in flags /\ engines.design = DesignOf(d) /\ d \in AreaSet
      BY <2>10, <2>11, <3>1 DEF Seen
    <3>3. "finished_design" \notin Lacks(o, d)
      BY <3>1, <3>2, DesignAnswers, LackingMeans
    <3>4. QED
      BY <2>12, <2>17, <3>2, <3>3 DEF Provable, Promised
  <2>18. CASE id = "LOCALIZATION"
    <3>1. engines.design # NULL /\ engines.design.localization = "PASS"
      BY <2>6, <2>8, <2>18, AnswersAssumption DEF Recheck
    <3>2. "design" \in flags /\ engines.design = DesignOf(d) /\ d \in AreaSet
      BY <2>10, <2>11, <3>1 DEF Seen
    <3>3. "localized_design" \notin Lacks(o, d)
      BY <3>1, <3>2, DesignAnswers, LackingMeans
    <3>4. QED
      BY <2>12, <2>18, <3>2, <3>3 DEF Provable, Promised
  <2>19. CASE id \notin {"PERFORMANCE", "METADATA", "REVIEW_ACCESS", "PRIVACY", "DESIGN_HIG",
                         "LOCALIZATION"}
    BY <2>6, <2>19, AnswersAssumption DEF Recheck
  <2>20. QED
    BY <2>7, <2>14, <2>15, <2>16, <2>17, <2>18, <2>19
<1>2. QED
  BY <1>1, RunInvHolds, PTL

\* Exit code 0 says that of what the readiness gates and the engines asked for
\* look at nothing was lacking throughout the run, whatever was edited meanwhile.
THEOREM ExitZeroIsAlwaysEarned == Spec => []ExitZeroIsEarned
<1>1. RunInv => ExitZeroIsEarned
  <2> SUFFICES ASSUME RunInv, exit = 0
               PROVE  ExitZeroIsEarned
    BY DEF ExitZeroIsEarned
  <2> DEFINE gates == GatesOf(shown)
             strict == "strict" \in flags
  <2>1. exit # NULL
    BY AnswersAssumption
  <2>2. ExitCode(readiness, gates, strict) = 0
    BY <2>1 DEF RunInv
  <2>3. PICK q, b : Seen(q, b) /\ readiness = Readiness(q)
    BY <2>1 DEF RunInv, Past, ReadinessSeen
  <2>4. PICK o, d :
            /\ Seen(o, d)
            /\ shown.privacy = IF "privacy" \in flags THEN PrivacyOf(d, readiness) ELSE NULL
            /\ shown.design = IF "design" \in flags THEN DesignOf(d) ELSE NULL
    BY <2>1 DEF RunInv, Past, AreasSeen
  <2>5. /\ "privacy" \in flags => shown["privacy"] = PrivacyOf(d, readiness)
        /\ "design" \in flags => shown["design"] = DesignOf(d)
        /\ d \in AreaSet
    BY <2>4 DEF Seen
  <2>6. /\ lacking \subseteq Lacks(q, b) /\ lacking \subseteq Lacks(o, d) /\ q \in Projects
    BY <2>3, <2>4 DEF Seen
  <2>7. /\ "privacy" \in flags => PrivacyOf(d, readiness).gate \in gates
        /\ "design" \in flags => DesignOf(d).gate \in gates
    <3>1. PrivacyOf(d, readiness) # NULL /\ DesignOf(d) # NULL
      BY <2>5, PrivacyAnswers, DesignAnswers
    <3>2. QED
      BY <2>5, <3>1 DEF GatesOf
  <2>8. ASSUME "pre_review" \in flags, NEW p, NEW a, Seen(p, a),
               shown.review = PreReviewGate(ReviewFindings(p, readiness))
        PROVE  PreReviewGate(ReviewFindings(p, readiness)) \in gates
    <3>1. shown.review \in {"BLOCKED", "CONDITIONAL", "PASS"}
      BY <2>8, GateType DEF PreReviewGate
    <3>2. shown.review # NULL
      BY <3>1, NullAssumption, AnswersAssumption
    <3>3. QED
      BY <2>8, <3>2 DEF GatesOf
  <2> HIDE DEF gates
  <2>9. /\ "BLOCKED" \notin FoundStatuses(readiness) /\ "BLOCKED" \notin gates
        /\ strict => "UNKNOWN" \notin FoundStatuses(readiness) /\ "CONDITIONAL" \notin gates
    <3>1. ReadyVerdict(readiness, strict) # "NO" /\ "BLOCKED" \notin gates
          /\ ~(strict /\ "CONDITIONAL" \in gates)
      BY <2>2 DEF ExitCode
    <3>2. ~("BLOCKED" \in FoundStatuses(readiness)
            \/ (strict /\ "UNKNOWN" \in FoundStatuses(readiness)))
      BY <3>1 DEF ReadyVerdict
    <3>3. QED
      BY <3>1, <3>2
  <2>10. /\ lacking \cap {"project", "version", "info_plist", "review_access"} = {}
         /\ strict => lacking \cap {"valid_version", "sign_in", "review_info"} = {}
    BY <2>3, <2>6, <2>9, FoundMeans
  <2>11. /\ "privacy" \in flags => ~strict /\ "declarations" \notin lacking
         /\ "design" \in flags => "sound_design" \notin lacking
         /\ strict /\ "design" \in flags => "finished_design" \notin lacking
    <3>1. "privacy" \in flags => ~strict /\ ~Defective(d.privacy)
      BY <2>5, <2>7, <2>9, PrivacyAnswers
    <3>2. "design" \in flags => ~DesignDefect(d)
      BY <2>5, <2>7, <2>9, DesignAnswers
    <3>3. strict /\ "design" \in flags => Finished(d)
      BY <2>5, <2>7, <2>9, DesignAnswers
    <3>4. QED
      BY <2>6, <3>1, <3>2, <3>3, LackingMeans
  <2>12. "pre_review" \in flags => lacking \cap {"right_usage", "real_texts"} = {}
    <3> SUFFICES ASSUME "pre_review" \in flags,
                        NEW x \in {"right_usage", "real_texts"}, x \in lacking
                 PROVE  FALSE
      OBVIOUS
    <3>1. PICK p, a : Seen(p, a) /\ shown.review = PreReviewGate(ReviewFindings(p, readiness))
      BY <2>1 DEF RunInv, Past, PreReviewSeen
    <3>2. \E c \in {"PERFORMANCE", "METADATA", "REVIEW_ACCESS"} : x \in Blocking(c)
      BY DEF Blocking
    <3>3. PreReviewGate(ReviewFindings(p, Readiness(q))) = "BLOCKED"
      BY <2>6, <3>1, <3>2, BlockersBlock DEF Seen
    <3>4. QED
      BY <2>3, <2>8, <2>9, <3>1, <3>3
  <2>13. lacking \cap RuledOut(flags) = {}
    BY <2>10, <2>11, <2>12 DEF RuledOut
  <2>14. QED
    BY <2>11, <2>13 DEF ExitZeroIsEarned
<1>2. QED
  BY <1>1, RunInvHolds, PTL

\* Whatever happened during the run: an attestation turns a YES back when the
\* cause it is for was CONTRADICTED, and never otherwise.
THEOREM OnlyContradictionAlwaysTurnsBack == Spec => []OnlyContradictionTurnsBack
<1>1. RunInv => OnlyContradictionTurnsBack
  <2> SUFFICES ASSUME RunInv, report # NULL, report.candidate = "YES", NEW c \in report.causes,
                      report.verification[c.id].status = "VERIFIED"
               PROVE  LET attested == {id \in DOMAIN report.verification :
                                           report.verification[id].status = "USER_ATTESTED"} \cup {c.id}
                      IN Candidacy(parsed, engines, attested) # "YES" <=> c.status = "CONTRADICTED"
    BY DEF OnlyContradictionTurnsBack
  <2>1. PICK given, audit : report = RecoveryReport(parsed, engines, given, audit)
    BY DEF RunInv
  <2>2. LET causes == RootCauses(MapRejection(parsed), engines)
        IN /\ report.candidate = Candidacy(parsed, engines, given)
           /\ report.causes = causes
           /\ report.verification = VerifyRootCauses(causes, engines, given)
    BY <2>1 DEF RecoveryReport
  <2>3. QED
    BY <2>2, OneAttestationMore
<1>2. QED
  BY <1>1, RunInvHolds, PTL
=============================================================================
