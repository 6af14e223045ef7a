---------------------------- MODULE EvidenceProofs ----------------------------
(***************************************************************************)
(* Lemmas on the operators of Phases 4 and 5, whoever calls them: what the *)
(* gates, the roll-ups and a HIGH issue say of what was looked at.         *)
(***************************************************************************)
EXTENDS PrivacyEvidence, DesignAreas, TLAPS

-----------------------------------------------------------------------------
(* Roll-ups and the areas of Phase 5 *)

\* Statuses are the five words, each at its place in the order.
LEMMA StatusesListed ==
    /\ Statuses = {"BLOCKED", "UNKNOWN", "RISK", "ADVISORY", "PASS"}
    /\ StatusOrder[1] = "BLOCKED" /\ StatusOrder[2] = "UNKNOWN" /\ StatusOrder[3] = "RISK"
    /\ StatusOrder[4] = "ADVISORY" /\ StatusOrder[5] = "PASS"
<1>1. StatusOrder = <<"BLOCKED", "UNKNOWN", "RISK", "ADVISORY", "PASS">>
  BY DEF StatusOrder
<1>2. 1..5 = {1, 2, 3, 4, 5}
  OBVIOUS
<1>3. QED
  BY <1>1, <1>2 DEF Statuses

\* The first of the order that occurs is the roll-up (aggregate_status).
LEMMA RollupIsFirst ==
    ASSUME NEW S \in SUBSET Statuses, S # {}
    PROVE  \E i \in 1..5 : /\ Rollup(S) = StatusOrder[i] /\ StatusOrder[i] \in S
                           /\ \A j \in 1..(i - 1) : StatusOrder[j] \notin S
<1> DEFINE First(i) == /\ StatusOrder[i] \in S
                       /\ \A j \in 1..(i - 1) : StatusOrder[j] \notin S
           w == CHOOSE i \in 1..5 : First(i)
<1>1. \E i \in 1..5 : StatusOrder[i] \in S
  BY DEF Statuses
<1>2. \E i \in 1..5 : First(i)
  <2>1. CASE StatusOrder[1] \in S
    BY <2>1
  <2>2. CASE StatusOrder[1] \notin S /\ StatusOrder[2] \in S
    BY <2>2
  <2>3. CASE StatusOrder[1] \notin S /\ StatusOrder[2] \notin S /\ StatusOrder[3] \in S
    BY <2>3
  <2>4. CASE /\ StatusOrder[1] \notin S /\ StatusOrder[2] \notin S /\ StatusOrder[3] \notin S
             /\ StatusOrder[4] \in S
    BY <2>4
  <2>5. CASE /\ StatusOrder[1] \notin S /\ StatusOrder[2] \notin S /\ StatusOrder[3] \notin S
             /\ StatusOrder[4] \notin S
    BY <1>1, <2>5
  <2>6. QED
    BY <2>1, <2>2, <2>3, <2>4, <2>5
<1>3. w \in 1..5 /\ First(w)
  BY <1>2
<1>4. Rollup(S) = StatusOrder[w]
  BY DEF Rollup, Aggregate
<1>5. QED
  BY <1>3, <1>4

\* It is BLOCKED when anything is, and UNKNOWN when nothing is worse than that.
LEMMA RollupIsWorst ==
    ASSUME NEW S \in SUBSET Statuses, S # {}
    PROVE  /\ Rollup(S) \in Statuses
           /\ Rollup(S) = "BLOCKED" <=> "BLOCKED" \in S
           /\ Rollup(S) = "UNKNOWN" <=> "BLOCKED" \notin S /\ "UNKNOWN" \in S
<1>1. PICK w \in 1..5 : /\ Rollup(S) = StatusOrder[w] /\ StatusOrder[w] \in S
                        /\ \A j \in 1..(w - 1) : StatusOrder[j] \notin S
  BY RollupIsFirst
<1>2. w = 1 <=> StatusOrder[1] \in S
  BY <1>1
<1>3. w = 2 <=> StatusOrder[1] \notin S /\ StatusOrder[2] \in S
  BY <1>1
<1>4. \A i \in 1..5 : /\ StatusOrder[i] = "BLOCKED" <=> i = 1
                      /\ StatusOrder[i] = "UNKNOWN" <=> i = 2
  BY StatusesListed
<1>5. QED
  BY <1>1, <1>2, <1>3, <1>4, StatusesListed

\* It is PASS only when everything passes.
LEMMA RollupPasses ==
    ASSUME NEW S \in SUBSET Statuses, S # {}, Rollup(S) = "PASS"
    PROVE  S = {"PASS"}
<1>1. PICK w \in 1..5 : /\ Rollup(S) = StatusOrder[w] /\ StatusOrder[w] \in S
                        /\ \A j \in 1..(w - 1) : StatusOrder[j] \notin S
  BY RollupIsFirst
<1>2. w = 5
  BY <1>1, StatusesListed
<1>3. \A i \in 1..4 : StatusOrder[i] \notin S
  BY <1>1, <1>2
<1>4. "BLOCKED" \notin S /\ "UNKNOWN" \notin S /\ "RISK" \notin S /\ "ADVISORY" \notin S
  BY <1>3, StatusesListed
<1>5. QED
  BY <1>4, StatusesListed

\* Every rule of the design review gives a status.
LEMMA DesignStatuses ==
    ASSUME NEW d, NEW m
    PROVE  \A area \in DesignAreaNames :
               /\ StatusesIn(DesignFindings(d, m), area) \subseteq Statuses
               /\ StatusesIn(DesignFindings(d, m), area) # {}
<1> DEFINE findings == DesignFindings(d, m)
<1>1. TouchTargetSize(d, m) \in Statuses
  <2>1. \/ ~AnyInteractive(d) \/ Undersized(d, m) # {}
        \/ AnyInteractive(d) /\ Undersized(d, m) = {} /\ (Wrapping(d) = {} \/ Unresolved(d, m) # {})
        \/ AnyInteractive(d) /\ Undersized(d, m) = {} /\ Wrapping(d) # {} /\ Unresolved(d, m) = {}
    OBVIOUS
  <2>2. TouchTargetSize(d, m) \in {"PASS", "BLOCKED", "UNKNOWN"}
    BY <2>1 DEF TouchTargetSize
  <2>3. QED
    BY <2>2, StatusesListed
<1>2. IconButtonSemanticLabel(d) \in Statuses /\ SafeArea(d) \in Statuses
  BY StatusesListed DEF IconButtonSemanticLabel, SafeArea
<1>3. \A seen : RiskIf(seen) \in Statuses
  BY StatusesListed DEF RiskIf
<1>4. MissingKey(d) \in Statuses
  <2>1. MissingKey(d) \in {"PASS", "BLOCKED", "UNKNOWN"}
    BY DEF MissingKey
  <2>2. QED
    BY <2>1, StatusesListed
<1>5. findings = DesignFindings(d, m)
  OBVIOUS
<1> HIDE DEF findings
<1>6. /\ findings["ACCESSIBILITY"] = [ TOUCH_TARGET_SIZE          |-> TouchTargetSize(d, m),
                                       ICON_BUTTON_SEMANTIC_LABEL |-> IconButtonSemanticLabel(d),
                                       DYNAMIC_TYPE               |-> DynamicType(d) ]
      /\ findings["LAYOUT"] = [ SAFE_AREA            |-> SafeArea(d),
                                HARDCODED_DIMENSIONS |-> HardcodedDimensions(d) ]
      /\ findings["LOCALIZATION"] = [ HARDCODED_STRING     |-> HardcodedString(d),
                                      MISSING_KEY          |-> MissingKey(d),
                                      FIXED_TEXT_CONTAINER |-> FixedTextContainer(d) ]
      /\ findings["INTERACTION"] = [ GESTURE_ONLY       |-> GestureOnly(d),
                                     PERMISSION_CONTEXT |-> PermissionContext(d) ]
  BY <1>5 DEF DesignFindings
<1>7. /\ DynamicType(d) \in Statuses /\ HardcodedDimensions(d) \in Statuses
      /\ HardcodedString(d) \in Statuses /\ FixedTextContainer(d) \in Statuses
      /\ GestureOnly(d) \in Statuses /\ PermissionContext(d) \in Statuses
  BY <1>3 DEF DynamicType, HardcodedDimensions, HardcodedString, FixedTextContainer,
              GestureOnly, PermissionContext
<1>8. \A area \in DesignAreaNames :
          /\ \A rule \in DOMAIN findings[area] : findings[area][rule] \in Statuses
          /\ DOMAIN findings[area] # {}
  BY <1>1, <1>2, <1>4, <1>6, <1>7 DEF DesignAreaNames
<1>9. QED
  BY <1>5, <1>8 DEF StatusesIn

\* The gate over all findings is the gate over the areas' roll-ups.
LEMMA GateOfAreas ==
    ASSUME NEW d, NEW m
    PROVE  LET result == DesignResult(d, m)
           IN /\ result.gate = Gate({result.area[area] : area \in DesignAreaNames})
              /\ result.gate \in {"BLOCKED", "CONDITIONAL", "PASS"}
              /\ result.area \in [DesignAreaNames -> Statuses]
<1> DEFINE findings == DesignFindings(d, m)
           result == DesignResult(d, m)
           All == UNION {StatusesIn(findings, area) : area \in DesignAreaNames}
           Areas == {result.area[area] : area \in DesignAreaNames}
<1>1. /\ result.gate = Gate(All)
      /\ result.area = [area \in DesignAreaNames |-> Rollup(StatusesIn(findings, area))]
  BY DEF DesignResult, DesignGate, AreaStatus
<1>2. \A area \in DesignAreaNames : LET S == StatusesIn(findings, area) IN
          /\ Rollup(S) \in Statuses
          /\ Rollup(S) = "BLOCKED" <=> "BLOCKED" \in S
          /\ Rollup(S) = "UNKNOWN" <=> "BLOCKED" \notin S /\ "UNKNOWN" \in S
  BY DesignStatuses, RollupIsWorst
<1> HIDE DEF findings, result
<1>3. "BLOCKED" \in Areas <=> "BLOCKED" \in All
  BY <1>1, <1>2
<1>4. "BLOCKED" \notin All => ("UNKNOWN" \in Areas <=> "UNKNOWN" \in All)
  BY <1>1, <1>2
<1>5. Gate(Areas) = Gate(All)
  BY <1>3, <1>4 DEF Gate
<1>6. Gate(All) \in {"BLOCKED", "CONDITIONAL", "PASS"}
  BY DEF Gate
<1>7. QED
  BY <1>1, <1>2, <1>5, <1>6 DEF result

-----------------------------------------------------------------------------
(* The gate of Phase 4 *)

\* The disclosure every run makes (inspect_required_reason_apis).
Unverified == Evidence(<<"required_reason_unverified", "source", "-">>, NoType, Silent, {}, TRUE)

\* With the disclosure among the evidence the gate does not pass.
LEMMA DisclosureKeepsOpen ==
    ASSUME NEW ev, NEW is, NEW status, Unverified \in ev
    PROVE  PrivacyResult(ev, is, status).gate # "PASS"
<1> DEFINE contradictions == FindContradictions(ev, is)
           candidates == BuildCandidates(ev, contradictions)
<1>1. Unverified.confirm /\ Unverified.type = NoType
  BY DEF Unverified, Evidence
<1>2. HasUnresolvedFacts(ev, candidates, status)
  BY <1>1 DEF HasUnresolvedFacts
<1>3. PrivacyGate(ev, is, contradictions, candidates, status) # "PASS"
  BY <1>2 DEF PrivacyGate
<1>4. PrivacyResult(ev, is, status).gate = PrivacyGate(ev, is, contradictions, candidates, status)
  BY DEF PrivacyResult
<1>5. QED
  BY <1>3, <1>4

\* A HIGH issue is a defect of the declarations, and the other way round.
LEMMA HighIssueIsDefect ==
    ASSUME NEW s, IsSources(s)
    PROVE  HasBlockingManifestIssue(AllIssues(s)) <=> Defective(s)
<1> DEFINE High(found) == HasBlockingManifestIssue(found)
<1>1. \A code, severity, path : Issue(code, severity, path).severity = severity
  BY DEF Issue
<1>2. \A a, b : High(a \cup b) <=> High(a) \/ High(b)
  BY DEF HasBlockingManifestIssue
<1>3. ASSUME NEW path, NEW m
      PROVE  High(ManifestIssues(path, m)) <=>
                 \/ m.misshapen \/ m.tracking = "invalid" \/ m.domains = "invalid"
                 \/ \E e \in m.collected : \/ e.type \notin ShortCodes
                                           \/ "invalid" \in {e.linked, e.tracking} \cup e.purposes
                 \/ \E e \in m.accessed : ~e.reasons
                 \/ m.domains = "listed" /\ m.tracking # "YES"
  <2> DEFINE bad == \/ m.misshapen \/ m.tracking = "invalid" \/ m.domains = "invalid"
                    \/ \E e \in m.collected : \/ e.type \notin ShortCodes
                                              \/ "invalid" \in {e.linked, e.tracking} \cup e.purposes
                    \/ \E e \in m.accessed : ~e.reasons
             silent == m.domains = "listed" /\ m.tracking # "YES"
             twice == \E d, e \in m.collected : d # e /\ d.type = e.type
             A == When(bad, Issue("INVALID", "HIGH", path))
             B == When(silent, Issue("TRACKING_DOMAIN_WITHOUT_FLAG", "HIGH", path))
             C == When(twice, Issue("DUPLICATE_DATA_TYPE", "MEDIUM", path))
  <2>1. ManifestIssues(path, m) = A \cup B \cup C
    BY DEF ManifestIssues
  <2> HIDE DEF bad, silent, twice
  <2>2. High(A) <=> bad
    BY <1>1 DEF When, HasBlockingManifestIssue
  <2>3. High(B) <=> silent
    BY <1>1 DEF When, HasBlockingManifestIssue
  <2>4. ~High(C)
    BY <1>1 DEF When, HasBlockingManifestIssue
  <2> HIDE DEF A, B, C, High
  <2>5. High(ManifestIssues(path, m)) <=> bad \/ silent
    BY <1>2, <2>1, <2>2, <2>3, <2>4
  <2>6. QED
    BY <2>5 DEF bad, silent
<1>4. High(AllManifestIssues(s)) <=> Misshapen(s)
  <2>1. High({Issue("UNPARSEABLE", "HIGH", path) : path \in DOMAIN s.manifests \ ReadableManifests(s)})
            <=> \E path \in DOMAIN s.manifests : ~s.manifests[path].readable
    BY <1>1 DEF HasBlockingManifestIssue, ReadableManifests
  <2>2. High(UNION {ManifestIssues(path, s.manifests[path]) : path \in ReadableManifests(s)})
            <=> \E path \in ReadableManifests(s) : High(ManifestIssues(path, s.manifests[path]))
    BY DEF HasBlockingManifestIssue
  <2>3. High(AllManifestIssues(s)) <=>
            \/ \E path \in DOMAIN s.manifests : ~s.manifests[path].readable
            \/ \E path \in ReadableManifests(s) : High(ManifestIssues(path, s.manifests[path]))
    BY <1>2, <2>1, <2>2 DEF AllManifestIssues
  <2> HIDE DEF High
  <2>4. QED
    BY <1>3, <2>3 DEF Misshapen, ReadableManifests
<1>5. ASSUME NEW c \in ApiCategories
      PROVE  c \in DeclaredCategories(AllManifestEvidence(s)) <=>
                 \E path \in ReadableManifests(s) : \E e \in s.manifests[path].accessed : e.category = c
  <2>1. ASSUME NEW path, NEW m, NEW item \in ManifestEvidence(path, m),
               Kind(item) = "manifest_required_reason_entry", item.id[3] = c
        PROVE  \E e \in m.accessed : e.category = c
    <3>1. \/ item.id = <<"manifest_tracking_flag", path, "-">>
          \/ item.id = <<"manifest_tracking_domain", path, "-">>
          \/ \E e \in m.collected : item.id = <<"manifest_collected_data_type", path, e.type>>
          \/ \E e \in m.accessed : item.id = <<"manifest_required_reason_entry", path, e.category>>
      BY <2>1 DEF ManifestEvidence, When, CollectedEvidence, Evidence
    <3>2. QED
      BY <2>1, <3>1 DEF Kind
  <2>2. ASSUME NEW path, NEW m, NEW e \in m.accessed, e.category = c
        PROVE  \E item \in ManifestEvidence(path, m) :
                   Kind(item) = "manifest_required_reason_entry" /\ item.id[3] = c
    <3> DEFINE item == Evidence(<<"manifest_required_reason_entry", path, e.category>>, NoType, Silent,
                                {}, FALSE)
    <3>1. item \in ManifestEvidence(path, m)
      BY DEF ManifestEvidence
    <3>2. item.id = <<"manifest_required_reason_entry", path, c>>
      BY <2>2 DEF Evidence
    <3> HIDE DEF item
    <3>3. Kind(item) = "manifest_required_reason_entry" /\ item.id[3] = c
      BY <3>2 DEF Kind
    <3>4. QED
      BY <3>1, <3>3
  <2> DEFINE Entry(item) == Kind(item) = "manifest_required_reason_entry" /\ item.id[3] = c
  <2>3. \A path, m : (\E item \in ManifestEvidence(path, m) : Entry(item))
                         <=> \E e \in m.accessed : e.category = c
    BY <2>1, <2>2
  <2>4. c \in DeclaredCategories(AllManifestEvidence(s))
            <=> \E item \in AllManifestEvidence(s) : Entry(item)
    BY DEF DeclaredCategories
  <2> HIDE DEF Entry
  <2>5. (\E item \in AllManifestEvidence(s) : Entry(item))
            <=> \E path \in ReadableManifests(s) :
                    \E item \in ManifestEvidence(path, s.manifests[path]) : Entry(item)
    BY DEF AllManifestEvidence
  <2>6. QED
    BY <2>3, <2>4, <2>5
<1>6. \A c : Found(s, c) <=> c \in s.uses["code"] \/ (~s.code /\ c \in s.uses["elsewhere"])
  BY DEF Found, IsSources
<1>7. \A c \in ApiCategories :
          Found(s, c) /\ c \notin DeclaredCategories(AllManifestEvidence(s))
              <=> Gap(s, "code", c) \/ (~s.code /\ Gap(s, "elsewhere", c))
  BY <1>5, <1>6 DEF Gap, ReadableManifests
<1>8. High(RequiredReasonIssues(s, AllManifestEvidence(s))) <=>
          \E c \in ApiCategories : Gap(s, "code", c) \/ (~s.code /\ Gap(s, "elsewhere", c))
  BY <1>1, <1>7 DEF RequiredReasonIssues, HasBlockingManifestIssue
<1>9. QED
  BY <1>2, <1>4, <1>8 DEF AllIssues, Defective

\* The gate is BLOCKED by a defect and by nothing else.
LEMMA BlockedIsDefect ==
    ASSUME NEW s, IsSources(s), NEW policy
    PROVE  PrivacyOfSources(s, policy).gate = "BLOCKED" <=> Defective(s)
<1> DEFINE ev == AllEvidence(s)
           is == AllIssues(s)
           contradictions == FindContradictions(ev, is)
           candidates == BuildCandidates(ev, contradictions)
<1>1. PrivacyOfSources(s, policy).gate = PrivacyGate(ev, is, contradictions, candidates, policy)
  BY DEF PrivacyOfSources, PrivacyResult
<1> HIDE DEF ev, is, contradictions, candidates
<1>2. PrivacyGate(ev, is, contradictions, candidates, policy) = "BLOCKED"
          <=> HasBlockingManifestIssue(is)
  <2>1. CASE HasBlockingManifestIssue(is)
    BY <2>1 DEF PrivacyGate
  <2>2. CASE ~HasBlockingManifestIssue(is)
    BY <2>2 DEF PrivacyGate
  <2>3. QED
    BY <2>1, <2>2
<1>3. QED
  BY <1>1, <1>2, HighIssueIsDefect DEF is

\* It never passes: the disclosure is always among the evidence.
LEMMA NeverPasses ==
    ASSUME NEW s, NEW policy
    PROVE  PrivacyOfSources(s, policy).gate # "PASS"
<1>1. Unverified \in AllEvidence(s)
  BY DEF AllEvidence, RequiredReasonEvidence, Unverified
<1>2. QED
  BY <1>1, DisclosureKeepsOpen DEF PrivacyOfSources
=============================================================================
