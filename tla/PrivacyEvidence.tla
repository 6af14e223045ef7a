--------------------------- MODULE PrivacyEvidence ---------------------------
(***************************************************************************)
(* Phase 4: what privacy intelligence makes of a project's declarations.   *)
(*                                                                         *)
(* The sources it reads are a record:                                      *)
(*   permissions  the data types Info.plist has a usage description for    *)
(*   manifests    the PrivacyInfo.xcprivacy files, by path                 *)
(*   code, uses   whether there is code (Dart, Swift or Objective-C), and  *)
(*                what is mentioned in code and what in other text files   *)
(*   sdks, http   the purposes of the SDKs depended on, and a generic HTTP *)
(*                client                                                   *)
(*   answers      .asc/app_privacy_answers.json, by data type              *)
(*                                                                         *)
(* A piece of evidence has what is claimed of a data type and whether a    *)
(* person has to confirm it.  Access and transmission decide nothing and   *)
(* are left out, as is confidence: no evidence about a data type has       *)
(* MEDIUM confidence, so no candidate is ever POSSIBLE.                    *)
(***************************************************************************)
EXTENDS Naturals

CONSTANTS DataTypes,   \* what an answer may be about
          ShortCodes   \* those of them a manifest may name

NoType == "no data type"

ASSUME TypesAssumption == ShortCodes \subseteq DataTypes /\ NoType \notin DataTypes

Tri == {"YES", "NO", "UNKNOWN"}

TriFields == {"collection", "linked_to_user", "tracking"}

TriFacts == [TriFields -> Tri]

Purposes == {"APP_FUNCTIONALITY", "ANALYTICS", "DEVELOPER_ADVERTISING",
             "THIRD_PARTY_ADVERTISING", "PRODUCT_PERSONALIZATION", "OTHER"}

ApiCategories == {"FILE_TIMESTAMP", "SYSTEM_BOOT_TIME", "DISK_SPACE", "USER_DEFAULTS"}

\* What the expressions of the two scans look for.
Mentionable == ApiCategories \cup {"tracking_domain", "data_path"}

\* A flag of a manifest: not there, of the wrong type, or what it says.
Flags == {"absent", "invalid", "YES", "NO"}

\* {"invalid"} stands for purposes that are not a list of strings.
CollectedTypes ==
    [type : DataTypes, linked : Flags, tracking : Flags,
     purposes : (SUBSET Purposes) \cup {{"invalid"}}]

\* misshapen: a list or an entry of the wrong type, or one without its key.
Manifests ==
    [ readable : BOOLEAN, misshapen : BOOLEAN,
      tracking : Flags, domains : {"none", "invalid", "listed"},
      collected : SUBSET CollectedTypes,
      accessed : SUBSET [category : ApiCategories, reasons : BOOLEAN] ]

Answers == [claims : TriFacts, purposes : SUBSET Purposes]

IsSources(s) ==
    /\ DOMAIN s = {"permissions", "manifests", "code", "uses", "sdks", "http", "answers"}
    /\ s.permissions \subseteq DataTypes
    /\ \A path \in DOMAIN s.manifests : s.manifests[path] \in Manifests
    /\ s.uses \in [{"code", "elsewhere"} -> SUBSET Mentionable]
    /\ s.code \in BOOLEAN /\ (~s.code => s.uses["code"] = {})
    /\ s.sdks \subseteq Purposes /\ s.http \in BOOLEAN
    /\ DOMAIN s.answers \subseteq DataTypes
    /\ \A t \in DOMAIN s.answers : s.answers[t] \in Answers

Evidence(id, type, claims, purposes, confirm) ==
    [id |-> id, type |-> type, claims |-> claims, purposes |-> purposes, confirm |-> confirm]

When(condition, item) == {i \in {item} : condition}

\* Evidence is named by its kind, where it was found and what it is about ("-"
\* when it is about nothing in particular).
Kind(item) == item.id[1]

Silent == [f \in TriFields |-> "UNKNOWN"]

\* Mutants of Declared: what is not YES is NO; the flag as it is written.
DeclaredUnlessYes(flag) == IF flag = "YES" THEN "YES" ELSE "NO"

DeclaredAsWritten(flag) == flag

Declared(flag) == IF flag \in {"YES", "NO"} THEN flag ELSE "UNKNOWN"

-----------------------------------------------------------------------------
(* Reading the sources *)

InspectPermissions(s) ==
    {Evidence(<<"permission_declaration", "Info.plist", t>>, t, Silent, {}, TRUE) :
        t \in s.permissions}

CollectedEvidence(path, entry) ==
    Evidence(<<"manifest_collected_data_type", path, entry.type>>, entry.type,
             [ collection     |-> "YES",
               linked_to_user |-> Declared(entry.linked),
               tracking       |-> Declared(entry.tracking) ],
             entry.purposes \ {"invalid"}, FALSE)

\* _validate_manifest, the evidence
ManifestEvidence(path, m) ==
    {Evidence(<<"manifest_tracking_flag", path, "-">>, NoType,
              [Silent EXCEPT !.tracking = Declared(m.tracking)], {},
              m.tracking \notin {"YES", "NO"})}
    \cup When(m.domains = "listed",
              Evidence(<<"manifest_tracking_domain", path, "-">>, NoType, Silent, {}, TRUE))
    \cup {CollectedEvidence(path, entry) : entry \in m.collected}
    \cup {Evidence(<<"manifest_required_reason_entry", path, entry.category>>, NoType, Silent,
                   {}, FALSE) : entry \in m.accessed}

Issue(code, severity, path) == [code |-> code, severity |-> severity, path |-> path]

\* _validate_manifest, the issues
\* One issue stands for every defect of a value's form.
ManifestIssues(path, m) ==
    When(\/ m.misshapen \/ m.tracking = "invalid" \/ m.domains = "invalid"
         \/ \E e \in m.collected : \/ e.type \notin ShortCodes
                                   \/ "invalid" \in {e.linked, e.tracking} \cup e.purposes
         \/ \E e \in m.accessed : ~e.reasons,
         Issue("INVALID", "HIGH", path))
    \cup When(m.domains = "listed" /\ m.tracking # "YES",
              Issue("TRACKING_DOMAIN_WITHOUT_FLAG", "HIGH", path))
    \cup When(\E d, e \in m.collected : d # e /\ d.type = e.type,
              Issue("DUPLICATE_DATA_TYPE", "MEDIUM", path))

\* manifest.inspect
ReadableManifests(s) == {path \in DOMAIN s.manifests : s.manifests[path].readable}

AllManifestEvidence(s) ==
    UNION {ManifestEvidence(path, s.manifests[path]) : path \in ReadableManifests(s)}

AllManifestIssues(s) ==
    {Issue("UNPARSEABLE", "HIGH", path) : path \in DOMAIN s.manifests \ ReadableManifests(s)}
    \cup UNION {ManifestIssues(path, s.manifests[path]) : path \in ReadableManifests(s)}

\* Mutant of Found: every text file is searched, code or not.
FoundAnywhere(s, what) == what \in s.uses["code"] \cup s.uses["elsewhere"]

\* search(pattern, code_files): without code files, every text file is searched.
Found(s, what) == what \in s.uses[IF s.code THEN "code" ELSE "elsewhere"]

\* inspect_required_reason_apis
DeclaredCategories(manifestEvidence) ==
    {item.id[3] : item \in {e \in manifestEvidence : Kind(e) = "manifest_required_reason_entry"}}

RequiredReasonEvidence(s, manifestEvidence) ==
    {Evidence(<<IF c \in DeclaredCategories(manifestEvidence)
                THEN "required_reason_api_manifest_reason_present"
                ELSE "required_reason_api_detected", "source", c>>, NoType, Silent, {}, FALSE) :
        c \in {c \in ApiCategories : Found(s, c)}}
    \* Always disclosed: a text scan is never a claim of complete coverage.
    \cup {Evidence(<<"required_reason_unverified", "source", "-">>, NoType, Silent, {}, TRUE)}

RequiredReasonIssues(s, manifestEvidence) ==
    {Issue("REASON_MISSING", "HIGH", c) :
        c \in {c \in ApiCategories : Found(s, c) /\ c \notin DeclaredCategories(manifestEvidence)}}

\* inspect_dependencies: an SDK speaks of a purpose, never of a data type.
InspectDependencies(s) ==
    {Evidence(<<"sdk_dependency", "pubspec.yaml/Podfile", p>>, NoType, Silent, {p}, TRUE) :
        p \in s.sdks}

InspectNetworkSignals(s) ==
    When(s.http, Evidence(<<"network_http_client", "pubspec.yaml", "-">>, NoType, Silent, {}, TRUE))
    \cup {Evidence(<<"network_signal", "source", n>>, NoType, Silent, {}, TRUE) :
            n \in {n \in {"tracking_domain", "data_path"} : Found(s, n)}}

\* Mutant of InspectLocalPrivacyAnswers: a NO is taken for no answer.
InspectLocalPrivacyAnswersIfTrue(s) ==
    {Evidence(<<"local_privacy_answer_attestation", "answers", t>>, t,
              [f \in TriFields |-> IF s.answers[t].claims[f] = "YES" THEN "YES" ELSE "UNKNOWN"],
              s.answers[t].purposes, FALSE) : t \in DOMAIN s.answers}

InspectLocalPrivacyAnswers(s) ==
    {Evidence(<<"local_privacy_answer_attestation", "answers", t>>, t,
              s.answers[t].claims, s.answers[t].purposes, FALSE) : t \in DOMAIN s.answers}

-----------------------------------------------------------------------------
(* Contradictions and candidates *)

Of(evidence, t) == {item \in evidence : item.type = t}

SubjectsOf(evidence) == {item.type : item \in evidence} \ {NoType}

Saying(items, field, value) == {item \in items : item.claims[field] = value}

HasConflict(items, field) ==
    Saying(items, field, "YES") # {} /\ Saying(items, field, "NO") # {}

Contradiction(kind, ids) == [kind |-> kind, evidence |-> ids]

\* The purposes that have to be covered by a manifest entry.
Advertising == {"ANALYTICS", "THIRD_PARTY_ADVERTISING", "DEVELOPER_ADVERTISING"}

ManifestPurposes(evidence) ==
    UNION {item.purposes : item \in {e \in evidence : Kind(e) = "manifest_collected_data_type"}}

\* UNCONFIRMED_SENSITIVE_EVIDENCE cannot arise: permissions ask for confirmation.
FindContradictions(evidence, issues) ==
    {Contradiction(<<"CONFLICT", c[1], c[2]>>,
                   {(CHOOSE item \in Saying(Of(evidence, c[1]), c[2], v) : TRUE).id :
                        v \in {"YES", "NO"}}) :
        c \in {c \in SubjectsOf(evidence) \X TriFields : HasConflict(Of(evidence, c[1]), c[2])}}
    \cup {Contradiction(<<"TRACKING_DOMAIN_WITHOUT_FLAG", i.path, "-">>,
                        {<<"manifest_tracking_flag", i.path, "-">>}) :
            i \in {i \in issues : i.code = "TRACKING_DOMAIN_WITHOUT_FLAG"}}
    \cup {Contradiction(<<"SDK_WITHOUT_PRIVACY_EVIDENCE", item.id[3], "-">>, {item.id}) :
            item \in {e \in evidence : /\ Kind(e) = "sdk_dependency"
                                       /\ e.purposes \cap Advertising # {}
                                       /\ e.purposes \cap ManifestPurposes(evidence) = {}}}

\* _merge: a conflict leaves the fact unknown.
Merge(items, field) ==
    CASE HasConflict(items, field)                                              -> "UNKNOWN"
      [] ~HasConflict(items, field) /\ Saying(items, field, "YES") # {}         -> "YES"
      [] ~HasConflict(items, field) /\ Saying(items, field, "NO") # {}          -> "NO"
      [] Saying(items, field, "YES") \cup Saying(items, field, "NO") = {}       -> "UNKNOWN"

DeterministicKinds ==
    {"manifest_collected_data_type", "manifest_tracking_flag", "manifest_tracking_domain",
     "local_privacy_answer_attestation"}

\* build_candidates, for one data type
BuildCandidate(items) ==
    LET facts == [f \in TriFields |-> Merge(items, f)]
        unresolved == \E f \in TriFields : facts[f] = "UNKNOWN"
        conflict == \E f \in TriFields : HasConflict(items, f)
        deterministic == \A item \in items : Kind(item) \in DeterministicKinds
    IN [ facts    |-> facts,
         purposes |-> UNION {item.purposes : item \in items},
         evidence |-> {item.id : item \in items},
         state    |-> CASE conflict \/ unresolved                    -> "UNKNOWN"
                        [] ~conflict /\ ~unresolved /\ deterministic  -> "CONFIRMED"
                        [] ~conflict /\ ~unresolved /\ ~deterministic -> "LIKELY",
         confirm  |-> unresolved \/ conflict \/ \E item \in items : item.confirm ]

\* Mutant of ApplyContradictions: a contradiction has to be about all of the evidence.
ApplyContradictionsIfAlone(candidate, contradictions) ==
    IF \E c \in contradictions : c.evidence = candidate.evidence
    THEN [candidate EXCEPT !.state = "CONTRADICTED", !.confirm = TRUE]
    ELSE candidate

\* _apply_contradictions: matched by the ids of the evidence.
ApplyContradictions(candidate, contradictions) ==
    IF \E c \in contradictions : c.evidence \cap candidate.evidence # {}
    THEN [candidate EXCEPT !.state = "CONTRADICTED", !.confirm = TRUE]
    ELSE candidate

BuildCandidates(evidence, contradictions) ==
    [t \in SubjectsOf(evidence) |-> ApplyContradictions(BuildCandidate(Of(evidence, t)),
                                                        contradictions)]

\* _questions_for: what is asked of a data type
Questions(candidates) ==
    {q \in (DOMAIN candidates) \X (TriFields \cup {"purpose"}) :
        /\ candidates[q[1]].state # "CONFIRMED"
        /\ IF q[2] = "purpose" THEN candidates[q[1]].purposes = {}
                               ELSE candidates[q[1]].facts[q[2]] = "UNKNOWN"}

-----------------------------------------------------------------------------
(* The result *)

HasBlockingManifestIssue(issues) == \E i \in issues : i.severity = "HIGH"

HasUnresolvedFacts(evidence, candidates, policy) ==
    \/ evidence = {}
    \/ \E t \in DOMAIN candidates : candidates[t].confirm
    \/ \E item \in evidence : item.confirm /\ item.type = NoType
    \/ policy # "PASS"

PrivacyGate(evidence, issues, contradictions, candidates, policy) ==
    CASE HasBlockingManifestIssue(issues)  -> "BLOCKED"
      [] /\ ~HasBlockingManifestIssue(issues)
         /\ contradictions # {} \/ HasUnresolvedFacts(evidence, candidates, policy)
                                           -> "CONDITIONAL"
      [] /\ ~HasBlockingManifestIssue(issues)
         /\ contradictions = {} /\ ~HasUnresolvedFacts(evidence, candidates, policy)
                                           -> "PASS"

\* run_privacy_intelligence, from the evidence on
PrivacyResult(evidence, issues, policy) ==
    LET contradictions == FindContradictions(evidence, issues)
        candidates == BuildCandidates(evidence, contradictions)
    IN [ gate           |-> PrivacyGate(evidence, issues, contradictions, candidates, policy),
         contradictions |-> contradictions,
         candidates     |-> candidates,
         questions      |-> Questions(candidates),
         issues         |-> issues ]

AllEvidence(s) ==
    InspectPermissions(s) \cup AllManifestEvidence(s)
    \cup RequiredReasonEvidence(s, AllManifestEvidence(s))
    \cup InspectDependencies(s) \cup InspectNetworkSignals(s) \cup InspectLocalPrivacyAnswers(s)

AllIssues(s) == AllManifestIssues(s) \cup RequiredReasonIssues(s, AllManifestEvidence(s))

\* run_privacy_intelligence on sources that nobody touches
PrivacyOfSources(s, policy) == PrivacyResult(AllEvidence(s), AllIssues(s), policy)

-----------------------------------------------------------------------------
(* What is wrong with the declarations, in terms of the sources *)

Misshapen(s) ==
    \E path \in DOMAIN s.manifests : LET m == s.manifests[path] IN
        \/ ~m.readable \/ m.misshapen
        \/ m.domains = "invalid" \/ m.tracking = "invalid"
        \/ m.domains = "listed" /\ m.tracking # "YES"
        \/ \E e \in m.collected : \/ e.type \notin ShortCodes
                                  \/ e.linked = "invalid" \/ e.tracking = "invalid"
                                  \/ "invalid" \in e.purposes
        \/ \E e \in m.accessed : ~e.reasons

\* An API category is used and no manifest that can be read declares it.
Gap(s, place, c) ==
    /\ c \in s.uses[place]
    /\ \A path \in DOMAIN s.manifests : s.manifests[path].readable =>
           \A e \in s.manifests[path].accessed : e.category # c

\* What prose mentions counts for an app that has no code at all.
Defective(s) ==
    \/ Misshapen(s)
    \/ \E c \in ApiCategories : Gap(s, "code", c) \/ (~s.code /\ Gap(s, "elsewhere", c))
=============================================================================
