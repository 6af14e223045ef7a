------------------------------ MODULE AreaProofs ------------------------------
(***************************************************************************)
(* Machine-checked, for every app, every set of data types, widgets and    *)
(* sizes and any number of changes: what the results of Phases 4 and 5     *)
(* promise.  What a run has read is what one look at the sources as it saw *)
(* them would have found; the rest is about that look.                     *)
(***************************************************************************)
EXTENDS AreaReviews, EvidenceProofs

-----------------------------------------------------------------------------
(* Phase 5 *)

\* A size that is known stays what it is when more is measured.
LEMMA MeasuringKeepsSizes ==
    ASSUME NEW d, NEW m, NEW n,
           DOMAIN m \subseteq DOMAIN n, \A k \in DOMAIN m : n[k] = m[k]
    PROVE  TouchTargetSize(d, m) # "UNKNOWN" => TouchTargetSize(d, n) = TouchTargetSize(d, m)
<1>1. \A b : Known(b, m) => Known(b, n) /\ SizeOf(b, n) = SizeOf(b, m)
  BY DEF Known, SizeOf
<1>2. Undersized(d, m) \subseteq Undersized(d, n)
  BY <1>1 DEF Undersized
<1>3. Unresolved(d, n) \subseteq Unresolved(d, m)
  BY <1>1 DEF Unresolved
<1>4. Unresolved(d, m) = {} => Undersized(d, n) \subseteq Undersized(d, m)
  BY <1>1 DEF Unresolved, Undersized
<1>5. CASE ~AnyInteractive(d)
  BY <1>5 DEF TouchTargetSize
<1>6. CASE AnyInteractive(d) /\ Undersized(d, m) # {}
  <2>1. Undersized(d, n) # {}
    BY <1>2, <1>6
  <2>2. QED
    BY <1>6, <2>1 DEF TouchTargetSize
<1>7. CASE AnyInteractive(d) /\ Undersized(d, m) = {} /\ Wrapping(d) # {} /\ Unresolved(d, m) = {}
  <2>1. Undersized(d, n) = {} /\ Unresolved(d, n) = {}
    BY <1>3, <1>4, <1>7
  <2>2. QED
    BY <1>7, <2>1 DEF TouchTargetSize
<1>8. CASE AnyInteractive(d) /\ Undersized(d, m) = {} /\ (Wrapping(d) = {} \/ Unresolved(d, m) # {})
  BY <1>8 DEF TouchTargetSize
<1>9. QED
  BY <1>5, <1>6, <1>7, <1>8

\* One more measurement hides no control that is too small and takes no PASS
\* back (touch_target_findings, _rendered_size_for).
THEOREM MeasuringNeverUndecides == Spec => MeasuringOnlyDecides
<1> DEFINE Decides == facts' = facts /\ measured' # measured =>
               LET before == TouchTargetSize(facts, measured)
                   after == TouchTargetSize(facts, measured')
               IN before # "UNKNOWN" => after = before
<1>1. ASSUME [Next]_vars
      PROVE  Decides \/ UNCHANGED measured
  <2>1. CASE \E k \in Keys, size \in Sizes \X Sizes : Measure(k, size)
    <3>1. PICK k \in Keys, size \in Sizes \X Sizes : Measure(k, size)
      BY <2>1
    <3>2. DOMAIN measured \subseteq DOMAIN measured' /\ \A j \in DOMAIN measured : measured'[j] = measured[j]
      BY <3>1 DEF Measure
    <3>3. TouchTargetSize(facts, measured) # "UNKNOWN"
              => TouchTargetSize(facts, measured') = TouchTargetSize(facts, measured)
      BY <3>2, MeasuringKeepsSizes
    <3>4. QED
      BY <3>3
  <2>2. CASE ~\E k \in Keys, size \in Sizes \X Sizes : Measure(k, size)
    BY <1>1, <2>2 DEF Next, RunNext, PersonNext, Start, ReadManifests, ReadApis, ReadDependencies,
                      Conclude, ReviewDesign, Answer, AnswerPurpose, EditSources, EditCode, vars, app
  <2>3. QED
    BY <2>1, <2>2
<1>2. QED
  BY <1>1, PTL DEF Spec, MeasuringOnlyDecides
-----------------------------------------------------------------------------
(* Phase 4: the evidence *)

\* What the invariant TypeOK says of evidence.
TypedEvidence(items) ==
    \A item \in items : /\ item.type \in DataTypes \cup {NoType}
                        /\ item.claims \in TriFacts
                        /\ item.purposes \subseteq Purposes

\* A flag of a manifest counts as what it says, or not at all.
LEMMA DeclaredIs ==
    ASSUME NEW flag
    PROVE  /\ Declared(flag) \in Tri
           /\ \A value \in {"YES", "NO"} : Declared(flag) = value <=> flag = value
BY DEF Declared, Tri

\* The evidence of every source is well typed.
LEMMA SourcesGiveEvidence ==
    ASSUME NEW s, IsSources(s)
    PROVE  /\ TypedEvidence(InspectPermissions(s))
           /\ TypedEvidence(AllManifestEvidence(s))
           /\ \A m : TypedEvidence(RequiredReasonEvidence(s, m))
           /\ TypedEvidence(InspectDependencies(s))
           /\ TypedEvidence(InspectNetworkSignals(s))
           /\ TypedEvidence(InspectLocalPrivacyAnswers(s))
<1>1. Silent \in TriFacts
  BY DEF Silent, TriFacts, Tri
<1>2. TypedEvidence(InspectPermissions(s))
  BY <1>1 DEF Evidence, InspectPermissions, TypedEvidence, IsSources
<1>3. TypedEvidence(AllManifestEvidence(s))
  <2>1. ASSUME NEW path \in ReadableManifests(s)
        PROVE  TypedEvidence(ManifestEvidence(path, s.manifests[path]))
    <3> DEFINE m == s.manifests[path]
    <3>1. m \in Manifests
      BY <2>1 DEF ReadableManifests, IsSources
    <3>2. [Silent EXCEPT !.tracking = Declared(m.tracking)] \in TriFacts
      BY <1>1, DeclaredIs DEF TriFacts, TriFields
    <3>3. TypedEvidence({Evidence(<<"manifest_tracking_flag", path, "-">>, NoType,
                                  [Silent EXCEPT !.tracking = Declared(m.tracking)], {},
                                  m.tracking \notin {"YES", "NO"})})
      BY <3>2 DEF Evidence, TypedEvidence
    <3>4. TypedEvidence({Evidence(<<"manifest_tracking_domain", path, "-">>, NoType, Silent, {}, TRUE)})
      BY <1>1 DEF Evidence, TypedEvidence
    <3>5. ASSUME NEW entry \in m.collected
          PROVE  TypedEvidence({CollectedEvidence(path, entry)})
      <4>1. entry \in CollectedTypes
        BY <3>1 DEF Manifests
      <4>2. entry.type \in DataTypes /\ entry.purposes \ {"invalid"} \subseteq Purposes
        BY <4>1 DEF CollectedTypes
      <4>3. [ collection     |-> "YES",
              linked_to_user |-> Declared(entry.linked),
              tracking       |-> Declared(entry.tracking) ] \in TriFacts
        BY DeclaredIs DEF TriFacts, TriFields, Tri
      <4>4. QED
        BY <4>2, <4>3 DEF Evidence, CollectedEvidence, TypedEvidence
    <3>6. TypedEvidence({Evidence(<<"manifest_required_reason_entry", path, entry.category>>,
                                  NoType, Silent, {}, FALSE) : entry \in m.accessed})
      BY <1>1 DEF Evidence, TypedEvidence
    <3> HIDE DEF m
    <3>7. TypedEvidence({CollectedEvidence(path, entry) : entry \in m.collected})
      BY <3>5 DEF TypedEvidence
    <3>8. QED
      BY <3>3, <3>4, <3>6, <3>7 DEF ManifestEvidence, When, TypedEvidence, m
  <2>2. QED
    BY <2>1 DEF AllManifestEvidence, TypedEvidence
<1>4. \A m : TypedEvidence(RequiredReasonEvidence(s, m))
  BY <1>1 DEF Evidence, RequiredReasonEvidence, TypedEvidence
<1>5. TypedEvidence(InspectDependencies(s))
  BY <1>1 DEF Evidence, InspectDependencies, TypedEvidence, IsSources
<1>6. TypedEvidence(InspectNetworkSignals(s))
  BY <1>1 DEF Evidence, InspectNetworkSignals, When, TypedEvidence
<1>7. TypedEvidence(InspectLocalPrivacyAnswers(s))
  BY DEF Evidence, InspectLocalPrivacyAnswers, TypedEvidence, IsSources, Answers
<1>8. QED
  BY <1>2, <1>3, <1>4, <1>5, <1>6, <1>7

\* What is asked, and of what there are candidates, are data types.
LEMMA ResultType ==
    ASSUME NEW ev, NEW is, NEW status, TypedEvidence(ev)
    PROVE  LET result == PrivacyResult(ev, is, status)
           IN /\ result.gate \in {"BLOCKED", "CONDITIONAL", "PASS"}
              /\ DOMAIN result.candidates \subseteq DataTypes
              /\ result.questions \subseteq DataTypes \X (TriFields \cup {"purpose"})
<1> DEFINE contradictions == FindContradictions(ev, is)
           candidates == BuildCandidates(ev, contradictions)
           result == PrivacyResult(ev, is, status)
<1>1. /\ result.gate = PrivacyGate(ev, is, contradictions, candidates, status)
      /\ result.candidates = candidates /\ result.questions = Questions(candidates)
  BY DEF PrivacyResult
<1>2. PrivacyGate(ev, is, contradictions, candidates, status) \in {"BLOCKED", "CONDITIONAL", "PASS"}
  BY DEF PrivacyGate
<1>3. SubjectsOf(ev) \subseteq DataTypes
  BY DEF SubjectsOf, TypedEvidence
<1>4. DOMAIN candidates = SubjectsOf(ev)
  BY DEF BuildCandidates
<1> HIDE DEF candidates, result
<1>5. Questions(candidates) \subseteq (DOMAIN candidates) \X (TriFields \cup {"purpose"})
  BY DEF Questions
<1>6. QED
  BY <1>1, <1>2, <1>3, <1>4, <1>5 DEF result

\* Answering leaves the other sources alone.
LEMMA AnsweringKeepsSources ==
    ASSUME NEW s, IsSources(s), NEW t \in DataTypes, NEW answer \in Answers
    PROVE  /\ IsSources(Answering(s, t, answer))
           /\ DOMAIN Answering(s, t, answer).answers = DOMAIN s.answers \cup {t}
           /\ Answering(s, t, answer).answers[t] = answer
           /\ \A u \in DOMAIN s.answers \ {t} : Answering(s, t, answer).answers[u] = s.answers[u]
           /\ \A field \in DOMAIN s \ {"answers"} : Answering(s, t, answer)[field] = s[field]
           /\ DOMAIN Answering(s, t, answer) = DOMAIN s
BY DEF IsSources, Answering

\* The answer to a question is an answer.
LEMMA AnswersAre ==
    ASSUME NEW s, IsSources(s), NEW t \in DataTypes
    PROVE  /\ AnswerOf(s, t) \in Answers
           /\ \A f \in TriFields, value \in {"YES", "NO"} :
                  [AnswerOf(s, t) EXCEPT !.claims[f] = value] \in Answers
           /\ \A p \in Purposes : [AnswerOf(s, t) EXCEPT !.purposes = @ \cup {p}] \in Answers
<1>1. AnswerOf(s, t) \in Answers
  BY DEF AnswerOf, IsSources, Answers, Silent, TriFacts, Tri
<1>2. QED
  BY <1>1 DEF Answers, TriFacts, Tri

\* Every inspection reads its own part of the sources.
LEMMA InspectionsRead ==
    ASSUME NEW p, NEW q
    PROVE  /\ p.permissions = q.permissions => InspectPermissions(p) = InspectPermissions(q)
           /\ p.manifests = q.manifests =>
                  /\ AllManifestEvidence(p) = AllManifestEvidence(q)
                  /\ AllManifestIssues(p) = AllManifestIssues(q)
           /\ p.code = q.code /\ p.uses = q.uses =>
                  \A m : /\ RequiredReasonEvidence(p, m) = RequiredReasonEvidence(q, m)
                         /\ RequiredReasonIssues(p, m) = RequiredReasonIssues(q, m)
           /\ p.sdks = q.sdks => InspectDependencies(p) = InspectDependencies(q)
           /\ p.answers = q.answers => InspectLocalPrivacyAnswers(p) = InspectLocalPrivacyAnswers(q)
<1>1. p.permissions = q.permissions => InspectPermissions(p) = InspectPermissions(q)
  BY DEF InspectPermissions
<1>2. ASSUME p.manifests = q.manifests
      PROVE  /\ AllManifestEvidence(p) = AllManifestEvidence(q)
             /\ AllManifestIssues(p) = AllManifestIssues(q)
  <2>1. ReadableManifests(p) = ReadableManifests(q)
    BY <1>2 DEF ReadableManifests
  <2>2. QED
    BY <1>2, <2>1 DEF AllManifestEvidence, AllManifestIssues
<1>3. ASSUME p.code = q.code, p.uses = q.uses
      PROVE  \A m : /\ RequiredReasonEvidence(p, m) = RequiredReasonEvidence(q, m)
                    /\ RequiredReasonIssues(p, m) = RequiredReasonIssues(q, m)
  <2>1. \A c : Found(p, c) <=> Found(q, c)
    BY <1>3 DEF Found
  <2>2. QED
    BY <2>1 DEF RequiredReasonEvidence, RequiredReasonIssues
<1>4. p.sdks = q.sdks => InspectDependencies(p) = InspectDependencies(q)
  BY DEF InspectDependencies
<1>5. p.answers = q.answers => InspectLocalPrivacyAnswers(p) = InspectLocalPrivacyAnswers(q)
  BY DEF InspectLocalPrivacyAnswers
<1>6. QED
  BY <1>1, <1>2, <1>3, <1>4, <1>5

LEMMA UnreadIsSources == IsSources(Unread)
<1>1. DOMAIN <<>> = {}
  OBVIOUS
<1>2. QED
  BY <1>1 DEF Unread, IsSources

\* Each reading is of one part of the sources s and leaves the others seen.
LEMMA PermissionsSeen ==
    ASSUME NEW s, IsSources(s), NEW n, n = [Unread EXCEPT !.permissions = s.permissions]
    PROVE  IsSources(n) /\ n.permissions = s.permissions
BY UnreadIsSources DEF IsSources

LEMMA ManifestsSeen ==
    ASSUME NEW s, IsSources(s), NEW r, IsSources(r), NEW n, n = [r EXCEPT !.manifests = s.manifests]
    PROVE  IsSources(n) /\ n.permissions = r.permissions /\ n.manifests = s.manifests
BY DEF IsSources

LEMMA CodeSeen ==
    ASSUME NEW s, IsSources(s), NEW r, IsSources(r),
           NEW n, n = [r EXCEPT !.code = s.code, !.uses = s.uses]
    PROVE  IsSources(n)
BY DEF IsSources

LEMMA DependenciesSeen ==
    ASSUME NEW s, IsSources(s), NEW r, IsSources(r),
           NEW n, n = [r EXCEPT !.sdks = s.sdks, !.http = s.http]
    PROVE  IsSources(n)
BY DEF IsSources

LEMMA AnswersSeen ==
    ASSUME NEW s, IsSources(s), NEW r, IsSources(r), NEW n, n = [r EXCEPT !.answers = s.answers]
    PROVE  /\ IsSources(n)
           /\ n.permissions = r.permissions /\ n.manifests = r.manifests
           /\ n.code = r.code /\ n.uses = r.uses /\ n.sdks = r.sdks /\ n.answers = s.answers
BY DEF IsSources

\* What the search for a network finds: nothing about a data type.
Signals(items) ==
    \A item \in items : item.type = NoType /\ Kind(item) \in {"network_http_client", "network_signal"}

LEMMA NetworkSignals == \A s : Signals(InspectNetworkSignals(s))
BY DEF InspectNetworkSignals, When, Evidence, Signals, Kind

\* Once the disclosure is among the evidence, such a signal decides nothing.
LEMMA SignalsDecideNothing ==
    ASSUME NEW ev, Unverified \in ev, NEW signals, Signals(signals), NEW is, NEW status
    PROVE  PrivacyResult(ev \cup signals, is, status) = PrivacyResult(ev, is, status)
<1> DEFINE all == ev \cup signals
<1>1. \A t : t # NoType => Of(all, t) = Of(ev, t)
  BY DEF Of, Signals
<1>2. SubjectsOf(all) = SubjectsOf(ev)
  BY DEF SubjectsOf, Signals
<1>3. \A t \in SubjectsOf(ev) : t # NoType
  BY DEF SubjectsOf
<1>4. ManifestPurposes(all) = ManifestPurposes(ev)
  <2>1. {e \in all : Kind(e) = "manifest_collected_data_type"}
            = {e \in ev : Kind(e) = "manifest_collected_data_type"}
    BY DEF Signals
  <2>2. QED
    BY <2>1 DEF ManifestPurposes
<1> HIDE DEF all
<1>5. FindContradictions(all, is) = FindContradictions(ev, is)
  <2> DEFINE Conflicts(e) == {c \in SubjectsOf(e) \X TriFields : HasConflict(Of(e, c[1]), c[2])}
             Of1(e, c) == Contradiction(<<"CONFLICT", c[1], c[2]>>,
                              {(CHOOSE item \in Saying(Of(e, c[1]), c[2], v) : TRUE).id :
                                   v \in {"YES", "NO"}})
             Bare(e) == {item \in e : /\ Kind(item) = "sdk_dependency"
                                      /\ item.purposes \cap Advertising # {}
                                      /\ item.purposes \cap ManifestPurposes(e) = {}}
  <2>1. Conflicts(all) = Conflicts(ev)
    BY <1>1, <1>2, <1>3
  <2>2. \A c \in Conflicts(ev) : Of1(all, c) = Of1(ev, c)
    BY <1>1, <1>3
  <2>3. Bare(all) = Bare(ev)
    BY <1>4 DEF Signals, all
  <2>4. \A e : FindContradictions(e, is) =
            {Of1(e, c) : c \in Conflicts(e)}
            \cup {Contradiction(<<"TRACKING_DOMAIN_WITHOUT_FLAG", i.path, "-">>,
                                {<<"manifest_tracking_flag", i.path, "-">>}) :
                    i \in {i \in is : i.code = "TRACKING_DOMAIN_WITHOUT_FLAG"}}
            \cup {Contradiction(<<"SDK_WITHOUT_PRIVACY_EVIDENCE", item.id[3], "-">>, {item.id}) :
                    item \in Bare(e)}
    BY DEF FindContradictions
  <2> HIDE DEF Conflicts, Of1, Bare
  <2>5. {Of1(all, c) : c \in Conflicts(all)} = {Of1(ev, c) : c \in Conflicts(ev)}
    BY <2>1, <2>2
  <2>6. QED
    BY <2>3, <2>4, <2>5
<1>6. \A found : BuildCandidates(all, found) = BuildCandidates(ev, found)
  BY <1>1, <1>2, <1>3 DEF BuildCandidates
<1>7. \A candidates : HasUnresolvedFacts(all, candidates, status)
                          /\ HasUnresolvedFacts(ev, candidates, status)
  <2>1. Unverified \in all /\ Unverified.confirm /\ Unverified.type = NoType
    BY DEF all, Unverified, Evidence
  <2>2. QED
    BY <2>1 DEF HasUnresolvedFacts
<1>8. \A found, candidates : PrivacyGate(all, is, found, candidates, status)
                                 = PrivacyGate(ev, is, found, candidates, status)
  BY <1>7 DEF PrivacyGate
<1>9. QED
  BY <1>5, <1>6, <1>8 DEF PrivacyResult, all

\* The sources are always sources, and what has been read of them is evidence.
SourcesAreRead == IsSources(sources) /\ IsSources(seen) /\ TypedEvidence(evidence)

LEMMA SourcesStay == Spec => []SourcesAreRead
<1>1. Init => SourcesAreRead
  BY UnreadIsSources, ReviewsAssumption DEF Init, SourcesAreRead, TypedEvidence
<1>2. ASSUME SourcesAreRead, [Next]_vars
      PROVE  SourcesAreRead'
  <2>1. CASE UNCHANGED vars \/ EditCode \/ \E k \in Keys, size \in Sizes \X Sizes : Measure(k, size)
    BY <1>2, <2>1 DEF vars, app, EditCode, Measure, Change, SourcesAreRead, TypedEvidence
  <2>2. CASE RunNext
    <3>1. IsSources(sources) /\ IsSources(seen)
      BY <1>2 DEF SourcesAreRead
    <3>2. sources' = sources
      BY <2>2 DEF RunNext, Start, ReadManifests, ReadApis, ReadDependencies, Conclude,
                  ReviewDesign, app
    <3>3. /\ TypedEvidence(evidence)
          /\ \A items : TypedEvidence(items) => TypedEvidence(evidence \cup items)
      BY <1>2 DEF SourcesAreRead, TypedEvidence
    <3>4. TypedEvidence(evidence')
      <4>1. CASE \E status \in {"PASS", "UNKNOWN"} : Start(status)
        BY <4>1, <3>1, SourcesGiveEvidence DEF Start
      <4>2. CASE ReadManifests
        BY <4>2, <3>1, <3>3, SourcesGiveEvidence DEF ReadManifests
      <4>3. CASE ReadApis
        BY <4>3, <3>1, <3>3, SourcesGiveEvidence DEF ReadApis
      <4>4. CASE ReadDependencies
        <5>1. TypedEvidence(InspectDependencies(sources)) /\ TypedEvidence(InspectNetworkSignals(sources))
          BY <3>1, SourcesGiveEvidence
        <5>2. QED
          BY <4>4, <5>1, <3>3 DEF ReadDependencies, TypedEvidence
      <4>5. CASE Conclude
        BY <4>5, <3>1, <3>3, SourcesGiveEvidence DEF Conclude
      <4>6. CASE ReviewDesign
        BY <4>6, <3>3 DEF ReviewDesign
      <4>7. QED
        BY <2>2, <4>1, <4>2, <4>3, <4>4, <4>5, <4>6 DEF RunNext
    <3>5. IsSources(seen')
      <4>1. CASE \E status \in {"PASS", "UNKNOWN"} : Start(status)
        BY <4>1, <3>1, PermissionsSeen DEF Start
      <4>2. CASE ReadManifests
        BY <4>2, <3>1, ManifestsSeen DEF ReadManifests
      <4>3. CASE ReadApis
        BY <4>3, <3>1, CodeSeen DEF ReadApis
      <4>4. CASE ReadDependencies
        BY <4>4, <3>1, DependenciesSeen DEF ReadDependencies
      <4>5. CASE Conclude
        BY <4>5, <3>1, AnswersSeen DEF Conclude
      <4>6. CASE ReviewDesign
        BY <4>6, <3>1 DEF ReviewDesign
      <4>7. QED
        BY <2>2, <4>1, <4>2, <4>3, <4>4, <4>5, <4>6 DEF RunNext
    <3>6. QED
      BY <3>1, <3>2, <3>4, <3>5 DEF SourcesAreRead
  <2>3. ASSUME NEW t \in DataTypes, NEW f \in TriFields, NEW value \in {"YES", "NO"},
               Answer(t, f, value)
        PROVE  SourcesAreRead'
    <3>1. IsSources(sources')
      BY <1>2, <2>3, AnswersAre, AnsweringKeepsSources DEF Answer, SourcesAreRead
    <3>2. QED
      BY <1>2, <2>3, <3>1 DEF Answer, Change, SourcesAreRead
  <2>4. ASSUME NEW t \in DataTypes, NEW p \in {"OTHER"}, AnswerPurpose(t, p)
        PROVE  SourcesAreRead'
    <3>1. p \in Purposes
      BY DEF Purposes
    <3>2. IsSources(sources')
      BY <1>2, <2>4, <3>1, AnswersAre, AnsweringKeepsSources DEF AnswerPurpose, SourcesAreRead
    <3>3. QED
      BY <1>2, <2>4, <3>2 DEF AnswerPurpose, Change, SourcesAreRead
  <2>5. CASE EditSources
    <3>1. PICK s \in SourceSet : sources' = [s EXCEPT !.answers = sources.answers]
      BY <2>5 DEF EditSources
    <3>2. IsSources(s)
      BY ReviewsAssumption
    <3>3. IsSources(sources')
      BY <1>2, <3>1, <3>2 DEF IsSources, SourcesAreRead
    <3>4. QED
      BY <1>2, <2>5, <3>3 DEF EditSources, Change, SourcesAreRead
  <2>6. QED
    BY <1>2, <2>1, <2>2, <2>3, <2>4, <2>5 DEF Next, PersonNext
<1>3. QED
  BY <1>1, <1>2, PTL DEF Spec

-----------------------------------------------------------------------------
(* What has been read *)

\* What has been read, whoever edits the sources meanwhile, is what is found in the
\* sources as they were seen; only of what the second search of the code found does
\* nothing remain in them.
ReadSoFar ==
    /\ pc = "manifests" => evidence = InspectPermissions(seen)
    /\ pc = "apis" =>
        /\ manifest = AllManifestEvidence(seen)
        /\ evidence = InspectPermissions(seen) \cup AllManifestEvidence(seen)
        /\ issues = AllManifestIssues(seen)
    /\ pc = "dependencies" =>
        evidence = InspectPermissions(seen) \cup AllManifestEvidence(seen)
                   \cup RequiredReasonEvidence(seen, AllManifestEvidence(seen))
    /\ pc = "answers" =>
        \E signals : /\ Signals(signals)
                     /\ evidence = InspectPermissions(seen) \cup AllManifestEvidence(seen)
                                   \cup RequiredReasonEvidence(seen, AllManifestEvidence(seen))
                                   \cup InspectDependencies(seen) \cup signals
    /\ pc \in {"dependencies", "answers"} => issues = AllIssues(seen)
    /\ privacy # NULL => privacy = PrivacyOfSources(seen, policy)

\* The inductive invariant.
Reading ==
    /\ ReadSoFar
    /\ pc \in {"manifests", "apis", "dependencies", "answers"} => privacy = NULL
    /\ design # NULL => \E d \in FactSet : \E m : design = DesignResult(d, m)
    /\ facts \in FactSet

\* The invariant of the reading run.
LEMMA ReadingHolds == Spec => []Reading
<1>1. Init => Reading
  BY DEF Init, Reading, ReadSoFar
<1>2. ASSUME Reading, SourcesAreRead, [Next]_vars
      PROVE  Reading'
  <2>1. IsSources(sources) /\ IsSources(seen)
    BY <1>2 DEF SourcesAreRead
  <2>2. CASE UNCHANGED vars
    BY <1>2, <2>2 DEF vars, app, Reading, ReadSoFar
  <2>3. ASSUME NEW status, Start(status)
        PROVE  Reading'
    <3>1. seen' = [Unread EXCEPT !.permissions = sources.permissions]
      BY <2>3 DEF Start
    <3>2. InspectPermissions(seen') = InspectPermissions(sources)
      BY <2>1, <3>1, PermissionsSeen, InspectionsRead
    <3>3. QED
      BY <1>2, <2>3, <3>2 DEF Start, app, Reading, ReadSoFar
  <2>4. CASE ReadManifests
    <3>1. seen' = [seen EXCEPT !.manifests = sources.manifests]
      BY <2>4 DEF ReadManifests
    <3>2. /\ InspectPermissions(seen') = InspectPermissions(seen)
          /\ AllManifestEvidence(seen') = AllManifestEvidence(sources)
          /\ AllManifestIssues(seen') = AllManifestIssues(sources)
      BY <2>1, <3>1, ManifestsSeen, InspectionsRead
    <3>3. QED
      BY <1>2, <2>4, <3>2 DEF ReadManifests, app, Reading, ReadSoFar
  <2>5. CASE ReadApis
    <3>1. seen' = [seen EXCEPT !.code = sources.code, !.uses = sources.uses]
      BY <2>5 DEF ReadApis
    <3>2. /\ InspectPermissions(seen') = InspectPermissions(seen)
          /\ AllManifestEvidence(seen') = AllManifestEvidence(seen)
          /\ AllManifestIssues(seen') = AllManifestIssues(seen)
          /\ \A m : /\ RequiredReasonEvidence(seen', m) = RequiredReasonEvidence(sources, m)
                    /\ RequiredReasonIssues(seen', m) = RequiredReasonIssues(sources, m)
      <4>1. /\ seen'.permissions = seen.permissions /\ seen'.manifests = seen.manifests
            /\ seen'.code = sources.code /\ seen'.uses = sources.uses
        BY <2>1, <3>1 DEF IsSources
      <4>2. QED
        BY <4>1, InspectionsRead
    <3>3. QED
      BY <1>2, <2>5, <3>2 DEF ReadApis, app, AllIssues, Reading, ReadSoFar
  <2>6. CASE ReadDependencies
    <3>1. seen' = [seen EXCEPT !.sdks = sources.sdks, !.http = sources.http]
      BY <2>6 DEF ReadDependencies
    <3>2. /\ InspectPermissions(seen') = InspectPermissions(seen)
          /\ AllManifestEvidence(seen') = AllManifestEvidence(seen)
          /\ AllIssues(seen') = AllIssues(seen)
          /\ \A m : RequiredReasonEvidence(seen', m) = RequiredReasonEvidence(seen, m)
          /\ InspectDependencies(seen') = InspectDependencies(sources)
      <4>1. /\ seen'.permissions = seen.permissions /\ seen'.manifests = seen.manifests
            /\ seen'.code = seen.code /\ seen'.uses = seen.uses /\ seen'.sdks = sources.sdks
        BY <2>1, <3>1 DEF IsSources
      <4>2. QED
        BY <4>1, InspectionsRead DEF AllIssues
    <3>3. Signals(InspectNetworkSignals(sources))
      BY NetworkSignals
    <3>4. QED
      BY <1>2, <2>6, <3>2, <3>3 DEF ReadDependencies, app, Reading, ReadSoFar
  <2>7. CASE Conclude
    <3>1. seen' = [seen EXCEPT !.answers = sources.answers]
      BY <2>7 DEF Conclude
    <3>2. /\ InspectPermissions(seen') = InspectPermissions(seen)
          /\ AllManifestEvidence(seen') = AllManifestEvidence(seen)
          /\ AllIssues(seen') = AllIssues(seen)
          /\ \A m : RequiredReasonEvidence(seen', m) = RequiredReasonEvidence(seen, m)
          /\ InspectDependencies(seen') = InspectDependencies(seen)
          /\ InspectLocalPrivacyAnswers(seen') = InspectLocalPrivacyAnswers(sources)
      BY <2>1, <3>1, AnswersSeen, InspectionsRead DEF AllIssues
    <3> DEFINE found == InspectPermissions(seen') \cup AllManifestEvidence(seen')
                        \cup RequiredReasonEvidence(seen', AllManifestEvidence(seen'))
                        \cup InspectDependencies(seen') \cup InspectLocalPrivacyAnswers(seen')
    <3>3. PICK signals : Signals(signals) /\ evidence' = found \cup signals
      BY <1>2, <2>7, <3>2 DEF Conclude, Reading, ReadSoFar
    <3>4. AllEvidence(seen') = found \cup InspectNetworkSignals(seen')
      BY DEF AllEvidence
    <3>5. Unverified \in found
      BY DEF RequiredReasonEvidence, Unverified
    <3>6. issues = AllIssues(seen')
      BY <1>2, <2>7, <3>2 DEF Conclude, Reading, ReadSoFar
    <3>7. privacy' = PrivacyOfSources(seen', policy)
      <4> HIDE DEF found
      <4>1. PrivacyResult(evidence', issues, policy) = PrivacyResult(found, issues, policy)
        BY <3>3, <3>5, SignalsDecideNothing
      <4>2. PrivacyResult(AllEvidence(seen'), issues, policy) = PrivacyResult(found, issues, policy)
        BY <3>4, <3>5, NetworkSignals, SignalsDecideNothing
      <4>3. QED
        BY <2>7, <3>6, <4>1, <4>2 DEF Conclude, PrivacyOfSources
    <3>8. QED
      BY <1>2, <2>7, <3>7 DEF Conclude, app, Reading, ReadSoFar
  <2>8. CASE ReviewDesign
    <3>1. design' = DesignResult(facts, measured)
      BY <2>8 DEF ReviewDesign
    <3>2. QED
      BY <1>2, <2>8, <3>1 DEF ReviewDesign, app, Reading, ReadSoFar
  <2>9. CASE PersonNext
    <3>1. Change /\ facts' \in FactSet
      BY <1>2, <2>9 DEF PersonNext, Answer, AnswerPurpose, EditSources, EditCode, Measure, Reading
    <3>2. QED
      BY <1>2, <3>1 DEF Change, Reading, ReadSoFar
  <2>10. QED
    BY <1>2, <2>2, <2>3, <2>4, <2>5, <2>6, <2>7, <2>8, <2>9 DEF Next, RunNext
<1>3. QED
  BY <1>1, <1>2, SourcesStay, PTL DEF Spec

\* What a run printed is what one look at the sources as it saw them gives.
ResultIs == privacy # NULL => privacy = PrivacyOfSources(seen, policy)

LEMMA ResultHolds == Spec => [](IsSources(seen) /\ ResultIs)
<1>1. SourcesAreRead /\ Reading => IsSources(seen) /\ ResultIs
  BY DEF SourcesAreRead, Reading, ReadSoFar, ResultIs
<1>2. QED
  BY <1>1, SourcesStay, ReadingHolds, PTL

\* The gate and the table of areas never disagree (DesignReviewResult.gate,
\* area_status).
THEOREM DesignGateIsWorstArea == Spec => []GateIsWorstArea
<1>1. Reading => GateIsWorstArea
  BY GateOfAreas DEF Reading, GateIsWorstArea
<1>2. QED
  BY <1>1, ReadingHolds, PTL

\* The type invariant, with what it rests on.
THEOREM AreaTypeCorrect == Spec => []TypeOK
<1>1. Init => TypeOK
  <2>1. <<>> \in [{} -> Sizes \X Sizes]
    OBVIOUS
  <2>2. {} \in SUBSET Keys
    OBVIOUS
  <2>3. <<>> \in UNION {[K -> Sizes \X Sizes] : K \in SUBSET Keys}
    BY <2>1, <2>2
  <2>4. Init => IsSources(seen) /\ changes \in 0..MaxChanges
    BY UnreadIsSources, ReviewsAssumption DEF Init
  <2>5. QED
    BY <2>3, <2>4 DEF Init, TypeOK
<1>2. ASSUME TypeOK, SourcesAreRead, SourcesAreRead', Reading', [Next]_vars
      PROVE  TypeOK'
  <2> USE <1>2
  <2>1. TypedEvidence(evidence')
    BY DEF SourcesAreRead
  <2>2. design' # NULL => /\ design'.gate \in {"BLOCKED", "CONDITIONAL", "PASS"}
                          /\ design'.area \in [DesignAreaNames -> Statuses]
    BY GateOfAreas DEF Reading
  <2>3. privacy' # NULL =>
          /\ privacy'.gate \in {"BLOCKED", "CONDITIONAL", "PASS"}
          /\ DOMAIN privacy'.candidates \subseteq DataTypes
          /\ privacy'.questions \subseteq DataTypes \X (TriFields \cup {"purpose"})
    <3>1. CASE Conclude
      BY <2>1, <3>1, ResultType DEF Conclude
    <3>2. CASE ~Conclude
      <4>1. privacy' = NULL \/ privacy' = privacy
        BY <3>2 DEF Next, RunNext, PersonNext, Start, ReadManifests, ReadApis, ReadDependencies,
                    ReviewDesign, Answer, AnswerPurpose, EditSources, EditCode, Measure, Change, vars
      <4>2. QED
        BY <4>1 DEF TypeOK
    <3>3. QED
      BY <3>1, <3>2
  <2>4. measured' \in UNION {[K -> Sizes \X Sizes] : K \in SUBSET Keys}
    <3>1. CASE \E k \in Keys, size \in Sizes \X Sizes : Measure(k, size)
      <4>1. PICK k \in Keys, size \in Sizes \X Sizes : Measure(k, size)
        BY <3>1
      <4>2. PICK K \in SUBSET Keys : measured \in [K -> Sizes \X Sizes]
        BY DEF TypeOK
      <4>3. measured' \in [K \cup {k} -> Sizes \X Sizes]
        BY <4>1, <4>2 DEF Measure
      <4>4. QED
        BY <4>3
    <3>2. CASE ~\E k \in Keys, size \in Sizes \X Sizes : Measure(k, size)
      <4>1. measured' = measured
        BY <3>2 DEF Next, RunNext, PersonNext, Start, ReadManifests, ReadApis, ReadDependencies, Conclude,
                    ReviewDesign, Answer, AnswerPurpose, EditSources, EditCode, vars, app
      <4>2. QED
        BY <4>1 DEF TypeOK
    <3>3. QED
      BY <3>1, <3>2
  <2>5. /\ pc' \in {"idle", "manifests", "apis", "dependencies", "answers", "design"}
        /\ policy' \in {"PASS", "UNKNOWN"}
    BY DEF TypeOK, Next, RunNext, PersonNext, Start, ReadManifests, ReadApis, ReadDependencies, Conclude,
           ReviewDesign, Answer, AnswerPurpose, EditSources, EditCode, Measure, Change, vars
  <2>6. changes' \in 0..MaxChanges
    <3>1. changes' = changes \/ (changes < MaxChanges /\ changes' = changes + 1)
      BY DEF Next, RunNext, PersonNext, Start, ReadManifests, ReadApis, ReadDependencies, Conclude,
             ReviewDesign, Answer, AnswerPurpose, EditSources, EditCode, Measure, Change, vars
    <3>2. QED
      BY <3>1, ReviewsAssumption DEF TypeOK
  <2>7. IsSources(seen')
    BY DEF SourcesAreRead
  <2>8. QED
    BY <2>1, <2>2, <2>3, <2>4, <2>5, <2>6, <2>7 DEF TypeOK, TypedEvidence
<1>3. QED
  BY <1>1, <1>2, ReadingHolds, SourcesStay, PTL DEF Spec

-----------------------------------------------------------------------------
(* Phase 4: what the evidence says of a data type *)

PermissionItem(t) == Evidence(<<"permission_declaration", "Info.plist", t>>, t, Silent, {}, TRUE)

AnswerItem(s, t) ==
    Evidence(<<"local_privacy_answer_attestation", "answers", t>>, t,
             s.answers[t].claims, s.answers[t].purposes, FALSE)

\* Only permissions, entries of manifests and answers are about a data type.
LEMMA EvidenceAbout ==
    ASSUME NEW s, IsSources(s), NEW t \in DataTypes
    PROVE  \A item : item \in Of(AllEvidence(s), t) <=>
               \/ t \in s.permissions /\ item = PermissionItem(t)
               \/ \E path \in ReadableManifests(s) : \E entry \in s.manifests[path].collected :
                      entry.type = t /\ item = CollectedEvidence(path, entry)
               \/ t \in DOMAIN s.answers /\ item = AnswerItem(s, t)
<1>1. t # NoType
  BY TypesAssumption
<1>2. \A item : item \in Of(InspectPermissions(s), t) <=> t \in s.permissions /\ item = PermissionItem(t)
  BY DEF Of, InspectPermissions, PermissionItem, Evidence
<1>3. \A item : item \in Of(InspectLocalPrivacyAnswers(s), t) <=>
                   t \in DOMAIN s.answers /\ item = AnswerItem(s, t)
  BY DEF Of, InspectLocalPrivacyAnswers, AnswerItem, Evidence
<1>4. \A m : Of(RequiredReasonEvidence(s, m), t) = {}
  BY <1>1 DEF Of, RequiredReasonEvidence, Evidence
<1>5. Of(InspectDependencies(s), t) = {}
  BY <1>1 DEF Of, InspectDependencies, Evidence
<1>6. Of(InspectNetworkSignals(s), t) = {}
  BY <1>1 DEF Of, InspectNetworkSignals, When, Evidence
<1>7. \A item : item \in Of(AllManifestEvidence(s), t) <=>
          \E path \in ReadableManifests(s) : \E entry \in s.manifests[path].collected :
              entry.type = t /\ item = CollectedEvidence(path, entry)
  <2>1. ASSUME NEW path, NEW m, NEW item
        PROVE  item \in Of(ManifestEvidence(path, m), t) <=>
                   \E entry \in m.collected : entry.type = t /\ item = CollectedEvidence(path, entry)
    <3> DEFINE flag == Evidence(<<"manifest_tracking_flag", path, "-">>, NoType,
                                [Silent EXCEPT !.tracking = Declared(m.tracking)], {},
                                m.tracking \notin {"YES", "NO"})
               domain == Evidence(<<"manifest_tracking_domain", path, "-">>, NoType, Silent, {}, TRUE)
               reason(entry) == Evidence(<<"manifest_required_reason_entry", path, entry.category>>,
                                         NoType, Silent, {}, FALSE)
    <3>1. t # flag.type /\ t # domain.type /\ \A entry : t # reason(entry).type
      BY <1>1 DEF Evidence
    <3>2. \A entry : CollectedEvidence(path, entry).type = entry.type
      BY DEF CollectedEvidence, Evidence
    <3>3. ManifestEvidence(path, m) =
              {flag} \cup When(m.domains = "listed", domain)
              \cup {CollectedEvidence(path, entry) : entry \in m.collected}
              \cup {reason(entry) : entry \in m.accessed}
      BY DEF ManifestEvidence
    <3> HIDE DEF flag, domain, reason
    <3>4. QED
      BY <3>1, <3>2, <3>3 DEF When, Of
  <2>2. ASSUME NEW item
        PROVE  item \in Of(AllManifestEvidence(s), t) <=>
                   \E path \in ReadableManifests(s) : item \in Of(ManifestEvidence(path, s.manifests[path]), t)
    BY DEF AllManifestEvidence, Of
  <2>3. QED
    BY <2>1, <2>2
<1>8. \A item : item \in Of(AllEvidence(s), t) <=>
          \/ item \in Of(InspectPermissions(s), t)
          \/ item \in Of(AllManifestEvidence(s), t)
          \/ item \in Of(InspectLocalPrivacyAnswers(s), t)
  BY <1>4, <1>5, <1>6 DEF AllEvidence, Of
<1>9. QED
  BY <1>2, <1>3, <1>7, <1>8

\* A claim is in the evidence exactly when a source makes it.
LEMMA SayingIsDeclaring ==
    ASSUME NEW s, IsSources(s), NEW t \in DataTypes, NEW f \in TriFields, NEW value \in {"YES", "NO"}
    PROVE  Saying(Of(AllEvidence(s), t), f, value) # {} <=> Declares(s, t, f, value)
<1>1. PermissionItem(t).claims[f] # value
  BY DEF PermissionItem, Evidence, Silent
<1>2. AnswerItem(s, t).claims[f] = s.answers[t].claims[f]
  BY DEF AnswerItem, Evidence
<1>3. ASSUME NEW path, NEW entry
      PROVE  CollectedEvidence(path, entry).claims[f] = value <=>
                 value = CASE f = "collection"     -> "YES"
                           [] f = "linked_to_user" -> entry.linked
                           [] f = "tracking"       -> entry.tracking
  <2>1. CollectedEvidence(path, entry).claims = [ collection     |-> "YES",
                                                  linked_to_user |-> Declared(entry.linked),
                                                  tracking       |-> Declared(entry.tracking) ]
    BY DEF CollectedEvidence, Evidence
  <2>2. CASE f = "collection"
    BY <2>1, <2>2
  <2>3. CASE f = "linked_to_user"
    BY <2>1, <2>3, DeclaredIs
  <2>4. CASE f = "tracking"
    BY <2>1, <2>4, DeclaredIs
  <2>5. QED
    BY <2>2, <2>3, <2>4 DEF TriFields
<1>4. Saying(Of(AllEvidence(s), t), f, value) # {} <=>
          \/ \E path \in ReadableManifests(s) : \E entry \in s.manifests[path].collected :
                 entry.type = t /\ CollectedEvidence(path, entry).claims[f] = value
          \/ t \in DOMAIN s.answers /\ AnswerItem(s, t).claims[f] = value
  BY <1>1, EvidenceAbout DEF Saying
<1>5. QED
  BY <1>2, <1>3, <1>4 DEF Declares, ReadableManifests

\* A conflict in the evidence is a dispute among the sources.
LEMMA ConflictIsDispute ==
    ASSUME NEW s, IsSources(s), NEW t \in DataTypes, NEW f \in TriFields
    PROVE  HasConflict(Of(AllEvidence(s), t), f) <=> Disputed(s, t, f)
BY SayingIsDeclaring DEF HasConflict, Disputed

\* What a merged fact says (_merge).
LEMMA MergeIs ==
    ASSUME NEW items, NEW f
    PROVE  /\ Merge(items, f) = "YES" <=> Saying(items, f, "YES") # {} /\ ~HasConflict(items, f)
           /\ Merge(items, f) = "NO" <=> Saying(items, f, "NO") # {} /\ ~HasConflict(items, f)
           /\ HasConflict(items, f) => Merge(items, f) = "UNKNOWN"
<1>1. CASE HasConflict(items, f)
  BY <1>1 DEF Merge, HasConflict
<1>2. CASE ~HasConflict(items, f) /\ Saying(items, f, "YES") # {}
  BY <1>2 DEF Merge, HasConflict
<1>3. CASE ~HasConflict(items, f) /\ Saying(items, f, "NO") # {}
  BY <1>3 DEF Merge, HasConflict
<1>4. CASE Saying(items, f, "YES") = {} /\ Saying(items, f, "NO") = {}
  BY <1>4 DEF Merge, HasConflict
<1>5. QED
  BY <1>1, <1>2, <1>3, <1>4

\* What is said of a data type is named after it, and by one of three kinds.
LEMMA NamedAfterType ==
    ASSUME NEW s, IsSources(s), NEW t \in DataTypes, NEW item \in Of(AllEvidence(s), t)
    PROVE  /\ item.id[3] = t
           /\ Kind(item) \in {"permission_declaration", "manifest_collected_data_type",
                              "local_privacy_answer_attestation"}
           /\ Kind(item) = "permission_declaration" => t \in s.permissions
           /\ item.confirm => t \in s.permissions
<1>1. CASE t \in s.permissions /\ item = PermissionItem(t)
  BY <1>1 DEF PermissionItem, Evidence, Kind
<1>2. CASE \E path \in ReadableManifests(s) : \E entry \in s.manifests[path].collected :
               entry.type = t /\ item = CollectedEvidence(path, entry)
  BY <1>2 DEF CollectedEvidence, Evidence, Kind
<1>3. CASE t \in DOMAIN s.answers /\ item = AnswerItem(s, t)
  BY <1>3 DEF AnswerItem, Evidence, Kind
<1>4. QED
  BY <1>1, <1>2, <1>3, EvidenceAbout

\* A candidate is contradicted exactly when two sources dispute one of its
\* facts: no other contradiction shares evidence with it (_apply_contradictions).
LEMMA OnlyDisputesTouch ==
    ASSUME NEW s, IsSources(s), NEW t \in DataTypes
    PROVE  (\E c \in FindContradictions(AllEvidence(s), AllIssues(s)) :
                c.evidence \cap {item.id : item \in Of(AllEvidence(s), t)} # {})
           <=> \E f \in TriFields : HasConflict(Of(AllEvidence(s), t), f)
<1> DEFINE ev == AllEvidence(s)
           is == AllIssues(s)
           ids(u) == {item.id : item \in Of(ev, u)}
           Said(u, f) == {(CHOOSE item \in Saying(Of(ev, u), f, v) : TRUE).id : v \in {"YES", "NO"}}
           Conflicts == {c \in SubjectsOf(ev) \X TriFields : HasConflict(Of(ev, c[1]), c[2])}
           Touched == \E c \in FindContradictions(ev, is) : c.evidence \cap ids(t) # {}
<1>1. \A kind, set : Contradiction(kind, set).evidence = set
  BY DEF Contradiction
<1>2. ASSUME NEW u, NEW f, HasConflict(Of(ev, u), f)
      PROVE  Said(u, f) \subseteq ids(u) /\ Said(u, f) # {}
  <2>1. \A v \in {"YES", "NO"} : Saying(Of(ev, u), f, v) # {}
    BY <1>2 DEF HasConflict
  <2>2. \A v \in {"YES", "NO"} :
            (CHOOSE item \in Saying(Of(ev, u), f, v) : TRUE) \in Of(ev, u)
    BY <2>1 DEF Saying
  <2>3. QED
    BY <2>2
<1>3. \A u \in SubjectsOf(ev) : u \in DataTypes
  BY SourcesGiveEvidence DEF AllEvidence, TypedEvidence, SubjectsOf
<1>4. \A u \in DataTypes : \A id \in ids(u) :
          id[3] = u /\ id[1] \notin {"manifest_tracking_flag", "sdk_dependency"}
  BY NamedAfterType DEF Kind
<1>5. ASSUME NEW f \in TriFields, HasConflict(Of(ev, t), f)
      PROVE  Touched
  <2>1. t \in SubjectsOf(ev)
    BY <1>5, TypesAssumption DEF HasConflict, Saying, Of, SubjectsOf
  <2>2. Contradiction(<<"CONFLICT", t, f>>, Said(t, f)) \in FindContradictions(ev, is)
    <3>1. <<t, f>> \in Conflicts
      BY <1>5, <2>1
    <3>2. \A c \in Conflicts : Contradiction(<<"CONFLICT", c[1], c[2]>>, Said(c[1], c[2]))
                                   \in FindContradictions(ev, is)
      BY DEF FindContradictions
    <3>3. QED
      BY <3>1, <3>2
  <2>3. Said(t, f) \cap ids(t) # {}
    BY <1>2, <1>5
  <2>4. Contradiction(<<"CONFLICT", t, f>>, Said(t, f)).evidence = Said(t, f)
    BY <1>1
  <2> HIDE DEF Said, ids, ev, is
  <2>5. QED
    BY <2>2, <2>3, <2>4
<1>6. ASSUME NEW c \in FindContradictions(ev, is), c.evidence \cap ids(t) # {}
      PROVE  \E f \in TriFields : HasConflict(Of(ev, t), f)
  <2>1. \/ \E q \in Conflicts : c = Contradiction(<<"CONFLICT", q[1], q[2]>>, Said(q[1], q[2]))
        \/ \E i : c = Contradiction(<<"TRACKING_DOMAIN_WITHOUT_FLAG", i.path, "-">>,
                                    {<<"manifest_tracking_flag", i.path, "-">>})
        \/ \E item : /\ Kind(item) = "sdk_dependency"
                     /\ c = Contradiction(<<"SDK_WITHOUT_PRIVACY_EVIDENCE", item.id[3], "-">>, {item.id})
    BY <1>6 DEF FindContradictions
  <2>2. CASE \E q \in Conflicts : c = Contradiction(<<"CONFLICT", q[1], q[2]>>, Said(q[1], q[2]))
    <3>1. PICK u \in SubjectsOf(ev), f \in TriFields :
              HasConflict(Of(ev, u), f) /\ c.evidence = Said(u, f)
      BY <1>1, <2>2
    <3>2. PICK id : id \in ids(u) /\ id \in ids(t)
      BY <1>2, <1>6, <3>1
    <3>3. u = t
      BY <1>3, <1>4, <3>1, <3>2
    <3>4. QED
      BY <3>1, <3>3
  <2>3. CASE \E i : c = Contradiction(<<"TRACKING_DOMAIN_WITHOUT_FLAG", i.path, "-">>,
                                      {<<"manifest_tracking_flag", i.path, "-">>})
    BY <1>1, <1>4, <1>6, <2>3
  <2>4. CASE \E item : /\ Kind(item) = "sdk_dependency"
                       /\ c = Contradiction(<<"SDK_WITHOUT_PRIVACY_EVIDENCE", item.id[3], "-">>, {item.id})
    BY <1>1, <1>4, <1>6, <2>4 DEF Kind
  <2>5. QED
    BY <2>1, <2>2, <2>3, <2>4
<1>7. QED
  BY <1>5, <1>6

-----------------------------------------------------------------------------
(* Phase 4: the result *)

\* What the result for a data type is, in terms of who said what.
LEMMA CandidateIs ==
    ASSUME NEW s, IsSources(s), NEW status, NEW t \in DataTypes,
           t \in DOMAIN PrivacyOfSources(s, status).candidates
    PROVE  LET candidate == PrivacyOfSources(s, status).candidates[t]
               items == Of(AllEvidence(s), t)
               conflict == \E f \in TriFields : HasConflict(items, f)
           IN /\ \A f \in TriFields : candidate.facts[f] = Merge(items, f)
              /\ conflict => candidate.state = "CONTRADICTED"
              /\ candidate.state = "CONFIRMED" <=>
                     /\ t \notin s.permissions
                     /\ \A f \in TriFields : Merge(items, f) # "UNKNOWN"
<1> DEFINE ev == AllEvidence(s)
           contradictions == FindContradictions(ev, AllIssues(s))
           items == Of(ev, t)
           plain == BuildCandidate(items)
           candidate == PrivacyOfSources(s, status).candidates[t]
           conflict == \E f \in TriFields : HasConflict(items, f)
           unresolved == \E f \in TriFields : Merge(items, f) = "UNKNOWN"
           deterministic == \A item \in items : Kind(item) \in DeterministicKinds
           touched == \E c \in contradictions : c.evidence \cap plain.evidence # {}
<1>1. candidate = ApplyContradictions(plain, contradictions)
  BY DEF PrivacyOfSources, PrivacyResult, BuildCandidates
<1>2. plain = [ facts    |-> [f \in TriFields |-> Merge(items, f)],
                purposes |-> UNION {item.purposes : item \in items},
                evidence |-> {item.id : item \in items},
                state    |-> CASE conflict \/ unresolved                     -> "UNKNOWN"
                               [] ~conflict /\ ~unresolved /\ deterministic  -> "CONFIRMED"
                               [] ~conflict /\ ~unresolved /\ ~deterministic -> "LIKELY",
                confirm  |-> unresolved \/ conflict \/ \E item \in items : item.confirm ]
  BY DEF BuildCandidate
<1> HIDE DEF plain, candidate, conflict, unresolved, deterministic, items, contradictions
<1>3. touched <=> conflict
  <2>1. plain.evidence = {item.id : item \in items}
    BY <1>2
  <2>2. QED
    BY <2>1, OnlyDisputesTouch DEF conflict, items, contradictions
<1>4. candidate = IF touched THEN [plain EXCEPT !.state = "CONTRADICTED", !.confirm = TRUE] ELSE plain
  BY <1>1 DEF ApplyContradictions
<1>5. \A f \in TriFields : candidate.facts[f] = Merge(items, f)
  BY <1>2, <1>4
<1>6. conflict => candidate.state = "CONTRADICTED"
  BY <1>2, <1>3, <1>4
<1>7. conflict => unresolved
  BY MergeIs DEF conflict, unresolved
<1>8. deterministic <=> t \notin s.permissions
  <2>1. ASSUME NEW item \in items
        PROVE  /\ Kind(item) \in DeterministicKinds \/ Kind(item) = "permission_declaration"
               /\ Kind(item) = "permission_declaration" => t \in s.permissions
    BY NamedAfterType DEF items, DeterministicKinds
  <2>2. t \in s.permissions => PermissionItem(t) \in items
    BY EvidenceAbout DEF items
  <2>3. Kind(PermissionItem(t)) = "permission_declaration"
    BY DEF Kind, PermissionItem, Evidence
  <2>4. "permission_declaration" \notin DeterministicKinds
    BY DEF DeterministicKinds
  <2>5. QED
    BY <2>1, <2>2, <2>3, <2>4 DEF deterministic
<1>9. candidate.state = "CONFIRMED" <=> t \notin s.permissions /\ ~unresolved
  <2>1. CASE conflict
    BY <1>6, <1>7, <2>1
  <2>2. CASE ~conflict
    <3>1. candidate = plain
      BY <1>3, <1>4, <2>2
    <3>2. plain.state = CASE unresolved                     -> "UNKNOWN"
                          [] ~unresolved /\ deterministic   -> "CONFIRMED"
                          [] ~unresolved /\ ~deterministic  -> "LIKELY"
      BY <1>2, <2>2
    <3>3. QED
      BY <1>8, <3>1, <3>2
  <2>3. QED
    BY <2>1, <2>2
<1>10. QED
  BY <1>5, <1>6, <1>9 DEF candidate, conflict, unresolved, items

\* The domain of the candidates: what something was said about.
LEMMA CandidatesAre ==
    ASSUME NEW s, IsSources(s), NEW status
    PROVE  /\ DOMAIN PrivacyOfSources(s, status).candidates = SubjectsOf(AllEvidence(s))
           /\ SubjectsOf(AllEvidence(s)) \subseteq DataTypes
           /\ \A t \in DataTypes : t \in SubjectsOf(AllEvidence(s)) <=> Of(AllEvidence(s), t) # {}
<1>1. DOMAIN PrivacyOfSources(s, status).candidates = SubjectsOf(AllEvidence(s))
  BY DEF PrivacyOfSources, PrivacyResult, BuildCandidates
<1>2. SubjectsOf(AllEvidence(s)) \subseteq DataTypes
  BY SourcesGiveEvidence DEF AllEvidence, TypedEvidence, SubjectsOf
<1>3. QED
  BY <1>1, <1>2, TypesAssumption DEF SubjectsOf, Of

\* A question is one of a fact that is unknown.
LEMMA AskedIsUnknown ==
    ASSUME NEW s, IsSources(s), NEW status, NEW t \in DataTypes, NEW f \in TriFields
    PROVE  <<t, f>> \in PrivacyOfSources(s, status).questions <=>
               t \in SubjectsOf(AllEvidence(s)) /\ Merge(Of(AllEvidence(s), t), f) = "UNKNOWN"
<1> DEFINE candidates == PrivacyOfSources(s, status).candidates
<1>1. PrivacyOfSources(s, status).questions = Questions(candidates)
  BY DEF PrivacyOfSources, PrivacyResult
<1>2. DOMAIN candidates = SubjectsOf(AllEvidence(s))
  BY CandidatesAre
<1>3. t \in DOMAIN candidates =>
          /\ candidates[t].facts[f] = Merge(Of(AllEvidence(s), t), f)
          /\ Merge(Of(AllEvidence(s), t), f) = "UNKNOWN" => candidates[t].state # "CONFIRMED"
  BY CandidateIs
<1> HIDE DEF candidates
<1>4. f # "purpose"
  BY DEF TriFields
<1>5. <<t, f>> \in Questions(candidates) <=>
          /\ t \in DOMAIN candidates
          /\ candidates[t].state # "CONFIRMED"
          /\ candidates[t].facts[f] = "UNKNOWN"
  BY <1>4 DEF Questions
<1>6. QED
  BY <1>1, <1>2, <1>3, <1>5

\* Candidates say what was declared and nothing else (build_candidates, _merge).
THEOREM FactsStayAttributed == Spec => []FactsAreAttributed
<1>1. ASSUME IsSources(seen), ResultIs
      PROVE  FactsAreAttributed
  <2>1. SUFFICES ASSUME privacy # NULL, NEW t \in DOMAIN privacy.candidates
        PROVE  /\ \A f \in TriFields, value \in {"YES", "NO"} :
                      privacy.candidates[t].facts[f] = value
                          <=> Declares(seen, t, f, value) /\ ~Disputed(seen, t, f)
               /\ privacy.candidates[t].state = "CONFIRMED"
                      <=> /\ t \notin seen.permissions
                          /\ \A f \in TriFields : privacy.candidates[t].facts[f] # "UNKNOWN"
    BY DEF FactsAreAttributed
  <2>2. privacy = PrivacyOfSources(seen, policy)
    BY <1>1, <2>1 DEF ResultIs
  <2>3. t \in DataTypes
    BY <1>1, <2>1, <2>2, CandidatesAre
  <2>4. /\ \A f \in TriFields : privacy.candidates[t].facts[f] = Merge(Of(AllEvidence(seen), t), f)
        /\ privacy.candidates[t].state = "CONFIRMED" <=>
               /\ t \notin seen.permissions
               /\ \A f \in TriFields : Merge(Of(AllEvidence(seen), t), f) # "UNKNOWN"
    BY <1>1, <2>1, <2>2, <2>3, CandidateIs
  <2>5. ASSUME NEW f \in TriFields, NEW value \in {"YES", "NO"}
        PROVE  Merge(Of(AllEvidence(seen), t), f) = value
                   <=> Declares(seen, t, f, value) /\ ~Disputed(seen, t, f)
    BY <1>1, <2>3, MergeIs, SayingIsDeclaring, ConflictIsDispute
  <2>6. QED
    BY <2>4, <2>5
<1>2. QED
  BY <1>1, ResultHolds, PTL

\* A dispute between two sources always reaches the report (find_contradictions,
\* _apply_contradictions, _questions_for).
THEOREM DisputesAlwaysSurface == Spec => []DisputesSurface
<1>1. ASSUME IsSources(seen), ResultIs
      PROVE  DisputesSurface
  <2>1. SUFFICES ASSUME privacy # NULL, NEW t \in DataTypes, NEW f \in TriFields, Disputed(seen, t, f)
        PROVE  /\ t \in DOMAIN privacy.candidates
               /\ privacy.candidates[t].state = "CONTRADICTED"
               /\ <<t, f>> \in privacy.questions
               /\ privacy.gate # "PASS"
    BY DEF DisputesSurface
  <2>2. privacy = PrivacyOfSources(seen, policy)
    BY <1>1, <2>1 DEF ResultIs
  <2>3. HasConflict(Of(AllEvidence(seen), t), f)
    BY <1>1, <2>1, ConflictIsDispute
  <2>4. t \in SubjectsOf(AllEvidence(seen))
    BY <1>1, <2>3, CandidatesAre DEF HasConflict, Saying
  <2>5. t \in DOMAIN privacy.candidates
    BY <1>1, <2>2, <2>4, CandidatesAre
  <2>6. privacy.candidates[t].state = "CONTRADICTED"
    BY <1>1, <2>2, <2>3, <2>5, CandidateIs
  <2>7. Merge(Of(AllEvidence(seen), t), f) = "UNKNOWN"
    BY <2>3, MergeIs
  <2>8. <<t, f>> \in privacy.questions
    BY <1>1, <2>2, <2>4, <2>7, AskedIsUnknown
  <2>9. Unverified \in AllEvidence(seen)
    BY DEF AllEvidence, RequiredReasonEvidence, Unverified
  <2>10. privacy.gate # "PASS"
    BY <2>2, <2>9, DisclosureKeepsOpen DEF PrivacyOfSources
  <2>11. QED
    BY <2>5, <2>6, <2>8, <2>10
<1>2. QED
  BY <1>1, ResultHolds, PTL

\* BLOCKED is a defect of the declarations and nothing else (PrivacyReport.gate).
THEOREM BlockedOnlyByDefect == Spec => []BlockedMeansDefect
<1>1. ASSUME IsSources(seen), ResultIs
      PROVE  BlockedMeansDefect
  <2>1. SUFFICES ASSUME privacy # NULL
                 PROVE  privacy.gate = "BLOCKED" <=> Defective(seen)
    BY DEF BlockedMeansDefect
  <2>2. privacy = PrivacyOfSources(seen, policy)
    BY <1>1, <2>1 DEF ResultIs
  <2>3. QED
    BY <1>1, <2>2, BlockedIsDefect
<1>2. QED
  BY <1>1, ResultHolds, PTL

-----------------------------------------------------------------------------
(* Phase 4: answering *)

\* Two sources that differ in what is answered, one of them perhaps answered
\* more, and never otherwise.
AnsweredMore(s, r) ==
    /\ IsSources(s) /\ IsSources(r)
    /\ \A field \in {"permissions", "manifests", "code", "uses", "sdks", "http"} : r[field] = s[field]
    /\ \A t \in DataTypes, f \in TriFields :
           AnswerOf(s, t).claims[f] # "UNKNOWN" => AnswerOf(r, t).claims[f] = AnswerOf(s, t).claims[f]

\* An answer is what a source declares.
LEMMA AnswerDeclares ==
    ASSUME NEW s, IsSources(s), NEW t \in DataTypes, NEW f \in TriFields, NEW value \in {"YES", "NO"}
    PROVE  t \in DOMAIN s.answers /\ s.answers[t].claims[f] = value <=> AnswerOf(s, t).claims[f] = value
BY DEF AnswerOf, Silent

\* What was declared still is when more is answered.
LEMMA AnsweringKeepsDeclarations ==
    ASSUME NEW s, NEW r, AnsweredMore(s, r),
           NEW t \in DataTypes, NEW f \in TriFields, NEW value \in {"YES", "NO"}, Declares(s, t, f, value)
    PROVE  Declares(r, t, f, value)
<1>1. r.manifests = s.manifests
  BY DEF AnsweredMore
<1>2. CASE t \in DOMAIN s.answers /\ s.answers[t].claims[f] = value
  <2>1. AnswerOf(r, t).claims[f] = value
    BY <1>2, AnswerDeclares DEF AnsweredMore
  <2>2. t \in DOMAIN r.answers /\ r.answers[t].claims[f] = value
    BY <2>1, AnswerDeclares DEF AnsweredMore
  <2>3. QED
    BY <2>2 DEF Declares
<1>3. CASE ~(t \in DOMAIN s.answers /\ s.answers[t].claims[f] = value)
  BY <1>1, <1>3 DEF Declares
<1>4. QED
  BY <1>2, <1>3

\* Of the evidence only the answers change.
LEMMA AnsweringKeepsEvidence ==
    ASSUME NEW s, NEW r, AnsweredMore(s, r)
    PROVE  /\ AllIssues(r) = AllIssues(s)
           /\ AllManifestEvidence(r) = AllManifestEvidence(s)
           /\ \A item : Kind(item) # "local_privacy_answer_attestation" =>
                  (item \in AllEvidence(r) <=> item \in AllEvidence(s))
<1>1. /\ r.permissions = s.permissions /\ r.manifests = s.manifests /\ r.code = s.code
      /\ r.uses = s.uses /\ r.sdks = s.sdks /\ r.http = s.http
  BY DEF AnsweredMore
<1>2. ReadableManifests(r) = ReadableManifests(s)
  BY <1>1 DEF ReadableManifests
<1>3. /\ AllManifestEvidence(r) = AllManifestEvidence(s)
      /\ AllManifestIssues(r) = AllManifestIssues(s)
  BY <1>1, <1>2 DEF AllManifestEvidence, AllManifestIssues
<1>4. \A c : Found(r, c) <=> Found(s, c)
  BY <1>1 DEF Found
<1>5. \A m : /\ RequiredReasonEvidence(r, m) = RequiredReasonEvidence(s, m)
             /\ RequiredReasonIssues(r, m) = RequiredReasonIssues(s, m)
  BY <1>4 DEF RequiredReasonEvidence, RequiredReasonIssues
<1>6. /\ InspectPermissions(r) = InspectPermissions(s)
      /\ InspectDependencies(r) = InspectDependencies(s)
      /\ InspectNetworkSignals(r) = InspectNetworkSignals(s)
  BY <1>1, <1>4 DEF InspectPermissions, InspectDependencies, InspectNetworkSignals
<1>7. \A u : \A item \in InspectLocalPrivacyAnswers(u) : Kind(item) = "local_privacy_answer_attestation"
  BY DEF InspectLocalPrivacyAnswers, Evidence, Kind
<1>8. AllIssues(r) = AllIssues(s)
  BY <1>3, <1>5 DEF AllIssues
<1>9. QED
  BY <1>3, <1>5, <1>6, <1>7, <1>8 DEF AllEvidence

\* Every step leaves the sources, or their answers, or answers more.
LEMMA StepsAnswerMore ==
    ASSUME NEW s, NEW r, IsSources(s), IsSources(r),
           [r EXCEPT !.answers = <<>>] = [s EXCEPT !.answers = <<>>],
           \/ r.answers = s.answers
           \/ \E t \in DataTypes, f \in TriFields, value \in {"YES", "NO"} :
                  /\ AnswerOf(s, t).claims[f] = "UNKNOWN"
                  /\ r = Answering(s, t, [AnswerOf(s, t) EXCEPT !.claims[f] = value])
           \/ \E t \in DataTypes, p \in Purposes :
                  r = Answering(s, t, [AnswerOf(s, t) EXCEPT !.purposes = @ \cup {p}])
    PROVE  AnsweredMore(s, r)
<1>1. \A field \in {"permissions", "manifests", "code", "uses", "sdks", "http"} : r[field] = s[field]
  <2>1. DOMAIN s = {"permissions", "manifests", "code", "uses", "sdks", "http", "answers"}
        /\ DOMAIN r = DOMAIN s
    BY DEF IsSources
  <2>2. \A field \in {"permissions", "manifests", "code", "uses", "sdks", "http"} :
            [r EXCEPT !.answers = <<>>][field] = r[field] /\ [s EXCEPT !.answers = <<>>][field] = s[field]
    BY <2>1
  <2>3. QED
    BY <2>2
<1>2. ASSUME NEW u \in DataTypes, NEW t \in DataTypes, NEW answer \in Answers, r = Answering(s, t, answer)
      PROVE  AnswerOf(r, u) = IF u = t THEN answer ELSE AnswerOf(s, u)
  BY <1>2, AnsweringKeepsSources DEF AnswerOf
<1>3. ASSUME NEW u \in DataTypes, NEW g \in TriFields, AnswerOf(s, u).claims[g] # "UNKNOWN"
      PROVE  AnswerOf(r, u).claims[g] = AnswerOf(s, u).claims[g]
  <2>1. CASE r.answers = s.answers
    BY <2>1 DEF AnswerOf
  <2>2. ASSUME NEW t \in DataTypes, NEW f \in TriFields, NEW value \in {"YES", "NO"},
               AnswerOf(s, t).claims[f] = "UNKNOWN",
               r = Answering(s, t, [AnswerOf(s, t) EXCEPT !.claims[f] = value])
        PROVE  AnswerOf(r, u).claims[g] = AnswerOf(s, u).claims[g]
    <3> DEFINE answer == [AnswerOf(s, t) EXCEPT !.claims[f] = value]
    <3>1. AnswerOf(s, t) \in Answers /\ answer \in Answers
      BY AnswersAre
    <3>2. \A h \in TriFields \ {f} : answer.claims[h] = AnswerOf(s, t).claims[h]
      BY <3>1 DEF Answers, TriFacts
    <3>3. AnswerOf(r, u) = IF u = t THEN answer ELSE AnswerOf(s, u)
      BY <1>2, <2>2, <3>1
    <3> HIDE DEF answer
    <3>4. QED
      BY <1>3, <2>2, <3>2, <3>3
  <2>3. ASSUME NEW t \in DataTypes, NEW p \in Purposes,
               r = Answering(s, t, [AnswerOf(s, t) EXCEPT !.purposes = @ \cup {p}])
        PROVE  AnswerOf(r, u).claims[g] = AnswerOf(s, u).claims[g]
    <3> DEFINE answer == [AnswerOf(s, t) EXCEPT !.purposes = @ \cup {p}]
    <3>1. AnswerOf(s, t) \in Answers /\ answer \in Answers
      BY AnswersAre
    <3>2. answer.claims = AnswerOf(s, t).claims
      BY <3>1 DEF Answers
    <3>3. AnswerOf(r, u) = IF u = t THEN answer ELSE AnswerOf(s, u)
      BY <1>2, <2>3, <3>1
    <3> HIDE DEF answer
    <3>4. QED
      BY <3>2, <3>3
  <2>4. QED
    BY <2>1, <2>2, <2>3
<1>4. QED
  BY <1>1, <1>3 DEF AnsweredMore

\* No answer takes a contradiction back.
LEMMA ContradictionsStay ==
    ASSUME NEW s, NEW r, AnsweredMore(s, r)
    PROVE  {c.kind : c \in FindContradictions(AllEvidence(s), AllIssues(s))}
               \subseteq {c.kind : c \in FindContradictions(AllEvidence(r), AllIssues(r))}
<1> DEFINE Conflicts(u) == {c \in SubjectsOf(AllEvidence(u)) \X TriFields :
                                HasConflict(Of(AllEvidence(u), c[1]), c[2])}
           Said(u, c) == {(CHOOSE item \in Saying(Of(AllEvidence(u), c[1]), c[2], v) : TRUE).id :
                              v \in {"YES", "NO"}}
           Silenced(u) == {i \in AllIssues(u) : i.code = "TRACKING_DOMAIN_WITHOUT_FLAG"}
           Uncovered(u) == {e \in AllEvidence(u) :
                               /\ Kind(e) = "sdk_dependency"
                               /\ e.purposes \cap Advertising # {}
                               /\ e.purposes \cap ManifestPurposes(AllEvidence(u)) = {}}
           Kinds(u) == {c.kind : c \in FindContradictions(AllEvidence(u), AllIssues(u))}
<1>1. \A kind, set : Contradiction(kind, set).kind = kind
  BY DEF Contradiction
<1>2. ASSUME NEW u
      PROVE  Kinds(u) = {<<"CONFLICT", c[1], c[2]>> : c \in Conflicts(u)}
                        \cup {<<"TRACKING_DOMAIN_WITHOUT_FLAG", i.path, "-">> : i \in Silenced(u)}
                        \cup {<<"SDK_WITHOUT_PRIVACY_EVIDENCE", item.id[3], "-">> : item \in Uncovered(u)}
  <2> DEFINE a(c) == Contradiction(<<"CONFLICT", c[1], c[2]>>, Said(u, c))
             b(i) == Contradiction(<<"TRACKING_DOMAIN_WITHOUT_FLAG", i.path, "-">>,
                                   {<<"manifest_tracking_flag", i.path, "-">>})
             d(item) == Contradiction(<<"SDK_WITHOUT_PRIVACY_EVIDENCE", item.id[3], "-">>, {item.id})
             A == {a(c) : c \in Conflicts(u)}
             B == {b(i) : i \in Silenced(u)}
             D == {d(item) : item \in Uncovered(u)}
  <2>1. FindContradictions(AllEvidence(u), AllIssues(u)) = A \cup B \cup D
    BY DEF FindContradictions
  <2>2. /\ \A c : a(c).kind = <<"CONFLICT", c[1], c[2]>>
        /\ \A i : b(i).kind = <<"TRACKING_DOMAIN_WITHOUT_FLAG", i.path, "-">>
        /\ \A item : d(item).kind = <<"SDK_WITHOUT_PRIVACY_EVIDENCE", item.id[3], "-">>
    BY <1>1
  <2> HIDE DEF Conflicts, Silenced, Uncovered, Said, a, b, d
  <2>3. {c.kind : c \in A} = {<<"CONFLICT", c[1], c[2]>> : c \in Conflicts(u)}
    BY <2>2
  <2>4. {c.kind : c \in B} = {<<"TRACKING_DOMAIN_WITHOUT_FLAG", i.path, "-">> : i \in Silenced(u)}
    BY <2>2
  <2>5. {c.kind : c \in D} = {<<"SDK_WITHOUT_PRIVACY_EVIDENCE", item.id[3], "-">> : item \in Uncovered(u)}
    BY <2>2
  <2> HIDE DEF A, B, D
  <2>6. QED
    BY <2>1, <2>3, <2>4, <2>5
<1>3. Conflicts(s) \subseteq Conflicts(r)
  <2>1. SUFFICES ASSUME NEW t \in SubjectsOf(AllEvidence(s)), NEW f \in TriFields,
                        HasConflict(Of(AllEvidence(s), t), f)
                 PROVE  <<t, f>> \in Conflicts(r)
    OBVIOUS
  <2>2. IsSources(s) /\ IsSources(r) /\ t \in DataTypes
    BY CandidatesAre DEF AnsweredMore
  <2>3. Disputed(r, t, f)
    BY <2>1, <2>2, ConflictIsDispute, AnsweringKeepsDeclarations DEF Disputed
  <2>4. HasConflict(Of(AllEvidence(r), t), f)
    BY <2>2, <2>3, ConflictIsDispute
  <2>5. t \in SubjectsOf(AllEvidence(r))
    BY <2>2, <2>4, CandidatesAre DEF HasConflict, Saying
  <2>6. QED
    BY <2>4, <2>5
<1>4. Silenced(s) = Silenced(r)
  BY AnsweringKeepsEvidence
<1>5. Uncovered(s) = Uncovered(r)
  <2>1. ManifestPurposes(AllEvidence(s)) = ManifestPurposes(AllEvidence(r))
    BY AnsweringKeepsEvidence DEF ManifestPurposes
  <2>2. QED
    BY <2>1, AnsweringKeepsEvidence
<1> HIDE DEF Conflicts, Silenced, Uncovered, Kinds
<1>6. Kinds(s) \subseteq Kinds(r)
  BY <1>2, <1>3, <1>4, <1>5
<1>7. QED
  BY <1>6 DEF Kinds

\* Answering is heard, and makes nothing else disappear (the answers file,
\* merged with what was found in _merge and find_contradictions).
THEOREM AnswersAlwaysSettle == Spec => AnswersSettle
<1> DEFINE Only == [sources' EXCEPT !.answers = <<>>] = [sources EXCEPT !.answers = <<>>]
           before == PrivacyOfSources(sources, policy)
           after == PrivacyOfSources(sources', policy)
           Settles(t, f) == /\ Disputed(sources', t, f) <=> <<t, f>> \in after.questions
                            /\ {c.kind : c \in before.contradictions}
                                   \subseteq {c.kind : c \in after.contradictions}
                            /\ after.issues = before.issues
<1>1. ASSUME SourcesAreRead, SourcesAreRead', [Next]_vars
      PROVE  AnswerSettles \/ UNCHANGED sources
  <2>1. IsSources(sources) /\ IsSources(sources')
    BY <1>1 DEF SourcesAreRead
  <2>2. \/ sources'.answers = sources.answers
        \/ \E t \in DataTypes, f \in TriFields, value \in {"YES", "NO"} :
               /\ AnswerOf(sources, t).claims[f] = "UNKNOWN"
               /\ sources' = Answering(sources, t, [AnswerOf(sources, t) EXCEPT !.claims[f] = value])
        \/ \E t \in DataTypes, p \in Purposes :
               sources' = Answering(sources, t, [AnswerOf(sources, t) EXCEPT !.purposes = @ \cup {p}])
    <3>1. CASE EditSources
      <4>1. PICK s \in SourceSet : sources' = [s EXCEPT !.answers = sources.answers]
        BY <3>1 DEF EditSources
      <4>2. "answers" \in DOMAIN s
        BY ReviewsAssumption DEF IsSources
      <4>3. QED
        BY <4>1, <4>2
    <3>2. CASE \E t \in DataTypes, f \in TriFields, value \in {"YES", "NO"} : Answer(t, f, value)
      BY <3>2 DEF Answer
    <3>3. CASE \E t \in DataTypes, p \in {"OTHER"} : AnswerPurpose(t, p)
      <4>1. "OTHER" \in Purposes
        BY DEF Purposes
      <4>2. QED
        BY <3>3, <4>1 DEF AnswerPurpose
    <3>4. QED
      BY <1>1, <3>1, <3>2, <3>3
         DEF Next, RunNext, PersonNext, Start, ReadManifests, ReadApis, ReadDependencies, Conclude,
             ReviewDesign, EditCode, Measure, vars, app
  <2>3. SUFFICES ASSUME NEW t \in DataTypes, NEW f \in TriFields,
                        AnswerOf(sources', t).claims[f] # "UNKNOWN", Only
                 PROVE  Settles(t, f)
    BY DEF AnswerSettles
  <2>4. AnsweredMore(sources, sources')
    BY <2>1, <2>2, <2>3, StepsAnswerMore
  <2>5. /\ before.contradictions = FindContradictions(AllEvidence(sources), AllIssues(sources))
        /\ after.contradictions = FindContradictions(AllEvidence(sources'), AllIssues(sources'))
        /\ before.issues = AllIssues(sources)
        /\ after.issues = AllIssues(sources')
    BY DEF PrivacyOfSources, PrivacyResult
  <2>6. {c.kind : c \in before.contradictions} \subseteq {c.kind : c \in after.contradictions}
    BY <2>4, <2>5, ContradictionsStay
  <2>7. after.issues = before.issues
    BY <2>4, <2>5, AnsweringKeepsEvidence
  <2>8. Disputed(sources', t, f) <=> <<t, f>> \in after.questions
    <3> DEFINE items == Of(AllEvidence(sources'), t)
    <3>1. PICK value \in {"YES", "NO"} : AnswerOf(sources', t).claims[f] = value
      <4>1. AnswerOf(sources', t) \in Answers
        BY <2>1, AnswersAre
      <4>2. QED
        BY <2>3, <4>1 DEF Answers, TriFacts, Tri
    <3>2. Declares(sources', t, f, value)
      BY <2>1, <3>1, AnswerDeclares DEF Declares
    <3>3. Saying(items, f, value) # {}
      BY <2>1, <3>2, SayingIsDeclaring
    <3>4. t \in SubjectsOf(AllEvidence(sources'))
      BY <2>1, <3>3, CandidatesAre DEF Saying
    <3>5. HasConflict(items, f) <=> Merge(items, f) = "UNKNOWN"
      BY <3>3, MergeIs
    <3>6. QED
      BY <2>1, <3>4, <3>5, ConflictIsDispute, AskedIsUnknown
  <2>9. QED
    BY <2>6, <2>7, <2>8
<1>2. QED
  BY <1>1, SourcesStay, PTL DEF Spec, AnswersSettle

=============================================================================
