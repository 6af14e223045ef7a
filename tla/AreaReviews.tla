----------------------------- MODULE AreaReviews -----------------------------
(***************************************************************************)
(* Phases 4 and 5 in one CLI run, and the person who works on the app.     *)
(*                                                                         *)
(* readiness_check.py --privacy --design [--design-evidence FILE] reads    *)
(* Info.plist, the privacy manifests, the code, the dependencies and the   *)
(* answers file one after another, concludes, prints its questions, and    *)
(* then reviews the design.  Meanwhile, or between two runs, the person    *)
(* answers questions, edits the app, or measures a control.                *)
(***************************************************************************)
EXTENDS PrivacyEvidence, DesignAreas

CONSTANTS SourceSet,   \* what the person may turn the privacy sources into
          FactSet,     \* and the code the design rules read
          MaxChanges,  \* bound on what the person does
          NULL

ASSUME ReviewsAssumption ==
    /\ \A s \in SourceSet : IsSources(s)
    /\ \A d \in FactSet : IsFacts(d)
    /\ MaxChanges \in Nat

VARIABLES
    sources, facts, measured,  \* the app as it is now, and the evidence file
    pc,                        \* what the run reads next
    policy,                    \* the readiness finding on the privacy policy
    manifest, evidence, issues,\* what it has read so far
    privacy, design,           \* the results it printed last
    seen,                      \* history: the sources as this run, or the last one, read them
    changes                    \* how often something was

app == <<sources, facts, measured>>

vars == <<app, pc, policy, manifest, evidence, issues, privacy, design, seen, changes>>

\* Sources of which nothing has been read.
Unread ==
    [ permissions |-> {}, manifests |-> <<>>, code |-> FALSE,
      uses |-> [place \in {"code", "elsewhere"} |-> {}],
      sdks |-> {}, http |-> FALSE, answers |-> <<>> ]

Init ==
    /\ sources \in SourceSet
    /\ facts \in FactSet
    /\ measured = <<>>
    /\ pc = "idle"
    /\ policy = "UNKNOWN"
    /\ manifest = {} /\ evidence = {} /\ issues = {}
    /\ privacy = NULL /\ design = NULL
    /\ seen = Unread
    /\ changes = 0

-----------------------------------------------------------------------------
(* The run *)

\* The readiness report is there; inspect_permissions
Start(status) ==
    /\ pc = "idle"
    /\ pc' = "manifests"
    /\ policy' = status
    /\ evidence' = InspectPermissions(sources)
    /\ manifest' = {} /\ issues' = {}
    /\ privacy' = NULL /\ design' = NULL
    /\ seen' = [Unread EXCEPT !.permissions = sources.permissions]
    /\ UNCHANGED <<app, changes>>

ReadManifests ==
    /\ pc = "manifests"
    /\ pc' = "apis"
    /\ manifest' = AllManifestEvidence(sources)
    /\ evidence' = evidence \cup manifest'
    /\ issues' = AllManifestIssues(sources)
    /\ seen' = [seen EXCEPT !.manifests = sources.manifests]
    /\ UNCHANGED <<app, policy, privacy, design, changes>>

\* The code as it is now against the manifests as they were.
ReadApis ==
    /\ pc = "apis"
    /\ pc' = "dependencies"
    /\ evidence' = evidence \cup RequiredReasonEvidence(sources, manifest)
    /\ issues' = issues \cup RequiredReasonIssues(sources, manifest)
    /\ seen' = [seen EXCEPT !.code = sources.code, !.uses = sources.uses]
    /\ UNCHANGED <<app, policy, manifest, privacy, design, changes>>

\* The code is searched once more: that it connects to a network is disclosed, and
\* decides nothing.
ReadDependencies ==
    /\ pc = "dependencies"
    /\ pc' = "answers"
    /\ evidence' = evidence \cup InspectDependencies(sources) \cup InspectNetworkSignals(sources)
    /\ seen' = [seen EXCEPT !.sdks = sources.sdks, !.http = sources.http]
    /\ UNCHANGED <<app, policy, manifest, issues, privacy, design, changes>>

\* The answers are read last, and the rest follows from what was read.
Conclude ==
    /\ pc = "answers"
    /\ pc' = "design"
    /\ evidence' = evidence \cup InspectLocalPrivacyAnswers(sources)
    /\ privacy' = PrivacyResult(evidence', issues, policy)
    /\ seen' = [seen EXCEPT !.answers = sources.answers]
    /\ UNCHANGED <<app, policy, manifest, issues, design, changes>>

ReviewDesign ==
    /\ pc = "design"
    /\ pc' = "idle"
    /\ design' = DesignResult(facts, measured)
    /\ UNCHANGED <<app, policy, manifest, evidence, issues, privacy, seen, changes>>

-----------------------------------------------------------------------------
(* The person *)

Change ==
    /\ changes < MaxChanges
    /\ changes' = changes + 1
    /\ UNCHANGED <<pc, policy, manifest, evidence, issues, privacy, design, seen>>

AnswerOf(s, t) ==
    IF t \in DOMAIN s.answers THEN s.answers[t] ELSE [claims |-> Silent, purposes |-> {}]

Answering(s, t, answer) ==
    [s EXCEPT !.answers = [u \in DOMAIN s.answers \cup {t} |->
                               IF u = t THEN answer ELSE s.answers[u]]]

\* A question of the last report, about a fact nothing was answered to yet.
Answer(t, f, value) ==
    /\ Change
    /\ privacy # NULL
    /\ <<t, f>> \in privacy.questions
    /\ AnswerOf(sources, t).claims[f] = "UNKNOWN"
    /\ sources' = Answering(sources, t, [AnswerOf(sources, t) EXCEPT !.claims[f] = value])
    /\ UNCHANGED <<facts, measured>>

AnswerPurpose(t, p) ==
    /\ Change
    /\ privacy # NULL
    /\ <<t, "purpose">> \in privacy.questions
    /\ sources' = Answering(sources, t, [AnswerOf(sources, t) EXCEPT !.purposes = @ \cup {p}])
    /\ UNCHANGED <<facts, measured>>

EditSources ==
    /\ Change
    /\ \E s \in SourceSet : sources' = [s EXCEPT !.answers = sources.answers]
    /\ UNCHANGED <<facts, measured>>

EditCode ==
    /\ Change
    /\ facts' \in FactSet \ {facts}
    /\ UNCHANGED <<sources, measured>>

\* The rendered size of one more control goes into the evidence file.
Measure(k, size) ==
    /\ Change
    /\ k \notin DOMAIN measured
    /\ measured' = [j \in DOMAIN measured \cup {k} |-> IF j = k THEN size ELSE measured[j]]
    /\ UNCHANGED <<sources, facts>>

RunNext ==
    \/ \E status \in {"PASS", "UNKNOWN"} : Start(status)
    \/ ReadManifests \/ ReadApis \/ ReadDependencies \/ Conclude \/ ReviewDesign

PersonNext ==
    \/ \E t \in DataTypes, f \in TriFields, value \in {"YES", "NO"} : Answer(t, f, value)
    \/ \E t \in DataTypes, p \in {"OTHER"} : AnswerPurpose(t, p)
    \/ EditSources \/ EditCode
    \/ \E k \in Keys, size \in Sizes \X Sizes : Measure(k, size)

Next == RunNext \/ PersonNext

Spec == Init /\ [][Next]_vars

-----------------------------------------------------------------------------
(* Properties *)

TypeOK ==
    /\ pc \in {"idle", "manifests", "apis", "dependencies", "answers", "design"}
    /\ policy \in {"PASS", "UNKNOWN"}
    /\ \A item \in evidence : /\ item.type \in DataTypes \cup {NoType}
                              /\ item.claims \in TriFacts
                              /\ item.purposes \subseteq Purposes
    /\ privacy # NULL =>
        /\ privacy.gate \in {"BLOCKED", "CONDITIONAL", "PASS"}
        /\ DOMAIN privacy.candidates \subseteq DataTypes
        /\ privacy.questions \subseteq DataTypes \X (TriFields \cup {"purpose"})
    /\ design # NULL =>
        /\ design.gate \in {"BLOCKED", "CONDITIONAL", "PASS"}
        /\ design.area \in [DesignAreaNames -> Statuses]
    /\ measured \in UNION {[K -> Sizes \X Sizes] : K \in SUBSET Keys}
    /\ IsSources(seen) /\ changes \in 0..MaxChanges

\* Who says what of a data type: the manifests' entries and the answers, in
\* terms of the sources and not of the evidence made of them.
Declares(s, t, f, value) ==
    \/ \E path \in DOMAIN s.manifests : /\ s.manifests[path].readable
           /\ \E entry \in s.manifests[path].collected : entry.type = t /\
                  value = CASE f = "collection"     -> "YES"
                            [] f = "linked_to_user" -> entry.linked
                            [] f = "tracking"       -> entry.tracking
    \/ t \in DOMAIN s.answers /\ s.answers[t].claims[f] = value

Disputed(s, t, f) == Declares(s, t, f, "YES") /\ Declares(s, t, f, "NO")

\* The following three speak of every run, whatever is edited between two of its
\* readings: the result is that of the declarations each as it was when it was read
\* (run_privacy_intelligence), though together they may never have been the app.

\* No fact is invented and none is lost: a candidate's fact is YES or NO if and
\* only if the developer declared that, somewhere, and nowhere the opposite;
\* and only what was fully declared, of a type no permission is asked for, is
\* CONFIRMED.
FactsAreAttributed ==
    privacy # NULL => \A t \in DOMAIN privacy.candidates :
        /\ \A f \in TriFields, value \in {"YES", "NO"} :
               privacy.candidates[t].facts[f] = value
                   <=> Declares(seen, t, f, value) /\ ~Disputed(seen, t, f)
        /\ privacy.candidates[t].state = "CONFIRMED"
               <=> /\ t \notin seen.permissions
                   /\ \A f \in TriFields : privacy.candidates[t].facts[f] # "UNKNOWN"

\* A contradiction is never silently resolved: a disputed fact makes its
\* candidate CONTRADICTED, is asked about, and keeps the gate from passing.
DisputesSurface ==
    privacy # NULL => \A t \in DataTypes, f \in TriFields : Disputed(seen, t, f) =>
        /\ t \in DOMAIN privacy.candidates
        /\ privacy.candidates[t].state = "CONTRADICTED"
        /\ <<t, f>> \in privacy.questions
        /\ privacy.gate # "PASS"

\* The gate is BLOCKED by a defect of a manifest or a gap between the code and
\* the manifests, and by nothing else: what prose mentions can only block an
\* app that has no code at all.
BlockedMeansDefect ==
    privacy # NULL => (privacy.gate = "BLOCKED" <=> Defective(seen))

AnswerSettles ==
    \A t \in DataTypes, f \in TriFields :
        LET before == PrivacyOfSources(sources, policy)
            after == PrivacyOfSources(sources', policy)
            answered == /\ AnswerOf(sources, t).claims[f] = "UNKNOWN"
                        /\ AnswerOf(sources', t).claims[f] # "UNKNOWN"
                        /\ [sources' EXCEPT !.answers = <<>>] = [sources EXCEPT !.answers = <<>>]
        IN answered =>
            /\ Disputed(sources', t, f) <=> <<t, f>> \in after.questions
            /\ {c.kind : c \in before.contradictions} \subseteq {c.kind : c \in after.contradictions}
            /\ after.issues = before.issues

\* An answer settles the fact it is about unless a declaration says otherwise;
\* and no answer makes a dispute go away.
AnswersSettle == [][AnswerSettles]_sources

\* One more measurement decides what was UNKNOWN and nothing else: it hides no
\* control that is too small, and takes no PASS back.
MeasuringOnlyDecides ==
    [][ facts' = facts /\ measured' # measured =>
            LET before == TouchTargetSize(facts, measured)
                after == TouchTargetSize(facts, measured')
            IN before # "UNKNOWN" => after = before ]_measured

\* The gate is over all findings, the table over areas; they never disagree.
GateIsWorstArea ==
    design # NULL => design.gate = Gate({design.area[area] : area \in DesignAreaNames})
=============================================================================
