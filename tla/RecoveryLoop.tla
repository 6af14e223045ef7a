---------------------------- MODULE RecoveryLoop ----------------------------
(***************************************************************************)
(* Phases 1, 3 and 6 in one CLI run, with the engines of Phases 4 and 5,   *)
(* and the person around it.                                               *)
(*                                                                         *)
(* readiness_check.py --rejection FILE [--pre-review] [--privacy]          *)
(* [--design] [--strict] reads the project several times: once for the     *)
(* readiness report, once for each engine that is asked for, and once more *)
(* for the pre-review that recovery always makes. Between two of these the *)
(* person goes on fixing the project, attests to causes in                 *)
(* .asc/recovery_attestations.json, or saves Apple's next message.         *)
(*                                                                         *)
(* areas holds what the engines of Phases 4 and 5 read besides: the        *)
(* privacy sources, the code the design rules look at, and the file of     *)
(* measurements. How an engine reads its own sources one after another is  *)
(* in AreaReviews; here it reads them at once.                             *)
(***************************************************************************)
EXTENDS PreReview, Recovery, PrivacyEvidence, DesignAreas

CONSTANTS ProjectSet,      \* the projects the person moves between
          AreaSet,         \* what the privacy and design engines may find
          AttestationSet,  \* contents of the attestation file
          RejectionSet,    \* Apple's messages
          FlagSet,         \* the sets of flags a run is started with
          MaxChanges       \* bound on what the person changes

ASSUME LoopAssumption ==
    /\ ProjectSet \subseteq Projects
    /\ \A a \in AreaSet : IsSources(a.privacy) /\ IsFacts(a.design)
    /\ RejectionSet \subseteq Rejections(STRING)
    /\ FlagSet \subseteq SUBSET {"pre_review", "privacy", "design", "strict"}
    /\ MaxChanges \in Nat

\* None is neither a word of the report nor a reply draft.
ASSUME NullAssumption ==
    /\ NULL \notin {"YES", "CONDITIONAL", "NO"} \cup {"still_blocked"} \cup ConditionalReasons
    /\ NULL \notin Drafts

\* Nor is it what an engine answers, or an exit code.
ASSUME AnswersAssumption ==
    /\ NULL \notin [gate : {"BLOCKED", "CONDITIONAL", "PASS"}, contradictions : BOOLEAN]
    /\ NULL \notin [gate : {"BLOCKED", "CONDITIONAL", "PASS"}, localization : Statuses]
    /\ NULL \notin {"BLOCKED", "PASS"} /\ NULL \notin {0, 1}

VARIABLES
    proj,          \* the project as it is now
    areas,         \* what the engines of Phases 4 and 5 find in it now
    attestations,  \* the attestation file: what it says by category and by cause,
                   \* a cause being <<id, category>>
    rejection,     \* the rejection file
    pc,            \* where the run is
    flags,         \* the flags of the run
    readiness,     \* its readiness report
    shown,         \* the engines' findings that go into the printed payload
    engines,       \* what recovery decides on
    parsed,        \* the rejection it parsed
    report,        \* the report it printed, NULL until it has
    exit,          \* and the exit code
    lacking,       \* history: what the app has lacked ever since the run started
    changes        \* how often something was

\* Of these, what the person owns and what is the run's.
inputs == <<proj, areas, attestations, rejection>>

run == <<pc, flags, readiness, shown, engines, parsed, report, exit>>

vars == <<inputs, run, lacking, changes>>

\* What the project and the rest of the app have in common: code is source, and
\* a permission has its usage description.
Fits(p, a) ==
    /\ a.privacy.code \/ a.design.code => "source" \in p.files
    /\ a.privacy.permissions # {} => p.usage \in {"other", "right"}
    /\ p.usage = "right" => a.privacy.permissions # {}

\* The status of the privacy policy is taken from the readiness report.
PrivacyOf(a, f) ==
    LET result == PrivacyOfSources(a.privacy, f.metadata.PRIVACY_POLICY)
    IN [gate |-> result.gate, contradictions |-> result.contradictions # {}]

\* The design gate is over every finding, those on localisation included.
DesignOf(a) ==
    LET result == DesignResult(a.design, a.measured)
    IN [gate |-> result.gate, localization |-> result.area["LOCALIZATION"]]

-----------------------------------------------------------------------------
(* What an app may lack *)

\* A defect of the design: a control that is too small or has no label, a string
\* that is not translated.
KeyGap(d) == \E p, q \in DOMAIN d.arbs : d.arbs[p] # d.arbs[q]

DesignDefect(a) ==
    \/ Undersized(a.design, a.measured) # {} \/ "unexcused" \in a.design.icons
    \/ KeyGap(a.design)

\* Strings are in two languages at least, and every one in all of them.
Translated(d) == ~KeyGap(d) /\ \E p, q \in DOMAIN d.arbs : p # q

\* What is a question of rendering: the size of a control, and what a screen
\* without a SafeArea hides.
RenderingOpen(a) ==
    \/ AnyInteractive(a.design)
       /\ (Wrapping(a.design) = {} \/ \E b \in Wrapping(a.design) : ~Known(b, a.measured))
    \/ "unexcused" \in a.design.scaffolds[IF a.design.code THEN "code" ELSE "elsewhere"]

Finished(a) == Translated(a.design) /\ ~DesignDefect(a) /\ ~RenderingOpen(a)

Localized(d) ==
    /\ Translated(d) /\ ~d.strings
    /\ ~\E b \in d.boxes : b.text /\ b.width # <<>> /\ Head(b.width).value <= 150

\* Each is told by one look at the project, or at what the engines read.
Lacking(p, a) ==
    [ project          |-> ~p.xcode,
      version          |-> p.pubspec \in {"missing", "versionless"},
      valid_version    |-> p.pubspec # "valid",
      info_plist       |-> p.pbx /\ ~p.info,
      right_usage      |-> p.camera /\ p.usage # "right",
      usage            |-> p.usage = "none",
      name             |-> p.display \in {"none", "unresolved"},
      real_texts       |-> "placeholder" \in {p.display, p.description},
      localizations    |-> ~p.lproj,
      urls             |-> /\ p.urls # {"privacy", "support"}
                           /\ \A c \in p.files : p.text[c] \cap {"privacy_url", "support_url"} = {},
      publication      |-> ~p.published,
      sign_in          |-> ~SignInSeen(p),
      review_info      |-> ~ReviewInfoSeen(p),
      review_access    |-> SignInSeen(p) /\ ~ReviewInfoSeen(p),
      declarations     |-> Defective(a.privacy),
      sound_design     |-> DesignDefect(a),
      finished_design  |-> ~Finished(a),
      localized_design |-> ~Localized(a.design) ]

Lacks(p, a) == LET lacks == Lacking(p, a) IN {x \in DOMAIN lacks : lacks[x]}

-----------------------------------------------------------------------------
Nothing == [review |-> NULL, privacy |-> NULL, design |-> NULL]

Init ==
    /\ proj \in ProjectSet
    /\ areas \in {a \in AreaSet : Fits(proj, a)}
    /\ attestations \in AttestationSet
    /\ rejection \in RejectionSet
    /\ pc = "idle"
    /\ flags = {}
    /\ readiness = NULL
    /\ shown = Nothing
    /\ engines = NULL
    /\ parsed = NULL
    /\ report = NULL
    /\ exit = NULL
    /\ lacking = {}
    /\ changes = 0

-----------------------------------------------------------------------------
(* The run *)

\* build_report
Start(fs) ==
    /\ pc = "idle"
    /\ pc' = "pre_review"
    /\ flags' = fs
    /\ readiness' = Readiness(proj)
    /\ shown' = Nothing
    /\ engines' = NULL
    /\ parsed' = NULL
    /\ report' = NULL
    /\ exit' = NULL
    /\ lacking' = Lacks(proj, areas)
    /\ UNCHANGED <<inputs, changes>>

\* --pre-review: printed, and not handed to run_recovery.
ShowPreReview ==
    /\ pc = "pre_review"
    /\ pc' = "areas"
    /\ shown' = IF "pre_review" \in flags
                THEN [shown EXCEPT !.review = PreReviewGate(ReviewFindings(proj, readiness))]
                ELSE shown
    /\ UNCHANGED <<inputs, flags, readiness, engines, parsed, report, exit, lacking, changes>>

\* --privacy and --design: printed, and handed to run_recovery.
RunAreas ==
    /\ pc = "areas"
    /\ pc' = "review"
    /\ shown' = [shown EXCEPT !.privacy = IF "privacy" \in flags
                                          THEN PrivacyOf(areas, readiness)
                                          ELSE NULL,
                              !.design = IF "design" \in flags THEN DesignOf(areas) ELSE NULL]
    /\ UNCHANGED <<inputs, flags, readiness, engines, parsed, report, exit, lacking, changes>>

\* run_recovery: the message is parsed, and the rules are run on the project
\* as it is now with the readiness findings of before.
Review ==
    /\ pc = "review"
    /\ pc' = "recover"
    /\ parsed' = rejection
    /\ engines' = [ review  |-> CategoryStatus(ReviewFindings(proj, readiness)),
                    privacy |-> shown.privacy,
                    design  |-> shown.design ]
    /\ UNCHANGED <<inputs, flags, readiness, shown, report, exit, lacking, changes>>

\* A category's entry hides the entry of the single cause.
Attested(r) ==
    {c \in CauseIds :
        IF c \in DOMAIN attestations.category
        THEN attestations.category[c]
        ELSE <<r.id, c>> \in DOMAIN attestations.cause /\ attestations.cause[<<r.id, c>>]}

\* What the payload printed with --json tells the eligibility gate besides.
Audit ==
    {a \in {"blocked_findings"} :
        \/ "BLOCKED" \in FoundStatuses(readiness)
        \/ shown.review = "BLOCKED"
        \/ shown.design # NULL /\ shown.design.gate = "BLOCKED"}
    \cup {a \in {"privacy_contradictions"} : shown.privacy # NULL /\ shown.privacy.contradictions}

\* ReadinessReport.ready, under --strict as well.
ReadyVerdict(f, strict) ==
    CASE "BLOCKED" \in FoundStatuses(f) \/ (strict /\ "UNKNOWN" \in FoundStatuses(f)) -> "NO"
      [] OTHER -> IF "UNKNOWN" \in FoundStatuses(f) THEN "CONDITIONAL" ELSE "YES"

GatesShown ==
    {g \in {shown.review} : shown.review # NULL}
    \cup {shown[engine].gate : engine \in {e \in {"privacy", "design"} : shown[e] # NULL}}

\* Mutant of ExitCode: under --strict too, only the report is looked at closely.
ExitCodeOfReport(f, gates, strict) ==
    IF ReadyVerdict(f, strict) = "NO" \/ "BLOCKED" \in gates THEN 1 ELSE 0

\* What recovery found plays no part in it.
ExitCode(f, gates, strict) ==
    IF \/ ReadyVerdict(f, strict) = "NO"
       \/ "BLOCKED" \in gates \/ (strict /\ "CONDITIONAL" \in gates)
    THEN 1
    ELSE 0

\* The rest of run_recovery, from the attestations on, and of the run.
Recover ==
    /\ pc = "recover"
    /\ pc' = "idle"
    /\ report' = RecoveryReport(parsed, engines, Attested(parsed), Audit)
    /\ exit' = ExitCode(readiness, GatesShown, "strict" \in flags)
    /\ UNCHANGED <<inputs, flags, readiness, shown, engines, parsed, lacking, changes>>

\* Ctrl-C, or a file that cannot be read or is not what it should be: nothing
\* of the run remains.
Interrupt ==
    /\ pc # "idle"
    /\ pc' = "idle"
    /\ flags' = {}
    /\ readiness' = NULL
    /\ shown' = Nothing
    /\ engines' = NULL
    /\ parsed' = NULL
    /\ lacking' = {}
    /\ UNCHANGED <<inputs, report, exit, changes>>

-----------------------------------------------------------------------------
(* The person *)

Change ==
    /\ changes < MaxChanges
    /\ changes' = changes + 1
    /\ UNCHANGED run

EditProject ==
    /\ Change
    /\ proj' \in ProjectSet \ {proj}
    /\ areas' \in {a \in AreaSet : Fits(proj', a)}
    /\ lacking' = lacking \cap Lacks(proj', areas')
    /\ UNCHANGED <<attestations, rejection>>

EditAttestations ==
    /\ Change
    /\ attestations' \in AttestationSet \ {attestations}
    /\ UNCHANGED <<proj, areas, rejection, lacking>>

NewRejection ==
    /\ Change
    /\ rejection' \in RejectionSet \ {rejection}
    /\ UNCHANGED <<proj, areas, attestations, lacking>>

Next ==
    \/ \E fs \in FlagSet : Start(fs)
    \/ ShowPreReview \/ RunAreas \/ Review \/ Recover \/ Interrupt
    \/ EditProject \/ EditAttestations \/ NewRejection

Spec == Init /\ [][Next]_vars

-----------------------------------------------------------------------------
(* Properties *)

Results ==
    [status : Resolved \cup {"FORBIDDEN_TO_CLAIM"}, reason : {NULL}]
    \cup [status : {"UNVERIFIED"},
          reason : {"still_blocked", "requires_runtime", "requires_user_confirmation"}]

\* Type invariant.  Of a report it says that every cause has one verification
\* result and that a result is unverified exactly when it says what is pending:
\* resubmission counts an unverified result without a reason against the build.
TypeOK ==
    /\ proj \in ProjectSet /\ areas \in AreaSet
    /\ attestations \in AttestationSet /\ rejection \in RejectionSet
    /\ pc \in {"idle", "pre_review", "areas", "review", "recover"}
    /\ flags \in FlagSet \cup {{}}
    /\ pc # "idle" => FoundStatuses(readiness) \subseteq Statuses
    /\ shown.review \in {NULL, "BLOCKED", "CONDITIONAL", "PASS"}
    /\ pc = "recover" => engines.review \in [Categories -> Statuses] /\ parsed \in RejectionSet
    /\ report # NULL =>
        /\ report.candidate \in {"YES", "CONDITIONAL", "NO"}
        /\ DOMAIN report.verification = {c.id : c \in report.causes}
        /\ \A id \in DOMAIN report.verification : report.verification[id] \in Results
    /\ report # NULL => exit \in {0, 1}
    /\ pc = "recover" => lacking \subseteq Lacks(proj, areas)
    /\ changes \in 0..MaxChanges

\* What blocks a category.
Blocking(c) ==
    CASE c = "PERFORMANCE"   -> {"project", "version", "info_plist", "right_usage"}
      [] c = "METADATA"      -> {"version", "real_texts"}
      [] c = "REVIEW_ACCESS" -> {"review_access"}
      [] c = "PRIVACY"       -> {"declarations"}
      [] c = "DESIGN_HIG"    -> {"sound_design"}

\* The categories whose blockers a run with flags fs looks for.
Asked(fs) ==
    {"PERFORMANCE", "METADATA", "REVIEW_ACCESS"}
    \cup {c \in {"PRIVACY"} : "privacy" \in fs} \cup {c \in {"DESIGN_HIG"} : "design" \in fs}

\* When recovery says YES, a person vouches in the attestation file for every
\* category with a blocker that was there during the whole run: neither the choice
\* of rejected categories nor the engines left out hide it, nor does an edit
\* between two of the readings the verdict is made of (run_recovery,
\* _compute_resubmit_candidate).
YesIsBacked ==
    [][report = NULL /\ report' # NULL /\ report'.candidate = "YES" =>
           \A c \in Asked(flags) : lacking \cap Blocking(c) # {} => c \in Attested(parsed)]_vars

\* What "Re-running the check now shows PASS" promises, of the categories with an
\* engine that can pass.
Promised ==
    [ METADATA     |-> {"valid_version", "name", "real_texts", "localizations", "urls"},
      PRIVACY      |-> {"publication", "usage"},
      DESIGN_HIG   |-> {"finished_design"},
      LOCALIZATION |-> {"localized_design"} ]

\* The engines a run has, by category.
Provable(fs) ==
    {"METADATA"} \cup {c \in {"PRIVACY"} : "privacy" \notin fs}
    \cup {c \in {"DESIGN_HIG", "LOCALIZATION"} : "design" \in fs}

\* A claim VERIFIED in the reply to Apple is true: of what it promises nothing has
\* been lacking throughout, whatever was edited while the run read the app, and no
\* category without an engine that can pass is ever claimed so (verify_root_cause,
\* category_recheck_status).
VerifiedIsTrue ==
    report # NULL =>
        \A c \in DOMAIN report.verification :
            report.verification[c].status = "VERIFIED" =>
                c \in Provable(flags) /\ lacking \cap Promised[c] = {}

\* What exit code 0 rules out.
RuledOut(fs) ==
    {"project", "version", "info_plist", "review_access"}
    \cup (IF "privacy" \in fs THEN {"declarations"} ELSE {})
    \cup (IF "design" \in fs THEN {"sound_design"} ELSE {})
    \cup (IF "pre_review" \in fs THEN {"right_usage", "real_texts"} ELSE {})
    \cup (IF "strict" \in fs THEN {"valid_version", "sign_in", "review_info"} ELSE {})
    \cup (IF {"strict", "design"} \subseteq fs THEN {"finished_design"} ELSE {})

\* Exit code 0 is earned: of what the readiness gates and the engines asked for
\* look at nothing has been lacking throughout the run, whatever was edited
\* meanwhile; and under --strict it is never given with --privacy, whose gate
\* does not pass (main).
ExitZeroIsEarned ==
    exit = 0 => /\ lacking \cap RuledOut(flags) = {}
                /\ ~({"strict", "privacy"} \subseteq flags)

\* The eligibility gate of Phase 7, which judges the causes, results and reply
\* again, comes to what recovery found unless the payload shows a blocked
\* finding or a privacy contradiction; then it says NO.
PhasesAgree ==
    report # NULL =>
        Eligibility(report) = IF report.audit = {} THEN report.candidate ELSE "NO"

\* One attestation more turns a YES into something else for one reason only:
\* the cause was CONTRADICTED by the local check, and then always.
OnlyContradictionTurnsBack ==
    report # NULL /\ report.candidate = "YES" =>
        \A c \in report.causes :
            report.verification[c.id].status = "VERIFIED" =>
                LET attested == {id \in DOMAIN report.verification :
                                     report.verification[id].status = "USER_ATTESTED"} \cup {c.id}
                IN Candidacy(parsed, engines, attested) # "YES" <=> c.status = "CONTRADICTED"
=============================================================================
