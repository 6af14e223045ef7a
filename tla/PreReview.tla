----------------------------- MODULE PreReview ------------------------------
(***************************************************************************)
(* Phase 3: the App Store pre-review rules.  A rule either carries over a  *)
(* readiness finding f, read earlier, or looks at the project p itself.    *)
(***************************************************************************)
EXTENDS ReadinessGates

Categories == {"PERFORMANCE", "METADATA", "REVIEW_ACCESS", "PRIVACY"}

StructureRules == {"PROJECT", "PUBSPEC", "INFO_PLIST"}

\* _project_structure: the worst of those structure findings that were made.
ProjectStructure(f) ==
    Rollup({f.technical[rule] : rule \in StructureRules \cap DOMAIN f.technical})

PermissionDescriptions(p) == IF p.camera /\ p.usage # "right" THEN "BLOCKED" ELSE "PASS"

Performance(p, f) ==
    [ PROJECT_STRUCTURE       |-> ProjectStructure(f),
      VERSION_BUILD           |-> f.technical["PUBSPEC_VERSION"],
      PLACEHOLDER_CONFIG      |-> IF \E c \in DocClasses : "placeholder" \in p.text[c]
                                  THEN "RISK"
                                  ELSE "PASS",
      PERMISSION_DESCRIPTIONS |-> PermissionDescriptions(p) ]

PlaceholderStrings(p) ==
    IF p.display = "placeholder" \/ p.description = "placeholder" THEN "BLOCKED" ELSE "PASS"

MetadataRules(p, f) ==
    [ DISPLAY_NAME             |-> f.metadata["DISPLAY_NAME"],
      VERSION_COHERENT         |-> f.technical["PUBSPEC_VERSION"],
      PRIVACY_URL_CANDIDATE    |-> f.metadata["PRIVACY_POLICY"],
      SUPPORT_URL_CANDIDATE    |-> f.metadata["SUPPORT_URL"],
      PLACEHOLDER_STRINGS      |-> PlaceholderStrings(p),
      LOCALIZATION_CONSISTENCY |-> f.metadata["LOCALIZATIONS"] ]

ReviewAccess(f) ==
    [ LOGIN_REQUIREMENT  |-> f.reviewability["LOGIN"],
      DEMO_CREDENTIALS   |-> f.reviewability["REVIEW_INFO"],
      REVIEW_NOTES       |-> f.reviewability["REVIEW_NOTES"],
      BACKEND_DEPENDENCY |-> f.reviewability["BACKEND"] ]

Privacy(p, f) ==
    [ PERMISSION_USAGE_DESCRIPTIONS |-> f.reviewability["PERMISSIONS"],
      APP_PRIVACY_PUBLICATION       |-> Presence(p.published, "UNKNOWN") ]

\* run_pre_review
ReviewFindings(p, f) ==
    [ PERFORMANCE   |-> Performance(p, f),
      METADATA      |-> MetadataRules(p, f),
      REVIEW_ACCESS |-> ReviewAccess(f),
      PRIVACY       |-> Privacy(p, f) ]

\* PreReviewResult.category_status
CategoryStatus(findings) ==
    [c \in Categories |-> Rollup({findings[c][rule] : rule \in DOMAIN findings[c]})]

\* PreReviewResult.gate
PreReviewGate(findings) ==
    Gate(UNION {{findings[c][rule] : rule \in DOMAIN findings[c]} : c \in Categories})
=============================================================================
