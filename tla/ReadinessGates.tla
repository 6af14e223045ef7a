--------------------------- MODULE ReadinessGates ---------------------------
(***************************************************************************)
(* Phase 1: what the three readiness gates find in a project.              *)
(*                                                                         *)
(* A project is a record of the facts the gates look for:                  *)
(*   xcode, pbx     the Runner.xcodeproj directory, and the project file   *)
(*                  in it                                                  *)
(*   settings       the build settings of the project file                 *)
(*   release, runner   its Release configuration and Runner target         *)
(*   pubspec        "missing", or what its version line is; description    *)
(*                  and camera are its description line and a dependency   *)
(*                  that needs a permission                                *)
(*   info           whether Info.plist is there; display, usage and urls   *)
(*                  are what it says of the name, of that permission and   *)
(*                  of the URLs                                            *)
(*   lproj, strings localisation directories and InfoPlist.strings         *)
(*   files, text    the classes of text files there are, and the subjects  *)
(*                  each class mentions                                    *)
(*   published      the .asc/app_privacy_published.json attestation        *)
(***************************************************************************)
EXTENDS Findings

Settings == {"PRODUCT_BUNDLE_IDENTIFIER", "DEVELOPMENT_TEAM", "TARGETED_DEVICE_FAMILY",
             "IPHONEOS_DEPLOYMENT_TARGET"}

SettingValues == {"absent", "empty", "unresolved", "concrete"}

\* By suffix: Dart, Swift and the like; YAML and JSON; property lists; Markdown
\* and text; everything else, the Xcode project file and ".env" included.
FileClasses == {"source", "config", "plist", "docs", "other"}

CodeClasses    == {"source", "config", "plist"}
ReviewClasses  == {"docs", "config", "plist"}
DocClasses     == {"docs", "config"}

Subjects == {"sign_in", "demo_account", "review_notes", "app_review", "permission",
             "placeholder", "privacy_url", "support_url"}

Facts ==
    [ xcode : BOOLEAN, pbx : BOOLEAN, settings : [Settings -> SettingValues],
      release : BOOLEAN, runner : BOOLEAN,
      pubspec : {"missing", "versionless", "malformed", "valid"},
      description : {"none", "placeholder", "real"}, camera : BOOLEAN,
      info : BOOLEAN, display : {"none", "unresolved", "placeholder", "real"},
      usage : {"none", "other", "empty", "right"}, urls : SUBSET {"privacy", "support"},
      lproj : BOOLEAN, strings : {"none", "nameless", "named"},
      files : SUBSET FileClasses, text : [FileClasses -> SUBSET Subjects],
      published : BOOLEAN ]

\* Facts that fit together: what a file says needs the file.
Projects ==
    {p \in Facts :
        /\ p.pbx => p.xcode /\ "other" \in p.files
        /\ ~p.pbx => ~p.release /\ ~p.runner /\ \A s \in Settings : p.settings[s] = "absent"
        /\ p.pubspec # "missing" => "config" \in p.files
        /\ p.pubspec = "missing" => ~p.camera /\ p.description = "none"
        /\ p.description = "placeholder" => "placeholder" \in p.text["config"]
        /\ p.info => "plist" \in p.files
        /\ ~p.info => p.display = "none" /\ p.usage = "none" /\ p.urls = {}
        /\ p.strings = "named" => "other" \in p.files
        /\ \A c \in FileClasses \ p.files : p.text[c] = {}}

\* search(pattern, files): an empty list of files is not "no files" but "all
\* of them" (files or self.all_text_files()).
Searched(p, classes) == IF classes \cap p.files = {} THEN p.files ELSE classes \cap p.files

Mentions(p, classes, subject) == \E c \in Searched(p, classes) : subject \in p.text[c]

-----------------------------------------------------------------------------
(* TECHNICAL *)

Presence(there, missing) == IF there THEN "PASS" ELSE missing

\* _pubspec_version
VersionStatus(p) ==
    CASE p.pubspec \in {"missing", "versionless"} -> "BLOCKED"
      [] p.pubspec = "malformed"                  -> "UNKNOWN"
      [] p.pubspec = "valid"                      -> "PASS"

\* setting: a required one must be there and not empty.
SettingStatus(value, required) ==
    CASE value = "concrete"                                   -> "PASS"
      [] value \in {"absent", "empty"} /\ required            -> "BLOCKED"
      [] value = "absent" /\ ~required                        -> "ADVISORY"
      [] value = "unresolved" \/ (value = "empty" /\ ~required) -> "UNKNOWN"

TechnicalStatus(p) ==
    [ PROJECT           |-> Presence(p.xcode, "BLOCKED"),
      PUBSPEC           |-> Presence(p.pubspec # "missing", "BLOCKED"),
      PUBSPEC_VERSION   |-> VersionStatus(p),
      PBXPROJ           |-> "BLOCKED",
      BUNDLE_ID         |-> SettingStatus(p.settings["PRODUCT_BUNDLE_IDENTIFIER"], TRUE),
      TEAM_ID           |-> SettingStatus(p.settings["DEVELOPMENT_TEAM"], FALSE),
      DEVICE_FAMILY     |-> SettingStatus(p.settings["TARGETED_DEVICE_FAMILY"], FALSE),
      INFO_PLIST        |-> Presence(p.info, "BLOCKED"),
      ENTITLEMENTS      |-> "ADVISORY",
      DEPLOYMENT_TARGET |-> SettingStatus(p.settings["IPHONEOS_DEPLOYMENT_TARGET"], FALSE),
      RELEASE_CONFIG    |-> Presence(p.release, "BLOCKED"),
      RUNNER_TARGET     |-> Presence(p.runner, "UNKNOWN") ]

\* Without a project file the inspection returns after four findings.
TechnicalRules(p) ==
    IF p.pbx
    THEN DOMAIN TechnicalStatus(p) \ {"PBXPROJ"}
    ELSE {"PROJECT", "PUBSPEC", "PUBSPEC_VERSION", "PBXPROJ"}

Technical(p) == [rule \in TechnicalRules(p) |-> TechnicalStatus(p)[rule]]

-----------------------------------------------------------------------------
(* METADATA *)

\* _candidate_url: the plist key for this URL, or any URL line in any text
\* file: the expression searched for is the same for both URLs.
UrlStatus(p, url) ==
    IF url \in p.urls \/ Mentions(p, {}, "privacy_url") \/ Mentions(p, {}, "support_url")
    THEN "PASS"
    ELSE "UNKNOWN"

Metadata(p) ==
    [ DISPLAY_NAME       |-> Presence(p.display \in {"placeholder", "real"}, "UNKNOWN"),
      VERSION            |-> Presence(p.pubspec = "valid", "UNKNOWN"),
      BUILD_NUMBER       |-> Presence(p.pubspec = "valid", "UNKNOWN"),
      BUNDLE_ID          |-> Presence(p.pbx /\ p.settings["PRODUCT_BUNDLE_IDENTIFIER"] # "absent",
                                      "UNKNOWN"),
      PRIVACY_POLICY     |-> UrlStatus(p, "privacy"),
      SUPPORT_URL        |-> UrlStatus(p, "support"),
      LOCALIZATIONS      |-> Presence(p.lproj, "ADVISORY"),
      INFOPLIST_STRINGS  |-> Presence(p.strings # "none", "ADVISORY"),
      LOCALIZED_APP_NAME |-> Presence(p.strings = "named", "UNKNOWN") ]

-----------------------------------------------------------------------------
(* REVIEWABILITY *)

SignInSeen(p) == Mentions(p, CodeClasses, "sign_in")

\* "review notes" in a review file also counts as review access.
ReviewInfoSeen(p) ==
    Mentions(p, ReviewClasses, "demo_account") \/ Mentions(p, ReviewClasses, "review_notes")

ReviewInfo(p) ==
    CASE ReviewInfoSeen(p)                        -> "PASS"
      [] ~ReviewInfoSeen(p) /\ SignInSeen(p)      -> "BLOCKED"
      [] ~ReviewInfoSeen(p) /\ ~SignInSeen(p)     -> "UNKNOWN"

Permissions(p) ==
    CASE p.usage # "none"                                                -> "PASS"
      [] p.usage = "none" /\ Mentions(p, CodeClasses, "permission")      -> "UNKNOWN"
      [] p.usage = "none" /\ ~Mentions(p, CodeClasses, "permission")     -> "ADVISORY"

Reviewability(p) ==
    [ LOGIN        |-> IF SignInSeen(p) THEN "RISK" ELSE "UNKNOWN",
      REVIEW_INFO  |-> ReviewInfo(p),
      REVIEW_NOTES |-> Presence(Mentions(p, {}, "review_notes") \/ Mentions(p, {}, "app_review"),
                                "UNKNOWN"),
      BACKEND      |-> "ADVISORY",
      PERMISSIONS  |-> Permissions(p) ]

\* build_report
Readiness(p) ==
    [technical |-> Technical(p), metadata |-> Metadata(p), reviewability |-> Reviewability(p)]

FoundStatuses(f) ==
    UNION {{f[gate][rule] : rule \in DOMAIN f[gate]} : gate \in DOMAIN f}
=============================================================================
