----------------------------- MODULE MCRecovery -----------------------------
(***************************************************************************)
(* RecoveryLoop on nine projects, one of them ready: each of the others    *)
(* lacks one thing, or a few that do not hide one another.                 *)
(***************************************************************************)
EXTENDS RecoveryLoop

Good ==
    [ xcode |-> TRUE, pbx |-> TRUE, settings |-> [s \in Settings |-> "concrete"],
      release |-> TRUE, runner |-> TRUE,
      pubspec |-> "valid", description |-> "real", camera |-> TRUE,
      info |-> TRUE, display |-> "real", usage |-> "right", urls |-> {"privacy"},
      lproj |-> TRUE, strings |-> "named",
      files |-> FileClasses,
      text |-> [c \in FileClasses |->
                   CASE c = "source" -> {"sign_in", "permission"}
                     [] c = "docs"   -> {"demo_account", "review_notes", "support_url"}
                     [] OTHER        -> {}],
      published |-> TRUE ]

NoXcode ==
    [Good EXCEPT !.xcode = FALSE, !.pbx = FALSE, !.release = FALSE, !.runner = FALSE,
                 !.settings = [s \in Settings |-> "absent"]]

NoInfo == [Good EXCEPT !.info = FALSE, !.display = "none", !.usage = "none", !.urls = {}]

\* Nothing but a placeholder, which the description repeats.
Placeholder ==
    [Good EXCEPT !.description = "placeholder", !.display = "placeholder",
                 !.text["config"] = {"placeholder"}]

\* No file that mentions anything but the source; the notes went with it.
NoNotes == [Good EXCEPT !.files = {"source", "config", "plist", "other"}, !.text["docs"] = {}]

AProjects ==
    { Good, NoXcode, NoInfo, Placeholder, NoNotes,
      [Good EXCEPT !.pubspec = "versionless"],
      [Good EXCEPT !.pubspec = "malformed"],
      [Good EXCEPT !.usage = "empty"],
      [Good EXCEPT !.lproj = FALSE, !.published = FALSE] }

\* What the engines find to declare, all of it declared, and nothing to draw.
Declaring ==
    [ permissions |-> {"CAMERA"}, code |-> TRUE,
      manifests |-> [path \in {"app"} |->
          [ readable |-> TRUE, misshapen |-> FALSE, tracking |-> "NO", domains |-> "none",
            collected |-> {[type |-> "CAMERA", linked |-> "NO", tracking |-> "NO", purposes |-> {}]},
            accessed |-> {[category |-> "USER_DEFAULTS", reasons |-> TRUE]} ]],
      uses |-> [code |-> {"USER_DEFAULTS"}, elsewhere |-> {}],
      sdks |-> {}, http |-> FALSE, answers |-> <<>> ]

Drawing ==
    [ code |-> TRUE,
      boxes |-> {[ control |-> TRUE, text |-> FALSE, key |-> "k1",
                   width |-> <<[value |-> 48, own |-> TRUE]>>, height |-> <<>> ]},
      bare |-> FALSE, mentioned |-> FALSE,
      scaffolds |-> [code |-> {"excused"}, elsewhere |-> {}],
      icons |-> {}, gestures |-> {}, requests |-> {}, fonts |-> {"unexcused"},
      strings |-> FALSE, arbs |-> [en |-> {"title"}, ko |-> {"title"}] ]

ASafeArea ==
    [privacy |-> Declaring, design |-> Drawing, measured |-> [k \in {"k1"} |-> <<48, 48>>]]

NoPermission == [Declaring EXCEPT !.permissions = {}]

\* All is well; an API and a translation are missing; two declarations disagree
\* and a size is not known.
AAreas ==
    UNION { { [ASafeArea EXCEPT !.privacy = declaring],
              [ASafeArea EXCEPT !.privacy = [declaring EXCEPT !.manifests["app"].accessed = {}],
                                !.design.arbs["ko"] = {}],
              [ASafeArea EXCEPT !.privacy = [declaring EXCEPT !.answers = [t \in {"CAMERA"} |->
                                    [claims |-> [f \in TriFields |-> "YES"], purposes |-> {}]]],
                                !.measured = <<>>] } :
            declaring \in {Declaring, NoPermission} }

NoEntries == [category |-> <<>>, cause |-> <<>>]

AAttestations ==
    { NoEntries,
      [NoEntries EXCEPT !.category = [c \in {"METADATA", "REVIEW_ACCESS"} |-> TRUE]],
      [ category |-> [c \in {"METADATA"} |-> FALSE],
        cause    |-> [k \in {"r1"} \X {"METADATA", "PRIVACY", "PAYMENTS_IAP"} |-> TRUE] ] }

\* The second message comes in the file of the first, and so with its id.
ARejections ==
    { [id |-> "r1", guidelines |-> {"g2_3"}, signals |-> {}],
      [id |-> "r1", guidelines |-> {"g2_1"},
       signals |-> {"review_access", "crash_performance", "device_platform"}],
      [id |-> "r2", guidelines |-> {"g2_3", "g5_1_1"}, signals |-> {"design_hig", "localization"}],
      [id |-> "r1", guidelines |-> {"g4_0"}, signals |-> {"payments_iap", "privacy"}] }

AFlags == {{}, {"strict", "design"}, {"strict", "privacy"}, {"pre_review", "privacy", "design"}}
=============================================================================
