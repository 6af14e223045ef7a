------------------------------- MODULE MCAreas -------------------------------
(***************************************************************************)
(* AreaReviews on two data types and a handful of apps: one that declares  *)
(* everything, and variations that each lack or contradict one thing.      *)
(***************************************************************************)
EXTENDS AreaReviews

Undeclared ==
    [ permissions |-> {}, manifests |-> <<>>, code |-> TRUE,
      uses |-> [code |-> {}, elsewhere |-> {"USER_DEFAULTS", "tracking_domain"}],
      sdks |-> {}, http |-> FALSE, answers |-> <<>> ]

Manifest ==
    [ readable |-> TRUE, misshapen |-> FALSE, tracking |-> "NO", domains |-> "none",
      collected |-> {}, accessed |-> {} ]

Location ==
    [type |-> "LOCATION", linked |-> "YES", tracking |-> "NO", purposes |-> {"ANALYTICS"}]

Says(entries) == [Undeclared EXCEPT !.manifests = [path \in {"app"} |-> [Manifest EXCEPT !.collected = entries]]]

\* Everything is declared once, in one of two manifests.
DeclaredOnce ==
    [Says({Location}) EXCEPT !.uses["code"] = {"USER_DEFAULTS"},
        !.manifests["app"].accessed = {[category |-> "USER_DEFAULTS", reasons |-> TRUE]}]

ASources ==
    { Undeclared, DeclaredOnce,
      [Undeclared EXCEPT !.permissions = {"LOCATION", "CONTACTS"}],
      \* Prose mentions an API, and there is no code to search instead.
      [Undeclared EXCEPT !.code = FALSE, !.http = TRUE],
      \* The same entry twice, with and without linkage, and an SDK no entry covers.
      [Says({Location, [Location EXCEPT !.linked = "NO"]}) EXCEPT !.sdks = {"THIRD_PARTY_ADVERTISING"}],
      \* Two manifests that differ, one of them about a type that has no short code.
      [Undeclared EXCEPT !.manifests =
          [ app |-> [Manifest EXCEPT !.collected = {Location}],
            sdk |-> [Manifest EXCEPT !.collected = {[Location EXCEPT !.tracking = "YES"],
                                                    [Location EXCEPT !.type = "CAMERA"]}] ]],
      [DeclaredOnce EXCEPT !.permissions = {"LOCATION"}, !.manifests["app"].accessed = {}],
      [DeclaredOnce EXCEPT !.permissions = {"LOCATION"}, !.sdks = {"ANALYTICS"}],
      [Says({[Location EXCEPT !.linked = "absent", !.purposes = {}]}) EXCEPT
          !.manifests["app"].domains = "listed"],
      [Says({[Location EXCEPT !.linked = "invalid"]}) EXCEPT !.permissions = {"LOCATION"}],
      [Says({}) EXCEPT !.manifests["app"].readable = FALSE] }

Lit(value, own) == [value |-> value, own |-> own]

Box == [control |-> TRUE, text |-> FALSE, key |-> NoKey,
        width |-> <<Lit(44, TRUE)>>, height |-> <<Lit(44, TRUE)>>]

Plain ==
    [ code |-> TRUE, boxes |-> {Box}, bare |-> FALSE, mentioned |-> FALSE,
      scaffolds |-> [code |-> {"excused"}, elsewhere |-> {"unexcused"}],
      icons |-> {"excused"}, gestures |-> {}, requests |-> {"excused"}, fonts |-> {"unexcused"},
      strings |-> FALSE, arbs |-> [en |-> {"title"}, de |-> {"title"}] ]

Bare == [Plain EXCEPT !.code = FALSE, !.boxes = {}, !.scaffolds["code"] = {}, !.icons = {},
                      !.requests = {}, !.fonts = {}]

AFacts ==
    { Plain, Bare,
      [Bare EXCEPT !.mentioned = TRUE, !.scaffolds["elsewhere"] = {}],
      [Plain EXCEPT !.bare = TRUE, !.icons = {"excused", "unexcused"}],
      [Plain EXCEPT !.boxes = {[Box EXCEPT !.key = "k1", !.height = <<>>],
                               [Box EXCEPT !.key = "k2", !.width = <<>>]}],
      \* A box as large as a screen, one without a key, and one with a spacer in it.
      [Plain EXCEPT !.boxes = {Box, [Box EXCEPT !.width = <<Lit(320, TRUE)>>,
                                                !.height = <<Lit(568, TRUE)>>],
                               [Box EXCEPT !.key = "k1", !.height = <<>>]}],
      [Plain EXCEPT !.boxes = {[Box EXCEPT !.key = "k1", !.text = TRUE,
                                           !.width = <<Lit(8, FALSE), Lit(44, TRUE)>>]}],
      [Plain EXCEPT !.arbs = [en |-> {"title", "body"}, de |-> {"title"}]],
      [Plain EXCEPT !.arbs = [en |-> {"title"}], !.scaffolds["code"] = {"unexcused"}] }
=============================================================================
