------------------------------ MODULE FixRules ------------------------------
(***************************************************************************)
(* The pure part of the Safe Auto-Fix: what a file can have wrong with it, *)
(* which fix is planned for it, what the fix makes of it, and which rule   *)
(* is run again to verify the fix.                                         *)
(*                                                                         *)
(* A text is known by its line ends, what the planners and rules look for  *)
(* (its defects, and where its version line stands), everything else       *)
(* (rest), and whether its last bytes are its own (whole): a cut text      *)
(* misses them, an overlaid one has the tail of a longer text.             *)
(***************************************************************************)
EXTENDS Sequences

CONSTANT NULL

Missing == [kind |-> "missing"]
Empty == [kind |-> "empty"]
Directory == [kind |-> "directory"]

Text(crlf, defects, rest) ==
    [kind |-> "text", crlf |-> crlf, defects |-> defects, rest |-> rest, whole |-> TRUE]

IsText(f) == f.kind = "text"
Cut(f) == IF IsText(f) THEN [f EXCEPT !.whole = FALSE] ELSE f

\* A file as someone saved it, and one that was left empty, cut or overlaid.
Saved(f) == f \in {Missing, Directory} \/ f = Text(f.crlf, f.defects, f.rest)
Damaged(f) == f = Empty \/ (IsText(f) /\ ~f.whole)

\* plan_fixes plans in this order, apply_plans applies in it.
Order == <<"version", "name", "json", "quotes", "entities", "locale">>
Kinds == {"version", "name", "json", "quotes", "entities", "locale"}
Paths == {"pubspec", "plist", "json", "locale"}
TargetOf == [version |-> "pubspec", quotes |-> "pubspec", name |-> "plist",
             entities |-> "plist", json |-> "json", locale |-> "locale"]

\* The defect a fix removes.
DefectOf == [version |-> "quoted", quotes |-> "mismatched", name |-> "spaced",
             json |-> "comma", entities |-> "ampersand"]

\* What a fix replaces: one value with what is around it, or the text of the file.
SnippetKinds == {"version", "quotes", "name"}

Clean(f, defects) == IsText(f) /\ f.defects \cap defects = {}

JsonParses(f) == Clean(f, {"comma", "cut"}) /\ f.whole
PlistParses(f) == Clean(f, {"ampersand", "angle"}) /\ f.whole

\* verify_fix: the rule a fix of kind k must make pass.  The version rule
\* strips quotes itself.
Passes(k, f) ==
    CASE k \in {"version", "quotes"} -> Clean(f, {"garbled"})
      [] k = "name" -> PlistParses(f) /\ Clean(f, {"unresolved"})
      [] k = "json" -> JsonParses(f)
      [] k = "entities" -> PlistParses(f)
      [] k = "locale" -> f = Directory

Repaired(k, f) == [f EXCEPT !.defects = @ \ {DefectOf[k]}]

HasDefect(f, d) == IsText(f) /\ d \in f.defects

\* The planner of kind k finds its defect.  A repair of a whole file must also
\* make it parse; a snippet is planned whatever else the file has.
SafelyFixable(k, f) ==
    \/ k = "locale" /\ f = Missing
    \/ k \in SnippetKinds /\ HasDefect(f, DefectOf[k])
    \/ /\ k \in {"json", "entities"}
       /\ HasDefect(f, DefectOf[k])
       /\ Passes(k, Repaired(k, f))

\* Malformed, and nothing provably safe to do about it.
NeedsManualRepair(k, f) ==
    \/ k = "json" /\ f.kind \in {"text", "empty"} /\ ~JsonParses(f)
    \/ k = "quotes" /\ HasDefect(f, "garbled")
    \/ k = "entities" /\ HasDefect(f, "angle")

\* What is replaced goes over a line end.  The <key> and the <string> of the
\* display name are on two lines.  VERSION_LINE takes in the white space on either
\* side of the version, and so goes over a line end when a blank line or the end
\* of the file follows, or two blank lines come before ("apart").
SpansLines(k, f) ==
    \/ k \in {"name", "json", "entities"}
    \/ k = "version" /\ HasDefect(f, "apart")

\* read_text turns every line end into \n, so the text a plan remembers has
\* \n for line ends whatever the file has.
ReadText(f) == [f EXCEPT !.crlf = FALSE]

Remembered(k, f) ==
    CASE k \in SnippetKinds -> [value |-> DefectOf[k], spans |-> SpansLines(k, f)]
      [] k \in {"json", "entities"} -> ReadText(f)
      [] k = "locale" -> NULL

\* The plan of a planner, NoPlan when it proposes nothing.
NoPlan == [safety |-> "NONE", before |-> NULL]

Planned(k, f) ==
    CASE SafelyFixable(k, f) -> [safety |-> "SAFE", before |-> Remembered(k, f)]
      [] NeedsManualRepair(k, f) /\ ~SafelyFixable(k, f) -> [safety |-> "MANUAL", before |-> NULL]
      [] ~SafelyFixable(k, f) /\ ~NeedsManualRepair(k, f) -> NoPlan

\* Mutant of StillThere: every planner remembers a snippet with its line end.
StillThereWithLineEnd(k, before, f) ==
    /\ IsText(f)
    /\ IF k \in SnippetKinds THEN before.value \in f.defects /\ ~f.crlf ELSE before = f

\* plan.before in before_text, on the text as its bytes are.
StillThere(k, before, f) ==
    /\ IsText(f)
    /\ IF k \in SnippetKinds
       THEN before.value \in f.defects /\ ~(before.spans /\ f.crlf)
       ELSE before = f
=============================================================================
