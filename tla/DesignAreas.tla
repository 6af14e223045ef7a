----------------------------- MODULE DesignAreas -----------------------------
(***************************************************************************)
(* Phase 5: what the HIG rules find in the code of an app.                 *)
(*                                                                         *)
(* The rules read text.  What they can see of it is a record:              *)
(*   code       there is Dart or Swift                                     *)
(*   boxes      the Container(...) and SizedBox(...) calls in it           *)
(*   bare       a GestureDetector, InkWell or IconButton outside every box *)
(*   mentioned  one of these is mentioned outside the code                 *)
(*   scaffolds  whether the files with a Scaffold have a SafeArea, in the  *)
(*              code and elsewhere                                         *)
(*   icons, gestures, requests, fonts                                      *)
(*              the IconButtons, tap gestures, permission requests and     *)
(*              font sizes there are: with what excuses them, or without   *)
(*   strings    a literal is passed to Text()                              *)
(*   arbs       the keys of each localisation resource that can be parsed  *)
(* measured is the content of the --design-evidence file: the rendered     *)
(* sizes of controls, by key.                                              *)
(***************************************************************************)
EXTENDS Findings, Sequences

CONSTANTS Keys,     \* the keys of widgets
          Sizes,    \* widths and heights, in points
          ArbKeys   \* keys of localised strings

NoKey == "no key"

ASSUME SizesAssumption == Sizes \subseteq Nat /\ NoKey \notin Keys

\* A number as it is written, and whether it is the box's own or that of a
\* widget inside the box.
Literals == [value : Sizes, own : BOOLEAN]

\* The text of a call: whether a control and a Text( occur in it, its first
\* key, and the width and height literals in the order they are written.
Boxes ==
    [control : BOOLEAN, text : BOOLEAN, key : Keys \cup {NoKey},
     width : Seq(Literals), height : Seq(Literals)]

Excuses == {"excused", "unexcused"}

\* An icon button and a gesture detector are controls, and code is needed.
IsFacts(d) ==
    /\ {d.code, d.bare, d.mentioned, d.strings} \subseteq BOOLEAN
    /\ d.boxes \subseteq Boxes
    /\ d.scaffolds \in [{"code", "elsewhere"} -> SUBSET Excuses]
    /\ d.icons \cup d.gestures \cup d.requests \cup d.fonts \subseteq Excuses
    /\ \A path \in DOMAIN d.arbs : d.arbs[path] \subseteq ArbKeys
    /\ ~d.code => /\ d.boxes = {} /\ ~d.bare /\ ~d.strings
                  /\ d.scaffolds["code"] \cup d.icons \cup d.gestures \cup d.requests \cup d.fonts = {}
    /\ d.icons \cup d.gestures # {} => d.bare \/ \E b \in d.boxes : b.control

-----------------------------------------------------------------------------
(* Accessibility *)

MinTouchTarget == 44

\* extract_named_number: the first one in the text of the call.
Stated(b) == b.width # <<>> /\ b.height # <<>>

StatedSize(b) == <<Head(b.width).value, Head(b.height).value>>

\* _rendered_size_for: only asked when a literal is missing.
Known(b, measured) == Stated(b) \/ b.key \in DOMAIN measured

\* Mutant of SizeOf: the evidence file is asked first.
SizeOfRendered(b, measured) == IF b.key \in DOMAIN measured THEN measured[b.key] ELSE StatedSize(b)

SizeOf(b, measured) == IF Stated(b) THEN StatedSize(b) ELSE measured[b.key]

TooSmall(size) == size[1] < MinTouchTarget \/ size[2] < MinTouchTarget

Wrapping(d) == {b \in d.boxes : b.control}

\* Without code every text file is searched for controls, but none for boxes.
AnyInteractive(d) == IF d.code THEN d.bare \/ Wrapping(d) # {} ELSE d.mentioned

Undersized(d, measured) ==
    {b \in Wrapping(d) : Known(b, measured) /\ TooSmall(SizeOf(b, measured))}

Unresolved(d, measured) == {b \in Wrapping(d) : ~Known(b, measured)}

TouchTargetSize(d, measured) ==
    CASE ~AnyInteractive(d)                                              -> "PASS"
      [] Undersized(d, measured) # {}                                    -> "BLOCKED"
      [] /\ AnyInteractive(d) /\ Undersized(d, measured) = {}
         /\ Wrapping(d) = {} \/ Unresolved(d, measured) # {}             -> "UNKNOWN"
      [] /\ AnyInteractive(d) /\ Undersized(d, measured) = {}
         /\ Wrapping(d) # {} /\ Unresolved(d, measured) = {}             -> "PASS"

IconButtonSemanticLabel(d) == IF "unexcused" \in d.icons THEN "BLOCKED" ELSE "PASS"

\* What the heuristics have in common: a risk at worst.
RiskIf(seen) == IF seen THEN "RISK" ELSE "PASS"

DynamicType(d) == RiskIf("unexcused" \in d.fonts)

-----------------------------------------------------------------------------
(* Layout *)

KnownScreenDimensions ==
    {<<320, 568>>, <<375, 667>>, <<375, 812>>, <<390, 844>>,
     <<414, 736>>, <<414, 896>>, <<428, 926>>, <<430, 932>>}

SafeArea(d) ==
    IF "unexcused" \in d.scaffolds[IF d.code THEN "code" ELSE "elsewhere"]
    THEN "UNKNOWN"
    ELSE "PASS"

HardcodedDimensions(d) ==
    RiskIf(\E b \in d.boxes : Stated(b) /\ StatedSize(b) \in KnownScreenDimensions)

-----------------------------------------------------------------------------
(* Localization *)

FixedContainerMaxWidth == 150

HardcodedString(d) == RiskIf(d.strings)

AllKeys(d) == UNION {d.arbs[path] : path \in DOMAIN d.arbs}

\* Fewer than two resources leave nothing to compare.
MissingKey(d) ==
    CASE \A p, q \in DOMAIN d.arbs : p = q                    -> "UNKNOWN"
      [] /\ \E p, q \in DOMAIN d.arbs : p # q
         /\ \E p \in DOMAIN d.arbs : d.arbs[p] # AllKeys(d)   -> "BLOCKED"
      [] /\ \E p, q \in DOMAIN d.arbs : p # q
         /\ \A p \in DOMAIN d.arbs : d.arbs[p] = AllKeys(d)   -> "PASS"

FixedTextContainer(d) ==
    RiskIf(\E b \in d.boxes :
               b.text /\ b.width # <<>> /\ Head(b.width).value <= FixedContainerMaxWidth)

-----------------------------------------------------------------------------
(* Interaction, and the result *)

GestureOnly(d) == RiskIf("unexcused" \in d.gestures)

PermissionContext(d) == RiskIf("unexcused" \in d.requests)

\* run_design_review, by area
DesignFindings(d, measured) ==
    [ ACCESSIBILITY |-> [ TOUCH_TARGET_SIZE          |-> TouchTargetSize(d, measured),
                          ICON_BUTTON_SEMANTIC_LABEL |-> IconButtonSemanticLabel(d),
                          DYNAMIC_TYPE               |-> DynamicType(d) ],
      LAYOUT        |-> [ SAFE_AREA                  |-> SafeArea(d),
                          HARDCODED_DIMENSIONS       |-> HardcodedDimensions(d) ],
      LOCALIZATION  |-> [ HARDCODED_STRING           |-> HardcodedString(d),
                          MISSING_KEY                |-> MissingKey(d),
                          FIXED_TEXT_CONTAINER       |-> FixedTextContainer(d) ],
      INTERACTION   |-> [ GESTURE_ONLY               |-> GestureOnly(d),
                          PERMISSION_CONTEXT         |-> PermissionContext(d) ] ]

DesignAreaNames == {"ACCESSIBILITY", "LAYOUT", "LOCALIZATION", "INTERACTION"}

StatusesIn(findings, area) == {findings[area][rule] : rule \in DOMAIN findings[area]}

AreaStatus(findings) ==
    [area \in DesignAreaNames |-> Rollup(StatusesIn(findings, area))]

\* Mutant of DesignGate: the gate of the HIG rules proper.
DesignGateOfHig(findings) ==
    Gate(UNION {StatusesIn(findings, area) : area \in DesignAreaNames \ {"LOCALIZATION"}})

DesignGate(findings) == Gate(UNION {StatusesIn(findings, area) : area \in DesignAreaNames})

DesignResult(d, measured) ==
    LET findings == DesignFindings(d, measured)
    IN [findings |-> findings, area |-> AreaStatus(findings), gate |-> DesignGate(findings)]
=============================================================================
