------------------------------ MODULE AtomicFix ------------------------------
(***************************************************************************)
(* What the Safe Auto-Fix promises: a project file changes only by a safe  *)
(* fix whose own rule passes afterwards, in one step, each fix once.       *)
(* A fix that does not verify changes nothing.                             *)
(***************************************************************************)
EXTENDS FixRules

CONSTANT Contents   \* what each path may hold at first

VARIABLES
    project,    \* content of each path
    verified    \* the fixes reported VERIFIED

AInit ==
    /\ project \in [Paths -> Contents]
    /\ verified = {}

AfterFix(k, f) == IF k = "locale" THEN Directory ELSE Repaired(k, f)

Fix(k) ==
    LET p == TargetOf[k]
        fixed == AfterFix(k, project[p])
    IN  /\ k \notin verified
        /\ SafelyFixable(k, project[p])
        /\ Passes(k, fixed)
        /\ project' = [project EXCEPT ![p] = fixed]
        /\ verified' = verified \cup {k}

ANext == \E k \in Kinds : Fix(k)

ASpec == AInit /\ [][ANext]_<<project, verified>>
=============================================================================
