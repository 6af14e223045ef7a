------------------------------ MODULE Findings ------------------------------
(***************************************************************************)
(* What every engine's findings add up to.  A finding is its status; its   *)
(* wording, evidence and confidence are left out.                          *)
(***************************************************************************)
EXTENDS Naturals

\* STATUS_ORDER: worst first, and UNKNOWN is worse than a RISK.
StatusOrder == <<"BLOCKED", "UNKNOWN", "RISK", "ADVISORY", "PASS">>

Statuses == {StatusOrder[i] : i \in 1..5}

Aggregate(statuses) ==
    IF statuses = {}
    THEN "PASS"
    ELSE StatusOrder[CHOOSE i \in 1..5 : /\ StatusOrder[i] \in statuses
                                         /\ \A j \in 1..(i - 1) : StatusOrder[j] \notin statuses]

\* category_status and area_status: nothing found is UNKNOWN, not PASS.
Rollup(statuses) == IF statuses = {} THEN "UNKNOWN" ELSE Aggregate(statuses)

Gate(statuses) ==
    CASE "BLOCKED" \in statuses                                -> "BLOCKED"
      [] "BLOCKED" \notin statuses /\ "UNKNOWN" \in statuses    -> "CONDITIONAL"
      [] statuses \cap {"BLOCKED", "UNKNOWN"} = {}             -> "PASS"
=============================================================================
