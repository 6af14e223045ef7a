------------------------- MODULE ApprovedSubmission -------------------------
(***************************************************************************)
(* What the closed loop promises, without files, runs or reports: a        *)
(* submission intent is approved by a person, an attempt sends an intent   *)
(* that is approved and ready, the store takes it or not, and an attempt   *)
(* is called verified only after the store has taken it.                   *)
(***************************************************************************)
CONSTANTS Attempts, Intents, ReadyIntents, NULL

VARIABLES
    approved,   \* intents a person approved
    intent,     \* what each attempt sent, NULL before it sends
    attempt     \* how far each attempt got

States == {"none", "sent", "accepted", "refused", "verified"}

AInit ==
    /\ approved \subseteq Intents
    /\ intent = [a \in Attempts |-> NULL]
    /\ attempt = [a \in Attempts |-> "none"]

Approve(x) ==
    /\ x \in Intents
    /\ approved' = approved \cup {x}
    /\ UNCHANGED <<intent, attempt>>

Move(a, from, to) ==
    /\ attempt[a] = from
    /\ attempt' = [attempt EXCEPT ![a] = to]
    /\ UNCHANGED approved

Send(a, x) ==
    /\ x \in approved \cap ReadyIntents
    /\ Move(a, "none", "sent")
    /\ intent' = [intent EXCEPT ![a] = x]

Settle(a) ==
    /\ \/ Move(a, "sent", "accepted")
       \/ Move(a, "sent", "refused")
       \/ Move(a, "accepted", "verified")
    /\ UNCHANGED intent

ANext ==
    \/ \E x \in Intents : Approve(x)
    \/ \E a \in Attempts : Settle(a) \/ \E x \in Intents : Send(a, x)

ASpec == AInit /\ [][ANext]_<<approved, intent, attempt>>
=============================================================================
