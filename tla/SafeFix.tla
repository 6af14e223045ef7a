------------------------------- MODULE SafeFix -------------------------------
(***************************************************************************)
(* The Safe Auto-Fix as it runs: readiness_check.py --apply-safe-fixes     *)
(* plans every fix (plan_fixes), then applies the plans one by one         *)
(* (apply_plans): read the target, compare it with the plan, overwrite it, *)
(* run its rule again, and write the old bytes back when the rule does not *)
(* pass.  Nothing locks the project, so a second run and an editor may     *)
(* come between any two steps; a write is a truncation and then the bytes, *)
(* and the disk or the process may fail in between.                        *)
(***************************************************************************)
EXTENDS FixRules, Naturals

CONSTANTS
    Runs,       \* the processes
    Projects,   \* the projects to be fixed: what each has at each path
    Drafts,     \* Drafts[p]: what an editor may save at path p
    Faults,     \* what may go wrong with the runs
    MaxEdits    \* bound on what an editor does beside them

ASSUME SafeFixAssumption ==
    /\ Faults \subseteq {"disk", "crash"}
    /\ MaxEdits \in Nat
    /\ \A project \in Projects :
           DOMAIN project = Paths /\ \A p \in Paths : Saved(project[p])
    /\ \A p \in Paths : \A f \in Drafts[p] : Saved(f)
    /\ Drafts["locale"] \cup {project["locale"] : project \in Projects} \subseteq {Missing, Directory}
    /\ NULL \notin Runs

VARIABLES
    files,      \* the project
    pc,         \* where each run is
    at,         \* the place in Order a run has got to, planning or applying
    plans,      \* the plan of each kind, NoPlan when there is none
    held,       \* before_bytes of the plan being applied
    handle,     \* a run's file open for writing
    results,    \* FixExecution.status of each kind; a failed verification is
                \* told by its rollback
    edits,      \* how often an editor saved a file
    original,   \* history: the project when a run started
    foreign     \* history: paths that others changed since a run started

plan == <<plans, held, results>>
history == <<edits, original, foreign>>
vars == <<files, pc, at, plans, held, handle, results, edits, original, foreign>>

Locations == {"idle", "plan", "apply", "mkdir", "rmdir", "truncate", "write", "verify",
              "undoTruncate", "undoWrite", "reread", "done", "dead"}
Running == Locations \ {"idle", "done", "dead"}
Unsafe == {"STALE_PLAN", "FAILED_APPLY", "ROLLED_BACK", "ROLLBACK_FAILED"}
Statuses == {"SKIPPED", "VERIFIED"} \cup Unsafe

ASSUME NullAssumption == NULL \notin Statuses

Init ==
    /\ files \in Projects
    /\ pc = [i \in Runs |-> "idle"]
    /\ at = [i \in Runs |-> 1]
    /\ plans = [i \in Runs |-> [k \in Kinds |-> NoPlan]]
    /\ held = [i \in Runs |-> NULL]
    /\ handle = [i \in Runs |-> "none"]
    /\ results = [i \in Runs |-> [k \in Kinds |-> NULL]]
    /\ edits = 0
    /\ original = [i \in Runs |-> NULL]
    /\ foreign = [i \in Runs |-> {}]

Kind(i) == Order[at[i]]
Target(i) == TargetOf[Kind(i)]

At(i, location) == pc[i] = location
Goto(i, location) == pc' = [pc EXCEPT ![i] = location]

\* Path p of the project becomes f by the hand of run i (or of nobody's).
Put(i, p, f) ==
    /\ files' = [files EXCEPT ![p] = f]
    /\ foreign' = [j \in Runs |-> IF j # i /\ f # files[p] THEN foreign[j] \cup {p}
                                                           ELSE foreign[j]]

\* The plan is dealt with: the next one.
Conclude(i, status) ==
    /\ results' = [results EXCEPT ![i][Kind(i)] = status]
    /\ at' = [at EXCEPT ![i] = @ + 1]
    /\ Goto(i, "apply")
    /\ UNCHANGED <<plans, held, edits, original>>

Continue(i, location) ==
    /\ Goto(i, location)
    /\ UNCHANGED <<at, plan, edits, original>>

-----------------------------------------------------------------------------
(* plan_fixes *)

Start(i) ==
    /\ At(i, "idle")
    /\ Goto(i, "plan")
    /\ original' = [original EXCEPT ![i] = files]
    /\ foreign' = [foreign EXCEPT ![i] = {}]
    /\ UNCHANGED <<files, at, plan, handle, edits>>

\* Each planner reads its file anew.
PlanKind(i) ==
    /\ At(i, "plan")
    /\ plans' = [plans EXCEPT ![i][Kind(i)] = Planned(Kind(i), files[Target(i)])]
    /\ IF at[i] < Len(Order)
       THEN at' = [at EXCEPT ![i] = @ + 1] /\ UNCHANGED pc
       ELSE at' = [at EXCEPT ![i] = 1] /\ Goto(i, "apply")
    /\ UNCHANGED <<files, held, results, handle, history>>

-----------------------------------------------------------------------------
(* apply_plans *)

Applying(i) == At(i, "apply") /\ at[i] <= Len(Order)
PlanHere(i) == plans[i][Kind(i)]

\* Mutant of IsSafe: the safety class is not looked at.
IsSafeWhenPlanned(p) == p # NoPlan

IsSafe(p) == p.safety = "SAFE"

\* Nothing was planned, or the plan is not SAFE.
Skip(i) ==
    /\ Applying(i)
    /\ ~IsSafe(PlanHere(i))
    /\ Conclude(i, IF PlanHere(i) = NoPlan THEN NULL ELSE "SKIPPED")
    /\ UNCHANGED <<files, handle, foreign>>

\* The scaffold: target.exists(), then mkdir(exist_ok=False), whose OSError
\* nobody catches.
CheckScaffold(i) ==
    /\ Applying(i)
    /\ IsSafe(PlanHere(i))
    /\ Kind(i) = "locale"
    /\ IF files["locale"] = Missing THEN Continue(i, "mkdir") ELSE Conclude(i, "STALE_PLAN")
    /\ UNCHANGED <<files, handle, foreign>>

MakeScaffold(i) ==
    /\ At(i, "mkdir")
    /\ \/ /\ files["locale"] = Missing
          /\ Put(i, "locale", Directory)
          /\ Continue(i, "verify")
       \/ /\ files["locale"] # Missing \/ "disk" \in Faults
          /\ Continue(i, "dead")
          /\ UNCHANGED <<files, foreign>>
    /\ UNCHANGED handle

RemoveScaffold(i) ==
    /\ At(i, "rmdir")
    /\ \/ /\ files["locale"] = Directory
          /\ Put(i, "locale", Missing)
          /\ Conclude(i, "ROLLED_BACK")
       \/ /\ files["locale"] = Missing
          /\ Continue(i, "dead")
          /\ UNCHANGED <<files, foreign>>
    /\ UNCHANGED handle

\* before_bytes = target.read_bytes(), and the stale-plan check on them.
ReadTarget(i) ==
    /\ Applying(i)
    /\ IsSafe(PlanHere(i))
    /\ Kind(i) # "locale"
    /\ \/ /\ files[Target(i)] = Missing
          /\ Conclude(i, "FAILED_APPLY")
       \/ /\ files[Target(i)] # Missing
          /\ ~StillThere(Kind(i), PlanHere(i).before, files[Target(i)])
          /\ Conclude(i, "STALE_PLAN")
       \/ /\ StillThere(Kind(i), PlanHere(i).before, files[Target(i)])
          /\ held' = [held EXCEPT ![i] = files[Target(i)]]
          /\ Goto(i, "truncate")
          /\ UNCHANGED <<at, plans, results, edits, original>>
    /\ UNCHANGED <<files, handle, foreign>>

Undoing(i) == pc[i] \in {"undoTruncate", "undoWrite"}
Payload(i) == IF Undoing(i) THEN held[i] ELSE Repaired(Kind(i), held[i])
WriteFails(i) == "disk" \in Faults /\ Conclude(i, IF Undoing(i) THEN "ROLLBACK_FAILED" ELSE "FAILED_APPLY")

Writes(i, p) == handle[i] # "none" /\ Target(i) = p

\* write_bytes opens the file, which truncates it ...
Truncate(i) ==
    /\ pc[i] \in {"truncate", "undoTruncate"}
    /\ \/ /\ Put(i, Target(i), Empty)
          /\ handle' = [j \in Runs |->
                 CASE j = i -> "fresh"
                   [] j # i /\ handle[j] = "over" /\ Writes(j, Target(i)) -> "fresh"
                   [] j # i /\ ~(handle[j] = "over" /\ Writes(j, Target(i))) -> handle[j]]
          /\ Continue(i, IF Undoing(i) THEN "undoWrite" ELSE "write")
       \/ /\ WriteFails(i)
          /\ UNCHANGED <<files, handle, foreign>>

\* ... and writes at offset 0.  Over a text another run has written meanwhile,
\* it may leave that text's tail; into a file an editor has replaced, nothing.
Outcomes(i) ==
    CASE handle[i] = "lost" -> {files[Target(i)]}
      [] handle[i] = "over" /\ files[Target(i)] # Payload(i) -> {Payload(i), Cut(Payload(i))}
      [] handle[i] = "fresh" \/ files[Target(i)] = Payload(i) -> {Payload(i)}

Write(i) ==
    /\ pc[i] \in {"write", "undoWrite"}
    /\ \/ /\ \E f \in Outcomes(i) : Put(i, Target(i), f)
          /\ Continue(i, IF Undoing(i) THEN "reread" ELSE "verify")
       \/ /\ WriteFails(i)
          /\ \E f \in IF handle[i] = "lost" THEN {files[Target(i)]} ELSE {Empty, Cut(Payload(i))} :
                Put(i, Target(i), f)
    /\ handle' = [j \in Runs |->
           CASE j = i -> "none"
             [] j # i /\ handle[i] # "lost" /\ handle[j] = "fresh" /\ Writes(j, Target(i)) -> "over"
             [] j # i /\ ~(handle[i] # "lost" /\ handle[j] = "fresh" /\ Writes(j, Target(i))) ->
                    handle[j]]

\* Mutant of Verify: a fix that was written is a fix.
VerifyWritten(i) ==
    /\ At(i, "verify")
    /\ Conclude(i, "VERIFIED")
    /\ UNCHANGED <<files, handle, foreign>>

\* Mutant of Verify: a fix that does not verify is reported but left in place.
VerifyWithoutUndo(i) ==
    /\ At(i, "verify")
    /\ Conclude(i, IF Passes(Kind(i), files[Target(i)]) THEN "VERIFIED" ELSE "ROLLED_BACK")
    /\ UNCHANGED <<files, handle, foreign>>

Verify(i) ==
    /\ At(i, "verify")
    /\ \/ /\ Passes(Kind(i), files[Target(i)])
          /\ Conclude(i, "VERIFIED")
       \/ /\ ~Passes(Kind(i), files[Target(i)])
          /\ Continue(i, IF Kind(i) = "locale" THEN "rmdir" ELSE "undoTruncate")
    /\ UNCHANGED <<files, handle, foreign>>

\* The hash of the restored file, read again.
Reread(i) ==
    /\ At(i, "reread")
    /\ Conclude(i, IF files[Target(i)] = held[i] THEN "ROLLED_BACK" ELSE "ROLLBACK_FAILED")
    /\ UNCHANGED <<files, handle, foreign>>

Finish(i) ==
    /\ At(i, "apply")
    /\ at[i] > Len(Order)
    /\ Continue(i, "done")
    /\ UNCHANGED <<files, handle, foreign>>

-----------------------------------------------------------------------------
(* Beside the runs *)

Crash(i) ==
    /\ "crash" \in Faults
    /\ pc[i] \in Running
    /\ Continue(i, "dead")
    /\ handle' = [handle EXCEPT ![i] = "none"]
    /\ UNCHANGED <<files, foreign>>

\* An editor or another tool replaces a file that is there, and the handles
\* open on it are lost.
Edit(p) ==
    /\ edits < MaxEdits
    /\ files[p] # Missing
    /\ edits' = edits + 1
    /\ \E f \in Drafts[p] \ {files[p]} : Put(NULL, p, f)
    /\ handle' = [i \in Runs |-> IF Writes(i, p) THEN "lost" ELSE handle[i]]
    /\ UNCHANGED <<pc, at, plan, original>>

RunStep(i) ==
    \/ PlanKind(i) \/ Skip(i)
    \/ CheckScaffold(i) \/ MakeScaffold(i) \/ RemoveScaffold(i)
    \/ ReadTarget(i) \/ Truncate(i) \/ Write(i) \/ Verify(i) \/ Reread(i)
    \/ Finish(i)

Next ==
    \/ \E i \in Runs : Start(i) \/ RunStep(i) \/ Crash(i)
    \/ \E p \in Paths : Edit(p)

Spec == Init /\ [][Next]_vars

-----------------------------------------------------------------------------
(* Properties *)

Texts == {project[p] : project \in Projects, p \in Paths}

TypeOK ==
    /\ DOMAIN files = Paths
    /\ pc \in [Runs -> Locations]
    /\ at \in [Runs -> 1..(Len(Order) + 1)]
    /\ \A i \in Runs, k \in Kinds :
         /\ plans[i][k].safety \in {"SAFE", "MANUAL", "NONE"}
         /\ results[i][k] # NULL =>
              plans[i][k] # NoPlan /\ (plans[i][k].safety = "SAFE" <=> results[i][k] # "SKIPPED")
    /\ handle \in [Runs -> {"none", "fresh", "over", "lost"}]
    /\ results \in [Runs -> [Kinds -> Statuses \cup {NULL}]]
    /\ foreign \in [Runs -> SUBSET Paths]

Done(i) == pc[i] = "done"

\* Mutant of UnsafeOutcome: a fix that was rolled back is no failure.
UnsafeOutcomeOfApply(i) == \E k \in Kinds : results[i][k] \in {"STALE_PLAN", "FAILED_APPLY"}

\* What makes the command exit with 1, besides the gates.
UnsafeOutcome(i) == \E k \in Kinds : results[i][k] \in Unsafe

\* A write of run i to path p failed half-way.
Failed(i, p) == \E k \in Kinds : TargetOf[k] = p /\ results[i][k] \in {"FAILED_APPLY", "ROLLBACK_FAILED"}

\* Since run i started nobody else has changed path p, nor has the run failed
\* half-way through a write to it.
Own(i, p) == p \notin foreign[i] /\ ~Failed(i, p)

\* When a run ends, the rule of every fix it reported VERIFIED still passes on
\* every file that was its own: no later fix, and no rollback of a later fix, of
\* the same file has undone it (apply_plans).
VerifiedHolds ==
    \A i \in Runs : Done(i) =>
        \A k \in Kinds :
            results[i][k] = "VERIFIED" /\ Own(i, TargetOf[k]) => Passes(k, files[TargetOf[k]])

\* A run without an unsafe outcome leaves nothing that a second run would still
\* fix in a file that was its own, although plans are made before any is applied
\* and a file may have several defects (plan_fixes, apply_plans, unsafe_outcome).
CleanUnlessUnsafe ==
    \A i \in Runs : Done(i) /\ ~UnsafeOutcome(i) =>
        \A k \in Kinds : Own(i, TargetOf[k]) => ~SafelyFixable(k, files[TargetOf[k]])

\* A plan is called stale only when someone else changed its file since the run
\* started, or the run itself failed half-way through a write to it
\* (verifier.py: "The target drifted from the state the plan was built against").
StaleMeansDrift ==
    \A i \in Runs, k \in Kinds : results[i][k] = "STALE_PLAN" => ~Own(i, TargetOf[k])

\* ... or, for a plan that spans lines, when read_text had turned the line ends of
\* the file into others, and for no other reason: neither an earlier fix of the
\* same file nor its rollback makes a plan stale (VERSION_LINE, apply_plans).
StaleHasACause ==
    \A i \in Runs, k \in Kinds : results[i][k] = "STALE_PLAN" =>
        \/ ~Own(i, TargetOf[k])
        \/ /\ SpansLines(k, original[i][TargetOf[k]])
           /\ ReadText(original[i][TargetOf[k]]) # original[i][TargetOf[k]]

\* Whatever the disk does and however two runs write over each other, once all
\* have ended a file that was left empty, cut or overlaid has made some run
\* exit with an error (unsafe_outcome), or some run was killed.  The exception
\* is the pubspec, of which the rules read two lines only: one run's bytes may
\* be left over another's in silence.
DamageIsReported ==
    (\A i \in Runs : pc[i] \in {"done", "dead"}) =>
        \A p \in Paths : Damaged(files[p]) =>
            \E i \in Runs :
                \/ pc[i] = "dead" \/ UnsafeOutcome(i)
                \/ (p = "pubspec" /\ p \in foreign[i])

\* A fix that failed is undone: when a run ends, a file that nobody else changed,
\* on which no fix was verified and no rollback is reported to have failed, is
\* what it was (README.md: "Rollback on failure").
FailedFixIsUndone ==
    \A i \in Runs : Done(i) =>
        \A p \in Paths \ foreign[i] :
            (\A k \in Kinds : TargetOf[k] = p => results[i][k] \notin {"VERIFIED", "ROLLBACK_FAILED"})
                => files[p] = original[i][p]

-----------------------------------------------------------------------------
(* The abstract specification, seen by hiding the writes under way *)

Settled(i) ==
    [p \in Paths |->
        IF /\ pc[i] \in {"write", "verify", "undoTruncate", "undoWrite", "reread", "rmdir"}
           /\ Target(i) = p
        THEN IF p = "locale" THEN Missing ELSE held[i]
        ELSE files[p]]

TheRun == CHOOSE i \in Runs : TRUE

Promise == INSTANCE AtomicFix WITH
    Contents <- Texts,
    project  <- Settled(TheRun),
    verified <- {k \in Kinds : results[TheRun][k] = "VERIFIED"}

\* A run that has the project to itself implements the promise.
ImplementsFixes == Promise!ASpec
=============================================================================
