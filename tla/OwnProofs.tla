------------------------------- MODULE OwnProofs -------------------------------
(***************************************************************************)
(* What the Safe Auto-Fix does to the files that are a run's own: those    *)
(* nobody else has changed since it started and that it did not break      *)
(* itself.  However many other runs and editors work beside it, whatever   *)
(* the disk does and whoever is killed, fixes add up on them, and a run    *)
(* that has the whole project to itself implements AtomicFix.              *)
(***************************************************************************)
EXTENDS SafeFixProofs

-----------------------------------------------------------------------------
(* The inductive invariant *)

\* Path p is its own for a run that goes on.
Undisturbed(i, p) == pc[i] \notin {"idle", "dead"} /\ Own(i, p)

Before(i, k) == original[i][TargetOf[k]]

VerifiedBy(i) == {k \in Kinds : results[i][k] = "VERIFIED"}

\* What the write of a fix may leave of a text: over another run's handle it
\* may miss the last bytes.
Leavings(k, f) == IF k = "locale" THEN {Directory} ELSE {Repaired(k, f), Cut(Repaired(k, f))}

\* The project a run found.
Found(i) ==
    /\ pc[i] = "idle" => at[i] = 1
    /\ pc[i] # "idle" => \A p \in Paths : WellFormed(original[i][p])
    /\ pc[i] = "plan" => \A p \in Paths : Undisturbed(i, p) => files[p] = original[i][p]

\* The plans are those of the project as it was when the run started.
PlansMade(i) ==
    \A k \in Kinds :
        Undisturbed(i, TargetOf[k]) /\ (pc[i] = "plan" => Place[k] < at[i])
            => plans[i][k] = Planned(k, Before(i, k))

\* Every SAFE plan a run has dealt with has a result.
Dealt(i) ==
    /\ \A k \in Kinds :
         pc[i] \notin {"idle", "plan", "dead"} /\ Place[k] < at[i] /\ IsSafe(plans[i][k])
             => results[i][k] # NULL
    /\ pc[i] = "done" => at[i] > Len(Order)

\* What is on the disk while a run writes.
OnDisk(i) ==
    pc[i] \in Holds \cup Makes /\ Undisturbed(i, Target(i)) =>
        /\ handle[i] # "lost"
        /\ pc[i] # "rmdir"
        /\ pc[i] = "mkdir" => files["locale"] = Missing
        /\ Kind(i) # "locale" => SafelyFixable(Kind(i), held[i])
        /\ pc[i] = "truncate" => files[Target(i)] = held[i]
        /\ pc[i] = "verify" => files[Target(i)] \in Leavings(Kind(i), held[i])

\* What the fixes have made of path p: without one verified it is what it was;
\* defects are taken away and none is brought, the verified fixes' stay away,
\* and each fix takes its own only.
AddUp(i, p) ==
    /\ (\A k \in VerifiedBy(i) : TargetOf[k] # p) => Settled(i)[p] = original[i][p]
    /\ \A k \in Kinds : TargetOf[k] = p =>
         /\ SafelyFixable(k, Settled(i)[p]) => SafelyFixable(k, original[i][p])
         /\ k \in VerifiedBy(i) => Passes(k, Settled(i)[p]) /\ ~SafelyFixable(k, Settled(i)[p])
         /\ k \notin {"locale"} \cup VerifiedBy(i) /\ HasDefect(original[i][p], DefectOf[k]) =>
              HasDefect(Settled(i)[p], DefectOf[k]) /\ Settled(i)[p].crlf = original[i][p].crlf

FixesAddUp(i) == \A p \in Paths : Undisturbed(i, p) => AddUp(i, p)

RunOwn(i) == Found(i) /\ PlansMade(i) /\ Dealt(i) /\ OnDisk(i) /\ FixesAddUp(i)

OwnInv == Shape /\ DOMAIN original = Runs /\ \A i \in Runs : RunOwn(i)

-----------------------------------------------------------------------------
(* The rules *)

LEMMA MendedHas ==
    ASSUME NEW k \in Kinds, NEW f, WellFormed(f), IsText(f)
    PROVE  /\ IsText(Repaired(k, f)) /\ Repaired(k, f).whole = f.whole
           /\ Repaired(k, f).defects = f.defects \ {DefectOf[k]}
           /\ Repaired(k, f).crlf = f.crlf
<1>1. PICK w \in BOOLEAN : AText(f, w)
  BY TextIs
<1>2. PICK c, d, r : f = [kind |-> "text", crlf |-> c, defects |-> d, rest |-> r, whole |-> w]
  BY <1>1 DEF AText
<1> QED
  BY <1>2 DEF Repaired, IsText

\* Where a plan is not stale its defect is still there.
LEMMA StillFixable ==
    ASSUME NEW k \in Kinds \ {"locale"}, NEW f, NEW g, WellFormed(f), SafelyFixable(k, f),
           StillThere(k, Remembered(k, f), g)
    PROVE  SafelyFixable(k, g)
<1>1. CASE k \in SnippetKinds
  BY <1>1 DEF SnippetKinds, StillThere, Remembered, SafelyFixable, HasDefect
<1>2. CASE k \in {"json", "entities"}
  <2>1. IsText(f) /\ DefectOf[k] \in f.defects /\ Passes(k, Repaired(k, f))
    BY <1>2 DEF SafelyFixable, HasDefect, SnippetKinds
  <2>2. PICK w \in BOOLEAN : AText(f, w)
    BY <2>1, TextIs
  <2>3. PICK c, d, r : f = [kind |-> "text", crlf |-> c, defects |-> d, rest |-> r, whole |-> w]
    BY <2>2 DEF AText
  <2>4. g = [kind |-> "text", crlf |-> FALSE, defects |-> d, rest |-> r, whole |-> w]
    BY <1>2, <2>3 DEF StillThere, Remembered, ReadText, SnippetKinds
  <2>5. WellFormed(g) /\ IsText(g)
    BY <2>4 DEF WellFormed, AText, IsText
  <2>6. g.defects = f.defects /\ g.whole = f.whole
    BY <2>3, <2>4
  <2>7. /\ Repaired(k, g).defects = Repaired(k, f).defects
        /\ Repaired(k, g).whole = Repaired(k, f).whole
        /\ IsText(Repaired(k, g)) /\ IsText(Repaired(k, f))
    <3>1. /\ IsText(Repaired(k, g)) /\ Repaired(k, g).whole = g.whole
          /\ Repaired(k, g).defects = g.defects \ {DefectOf[k]}
      BY <2>5, MendedHas
    <3>2. /\ IsText(Repaired(k, f)) /\ Repaired(k, f).whole = f.whole
          /\ Repaired(k, f).defects = f.defects \ {DefectOf[k]}
      BY <2>1, MendedHas
    <3> QED
      BY <2>6, <3>1, <3>2
  <2>8. Passes(k, Repaired(k, g))
    <3>1. CASE k = "json"
      BY <2>1, <2>7, <3>1 DEF Passes, JsonParses, Clean
    <3>2. CASE k = "entities"
      BY <2>1, <2>7, <3>2 DEF Passes, PlistParses, Clean
    <3> QED
      BY <1>2, <3>1, <3>2
  <2> QED
    BY <1>2, <2>1, <2>5, <2>6, <2>8 DEF SafelyFixable, HasDefect
<1> QED
  BY <1>1, <1>2 DEF Kinds, SnippetKinds

\* Only a text is repaired.
LEMMA FixableIsText ==
    ASSUME NEW k \in Kinds \ {"locale"}, NEW f, SafelyFixable(k, f)
    PROVE  IsText(f) /\ DefectOf[k] \in f.defects
  BY DEF SafelyFixable, HasDefect

\* A fix spoils no rule of its file that passed ...
LEMMA PassesStill ==
    ASSUME NEW j \in Kinds \ {"locale"}, NEW k \in Kinds, TargetOf[j] = TargetOf[k],
           NEW f, WellFormed(f), IsText(f), Passes(k, f)
    PROVE  Passes(k, Repaired(j, f))
<1>1. /\ IsText(Repaired(j, f)) /\ Repaired(j, f).whole = f.whole
      /\ Repaired(j, f).defects \subseteq f.defects
  BY MendedHas
<1>2. \A d : Clean(f, d) => Clean(Repaired(j, f), d)
  BY <1>1 DEF Clean
<1>3. CASE k = "version"
  BY <1>2, <1>3 DEF Passes
<1>4. CASE k = "quotes"
  BY <1>2, <1>4 DEF Passes
<1>5. CASE k = "name"
  BY <1>1, <1>2, <1>5 DEF Passes, PlistParses
<1>6. CASE k = "json"
  BY <1>1, <1>2, <1>6 DEF Passes, JsonParses
<1>7. CASE k = "entities"
  BY <1>1, <1>2, <1>7 DEF Passes, PlistParses
<1>8. k # "locale"
  BY Targets
<1> QED
  BY <1>3, <1>4, <1>5, <1>6, <1>7, <1>8 DEF Kinds

\* ... makes nothing fixable that was not ...
LEMMA NothingNewToFix ==
    ASSUME NEW j \in Kinds \ {"locale"}, NEW k \in Kinds, TargetOf[j] = TargetOf[k],
           NEW f, WellFormed(f), IsText(f), SafelyFixable(k, Repaired(j, f))
    PROVE  SafelyFixable(k, f)
<1>1. /\ IsText(Repaired(j, f)) /\ Repaired(j, f).whole = f.whole
      /\ Repaired(j, f).defects = f.defects \ {DefectOf[j]}
  BY MendedHas
<1>2. k # "locale"
  BY Targets
<1>3. IsText(f) /\ DefectOf[k] \in f.defects \ {DefectOf[j]}
  BY <1>1, <1>2, FixableIsText
<1>4. CASE k \in SnippetKinds
  BY <1>3, <1>4 DEF SafelyFixable, HasDefect
<1>5. CASE k \in {"json", "entities"}
  <2>1. Passes(k, Repaired(k, Repaired(j, f)))
    BY <1>5 DEF SafelyFixable, SnippetKinds
  <2>2. /\ IsText(Repaired(k, f)) /\ Repaired(k, f).whole = f.whole
        /\ Repaired(k, f).defects = f.defects \ {DefectOf[k]}
    BY MendedHas
  <2>3. WellFormed(Repaired(j, f))
    BY RepairedText
  <2>4. /\ Repaired(k, Repaired(j, f)).whole = f.whole
        /\ Repaired(k, Repaired(j, f)).defects = (f.defects \ {DefectOf[j]}) \ {DefectOf[k]}
    BY <1>1, <2>3, MendedHas
  <2>5. CASE k = "json"
    <3>1. j = "json"
      BY <2>5 DEF TargetOf, Kinds
    <3> QED
      BY <1>3, <2>5, <3>1
  <2>6. CASE k = "entities"
    <3>1. j = "name"
      BY <1>3, <2>6 DEF TargetOf, Kinds
    <3>2. f.whole /\ f.defects \cap {"ampersand", "angle"} \subseteq {"ampersand"}
      BY <2>1, <2>4, <2>6, <3>1 DEF Passes, PlistParses, Clean, DefectOf
    <3>3. Passes(k, Repaired(k, f))
      BY <2>2, <2>6, <3>2 DEF Passes, PlistParses, Clean, DefectOf
    <3> QED
      BY <1>3, <2>6, <3>3 DEF SafelyFixable, HasDefect
  <2> QED
    BY <1>5, <2>5, <2>6
<1> QED
  BY <1>2, <1>4, <1>5 DEF Kinds, SnippetKinds

LEMMA PlanIs ==
    ASSUME NEW k, NEW f
    PROVE  /\ IsSafe(Planned(k, f)) => SafelyFixable(k, f) /\ Planned(k, f).before = Remembered(k, f)
           /\ SafelyFixable(k, f) => Planned(k, f).safety = "SAFE"
<1>1. SafelyFixable(k, f) \in BOOLEAN /\ NeedsManualRepair(k, f) \in BOOLEAN
  BY DEF SafelyFixable, NeedsManualRepair
<1>2. CASE SafelyFixable(k, f)
  <2>1. Planned(k, f) = [safety |-> "SAFE", before |-> Remembered(k, f)]
    BY <1>2 DEF Planned
  <2> QED
    BY <1>2, <2>1
<1>3. CASE ~SafelyFixable(k, f) /\ NeedsManualRepair(k, f)
  <2>1. Planned(k, f) = [safety |-> "MANUAL", before |-> NULL]
    BY <1>3 DEF Planned
  <2> QED
    BY <1>3, <2>1 DEF IsSafe
<1>4. CASE ~SafelyFixable(k, f) /\ ~NeedsManualRepair(k, f)
  <2>1. Planned(k, f) = NoPlan
    BY <1>4 DEF Planned
  <2> QED
    BY <1>4, <2>1, NoPlanIs
<1> QED
  BY <1>1, <1>2, <1>3, <1>4

LEMMA CutHas ==
    ASSUME NEW f, WellFormed(f), IsText(f)
    PROVE  /\ IsText(Cut(f)) /\ Cut(f).whole = FALSE
           /\ Cut(f).defects = f.defects /\ Cut(f).crlf = f.crlf
<1>1. PICK w \in BOOLEAN : AText(f, w)
  BY TextIs
<1>2. PICK c, d, r : f = [kind |-> "text", crlf |-> c, defects |-> d, rest |-> r, whole |-> w]
  BY <1>1 DEF AText
<1> QED
  BY <1>2 DEF Cut, IsText

\* Over a cut text only the rules that read lines can pass.
LEMMA CutPasses ==
    ASSUME NEW j \in Kinds \ {"locale"}, NEW f, WellFormed(f), IsText(f), Passes(j, Cut(f))
    PROVE  j \in {"version", "quotes"}
<1>1. Cut(f).whole = FALSE
  BY CutHas
<1> QED
  BY <1>1 DEF Passes, PlistParses, JsonParses, Kinds

\* What a fix that passes leaves of a file: the rules that passed still pass,
\* nothing new can be fixed, and the other defects and the line ends are there.
LEMMA FixLeaves ==
    ASSUME NEW j \in Kinds \ {"locale"}, NEW k \in Kinds, TargetOf[j] = TargetOf[k],
           NEW f, WellFormed(f), IsText(f), NEW g \in Leavings(j, f), Passes(j, g)
    PROVE  /\ Passes(k, f) => Passes(k, g)
           /\ SafelyFixable(k, g) => SafelyFixable(k, f) /\ k # j
           /\ k # j /\ HasDefect(f, DefectOf[k]) => HasDefect(g, DefectOf[k]) /\ g.crlf = f.crlf
<1> DEFINE r == Repaired(j, f)
<1>1. /\ IsText(r) /\ r.whole = f.whole /\ r.defects = f.defects \ {DefectOf[j]} /\ r.crlf = f.crlf
      /\ WellFormed(r)
  BY MendedHas, RepairedText
<1>2. k # "locale"
  BY Targets
<1>3. k # j => DefectOf[k] # DefectOf[j]
  BY <1>2 DEF DefectOf, Kinds
<1>4. /\ Passes(k, f) => Passes(k, r)
      /\ SafelyFixable(k, r) => SafelyFixable(k, f)
  BY PassesStill, NothingNewToFix
<1>5. g \in {r, Cut(r)}
  BY DEF Leavings
<1>6. IsText(g) /\ g.defects = r.defects /\ g.crlf = r.crlf
  BY <1>1, <1>5, CutHas
<1>7. SafelyFixable(k, g) => k # j
  <2>1. DefectOf[j] \notin g.defects
    BY <1>1, <1>6
  <2> QED
    BY <1>2, <2>1, FixableIsText
<1>8. (Passes(k, r) => Passes(k, g)) /\ (SafelyFixable(k, g) => SafelyFixable(k, r))
  <2>1. CASE g = r
    BY <2>1
  <2>2. CASE g = Cut(r)
    <3>1. j \in {"version", "quotes"}
      BY <1>1, <2>2, CutPasses
    <3>2. k \in {"version", "quotes"}
      BY <3>1 DEF TargetOf, Kinds
    <3>3. Passes(k, r) => Passes(k, g)
      BY <1>1, <1>6, <3>2 DEF Passes, Clean
    <3>4. SafelyFixable(k, g) => SafelyFixable(k, r)
      BY <1>1, <1>6, <3>2 DEF SafelyFixable, HasDefect, SnippetKinds
    <3> QED
      BY <3>3, <3>4
  <2> QED
    BY <1>5, <2>1, <2>2
<1>9. k # j /\ HasDefect(f, DefectOf[k]) => HasDefect(g, DefectOf[k]) /\ g.crlf = f.crlf
  BY <1>1, <1>3, <1>6 DEF HasDefect
<1> QED
  BY <1>4, <1>7, <1>8, <1>9

LEMMA Placed == \A k \in Kinds : Order[Place[k]] = k /\ Place[k] \in 1..6
  BY DEF Kinds, Order, Place

-----------------------------------------------------------------------------
(* What others do to a run *)

LEMMA SeenIsFile ==
    ASSUME Shape, NEW i \in Runs, NEW p \in Paths
    PROVE  WellFormed(Settled(i)[p])
<1>1. CASE pc[i] \in {"write", "verify", "undoTruncate", "undoWrite", "reread", "rmdir"} /\ Target(i) = p
  <2>1. Settled(i)[p] = IF p = "locale" THEN Missing ELSE held[i]
    BY <1>1 DEF Settled
  <2>2. PlaceOK(i) /\ at[i] <= Len(Order)
    BY <1>1 DEF Shape, RunShape, PlaceOK
  <2>3. p # "locale" => Kind(i) # "locale" /\ pc[i] \in Holds
    BY <1>1, <2>2, Kindly DEF Shape, PlaceOK, Holds, Makes
  <2>4. WellFormed(Missing)
    BY DEF WellFormed
  <2> QED
    BY <2>1, <2>2, <2>3, <2>4 DEF PlaceOK
<1>2. CASE ~(pc[i] \in {"write", "verify", "undoTruncate", "undoWrite", "reread", "rmdir"} /\ Target(i) = p)
  <2>1. Settled(i)[p] = files[p]
    BY <1>2 DEF Settled
  <2> QED
    BY <2>1 DEF Shape, FilesShape
<1> QED
  BY <1>1, <1>2

\* What a step that is not run j's leaves of the run.
NotHis(j) ==
    /\ pc'[j] = pc[j] /\ at'[j] = at[j] /\ plans'[j] = plans[j] /\ held'[j] = held[j]
    /\ results'[j] = results[j] /\ original'[j] = original[j]
    /\ \A p \in Paths : pc[j] # "idle" /\ p \notin foreign'[j] => p \notin foreign[j] /\ files'[p] = files[p]
    /\ handle'[j] = "lost" /\ handle[j] # "lost" => Target(j) \in foreign'[j]

LEMMA OthersAreNotHis ==
    ASSUME Shape, DOMAIN original = Runs, NEW i \in Runs, Start(i) \/ RunStep(i) \/ Crash(i),
           NEW j \in Runs \ {i}
    PROVE  NotHis(j)
<1> USE DEF Shape
<1>0. RunTypes /\ DOMAIN files = Paths /\ foreign \in [Runs -> SUBSET Paths]
  BY DEF RunShape, FilesShape
<1>1. /\ pc'[j] = pc[j] /\ at'[j] = at[j] /\ held'[j] = held[j] /\ results'[j] = results[j]
  BY OthersStay
<1>2. plans'[j] = plans[j] /\ original'[j] = original[j]
  BY <1>0 DEF RunTypes, RunStep, Start, PlanKind, Skip, CheckScaffold, MakeScaffold, RemoveScaffold, ReadTarget,
              Truncate, Write, WriteFails, Verify, Reread, Finish, Crash, Continue, Conclude, plan, history
<1>3. \/ UNCHANGED <<files, foreign>>
      \/ files' = files /\ foreign' = [foreign EXCEPT ![i] = {}]
      \/ \E p, f : Put(i, p, f)
  BY DEF RunStep, Start, PlanKind, Skip, CheckScaffold, MakeScaffold, RemoveScaffold, ReadTarget,
         Truncate, Write, Verify, Reread, Finish, Crash, history
<1>4. \A p \in Paths : p \notin foreign'[j] => p \notin foreign[j] /\ files'[p] = files[p]
  <2>1. CASE UNCHANGED <<files, foreign>>
    BY <2>1
  <2>2. CASE files' = files /\ foreign' = [foreign EXCEPT ![i] = {}]
    BY <1>0, <2>2
  <2>3. CASE \E p, f : Put(i, p, f)
    <3>1. PICK q, f : Put(i, q, f)
      BY <2>3
    <3>2. foreign'[j] = IF f # files[q] THEN foreign[j] \cup {q} ELSE foreign[j]
      BY <3>1 DEF Put
    <3>3. \A p \in Paths : files'[p] = IF p = q THEN f ELSE files[p]
      BY <1>0, <3>1 DEF Put
    <3> QED
      BY <3>2, <3>3
  <2> QED
    BY <1>3, <2>1, <2>2, <2>3
<1>5. handle'[j] # "lost" \/ handle[j] = "lost"
  <2>0. handle \in [Runs -> {"none", "fresh", "over", "lost"}]
    BY DEF HandleShape
  <2>1. CASE Truncate(i)
    <3>1. CASE handle' = [l \in Runs |->
                 CASE l = i -> "fresh"
                   [] l # i /\ handle[l] = "over" /\ Writes(l, Target(i)) -> "fresh"
                   [] l # i /\ ~(handle[l] = "over" /\ Writes(l, Target(i))) -> handle[l]]
      BY <3>1
    <3> QED
      BY <2>1, <3>1 DEF Truncate
  <2>2. CASE Write(i)
    BY <2>2 DEF Write
  <2>3. CASE Crash(i)
    BY <2>0, <2>3 DEF Crash
  <2>4. CASE UNCHANGED handle
    BY <2>4
  <2> QED
    BY <2>1, <2>2, <2>3, <2>4 DEF RunStep, Start, PlanKind, Skip, CheckScaffold, MakeScaffold, RemoveScaffold,
                                  ReadTarget, Verify, Reread, Finish
<1> QED
  BY <1>1, <1>2, <1>4, <1>5 DEF NotHis

LEMMA EditsAreNotHis ==
    ASSUME Shape, NEW p \in Paths, Edit(p), NEW j \in Runs
    PROVE  NotHis(j)
<1>1. PICK f \in Drafts[p] \ {files[p]} : Put(NULL, p, f)
  BY DEF Edit
<1>2. foreign'[j] = foreign[j] \cup {p}
  BY <1>1, SafeFixAssumption DEF Put
<1>3. \A q \in Paths : files'[q] = IF q = p THEN f ELSE files[q]
  BY <1>1 DEF Put, Shape, FilesShape
<1>4. handle'[j] = IF Writes(j, p) THEN "lost" ELSE handle[j]
  BY DEF Edit
<1>5. handle'[j] = "lost" /\ handle[j] # "lost" => Target(j) \in foreign'[j]
  BY <1>2, <1>4 DEF Writes
<1> QED
  BY <1>2, <1>3, <1>5 DEF NotHis, Edit, plan

LEMMA StutterIsNotHis ==
    ASSUME UNCHANGED vars, NEW j \in Runs
    PROVE  NotHis(j)
  BY DEF vars, plan, NotHis

\* What others do leaves a run's own files alone.
LEMMA OthersKeep ==
    ASSUME Shape, NEW j \in Runs, NotHis(j), RunOwn(j)
    PROVE  RunOwn(j)'
<1>1. Kind(j)' = Kind(j) /\ Target(j)' = Target(j)
  BY DEF NotHis, Kind, Target
<1>2. \A p : Failed(j, p)' <=> Failed(j, p)
  BY DEF Failed, NotHis
<1>3. ASSUME NEW p \in Paths, Undisturbed(j, p)'
      PROVE  Undisturbed(j, p) /\ files'[p] = files[p] /\ Settled(j)'[p] = Settled(j)[p]
  <2>1. Undisturbed(j, p) /\ files'[p] = files[p]
    BY <1>2, <1>3 DEF Undisturbed, Own, NotHis
  <2>2. Settled(j)'[p] = Settled(j)[p]
    BY <1>1, <2>1 DEF Settled, NotHis
  <2> QED
    BY <2>1, <2>2
<1>4. VerifiedBy(j)' = VerifiedBy(j)
  BY DEF VerifiedBy, NotHis
<1>5. Found(j)'
  <2>1. \A p \in Paths : WellFormed(original[j][p])' <=> WellFormed(original[j][p])
    BY DEF NotHis, WellFormed, AText
  <2> QED
    BY <1>3, <2>1 DEF RunOwn, Found, NotHis
<1>6. PlansMade(j)'
  BY <1>3, Targets DEF RunOwn, PlansMade, Before, NotHis
<1>7. Dealt(j)'
  BY DEF RunOwn, Dealt, NotHis
<1>8. OnDisk(j)'
  <2> SUFFICES ASSUME pc[j] \in Holds \cup Makes, Undisturbed(j, Target(j))'
               PROVE  OnDisk(j)'
    BY <1>1 DEF OnDisk, NotHis
  <2>1. at[j] <= Len(Order) /\ Target(j) \in Paths /\ (pc[j] = "mkdir" => Target(j) = "locale")
    BY Kindly DEF Shape, RunShape, PlaceOK, Holds, Makes
  <2>2. Undisturbed(j, Target(j)) /\ files'[Target(j)] = files[Target(j)]
    BY <1>1, <1>3, <2>1 DEF Undisturbed
  <2>3. handle'[j] # "lost"
    <3>1. Target(j) \notin foreign'[j]
      BY <1>1 DEF Undisturbed, Own
    <3> QED
      BY <2>2, <3>1 DEF RunOwn, OnDisk, NotHis
  <2> QED
    BY <1>1, <2>1, <2>2, <2>3 DEF RunOwn, OnDisk, NotHis
<1>9. FixesAddUp(j)'
  <2> SUFFICES ASSUME NEW p \in Paths, Undisturbed(j, p)' PROVE AddUp(j, p)'
    BY DEF FixesAddUp
  <2>1. AddUp(j, p) /\ Settled(j)'[p] = Settled(j)[p] /\ original'[j] = original[j]
    BY <1>3 DEF RunOwn, FixesAddUp, NotHis
  <2> QED
    BY <1>4, <2>1 DEF AddUp
<1> QED
  BY <1>5, <1>6, <1>7, <1>8, <1>9 DEF RunOwn

-----------------------------------------------------------------------------
(* What a run does itself *)

\* What a run has said of a fix it does not take back, and its own writes make
\* no file another's.
LEMMA MineStays ==
    ASSUME Shape, NEW i \in Runs, RunStep(i)
    PROVE  /\ pc[i] \notin {"idle", "done", "dead"} /\ pc'[i] # "idle"
           /\ original' = original /\ foreign'[i] = foreign[i]
           /\ \A k \in Kinds : results[i][k] # NULL => results'[i][k] = results[i][k]
           /\ \A p : Undisturbed(i, p)' => Undisturbed(i, p)
<1> USE DEF Shape
<1>0. RunTypes /\ foreign \in [Runs -> SUBSET Paths]
  BY DEF RunShape, FilesShape
<1>1. pc[i] \notin {"idle", "done", "dead"}
  BY DEF RunStep, PlanKind, Skip, CheckScaffold, MakeScaffold, RemoveScaffold, ReadTarget, Truncate, Write,
         Verify, Reread, Finish, Applying, At
<1>2. original' = original
  BY DEF RunStep, PlanKind, Skip, CheckScaffold, MakeScaffold, RemoveScaffold, ReadTarget, Truncate, Write,
         WriteFails, Verify, Reread, Finish, Continue, Conclude, history
<1>3. UNCHANGED foreign \/ \E p, f : Put(i, p, f)
  BY DEF RunStep, PlanKind, Skip, CheckScaffold, MakeScaffold, RemoveScaffold, ReadTarget, Truncate, Write,
         Verify, Reread, Finish, history
<1>4. foreign'[i] = foreign[i]
  BY <1>3 DEF Put
<1>5. ASSUME NEW k \in Kinds, results[i][k] # NULL PROVE results'[i][k] = results[i][k]
  <2>1. CASE results' = results
    BY <2>1
  <2>2. CASE at[i] <= Len(Order) /\ \E status : Conclude(i, status)
    <3>1. Kind(i) \in Kinds /\ Place[Kind(i)] = at[i] /\ at[i] \in 1..6
      BY <2>2, Kindly
    <3>2. results[i][Kind(i)] = NULL
      BY <3>1 DEF RunShape, ResultOK
    <3> QED
      BY <1>0, <1>5, <2>2, <3>1, <3>2 DEF Conclude, RunTypes
  <2> QED
    BY <2>1, <2>2, OneResult
<1>6. ASSUME NEW p, Undisturbed(i, p)' PROVE Undisturbed(i, p)
  <2>1. Failed(i, p) => Failed(i, p)'
    <3> SUFFICES ASSUME NEW k \in Kinds, TargetOf[k] = p, results[i][k] \in {"FAILED_APPLY", "ROLLBACK_FAILED"}
                 PROVE  results'[i][k] \in {"FAILED_APPLY", "ROLLBACK_FAILED"}
      BY DEF Failed
    <3>1. results[i][k] # NULL
      BY NullAssumption DEF Statuses, Unsafe
    <3> QED
      BY <1>5, <3>1
  <2> QED
    BY <1>1, <1>4, <1>6, <2>1 DEF Undisturbed, Own
<1>7. pc'[i] # "idle"
  BY OthersStay
<1> QED
  BY <1>1, <1>2, <1>4, <1>5, <1>6, <1>7

\* What the steps of a run do to its plans and results.
LEMMA StepIs ==
    ASSUME Shape, NEW i \in Runs, RunStep(i)
    PROVE  \/ PlanKind(i) \/ Finish(i)
           \/ /\ pc[i] \notin {"idle", "plan", "done"} /\ pc'[i] \notin {"idle", "plan", "done"}
              /\ UNCHANGED <<at, plans, results, original>>
           \/ /\ pc[i] \notin {"idle", "plan", "done"} /\ at[i] <= Len(Order)
              /\ \E status \in Statuses \cup {NULL} :
                    /\ Conclude(i, status)
                    /\ status # NULL \/ ~IsSafe(PlanHere(i))
<1> DEFINE Goes == /\ pc[i] \notin {"idle", "plan", "done"} /\ pc'[i] \notin {"idle", "plan", "done"}
                   /\ UNCHANGED <<at, plans, results, original>>
           Ends == /\ pc[i] \notin {"idle", "plan", "done"} /\ at[i] <= Len(Order)
                   /\ \E status \in Statuses \cup {NULL} :
                         /\ Conclude(i, status)
                         /\ status # NULL \/ ~IsSafe(PlanHere(i))
<1>0. pc \in [Runs -> Locations] /\ PlaceOK(i)
  BY DEF Shape, RunShape, RunTypes
<1>1. ASSUME NEW location, location \notin {"idle", "plan", "done"}, Continue(i, location),
             pc[i] \notin {"idle", "plan", "done"}
      PROVE  Goes
  BY <1>0, <1>1 DEF Continue, Goto, plan
<1>2. ASSUME NEW status \in {"VERIFIED"} \cup Unsafe, Conclude(i, status),
             pc[i] \notin {"idle", "plan", "done"}, at[i] <= Len(Order)
      PROVE  Ends
  <2>1. status # NULL /\ status \in Statuses
    BY NullAssumption DEF Statuses
  <2> QED
    BY <1>2, <2>1
<1>3. ASSUME pc[i] \in Holds \cup Makes PROVE pc[i] \notin {"idle", "plan", "done"} /\ at[i] <= Len(Order)
  BY <1>0, <1>3 DEF PlaceOK, Holds, Makes
<1>4. CASE Skip(i)
  <2>1. pc[i] = "apply" /\ at[i] <= Len(Order)
    BY <1>4 DEF Skip, Applying, At
  <2>2. /\ Conclude(i, NULL) \/ Conclude(i, "SKIPPED")
        /\ ~IsSafe(PlanHere(i))
    BY <1>4 DEF Skip
  <2> QED
    BY <2>1, <2>2 DEF Statuses
<1>5. CASE CheckScaffold(i) \/ ReadTarget(i)
  <2>1. pc[i] = "apply" /\ at[i] <= Len(Order)
    BY <1>5 DEF CheckScaffold, ReadTarget, Applying, At
  <2>2. \/ \E status \in Unsafe : Conclude(i, status)
        \/ Continue(i, "mkdir")
        \/ Goto(i, "truncate") /\ UNCHANGED <<at, plans, results, original>>
    BY <1>5 DEF CheckScaffold, ReadTarget, Unsafe
  <2>3. CASE Goto(i, "truncate") /\ UNCHANGED <<at, plans, results, original>>
    BY <1>0, <2>1, <2>3 DEF Goto
  <2> QED
    BY <1>1, <1>2, <2>1, <2>2, <2>3
<1>6. CASE MakeScaffold(i) \/ RemoveScaffold(i) \/ Truncate(i) \/ Write(i) \/ Verify(i) \/ Reread(i)
  <2>1. pc[i] \in Holds \cup Makes
    BY <1>6 DEF MakeScaffold, RemoveScaffold, Truncate, Write, Verify, Reread, At, Holds, Makes
  <2>2. \/ \E status \in {"VERIFIED"} \cup Unsafe : Conclude(i, status)
        \/ \E location \in Holds \cup Makes \cup {"dead"} : Continue(i, location)
    BY <1>6 DEF MakeScaffold, RemoveScaffold, Truncate, Write, WriteFails, Verify, Reread, Unsafe, Holds, Makes
  <2>3. \A location \in Holds \cup Makes \cup {"dead"} : location \notin {"idle", "plan", "done"}
    BY DEF Holds, Makes
  <2> QED
    BY <1>1, <1>2, <1>3, <2>1, <2>2, <2>3
<1> QED
  BY <1>4, <1>5, <1>6 DEF RunStep

\* Each planner reads its file anew, and finds what the run found.
LEMMA PlansStep ==
    ASSUME Shape, NEW i \in Runs, RunOwn(i), RunStep(i)
    PROVE  Found(i)' /\ PlansMade(i)' /\ Dealt(i)'
<1>0. /\ RunTypes /\ Len(Order) = 6 /\ pc \in [Runs -> Locations] /\ at[i] \in 1..7
      /\ original' = original /\ pc[i] \notin {"idle", "done", "dead"} /\ pc'[i] # "idle"
      /\ \A p : Undisturbed(i, p)' => Undisturbed(i, p)
  BY MineStays, Places DEF Shape, RunShape, RunTypes
<1>1. \A p \in Paths : WellFormed(original'[i][p])
  BY <1>0 DEF RunOwn, Found
<1>2. \A p : WellFormed(original[i][p])' <=> WellFormed(original'[i][p])
  BY DEF WellFormed, AText
<1>3. CASE PlanKind(i)
  <2>0. Kind(i) \in Kinds /\ Place[Kind(i)] = at[i] /\ at[i] \in 1..6 /\ pc[i] = "plan"
        /\ TargetOf[Kind(i)] = Target(i)
    BY <1>0, <1>3, Kindly DEF PlanKind, At, Shape, RunShape, PlaceOK, Target
  <2>1. \A k \in Kinds : k = Kind(i) <=> Place[k] = at[i]
    BY <2>0, Placed DEF Kind
  <2>2. \A k \in Kinds :
           plans'[i][k] = IF k = Kind(i) THEN Planned(k, files[TargetOf[k]]) ELSE plans[i][k]
    BY <1>0, <1>3, <2>0 DEF PlanKind, RunTypes
  <2>3. files' = files
    BY <1>3 DEF PlanKind
  <2>4. Found(i)'
    BY <1>0, <1>1, <1>2, <2>0, <2>3 DEF Found, RunOwn
  <2>5. \A k \in Kinds : Undisturbed(i, TargetOf[k]) => files[TargetOf[k]] = Before(i, k)
    BY <2>0, Targets DEF RunOwn, Found, Before
  <2>6. CASE at[i] < 6 /\ pc' = pc /\ at' = [at EXCEPT ![i] = @ + 1]
    <3>1. at'[i] = at[i] + 1 /\ pc'[i] = "plan"
      BY <1>0, <2>0, <2>6 DEF RunTypes
    <3>2. ASSUME NEW k \in Kinds, Place[k] < at[i] + 1, Undisturbed(i, TargetOf[k])
          PROVE  plans'[i][k] = Planned(k, Before(i, k))
      BY <2>0, <2>1, <2>2, <2>5, <3>2, Placed DEF RunOwn, PlansMade
    <3> QED
      BY <1>0, <2>4, <3>1, <3>2 DEF PlansMade, Dealt, Before
  <2>7. CASE at[i] >= 6 /\ pc' = [pc EXCEPT ![i] = "apply"] /\ at' = [at EXCEPT ![i] = 1]
    <3>1. at'[i] = 1 /\ pc'[i] = "apply"
      BY <1>0, <2>7 DEF RunTypes
    <3>2. ASSUME NEW k \in Kinds
          PROVE  /\ Undisturbed(i, TargetOf[k]) => plans'[i][k] = Planned(k, Before(i, k))
                 /\ ~(Place[k] < 1)
      BY <2>0, <2>1, <2>2, <2>5, <2>7, Placed DEF RunOwn, PlansMade
    <3> QED
      BY <1>0, <2>4, <3>1, <3>2 DEF PlansMade, Dealt, Before
  <2> QED
    BY <1>0, <1>3, <2>0, <2>6, <2>7 DEF PlanKind, Goto
<1>4. CASE Finish(i)
  <2>1. pc[i] = "apply" /\ pc'[i] = "done" /\ at[i] > Len(Order)
        /\ UNCHANGED <<at, plans, results>>
    BY <1>0, <1>4 DEF Finish, At, Continue, Goto, plan
  <2> QED
    BY <1>0, <1>1, <1>2, <2>1 DEF RunOwn, Found, PlansMade, Dealt, Before
<1>5. CASE /\ pc[i] \notin {"idle", "plan", "done"} /\ pc'[i] \notin {"idle", "plan", "done"}
           /\ UNCHANGED <<at, plans, results, original>>
  BY <1>0, <1>1, <1>2, <1>5 DEF RunOwn, Found, PlansMade, Dealt, Before
<1>6. CASE /\ pc[i] \notin {"idle", "plan", "done"} /\ at[i] <= Len(Order)
           /\ \E status \in Statuses \cup {NULL} :
                 /\ Conclude(i, status)
                 /\ status # NULL \/ ~IsSafe(PlanHere(i))
  <2>1. PICK status \in Statuses \cup {NULL} :
               Conclude(i, status) /\ (status # NULL \/ ~IsSafe(PlanHere(i)))
    BY <1>6
  <2>2. Kind(i) \in Kinds /\ Place[Kind(i)] = at[i]
    BY <1>0, <1>6, Kindly DEF Shape
  <2>3. pc'[i] = "apply" /\ at'[i] = at[i] + 1 /\ plans' = plans
    BY <1>0, <2>1 DEF Conclude, Goto, RunTypes
  <2>4. \A k \in Kinds : results'[i][k] = IF k = Kind(i) THEN status ELSE results[i][k]
    BY <1>0, <2>1, <2>2 DEF Conclude, RunTypes
  <2>5. ASSUME NEW k \in Kinds, Place[k] < at[i] + 1, IsSafe(plans[i][k])
        PROVE  results'[i][k] # NULL
    <3>1. CASE k = Kind(i)
      BY <2>1, <2>4, <2>5, <3>1 DEF PlanHere
    <3>2. CASE k # Kind(i)
      <4>1. Place[k] < at[i]
        BY <1>0, <2>2, <2>5, <3>2, Placed DEF Kind
      <4> QED
        BY <1>0, <1>6, <2>4, <2>5, <3>2, <4>1 DEF RunOwn, Dealt
    <3> QED
      BY <3>1, <3>2
  <2> QED
    BY <1>0, <1>1, <1>2, <1>6, <2>3, <2>5 DEF RunOwn, Found, PlansMade, Dealt, Before
<1> QED
  BY StepIs, <1>3, <1>4, <1>5, <1>6

\* Where a run is whose plan is in hand.
LEMMA HereIs ==
    ASSUME Shape, NEW i \in Runs, pc[i] \notin {"apply", "done", "dead"} \/ Applying(i)
    PROVE  /\ at[i] <= Len(Order) /\ at[i] \in 1..6
           /\ Kind(i) \in Kinds /\ Place[Kind(i)] = at[i]
           /\ Target(i) \in Paths
           /\ Target(i) = "locale" <=> Kind(i) = "locale"
           /\ TargetOf[Kind(i)] = Target(i)
           /\ results[i][Kind(i)] = NULL
<1>1. PlaceOK(i) /\ at[i] <= Len(Order)
  BY DEF Shape, RunShape, PlaceOK, Applying
<1>2. /\ at[i] \in 1..6 /\ Kind(i) \in Kinds /\ Place[Kind(i)] = at[i] /\ Target(i) \in Paths
      /\ Target(i) = "locale" <=> Kind(i) = "locale"
  BY <1>1, Kindly DEF Shape
<1>3. results[i][Kind(i)] = NULL
  BY <1>2 DEF Shape, RunShape, ResultOK
<1> QED
  BY <1>1, <1>2, <1>3 DEF Target

\* On a file of its own, the plan in hand is one of a text that is well-formed.
LEMMA PlanInHand ==
    ASSUME Shape, NEW i \in Runs, RunOwn(i), Applying(i), IsSafe(PlanHere(i)), Undisturbed(i, Target(i))
    PROVE  /\ Kind(i) \in Kinds /\ Target(i) \in Paths /\ TargetOf[Kind(i)] = Target(i)
           /\ WellFormed(original[i][Target(i)]) /\ SafelyFixable(Kind(i), original[i][Target(i)])
           /\ PlanHere(i).before = Remembered(Kind(i), original[i][Target(i)])
<1>1. /\ Kind(i) \in Kinds /\ Target(i) \in Paths /\ TargetOf[Kind(i)] = Target(i) /\ pc[i] = "apply"
  BY HereIs DEF Applying, At
<1>2. PlanHere(i) = Planned(Kind(i), original[i][Target(i)])
  BY <1>1 DEF RunOwn, PlansMade, PlanHere, Before
<1>3. WellFormed(original[i][Target(i)])
  BY <1>1 DEF RunOwn, Found
<1> QED
  BY <1>1, <1>2, <1>3, PlanIs

\* While a run writes, what it holds is repairable, and what it has written is
\* a repair of it.
LEMMA OnDiskStep ==
    ASSUME Shape, NEW i \in Runs, RunOwn(i), RunStep(i)
    PROVE  OnDisk(i)'
<1> SUFFICES ASSUME pc'[i] \in Holds \cup Makes, Undisturbed(i, Target(i))'
             PROVE  /\ handle'[i] # "lost"
                    /\ pc'[i] # "rmdir"
                    /\ pc'[i] = "mkdir" => files'["locale"] = Missing
                    /\ Kind(i)' # "locale" => SafelyFixable(Kind(i)', held'[i])
                    /\ pc'[i] = "truncate" => files'[Target(i)'] = held'[i]
                    /\ pc'[i] = "verify" => files'[Target(i)'] \in Leavings(Kind(i)', held'[i])
  BY DEF OnDisk, Undisturbed, Own, Failed
<1> USE DEF Shape
<1>0. /\ RunTypes /\ DOMAIN files = Paths /\ PlaceOK(i) /\ handle \in [Runs -> {"none", "fresh", "over", "lost"}]
      /\ handle[i] # "none" <=> pc[i] \in Writing
  BY DEF RunShape, FilesShape, HandleShape
<1>1. \A p : Undisturbed(i, p)' => Undisturbed(i, p)
  BY MineStays
<1>2. \A status : ~Conclude(i, status)
  BY <1>0 DEF Conclude, Goto, RunTypes, Holds, Makes
<1>3. CASE PlanKind(i) \/ Skip(i) \/ RemoveScaffold(i) \/ Reread(i) \/ Finish(i)
  <2>1. pc'[i] \notin Holds \cup Makes
    BY <1>0, <1>2, <1>3 DEF PlanKind, Skip, RemoveScaffold, Reread, Finish, At, Continue, Goto, RunTypes, Holds, Makes
  <2> QED
    BY <2>1
<1>4. CASE CheckScaffold(i)
  <2>1. /\ Continue(i, "mkdir") /\ files["locale"] = Missing /\ Kind(i) = "locale" /\ pc[i] = "apply"
        /\ UNCHANGED <<files, handle>>
    BY <1>2, <1>4 DEF CheckScaffold, Applying, At
  <2> QED
    BY <1>0, <2>1 DEF Continue, Goto, Kind, plan, RunTypes, Writing
<1>5. CASE MakeScaffold(i)
  <2>1. pc[i] = "mkdir" /\ Kind(i) = "locale" /\ Target(i) = "locale" /\ UNCHANGED handle
    BY <1>0, <1>5, HereIs DEF MakeScaffold, At, PlaceOK, Makes
  <2>2. ~Continue(i, "dead")
    BY <1>0 DEF Continue, Goto, RunTypes, Holds, Makes
  <2>3. Put(i, "locale", Directory) /\ Continue(i, "verify")
    BY <1>5, <2>2 DEF MakeScaffold
  <2>4. files'["locale"] = Directory
    BY <1>0, <2>3 DEF Put, Paths
  <2>5. pc'[i] = "verify" /\ Kind(i)' = "locale" /\ Target(i)' = "locale"
    BY <1>0, <2>1, <2>3 DEF Continue, Goto, Kind, Target, RunTypes
  <2> QED
    BY <1>0, <2>1, <2>4, <2>5 DEF Leavings, Writing
<1>6. CASE ReadTarget(i)
  <2>1. /\ StillThere(Kind(i), PlanHere(i).before, files[Target(i)])
        /\ held' = [held EXCEPT ![i] = files[Target(i)]]
        /\ Goto(i, "truncate")
        /\ UNCHANGED <<at, files, handle>>
        /\ Kind(i) # "locale" /\ Applying(i) /\ IsSafe(PlanHere(i)) /\ pc[i] = "apply"
    BY <1>2, <1>6 DEF ReadTarget, Applying, At
  <2>2. /\ pc'[i] = "truncate" /\ held'[i] = files[Target(i)]
        /\ Kind(i)' = Kind(i) /\ Target(i)' = Target(i)
    BY <1>0, <2>1 DEF Goto, Kind, Target, RunTypes
  <2>3. Undisturbed(i, Target(i))
    BY <1>1, <2>2
  <2>4. SafelyFixable(Kind(i), files[Target(i)])
    BY <2>1, <2>3, PlanInHand, StillFixable
  <2> QED
    BY <1>0, <2>1, <2>2, <2>4 DEF Writing
<1>7. CASE Truncate(i) \/ Write(i) \/ Verify(i)
  <2>0. pc[i] \in Holds
    BY <1>7 DEF Truncate, Write, Verify, At, Holds
  <2>1. \E location \in {"write", "undoWrite", "verify", "reread", "rmdir", "undoTruncate"} : Continue(i, location)
    BY <1>2, <1>7 DEF Truncate, Write, WriteFails, Verify
  <2>2. /\ Kind(i)' = Kind(i) /\ Target(i)' = Target(i) /\ held' = held
    BY <2>1 DEF Continue, Kind, Target, plan
  <2>3. /\ Undisturbed(i, Target(i)) /\ handle[i] # "lost"
        /\ Kind(i) # "locale" => SafelyFixable(Kind(i), held[i])
        /\ pc[i] = "verify" => files[Target(i)] \in Leavings(Kind(i), held[i])
    BY <1>1, <2>0, <2>2 DEF RunOwn, OnDisk
  <2>4. CASE Truncate(i)
    <3>1. Continue(i, IF Undoing(i) THEN "undoWrite" ELSE "write") /\ handle'[i] = "fresh"
      BY <1>2, <2>4 DEF Truncate, WriteFails
    <3>2. pc'[i] \in {"write", "undoWrite"}
      BY <1>0, <3>1 DEF Continue, Goto, RunTypes
    <3> QED
      BY <2>2, <2>3, <3>1, <3>2
  <2>5. CASE Write(i)
    <3>0. /\ pc[i] \in Writing /\ handle'[i] = "none"
          /\ Kind(i) # "locale" /\ Target(i) \in Paths
      BY <2>5, PayloadText DEF Write, Writing
    <3>1. PICK f \in Outcomes(i) : Put(i, Target(i), f) /\ Continue(i, IF Undoing(i) THEN "reread" ELSE "verify")
      BY <1>2, <2>5 DEF Write, WriteFails
    <3>2. pc'[i] = IF pc[i] = "undoWrite" THEN "reread" ELSE "verify"
      BY <1>0, <3>0, <3>1 DEF Continue, Goto, RunTypes, Undoing, Writing
    <3>3. files'[Target(i)] = f
      BY <1>0, <3>0, <3>1 DEF Put
    <3>4. f \in {Payload(i), Cut(Payload(i))}
      <4>1. handle[i] \in {"fresh", "over"}
        BY <1>0, <2>3, <3>0
      <4> QED
        BY <3>1, <4>1 DEF Outcomes
    <3>5. pc'[i] = "verify" => f \in Leavings(Kind(i), held[i])
      BY <3>0, <3>2, <3>4 DEF Payload, Undoing, Writing, Leavings
    <3> QED
      BY <2>2, <2>3, <3>0, <3>2, <3>3, <3>5
  <2>6. CASE Verify(i)
    <3>0. pc[i] = "verify" /\ UNCHANGED handle
      BY <2>6 DEF Verify, At
    <3>1. /\ ~Passes(Kind(i), files[Target(i)])
          /\ Continue(i, IF Kind(i) = "locale" THEN "rmdir" ELSE "undoTruncate")
      BY <1>2, <2>6 DEF Verify
    <3>2. Kind(i) # "locale"
      BY <2>3, <3>0, <3>1 DEF Leavings, Passes
    <3>3. pc'[i] = "undoTruncate"
      BY <1>0, <3>1, <3>2 DEF Continue, Goto, RunTypes
    <3> QED
      BY <1>0, <2>2, <2>3, <3>0, <3>2, <3>3 DEF Writing
  <2> QED
    BY <1>7, <2>4, <2>5, <2>6
<1> QED
  BY <1>3, <1>4, <1>5, <1>6, <1>7 DEF RunStep

\* A plan dealt with changes the result of its kind only.
LEMMA ConcludeIs ==
    ASSUME Shape, NEW i \in Runs, pc[i] \notin {"apply", "done", "dead"} \/ Applying(i),
           NEW status, Conclude(i, status)
    PROVE  /\ pc'[i] = "apply"
           /\ VerifiedBy(i)' = IF status = "VERIFIED" THEN VerifiedBy(i) \cup {Kind(i)} ELSE VerifiedBy(i)
           /\ Kind(i) \notin VerifiedBy(i)
           /\ \A p : p = Target(i) /\ status \in {"FAILED_APPLY", "ROLLBACK_FAILED"} => ~Undisturbed(i, p)'
<1>0. RunTypes /\ Kind(i) \in Kinds /\ results[i][Kind(i)] = NULL /\ TargetOf[Kind(i)] = Target(i)
  BY HereIs DEF Shape, RunShape
<1>1. pc'[i] = "apply" /\ \A k \in Kinds : results'[i][k] = IF k = Kind(i) THEN status ELSE results[i][k]
  BY <1>0 DEF RunTypes, Conclude, Goto
<1>2. NULL # "VERIFIED"
  BY NullAssumption DEF Statuses
<1>3. Kind(i) \notin VerifiedBy(i)
  BY <1>0, <1>2 DEF VerifiedBy
<1>4. VerifiedBy(i)' = IF status = "VERIFIED" THEN VerifiedBy(i) \cup {Kind(i)} ELSE VerifiedBy(i)
  BY <1>0, <1>1, <1>3 DEF VerifiedBy
<1>5. ASSUME NEW p, p = Target(i), status \in {"FAILED_APPLY", "ROLLBACK_FAILED"} PROVE ~Undisturbed(i, p)'
  <2>1. PICK k \in Kinds : TargetOf[k] = p /\ results'[i][k] \in {"FAILED_APPLY", "ROLLBACK_FAILED"}
    BY <1>0, <1>1, <1>5
  <2> QED
    BY <2>1 DEF Undisturbed, Own, Failed
<1> QED
  BY <1>1, <1>3, <1>4, <1>5

\* On a file of its own a step of a run is a whole fix whose rule passes, or
\* none: what is on the disk in between is hidden, and undone when it fails.
LEMMA SeenStep ==
    ASSUME Shape, NEW i \in Runs, RunOwn(i), RunStep(i), NEW p \in Paths, Undisturbed(i, p)'
    PROVE  \/ /\ Settled(i)'[p] = Settled(i)[p]
              /\ \A k \in Kinds : TargetOf[k] = p => (k \in VerifiedBy(i)' <=> k \in VerifiedBy(i))
           \/ \E k \in Kinds :
                 /\ pc[i] = "verify" /\ k = Kind(i)
                 /\ TargetOf[k] = p /\ k \notin VerifiedBy(i) /\ VerifiedBy(i)' = VerifiedBy(i) \cup {k}
                 /\ SafelyFixable(k, Settled(i)[p])
                 /\ Settled(i)'[p] \in Leavings(k, Settled(i)[p])
                 /\ Passes(k, Settled(i)'[p])
<1> DEFINE Hidden == {"write", "verify", "undoTruncate", "undoWrite", "reread", "rmdir"}
           Now == IF pc[i] \in Hidden /\ Target(i) = p
                  THEN IF p = "locale" THEN Missing ELSE held[i]
                  ELSE files[p]
           Next1 == IF pc'[i] \in Hidden /\ Target(i)' = p
                    THEN IF p = "locale" THEN Missing ELSE held'[i]
                    ELSE files'[p]
           Same == /\ Settled(i)'[p] = Settled(i)[p]
                   /\ \A k \in Kinds : TargetOf[k] = p => (k \in VerifiedBy(i)' <=> k \in VerifiedBy(i))
<1> USE DEF Shape
<1>0. /\ RunTypes /\ DOMAIN files = Paths /\ PlaceOK(i)
      /\ Settled(i)[p] = Now /\ Settled(i)'[p] = Next1
  BY DEF RunShape, FilesShape, Settled
<1>1. Undisturbed(i, p)
  BY MineStays
<1>2. results' = results => VerifiedBy(i)' = VerifiedBy(i)
  BY DEF VerifiedBy
<1>3. ASSUME NEW status, status # "VERIFIED", Conclude(i, status), files' = files,
             pc[i] \notin {"apply", "done", "dead"} \/ Applying(i), pc[i] \notin Hidden \/ Target(i) # p
      PROVE  Same
  BY <1>0, <1>3, ConcludeIs
<1>4. CASE PlanKind(i) \/ Finish(i)
  <2>1. pc[i] \notin Hidden /\ pc'[i] \notin Hidden /\ UNCHANGED <<files, results>>
    BY <1>0, <1>4 DEF PlanKind, Finish, Continue, At, Goto, plan, RunTypes
  <2> QED
    BY <1>0, <1>2, <2>1
<1>5. CASE Skip(i) \/ CheckScaffold(i) \/ ReadTarget(i)
  <2>1. Applying(i) /\ pc[i] = "apply" /\ files' = files
    BY <1>5 DEF Skip, CheckScaffold, ReadTarget, Applying, At
  <2>2. \/ \E status : status # "VERIFIED" /\ Conclude(i, status)
        \/ pc'[i] \in {"mkdir", "truncate"} /\ results' = results
    BY <1>0, <1>5, NullAssumption DEF Skip, CheckScaffold, ReadTarget, Continue, Goto, plan, Statuses, RunTypes
  <2>3. CASE pc'[i] \in {"mkdir", "truncate"} /\ results' = results
    BY <1>0, <1>2, <2>1, <2>3
  <2> QED
    BY <1>3, <2>1, <2>2, <2>3
<1>6. CASE MakeScaffold(i)
  <2>1. pc[i] = "mkdir" /\ Kind(i) = "locale" /\ Target(i) = "locale"
    BY <1>0, <1>6, HereIs DEF MakeScaffold, At, PlaceOK, Makes
  <2>2. ~Continue(i, "dead")
    BY <1>0 DEF Continue, Goto, RunTypes, Undisturbed
  <2>3. Put(i, "locale", Directory) /\ Continue(i, "verify") /\ files["locale"] = Missing
    BY <1>6, <2>2 DEF MakeScaffold
  <2>4. pc'[i] = "verify" /\ Target(i)' = "locale" /\ results' = results
    BY <1>0, <2>1, <2>3 DEF Continue, Goto, Kind, Target, plan, RunTypes
  <2>5. p # "locale" => files'[p] = files[p]
    BY <1>0, <2>3 DEF Put
  <2> QED
    BY <1>0, <1>2, <2>1, <2>3, <2>4, <2>5
<1>7. CASE RemoveScaffold(i)
  <2>1. pc[i] = "rmdir" /\ Kind(i) = "locale" /\ Target(i) = "locale"
    BY <1>0, <1>7, HereIs DEF RemoveScaffold, At, PlaceOK, Makes
  <2>2. p # "locale"
    BY <1>1, <2>1 DEF RunOwn, OnDisk, Makes
  <2>3. ~Continue(i, "dead")
    BY <1>0 DEF Continue, Goto, RunTypes, Undisturbed
  <2>4. Put(i, "locale", Missing) /\ Conclude(i, "ROLLED_BACK")
    BY <1>7, <2>3 DEF RemoveScaffold
  <2>5. files'[p] = files[p]
    BY <1>0, <2>2, <2>4 DEF Put
  <2> QED
    BY <1>0, <2>1, <2>2, <2>4, <2>5, ConcludeIs
<1>8. ASSUME NEW location, Continue(i, location), pc[i] \in Hidden, location \in Hidden,
             \A q \in Paths \ {Target(i)} : files'[q] = files[q]
      PROVE  Same
  <2>1. pc'[i] \in Hidden /\ Target(i)' = Target(i) /\ held' = held /\ results' = results
    BY <1>0, <1>8 DEF Continue, Goto, Kind, Target, plan, RunTypes
  <2> QED
    BY <1>0, <1>2, <1>8, <2>1
<1>9. CASE Truncate(i) \/ Write(i)
  <2>0. /\ pc[i] \in {"truncate", "undoTruncate"} \cup Writing
        /\ Target(i) \in Paths \ {"locale"} /\ pc[i] \notin {"apply", "done", "dead"}
    BY <1>9, PayloadText DEF Truncate, Write, Writing
  <2>1. \A q \in Paths \ {Target(i)} : files'[q] = files[q]
    <3>1. files' = files \/ \E f : Put(i, Target(i), f)
      BY <1>9 DEF Truncate, Write
    <3> QED
      BY <1>0, <2>0, <3>1 DEF Put
  <2>2. CASE WriteFails(i)
    <3>1. p # Target(i) /\ \E status \in {"ROLLBACK_FAILED", "FAILED_APPLY"} : Conclude(i, status)
      BY <2>0, <2>2, ConcludeIs DEF WriteFails
    <3> QED
      BY <1>0, <2>0, <2>1, <3>1, ConcludeIs
  <2>3. CASE \E location \in Hidden : Continue(i, location)
    <3>1. CASE pc[i] = "truncate"
      <4>1. pc'[i] \in Hidden /\ Target(i)' = Target(i) /\ held' = held /\ results' = results
        BY <1>0, <2>3 DEF Continue, Goto, Kind, Target, plan, RunTypes
      <4>2. p = Target(i) => files[p] = held[i]
        BY <1>1, <3>1 DEF RunOwn, OnDisk, Holds
      <4> QED
        BY <1>0, <1>2, <2>0, <2>1, <3>1, <4>1, <4>2
    <3>2. CASE pc[i] # "truncate"
      BY <1>8, <2>0, <2>1, <2>3, <3>2 DEF Writing
    <3> QED
      BY <3>1, <3>2
  <2> QED
    BY <1>9, <2>2, <2>3 DEF Truncate, Write
<1>10. CASE Verify(i)
  <2>0. /\ pc[i] = "verify" /\ files' = files /\ Target(i) \in Paths /\ Kind(i) \in Kinds
        /\ TargetOf[Kind(i)] = Target(i)
        /\ Target(i) = "locale" <=> Kind(i) = "locale"
    BY <1>10, HereIs DEF Verify, At
  <2>1. CASE Passes(Kind(i), files[Target(i)]) /\ Conclude(i, "VERIFIED")
    <3>1. /\ pc'[i] = "apply" /\ Kind(i) \notin VerifiedBy(i)
          /\ VerifiedBy(i)' = VerifiedBy(i) \cup {Kind(i)}
      BY <2>0, <2>1, ConcludeIs
    <3>2. CASE p # Target(i)
      BY <1>0, <2>0, <3>1, <3>2
    <3>3. CASE p = Target(i)
      <4>1. /\ Settled(i)'[p] = files[p]
            /\ Settled(i)[p] = IF Kind(i) = "locale" THEN Missing ELSE held[i]
        BY <1>0, <2>0, <3>1, <3>3
      <4>2. /\ files[p] \in Leavings(Kind(i), held[i])
            /\ Kind(i) # "locale" => SafelyFixable(Kind(i), held[i])
        BY <1>1, <2>0, <3>3 DEF RunOwn, OnDisk, Holds
      <4>3. SafelyFixable(Kind(i), Settled(i)[p])
        BY <4>1, <4>2 DEF SafelyFixable
      <4>4. files[p] \in Leavings(Kind(i), Settled(i)[p])
        BY <4>1, <4>2 DEF Leavings
      <4> QED
        BY <2>0, <2>1, <3>1, <3>3, <4>1, <4>3, <4>4
    <3> QED
      BY <3>2, <3>3
  <2>2. CASE Continue(i, IF Kind(i) = "locale" THEN "rmdir" ELSE "undoTruncate")
    BY <1>8, <2>0, <2>2
  <2> QED
    BY <1>10, <2>1, <2>2 DEF Verify
<1>11. CASE Reread(i)
  <2>1. /\ pc[i] = "reread" /\ files' = files
        /\ Conclude(i, IF files[Target(i)] = held[i] THEN "ROLLED_BACK" ELSE "ROLLBACK_FAILED")
    BY <1>11 DEF Reread, At
  <2>2. CASE p # Target(i)
    BY <1>3, <2>1, <2>2
  <2>3. CASE p = Target(i)
    <3>1. files[p] = held[i] /\ Conclude(i, "ROLLED_BACK")
      BY <2>1, <2>3, ConcludeIs
    <3>2. p # "locale"
      BY <1>0, <2>1, <2>3, HereIs DEF PlaceOK, Holds
    <3> QED
      BY <1>0, <2>1, <2>3, <3>1, <3>2, ConcludeIs
  <2> QED
    BY <2>2, <2>3
<1> QED
  BY <1>4, <1>5, <1>6, <1>7, <1>9, <1>10, <1>11 DEF RunStep

\* A step on a file of its own adds to what the fixes have made of it.
LEMMA AddUpStep ==
    ASSUME Shape, NEW i \in Runs, RunOwn(i), RunStep(i)
    PROVE  FixesAddUp(i)'
<1> SUFFICES ASSUME NEW p \in Paths, Undisturbed(i, p)' PROVE AddUp(i, p)'
  BY DEF FixesAddUp
<1> DEFINE f == Settled(i)[p]
           g == Settled(i)'[p]
<1>1. original' = original /\ AddUp(i, p)
  BY MineStays DEF RunOwn, FixesAddUp
<1>2. CASE g = f /\ \A k \in Kinds : TargetOf[k] = p => (k \in VerifiedBy(i)' <=> k \in VerifiedBy(i))
  <2>1. (\A k \in VerifiedBy(i)' : TargetOf[k] # p) => (\A k \in VerifiedBy(i) : TargetOf[k] # p)
    BY <1>2 DEF VerifiedBy
  <2> QED
    BY <1>1, <1>2, <2>1 DEF AddUp
<1>3. ASSUME NEW j \in Kinds, TargetOf[j] = p, VerifiedBy(i)' = VerifiedBy(i) \cup {j},
             SafelyFixable(j, f), g \in Leavings(j, f), Passes(j, g)
      PROVE  AddUp(i, p)'
  <2>1. ASSUME NEW k \in Kinds, TargetOf[k] = p
        PROVE  /\ SafelyFixable(k, g) => SafelyFixable(k, original[i][p])
               /\ k \in VerifiedBy(i)' => Passes(k, g) /\ ~SafelyFixable(k, g)
               /\ k \notin {"locale"} \cup VerifiedBy(i)' /\ HasDefect(original[i][p], DefectOf[k]) =>
                    HasDefect(g, DefectOf[k]) /\ g.crlf = original[i][p].crlf
    <3>1. CASE j = "locale"
      <4>1. k = "locale" /\ g = Directory
        BY <1>3, <2>1, <3>1 DEF TargetOf, Kinds, Leavings
      <4>2. Directory # Missing
        BY DEF Directory, Missing
      <4>3. ~SafelyFixable(k, g)
        BY <4>1, <4>2 DEF SafelyFixable, SnippetKinds
      <4> QED
        BY <1>3, <3>1, <4>1, <4>3
    <3>2. CASE j # "locale"
      <4>1. IsText(f) /\ WellFormed(f)
        BY <1>3, <3>2, FixableIsText, SeenIsFile
      <4>2. /\ Passes(k, f) => Passes(k, g)
            /\ SafelyFixable(k, g) => SafelyFixable(k, f) /\ k # j
            /\ k # j /\ HasDefect(f, DefectOf[k]) => HasDefect(g, DefectOf[k]) /\ g.crlf = f.crlf
        BY <1>3, <2>1, <3>2, <4>1, FixLeaves
      <4> QED
        BY <1>1, <1>3, <2>1, <4>2 DEF AddUp
    <3> QED
      BY <3>1, <3>2
  <2> QED
    BY <1>1, <1>3, <2>1 DEF AddUp
<1> QED
  BY <1>2, <1>3, SeenStep

\* A run begins with the project as it finds it.
LEMMA StartStep ==
    ASSUME Shape, DOMAIN original = Runs, NEW i \in Runs, RunOwn(i), Start(i)
    PROVE  RunOwn(i)'
<1>0. RunTypes
  BY DEF Shape, RunShape
<1>1. /\ pc[i] = "idle" /\ pc'[i] = "plan" /\ at'[i] = 1 /\ original'[i] = files
      /\ UNCHANGED <<files, results>>
  BY <1>0 DEF Start, At, Goto, RunTypes, RunOwn, Found, plan
<1>2. \A p \in Paths : Settled(i)'[p] = files[p]
  BY <1>1 DEF Settled
<1>3. VerifiedBy(i)' = {}
  <2>1. \A k \in Kinds : results[i][k] = NULL
    BY <1>1 DEF Shape, RunShape, ResultOK
  <2>2. NULL # "VERIFIED"
    BY NullAssumption DEF Statuses
  <2> QED
    BY <1>1, <2>1, <2>2 DEF VerifiedBy
<1>4. Found(i)'
  <2>1. \A p \in Paths : WellFormed(files[p])
    BY DEF Shape, FilesShape
  <2>2. \A p \in Paths : WellFormed(original[i][p])' <=> WellFormed(files[p])
    BY <1>1 DEF WellFormed, AText
  <2> QED
    BY <1>1, <2>1, <2>2 DEF Found
<1>5. PlansMade(i)' /\ Dealt(i)' /\ OnDisk(i)'
  BY <1>1, Placed DEF PlansMade, Dealt, OnDisk, Holds, Makes
<1>6. FixesAddUp(i)'
  BY <1>1, <1>2, <1>3 DEF FixesAddUp, AddUp
<1> QED
  BY <1>4, <1>5, <1>6 DEF RunOwn

\* Of a run that was killed nothing is promised.
LEMMA CrashStep ==
    ASSUME Shape, NEW i \in Runs, RunOwn(i), Crash(i)
    PROVE  RunOwn(i)'
<1>1. pc[i] \notin {"idle", "done"} /\ pc'[i] = "dead" /\ original' = original
  BY DEF Crash, Running, Continue, Goto, Shape, RunShape, RunTypes
<1>2. \A p : ~Undisturbed(i, p)'
  BY <1>1 DEF Undisturbed
<1>3. Found(i)'
  <2>1. \A p \in Paths : WellFormed(original[i][p])' <=> WellFormed(original[i][p])
    BY <1>1 DEF WellFormed, AText
  <2> QED
    BY <1>1, <2>1 DEF RunOwn, Found
<1> QED
  BY <1>1, <1>2, <1>3 DEF RunOwn, PlansMade, Dealt, OnDisk, FixesAddUp, Holds, Makes

LEMMA OwnStep == OwnInv /\ [Next]_vars => OwnInv'
<1> SUFFICES ASSUME OwnInv, [Next]_vars PROVE OwnInv'
  OBVIOUS
<1>0. Shape /\ DOMAIN original = Runs /\ \A j \in Runs : RunOwn(j)
  BY DEF OwnInv
<1>1. Shape'
  BY <1>0, ShapeStep
<1>2. ASSUME NEW i \in Runs, Start(i) \/ RunStep(i) \/ Crash(i)
      PROVE  DOMAIN original' = Runs /\ \A j \in Runs : RunOwn(j)'
  <2>1. RunOwn(i)'
    BY <1>0, <1>2, StartStep, CrashStep, PlansStep, OnDiskStep, AddUpStep DEF RunOwn
  <2>2. ASSUME NEW j \in Runs, j # i PROVE RunOwn(j)'
    BY <1>0, <1>2, <2>2, OthersAreNotHis, OthersKeep
  <2>3. DOMAIN original' = Runs
    <3>1. CASE Start(i)
      BY <1>0, <3>1 DEF Start
    <3>2. CASE RunStep(i)
      BY <1>0, <3>2, MineStays
    <3>3. CASE Crash(i)
      BY <1>0, <3>3 DEF Crash, Continue
    <3> QED
      BY <1>2, <3>1, <3>2, <3>3
  <2> QED
    BY <2>1, <2>2, <2>3
<1>3. ASSUME NEW p \in Paths, Edit(p)
      PROVE  DOMAIN original' = Runs /\ \A j \in Runs : RunOwn(j)'
  BY <1>0, <1>3, EditsAreNotHis, OthersKeep DEF Edit
<1>4. ASSUME UNCHANGED vars
      PROVE  DOMAIN original' = Runs /\ \A j \in Runs : RunOwn(j)'
  BY <1>0, <1>4, StutterIsNotHis, OthersKeep DEF vars
<1>5. DOMAIN original' = Runs /\ \A j \in Runs : RunOwn(j)'
  BY <1>2, <1>3, <1>4 DEF Next
<1> QED
  BY <1>1, <1>5 DEF OwnInv

LEMMA OwnInit == Init => OwnInv
<1> SUFFICES ASSUME Init PROVE OwnInv
  OBVIOUS
<1>1. Shape
  BY ShapeInit
<1>2. ASSUME NEW i \in Runs PROVE RunOwn(i)
  <2>1. pc[i] = "idle" /\ at[i] = 1
    BY DEF Init
  <2> QED
    BY <2>1 DEF RunOwn, Found, PlansMade, Dealt, OnDisk, FixesAddUp, Undisturbed, Holds, Makes
<1> QED
  BY <1>1, <1>2 DEF OwnInv, Init

LEMMA OwnInvHolds == Spec => []OwnInv
  BY OwnInit, OwnStep, PTL DEF Spec

-----------------------------------------------------------------------------
(* Fixes that were verified, and fixes that are left *)

\* When a run has ended nothing hides the files from it.
LEMMA EndSeen ==
    ASSUME OwnInv, NEW i \in Runs, Done(i), NEW k \in Kinds, Own(i, TargetOf[k])
    PROVE  /\ TargetOf[k] \in Paths /\ Undisturbed(i, TargetOf[k])
           /\ Settled(i)[TargetOf[k]] = files[TargetOf[k]]
           /\ AddUp(i, TargetOf[k])
<1>1. TargetOf[k] \in Paths /\ Undisturbed(i, TargetOf[k])
  BY Targets DEF Done, Undisturbed
<1>2. Settled(i)[TargetOf[k]] = files[TargetOf[k]]
  BY <1>1 DEF Done, Settled
<1> QED
  BY <1>1, <1>2 DEF OwnInv, RunOwn, FixesAddUp

\* The rule of a fix reported VERIFIED still passes on a file of the run's own
\* when the run ends, whatever else was fixed or rolled back in that file and
\* whatever other runs did beside it (apply_plans).
THEOREM VerifiedAlwaysHolds == Spec => []VerifiedHolds
<1>1. ASSUME OwnInv PROVE VerifiedHolds
  <2> SUFFICES ASSUME NEW i \in Runs, Done(i), NEW k \in Kinds, results[i][k] = "VERIFIED",
                      Own(i, TargetOf[k])
               PROVE  Passes(k, files[TargetOf[k]])
    BY DEF VerifiedHolds
  <2>1. k \in VerifiedBy(i)
    BY DEF VerifiedBy
  <2> QED
    BY <1>1, <2>1, EndSeen DEF AddUp
<1> QED
  BY <1>1, OwnInvHolds, PTL

\* A run that reports no failure leaves nothing in a file of its own that it
\* would still fix (plan_fixes, apply_plans, unsafe_outcome).
THEOREM NothingLeftToFix == Spec => []CleanUnlessUnsafe
<1>1. ASSUME OwnInv PROVE CleanUnlessUnsafe
  <2> SUFFICES ASSUME NEW i \in Runs, Done(i), ~UnsafeOutcome(i), NEW k \in Kinds,
                      Own(i, TargetOf[k]), SafelyFixable(k, files[TargetOf[k]])
               PROVE  FALSE
    BY DEF CleanUnlessUnsafe
  <2>0. RunOwn(i) /\ Shape /\ pc[i] = "done" /\ at[i] > 6 /\ at[i] \in 1..7
    <3>1. RunOwn(i) /\ Shape /\ at[i] \in 1..7 /\ pc[i] = "done"
      BY <1>1, Places DEF OwnInv, Done, Shape, RunShape, RunTypes
    <3> QED
      BY <3>1, Places DEF RunOwn, Dealt
  <2>1. SafelyFixable(k, Before(i, k)) /\ k \notin VerifiedBy(i)
    BY <1>1, EndSeen DEF AddUp, Before
  <2>2. plans[i][k] = Planned(k, Before(i, k))
    BY <1>1, <2>0, EndSeen DEF RunOwn, PlansMade
  <2>3. plans[i][k].safety = "SAFE"
    BY <2>1, <2>2, PlanIs
  <2>4. results[i][k] # NULL
    <3>1. Place[k] < at[i]
      BY <2>0, Placed
    <3> QED
      BY <2>0, <2>3, <3>1 DEF RunOwn, Dealt, IsSafe
  <2>5. results[i][k] \in Statuses \ {"SKIPPED"}
    BY <2>0, <2>3, <2>4 DEF Shape, RunShape, RunTypes, ResultOK
  <2>6. results[i][k] = "VERIFIED"
    BY <2>5 DEF UnsafeOutcome, Statuses
  <2> QED
    BY <2>1, <2>6 DEF VerifiedBy
<1> QED
  BY <1>1, OwnInvHolds, PTL

-----------------------------------------------------------------------------
(* Plans that are stale *)

\* read_text gives what the file has.
Plain(f) == ReadText(f) = f

LEMMA RememberedIs ==
    /\ \A f : \A k \in SnippetKinds :
           Remembered(k, f) = [value |-> DefectOf[k], spans |-> SpansLines(k, f)]
    /\ \A f : \A k \in {"json", "entities"} : Remembered(k, f) = ReadText(f)
<1>1. ASSUME NEW k \in SnippetKinds, NEW f
      PROVE  Remembered(k, f) = [value |-> DefectOf[k], spans |-> SpansLines(k, f)]
  BY DEF Remembered, SnippetKinds
<1>2. ASSUME NEW k \in {"json", "entities"}, NEW f PROVE Remembered(k, f) = ReadText(f)
  BY DEF Remembered, SnippetKinds
<1> QED
  BY <1>1, <1>2

LEMMA PlainHasNoCrlf ==
    ASSUME NEW f, WellFormed(f), IsText(f), Plain(f)
    PROVE  f.crlf = FALSE
<1>1. PICK w \in BOOLEAN : AText(f, w)
  BY TextIs
<1>2. PICK c, d, r : f = [kind |-> "text", crlf |-> c, defects |-> d, rest |-> r, whole |-> w]
  BY <1>1 DEF AText
<1> QED
  BY <1>2 DEF Plain, ReadText

\* A file of the run's own is as it was planned on, or has its defect still, but
\* for what read_text made of it.
LEMMA PlanIsFresh ==
    ASSUME Shape, NEW i \in Runs, RunOwn(i), Applying(i), IsSafe(PlanHere(i)), Undisturbed(i, Target(i))
    PROVE  /\ Kind(i) = "locale" => files["locale"] = Missing
           /\ Kind(i) # "locale" => files[Target(i)] # Missing
           /\ Kind(i) # "locale"
              /\ (~SpansLines(Kind(i), original[i][Target(i)]) \/ Plain(original[i][Target(i)]))
                => StillThere(Kind(i), PlanHere(i).before, files[Target(i)])
<1> DEFINE k == Kind(i)
           before == original[i][Target(i)]
           now == files[Target(i)]
<1>0. /\ k \in Kinds /\ Target(i) \in Paths /\ TargetOf[k] = Target(i) /\ pc[i] = "apply"
      /\ WellFormed(before) /\ SafelyFixable(k, before) /\ PlanHere(i).before = Remembered(k, before)
      /\ Target(i) = "locale" <=> k = "locale"
  BY PlanInHand, HereIs DEF Applying, At
<1>1. k \notin VerifiedBy(i)
  <2>1. results[i][k] = NULL
    BY HereIs
  <2> QED
    BY <2>1, NullAssumption DEF VerifiedBy, Statuses
<1>2. AddUp(i, Target(i)) /\ Settled(i)[Target(i)] = now
  BY <1>0 DEF RunOwn, FixesAddUp, Settled
<1>3. ASSUME k = "locale" PROVE files["locale"] = Missing
  <2>1. before = Missing
    BY <1>0, <1>3 DEF SafelyFixable, SnippetKinds
  <2>2. \A j \in VerifiedBy(i) : TargetOf[j] # "locale"
    BY <1>1, <1>3, Targets DEF VerifiedBy
  <2> QED
    BY <1>0, <1>2, <1>3, <2>1, <2>2 DEF AddUp
<1>4. ASSUME k # "locale"
      PROVE  /\ IsText(before) /\ DefectOf[k] \in before.defects
             /\ IsText(now) /\ DefectOf[k] \in now.defects /\ now.crlf = before.crlf
  <2>1. IsText(before) /\ DefectOf[k] \in before.defects
    BY <1>0, <1>4, FixableIsText
  <2> QED
    BY <1>0, <1>1, <1>2, <1>4, <2>1 DEF AddUp, HasDefect
<1>5. ASSUME k \in SnippetKinds, ~SpansLines(k, before) \/ Plain(before)
      PROVE  StillThere(k, PlanHere(i).before, now)
  <2>1. k # "locale" /\ PlanHere(i).before = [value |-> DefectOf[k], spans |-> SpansLines(k, before)]
    BY <1>0, <1>5, RememberedIs DEF SnippetKinds
  <2>2. CASE ~SpansLines(k, before)
    BY <1>4, <1>5, <2>1, <2>2 DEF StillThere
  <2>3. CASE Plain(before)
    <3>1. now.crlf = FALSE
      BY <1>0, <1>4, <2>1, <2>3, PlainHasNoCrlf
    <3> QED
      BY <1>4, <1>5, <2>1, <3>1 DEF StillThere
  <2> QED
    BY <1>5, <2>2, <2>3
<1>6. ASSUME k \in {"json", "entities"}, Plain(before)
      PROVE  StillThere(k, PlanHere(i).before, now)
  <2>1. \A j \in VerifiedBy(i) : TargetOf[j] # Target(i)
    <3> SUFFICES ASSUME NEW j \in VerifiedBy(i), TargetOf[j] = Target(i) PROVE FALSE
      OBVIOUS
    <3>1. j \in Kinds /\ j # k
      BY <1>1 DEF VerifiedBy
    <3>2. k = "entities" /\ j = "name"
      BY <1>0, <1>6, <3>1 DEF Kinds, TargetOf
    <3>3. Passes("name", now)
      BY <1>2, <3>1, <3>2 DEF AddUp
    <3> QED
      BY <1>4, <3>2, <3>3 DEF Passes, PlistParses, Clean, DefectOf
  <2>2. now = before
    BY <1>2, <2>1 DEF AddUp
  <2>3. PlanHere(i).before = before
    BY <1>0, <1>6, RememberedIs DEF Plain
  <2> QED
    BY <1>4, <1>6, <2>2, <2>3 DEF StillThere, SnippetKinds
<1>7. k # "locale" => k \in SnippetKinds \cup {"json", "entities"} /\ files[Target(i)] # Missing
  BY <1>0, <1>4, NoText DEF Kinds, SnippetKinds
<1>8. k \in {"json", "entities"} => SpansLines(k, before)
  BY DEF SpansLines
<1> QED
  BY <1>3, <1>5, <1>6, <1>7, <1>8

\* What a run has a reason for keeps its reason.
LEMMA ReasonsStay ==
    ASSUME OwnInv, [Next]_vars, NEW i \in Runs, pc[i] # "idle"
    PROVE  /\ original'[i] = original[i]
           /\ \A p \in Paths : Own(i, p)' => Own(i, p)
           /\ RunStep(i) \/ results'[i] = results[i]
<1>0. Shape /\ DOMAIN original = Runs
  BY DEF OwnInv
<1>1. CASE NotHis(i)
  BY <1>1 DEF NotHis, Own, Failed
<1>2. CASE RunStep(i)
  <2>1. /\ original'[i] = original[i] /\ foreign'[i] = foreign[i]
        /\ \A k \in Kinds : results[i][k] # NULL => results'[i][k] = results[i][k]
    BY <1>0, <1>2, MineStays
  <2>2. NULL \notin {"FAILED_APPLY", "ROLLBACK_FAILED"}
    BY NullAssumption DEF Statuses, Unsafe
  <2>3. \A p : Failed(i, p) => Failed(i, p)'
    BY <2>1, <2>2 DEF Failed
  <2> QED
    BY <1>2, <2>1, <2>3 DEF Own
<1>3. CASE Crash(i)
  BY <1>3 DEF Crash, Continue, plan, Own, Failed
<1>4. ~Start(i)
  BY DEF Start, At
<1> QED
  BY <1>0, <1>1, <1>2, <1>3, <1>4, OthersAreNotHis, EditsAreNotHis, StutterIsNotHis DEF Next

\* A step that calls a plan stale finds it stale.
LEMMA NewlyStale ==
    ASSUME OwnInv, NEW i \in Runs, RunStep(i), NEW k \in Kinds,
           results'[i][k] = "STALE_PLAN", results[i][k] # "STALE_PLAN"
    PROVE  /\ k = Kind(i) /\ Applying(i) /\ IsSafe(PlanHere(i))
           /\ IF k = "locale" THEN files["locale"] # Missing
                              ELSE ~StillThere(k, PlanHere(i).before, files[Target(i)])
<1>0. Shape /\ RunTypes
  BY DEF OwnInv, Shape, RunShape
<1>1. ASSUME NEW status, Conclude(i, status) PROVE k = Kind(i) /\ status = "STALE_PLAN"
  BY <1>0, <1>1 DEF Conclude, RunTypes
<1>2. results' # results
  OBVIOUS
<1>3. CheckScaffold(i) \/ ReadTarget(i)
  BY <1>1, <1>2, NullAssumption
     DEF RunStep, PlanKind, Skip, MakeScaffold, RemoveScaffold, Truncate, Write, WriteFails, Verify, Reread,
         Finish, Continue, plan, Statuses, Unsafe
<1>4. CASE CheckScaffold(i)
  BY <1>1, <1>2, <1>4 DEF CheckScaffold, Continue, plan
<1>5. CASE ReadTarget(i)
  BY <1>1, <1>2, <1>5 DEF ReadTarget
<1> QED
  BY <1>3, <1>4, <1>5

\* A plan is called stale only when someone else has changed its file, or the
\* run has broken it, or its text was not what read_text made of it; the fixes
\* applied before it make no plan stale (verify_fix, apply_plan).
THEOREM StaleAlwaysHasACause == Spec => []StaleHasACause
<1>1. Init => StaleHasACause
  <2>1. NULL # "STALE_PLAN"
    BY NullAssumption DEF Statuses, Unsafe
  <2> QED
    BY <2>1 DEF Init, StaleHasACause
<1>2. ASSUME OwnInv, StaleHasACause, [Next]_vars PROVE StaleHasACause'
  <2> SUFFICES ASSUME NEW i \in Runs, NEW k \in Kinds, results'[i][k] = "STALE_PLAN", Own(i, TargetOf[k])'
               PROVE  /\ SpansLines(k, original'[i][TargetOf[k]])
                      /\ ReadText(original'[i][TargetOf[k]]) # original'[i][TargetOf[k]]
    BY DEF StaleHasACause, ReadText, SpansLines, HasDefect, IsText
  <2>0. Shape /\ RunOwn(i) /\ TargetOf[k] \in Paths
    BY <1>2, Targets DEF OwnInv
  <2>1. CASE pc[i] = "idle"
    <3>1. results[i][k] = NULL /\ results'[i] = results[i]
      <4>1. results[i][k] = NULL
        BY <2>0, <2>1 DEF Shape, RunShape, ResultOK
      <4>2. ~RunStep(i) /\ ~Crash(i)
        BY <2>0, <2>1, MineStays DEF Crash, Running
      <4>3. Start(i) \/ NotHis(i)
        BY <1>2, <4>2, OthersAreNotHis, EditsAreNotHis, StutterIsNotHis DEF OwnInv, Next
      <4> QED
        BY <4>1, <4>3 DEF Start, plan, NotHis
    <3> QED
      BY <3>1, NullAssumption DEF Statuses, Unsafe
  <2>2. CASE pc[i] # "idle"
    <3>1. /\ original'[i] = original[i] /\ Own(i, TargetOf[k])
          /\ RunStep(i) \/ results'[i] = results[i]
      BY <1>2, <2>0, <2>2, ReasonsStay
    <3>2. CASE results[i][k] = "STALE_PLAN"
      BY <1>2, <3>1, <3>2 DEF StaleHasACause
    <3>3. CASE results[i][k] # "STALE_PLAN"
      <4>1. /\ k = Kind(i) /\ Applying(i) /\ IsSafe(PlanHere(i)) /\ TargetOf[k] = Target(i)
            /\ IF k = "locale" THEN files["locale"] # Missing
                               ELSE ~StillThere(k, PlanHere(i).before, files[Target(i)])
        BY <1>2, <3>1, <3>3, NewlyStale DEF Target
      <4>2. Undisturbed(i, Target(i))
        BY <3>1, <4>1 DEF Undisturbed, Applying, At
      <4> QED
        BY <2>0, <3>1, <4>1, <4>2, PlanIsFresh DEF Plain
    <3> QED
      BY <3>2, <3>3
  <2> QED
    BY <2>1, <2>2
<1> QED
  BY <1>1, <1>2, OwnInvHolds, PTL DEF Spec

\* Nobody saves a text with the line ends that read_text turns into others.
UnixEnds ==
    /\ \A project \in Projects, p \in Paths : Plain(project[p])
    /\ \A p \in Paths : \A f \in Drafts[p] : Plain(f)

\* Nor does a run.
UnixFiles ==
    /\ \A p \in Paths : Plain(files[p])
    /\ \A i \in Runs : pc[i] # "idle" => \A p \in Paths : Plain(original[i][p])
    /\ \A i \in Runs : pc[i] \in Holds /\ Kind(i) # "locale" => Plain(held[i])

LEMMA PlainStays ==
    /\ Plain(Missing) /\ Plain(Empty) /\ Plain(Directory)
    /\ \A f, k : WellFormed(f) /\ IsText(f) /\ Plain(f) => Plain(Cut(f)) /\ Plain(Repaired(k, f))
<1>1. Plain(Missing) /\ Plain(Empty) /\ Plain(Directory)
  BY DEF Plain, ReadText, Missing, Empty, Directory
<1>2. ASSUME NEW f, NEW k, WellFormed(f), IsText(f), Plain(f)
      PROVE  Plain(Cut(f)) /\ Plain(Repaired(k, f))
  <2>1. PICK w \in BOOLEAN : AText(f, w)
    BY <1>2, TextIs
  <2>2. PICK c, d, r : f = [kind |-> "text", crlf |-> c, defects |-> d, rest |-> r, whole |-> w]
    BY <2>1 DEF AText
  <2>3. f.crlf = FALSE
    BY <1>2, PlainHasNoCrlf
  <2>4. f.crlf = c
    BY <2>2
  <2>5. Cut(f) = [kind |-> "text", crlf |-> c, defects |-> d, rest |-> r, whole |-> FALSE]
    BY <2>2 DEF Cut, IsText
  <2>6. Repaired(k, f) = [kind |-> "text", crlf |-> c, defects |-> d \ {DefectOf[k]}, rest |-> r, whole |-> w]
    BY <2>2 DEF Repaired
  <2>7. ASSUME NEW defects, NEW whole
        PROVE  Plain([kind |-> "text", crlf |-> FALSE, defects |-> defects, rest |-> r, whole |-> whole])
    <3>1. \A e : [[kind |-> "text", crlf |-> e, defects |-> defects, rest |-> r, whole |-> whole] EXCEPT !.crlf = e]
                   = [kind |-> "text", crlf |-> e, defects |-> defects, rest |-> r, whole |-> whole]
      OBVIOUS
    <3> QED
      BY <3>1, Zenon DEF Plain, ReadText
  <2>8. c = FALSE
    BY <2>3, <2>4
  <2> QED
    BY <2>5, <2>6, <2>7, <2>8, Zenon
<1> QED
  BY <1>1, <1>2

\* What a run writes has the line ends of what it held.
LEMMA WritesPlain ==
    ASSUME Shape, UnixFiles, NEW i \in Runs, RunStep(i), NEW p \in Paths
    PROVE  Plain(files'[p])
<1> USE DEF Shape, FilesShape, UnixFiles
<1>1. CASE files' = files
  BY <1>1
<1>2. CASE \E f \in {Missing, Directory, Empty} : \E q \in Paths : Put(i, q, f)
  BY <1>2, PlainStays DEF Put
<1>3. CASE Truncate(i)
  <2>1. Target(i) \in Paths
    BY <1>3, PayloadText DEF Truncate
  <2> QED
    BY <1>1, <1>2, <1>3, <2>1 DEF Truncate
<1>4. CASE Write(i)
  <2>1. /\ Target(i) \in Paths /\ Kind(i) # "locale" /\ pc[i] \in Holds
        /\ WellFormed(held[i]) /\ IsText(held[i]) /\ WellFormed(Payload(i)) /\ IsText(Payload(i))
    BY <1>4, PayloadText DEF Write, Writing, Holds
  <2>2. Plain(Payload(i))
    BY <2>1, PlainStays DEF Payload
  <2>3. Plain(Cut(Payload(i)))
    BY <2>1, <2>2, PlainStays
  <2>4. PICK f \in {files[Target(i)], Payload(i), Cut(Payload(i)), Empty} : Put(i, Target(i), f)
    <3>1. CASE \E f \in Outcomes(i) : Put(i, Target(i), f)
      <4>1. Outcomes(i) \subseteq {files[Target(i)], Payload(i), Cut(Payload(i))}
        <5>1. handle[i] \in {"fresh", "over", "lost"}
          BY <1>4 DEF HandleShape, Write, Writing
        <5> QED
          BY <5>1 DEF Outcomes
      <4> QED
        BY <3>1, <4>1
    <3>2. CASE \E f \in IF handle[i] = "lost" THEN {files[Target(i)]} ELSE {Empty, Cut(Payload(i))} :
                    Put(i, Target(i), f)
      BY <3>2
    <3> QED
      BY <1>4, <3>1, <3>2 DEF Write
  <2>5. Plain(f)
    BY <2>1, <2>2, <2>3, PlainStays
  <2> QED
    BY <2>1, <2>4, <2>5 DEF Put
<1>5. "locale" \in Paths
  BY DEF Paths
<1> QED
  BY <1>1, <1>2, <1>3, <1>4, <1>5
     DEF RunStep, PlanKind, Skip, CheckScaffold, MakeScaffold, RemoveScaffold, ReadTarget, Verify, Reread, Finish

LEMMA UnixFilesStep ==
    ASSUME UnixEnds, OwnInv, UnixFiles, [Next]_vars
    PROVE  UnixFiles'
<1>0. Shape /\ RunTypes /\ DOMAIN files = Paths /\ DOMAIN original = Runs
  BY DEF OwnInv, Shape, RunShape, FilesShape
<1>1. \A p \in Paths : Plain(files'[p])
  <2>1. ASSUME NEW i \in Runs, RunStep(i) PROVE \A p \in Paths : Plain(files'[p])
    BY <1>0, <2>1, WritesPlain
  <2>2. ASSUME NEW q \in Paths, Edit(q) PROVE \A p \in Paths : Plain(files'[p])
    BY <1>0, <2>2 DEF Edit, Put, UnixEnds, UnixFiles
  <2>3. ASSUME UNCHANGED files PROVE \A p \in Paths : Plain(files'[p])
    BY <2>3 DEF UnixFiles
  <2> QED
    BY <2>1, <2>2, <2>3 DEF Next, Start, Crash, vars
<1>2. ASSUME NEW i \in Runs
      PROVE  /\ pc'[i] # "idle" => \A p \in Paths : Plain(original'[i][p])
             /\ pc'[i] \in Holds /\ Kind(i)' # "locale" => Plain(held'[i])
  <2>1. CASE NotHis(i)
    BY <2>1 DEF NotHis, UnixFiles, Kind
  <2>2. CASE Start(i)
    <3>1. pc'[i] = "plan" /\ original'[i] = files
      BY <1>0, <2>2 DEF Start, Goto, RunTypes
    <3> QED
      BY <3>1 DEF UnixFiles, Holds
  <2>3. CASE Crash(i)
    <3>1. pc'[i] = "dead" /\ original' = original /\ pc[i] # "idle"
      BY <1>0, <2>3 DEF Crash, Continue, Goto, RunTypes, Running
    <3> QED
      BY <3>1 DEF UnixFiles, Holds
  <2>4. CASE RunStep(i)
    <3>1. original' = original /\ pc[i] # "idle"
      BY <1>0, <2>4, MineStays
    <3>2. ASSUME pc'[i] \in Holds, Kind(i)' # "locale" PROVE Plain(held'[i])
      <4>1. CASE ReadTarget(i)
        <5>1. /\ held' = [held EXCEPT ![i] = files[Target(i)]] /\ Applying(i)
          BY <1>0, <3>2, <4>1 DEF ReadTarget, Conclude, Goto, RunTypes, Holds
        <5> QED
          BY <1>0, <5>1, HereIs DEF RunTypes, UnixFiles
      <4>2. CASE ~ReadTarget(i)
        <5>0. \A status : ~Conclude(i, status)
          BY <1>0, <3>2 DEF Conclude, Goto, RunTypes, Holds
        <5>1. pc[i] \in Holds \cup {"mkdir"} /\ UNCHANGED <<held, at>>
          <6>1. \E location : Continue(i, location) \/ PlanKind(i)
            BY <2>4, <4>2, <5>0 DEF RunStep, Skip, CheckScaffold, MakeScaffold, RemoveScaffold, Truncate, Write,
                                    WriteFails, Verify, Reread, Finish
          <6>2. ~PlanKind(i) /\ ~CheckScaffold(i) /\ ~Finish(i)
            <7>1. pc'[i] \notin {"plan", "apply", "mkdir", "done"}
              BY <3>2 DEF Holds
            <7> QED
              BY <1>0, <5>0, <7>1 DEF PlanKind, CheckScaffold, Finish, Continue, Goto, At, RunTypes
          <6>3. ~Skip(i) /\ ~RemoveScaffold(i)
            <7>1. pc'[i] # "dead"
              BY <3>2 DEF Holds
            <7> QED
              BY <1>0, <5>0, <7>1 DEF Skip, RemoveScaffold, Continue, Goto, RunTypes
          <6>4. pc[i] \in Holds \cup {"mkdir"}
            BY <2>4, <4>2, <6>2, <6>3 DEF RunStep, MakeScaffold, Truncate, Write, Verify, Reread, At, Holds
          <6> QED
            BY <6>1, <6>2, <6>4 DEF Continue, plan
        <5>2. Kind(i)' = Kind(i) /\ PlaceOK(i)
          BY <1>0, <5>1 DEF Kind, Shape, RunShape
        <5> QED
          BY <3>2, <5>1, <5>2 DEF PlaceOK, Makes, UnixFiles
      <4> QED
        BY <4>1, <4>2
    <3> QED
      BY <3>1, <3>2 DEF UnixFiles
  <2> QED
    BY <1>0, <2>1, <2>2, <2>3, <2>4, OthersAreNotHis, EditsAreNotHis, StutterIsNotHis DEF Next
<1> QED
  BY <1>1, <1>2 DEF UnixFiles, Plain, ReadText

\* A run calls no plan stale on a file of its own when no text has line ends that
\* read_text turns into others, although earlier fixes have rewritten the file
\* (verifier.py: the stale-plan check).
THEOREM StaleAlwaysMeansDrift ==
    ASSUME UnixEnds
    PROVE  Spec => []StaleMeansDrift
<1>1. Init => UnixFiles
  BY DEF Init, UnixEnds, UnixFiles, Holds
<1>2. OwnInv /\ UnixFiles /\ [Next]_vars => UnixFiles'
  BY UnixFilesStep
<1>3. ASSUME OwnInv, UnixFiles, StaleHasACause PROVE StaleMeansDrift
  <2> SUFFICES ASSUME NEW i \in Runs, NEW k \in Kinds, results[i][k] = "STALE_PLAN", Own(i, TargetOf[k])
               PROVE  FALSE
    BY DEF StaleMeansDrift
  <2>1. ~Plain(original[i][TargetOf[k]])
    BY <1>3 DEF StaleHasACause, Plain
  <2>2. pc[i] # "idle"
    <3>1. pc[i] = "idle" => results[i][k] = NULL
      BY <1>3 DEF OwnInv, Shape, RunShape, ResultOK
    <3> QED
      BY <3>1, NullAssumption DEF Statuses, Unsafe
  <2> QED
    BY <1>3, <2>1, <2>2, Targets DEF UnixFiles
<1> QED
  BY <1>1, <1>2, <1>3, OwnInvHolds, StaleAlwaysHasACause, PTL DEF Spec

-----------------------------------------------------------------------------
(* Fixes that failed *)

\* Only another's hand makes a write fail where the disk does not.
FailuresAreForeign ==
    \A i \in Runs, k \in Kinds : results[i][k] = "FAILED_APPLY" =>
        \/ TargetOf[k] \in foreign[i]
        \/ \E j \in Kinds : TargetOf[j] = TargetOf[k] /\ results[i][j] = "ROLLBACK_FAILED"

\* A step that reports a failed write finds its file gone.
LEMMA NewlyFailed ==
    ASSUME "disk" \notin Faults, OwnInv, NEW i \in Runs, RunStep(i), NEW k \in Kinds,
           results'[i][k] = "FAILED_APPLY", results[i][k] # "FAILED_APPLY"
    PROVE  k = Kind(i) /\ ~Own(i, TargetOf[k])
<1>0. Shape /\ RunTypes /\ RunOwn(i)
  BY DEF OwnInv, Shape, RunShape
<1>1. ASSUME NEW status, Conclude(i, status) PROVE k = Kind(i) /\ status = "FAILED_APPLY"
  BY <1>0, <1>1 DEF Conclude, RunTypes
<1>2. results' # results
  OBVIOUS
<1>3. ReadTarget(i)
  BY <1>1, <1>2, NullAssumption
     DEF RunStep, PlanKind, Skip, CheckScaffold, MakeScaffold, RemoveScaffold, Truncate, Write, WriteFails,
         Verify, Reread, Finish, Continue, plan, Statuses, Unsafe
<1>4. k = Kind(i) /\ files[Target(i)] = Missing /\ Kind(i) # "locale" /\ Applying(i) /\ IsSafe(PlanHere(i))
  BY <1>1, <1>2, <1>3 DEF ReadTarget
<1>5. ~Undisturbed(i, Target(i))
  BY <1>0, <1>4, PlanIsFresh
<1> QED
  BY <1>4, <1>5 DEF Undisturbed, Applying, At, Target

LEMMA FailuresAreForeignStep ==
    ASSUME "disk" \notin Faults, OwnInv, FailuresAreForeign, [Next]_vars
    PROVE  FailuresAreForeign'
<1> SUFFICES ASSUME NEW i \in Runs, NEW k \in Kinds, results'[i][k] = "FAILED_APPLY",
                    TargetOf[k] \notin foreign'[i]
             PROVE  \E j \in Kinds : TargetOf[j] = TargetOf[k] /\ results'[i][j] = "ROLLBACK_FAILED"
  BY DEF FailuresAreForeign
<1>0. Shape /\ RunTypes /\ TargetOf[k] \in Paths
  BY Targets DEF OwnInv, Shape, RunShape
<1>1. CASE NotHis(i)
  <2>1. results'[i] = results[i] /\ pc[i] # "idle"
    <3>1. pc[i] = "idle" => results[i][k] = NULL
      BY <1>0 DEF Shape, RunShape, ResultOK
    <3> QED
      BY <1>1, <3>1, NullAssumption DEF NotHis, Statuses, Unsafe
  <2>2. TargetOf[k] \notin foreign[i]
    BY <1>0, <1>1, <2>1 DEF NotHis
  <2> QED
    BY <2>1, <2>2 DEF FailuresAreForeign
<1>2. CASE RunStep(i)
  <2>1. /\ foreign'[i] = foreign[i]
        /\ \A j \in Kinds : results[i][j] # NULL => results'[i][j] = results[i][j]
    BY <1>0, <1>2, MineStays
  <2>2. NULL # "ROLLBACK_FAILED"
    BY NullAssumption DEF Statuses, Unsafe
  <2>3. CASE \E j \in Kinds : TargetOf[j] = TargetOf[k] /\ results[i][j] = "FAILED_APPLY"
    BY <2>1, <2>2, <2>3 DEF FailuresAreForeign
  <2>4. CASE \A j \in Kinds : TargetOf[j] = TargetOf[k] => results[i][j] # "FAILED_APPLY"
    <3>1. ~Own(i, TargetOf[k])
      BY <1>2, <2>4, NewlyFailed
    <3> QED
      BY <2>1, <2>2, <2>4, <3>1 DEF Own, Failed
  <2> QED
    BY <2>3, <2>4
<1>3. CASE Start(i)
  <2>1. results[i][k] = NULL /\ results' = results
    BY <1>0, <1>3 DEF Start, At, plan, Shape, RunShape, ResultOK
  <2> QED
    BY <2>1, NullAssumption DEF Statuses, Unsafe
<1>4. CASE Crash(i)
  BY <1>4 DEF Crash, Continue, plan, FailuresAreForeign
<1> QED
  BY <1>0, <1>1, <1>2, <1>3, <1>4, OthersAreNotHis, EditsAreNotHis, StutterIsNotHis DEF OwnInv, Next

\* Where the disk does not fail, a run leaves a file nobody else has changed as it
\* was, unless it reports a fix of it VERIFIED or the rollback of one failed
\* (rollback; README.md: "Rollback on failure").
THEOREM FailedFixIsAlwaysUndone ==
    ASSUME "disk" \notin Faults
    PROVE  Spec => []FailedFixIsUndone
<1>1. Init => FailuresAreForeign
  <2>1. NULL # "FAILED_APPLY"
    BY NullAssumption DEF Statuses, Unsafe
  <2>2. Init => \A i \in Runs, k \in Kinds : results[i][k] = NULL
    BY DEF Init
  <2> QED
    BY <2>1, <2>2 DEF FailuresAreForeign
<1>2. OwnInv /\ FailuresAreForeign /\ [Next]_vars => FailuresAreForeign'
  BY FailuresAreForeignStep
<1>3. ASSUME OwnInv, FailuresAreForeign PROVE FailedFixIsUndone
  <2> SUFFICES ASSUME NEW i \in Runs, Done(i), NEW p \in Paths \ foreign[i],
                      \A k \in Kinds : TargetOf[k] = p => results[i][k] \notin {"VERIFIED", "ROLLBACK_FAILED"}
               PROVE  files[p] = original[i][p]
    BY DEF FailedFixIsUndone
  <2>1. Undisturbed(i, p)
    BY <1>3 DEF FailuresAreForeign, Undisturbed, Own, Failed, Done
  <2>2. AddUp(i, p) /\ \A k \in VerifiedBy(i) : TargetOf[k] # p
    BY <1>3, <2>1 DEF OwnInv, RunOwn, FixesAddUp, VerifiedBy
  <2> QED
    BY <2>2 DEF AddUp, Settled, Done
<1> QED
  BY <1>1, <1>2, <1>3, OwnInvHolds, PTL DEF Spec

-----------------------------------------------------------------------------
(* A run that has the project to itself *)

\* One run, no editor, and nothing fails.
Alone == (\E i : Runs = {i}) /\ MaxEdits = 0 /\ Faults = {}

One == TheRun

LEMMA OnlyOne == Alone => Runs = {One}
  BY DEF Alone, One, TheRun

\* Nothing comes between its steps, so it leaves what it writes.
Steady ==
    /\ edits = 0 /\ foreign[One] = {}
    /\ pc[One] # "dead"
    /\ handle[One] \in {"none", "fresh"}
    /\ \A k \in Kinds : results[One][k] \notin {"FAILED_APPLY", "ROLLBACK_FAILED"}
    /\ pc[One] = "reread" => files[Target(One)] = held[One]
    /\ pc[One] = "verify" /\ Kind(One) # "locale" => files[Target(One)] = Repaired(Kind(One), held[One])

AloneInv == OwnInv /\ Steady

LEMMA AloneNext ==
    ASSUME Alone, AloneInv, [Next]_vars
    PROVE  /\ One \in Runs /\ One' = One /\ Shape /\ RunTypes /\ DOMAIN files = Paths /\ RunOwn(One)
           /\ Start(One) \/ RunStep(One) \/ UNCHANGED vars
<1>1. Runs = {One} /\ One' = One
  BY OnlyOne DEF One, TheRun
<1>2. \A p \in Paths : ~Edit(p)
  BY DEF Alone, AloneInv, Steady, Edit
<1>3. \A i \in Runs : ~Crash(i)
  BY DEF Alone, Crash
<1>4. Shape /\ RunTypes /\ DOMAIN files = Paths /\ RunOwn(One)
  BY <1>1 DEF AloneInv, OwnInv, Shape, RunShape, FilesShape
<1> QED
  BY <1>1, <1>2, <1>3, <1>4 DEF Next

\* It leaves what it was to write.
LEMMA WritesPayload ==
    ASSUME Alone, AloneInv, [Next]_vars, Write(One)
    PROVE  /\ files'[Target(One)] = Payload(One)
           /\ Continue(One, IF Undoing(One) THEN "reread" ELSE "verify")
<1>1. /\ One \in Runs /\ handle[One] = "fresh" /\ Target(One) \in Paths /\ DOMAIN files = Paths
  BY AloneNext, PayloadText DEF AloneInv, Steady, Shape, HandleShape, Write, Writing
<1>2. ~WriteFails(One)
  BY DEF Alone, WriteFails
<1>3. Outcomes(One) = {Payload(One)}
  BY <1>1 DEF Outcomes
<1> QED
  BY <1>1, <1>2, <1>3 DEF Write, Put

LEMMA SteadyStep ==
    ASSUME Alone, AloneInv, [Next]_vars
    PROVE  Steady'
<1> USE DEF Steady
<1>0. /\ One \in Runs /\ One' = One /\ Shape /\ RunTypes /\ DOMAIN files = Paths /\ RunOwn(One)
      /\ Steady /\ pc[One] # "dead" /\ HandleShape'
  BY AloneNext, HandleStep DEF AloneInv
<1>1. CASE Start(One)
  BY <1>0, <1>1 DEF Start, Goto, plan, RunTypes, Shape, FilesShape
<1>2. CASE UNCHANGED vars
  BY <1>0, <1>2 DEF vars, plan, Kind, Target
<1>3. CASE RunStep(One)
  <2>1. foreign'[One] = {} /\ pc[One] # "idle" /\ edits' = edits
    <3>1. edits' = edits
      BY <1>3 DEF RunStep, PlanKind, Skip, CheckScaffold, MakeScaffold, RemoveScaffold, ReadTarget, Truncate,
                  Write, WriteFails, Verify, Reread, Finish, Continue, Conclude, history
    <3> QED
      BY <1>0, <1>3, <3>1, MineStays
  <2>2. \A p \in Paths : pc[One] # "idle" => Undisturbed(One, p)
    BY <1>0 DEF Undisturbed, Own, Failed
  <2>3. ASSUME NEW status, status \notin {"FAILED_APPLY", "ROLLBACK_FAILED"}, Conclude(One, status),
               handle'[One] \in {"none", "fresh"}
        PROVE  Steady'
    <3>1. pc'[One] = "apply" /\ \A k \in Kinds : results'[One][k] \in {status, results[One][k]}
      BY <1>0, <2>3 DEF Conclude, Goto, RunTypes
    <3> QED
      BY <1>0, <2>1, <2>3, <3>1
  <2>4. ASSUME NEW location, location \notin {"dead", "reread", "verify"}, Goto(One, location), results' = results,
               handle'[One] \in {"none", "fresh"}
        PROVE  Steady'
    BY <1>0, <2>1, <2>4 DEF Goto, RunTypes
  <2>5. CASE PlanKind(One)
    BY <1>0, <2>1, <2>5 DEF PlanKind, At, Goto, RunTypes
  <2>6. CASE Skip(One) \/ CheckScaffold(One) \/ Finish(One)
    <3>1. handle' = handle
      BY <2>6 DEF Skip, CheckScaffold, Finish
    <3> QED
      BY <1>0, <2>3, <2>4, <2>6, <3>1, NullAssumption DEF Skip, CheckScaffold, Finish, Continue, plan, Statuses, Unsafe
  <2>7. CASE ReadTarget(One)
    <3>1. files[Target(One)] # Missing
      BY <1>0, <2>1, <2>2, <2>7, PlanIsFresh, HereIs DEF ReadTarget
    <3>2. handle' = handle
      BY <2>7 DEF ReadTarget
    <3> QED
      BY <1>0, <2>3, <2>4, <2>7, <3>1, <3>2 DEF ReadTarget
  <2>8. CASE MakeScaffold(One)
    <3>1. pc[One] = "mkdir" /\ Kind(One) = "locale" /\ Target(One) = "locale" /\ "locale" \in Paths
      BY <1>0, <2>8, HereIs DEF MakeScaffold, At, Shape, RunShape, PlaceOK, Makes
    <3>2. files["locale"] = Missing
      BY <1>0, <2>2, <3>1 DEF RunOwn, OnDisk, Makes
    <3>3. Continue(One, "verify") /\ handle' = handle
      BY <2>8, <3>2 DEF MakeScaffold, Alone
    <3> QED
      BY <1>0, <2>1, <3>1, <3>3 DEF Continue, Goto, Kind, plan, RunTypes
  <2>9. CASE RemoveScaffold(One)
    <3>1. pc[One] = "rmdir" /\ Target(One) \in Paths
      BY <1>0, <2>9, HereIs DEF RemoveScaffold, At
    <3> QED
      BY <1>0, <2>2, <3>1 DEF RunOwn, OnDisk, Makes
  <2>10. CASE Truncate(One)
    <3>1. Continue(One, IF Undoing(One) THEN "undoWrite" ELSE "write") /\ handle'[One] = "fresh"
      BY <1>0, <2>10 DEF Truncate, WriteFails, Alone
    <3> QED
      BY <2>4, <3>1 DEF Continue, plan
  <2>11. CASE Write(One)
    <3>1. /\ files'[Target(One)] = Payload(One) /\ pc[One] \in {"write", "undoWrite"} /\ handle'[One] = "none"
          /\ Continue(One, IF Undoing(One) THEN "reread" ELSE "verify")
      BY <1>0, <2>11, WritesPayload DEF Write
    <3>2. /\ pc'[One] = IF Undoing(One) THEN "reread" ELSE "verify"
          /\ Kind(One)' = Kind(One) /\ Target(One)' = Target(One) /\ held' = held /\ results' = results
      BY <1>0, <3>1 DEF Continue, Goto, Kind, Target, plan, RunTypes
    <3>3. files'[Target(One)] = IF Undoing(One) THEN held[One] ELSE Repaired(Kind(One), held[One])
      BY <3>1 DEF Payload
    <3> QED
      BY <1>0, <2>1, <3>1, <3>2, <3>3
  <2>12. CASE Verify(One)
    BY <1>0, <2>3, <2>4, <2>12 DEF Verify, Continue, plan
  <2>13. CASE Reread(One)
    <3>1. Conclude(One, "ROLLED_BACK") /\ handle' = handle
      BY <1>0, <2>13 DEF Reread, At
    <3> QED
      BY <1>0, <2>3, <3>1
  <2> QED
    BY <1>3, <2>5, <2>6, <2>7, <2>8, <2>9, <2>10, <2>11, <2>12, <2>13 DEF RunStep
<1> QED
  BY <1>1, <1>2, <1>3, AloneNext

\* AtomicFix has the same rules.
LEMMA SameRules ==
    /\ Promise!TargetOf = TargetOf /\ Promise!Kinds = Kinds /\ Promise!Paths = Paths
    /\ Promise!Directory = Directory
    /\ \A k, f : /\ Promise!SafelyFixable(k, f) = SafelyFixable(k, f)
                 /\ Promise!Passes(k, f) = Passes(k, f)
                 /\ Promise!Repaired(k, f) = Repaired(k, f)
<1>1. /\ Promise!TargetOf = TargetOf /\ Promise!Kinds = Kinds /\ Promise!Paths = Paths
      /\ Promise!Directory = Directory /\ Promise!Missing = Missing /\ Promise!DefectOf = DefectOf
      /\ Promise!SnippetKinds = SnippetKinds
  BY DEF Promise!TargetOf, TargetOf, Promise!Kinds, Kinds, Promise!Paths, Paths, Promise!Directory, Directory,
         Promise!Missing, Missing, Promise!DefectOf, DefectOf, Promise!SnippetKinds, SnippetKinds
<1>2. \A f, d : Promise!Clean(f, d) = Clean(f, d) /\ Promise!HasDefect(f, d) = HasDefect(f, d)
  BY DEF Promise!Clean, Clean, Promise!IsText, IsText, Promise!HasDefect, HasDefect
<1>3. \A k, f : Promise!Repaired(k, f) = Repaired(k, f)
  BY <1>1 DEF Promise!Repaired, Repaired
<1>4. \A f : Promise!JsonParses(f) = JsonParses(f) /\ Promise!PlistParses(f) = PlistParses(f)
  BY <1>2 DEF Promise!JsonParses, JsonParses, Promise!PlistParses, PlistParses
<1>5. \A k, f : Promise!Passes(k, f) = Passes(k, f)
  BY <1>1, <1>2, <1>4 DEF Promise!Passes, Passes
<1>6. \A k, f : Promise!SafelyFixable(k, f) = SafelyFixable(k, f)
  BY <1>1, <1>2, <1>3, <1>5 DEF Promise!SafelyFixable, SafelyFixable
<1> QED
  BY <1>1, <1>3, <1>5, <1>6

\* Every step of it is a fix of AtomicFix, or is hidden.
LEMMA PromiseStep ==
    ASSUME Alone, AloneInv, [Next]_vars, AloneInv'
    PROVE  \/ UNCHANGED <<Settled(One), VerifiedBy(One)>>
           \/ \E k \in Kinds : Promise!Fix(k)
<1>0. /\ One \in Runs /\ One' = One /\ Shape /\ RunTypes /\ RunOwn(One)
      /\ Start(One) \/ RunStep(One) \/ UNCHANGED vars
  BY AloneNext
<1>1. CASE UNCHANGED vars
  BY <1>1 DEF vars, plan, Settled, VerifiedBy, Target, Kind
<1>2. CASE Start(One)
  <2>1. pc[One] = "idle" /\ pc'[One] = "plan" /\ UNCHANGED <<files, results>>
    BY <1>0, <1>2 DEF Start, At, Goto, plan, RunTypes
  <2> QED
    BY <1>0, <2>1 DEF Settled, VerifiedBy
<1>3. CASE RunStep(One)
  <2> DEFINE seen == Settled(One)
             seen1 == Settled(One)'
             Same(p) == /\ seen1[p] = seen[p]
                        /\ \A k \in Kinds : TargetOf[k] = p =>
                              (k \in VerifiedBy(One)' <=> k \in VerifiedBy(One))
  <2>1. seen = [p \in Paths |-> seen[p]] /\ seen1 = [p \in Paths |-> seen1[p]]
    BY <1>0 DEF Settled
  <2>2. \A p \in Paths : Undisturbed(One, p)'
    BY <1>0, <1>3, MineStays DEF AloneInv, Steady, Undisturbed, Own, Failed
  <2>3. CASE \A p \in Paths : Same(p)
    <3>1. VerifiedBy(One)' = VerifiedBy(One)
      BY <1>0, <2>3, Targets DEF VerifiedBy
    <3>2. seen1 = seen
      BY <2>1, <2>3
    <3> QED
      BY <1>0, <3>1, <3>2
  <2>4. ASSUME NEW p \in Paths, ~Same(p) PROVE \E k \in Kinds : Promise!Fix(k)
    <3>1. PICK k \in Kinds :
             /\ pc[One] = "verify" /\ k = Kind(One) /\ TargetOf[k] = p
             /\ k \notin VerifiedBy(One) /\ VerifiedBy(One)' = VerifiedBy(One) \cup {k}
             /\ SafelyFixable(k, seen[p])
             /\ seen1[p] \in Leavings(k, seen[p]) /\ Passes(k, seen1[p])
      BY <1>0, <1>3, <2>2, <2>4, SeenStep
    <3>2. \A q \in Paths \ {p} : Same(q)
      BY <1>0, <1>3, <2>2, <3>1, SeenStep
    <3>3. seen1[p] = Promise!AfterFix(k, seen[p])
      <4>1. CASE k = "locale"
        BY <3>1, <4>1, SameRules DEF Leavings, Promise!AfterFix
      <4>2. CASE k # "locale"
        <5>1. /\ files[p] = Repaired(k, held[One]) /\ seen[p] = held[One] /\ p # "locale"
          BY <3>1, <4>2, Targets DEF AloneInv, Steady, Settled, Target
        <5>2. seen1[p] = files[p]
          <6>1. pc'[One] = "apply" /\ files' = files
            <7>1. Verify(One) /\ files' = files
              BY <1>0, <1>3, <3>1 DEF RunStep, PlanKind, Skip, CheckScaffold, MakeScaffold, RemoveScaffold,
                   ReadTarget, Truncate, Write, Verify, Reread, Finish, Applying, At
            <7>2. ~Continue(One, IF Kind(One) = "locale" THEN "rmdir" ELSE "undoTruncate")
              BY <3>1 DEF Continue, plan, VerifiedBy
            <7> QED
              BY <1>0, <7>1, <7>2 DEF Verify, Conclude, Goto, RunTypes
          <6> QED
            BY <1>0, <6>1 DEF Settled
        <5> QED
          BY <4>2, <5>1, <5>2, SameRules DEF Promise!AfterFix
      <4> QED
        BY <4>1, <4>2
    <3>4. seen1 = [seen EXCEPT ![p] = seen1[p]]
      BY <2>1, <3>2
    <3>5. Promise!Fix(k)
      BY <1>0, <3>1, <3>3, <3>4, SameRules DEF Promise!Fix, VerifiedBy, One
    <3> QED
      BY <3>5
  <2> QED
    <3>1. CASE \E p \in Paths : ~Same(p)
      BY <2>4, <3>1, Zenon
    <3> QED
      BY <2>3, <3>1, Zenon
<1> QED
  BY <1>0, <1>1, <1>2, <1>3

LEMMA PromiseInit ==
    ASSUME Alone, Init
    PROVE  Promise!AInit
<1>1. One \in Runs /\ pc[One] = "idle"
  BY OnlyOne DEF Init
<1>2. Settled(One) \in [Paths -> Texts]
  BY <1>1 DEF Settled, Texts, Init
<1>3. VerifiedBy(One) = {}
  <2>1. NULL # "VERIFIED"
    BY NullAssumption DEF Statuses
  <2> QED
    BY <1>1, <2>1 DEF Init, VerifiedBy
<1> QED
  BY <1>2, <1>3, SameRules DEF Promise!AInit, VerifiedBy, One

\* A run alone changes a file only by safe fixes whose rule passes afterwards,
\* each in one step and each once; a fix that does not verify changes nothing
\* (apply_plan, rollback).
THEOREM AloneImplementsFixes ==
    ASSUME Alone
    PROVE  Spec => ImplementsFixes
<1>1. Init => Promise!AInit
  BY PromiseInit
<1>2. Init => AloneInv
  <2>1. Init => Steady
    BY OnlyOne, NullAssumption DEF Init, Steady, Statuses, Unsafe
  <2> QED
    BY <2>1, OwnInit DEF AloneInv
<1>3. AloneInv /\ [Next]_vars => AloneInv'
  BY OwnStep, SteadyStep DEF AloneInv
<1>4. AloneInv /\ [Next]_vars /\ AloneInv'
          => [Promise!ANext]_<<Settled(TheRun), {k \in Kinds : results[TheRun][k] = "VERIFIED"}>>
  BY PromiseStep, SameRules DEF Promise!ANext, VerifiedBy, One
<1> QED
  BY <1>1, <1>2, <1>3, <1>4, PTL DEF Spec, ImplementsFixes, Promise!ASpec
=============================================================================
