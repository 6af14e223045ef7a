---------------------------- MODULE SafeFixProofs ----------------------------
(***************************************************************************)
(* No damage to a file goes unreported, for any number of runs, any number *)
(* of edits beside them and any projects.                                  *)
(***************************************************************************)
EXTENDS SafeFix, TLAPS

-----------------------------------------------------------------------------
(* Files *)

AText(f, whole) ==
    \E crlf, defects, rest :
        f = [kind |-> "text", crlf |-> crlf, defects |-> defects, rest |-> rest, whole |-> whole]

WellFormed(f) == f \in {Missing, Empty, Directory} \/ AText(f, TRUE) \/ AText(f, FALSE)

Incomplete(f) == IsText(f) /\ ~f.whole

-----------------------------------------------------------------------------
(* The inductive invariant *)

\* The place of a kind in Order.
Place == [version |-> 1, name |-> 2, json |-> 3, quotes |-> 4, entities |-> 5, locale |-> 6]

Holds == {"truncate", "write", "verify", "undoTruncate", "undoWrite", "reread"}
Makes == {"mkdir", "rmdir"}
Writing == {"write", "undoWrite"}

\* What is known of the project ...
FilesShape ==
    /\ DOMAIN files = Paths
    /\ \A p \in Paths : WellFormed(files[p])
    /\ files["locale"] \in {Missing, Directory}
    /\ foreign \in [Runs -> SUBSET Paths]

\* ... of the handles ...
HandleShape ==
    /\ handle \in [Runs -> {"none", "fresh", "over", "lost"}]
    /\ \A i \in Runs : handle[i] # "none" <=> pc[i] \in Writing

\* ... and of each run: where it is with which plan.
RunTypes ==
    /\ pc \in [Runs -> Locations]
    /\ at \in [Runs -> 1..(Len(Order) + 1)]
    /\ DOMAIN plans = Runs
    /\ \A i \in Runs : DOMAIN plans[i] = Kinds
    /\ \A i \in Runs, k \in Kinds : plans[i][k].safety \in {"SAFE", "MANUAL", "NONE"}
    /\ DOMAIN held = Runs
    /\ results \in [Runs -> [Kinds -> Statuses \cup {NULL}]]

ResultOK(i, k) ==
    /\ results[i][k] # NULL =>
         plans[i][k] # NoPlan /\ (plans[i][k].safety = "SAFE" <=> results[i][k] # "SKIPPED")
    /\ pc[i] \in {"idle", "plan"} \/ Place[k] >= at[i] => results[i][k] = NULL

PlaceOK(i) ==
    /\ pc[i] \notin {"apply", "done", "dead"} => at[i] <= Len(Order)
    /\ pc[i] \in Holds \cup Makes => IsSafe(PlanHere(i))
    /\ pc[i] \in Makes => Kind(i) = "locale"
    /\ pc[i] \in Holds \ {"verify"} => Kind(i) # "locale"
    /\ pc[i] \in Holds /\ Kind(i) # "locale" => WellFormed(held[i]) /\ IsText(held[i])

RunShape ==
    /\ RunTypes
    /\ \A i \in Runs : PlaceOK(i)
    /\ \A i \in Runs, k \in Kinds : ResultOK(i, k)

Shape == FilesShape /\ HandleShape /\ RunShape

\* Some run will exit with an error, or was killed.
Reported == \E i \in Runs : pc[i] = "dead" \/ UnsafeOutcome(i)

\* A run will still look at path p.
Attended(p) ==
    \E i \in Runs : pc[i] \in {"write", "verify", "undoTruncate", "undoWrite", "reread"} /\ Target(i) = p

\* Another run has written path p beside a run.
Touched(p) == \E i \in Runs : pc[i] # "idle" /\ p \in foreign[i]

\* A file that is empty, or a damaged one a rule reads whole, is attended to.
DamageIsAttended ==
    \A p \in Paths :
        files[p] = Empty \/ (p # "pubspec" /\ Damaged(files[p])) => Attended(p)

\* A file opened and not written since is empty; one written since was written
\* by another.
HandlesTell ==
    \A i \in Runs :
        /\ handle[i] = "fresh" => files[Target(i)] = Empty
        /\ handle[i] = "over" => Reported \/ Target(i) \in foreign[i]

\* A text misses its last bytes only on a path that two have written.
IncompleteIsTouched ==
    /\ \A p \in Paths : Incomplete(files[p]) => Touched(p)
    /\ \A i \in Runs : pc[i] \in Holds /\ Kind(i) # "locale" /\ Incomplete(held[i]) => Touched(Target(i))

DInv == Shape /\ HandlesTell /\ (Reported \/ (DamageIsAttended /\ IncompleteIsTouched))

-----------------------------------------------------------------------------
(* Kinds, paths and texts *)

LEMMA Places ==
    /\ Len(Order) = 6
    /\ \A n \in 1..6 : Order[n] \in Kinds /\ Place[Order[n]] = n
    /\ \A k \in Kinds : Place[k] \in 1..6
  BY DEF Order, Kinds, Place

LEMMA Targets ==
    \A k \in Kinds : TargetOf[k] \in Paths /\ (TargetOf[k] = "locale" <=> k = "locale")
  BY DEF Kinds, TargetOf, Paths

LEMMA Kindly ==
    ASSUME RunShape, NEW i \in Runs, at[i] <= Len(Order)
    PROVE  /\ Kind(i) \in Kinds /\ Place[Kind(i)] = at[i] /\ at[i] \in 1..6
           /\ Target(i) \in Paths
           /\ Target(i) = "locale" <=> Kind(i) = "locale"
<1>1. at[i] \in 1..6
  BY Places DEF RunShape, RunTypes
<1> QED
  BY <1>1, Places, Targets DEF Kind, Target

LEMMA NoText ==
    \A f \in {Missing, Empty, Directory} : f.kind \in {"missing", "empty", "directory"} /\ ~IsText(f)
<1>1. Missing.kind = "missing" /\ Empty.kind = "empty" /\ Directory.kind = "directory"
  BY DEF Missing, Empty, Directory
<1> QED
  BY <1>1 DEF IsText

LEMMA TextIs ==
    ASSUME NEW f, WellFormed(f), IsText(f)
    PROVE  \E w \in BOOLEAN : AText(f, w)
<1>1. CASE AText(f, TRUE)
  BY <1>1
<1>2. CASE AText(f, FALSE)
  BY <1>2
<1> QED
  BY <1>1, <1>2, NoText DEF WellFormed

LEMMA TextHas ==
    ASSUME NEW c, NEW d, NEW r, NEW w \in BOOLEAN, NEW f,
           f = [kind |-> "text", crlf |-> c, defects |-> d, rest |-> r, whole |-> w]
    PROVE  WellFormed(f) /\ IsText(f) /\ f # Empty /\ f.whole = w
<1>1. AText(f, w) /\ f.kind = "text" /\ f.whole = w
  BY DEF AText
<1> QED
  BY <1>1, NoText DEF WellFormed, IsText

\* Neither a cut nor a repair makes a text anything else.
LEMMA CutText ==
    ASSUME NEW f, WellFormed(f), IsText(f)
    PROVE  /\ WellFormed(Cut(f)) /\ IsText(Cut(f)) /\ Cut(f) # Empty
           /\ f.whole \in BOOLEAN
<1>1. PICK w \in BOOLEAN : AText(f, w)
  BY TextIs
<1>2. PICK c, d, r : f = [kind |-> "text", crlf |-> c, defects |-> d, rest |-> r, whole |-> w]
  BY <1>1 DEF AText
<1>3. Cut(f) = [kind |-> "text", crlf |-> c, defects |-> d, rest |-> r, whole |-> FALSE]
  BY <1>2 DEF Cut, IsText
<1>4. f.whole = w
  BY <1>2, TextHas, Zenon
<1> QED
  BY <1>3, <1>4, TextHas, Zenon

LEMMA RepairedText ==
    ASSUME NEW f, NEW k, WellFormed(f), IsText(f)
    PROVE  /\ WellFormed(Repaired(k, f)) /\ IsText(Repaired(k, f)) /\ Repaired(k, f) # Empty
           /\ Repaired(k, f).whole = f.whole
<1>1. PICK w \in BOOLEAN : AText(f, w)
  BY TextIs
<1>2. PICK c, d, r : f = [kind |-> "text", crlf |-> c, defects |-> d, rest |-> r, whole |-> w]
  BY <1>1 DEF AText
<1>3. Repaired(k, f) = [kind |-> "text", crlf |-> c, defects |-> d \ {DefectOf[k]}, rest |-> r,
                        whole |-> w]
  BY <1>2 DEF Repaired
<1>4. f.whole = w
  BY <1>2, TextHas, Zenon
<1> QED
  BY <1>3, <1>4, TextHas, Zenon

LEMMA SavedIsWhole ==
    ASSUME NEW f, Saved(f)
    PROVE  WellFormed(f) /\ f # Empty /\ ~Incomplete(f) /\ ~Damaged(f)
<1>1. CASE f \in {Missing, Directory}
  <2>1. f.kind \in {"missing", "directory"}
    BY <1>1 DEF Missing, Directory
  <2> QED
    BY <1>1, <2>1, NoText DEF WellFormed, Incomplete, Damaged, Empty
<1>2. CASE f = Text(f.crlf, f.defects, f.rest)
  <2>1. AText(f, TRUE) /\ f.kind = "text" /\ f.whole
    BY <1>2 DEF Text, AText
  <2> QED
    BY <2>1, NoText DEF WellFormed, Incomplete, Damaged, IsText
<1> QED
  BY <1>1, <1>2 DEF Saved

LEMMA NoPlanIs == NoPlan.safety = "NONE" /\ ~IsSafe(NoPlan)
  BY DEF NoPlan, IsSafe

LEMMA PlansAreSafeOrManual ==
    ASSUME NEW k, NEW f
    PROVE  Planned(k, f).safety \in {"SAFE", "MANUAL", "NONE"}
<1>1. SafelyFixable(k, f) \in BOOLEAN /\ NeedsManualRepair(k, f) \in BOOLEAN
  BY DEF SafelyFixable, NeedsManualRepair
<1> QED
  BY <1>1, NoPlanIs DEF Planned

-----------------------------------------------------------------------------
(* The shape is kept *)

LEMMA ShapeIsTyped == Shape => TypeOK
  BY DEF Shape, FilesShape, HandleShape, RunShape, RunTypes, ResultOK, TypeOK

LEMMA ShapeInit == Init => Shape
<1> SUFFICES ASSUME Init PROVE Shape
  OBVIOUS
<1> USE DEF Init
<1>1. FilesShape
  <2>1. DOMAIN files = Paths /\ \A p \in Paths : Saved(files[p])
    BY SafeFixAssumption
  <2>2. files["locale"] \in {Missing, Directory}
    BY SafeFixAssumption
  <2> QED
    BY <2>1, <2>2, SavedIsWhole DEF FilesShape
<1>2. HandleShape
  BY DEF HandleShape, Writing
<1>3. RunShape
  BY Places, NoPlanIs DEF RunShape, RunTypes, PlaceOK, ResultOK, Locations, Holds, Makes
<1> QED
  BY <1>1, <1>2, <1>3 DEF Shape

\* A file is replaced by one that is as it should be.
LEMMA PutKeeps ==
    ASSUME FilesShape, NEW i, NEW p \in Paths, NEW f, Put(i, p, f),
           WellFormed(f), p = "locale" => f \in {Missing, Directory}
    PROVE  FilesShape'
<1>1. \A q \in Paths : files'[q] = IF q = p THEN f ELSE files[q]
  BY DEF FilesShape, Put
<1>2. DOMAIN files' = Paths /\ "locale" \in Paths
  BY DEF FilesShape, Put, Paths
<1>3. foreign' \in [Runs -> SUBSET Paths]
  BY DEF FilesShape, Put
<1>4. \A q \in Paths : WellFormed(files'[q])
  BY <1>1 DEF FilesShape
<1>5. WellFormed(f)' = WellFormed(f) /\ \A q \in Paths : WellFormed(files[q])' = WellFormed(files'[q])
  BY DEF WellFormed
<1>6. files'["locale"] \in {Missing, Directory}
  BY <1>1, <1>2 DEF FilesShape
<1> QED
  BY <1>2, <1>3, <1>4, <1>6 DEF FilesShape

\* A run goes on with the next plan.
LEMMA ConcludeKeeps ==
    ASSUME RunShape, NEW i \in Runs, NEW status,
           pc[i] \notin {"idle", "plan"}, at[i] <= Len(Order),
           Conclude(i, status),
           \/ status = NULL
           \/ /\ status \in Statuses /\ PlanHere(i) # NoPlan
              /\ PlanHere(i).safety = "SAFE" <=> status # "SKIPPED"
    PROVE  RunShape'
<1>0. Kind(i) \in Kinds /\ Place[Kind(i)] = at[i] /\ at[i] \in 1..6
  BY Kindly
<1>1. RunTypes'
  BY <1>0, Places DEF RunShape, RunTypes, Conclude, Goto, Locations
<1>2. ASSUME NEW j \in Runs PROVE PlaceOK(j)'
  <2>1. CASE j = i
    BY <2>1 DEF RunShape, RunTypes, PlaceOK, Conclude, Goto, Holds, Makes
  <2>2. CASE j # i
    <3>1. pc'[j] = pc[j] /\ at'[j] = at[j] /\ plans' = plans /\ held' = held
      BY <2>2 DEF RunShape, RunTypes, Conclude, Goto
    <3> QED
      BY <3>1 DEF RunShape, PlaceOK, PlanHere, Kind
  <2> QED
    BY <2>1, <2>2
<1>3. ASSUME NEW j \in Runs, NEW k \in Kinds PROVE ResultOK(j, k)'
  <2>0. results'[j][k] = (IF j = i /\ k = Kind(i) THEN status ELSE results[j][k])
    BY <1>0 DEF RunShape, RunTypes, Conclude
  <2>1. CASE j = i
    <3>1. pc'[i] = "apply" /\ at'[i] = at[i] + 1 /\ plans' = plans
      BY DEF RunShape, RunTypes, Conclude, Goto
    <3>2. Place[k] \in 1..6
      BY Places
    <3>3. CASE k = Kind(i)
      BY <1>0, <2>0, <2>1, <3>1, <3>3 DEF ResultOK, PlanHere
    <3>4. CASE k # Kind(i)
      <4>1. ResultOK(i, k)
        BY DEF RunShape
      <4> QED
        BY <1>0, <2>0, <2>1, <3>1, <3>2, <3>4, <4>1 DEF ResultOK
    <3> QED
      BY <3>3, <3>4
  <2>2. CASE j # i
    <3>1. pc'[j] = pc[j] /\ at'[j] = at[j] /\ plans' = plans
      BY <2>2 DEF RunShape, RunTypes, Conclude, Goto
    <3>2. ResultOK(j, k)
      BY DEF RunShape
    <3> QED
      BY <2>0, <2>2, <3>1, <3>2 DEF ResultOK
  <2> QED
    BY <2>1, <2>2
<1> QED
  BY <1>1, <1>2, <1>3 DEF RunShape

\* A run goes on with the same plan.
LEMMA ContinueKeeps ==
    ASSUME RunShape, NEW i \in Runs, NEW location \in Locations \ {"idle", "plan"},
           pc[i] \notin {"idle", "plan"} \/ location = "dead",
           pc' = [pc EXCEPT ![i] = location], UNCHANGED <<at, plans, results>>, DOMAIN held' = Runs,
           \A j \in Runs \ {i} : held'[j] = held[j],
           PlaceOK(i)'
    PROVE  RunShape'
<1>1. RunTypes'
  BY DEF RunShape, RunTypes
<1>2. ASSUME NEW j \in Runs PROVE PlaceOK(j)'
  <2>2. CASE j # i
    <3>1. pc'[j] = pc[j] /\ at' = at /\ plans' = plans /\ held'[j] = held[j]
      BY <2>2 DEF RunShape, RunTypes
    <3> QED
      BY <3>1 DEF RunShape, PlaceOK, PlanHere, Kind
  <2> QED
    BY <2>2
<1>3. ASSUME NEW j \in Runs, NEW k \in Kinds PROVE ResultOK(j, k)'
  <2>1. ResultOK(j, k)
    BY DEF RunShape
  <2>2. pc'[j] = pc[j] \/ pc'[j] \notin {"idle", "plan"}
    BY DEF RunShape, RunTypes
  <2> QED
    BY <2>1, <2>2 DEF ResultOK
<1> QED
  BY <1>1, <1>2, <1>3 DEF RunShape

LEMMA FilesKept == FilesShape /\ UNCHANGED <<files, foreign>> => FilesShape'
  BY DEF FilesShape, WellFormed, AText

\* What is written is a text.
LEMMA PayloadText ==
    ASSUME RunShape, NEW i \in Runs, pc[i] \in {"truncate", "undoTruncate"} \cup Writing
    PROVE  /\ at[i] <= Len(Order) /\ Kind(i) # "locale" /\ Target(i) \in Paths \ {"locale"}
           /\ WellFormed(held[i]) /\ IsText(held[i])
           /\ WellFormed(Payload(i)) /\ IsText(Payload(i)) /\ Payload(i) # Empty
           /\ Incomplete(Payload(i)) <=> Incomplete(held[i])
<1>1. PlaceOK(i)
  BY DEF RunShape
<1>2. /\ at[i] <= Len(Order) /\ Kind(i) # "locale"
      /\ WellFormed(held[i]) /\ IsText(held[i])
  BY <1>1 DEF PlaceOK, Holds, Writing
<1>3. Target(i) \in Paths \ {"locale"}
  BY <1>2, Kindly
<1>4. held[i] # Empty
  BY <1>2, NoText
<1> QED
  BY <1>2, <1>3, <1>4, RepairedText DEF Payload, Incomplete

\* What a write leaves is well-formed.
LEMMA WriteLeaves ==
    ASSUME Shape, NEW i \in Runs, Write(i)
    PROVE  \E f : /\ WellFormed(f) /\ Put(i, Target(i), f)
                  /\ \/ f \in Outcomes(i)
                     \/ /\ WriteFails(i)
                        /\ handle[i] = "lost" => f = files[Target(i)]
<1> USE DEF Shape
<1>1. pc[i] \in Writing /\ handle[i] \in {"fresh", "over", "lost"}
  BY DEF Write, Writing, HandleShape
<1>2. /\ WellFormed(files[Target(i)])
      /\ WellFormed(Payload(i)) /\ WellFormed(Cut(Payload(i))) /\ WellFormed(Empty)
  BY <1>1, PayloadText, CutText DEF FilesShape, WellFormed
<1>3. CASE \E f \in Outcomes(i) : Put(i, Target(i), f)
  <2>1. PICK f \in Outcomes(i) : Put(i, Target(i), f)
    BY <1>3
  <2>2. f \in {files[Target(i)], Payload(i), Cut(Payload(i))}
    BY <1>1, <2>1 DEF Outcomes
  <2> QED
    BY <1>2, <2>1, <2>2
<1>4. CASE /\ WriteFails(i)
           /\ \E f \in IF handle[i] = "lost" THEN {files[Target(i)]} ELSE {Empty, Cut(Payload(i))} :
                 Put(i, Target(i), f)
  BY <1>2, <1>4
<1> QED
  BY <1>3, <1>4 DEF Write

\* The project's files stay as files are.
LEMMA FilesStep ==
    ASSUME Shape, [Next]_vars
    PROVE  FilesShape'
<1> USE DEF Shape
<1>0. "locale" \in Paths /\ WellFormed(Missing) /\ WellFormed(Directory) /\ WellFormed(Empty)
  BY DEF Paths, WellFormed
<1>1. ASSUME NEW i \in Runs, Start(i) PROVE FilesShape'
  BY <1>1, FilesKept DEF Start, FilesShape, WellFormed, AText
<1>2. ASSUME NEW i \in Runs, MakeScaffold(i) \/ RemoveScaffold(i) PROVE FilesShape'
  BY <1>0, <1>2, FilesKept, PutKeeps DEF MakeScaffold, RemoveScaffold
<1>3. ASSUME NEW i \in Runs, Truncate(i) PROVE FilesShape'
  <2>1. Target(i) \in Paths \ {"locale"}
    BY <1>3, PayloadText DEF Truncate
  <2>2. Put(i, Target(i), Empty) \/ UNCHANGED <<files, foreign>>
    BY <1>3 DEF Truncate
  <2> QED
    BY <1>0, <2>1, <2>2, FilesKept, PutKeeps
<1>4. ASSUME NEW i \in Runs, Write(i) PROVE FilesShape'
  <2>1. Target(i) \in Paths \ {"locale"}
    BY <1>4, PayloadText DEF Write, Writing
  <2>2. PICK f : WellFormed(f) /\ Put(i, Target(i), f)
    BY <1>4, WriteLeaves
  <2> QED
    BY <2>1, <2>2, PutKeeps
<1>5. ASSUME NEW p \in Paths, Edit(p) PROVE FilesShape'
  <2>1. PICK f \in Drafts[p] : Put(NULL, p, f)
    BY <1>5 DEF Edit
  <2>2. WellFormed(f) /\ (p = "locale" => f \in {Missing, Directory})
    BY SafeFixAssumption, SavedIsWhole
  <2> QED
    BY <2>1, <2>2, PutKeeps
<1>6. CASE UNCHANGED vars
  BY <1>6, FilesKept DEF vars
<1>7. ASSUME NEW i \in Runs,
             \/ PlanKind(i) \/ Skip(i) \/ CheckScaffold(i) \/ ReadTarget(i) \/ Verify(i)
             \/ Reread(i) \/ Finish(i) \/ Crash(i)
      PROVE  FilesShape'
  BY <1>7, FilesKept DEF PlanKind, Skip, CheckScaffold, ReadTarget, Verify, Reread, Finish, Crash, history
<1> QED
  BY <1>1, <1>2, <1>3, <1>4, <1>5, <1>6, <1>7 DEF Next, RunStep

\* A handle is open while a run writes.
LEMMA HandleStep ==
    ASSUME Shape, [Next]_vars
    PROVE  HandleShape'
<1> USE DEF Shape, HandleShape, Writing
<1>0. pc \in [Runs -> Locations]
  BY DEF RunShape, RunTypes
<1>1. ASSUME NEW i \in Runs, Truncate(i) PROVE HandleShape'
  <2>1. CASE /\ handle' = [j \in Runs |->
                    CASE j = i -> "fresh"
                      [] j # i /\ handle[j] = "over" /\ Writes(j, Target(i)) -> "fresh"
                      [] j # i /\ ~(handle[j] = "over" /\ Writes(j, Target(i))) -> handle[j]]
             /\ Continue(i, IF Undoing(i) THEN "undoWrite" ELSE "write")
    <3>1. handle' \in [Runs -> {"none", "fresh", "over", "lost"}]
      BY <2>1
    <3>2. handle'[i] = "fresh" /\ pc'[i] \in {"write", "undoWrite"}
      BY <1>0, <2>1 DEF Continue, Goto
    <3>3. ASSUME NEW j \in Runs \ {i} PROVE (handle'[j] # "none" <=> handle[j] # "none") /\ pc'[j] = pc[j]
      BY <1>0, <2>1 DEF Continue, Goto
    <3> QED
      BY <3>1, <3>2, <3>3
  <2>2. CASE WriteFails(i) /\ UNCHANGED handle
    BY <1>0, <1>1, <2>2 DEF Truncate, WriteFails, Conclude, Goto
  <2> QED
    BY <1>1, <2>1, <2>2 DEF Truncate
<1>2. ASSUME NEW i \in Runs, Write(i) PROVE HandleShape'
  <2>1. /\ pc'[i] \notin Writing
        /\ \A j \in Runs \ {i} : pc'[j] = pc[j]
    BY <1>0, <1>2 DEF Write, WriteFails, Continue, Conclude, Goto
  <2>2. handle' = [j \in Runs |->
           CASE j = i -> "none"
             [] j # i /\ handle[i] # "lost" /\ handle[j] = "fresh" /\ Writes(j, Target(i)) -> "over"
             [] j # i /\ ~(handle[i] # "lost" /\ handle[j] = "fresh" /\ Writes(j, Target(i))) ->
                    handle[j]]
    BY <1>2 DEF Write
  <2>3. handle' \in [Runs -> {"none", "fresh", "over", "lost"}]
    BY <2>2
  <2>4. handle'[i] = "none"
    BY <2>2
  <2>5. ASSUME NEW j \in Runs \ {i} PROVE handle'[j] # "none" <=> handle[j] # "none"
    BY <2>2
  <2> QED
    BY <2>1, <2>3, <2>4, <2>5
<1>3. ASSUME NEW p \in Paths, Edit(p) PROVE HandleShape'
  BY <1>3 DEF Edit, Writes
<1>4. ASSUME NEW i \in Runs, Crash(i) PROVE HandleShape'
  BY <1>0, <1>4 DEF Crash, Continue, Goto
<1>5. ASSUME NEW i \in Runs, Start(i) \/ PlanKind(i) \/ Skip(i) \/ Finish(i) PROVE HandleShape'
  BY <1>0, <1>5 DEF Start, PlanKind, Skip, Finish, At, Applying, Continue, Conclude, Goto
<1>6. ASSUME NEW i \in Runs, CheckScaffold(i) \/ MakeScaffold(i) \/ RemoveScaffold(i) PROVE HandleShape'
  BY <1>0, <1>6 DEF CheckScaffold, MakeScaffold, RemoveScaffold, At, Applying, Continue, Conclude, Goto
<1>7. ASSUME NEW i \in Runs, ReadTarget(i) \/ Verify(i) \/ Reread(i) PROVE HandleShape'
  BY <1>0, <1>7 DEF ReadTarget, Verify, Reread, At, Applying, Continue, Conclude, Goto
<1>8. CASE UNCHANGED vars
  BY <1>8 DEF vars
<1> QED
  BY <1>1, <1>2, <1>3, <1>4, <1>5, <1>6, <1>7, <1>8 DEF Next, RunStep

\* A run concludes with a status of a plan that was SAFE.
LEMMA ConcludeSafe ==
    ASSUME Shape, NEW i \in Runs, NEW status \in {"VERIFIED"} \cup Unsafe,
           pc[i] \in Holds \cup Makes \/ (Applying(i) /\ IsSafe(PlanHere(i))),
           Conclude(i, status)
    PROVE  RunShape'
<1> USE DEF Shape
<1>1. PlaceOK(i)
  BY DEF RunShape
<1>2. pc[i] \notin {"idle", "plan"} /\ at[i] <= Len(Order) /\ IsSafe(PlanHere(i))
  BY <1>1 DEF PlaceOK, Holds, Makes, Applying, At
<1>3. status \in Statuses /\ status # "SKIPPED" /\ PlanHere(i) # NoPlan /\ PlanHere(i).safety = "SAFE"
  BY <1>2, NoPlanIs DEF Statuses, Unsafe, IsSafe
<1> QED
  BY <1>2, <1>3, ConcludeKeeps

\* A run goes on with the plan it has in hand.
LEMMA ContinueSafe ==
    ASSUME Shape, NEW i \in Runs, NEW location \in Holds \cup Makes,
           pc[i] \in Holds \cup Makes \/ (Applying(i) /\ IsSafe(PlanHere(i))),
           pc' = [pc EXCEPT ![i] = location], UNCHANGED <<at, plans, results>>, DOMAIN held' = Runs,
           \A j \in Runs \ {i} : held'[j] = held[j],
           location \in Makes => Kind(i) = "locale",
           location \in Holds \ {"verify"} => Kind(i) # "locale",
           location \in Holds /\ Kind(i) # "locale" => WellFormed(held'[i]) /\ IsText(held'[i])
    PROVE  RunShape'
<1> USE DEF Shape
<1>1. PlaceOK(i) /\ RunTypes
  BY DEF RunShape
<1>2. pc[i] \notin {"idle", "plan"} /\ at[i] <= Len(Order) /\ IsSafe(PlanHere(i))
  BY <1>1 DEF PlaceOK, Holds, Makes, Applying, At
<1>3. pc'[i] = location /\ PlanHere(i)' = PlanHere(i) /\ Kind(i)' = Kind(i)
  BY <1>1 DEF RunTypes, PlanHere, Kind
<1>4. WellFormed(held[i])' = WellFormed(held'[i])
  BY DEF WellFormed, AText
<1>5. PlaceOK(i)'
  BY <1>2, <1>3, <1>4 DEF PlaceOK
<1>6. location \in Locations \ {"idle", "plan"}
  BY DEF Locations, Holds, Makes
<1> QED
  BY <1>2, <1>5, <1>6, ContinueKeeps

\* Every run stays where it can be.
LEMMA RunsStep ==
    ASSUME Shape, [Next]_vars
    PROVE  RunShape'
<1> USE DEF Shape
<1>0. RunTypes /\ \A i \in Runs : PlaceOK(i)
  BY DEF RunShape
<1>1. ASSUME NEW i \in Runs, Start(i) PROVE RunShape'
  <2>1. /\ pc' = [pc EXCEPT ![i] = "plan"] /\ pc[i] = "idle"
        /\ UNCHANGED <<at, plans, held, results>>
    BY <1>1 DEF Start, At, Goto, plan
  <2>2. RunTypes'
    BY <1>0, <2>1 DEF RunTypes, Locations
  <2>3. ASSUME NEW j \in Runs PROVE PlaceOK(j)'
    BY <1>0, <2>1 DEF RunTypes, PlaceOK, PlanHere, Kind, Holds, Makes, WellFormed, AText
  <2>4. ASSUME NEW j \in Runs, NEW k \in Kinds PROVE ResultOK(j, k)'
    BY <1>0, <2>1 DEF RunShape, RunTypes, ResultOK
  <2> QED
    BY <2>2, <2>3, <2>4 DEF RunShape
<1>2. ASSUME NEW i \in Runs, PlanKind(i) PROVE RunShape'
  <2>0. pc[i] = "plan" /\ at[i] <= Len(Order)
    BY <1>0, <1>2 DEF PlanKind, At, PlaceOK
  <2>1. Kind(i) \in Kinds /\ at[i] \in 1..6
    BY <2>0, Kindly
  <2>2. /\ plans' = [plans EXCEPT ![i][Kind(i)] = Planned(Kind(i), files[Target(i)])]
        /\ UNCHANGED <<held, results>>
        /\ \/ pc' = pc /\ at' = [at EXCEPT ![i] = @ + 1] /\ at[i] < 6
           \/ pc' = [pc EXCEPT ![i] = "apply"] /\ at' = [at EXCEPT ![i] = 1]
    BY <1>2, Places DEF PlanKind, Goto
  <2>3. RunTypes'
    <3>1. \A j \in Runs, k \in Kinds : plans'[j][k].safety \in {"SAFE", "MANUAL", "NONE"}
      <4>1. TAKE j \in Runs, k \in Kinds
      <4>2. plans'[j][k] = IF j = i /\ k = Kind(i) THEN Planned(Kind(i), files[Target(i)])
                                                   ELSE plans[j][k]
        BY <1>0, <2>1, <2>2 DEF RunTypes
      <4> QED
        BY <1>0, <4>2, PlansAreSafeOrManual DEF RunTypes
    <3>2. pc' \in [Runs -> Locations] /\ at' \in [Runs -> 1..(Len(Order) + 1)]
      <4>1. CASE pc' = pc /\ at' = [at EXCEPT ![i] = @ + 1] /\ at[i] < 6
        BY <1>0, <2>1, <4>1, Places DEF RunTypes
      <4>2. CASE pc' = [pc EXCEPT ![i] = "apply"] /\ at' = [at EXCEPT ![i] = 1]
        <5>1. 1 \in 1..(Len(Order) + 1) /\ "apply" \in Locations
          BY Places DEF Locations
        <5> QED
          BY <1>0, <4>2, <5>1 DEF RunTypes
      <4> QED
        BY <2>2, <4>1, <4>2
    <3>3. DOMAIN plans' = Runs /\ \A j \in Runs : DOMAIN plans'[j] = Kinds
      BY <1>0, <2>1, <2>2 DEF RunTypes
    <3> QED
      BY <1>0, <2>2, <3>1, <3>2, <3>3 DEF RunTypes
  <2>4. ASSUME NEW j \in Runs PROVE PlaceOK(j)'
    <3>1. CASE j = i
      BY <1>0, <2>0, <2>1, <2>2, <3>1, Places DEF RunTypes, PlaceOK, Holds, Makes
    <3>2. CASE j # i
      <4>1. pc'[j] = pc[j] /\ at'[j] = at[j] /\ plans'[j] = plans[j] /\ held'[j] = held[j]
        BY <1>0, <2>2, <3>2 DEF RunTypes
      <4>2. PlanHere(j)' = PlanHere(j) /\ Kind(j)' = Kind(j)
        BY <4>1 DEF PlanHere, Kind
      <4> QED
        BY <1>0, <4>1, <4>2 DEF PlaceOK, IsSafe, WellFormed, AText
    <3> QED
      BY <3>1, <3>2
  <2>5. ASSUME NEW j \in Runs, NEW k \in Kinds PROVE ResultOK(j, k)'
    <3>0. ResultOK(j, k) /\ results' = results
      BY <2>2 DEF RunShape
    <3>1. CASE j = i
      BY <2>0, <3>0, <3>1 DEF ResultOK
    <3>2. CASE j # i
      <4>1. pc'[j] = pc[j] /\ at'[j] = at[j] /\ plans'[j] = plans[j]
        BY <1>0, <2>2, <3>2 DEF RunTypes
      <4> QED
        BY <3>0, <4>1 DEF ResultOK
    <3> QED
      BY <3>1, <3>2
  <2> QED
    BY <2>3, <2>4, <2>5 DEF RunShape
<1>3. ASSUME NEW i \in Runs, Skip(i) PROVE RunShape'
  <2>0. pc[i] = "apply" /\ at[i] <= Len(Order)
    BY <1>3 DEF Skip, Applying, At
  <2>1. Kind(i) \in Kinds
    BY <2>0, Kindly
  <2>2. CASE PlanHere(i) = NoPlan
    BY <1>3, <2>0, <2>2, ConcludeKeeps DEF Skip
  <2>3. CASE PlanHere(i) # NoPlan
    <3>1. Conclude(i, "SKIPPED") /\ PlanHere(i).safety # "SAFE"
      BY <1>3, <2>3 DEF Skip, IsSafe
    <3> QED
      BY <2>0, <2>3, <3>1, ConcludeKeeps DEF Statuses
  <2> QED
    BY <2>2, <2>3
<1>4. ASSUME NEW i \in Runs, CheckScaffold(i) PROVE RunShape'
  <2>1. CASE Conclude(i, "STALE_PLAN")
    BY <1>4, <2>1, ConcludeSafe DEF CheckScaffold, Unsafe
  <2>2. CASE Continue(i, "mkdir")
    BY <1>0, <1>4, <2>2, ContinueSafe DEF CheckScaffold, Continue, Goto, plan, RunTypes, Makes, Holds
  <2> QED
    BY <1>4, <2>1, <2>2 DEF CheckScaffold
<1>5. ASSUME NEW i \in Runs, Continue(i, "dead"), pc[i] # "idle" PROVE RunShape'
  <2>1. pc' = [pc EXCEPT ![i] = "dead"] /\ UNCHANGED <<at, plans, held, results>>
    BY <1>5 DEF Continue, Goto, plan
  <2>2. PlaceOK(i)'
    BY <1>0, <2>1 DEF RunTypes, PlaceOK, Holds, Makes
  <2> QED
    BY <1>0, <2>1, <2>2, ContinueKeeps DEF RunTypes, Locations
<1>6. ASSUME NEW i \in Runs, MakeScaffold(i) PROVE RunShape'
  <2>0. pc[i] = "mkdir" /\ Kind(i) = "locale"
    BY <1>0, <1>6 DEF MakeScaffold, At, PlaceOK, Makes
  <2>1. CASE Continue(i, "verify")
    BY <1>0, <2>0, <2>1, ContinueSafe DEF Continue, Goto, plan, RunTypes, Makes, Holds
  <2>2. CASE Continue(i, "dead")
    BY <1>5, <2>0, <2>2
  <2> QED
    BY <1>6, <2>1, <2>2 DEF MakeScaffold
<1>7. ASSUME NEW i \in Runs, RemoveScaffold(i) PROVE RunShape'
  <2>0. pc[i] = "rmdir"
    BY <1>7 DEF RemoveScaffold, At
  <2>1. CASE Conclude(i, "ROLLED_BACK")
    BY <2>0, <2>1, ConcludeSafe DEF Unsafe, Makes
  <2>2. CASE Continue(i, "dead")
    BY <1>5, <2>0, <2>2
  <2> QED
    BY <1>7, <2>1, <2>2 DEF RemoveScaffold
<1>8. ASSUME NEW i \in Runs, ReadTarget(i) PROVE RunShape'
  <2>0. Applying(i) /\ IsSafe(PlanHere(i)) /\ Kind(i) # "locale" /\ at[i] <= Len(Order)
    BY <1>8 DEF ReadTarget, Applying
  <2>1. CASE \E status \in {"FAILED_APPLY", "STALE_PLAN"} : Conclude(i, status)
    BY <2>0, <2>1, ConcludeSafe DEF Unsafe
  <2>2. CASE /\ StillThere(Kind(i), PlanHere(i).before, files[Target(i)])
             /\ held' = [held EXCEPT ![i] = files[Target(i)]]
             /\ Goto(i, "truncate")
             /\ UNCHANGED <<at, plans, results, edits, original>>
    <3>1. Target(i) \in Paths
      BY <2>0, Kindly
    <3>2. WellFormed(held'[i]) /\ IsText(held'[i])
      BY <1>0, <2>2, <3>1 DEF RunTypes, FilesShape, StillThere
    <3>3. DOMAIN held' = Runs /\ \A j \in Runs \ {i} : held'[j] = held[j]
      BY <1>0, <2>2 DEF RunTypes
    <3> QED
      BY <2>0, <2>2, <3>2, <3>3, ContinueSafe DEF Goto, Holds, Makes
  <2> QED
    BY <1>8, <2>1, <2>2 DEF ReadTarget
<1>9. ASSUME NEW i \in Runs, Truncate(i) \/ Write(i) PROVE RunShape'
  <2>0. pc[i] \in {"truncate", "undoTruncate", "write", "undoWrite"}
    BY <1>9 DEF Truncate, Write
  <2>1. Kind(i) # "locale" /\ WellFormed(held[i]) /\ IsText(held[i])
    BY <2>0, PayloadText DEF Writing
  <2>2. CASE WriteFails(i)
    BY <2>0, <2>2, ConcludeSafe DEF WriteFails, Unsafe, Holds
  <2>3. CASE \E location \in {"write", "undoWrite", "verify", "reread"} : Continue(i, location)
    <3>1. PICK location \in {"write", "undoWrite", "verify", "reread"} : Continue(i, location)
      BY <2>3
    <3> QED
      BY <1>0, <2>0, <2>1, <3>1, ContinueSafe DEF Continue, Goto, plan, RunTypes, Holds, Makes
  <2> QED
    BY <1>9, <2>2, <2>3 DEF Truncate, Write
<1>10. ASSUME NEW i \in Runs, Verify(i) PROVE RunShape'
  <2>0. pc[i] = "verify" /\ PlaceOK(i)
    BY <1>0, <1>10 DEF Verify, At
  <2>1. CASE Conclude(i, "VERIFIED")
    BY <2>0, <2>1, ConcludeSafe DEF Holds
  <2>2. CASE Continue(i, IF Kind(i) = "locale" THEN "rmdir" ELSE "undoTruncate")
    <3>1. CASE Kind(i) = "locale"
      BY <1>0, <2>0, <2>2, <3>1, ContinueSafe DEF Continue, Goto, plan, RunTypes, Holds, Makes
    <3>2. CASE Kind(i) # "locale"
      BY <1>0, <2>0, <2>2, <3>2, ContinueSafe DEF Continue, Goto, plan, RunTypes, Holds, Makes, PlaceOK
    <3> QED
      BY <3>1, <3>2
  <2> QED
    BY <1>10, <2>1, <2>2 DEF Verify
<1>11. ASSUME NEW i \in Runs, Reread(i) PROVE RunShape'
  BY <1>11, ConcludeSafe DEF Reread, At, Unsafe, Holds
<1>12. ASSUME NEW i \in Runs, Finish(i) PROVE RunShape'
  <2>1. pc[i] = "apply" /\ pc' = [pc EXCEPT ![i] = "done"] /\ UNCHANGED <<at, plans, held, results>>
    BY <1>12 DEF Finish, At, Continue, Goto, plan
  <2>2. PlaceOK(i)'
    BY <1>0, <2>1 DEF RunTypes, PlaceOK, Holds, Makes
  <2> QED
    BY <1>0, <2>1, <2>2, ContinueKeeps DEF RunTypes, Locations
<1>13. ASSUME NEW i \in Runs, Crash(i) PROVE RunShape'
  BY <1>5, <1>13 DEF Crash, Running
<1>14. CASE UNCHANGED <<pc, at, plan>>
  BY <1>0, <1>14 DEF plan, RunShape, RunTypes, PlaceOK, ResultOK, PlanHere, Kind, WellFormed, AText
<1> QED
  BY <1>1, <1>2, <1>3, <1>4, <1>6, <1>7, <1>8, <1>9, <1>10, <1>11, <1>12, <1>13, <1>14
     DEF Next, RunStep, Edit, vars, plan

LEMMA ShapeStep == Shape /\ [Next]_vars => Shape'
  BY FilesStep, HandleStep, RunsStep DEF Shape

-----------------------------------------------------------------------------
(* What a step leaves as it was *)

\* A step of one run is none of another's.
LEMMA OthersStay ==
    ASSUME RunShape, NEW i \in Runs, Start(i) \/ RunStep(i) \/ Crash(i)
    PROVE  /\ pc[i] \notin {"done", "dead"} /\ pc'[i] # "idle"
           /\ \A j \in Runs \ {i} :
                 /\ pc'[j] = pc[j] /\ at'[j] = at[j] /\ Target(j)' = Target(j) /\ Kind(j)' = Kind(j)
                 /\ held'[j] = held[j] /\ results'[j] = results[j]
<1> DEFINE Same(j) == /\ pc'[j] = pc[j] /\ at'[j] = at[j] /\ held'[j] = held[j]
                      /\ results'[j] = results[j]
<1> SUFFICES pc[i] \notin {"done", "dead"} /\ pc'[i] # "idle" /\ \A j \in Runs \ {i} : Same(j)
  BY DEF Target, Kind
<1> USE DEF At, Goto
<1>0. RunTypes
  BY DEF RunShape
<1>1. ASSUME NEW status, Conclude(i, status) PROVE pc'[i] # "idle" /\ \A j \in Runs \ {i} : Same(j)
  BY <1>0, <1>1 DEF RunTypes, Conclude
<1>2. ASSUME NEW location \in Locations \ {"idle"}, Continue(i, location)
      PROVE pc'[i] # "idle" /\ \A j \in Runs \ {i} : Same(j)
  BY <1>0, <1>2 DEF RunTypes, Continue, plan
<1>3. CASE Start(i) \/ PlanKind(i)
  BY <1>0, <1>3 DEF RunTypes, Start, PlanKind, plan
<1>4. CASE Skip(i) \/ CheckScaffold(i) \/ MakeScaffold(i) \/ RemoveScaffold(i)
  BY <1>1, <1>2, <1>4 DEF Skip, CheckScaffold, MakeScaffold, RemoveScaffold, Applying, Locations
<1>5. CASE ReadTarget(i)
  <2>1. CASE \E status : Conclude(i, status)
    BY <1>1, <1>5, <2>1 DEF ReadTarget, Applying
  <2>2. CASE /\ held' = [held EXCEPT ![i] = files[Target(i)]]
             /\ pc' = [pc EXCEPT ![i] = "truncate"]
             /\ UNCHANGED <<at, plans, results, edits, original>>
    BY <1>0, <1>5, <2>2 DEF RunTypes, ReadTarget, Applying
  <2> QED
    BY <1>5, <2>1, <2>2 DEF ReadTarget
<1>6. CASE Truncate(i) \/ Write(i)
  <2>1. /\ pc[i] \notin {"done", "dead"}
        /\ \/ \E status : Conclude(i, status)
           \/ \E location \in Locations \ {"idle"} : Continue(i, location)
    BY <1>6 DEF Truncate, Write, WriteFails, Locations
  <2> QED
    BY <1>1, <1>2, <2>1
<1>7. CASE Verify(i) \/ Reread(i) \/ Finish(i) \/ Crash(i)
  <2>1. /\ pc[i] \notin {"done", "dead"}
        /\ \/ \E status : Conclude(i, status)
           \/ \E location \in Locations \ {"idle"} : Continue(i, location)
    BY <1>7 DEF Verify, Reread, Finish, Crash, Running, Locations
  <2> QED
    BY <1>1, <1>2, <2>1
<1> QED
  BY <1>3, <1>4, <1>5, <1>6, <1>7 DEF RunStep

\* The results change where a plan is dealt with, and nowhere else.
LEMMA OneResult ==
    ASSUME NEW i \in Runs, Start(i) \/ RunStep(i) \/ Crash(i), Shape
    PROVE  results' = results \/ (at[i] <= Len(Order) /\ \E status : Conclude(i, status))
<1>0. PlaceOK(i)
  BY DEF Shape, RunShape
<1>1. CASE pc[i] = "apply" /\ (Skip(i) \/ CheckScaffold(i) \/ ReadTarget(i))
  BY <1>1 DEF Skip, CheckScaffold, ReadTarget, Applying, Continue, plan
<1>2. CASE pc[i] \notin {"apply", "done", "dead"}
           /\ (MakeScaffold(i) \/ RemoveScaffold(i) \/ Truncate(i) \/ Write(i) \/ Verify(i) \/ Reread(i))
  BY <1>0, <1>2 DEF PlaceOK, MakeScaffold, RemoveScaffold, Truncate, Write, WriteFails, Verify, Reread,
                    Continue, plan
<1>3. CASE Start(i) \/ PlanKind(i) \/ Finish(i) \/ Crash(i)
  BY <1>3 DEF Start, PlanKind, Finish, Crash, Continue, plan
<1> QED
  BY <1>1, <1>2, <1>3 DEF RunStep, Skip, CheckScaffold, ReadTarget, MakeScaffold, RemoveScaffold, Truncate,
                          Write, Verify, Reread, Applying, At

\* An error is never forgotten.
LEMMA ReportedStays == Shape /\ [Next]_vars /\ Reported => Reported'
<1> SUFFICES ASSUME Shape, [Next]_vars, NEW j \in Runs, pc[j] = "dead" \/ UnsafeOutcome(j)
             PROVE  pc'[j] = "dead" \/ UnsafeOutcome(j)'
  BY DEF Reported
<1> USE DEF Shape
<1>1. ASSUME NEW i \in Runs, Start(i) \/ RunStep(i) \/ Crash(i)
      PROVE  pc'[j] = "dead" \/ UnsafeOutcome(j)'
  <2>1. CASE j # i
    BY <1>1, <2>1, OthersStay DEF UnsafeOutcome
  <2>2. CASE j = i
    <3>1. PICK k \in Kinds : results[i][k] \in Unsafe
      BY <1>1, <2>2, OthersStay DEF UnsafeOutcome
    <3>2. CASE results' = results
      BY <2>2, <3>1, <3>2 DEF UnsafeOutcome
    <3>3. CASE at[i] <= Len(Order) /\ \E status : Conclude(i, status)
      <4>1. Kind(i) \in Kinds /\ Place[Kind(i)] = at[i] /\ at[i] \in 1..6
        BY <3>3, Kindly
      <4>2. results[i][Kind(i)] = NULL
        BY <4>1 DEF RunShape, ResultOK
      <4>3. k # Kind(i)
        BY <3>1, <4>2, NullAssumption DEF Statuses
      <4>4. results'[i][k] = results[i][k]
        BY <3>3, <4>1, <4>3 DEF Conclude, RunShape, RunTypes
      <4> QED
        BY <2>2, <3>1, <4>4 DEF UnsafeOutcome
    <3> QED
      BY <1>1, <3>2, <3>3, OneResult
  <2> QED
    BY <2>1, <2>2
<1>2. CASE UNCHANGED <<pc, results>>
  BY <1>2 DEF UnsafeOutcome
<1> QED
  BY <1>1, <1>2 DEF Next, Edit, plan, vars

\* An unsafe conclusion is an error.
LEMMA UnsafeIsReported ==
    ASSUME Shape, NEW i \in Runs, NEW status \in Unsafe, Conclude(i, status), at[i] <= Len(Order)
    PROVE  Reported'
<1>1. Kind(i) \in Kinds
  BY Kindly DEF Shape
<1>2. results'[i][Kind(i)] = status
  BY <1>1 DEF Shape, RunShape, RunTypes, Conclude
<1> QED
  BY <1>1, <1>2 DEF Reported, UnsafeOutcome

\* What others wrote is not forgotten.
LEMMA ForeignGrows ==
    ASSUME Shape, [Next]_vars, NEW j \in Runs, pc[j] # "idle"
    PROVE  foreign[j] \subseteq foreign'[j] /\ pc'[j] # "idle"
<1> USE DEF Shape
<1>0. ASSUME NEW i, NEW p, NEW f, Put(i, p, f) PROVE foreign[j] \subseteq foreign'[j]
  BY <1>0 DEF Put
<1>1. ASSUME NEW i \in Runs, Start(i) \/ RunStep(i) \/ Crash(i)
      PROVE  pc'[j] # "idle"
  BY <1>1, OthersStay
<1>2. ASSUME NEW i \in Runs, Start(i) PROVE foreign[j] \subseteq foreign'[j]
  BY <1>2 DEF Start, At, FilesShape
<1>3. ASSUME NEW i \in Runs, MakeScaffold(i) \/ RemoveScaffold(i) \/ Truncate(i) \/ Write(i)
      PROVE  foreign[j] \subseteq foreign'[j]
  <2>1. UNCHANGED foreign \/ \E p, f : Put(i, p, f)
    BY <1>3 DEF MakeScaffold, RemoveScaffold, Truncate, Write
  <2> QED
    BY <1>0, <2>1
<1>4. ASSUME NEW i \in Runs,
             \/ PlanKind(i) \/ Skip(i) \/ CheckScaffold(i) \/ ReadTarget(i) \/ Verify(i)
             \/ Reread(i) \/ Finish(i) \/ Crash(i)
      PROVE  foreign[j] \subseteq foreign'[j]
  BY <1>4 DEF PlanKind, Skip, CheckScaffold, ReadTarget, Verify, Reread, Finish, Crash, history
<1>5. ASSUME NEW p \in Paths, Edit(p) PROVE foreign[j] \subseteq foreign'[j] /\ pc'[j] # "idle"
  <2>1. PICK f : Put(NULL, p, f)
    BY <1>5 DEF Edit
  <2> QED
    BY <1>0, <1>5, <2>1 DEF Edit
<1>6. CASE UNCHANGED vars
  BY <1>6 DEF vars
<1> QED
  BY <1>1, <1>2, <1>3, <1>4, <1>5, <1>6 DEF Next, RunStep

LEMMA TouchedStays ==
    ASSUME Shape, [Next]_vars, NEW p, Touched(p)
    PROVE  Touched(p)'
<1>1. PICK j \in Runs : pc[j] # "idle" /\ p \in foreign[j]
  BY DEF Touched
<1> QED
  BY <1>1, ForeignGrows DEF Touched

-----------------------------------------------------------------------------
(* The damage *)

\* A run with a file open has it open on one that is rewritten.
LEMMA OpenOn ==
    ASSUME Shape, NEW j \in Runs, handle[j] # "none"
    PROVE  /\ pc[j] \in Writing /\ pc[j] # "idle"
           /\ Target(j) \in Paths \ {"locale"}
           /\ WellFormed(Payload(j)) /\ IsText(Payload(j)) /\ Payload(j) # Empty /\ Cut(Payload(j)) # Empty
<1>1. pc[j] \in Writing
  BY DEF Shape, HandleShape
<1> QED
  BY <1>1, PayloadText, CutText DEF Shape, Writing

\* What a handle tells of its file stays true.
LEMMA HandlesTellStep == Shape /\ [Next]_vars /\ HandlesTell => HandlesTell'
<1> SUFFICES ASSUME Shape, [Next]_vars, HandlesTell, NEW j \in Runs, handle'[j] \in {"fresh", "over"}
             PROVE  /\ handle'[j] = "fresh" => files'[Target(j)'] = Empty
                    /\ handle'[j] = "over" => Reported' \/ Target(j)' \in foreign'[j]
  BY DEF HandlesTell
<1> DEFINE Told == /\ handle'[j] = "fresh" => files'[Target(j)'] = Empty
                   /\ handle'[j] = "over" => Reported' \/ Target(j)' \in foreign'[j]
<1> USE DEF Shape
<1>0. RunTypes /\ DOMAIN files = Paths
  BY DEF RunShape, FilesShape
<1>1. \* The file of a handle that stays is left alone, or becomes another empty one.
      ASSUME handle'[j] = handle[j], Target(j)' = Target(j),
             \/ files'[Target(j)] \in {files[Target(j)], Empty}
             \/ handle[j] = "over"
      PROVE  Told
  <2>1. handle[j] = "over" => Reported' \/ Target(j)' \in foreign'[j]
    BY <1>1, OpenOn, ForeignGrows, ReportedStays DEF HandlesTell
  <2>2. handle[j] = "fresh" => files'[Target(j)'] = Empty
    BY <1>1 DEF HandlesTell
  <2> QED
    BY <1>1, <2>1, <2>2
<1>2. ASSUME NEW i \in Runs,
             \/ Start(i) \/ PlanKind(i) \/ Skip(i) \/ CheckScaffold(i) \/ MakeScaffold(i)
             \/ RemoveScaffold(i) \/ ReadTarget(i) \/ Verify(i) \/ Reread(i) \/ Finish(i) \/ Crash(i)
      PROVE  Told
  <2>1. handle'[j] = handle[j]
    <3>1. CASE Crash(i)
      BY <3>1 DEF Crash, HandleShape
    <3> QED
      BY <1>2, <3>1 DEF Start, PlanKind, Skip, CheckScaffold, MakeScaffold, RemoveScaffold, ReadTarget,
                        Verify, Reread, Finish, history
  <2>2. pc[j] \in Writing /\ Target(j) \in Paths \ {"locale"}
    BY <2>1, OpenOn
  <2>3. j # i
    <3>1. CASE Crash(i)
      BY <3>1 DEF Crash, HandleShape
    <3> QED
      BY <1>2, <2>2, <3>1 DEF Start, PlanKind, Skip, CheckScaffold, MakeScaffold, RemoveScaffold, ReadTarget,
                        Verify, Reread, Finish, Applying, At, Writing
  <2>4. Target(j)' = Target(j)
    BY <1>2, <2>3, OthersStay DEF RunStep
  <2>5. files' = files \/ \E f : Put(i, "locale", f)
    BY <1>2 DEF Start, PlanKind, Skip, CheckScaffold, MakeScaffold, RemoveScaffold, ReadTarget,
                Verify, Reread, Finish, Crash, history
  <2>6. files'[Target(j)] = files[Target(j)]
    BY <1>0, <2>2, <2>5 DEF Put
  <2> QED
    BY <1>1, <2>1, <2>4, <2>6
<1>3. ASSUME NEW i \in Runs, Truncate(i) PROVE Told
  <2>1. Target(i) \in Paths
    BY <1>3, PayloadText DEF Truncate
  <2>2. CASE WriteFails(i) /\ UNCHANGED <<files, handle, foreign>>
    <3>1. j # i
      BY <1>3, <2>2 DEF Truncate, HandleShape, Writing
    <3> QED
      BY <1>1, <1>3, <2>2, <3>1, OthersStay DEF RunStep
  <2>3. CASE /\ Put(i, Target(i), Empty)
             /\ handle' = [l \in Runs |->
                    CASE l = i -> "fresh"
                      [] l # i /\ handle[l] = "over" /\ Writes(l, Target(i)) -> "fresh"
                      [] l # i /\ ~(handle[l] = "over" /\ Writes(l, Target(i))) -> handle[l]]
             /\ Continue(i, IF Undoing(i) THEN "undoWrite" ELSE "write")
    <3>0. files'[Target(i)] = Empty
      BY <1>0, <2>1, <2>3 DEF Put
    <3>1. CASE j = i
      <4>1. handle'[i] = "fresh" /\ Target(i)' = Target(i)
        BY <2>3 DEF Continue, Target, Kind
      <4> QED
        BY <3>0, <3>1, <4>1
    <3>2. CASE j # i
      <4>1. Target(j)' = Target(j)
        BY <1>3, <3>2, OthersStay DEF RunStep
      <4>2. CASE handle[j] = "over" /\ Writes(j, Target(i))
        <5>1. handle'[j] = "fresh" /\ Target(j) = Target(i)
          BY <2>3, <3>2, <4>2 DEF Writes
        <5> QED
          BY <3>0, <4>1, <5>1
      <4>3. CASE ~(handle[j] = "over" /\ Writes(j, Target(i)))
        <5>1. handle'[j] = handle[j]
          BY <2>3, <3>2, <4>3
        <5>2. Target(j) \in Paths
          BY <5>1, OpenOn
        <5>3. files'[Target(j)] \in {files[Target(j)], Empty}
          BY <1>0, <2>3, <5>2 DEF Put
        <5> QED
          BY <1>1, <4>1, <5>1, <5>3
      <4> QED
        BY <4>2, <4>3
    <3> QED
      BY <3>1, <3>2
  <2> QED
    BY <1>3, <2>2, <2>3 DEF Truncate
<1>4. ASSUME NEW i \in Runs, Write(i) PROVE Told
  <2>0. /\ Target(i) \in Paths /\ at[i] <= Len(Order)
        /\ handle[i] \in {"fresh", "over", "lost"}
    BY <1>4, PayloadText DEF Write, Writing, HandleShape
  <2>1. handle' = [l \in Runs |->
           CASE l = i -> "none"
             [] l # i /\ handle[i] # "lost" /\ handle[l] = "fresh" /\ Writes(l, Target(i)) -> "over"
             [] l # i /\ ~(handle[i] # "lost" /\ handle[l] = "fresh" /\ Writes(l, Target(i))) ->
                    handle[l]]
    BY <1>4 DEF Write
  <2>2. j # i
    BY <2>1
  <2>3. Target(j)' = Target(j)
    BY <1>4, <2>2, OthersStay DEF RunStep
  <2>4. PICK f : /\ Put(i, Target(i), f)
                 /\ \/ f \in Outcomes(i)
                    \/ WriteFails(i) /\ (handle[i] = "lost" => f = files[Target(i)])
    BY <1>4, WriteLeaves
  <2>5. files'[Target(i)] = f /\ \A p \in Paths \ {Target(i)} : files'[p] = files[p]
    BY <1>0, <2>0, <2>4 DEF Put
  <2>6. WriteFails(i) => Reported'
    BY <2>0, UnsafeIsReported DEF WriteFails, Unsafe
  <2>7. CASE handle[i] # "lost" /\ handle[j] = "fresh" /\ Writes(j, Target(i))
    <3>1. handle'[j] = "over" /\ Target(j) = Target(i) /\ files[Target(i)] = Empty
      BY <2>1, <2>2, <2>7 DEF HandlesTell, Writes
    <3>2. CASE f \in Outcomes(i)
      <4>1. f \in {Payload(i), Cut(Payload(i))}
        BY <2>0, <2>7, <3>2 DEF Outcomes
      <4>2. f # files[Target(i)]
        BY <2>0, <3>1, <4>1, OpenOn
      <4>3. Target(i) \in foreign'[j]
        BY <2>2, <2>4, <4>2 DEF Put
      <4> QED
        BY <2>3, <3>1, <4>3
    <3> QED
      BY <2>3, <2>4, <2>6, <3>1, <3>2
  <2>8. CASE ~(handle[i] # "lost" /\ handle[j] = "fresh" /\ Writes(j, Target(i)))
    <3>1. handle'[j] = handle[j]
      BY <2>1, <2>2, <2>8
    <3>2. Target(j) \in Paths /\ handle[j] \in {"fresh", "over"}
      BY <3>1, OpenOn
    <3>3. CASE Target(j) # Target(i) \/ handle[j] = "over"
      BY <1>1, <2>3, <2>5, <3>1, <3>2, <3>3
    <3>4. CASE Target(j) = Target(i) /\ handle[i] = "lost"
      <4>1. f = files[Target(i)]
        BY <2>4, <3>4 DEF Outcomes
      <4> QED
        BY <1>1, <2>3, <2>5, <3>1, <3>4, <4>1
    <3> QED
      BY <2>8, <3>2, <3>3, <3>4 DEF Writes
  <2> QED
    BY <2>7, <2>8
<1>5. ASSUME NEW p \in Paths, Edit(p) PROVE Told
  <2>1. PICK f : Put(NULL, p, f)
    BY <1>5 DEF Edit
  <2>2. handle'[j] = handle[j] /\ ~Writes(j, p) /\ Target(j)' = Target(j)
    BY <1>5 DEF Edit, Target, Kind
  <2>3. Target(j) \in Paths /\ Target(j) # p
    BY <2>2, OpenOn DEF Writes
  <2>4. files'[Target(j)] = files[Target(j)]
    BY <1>0, <2>1, <2>3 DEF Put
  <2> QED
    BY <1>1, <2>2, <2>4
<1>6. CASE UNCHANGED vars
  BY <1>1, <1>6 DEF vars, Target, Kind
<1> QED
  BY <1>2, <1>3, <1>4, <1>5, <1>6 DEF Next, RunStep

Bad(p, f) == f = Empty \/ (p # "pubspec" /\ Damaged(f))

Attends(i) == pc[i] \in {"write", "verify", "undoTruncate", "undoWrite", "reread"}

LEMMA LocaleIsNeverBad ==
    ASSUME NEW f \in {Missing, Directory}, NEW p
    PROVE  ~Bad(p, f)
<1>1. f.kind \in {"missing", "directory"} /\ Empty.kind = "empty"
  BY DEF Missing, Directory, Empty
<1> QED
  BY <1>1 DEF Bad, Damaged, IsText

\* A rule that passes has seen no damage.
LEMMA PassesUndamaged ==
    ASSUME NEW k \in Kinds, NEW f, Passes(k, f)
    PROVE  ~Bad(TargetOf[k], f)
<1>1. CASE k \in {"version", "quotes"}
  <2>1. TargetOf[k] = "pubspec"
    BY <1>1 DEF TargetOf
  <2>2. Passes(k, f) <=> Clean(f, {"garbled"})
    BY <1>1 DEF Passes
  <2>3. IsText(f)
    BY <2>2 DEF Clean
  <2> QED
    BY <2>1, <2>3, NoText DEF Bad
<1>2. CASE k \in {"name", "json", "entities"}
  <2>1. IsText(f) /\ f.whole
    BY <1>2 DEF Passes, Clean, JsonParses, PlistParses
  <2> QED
    BY <2>1, NoText DEF Bad, Damaged
<1>3. CASE k = "locale"
  BY <1>3, LocaleIsNeverBad DEF Passes
<1> QED
  BY <1>1, <1>2, <1>3 DEF Kinds

\* A run that attended to a damaged file still does, or has reported.
LEMMA AttendedStep ==
    ASSUME Shape, [Next]_vars, DamageIsAttended, ~Reported'
    PROVE  DamageIsAttended'
<1> USE DEF Shape
<1>0. RunTypes /\ DOMAIN files = Paths /\ \A i \in Runs : PlaceOK(i)
  BY DEF RunShape, FilesShape
<1> SUFFICES ASSUME NEW p \in Paths, Bad(p, files'[p])
             PROVE  \E j \in Runs : Attends(j)' /\ Target(j)' = p
  BY DEF DamageIsAttended, Bad, Damaged, Attended, Attends
<1>1. ASSUME files'[p] = files[p] PROVE \E j \in Runs : Attends(j) /\ Target(j) = p
  BY <1>1 DEF DamageIsAttended, Bad, Damaged, Attended, Attends
<1>2. \* Who attends stays, unless it is the run that takes the step.
      ASSUME NEW i \in Runs, Start(i) \/ RunStep(i) \/ Crash(i), NEW j \in Runs \ {i}, Attends(j)
      PROVE  Attends(j)' /\ Target(j)' = Target(j)
  BY <1>2, OthersStay DEF Attends
<1>3. ASSUME NEW i \in Runs,
             \/ Start(i) \/ PlanKind(i) \/ Skip(i) \/ CheckScaffold(i) \/ ReadTarget(i) \/ Finish(i)
      PROVE  \E j \in Runs : Attends(j)' /\ Target(j)' = p
  <2>1. files' = files /\ ~Attends(i)
    BY <1>3 DEF Start, PlanKind, Skip, CheckScaffold, ReadTarget, Finish, Attends, At, Applying, history
  <2> QED
    BY <1>1, <1>2, <1>3, <2>1 DEF RunStep
<1>4. ASSUME NEW i \in Runs, MakeScaffold(i) \/ RemoveScaffold(i)
      PROVE  \E j \in Runs : Attends(j)' /\ Target(j)' = p
  <2>1. ~Attends(i) /\ (files' = files \/ \E f : Put(i, "locale", f))
    BY <1>4 DEF MakeScaffold, RemoveScaffold, Attends, At
  <2>2. p # "locale"
    BY FilesStep, LocaleIsNeverBad DEF FilesShape
  <2>3. files'[p] = files[p]
    BY <1>0, <2>1, <2>2 DEF Put
  <2> QED
    BY <1>1, <1>2, <1>4, <2>1, <2>3 DEF RunStep
<1>5. ASSUME NEW i \in Runs, Truncate(i) \/ Write(i)
      PROVE  \E j \in Runs : Attends(j)' /\ Target(j)' = p
  <2>0. pc[i] \in Holds /\ at[i] <= Len(Order)
    BY <1>5, PayloadText DEF Truncate, Write, Writing, Holds
  <2>1. ~WriteFails(i)
    BY <2>0, UnsafeIsReported DEF WriteFails, Unsafe
  <2>2. /\ \E f : Put(i, Target(i), f)
        /\ \E location \in {"write", "undoWrite", "verify", "reread"} : Continue(i, location)
    BY <1>5, <2>1 DEF Truncate, Write
  <2>3. Attends(i)' /\ Target(i)' = Target(i)
    BY <1>0, <2>2 DEF RunTypes, Attends, Continue, Goto, Target, Kind
  <2>4. CASE p # Target(i)
    <3>1. files'[p] = files[p]
      BY <1>0, <2>2, <2>4 DEF Put
    <3> QED
      BY <1>1, <1>2, <1>5, <2>4, <3>1 DEF RunStep
  <2> QED
    BY <2>3, <2>4
<1>6. ASSUME NEW i \in Runs, Verify(i) \/ Reread(i) \/ Crash(i)
      PROVE  \E j \in Runs : Attends(j)' /\ Target(j)' = p
  <2>1. files' = files
    BY <1>6 DEF Verify, Reread, Crash
  <2>2. PICK j \in Runs : Attends(j) /\ Target(j) = p
    BY <1>1, <2>1
  <2>3. CASE j # i
    BY <1>2, <1>6, <2>2, <2>3 DEF RunStep
  <2>4. CASE j = i /\ Verify(i)
    <3>1. at[i] <= Len(Order)
      BY <1>0, <2>4 DEF PlaceOK, Verify, At
    <3>2. Kind(i) \in Kinds
      BY <3>1, Kindly
    <3>3. ~Passes(Kind(i), files[Target(i)])
      BY <2>1, <2>2, <2>4, <3>2, PassesUndamaged DEF Target
    <3>4. Kind(i) # "locale"
      <4>1. files[p] \notin {Missing, Directory}
        BY <2>1, LocaleIsNeverBad
      <4> QED
        BY <2>2, <2>4, <3>1, <4>1, Kindly DEF FilesShape
    <3>5. Continue(i, "undoTruncate")
      BY <2>4, <3>3, <3>4 DEF Verify
    <3>6. Attends(i)' /\ Target(i)' = Target(i)
      BY <1>0, <3>5 DEF RunTypes, Attends, Continue, Goto, Target, Kind
    <3> QED
      BY <2>2, <2>4, <3>6
  <2>5. CASE j = i /\ Reread(i)
    <3>1. at[i] <= Len(Order)
      BY <1>0, <2>5 DEF PlaceOK, Reread, At
    <3> QED
      BY <2>5, <3>1, UnsafeIsReported DEF Reread, Unsafe
  <2>6. CASE j = i /\ Crash(i)
    BY <1>0, <2>6 DEF Crash, Continue, Goto, RunTypes, Reported
  <2> QED
    BY <1>6, <2>3, <2>4, <2>5, <2>6
<1>7. ASSUME NEW q \in Paths, Edit(q)
      PROVE  \E j \in Runs : Attends(j)' /\ Target(j)' = p
  <2>1. PICK f \in Drafts[q] : Put(NULL, q, f)
    BY <1>7 DEF Edit
  <2>2. ~Bad(q, f)
    BY SafeFixAssumption, SavedIsWhole DEF Bad
  <2>3. files'[q] = f /\ \A r \in Paths \ {q} : files'[r] = files[r]
    BY <1>0, <2>1 DEF Put
  <2>4. files'[p] = files[p]
    BY <2>2, <2>3
  <2> QED
    BY <1>1, <1>7, <2>4 DEF Edit, Attends, Target, Kind
<1>8. CASE UNCHANGED vars
  BY <1>1, <1>8 DEF vars, Attends, Target, Kind
<1> QED
  BY <1>3, <1>4, <1>5, <1>6, <1>7, <1>8 DEF Next, RunStep

\* A text loses its last bytes only where two have written.
LEMMA IncompleteStep ==
    ASSUME Shape, [Next]_vars, HandlesTell, IncompleteIsTouched, ~Reported, ~Reported'
    PROVE  IncompleteIsTouched'
<1> USE DEF Shape
<1>0. RunTypes /\ DOMAIN files = Paths /\ \A i \in Runs : PlaceOK(i)
  BY DEF RunShape, FilesShape
<1> DEFINE FilesTouched == \A p \in Paths : Incomplete(files'[p]) => Touched(p)
           HeldTouched(j) ==
               pc'[j] \in Holds /\ Kind(j)' # "locale" /\ Incomplete(held'[j]) => Touched(Target(j)')
<1> SUFFICES FilesTouched /\ \A j \in Runs : HeldTouched(j)
  <2>1. \A p : Touched(p) => Touched(p)'
    BY TouchedStays
  <2> QED
    BY <2>1 DEF IncompleteIsTouched, Incomplete
<1>1. files' = files => FilesTouched
  BY DEF IncompleteIsTouched
<1>2. ASSUME NEW i, NEW q \in Paths, NEW f, Put(i, q, f), Incomplete(f) => Touched(q)
      PROVE  FilesTouched
  <2>1. files'[q] = f /\ \A r \in Paths \ {q} : files'[r] = files[r]
    BY <1>0, <1>2 DEF Put
  <2> QED
    BY <1>2, <2>1 DEF IncompleteIsTouched
<1>3. ~Incomplete(Empty) /\ ~Incomplete(Missing) /\ ~Incomplete(Directory) /\ "locale" \in Paths
  BY NoText DEF Incomplete, Paths
<1>4. ASSUME NEW j \in Runs,
             \/ pc'[j] \notin Holds
             \/ Kind(j)' = "locale"
             \/ pc[j] \in Holds /\ Kind(j)' = Kind(j) /\ Target(j)' = Target(j) /\ held'[j] = held[j]
      PROVE  HeldTouched(j)
  BY <1>4 DEF IncompleteIsTouched
<1>5. ASSUME NEW i \in Runs, Start(i) \/ RunStep(i) \/ Crash(i), HeldTouched(i)
      PROVE  \A j \in Runs : HeldTouched(j)
  <2>1. TAKE j \in Runs
  <2>2. CASE j # i
    BY <1>4, <1>5, <2>2, OthersStay
  <2> QED
    BY <1>5, <2>2
<1>6. ASSUME NEW i \in Runs, Start(i) \/ PlanKind(i) \/ Skip(i) \/ CheckScaffold(i) \/ Finish(i) \/ Crash(i)
      PROVE  FilesTouched /\ \A j \in Runs : HeldTouched(j)
  <2>1. files' = files
    BY <1>6 DEF Start, PlanKind, Skip, CheckScaffold, Finish, Crash, history
  <2>2. pc'[i] \notin Holds
    BY <1>0, <1>6 DEF RunTypes, Start, PlanKind, Skip, CheckScaffold, Finish, Crash, Continue, Conclude, Goto,
                      At, Holds
  <2> QED
    BY <1>1, <1>4, <1>5, <1>6, <2>1, <2>2 DEF RunStep
<1>7. ASSUME NEW i \in Runs, MakeScaffold(i) \/ RemoveScaffold(i)
      PROVE  FilesTouched /\ \A j \in Runs : HeldTouched(j)
  <2>1. files' = files \/ \E f \in {Missing, Directory} : Put(i, "locale", f)
    BY <1>7 DEF MakeScaffold, RemoveScaffold
  <2>2. FilesTouched
    BY <1>1, <1>2, <1>3, <2>1
  <2>3. pc'[i] \notin Holds \/ Kind(i)' = "locale"
    <3>1. Kind(i) = "locale"
      BY <1>0, <1>7 DEF PlaceOK, MakeScaffold, RemoveScaffold, At, Makes
    <3> QED
      BY <1>0, <1>7, <3>1 DEF RunTypes, MakeScaffold, RemoveScaffold, Continue, Conclude, Goto, Holds, Kind
  <2> QED
    BY <1>4, <1>5, <1>7, <2>2, <2>3 DEF RunStep
<1>8. ASSUME NEW i \in Runs, ReadTarget(i)
      PROVE  FilesTouched /\ \A j \in Runs : HeldTouched(j)
  <2>1. files' = files /\ Target(i) \in Paths
    BY <1>8, Kindly DEF ReadTarget, Applying
  <2>2. CASE \E status : Conclude(i, status)
    <3>1. pc'[i] \notin Holds
      BY <1>0, <2>2 DEF RunTypes, Conclude, Goto, Holds
    <3> QED
      BY <1>1, <1>4, <1>5, <1>8, <2>1, <3>1 DEF RunStep
  <2>3. CASE /\ held' = [held EXCEPT ![i] = files[Target(i)]]
             /\ UNCHANGED <<at, plans, results, edits, original>>
    <3>1. held'[i] = files[Target(i)] /\ Target(i)' = Target(i)
      BY <1>0, <2>3 DEF RunTypes, Target, Kind
    <3>2. HeldTouched(i)
      BY <2>1, <3>1 DEF IncompleteIsTouched
    <3> QED
      BY <1>1, <1>5, <1>8, <2>1, <3>2 DEF RunStep
  <2> QED
    BY <1>8, <2>2, <2>3 DEF ReadTarget
<1>9. ASSUME NEW i \in Runs, Continue(i, "undoTruncate") \/ Continue(i, "rmdir") \/ \E status : Conclude(i, status),
             pc[i] \in Holds
      PROVE  HeldTouched(i)
  <2>1. CASE Continue(i, "undoTruncate")
    BY <1>4, <1>9, <2>1 DEF Continue, plan, Target, Kind
  <2>2. CASE Continue(i, "rmdir") \/ \E status : Conclude(i, status)
    BY <1>0, <1>4, <2>2 DEF Continue, Conclude, Goto, RunTypes, Holds
  <2> QED
    BY <1>9, <2>1, <2>2
<1>10. ASSUME NEW i \in Runs, Verify(i) \/ Reread(i)
       PROVE  FilesTouched /\ \A j \in Runs : HeldTouched(j)
  <2>1. files' = files
    BY <1>10 DEF Verify, Reread
  <2>2. HeldTouched(i)
    BY <1>9, <1>10 DEF Verify, Reread, At, Holds
  <2> QED
    BY <1>1, <1>5, <1>10, <2>1, <2>2 DEF RunStep
<1>11. ASSUME NEW i \in Runs, Truncate(i) \/ Write(i)
       PROVE  FilesTouched /\ \A j \in Runs : HeldTouched(j)
  <2>0. /\ pc[i] \in Holds /\ pc[i] # "idle" /\ at[i] <= Len(Order) /\ Target(i) \in Paths
        /\ Kind(i) # "locale"
    BY <1>11, PayloadText DEF Truncate, Write, Writing, Holds
  <2>1. ~WriteFails(i)
    BY <2>0, UnsafeIsReported DEF WriteFails, Unsafe
  <2>2. HeldTouched(i)
    BY <1>4, <1>11, <2>0, <2>1 DEF Truncate, Write, Continue, plan, Target, Kind
  <2>3. CASE Truncate(i)
    <3>1. Put(i, Target(i), Empty)
      BY <2>1, <2>3 DEF Truncate
    <3> QED
      BY <1>2, <1>3, <1>5, <2>0, <2>2, <2>3, <3>1 DEF RunStep
  <2>4. CASE Write(i)
    <3>1. PICK f \in Outcomes(i) : Put(i, Target(i), f)
      BY <2>1, <2>4 DEF Write
    <3>2. handle[i] \in {"fresh", "over", "lost"}
      BY <2>4 DEF HandleShape, Write, Writing
    <3>3. Incomplete(Payload(i)) => Touched(Target(i))
      BY <2>0, <2>4, PayloadText DEF Write, Writing, IncompleteIsTouched
    <3>4. handle[i] = "over" => Touched(Target(i))
      BY <2>0 DEF HandlesTell, Touched
    <3>5. f \in {files[Target(i)], Payload(i)} \/ handle[i] = "over"
      BY <3>1, <3>2 DEF Outcomes
    <3>6. Incomplete(f) => Touched(Target(i))
      BY <2>0, <3>3, <3>4, <3>5 DEF IncompleteIsTouched
    <3> QED
      BY <1>2, <1>5, <2>0, <2>2, <2>4, <3>1, <3>6 DEF RunStep
  <2> QED
    BY <1>11, <2>3, <2>4
<1>12. ASSUME NEW q \in Paths, Edit(q)
       PROVE  FilesTouched /\ \A j \in Runs : HeldTouched(j)
  <2>1. PICK f \in Drafts[q] : Put(NULL, q, f)
    BY <1>12 DEF Edit
  <2>2. ~Incomplete(f)
    BY SafeFixAssumption, SavedIsWhole
  <2> QED
    BY <1>2, <1>4, <1>12, <2>1, <2>2 DEF Edit, plan, Target, Kind
<1>13. CASE UNCHANGED vars
  BY <1>1, <1>4, <1>13 DEF vars, plan, Target, Kind
<1> QED
  BY <1>6, <1>7, <1>8, <1>10, <1>11, <1>12, <1>13 DEF Next, RunStep

-----------------------------------------------------------------------------
(* Theorems *)

LEMMA DInvInit == Init => DInv
<1> SUFFICES ASSUME Init PROVE DInv
  OBVIOUS
<1>1. Shape
  BY ShapeInit
<1>2. HandlesTell
  BY DEF Init, HandlesTell
<1>3. \A p \in Paths : Saved(files[p])
  BY SafeFixAssumption DEF Init
<1>4. DamageIsAttended
  BY <1>3, SavedIsWhole DEF DamageIsAttended
<1>5. IncompleteIsTouched
  BY <1>3, SavedIsWhole DEF Init, IncompleteIsTouched, Holds
<1> QED
  BY <1>1, <1>2, <1>4, <1>5 DEF DInv

LEMMA DInvStep == DInv /\ [Next]_vars => DInv'
  BY ShapeStep, HandlesTellStep, AttendedStep, IncompleteStep, ReportedStays DEF DInv

LEMMA DInvHolds == Spec => []DInv
  BY DInvInit, DInvStep, PTL DEF Spec

\* Files stay files, plans and results stay of their kind, and only a SAFE plan
\* has any other result than SKIPPED (apply_plan).
THEOREM FixTypeCorrect == Spec => []TypeOK
<1>1. DInv => TypeOK
  BY ShapeIsTyped DEF DInv
<1> QED
  BY <1>1, DInvHolds, PTL

\* Whatever the disk does, whoever is killed and however many runs and editors
\* write over each other: once all runs have ended, a file that was left empty,
\* cut or overlaid has made some run exit with an error, unless it is a pubspec
\* that others wrote beside a run (unsafe_outcome).
THEOREM DamageIsAlwaysReported == Spec => []DamageIsReported
<1>1. ASSUME DInv PROVE DamageIsReported
  <2> SUFFICES ASSUME \A i \in Runs : pc[i] \in {"done", "dead"},
                      NEW p \in Paths, Damaged(files[p]), ~Reported
               PROVE  \E i \in Runs : p = "pubspec" /\ p \in foreign[i]
    BY DEF DamageIsReported, Reported
  <2>1. ~Attended(p)
    BY DEF Attended
  <2>2. files[p] # Empty /\ p = "pubspec"
    BY <1>1, <2>1 DEF DInv, DamageIsAttended
  <2>3. Incomplete(files[p])
    BY <2>2 DEF Damaged, Incomplete
  <2>4. Touched(p)
    BY <1>1, <2>3 DEF DInv, IncompleteIsTouched
  <2> QED
    BY <2>2, <2>4 DEF Touched
<1> QED
  BY <1>1, DInvHolds, PTL
=============================================================================
