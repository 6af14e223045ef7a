# TLA+ models of ios-app-store-submit

`ios-app-store-submit` decides from local evidence whether an iOS app is ready for App Store review,
repairs what is safe to repair, and after a rejection finds causes, drafts a reply and, once a person has
approved it, submits again. This directory holds TLA+ models of that program, TLC configurations that
check them on small instances, and proofs for every value of the constants, checked by TLAPS. Paths are
those of the repository; every definition that models code is mapped to its lines in `PROJECT.json`.

## 1. The system

All seven phases are run by one command, `scripts/readiness_check.py`, an operating-system process per
invocation. There is no daemon, no thread and no lock. What concurrency there is comes from several
invocations on one project, from editors and people who change files between any two reads, and from the
`asc` command and App Store Connect.

| component | state | operations | talks to |
|---|---|---|---|
| Readiness gates (Phase 1), `readiness/` | none (reads the project) | `build_report`: technical, metadata, reviewability findings | every later phase |
| Safe Auto-Fix (Phase 2), `readiness/fixes/` | project files; plans and results of a run | `plan_fixes`, `apply_plans` (read, compare, write, verify, roll back) | the readiness rules, to verify |
| Pre-review (Phase 3), `review/` | none | `run_pre_review`, `category_status`, `gate` | Phase 1 findings; Phase 6 |
| Privacy intelligence (Phase 4), `privacy/` | answers file (a person's) | `inspect_*`, `find_contradictions`, `build_candidates`, questions, gate | Phase 1 (policy URL); Phase 6; the person who answers |
| Design review (Phase 5), `design/` | measurements file (a person's) | ten rules in four areas, gate | Phase 6 |
| Rejection recovery (Phase 6), `recovery/` | attestation file, rejection file (both a person's) | parse, map, root causes, verify, reply, candidate | Phases 3, 4, 5; Phase 7 |
| Closed-loop resubmission (Phase 7), `resubmit/` | recovery report, `.asc/resubmit/approval.json` | eligibility, plan, approve, execute, report | Phase 6 (file), `asc` (subprocess) |
| Command line | exit code, report file | composes the above | people |
| Keychain script, `scripts/setup_build_keychain.sh` | password file, keychain, keychain search list | read or make a password; unlock, delete, create; put on the list | `security`; other tools on the machine |
| Icon generator | image files | image I/O | PIL |

What is hard, and what must be true of it:

- **Phase 7** is spread over separate processes joined by two unlocked files and a digest. The report may
  change after it was approved, approvals are written by truncating and writing, two runs may submit, the
  answer of a submission may be lost, and the state read back is the app's, not the submission's. *Correct
  when* nothing is sent that a person did not approve as it is, `RESUBMITTED_VERIFIED` and `BLOCKED` are
  true, and a withdrawn approval stays withdrawn.
- **Phase 2** plans everything first and then overwrites files one by one. Two plans may hit one file, an
  editor or another run may come in between, and a write can fail after the truncation. *Correct when* a
  verified fix holds at the end, a failed one is undone, stale means changed, and damage to a file that a rule
  reads whole is never silent.
- **Phase 6** decides on answers of engines that read the project at different moments, with attestations
  that outlive the rejection they were given for. *Correct when* YES leaves no blocker nobody vouched for,
  a claim VERIFIED to Apple is true, and its verdict is the one Phase 7 reaches from the saved report.
- **Phase 4** reads five kinds of source one after another while a person answers its questions, and merges
  what they say of a data type. *Correct when* a fact is YES or NO only if somebody declared it so and nobody
  the opposite, no dispute disappears, BLOCKED means a defect, and an answer settles what it is about.
- **Phase 5** decides from text, with measurements of the rendered app for what text does not say. *Correct
  when* a measurement takes nothing back and hides no control that is too small, and gate and areas agree.
- **Phases 1 and 3** roll findings up in several places (`aggregate_status`, `category_status`, `gate`,
  `ready`) and search with a fallback to all files. *Correct when* what they pass holds of the project, and exit code 0 is earned.
- **The keychain script** says it is idempotent. It runs step by step beside other tools and may be killed.
  *Correct when* a run that says Ready leaves a keychain that the password on file opens, whatever was left
  before it, fails only where it must, and takes off the list nothing of others that it did not miss by its timing.

`PROJECT.json` lists these hazards one by one, at their lines, with the properties that catch them.

## 2. Modules

```
Findings               statuses and how they add up
 ├ ReadinessGates      Phase 1: the findings of a project
 │  └ PreReview        Phase 3: the rules over those findings
 └ DesignAreas         Phase 5: the rules over the code and measurements
PrivacyEvidence        Phase 4: evidence, contradictions, candidates, gate
 DesignAreas, PrivacyEvidence
    ├ AreaReviews      the run of Phases 4 and 5, source by source
    │  └ MCAreas
    └ EvidenceProofs   lemmas on their operators
 AreaReviews, EvidenceProofs
    └ AreaProofs
ResubmitPlan           Phase 7, pure part
 ├ Planning            a report that changes part by part
 │  ├ MCPlan
 │  └ PlanProofs
 ├ Resubmit            the CLI runs of Phase 7; an instance of ApprovedSubmission
 │  ├ MCResubmit
 │  └ ResubmitProofs
 └ Recovery            Phase 6, pure part
 PreReview, Recovery, PrivacyEvidence, DesignAreas
    └ RecoveryLoop     one CLI run of Phases 1 and 3 to 6
       └ MCRecovery
 RecoveryLoop, EvidenceProofs
    └ RecoveryProofs   causes, results, verdicts, and what they say of the app
FixRules               Phase 2, pure part
 ├ AtomicFix           what Phase 2 promises
 └ SafeFix             apply_plans step by step
    ├ MCSafeFix
    └ SafeFixProofs    for any number of runs
       └ OwnProofs     for the files that are a run's own
BuildKeychain          the keychain script, and its own model
 ├ MCKeychain
 └ KeychainProofs
```

No module declares a RECURSIVE operator, so each can be proved about.

### Phase 7: ResubmitPlan, Resubmit, ApprovedSubmission

`ResubmitPlan` translates `evaluate_eligibility`, `_submission_values`, `build_commands`,
`plan_resubmission`, `create_approval`, `validate_approval` and the guard of `execute_resubmit` as operators
on a report, a record of what these functions look at. A digest is the value it is computed from: SHA-256 is
taken to be free of collisions.

`Resubmit` runs them. Variables: the two files; per run its place `pc`, its arguments, the report and
approval it loaded, its open file handle, what became of its command (`delivery`, `returncode`) and what it
printed (`shown`); the review state of the app; and the history variable `granted`, the reports whose digest
a person typed into an approve run. Actions follow the resubmit branch of `main`: `Start`, `LoadReport`,
`TruncateApproval` and `WriteApproval` (one `write_text`), `Replan`, `LoadApproval`, `RefuseExecution`,
`Submit`, `SubmitReturns`, `ReadStatus`, `Report`, with the failing variants, and `Crash`. `AppStoreAnswers`,
`ReviewMoves`, `EditReport` and `WithdrawApproval` are the outside. An open handle is lost when an editor
replaces the file, and writing over a longer text leaves a torn one.

`Planning` has the report as its only variable and changes it part by part, as reruns of Phase 6 and people do:
every combination of parts, those included that Phase 6 would not write itself. It asks what the gate, the plan
and an approval of it make of that.

`ApprovedSubmission` is the promise without files or processes: a person approves an intent, an attempt
sends one that is approved and ready, and is called verified only after the store took it. `Resubmit`
implements it under the mapping at the end of that module.

### Phase 2: FixRules, SafeFix, AtomicFix

A text is its line ends, its defects, its remaining contents and whether its last bytes are its own. That is
what separates the planners: snippet repairs match one value with what is around it, whole-file repairs match the
text after line ends were normalised, and rules re-run after the write see the defects that are left. A snippet may
go over a line end (`SpansLines`): the one of the display name does, and the one of the version does when the white
space that `VERSION_LINE` takes in is a line end (the defect `apart`: a blank line or the end of the file after the
version, or two blank lines before it). One JSON file stands
for all; fixes that are guarded, and so never SAFE, are left out.

`SafeFix` has one variable per thing that survives a step: `files`, per run `pc`, `at` (the place in the list
of plans), `plans` (`NoPlan` for a kind of which nothing was planned), `held` (`before_bytes`), `handle`, `results`, and the history variables `original` and
`foreign`. Actions: `Start`, `PlanKind` (one planner), `Skip`, the three steps of the scaffold, `ReadTarget`
(the stale check), `Truncate`, `Write`, `Verify` (and the decision to roll back, which truncates and writes
again), `Reread`, `Finish`, `Crash`, `Edit`. `Faults` switches disk errors and kills on; `Drafts` is what the
editor may save. A write over a text that another run has written meanwhile may leave that text's tail; into a
file an editor has replaced, nothing.

`AtomicFix` is the promise: a file changes only by a safe fix whose rule then passes, in one step, and a fix
that does not verify changes nothing. The mapping `Settled` hides a write until it is verified.

### Phases 1, 3 and 6: Findings, ReadinessGates, PreReview, Recovery, RecoveryLoop

A project is a record of the facts the gates look for (`Facts`), not of text: whether there is an Xcode
project, what each build setting, the version line, the display name and the usage description are, which
classes of files exist and which subjects each mentions. `ReadinessGates`, `PreReview` and `Recovery` are
pure functions of it, one operator per function of the source. `Searched` keeps the quirk that searching an
empty selection of files searches all of them, and `TechnicalRules` the early return without a project file.

`RecoveryLoop` is a run with `--rejection`: it reads the project for the readiness report (`Start`), again
for `--pre-review`, which is only printed (`ShowPreReview`), for `--privacy` and `--design` (`RunAreas`), and
once more for the rules recovery decides on (`Review`), then the attestations, and exits with a code that
recovery has no part in (`Recover`, `ExitCode`); a run that is interrupted leaves nothing (`Interrupt`).
Between any two, the person may edit the project, the
attestations or the rejection file. `areas` is what Phases 4 and 5 read besides the project: the privacy
sources, the code the design rules see and the measurements; `RunAreas` applies the operators of
`PrivacyEvidence` and `DesignAreas` to it. The report it makes has the type of report `ResubmitPlan` reads, so
that Phase 7's gate can be applied to it; `Audit` is what the printed payload tells that gate besides. The history
variable `lacking` is what the app has lacked ever since the run started (`Lacks`, one name per fact that one look
at the app tells): set by `Start`, and narrowed by every edit.

### Phases 4 and 5: PrivacyEvidence, DesignAreas, AreaReviews

`PrivacyEvidence` has one operator per function of `privacy/`: the inspectors turn `sources` (permissions,
manifests by path, what code and prose mention, SDKs, the answers file) into pieces of evidence, each with
what it claims of one data type; `FindContradictions`, `Merge`, `BuildCandidate` and `ApplyContradictions`
make candidates of them; `Questions`, `HasUnresolvedFacts` and `PrivacyGate` conclude. Searching an app without
code searches its prose (`Found`). `Defective` says in terms of the sources what may block.

`DesignAreas` has one operator per rule of `design/`. A box is a `Container` or `SizedBox` call: whether a
control and a text are in it, its key, and its number literals in the order they are written, since the rules
take the first, be it the box's own or not (`Stated`, `StatedSize`). `SizeOf` prefers what the code states; a
measurement counts only where the code states nothing.

`AreaReviews` is a run with `--privacy --design`, one action per source it reads, and a person who answers a
question of the last report (`Answer`, `AnswerPurpose`), edits (`EditSources`, `EditCode`) or measures
(`Measure`) between any two of them. The history variable `seen` holds the sources as the run read them: each part
as it was at the step that reads it.

### BuildKeychain

One action per command of `setup_build_keychain.sh` that reads or changes the password file, the keychain or
the search list; a password is named by the run that made it, and `echo > file` is a truncation and a write.
`set -e` is the place `failed`. `Kill` ends a run anywhere, `OtherTool` changes the list. Of the keychains of other
tools, `Alike` are those whose names contain this one's, which `grep` takes for it, and `Spaced` those whose paths
have a space: the list goes unquoted into the words of a command (line 43), where such a path falls apart and names
no keychain any more. The history variables `alone` and `orphan` say whether a run has the machine to itself, and
whether it found a keychain that the list did not show it; `steady` holds the keychains of others that have been on
the list ever since a run started.

## 3. Runs

| run | instance | shows | distinct states |
|---|---|---|---|
| `plan_gates` | `MCPlan`: reports changed part by part, over the combinations of two causes, results, reply, audit, ids and digests | a plan is ready exactly when every gate passes (`ReadyMeansAllGates`); READY means that an approval is all that is missing (`ReadyPlansExecute`); no change to a report keeps an old approval valid (`AnyChangeMakesStale`) | 47 thousand |
| `approval` | one approve and one execute run, three reports, a person who takes the approval back | the command sent was approved and so was the report, a withdrawal holds, BLOCKED is never said of a sent report, `Resubmit` implements `ApprovedSubmission` | 580 thousand |
| `two_executions` | two execute runs, one report with a leftover approval | VERIFIED only of a submission the store took from that run; the inductive invariant of the proofs; every started run ends | 82 thousand |
| `pinned_reply` | as `approval`, with reports that pin their evidence digest, the reply edited | *violation*, see 6 | |
| `fix_alone` | one run, every combination of defects, line ends and missing files | a failed fix is undone; a plan is stale only for a cause; without an unsafe outcome nothing fixable is left; `SafeFix` implements `AtomicFix` | 127 thousand |
| `fix_shared` | two runs, an editor who saves once, a disk that fills up, kills | a stale plan is reported only of a file that changed; a verified fix still holds at the end in a file nobody else changed; an empty, cut or overlaid file is never left without an error from some run, a pubspec that another run overlaid apart | 5.6 million |
| `fix_crlf`, `fix_full_disk` | one run | *violations*, see 6 | |
| `recovery` | nine projects, three states of the privacy and design sources, three attestation files, four rejections, four flag sets, two changes | YES passes over no blocker that was there throughout, nor VERIFIED or exit code 0 anything they stand for, whatever is edited meanwhile; Phases 6 and 7 agree; an attestation turns YES back only for a contradicted cause | 903 thousand |
| `areas` | eleven privacy sources, nine design codes, two changes | facts are attributed, disputes surface, BLOCKED is a defect and nothing else, an answer settles what it is about, a measurement takes nothing back, gate and areas agree | 1.4 million |
| `keychain` | three runs, three other keychains (the name of one containing this one's, the path of one having a space), one change of the list | a run that has the machine to itself fails only on an orphan and is Ready only of a usable keychain; whoever else runs, a run takes only those off the list whose paths have a space or that came after it had started | 2.1 million |
| `keychain_orphan` | two runs, one other keychain | *violation*, see 6 | |

Why these bounds are enough to be interesting:

- *Two runs.* The races of Phase 7 that the runs reach are those of an approve run with an execute run, a person
  and a kill, and of two execute runs. That two approve runs write over each other is beyond them: beside an
  execution, two take TLC longer than a run may. The theorems of `ResubmitProofs` cover any number of each,
  `FileOnlyHoldsGrants` that case above all, and runs that only plan, which the instances omit.
- *Reports.* Three suffice to have one that is approved, one whose reply differs, and one that is blocked;
  `MCPlan` covers the combinations of parts without the processes, and the theorems of `PlanProofs` any parts.
- *Fixes.* Every subset of the defects a planner knows occurs in `fix_alone`. `fix_shared` has two worlds, with
  one file to fix in each: a plist with several fixes, the least for which a rollback and a fix of two runs can
  cross, with the directory to be made; and a pubspec, whose rules read two lines only, so that a tail left
  over goes unnoticed. The two runs are symmetric. The theorems of `SafeFixProofs` and `OwnProofs` cover any
  projects and any number of runs and edits.
- *Projects.* One is good; the others each lack one thing, or a few that do not hide one another, so that
  everything the verdicts speak of (`Blocking`, `Promised`) is lacking somewhere. Two changes allow two versions of the
  project in one report and a change back; `MaxChanges` bounds nothing else.
- *Declarations.* One app declares everything once; the others lack a declaration, repeat one, contradict one
  in the same manifest, in another, or by an answer, or are malformed. Two changes are a question answered and
  an edit, or two answers that disagree with a manifest. The theorems of `AreaProofs` cover any sources.
- *Keychain runs.* One run to leave something behind, one to disturb, one to meet what is there, and one keychain
  of each sort; the runs are symmetric. Its theorems cover any number.
- `CHECK_DEADLOCK FALSE` stands only where every run ends and nothing follows: the configurations of `SafeFix`,
  whose editor saves at most once, and those of the keychain script.

What a property says of a run that others disturb:

- *Recovery.* One report is made of up to four versions of the app: that of the readiness report, that of the
  printed pre-review, that of the engines of Phases 4 and 5, and that of the rules recovery decides on. No version
  need deserve the verdict: a YES exists that neither of two versions would get (the structure of one, the usage
  descriptions of the other), and the code promises nothing about that. What can be asked is that no edit hides what
  is lacking in all of them, and `YesIsBacked`, `VerifiedIsTrue` and `ExitZeroIsEarned` ask it of every run: they
  speak of `lacking`. Where nothing is edited, that is what the app lacks.
- *Fixes.* A file is a run's own while nobody else has changed it since the run started and the run has not failed
  half-way through a write to it (`Own`). `VerifiedHolds`, `CleanUnlessUnsafe` and `StaleMeansDrift` speak of those
  files, in every run.
- *Areas.* A report on privacy is of the declarations each as it was when it was read (`seen`), which together may
  never have been the app: an API call and the manifest entry for it, both added between two readings, make the gate
  BLOCKED by a gap that never was. `FactsAreAttributed`, `DisputesSurface` and `BlockedMeansDefect` say of every run
  that nothing else goes into the report, and that nothing that was read is left out of it.
- *Keychain.* `FailsOnOrphanOnly` and `ReadyIsUsable` speak of runs that have the machine to themselves, after
  others that had not. `OthersStayListed` speaks of every run: what it takes off the list came after it had started,
  or has a path with a space.

**Fairness** is assumed in `two_executions` only: weak fairness of each run's own steps (a started process is
scheduled) and of `AppStoreAnswers` (`asc` returns). `execute_resubmit` sets no timeout on the subprocess, so
without the latter a run may hang; the property says what it depends on. People, editors and crashes are
under no obligation.

## 4. Theorems

`ResubmitProofs`, for any set of runs, reports and approvers:

| theorem | says |
|---|---|
| `TypeCorrect` | the state is well typed; a loaded approval is an approval or none |
| `FileOnlyHoldsGrants` | a readable approval that approves binds a report a person granted, whichever approve runs write over each other, are killed or fail |
| `OnlyApprovedCommandsAreSent` | the command sent is that of a ready plan whose digest a person typed |
| `RetriesAlwaysSendTheSame` | every execution of one digest sends the same command on the same evidence |
| `OnlyApprovedReportsAreSent` | if no report pins its evidence digest, what is sent is a granted report |
| `VerifiedIsTrue` | RESUBMITTED_VERIFIED only of a submission the store took from that run |
| `BlockedIsTrue` | a run that says BLOCKED sent nothing |
| `InductiveInvariantHolds` | `IInv`, which carries the ones above |
| `WithdrawalsHold` | after a withdrawal with no writer under way, no run that has yet to read the file ever sends |
| `LoopImplementsPromise` | `Resubmit` refines `ApprovedSubmission` |

None of the safety properties is inductive. `IInv` adds what carries it from step to step: a run between
loading and finishing still holds a report, and one about to write the approval holds a granted one
(`RunsHoldReports`); what was loaded was bound when it was loaded (`LoadedWasGranted`); what was sent was
ready and granted by digest, and its run is past the guard (`SentWasGranted`); answers and what is shown are
true of deliveries (`AnswersAreTrue`, `FinishedAreShown`). The key lemma is `DigestBindsPlan`: `ready` is not
in the digest's payload, yet plans with one digest are ready together, so an approval given to a ready plan
can only be used for one. An approval is not used up, and no document says it is: `RetriesAlwaysSendTheSame` says
what a repeated execution can do at most. Behind it is `SentAsTyped`: what a run sends has, whatever the files became,
the digest that was typed into it, and a digest binds the command and the evidence. `two_executions` checks `IInv` with TLC. The proof goes in layers (types, grants,
what was sent, what was shown), each with one step per action. For `WithdrawalsHold`, only an approve run
writes the file (`Writers`), so once none is under way nothing makes a withdrawn file approve again, and a run
that reads it from then on holds an approval of no use until it ends (`Harmless`).

`PlanProofs`, for reports of any results, causes, replies, audit fields and sections:

| theorem | says |
|---|---|
| `ReadyMeansAllGatesHolds` | a plan is ready exactly when the report passes all gates at once (`AllGates`) |
| `ReadyPlansExecuteHolds` | READY says exactly that the approval of the printed digest is all that is missing |
| `AnyChangeMakesStaleHolds` | whatever part of a report changes, the approval it had is stale |

The type of a report is invariant (`Reports`); the rest is how the gate's blockers (`GateIsClear`), its pending
reasons (`NothingPending`) and the lookup of the ids (`IdsAreFound`) add up to `AllGates`.

`SafeFixProofs`, for any set of runs, any projects and drafts, any number of edits, with or without faults:

| theorem | says |
|---|---|
| `FixTypeCorrect` | only SAFE plans are applied, and a result is that of a plan |
| `DamageIsAlwaysReported` | once all runs ended, a damaged file has made one of them exit with an error, or one was killed; or it is a pubspec another run wrote |

The invariant `DInv` says who is responsible for damage as long as nobody has reported any: an empty file, or a
damaged one that a rule reads whole, is the target of a run that will still look at it (`DamageIsAttended`); a
handle opened and not written since stands before an empty file (`HandlesTell`); and a text lacks its own last
bytes only where two runs wrote (`IncompleteIsTouched`).

`OwnProofs`, for any set of runs, any projects and drafts, any number of edits, with or without faults unless a
hypothesis says otherwise:

| theorem | says | if |
|---|---|---|
| `VerifiedAlwaysHolds` | what a run reported VERIFIED of a file of its own still passes when it ends | |
| `NothingLeftToFix` | without an unsafe outcome, nothing is left in a file of its own that a second run would fix | |
| `StaleAlwaysHasACause` | a plan is stale because somebody else changed the file, the run broke it, or what it replaces (a display name, a whole file, a version and the white space around it) goes over a line end of a text that `read_text` altered | |
| `StaleAlwaysMeansDrift` | the last of these is ruled out | no text has CRLF line ends (`UnixEnds`) |
| `FailedFixIsAlwaysUndone` | a file nobody else changed, with no fix verified and no rollback failed, is what it was | the disk does not fail |
| `AloneImplementsFixes` | `SafeFix` refines `AtomicFix` | one run, no edits, no faults (`Alone`) |

The invariant `OwnInv` says of each run, and of the files that are still its own, which project it found (`Found`),
that its plans are those of that project (`PlansMade`), that every plan dealt with has a result (`Dealt`), what is on
the disk between a truncation and a verification (`OnDisk`), and how fixes add up in one file (`FixesAddUp`): none
brings a defect that was not there, none takes any but its own away, and the rule of each verified one passes. Its
difficult half is the steps of others: a write through a handle that another run opened earlier lands in the file as
it is then, so each step of another run or an editor either leaves a file alone or puts it into `foreign`
(`OthersAreNotHis`, `EditsAreNotHis`). The first two hypotheses are needed: `fix_crlf` and `fix_full_disk`
violate the conclusions without them.

`RecoveryProofs`, for any set of projects, privacy and design sources, attestation files,
rejections and flags, and whatever is edited while a run reads the app:

| theorem | says |
|---|---|
| `LoopTypeCorrect` | statuses are statuses, and every cause has one result that says what is pending if it is unverified |
| `TwoPhasesAgree` | Phase 7's gate gives a report Phase 6's verdict, or NO if the payload shows a blocker or a contradiction |
| `YesIsAlwaysBacked` | a YES leaves no blocker that was there throughout, in project, declarations or design, without a person's word |
| `VerifiedIsAlwaysTrue` | nothing that a VERIFIED claim of the reply promises was lacking throughout |
| `ExitZeroIsAlwaysEarned` | with exit code 0, nothing that blocks was there throughout, nor under `--strict` anything open |
| `OnlyContradictionAlwaysTurnsBack` | an attestation turns a YES back when its cause was CONTRADICTED, and never otherwise |

That the phases agree is not an accident of the instance: the two verdicts are computed from different fields by
different code (`_compute_resubmit_candidate`, `evaluate_eligibility`). Its core is `VerdictsAgree`, by cases
on the verdict. The properties about the app need to know what a run has read: `RunInv` says, stage by stage,
that the readiness report, each engine's answer and what recovery decides on were each made of some version that
lacks all that is `lacking` (`Seen`), though not all of one; that a report is one of what was parsed and of the engines
asked, and that the exit code is one of what was shown. An edit keeps this, for it only narrows `lacking`
(`StillSeen`). The rest is about the operators, each taken of two versions, that of the rules and that of the readiness
findings they carry over: which facts block which category (`BlockersBlock`), and which facts a status that passes rules
out (`PassingMeans`, `FoundMeans`).

`AreaProofs`, with the lemmas of `EvidenceProofs`, for any data types, sources, designs and sizes:

| theorem | says |
|---|---|
| `AreaTypeCorrect` | facts, purposes, statuses and gates are what Phase 6 expects |
| `FactsStayAttributed` | a fact is YES or NO exactly when somebody declared so and nobody the opposite |
| `DisputesAlwaysSurface` | a disputed fact makes its type CONTRADICTED, is asked about, and keeps the gate from passing |
| `BlockedOnlyByDefect` | the gate is BLOCKED exactly when a manifest is defective or a required-reason API undeclared |
| `DesignGateIsWorstArea` | the gate over findings is that over the areas |
| `AnswersAlwaysSettle` | an answer settles an open fact unless a declaration says otherwise, and takes back no contradiction or issue |
| `MeasuringNeverUndecides` | one more measurement changes nothing that was decided without it |

All of them hold whatever is edited between two readings. The invariant `Reading` says that what a run has read so far is
what one look at the sources as it saw them (`seen`) would have found; the code is searched twice, and what the second
search finds decides nothing (`SignalsDecideNothing`). The rest is about that look: which evidence a type has (`EvidenceAbout`), that evidence says what was
declared (`SayingIsDeclaring`), that a conflict is a dispute and the other way round (`ConflictIsDispute`), what is
merged (`MergeIs`, `CandidateIs`), and what a HIGH issue is about (`HighIssueIsDefect`).

`KeychainProofs`, for any number of runs and any keychains of other tools:

| theorem | says |
|---|---|
| `KeychainTypeCorrect` | password file, keychain and list are what the script and others can leave |
| `FailsExactlyOnOrphan` | an undisturbed run fails exactly on a keychain that exists and is not listed |
| `ReadyKeychainsAreUsable` | what an undisturbed run calls ready opens with the password on file, and is listed unless a keychain whose name contains its name is |
| `OthersAlwaysStayListed` | disturbed or not, a run takes off the list only keychains whose paths have a space or that came after it had started |

`KInv` is the type invariant; for each place of the script, what an undisturbed run knows there of the password, the
keychain and the list (`Undisturbed`); and, of any run between reading the list and setting it, that it holds every
keychain that has been on the list since it started and has no space in its path (`KeepsList`).

Assumptions: those named `ASSUME` in the modules, which TLC evaluates in the runs of those modules. The kinds of
run of Phase 7 exclude each other, `NULL` is no value of the program (no plan, no engine's answer, no exit code, no
password), and the sets of projects, sources, drafts and rejections are of the types the modules declare. The
drafts of `SafeFix` are files as someone saved them, neither empty nor cut. `OnlyApprovedReportsAreSent` and three
theorems of `OwnProofs` state their hypotheses, and `ReadyPlansExecuteHolds` that `NULL`, which stands for no
approval and no command, is neither.

Only model-checked: liveness (`RunsEnd`), which is out of the prover's reach. `RetriesSendTheSame` is only proved: an
instance with two execute runs and an approver besides takes too long to keep.

## 5. Assumptions about the outside

- `asc` exits with 0 only if the store took the submission. A lost answer may turn an accepted submission
  into an error, never a refused one into success.
- A write is a truncation followed by the bytes at offset 0; each may fail; a rename by an editor detaches
  open handles. Reads of one file are atomic.
- Regular expressions and parsers are the classes of facts they tell apart. A project is given by facts that
  fit together (`Projects`): what a file says needs the file.
- `security create-keychain` fails on a keychain that exists and does not put a new one on the search list: the
  script deletes before it creates again, and lists what it created.
- The two halves of a path with a space name no keychain that exists.
- The editor of `SafeFix` replaces files that are there, and leaves the blank lines around a version as they were; it creates none while runs are under way.
- A file that is not what it should be (an attestation that is not an object, for one) ends the run with a
  traceback, modelled as `Interrupt` or `Abort`.

## 6. Where the code and its documentation differ

- **`pinned_reply`.** A report that carries its own `evidence_digest` binds its reply only by the reply's id.
  After an edit of the text the approval is still valid, against "a changed ... reply ... makes the approval
  stale" (`README.md:260`). Phase 6 writes no such digest itself.
- **`fix_crlf`.** In a file with CRLF line ends, whole-file repairs, the display name, and a version next to blank
  lines or the end of the file are reported STALE_PLAN although nothing changed: plans remember normalised text,
  `apply_plans` looks in the bytes.
- **`fix_full_disk`.** A write that fails after the truncation is FAILED_APPLY and the file stays empty or
  cut, against "Rollback on failure" (`README.md:167`).
- **`keychain_orphan`.** After a kill between the creation of the keychain and its listing, the next run neither
  finds the keychain nor can make it again, and fails, as does every later one; against "Idempotent" and "Creates (or
  reuses)" (`scripts/setup_build_keychain.sh:2-3`) and "a single idempotent script (create-or-reuse keychain, ...)"
  (`SKILL.md:281`). `FailsOnOrphanOnly` says that this is the only way to fail.

Met while modelling, without a run that refutes a property:

- A missing localisation directory, "informational only, never blocking" (`apple_rules/app_review_guidelines.json:141`),
  makes the verdict on a METADATA rejection NO: ADVISORY is neither PASS nor BLOCKED for `_normalize`, and what has
  no answer ends as `still_blocked`.
- `setup_build_keychain.sh:43` takes a keychain whose path has a space off the search list (`Spaced`), and line 41
  takes a keychain whose name contains this one's for it (`Alike`).
- `design/accessibility.py:4` says UNKNOWN "when a control's rendered size cannot be established statically". A
  control in no box at all is not looked at as soon as another one is in a box that is large enough: the rule passes.
- A pubspec in which the bytes of one run were left over those of another passes both of its rules, which read
  one line each, and both runs exit with 0.
- `privacy/report.py:4` explains a gate that passes. `privacy/manifest.py:312` adds, on every run, a piece of evidence
  of no data type that asks for confirmation; no answer can give it, so the gate is at best CONDITIONAL, and
  `--privacy --strict` never exits with 0.

## 7. Not modelled

- `recovery/planner.py`: advice that nothing reads again. `gen_app_icons.py`: image I/O without state.
- Text output, redaction, serialisation to and from dictionaries, and the contents of the rulesets beyond the
  categories of a guideline, the API categories and the data types with short codes.
- The parsing of rejection text: a rejection is the set of guidelines and signals the parser returns.
- A single behaviour through Phases 6 and 7. What joins them is a file and a gate: `PhasesAgree` is about the gate,
  `EditReport` lets the file change at any time.
- Of Phase 4: the reason codes of a required-reason API, which the code reads and never compares with those
  allowed; the confidences and statuses nothing produces (`POSSIBLE`, `UNCONFIRMED_SENSITIVE`); an unknown word in
  the answers file, which ends the run with a ValueError.
- Of Phase 5: how many characters around a widget count as its context; a box says whether it is excused.
- Real time, and `asc` beyond its exit code and the state of the review.

## 8. Plan

Done: (1) Phase 7 with its promise and proofs, (2) Phase 2 with its promise and proofs, (3) Phases 1 and 3 to 6
with the loop around them and the proofs about the project, (4) the keychain script.

What would come next:

1. Phase 6 feeding Phase 7 in one module: `RecoveryLoop` writing the report `Resubmit` reads, in place of
   `EditReport`; with it, an attestation given for one rejection that counts for the next one of that file name.
2. As refuted claims: "informational only, never blocking" of the localisation directory on `RecoveryLoop`, and the
   docstring of the touch-target rule on `DesignAreas`.
3. An instance of `Resubmit` with two approve runs and an execution, small enough for TLC to finish.
