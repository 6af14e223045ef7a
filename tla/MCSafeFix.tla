------------------------------ MODULE MCSafeFix ------------------------------
(* Small projects for SafeFix. *)
EXTENDS SafeFix, TLC

\* The version line has at most one of the three defects; a quoted one may stand
\* apart.
VersionLines == {{}, {"quoted"}, {"quoted", "apart"}, {"mismatched"}, {"garbled"}}
Pubspecs(ends) == {Text(e, d, "rest") : e \in ends, d \in VersionLines}
Plists(ends, defects) == {Text(e, d, "rest") : e \in ends, d \in SUBSET defects}
Jsons(ends) == {Text(e, d, "rest") : e \in ends, d \in SUBSET {"comma", "cut"}}

PlistDefects == {"spaced", "unresolved", "ampersand", "angle"}

Holding(pubspecs, plists, jsons, locales) ==
    [pubspec : pubspecs, plist : plists, json : jsons, locale : locales]

\* Every defect, every combination of them, every line end.
AllProjects == Holding({Missing} \cup Pubspecs(BOOLEAN),
                       {Missing} \cup Plists(BOOLEAN, PlistDefects),
                       {Missing} \cup Jsons(BOOLEAN),
                       {Missing, Directory})

NoDrafts == [p \in Paths |-> {}]

\* For two runs and an editor to write over each other: one file with several
\* fixes and a directory to make, or one file whose rule does not read all of it.
SpacedPlists == Plists({FALSE}, {"spaced", "ampersand"})
SharedProjects ==
    Holding({Missing}, SpacedPlists, {Missing}, {Missing})
    \cup Holding({Text(FALSE, {"quoted"}, "rest")}, {Missing}, {Missing}, {Directory})
SharedDrafts ==
    [pubspec |-> {Text(FALSE, {"quoted"}, "more")}, plist |-> SpacedPlists,
     json |-> {}, locale |-> {Missing}]

CrlfProjects ==
    Holding(Pubspecs({TRUE}), Plists({TRUE}, {"spaced", "ampersand"}), Jsons({TRUE}),
            {Missing, Directory})
UnixProjects ==
    Holding(Pubspecs({FALSE}), Plists({FALSE}, {"spaced", "ampersand"}), Jsons({FALSE}),
            {Missing, Directory})

Symmetric == Permutations(Runs)
=============================================================================
