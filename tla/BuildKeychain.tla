---------------------------- MODULE BuildKeychain ----------------------------
(***************************************************************************)
(* scripts/setup_build_keychain.sh: a keychain of its own for code signing *)
(* on a Mac without a screen.                                              *)
(*                                                                         *)
(* A run reads or makes the password file, unlocks, recreates or creates   *)
(* the keychain, and puts it on the search list, each by a command that    *)
(* another run, another tool or a kill may come before.  What `security'   *)
(* does is modelled from how the script uses it.                           *)
(***************************************************************************)
EXTENDS Naturals

CONSTANTS
    Runs,        \* invocations of the script
    Others,      \* keychains of other tools
    Alike,       \* those of them whose names contain this one's
    Spaced,      \* those of them whose paths have a space
    MaxChanges,  \* bound on what other tools do to the search list
    NULL

Mine == "build.keychain"

ASSUME KeychainAssumption ==
    /\ Alike \cup Spaced \subseteq Others /\ Mine \notin Others
    /\ MaxChanges \in Nat

\* A password is named by the run that made it up.  Blank is that of an empty
\* file, Mixed that of a file in which one text was written over another.
Blank == "blank"
Mixed == "mixed"
Passwords == Runs \cup {Blank, Mixed}

ASSUME NullAssumption == NULL \notin Passwords

VARIABLES
    passFile,    \* the password on file, NULL when there is no file
    keychain,    \* the password the keychain was made with, NULL when there is none
    searchList,  \* the keychains on the search list
    pc,          \* where each run is
    secret,      \* KC_PASS
    held,        \* the search list as a run read it
    alone,       \* history: nobody else has done anything since the run started
    orphan,      \* history: it found a keychain that it could not see on the list
    steady,      \* history: keychains of others on the list ever since it started
    changes      \* how often other tools changed the list

vars == <<passFile, keychain, searchList, pc, secret, held, alone, orphan, steady, changes>>
list == <<searchList, steady>>

Locations == {"idle", "password", "truncate", "write", "search", "try", "delete", "create",
              "unlock", "settings", "look", "read", "set", "ready", "failed", "killed"}
Running(i) == pc[i] \notin {"idle", "ready", "failed", "killed"}

Init ==
    /\ passFile = NULL
    /\ keychain = NULL
    /\ searchList \in SUBSET Others
    /\ pc = [i \in Runs |-> "idle"]
    /\ secret = [i \in Runs |-> NULL]
    /\ held = [i \in Runs |-> {}]
    /\ alone = [i \in Runs |-> FALSE]
    /\ orphan = [i \in Runs |-> FALSE]
    /\ steady = [i \in Runs |-> {}]
    /\ changes = 0

\* grep -q finds the name in other names, too.
Listed(names) == names \cap ({Mine} \cup Alike) # {}

SetTo(names) ==
    /\ searchList' = names
    /\ steady' = [j \in Runs |-> steady[j] \cap names]

Goto(i, from, to) ==
    /\ pc[i] = from
    /\ pc' = [pc EXCEPT ![i] = to]
    /\ alone' = [j \in Runs |-> alone[j] /\ (j = i \/ ~Running(j))]
    /\ UNCHANGED <<orphan, changes>>

-----------------------------------------------------------------------------
(* A run *)

Start(i) ==
    /\ pc[i] = "idle"
    /\ pc' = [pc EXCEPT ![i] = "password"]
    /\ alone' = [j \in Runs |-> IF j = i THEN \A k \in Runs : ~Running(k)
                                         ELSE alone[j] /\ ~Running(j)]
    /\ orphan' = [orphan EXCEPT ![i] = keychain # NULL /\ ~Listed(searchList)]
    /\ steady' = [steady EXCEPT ![i] = searchList \ {Mine}]
    /\ UNCHANGED <<passFile, keychain, searchList, secret, held, changes>>

\* Mutant of ReadPassword: the file is taken to be there.
ReadPasswordOnly(i) ==
    /\ Goto(i, "password", "search")
    /\ secret' = [secret EXCEPT ![i] = passFile]
    /\ UNCHANGED <<passFile, keychain, list, held>>

ReadPassword(i) ==
    /\ \/ /\ passFile # NULL
          /\ Goto(i, "password", "search")
          /\ secret' = [secret EXCEPT ![i] = passFile]
       \/ /\ passFile = NULL
          /\ Goto(i, "password", "truncate")
          /\ secret' = [secret EXCEPT ![i] = i]
    /\ UNCHANGED <<passFile, keychain, list, held>>

\* echo > file opens and truncates the file ...
TruncatePassword(i) ==
    /\ Goto(i, "truncate", "write")
    /\ passFile' = Blank
    /\ UNCHANGED <<keychain, list, secret, held>>

\* ... and writes at its start.
WritePassword(i) ==
    /\ Goto(i, "write", "search")
    /\ passFile' \in {i} \cup {p \in {Mixed} : passFile # Blank}
    /\ UNCHANGED <<keychain, list, secret, held>>

Search(i) ==
    /\ Goto(i, "search", IF Listed(searchList) THEN "try" ELSE "create")
    /\ UNCHANGED <<passFile, keychain, list, secret, held>>

\* Mutant of TryUnlock: what cannot be unlocked is not made again.
TryUnlockOnce(i) ==
    /\ Goto(i, "try", IF keychain = secret[i] THEN "unlock" ELSE "failed")
    /\ UNCHANGED <<passFile, keychain, list, secret, held>>

\* A keychain on the list that the password does not open is made again.
TryUnlock(i) ==
    /\ Goto(i, "try", IF keychain = secret[i] THEN "unlock" ELSE "delete")
    /\ UNCHANGED <<passFile, keychain, list, secret, held>>

\* Its own failure is ignored.
DeleteKeychain(i) ==
    /\ Goto(i, "delete", "create")
    /\ keychain' = NULL
    /\ SetTo(searchList \ {Mine})
    /\ UNCHANGED <<passFile, secret, held>>

CreateKeychain(i) ==
    /\ \/ /\ keychain = NULL
          /\ Goto(i, "create", "unlock")
          /\ keychain' = secret[i]
       \/ /\ keychain # NULL
          /\ Goto(i, "create", "failed")
          /\ UNCHANGED keychain
    /\ UNCHANGED <<passFile, list, secret, held>>

Unlock(i) ==
    /\ Goto(i, "unlock", IF keychain = secret[i] THEN "settings" ELSE "failed")
    /\ UNCHANGED <<passFile, keychain, list, secret, held>>

SetSettings(i) ==
    /\ Goto(i, "settings", IF keychain # NULL THEN "look" ELSE "failed")
    /\ UNCHANGED <<passFile, keychain, list, secret, held>>

LookAgain(i) ==
    /\ Goto(i, "look", IF Listed(searchList) THEN "ready" ELSE "read")
    /\ UNCHANGED <<passFile, keychain, list, secret, held>>

\* The list goes unquoted into the words of a command: a path with a space in it
\* becomes two words, neither of which is a keychain.
ReadList(i) ==
    /\ Goto(i, "read", "set")
    /\ held' = [held EXCEPT ![i] = searchList \ Spaced]
    /\ UNCHANGED <<passFile, keychain, list, secret>>

\* Mutants of SetList: without the names there were; without the new one.
SetListOfMine(i) ==
    /\ Goto(i, "set", "ready")
    /\ SetTo({Mine})
    /\ UNCHANGED <<passFile, keychain, secret, held>>

SetListOfHeld(i) ==
    /\ Goto(i, "set", "ready")
    /\ SetTo(held[i])
    /\ UNCHANGED <<passFile, keychain, secret, held>>

SetList(i) ==
    /\ Goto(i, "set", "ready")
    /\ SetTo({Mine} \cup held[i])
    /\ UNCHANGED <<passFile, keychain, secret, held>>

-----------------------------------------------------------------------------
(* Beside the runs *)

Kill(i) ==
    /\ Running(i)
    /\ Goto(i, pc[i], "killed")
    /\ UNCHANGED <<passFile, keychain, list, secret, held>>

\* Another tool puts its keychain on the list, or takes it off.
OtherTool(name) ==
    /\ changes < MaxChanges
    /\ changes' = changes + 1
    /\ SetTo(IF name \in searchList THEN searchList \ {name} ELSE searchList \cup {name})
    /\ alone' = [j \in Runs |-> alone[j] /\ ~Running(j)]
    /\ UNCHANGED <<passFile, keychain, pc, secret, held, orphan>>

Next ==
    \/ \E i \in Runs :
          \/ Start(i) \/ ReadPassword(i) \/ TruncatePassword(i) \/ WritePassword(i)
          \/ Search(i) \/ TryUnlock(i) \/ DeleteKeychain(i) \/ CreateKeychain(i)
          \/ Unlock(i) \/ SetSettings(i) \/ LookAgain(i) \/ ReadList(i) \/ SetList(i)
          \/ Kill(i)
    \/ \E name \in Others : OtherTool(name)

Spec == Init /\ [][Next]_vars

-----------------------------------------------------------------------------
(* Properties *)

TypeOK ==
    /\ passFile \in Passwords \cup {NULL}
    /\ keychain \in Passwords \cup {NULL}
    /\ searchList \subseteq Others \cup {Mine}
    /\ pc \in [Runs -> Locations]
    /\ secret \in [Runs -> Passwords \cup {NULL}]
    /\ \A i \in Runs : secret[i] = NULL => pc[i] \in {"idle", "password", "killed"}
    /\ held \in [Runs -> SUBSET (Others \cup {Mine})]
    /\ alone \in [Runs -> BOOLEAN] /\ orphan \in [Runs -> BOOLEAN]
    /\ steady \in [Runs -> SUBSET Others]
    /\ changes \in 0..MaxChanges

\* Whatever earlier runs left when they were killed or got into each other's
\* way, a run that then has the machine to itself and says Ready leaves a
\* keychain that the password on file opens, on the search list; unless a name
\* that contains its name was taken for it.
ReadyIsUsable ==
    [][ \A i \in Runs : pc'[i] = "ready" /\ pc[i] # "ready" /\ alone'[i] =>
            /\ keychain' = secret[i] /\ keychain' = passFile'
            /\ Mine \in searchList' \/ searchList' \cap Alike # {} ]_vars

\* Such a run fails in one case only, and then always: a run killed between
\* creating the keychain and listing it has left one that is neither reused nor
\* made again.
FailsOnOrphanOnly ==
    \A i \in Runs : alone[i] /\ pc[i] \in {"ready", "failed"} => (pc[i] = "failed" <=> orphan[i])

\* What the script says of itself, "Idempotent", "Creates (or reuses)": a run that
\* has the machine to itself does not fail, whatever earlier ones left behind.
CreatesOrReuses == \A i \in Runs : alone[i] => pc[i] # "failed"

\* Whoever else runs, a run takes no keychain off the search list that has been on
\* it ever since the run started, but for those whose paths have a space: what it
\* sets the list to was read before others changed it, but after it started.
OthersStayListed ==
    [][ \A i \in Runs : pc'[i] # pc[i] => steady[i] \ Spaced \subseteq searchList' ]_vars
=============================================================================
