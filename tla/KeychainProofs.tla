---------------------------- MODULE KeychainProofs ----------------------------
(***************************************************************************)
(* What a run of the keychain script that has the machine to itself leaves *)
(* behind, and what any run leaves on the search list, for any number of   *)
(* runs and any keychains of other tools.                                  *)
(***************************************************************************)
EXTENDS BuildKeychain, TLAPS

\* What is known at each place of such a run i.  Early: the password is settled
\* and the keychain not looked for; late: the keychain is there and opens.
Early(i) == pc[i] \in {"password", "truncate", "write", "search"}

Late(i) == pc[i] \in {"unlock", "settings", "look", "read", "set"}

Undisturbed(i) ==
    /\ Early(i) => (orphan[i] <=> keychain # NULL /\ ~Listed(searchList))
    /\ pc[i] \in {"truncate", "write"} => secret[i] = i
    /\ pc[i] = "write" => passFile = Blank
    /\ pc[i] \in {"search", "try", "delete", "create"} \/ Late(i) => passFile = secret[i]
    /\ pc[i] \in {"try", "delete"} \/ Late(i) \/ pc[i] = "ready" => ~orphan[i]
    /\ pc[i] = "create" => (orphan[i] <=> keychain # NULL)
    /\ Late(i) => keychain = secret[i]
    /\ pc[i] = "failed" => orphan[i]

\* What a run read is not less than what has been on the list all along.
KeepsList(i) ==
    /\ steady[i] \subseteq searchList
    /\ pc[i] = "set" => steady[i] \ Spaced \subseteq held[i]

KInv ==
    /\ TypeOK
    /\ \A i \in Runs : KeepsList(i) /\ (alone[i] => Undisturbed(i))

\* The type invariant holds at the start and is kept by every step.
LEMMA TypedInit == Init => TypeOK
  BY KeychainAssumption DEF Init, TypeOK, Locations

\* Every step keeps the types: a run that goes on has a password.
LEMMA TypedStep == TypeOK /\ [Next]_vars => TypeOK'
<1> SUFFICES ASSUME TypeOK, [Next]_vars PROVE TypeOK'
  OBVIOUS
<1> USE KeychainAssumption DEF TypeOK, Locations, Goto, list, SetTo
<1>1. ASSUME NEW i \in Runs,
             \/ Start(i) \/ ReadPassword(i) \/ TruncatePassword(i) \/ WritePassword(i)
             \/ Search(i) \/ TryUnlock(i)
      PROVE  TypeOK'
  <2>1. CASE Start(i)
    BY <2>1 DEF Start
  <2>2. CASE ReadPassword(i)
    <3>1. CASE passFile # NULL /\ Goto(i, "password", "search")
               /\ secret' = [secret EXCEPT ![i] = passFile]
      BY <2>2, <3>1 DEF ReadPassword
    <3>2. CASE Goto(i, "password", "truncate") /\ secret' = [secret EXCEPT ![i] = i]
      <4>1. i \in Passwords /\ i # NULL
        BY NullAssumption DEF Passwords
      <4> QED
        BY <2>2, <3>2, <4>1 DEF ReadPassword
    <3> HIDE DEF Goto, TypeOK
    <3> QED
      BY <2>2, <3>1, <3>2 DEF ReadPassword
  <2>3. CASE TruncatePassword(i)
    BY <2>3 DEF TruncatePassword, Passwords
  <2>4. CASE WritePassword(i)
    BY <2>4 DEF WritePassword, Passwords
  <2>5. CASE Search(i)
    BY <2>5 DEF Search
  <2>6. CASE TryUnlock(i)
    BY <2>6 DEF TryUnlock
  <2> QED
    BY <1>1, <2>1, <2>2, <2>3, <2>4, <2>5, <2>6
<1>2. ASSUME NEW i \in Runs,
             \/ DeleteKeychain(i) \/ CreateKeychain(i) \/ Unlock(i) \/ SetSettings(i)
             \/ LookAgain(i) \/ ReadList(i) \/ SetList(i) \/ Kill(i)
      PROVE  TypeOK'
  <2>1. CASE DeleteKeychain(i)
    BY <2>1 DEF DeleteKeychain
  <2>2. CASE CreateKeychain(i)
    BY <2>2 DEF CreateKeychain
  <2>3. CASE Unlock(i) \/ SetSettings(i) \/ LookAgain(i)
    BY <2>3 DEF Unlock, SetSettings, LookAgain
  <2>4. CASE ReadList(i)
    BY <2>4 DEF ReadList
  <2>5. CASE SetList(i)
    BY <2>5 DEF SetList
  <2>6. CASE Kill(i)
    BY <2>6 DEF Kill, Running
  <2> QED
    BY <1>2, <2>1, <2>2, <2>3, <2>4, <2>5, <2>6
<1>3. ASSUME NEW name \in Others, OtherTool(name) PROVE TypeOK'
  BY <1>3 DEF OtherTool
<1>4. CASE UNCHANGED vars
  BY <1>4 DEF vars
<1> QED
  BY <1>1, <1>2, <1>3, <1>4 DEF Next

\* What is known of a run that nobody disturbs holds when it starts, and after
\* each of its own steps; a step of another ends it.
LEMMA KInvInit == Init => KInv
<1>1. Init => \A i \in Runs : ~alone[i] /\ KeepsList(i)
  BY DEF Init, KeepsList
<1> QED
  BY <1>1, TypedInit DEF KInv

\* A step of another run ends the quiet of every run under way.
LEMMA OthersDisturb ==
    ASSUME TypeOK, NEW j \in Runs, NEW i \in Runs, i # j,
           NEW from, NEW to, Goto(j, from, to), alone'[i]
    PROVE  /\ alone[i] /\ ~Running(i)
           /\ pc'[i] = pc[i] /\ orphan'[i] = orphan[i]
  BY DEF Goto, TypeOK

\* A run that is not under way keeps what it ended with.
LEMMA EndedStays ==
    ASSUME NEW i \in Runs, Undisturbed(i), ~Running(i),
           pc'[i] = pc[i], orphan'[i] = orphan[i]
    PROVE  Undisturbed(i)'
  BY DEF Undisturbed, Running, Early, Late

\* A run that starts alone finds what was left, orphaned or not.
LEMMA StartStep ==
    ASSUME KInv, NEW j \in Runs, Start(j), NEW i \in Runs, alone'[i]
    PROVE  Undisturbed(i)'
<1>1. CASE i = j
  BY <1>1 DEF Start, Undisturbed, Early, Late, KInv, TypeOK
<1>2. CASE i # j
  <2>1. alone[i] /\ ~Running(i) /\ pc'[i] = pc[i] /\ orphan'[i] = orphan[i]
    BY <1>2 DEF Start, KInv, TypeOK
  <2> QED
    BY <2>1, EndedStays DEF KInv
<1> QED
  BY <1>1, <1>2

\* One step of run i itself.
LEMMA OwnStep ==
    ASSUME TypeOK, TypeOK', NEW i \in Runs, alone'[i], alone[i] => Undisturbed(i),
           \/ ReadPassword(i) \/ TruncatePassword(i) \/ WritePassword(i)
           \/ Search(i) \/ TryUnlock(i) \/ DeleteKeychain(i) \/ CreateKeychain(i)
           \/ Unlock(i) \/ SetSettings(i) \/ LookAgain(i) \/ ReadList(i) \/ SetList(i)
           \/ Kill(i)
    PROVE  Undisturbed(i)'
<1>0. ASSUME NEW from, NEW to, Goto(i, from, to)
      PROVE  /\ alone[i] /\ Undisturbed(i)
             /\ pc[i] = from /\ pc'[i] = to /\ orphan'[i] = orphan[i]
  BY <1>0 DEF Goto, TypeOK
<1> USE DEF Undisturbed, Early, Late, list, SetTo
<1>1. CASE ReadPassword(i)
  <2>1. CASE passFile # NULL /\ Goto(i, "password", "search")
             /\ secret' = [secret EXCEPT ![i] = passFile]
    BY <1>0, <1>1, <2>1 DEF ReadPassword, TypeOK
  <2>2. CASE Goto(i, "password", "truncate") /\ secret' = [secret EXCEPT ![i] = i]
    <3>1. secret'[i] = i
      BY <2>2 DEF TypeOK
    <3> QED
      BY <1>0, <1>1, <2>2, <3>1 DEF ReadPassword
  <2> QED
    BY <1>1, <2>1, <2>2 DEF ReadPassword
<1>2. CASE TruncatePassword(i)
  BY <1>0, <1>2 DEF TruncatePassword
<1>3. CASE WritePassword(i)
  BY <1>0, <1>3 DEF WritePassword
<1>4. CASE Search(i)
  <2>1. pc[i] = "search" /\ pc'[i] \in {"try", "create"} /\ Undisturbed(i)
        /\ orphan'[i] = orphan[i] /\ (pc'[i] = "try" <=> Listed(searchList))
    BY <1>0, <1>4 DEF Search
  <2> QED
    BY <1>4, <2>1 DEF Search
<1>5. CASE TryUnlock(i)
  <2>1. pc[i] = "try" /\ pc'[i] \in {"unlock", "delete"} /\ Undisturbed(i)
        /\ orphan'[i] = orphan[i] /\ (pc'[i] = "unlock" <=> keychain = secret[i])
    BY <1>0, <1>5 DEF TryUnlock
  <2> QED
    BY <1>5, <2>1 DEF TryUnlock
<1>6. CASE DeleteKeychain(i)
  BY <1>0, <1>6 DEF DeleteKeychain
<1>7. CASE CreateKeychain(i)
  <2>1. CASE keychain = NULL /\ Goto(i, "create", "unlock") /\ keychain' = secret[i]
    BY <1>0, <1>7, <2>1 DEF CreateKeychain
  <2>2. CASE keychain # NULL /\ Goto(i, "create", "failed") /\ UNCHANGED keychain
    BY <1>0, <1>7, <2>2 DEF CreateKeychain
  <2> QED
    BY <1>7, <2>1, <2>2 DEF CreateKeychain
<1>8. CASE Unlock(i)
  BY <1>0, <1>8 DEF Unlock
<1>9. CASE SetSettings(i)
  <2>1. pc[i] = "settings" /\ Undisturbed(i)
    BY <1>0, <1>9 DEF SetSettings
  <2>2. keychain # NULL
    BY <2>1, <1>9, NullAssumption DEF TypeOK
  <2> QED
    BY <1>0, <1>9, <2>2 DEF SetSettings
<1>10. CASE LookAgain(i)
  <2>1. pc[i] = "look" /\ pc'[i] \in {"ready", "read"} /\ Undisturbed(i) /\ orphan'[i] = orphan[i]
    BY <1>0, <1>10 DEF LookAgain
  <2> QED
    BY <1>10, <2>1 DEF LookAgain
<1>11. CASE ReadList(i)
  BY <1>0, <1>11 DEF ReadList
<1>12. CASE SetList(i)
  BY <1>0, <1>12 DEF SetList
<1>13. CASE Kill(i)
  BY <1>0, <1>13 DEF Kill
<1> QED
  BY <1>1, <1>2, <1>3, <1>4, <1>5, <1>6, <1>7, <1>8, <1>9, <1>10, <1>11, <1>12, <1>13

\* No step lets the list fall below what has been on it all along; what a run
\* reads has all of that but the split paths.
LEMMA KeepsListStep ==
    ASSUME KInv, [Next]_vars, NEW i \in Runs
    PROVE  KeepsList(i)'
<1>0. TypeOK /\ TypeOK' /\ KeepsList(i)
  BY TypedStep DEF KInv
<1> USE DEF KeepsList
<1>1. ASSUME NEW j \in Runs, Start(j) PROVE KeepsList(i)'
  BY <1>0, <1>1, KeychainAssumption DEF Start, TypeOK
<1>2. ASSUME NEW j \in Runs, NEW from, NEW to, Goto(j, from, to), to # "set"
      PROVE  pc'[i] = "set" => pc[i] = "set"
  BY <1>0, <1>2 DEF Goto, TypeOK
<1>3. ASSUME NEW j \in Runs,
             \/ ReadPassword(j) \/ TruncatePassword(j) \/ WritePassword(j)
             \/ Search(j) \/ TryUnlock(j) \/ CreateKeychain(j)
             \/ Unlock(j) \/ SetSettings(j) \/ LookAgain(j) \/ Kill(j)
      PROVE  KeepsList(i)'
  <2>1. UNCHANGED <<searchList, steady, held>>
    BY <1>3 DEF ReadPassword, TruncatePassword, WritePassword, Search, TryUnlock,
                CreateKeychain, Unlock, SetSettings, LookAgain, Kill, list
  <2>2. pc'[i] = "set" => pc[i] = "set"
    <3>1. CASE Kill(j)
      BY <3>1 DEF Kill, Goto
    <3>2. CASE ~Kill(j)
      BY <1>2, <1>3, <3>2 DEF ReadPassword, TruncatePassword, WritePassword, Search, TryUnlock,
                              CreateKeychain, Unlock, SetSettings, LookAgain
    <3> QED
      BY <3>1, <3>2
  <2> QED
    BY <1>0, <2>1, <2>2
<1>4. ASSUME NEW names, SetTo(names), UNCHANGED held, pc'[i] = "set" => pc[i] = "set"
      PROVE  KeepsList(i)'
  BY <1>0, <1>4 DEF SetTo, TypeOK
<1>5. ASSUME NEW j \in Runs, DeleteKeychain(j) \/ SetList(j) PROVE KeepsList(i)'
  <2>1. pc'[i] = "set" => pc[i] = "set"
    BY <1>2, <1>5 DEF DeleteKeychain, SetList
  <2>2. \E names : SetTo(names)
    BY <1>5 DEF DeleteKeychain, SetList
  <2> QED
    BY <1>4, <1>5, <2>1, <2>2 DEF DeleteKeychain, SetList
<1>6. ASSUME NEW j \in Runs, ReadList(j) PROVE KeepsList(i)'
  <2>1. UNCHANGED <<searchList, steady>> /\ held' = [held EXCEPT ![j] = searchList \ Spaced]
    BY <1>6 DEF ReadList, list
  <2>2. CASE i = j
    BY <1>0, <2>1, <2>2 DEF TypeOK
  <2>3. CASE i # j
    <3>1. pc'[i] = pc[i]
      BY <1>0, <1>6, <2>3 DEF ReadList, Goto, TypeOK
    <3> QED
      BY <1>0, <2>1, <2>3, <3>1 DEF TypeOK
  <2> QED
    BY <2>2, <2>3
<1>7. ASSUME NEW name \in Others, OtherTool(name) PROVE KeepsList(i)'
  <2>1. \E names : SetTo(names)
    BY <1>7 DEF OtherTool
  <2> QED
    BY <1>4, <1>7, <2>1 DEF OtherTool
<1>8. CASE UNCHANGED vars
  BY <1>0, <1>8 DEF vars
<1> QED
  BY <1>1, <1>3, <1>5, <1>6, <1>7, <1>8 DEF Next

\* The invariant is inductive: own steps, starts, and steps of others.
LEMMA KInvStep == KInv /\ [Next]_vars => KInv'
<1> SUFFICES ASSUME KInv, [Next]_vars, NEW i \in Runs, alone'[i]
             PROVE  Undisturbed(i)'
  BY TypedStep, KeepsListStep DEF KInv
<1>1. TypeOK /\ TypeOK' /\ (alone[i] => Undisturbed(i))
  BY TypedStep DEF KInv
<1>2. ASSUME NEW j \in Runs, NEW from, NEW to, Goto(j, from, to), i # j
      PROVE  Undisturbed(i)'
  BY <1>1, <1>2, OthersDisturb, EndedStays
<1>3. ASSUME NEW j \in Runs, Start(j) PROVE Undisturbed(i)'
  BY <1>3, StartStep
<1>4. ASSUME NEW j \in Runs,
             \/ ReadPassword(j) \/ TruncatePassword(j) \/ WritePassword(j)
             \/ Search(j) \/ TryUnlock(j) \/ DeleteKeychain(j) \/ CreateKeychain(j)
             \/ Unlock(j) \/ SetSettings(j) \/ LookAgain(j) \/ ReadList(j) \/ SetList(j)
             \/ Kill(j)
      PROVE  Undisturbed(i)'
  <2>1. CASE i = j
    BY <1>1, <1>4, <2>1, OwnStep
  <2>2. CASE i # j
    <3>1. \E from, to : Goto(j, from, to)
      BY <1>4 DEF ReadPassword, TruncatePassword, WritePassword, Search, TryUnlock,
                  DeleteKeychain, CreateKeychain, Unlock, SetSettings, LookAgain, ReadList,
                  SetList, Kill
    <3> QED
      BY <1>2, <2>2, <3>1
  <2> QED
    BY <2>1, <2>2
<1>5. ASSUME NEW name \in Others, OtherTool(name) PROVE Undisturbed(i)'
  <2>1. alone[i] /\ ~Running(i) /\ pc'[i] = pc[i] /\ orphan'[i] = orphan[i]
    BY <1>1, <1>5 DEF OtherTool, TypeOK
  <2> QED
    BY <1>1, <2>1, EndedStays
<1>6. CASE UNCHANGED vars
  BY <1>1, <1>6 DEF vars, Undisturbed, Early, Late, Listed
<1> QED
  BY <1>3, <1>4, <1>5, <1>6 DEF Next

\* So it holds in every state.
LEMMA KInvHolds == Spec => []KInv
<1> QED
  BY KInvInit, KInvStep, PTL DEF Spec

\* The state is well typed: in particular a run past its first steps has a
\* password.
THEOREM KeychainTypeCorrect == Spec => []TypeOK
<1>1. KInv => TypeOK
  BY DEF KInv
<1> QED
  BY <1>1, KInvHolds, PTL

\* A run that has the machine to itself fails if and only if it found a
\* keychain that an earlier one had created and not listed.
THEOREM FailsExactlyOnOrphan == Spec => []FailsOnOrphanOnly
<1>1. KInv => FailsOnOrphanOnly
  BY DEF KInv, FailsOnOrphanOnly, Undisturbed
<1> QED
  BY <1>1, KInvHolds, PTL

\* Such a run says Ready only of a keychain that the password on file opens.  The
\* keychain is on the search list, unless one is whose name contains its name.
THEOREM ReadyKeychainsAreUsable == Spec => ReadyIsUsable
<1> DEFINE Usable ==
      \A i \in Runs : pc'[i] = "ready" /\ pc[i] # "ready" /\ alone'[i] =>
          /\ keychain' = secret[i] /\ keychain' = passFile'
          /\ Mine \in searchList' \/ searchList' \cap Alike # {}
<1>1. KInv /\ [Next]_vars => Usable
  <2> SUFFICES ASSUME KInv, [Next]_vars, NEW i \in Runs,
                      pc'[i] = "ready", pc[i] # "ready", alone'[i]
               PROVE  /\ keychain' = secret[i] /\ keychain' = passFile'
                      /\ Mine \in searchList' \/ searchList' \cap Alike # {}
    OBVIOUS
  <2>1. LookAgain(i) \/ SetList(i)
    <3>1. ASSUME NEW j \in Runs, NEW from, NEW to, Goto(j, from, to)
          PROVE  i = j /\ to = "ready"
      BY <3>1 DEF Goto, KInv, TypeOK
    <3>2. ASSUME NEW j \in Runs,
                 \/ ReadPassword(j) \/ TruncatePassword(j) \/ WritePassword(j)
                 \/ Search(j) \/ TryUnlock(j) \/ DeleteKeychain(j) \/ CreateKeychain(j)
                 \/ Unlock(j) \/ SetSettings(j) \/ ReadList(j) \/ Kill(j)
          PROVE  FALSE
      BY <3>1, <3>2 DEF ReadPassword, TruncatePassword, WritePassword, Search, TryUnlock,
                        DeleteKeychain, CreateKeychain, Unlock, SetSettings, ReadList, Kill
    <3>3. ASSUME NEW j \in Runs, LookAgain(j) \/ SetList(j)
          PROVE  i = j
      BY <3>1, <3>3 DEF LookAgain, SetList
    <3>4. ~\E j \in Runs : Start(j)
      BY DEF Start, KInv, TypeOK
    <3>5. ~\E name \in Others : OtherTool(name)
      BY DEF OtherTool
    <3>6. ~UNCHANGED vars
      BY DEF vars
    <3> QED
      BY <3>2, <3>3, <3>4, <3>5, <3>6 DEF Next
  <2>2. pc[i] \in {"look", "set"} /\ alone[i]
    BY <2>1 DEF LookAgain, SetList, Goto, KInv, TypeOK
  <2>3. keychain = secret[i] /\ passFile = secret[i]
    BY <2>2 DEF KInv, Undisturbed, Late
  <2>4. CASE LookAgain(i)
    <3>1. Listed(searchList) /\ UNCHANGED <<passFile, keychain, searchList>>
      BY <2>4 DEF LookAgain, Goto, KInv, TypeOK, list
    <3> QED
      BY <2>3, <3>1 DEF Listed
  <2>5. CASE SetList(i)
    BY <2>3, <2>5 DEF SetList, SetTo
  <2> QED
    BY <2>1, <2>4, <2>5
<1>2. Spec => [][Usable]_vars
  BY <1>1, KInvHolds, PTL DEF Spec
<1> QED
  BY <1>2, PTL DEF ReadyIsUsable

\* No run, disturbed or not, takes a keychain off the search list that has been on
\* it ever since the run started, unless its path has a space.
THEOREM OthersAlwaysStayListed == Spec => OthersStayListed
<1> DEFINE Kept == \A i \in Runs : pc'[i] # pc[i] => steady[i] \ Spaced \subseteq searchList'
<1>1. KInv /\ [Next]_vars => Kept
  <2> SUFFICES ASSUME KInv, [Next]_vars, NEW i \in Runs, pc'[i] # pc[i]
               PROVE  steady[i] \ Spaced \subseteq searchList'
    OBVIOUS
  <2>1. KeepsList(i) /\ steady[i] \subseteq Others /\ Mine \notin Others
    BY KeychainAssumption DEF KInv, TypeOK
  <2>2. CASE searchList' = searchList
    BY <2>1, <2>2 DEF KeepsList
  <2>3. CASE searchList' # searchList
    <3>1. ~\E name \in Others : OtherTool(name)
      BY DEF OtherTool
    <3>2. PICK j \in Runs : DeleteKeychain(j) \/ SetList(j)
      BY <2>3, <3>1 DEF Next, vars, list, Start, ReadPassword, TruncatePassword, WritePassword,
                        Search, TryUnlock, CreateKeychain, Unlock, SetSettings, LookAgain,
                        ReadList, Kill
    <3>3. i = j
      BY <3>2 DEF DeleteKeychain, SetList, Goto, KInv, TypeOK
    <3>4. CASE DeleteKeychain(j)
      BY <2>1, <3>4 DEF DeleteKeychain, SetTo, KeepsList
    <3>5. CASE SetList(j)
      BY <2>1, <3>3, <3>5 DEF SetList, SetTo, Goto, KeepsList
    <3> QED
      BY <3>2, <3>4, <3>5
  <2> QED
    BY <2>2, <2>3
<1>2. Spec => [][Kept]_vars
  BY <1>1, KInvHolds, PTL DEF Spec
<1> QED
  BY <1>2, PTL DEF OthersStayListed
=============================================================================
