--------------------------- MODULE UpgradeProofs ---------------------------
(***************************************************************************)
(* Theorems about module Upgrade, for every number of files, hunks,        *)
(* versions, edits and upgrades.                                           *)
(***************************************************************************)
EXTENDS Upgrade, GitProofs

-----------------------------------------------------------------------------
(* Types *)

\* What Install writes to the temporary directory is a tree with a marker.
LEMMA RenderedType ==
    ASSUME TypeOK, settings \in Blob, tmp \in TempDirs, NEW v \in Versions
    PROVE  Rendered(v) \in Tree /\ Rendered(v) # EmptyTree
<1> DEFINE t == Relocate(catalog[v], tmp)
           marker == [settings EXCEPT ![VersionHunk] = v]
<1>1. catalog[v] \in Tree
  BY UpgradeAssumption DEF TypeOK
<1>2. t \in Tree
  <2>1. \A f \in Files : catalog[v][f] # Absent => catalog[v][f] \in Blob
    BY <1>1 DEF Tree
  <2>2. \A f \in Files : catalog[v][f] # Absent =>
            [catalog[v][f] EXCEPT ![PathHunk] = tmp] \in Blob
    BY <2>1, UpgradeAssumption DEF Blob
  <2>3. QED
    BY <1>1, <2>2 DEF Relocate, Tree
<1>3. marker \in Blob
  BY UpgradeAssumption DEF Blob
<1> HIDE DEF t, marker
<1>4. Rendered(v) = [t EXCEPT ![Marker] = marker]
  BY DEF Rendered, t, marker
<1>5. Rendered(v) \in Tree
  BY <1>2, <1>3, <1>4 DEF Tree
<1>6. Rendered(v)[Marker] # EmptyTree[Marker]
  BY <1>2, <1>3, <1>4, UpgradeAssumption, TreesAssumption DEF Tree, EmptyTree
<1>7. QED
  BY <1>5, <1>6

\* The local variables of a running upgrade have been assigned.
Assigned ==
    pc # "idle" =>
        /\ settings \in Blob /\ settings[VersionHunk] \in Versions
        /\ target \in Versions /\ tmp \in TempDirs

TypeInv == TypeOK /\ Assigned

LEMMA InitTypeInv == Init => TypeInv
<1> SUFFICES ASSUME Init PROVE TypeInv
  OBVIOUS
<1>1. dir \in Tree
  BY UpgradeAssumption DEF Init
<1>2. repo \in Repository
  BY GitInitType DEF Init
<1>3. /\ edits \in 0..MaxEdits /\ republished \in 0..MaxRepublished
      /\ runs \in 0..MaxRuns
  BY UpgradeAssumption DEF Init
<1>4. inputs \in [base : Tree \cup {NoTree}, mine : Tree \cup {NoTree},
                  theirs : Tree \cup {NoTree}]
  BY DEF Init, NoInputs
<1>5. QED
  BY <1>1, <1>2, <1>3, <1>4
     DEF Init, TypeInv, TypeOK, Assigned, Phases, Outcomes

LEMMA NextTypeInv == TypeInv /\ [Next]_vars => TypeInv'
<1> SUFFICES ASSUME TypeInv, [Next]_vars PROVE TypeInv'
  OBVIOUS
<1> USE DEF TypeInv, TypeOK, Assigned, envVars, upgradeVars, Phases, Outcomes, Swapping
<1>1. ASSUME NEW f \in Editable, UserEdit(f) PROVE TypeInv'
  <2>1. Edits(dir[f]) \subseteq Blob \cup {Absent}
    BY UpgradeAssumption DEF Edits, Tree, Blob
  <2>2. dir' \in Tree
    BY <1>1, <2>1, UpgradeAssumption DEF UserEdit, Tree
  <2>3. edits' \in 0..MaxEdits
    BY <1>1, UpgradeAssumption DEF UserEdit
  <2>4. QED
    BY <1>1, <2>2, <2>3 DEF UserEdit
<1>2. CASE Republish
  BY <1>2, UpgradeAssumption DEF Republish
<1>3. ASSUME NEW choices \in SUBSET Versions, Begin(choices) PROVE TypeInv'
  <2>1. Readable(dir) => /\ dir[Marker] \in Blob
                         /\ dir[Marker][VersionHunk] \in Versions
    BY UpgradeAssumption DEF Readable, Tree
  <2>2. runs' \in 0..MaxRuns
    BY <1>3, UpgradeAssumption DEF Begin
  <2>3. CASE Readable(dir) /\ choices # {}
    BY <1>3, <2>1, <2>2, <2>3 DEF Begin
  <2>4. CASE ~(Readable(dir) /\ choices # {})
    BY <1>3, <2>2, <2>4 DEF Begin
  <2>5. QED
    BY <2>3, <2>4
<1>4. CASE BeginVersion
  BY <1>3, <1>4 DEF BeginVersion
<1>5. CASE BeginLatest
  BY <1>3, <1>5 DEF BeginLatest
<1>6. CASE CheckVersionExists
  BY <1>6 DEF CheckVersionExists
<1>7. ASSUME NEW next \in {"based", "snapshotted", "updated", "merged"},
             NEW r \in Repository, RepoStep(next, r), pc # "idle",
             inputs' \in [base : Tree \cup {NoTree}, mine : Tree \cup {NoTree},
                         theirs : Tree \cup {NoTree}]
      PROVE  TypeInv'
  BY <1>7 DEF RepoStep
<1>8. CASE CreateBase
  <2>1. Rendered(settings[VersionHunk]) \in Tree
    BY <1>8, RenderedType DEF CreateBase
  <2>2. CreateRepoWithContent(Rendered(settings[VersionHunk])) \in Repository
    BY <2>1, CreateRepoType
  <2>3. QED
    BY <1>7, <1>8, <2>1, <2>2 DEF CreateBase
<1>9. CASE CopyUserChanges
  <2>1. CreateBranchWithContentFromMain(repo, UserChanges, dir) \in Repository
    BY CreateBranchFromMainType, UpgradeAssumption
  <2>2. QED
    BY <1>7, <1>9, <2>1 DEF CopyUserChanges
<1>10. CASE InstallUpdate
  <2>1. Rendered(target) \in Tree
    BY <1>10, RenderedType DEF InstallUpdate
  <2>2. CreateBranchWithContentFromMain(repo, UpdateChanges, Rendered(target))
            \in Repository
    BY <2>1, CreateBranchFromMainType, UpgradeAssumption
  <2>3. QED
    BY <1>7, <1>10, <2>1, <2>2 DEF InstallUpdate
<1>11. CASE InstallFails
  BY <1>11 DEF InstallFails
<1>12. CASE MergeUserChanges
  <2>1. MergeBranches(repo, UpdateChanges, UserChanges) \in Repository
    BY MergeBranchesType, UpgradeAssumption
  <2>2. QED
    BY <1>7, <1>12, <2>1 DEF MergeUserChanges
<1>13. ASSUME NEW f \in Files, RemoveInstalledFile(f) PROVE TypeInv'
  <2>1. dir' \in Tree
    BY <1>13 DEF RemoveInstalledFile, Tree
  <2>2. QED
    BY <1>13, <2>1 DEF RemoveInstalledFile
<1>14. CASE RemoveGitDir
  BY <1>14 DEF RemoveGitDir, Present
<1>15. ASSUME NEW f \in Files, CopyBack(f) PROVE TypeInv'
  <2>1. repo.work \in Tree
    BY DEF Repository
  <2>2. dir' \in Tree
    BY <1>15, <2>1 DEF CopyBack, Tree
  <2>3. QED
    BY <1>15, <2>2 DEF CopyBack
<1>16. ASSUME NEW how \in Outcomes, Return(how), torn' \in BOOLEAN PROVE TypeInv'
  BY <1>16, GitInitType DEF Return, NoInputs
<1>17. CASE Finish
  BY <1>16, <1>17 DEF Finish
<1>18. ASSUME NEW how \in {"error", "killed"}, Abort(how) PROVE TypeInv'
  BY <1>16, <1>18 DEF Abort
<1>19. CASE UNCHANGED vars
  BY <1>19 DEF vars
<1>20. QED
  BY <1>1, <1>2, <1>4, <1>5, <1>6, <1>8, <1>9, <1>10, <1>11, <1>12, <1>13, <1>14,
     <1>15, <1>17, <1>18, <1>19 DEF Next, Step

\* Every reachable state of every instance is well typed: no sequence of edits,
\* releases, upgrades, failures and kills takes a variable of the upgrade, the
\* repository it builds included, out of its type.
THEOREM TypeCorrect == Spec => []TypeOK
<1>1. TypeInv => TypeOK
  BY DEF TypeInv
<1>2. QED
  BY <1>1, InitTypeInv, NextTypeInv, PTL DEF Spec

-----------------------------------------------------------------------------
(* The repository computes the merge *)

\* Which of the three trees have been written, by the phase.
InputsByPhase ==
    /\ pc \in {"idle", "resolved", "checked"} => inputs = NoInputs
    /\ pc \in {"based", "snapshotted", "updated", "merged"} \cup Swapping =>
          inputs.base \in Tree /\ inputs.base # EmptyTree
    /\ pc = "based" => inputs.mine = NoTree /\ inputs.theirs = NoTree
    /\ pc = "snapshotted" => inputs.mine \in Tree /\ inputs.theirs = NoTree
    /\ pc \in {"updated", "merged"} \cup Swapping =>
          inputs.mine \in Tree /\ inputs.theirs \in Tree

\* What git left when it reported no error.
MergeReported ==
    pc \in {"merged"} \cup Swapping =>
        /\ repo.conflicts = ContentConflicts(inputs.base, inputs.theirs, inputs.mine)
              \cup ModifyDeletes(inputs.base, inputs.theirs, inputs.mine)
        /\ \/ ContentConflicts(inputs.base, inputs.theirs, inputs.mine) # {}
           \/ ModifyDeletes(inputs.base, inputs.theirs, inputs.mine) = {}

\* Every path not still to be copied is already what it is to be.
CopyProgress ==
    pc = "copying" => \A f \in Files \ todo : dir[f] = repo.work[f]

UpgradeInv ==
    /\ TypeInv /\ InputsByPhase
    /\ RepositoryHoldsInputs /\ MergeCompleteBeforeSwap /\ MergeReported
    /\ CopyProgress

LEMMA InitUpgradeInv == Init => UpgradeInv
<1> SUFFICES ASSUME Init PROVE UpgradeInv
  OBVIOUS
<1>1. TypeInv
  BY InitTypeInv
<1>2. pc = "idle" /\ inputs = NoInputs
  BY DEF Init
<1>3. QED
  BY <1>1, <1>2 DEF UpgradeInv, InputsByPhase, RepositoryHoldsInputs,
     MergeCompleteBeforeSwap, MergeReported, CopyProgress, Swapping

\* The three repository operations, each from what the one before it left.
LEMMA CreateBaseRepository ==
    ASSUME NothingIgnored, UpgradeInv, CreateBase, pc' = "based"
    PROVE  InputsByPhase' /\ RepositoryHoldsInputs'
<1> DEFINE base == Rendered(settings[VersionHunk])
<1>1. base \in Tree /\ base # EmptyTree
  BY RenderedType DEF CreateBase, UpgradeInv, TypeInv, Assigned
<1> HIDE DEF base
<1>2. /\ Clean(repo') /\ repo'.conflicts = {}
      /\ repo'.branch = [b \in Branches |-> IF b = Main THEN base ELSE NoCommit]
  BY <1>1, CreateRepoContent DEF CreateBase, RepoStep, base
<1>3. inputs' = [NoInputs EXCEPT !.base = base]
  BY DEF CreateBase, UpgradeInv, InputsByPhase, base
<1>4. /\ inputs'.base = base /\ inputs'.mine = NoTree /\ inputs'.theirs = NoTree
  BY <1>3 DEF NoInputs
<1>5. InputsByPhase'
  BY <1>1, <1>4 DEF InputsByPhase, Swapping
<1>6. RepositoryHoldsInputs'
  BY <1>2, <1>4, UpgradeAssumption DEF RepositoryHoldsInputs, NoTree
<1>7. QED
  BY <1>5, <1>6

LEMMA CopyUserChangesRepository ==
    ASSUME NothingIgnored, UpgradeInv, CopyUserChanges, pc' = "snapshotted"
    PROVE  InputsByPhase' /\ RepositoryHoldsInputs'
<1>1. /\ repo \in Repository /\ Clean(repo) /\ repo.conflicts = {}
      /\ repo.branch[Main] = inputs.base
      /\ repo.branch[UserChanges] = NoCommit /\ repo.branch[UpdateChanges] = NoCommit
      /\ inputs.base \in Tree /\ inputs.base # EmptyTree
      /\ inputs.mine = NoTree /\ inputs.theirs = NoTree /\ dir \in Tree
      /\ inputs \in [base : Tree \cup {NoTree}, mine : Tree \cup {NoTree},
                     theirs : Tree \cup {NoTree}]
  BY DEF CopyUserChanges, UpgradeInv, TypeInv, TypeOK, InputsByPhase,
         RepositoryHoldsInputs, NoTree
<1>2. inputs.base # NoCommit
  BY <1>1, GitAssumption
<1>3. /\ Clean(repo') /\ repo'.conflicts = {}
      /\ repo'.branch = [repo.branch EXCEPT ![UserChanges] = dir]
  BY <1>1, <1>2, CreateBranchContent, UpgradeAssumption DEF CopyUserChanges, RepoStep
<1>4. /\ inputs'.base = inputs.base /\ inputs'.mine = dir /\ inputs'.theirs = NoTree
  BY <1>1 DEF CopyUserChanges
<1>5. InputsByPhase'
  BY <1>1, <1>4 DEF InputsByPhase, Swapping
<1>6. RepositoryHoldsInputs'
  BY <1>1, <1>3, <1>4, UpgradeAssumption DEF RepositoryHoldsInputs, Repository, NoTree
<1>7. QED
  BY <1>5, <1>6

LEMMA InstallUpdateRepository ==
    ASSUME NothingIgnored, UpgradeInv, InstallUpdate, pc' = "updated"
    PROVE  InputsByPhase' /\ RepositoryHoldsInputs'
<1> DEFINE new == Rendered(target)
<1>1. /\ repo \in Repository /\ Clean(repo) /\ repo.conflicts = {}
      /\ repo.branch[Main] = inputs.base /\ repo.branch[UserChanges] = inputs.mine
      /\ repo.branch[UpdateChanges] = NoCommit
      /\ inputs.base \in Tree /\ inputs.base # EmptyTree /\ inputs.mine \in Tree
      /\ inputs \in [base : Tree \cup {NoTree}, mine : Tree \cup {NoTree},
                     theirs : Tree \cup {NoTree}]
  BY DEF InstallUpdate, UpgradeInv, TypeInv, TypeOK, InputsByPhase,
         RepositoryHoldsInputs, NoTree
<1>2. inputs.base # NoCommit /\ new \in Tree
  BY <1>1, GitAssumption, RenderedType DEF InstallUpdate, UpgradeInv, TypeInv, Assigned
<1>3. /\ Clean(repo') /\ repo'.conflicts = {}
      /\ repo'.branch = [repo.branch EXCEPT ![UpdateChanges] = new]
  BY <1>1, <1>2, CreateBranchContent, UpgradeAssumption DEF InstallUpdate, RepoStep
<1>4. /\ inputs'.base = inputs.base /\ inputs'.mine = inputs.mine /\ inputs'.theirs = new
  BY <1>1 DEF InstallUpdate
<1>5. InputsByPhase'
  BY <1>1, <1>2, <1>4 DEF InputsByPhase, Swapping
<1>6. RepositoryHoldsInputs'
  BY <1>1, <1>3, <1>4, UpgradeAssumption DEF RepositoryHoldsInputs, Repository
<1>7. QED
  BY <1>5, <1>6

LEMMA MergeUserChangesRepository ==
    ASSUME UpgradeInv, MergeUserChanges, pc' = "merged"
    PROVE  InputsByPhase' /\ MergeCompleteBeforeSwap' /\ MergeReported'
<1> DEFINE m == MergeBranches(repo, UpdateChanges, UserChanges)
<1>1. /\ repo \in Repository /\ Clean(repo) /\ repo.conflicts = {}
      /\ repo.branch[Main] = inputs.base /\ repo.branch[UserChanges] = inputs.mine
      /\ repo.branch[UpdateChanges] = inputs.theirs
      /\ inputs.base \in Tree /\ inputs.mine \in Tree /\ inputs.theirs \in Tree
      /\ inputs.base # EmptyTree
  BY DEF MergeUserChanges, UpgradeInv, TypeInv, TypeOK, InputsByPhase,
         RepositoryHoldsInputs
<1>2. repo' = m /\ m.ok /\ inputs' = inputs
  BY DEF MergeUserChanges, RepoStep
<1>3. /\ m.work = MergeTree(inputs.base, inputs.theirs, inputs.mine)
      /\ m.conflicts = ContentConflicts(inputs.base, inputs.theirs, inputs.mine)
            \cup ModifyDeletes(inputs.base, inputs.theirs, inputs.mine)
      /\ \/ ContentConflicts(inputs.base, inputs.theirs, inputs.mine) # {}
         \/ ModifyDeletes(inputs.base, inputs.theirs, inputs.mine) = {}
  <2>1. {repo.branch[Main], repo.branch[UpdateChanges], repo.branch[UserChanges]}
            \subseteq Tree
    BY <1>1
  <2>2. UpdateChanges \in Branches /\ UserChanges \in Branches
    BY UpgradeAssumption
  <2>3. LET n == MergeBranches(repo, UpdateChanges, UserChanges) IN
        /\ n.work = MergeTree(repo.branch[Main], repo.branch[UpdateChanges],
                              repo.branch[UserChanges])
        /\ n.conflicts = ContentConflicts(repo.branch[Main], repo.branch[UpdateChanges],
                                          repo.branch[UserChanges])
              \cup ModifyDeletes(repo.branch[Main], repo.branch[UpdateChanges],
                                 repo.branch[UserChanges])
        /\ \/ ContentConflicts(repo.branch[Main], repo.branch[UpdateChanges],
                               repo.branch[UserChanges]) # {}
           \/ ModifyDeletes(repo.branch[Main], repo.branch[UpdateChanges],
                            repo.branch[UserChanges]) = {}
    BY <1>1, <1>2, <2>1, <2>2, MergeContent
  <2>4. QED
    BY <1>1, <2>3
<1> HIDE DEF m
<1>4. InputsByPhase'
  BY <1>1, <1>2 DEF InputsByPhase, Swapping
<1>5. MergeCompleteBeforeSwap' /\ MergeReported'
  BY <1>2, <1>3 DEF MergeCompleteBeforeSwap, MergeReported
<1>6. QED
  BY <1>4, <1>5

\* The invariant is inductive: the environment does not touch the repository or
\* the inputs, a failed command leaves the phases the invariant speaks of, and
\* while files are removed and copied the work tree stands still.
LEMMA NextUpgradeInv ==
    ASSUME NothingIgnored, UpgradeInv, [Next]_vars
    PROVE  UpgradeInv'
<1>1. TypeInv'
  BY NextTypeInv DEF UpgradeInv
<1> DEFINE Rest == /\ InputsByPhase /\ RepositoryHoldsInputs
                   /\ MergeCompleteBeforeSwap /\ MergeReported /\ CopyProgress
<1> SUFFICES Rest'
  BY <1>1 DEF UpgradeInv
<1> USE DEF UpgradeInv, InputsByPhase, RepositoryHoldsInputs, MergeCompleteBeforeSwap,
            MergeReported, CopyProgress, Swapping, envVars, upgradeVars
<1>2. ASSUME NEW f \in Editable, UserEdit(f) PROVE Rest'
  BY <1>2 DEF UserEdit
<1>3. CASE Republish
  BY <1>3 DEF Republish
<1>4. ASSUME NEW choices \in SUBSET Versions, Begin(choices) PROVE Rest'
  <2>1. pc' \in {"idle", "resolved"} /\ inputs' = inputs /\ pc = "idle"
    BY <1>4 DEF Begin
  <2>2. QED
    BY <2>1
<1>5. CASE BeginVersion
  BY <1>4, <1>5 DEF BeginVersion
<1>6. CASE BeginLatest
  BY <1>4, <1>6 DEF BeginLatest
<1>7. ASSUME pc' = "failed" PROVE Rest'
  BY <1>7
<1>8. CASE CheckVersionExists
  BY <1>8 DEF CheckVersionExists
<1>9. CASE CreateBase
  <2>1. pc' \in {"based", "failed"}
    BY <1>9 DEF CreateBase, RepoStep
  <2>2. QED
    BY <1>7, <1>9, <2>1, CreateBaseRepository
<1>10. CASE CopyUserChanges
  <2>1. pc' \in {"snapshotted", "failed"}
    BY <1>10 DEF CopyUserChanges, RepoStep
  <2>2. QED
    BY <1>7, <1>10, <2>1, CopyUserChangesRepository
<1>11. CASE InstallUpdate
  <2>1. pc' \in {"updated", "failed"}
    BY <1>11 DEF InstallUpdate, RepoStep
  <2>2. QED
    BY <1>7, <1>11, <2>1, InstallUpdateRepository
<1>12. CASE InstallFails
  BY <1>7, <1>12 DEF InstallFails
<1>13. CASE MergeUserChanges
  <2>1. pc' \in {"merged", "failed"}
    BY <1>13 DEF MergeUserChanges, RepoStep
  <2>2. QED
    BY <1>7, <1>13, <2>1, MergeUserChangesRepository
<1>14. ASSUME NEW f \in Files, RemoveInstalledFile(f) PROVE Rest'
  BY <1>14 DEF RemoveInstalledFile
<1>15. CASE RemoveGitDir
  <2>1. CopyProgress'
    BY <1>15 DEF RemoveGitDir, Present, EmptyTree
  <2>2. QED
    BY <1>15, <2>1 DEF RemoveGitDir
<1>16. ASSUME NEW f \in Files, CopyBack(f) PROVE Rest'
  <2>1. CopyProgress'
    BY <1>16 DEF CopyBack, TypeInv, TypeOK, Tree
  <2>2. QED
    BY <1>16, <2>1 DEF CopyBack
<1>17. ASSUME NEW how, Return(how) PROVE Rest'
  BY <1>17 DEF Return
<1>18. CASE Finish
  BY <1>17, <1>18 DEF Finish
<1>19. ASSUME NEW how \in {"error", "killed"}, Abort(how) PROVE Rest'
  BY <1>17, <1>19 DEF Abort
<1>20. CASE UNCHANGED vars
  BY <1>20 DEF vars
<1>21. QED
  BY <1>2, <1>3, <1>5, <1>6, <1>8, <1>9, <1>10, <1>11, <1>12, <1>13, <1>14, <1>15,
     <1>16, <1>18, <1>19, <1>20 DEF Next, Step

\* As long as no ignore rule matches a file of the installation, the temporary
\* directory holds the whole three-way merge before the first file of the
\* installation is removed and until the last one is back.
THEOREM SwapInstallsTheMerge ==
    ASSUME NothingIgnored
    PROVE  Spec => []MergeCompleteBeforeSwap
<1>1. UpgradeInv /\ [Next]_vars => UpgradeInv'
  BY NextUpgradeInv
<1>2. UpgradeInv => MergeCompleteBeforeSwap
  BY DEF UpgradeInv
<1>3. QED
  BY <1>1, <1>2, InitUpgradeInv, PTL DEF Spec

-----------------------------------------------------------------------------
(* What the owner is promised *)

\* A region changed on the side that is merged in is in the result, or between
\* conflict markers there.
LEMMA MergeFileKeepsTheirs ==
    ASSUME NEW b \in Blob \cup {Absent}, NEW o \in Blob \cup {Absent}, NEW t \in Blob,
           NEW h \in Hunks, t[h] # HunkOf(b, h)
    PROVE  /\ MergeFile(b, o, t) # Absent
           /\ MergeFile(b, o, t)[h] \in {t[h], Unresolved}
<1>1. t # Absent /\ t # b
  BY TreesAssumption DEF HunkOf
<1>2. CASE ~BothChanged(b, o, t)
  BY <1>1, <1>2 DEF MergeFile, MergeHunk, BothChanged
<1>3. CASE BothChanged(b, o, t) /\ o = Absent
  BY <1>1, <1>3 DEF MergeFile
<1>4. CASE BothChanged(b, o, t) /\ o # Absent
  <2>1. MergeFile(b, o, t) = [g \in Hunks |-> MergeHunk(HunkOf(b, g), o[g], t[g])]
    BY <1>1, <1>4 DEF MergeFile
  <2>2. MergeFile(b, o, t) \in Blob
    BY <1>4, <2>1 DEF MergeHunk, Blob
  <2>3. MergeHunk(HunkOf(b, h), o[h], t[h]) \in {t[h], Unresolved}
    BY DEF MergeHunk
  <2>4. QED
    BY <2>1, <2>2, <2>3, TreesAssumption
<1>5. QED
  BY <1>2, <1>3, <1>4

LEMMA InstalledIsMerge ==
    ASSUME UpgradeInv, Installed
    PROVE  /\ dir = MergeTree(inputs.base, inputs.theirs, inputs.mine)
           /\ {inputs.base, inputs.mine, inputs.theirs} \subseteq Tree
<1>1. /\ repo.work = MergeTree(inputs.base, inputs.theirs, inputs.mine)
      /\ \A f \in Files : dir[f] = repo.work[f]
      /\ dir \in Tree /\ repo.work \in Tree
      /\ {inputs.base, inputs.mine, inputs.theirs} \subseteq Tree
  BY DEF UpgradeInv, TypeInv, TypeOK, InputsByPhase, MergeCompleteBeforeSwap,
         CopyProgress, Installed, Swapping, Repository
<1>2. dir = repo.work
  BY <1>1 DEF Tree
<1>3. QED
  BY <1>1, <1>2

\* As long as no ignore rule matches a file of the installation, no region its
\* owner has changed is lost by an upgrade that replaces it.
THEOREM OwnerKeepsChanges ==
    ASSUME NothingIgnored
    PROVE  Spec => []UserChangesSurvive
<1>1. UpgradeInv /\ [Next]_vars => UpgradeInv'
  BY NextUpgradeInv
<1>2. UpgradeInv => UserChangesSurvive
  <2> SUFFICES ASSUME UpgradeInv, Installed, NEW f \in Present(inputs.mine), NEW h \in Hunks,
                      inputs.mine[f][h] # HunkOf(inputs.base[f], h)
               PROVE  HunkKept(f, h)
    BY DEF UserChangesSurvive
  <2>1. /\ f \in Files /\ inputs.mine[f] \in Blob
        /\ inputs.base[f] \in Blob \cup {Absent} /\ inputs.theirs[f] \in Blob \cup {Absent}
    BY InstalledIsMerge DEF Present, Tree
  <2>2. dir[f] = MergeFile(inputs.base[f], inputs.theirs[f], inputs.mine[f])
    BY <2>1, InstalledIsMerge DEF MergeTree
  <2>3. QED
    BY <2>1, <2>2, MergeFileKeepsTheirs DEF HunkKept
<1>3. QED
  BY <1>1, <1>2, InitUpgradeInv, PTL DEF Spec

\* Between two repository operations every branch holds exactly the tree that
\* was written for it: no file of a branch built earlier is left in the work
\* tree, and none is missing, as long as no ignore rule matches one.
THEOREM BranchesHoldInputs ==
    ASSUME NothingIgnored
    PROVE  Spec => []RepositoryHoldsInputs
<1>1. UpgradeInv /\ [Next]_vars => UpgradeInv'
  BY NextUpgradeInv
<1>2. UpgradeInv => RepositoryHoldsInputs
  BY DEF UpgradeInv
<1>3. QED
  BY <1>1, <1>2, InitUpgradeInv, PTL DEF Spec

\* A file its owner left alone becomes what the new version has, and a region
\* left alone what the new version's has.
LEMMA MergeFileTakesOurs ==
    ASSUME NEW b \in Blob \cup {Absent}, NEW o \in Blob \cup {Absent},
           NEW t \in Blob \cup {Absent}
    PROVE  /\ t = b => MergeFile(b, o, t) = o
           /\ \A h \in Hunks :
                 (Absent \notin {t, o} /\ t[h] = HunkOf(b, h)) => MergeFile(b, o, t)[h] = o[h]
<1>1. t = b => MergeFile(b, o, t) = o
  BY DEF MergeFile, MergeHunk, BothChanged
<1>2. ASSUME NEW h \in Hunks, Absent \notin {t, o}, t[h] = HunkOf(b, h)
      PROVE  MergeFile(b, o, t)[h] = o[h]
  <2>1. CASE ~BothChanged(b, o, t)
    <3>1. CASE o = t \/ t = b
      BY <2>1, <3>1 DEF MergeFile, MergeHunk
    <3>2. CASE o = b /\ t # b
      BY <1>2, <2>1, <3>2 DEF MergeFile, MergeHunk, HunkOf
    <3>3. QED
      BY <2>1, <3>1, <3>2 DEF BothChanged
  <2>2. CASE BothChanged(b, o, t)
    <3>1. MergeFile(b, o, t) = [g \in Hunks |-> MergeHunk(HunkOf(b, g), o[g], t[g])]
      BY <1>2, <2>2 DEF MergeFile
    <3>2. QED
      BY <1>2, <3>1 DEF MergeHunk
  <2>3. QED
    BY <2>1, <2>2
<1>3. QED
  BY <1>1, <1>2

\* As long as no ignore rule matches a file of the installation, the upgraded
\* installation has all of the new version that its owner had left alone.
THEOREM NewVersionArrives ==
    ASSUME NothingIgnored
    PROVE  Spec => []UpstreamChangesArrive
<1>1. UpgradeInv /\ [Next]_vars => UpgradeInv'
  BY NextUpgradeInv
<1>2. UpgradeInv => UpstreamChangesArrive
  <2> SUFFICES ASSUME UpgradeInv, Installed, NEW f \in Files
               PROVE  /\ inputs.mine[f] = inputs.base[f] => dir[f] = inputs.theirs[f]
                      /\ \A h \in Hunks :
                            (/\ Absent \notin {inputs.mine[f], inputs.theirs[f]}
                             /\ inputs.mine[f][h] = HunkOf(inputs.base[f], h))
                            => dir[f][h] = inputs.theirs[f][h]
    BY DEF UpstreamChangesArrive
  <2>1. /\ inputs.mine[f] \in Blob \cup {Absent}
        /\ inputs.base[f] \in Blob \cup {Absent}
        /\ inputs.theirs[f] \in Blob \cup {Absent}
    BY InstalledIsMerge DEF Tree
  <2>2. dir[f] = MergeFile(inputs.base[f], inputs.theirs[f], inputs.mine[f])
    BY InstalledIsMerge DEF MergeTree
  <2>3. QED
    BY <2>1, <2>2, MergeFileTakesOurs
<1>3. QED
  BY <1>1, <1>2, InitUpgradeInv, PTL DEF Spec

\* Where the merge puts conflict markers that neither side had, it reports the
\* path; and where it reports one, there are such markers or a deletion met a
\* change.
LEMMA MarkersAreConflicts ==
    ASSUME NEW b \in Blob \cup {Absent}, NEW o \in Blob \cup {Absent},
           NEW t \in Blob \cup {Absent}
    PROVE  /\ ContentConflict(b, o, t) =>
                 /\ MergeFile(b, o, t) # Absent
                 /\ \E h \in Hunks : MergeFile(b, o, t)[h] = Unresolved
           /\ \A h \in Hunks :
                 (MergeFile(b, o, t) # Absent /\ MergeFile(b, o, t)[h] = Unresolved) =>
                    \/ ContentConflict(b, o, t) \/ ModifyDelete(b, o, t)
                    \/ o # Absent /\ o[h] = Unresolved
                    \/ t # Absent /\ t[h] = Unresolved
<1> DEFINE both == [g \in Hunks |-> MergeHunk(HunkOf(b, g), o[g], t[g])]
<1>1. ASSUME BothChanged(b, o, t), Absent \notin {o, t}
      PROVE  MergeFile(b, o, t) = both /\ both \in Blob
  <2>1. MergeFile(b, o, t) = both
    BY <1>1 DEF MergeFile
  <2>2. both \in Blob
    BY <1>1 DEF MergeHunk, Blob
  <2>3. QED
    BY <2>1, <2>2
<1>2. ASSUME ContentConflict(b, o, t)
      PROVE  /\ MergeFile(b, o, t) # Absent
             /\ \E h \in Hunks : MergeFile(b, o, t)[h] = Unresolved
  <2>1. BothChanged(b, o, t) /\ Absent \notin {o, t}
    BY <1>2 DEF ContentConflict
  <2>2. PICK h \in Hunks : BothChanged(HunkOf(b, h), o[h], t[h])
    BY <1>2 DEF ContentConflict
  <2>3. both[h] = Unresolved
    BY <2>2 DEF BothChanged, MergeHunk
  <2>4. QED
    BY <1>1, <2>1, <2>3, TreesAssumption
<1>3. ASSUME NEW h \in Hunks, MergeFile(b, o, t) # Absent,
             MergeFile(b, o, t)[h] = Unresolved,
             ~ContentConflict(b, o, t), ~ModifyDelete(b, o, t)
      PROVE  \/ o # Absent /\ o[h] = Unresolved
             \/ t # Absent /\ t[h] = Unresolved
  <2>1. CASE ~BothChanged(b, o, t)
    <3>1. MergeFile(b, o, t) \in {o, t}
      BY <2>1 DEF MergeFile, MergeHunk, BothChanged
    <3>2. QED
      BY <1>3, <3>1
  <2>2. CASE BothChanged(b, o, t)
    <3>1. Absent \notin {o, t}
      BY <1>3, <2>2 DEF ModifyDelete
    <3>2. both[h] = Unresolved /\ ~BothChanged(HunkOf(b, h), o[h], t[h])
      BY <1>1, <1>3, <2>2, <3>1 DEF ContentConflict
    <3>3. o[h] = Unresolved \/ t[h] = Unresolved
      BY <3>2 DEF MergeHunk, BothChanged
    <3>4. QED
      BY <3>1, <3>3
  <2>3. QED
    BY <2>1, <2>2
<1>4. QED
  BY <1>2, <1>3

\* What an upgrade writes of a release without conflict markers has none either: it
\* only starts from a marker file without them.
MarkersInv ==
    /\ pc # "idle" => \A h \in Hunks : settings[h] # Unresolved
    /\ inputs.theirs # NoTree => NoMarkers(inputs.theirs)

LEMMA RenderedUnmarked ==
    ASSUME ReleasesUnmarked, TypeOK, settings \in Blob, tmp \in TempDirs,
           \A h \in Hunks : settings[h] # Unresolved, NEW v \in Versions
    PROVE  NoMarkers(Rendered(v))
<1> DEFINE t == Relocate(catalog[v], tmp)
<1>1. /\ catalog[v] \in Tree /\ NoMarkers(catalog[v])
      /\ Unresolved \notin TempDirs \cup Versions
  BY UpgradeAssumption, TreesAssumption DEF TypeOK, ReleasesUnmarked
<1>2. ASSUME NEW f \in Files, t[f] # Absent, NEW h \in Hunks PROVE t[f][h] # Unresolved
  <2>1. catalog[v][f] \in Blob /\ catalog[v][f][h] # Unresolved
    BY <1>1, <1>2 DEF Relocate, NoMarkers, Present, Tree
  <2>2. QED
    BY <1>1, <2>1, UpgradeAssumption DEF Relocate, Blob
<1>3. t \in [Files -> Blob \cup {Absent}]
  <2>1. \A f \in Files : catalog[v][f] # Absent => catalog[v][f] \in Blob
    BY <1>1 DEF Tree
  <2>2. \A f \in Files : catalog[v][f] # Absent =>
            [catalog[v][f] EXCEPT ![PathHunk] = tmp] \in Blob
    BY <2>1, UpgradeAssumption DEF Blob
  <2>3. QED
    BY <1>1, <2>2 DEF Relocate, Tree
<1> HIDE DEF t
<1>4. Rendered(v) = [t EXCEPT ![Marker] = [settings EXCEPT ![VersionHunk] = v]]
  BY DEF Rendered, t
<1>5. \A h \in Hunks : [settings EXCEPT ![VersionHunk] = v][h] # Unresolved
  BY <1>1 DEF Blob
<1>6. QED
  BY <1>2, <1>3, <1>4, <1>5 DEF NoMarkers, Present

LEMMA NextMarkersInv ==
    ASSUME ReleasesUnmarked, TypeInv, MarkersInv, [Next]_vars
    PROVE  MarkersInv'
<1> USE DEF envVars, upgradeVars
<1>1. ASSUME UNCHANGED <<settings, inputs>>, pc # "idle" \/ pc' = "idle" PROVE MarkersInv'
  BY <1>1 DEF MarkersInv
<1>2. ASSUME NEW f \in Editable, UserEdit(f) PROVE MarkersInv'
  BY <1>2 DEF UserEdit, MarkersInv
<1>3. CASE Republish
  BY <1>3 DEF Republish, MarkersInv
<1>4. ASSUME NEW choices \in SUBSET Versions, Begin(choices) PROVE MarkersInv'
  <2>1. CASE Readable(dir) /\ choices # {}
    BY <1>4, <2>1 DEF Begin, Readable, MarkersInv
  <2>2. CASE ~(Readable(dir) /\ choices # {})
    BY <1>4, <2>2 DEF Begin, MarkersInv
  <2>3. QED
    BY <2>1, <2>2
<1>5. CASE BeginVersion \/ BeginLatest
  BY <1>4, <1>5 DEF BeginVersion, BeginLatest
<1>6. CASE CheckVersionExists \/ InstallFails
  BY <1>1, <1>6 DEF CheckVersionExists, InstallFails
<1>7. CASE CreateBase \/ CopyUserChanges \/ MergeUserChanges
  BY <1>7 DEF CreateBase, CopyUserChanges, MergeUserChanges, RepoStep, MarkersInv,
     TypeInv, TypeOK
<1>8. CASE InstallUpdate
  <2>1. NoMarkers(Rendered(target))
    BY <1>8, RenderedUnmarked DEF InstallUpdate, TypeInv, Assigned, MarkersInv
  <2>2. inputs'.theirs = Rendered(target) /\ settings' = settings /\ pc # "idle"
    BY <1>8 DEF InstallUpdate, RepoStep, TypeInv, TypeOK
  <2>3. QED
    BY <2>1, <2>2 DEF MarkersInv
<1>9. ASSUME NEW f \in Files, RemoveInstalledFile(f) \/ CopyBack(f) PROVE MarkersInv'
  BY <1>1, <1>9 DEF RemoveInstalledFile, CopyBack
<1>10. CASE RemoveGitDir
  BY <1>1, <1>10 DEF RemoveGitDir
<1>11. ASSUME NEW how, Return(how) PROVE MarkersInv'
  BY <1>11 DEF Return, MarkersInv, NoInputs
<1>12. CASE Finish
  BY <1>11, <1>12 DEF Finish
<1>13. ASSUME NEW how \in {"error", "killed"}, Abort(how) PROVE MarkersInv'
  BY <1>11, <1>13 DEF Abort
<1>14. CASE UNCHANGED vars
  BY <1>14 DEF vars, MarkersInv
<1>15. QED
  BY <1>2, <1>3, <1>5, <1>6, <1>7, <1>8, <1>9, <1>10, <1>12, <1>13, <1>14 DEF Next, Step

\* As long as no ignore rule matches a file of the installation and no release
\* has conflict markers in it, the files an upgrade names when it replaced the
\* installation are exactly those the owner has to look at.
THEOREM ConflictsListed ==
    ASSUME NothingIgnored, ReleasesUnmarked
    PROVE  Spec => []ConflictListExact
<1> DEFINE Inv == UpgradeInv /\ MarkersInv
<1>1. Init => Inv
  <2>1. Init => MarkersInv
    BY DEF Init, MarkersInv, NoInputs
  <2>2. QED
    BY <2>1, InitUpgradeInv
<1>2. Inv /\ [Next]_vars => Inv'
  BY NextUpgradeInv, NextMarkersInv DEF UpgradeInv
<1>3. Inv => ConflictListExact
  <2> SUFFICES ASSUME UpgradeInv, MarkersInv, Installed, NEW f \in Files
               PROVE  /\ f \in repo.conflicts => Unresolvable(f) \/ Marked(dir, f) # {}
                      /\ Unresolvable(f) => f \in repo.conflicts
                      /\ \/ Marked(dir, f) \subseteq Marked(inputs.mine, f)
                         \/ f \in repo.conflicts
    BY DEF ConflictListExact
  <2> DEFINE b == inputs.base[f]
             o == inputs.theirs[f]
             t == inputs.mine[f]
  <2>1. /\ b \in Blob \cup {Absent} /\ o \in Blob \cup {Absent}
        /\ t \in Blob \cup {Absent} /\ inputs.theirs \in Tree
    BY InstalledIsMerge DEF Tree
  <2>2. dir[f] = MergeFile(b, o, t)
    BY InstalledIsMerge DEF MergeTree
  <2>3. f \in repo.conflicts <=> ContentConflict(b, o, t) \/ ModifyDelete(b, o, t)
    BY DEF UpgradeInv, MergeReported, Installed, Swapping, ContentConflicts, ModifyDeletes
  <2>4. \A h \in Hunks : o # Absent => o[h] # Unresolved
    BY <2>1, GitAssumption DEF MarkersInv, NoMarkers, Present, NoTree
  <2>5. Unresolvable(f) <=> ModifyDelete(b, o, t)
    BY DEF Unresolvable
  <2> HIDE DEF b, o
  <2>6. ContentConflict(b, o, t) => Marked(dir, f) # {}
    <3>1. ContentConflict(b, o, t) =>
             /\ dir[f] # Absent
             /\ \E h \in Hunks : dir[f][h] = Unresolved
      BY <2>1, <2>2, MarkersAreConflicts
    <3>2. QED
      BY <3>1 DEF Marked
  <2>7. ASSUME NEW h \in Marked(dir, f), f \notin repo.conflicts
        PROVE  h \in Marked(inputs.mine, f)
    <3>1. h \in Hunks /\ dir[f] # Absent /\ dir[f][h] = Unresolved
      BY <2>7 DEF Marked
    <3>2. t # Absent /\ t[h] = Unresolved
      BY <2>1, <2>2, <2>3, <2>4, <2>7, <3>1, MarkersAreConflicts
    <3>3. QED
      BY <3>1, <3>2 DEF Marked
  <2>8. QED
    BY <2>3, <2>5, <2>6, <2>7
<1>4. QED
  BY <1>1, <1>2, <1>3, PTL DEF Spec

\* No manifest of the base has a path in the repository: the base is rendered
\* into the temporary directory, like the version it is merged with.
Moved(t) == \A f \in Present(t) \ {Marker} : t[f][PathHunk] # RepoPath

BaseMoved == inputs.base # NoTree => Moved(inputs.base)

LEMMA RenderedMoved ==
    ASSUME TypeOK, settings \in Blob, tmp \in TempDirs, NEW v \in Versions
    PROVE  Moved(Rendered(v))
<1> DEFINE t == Relocate(catalog[v], tmp)
<1>1. catalog[v] \in Tree /\ tmp # RepoPath /\ PathHunk \in Hunks
  BY UpgradeAssumption DEF TypeOK
<1>2. ASSUME NEW f \in Files, t[f] # Absent PROVE t[f][PathHunk] # RepoPath
  <2>1. catalog[v][f] \in Blob
    BY <1>1, <1>2 DEF Relocate, Tree
  <2>2. [catalog[v][f] EXCEPT ![PathHunk] = tmp][PathHunk] = tmp
    BY <1>1, <2>1 DEF Blob
  <2>3. t[f] = IF catalog[v][f][PathHunk] = RepoPath
               THEN [catalog[v][f] EXCEPT ![PathHunk] = tmp] ELSE catalog[v][f]
    BY <1>2 DEF Relocate
  <2> HIDE DEF t
  <2>4. CASE catalog[v][f][PathHunk] = RepoPath
    BY <1>1, <2>2, <2>3, <2>4
  <2>5. CASE catalog[v][f][PathHunk] # RepoPath
    BY <2>3, <2>5
  <2>6. QED
    BY <2>4, <2>5
<1>3. DOMAIN t = Files
  BY DEF Relocate
<1> HIDE DEF t
<1>4. /\ Rendered(v) = [t EXCEPT ![Marker] = [settings EXCEPT ![VersionHunk] = v]]
      /\ \A f \in Files \ {Marker} : Rendered(v)[f] = t[f]
  BY <1>3 DEF Rendered, t
<1>5. QED
  BY <1>2, <1>4 DEF Moved, Present

LEMMA NextBaseMoved ==
    ASSUME TypeInv, BaseMoved, [Next]_vars
    PROVE  BaseMoved'
<1> USE DEF envVars, upgradeVars
<1>1. ASSUME inputs'.base = inputs.base PROVE BaseMoved'
  BY <1>1 DEF BaseMoved
<1>2. CASE CreateBase
  <2>1. Moved(Rendered(settings[VersionHunk]))
    BY <1>2, RenderedMoved DEF CreateBase, TypeInv, Assigned
  <2>2. inputs'.base = Rendered(settings[VersionHunk])
    BY <1>2 DEF CreateBase, TypeInv, TypeOK
  <2>3. QED
    BY <2>1, <2>2 DEF BaseMoved
<1>3. CASE CopyUserChanges \/ InstallUpdate \/ MergeUserChanges
  BY <1>1, <1>3 DEF CopyUserChanges, InstallUpdate, MergeUserChanges, TypeInv, TypeOK
<1>4. CASE CheckVersionExists \/ InstallFails \/ RemoveGitDir
  BY <1>1, <1>4 DEF CheckVersionExists, InstallFails, RemoveGitDir
<1>5. ASSUME NEW f \in Files, RemoveInstalledFile(f) \/ CopyBack(f) PROVE BaseMoved'
  BY <1>1, <1>5 DEF RemoveInstalledFile, CopyBack
<1>6. ASSUME NEW how, Return(how) PROVE BaseMoved'
  BY <1>6 DEF Return, BaseMoved, NoInputs
<1>7. CASE Finish \/ \E how \in {"error", "killed"} : Abort(how)
  BY <1>6, <1>7 DEF Finish, Abort
<1>8. ASSUME NEW f \in Editable, UserEdit(f) PROVE BaseMoved'
  BY <1>1, <1>8 DEF UserEdit
<1>9. CASE Republish \/ BeginVersion \/ BeginLatest \/ UNCHANGED vars
  BY <1>1, <1>9 DEF Republish, BeginVersion, BeginLatest, Begin, vars
<1>10. QED
  BY <1>2, <1>3, <1>4, <1>5, <1>7, <1>8, <1>9 DEF Next, Step

\* As long as no ignore rule matches a file of the installation, a manifest that
\* flux reads from the repository is not pointed at a temporary directory.
THEOREM PathsKept ==
    ASSUME NothingIgnored
    PROVE  Spec => []PathsStayInRepository
<1> DEFINE Inv == UpgradeInv /\ BaseMoved
<1>1. Init => Inv
  BY InitUpgradeInv DEF Init, BaseMoved, NoInputs
<1>2. Inv /\ [Next]_vars => Inv'
  BY NextUpgradeInv, NextBaseMoved DEF UpgradeInv
<1>3. Inv => PathsStayInRepository
  <2> SUFFICES ASSUME UpgradeInv, BaseMoved, Installed,
                      NEW f \in Present(inputs.mine) \ {Marker},
                      inputs.mine[f][PathHunk] = RepoPath, dir[f] # Absent
               PROVE  dir[f][PathHunk] \notin TempDirs
    BY DEF PathsStayInRepository
  <2> DEFINE b == inputs.base[f]
             o == inputs.theirs[f]
             t == inputs.mine[f]
  <2>1. /\ f \in Files /\ t \in Blob /\ t[PathHunk] = RepoPath
        /\ b \in Blob \cup {Absent} /\ o \in Blob \cup {Absent}
    BY InstalledIsMerge DEF Present, Tree
  <2>2. dir[f] = MergeFile(b, o, t)
    BY <2>1, InstalledIsMerge DEF MergeTree
  <2>3. HunkOf(b, PathHunk) # RepoPath
    <3>1. inputs.base # NoTree
      BY InstalledIsMerge, GitAssumption DEF NoTree
    <3>2. b # Absent => b[PathHunk] # RepoPath
      BY <2>1, <3>1 DEF BaseMoved, Moved, Present
    <3>3. QED
      BY <3>2, UpgradeAssumption, TreesAssumption DEF HunkOf
  <2>4. dir[f][PathHunk] \in {RepoPath, Unresolved}
    <3>1. PathHunk \in Hunks /\ t[PathHunk] # HunkOf(b, PathHunk)
      BY <2>1, <2>3, UpgradeAssumption
    <3> HIDE DEF b, o, t
    <3>2. MergeFile(b, o, t)[PathHunk] \in {t[PathHunk], Unresolved}
      BY <2>1, <3>1, MergeFileKeepsTheirs
    <3>3. QED
      BY <2>1, <2>2, <3>2
  <2>5. QED
    BY <2>4, UpgradeAssumption, TreesAssumption
<1>4. QED
  BY <1>1, <1>2, <1>3, PTL DEF Spec

\* The instance has the operators of module Trees under names of its own.
LEMMA PromiseTrees ==
    /\ Promise!Tree = Tree
    /\ \A b, o, t :
          /\ Promise!MergeTree(b, o, t) = MergeTree(b, o, t)
          /\ Promise!ContentConflicts(b, o, t) = ContentConflicts(b, o, t)
          /\ Promise!ModifyDeletes(b, o, t) = ModifyDeletes(b, o, t)
<1> USE DEF Promise!BothChanged, BothChanged, Promise!HunkOf, HunkOf
<1>1. Promise!Tree = Tree
  BY DEF Promise!Tree, Promise!Blob, Tree, Blob
<1>2. ASSUME NEW b, NEW o, NEW t
      PROVE  /\ Promise!MergeFile(b, o, t) = MergeFile(b, o, t)
             /\ Promise!ContentConflict(b, o, t) = ContentConflict(b, o, t)
             /\ Promise!ModifyDelete(b, o, t) = ModifyDelete(b, o, t)
  BY DEF Promise!MergeFile, MergeFile, Promise!MergeHunk, MergeHunk,
         Promise!ContentConflict, ContentConflict, Promise!ModifyDelete, ModifyDelete
<1>3. ASSUME NEW b, NEW o, NEW t
      PROVE  Promise!MergeTree(b, o, t) = MergeTree(b, o, t)
  BY <1>2 DEF Promise!MergeTree, MergeTree
<1>4. ASSUME NEW b, NEW o, NEW t
      PROVE  /\ Promise!ContentConflicts(b, o, t) = ContentConflicts(b, o, t)
             /\ Promise!ModifyDeletes(b, o, t) = ModifyDeletes(b, o, t)
  BY <1>2 DEF Promise!ContentConflicts, ContentConflicts, Promise!ModifyDeletes,
              ModifyDeletes
<1>5. QED
  BY <1>1, <1>3, <1>4

LEMMA StageOfPhase ==
    ASSUME pc \in Phases
    PROVE  /\ pc = "idle" => Stage = "idle"
           /\ pc \in Swapping => Stage = "replacing"
           /\ pc \notin {"idle"} \cup Swapping => Stage = "preparing"
  BY DEF Stage, Swapping, Phases

LEMMA InitPromise == Init => Promise!Init
<1> SUFFICES ASSUME Init PROVE Promise!Init
  OBVIOUS
<1>1. TypeInv
  BY InitTypeInv
<1>2. QED
  BY <1>1, StageOfPhase, PromiseTrees DEF Init, Promise!Init, TypeInv, TypeOK, NoInputs

\* Every step of an upgrade is a step of the promise, or changes nothing it
\* speaks of.
LEMMA NextPromise ==
    ASSUME UpgradeInv, UpgradeInv', [Next]_vars
    PROVE  [Promise!Next]_(Promise!vars)
<1> DEFINE Goal == Promise!Next \/ UNCHANGED Promise!vars
<1> SUFFICES Goal
  OBVIOUS
<1> USE DEF Promise!vars, envVars, upgradeVars
<1>0. /\ dir \in Tree /\ dir' \in Tree /\ pc \in Phases /\ pc' \in Phases
      /\ inputs \in [base : Tree \cup {NoTree}, mine : Tree \cup {NoTree},
                     theirs : Tree \cup {NoTree}]
      /\ NoTree \notin Tree
  BY GitAssumption DEF UpgradeInv, TypeInv, TypeOK, NoTree
<1>1. /\ pc = "idle" => Stage = "idle"
      /\ pc \in Swapping => Stage = "replacing"
      /\ pc \notin {"idle"} \cup Swapping => Stage = "preparing"
      /\ pc' = "idle" => Stage' = "idle"
      /\ pc' \in Swapping => Stage' = "replacing"
      /\ pc' \notin {"idle"} \cup Swapping => Stage' = "preparing"
  BY <1>0 DEF Stage, Swapping, Phases
<1>2. ASSUME NEW f \in Editable, UserEdit(f) PROVE Goal
  <2>1. Promise!OwnerEdits
    BY <1>0, <1>1, <1>2, PromiseTrees DEF UserEdit, Promise!OwnerEdits, Swapping, Stage
  <2>2. QED
    BY <2>1 DEF Promise!Next
<1>3. CASE Republish
  BY <1>3 DEF Republish, Stage
<1>4. ASSUME NEW choices, Begin(choices) PROVE Goal
  <2>1. Promise!Begin
    BY <1>1, <1>4 DEF Begin, Promise!Begin, Swapping
  <2>2. QED
    BY <2>1 DEF Promise!Next
<1>5. ASSUME pc \notin {"idle"} \cup Swapping, pc' \notin {"idle"} \cup Swapping,
             UNCHANGED <<dir, inputs, outcome>>
      PROVE  Goal
  BY <1>1, <1>5
<1>6. CASE CheckVersionExists \/ InstallFails
  BY <1>5, <1>6 DEF CheckVersionExists, InstallFails, Swapping
<1>7. ASSUME NEW next \in {"based", "snapshotted", "updated", "merged"}, NEW r,
             RepoStep(next, r), pc \in {"checked", "based", "snapshotted", "updated"}
      PROVE  /\ Stage = "preparing" /\ Stage' = "preparing"
             /\ UNCHANGED <<dir, outcome>>
             /\ pc \notin {"idle"} \cup Swapping /\ pc' \notin {"idle"} \cup Swapping
  BY <1>1, <1>7 DEF RepoStep, Swapping
<1>8. CASE CreateBase
  <2>1. /\ inputs.base = NoTree /\ inputs'.base = Rendered(settings[VersionHunk])
        /\ inputs'.mine = inputs.mine /\ inputs'.theirs = inputs.theirs
    BY <1>0, <1>8 DEF CreateBase, UpgradeInv, InputsByPhase, NoInputs
  <2>2. Rendered(settings[VersionHunk]) \in Tree
    BY <1>8, RenderedType DEF CreateBase, UpgradeInv, TypeInv, Assigned
  <2>3. Promise!FetchBase
    BY <1>7, <1>8, <2>1, <2>2, PromiseTrees DEF CreateBase, Promise!FetchBase
  <2>4. QED
    BY <2>3 DEF Promise!Next
<1>9. CASE CopyUserChanges
  <2>1. /\ inputs.base # NoTree /\ inputs.mine = NoTree /\ inputs'.mine = dir
        /\ inputs'.base = inputs.base /\ inputs'.theirs = inputs.theirs
    BY <1>0, <1>9 DEF CopyUserChanges, UpgradeInv, InputsByPhase
  <2>2. Promise!Snapshot
    BY <1>7, <1>9, <2>1 DEF CopyUserChanges, Promise!Snapshot
  <2>3. QED
    BY <2>2 DEF Promise!Next
<1>10. CASE InstallUpdate
  <2>1. /\ inputs.mine # NoTree /\ inputs.theirs = NoTree
        /\ inputs'.theirs = Rendered(target)
        /\ inputs'.base = inputs.base /\ inputs'.mine = inputs.mine
    BY <1>0, <1>10 DEF InstallUpdate, UpgradeInv, InputsByPhase
  <2>2. Rendered(target) \in Tree
    BY <1>10, RenderedType DEF InstallUpdate, UpgradeInv, TypeInv, Assigned
  <2>3. Promise!FetchNew
    BY <1>7, <1>10, <2>1, <2>2, PromiseTrees DEF InstallUpdate, Promise!FetchNew
  <2>4. QED
    BY <2>3 DEF Promise!Next
<1>11. CASE MergeUserChanges
  BY <1>5, <1>7, <1>11 DEF MergeUserChanges
<1>12. ASSUME pc \in {"merged"} \cup Swapping, pc' \in Swapping,
              UNCHANGED <<inputs, outcome>>,
              \A f \in Files : dir'[f] \in {dir[f], Absent, Promise!Merged[f]}
       PROVE  Goal
  <2>1. inputs.theirs # NoTree /\ Promise!Usable
    BY <1>0, <1>12, PromiseTrees DEF UpgradeInv, InputsByPhase, MergeReported, Promise!Usable
  <2>2. Promise!ReplaceFiles
    BY <1>0, <1>1, <1>12, <2>1, PromiseTrees DEF Promise!ReplaceFiles, Swapping
  <2>3. QED
    BY <2>2 DEF Promise!Next
<1>13. ASSUME NEW f \in Files, RemoveInstalledFile(f) PROVE Goal
  <2>1. \A g \in Files : dir'[g] \in {dir[g], Absent}
    BY <1>0, <1>13 DEF RemoveInstalledFile, Tree
  <2>2. QED
    BY <1>12, <1>13, <2>1 DEF RemoveInstalledFile, Swapping
<1>14. CASE RemoveGitDir
  BY <1>12, <1>14 DEF RemoveGitDir, Swapping
<1>15. ASSUME NEW f \in Files, CopyBack(f) PROVE Goal
  <2>1. repo.work = Promise!Merged
    BY <1>15, PromiseTrees DEF CopyBack, UpgradeInv, MergeCompleteBeforeSwap, Promise!Merged, Swapping
  <2>2. \A g \in Files : dir'[g] \in {dir[g], Promise!Merged[g]}
    BY <1>0, <1>15, <2>1 DEF CopyBack, Tree
  <2>3. QED
    BY <1>12, <1>15, <2>2 DEF CopyBack, Swapping
<1>16. ASSUME NEW how, Return(how)
       PROVE  Stage' = "idle" /\ Promise!Return(how)
  BY <1>1, <1>16 DEF Return, NoInputs, Promise!Return
<1>17. CASE Finish
  <2>1. Stage = "replacing" /\ dir = Promise!Merged
    BY <1>1, <1>17, InstalledIsMerge, PromiseTrees DEF Finish, Installed, Swapping, Promise!Merged
  <2>2. repo.conflicts = {} <=>
            ContentConflicts(inputs.base, inputs.theirs, inputs.mine) = {}
    BY <1>17 DEF Finish, UpgradeInv, MergeReported, Swapping
  <2>3. Promise!Complete
    BY <1>16, <1>17, <2>1, <2>2, PromiseTrees DEF Finish, Promise!Complete
  <2>4. QED
    BY <2>3 DEF Promise!Next
<1>18. ASSUME NEW how \in {"error", "killed"}, Abort(how) PROVE Goal
  <2>1. Stage # "idle"
    BY <1>1, <1>18 DEF Abort
  <2>2. Promise!Stop
    BY <1>16, <1>18, <2>1 DEF Abort, Promise!Stop
  <2>3. QED
    BY <2>2 DEF Promise!Next
<1>19. CASE UNCHANGED vars
  BY <1>19 DEF vars, Stage
<1>20. QED
  BY <1>2, <1>3, <1>4, <1>6, <1>8, <1>9, <1>10, <1>11, <1>13, <1>14, <1>15, <1>17,
     <1>18, <1>19 DEF Next, Step, BeginVersion, BeginLatest

\* As long as no ignore rule matches a file of the installation, an upgrade,
\* with its temporary repository, failures and kills, implements module
\* Installation: the directory is the owner's until the merge is complete, and
\* what replaces it is the merge.
THEOREM UpgradeKeepsPromise ==
    ASSUME NothingIgnored
    PROVE  Spec => KeepsPromise
<1>1. UpgradeInv /\ [Next]_vars => UpgradeInv'
  BY NextUpgradeInv
<1>2. UpgradeInv /\ UpgradeInv' /\ [Next]_vars => [Promise!Next]_(Promise!vars)
  BY NextPromise
<1>3. QED
  BY <1>1, <1>2, InitUpgradeInv, InitPromise, PTL DEF Spec, KeepsPromise, Promise!Spec
-----------------------------------------------------------------------------
(* An installation nobody edited *)

\* What PristineTracksCatalog says of one tree.
Pristine(t) == Readable(t) /\ PathsAside(t) = catalog[VersionOf(t)]

\* The three trees of an upgrade that nothing interferes with are two releases and
\* an installation of the first, none of them with the path the releases get.
Tracks ==
    (edits = 0 /\ republished = 0 /\ ~torn) =>
        /\ pc \notin Swapping => Pristine(dir)
        /\ pc \notin {"idle"} \cup Swapping =>
              dir[Marker] = settings /\ tmp \notin TextsOf(dir)
        /\ inputs.base # NoTree =>
              /\ inputs.base = Rendered(settings[VersionHunk])
              /\ Published(settings[VersionHunk])
        /\ inputs.mine # NoTree =>
              /\ Pristine(inputs.mine)
              /\ inputs.mine[Marker] = settings /\ tmp \notin TextsOf(inputs.mine)
        /\ inputs.theirs # NoTree => inputs.theirs = Rendered(target) /\ Published(target)

\* One file, where a release puts it and with the paths taken back.
Placed(c, d) ==
    IF c # Absent /\ c[PathHunk] = RepoPath THEN [c EXCEPT ![PathHunk] = d] ELSE c

Aside(c) ==
    IF c # Absent /\ c[PathHunk] \in TempDirs THEN [c EXCEPT ![PathHunk] = RepoPath] ELSE c

LEMMA AsideType ==
    ASSUME NEW c \in Blob \cup {Absent}
    PROVE  /\ Aside(c) \in Blob \cup {Absent}
           /\ Aside(c) = Absent <=> c = Absent
BY UpgradeAssumption, TreesAssumption DEF Aside, Blob

LEMMA PathsAsideIs ==
    ASSUME NEW t \in Tree
    PROVE  PathsAside(t) = [f \in Files |-> Aside(t[f])]
<1> DEFINE s == [f \in Files |-> Aside(t[f])]
<1>1. PathsAside(t) = Relocate(s, RepoPath)
  BY DEF PathsAside, Aside
<1>2. ASSUME NEW f \in Files, s[f] # Absent, s[f][PathHunk] = RepoPath
      PROVE  [s[f] EXCEPT ![PathHunk] = RepoPath] = s[f]
  <2>1. s[f] \in Blob
    BY <1>2, AsideType DEF Tree
  <2>2. QED
    BY <1>2, <2>1 DEF Blob
<1>3. Relocate(s, RepoPath) = s
  BY <1>2 DEF Relocate
<1>4. QED
  BY <1>1, <1>3

\* What is put in the temporary directory and taken back is as it was.
LEMMA AsideOfPlaced ==
    ASSUME NEW c \in Blob \cup {Absent}, NEW d \in TempDirs,
           c # Absent => c[PathHunk] \notin TempDirs
    PROVE  Aside(Placed(c, d)) = c
<1>1. CASE c # Absent /\ c[PathHunk] = RepoPath
  <2>1. c \in Blob /\ Placed(c, d) = [c EXCEPT ![PathHunk] = d]
    BY <1>1 DEF Placed
  <2>2. /\ Placed(c, d) \in Blob /\ Placed(c, d)[PathHunk] = d
        /\ [Placed(c, d) EXCEPT ![PathHunk] = RepoPath] = c
    BY <1>1, <2>1, UpgradeAssumption DEF Blob
  <2>3. QED
    BY <2>2, TreesAssumption DEF Aside
<1>2. CASE ~(c # Absent /\ c[PathHunk] = RepoPath)
  BY <1>2 DEF Placed, Aside
<1>3. QED
  BY <1>1, <1>2

\* One file of an upgrade: c in the current release, n in the new one, t in the
\* installation, which has the path it was added with or that of an earlier
\* upgrade.  Nobody changed it but for the path, so that nothing is in conflict
\* but the path of a file that the new release drops.
LEMMA MergeOfPristine ==
    ASSUME NEW c \in Blob \cup {Absent}, NEW n \in Blob \cup {Absent},
           NEW t \in Blob \cup {Absent}, NEW d \in TempDirs,
           Aside(t) = c, t # Absent => t[PathHunk] # d,
           c # Absent => c[PathHunk] \notin TempDirs,
           n # Absent => n[PathHunk] \notin TempDirs,
           Absent \notin {c, n} => (c[PathHunk] = RepoPath <=> n[PathHunk] = RepoPath)
    PROVE  LET b == Placed(c, d)  o == Placed(n, d) IN
           /\ ~ContentConflict(b, o, t)
           /\ ~ModifyDelete(b, o, t) => Aside(MergeFile(b, o, t)) = n
<1> DEFINE b == Placed(c, d)
           o == Placed(n, d)
           m == MergeFile(b, o, t)
<1>0. PathHunk \in Hunks /\ Absent \notin Blob
  BY UpgradeAssumption, TreesAssumption
<1>1. CASE t = b
  <2>1. m = o /\ ~ContentConflict(b, o, t)
    BY <1>1 DEF MergeFile, MergeHunk, BothChanged, ContentConflict
  <2>2. QED
    BY <2>1, AsideOfPlaced
<1>2. CASE t # b
  <2>1. t \in Blob /\ c \in Blob /\ c[PathHunk] = RepoPath
    <3>1. t = Absent => c = Absent /\ b = Absent
      BY DEF Aside, Placed
    <3>2. t \in Blob /\ c \in Blob
      BY <1>2, <3>1, AsideType
    <3>3. ASSUME c[PathHunk] # RepoPath PROVE FALSE
      <4>1. b = c
        BY <3>3 DEF Placed
      <4>2. t[PathHunk] \notin TempDirs
        BY <1>0, <3>2, <3>3 DEF Aside, Blob
      <4>3. QED
        BY <1>2, <4>1, <4>2 DEF Aside
    <3>4. QED
      BY <3>2, <3>3
  <2>2. /\ b = [c EXCEPT ![PathHunk] = d] /\ b \in Blob /\ b[PathHunk] = d
        /\ \A h \in Hunks \ {PathHunk} : b[h] = c[h]
    <3>1. b = [c EXCEPT ![PathHunk] = d]
      BY <1>0, <2>1 DEF Placed
    <3> HIDE DEF b
    <3>2. QED
      BY <1>0, <2>1, <3>1, UpgradeAssumption DEF Blob
  <2>3. /\ t[PathHunk] \in {RepoPath} \cup TempDirs
        /\ \A h \in Hunks \ {PathHunk} : t[h] = c[h]
    BY <1>0, <2>1 DEF Aside, Blob
  <2>4. CASE n = Absent
    <3>1. o = Absent /\ b # Absent
      BY <1>0, <2>2, <2>4 DEF Placed
    <3> HIDE DEF b, o
    <3>2. ModifyDelete(b, o, t) /\ ~ContentConflict(b, o, t)
      BY <1>0, <1>2, <2>1, <3>1 DEF ModifyDelete, BothChanged, ContentConflict
    <3>3. QED
      BY <3>2 DEF b, o
  <2>5. CASE n # Absent
    <3>1. n \in Blob /\ n[PathHunk] = RepoPath
      BY <1>0, <2>1, <2>5
    <3>2. /\ o = [n EXCEPT ![PathHunk] = d] /\ o \in Blob /\ o[PathHunk] = d
          /\ \A h \in Hunks \ {PathHunk} : o[h] = n[h]
      <4>1. o = [n EXCEPT ![PathHunk] = d]
        BY <1>0, <3>1 DEF Placed
      <4> HIDE DEF o
      <4>2. QED
        BY <1>0, <3>1, <4>1, UpgradeAssumption DEF Blob
    <3> HIDE DEF b, o
    <3>3. t[PathHunk] # d /\ t # Absent /\ b # Absent /\ o # Absent /\ o # t
      BY <1>0, <2>1, <2>2, <3>2
    <3>4. ~ContentConflict(b, o, t)
      BY <2>2, <2>3, <3>2, <3>3 DEF ContentConflict, BothChanged, HunkOf
    <3>5. CASE o = b
      <4>1. m = t
        BY <1>2, <3>3, <3>5 DEF MergeFile, MergeHunk, BothChanged
      <4>2. n = c
        BY <2>1, <2>2, <3>1, <3>2, <3>5 DEF Blob
      <4>3. QED
        BY <3>4, <4>1, <4>2 DEF b, o
    <3>6. CASE o # b
      <4>1. m = [h \in Hunks |-> MergeHunk(b[h], o[h], t[h])]
        BY <1>2, <3>3, <3>6 DEF MergeFile, BothChanged, HunkOf
      <4>2. \A h \in Hunks \ {PathHunk} : MergeHunk(b[h], o[h], t[h]) = n[h]
        BY <2>2, <2>3, <3>2 DEF MergeHunk
      <4>3. MergeHunk(b[PathHunk], o[PathHunk], t[PathHunk]) = t[PathHunk]
        BY <2>2, <3>2, <3>3 DEF MergeHunk
      <4>4. m = [h \in Hunks |-> IF h = PathHunk THEN t[PathHunk] ELSE n[h]]
        BY <4>1, <4>2, <4>3
      <4> HIDE DEF m
      <4>5. Aside(m) = n
        <5>1. m # Absent /\ m[PathHunk] = t[PathHunk]
          <6>1. m \in Blob
            BY <2>1, <3>1, <4>4 DEF Blob
          <6>2. QED
            BY <1>0, <4>4, <6>1
        <5>2. [m EXCEPT ![PathHunk] = RepoPath] = n
          BY <1>0, <3>1, <4>4 DEF Blob
        <5>3. CASE t[PathHunk] \in TempDirs
          BY <5>1, <5>2, <5>3 DEF Aside
        <5>4. CASE t[PathHunk] = RepoPath
          <6>1. m = n
            BY <1>0, <3>1, <4>4, <5>4 DEF Blob
          <6>2. QED
            BY <5>1, <5>4, <6>1, UpgradeAssumption DEF Aside
        <5>5. QED
          BY <2>3, <5>3, <5>4
      <4>6. QED
        BY <3>4, <4>5 DEF b, o, m
    <3>7. QED
      BY <3>5, <3>6
  <2>6. QED
    BY <2>4, <2>5
<1>3. QED
  BY <1>1, <1>2

\* What is written of a release, file by file.
LEMMA RenderedFiles ==
    ASSUME TypeOK, settings \in Blob, NEW v \in Versions
    PROVE  /\ Rendered(v)[Marker] = [settings EXCEPT ![VersionHunk] = v]
           /\ \A f \in Files \ {Marker} : Rendered(v)[f] = Placed(catalog[v][f], tmp)
<1> DEFINE t == Relocate(catalog[v], tmp)
<1>1. t = [f \in Files |-> Placed(catalog[v][f], tmp)]
  BY DEF Relocate, Placed
<1> HIDE DEF t
<1>2. Rendered(v) = [t EXCEPT ![Marker] = [settings EXCEPT ![VersionHunk] = v]]
  BY DEF Rendered, t
<1>3. QED
  BY <1>1, <1>2, UpgradeAssumption

LEMMA ReleaseFacts ==
    ASSUME ReleasesAlike, TypeOK, NEW v \in Versions, Published(v)
    PROVE  /\ catalog[v] \in Tree /\ catalog[v][Marker] \in Blob
           /\ catalog[v][Marker][VersionHunk] = v
           /\ \A f \in Files : catalog[v][f] # Absent => catalog[v][f][PathHunk] \notin TempDirs
           /\ \A w \in Versions : Published(w) => Alike(catalog, v, w)
<1>1. catalog \in Catalogs /\ catalog[v] \in Tree /\ catalog[v] # EmptyTree
  BY UpgradeAssumption DEF TypeOK, Published
<1>2. catalog[v][Marker] \in Blob
  BY <1>1, UpgradeAssumption DEF Tree
<1>3. TextsOf(catalog[v]) \cap TempDirs = {} /\ catalog[v][Marker][VersionHunk] = v
  BY <1>1 DEF ReleasesAlike
<1>4. ASSUME NEW f \in Files, catalog[v][f] # Absent
      PROVE  catalog[v][f][PathHunk] \notin TempDirs
  <2>1. catalog[v][f][PathHunk] \in TextsOf(catalog[v])
    BY <1>4, UpgradeAssumption DEF TextsOf, Present
  <2>2. QED
    BY <1>3, <2>1
<1>5. \A w \in Versions : Published(w) => Alike(catalog, v, w)
  BY <1>1 DEF ReleasesAlike, Published
<1>6. QED
  BY <1>1, <1>2, <1>3, <1>4, <1>5

\* The merge of an installation nobody edited has no conflict in a region of a
\* file, and if no file is dropped either it is an installation of the new version.
LEMMA PristineMerge ==
    ASSUME ReleasesAlike, TypeInv, pc # "idle", NEW t \in Tree,
           Pristine(t), t[Marker] = settings, tmp \notin TextsOf(t),
           Published(settings[VersionHunk]), Published(target)
    PROVE  LET b == Rendered(settings[VersionHunk])  o == Rendered(target) IN
           /\ ContentConflicts(b, o, t) = {}
           /\ ModifyDeletes(b, o, t) = {} => Pristine(MergeTree(b, o, t))
<1> DEFINE v == settings[VersionHunk]
           b == Rendered(v)
           o == Rendered(target)
           m == MergeTree(b, o, t)
<1>0. /\ settings \in Blob /\ v \in Versions /\ target \in Versions /\ tmp \in TempDirs
      /\ TypeOK /\ Marker \in Files /\ PathHunk # VersionHunk
      /\ {PathHunk, VersionHunk} \subseteq Hunks
  BY UpgradeAssumption DEF TypeInv, Assigned
<1>1. /\ \A h \in Hunks : settings[h] # Unresolved
      /\ [f \in Files |-> Aside(t[f])] = catalog[v]
  BY PathsAsideIs DEF Pristine, Readable, VersionOf
<1>2. ASSUME NEW f \in Files \ {Marker}
      PROVE  /\ ~ContentConflict(b[f], o[f], t[f])
             /\ ~ModifyDelete(b[f], o[f], t[f]) => Aside(m[f]) = catalog[target][f]
  <2> DEFINE c == catalog[v][f]
             n == catalog[target][f]
  <2>1. b[f] = Placed(c, tmp) /\ o[f] = Placed(n, tmp)
    BY <1>0, RenderedFiles
  <2>2. /\ c \in Blob \cup {Absent} /\ n \in Blob \cup {Absent} /\ t[f] \in Blob \cup {Absent}
        /\ c # Absent => c[PathHunk] \notin TempDirs
        /\ n # Absent => n[PathHunk] \notin TempDirs
    BY <1>0, ReleaseFacts DEF Tree
  <2>3. Absent \notin {c, n} => (c[PathHunk] = RepoPath <=> n[PathHunk] = RepoPath)
    BY <1>0, ReleaseFacts DEF Alike, Present
  <2>4. Aside(t[f]) = c
    BY <1>1
  <2>5. t[f] # Absent => t[f][PathHunk] # tmp
    BY <1>0 DEF TextsOf, Present
  <2>6. m[f] = MergeFile(b[f], o[f], t[f])
    BY DEF MergeTree
  <2> HIDE DEF c, n, b, o, m, v
  <2>7. /\ ~ContentConflict(Placed(c, tmp), Placed(n, tmp), t[f])
        /\ ~ModifyDelete(Placed(c, tmp), Placed(n, tmp), t[f]) =>
              Aside(MergeFile(Placed(c, tmp), Placed(n, tmp), t[f])) = n
    BY <1>0, <2>2, <2>3, <2>4, <2>5, MergeOfPristine
  <2>8. QED
    BY <2>1, <2>6, <2>7 DEF n
<1>3. b[Marker] = settings /\ o[Marker] = [settings EXCEPT ![VersionHunk] = target]
  <2>1. [settings EXCEPT ![VersionHunk] = v] = settings
    BY <1>0 DEF Blob
  <2>2. QED
    BY <1>0, <2>1, RenderedFiles
<1>4. m[Marker] = o[Marker] /\ ~ContentConflict(b[Marker], o[Marker], t[Marker])
  BY <1>0, <1>3 DEF MergeTree, MergeFile, MergeHunk, BothChanged, ContentConflict
<1>5. /\ m[Marker] \in Blob /\ m[Marker][VersionHunk] = target
      /\ \A h \in Hunks \ {VersionHunk} : m[Marker][h] = settings[h]
  <2>1. m[Marker] = [settings EXCEPT ![VersionHunk] = target]
    BY <1>3, <1>4
  <2> HIDE DEF m
  <2>2. QED
    BY <1>0, <2>1, UpgradeAssumption DEF Blob
<1>6. Aside(m[Marker]) = catalog[target][Marker]
  <2>1. /\ Aside(settings) = catalog[v][Marker] /\ settings # Absent
        /\ catalog[target][Marker] \in Blob
        /\ catalog[target][Marker][VersionHunk] = target
        /\ \A h \in Hunks \ {VersionHunk} : catalog[v][Marker][h] = catalog[target][Marker][h]
    BY <1>0, <1>1, ReleaseFacts, TreesAssumption DEF Alike
  <2> DEFINE k == m[Marker]
  <2>2. k # Absent /\ k \in Blob
    BY <1>5, TreesAssumption
  <2>3. k[PathHunk] = settings[PathHunk]
    BY <1>0, <1>5
  <2> HIDE DEF m, v
  <2>4. CASE settings[PathHunk] \in TempDirs
    <3>1. Aside(k) = [k EXCEPT ![PathHunk] = RepoPath]
      BY <2>2, <2>3, <2>4 DEF Aside
    <3>2. catalog[v][Marker] = [settings EXCEPT ![PathHunk] = RepoPath]
      BY <2>1, <2>4 DEF Aside
    <3>3. \A h \in Hunks :
             [k EXCEPT ![PathHunk] = RepoPath][h] = catalog[target][Marker][h]
      BY <1>0, <1>5, <2>1, <2>2, <3>2 DEF Blob
    <3>4. QED
      BY <2>1, <2>2, <3>1, <3>3 DEF Blob
  <2>5. CASE settings[PathHunk] \notin TempDirs
    <3>1. Aside(k) = k /\ catalog[v][Marker] = settings
      BY <2>1, <2>3, <2>5 DEF Aside
    <3>2. \A h \in Hunks : k[h] = catalog[target][Marker][h]
      BY <1>0, <1>5, <2>1, <3>1
    <3>3. QED
      BY <2>1, <2>2, <3>1, <3>2 DEF Blob
  <2>6. QED
    BY <2>4, <2>5
<1> HIDE DEF b, o, m, v
<1>7. ContentConflicts(b, o, t) = {}
  BY <1>2, <1>4 DEF ContentConflicts
<1>8. ASSUME ModifyDeletes(b, o, t) = {} PROVE Pristine(m)
  <2>1. \A f \in Files : Aside(m[f]) = catalog[target][f]
    BY <1>2, <1>6, <1>8 DEF ModifyDeletes
  <2>2. m \in Tree
    <3>1. b \in Tree /\ o \in Tree
      BY <1>0, RenderedType DEF b, o, v
    <3>2. QED
      BY <3>1, MergeTreeType DEF m
  <2>3. PathsAside(m) = catalog[target]
    <3>1. catalog[target] \in Tree
      BY <1>0, ReleaseFacts
    <3>2. QED
      BY <2>1, <2>2, <3>1, PathsAsideIs DEF Tree
  <2>4. Readable(m) /\ VersionOf(m) = target
    <3>1. m[Marker] # Absent /\ m[Marker][VersionHunk] \in Versions
      BY <1>0, <1>5, TreesAssumption
    <3>2. \A h \in Hunks : m[Marker][h] # Unresolved
      <4>1. target # Unresolved
        BY <1>0, UpgradeAssumption, TreesAssumption
      <4>2. QED
        BY <1>1, <1>5, <4>1
    <3>3. QED
      BY <1>5, <3>1, <3>2 DEF Readable, VersionOf
  <2>5. QED
    BY <2>3, <2>4 DEF Pristine
<1>9. QED
  BY <1>7, <1>8 DEF b, o, m, v

LEMMA InitTracks ==
    ASSUME ReleasesAlike, ReleasesUnmarked, Init
    PROVE  Tracks
<1>1. TypeOK
  BY InitTypeInv DEF TypeInv
<1>2. PICK v \in Versions : Published(v) /\ dir = catalog[v]
  BY DEF Init
<1>3. /\ dir \in Tree /\ dir[Marker] \in Blob /\ dir[Marker][VersionHunk] = v
      /\ \A f \in Files : dir[f] # Absent => dir[f][PathHunk] \notin TempDirs
  BY <1>1, <1>2, ReleaseFacts
<1>4. Readable(dir) /\ VersionOf(dir) = v
  <2>1. \A h \in Hunks : dir[Marker][h] # Unresolved
    BY <1>1, <1>2, <1>3, UpgradeAssumption, TreesAssumption
       DEF ReleasesUnmarked, NoMarkers, Present, TypeOK
  <2>2. QED
    BY <1>3, <2>1, TreesAssumption DEF Readable, VersionOf
<1>5. PathsAside(dir) = dir
  <2>1. \A f \in Files : Aside(dir[f]) = dir[f]
    BY <1>3 DEF Aside
  <2>2. QED
    BY <1>3, <2>1, PathsAsideIs DEF Tree
<1>6. Pristine(dir)
  BY <1>2, <1>4, <1>5 DEF Pristine
<1>7. QED
  BY <1>6 DEF Init, Tracks, NoInputs, Swapping

LEMMA NextTracks ==
    ASSUME ReleasesAlike, UpgradeInv, Tracks, [Next]_vars
    PROVE  Tracks'
<1> DEFINE Quiet == edits = 0 /\ republished = 0 /\ ~torn
           Whole == pc \notin Swapping => Pristine(dir)
           Read == pc \notin {"idle"} \cup Swapping =>
                      dir[Marker] = settings /\ tmp \notin TextsOf(dir)
           Base == inputs.base # NoTree =>
                      /\ inputs.base = Rendered(settings[VersionHunk])
                      /\ Published(settings[VersionHunk])
           Mine == inputs.mine # NoTree =>
                      /\ Pristine(inputs.mine)
                      /\ inputs.mine[Marker] = settings /\ tmp \notin TextsOf(inputs.mine)
           Theirs == inputs.theirs # NoTree =>
                      inputs.theirs = Rendered(target) /\ Published(target)
           Body == Whole /\ Read /\ Base /\ Mine /\ Theirs
<1>0. /\ Quiet => Body
      /\ TypeOK /\ Assigned /\ InputsByPhase /\ NoTree \notin Tree
  BY GitAssumption DEF Tracks, UpgradeInv, TypeInv, NoTree
<1> SUFFICES ASSUME Quiet' PROVE Body'
  BY DEF Tracks
<1> USE DEF envVars, upgradeVars
<1>1. ASSUME NEW f \in Editable, UserEdit(f) PROVE FALSE
  BY <1>0, <1>1, UpgradeAssumption DEF UserEdit, TypeOK
<1>2. ASSUME Republish PROVE FALSE
  BY <1>0, <1>2, UpgradeAssumption DEF Republish, TypeOK
\* What an upgrade that has not begun to replace the installation keeps.
<1>3. ASSUME Quiet, UNCHANGED <<dir, settings, target, tmp, inputs, catalog>>,
             pc' \notin {"idle"} => pc \notin {"idle"} \cup Swapping,
             pc' = "idle" => pc \notin Swapping
      PROVE  Body'
  BY <1>0, <1>3 DEF Pristine, Rendered, Published, PathsAside, VersionOf, Swapping
<1>4. ASSUME NEW choices \in SUBSET Versions, Begin(choices) PROVE Body'
  <2>1. Quiet /\ inputs = NoInputs /\ inputs' = NoInputs /\ UNCHANGED <<dir, catalog>>
    BY <1>0, <1>4 DEF Begin, InputsByPhase
  <2>2. Base' /\ Mine' /\ Theirs'
    BY <2>1 DEF NoInputs
  <2>3. Whole'
    BY <1>0, <1>4, <2>1 DEF Begin, Pristine, Swapping, VersionOf, PathsAside
  <2>4. Read'
    BY <1>4, <2>1 DEF Begin
  <2>5. QED
    BY <2>2, <2>3, <2>4
<1>5. CASE CheckVersionExists
  BY <1>3, <1>5 DEF CheckVersionExists, Swapping
<1>6. CASE InstallFails
  BY <1>3, <1>6 DEF InstallFails, Swapping
<1>7. ASSUME NEW next \in {"based", "snapshotted", "updated"}, NEW r, RepoStep(next, r),
             pc \in {"checked", "based", "snapshotted"}
      PROVE  /\ Quiet /\ Body /\ UNCHANGED <<dir, settings, target, tmp, catalog>>
             /\ Whole' /\ Read'
             /\ UNCHANGED inputs.base => Base'
             /\ UNCHANGED inputs.mine => Mine'
             /\ UNCHANGED inputs.theirs => Theirs'
  <2>1. /\ Quiet /\ Body /\ UNCHANGED <<dir, settings, target, tmp, catalog>>
        /\ pc \notin {"idle"} \cup Swapping /\ pc' \notin {"idle"} \cup Swapping
    BY <1>0, <1>7 DEF RepoStep, Swapping
  <2>2. QED
    BY <2>1 DEF Pristine, VersionOf, PathsAside, Rendered, Published
<1>8. CASE CreateBase
  <2>1. /\ inputs'.base = Rendered(settings[VersionHunk])
        /\ Published(settings[VersionHunk])
        /\ UNCHANGED inputs.mine /\ UNCHANGED inputs.theirs
    BY <1>0, <1>8 DEF CreateBase, TypeOK
  <2>2. UNCHANGED <<settings, tmp, catalog>>
    BY <1>8 DEF CreateBase, RepoStep
  <2>3. Base'
    BY <2>1, <2>2 DEF Rendered, Published
  <2>4. QED
    BY <1>7, <1>8, <2>1, <2>3 DEF CreateBase
<1>9. CASE CopyUserChanges
  <2>1. /\ inputs'.mine = dir /\ UNCHANGED inputs.base /\ UNCHANGED inputs.theirs
    BY <1>0, <1>9 DEF CopyUserChanges, TypeOK
  <2>2. Whole /\ Read /\ pc = "based" /\ UNCHANGED <<dir, settings, tmp, catalog>>
    BY <1>7, <1>9 DEF CopyUserChanges
  <2>3. Mine'
    BY <2>1, <2>2 DEF Swapping, Pristine, VersionOf, PathsAside
  <2>4. QED
    BY <1>7, <1>9, <2>1, <2>3 DEF CopyUserChanges
<1>10. CASE InstallUpdate
  <2>1. /\ inputs'.theirs = Rendered(target) /\ Published(target)
        /\ UNCHANGED inputs.base /\ UNCHANGED inputs.mine
    BY <1>0, <1>10 DEF InstallUpdate, TypeOK
  <2>2. UNCHANGED <<settings, target, tmp, catalog>>
    BY <1>10 DEF InstallUpdate, RepoStep
  <2>3. Theirs'
    BY <2>1, <2>2 DEF Rendered, Published
  <2>4. QED
    BY <1>7, <1>10, <2>1, <2>3 DEF InstallUpdate
<1>11. CASE MergeUserChanges
  BY <1>3, <1>11 DEF MergeUserChanges, RepoStep, Swapping
\* While the installation is replaced, the three trees are what they were.
<1>12. ASSUME Quiet, UNCHANGED <<settings, target, tmp, inputs, catalog>>, pc' \in Swapping
       PROVE  Body'
  BY <1>0, <1>12 DEF Pristine, Rendered, Published, PathsAside, VersionOf
<1>13. ASSUME NEW f \in Files, RemoveInstalledFile(f) \/ CopyBack(f) PROVE Body'
  BY <1>12, <1>13 DEF RemoveInstalledFile, CopyBack, Swapping
<1>14. CASE RemoveGitDir
  BY <1>12, <1>14 DEF RemoveGitDir, Swapping
\* An upgrade that returned has forgotten its trees.
<1>15. ASSUME NEW how, Return(how) PROVE Base' /\ Mine' /\ Theirs' /\ Read'
  BY <1>15 DEF Return, NoInputs
<1>16. CASE Finish
  <2>1. /\ Quiet /\ Installed /\ pc = "copying"
        /\ UNCHANGED <<dir, catalog>>
    BY <1>16 DEF Finish, Return, Installed
  <2>2. /\ dir = MergeTree(inputs.base, inputs.theirs, inputs.mine)
        /\ {inputs.base, inputs.mine, inputs.theirs} \subseteq Tree
    BY <2>1, InstalledIsMerge
  <2>3. /\ inputs.base = Rendered(settings[VersionHunk])
        /\ Published(settings[VersionHunk])
        /\ Pristine(inputs.mine) /\ inputs.mine[Marker] = settings
        /\ tmp \notin TextsOf(inputs.mine)
        /\ inputs.theirs = Rendered(target) /\ Published(target)
    BY <1>0, <2>1, <2>2
  <2>4. /\ ContentConflicts(inputs.base, inputs.theirs, inputs.mine) = {}
        /\ ModifyDeletes(inputs.base, inputs.theirs, inputs.mine) = {} => Pristine(dir)
    <3>1. TypeInv /\ pc # "idle" /\ inputs.mine \in Tree
      BY <1>0, <2>1, <2>2 DEF TypeInv
    <3>2. QED
      BY <2>2, <2>3, <3>1, PristineMerge
  <2>5. ModifyDeletes(inputs.base, inputs.theirs, inputs.mine) = {}
    BY <2>1, <2>4 DEF UpgradeInv, MergeReported, Swapping
  <2>6. Whole'
    BY <2>1, <2>4, <2>5 DEF Pristine, VersionOf, PathsAside
  <2>7. QED
    BY <1>15, <1>16, <2>6 DEF Finish
<1>17. ASSUME NEW how \in {"error", "killed"}, Abort(how) PROVE Body'
  <2>1. /\ Quiet /\ pc \notin Swapping /\ pc' = "idle" /\ UNCHANGED <<dir, catalog>>
    BY <1>0, <1>17 DEF Abort, Return, TypeOK
  <2>2. Whole'
    BY <1>0, <2>1 DEF Pristine, VersionOf, PathsAside
  <2>3. QED
    BY <1>15, <1>17, <2>2 DEF Abort
<1>18. CASE UNCHANGED vars
  BY <1>0, <1>18 DEF vars, Pristine, Rendered, Published, PathsAside, VersionOf
<1>19. CASE BeginVersion \/ BeginLatest
  BY <1>4, <1>19 DEF BeginVersion, BeginLatest
<1>20. QED
  BY <1>1, <1>2, <1>5, <1>6, <1>8, <1>9, <1>10, <1>11, <1>13, <1>14, <1>16, <1>17,
     <1>18, <1>19 DEF Next, Step

\* As long as no ignore rule matches a file of the installation and the releases
\* have no conflict markers and are alike in what an upgrade takes from the
\* installation, an installation nobody edits goes through any number of upgrades,
\* failed and killed ones too, and is what the catalog has of the version in its
\* marker, unless one of them stopped while it was replacing the files.
THEOREM UneditedTracksCatalog ==
    ASSUME NothingIgnored, ReleasesUnmarked, ReleasesAlike
    PROVE  Spec => []PristineTracksCatalog
<1>1. Init => UpgradeInv /\ Tracks
  BY InitUpgradeInv, InitTracks
<1>2. UpgradeInv /\ Tracks /\ [Next]_vars => UpgradeInv' /\ Tracks'
  BY NextUpgradeInv, NextTracks
<1>3. UpgradeInv /\ Tracks => PristineTracksCatalog
  BY DEF Tracks, Pristine, PristineTracksCatalog
<1>4. QED
  BY <1>1, <1>2, <1>3, PTL DEF Spec
=============================================================================
