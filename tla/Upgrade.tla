------------------------------ MODULE Upgrade ------------------------------
(***************************************************************************)
(* `pctl upgrade <dir> <version>` and `pctl upgrade --latest <dir>`:       *)
(* pkg/upgrade/upgrade.go, called from cmd/pctl/upgrade.go.                *)
(*                                                                         *)
(* One installation directory is upgraded again and again while its owner  *)
(* edits it and the catalog changes.  Each upgrade runs in a temporary     *)
(* directory of its own, turned into a git repository:                     *)
(*    main            the profile as the catalog has the current version   *)
(*    user-changes    the installation as its owner has it                 *)
(*    update-changes  the profile as the catalog has the new version       *)
(* and the merge of the last two replaces the installation, file by file.  *)
(* Every step can fail, and the process can be killed between two steps.   *)
(***************************************************************************)
EXTENDS RepoManager, Naturals

CONSTANTS
    UserChanges, UpdateChanges,  \* the other two branches
    Marker,        \* profile-installation.yaml
    VersionHunk,   \* the region of the marker with the catalog version
    PathHunk,      \* the region of a manifest with the path flux reads from
    RepoPath,      \* a path below the directory `pctl add` wrote to
    Versions,      \* profile versions (the texts of VersionHunk)
    NoVersion,
    NewerThan,     \* which versions the catalog says are newer than another
    TempDirs,      \* names of temporary directories (texts of PathHunk)
    NoDir,
    Catalogs,      \* the states the catalog can be in: [Versions -> Tree]
    Editable,      \* paths the owner edits
    UserText,      \* what the owner writes into a hunk
    UserBlobs,     \* files the owner creates
    MaxEdits, MaxRepublished, MaxRuns   \* bounds on the environment

ASSUME UpgradeAssumption ==
    /\ Branches = {Main, UserChanges, UpdateChanges}
    /\ Main # UserChanges /\ Main # UpdateChanges /\ UserChanges # UpdateChanges
    /\ Marker \in Files
    /\ {VersionHunk, PathHunk} \subseteq Hunks /\ VersionHunk # PathHunk
    /\ Versions \cup TempDirs \cup {RepoPath} \subseteq Text
    /\ RepoPath \notin TempDirs
    /\ NoVersion \notin Versions /\ NoDir \notin TempDirs
    /\ NewerThan \in [Versions -> SUBSET Versions]
    /\ Catalogs \subseteq [Versions -> Tree]
    /\ \A c \in Catalogs, v \in Versions :
          c[v] # EmptyTree => c[v][Marker] # Absent
    /\ Editable \subseteq Files /\ UserText \subseteq Text /\ UserBlobs \subseteq Blob
    /\ {MaxEdits, MaxRepublished, MaxRuns} \subseteq Nat

VARIABLES
    dir,       \* the installation directory, ProfileDir
    catalog,   \* what the catalog would install for each version
    pc,        \* where Upgrade is
    settings,  \* the ProfileInstallation it read from the marker
    target,    \* cfg.Version
    tmp,       \* the name of the temporary directory, WorkingDir
    repo,      \* the repository in the temporary directory
    todo,      \* files still to be copied back
    inputs,    \* the trees written to main, user-changes and update-changes
    outcome,   \* what the last upgrade returned
    torn,      \* an upgrade stopped while it was replacing the installation
    edits, republished, runs   \* environment steps so far

upgradeVars == <<pc, settings, target, tmp, repo, todo, inputs, outcome, torn>>
envVars == <<catalog, edits, republished, runs>>
vars == <<dir, upgradeVars, envVars>>

Swapping == {"removing", "copying"}
Phases == {"idle", "resolved", "checked", "based", "snapshotted", "updated",
           "merged", "failed"} \cup Swapping

Outcomes == {"none", "upgraded", "conflicts", "error", "killed"}

NoTree == NoCommit   \* an input not written yet
NoInputs == [base |-> NoTree, mine |-> NoTree, theirs |-> NoTree]
NoSettings == Absent

-----------------------------------------------------------------------------
\* An installation can be upgraded when its marker parses and has a catalog.
Readable(t) ==
    /\ t[Marker] # Absent
    /\ \A h \in Hunks : t[Marker][h] # Unresolved
    /\ t[Marker][VersionHunk] \in Versions

VersionOf(t) == IF Readable(t) THEN t[Marker][VersionHunk] ELSE NoVersion

Published(v) == catalog[v] # EmptyTree

\* The paths in the manifests are below the directory they are written to.
Relocate(t, d) ==
    [f \in Files |->
        IF t[f] # Absent /\ t[f][PathHunk] = RepoPath
        THEN [t[f] EXCEPT ![PathHunk] = d] ELSE t[f]]

\* Slip: the marker written as it was read, with the version it had.
RenderedOldMarker(v) ==
    [Relocate(catalog[v], tmp) EXCEPT ![Marker] = settings]

\* What CatalogManager.Install(v) writes to the temporary directory: the
\* marker keeps the name, config map and git repository it was read with.
Rendered(v) ==
    [Relocate(catalog[v], tmp) EXCEPT
        ![Marker] = [settings EXCEPT ![VersionHunk] = v]]

TextsOf(t) == UNION {{t[f][h] : h \in Hunks} : f \in Present(t)}

-----------------------------------------------------------------------------
Init ==
    /\ catalog \in Catalogs
    /\ dir \in {catalog[v] : v \in {w \in Versions : Published(w)}}
    /\ pc = "idle"
    /\ settings = NoSettings /\ target = NoVersion /\ tmp = NoDir
    /\ repo = GitInit /\ todo = {} /\ inputs = NoInputs
    /\ outcome = "none" /\ torn = FALSE
    /\ edits = 0 /\ republished = 0 /\ runs = 0

\* The owner changes, deletes or creates a file, an upgrade running or not;
\* edits made while the directory is being replaced are left out.
Edits(blob) ==
    {Absent} \cup UserBlobs \cup
    (IF blob = Absent THEN {} ELSE {[blob EXCEPT ![h] = x] : h \in Hunks, x \in UserText})

UserEdit(f) ==
    /\ edits < MaxEdits
    /\ pc \notin Swapping
    /\ \E blob \in Edits(dir[f]) \ {dir[f]} : dir' = [dir EXCEPT ![f] = blob]
    /\ edits' = edits + 1
    /\ UNCHANGED <<upgradeVars, catalog, republished, runs>>

\* A version is published, withdrawn, or its tag moved to other content.
Republish ==
    /\ republished < MaxRepublished
    /\ catalog' \in Catalogs \ {catalog}
    /\ republished' = republished + 1
    /\ UNCHANGED <<dir, upgradeVars, edits, runs>>

-----------------------------------------------------------------------------
\* TempDir, then the reading of profile-installation.yaml; cfg.Version becomes
\* one of `choices`.
Begin(choices) ==
    /\ pc = "idle" /\ runs < MaxRuns
    /\ runs' = runs + 1
    /\ \E d \in TempDirs \ TextsOf(dir) :
          IF Readable(dir) /\ choices # {}
          THEN /\ pc' = "resolved"
               /\ settings' = dir[Marker]
               /\ target' \in choices
               /\ tmp' = d
               /\ outcome' = "none"
          ELSE /\ outcome' = "error"
               /\ UNCHANGED <<pc, settings, target, tmp>>
    /\ UNCHANGED <<dir, repo, todo, inputs, torn, catalog, edits, republished>>

BeginVersion == Begin(Versions)

\* --latest: the first item of the catalog's list of newer versions.
BeginLatest ==
    Begin({v \in Versions : /\ Readable(dir) /\ Published(v)
                            /\ v \in NewerThan[VersionOf(dir)]})

\* CatalogManager.Show(new version): an unknown version ends the upgrade.
CheckVersionExists ==
    /\ pc = "resolved"
    /\ pc' = IF Published(target) THEN "checked" ELSE "failed"
    /\ UNCHANGED <<dir, settings, target, tmp, repo, todo, inputs, outcome, torn, envVars>>

\* A repository operation that was to write `tree`: it fails when git does.
RepoStep(next, r) ==
    /\ repo' = r
    /\ pc' = IF r.ok THEN next ELSE "failed"
    /\ UNCHANGED <<dir, settings, target, tmp, todo, outcome, torn, envVars>>

\* Slip: the base with the paths that the installation was added with.
CreateBaseInPlace ==
    /\ pc = "checked" /\ Published(settings[VersionHunk])
    /\ LET content == [catalog[settings[VersionHunk]] EXCEPT ![Marker] = settings] IN
         /\ inputs' = [inputs EXCEPT !.base = content]
         /\ RepoStep("based", CreateRepoWithContent(content))

CreateBase ==
    /\ pc = "checked" /\ Published(settings[VersionHunk])
    /\ LET content == Rendered(settings[VersionHunk]) IN
         /\ inputs' = [inputs EXCEPT !.base = content]
         /\ RepoStep("based", CreateRepoWithContent(content))

\* CatalogManager.Install asks the catalog again: a version withdrawn since the
\* installation was made, or since Show, fails the upgrade.
InstallFails ==
    /\ \/ pc = "checked" /\ ~Published(settings[VersionHunk])
       \/ pc = "snapshotted" /\ ~Published(target)
    /\ pc' = "failed"
    /\ UNCHANGED <<dir, settings, target, tmp, repo, todo, inputs, outcome, torn, envVars>>

CopyUserChanges ==
    /\ pc = "based"
    /\ inputs' = [inputs EXCEPT !.mine = dir]
    /\ RepoStep("snapshotted",
                CreateBranchWithContentFromMain(repo, UserChanges, dir))

InstallUpdate ==
    /\ pc = "snapshotted" /\ Published(target)
    /\ LET content == Rendered(target) IN
         /\ inputs' = [inputs EXCEPT !.theirs = content]
         /\ RepoStep("updated",
                     CreateBranchWithContentFromMain(repo, UpdateChanges, content))

MergeUserChanges ==
    /\ pc = "updated"
    /\ inputs' = inputs
    /\ RepoStep("merged", MergeBranches(repo, UpdateChanges, UserChanges))

\* os.RemoveAll(ProfileDir), one file after another in no particular order.
RemoveInstalledFile(f) ==
    /\ pc \in {"merged", "removing"}
    /\ dir[f] # Absent
    /\ dir' = [dir EXCEPT ![f] = Absent]
    /\ pc' = "removing"
    /\ UNCHANGED <<settings, target, tmp, repo, todo, inputs, outcome, torn, envVars>>

\* Slip: the merge copied over the installation, which is not removed first.
RemoveGitDirOnly ==
    /\ pc \in {"merged", "removing"}
    /\ todo' = Present(repo.work)
    /\ pc' = "copying"
    /\ UNCHANGED <<dir, settings, target, tmp, repo, inputs, outcome, torn, envVars>>

\* os.RemoveAll(WorkingDir/.git): everything else there is to be copied.
RemoveGitDir ==
    /\ pc \in {"merged", "removing"}
    /\ dir = EmptyTree
    /\ todo' = Present(repo.work)
    /\ pc' = "copying"
    /\ UNCHANGED <<dir, settings, target, tmp, repo, inputs, outcome, torn, envVars>>

\* Slip: a copy that is retried from the removal on, after every file.
CopyBackAgain(f) ==
    /\ pc = "copying" /\ f \in todo
    /\ dir' = [dir EXCEPT ![f] = repo.work[f]]
    /\ pc' = "removing" /\ todo' = {}
    /\ UNCHANGED <<settings, target, tmp, repo, inputs, outcome, torn, envVars>>

CopyBack(f) ==
    /\ pc = "copying" /\ f \in todo
    /\ dir' = [dir EXCEPT ![f] = repo.work[f]]
    /\ todo' = todo \ {f}
    /\ UNCHANGED <<pc, settings, target, tmp, repo, inputs, outcome, torn, envVars>>

\* Upgrade returns; the caller's deferred call removes the temporary directory.
Return(result) ==
    /\ pc' = "idle" /\ outcome' = result
    /\ settings' = NoSettings /\ target' = NoVersion /\ tmp' = NoDir
    /\ repo' = GitInit /\ todo' = {} /\ inputs' = NoInputs
    /\ UNCHANGED <<dir, envVars>>

\* Slip: success reported before everything is copied.
FinishEarly ==
    /\ pc = "copying"
    /\ Return(IF repo.conflicts = {} THEN "upgraded" ELSE "conflicts")
    /\ UNCHANGED torn

Finish ==
    /\ pc = "copying" /\ todo = {}
    /\ Return(IF repo.conflicts = {} THEN "upgraded" ELSE "conflicts")
    /\ UNCHANGED torn

\* A step returns an error (network, disk, permissions, a git command), or the
\* process is killed, which leaves behind a temporary directory no later
\* upgrade looks at.
Abort(how) ==
    /\ pc # "idle"
    /\ Return(how)
    /\ torn' = (torn \/ pc \in Swapping)

\* What an upgrade does next when the machine does not fail it.
Step ==
    \/ CheckVersionExists \/ CreateBase \/ CopyUserChanges \/ InstallUpdate
    \/ InstallFails \/ MergeUserChanges \/ RemoveGitDir \/ Finish
    \/ \E f \in Files : RemoveInstalledFile(f) \/ CopyBack(f)
    \/ pc = "failed" /\ Abort("error")

Next ==
    \/ \E f \in Editable : UserEdit(f)
    \/ Republish
    \/ BeginVersion \/ BeginLatest
    \/ Step
    \/ \E how \in {"error", "killed"} : Abort(how)

Spec == Init /\ [][Next]_vars

\* A started upgrade runs on, if only to fail: no step of it waits for anybody.
FairSpec == Spec /\ WF_vars(Abort("error") \/ Step)

-----------------------------------------------------------------------------
(* Properties *)

\* Every variable holds a value of its kind: the one type invariant.
TypeOK ==
    /\ dir \in Tree
    /\ catalog \in Catalogs
    /\ pc \in Phases
    /\ settings \in Blob \cup {NoSettings}
    /\ target \in Versions \cup {NoVersion}
    /\ tmp \in TempDirs \cup {NoDir}
    /\ repo \in Repository
    /\ todo \in SUBSET Files
    /\ inputs \in [base : Tree \cup {NoTree}, mine : Tree \cup {NoTree},
                   theirs : Tree \cup {NoTree}]
    /\ outcome \in Outcomes
    /\ torn \in BOOLEAN
    /\ edits \in 0..MaxEdits /\ republished \in 0..MaxRepublished
    /\ runs \in 0..MaxRuns

\* upgrade.go:83-170.  Between two repository operations the branches hold the
\* trees that were written for them, and nothing of a branch built earlier is
\* left in the work tree or the index.
RepositoryHoldsInputs ==
    pc \in {"based", "snapshotted", "updated"} =>
        /\ Clean(repo) /\ repo.conflicts = {}
        /\ repo.branch[Main] = inputs.base
        /\ repo.branch[UserChanges] = inputs.mine
        /\ repo.branch[UpdateChanges] = inputs.theirs

\* upgrade.go:170-183.  Before the first file of the installation is removed,
\* and until the last one has been put back, the temporary directory holds the
\* whole three-way merge of the three trees the upgrade wrote: the sequence of
\* checkouts, removals, commits and merges leaves nothing behind in the work
\* tree and loses nothing from it.
MergeCompleteBeforeSwap ==
    pc \in {"merged"} \cup Swapping =>
        repo.work = MergeTree(inputs.base, inputs.theirs, inputs.mine)

\* What the installation is when the last file has been copied back.
Installed == pc = "copying" /\ todo = {}

HunkKept(f, h) ==
    /\ dir[f] # Absent
    /\ dir[f][h] \in {inputs.mine[f][h], Unresolved}

\* Every region the owner had changed since the current version was installed
\* is in the upgraded installation, or between conflict markers there.
UserChangesSurvive ==
    Installed =>
        \A f \in Present(inputs.mine), h \in Hunks :
            inputs.mine[f][h] # HunkOf(inputs.base[f], h) => HunkKept(f, h)

\* Every region the new version changes and the owner had left alone is in the
\* upgraded installation, and a file it removes that the owner had left alone
\* is gone.
UpstreamChangesArrive ==
    Installed =>
        \A f \in Files :
            LET b == inputs.base[f]  m == inputs.mine[f]  t == inputs.theirs[f] IN
            /\ m = b => dir[f] = t
            /\ \A h \in Hunks :
                  (Absent \notin {m, t} /\ m[h] = HunkOf(b, h)) => dir[f][h] = t[h]

\* upgrade.go:91, artifact.go:366.  Both versions are rendered into the temporary
\* directory, and flux reads from the path that is rendered: a manifest that has
\* a path in the repository keeps it, or gets conflict markers there, but never
\* the path of a directory that is gone when the upgrade returns.
PathsStayInRepository ==
    Installed =>
        \A f \in Present(inputs.mine) \ {Marker} :
            inputs.mine[f][PathHunk] = RepoPath =>
                dir[f] = Absent \/ dir[f][PathHunk] \notin TempDirs

\* The files upgrade.go:187-193 names are those the owner has to look at.  Each
\* has a region between conflict markers, or the owner deleted it and the new
\* version changed it, or the other way round; and every file with such a region
\* is named, unless the region was there before: an owner may upgrade again
\* without having resolved the last upgrade's conflicts.
Unresolvable(f) ==
    ModifyDelete(inputs.base[f], inputs.theirs[f], inputs.mine[f])

Marked(t, f) ==
    IF t[f] = Absent THEN {} ELSE {h \in Hunks : t[f][h] = Unresolved}

ConflictListExact ==
    Installed =>
        \A f \in Files :
            /\ f \in repo.conflicts => Unresolvable(f) \/ Marked(dir, f) # {}
            /\ Unresolvable(f) => f \in repo.conflicts
            /\ Marked(dir, f) \subseteq Marked(inputs.mine, f) \/ f \in repo.conflicts

\* An installation nobody edited, from a catalog whose releases do not change,
\* is after any number of upgrades what a fresh `pctl add` of the version in its
\* marker writes, up to the paths of the manifests.
PathsAside(t) == Relocate([f \in Files |->
    IF t[f] # Absent /\ t[f][PathHunk] \in TempDirs
    THEN [t[f] EXCEPT ![PathHunk] = RepoPath] ELSE t[f]], RepoPath)

PristineTracksCatalog ==
    (edits = 0 /\ republished = 0 /\ ~torn /\ pc \notin Swapping) =>
        /\ Readable(dir)
        /\ PathsAside(dir) = catalog[VersionOf(dir)]

\* Every upgrade that is started ends, by the steps of the program alone: none
\* of them, for any content of the three trees, waits or repeats for ever.
Terminates == pc # "idle" ~> pc = "idle"

\* The upgrade keeps the promise of module Installation, whatever the catalog,
\* the owner, failures and kills do: the git commands are no more than the
\* three-way merge, and the directory is only ever replaced by its result.
Stage ==
    CASE pc = "idle" -> "idle"
      [] pc \in Swapping -> "replacing"
      [] OTHER -> "preparing"

Promise == INSTANCE Installation WITH
    stage <- Stage, base <- inputs.base, mine <- inputs.mine,
    theirs <- inputs.theirs

KeepsPromise == Promise!Spec

-----------------------------------------------------------------------------
(* Claims of the repository that the code does not keep *)

\* upgrade.go:64: once cfg.Version is the latest version, "from there it should
\* all just work": no git command fails in the upgrade of an installation
\* nobody edited to a version that exists.
UneditedUpgradeJustWorks ==
    (/\ edits = 0 /\ republished = 0 /\ ~torn
     /\ target \in Versions /\ Published(target)) => pc # "failed"

\* git.go:112: Commit will "Commit all changes": the branch user-changes holds
\* the installation that was copied into it.
CommitCommitsAll == pc = "snapshotted" => repo.branch[UserChanges] = inputs.mine

-----------------------------------------------------------------------------
(* What the theorems suppose of the releases in a catalog *)

\* No release has conflict markers in it.
NoMarkers(t) == \A f \in Present(t), h \in Hunks : t[f][h] # Unresolved

ReleasesUnmarked == \A c \in Catalogs, v \in Versions : NoMarkers(c[v])

\* What the releases of one profile have in common, as an installation sees them:
\* the marker is the same but for the version, a file has a path in the
\* repository in all the releases it is in or in none, and no release has the
\* name of a temporary directory in it, which is made up when it is needed.
\* (Excluded: a chart that moves from the profile's repository to a chart
\* repository, artifact.go:131.  Its HelmRelease.yaml is then a conflict.)
Alike(c, v, w) ==
    /\ \A h \in Hunks \ {VersionHunk} : c[v][Marker][h] = c[w][Marker][h]
    /\ \A f \in (Present(c[v]) \cap Present(c[w])) \ {Marker} :
          c[v][f][PathHunk] = RepoPath <=> c[w][f][PathHunk] = RepoPath

ReleasesAlike ==
    \A c \in Catalogs, v \in Versions : c[v] # EmptyTree =>
        /\ c[v][Marker][VersionHunk] = v
        /\ TextsOf(c[v]) \cap TempDirs = {}
        /\ \A w \in Versions : c[w] # EmptyTree => Alike(c, v, w)
=============================================================================
