# pctl in TLA+

`pctl` installs *profiles* (sets of flux manifests kept in git repositories)
into a GitOps repository, upgrades them, proposes the result as a pull request,
and installs the profiles controller into a cluster. It is a command line
program, but not a sequential one in any useful sense: it runs git, kubectl, a
catalog and a code host, each of which can fail after it has done its part; it
works in directories other people edit; several of it run at once; and one of
its commands waits for a cluster with three goroutines. These modules model that
program; TLC checks them on small instances, and TLAPS proves the properties
that matter most for all instances.

## 1. The system

| Part | Source | State it keeps | Operations | Module |
|---|---|---|---|---|
| upgrade | `pkg/upgrade/upgrade.go`, `cmd/pctl/upgrade.go` | the installation directory, a temporary directory, the resolved version | `Upgrade` | `Upgrade`, `Installation` (what it promises) |
| repository manager | `pkg/upgrade/repo/manager.go` | a private repository with three branches | `CreateRepoWithContent`, `CreateBranchWithContentFromMain`, `MergeBranches` | `RepoManager` |
| git | `pkg/git/git.go` | work tree, index, branches, HEAD | the methods of `CLIGit` | `Trees`, `Git` |
| pull requests | `pkg/catalog/install.go`, `pkg/git/scm_git.go`, `cmd/pctl/add.go` | the owner's clone, the remote, the code host | `CreatePullRequest`, `addProfile` | `PullRequest` |
| profile installer | `pkg/install/installer.go` | `clonedRepos`, the artifacts collected | `Install`, `collectArtifacts` | `Installer` |
| artifact writer | `pkg/install/artifact/artifact.go` | the installation directory | `Write` | `ArtifactWriter`, `Installer` |
| bootstrap configuration | `pkg/bootstrap/bootstrap.go`, `cmd/pctl/bootstrap.go`, `cmd/pctl/add.go` | `.pctl/config.yaml` | `CreateConfig`, `GetConfig` | `Bootstrap` |
| cluster install | `pkg/cluster/install.go`, `pkg/cluster/waiter.go` | the manifest directory, the wait context, the collected statuses | `Install`, `PreFlightCheck`, `Fetch`, `Apply`, `Wait` | `ClusterInstall` |
| catalog queries | `pkg/catalog/{show,available_updates,list,search,install}.go`, `cmd/pctl/get.go` | the rows of a get; the `ProfileInstallation` an add or upgrade records | `Show`, `GetAvailableUpdates`, `List`, `Search`, `createInstallationSpec` | `Catalog`, `Get` |
| catalog client | `pkg/client/client.go` | none | `DoRequest` | `Catalog` |
| installation list | `pkg/installation/list.go` | none | `List` | `Catalog` (a row), `Get` |
| command line | `cmd/pctl/{main,get,docgen}.go`, flags of the others | none | | partly: what the flags decide is in `Get`, `PullRequest`, `Bootstrap`, `ClusterInstall` |
| version, formatter, log, runner, fakes | `pkg/version`, `pkg/formatter`, `pkg/log`, `pkg/runner` | none | | not modelled, see 7 |

How they interact:

* `upgrade` calls the repository manager with callbacks that fill its work tree:
  twice the profile installer (the current version from the catalog, then the
  new one), once a copy of the installation directory. The manager calls git.
  The result of the merge replaces the installation directory.
* `add` reads the bootstrap configuration, asks the catalog, and calls the
  profile installer, which clones (git), collects, and hands the artifacts to
  the writer. `add --create-pr` and `upgrade --create-pr` then run git in the
  owner's clone and call the code host.
* `get` asks the cluster for the installations once and the catalog for each of
  them; what it finds there are the installations that adds and upgrades have
  recorded in the repository, as far as flux has brought them to the cluster.
* There is no shared memory between commands: they meet in directories, in
  repositories, in the catalog and in the cluster. Inside `cluster install` the
  poller, the listener and the observer share a channel, a map and a context.

What is hard in it, and what makes each part correct:

* **upgrade**: a three-way merge assembled from some twenty git commands in one
  work tree, whose result then replaces a directory file by file. Nothing of
  either side may be lost, nothing of one branch may leak into the next, the
  directory may not be touched before the merge is complete, the conflicts
  reported must be the conflicts there are, and all this while the owner edits
  and the catalog changes.
* **pull requests**: a sequence of commands on three stores without rollback.
  What is proposed must be complete, nothing private may be pushed, the base
  branch must not move, and the command must be repeatable.
* **installer and writer**: a recursion over repositories that move while it
  runs, a cache, and a directory written in many steps with a marker at the end.
* **catalog queries**: one command is many requests, to two services that change
  between any two of them, and a 404 means four things (no newer version, no
  such entry, no such version, no catalog). A table must be of one state of the
  cluster, an error must have a cause, and what an add records must lead the next
  upgrade back to where the installation is from, never backwards.
* **bootstrap**: a mutual exclusion made of `os.Mkdir`.
* **cluster install**: a deadline, a cancellation and an error racing each other.

The 40 hazards behind these sentences are listed, line by line, in
`PROJECT.json` with the properties that are aimed at each; where no property
covers one, the note says why.

## 2. Modules

    Trees --- Git --- RepoManager --- Upgrade ---- MCUpgrade, UpgradeProofs
      |        |                        : (implements)
      |        |                      Installation
      |        +------- PullRequest - MCPullRequest, PullRequestProofs
      |        +------- GitProofs (cited by UpgradeProofs and PullRequestProofs)
    ArtifactWriter ---- Installer --- MCInstaller, InstallerProofs, MarkerProofs
    Bootstrap --------- MCBootstrap, BootstrapProofs
    ClusterInstall ---- MCClusterInstall, ClusterInstallProofs
    Catalog ----------- Get --------- MCGet, GetProofs

**Trees.** A directory tree maps every path of `Files` to a blob or `Absent`; a
blob maps each of `Hunks`, the regions of a file git merges independently, to a
text. `MergeTree` is what `git merge` leaves in the work tree: per path, then
per region; one side changed wins, both changed alike is no conflict, changed
differently is `Unresolved` (conflict markers); of modify/delete git keeps the
modification. git itself is not in the repository, so this is modelled from how
`git.go` uses it, and was compared with the real binary (2.39) on each kind of
conflict. Rename detection is left out.

**Git.** A repository is one record (work tree, index, branches, HEAD, `ok`,
`conflicts`); every `CLIGit` method is a function from repositories to
repositories, so that Go's sequence of calls with `if err != nil { return }`
becomes function composition: after an error (`ok = FALSE`) the other commands do
nothing. The peculiarities that decide what happens are there: `commit -am`
records tracked paths only; `Commit` looks at `git status`, which also prints
untracked files, and fails when there is nothing else; `rm -rf .` fails on an
empty index; `add .` skips ignored paths; `checkout` refuses to overwrite
untracked files; only an output with "Merge conflict" counts as a conflict, so
a merge with nothing but modify/delete conflicts is an error.

**RepoManager.** The three operations as compositions, in the code's order.

**Upgrade.** One action per stretch of `Upgrade` between two calls to another
component: `BeginVersion`/`BeginLatest` (read the marker, resolve the version),
`CheckVersionExists`, `CreateBase`, `CopyUserChanges`, `InstallUpdate`,
`MergeUserChanges`, then the replacement, which is *not* atomic:
`RemoveInstalledFile` and `CopyBack` handle one file each, in any order. `Abort`
is an error or a kill at any point, including in the middle of the replacement.
The owner edits before, during and between upgrades; `Republish` changes the
catalog under a running upgrade. `Rendered(v)` is what the installer writes: the
catalog's tree with the paths of the manifests moved into the directory it is
written to, and the marker with what was read from the old marker. `inputs`
remembers the three trees the upgrade wrote, to state properties with.

**Installation.** The abstract specification of an upgrade: no branches, no
commits. The directory is the owner's until the new content is complete; a
reported success or conflict means that the directory *is* the three-way merge
of what the three fetches gave; a replacement cut short leaves each path old,
new or absent. `Upgrade` implements it (`KeepsPromise`, with `Stage` mapping the
phases).

**PullRequest.** The owner's clone is a `Git` record. The command's steps are
the calls of `CreatePullRequest`; the installation is written before (in full,
`AddProfile`, or in part, `AddProfileFails`). `Invocations` are the ways the
command is started: the usual one; `upgrade --create-pr`, which has no `--out`
and gives git an empty work tree; a relative `--out` from elsewhere. `StopEarly`
stands for every error that is not git's, and for a kill; `AnswerLost` for a
remote or code host that did its work without the client learning of it. The
owner edits own files and changes branches between runs. No path is ignored
here (`Ignorable = {}`).

**ArtifactWriter, Installer.** `Installer` has the recursion of
`collectArtifacts` as an explicit stack of calls, the clone cache, the
validations, and then the writer, one file per step; `ArtifactWriter` says which
files an artifact becomes and what they refer to. Repositories are pairs of URL
and branch or tag; `Move` changes what one points at during a run. A new run is a
new process with an empty cache that writes into the same directory. A chart
with neither path nor URL goes the way of one with a URL, as in the code. What is
copied goes where the path in the profile says (`CopyDir`): below the directory of
the artifact or its chart, or, for the path `.` (`whole`), into it, where files of
one name are replaced by the generated ones, which are written later. `content`
has the names of the files that are copied; `MarkerMeansComplete` excepts the
`Replaced` ones and no others.

**Bootstrap.** Every process is one command. `os.Mkdir` is a test-and-set;
creating the file and writing it are two steps, with a kill between or in them
(`Prefixes`). An add reads the file once (`GetConfig`) and decides (`Choose`).

**ClusterInstall.** `PreFlightCheck`, `Fetch`, `Apply` or `DryRun`, then `Wait`:
`Poll`/`PollFails`/`PollerStops` are the poller's goroutine, `event` the
unbuffered channel, `Listen`/`ListenError` the listener with the observer
`Notify`, `Deadline` the context's timer. Deployments lose and regain readiness
while this goes on. `beenReady` is a history variable. `Flags` are the command
lines that are possible. There are two places for the manifest: a temporary
directory, which `NewInstaller` makes, and that of `--out`, which it does not make
or check: its owner may have made it, an earlier install may have left a manifest
in it or removed it, and without it the download fails (`Fetch`). `Return` is the
deferred function: the directory is removed, or a part of it, or nothing, and in the
last two cases the owner is told (`told`) and the result of the install is what it
was. A kill can come before, in or after the removal.

**Catalog.** The questions and the answers: the service as a set of entries and
the three ways it is there (`Conditions`: up, failing, or not installed, when the
Kubernetes API answers 404 to everything); `DoRequest`, which tells 404 from the
other failures, and the four callers, which do different things with a 404;
`EntrySpec` and `DirectSpec`, what an installation records of its origin; and
`Summary`, how the list shows it. The catalog service is external: `At`,
`NewerThan` and `Matches` say what the code takes its answers to be. Versions are
numbers: only their order matters; a missing tag is `NoVersion`.

**Get.** The catalog, the repository, the cluster, one add or upgrade at a time
(`job`) and one get at a time. A get is one action per request: `Begin` with what
the flags select (`Plan`), `ListInstallations`, `AskUpdates` for one installation
after the other, `PrintInstalled`, `SearchCatalog` or `ShowVersion`; any of them
can fail. In between, `CatalogChanges` (a release published or withdrawn, the
service up, failing or gone), `Reconcile` (flux), `Delete`, and the jobs, each in
three requests: resolve the version, `CreateInstallationSpec`, `WriteMarker`.
`lived` and `clusters` are history: what the catalog and the cluster have been
since the get began.

The slips (`... == \* Slip:`) beside some definitions are plausible mistakes in
that place of the code; each is substituted in turn to make sure that some
property notices.

## 3. Runs

| Run | Asks | Bounds |
|---|---|---|
| `upgrade` | the branches hold what was written for them; merge complete before the swap; no change of either side lost; no path in the repository replaced by a temporary one; conflict list exact; implements `Installation` | 5 paths, 2 regions, 3 versions (v2 adds a manifest, v3 removes two), 2 edits, kills everywhere |
| `upgrade-life` | an unedited installation tracks the catalog through a series of upgrades; every upgrade ends | 3 upgrades, 2 reused temporary directories |
| `upgrade-unedited` | *violation*: upgrade of an unedited installation can be impossible | |
| `upgrade-ignored` | *violation*: `Commit` does not commit all | `.gitignore` in the installation |
| `pr` | proposals complete, untracked files stay local, base branch untouched, misdirected runs propose nothing, repeatable | 2 installations, 5 branches of which 2 can be named, 6 paths |
| `pr-sweeps` | *violation*: unrelated modified files are in the pull request | |
| `install` | artifacts are the tree in order; one commit per repository; marker means complete; nothing dangles; runs end | 3 repositories, nesting depth 3, 8 commits, 2 artifacts that are a whole profile directory (a chart and a kustomize one), 2 moves, 2 runs |
| `install-order` | *violation*: dependencies on nested profiles are only partly ordered | |
| `bootstrap` | one bootstrap at a time; what was announced stays; adds agree | 3 bootstraps, 3 adds, 1 removal |
| `bootstrap-empty` | *violation*: an add goes on without a GitRepository | |
| `cluster` | success means ready; directory gone or its owner told, or kept with what was applied; installs end; no goroutine left | 2 clusters, 2 deployments, 2 versions, 3 changes, 2 runs, 4 requests (temporary directory and `--out`, with and without `--keep`) |
| `get` | tables are of one moment; errors have a cause; records resolve; `--latest` goes forward; a get ends | 3 releases and an entry without tag, 2 installations (one made by hand), 6 kinds of get, 2 changes, 2 jobs, 1 get |

Why the bounds are enough. The merge is decided path by path and region by
region, so two regions and a path of each kind (marker, manifest with a path,
plain manifest, manifest added, manifest removed) give every combination of "same,
changed, added, removed" on the two sides; two edits are needed for two kinds of
conflict in one merge. Three upgrades are two inductive steps: the second one
starts from what the first wrote. Two runs of a command that fails are a run and
its retry. Three bootstraps allow one to fail, one to complete and one to come
late. Three changes of a cluster let a deployment become ready, lose it, and
another become ready. For a get, two changes are one that makes an answer wrong
and one that hides it (a release published and withdrawn, the service gone and
back); two jobs are an add and an upgrade of what it recorded; a get starts from
nothing, so one is enough, and two installations are one that is asked about
before a change and one after. Every action, and every disjunct of every next-state
relation, is taken in some run.

The configurations switch the deadlock check off: the programs end, and the
environment's steps are bounded.

## 4. Fairness

Only the program's own steps are fair, never the owner, the catalog or the
cluster. `Upgrade` and `Installer`: weak fairness of "a step or an error": a run
that is started runs on, if only to fail; none of its steps waits for a person.
`ClusterInstall`: commands and requests end, the listener and the poller are
scheduled, and the timer fires (`context.WithTimeout`, 15 minutes); no fairness
of `Poll`, for the poller need not report anything. That a download ends is an
assumption the code does not enforce (no timeout on `http.DefaultClient`).
`PullRequest`: a started run runs on, and, for `RetriesSucceed`, the owner
insists: as long as an installation is not proposed, and whenever no other run is
going on, the command is eventually started for it; errors are bounded by
`MaxMishaps`. `Get`: a get that was begun runs on; every request is answered,
if only with an error, and the cluster it lists is finite.

## 5. Proofs

TLAPS checks these for all values of the constants that satisfy the named
assumptions.

| Theorem | Says |
|---|---|
| `UpgradeProofs!TypeCorrect` | types of `Upgrade` |
| `UpgradeProofs!SwapInstallsTheMerge` | `MergeCompleteBeforeSwap` |
| `UpgradeProofs!OwnerKeepsChanges` | `UserChangesSurvive` |
| `UpgradeProofs!BranchesHoldInputs` | `RepositoryHoldsInputs` |
| `UpgradeProofs!NewVersionArrives` | `UpstreamChangesArrive` |
| `UpgradeProofs!PathsKept` | `PathsStayInRepository` |
| `UpgradeProofs!ConflictsListed` | `ConflictListExact`, for releases without conflict markers |
| `UpgradeProofs!UneditedTracksCatalog` | `PristineTracksCatalog`, for releases that are alike (below) |
| `UpgradeProofs!UpgradeKeepsPromise` | `Upgrade` implements `Installation` |
| `PullRequestProofs!TypeCorrect` | types of `PullRequest`; no run leaves a request behind |
| `PullRequestProofs!ProposalsComplete` | `ProposalComplete` |
| `PullRequestProofs!UntrackedLocal` | `UntrackedStaysLocal` |
| `PullRequestProofs!BaseMovesOnRequest` | `BaseOnlyOnRequest` |
| `PullRequestProofs!MisdirectedLocal` | `MisdirectedStaysLocal` |
| `InstallerProofs!TypeCorrect` | types of `Installer` |
| `InstallerProofs!OneCommit` | `OneCommitPerRepository` |
| `InstallerProofs!TreeCollected` | `CollectsTheTree` |
| `MarkerProofs!MarkerComplete` | `MarkerMeansComplete` |
| `MarkerProofs!ReferencesThere` | `NothingDangles` |
| `BootstrapProofs!TypeCorrect` | types of `Bootstrap`; one bootstrap at a time |
| `BootstrapProofs!CompletedStays` | `CompletedConfigStays` |
| `BootstrapProofs!Agreement` | `AddsAgree` |
| `ClusterInstallProofs!TypeCorrect` | types of `ClusterInstall`; no goroutine left after `Wait` |
| `ClusterInstallProofs!ReadyOnSuccess` | `SuccessMeansReady` |
| `ClusterInstallProofs!DirectoryAccounted` | `CleanedUp` |
| `GetProofs!TypeCorrect` | types of `Get`; a get forgets what it collected |
| `GetProofs!InstalledTableCorrect` | `InstalledTableWasTrue` |
| `GetProofs!CatalogTableCorrect` | `CatalogTableWasTrue` |
| `GetProofs!ErrorsCorrect` | `ErrorsHaveCause` |
| `GetProofs!RecordCorrect` | `RecordedVersionResolves` |
| `GetProofs!LatestForward` | `LatestMovesForward` |

**Upgrade.** `GitProofs` states what each command does to a *clean* repository
(work tree, index and HEAD agree): type lemmas for every command, then what
`CreateRepoWithContent`, `CreateBranchWithContentFromMain` and `MergeBranches`
leave behind, whatever they find. `UpgradeProofs` uses the invariant

    UpgradeInv == TypeInv /\ InputsByPhase /\ RepositoryHoldsInputs
                  /\ MergeCompleteBeforeSwap /\ MergeReported /\ CopyProgress

`MergeCompleteBeforeSwap` alone is not inductive: that the merge is right needs
the three branches to hold the three inputs (`RepositoryHoldsInputs`), which
needs to know which inputs have been written in which phase (`InputsByPhase`);
that the finished directory is the merge needs to know what has been copied so
far (`CopyProgress`: a path that is not on the list any more holds the merge's
blob); and that the outcome is the right one needs `conflicts` to be the content
and modify/delete conflicts of the three inputs (`MergeReported`). All of them
except the types hold under `NothingIgnored == Ignorable = {}`: with an ignore
file in the installation `RepositoryHoldsInputs` is false, which is what run
`upgrade-ignored` shows.

The properties of the finished directory then follow from the merge of one path
by cases: `MergeFileKeepsTheirs`, `MergeFileTakesOurs`, `MarkersAreConflicts`.
Two of them need one fact more about what goes into the merge. `PathsKept`: no
manifest of the base has a path in the repository (`BaseMoved`), for the base is
rendered into the temporary directory too; if it were not, the merge would take
the new version's path, which is one there. `ConflictsListed`: the new version
has no conflict markers (`MarkersInv`), which needs `ReleasesUnmarked`, that no
release has; otherwise an upgrade would install markers nobody is told of.

The refinement is then one step per action: each is a
step of `Installation` or a stutter.

`UneditedTracksCatalog` is about a series of upgrades: the base of each is rendered
from the marker the one before wrote, into another temporary directory. `Tracks`
says that the three trees of an upgrade nobody interferes with are two releases and
an installation of the first (`Pristine`), so that region by region the merge takes
the new release (`NextTracks`); what an upgrade that stops leaves behind is still
the installation it found, unless it stopped while replacing it (`torn`). It is
proved for `ReleasesUnmarked` and `ReleasesAlike`. The second is what `upgrade.go`
takes for granted of the releases of one profile: it renders the new version with
the settings of the installed one, so the marker may differ in the version only; a
manifest has a path in the repository in each release it is in or in none; and the
name of a temporary directory, which is made up during the upgrade, is in no
release. A `kustomize-flux.yaml` always has such a path (`artifact.go:366`); a
`HelmRelease.yaml` has one when its chart is in the profile's repository and none
when it comes from a chart repository (`artifact.go:131`), so the hypothesis excludes
a release that moves a chart from one to the other. There the property is false:
base, installation and new version have three different texts in that region, and
git leaves a conflict in an installation nobody edited, for the same reason as in
disagreement 1 of section 6. `RepoPath` is one text, so a release that moves what a
manifest points at to another path, which ends in the same conflict, is not modelled.
`MCUpgrade`
states both as an `ASSUME` about its catalogs.

**PullRequest.** `ProposalComplete` is a fact about the remote that is decided
three steps earlier. Its `Inv` follows the installation on its way, written,
staged, committed, pushed (`OnItsWay`), and says why nothing gets in between:
from `git checkout -b` to the commit HEAD is on the run's own branch, and no pull
request has that branch (`OnNewBranch`), for a branch that was proposed exists
in the clone and cannot be made again (`ProposedBranches`); what is staged or
committed was in the repository or is in an installation (`OnlyKnown`). The
base branch stays where it is because of `OnNewBranch`. A run that looks in the
wrong place never gets beyond `git add` (`Misdirected`). All of it for
`NothingIgnored`: `git add` would leave out an ignored file of the installation.

**Installer.** `Inv == TypeOK /\ FromHistory /\ FromClones`: what is in the
cache is a commit its branch or tag has pointed at, and what is collected is
from the cache, which never changes an entry during a run.

`TreeCollected` is about the recursion of `collectArtifacts`, for trees of any depth.
`CollectsTheTree` does not walk the tree again: it says that *some* assignment of
profiles to the directories above the artifacts is a tree (the root's profile at
the top, below each profile exactly those nested in it), that the artifacts are the
plain entries of the profiles in it, and that of two artifacts the first comes with
an earlier entry of a profile they are both below. So the proof needs no induction
over data. The invariant `TreeSoFar` says that there is such an assignment for
the directories known so far: those of the calls on the stack (`Open`) and those
above what is collected. `FramesInv`: each call is in the directory of the nested
profile the call below it waits for, and what is left of its entries is a suffix.
`SettledInv`: every entry a call is done with is collected, and so is all of a
directory no call is in any more. `CollectedInv`: what is collected is below an
entry some call is done with, which is why the next artifact comes after
(`NextComesAfter`) and why a directory is never entered twice (`CallIsNew`: it would
be below an entry with the name of the one the call waits for, and names in a
profile are different). `ReadDefinitionTree`, where the assignment grows, and
`ReturnTree`, where a call ends and the one below is done with one entry more, are the
two steps that matter; when the first call returns, `TreeSoFar` is
`CollectsTheTree` (`ReturnLast`). That profiles are not nested in themselves is not
assumed: such a run never hands anything to the writer.

`MarkerProofs` adds what the writer needs. `PlacesApart`: the directories of the
artifacts collected, of those still on the stack and of the nested profile that is
being fetched are pairwise apart (neither is the other or above it). Reading a
profile keeps this, because its names are different (`ValidateDefinition`); it
needs no induction over the tree of profiles, for the stack is all of the tree that
matters. So files of two artifacts never have one path (`FilesApart`); two of one
artifact only if it is a whole profile directory, one of them copied and the other
generated (`OnePlaceEach`). While anything copied is yet to be written, so is
everything generated (`GeneratedAfter`, from `FilesInOrder`): a copied file is never
written over a generated one that is in place, and only a `Replaced` one is lost
(`InPlaceKept`). `Progress` and `Marked` then carry what is on disk to the marker,
over the leftovers of earlier runs: the marker of an earlier run is never taken for
one of this run. `ReferencesThere` looks up each reference in the set of files
(`FilesEnumerated`); that a file is replaced does not matter to it, for its path is
still there.

**Bootstrap.** `Inv` adds to the two properties that the directory exists while
a bootstrap is beyond `Mkdir` (`DirectoryHeld`), that without removals the file,
once it names a repository, keeps it (`Settled`), and that what an add has read
(`ReadsSettled`) and chosen (`ChoiceFollows`) follows from it.

**ClusterInstall.** `Inv` says what the statuses in flight stand for: while an
install waits for the cluster it applied to, a status `current` in the channel
or in the collector is of a component in `beenReady` (`StatusesAreTrue`), and a
context that is cancelled, not expired, was cancelled when all of them were
(`CancelledWhenReady`); `AppliedAsFetched` relates manifest, cluster and request.
`Directory` says in which phases there is a manifest, and that it is the one that
was applied while the install waits. `DirectoryAccounted` is about the steps that
end an install, each of which goes through `Return`: `ReturnDirectory` has its
three ways out, of which the one that leaves the directory tells the owner.

**Get.** `Truthful` carries a get from its first request to its table: what there
is now is among what there was (`Moments`), where it is tells what it was asked
for and can have printed (`Stages`), and the rows so far are a table of the
installations that are done with (`Collected`). Each property is of the form
"there was a moment when", and stays true as the past grows (`TablesStayTrue`,
`CatalogStaysTrue`, `CausesStay`): that is the whole argument for what others do
meanwhile. `Resolved` is for the jobs: what is about to be recorded resolves, and
the target of an upgrade to the latest is newer than what its directory has, for
nobody else writes there (`JobsResolve`).

Model-checked only: the liveness properties (`Terminates`, `RetriesSucceed`), for
TLAPS does not handle fairness here. Every invariant and every action property of
the passing runs is a theorem. The five disagreements of section 6 are
counterexamples, which only the runs show.

## 6. Where the code and its documentation disagree

Five runs are there to show one disagreement each; `PROJECT.json` has the lines.

1. An upgrade of an installation nobody edited fails when the new version drops a
   manifest: the base is rendered with paths of the temporary directory, so git
   sees a file modified on one side and deleted on the other, whose output has no
   "Merge conflict" in it (`upgrade-unedited`).
2. Files the owner's `.gitignore` matches are lost by an upgrade
   (`upgrade-ignored`).
3. A pull request also has the owner's other modified files (`pr-sweeps`).
4. A dependency on or of a nested profile orders only a part (`install-order`).
5. An add can go on without a GitRepository (`bootstrap-empty`).

Modelled, and not the subject of a run: the manifests an upgrade *adds* keep the
path of the temporary directory; `upgrade --create-pr` always fails at its first
git command; a bootstrap that stops after `Mkdir` cannot be repeated; a version
given to `install` without the prefix `v` is ignored; `install --out` without
`--keep` removes the directory the owner named, and the same command then fails
because there is none; the `kustomization.yaml` of a kustomize artifact with the
path `.` is replaced by one that lists only the flux Kustomization, so that flux
applies this and not the artifact.

## 7. Not modelled, and why

Command line parsing beyond what decides a branch of the code, documentation
generation, formatting, logging and process start are I/O without state. The
release generator runs at build time, as one sequential function of the version
before (`nextDevelopmentIteration` there drops the result of `IncMinor`, which in
semver v3 returns the new version and leaves its receiver alone). The fakes and
the integration tests are not part of the program. Contents of manifests that
nothing refers to, and symbolic links and file modes in copied directories, are
left out; of what is copied there are the files of the directory itself, not those
in subdirectories (nothing is generated there), and a path in a profile leads into
its directory, not out of it (`..`). Other files of the owner in a directory given
with `--out` are not modelled. Left out, too, are values of entries no decision depends on (maintainer,
prerequisites). HTTP and the Kubernetes client are what the code uses of them: an
answer, a 404 or a failure.
In `Get` flux reconciles what is pushed; that an installation directory is pushed
as a whole is the subject of `PullRequest`.

Hazards without a property are in `PROJECT.json` with the reason: unbounded
recursion on a profile nested in itself, leftovers of an earlier add, a bootstrap
that cannot be repeated, and a server that never answers. The code promises nothing about them.

## 8. Plan

Done: trees and git; the upgrade with its contract and proofs; pull requests;
the installer and the writer; the bootstrap configuration; the cluster install;
the catalog, what is recorded of it, and `get`.

What remains, in this order:

1. A composition of `PullRequest` and `Bootstrap` for `add` from configuration to
   proposal, and of `Installer` as the source of `Rendered` in `Upgrade`.
2. `PullRequest` with ignore rules (`Ignorable` not empty), and what then remains of
   its properties.
