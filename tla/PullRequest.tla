---------------------------- MODULE PullRequest ----------------------------
(***************************************************************************)
(* `pctl add --create-pr` and `pctl upgrade --create-pr`: the commands     *)
(* write an installation into the owner's clone of a repository and then   *)
(* propose it (cmd/pctl/add.go, CreatePullRequest in                       *)
(* pkg/catalog/install.go, pkg/git/git.go, pkg/git/scm_git.go).            *)
(*                                                                         *)
(* The owner works in the same clone: there are tracked files that are     *)
(* modified, and files never added.  A run can fail, or be killed, at each *)
(* step, and the answer of the remote or of the code host can be lost; the *)
(* owner runs the command again.                                           *)
(***************************************************************************)
EXTENDS Git, Naturals

CONSTANTS
    Base,            \* --pr-base
    Installations,   \* directories of installations: sets of paths
    Generated,       \* what the profile generates there: [Installations -> Tree]
    Tracked0,        \* what the repository held before pctl
    OwnFiles,        \* files of the owner, tracked or not
    OwnBlobs,        \* what the owner writes into them
    Named,           \* branches the owner may give as --pr-branch
    Invocations,     \* how the command is started, see below
    MaxEdits, MaxMishaps, MaxRuns   \* bounds on the environment

\* Requests are made the usual way, in the repository; by upgrade, which has no
\* --out flag, so that git gets the empty string for a work tree; or from another
\* directory with a relative --out, which git then looks for inside itself.
Requests == [install: Installations, branch: Branches, by: Invocations]
NoRequest == Absent
PullRequests == [head: Branches, install: Installations]

ASSUME PullRequestAssumption ==
    /\ Base \in Branches
    /\ Installations \subseteq SUBSET Files
    /\ Generated \in [Installations -> Tree]
    /\ \A i \in Installations : Present(Generated[i]) \subseteq i /\ i \cap OwnFiles = {}
    /\ Tracked0 \in Tree
    /\ OwnFiles \subseteq Files /\ OwnBlobs \subseteq Blob /\ Named \subseteq Branches
    /\ Invocations \subseteq {"usual", "upgrade", "relative out"}
    /\ NoRequest \notin Requests

ASSUME BoundAssumption == {MaxEdits, MaxMishaps, MaxRuns} \subseteq Nat

VARIABLES
    repo,      \* the owner's clone
    remote,    \* the branches of the remote
    prs,       \* the pull requests that are open
    pc,        \* where the command is
    req,       \* what it was asked for
    edits, mishaps, runs   \* environment steps so far

envVars == <<edits, mishaps, runs>>
vars == <<repo, remote, prs, pc, req, envVars>>

Phases == {"idle", "written", "branched", "added", "committed", "pushed"}

Init ==
    /\ repo = [work |-> Tracked0, index |-> Tracked0,
               branch |-> [b \in Branches |-> IF b = Base THEN Tracked0 ELSE NoCommit],
               head |-> Base, ok |-> TRUE, conflicts |-> {}]
    /\ remote = repo.branch
    /\ prs = {}
    /\ pc = "idle" /\ req = NoRequest
    /\ edits = 0 /\ mishaps = 0 /\ runs = 0

-----------------------------------------------------------------------------
\* The owner edits, creates or deletes a file of their own at any time.
OwnerEdit(f) ==
    /\ edits < MaxEdits /\ edits' = edits + 1
    /\ \E blob \in (OwnBlobs \cup {Absent}) \ {repo.work[f]} :
          repo' = [repo EXCEPT !.work[f] = blob]
    /\ UNCHANGED <<remote, prs, pc, req, mishaps, runs>>

\* Between runs the owner, with nothing left to commit, goes back to a branch.
OwnerCheckout(b) ==
    /\ pc = "idle" /\ b # repo.head
    /\ repo.work = repo.index /\ repo.index = HeadTree(repo)
    /\ repo.branch[b] # NoCommit
    /\ repo' = Checkout(repo, b)
    /\ UNCHANGED <<remote, prs, pc, req, envVars>>

-----------------------------------------------------------------------------
\* Without --pr-branch the branch has part of a new UUID in its name: nobody has
\* used it.  Which of the unused names it is makes no difference.
Unused == {b \in Branches \ Named : NoCommit = repo.branch[b] /\ NoCommit = remote[b]}
Generatable == IF Unused = {} THEN {} ELSE {CHOOSE b \in Unused : TRUE}

\* addProfile (or Upgrade): the installation is written over what is there.
AddProfile(i, b, by) ==
    /\ pc = "idle"
    /\ runs < MaxRuns /\ runs' = runs + 1
    /\ b \in Named \cup Generatable
    /\ repo' = [repo EXCEPT !.work = Overlay(repo.work, Generated[i])]
    /\ req' = [install |-> i, branch |-> b, by |-> by]
    /\ pc' = "written"
    /\ UNCHANGED <<remote, prs, edits, mishaps>>

\* The command returns; what git did to the clone stays.
Return(r) ==
    /\ repo' = [r EXCEPT !.ok = TRUE]
    /\ pc' = "idle" /\ req' = NoRequest

\* Slip: the error of a git command is not returned, and the next one is run.
GitStepUnchecked(next, r) ==
    repo' = r /\ pc' = next /\ UNCHANGED <<req, remote, prs, envVars>>

\* A git command: an error ends the run.
GitStep(next, r) ==
    /\ \/ r.ok /\ repo' = r /\ pc' = next /\ UNCHANGED req
       \/ ~r.ok /\ Return(r)
    /\ UNCHANGED <<remote, prs, envVars>>

\* Slip: no new branch when the command runs on the base branch's checkout.
CreatePullRequestBranchOnHead ==
    /\ pc = "written"
    /\ GitStep("branched", IF repo.head = Base THEN repo ELSE CreateBranch(repo, req.branch))

CreatePullRequestBranch ==
    /\ pc = "written"
    /\ GitStep("branched",
               IF req.branch = Base THEN repo
               ELSE IF req.by = "upgrade" THEN Failed(repo)
               ELSE CreateBranch(repo, req.branch))

\* Slip: git add . in place of the installation's directory.
AddEverything ==
    pc = "branched" /\ GitStep("added", Add(repo))

\* Slip: the error of git add dropped.
AddDirectoryUnchecked ==
    /\ pc = "branched"
    /\ GitStep("added", IF req.by = "usual" THEN AddPaths(repo, req.install) ELSE repo)

AddDirectory ==
    /\ pc = "branched"
    /\ GitStep("added",
               IF req.by = "usual" THEN AddPaths(repo, req.install) ELSE Failed(repo))

CommitChanges == pc = "added" /\ GitStep("committed", Commit(repo))

\* The remote takes the branch: nobody else pushes to it, so it is a fast
\* forward.  A branch that does not exist cannot be pushed.
Pushed == [remote EXCEPT ![req.branch] = repo.branch[req.branch]]

Push ==
    /\ pc = "committed"
    /\ IF repo.branch[req.branch] = NoCommit
       THEN Return(repo) /\ UNCHANGED remote
       ELSE remote' = Pushed /\ pc' = "pushed" /\ UNCHANGED <<repo, req>>
    /\ UNCHANGED <<prs, envVars>>

\* The code host refuses a pull request without commits of its own, and a
\* second one for the same branch.
Acceptable ==
    /\ remote[req.branch] \notin {NoCommit, remote[Base]}
    /\ \A p \in prs : p.head # req.branch

Opened == prs \cup {[head |-> req.branch, install |-> req.install]}

OpenPullRequest ==
    /\ pc = "pushed"
    /\ IF Acceptable
       THEN prs' = Opened /\ Return(repo)
       ELSE Return(repo) /\ UNCHANGED prs
    /\ UNCHANGED <<remote, envVars>>

-----------------------------------------------------------------------------
\* A run stops early: a missing --pr-repo or token once the files are written
\* (add.go:276, scm_git.go:37), an error of a command, a kill, ...
Mishap == mishaps < MaxMishaps /\ mishaps' = mishaps + 1

StopEarly ==
    /\ pc # "idle"
    /\ Mishap
    /\ Return(repo)
    /\ UNCHANGED <<remote, prs, edits, runs>>

\* ... a profile that could be written in part only ...
AddProfileFails(i) ==
    /\ pc = "idle"
    /\ Mishap
    /\ runs < MaxRuns /\ runs' = runs + 1
    /\ \E done \in SUBSET i :
          repo' = [repo EXCEPT !.work =
                     [f \in Files |-> IF f \in done THEN Overlay(repo.work, Generated[i])[f]
                                                    ELSE repo.work[f]]]
    /\ UNCHANGED <<remote, prs, pc, req, edits>>

\* ... or a remote, or a code host, that did its part and whose answer is lost.
AnswerLost ==
    /\ Mishap
    /\ Return(repo)
    /\ UNCHANGED <<edits, runs>>
    /\ \/ /\ pc = "committed" /\ repo.branch[req.branch] # NoCommit
          /\ remote' = Pushed /\ UNCHANGED prs
       \/ /\ pc = "pushed" /\ Acceptable
          /\ prs' = Opened /\ UNCHANGED remote

Step ==
    \/ CreatePullRequestBranch \/ AddDirectory \/ CommitChanges
    \/ Push \/ OpenPullRequest

Next ==
    \/ Step
    \/ \E i \in Installations :
          \/ AddProfileFails(i)
          \/ \E b \in Branches, by \in Invocations : AddProfile(i, b, by)
    \/ \E f \in OwnFiles : OwnerEdit(f)
    \/ \E b \in Branches : OwnerCheckout(b)
    \/ StopEarly \/ AnswerLost

Spec == Init /\ [][Next]_vars

\* A run that is started runs on; and the owner runs the command again for an
\* installation that is not proposed yet.
Proposed(i) == \E p \in prs : p.install = i

TryAgain(i) == ~Proposed(i) /\ \E b \in Generatable : AddProfile(i, b, "usual")

FairSpec ==
    /\ Spec /\ WF_vars(Step)
    /\ \A i \in Installations : WF_vars(TryAgain(i))

-----------------------------------------------------------------------------
(* Properties *)

\* Every variable holds a value of its kind, a request is remembered exactly as
\* long as a run works on it, and no run goes on after a command that failed.
TypeOK ==
    /\ repo \in Repository
    /\ remote \in [Branches -> Tree \cup {NoCommit}]
    /\ prs \in SUBSET PullRequests
    /\ pc \in Phases
    /\ req \in Requests \cup {NoRequest}
    /\ pc = "idle" <=> req = NoRequest
    /\ repo.ok
    /\ edits \in 0..MaxEdits /\ mishaps \in 0..MaxMishaps /\ runs \in 0..MaxRuns

\* install.go:123-148.  The branch of an open pull request holds, on the remote,
\* the whole installation it was opened for, whatever failed and was run again
\* before and after it.
ProposalComplete ==
    \A p \in prs : \A f \in Present(Generated[p.install]) :
        remote[p.head] # NoCommit /\ remote[p.head][f] = Generated[p.install][f]

\* install.go:132.  Files the owner never added stay on the owner's machine: all
\* that reaches the remote was in the repository or is in an installation.
UntrackedStaysLocal ==
    \A b \in Branches :
        remote[b] # NoCommit =>
            Present(remote[b]) \subseteq Present(Tracked0) \cup UNION Installations

\* git.go:134-138.  The base branch, in the clone and on the remote, moves only
\* in a run that was asked to work on the base branch itself.
BaseOnlyOnRequest ==
    [][(repo'.branch[Base] # repo.branch[Base] \/ remote'[Base] # remote[Base])
         => req # NoRequest /\ req.branch = Base]_vars

\* add.go:274-280, git.go:51-97.  A run whose git looks for the installation in
\* the wrong place proposes nothing: it does not go on to commit and propose what
\* else the owner has changed in the clone.
MisdirectedStaysLocal ==
    [][(remote' # remote \/ prs' # prs) => req # NoRequest /\ req.by = "usual"]_vars

\* A failed run does not stand in the way of the next ones: an owner who insists,
\* in the usual way and leaving the name of the branch to pctl, gets every pull
\* request, unless there is a file that was never added (git status shows it, and
\* git commit has nothing else to record).
Insists ==
    req # NoRequest =>
        req.by = "usual" /\ req.branch \notin Named /\ ~Proposed(req.install)

NeverAdded == {f \in OwnFiles : repo.work[f] # Absent /\ repo.index[f] = Absent}

RetriesSucceed ==
    []Insists => \A i \in Installations : <>(Proposed(i) \/ NeverAdded # {})

-----------------------------------------------------------------------------
(* Claims of the repository that the code does not keep *)

\* docs/release_notes/v0.7.0.md:5: "Only add the installation directory when
\* creating a PR".
OnlyInstallationAdded ==
    \A p \in prs : \A f \in Files \ UNION Installations :
        remote[p.head][f] = Tracked0[f]
=============================================================================
