------------------------- MODULE PullRequestProofs -------------------------
(***************************************************************************)
(* Whatever fails and is run again: when nothing is ignored, the branch of *)
(* a pull request holds the installation it was opened for; what was never *)
(* added stays local; and the base branch moves only on request.           *)
(***************************************************************************)
EXTENDS PullRequest, GitProofs

\* A run that works on a branch other than the base branch.
Branching(phases) == pc \in phases /\ req.branch # Base

\* HEAD is never on a branch without commits.
HeadBorn == repo.branch[repo.head] # NoCommit

\* The run is on the branch it made, and nobody has proposed that one before.
OnNewBranch ==
    /\ Branching({"branched", "added"}) => repo.head = req.branch
    /\ Branching({"branched", "added", "committed", "pushed"}) =>
          /\ repo.branch[req.branch] # NoCommit
          /\ \A p \in prs : p.head # req.branch

\* A branch that was proposed cannot be made again.
ProposedBranches ==
    \A p \in prs :
        /\ p.head # Base /\ repo.branch[p.head] # NoCommit
        /\ p.install \in Installations

\* The installation on its way: written, staged, committed, pushed.
Holds(t, i) == \A f \in Present(Generated[i]) : t[f] = Generated[i][f]
OnItsWay ==
    /\ pc \in {"written", "branched", "added"} => Holds(repo.work, req.install)
    /\ pc = "added" => Holds(repo.index, req.install)
    /\ Branching({"committed", "pushed"}) => Holds(repo.branch[req.branch], req.install)
    /\ Branching({"pushed"}) => remote[req.branch] = repo.branch[req.branch]

\* What is staged or committed was in the repository or is in an installation.
Known == Present(Tracked0) \cup UNION Installations
OnlyKnown ==
    /\ Present(repo.index) \subseteq Known
    /\ \A b \in Branches : repo.branch[b] # NoCommit => Present(repo.branch[b]) \subseteq Known

Inv ==
    /\ TypeOK /\ HeadBorn /\ OnNewBranch /\ ProposedBranches /\ OnItsWay
    /\ OnlyKnown /\ UntrackedStaysLocal /\ ProposalComplete

-----------------------------------------------------------------------------
(* What the steps do to the clone *)

LEMMA GeneratedFacts ==
    /\ Base \in Branches /\ Tracked0 \in Tree /\ NoCommit \notin Tree
    /\ \A i \in Installations :
          /\ Generated[i] \in Tree /\ i \subseteq Files
          /\ Present(Generated[i]) \subseteq i /\ i \cap OwnFiles = {}
  BY PullRequestAssumption, GitAssumption

LEMMA InitInv ==
    ASSUME Init
    PROVE  Inv
<1>1. repo \in Repository /\ remote \in [Branches -> Tree \cup {NoCommit}]
  BY GeneratedFacts DEF Init, Repository
<1>2. TypeOK
  <2>1. 0 \in 0..MaxEdits /\ 0 \in 0..MaxMishaps /\ 0 \in 0..MaxRuns
    BY BoundAssumption
  <2>2. prs \in SUBSET PullRequests /\ pc \in Phases /\ repo.ok
    BY DEF Init, Phases
  <2>3. QED
    BY <1>1, <2>1, <2>2 DEF Init, TypeOK
<1>3. \A b \in Branches : repo.branch[b] # NoCommit => repo.branch[b] = Tracked0
  BY DEF Init
<1>4. QED
  BY <1>2, <1>3, GeneratedFacts
     DEF Init, Inv, HeadBorn, OnNewBranch, Branching, ProposedBranches, OnItsWay, OnlyKnown,
         Known, UntrackedStaysLocal, ProposalComplete

\* Return keeps what git did, and a failed command did nothing.
LEMMA ReturnRepo ==
    ASSUME NEW r \in Repository, Return(r)
    PROVE  /\ repo' \in Repository /\ repo'.ok
           /\ repo'.work = r.work /\ repo'.index = r.index
           /\ repo'.branch = r.branch /\ repo'.head = r.head
           /\ pc' = "idle" /\ req' = NoRequest
  BY DEF Return, Repository

LEMMA FailedRepo ==
    ASSUME NEW r \in Repository
    PROVE  /\ Failed(r) \in Repository /\ ~Failed(r).ok
           /\ Failed(r).work = r.work /\ Failed(r).index = r.index
           /\ Failed(r).branch = r.branch /\ Failed(r).head = r.head
  BY DEF Failed, Repository

\* A command that fails leaves the clone as it is; one that does not ...
LEMMA BranchRepo ==
    ASSUME TypeOK, CreatePullRequestBranch
    PROVE  /\ repo' \in Repository /\ repo'.ok
           /\ repo'.work = repo.work /\ repo'.index = repo.index
           /\ \/ /\ pc' = "idle" /\ req' = NoRequest
                 /\ repo'.branch = repo.branch /\ repo'.head = repo.head
              \/ /\ pc' = "branched" /\ req' = req /\ req.branch = Base
                 /\ repo'.branch = repo.branch /\ repo'.head = repo.head
              \/ /\ pc' = "branched" /\ req' = req /\ req.branch # Base
                 /\ repo.branch[req.branch] = NoCommit
                 /\ repo'.branch = [repo.branch EXCEPT ![req.branch] = repo.branch[repo.head]]
                 /\ repo'.head = req.branch
<1>1. repo \in Repository /\ repo.ok /\ req \in Requests /\ req.branch \in Branches
  BY DEF TypeOK, CreatePullRequestBranch, Requests
<1>2. CASE req.branch = Base
  BY <1>1, <1>2 DEF CreatePullRequestBranch, GitStep
<1>3. CASE req.branch # Base /\ (req.by = "upgrade" \/ repo.branch[req.branch] # NoCommit)
  <2>1. GitStep("branched", Failed(repo))
    BY <1>1, <1>3 DEF CreatePullRequestBranch, CreateBranch
  <2>2. QED
    BY <1>1, <2>1, FailedRepo, ReturnRepo DEF GitStep
<1>4. CASE req.branch # Base /\ req.by # "upgrade" /\ repo.branch[req.branch] = NoCommit
  <2> DEFINE r == [repo EXCEPT !.branch[req.branch] = repo.branch[repo.head],
                               !.head = req.branch]
  <2>1. GitStep("branched", r)
    BY <1>1, <1>4 DEF CreatePullRequestBranch, CreateBranch
  <2>2. /\ r \in Repository /\ r.ok /\ r.work = repo.work /\ r.index = repo.index
        /\ r.branch = [repo.branch EXCEPT ![req.branch] = repo.branch[repo.head]]
        /\ r.head = req.branch
    BY <1>1 DEF Repository
  <2> HIDE DEF r
  <2>3. QED
    BY <1>4, <2>1, <2>2 DEF GitStep
<1>5. QED
  BY <1>2, <1>3, <1>4

\* ... stages the work tree's version of the installation ...
LEMMA AddRepo ==
    ASSUME NothingIgnored, TypeOK, AddDirectory
    PROVE  /\ repo' \in Repository /\ repo'.ok
           /\ repo'.work = repo.work /\ repo'.branch = repo.branch /\ repo'.head = repo.head
           /\ \/ pc' = "idle" /\ req' = NoRequest /\ repo'.index = repo.index
              \/ /\ pc' = "added" /\ req' = req
                 /\ repo'.index = [f \in Files |-> IF f \in req.install THEN repo.work[f]
                                                                        ELSE repo.index[f]]
<1>1. repo \in Repository /\ repo.ok
  BY DEF TypeOK
<1> DEFINE staged == [f \in Files |-> IF f \in req.install THEN repo.work[f] ELSE repo.index[f]]
           r == [repo EXCEPT !.index = staged]
<1>2. Staged(repo) = repo.work
  BY <1>1 DEF Staged, Ignored, NothingIgnored, Repository, Tree
<1>3. AddPaths(repo, req.install) \in {r, Failed(repo)}
  BY <1>1, <1>2 DEF AddPaths
<1>4. staged \in Tree
  BY <1>1 DEF Repository, Tree
<1>5. /\ r \in Repository /\ r.ok /\ r.work = repo.work /\ r.branch = repo.branch
      /\ r.head = repo.head /\ r.index = staged
  BY <1>1, <1>4 DEF Repository
<1> HIDE DEF r, staged
<1>6. \/ GitStep("added", r)
      \/ GitStep("added", Failed(repo))
  BY <1>3 DEF AddDirectory
<1>7. QED
  BY <1>1, <1>5, <1>6, FailedRepo, ReturnRepo DEF GitStep, staged

\* ... or records the tracked files in the branch that is checked out.
LEMMA CommitRepo ==
    ASSUME TypeOK, CommitChanges
    PROVE  /\ repo' \in Repository /\ repo'.ok
           /\ repo'.work = repo.work /\ repo'.head = repo.head
           /\ \/ /\ pc' = "idle" /\ req' = NoRequest
                 /\ repo'.index = repo.index /\ repo'.branch = repo.branch
              \/ /\ pc' = "committed" /\ req' = req
                 /\ repo'.index = repo.index /\ repo'.branch = repo.branch
                 /\ repo.index = HeadTree(repo)
              \/ /\ pc' = "committed" /\ req' = req
                 /\ repo'.index = Tracked(repo)
                 /\ repo'.branch = [repo.branch EXCEPT ![repo.head] = Tracked(repo)]
<1>1. repo \in Repository /\ repo.ok
  BY DEF TypeOK
<1>2. GitStep("committed", Commit(repo))
  BY DEF CommitChanges
<1>3. CASE ~HasChanges(repo)
  <2>1. Commit(repo) = repo /\ repo.index = HeadTree(repo)
    BY <1>3 DEF Commit, HasChanges
  <2>2. QED
    BY <1>1, <1>2, <2>1 DEF GitStep
<1>4. CASE HasChanges(repo) /\ Tracked(repo) = HeadTree(repo)
  <2>1. Commit(repo) = Failed(repo)
    BY <1>1, <1>4 DEF Commit
  <2>2. QED
    BY <1>1, <1>2, <2>1, FailedRepo, ReturnRepo DEF GitStep
<1>5. CASE HasChanges(repo) /\ Tracked(repo) # HeadTree(repo)
  <2> DEFINE r == [repo EXCEPT !.index = Tracked(repo), !.branch[repo.head] = Tracked(repo)]
  <2>1. Commit(repo) = r
    BY <1>1, <1>5 DEF Commit
  <2>2. Tracked(repo) \in Tree
    BY <1>1 DEF Tracked, Repository, Tree
  <2>3. /\ r \in Repository /\ r.ok /\ r.work = repo.work /\ r.head = repo.head
        /\ r.index = Tracked(repo)
        /\ r.branch = [repo.branch EXCEPT ![repo.head] = Tracked(repo)]
    BY <1>1, <2>2 DEF Repository
  <2> HIDE DEF r
  <2>4. QED
    BY <1>2, <2>1, <2>3 DEF GitStep
<1>6. QED
  BY <1>3, <1>4, <1>5
-----------------------------------------------------------------------------
(* The owner's steps *)

LEMMA OwnerEditInv ==
    ASSUME Inv, NEW f \in OwnFiles, OwnerEdit(f)
    PROVE  Inv'
<1>1. repo \in Repository /\ f \in Files
  BY PullRequestAssumption DEF Inv, TypeOK
<1>2. PICK blob \in OwnBlobs \cup {Absent} : repo' = [repo EXCEPT !.work[f] = blob]
  BY DEF OwnerEdit
<1>3. blob \in Blob \cup {Absent}
  BY PullRequestAssumption
<1>4. /\ repo' \in Repository /\ repo'.ok = repo.ok
      /\ repo'.index = repo.index /\ repo'.branch = repo.branch /\ repo'.head = repo.head
      /\ \A g \in Files \ {f} : repo'.work[g] = repo.work[g]
  BY <1>1, <1>2, <1>3 DEF Repository, Tree
<1>5. UNCHANGED <<remote, prs, pc, req>>
  BY DEF OwnerEdit
<1>6. TypeOK'
  <2>1. edits' \in 0..MaxEdits
    BY BoundAssumption DEF OwnerEdit, Inv, TypeOK
  <2>2. QED
    BY <1>4, <1>5, <2>1 DEF OwnerEdit, Inv, TypeOK
<1>7. OnItsWay'
  <2>1. \A i \in Installations : \A g \in Present(Generated[i]) : g \in Files \ {f}
    BY GeneratedFacts
  <2>2. \A i \in Installations : Holds(repo.work, i) => Holds(repo'.work, i)
    BY <1>4, <2>1 DEF Holds
  <2>3. pc \in {"written", "branched", "added"} => req.install \in Installations
    BY DEF Inv, TypeOK, Requests
  <2>4. QED
    BY <1>4, <1>5, <2>2, <2>3 DEF Inv, OnItsWay, Branching
<1>8. QED
  BY <1>4, <1>5, <1>6, <1>7 DEF Inv, HeadBorn, OnNewBranch, Branching, ProposedBranches,
                                OnlyKnown, UntrackedStaysLocal, ProposalComplete

LEMMA OwnerCheckoutInv ==
    ASSUME Inv, NEW b \in Branches, OwnerCheckout(b)
    PROVE  Inv'
<1>1. repo \in Repository /\ repo' = Checkout(repo, b) /\ repo.ok /\ repo.branch[b] \in Tree
  BY DEF OwnerCheckout, Inv, TypeOK, Repository
<1>2. repo' \in Repository
  BY <1>1, CheckoutType
<1>3. ~Clobbers(repo, repo.branch[b])
  BY DEF OwnerCheckout, Clobbers, Inv, TypeOK, Repository, Tree
<1>4. /\ repo'.ok /\ repo'.branch = repo.branch /\ repo'.head = b
      /\ repo'.index = Replace(repo, repo.index, repo.branch[b])
  BY <1>1, <1>3, GitAssumption DEF Checkout, Repository, OwnerCheckout
<1>5. Present(repo'.index) \subseteq Known
  <2>1. Present(repo'.index) \subseteq Present(repo.index) \cup Present(repo.branch[b])
    BY <1>1, <1>4 DEF Replace, Present
  <2>2. QED
    BY <1>1, <2>1, GeneratedFacts DEF Inv, OnlyKnown
<1>6. pc = "idle" /\ UNCHANGED <<remote, prs, pc, req, envVars>>
  BY DEF OwnerCheckout
<1>7. TypeOK'
  BY <1>2, <1>4, <1>6 DEF Inv, TypeOK, envVars
<1>8. repo'.branch[repo'.head] # NoCommit
  BY <1>4 DEF OwnerCheckout
<1>9. QED
  BY <1>4, <1>5, <1>6, <1>7, <1>8
     DEF Inv, HeadBorn, OnNewBranch, Branching, ProposedBranches, OnItsWay, OnlyKnown,
         UntrackedStaysLocal, ProposalComplete

LEMMA AddProfileInv ==
    ASSUME Inv, NEW i \in Installations,
           \/ AddProfileFails(i)
           \/ \E b \in Branches, by \in Invocations : AddProfile(i, b, by)
    PROVE  Inv'
<1>1. /\ repo \in Repository /\ Generated[i] \in Tree
      /\ Overlay(repo.work, Generated[i]) \in Tree
  BY GeneratedFacts, OverlayType DEF Inv, TypeOK, Repository
<1>2. PICK t \in Tree :
         /\ repo' = [repo EXCEPT !.work = t]
         /\ pc' = "written" => t = Overlay(repo.work, Generated[i])
  <2>1. CASE AddProfileFails(i)
    <3>1. PICK done \in SUBSET i :
             repo' = [repo EXCEPT !.work =
                        [f \in Files |-> IF f \in done THEN Overlay(repo.work, Generated[i])[f]
                                                       ELSE repo.work[f]]]
      BY <2>1 DEF AddProfileFails
    <3>2. [f \in Files |-> IF f \in done THEN Overlay(repo.work, Generated[i])[f]
                                         ELSE repo.work[f]] \in Tree
      BY <1>1 DEF Tree, Repository
    <3>3. pc' = "idle"
      BY <2>1 DEF AddProfileFails
    <3>4. QED
      BY <3>1, <3>2, <3>3
  <2>2. CASE ~AddProfileFails(i)
    BY <1>1, <2>2 DEF AddProfile
  <2>3. QED
    BY <2>1, <2>2
<1>3. /\ repo' \in Repository /\ repo'.ok = repo.ok /\ repo'.work = t
      /\ repo'.index = repo.index /\ repo'.branch = repo.branch /\ repo'.head = repo.head
  BY <1>1, <1>2 DEF Repository
<1>4. /\ UNCHANGED <<remote, prs, edits>>
      /\ \/ pc' = "idle" /\ req' = NoRequest
         \/ pc' = "written" /\ req' \in Requests /\ req'.install = i
  BY DEF AddProfileFails, AddProfile, Requests, Inv, TypeOK
<1>5. TypeOK'
  <2>1. runs' \in 0..MaxRuns /\ mishaps' \in 0..MaxMishaps
    BY BoundAssumption DEF AddProfileFails, AddProfile, Mishap, Inv, TypeOK
  <2>2. pc' \in Phases /\ (pc' = "idle" <=> req' = NoRequest)
    BY <1>4, PullRequestAssumption DEF Phases
  <2>3. QED
    BY <1>3, <1>4, <2>1, <2>2 DEF Inv, TypeOK
<1>6. pc' = "written" => Holds(repo'.work, i)
  BY <1>1, <1>2, <1>3 DEF Holds, Overlay, Present
<1>7. QED
  BY <1>3, <1>4, <1>5, <1>6
     DEF Inv, HeadBorn, OnNewBranch, Branching, ProposedBranches, OnItsWay, OnlyKnown,
         UntrackedStaysLocal, ProposalComplete

-----------------------------------------------------------------------------
(* The steps of a run *)

LEMMA RunTypes ==
    ASSUME Inv, pc # "idle"
    PROVE  /\ repo \in Repository /\ repo.ok
           /\ repo.branch \in [Branches -> Tree \cup {NoCommit}]
           /\ remote \in [Branches -> Tree \cup {NoCommit}]
           /\ req \in Requests /\ req # NoRequest
           /\ req.branch \in Branches /\ req.install \in Installations
           /\ Base \in Branches
  BY GeneratedFacts DEF Inv, TypeOK, Requests, Repository

\* A run may end wherever it is.
LEMMA EndInv ==
    ASSUME Inv, pc' = "idle", req' = NoRequest, repo' \in Repository, repo'.ok,
           repo'.index = repo.index, repo'.branch = repo.branch, repo'.head = repo.head,
           UNCHANGED <<remote, prs, edits, runs>>, mishaps' \in 0..MaxMishaps
    PROVE  Inv'
<1>1. TypeOK'
  BY DEF Inv, TypeOK, Phases
<1>2. QED
  BY <1>1 DEF Inv, HeadBorn, OnNewBranch, Branching, ProposedBranches, OnItsWay, OnlyKnown,
              UntrackedStaysLocal, ProposalComplete

LEMMA CreateBranchInv ==
    ASSUME Inv, CreatePullRequestBranch
    PROVE  Inv'
<1>1. /\ pc = "written" /\ TypeOK
      /\ UNCHANGED <<remote, prs, edits, mishaps, runs>> /\ mishaps \in 0..MaxMishaps
  BY DEF Inv, TypeOK, CreatePullRequestBranch, GitStep, envVars
<1>2. CASE pc' = "idle"
  BY <1>1, <1>2, BranchRepo, EndInv
<1>3. CASE pc' # "idle"
  <2>1. /\ repo' \in Repository /\ repo'.ok
        /\ repo'.work = repo.work /\ repo'.index = repo.index
        /\ pc' = "branched" /\ req' = req
    BY <1>1, <1>3, BranchRepo
  <2>2. TypeOK'
    BY <1>1, <2>1 DEF TypeOK, Phases
  <2>3. Holds(repo'.work, req.install)
    BY <1>1, <2>1 DEF Inv, OnItsWay
  <2>4. CASE req.branch = Base
    <3>1. repo'.branch = repo.branch /\ repo'.head = repo.head
      BY <1>1, <1>3, <2>4, BranchRepo
    <3>2. QED
      BY <1>1, <2>1, <2>2, <2>3, <2>4, <3>1
         DEF Inv, HeadBorn, OnNewBranch, Branching, ProposedBranches, OnItsWay, OnlyKnown,
             UntrackedStaysLocal, ProposalComplete
  <2>5. CASE req.branch # Base
    <3>1. /\ repo.branch[req.branch] = NoCommit /\ repo'.head = req.branch
          /\ repo'.branch = [repo.branch EXCEPT ![req.branch] = repo.branch[repo.head]]
      BY <1>1, <1>3, <2>5, BranchRepo
    <3>2. repo.head \in Branches /\ repo.branch[repo.head] # NoCommit
      BY <1>1 DEF Inv, HeadBorn, TypeOK, Repository
    <3>3. /\ repo'.branch[req.branch] = repo.branch[repo.head]
          /\ \A b \in Branches \ {req.branch} : repo'.branch[b] = repo.branch[b]
      BY <1>1, <3>1, RunTypes
    <3>4. HeadBorn'
      BY <3>1, <3>2, <3>3 DEF HeadBorn
    <3>5. \A p \in prs : p.head \in Branches /\ p.head # req.branch
      BY <1>1, <3>1 DEF Inv, ProposedBranches, TypeOK, PullRequests
    <3>6. OnNewBranch'
      BY <1>1, <2>1, <3>1, <3>2, <3>3, <3>5 DEF OnNewBranch, Branching
    <3>7. ProposedBranches'
      BY <1>1, <3>3, <3>5 DEF Inv, ProposedBranches
    <3>8. OnlyKnown'
      BY <2>1, <3>2, <3>3 DEF Inv, OnlyKnown
    <3>9. OnItsWay'
      BY <2>1, <2>3 DEF OnItsWay, Branching
    <3>10. QED
      BY <1>1, <2>2, <3>4, <3>6, <3>7, <3>8, <3>9
         DEF Inv, UntrackedStaysLocal, ProposalComplete
  <2>6. QED
    BY <2>4, <2>5
<1>4. QED
  BY <1>2, <1>3

LEMMA AddInv ==
    ASSUME NothingIgnored, Inv, AddDirectory
    PROVE  Inv'
<1>1. /\ pc = "branched" /\ TypeOK
      /\ UNCHANGED <<remote, prs, edits, mishaps, runs>> /\ mishaps \in 0..MaxMishaps
  BY DEF Inv, TypeOK, AddDirectory, GitStep, envVars
<1>2. CASE pc' = "idle"
  BY <1>1, <1>2, AddRepo, EndInv
<1>3. CASE pc' # "idle"
  <2>1. /\ repo' \in Repository /\ repo'.ok
        /\ repo'.work = repo.work /\ repo'.branch = repo.branch /\ repo'.head = repo.head
        /\ pc' = "added" /\ req' = req
        /\ repo'.index = [f \in Files |-> IF f \in req.install THEN repo.work[f]
                                                               ELSE repo.index[f]]
    BY <1>1, <1>3, AddRepo
  <2>2. TypeOK'
    BY <1>1, <2>1 DEF TypeOK, Phases
  <2>3. req.install \in Installations
    BY <1>1, RunTypes
  <2>4. Present(repo'.index) \subseteq Known
    <3>1. Present(repo'.index) \subseteq req.install \cup Present(repo.index)
      BY <2>1 DEF Present
    <3>2. req.install \subseteq Known
      BY <2>3 DEF Known
    <3>3. QED
      BY <3>1, <3>2 DEF Inv, OnlyKnown
  <2>5. Holds(repo'.index, req.install)
    <3>1. Holds(repo.work, req.install)
      BY <1>1 DEF Inv, OnItsWay
    <3>2. \A f \in Present(Generated[req.install]) : f \in Files /\ f \in req.install
      BY <2>3, GeneratedFacts
    <3>3. QED
      BY <2>1, <3>1, <3>2 DEF Holds
  <2>6. OnItsWay'
    BY <1>1, <2>1, <2>5 DEF Inv, OnItsWay, Branching
  <2>7. QED
    BY <1>1, <2>1, <2>2, <2>4, <2>6
       DEF Inv, HeadBorn, OnNewBranch, Branching, ProposedBranches, OnlyKnown,
           UntrackedStaysLocal, ProposalComplete
<1>4. QED
  BY <1>2, <1>3

LEMMA CommitInv ==
    ASSUME Inv, CommitChanges
    PROVE  Inv'
<1>1. /\ pc = "added" /\ TypeOK
      /\ UNCHANGED <<remote, prs, edits, mishaps, runs>> /\ mishaps \in 0..MaxMishaps
  BY DEF Inv, TypeOK, CommitChanges, GitStep, envVars
<1>2. CASE pc' = "idle"
  BY <1>1, <1>2, CommitRepo, EndInv
<1>3. CASE pc' # "idle"
  <2>1. /\ repo' \in Repository /\ repo'.ok /\ repo'.work = repo.work
        /\ repo'.head = repo.head /\ pc' = "committed" /\ req' = req
    BY <1>1, <1>3, CommitRepo
  <2>2. TypeOK'
    BY <1>1, <2>1 DEF TypeOK, Phases
  <2>3. req.install \in Installations /\ Holds(repo.work, req.install)
        /\ Holds(repo.index, req.install)
    BY <1>1, RunTypes DEF Inv, OnItsWay
  <2>4. req.branch # Base => /\ repo.head = req.branch
                             /\ \A p \in prs : p.head # req.branch
    BY <1>1 DEF Inv, OnNewBranch, Branching
  <2>5. CASE repo'.index = repo.index /\ repo'.branch = repo.branch
             /\ repo.index = HeadTree(repo)
    <3>1. repo.index = repo.branch[repo.head]
      BY <2>5 DEF HeadTree, Inv, HeadBorn
    <3>2. OnItsWay'
      BY <2>1, <2>3, <2>4, <2>5, <3>1 DEF OnItsWay, Branching
    <3>3. OnNewBranch'
      BY <1>1, <2>1, <2>5 DEF Inv, OnNewBranch, Branching
    <3>4. QED
      BY <1>1, <2>1, <2>2, <2>5, <3>2, <3>3
         DEF Inv, HeadBorn, ProposedBranches, OnlyKnown, UntrackedStaysLocal, ProposalComplete
  <2>6. CASE repo'.index = Tracked(repo)
             /\ repo'.branch = [repo.branch EXCEPT ![repo.head] = Tracked(repo)]
    <3> DEFINE t == Tracked(repo)
    <3>1. t \in Tree /\ t # NoCommit /\ repo.head \in Branches
          /\ repo.branch \in [Branches -> Tree \cup {NoCommit}]
      BY <1>1, GeneratedFacts DEF Tracked, TypeOK, Repository, Tree
    <3>2. Present(t) \subseteq Known
      BY <1>1 DEF Inv, OnlyKnown, Present, Tracked
    <3>3. Holds(t, req.install)
      BY <2>3, GeneratedFacts DEF Holds, Tracked, Present
    <3> HIDE DEF t
    <3>4. /\ repo'.branch[repo.head] = t
          /\ \A b \in Branches \ {repo.head} : repo'.branch[b] = repo.branch[b]
      BY <2>6, <3>1 DEF t
    <3>5. HeadBorn'
      BY <2>1, <3>1, <3>4 DEF HeadBorn
    <3>6. OnNewBranch'
      BY <1>1, <2>1, <2>4, <3>1, <3>4 DEF OnNewBranch, Branching
    <3>7. \A p \in prs : p.head \in Branches
      BY <1>1 DEF TypeOK, PullRequests
    <3>8. ProposedBranches'
      BY <1>1, <3>1, <3>4, <3>7 DEF Inv, ProposedBranches
    <3>9. OnItsWay'
      BY <2>1, <2>4, <3>3, <3>4 DEF OnItsWay, Branching
    <3>10. OnlyKnown'
      BY <2>6, <3>2, <3>4 DEF Inv, OnlyKnown, t
    <3>11. QED
      BY <1>1, <2>2, <3>5, <3>6, <3>8, <3>9, <3>10
         DEF Inv, UntrackedStaysLocal, ProposalComplete
  <2>7. QED
    BY <1>1, <1>3, <2>5, <2>6, CommitRepo
<1>4. QED
  BY <1>2, <1>3

-----------------------------------------------------------------------------
(* The remote *)

\* A remote that takes the branch of a run has what is committed, and the
\* branches of the other pull requests are as they were.
LEMMA PushedRemote ==
    ASSUME Inv, pc = "committed", repo.branch[req.branch] # NoCommit
    PROVE  /\ Pushed \in [Branches -> Tree \cup {NoCommit}]
           /\ Pushed[req.branch] = repo.branch[req.branch]
           /\ \A b \in Branches : Pushed[b] # NoCommit => Present(Pushed[b]) \subseteq Known
           /\ \A p \in prs : Pushed[p.head] = remote[p.head]
<1>1. /\ Pushed \in [Branches -> Tree \cup {NoCommit}]
      /\ Pushed[req.branch] = repo.branch[req.branch]
      /\ \A b \in Branches \ {req.branch} : Pushed[b] = remote[b]
  BY RunTypes DEF Pushed
<1>2. \A p \in prs : p.head \in Branches \ {req.branch}
  BY DEF Inv, TypeOK, PullRequests, OnNewBranch, Branching, ProposedBranches
<1>3. QED
  BY <1>1, <1>2 DEF Inv, OnlyKnown, UntrackedStaysLocal, Known

LEMMA PushInv ==
    ASSUME Inv, pc = "committed", repo.branch[req.branch] # NoCommit, remote' = Pushed,
           repo' \in Repository, repo'.ok, repo'.work = repo.work, repo'.index = repo.index,
           repo'.branch = repo.branch, repo'.head = repo.head, UNCHANGED <<prs, edits, runs>>,
           mishaps' \in 0..MaxMishaps,
           \/ pc' = "pushed" /\ req' = req
           \/ pc' = "idle" /\ req' = NoRequest
    PROVE  Inv'
<1>1. TypeOK'
  BY PushedRemote DEF Inv, TypeOK, Phases
<1>2. OnItsWay'
  BY PushedRemote DEF Inv, OnItsWay, Branching
<1>3. UntrackedStaysLocal' /\ ProposalComplete'
  BY PushedRemote DEF Inv, UntrackedStaysLocal, ProposalComplete, Known
<1>4. QED
  BY <1>1, <1>2, <1>3
     DEF Inv, HeadBorn, OnNewBranch, Branching, ProposedBranches, OnlyKnown

LEMMA OpenInv ==
    ASSUME Inv, pc = "pushed", Acceptable, prs' = Opened, Return(repo),
           UNCHANGED <<remote, edits, runs>>, mishaps' \in 0..MaxMishaps
    PROVE  Inv'
<1> DEFINE new == [head |-> req.branch, install |-> req.install]
<1>1. /\ repo' \in Repository /\ repo'.ok /\ repo'.work = repo.work
      /\ repo'.index = repo.index /\ repo'.branch = repo.branch /\ repo'.head = repo.head
      /\ pc' = "idle" /\ req' = NoRequest
  BY ReturnRepo DEF Inv, TypeOK
<1>2. /\ req.branch \in Branches /\ req.install \in Installations
      /\ prs' = prs \cup {new} /\ new.head = req.branch /\ new.install = req.install
  BY RunTypes DEF Opened
<1>3. req.branch # Base /\ remote[req.branch] # NoCommit
  BY DEF Acceptable
<1>4. /\ repo.branch[req.branch] # NoCommit
      /\ Holds(remote[req.branch], req.install)
  BY <1>3 DEF Inv, OnNewBranch, OnItsWay, Branching
<1>5. TypeOK'
  BY <1>1, <1>2 DEF Inv, TypeOK, Phases, PullRequests
<1>6. ProposedBranches'
  BY <1>1, <1>2, <1>3, <1>4 DEF Inv, ProposedBranches
<1>7. ProposalComplete'
  BY <1>2, <1>3, <1>4 DEF Inv, ProposalComplete, Holds
<1>8. QED
  BY <1>1, <1>5, <1>6, <1>7
     DEF Inv, HeadBorn, OnNewBranch, Branching, OnItsWay, OnlyKnown, UntrackedStaysLocal

-----------------------------------------------------------------------------
LEMMA NextInv ==
    ASSUME NothingIgnored, Inv, [Next]_vars
    PROVE  Inv'
<1>1. mishaps \in 0..MaxMishaps /\ (Mishap => mishaps' \in 0..MaxMishaps)
  BY BoundAssumption DEF Inv, TypeOK, Mishap
<1>2. repo.ok /\ repo \in Repository
  BY DEF Inv, TypeOK
<1>3. CASE CreatePullRequestBranch
  BY <1>3, CreateBranchInv
<1>4. CASE AddDirectory
  BY <1>4, AddInv
<1>5. CASE CommitChanges
  BY <1>5, CommitInv
<1>6. CASE Push
  <2>1. CASE repo.branch[req.branch] = NoCommit
    BY <1>1, <1>2, <1>6, <2>1, ReturnRepo, EndInv DEF Push, envVars
  <2>2. CASE repo.branch[req.branch] # NoCommit
    <3>1. repo' = repo /\ remote' = Pushed /\ pc = "committed" /\ pc' = "pushed"
          /\ UNCHANGED <<prs, req, edits, mishaps, runs>>
      BY <1>6, <2>2 DEF Push, envVars
    <3>2. /\ repo' \in Repository /\ repo'.ok /\ repo'.work = repo.work
          /\ repo'.index = repo.index /\ repo'.branch = repo.branch /\ repo'.head = repo.head
      BY <1>2, <3>1
    <3>3. mishaps' \in 0..MaxMishaps
      BY <1>1, <3>1
    <3>4. QED
      BY <2>2, <3>1, <3>2, <3>3, PushInv
  <2>3. QED
    BY <2>1, <2>2
<1>7. CASE OpenPullRequest
  <2>1. CASE Acceptable
    BY <1>1, <1>7, <2>1, OpenInv DEF OpenPullRequest, envVars
  <2>2. CASE ~Acceptable
    BY <1>1, <1>2, <1>7, <2>2, ReturnRepo, EndInv DEF OpenPullRequest, envVars
  <2>3. QED
    BY <2>1, <2>2
<1>8. CASE StopEarly
  BY <1>1, <1>2, <1>8, ReturnRepo, EndInv DEF StopEarly
<1>9. CASE AnswerLost
  <2>1. CASE pc = "committed"
    BY <1>1, <1>2, <1>9, <2>1, ReturnRepo, PushInv DEF AnswerLost
  <2>2. CASE pc # "committed"
    BY <1>1, <1>9, <2>2, OpenInv DEF AnswerLost
  <2>3. QED
    BY <2>1, <2>2
<1>10. ASSUME NEW i \in Installations,
              \/ AddProfileFails(i)
              \/ \E b \in Branches, by \in Invocations : AddProfile(i, b, by)
       PROVE  Inv'
  BY <1>10, AddProfileInv
<1>11. ASSUME NEW f \in OwnFiles, OwnerEdit(f)
       PROVE  Inv'
  BY <1>11, OwnerEditInv
<1>12. ASSUME NEW b \in Branches, OwnerCheckout(b)
       PROVE  Inv'
  BY <1>12, OwnerCheckoutInv
<1>13. CASE UNCHANGED vars
  BY <1>13 DEF vars, envVars, Inv, TypeOK, HeadBorn, OnNewBranch, Branching, ProposedBranches,
               OnItsWay, OnlyKnown, UntrackedStaysLocal, ProposalComplete
<1>14. QED
  BY <1>3, <1>4, <1>5, <1>6, <1>7, <1>8, <1>9, <1>10, <1>11, <1>12, <1>13 DEF Next, Step

LEMMA Invariant ==
    ASSUME NothingIgnored
    PROVE  Spec => []Inv
<1>1. Init => Inv
  BY InitInv
<1>2. Inv /\ [Next]_vars => Inv'
  BY NextInv
<1>3. QED
  BY <1>1, <1>2, PTL DEF Spec

\* Every variable holds a value of its kind, and no run leaves a request behind.
THEOREM TypeCorrect ==
    ASSUME NothingIgnored
    PROVE  Spec => []TypeOK
<1>1. Inv => TypeOK
  BY DEF Inv
<1>2. QED
  BY <1>1, Invariant, PTL

\* CreatePullRequest (install.go:123-148): whatever the owner edits meanwhile,
\* wherever runs fail and answers are lost, the branch of every pull request
\* holds the whole installation on the remote.
THEOREM ProposalsComplete ==
    ASSUME NothingIgnored
    PROVE  Spec => []ProposalComplete
<1>1. Inv => ProposalComplete
  BY DEF Inv
<1>2. QED
  BY <1>1, Invariant, PTL

\* AddFiles and Commit (git.go): files the owner never added do not reach the
\* remote with a pull request.
THEOREM UntrackedLocal ==
    ASSUME NothingIgnored
    PROVE  Spec => []UntrackedStaysLocal
<1>1. Inv => UntrackedStaysLocal
  BY DEF Inv
<1>2. QED
  BY <1>1, Invariant, PTL

-----------------------------------------------------------------------------
\* Commands that work on another branch leave the base branch alone.
LEMMA BaseUntouched ==
    ASSUME NothingIgnored, Inv, [Next]_vars
    PROVE  repo'.branch[Base] # repo.branch[Base] \/ remote'[Base] # remote[Base]
             => req # NoRequest /\ req.branch = Base
<1> SUFFICES ASSUME req = NoRequest \/ req.branch # Base
             PROVE  repo'.branch[Base] = repo.branch[Base] /\ remote'[Base] = remote[Base]
  OBVIOUS
<1>1. repo \in Repository /\ Base \in Branches
      /\ (pc # "idle" => req.branch \in Branches \ {Base})
  BY GeneratedFacts DEF Inv, TypeOK, Requests
<1>2. repo.branch \in [Branches -> Tree \cup {NoCommit}]
      /\ remote \in [Branches -> Tree \cup {NoCommit}]
  BY <1>1 DEF Inv, TypeOK, Repository
<1>3. pc # "idle" => Pushed[Base] = remote[Base]
  BY <1>1, <1>2 DEF Pushed
<1>4. Return(repo) => repo'.branch = repo.branch
  BY <1>1, ReturnRepo
<1>5. CASE CreatePullRequestBranch
  BY <1>1, <1>2, <1>5, BranchRepo DEF Inv, CreatePullRequestBranch, GitStep
<1>6. CASE AddDirectory
  BY <1>6, AddRepo DEF Inv, AddDirectory, GitStep
<1>7. CASE CommitChanges
  <2>1. repo.head # Base /\ UNCHANGED remote
    BY <1>1, <1>7 DEF Inv, OnNewBranch, Branching, CommitChanges, GitStep
  <2>2. repo'.branch \in {repo.branch, [repo.branch EXCEPT ![repo.head] = Tracked(repo)]}
    BY <1>7, CommitRepo DEF Inv
  <2>3. QED
    BY <1>1, <1>2, <2>1, <2>2
<1>8. CASE Push \/ OpenPullRequest \/ StopEarly \/ AnswerLost
  BY <1>3, <1>4, <1>8 DEF Push, OpenPullRequest, StopEarly, AnswerLost
<1>9. ASSUME NEW i \in Installations,
             \/ AddProfileFails(i)
             \/ \E b \in Branches, by \in Invocations : AddProfile(i, b, by)
      PROVE  repo'.branch = repo.branch /\ remote' = remote
  BY <1>1, <1>9 DEF AddProfileFails, AddProfile, Repository
<1>10. ASSUME NEW f \in OwnFiles, OwnerEdit(f)
       PROVE  repo'.branch = repo.branch /\ remote' = remote
  BY <1>1, <1>10 DEF OwnerEdit, Repository
<1>11. ASSUME NEW b \in Branches, OwnerCheckout(b)
       PROVE  repo'.branch = repo.branch /\ remote' = remote
  BY <1>1, <1>11 DEF OwnerCheckout, Checkout, Failed, Repository
<1>12. CASE UNCHANGED vars
  BY <1>12 DEF vars
<1>13. QED
  BY <1>5, <1>6, <1>7, <1>8, <1>9, <1>10, <1>11, <1>12 DEF Next, Step

\* CreateBranch (git.go:134-138): the base branch, local and remote, moves in no
\* run but one that was asked to work on it.
THEOREM BaseMovesOnRequest ==
    ASSUME NothingIgnored
    PROVE  Spec => BaseOnlyOnRequest
<1>1. Inv /\ [Next]_vars
        => [repo'.branch[Base] # repo.branch[Base] \/ remote'[Base] # remote[Base]
              => req # NoRequest /\ req.branch = Base]_vars
  BY BaseUntouched
<1>2. QED
  BY <1>1, Invariant, PTL DEF Spec, BaseOnlyOnRequest

\* git add stops the runs that look in the wrong place.
Misdirected ==
    req # NoRequest /\ req.by # "usual" => pc \in {"written", "branched"}

LEMMA NextMisdirected ==
    ASSUME NothingIgnored, Inv, Misdirected, [Next]_vars
    PROVE  Misdirected'
<1>1. ASSUME pc' = "idle" PROVE Misdirected'
  <2>1. req' = NoRequest
    BY <1>1, NextInv DEF Inv, TypeOK
  <2>2. QED
    BY <2>1 DEF Misdirected
<1>2. ASSUME UNCHANGED <<pc, req>> PROVE Misdirected'
  BY <1>2 DEF Misdirected
<1>3. CASE CreatePullRequestBranch
  BY <1>1, <1>3 DEF CreatePullRequestBranch, GitStep, Return, Misdirected
<1>4. CASE AddDirectory
  <2>1. CASE req.by = "usual"
    BY <1>1, <1>4, <2>1 DEF AddDirectory, GitStep, Return, Misdirected
  <2>2. CASE req.by # "usual"
    BY <1>1, <1>4, <2>2, FailedRepo DEF AddDirectory, GitStep, Return, Inv, TypeOK
  <2>3. QED
    BY <2>1, <2>2
<1>5. CASE CommitChanges
  BY <1>1, <1>5 DEF CommitChanges, GitStep, Return, Misdirected
<1>6. CASE Push
  BY <1>1, <1>6 DEF Push, Return, Misdirected
<1>7. CASE OpenPullRequest \/ StopEarly \/ AnswerLost
  BY <1>1, <1>7 DEF OpenPullRequest, StopEarly, AnswerLost, Return
<1>8. ASSUME NEW i \in Installations,
             \/ AddProfileFails(i)
             \/ \E b \in Branches, by \in Invocations : AddProfile(i, b, by)
      PROVE  Misdirected'
  BY <1>2, <1>8 DEF AddProfileFails, AddProfile, Misdirected
<1>9. ASSUME NEW f \in OwnFiles, OwnerEdit(f) PROVE Misdirected'
  BY <1>2, <1>9 DEF OwnerEdit
<1>10. ASSUME NEW b \in Branches, OwnerCheckout(b) PROVE Misdirected'
  BY <1>2, <1>10 DEF OwnerCheckout
<1>11. CASE UNCHANGED vars
  BY <1>2, <1>11 DEF vars
<1>12. QED
  BY <1>3, <1>4, <1>5, <1>6, <1>7, <1>8, <1>9, <1>10, <1>11 DEF Next, Step

\* createPullRequest (add.go:274-280): a run started by upgrade, or with a
\* relative --out from elsewhere, reaches neither the remote nor the code host.
THEOREM MisdirectedLocal ==
    ASSUME NothingIgnored
    PROVE  Spec => MisdirectedStaysLocal
<1>1. Init => Misdirected
  BY DEF Init, Misdirected
<1>2. Inv /\ Misdirected /\ [Next]_vars => Misdirected'
  BY NextMisdirected
<1>3. Inv /\ Misdirected /\ [Next]_vars
        => [remote' # remote \/ prs' # prs => req # NoRequest /\ req.by = "usual"]_vars
  <2> SUFFICES ASSUME Inv, Misdirected, [Next]_vars, remote' # remote \/ prs' # prs
               PROVE  req # NoRequest /\ req.by = "usual"
    OBVIOUS
  <2>1. Push \/ OpenPullRequest \/ AnswerLost
    BY DEF Next, Step, CreatePullRequestBranch, AddDirectory, CommitChanges, GitStep,
           StopEarly, AddProfileFails, AddProfile, OwnerEdit, OwnerCheckout, vars
  <2>2. pc \in {"committed", "pushed"}
    BY <2>1 DEF Push, OpenPullRequest, AnswerLost
  <2>3. QED
    BY <2>2 DEF Misdirected, Inv, TypeOK
<1>4. QED
  BY <1>1, <1>2, <1>3, Invariant, PTL DEF Spec, MisdirectedStaysLocal
=============================================================================
