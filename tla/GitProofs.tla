----------------------------- MODULE GitProofs -----------------------------
(***************************************************************************)
(* Facts about the git commands of modules Git and RepoManager when no     *)
(* ignore rule matches anything: which trees a sequence of them leaves.    *)
(***************************************************************************)
EXTENDS RepoManager, TLAPS

NothingIgnored == Ignorable = {}

-----------------------------------------------------------------------------
\* A merge of trees is a tree.
LEMMA MergeFileType ==
    ASSUME NEW b \in Blob \cup {Absent}, NEW o \in Blob \cup {Absent},
           NEW t \in Blob \cup {Absent}
    PROVE  MergeFile(b, o, t) \in Blob \cup {Absent}
<1>1. CASE ~BothChanged(b, o, t)
  BY <1>1 DEF MergeFile, MergeHunk, BothChanged
<1>2. CASE BothChanged(b, o, t) /\ (o = Absent \/ t = Absent)
  BY <1>2 DEF MergeFile
<1>3. CASE BothChanged(b, o, t) /\ o # Absent /\ t # Absent
  <2>1. o \in Blob /\ t \in Blob
    BY <1>3
  <2>2. \A h \in Hunks : MergeHunk(HunkOf(b, h), o[h], t[h]) \in Text \cup {Unresolved}
    BY <2>1 DEF MergeHunk, Blob
  <2>3. MergeFile(b, o, t) = [h \in Hunks |-> MergeHunk(HunkOf(b, h), o[h], t[h])]
    BY <1>3 DEF MergeFile
  <2>4. QED
    BY <2>2, <2>3 DEF Blob
<1>4. QED
  BY <1>1, <1>2, <1>3

LEMMA MergeTreeType ==
    ASSUME NEW b \in Tree, NEW o \in Tree, NEW t \in Tree
    PROVE  MergeTree(b, o, t) \in Tree
<1>1. \A f \in Files : MergeFile(b[f], o[f], t[f]) \in Blob \cup {Absent}
  BY MergeFileType DEF Tree
<1>2. QED
  BY <1>1 DEF MergeTree, Tree

LEMMA EmptyTreeType == EmptyTree \in Tree
  BY DEF EmptyTree, Tree

LEMMA OverlayType ==
    ASSUME NEW u \in Tree, NEW o \in Tree
    PROVE  Overlay(u, o) \in Tree
  BY DEF Overlay, Tree

LEMMA OverlayEmpty ==
    ASSUME NEW o \in Tree
    PROVE  Overlay(EmptyTree, o) = o
  BY DEF Overlay, Tree, EmptyTree

LEMMA HeadTreeType ==
    ASSUME NEW r \in Repository
    PROVE  HeadTree(r) \in Tree
  BY EmptyTreeType DEF HeadTree, Repository

LEMMA ReplaceType ==
    ASSUME NEW r \in Repository, NEW c \in Tree, NEW t \in Tree
    PROVE  Replace(r, c, t) \in Tree
  BY DEF Replace, Tree

-----------------------------------------------------------------------------
\* Every command turns a repository into a repository.
LEMMA GitInitType == GitInit \in Repository
  BY GitAssumption, EmptyTreeType DEF GitInit, Repository

LEMMA AddType ==
    ASSUME NEW r \in Repository
    PROVE  Add(r) \in Repository
<1>1. Staged(r) \in Tree
  BY DEF Staged, Repository, Tree
<1>2. QED
  BY <1>1 DEF Add, Repository

LEMMA CommitType ==
    ASSUME NEW r \in Repository
    PROVE  Commit(r) \in Repository
<1>1. Tracked(r) \in Tree
  BY DEF Tracked, Repository, Tree
<1>2. QED
  BY <1>1 DEF Commit, Failed, Repository

LEMMA CreateBranchType ==
    ASSUME NEW r \in Repository, NEW b \in Branches
    PROVE  CreateBranch(r, b) \in Repository
  BY DEF CreateBranch, Failed, Repository

LEMMA RemoveAllType ==
    ASSUME NEW r \in Repository
    PROVE  RemoveAll(r) \in Repository
<1> DEFINE a == Add(r)
           rest == [f \in Files |-> IF a.index[f] = Absent THEN a.work[f] ELSE Absent]
<1>1. a \in Repository
  BY AddType
<1>2. rest \in Tree
  BY <1>1 DEF Repository, Tree
<1>3. RemoveAll(r) \in {a, Failed(a), [a EXCEPT !.index = EmptyTree, !.work = rest]}
  BY DEF RemoveAll
<1> HIDE DEF a, rest
<1>4. QED
  BY <1>1, <1>2, <1>3, EmptyTreeType DEF Failed, Repository

LEMMA CheckoutType ==
    ASSUME NEW r \in Repository, NEW b \in Branches
    PROVE  Checkout(r, b) \in Repository
<1>1. CASE Checkout(r, b) \in {r, Failed(r)}
  BY <1>1 DEF Failed, Repository
<1>2. CASE Checkout(r, b) \notin {r, Failed(r)}
  <2>1. r.branch[b] \in Tree
    BY <1>2 DEF Checkout, Repository
  <2>2. /\ Replace(r, r.work, r.branch[b]) \in Tree
        /\ Replace(r, r.index, r.branch[b]) \in Tree
    BY <2>1, ReplaceType DEF Repository
  <2>3. Checkout(r, b) = [r EXCEPT !.work = Replace(r, r.work, r.branch[b]),
                                   !.index = Replace(r, r.index, r.branch[b]),
                                   !.head = b]
    BY <1>2 DEF Checkout
  <2>4. QED
    BY <2>2, <2>3 DEF Repository
<1>3. QED
  BY <1>1, <1>2

LEMMA MergeType ==
    ASSUME NEW r \in Repository, NEW b \in Branches
    PROVE  Merge(r, b) \in Repository
<1> DEFINE base    == r.branch[Main]
           ours    == HeadTree(r)
           theirs  == r.branch[b]
           merged  == MergeTree(base, ours, theirs)
           content == ContentConflicts(base, ours, theirs)
           deleted == ModifyDeletes(base, ours, theirs)
           applied == [r EXCEPT !.work = Replace(r, r.work, merged),
                                !.index = Replace(r, r.index, merged)]
<1>1. CASE Merge(r, b) \in {r, Failed(r)}
  BY <1>1 DEF Failed, Repository
<1>2. CASE Merge(r, b) \notin {r, Failed(r)}
  <2>1. r.ok /\ theirs # NoCommit /\ base # NoCommit
    BY <1>2 DEF Merge
  <2>2. base \in Tree /\ theirs \in Tree /\ ours \in Tree
    BY <2>1, HeadTreeType, GitAssumption DEF Repository
  <2>3. merged \in Tree
    BY <2>2, MergeTreeType
  <2>4. applied \in Repository
    BY <2>3, ReplaceType DEF Repository
  <2>5. content \cup deleted \in SUBSET Files
    BY DEF ContentConflicts, ModifyDeletes
  <2>6. Merge(r, b) \in {[applied EXCEPT !.conflicts = content \cup deleted],
                         Failed(applied),
                         [applied EXCEPT !.branch[r.head] = merged]}
    BY <2>1 DEF Merge
  <2>7. r.head \in Branches
    BY DEF Repository
  <2> HIDE DEF applied, merged, content, deleted
  <2>8. [applied EXCEPT !.conflicts = content \cup deleted] \in Repository
    BY <2>4, <2>5 DEF Repository
  <2>9. Failed(applied) \in Repository
    BY <2>4 DEF Failed, Repository
  <2>10. [applied EXCEPT !.branch[r.head] = merged] \in Repository
    BY <2>3, <2>4, <2>7 DEF Repository
  <2>11. QED
    BY <2>6, <2>8, <2>9, <2>10
<1>3. QED
  BY <1>1, <1>2

LEMMA WriteContentType ==
    ASSUME NEW r \in Repository, NEW t \in Tree
    PROVE  WriteContent(r, t) \in Repository
<1>1. Overlay(r.work, t) \in Tree
  BY OverlayType DEF Repository
<1>2. QED
  BY <1>1 DEF WriteContent, Repository

LEMMA CreateRepoType ==
    ASSUME NEW t \in Tree
    PROVE  CreateRepoWithContent(t) \in Repository
  BY GitInitType, WriteContentType, AddType, CommitType DEF CreateRepoWithContent

LEMMA CreateBranchFromMainType ==
    ASSUME NEW r \in Repository, NEW b \in Branches, NEW t \in Tree
    PROVE  CreateBranchWithContentFromMain(r, b, t) \in Repository
<1> DEFINE emptied == RemoveAll(CreateBranch(Checkout(r, Main), b))
<1>1. emptied \in Repository
  BY GitAssumption, CheckoutType, CreateBranchType, RemoveAllType
<1> HIDE DEF emptied
<1>2. Commit(Add(WriteContent(emptied, t))) \in Repository
  BY <1>1, WriteContentType, AddType, CommitType
<1>3. QED
  BY <1>2 DEF CreateBranchWithContentFromMain, emptied

LEMMA MergeBranchesType ==
    ASSUME NEW r \in Repository, NEW b1 \in Branches, NEW b2 \in Branches
    PROVE  MergeBranches(r, b1, b2) \in Repository
  BY CheckoutType, MergeType DEF MergeBranches

-----------------------------------------------------------------------------
(* What the commands do when nothing is ignored *)

LEMMA AddAll ==
    ASSUME NothingIgnored, NEW r \in Repository, r.ok
    PROVE  Add(r) = [r EXCEPT !.index = r.work]
<1>1. Staged(r) = r.work
  BY DEF Staged, Ignored, NothingIgnored, Repository, Tree
<1>2. QED
  BY <1>1 DEF Add

\* `git add .` and then Commit record the work tree, if there is anything to
\* record: a first commit needs a file.
LEMMA CommitAll ==
    ASSUME NothingIgnored, NEW r \in Repository, r.ok,
           r.branch[r.head] # NoCommit \/ r.work # EmptyTree
    PROVE  LET c == Commit(Add(r)) IN
           /\ c.ok /\ c.head = r.head /\ c.conflicts = r.conflicts
           /\ c.work = r.work /\ c.index = r.work
           /\ c.branch = [r.branch EXCEPT ![r.head] = r.work]
<1> DEFINE a == Add(r)
<1>1. a \in Repository /\ a = [r EXCEPT !.index = r.work]
  BY AddAll, AddType
<1>2. /\ a.ok /\ a.head = r.head /\ a.conflicts = r.conflicts
      /\ a.work = r.work /\ a.index = r.work /\ a.branch = r.branch
      /\ r.head \in Branches /\ r.work \in Tree
      /\ r.branch \in [Branches -> Tree \cup {NoCommit}]
  BY <1>1 DEF Repository
<1> HIDE DEF a
<1>3. Tracked(a) = r.work
  BY <1>1, <1>2 DEF Tracked, Tree
<1>4. HeadTree(a) = IF r.branch[r.head] = NoCommit THEN EmptyTree ELSE r.branch[r.head]
  BY <1>2 DEF HeadTree
<1>5. HasChanges(a) <=> r.work # HeadTree(a)
  BY <1>2 DEF HasChanges
<1>6. CASE r.work = HeadTree(a)
  <2>1. Commit(a) = a
    BY <1>5, <1>6 DEF Commit
  <2>2. r.branch = [r.branch EXCEPT ![r.head] = r.work]
    BY <1>2, <1>4, <1>6
  <2>3. QED
    BY <2>1, <2>2, <1>2 DEF a
<1>7. CASE r.work # HeadTree(a)
  <2>1. Commit(a) = [a EXCEPT !.index = r.work, !.branch[r.head] = r.work]
    BY <1>2, <1>3, <1>5, <1>7 DEF Commit
  <2>2. QED
    BY <2>1, <1>1, <1>2 DEF a, Repository
<1>8. QED
  BY <1>6, <1>7

\* A new repository has the content it was created with on main.
LEMMA CreateRepoContent ==
    ASSUME NothingIgnored, NEW t \in Tree, t # EmptyTree
    PROVE  LET r == CreateRepoWithContent(t) IN
           /\ Clean(r) /\ r.head = Main /\ r.work = t /\ r.conflicts = {}
           /\ r.branch = [b \in Branches |-> IF b = Main THEN t ELSE NoCommit]
<1> DEFINE w == WriteContent(GitInit, t)
<1>1. w \in Repository
  BY GitInitType, WriteContentType
<1>2. w = [GitInit EXCEPT !.work = t]
  BY OverlayEmpty DEF WriteContent, GitInit
<1>3. /\ w.ok /\ w.head = Main /\ w.conflicts = {} /\ w.work = t
      /\ w.branch = [b \in Branches |-> NoCommit]
  BY <1>2 DEF GitInit
<1> HIDE DEF w
<1>4. LET c == Commit(Add(w)) IN
      /\ c.ok /\ c.head = Main /\ c.conflicts = {} /\ c.work = t /\ c.index = t
      /\ c.branch = [w.branch EXCEPT ![Main] = t]
  BY <1>1, <1>3, CommitAll
<1>5. CreateRepoWithContent(t) = Commit(Add(w))
  BY DEF CreateRepoWithContent, w
<1>6. QED
  BY <1>3, <1>4, <1>5, GitAssumption DEF Clean

\* Switching branches in a clean repository.
LEMMA CheckoutClean ==
    ASSUME NEW r \in Repository, Clean(r), NEW b \in Branches,
           r.branch[b] # NoCommit
    PROVE  LET c == Checkout(r, b) IN
           /\ Clean(c) /\ c.head = b /\ c.work = r.branch[b]
           /\ c.branch = r.branch /\ c.conflicts = r.conflicts
<1>1. /\ r.branch[b] \in Tree /\ r.ok /\ r.index \in Tree
      /\ r.work = r.index /\ r.branch[r.head] = r.index
  BY DEF Clean, Repository
<1>2. ~Clobbers(r, r.branch[b])
  BY <1>1 DEF Clobbers
<1>3. HeadTree(r) = r.index
  BY <1>1, GitAssumption DEF HeadTree
<1>4. Replace(r, r.index, r.branch[b]) = r.branch[b]
  BY <1>1, <1>3 DEF Replace, Tree
<1>5. Checkout(r, b) = [r EXCEPT !.work = r.branch[b], !.index = r.branch[b],
                                 !.head = b]
  BY <1>1, <1>2, <1>4 DEF Checkout
<1>6. QED
  BY <1>5, <1>1 DEF Clean, Repository

\* A branch made from main has exactly the content given for it, whatever the
\* branch checked out before held, and leaves the other branches alone.
LEMMA CreateBranchContent ==
    ASSUME NothingIgnored, NEW r \in Repository, Clean(r), NEW b \in Branches,
           b # Main, r.branch[Main] # NoCommit, r.branch[Main] # EmptyTree,
           r.branch[b] = NoCommit, NEW t \in Tree
    PROVE  LET c == CreateBranchWithContentFromMain(r, b, t) IN
           /\ Clean(c) /\ c.head = b /\ c.work = t /\ c.conflicts = r.conflicts
           /\ c.branch = [r.branch EXCEPT ![b] = t]
<1> DEFINE onMain == Checkout(r, Main)
           onNew  == CreateBranch(onMain, b)
           added  == Add(onNew)
           empty  == RemoveAll(onNew)
           full   == WriteContent(empty, t)
           m      == r.branch[Main]
<1>0. Main \in Branches /\ m \in Tree /\ r.index \in Tree
  BY GitAssumption DEF Repository
<1>1. /\ Clean(onMain) /\ onMain.head = Main /\ onMain.work = m
      /\ onMain.branch = r.branch /\ onMain.conflicts = r.conflicts
      /\ onMain \in Repository
  BY <1>0, CheckoutClean, CheckoutType
<1> HIDE DEF onMain
<1>2. onNew = [onMain EXCEPT !.branch[b] = m, !.head = b]
  BY <1>1 DEF CreateBranch, Clean
<1>3. /\ onNew \in Repository /\ onNew.ok /\ onNew.head = b
      /\ onNew.work = m /\ onNew.index = m /\ onNew.conflicts = r.conflicts
      /\ onNew.branch = [r.branch EXCEPT ![b] = m]
  <2>1. onNew \in Repository
    BY <1>1, CreateBranchType
  <2>2. onMain.ok /\ onMain.work = m /\ onMain.index = m
    BY <1>1 DEF Clean
  <2>3. QED
    BY <1>1, <1>2, <2>1, <2>2 DEF Repository
<1> HIDE DEF onNew
<1>4. added = [onNew EXCEPT !.index = m] /\ added \in Repository
  BY <1>3, AddAll, AddType
<1>5. /\ added.ok /\ added.index = m /\ added.work = m /\ added.head = b
      /\ added.conflicts = r.conflicts /\ added.branch = onNew.branch
  BY <1>3, <1>4 DEF Repository
<1>6. [f \in Files |-> IF added.index[f] = Absent THEN added.work[f] ELSE Absent]
        = EmptyTree
  BY <1>5 DEF EmptyTree
<1>7. empty = [added EXCEPT !.index = EmptyTree, !.work = EmptyTree]
  BY <1>5, <1>6 DEF RemoveAll
<1>8. /\ empty \in Repository /\ empty.ok /\ empty.work = EmptyTree
      /\ empty.head = b /\ empty.conflicts = r.conflicts
      /\ empty.branch = onNew.branch
  BY <1>3, <1>4, <1>5, <1>7, RemoveAllType DEF Repository
<1> HIDE DEF added, empty
<1>9. full = [empty EXCEPT !.work = t] /\ full \in Repository
  BY <1>8, OverlayEmpty, WriteContentType DEF WriteContent
<1>10. /\ full.ok /\ full.work = t /\ full.head = b
       /\ full.conflicts = r.conflicts /\ full.branch = [r.branch EXCEPT ![b] = m]
  BY <1>3, <1>8, <1>9 DEF Repository
<1> HIDE DEF full
<1>11. full.branch[b] = m /\ full.branch[full.head] # NoCommit
  <2>1. r.branch \in [Branches -> Tree \cup {NoCommit}]
    BY DEF Repository
  <2>2. m # NoCommit
    BY DEF m
  <2>3. QED
    BY <1>10, <2>1, <2>2
<1>12. LET c == Commit(Add(full)) IN
       /\ c.ok /\ c.head = b /\ c.conflicts = r.conflicts
       /\ c.work = t /\ c.index = t /\ c.branch = [full.branch EXCEPT ![b] = t]
  <2>1. LET c == Commit(Add(full)) IN
        /\ c.ok /\ c.head = full.head /\ c.conflicts = full.conflicts
        /\ c.work = full.work /\ c.index = full.work
        /\ c.branch = [full.branch EXCEPT ![full.head] = full.work]
    BY <1>9, <1>10, <1>11, CommitAll
  <2>2. QED
    BY <1>10, <2>1
<1>13. [full.branch EXCEPT ![b] = t] = [r.branch EXCEPT ![b] = t]
  BY <1>10 DEF Repository
<1>14. CreateBranchWithContentFromMain(r, b, t) = Commit(Add(full))
  BY DEF CreateBranchWithContentFromMain, full, empty, onNew, onMain
<1>15. QED
  BY <1>12, <1>13, <1>14 DEF Clean, Repository

\* A merge that returns no error leaves the three-way merge in the work tree
\* and returns the conflicts; without a content conflict there is none.
LEMMA MergeContent ==
    ASSUME NEW r \in Repository, Clean(r), NEW b1 \in Branches, NEW b2 \in Branches,
           {r.branch[Main], r.branch[b1], r.branch[b2]} \subseteq Tree,
           r.conflicts = {},
           MergeBranches(r, b1, b2).ok
    PROVE  LET m == MergeBranches(r, b1, b2) IN
           /\ m.work = MergeTree(r.branch[Main], r.branch[b1], r.branch[b2])
           /\ m.conflicts = ContentConflicts(r.branch[Main], r.branch[b1], r.branch[b2])
                 \cup ModifyDeletes(r.branch[Main], r.branch[b1], r.branch[b2])
           /\ \/ ContentConflicts(r.branch[Main], r.branch[b1], r.branch[b2]) # {}
              \/ ModifyDeletes(r.branch[Main], r.branch[b1], r.branch[b2]) = {}
<1> DEFINE c       == Checkout(r, b1)
           base    == r.branch[Main]
           ours    == r.branch[b1]
           theirs  == r.branch[b2]
           merged  == MergeTree(base, ours, theirs)
           content == ContentConflicts(base, ours, theirs)
           deleted == ModifyDeletes(base, ours, theirs)
           applied == [c EXCEPT !.work = merged, !.index = merged]
<1>0. /\ base \in Tree /\ ours \in Tree /\ theirs \in Tree
      /\ NoCommit \notin {base, ours, theirs}
  BY GitAssumption
<1>1. /\ Clean(c) /\ c.head = b1 /\ c.work = ours /\ c.branch = r.branch
      /\ c.conflicts = {} /\ c \in Repository
  BY <1>0, CheckoutClean, CheckoutType
<1>2. merged \in Tree
  BY <1>0, MergeTreeType
<1> HIDE DEF c
<1>3. HeadTree(c) = ours /\ c.index = ours /\ c.ok
  BY <1>0, <1>1 DEF HeadTree, Clean
<1>4. Replace(c, ours, merged) = merged
  BY <1>2, <1>3 DEF Replace, Tree
<1>5. Merge(c, b2) = IF content # {} THEN [applied EXCEPT !.conflicts = content \cup deleted]
                     ELSE IF deleted # {} THEN Failed(applied)
                     ELSE [applied EXCEPT !.branch[c.head] = merged]
  BY <1>0, <1>1, <1>3, <1>4 DEF Merge
<1>6. applied \in Repository /\ applied.work = merged /\ applied.conflicts = {}
  BY <1>1, <1>2 DEF Repository
<1>7. MergeBranches(r, b1, b2) = Merge(c, b2)
  BY DEF MergeBranches, c
<1> HIDE DEF applied, merged, content, deleted
<1>8. CASE content # {}
  <2>1. Merge(c, b2) = [applied EXCEPT !.conflicts = content \cup deleted]
    BY <1>5, <1>8
  <2>2. /\ Merge(c, b2).work = merged
        /\ Merge(c, b2).conflicts = content \cup deleted
    BY <1>6, <2>1 DEF Repository
  <2>3. QED
    BY <1>7, <1>8, <2>2 DEF merged, content, deleted
<1>9. CASE content = {}
  <2>1. deleted = {}
    BY <1>5, <1>6, <1>7, <1>9 DEF Failed, Repository
  <2>2. Merge(c, b2) = [applied EXCEPT !.branch[c.head] = merged]
    BY <1>5, <1>9, <2>1
  <2>3. Merge(c, b2).work = merged /\ Merge(c, b2).conflicts = content \cup deleted
    BY <1>6, <1>9, <2>1, <2>2 DEF Repository
  <2>4. QED
    BY <1>7, <1>9, <2>1, <2>3 DEF merged, content, deleted
<1>10. QED
  BY <1>8, <1>9
=============================================================================
