-------------------------------- MODULE Git --------------------------------
(***************************************************************************)
(* pkg/git/git.go: the CLIGit commands that run in a private repository.   *)
(*                                                                         *)
(* A repository is a record: the work tree, the index, the commit each     *)
(* branch points at (its tree), the branch checked out, and the result of  *)
(* the commands so far: ok is FALSE once one of them returned an error,    *)
(* and conflicts is the list Merge returned.  Every command is a function  *)
(* from repositories to repositories, so that callers compose them the way *)
(* the code sequences them; a command after an error does nothing, which   *)
(* is the early return of the Go callers.                                  *)
(***************************************************************************)
EXTENDS Trees

CONSTANTS
    Branches,
    Main,         \* the branch `git init -b main` checks out
    NoCommit,     \* what a branch that does not exist points at
    IgnoreFile,   \* the path .gitignore
    Ignorable     \* the paths a .gitignore, when there is one, matches

ASSUME GitAssumption ==
    /\ Main \in Branches
    /\ NoCommit \notin Tree
    /\ IgnoreFile \in Files
    /\ Ignorable \subseteq Files

Repository ==
    [work: Tree, index: Tree, branch: [Branches -> Tree \cup {NoCommit}],
     head: Branches, ok: BOOLEAN, conflicts: SUBSET Files]

\* git reads the ignore rules from the work tree.
Ignored(work) == IF work[IgnoreFile] = Absent THEN {} ELSE Ignorable

HeadTree(r) ==
    IF r.branch[r.head] = NoCommit THEN EmptyTree ELSE r.branch[r.head]

Failed(r) == [r EXCEPT !.ok = FALSE]

\* Work tree, index and the commit checked out are the same tree.
Clean(r) == r.ok /\ r.work = r.index /\ r.branch[r.head] = r.index

-----------------------------------------------------------------------------
\* git init <dir> -b main, in a directory that is empty.
GitInit ==
    [work |-> EmptyTree, index |-> EmptyTree,
     branch |-> [b \in Branches |-> NoCommit],
     head |-> Main, ok |-> TRUE, conflicts |-> {}]

\* What commit -a records: the work tree's version of every tracked path.
Tracked(r) ==
    [f \in Files |-> IF r.index[f] = Absent THEN Absent ELSE r.work[f]]

\* git add . : an ignored path is only staged when it is tracked already.
Staged(r) ==
    [f \in Files |->
        IF f \in Ignored(r.work) /\ r.index[f] = Absent
        THEN Absent ELSE r.work[f]]

Add(r) == IF r.ok THEN [r EXCEPT !.index = Staged(r)] ELSE r

\* Slip: git add -u, which leaves out what is not tracked yet.
AddPathsUpdate(r, paths) ==
    IF ~r.ok THEN r
    ELSE [r EXCEPT !.index =
            [f \in Files |-> IF f \in paths THEN Tracked(r)[f] ELSE r.index[f]]]

\* git add <directory>: fails when there is nothing of it to add or to remove.
AddPaths(r, paths) ==
    IF ~r.ok THEN r
    ELSE IF \A f \in paths : r.work[f] = Absent /\ r.index[f] = Absent THEN Failed(r)
    ELSE [r EXCEPT !.index =
            [f \in Files |-> IF f \in paths THEN Staged(r)[f] ELSE r.index[f]]]

\* git status -s prints something.
HasChanges(r) ==
    \/ r.index # HeadTree(r)
    \/ \E f \in Files : /\ r.work[f] # r.index[f]
                        /\ r.index[f] = Absent => f \notin Ignored(r.work)

\* Slip: no look at git status first.
CommitUnasked(r) ==
    IF ~r.ok THEN r
    ELSE IF Tracked(r) = HeadTree(r) THEN Failed(r)
    ELSE [r EXCEPT !.index = Tracked(r), !.branch[r.head] = Tracked(r)]

Commit(r) ==
    IF ~r.ok \/ ~HasChanges(r) THEN r
    ELSE IF Tracked(r) = HeadTree(r) THEN Failed(r)  \* nothing added to commit
    ELSE [r EXCEPT !.index = Tracked(r), !.branch[r.head] = Tracked(r)]

\* git checkout -b: fails when the branch exists.
CreateBranch(r, b) ==
    IF ~r.ok THEN r
    ELSE IF r.branch[b] # NoCommit THEN Failed(r)
    ELSE [r EXCEPT !.branch[b] = r.branch[r.head], !.head = b]

\* Slip: git rm --cached, which leaves the files in the work tree.
RemoveAllCached(r) ==
    LET a == Add(r) IN
    IF ~a.ok THEN a
    ELSE IF a.index = EmptyTree THEN Failed(a)
    ELSE [a EXCEPT !.index = EmptyTree]

\* git add . and then git rm -rf . , which fails when nothing is tracked.
RemoveAll(r) ==
    LET a == Add(r) IN
    IF ~a.ok THEN a
    ELSE IF a.index = EmptyTree THEN Failed(a)
    ELSE [a EXCEPT !.index = EmptyTree,
                   !.work = [f \in Files |->
                                IF a.index[f] = Absent THEN a.work[f] ELSE Absent]]

\* The work tree, or the index, after git replaces HEAD's tree by t: paths on
\* which the two agree keep whatever is there.
Replace(r, current, t) ==
    [f \in Files |-> IF t[f] = HeadTree(r)[f] THEN current[f] ELSE t[f]]

\* An untracked path, not ignored, that git refuses to overwrite with t.
Clobbers(r, t) ==
    \E f \in Files : /\ r.index[f] = Absent
                     /\ r.work[f] # Absent
                     /\ f \notin Ignored(r.work)
                     /\ t[f] # Absent

\* git checkout.  Tracked paths are never dirty here: both callers commit first.
Checkout(r, b) ==
    IF ~r.ok THEN r
    ELSE IF r.branch[b] = NoCommit THEN Failed(r)
    ELSE IF Clobbers(r, r.branch[b]) THEN Failed(r)
    ELSE [r EXCEPT !.work = Replace(r, r.work, r.branch[b]),
                   !.index = Replace(r, r.index, r.branch[b]),
                   !.head = b]

\* Slip: the conflicting files taken from the "Merge conflict in" lines.
MergeListsContentOnly(r, b) ==
    IF ~r.ok THEN r
    ELSE LET merged == MergeTree(r.branch[Main], HeadTree(r), r.branch[b])
             listed == ContentConflicts(r.branch[Main], HeadTree(r), r.branch[b])
             failed == ModifyDeletes(r.branch[Main], HeadTree(r), r.branch[b]) # {}
             applied == [r EXCEPT !.work = Replace(r, r.work, merged),
                                  !.index = Replace(r, r.index, merged)]
         IN  IF listed # {} THEN [applied EXCEPT !.conflicts = listed]
             ELSE IF failed THEN Failed(applied)
             ELSE [applied EXCEPT !.branch[r.head] = merged]

\* git merge b: both branches were created from main, so main is the merge
\* base (without one git refuses to merge).  With a content conflict the output
\* has the words "Merge conflict" and the files `git diff --diff-filter=U` lists
\* are returned without an error; with modify/delete conflicts alone it has not,
\* and the error is returned.
Merge(r, b) ==
    IF ~r.ok THEN r
    ELSE IF NoCommit \in {r.branch[b], r.branch[Main]} THEN Failed(r)
    ELSE LET base    == r.branch[Main]
             ours    == HeadTree(r)
             theirs  == r.branch[b]
             merged  == MergeTree(base, ours, theirs)
             content == ContentConflicts(base, ours, theirs)
             deleted == ModifyDeletes(base, ours, theirs)
             applied == [r EXCEPT !.work = Replace(r, r.work, merged),
                                  !.index = Replace(r, r.index, merged)]
         IN  IF content # {} THEN [applied EXCEPT !.conflicts = content \cup deleted]
             ELSE IF deleted # {} THEN Failed(applied)
             ELSE [applied EXCEPT !.branch[r.head] = merged]
=============================================================================
