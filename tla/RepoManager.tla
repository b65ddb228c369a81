---------------------------- MODULE RepoManager ----------------------------
(***************************************************************************)
(* pkg/upgrade/repo/manager.go: the three operations an upgrade needs of   *)
(* its private repository.  `content` is the tree the writeContent         *)
(* callback writes into the working directory; a callback that fails makes *)
(* the whole operation fail and is left to the caller's module.            *)
(***************************************************************************)
EXTENDS Git

\* writeContent copies files over whatever the working directory holds.
WriteContent(r, content) ==
    IF r.ok THEN [r EXCEPT !.work = Overlay(r.work, content)] ELSE r

CreateRepoWithContent(content) == Commit(Add(WriteContent(GitInit, content)))

\* Slip: the new content copied over main's instead of replacing it.
CreateBranchOnTopOfMain(r, branch, content) ==
    Commit(Add(WriteContent(CreateBranch(Checkout(r, Main), branch), content)))

CreateBranchWithContentFromMain(r, branch, content) ==
    LET emptied == RemoveAll(CreateBranch(Checkout(r, Main), branch))
    IN  Commit(Add(WriteContent(emptied, content)))

MergeBranches(r, branch1, branch2) == Merge(Checkout(r, branch1), branch2)
=============================================================================
