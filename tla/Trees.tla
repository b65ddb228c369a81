------------------------------- MODULE Trees -------------------------------
(***************************************************************************)
(* Directory trees as pctl and the git binary it runs see them.            *)
(*                                                                         *)
(* A tree gives every path of Files either Absent or a blob.  A blob is    *)
(* cut into Hunks: the regions of a file that git merges independently of  *)
(* each other (at least three unchanged lines apart).  A hunk holds a text *)
(* or Unresolved, the conflict markers git leaves around two texts.        *)
(*                                                                         *)
(* The merge operators model `git merge` (external to the repository) as   *)
(* pkg/git/git.go uses it.  Rename detection is not modelled.              *)
(***************************************************************************)
CONSTANTS
    Files,       \* the paths that can occur in an installation
    Hunks,       \* the independently merged regions of a file
    Text,        \* what a region can hold
    Absent,      \* "no such file"
    Unresolved   \* a region between <<<<<<< and >>>>>>>

Blob == [Hunks -> Text \cup {Unresolved}]
Tree == [Files -> Blob \cup {Absent}]

ASSUME TreesAssumption ==
    /\ Absent \notin Blob
    /\ Absent \notin Text \cup {Unresolved}
    /\ Unresolved \notin Text

EmptyTree == [f \in Files |-> Absent]

Present(t) == {f \in Files : t[f] # Absent}

\* Copying `over` into a directory that holds `under`: nothing is deleted.
Overlay(under, over) ==
    [f \in Files |-> IF over[f] # Absent THEN over[f] ELSE under[f]]

-----------------------------------------------------------------------------
(* Three-way merge of one path: b in the merge base, o in the branch that   *)
(* is checked out ("ours"), t in the branch being merged ("theirs").        *)

HunkOf(blob, h) == IF blob = Absent THEN Absent ELSE blob[h]

\* Slip: merging with -X ours, which settles a conflict for one side.
MergeHunkOursWins(b, o, t) == IF o = b THEN t ELSE o

MergeHunk(b, o, t) ==
    IF o = t \/ t = b THEN o
    ELSE IF o = b THEN t
    ELSE Unresolved

\* Both sides changed the path, in different ways.
BothChanged(b, o, t) == o # b /\ t # b /\ o # t

\* CONFLICT (modify/delete): one side deleted what the other changed.
ModifyDelete(b, o, t) == BothChanged(b, o, t) /\ Absent \in {o, t}

\* CONFLICT (content) and CONFLICT (add/add): "Merge conflict in <path>".
ContentConflict(b, o, t) ==
    /\ BothChanged(b, o, t)
    /\ Absent \notin {o, t}
    /\ \E h \in Hunks : BothChanged(HunkOf(b, h), o[h], t[h])

\* Slip: a deleted file merged region by region like any other.
MergeFileHunkwise(b, o, t) ==
    IF ~BothChanged(b, o, t) THEN MergeHunk(b, o, t)
    ELSE [h \in Hunks |-> MergeHunk(HunkOf(b, h), HunkOf(o, h), HunkOf(t, h))]

\* What git leaves at the path; of a modify/delete it keeps the modification.
MergeFile(b, o, t) ==
    IF ~BothChanged(b, o, t) THEN MergeHunk(b, o, t)
    ELSE IF o = Absent THEN t
    ELSE IF t = Absent THEN o
    ELSE [h \in Hunks |-> MergeHunk(HunkOf(b, h), o[h], t[h])]

MergeTree(b, o, t) == [f \in Files |-> MergeFile(b[f], o[f], t[f])]

ContentConflicts(b, o, t) ==
    {f \in Files : ContentConflict(b[f], o[f], t[f])}

ModifyDeletes(b, o, t) == {f \in Files : ModifyDelete(b[f], o[f], t[f])}
=============================================================================
