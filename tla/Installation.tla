---------------------------- MODULE Installation ----------------------------
(***************************************************************************)
(* What an upgrade promises the owner of an installation, without the      *)
(* repository, branches and commits it is made of (pkg/upgrade/upgrade.go) *)
(*                                                                         *)
(*  - until the new content is complete the directory is the owner's;      *)
(*  - an upgrade that reports success or conflicts has replaced it by the  *)
(*    three-way merge of the current version, the new version and what the *)
(*    directory held at one moment of the upgrade;                         *)
(*  - one that stops while it replaces the directory leaves in each path   *)
(*    what was there, what was to be there, or nothing.                    *)
(***************************************************************************)
EXTENDS Trees

CONSTANT NoTree

VARIABLES dir, stage, base, mine, theirs, outcome

vars == <<dir, stage, base, mine, theirs, outcome>>

Init ==
    /\ dir \in Tree
    /\ stage = "idle" /\ outcome = "none"
    /\ base = NoTree /\ mine = NoTree /\ theirs = NoTree

OwnerEdits ==
    /\ stage # "replacing"
    /\ dir' \in Tree
    /\ UNCHANGED <<stage, base, mine, theirs, outcome>>

Begin ==
    /\ stage = "idle"
    /\ \/ stage' = "preparing" /\ outcome' = "none"
       \/ stage' = "idle" /\ outcome' = "error"
    /\ UNCHANGED <<dir, base, mine, theirs>>

FetchBase ==
    /\ stage = "preparing" /\ base = NoTree
    /\ base' \in Tree
    /\ UNCHANGED <<dir, stage, mine, theirs, outcome>>

\* The directory is read once, between the two versions of the profile.
Snapshot ==
    /\ stage = "preparing" /\ base # NoTree /\ mine = NoTree
    /\ mine' = dir
    /\ UNCHANGED <<dir, stage, base, theirs, outcome>>

FetchNew ==
    /\ stage = "preparing" /\ mine # NoTree /\ theirs = NoTree
    /\ theirs' \in Tree
    /\ UNCHANGED <<dir, stage, base, mine, outcome>>

Merged == MergeTree(base, theirs, mine)

\* Whether git's result is used: see Merge in module Git.
Usable ==
    \/ ContentConflicts(base, theirs, mine) # {}
    \/ ModifyDeletes(base, theirs, mine) = {}

ReplaceFiles ==
    /\ stage \in {"preparing", "replacing"}
    /\ theirs # NoTree
    /\ Usable
    /\ stage' = "replacing"
    /\ dir' \in Tree
    /\ \A f \in Files : dir'[f] \in {dir[f], Absent, Merged[f]}
    /\ UNCHANGED <<base, mine, theirs, outcome>>

Return(result) ==
    /\ stage' = "idle" /\ outcome' = result
    /\ base' = NoTree /\ mine' = NoTree /\ theirs' = NoTree
    /\ UNCHANGED dir

Complete ==
    /\ stage = "replacing" /\ dir = Merged
    /\ Return(IF ContentConflicts(base, theirs, mine) = {}
              THEN "upgraded" ELSE "conflicts")

Stop == stage # "idle" /\ \E how \in {"error", "killed"} : Return(how)

Next ==
    \/ OwnerEdits \/ Begin \/ FetchBase \/ Snapshot \/ FetchNew
    \/ ReplaceFiles \/ Complete \/ Stop

Spec == Init /\ [][Next]_vars
=============================================================================
