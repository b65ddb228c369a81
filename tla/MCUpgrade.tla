----------------------------- MODULE MCUpgrade -----------------------------
(***************************************************************************)
(* Small instances of Upgrade.  The profile of the examples has a marker,  *)
(* a manifest Flux with a path in it, a manifest Data that is copied as it *)
(* is, and a manifest Extra the second version adds.  Version v2 changes   *)
(* Data; v3 changes another region of it and drops Flux and Extra.         *)
(***************************************************************************)
EXTENDS Upgrade, TLC

CONSTANTS marker, flux, data, extra, gitignore,   \* paths
          first, second,                          \* hunks
          v1, v2, v3, below, t1, t2, x, y, mine   \* texts

MCFiles == {marker, flux, data, extra, gitignore}
MCHunks == {first, second}
MCText == {v1, v2, v3, below, t1, t2, x, y, mine}
MCVersions == {v1, v2, v3}
MCNewerThan == v1 :> {v2, v3} @@ v2 :> {v3} @@ v3 :> {}

File(a, b) == first :> a @@ second :> b

Release(v, d) ==
    [f \in MCFiles |->
        CASE f = marker -> File(v, x)
          [] f = flux   -> IF v = v3 THEN Absent ELSE File(x, below)
          [] f = extra  -> IF v = v2 THEN File(y, below) ELSE Absent
          [] f = data   -> d
          [] f = gitignore -> Absent]

Unreleased == [f \in MCFiles |-> Absent]

Stable ==
    v1 :> Release(v1, File(x, x)) @@ v2 :> Release(v2, File(y, x))
        @@ v3 :> Release(v3, File(y, y))

\* v1 is withdrawn, and the tag of v2 moved to other content.
Moved ==
    v1 :> Unreleased @@ v2 :> Release(v2, File(y, y))
        @@ v3 :> Release(v3, Absent)

OneCatalog == {Stable}
TwoCatalogs == {Stable, Moved}

Manifests == {flux, data}
OneManifest == {data}
Secrets == {data, gitignore}
NoBlobs == {}
NewBlobs == {File(mine, x)}
OnlyMine == {mine}
MineOrY == {mine, y}
OneTempDir == {t1}
TwoTempDirs == {t1, t2}
MCBranches == {"main", "user-changes", "update-changes"}

ASSUME CatalogsOfReleases == ReleasesUnmarked /\ ReleasesAlike
=============================================================================
