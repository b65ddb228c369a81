--------------------------- MODULE MCInstaller ---------------------------
(***************************************************************************)
(* A profile with two nested profiles of one repository, one on a branch   *)
(* and one on a tag, and a third one nested in the first of them.  Commit  *)
(* r2 of the profile has an artifact of two types, r3 an unknown           *)
(* dependency; d2 of the branch has a profile without artifacts, and e2 of *)
(* the tag one with a name used twice; d3 of the branch gives both a       *)
(* branch and a tag.  Two artifacts are the whole directory of their       *)
(* profile, with files in it that pctl generates, too.                     *)
(***************************************************************************)
EXTENDS Installer

CONSTANTS r1, r2, r3, d1, d2, d3, e1, e2

Release == <<"profile", "v1">>
Branch == <<"library", "main">>
Tag == <<"library", "sub/v2">>

MCKeys == {Release, Branch, Tag}
MCSnapshots == {r1, r2, r3, d1, d2, d3, e1, e2}
MCPaths == {".", "sub"}
MCNames == {"app", "lib", "web", "tools", "two", "nowhere", "db", "deep", "ui", "cli"}
MCFileNames == {"kustomization.yaml", "HelmRelease.yaml", "deployment.yaml"}
MCTagPath == [k \in MCKeys |-> IF k = Tag THEN "sub" ELSE "."]
MCRoot == [key |-> Release, path |-> "."]

MCHistory ==
    [k \in MCKeys |->
        CASE k = Release -> {r1, r2, r3}
          [] k = Branch -> {d1, d2, d3}
          [] k = Tag -> {e1, e2, NoSnapshot}]

Plain(name, deps) ==
    [name |-> name, chart |-> "none", kustomize |-> TRUE, profile |-> NoSource,
     dependsOn |-> deps, defaults |-> FALSE, content |-> <<"deployment.yaml">>,
     whole |-> FALSE]
Chart(name, where, values, deps) ==
    [Plain(name, deps) EXCEPT !.kustomize = FALSE, !.chart = where, !.defaults = values]
Nested(name, k, p, deps) ==
    [Plain(name, deps) EXCEPT !.kustomize = FALSE,
        !.profile = [key |-> k, path |-> p, tagged |-> k # Branch, revisions |-> 1]]

Whole(a, files) == [a EXCEPT !.content = files, !.whole = TRUE]

MCProfiles ==
    [s \in MCSnapshots |-> [p \in MCPaths |->
        CASE s = r1 /\ p = "." ->
                <<Plain("app", {"lib"}), Nested("lib", Branch, ".", {}),
                  Chart("web", "path", TRUE, {"app"}), Nested("tools", Tag, ".", {"web"})>>
          [] s = r2 /\ p = "." ->
                <<Plain("app", {}), [Plain("two", {}) EXCEPT !.chart = "url"]>>
          [] s = r3 /\ p = "." ->
                <<Chart("web", "url", TRUE, {}), Plain("app", {"nowhere"})>>
          [] s = d1 /\ p = "." ->
                <<Chart("db", "url", FALSE, {}), Nested("deep", Branch, "sub", {})>>
          [] s = d1 /\ p = "sub" ->
                <<Whole(Chart("ui", "path", FALSE, {}), <<"HelmRelease.yaml">>)>>
          [] s = d2 /\ p = "." -> <<Plain("db", {}), Nested("deep", Branch, "sub", {})>>
          [] s = d2 /\ p = "sub" -> <<>>
          [] s = d3 /\ p = "." ->
                <<Plain("db", {}),
                  [Nested("deep", Branch, "sub", {}) EXCEPT !.profile.revisions = 2]>>
          [] s = d3 /\ p = "sub" -> <<Plain("ui", {})>>
          [] s = e1 /\ p = "sub" ->
                <<Plain("ui", {}),
                  Whole(Plain("cli", {"ui"}), <<"deployment.yaml", "kustomization.yaml">>)>>
          [] s = e2 /\ p = "sub" -> <<Plain("ui", {}), Chart("ui", "url", FALSE, {})>>
          [] OTHER -> NoProfile]]
=============================================================================
