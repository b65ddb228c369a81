-------------------------- MODULE ArtifactWriter --------------------------
(***************************************************************************)
(* pkg/install/artifact/artifact.go: which files Writer.Write makes of an  *)
(* artifact and what they hold, as far as one file refers to another.      *)
(*                                                                         *)
(* A path is the sequence of its directory names below artifacts/ and a    *)
(* file name.  Of the content that is copied (a chart, the manifests of a  *)
(* kustomize artifact) there are the files of the directory itself: only   *)
(* with them can the generated files collide.                              *)
(***************************************************************************)
EXTENDS Naturals, Sequences

(***************************************************************************)
(* An ArtifactWrapper, as the installer collects it:                       *)
(*   name, dependsOn, kustomize                    the artifact            *)
(*   chart       none, or its path, url or both are given                  *)
(*   defaults    it has default values                                     *)
(*   content     the files in its directory of the profile, if it has one  *)
(*   whole       that is the directory of the profile itself, path "."     *)
(*   dir         NestedProfileSubDirectoryName                             *)
(*   key, from   the repository it is of, and the clone of it it is from   *)
(***************************************************************************)
DirOf(a) == Append(a.dir, a.name)
ChartDir(a) == Append(DirOf(a), "helm-chart")

\* The path in the profile is joined to the directory of the artifact, or chart:
\* for the path "." this is where the generated files are written, too.
CopyDir(a) ==
    LET dir == IF a.kustomize THEN DirOf(a) ELSE ChartDir(a) IN
    IF a.whole THEN dir ELSE Append(dir, "content")

\* containsArtifact: the first artifact of that name, or the first artifact of
\* the nested profile of that name.
Matches(list, name) ==
    {i \in DOMAIN list : list[i].name = name \/ list[i].dir = <<name>>}

ContainsArtifact(list, name) ==
    list[CHOOSE i \in Matches(list, name) : \A j \in Matches(list, name) : i <= j]

\* makeArtifactName puts the name of the installation in front of it.
Dependencies(list, a) == {ContainsArtifact(list, d).name : d \in a.dependsOn}

\* Write stops at an artifact with an unknown dependency, with more than one type
\* or with none, and at a chart in the repository if no GitRepository is known.
Refuses(list, a, gitRepo) ==
    \/ \E d \in a.dependsOn : Matches(list, d) = {}
    \/ a.chart # "none" /\ a.kustomize
    \/ a.chart = "both"
    \/ a.chart = "none" /\ ~a.kustomize
    \/ a.chart = "path" /\ ~gitRepo

-----------------------------------------------------------------------------
File(dir, name, content) == [at |-> <<dir, name>>, holds |-> content]

\* The kustomization.yaml of a directory lists files next to it.
Resources(names) == [kind |-> "resources", names |-> names]
Copied(a) == [kind |-> "copied", from |-> a.from]
Object(a) == [kind |-> "object", from |-> a.from]

\* A flux Kustomization applies the directory `path` once its dependencies are ready.
Wrapper(list, a, path) ==
    [kind |-> "wrapper", name |-> a.name, path |-> path,
     dependsOn |-> Dependencies(list, a)]

\* The content is copied before anything is generated.
CopiedFiles(a) ==
    IF a.kustomize \/ a.chart = "path"
    THEN [i \in DOMAIN a.content |-> File(CopyDir(a), a.content[i], Copied(a))]
    ELSE <<>>

DefaultValues(a) ==
    IF a.defaults THEN <<File(ChartDir(a), "ConfigMap.yaml", Object(a))>> ELSE <<>>

\* Slip: the default values listed although there are none.
LocalChartListsAll(a) ==
    IF a.chart # "path" THEN <<>>
    ELSE <<File(ChartDir(a), "kustomization.yaml",
                Resources({"HelmRelease.yaml", "ConfigMap.yaml"}))>>

\* The objects of a chart of the profile's repository are listed next to it.
LocalChart(a) ==
    IF a.chart # "path" THEN <<>>
    ELSE <<File(ChartDir(a), "kustomization.yaml",
                Resources({"HelmRelease.yaml"} \cup
                          (IF a.defaults THEN {"ConfigMap.yaml"} ELSE {})))>>

\* The objects flux applies for a chart; a remote one comes with its repository.
ChartObjects(a) ==
    DefaultValues(a) \o <<File(ChartDir(a), "HelmRelease.yaml", Object(a))>> \o
    (IF a.chart = "url" THEN <<File(ChartDir(a), "HelmRepository.yaml", Object(a))>>
                        ELSE <<>>)

FluxFiles(list, a, path) ==
    <<File(DirOf(a), "kustomization.yaml", Resources({"kustomize-flux.yaml"})),
      File(DirOf(a), "kustomize-flux.yaml", Wrapper(list, a, path))>>

GeneratedFiles(list, a) ==
    IF a.kustomize
    THEN FluxFiles(list, a, CopyDir(a))
    ELSE LocalChart(a) \o ChartObjects(a) \o FluxFiles(list, a, ChartDir(a))

\* The files of one artifact in the order they are written.
FilesOf(list, a) == CopiedFiles(a) \o GeneratedFiles(list, a)
=============================================================================
