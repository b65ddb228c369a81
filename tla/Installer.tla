----------------------------- MODULE Installer -----------------------------
(***************************************************************************)
(* pkg/install/installer.go with pkg/install/artifact/artifact.go: an      *)
(* installation is made by cloning the repository of the profile and of    *)
(* every profile nested in it, collecting their artifacts, and writing     *)
(* them into the installation directory, the marker last.                  *)
(*                                                                         *)
(* Repositories change while an installation is made.  A run can fail or   *)
(* be killed at any step; the next one is a new process, which writes into *)
(* the same directory.  The recursion of collectArtifacts is an explicit   *)
(* stack.                                                                  *)
(***************************************************************************)
EXTENDS ArtifactWriter, SequencesExt, FiniteSets, Relation

CONSTANTS
    Keys,        \* repositories: pairs of a URL and a branch or tag
    Snapshots,   \* commits
    NoSnapshot,
    History,     \* the commits a branch or tag has pointed at: [Keys -> SUBSET Snapshots]
    Paths,       \* directories of a repository
    TagPath,     \* the directory a tag `directory/version` names: [Keys -> Paths]
    Names,       \* of artifacts
    FileNames,   \* in the directories artifacts are copied from
    Profiles,    \* the profile.yaml files: [Snapshots -> [Paths -> Seq(Artifact)]]
    NoProfile,   \* "no such file", or one that does not parse
    NoSource,    \* of an artifact that is not a nested profile
    Root,        \* the profile to install, [key, path]
    NoMarker,
    MaxMoves, MaxRuns   \* bounds on the environment

\* An entry of a profile.yaml, and what the commit has in the directory it names;
\* revisions counts what a nested profile gives of branch and tag.
Sources == [key: Keys, path: Paths, tagged: BOOLEAN, revisions: 0..2]
Contents == Seq(FileNames) \ {<<>>}
Artifact ==
    [name: Names, chart: {"none", "path", "url", "both"}, kustomize: BOOLEAN,
     profile: Sources \cup {NoSource}, dependsOn: SUBSET Names, defaults: BOOLEAN,
     content: Contents, whole: BOOLEAN]

ASSUME InstallerAssumption ==
    /\ NoSnapshot \notin Snapshots
    /\ NoMarker \notin 1..MaxRuns
    /\ History \in [Keys -> SUBSET (Snapshots \cup {NoSnapshot})]
    /\ TagPath \in [Keys -> Paths]
    /\ NoSource \notin Sources
    /\ Profiles \in [Snapshots -> [Paths -> Seq(Artifact) \cup {NoProfile}]]
    /\ Root.key \in Keys /\ Root.path \in Paths
    /\ {MaxMoves, MaxRuns} \subseteq Nat

VARIABLES
    upstream,    \* the commit each branch or tag points at
    clones,      \* clonedRepos
    call,        \* the collectArtifacts call whose profile is being fetched
    stack,       \* the calls in progress, and what is left of their artifacts
    artifacts,   \* collected so far
    written,     \* how many of them are written
    todo,        \* files of the next one that are not
    disk,        \* the installation directory: a function on the files in it
    marker,      \* the run that wrote profile-installation.yaml
    gitRepo,     \* whether this run was given a flux GitRepository
    pc,
    runs, moves

vars == <<upstream, clones, call, stack, artifacts, written, todo, disk, marker,
          gitRepo, pc, runs, moves>>

NoCall == <<>>

Init ==
    /\ upstream \in [Keys -> Snapshots \cup {NoSnapshot}]
    /\ \A k \in Keys : upstream[k] \in History[k]
    /\ clones = [k \in Keys |-> NoSnapshot]
    /\ call = NoCall /\ stack = <<>> /\ artifacts = <<>>
    /\ written = 0 /\ todo = <<>>
    /\ disk = <<>> /\ marker = NoMarker
    /\ pc = "idle" /\ gitRepo = FALSE /\ runs = 0 /\ moves = 0

\* A branch or tag moves, appears or is deleted.
Move(k) ==
    /\ moves < MaxMoves /\ moves' = moves + 1
    /\ \E s \in History[k] \ {upstream[k]} : upstream' = [upstream EXCEPT ![k] = s]
    /\ UNCHANGED <<clones, call, stack, artifacts, written, todo, disk, marker, gitRepo, pc, runs>>

-----------------------------------------------------------------------------
\* A run starts, with a new Installer.
Install ==
    /\ pc = "idle" /\ runs < MaxRuns /\ runs' = runs + 1
    /\ pc' = "collecting"
    /\ gitRepo' \in BOOLEAN
    /\ call' = [key |-> Root.key, path |-> Root.path, dir |-> <<>>]
    /\ clones' = [k \in Keys |-> NoSnapshot]
    /\ stack' = <<>> /\ artifacts' = <<>> /\ written' = 0 /\ todo' = <<>>
    /\ UNCHANGED <<upstream, disk, marker, moves>>

\* Slip: one clone per URL, whatever the branch or tag.
CloneCacheKeyByURL(k) == CHOOSE other \in Keys : other[1] = k[1]

CloneCacheKey(k) == k

\* Slip: a clone without the profile is thrown away, and cloned again.
CloneAgain ==
    /\ call # NoCall
    /\ upstream[call.key] # NoSnapshot
    /\ clones' = [clones EXCEPT ![CloneCacheKey(call.key)] =
                     IF @ = NoSnapshot THEN upstream[call.key] ELSE NoSnapshot]
    /\ UNCHANGED <<upstream, call, stack, artifacts, written, todo, disk, marker, gitRepo,
                   pc, runs, moves>>

\* cloneRepoAndGetProfileDefinition of a repository that is not cloned yet.
Clone ==
    /\ call # NoCall
    /\ clones[CloneCacheKey(call.key)] = NoSnapshot
    /\ upstream[call.key] # NoSnapshot
    /\ clones' = [clones EXCEPT ![CloneCacheKey(call.key)] = upstream[call.key]]
    /\ UNCHANGED <<upstream, call, stack, artifacts, written, todo, disk, marker, gitRepo, pc,
                   runs, moves>>

Definition(s, path) == IF s = NoSnapshot THEN NoProfile ELSE Profiles[s][path]

\* validateDefinition: at least one artifact, and no name twice.
ValidateDefinition(def) ==
    /\ def # <<>>
    /\ \A i, j \in DOMAIN def : def[i].name = def[j].name => i = j

\* The profile.yaml of the clone is read, and its artifacts are gone through.
ReadDefinition ==
    /\ call # NoCall
    /\ LET def == Definition(clones[CloneCacheKey(call.key)], call.path) IN
         /\ def # NoProfile /\ ValidateDefinition(def)
         /\ stack' = Append(stack, [key |-> call.key, dir |-> call.dir, rest |-> def])
    /\ call' = NoCall
    /\ UNCHANGED <<upstream, clones, artifacts, written, todo, disk, marker, gitRepo, pc, runs, moves>>

Collecting == pc = "collecting" /\ call = NoCall /\ stack # <<>>

Top == Last(stack)
Popped == [stack EXCEPT ![Len(stack)].rest = Tail(@)]
Source(a) == a.profile

\* validateProfileArtifact: of branch and tag exactly one is given.
ValidSource(source) == source.revisions = 1

\* A tag names the directory of the profile, whatever path is given beside it.
NestedPath(source) == IF source.tagged THEN TagPath[source.key] ELSE source.path

\* Slip: every nested profile written below the directory of the first.
NestedDirFlat(frame, a) == <<a.name>>

NestedDir(frame, a) == Append(frame.dir, a.name)

NestedProfile ==
    /\ Collecting /\ Top.rest # <<>>
    /\ LET a == Head(Top.rest) IN
         /\ Source(a) # NoSource
         /\ ValidSource(Source(a))
         /\ call' = [key |-> Source(a).key, path |-> NestedPath(Source(a)),
                     dir |-> NestedDir(Top, a)]
    /\ stack' = Popped
    /\ UNCHANGED <<upstream, clones, artifacts, written, todo, disk, marker, gitRepo, pc, runs, moves>>

Wrapped(frame, a) ==
    [name |-> a.name, chart |-> a.chart, kustomize |-> a.kustomize,
     dependsOn |-> a.dependsOn, defaults |-> a.defaults,
     content |-> a.content, whole |-> a.whole, dir |-> frame.dir,
     key |-> frame.key, from |-> clones[CloneCacheKey(frame.key)]]

PlainArtifact ==
    /\ Collecting /\ Top.rest # <<>>
    /\ Source(Head(Top.rest)) = NoSource
    /\ artifacts' = Append(artifacts, Wrapped(Top, Head(Top.rest)))
    /\ stack' = Popped
    /\ UNCHANGED <<upstream, clones, call, written, todo, disk, marker, gitRepo, pc, runs, moves>>

\* Slip: a nested call ends the collection.
ReturnAtOnce ==
    /\ Collecting /\ Top.rest = <<>>
    /\ stack' = Front(stack) /\ pc' = "writing"
    /\ UNCHANGED <<upstream, clones, call, artifacts, written, todo, disk, marker, gitRepo,
                   runs, moves>>

\* A call returns; with the last one the artifacts go to the writer.
Return ==
    /\ Collecting /\ Top.rest = <<>>
    /\ stack' = Front(stack)
    /\ pc' = IF Len(stack) = 1 THEN "writing" ELSE pc
    /\ UNCHANGED <<upstream, clones, call, artifacts, written, todo, disk, marker, gitRepo, runs, moves>>

-----------------------------------------------------------------------------
Current == artifacts[written + 1]

\* The next artifact is checked before anything of it is written.
BeginArtifact ==
    /\ pc = "writing" /\ todo = <<>> /\ written < Len(artifacts)
    /\ ~Refuses(artifacts, Current, gitRepo)
    /\ todo' = FilesOf(artifacts, Current)
    /\ UNCHANGED <<upstream, clones, call, stack, artifacts, written, disk, marker, gitRepo, pc,
                   runs, moves>>

WriteFile ==
    /\ pc = "writing" /\ todo # <<>>
    /\ LET f == Head(todo) IN
         disk' = [g \in DOMAIN disk \cup {f.at} |-> IF g = f.at THEN f.holds ELSE disk[g]]
    /\ todo' = Tail(todo)
    /\ written' = IF todo' = <<>> THEN written + 1 ELSE written
    /\ UNCHANGED <<upstream, clones, call, stack, artifacts, marker, gitRepo, pc, runs, moves>>

\* Slip: the marker written before the last artifact.
WriteMarkerEarly ==
    /\ pc = "writing" /\ todo = <<>> /\ written + 1 >= Len(artifacts)
    /\ marker' = runs
    /\ pc' = IF written = Len(artifacts) THEN "idle" ELSE pc
    /\ UNCHANGED <<upstream, clones, call, stack, artifacts, written, todo, disk, gitRepo, runs, moves>>

WriteMarker ==
    /\ pc = "writing" /\ todo = <<>> /\ written = Len(artifacts)
    /\ marker' = runs
    /\ pc' = "idle"
    /\ UNCHANGED <<upstream, clones, call, stack, artifacts, written, todo, disk, gitRepo, runs, moves>>

\* A step that fails ends the run: the conditions above, and anything else.
\* What is written so far stays, and so do the temporary clones.
Fail ==
    /\ pc # "idle"
    /\ pc' = "idle" /\ call' = NoCall
    /\ UNCHANGED <<upstream, clones, stack, artifacts, written, todo, disk, marker,
                   gitRepo, runs, moves>>

Step ==
    \/ Clone \/ ReadDefinition \/ NestedProfile \/ PlainArtifact \/ Return
    \/ BeginArtifact \/ WriteFile \/ WriteMarker

Next == Install \/ Step \/ Fail \/ \E k \in Keys : Move(k)

Spec == Init /\ [][Next]_vars

\* A run runs on, if only to fail.
FairSpec == Spec /\ WF_vars(Fail \/ Step)

-----------------------------------------------------------------------------
(* Properties *)

Calls == [key: Keys, path: Paths, dir: Seq(Names)]
Frames == [key: Keys, dir: Seq(Names), rest: Seq(Artifact)]
Wrappers ==
    [name: Names, chart: {"none", "path", "url", "both"}, kustomize: BOOLEAN,
     dependsOn: SUBSET Names, defaults: BOOLEAN, content: Contents, whole: BOOLEAN,
     dir: Seq(Names), key: Keys, from: Snapshots]

\* Every variable holds a value of its kind; writing starts when collecting has
\* ended, and ends with the last artifact.
TypeOK ==
    /\ upstream \in [Keys -> Snapshots \cup {NoSnapshot}]
    /\ clones \in [Keys -> Snapshots \cup {NoSnapshot}]
    /\ call \in Calls \cup {NoCall}
    /\ stack \in Seq(Frames)
    /\ artifacts \in Seq(Wrappers)
    /\ written \in 0..Len(artifacts)
    /\ todo # <<>> => written < Len(artifacts)
    /\ gitRepo \in BOOLEAN
    /\ pc \in {"idle", "collecting", "writing"}
    /\ pc = "writing" => stack = <<>> /\ call = NoCall
    /\ pc # "idle" => runs > 0
    /\ runs \in 0..MaxRuns /\ moves \in 0..MaxMoves
    /\ marker \in (1..runs) \cup {NoMarker}

\* The profiles there are in the clones, and the artifacts of one of them.
Found == {l \in Keys \X Paths : Definition(clones[l[1]], l[2]) # NoProfile}
Entries(l) == Definition(clones[l[1]], l[2])

Target(source) == <<source.key, NestedPath(source)>>

\* Where the artifacts are written to, and the directories above.
Dirs == {<<>>} \cup UNION {Prefixes(artifacts[i].dir) : i \in DOMAIN artifacts}

\* Every directory is of a profile: that of <<>> is the root, the others are those
\* nested in the profile of the directory above, each under the artifact's name.
IsTree(at) ==
    /\ at[<<>>] = <<Root.key, Root.path>>
    /\ \A d \in Dirs : \A a \in ToSet(Entries(at[d])) :
          Source(a) # NoSource =>
              Append(d, a.name) \in Dirs /\ at[Append(d, a.name)] = Target(Source(a))
    /\ \A d \in Dirs \ {<<>>} : \E a \in ToSet(Entries(at[Front(d)])) :
          Source(a) # NoSource /\ a.name = Last(d)

Leaves(at, d) ==
    {[dir |-> d, name |-> a.name, key |-> at[d][1]] :
        a \in {b \in ToSet(Entries(at[d])) : Source(b) = NoSource}}

Leaf(i) ==
    [dir |-> artifacts[i].dir, name |-> artifacts[i].name, key |-> artifacts[i].key]

Address(i) == Append(artifacts[i].dir, artifacts[i].name)

\* i comes with an earlier artifact of some profile than j.
Before(at, i, j) ==
    \E d \in Dirs : LET def == Entries(at[d]) IN
        \E p, q \in DOMAIN def :
            /\ p < q
            /\ IsPrefix(Append(d, def[p].name), Address(i))
            /\ IsPrefix(Append(d, def[q].name), Address(j))

\* installer.go:65-119.  What is handed to the writer is the tree of profiles below
\* the root: the artifacts of each profile in order, in place of a nested profile
\* those of it, and each artifact once and with its own directory.
CollectsTheTree ==
    pc = "writing" => \E at \in [Dirs -> Found] :
        /\ IsTree(at)
        /\ {Leaf(i) : i \in DOMAIN artifacts} = UNION {Leaves(at, d) : d \in Dirs}
        /\ \A i, j \in DOMAIN artifacts : i < j => Before(at, i, j)

\* installer.go:146-157.  However the repositories move during a run, the
\* artifacts of one repository are all from one commit, and it is a commit the
\* branch or tag that was asked for has pointed at.
OneCommitPerRepository ==
    \A i, j \in DOMAIN artifacts :
        /\ artifacts[i].from \in History[artifacts[i].key]
        /\ artifacts[i].key = artifacts[j].key => artifacts[i].from = artifacts[j].from

\* The files this run writes.
FilesAt(i) == ToSet(FilesOf(artifacts, artifacts[i]))
Planned == UNION {FilesAt(i) : i \in DOMAIN artifacts}

\* A copied file whose place a generated file of the same artifact takes.
Replaced(i) ==
    {f \in FilesAt(i) :
        /\ artifacts[i].whole /\ f.holds.kind = "copied"
        /\ \E g \in FilesAt(i) : g.at = f.at /\ g.holds.kind # "copied"}

\* artifact.go:59-215.  The marker of a run stands for a complete installation:
\* every file of every artifact is there as this run wrote it, but for those an
\* artifact that is the whole directory of its profile has under the name of a
\* generated one.  In particular no artifact is written over another, and nothing
\* that is copied over what is generated.
MarkerMeansComplete ==
    marker = runs =>
        \A i \in DOMAIN artifacts : \A f \in FilesAt(i) \ Replaced(i) :
            f.at \in DOMAIN disk /\ disk[f.at] = f.holds

\* artifact.go:106-215.  What the files of a complete installation refer to is in
\* it: the resources kustomization.yaml lists, the directory flux is to apply,
\* and the Kustomizations it is to wait for.
RefersTo(f) ==
    CASE f.holds.kind = "resources" ->
            \A n \in f.holds.names : <<f.at[1], n>> \in DOMAIN disk
      [] f.holds.kind = "wrapper" ->
            /\ \E g \in DOMAIN disk : IsPrefix(f.holds.path, g[1])
            /\ \A n \in f.holds.dependsOn :
                  \E g \in Planned : g.holds.kind = "wrapper" /\ g.holds.name = n
      [] OTHER -> TRUE

NothingDangles == marker = runs => \A f \in Planned : RefersTo(f)

\* Every run ends, if no profile is nested in itself.
Terminates == pc # "idle" ~> pc = "idle"

-----------------------------------------------------------------------------
(* Claims of the repository that the code does not keep *)

\* docs/release_notes/v0.2.0.md:4: "Add support for setting dependency ordering
\* on artifacts": flux is told to apply all that an artifact of the profile
\* depends on before it applies the artifact.
PartsOf(name) ==
    {i \in DOMAIN artifacts :
        (artifacts[i].dir \o <<artifacts[i].name>>)[1] = name}

WaitsFor(i, j) ==
    TransitiveClosure(
        [x, y \in DOMAIN artifacts |->
            artifacts[y].name \in Dependencies(artifacts, artifacts[x])],
        DOMAIN artifacts)[i, j]

DependenciesOrdered ==
    marker = runs =>
        LET def == Definition(clones[Root.key], Root.path) IN
        \A e \in DOMAIN def : \A d \in def[e].dependsOn :
            \A i \in PartsOf(def[e].name), j \in PartsOf(d) : WaitsFor(i, j)
=============================================================================
