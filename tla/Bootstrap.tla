----------------------------- MODULE Bootstrap -----------------------------
(***************************************************************************)
(* pkg/bootstrap/bootstrap.go: `pctl bootstrap` writes .pctl/config.yaml   *)
(* at the top of a repository, and `pctl add` (cmd/pctl/add.go) takes what *)
(* its flags leave open from there.                                        *)
(*                                                                         *)
(* Every process is one command, and they all run at the same time: the    *)
(* only thing between two bootstraps is that os.Mkdir fails for a          *)
(* directory that exists.                                                  *)
(***************************************************************************)
EXTENDS Naturals

CONSTANTS
    Bootstraps, Adds,    \* processes
    Repos, NoRepo,       \* namespace and name of a GitRepository; both empty
    Dirs, NoDir,
    DefaultOut,          \* defaultOut of cmd/pctl/add.go
    Asked,               \* what each bootstrap is asked for: [Bootstraps -> Config]
    Flags,               \* --git-repository and --out of each add: [Adds -> Config]
    NoFile, Garbage,     \* no config.yaml; one that does not parse
    MaxRemovals          \* bound on the owner

Config == [repo: Repos \cup {NoRepo}, dir: Dirs \cup {NoDir}]
Blank == [repo |-> NoRepo, dir |-> NoDir]

ASSUME BootstrapAssumption ==
    /\ NoRepo \notin Repos /\ NoDir \notin Dirs /\ DefaultOut \in Dirs
    /\ Asked \in [Bootstraps -> [repo: Repos, dir: Dirs \cup {NoDir}]]
    /\ Flags \in [Adds -> Config]
    /\ {NoFile, Garbage} \cap Config = {}
    /\ Bootstraps \cap Adds = {}
    /\ MaxRemovals \in Nat

VARIABLES
    pctlDir,    \* whether .pctl exists
    file,       \* what config.yaml reads as
    pc,         \* of each process
    config,     \* what GetConfig returned to each add: NoFile stands for nil
    chosen,     \* the GitRepository and the directory each add went on with
    removals

vars == <<pctlDir, file, pc, config, chosen, removals>>

BootstrapPhases == {"start", "made", "created", "completed", "failed", "removed"}
AddPhases == {"start", "read", "installing", "failed"}

Init ==
    /\ pctlDir = FALSE /\ file = NoFile
    /\ pc = [p \in Bootstraps \cup Adds |-> "start"]
    /\ config = [a \in Adds |-> NoFile] /\ chosen = [a \in Adds |-> Blank]
    /\ removals = 0

Goto(p, label) == pc' = [pc EXCEPT ![p] = label]

-----------------------------------------------------------------------------
(* CreateConfig *)

\* Slip: os.MkdirAll, which takes a directory that exists.
MkdirAll(b) ==
    /\ pc[b] = "start"
    /\ pctlDir' = TRUE /\ Goto(b, "made")
    /\ UNCHANGED <<file, config, chosen, removals>>

Mkdir(b) ==
    /\ pc[b] = "start"
    /\ pctlDir' = TRUE
    /\ Goto(b, IF pctlDir THEN "failed" ELSE "made")
    /\ UNCHANGED <<file, config, chosen, removals>>

\* os.WriteFile creates the file, which reads as a configuration without values ...
CreateFile(b) ==
    /\ pc[b] = "made"
    /\ file' = Blank /\ Goto(b, "created")
    /\ UNCHANGED <<pctlDir, config, chosen, removals>>

\* ... and then writes it.
WriteFile(b) ==
    /\ pc[b] = "created"
    /\ file' = Asked[b] /\ Goto(b, "completed")
    /\ UNCHANGED <<pctlDir, config, chosen, removals>>

\* What the beginning of the file reads as: the repository comes first.
Prefixes(c) == {Blank, Garbage, [c EXCEPT !.dir = NoDir]}

\* An error or a kill; of the file there is what was written.
Stop(b) ==
    /\ \/ pc[b] = "made" /\ UNCHANGED file
       \/ pc[b] = "created" /\ file' \in Prefixes(Asked[b])
    /\ Goto(b, "failed")
    /\ UNCHANGED <<pctlDir, config, chosen, removals>>

\* The owner removes .pctl, to bootstrap again, when no bootstrap is running.
Remove ==
    /\ pctlDir /\ removals < MaxRemovals /\ removals' = removals + 1
    /\ \A b \in Bootstraps : pc[b] \notin {"made", "created"}
    /\ pctlDir' = FALSE /\ file' = NoFile
    /\ pc' = [p \in DOMAIN pc |-> IF pc[p] = "completed" THEN "removed" ELSE pc[p]]
    /\ UNCHANGED <<config, chosen>>

-----------------------------------------------------------------------------
(* addProfile *)

GetConfig(a) ==
    /\ pc[a] = "start"
    /\ config' = [config EXCEPT ![a] = IF file = Garbage THEN NoFile ELSE file]
    /\ Goto(a, "read")
    /\ UNCHANGED <<pctlDir, file, chosen, removals>>

ProfileOutputDirectory(a) ==
    IF Flags[a].dir # NoDir THEN Flags[a].dir
    ELSE IF config[a] # NoFile /\ config[a].dir # NoDir THEN config[a].dir
    ELSE DefaultOut

\* Slip: the configuration before the flag.
GitRepositoryConfigFirst(a) ==
    IF config[a] # NoFile THEN config[a].repo ELSE Flags[a].repo

GitRepository(a) ==
    IF Flags[a].repo # NoRepo THEN Flags[a].repo ELSE config[a].repo

\* add goes on with a GitRepository, or fails when neither names one.
Choose(a) ==
    /\ pc[a] = "read"
    /\ IF Flags[a].repo = NoRepo /\ config[a] = NoFile
       THEN Goto(a, "failed") /\ UNCHANGED chosen
       ELSE /\ chosen' = [chosen EXCEPT ![a] = [repo |-> GitRepository(a),
                                               dir |-> ProfileOutputDirectory(a)]]
            /\ Goto(a, "installing")
    /\ UNCHANGED <<pctlDir, file, config, removals>>

Next ==
    \/ \E b \in Bootstraps : Mkdir(b) \/ CreateFile(b) \/ WriteFile(b) \/ Stop(b)
    \/ \E a \in Adds : GetConfig(a) \/ Choose(a)
    \/ Remove

Spec == Init /\ [][Next]_vars

-----------------------------------------------------------------------------
(* Properties *)

\* Of all bootstraps at most one is beyond Mkdir.
Beyond(b) == pc[b] \in {"made", "created", "completed"}
Exclusive == \A b, c \in Bootstraps : Beyond(b) /\ Beyond(c) => b = c

\* bootstrap.go:34.  Every variable holds a value of its kind, and the directory
\* keeps the bootstraps apart.
TypeOK ==
    /\ pctlDir \in BOOLEAN
    /\ file \in Config \cup {NoFile, Garbage}
    /\ file # NoFile => pctlDir
    /\ pc \in [Bootstraps \cup Adds -> BootstrapPhases \cup AddPhases]
    /\ \A b \in Bootstraps : pc[b] \in BootstrapPhases
    /\ config \in [Adds -> Config \cup {NoFile}]
    /\ chosen \in [Adds -> Config]
    /\ Exclusive
    /\ removals \in 0..MaxRemovals

\* bootstrap.go:33-43.  What "bootstrap completed" announced is what is there,
\* whatever other bootstraps do at the same time or later.
CompletedConfigStays ==
    \A b \in Bootstraps : pc[b] = "completed" => file = Asked[b]

\* add.go:238-252.  The adds of one repository agree on the GitRepository when
\* they leave it to the configuration, unless the owner replaced that, or they
\* got none (see AddErrorsWithoutRepository); and an add that was given one
\* uses no other.
AddsAgree ==
    \A a, b \in Adds :
        pc[a] = "installing" /\ pc[b] = "installing" =>
            /\ Flags[a].repo # NoRepo => chosen[a].repo = Flags[a].repo
            /\ (/\ Flags[a].repo = NoRepo /\ chosen[a].repo # NoRepo
                /\ Flags[b].repo = NoRepo /\ chosen[b].repo # NoRepo
                /\ removals = 0)
               => chosen[a].repo = chosen[b].repo

-----------------------------------------------------------------------------
(* Claims of the repository that the code does not keep *)

\* docs/release_notes/v0.8.0.md:4: "Error if git-repository value is not
\* provided".
AddErrorsWithoutRepository ==
    \A a \in Adds : pc[a] = "installing" => chosen[a].repo # NoRepo
=============================================================================
