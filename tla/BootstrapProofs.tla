-------------------------- MODULE BootstrapProofs --------------------------
(***************************************************************************)
(* However many bootstraps and adds run at once: the directory keeps the   *)
(* bootstraps apart, a configuration that was announced stays, and adds    *)
(* that leave the GitRepository to the configuration agree on it.          *)
(***************************************************************************)
EXTENDS Bootstrap, TLAPS

Named(f) == f \in Config /\ f.repo # NoRepo

\* Whoever is beyond Mkdir holds the directory.
DirectoryHeld == \A b \in Bootstraps : Beyond(b) => pctlDir

\* Once the file names a GitRepository nobody writes it any more.
Settled ==
    Named(file) => pctlDir /\ \A b \in Bootstraps : pc[b] \notin {"made", "created"}

\* Until the owner replaces it, an add that read a GitRepository read the one
\* that is there now.
ReadsSettled ==
    removals = 0 => \A a \in Adds : Named(config[a]) => file = config[a]

\* An add goes on with what its flag says, or else with what it read.
ChoiceFollows ==
    \A a \in Adds : pc[a] = "installing" =>
        /\ Flags[a].repo # NoRepo => chosen[a].repo = Flags[a].repo
        /\ Flags[a].repo = NoRepo =>
              config[a] # NoFile /\ chosen[a].repo = config[a].repo

Inv ==
    /\ TypeOK /\ DirectoryHeld /\ CompletedConfigStays
    /\ Settled /\ ReadsSettled /\ ChoiceFollows

LEMMA ConfigFacts ==
    /\ Blank \in Config /\ ~Named(Blank)
    /\ NoFile \notin Config /\ Garbage \notin Config
    /\ \A b \in Bootstraps :
          /\ Asked[b] \in Config /\ Prefixes(Asked[b]) \subseteq Config \cup {Garbage}
    /\ \A a \in Adds : Flags[a] \in Config /\ a \notin Bootstraps
  BY BootstrapAssumption DEF Config, Blank, Named, Prefixes

LEMMA InitInv ==
    ASSUME Init
    PROVE  Inv
<1> USE ConfigFacts
<1>1. \A p \in Bootstraps \cup Adds : pc[p] = "start"
  BY DEF Init
<1>2. TypeOK
  <2>1. 0 \in 0..MaxRemovals
    BY BootstrapAssumption
  <2>2. pc \in [Bootstraps \cup Adds -> BootstrapPhases \cup AddPhases]
    BY DEF Init, BootstrapPhases, AddPhases
  <2>3. config \in [Adds -> Config \cup {NoFile}] /\ chosen \in [Adds -> Config]
    BY DEF Init
  <2>4. Exclusive /\ \A b \in Bootstraps : pc[b] \in BootstrapPhases
    BY <1>1 DEF Exclusive, Beyond, BootstrapPhases
  <2>5. QED
    BY <2>1, <2>2, <2>3, <2>4 DEF Init, TypeOK
<1>3. QED
  BY <1>1, <1>2 DEF Init, Inv, DirectoryHeld, CompletedConfigStays, Settled, ReadsSettled,
                    ChoiceFollows, Beyond, Named

LEMMA MkdirInv ==
    ASSUME Inv, NEW b \in Bootstraps, Mkdir(b)
    PROVE  Inv'
<1>1. ~pctlDir => file = NoFile /\ \A c \in Bootstraps : ~Beyond(c)
  BY DEF Inv, TypeOK, DirectoryHeld
<1> USE ConfigFacts
<1>2. CASE pctlDir
  <2>1. pc' = [pc EXCEPT ![b] = "failed"] /\ UNCHANGED <<pctlDir, file, config, chosen, removals>>
    BY <1>2 DEF Mkdir, Goto, Inv, TypeOK
  <2>2. TypeOK'
    BY <2>1 DEF Inv, TypeOK, Exclusive, Beyond, BootstrapPhases
  <2>3. QED
    BY <2>1, <2>2 DEF Inv, TypeOK, DirectoryHeld, CompletedConfigStays, Settled,
                      ReadsSettled, ChoiceFollows, Beyond
<1>3. CASE ~pctlDir
  <2>1. /\ pc' = [pc EXCEPT ![b] = "made"] /\ pctlDir' = TRUE
        /\ UNCHANGED <<file, config, chosen, removals>>
    BY <1>3 DEF Mkdir, Goto
  <2>2. TypeOK'
    BY <1>1, <1>3, <2>1 DEF Inv, TypeOK, Exclusive, Beyond, BootstrapPhases
  <2>3. QED
    BY <1>1, <1>3, <2>1, <2>2 DEF Inv, TypeOK, DirectoryHeld, CompletedConfigStays, Settled,
                                 ReadsSettled, ChoiceFollows, Beyond, Named
<1>4. QED
  BY <1>2, <1>3

\* The three steps of the one bootstrap that is beyond Mkdir: what it leaves of the
\* file was not settled before.
LEMMA HolderInv ==
    ASSUME Inv, NEW b \in Bootstraps, CreateFile(b) \/ WriteFile(b) \/ Stop(b)
    PROVE  Inv'
<1> USE ConfigFacts
<1>1. /\ pc[b] \in {"made", "created"} /\ pctlDir /\ ~Named(file)
      /\ \A c \in Bootstraps : Beyond(c) => c = b
  BY DEF CreateFile, WriteFile, Stop, Inv, TypeOK, DirectoryHeld, Settled, Exclusive, Beyond
<1>2. UNCHANGED <<pctlDir, config, chosen, removals>>
  BY DEF CreateFile, WriteFile, Stop
<1>3. /\ file' \in Config \cup {NoFile, Garbage}
      /\ \E l \in {"created", "completed", "failed"} :
            /\ pc' = [pc EXCEPT ![b] = l]
            /\ l = "created" => ~Named(file')
            /\ l = "completed" => file' = Asked[b]
  BY DEF CreateFile, WriteFile, Stop, Goto, Inv, TypeOK
<1>4. PICK l \in {"created", "completed", "failed"} :
        /\ pc' = [pc EXCEPT ![b] = l]
        /\ l = "created" => ~Named(file')
        /\ l = "completed" => file' = Asked[b]
  BY <1>3
<1>5. /\ pc'[b] = l /\ \A p \in (Bootstraps \cup Adds) \ {b} : pc'[p] = pc[p]
  BY <1>4 DEF Inv, TypeOK
<1>6. TypeOK'
  BY <1>1, <1>2, <1>3, <1>4, <1>5 DEF Inv, TypeOK, Exclusive, Beyond, BootstrapPhases
<1>7. DirectoryHeld' /\ CompletedConfigStays'
  BY <1>1, <1>2, <1>4, <1>5 DEF DirectoryHeld, CompletedConfigStays, Beyond
<1>8. Settled'
  BY <1>1, <1>2, <1>4, <1>5 DEF Settled, Beyond
<1>9. ReadsSettled'
  BY <1>1, <1>2 DEF Inv, ReadsSettled
<1>10. ChoiceFollows'
  BY <1>2, <1>5 DEF Inv, ChoiceFollows
<1>11. QED
  BY <1>6, <1>7, <1>8, <1>9, <1>10 DEF Inv

LEMMA AddInv ==
    ASSUME Inv, NEW a \in Adds, GetConfig(a) \/ Choose(a)
    PROVE  Inv'
<1> USE ConfigFacts
<1>1. /\ UNCHANGED <<pctlDir, file, removals>>
      /\ \A b \in Bootstraps : pc'[b] = pc[b]
      /\ \A b \in Adds \ {a} :
            pc'[b] = pc[b] /\ config'[b] = config[b] /\ chosen'[b] = chosen[b]
  BY DEF GetConfig, Choose, Goto, Inv, TypeOK
<1>2. CASE GetConfig(a)
  <2>1. /\ config'[a] = (IF file = Garbage THEN NoFile ELSE file) /\ pc'[a] = "read"
        /\ config' \in [Adds -> Config \cup {NoFile}] /\ UNCHANGED chosen
        /\ pc' \in [Bootstraps \cup Adds -> BootstrapPhases \cup AddPhases]
    BY <1>2 DEF GetConfig, Goto, Inv, TypeOK, AddPhases
  <2>2. TypeOK' /\ DirectoryHeld' /\ CompletedConfigStays' /\ Settled'
    BY <1>1, <2>1 DEF Inv, TypeOK, DirectoryHeld, CompletedConfigStays, Settled, Exclusive,
                      Beyond
  <2>3. ReadsSettled'
    BY <1>1, <2>1 DEF Inv, ReadsSettled, Named
  <2>4. ChoiceFollows'
    BY <1>1, <2>1 DEF Inv, ChoiceFollows
  <2>5. QED
    BY <2>2, <2>3, <2>4 DEF Inv
<1>3. CASE Choose(a)
  <2>1. /\ UNCHANGED config /\ pc[a] = "read"
        /\ pc' \in [Bootstraps \cup Adds -> BootstrapPhases \cup AddPhases]
    BY <1>3 DEF Choose, Goto, Inv, TypeOK, AddPhases
  <2>2. /\ ProfileOutputDirectory(a) \in Dirs \cup {NoDir}
        /\ (Flags[a].repo = NoRepo => config[a] # NoFile)
             => GitRepository(a) \in Repos \cup {NoRepo}
    BY BootstrapAssumption DEF Inv, TypeOK, Config, ProfileOutputDirectory, GitRepository
  <2>3. /\ chosen' \in [Adds -> Config]
        /\ pc'[a] = "installing" =>
              /\ Flags[a].repo = NoRepo => config[a] # NoFile
              /\ chosen'[a].repo = GitRepository(a)
    <3>1. CASE Flags[a].repo = NoRepo /\ config[a] = NoFile
      BY <1>3, <3>1 DEF Choose, Goto, Inv, TypeOK
    <3>2. CASE ~(Flags[a].repo = NoRepo /\ config[a] = NoFile)
      <4>1. chosen' = [chosen EXCEPT ![a] = [repo |-> GitRepository(a),
                                             dir |-> ProfileOutputDirectory(a)]]
        BY <1>3, <3>2 DEF Choose
      <4>2. [repo |-> GitRepository(a), dir |-> ProfileOutputDirectory(a)] \in Config
        BY <2>2, <3>2 DEF Config
      <4>3. QED
        BY <3>2, <4>1, <4>2 DEF Inv, TypeOK
    <3>3. QED
      BY <3>1, <3>2
  <2>4. TypeOK' /\ DirectoryHeld' /\ CompletedConfigStays' /\ Settled' /\ ReadsSettled'
    BY <1>1, <2>1, <2>3 DEF Inv, TypeOK, DirectoryHeld, CompletedConfigStays, Settled,
                           ReadsSettled, Exclusive, Beyond
  <2>5. ChoiceFollows'
    BY <1>1, <2>1, <2>3 DEF Inv, ChoiceFollows, GitRepository
  <2>6. QED
    BY <2>4, <2>5 DEF Inv
<1>4. QED
  BY <1>2, <1>3

LEMMA RemoveInv ==
    ASSUME Inv, Remove
    PROVE  Inv'
<1> USE ConfigFacts
<1>1. /\ pctlDir' = FALSE /\ file' = NoFile /\ UNCHANGED <<config, chosen>>
      /\ removals' \in 0..MaxRemovals /\ removals' # 0
  BY BootstrapAssumption DEF Remove, Inv, TypeOK
<1>2. /\ \A b \in Bootstraps : pc'[b] \in {"start", "failed", "removed"}
      /\ pc' \in [Bootstraps \cup Adds -> BootstrapPhases \cup AddPhases]
      /\ \A a \in Adds : pc'[a] = "installing" => pc[a] = "installing"
  BY DEF Remove, Inv, TypeOK, BootstrapPhases, AddPhases
<1>3. TypeOK'
  BY <1>1, <1>2 DEF Inv, TypeOK, Exclusive, Beyond, BootstrapPhases
<1>4. QED
  BY <1>1, <1>2, <1>3 DEF Inv, DirectoryHeld, CompletedConfigStays, Settled, ReadsSettled,
                         ChoiceFollows, Beyond, Named

LEMMA StutterInv == Inv /\ UNCHANGED vars => Inv'
  BY DEF vars, Inv, TypeOK, DirectoryHeld, CompletedConfigStays, Settled, ReadsSettled,
         ChoiceFollows, Exclusive, Beyond

LEMMA Invariance == Spec => []Inv
<1>1. Inv /\ [Next]_vars => Inv'
  BY MkdirInv, HolderInv, AddInv, RemoveInv, StutterInv DEF Next
<1>2. QED
  BY InitInv, <1>1, PTL DEF Spec

\* Every variable keeps its type, and never are two bootstraps between their Mkdir
\* and the end of their WriteFile: os.Mkdir alone keeps them apart.
THEOREM TypeCorrect == Spec => []TypeOK
<1>1. Inv => TypeOK
  BY DEF Inv
<1>2. QED
  BY Invariance, <1>1, PTL

\* bootstrap.go:33-43.  What "bootstrap completed" announced is what is there,
\* however many bootstraps race.
THEOREM CompletedStays == Spec => []CompletedConfigStays
<1>1. Inv => CompletedConfigStays
  BY DEF Inv
<1>2. QED
  BY Invariance, <1>1, PTL

\* add.go:238-252.  Adds that leave the GitRepository to the configuration agree on
\* it until the owner replaces it, and an add with a flag uses the flag's.
THEOREM Agreement == Spec => []AddsAgree
<1>1. ASSUME Inv
      PROVE  AddsAgree
  <2> SUFFICES ASSUME NEW a \in Adds, NEW b \in Adds,
                      pc[a] = "installing", pc[b] = "installing"
               PROVE  /\ Flags[a].repo # NoRepo => chosen[a].repo = Flags[a].repo
                      /\ (/\ Flags[a].repo = NoRepo /\ chosen[a].repo # NoRepo
                          /\ Flags[b].repo = NoRepo /\ chosen[b].repo # NoRepo
                          /\ removals = 0)
                         => chosen[a].repo = chosen[b].repo
    BY DEF AddsAgree
  <2>1. Flags[a].repo # NoRepo => chosen[a].repo = Flags[a].repo
    BY <1>1 DEF Inv, ChoiceFollows
  <2>2. ASSUME Flags[a].repo = NoRepo, chosen[a].repo # NoRepo,
               Flags[b].repo = NoRepo, chosen[b].repo # NoRepo, removals = 0
        PROVE  chosen[a].repo = chosen[b].repo
    <3>1. Named(config[a]) /\ chosen[a].repo = config[a].repo
      BY <1>1, <2>2 DEF Inv, TypeOK, ChoiceFollows, Named
    <3>2. Named(config[b]) /\ chosen[b].repo = config[b].repo
      BY <1>1, <2>2 DEF Inv, TypeOK, ChoiceFollows, Named
    <3>3. QED
      BY <1>1, <2>2, <3>1, <3>2 DEF Inv, ReadsSettled
  <2>3. QED
    BY <2>1, <2>2
<1>2. QED
  BY Invariance, <1>1, PTL
=============================================================================
