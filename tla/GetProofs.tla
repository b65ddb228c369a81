------------------------------ MODULE GetProofs ------------------------------
(***************************************************************************)
(* What a get prints was true, its errors have a cause, and what add and   *)
(* upgrade record leads back to the catalog: for all catalogs, clusters,   *)
(* requests and bounds.                                                    *)
(***************************************************************************)
EXTENDS Get, TLAPS

-----------------------------------------------------------------------------
(* The catalog *)

LEMMA NewerType ==
    ASSUME NEW s \in SUBSET Entries, NEW c, NEW p, NEW v
    PROVE  NewerThan(s, c, p, v) \in SUBSET Versions
BY DEF NewerThan, OfProfile

\* An answer that is not an error is right, or there is no service.
LEMMA UpdatesAnswer ==
    ASSUME NEW k \in Conditions, NEW s \in SUBSET Entries, NEW c, NEW p, NEW v
    PROVE  IF k = "failing" THEN GetAvailableUpdates(k, s, c, p, v) = Unavailable
           ELSE GetAvailableUpdates(k, s, c, p, v) =
                   IF k = "missing" THEN {} ELSE NewerThan(s, c, p, v)
<1>1. CASE k = "failing"
  BY <1>1 DEF GetAvailableUpdates, DoRequest
<1>2. CASE k = "missing"
  BY <1>2 DEF GetAvailableUpdates, DoRequest
<1>3. CASE k = "up" /\ NewerThan(s, c, p, v) # {}
  BY <1>3 DEF GetAvailableUpdates, DoRequest
<1>4. CASE k = "up" /\ NewerThan(s, c, p, v) = {}
  BY <1>4 DEF GetAvailableUpdates, DoRequest
<1> QED BY <1>1, <1>2, <1>3, <1>4 DEF Conditions

LEMMA UpdatesType ==
    ASSUME NEW k \in Conditions, NEW s \in SUBSET Entries, NEW c, NEW p, NEW v
    PROVE  /\ GetAvailableUpdates(k, s, c, p, v) = Unavailable
              \/ GetAvailableUpdates(k, s, c, p, v) \in SUBSET Versions
           /\ GetAvailableUpdates(k, s, c, p, v) = Unavailable => k = "failing"
<1>1. CASE k = "failing"
  BY <1>1, UpdatesAnswer
<1>2. CASE k # "failing"
  <2>1. GetAvailableUpdates(k, s, c, p, v) \in SUBSET Versions
    BY <1>2, UpdatesAnswer, NewerType
  <2> QED BY <2>1, CatalogAssumption DEF CatalogAssumption
<1> QED BY <1>1, <1>2

LEMMA AtStore ==
    ASSUME NEW s, NEW c, NEW p, NEW v, NEW e \in At(s, c, p, v)
    PROVE  /\ e \in s /\ e.catalog = c /\ e.name = p
           /\ v \notin {NoVersion, Latest} => e.tag.version = v
BY DEF At, OfProfile

\* Show finds an entry, or there is a reason why not.
LEMMA ShowAnswer ==
    ASSUME NEW k \in Conditions, NEW s \in SUBSET Entries, NEW c, NEW p, NEW v,
           NEW e \in Show(k, s, c, p, v)
    PROVE  \/ e = NoEntry /\ (k # "up" \/ At(s, c, p, v) = {})
           \/ e # NoEntry /\ k = "up" /\ e \in At(s, c, p, v) /\ e \in s
<1>1. \A x \in At(s, c, p, v) : x \in Entries
  BY AtStore
<1>2. NoEntry \notin Entries
  BY CatalogAssumption DEF CatalogAssumption
<1> QED BY <1>1, <1>2, AtStore DEF Show, DoRequest, Conditions

LEMMA ShowInEntries ==
    ASSUME TypeOK, NEW c, NEW p, NEW v, NEW e \in Show(condition, store, c, p, v), e # NoEntry
    PROVE  e \in Entries
<1>1. condition \in Conditions /\ store \in SUBSET Entries
  BY DEF TypeOK
<1>2. e \in store
  BY <1>1, ShowAnswer
<1> QED BY <1>1, <1>2

LEMMA EntrySpecType ==
    ASSUME NEW ask \in Keyed, NEW e \in Entries
    PROVE  EntrySpec(ask, e) \in Specs /\ EntrySpec(ask, e).catalog # NoCatalog
<1>1. e \in [catalog: Catalogs, name: Profiles, url: Urls, tag: Tags]
  BY CatalogAssumption DEF CatalogAssumption
<1>2. EntrySpec(ask, e).catalog \in Keys
  BY <1>1 DEF EntrySpec, Keys, Keyed, Tags, GetVersionFromTag
<1>3. EntrySpec(ask, e).source \in Sources
  BY <1>1 DEF EntrySpec, SourceOf, Sources, Tags
<1>4. EntrySpec(ask, e) =
        [catalog |-> EntrySpec(ask, e).catalog, source |-> EntrySpec(ask, e).source]
  BY DEF EntrySpec
<1>5. EntrySpec(ask, e).catalog # NoCatalog
  BY <1>2, CatalogAssumption DEF CatalogAssumption
<1> QED BY <1>2, <1>3, <1>4, <1>5 DEF Specs

-----------------------------------------------------------------------------
(* Types *)

LEMMA Bounded == MaxChanges \in Nat /\ MaxJobs \in Nat /\ MaxGets \in Nat
BY GetAssumption DEF GetAssumption

LEMMA GetsAreRequests ==
    /\ Gets \subseteq Requests /\ NoName \notin Queries
BY GetAssumption DEF GetAssumption

LEMMA Unanswered == \A answer \in (SUBSET Versions) \cup (SUBSET Entries) : Unavailable # answer
BY CatalogAssumption DEF CatalogAssumption

LEMMA InitType == Init => TypeOK
<1> SUFFICES ASSUME Init PROVE TypeOK
  OBVIOUS
<1>1. cluster \in [Names -> Specs \cup {NoSpec}] /\ repository \in [Names -> Specs \cup {NoSpec}]
  BY GetAssumption DEF GetAssumption, Init, Nowhere
<1>2. screen \in [installed: {NoTable} \cup SUBSET Rows, catalog: {NoTable} \cup SUBSET Entries]
  BY DEF Init, BlankScreen
<1>3. job \in Jobs
  BY DEF Init, Jobs
<1>4. condition \in Conditions /\ store \subseteq Entries
  BY GetAssumption DEF GetAssumption, Init, Conditions
<1>5. pc = "idle" /\ opt \in Gets \cup {NoRequest} /\ todo = {} /\ rows = {}
  BY DEF Init
<1>6. installed \in [Names -> Specs \cup {NoSpec}]
  BY DEF Init, Nowhere
<1>7. /\ result \in {"none", "ok", "error"} /\ unreachable \in BOOLEAN
      /\ lived = {} /\ clusters = {}
  BY DEF Init
<1>11. changes \in 0..MaxChanges /\ jobs \in 0..MaxJobs /\ gets \in 0..MaxGets
  <2>1. MaxChanges \in Nat /\ MaxJobs \in Nat /\ MaxGets \in Nat
    BY Bounded
  <2>2. changes = 0 /\ jobs = 0 /\ gets = 0
    BY DEF Init
  <2> QED BY <2>1, <2>2
<1>8. todo \subseteq {n \in Names : installed[n] # NoSpec} /\ rows \subseteq Rows
  BY <1>5
<1>9. (pc # "idle" => opt \in Gets) /\ (pc # "updates" => todo = {} /\ rows = {})
  BY <1>5
<1>10. /\ lived \subseteq [condition: Conditions, store: SUBSET Entries]
       /\ clusters \subseteq [Names -> Specs \cup {NoSpec}]
       /\ pc \in {"idle", "list", "updates", "search", "show"}
  BY <1>5, <1>7
<1> QED BY <1>1, <1>2, <1>3, <1>4, <1>5, <1>6, <1>7, <1>8, <1>9, <1>10, <1>11, Zenon DEF TypeOK

\* A step of an add or an upgrade: the record of the job is of its kind.
LEMMA StartType ==
    ASSUME TypeOK, Start, job' \in Jobs
    PROVE  TypeOK'
BY Bounded DEF Start, TypeOK, catalogVars, getVars

LEMMA JobStepType ==
    ASSUME TypeOK, CreateInstallationSpec \/ WriteMarker \/ JobFails
    PROVE  TypeOK'
<1>1. CASE CreateInstallationSpec
  <2>1. PICK e \in Show(condition, store, job.ask.catalog, job.ask.profile, job.ask.version) :
          job' = IF e = NoEntry THEN NoJob
                 ELSE [kind |-> "write", name |-> job.name, spec |-> EntrySpec(job.ask, e),
                       from |-> job.from]
    BY <1>1 DEF CreateInstallationSpec
  <2>2. job \in [kind: {"show"}, name: Names, ask: Keyed, from: Versions \cup {NoVersion}]
    BY <1>1 DEF CreateInstallationSpec, TypeOK, Jobs, NoJob
  <2>3. e # NoEntry => e \in Entries
    BY <2>1, ShowInEntries
  <2>4. e # NoEntry => EntrySpec(job.ask, e) \in Specs
    BY <2>2, <2>3, EntrySpecType
  <2>5. job' \in Jobs
    BY <2>1, <2>2, <2>4 DEF Jobs
  <2> QED BY <1>1, <2>5 DEF CreateInstallationSpec, TypeOK, catalogVars, getVars, bounds
<1>2. CASE WriteMarker
  <2>1. job \in [kind: {"write"}, name: Names, spec: Specs, from: Versions \cup {NoVersion}]
    BY <1>2 DEF WriteMarker, TypeOK, Jobs, NoJob
  <2>2. repository' \in [Names -> Specs \cup {NoSpec}] /\ job' \in Jobs
    BY <1>2, <2>1 DEF WriteMarker, TypeOK, Jobs
  <2> QED BY <1>2, <2>2 DEF WriteMarker, TypeOK, catalogVars, getVars, bounds
<1>3. CASE JobFails
  <2>1. job' \in Jobs
    BY <1>3 DEF JobFails, Jobs
  <2> QED BY <1>3, <2>1 DEF JobFails, TypeOK, catalogVars, getVars, bounds
<1> QED BY <1>1, <1>2, <1>3

LEMMA JobStartType ==
    ASSUME TypeOK, NEW n \in Directories,
           Add(n) \/ AddDirect(n) \/ UpgradeTo(n) \/ UpgradeLatest(n)
    PROVE  TypeOK'
<1>0. Directories \subseteq Names /\ Asks \subseteq Keyed /\ DirectSources \subseteq Sources
  BY GetAssumption DEF GetAssumption, Keyed, Keys
<1>1. CASE Add(n)
  <2>1. PICK ask \in Asks :
          job' = [kind |-> "show", name |-> n, ask |-> ask, from |-> NoVersion]
    BY <1>1 DEF Add
  <2>2. job' \in Jobs
    BY <1>0, <2>1 DEF Jobs
  <2> QED BY <1>1, <2>2, StartType DEF Add
<1>2. CASE AddDirect(n)
  <2>1. PICK source \in DirectSources :
          job' = [kind |-> "write", name |-> n, spec |-> DirectSpec(source), from |-> NoVersion]
    BY <1>2 DEF AddDirect
  <2>2. DirectSpec(source) \in Specs
    BY <1>0 DEF DirectSpec, Specs
  <2>3. job' \in Jobs
    BY <1>0, <2>1, <2>2 DEF Jobs
  <2> QED BY <1>2, <2>3, StartType DEF AddDirect
<1>3. ASSUME repository[n] # NoSpec, repository[n].catalog # NoCatalog
      PROVE  repository[n].catalog \in Keys
  BY <1>0, <1>3 DEF TypeOK, Specs
<1>4. CASE UpgradeTo(n)
  <2>1. PICK v \in Versions :
          job' = [kind |-> "show", name |-> n,
                  ask |-> [repository[n].catalog EXCEPT !.version = v], from |-> NoVersion]
    BY <1>4 DEF UpgradeTo
  <2>2. repository[n].catalog \in Keys
    BY <1>3, <1>4 DEF UpgradeTo
  <2>3. [repository[n].catalog EXCEPT !.version = v] \in Keyed
    BY <2>2 DEF Keyed, Keys
  <2>4. job' \in Jobs
    BY <1>0, <2>1, <2>3 DEF Jobs
  <2> QED BY <1>4, <2>4, StartType DEF UpgradeTo
<1>5. CASE UpgradeLatest(n)
  <2> DEFINE k == repository[n].catalog
             updates == GetAvailableUpdates(condition, store, k.catalog, k.profile, k.version)
  <2>1. k \in Keys
    BY <1>3, <1>5 DEF UpgradeLatest
  <2>2. PICK v \in updates :
          job' = [kind |-> "show", name |-> n, ask |-> [k EXCEPT !.version = v],
                  from |-> k.version]
    BY <1>5 DEF UpgradeLatest
  <2>3. v \in Versions
    BY <1>5, <2>2, UpdatesType DEF UpgradeLatest, TypeOK
  <2>4. [k EXCEPT !.version = v] \in Keyed /\ k.version \in Versions \cup {NoVersion}
    BY <2>1, <2>3 DEF Keyed, Keys
  <2>5. job' \in Jobs
    BY <1>0, <2>2, <2>4 DEF Jobs
  <2> QED BY <1>5, <2>5, StartType DEF UpgradeLatest
<1> QED BY <1>1, <1>2, <1>4, <1>5

\* What a step of a get does to its own variables keeps their types.
LEMMA ReturnType ==
    ASSUME NEW r \in {"ok", "error"}, Return(r), TypeOK
    PROVE  /\ pc' = "idle" /\ result' \in {"none", "ok", "error"} /\ opt' = opt
           /\ installed' \in [Names -> Specs \cup {NoSpec}]
           /\ todo' = {} /\ rows' = {}
BY DEF Return, Nowhere

LEMMA RowType ==
    ASSUME TypeOK, NEW n \in Names, installed[n] # NoSpec, UpdatesOf(installed[n]) # Unavailable
    PROVE  Row(n, installed[n], UpdatesOf(installed[n])) \in Rows
<1>1. installed[n] \in Specs
  BY DEF TypeOK
<1>2. UpdatesOf(installed[n]) \in SUBSET Versions
  BY UpdatesType DEF UpdatesOf, TypeOK
<1> QED BY <1>1, <1>2 DEF Row, Rows, Updates

LEMMA GetStepType ==
    ASSUME TypeOK, Step
    PROVE  TypeOK'
<1>1. CASE Unreachable
  BY <1>1, ReturnType DEF Unreachable, TypeOK, catalogVars, bounds
<1>2. CASE ListInstallations
  BY <1>2 DEF ListInstallations, TypeOK, catalogVars, bounds
<1>3. CASE PrintInstalled
  <2>1. screen' \in [installed: {NoTable} \cup SUBSET Rows, catalog: {NoTable} \cup SUBSET Entries]
    BY <1>3 DEF FormatInstalledProfilesOutput, PrintInstalled, TypeOK
  <2>2. CASE "search" \in Plan(opt)
    BY <1>3, <2>1, <2>2 DEF FormatInstalledProfilesOutput, PrintInstalled, TypeOK, catalogVars, bounds, Nowhere
  <2>3. CASE "search" \notin Plan(opt)
    BY <1>3, <2>1, <2>3, ReturnType DEF FormatInstalledProfilesOutput, PrintInstalled, TypeOK, catalogVars, bounds
  <2> QED BY <2>2, <2>3
<1>4. CASE SearchCatalog
  <2> DEFINE found == Search(condition, store, opt.name)
  <2>1. found # Unavailable => found \in SUBSET Entries
    BY DEF Search, TypeOK
  <2>2. screen' \in [installed: {NoTable} \cup SUBSET Rows, catalog: {NoTable} \cup SUBSET Entries]
    BY <1>4, <2>1 DEF FormatOutput, SearchCatalog, TypeOK
  <2>3. \E r \in {"ok", "error"} : Return(r)
    BY <1>4 DEF FormatOutput, SearchCatalog
  <2> QED BY <1>4, <2>2, <2>3, ReturnType DEF FormatOutput, SearchCatalog, TypeOK, catalogVars, bounds
<1>5. CASE ShowVersion
  <2>1. screen' \in [installed: {NoTable} \cup SUBSET Rows, catalog: {NoTable} \cup SUBSET Entries]
    <3>1. CASE UNCHANGED screen
      BY <3>1 DEF TypeOK
    <3>2. CASE ~UNCHANGED screen
      <4>1. PICK e \in Show(condition, store, Parts[opt.name].catalog,
                            Parts[opt.name].profile, opt.version) :
              e # NoEntry /\ screen' = [screen EXCEPT !.catalog = {e}]
        BY <1>5, <3>2 DEF FormatCatalogProfilesOutput, ShowVersion
      <4>2. e \in Entries
        BY <4>1, ShowInEntries
      <4> QED BY <4>1, <4>2 DEF TypeOK
    <3> QED BY <3>1, <3>2
  <2>2. \E r \in {"ok", "error"} : Return(r)
    BY <1>5 DEF FormatCatalogProfilesOutput, ShowVersion
  <2> QED BY <1>5, <2>1, <2>2, ReturnType DEF FormatCatalogProfilesOutput, ShowVersion, TypeOK, catalogVars, bounds
<1>6. ASSUME NEW n \in Names, AskUpdates(n) PROVE TypeOK'
  <2>1. installed[n] # NoSpec
    BY <1>6 DEF AskUpdates, TypeOK
  <2>2. rows' \subseteq Rows
    BY <1>6, <2>1, RowType DEF AskUpdates, TypeOK
  <2>3. /\ UNCHANGED <<catalogVars, repository, cluster, job, pc, opt, installed, screen,
                       result, unreachable, lived, clusters, bounds>>
        /\ pc = "updates" /\ todo' \subseteq todo
    BY <1>6 DEF AskUpdates
  <2> QED BY <2>2, <2>3 DEF TypeOK, catalogVars, bounds
<1>7. ASSUME NEW n \in Names, UpdatesFail(n) PROVE TypeOK'
  BY <1>7, ReturnType DEF UpdatesFail, TypeOK, catalogVars, bounds
<1> QED BY <1>1, <1>2, <1>3, <1>4, <1>5, <1>6, <1>7 DEF Step

LEMMA NextType ==
    ASSUME TypeOK, [Next]_vars
    PROVE  TypeOK'
<1>1. CASE CatalogChanges
  <2>1. condition' \in Conditions /\ store' \subseteq Entries
    BY <1>1 DEF CatalogChanges, TypeOK
  <2> QED BY <1>1, <2>1, Bounded DEF CatalogChanges, TypeOK, getVars, Now
<1>2. ASSUME NEW n \in Names, Delete(n) PROVE TypeOK'
  <2>1. cluster' \in [Names -> Specs \cup {NoSpec}]
    BY <1>2 DEF Delete, TypeOK
  <2> QED BY <1>2, <2>1, Bounded DEF Delete, TypeOK, catalogVars, getVars
<1>3. ASSUME NEW n \in Directories, Reconcile(n) PROVE TypeOK'
  <2>1. cluster' \in [Names -> Specs \cup {NoSpec}]
    BY <1>3 DEF Reconcile, TypeOK
  <2> QED BY <1>3, <2>1 DEF Reconcile, TypeOK, catalogVars, getVars, bounds
<1>4. ASSUME NEW n \in Directories,
             Add(n) \/ AddDirect(n) \/ UpgradeTo(n) \/ UpgradeLatest(n)
      PROVE  TypeOK'
  BY <1>4, JobStartType
<1>5. CASE CreateInstallationSpec \/ WriteMarker \/ JobFails
  BY <1>5, JobStepType
<1>6. ASSUME NEW o \in Gets, Begin(o) PROVE TypeOK'
  <2>1. screen' \in [installed: {NoTable} \cup SUBSET Rows, catalog: {NoTable} \cup SUBSET Entries]
    BY <1>6 DEF Begin, BlankScreen
  <2>2. pc' \in {"list", "search", "show"}
    BY <1>6 DEF Begin
  <2>3. lived' \subseteq [condition: Conditions, store: SUBSET Entries]
    BY <1>6 DEF Begin, TypeOK, Now
  <2>4. clusters' \subseteq [Names -> Specs \cup {NoSpec}]
    BY <1>6 DEF Begin, TypeOK
  <2>5. opt' \in Gets /\ result' = "none" /\ unreachable' = FALSE /\ gets' \in 0..MaxGets
    BY <1>6, Bounded DEF Begin, TypeOK
  <2>6. /\ UNCHANGED <<catalogVars, repository, cluster, job, installed, todo, rows, changes, jobs>>
        /\ todo = {} /\ rows = {}
    BY <1>6 DEF Begin, TypeOK
  <2> QED BY <2>1, <2>2, <2>3, <2>4, <2>5, <2>6 DEF TypeOK, catalogVars
<1>7. CASE Step
  BY <1>7, GetStepType
<1>8. CASE UNCHANGED vars
  BY <1>8 DEF vars, catalogVars, getVars, bounds, TypeOK
<1> QED BY <1>1, <1>2, <1>3, <1>4, <1>5, <1>6, <1>7, <1>8 DEF Next

\* Every variable of a get keeps its type, and what a get collects it forgets.
THEOREM TypeCorrect == Spec => []TypeOK
<1>1. Init => TypeOK
  BY InitType
<1>2. TypeOK /\ [Next]_vars => TypeOK'
  BY NextType
<1> QED BY <1>1, <1>2, PTL DEF Spec
-----------------------------------------------------------------------------
(* The tables *)

\* While a get runs, what there is is among what there was.
Moments == pc # "idle" => Now \in lived /\ cluster \in clusters

\* Where a get is tells what it was asked for and what it can have printed.
Stages ==
    /\ pc \in {"list", "updates"} => "list" \in Plan(opt) /\ screen = BlankScreen
    /\ pc = "search" => "search" \in Plan(opt) /\ screen.catalog = NoTable
    /\ pc = "show" => Plan(opt) = {"show"} /\ screen = BlankScreen
    /\ pc # "idle" => result = "none"

\* The rows so far are a table of the installations that are done with.
Collected ==
    pc = "updates" =>
        installed \in clusters /\ TableWasTrue(rows, installed, Names \ todo, opt, lived)

Truthful ==
    /\ Moments /\ Stages /\ Collected
    /\ InstalledTableWasTrue /\ CatalogTableWasTrue /\ ErrorsHaveCause

\* The past grows, and what was true stays true of it.
LEMMA TableStaysTrue ==
    ASSUME NEW table, NEW k, NEW of, NEW o, NEW L, NEW M, L \subseteq M,
           TableWasTrue(table, k, of, o, L)
    PROVE  TableWasTrue(table, k, of, o, M)
<1>1. \A n, spec, r : RowWasTrue(n, spec, r, L) => RowWasTrue(n, spec, r, M)
  BY DEF RowWasTrue
<1> QED BY <1>1 DEF TableWasTrue

LEMMA TablesStayTrue ==
    ASSUME InstalledTableWasTrue, lived \subseteq lived', clusters \subseteq clusters',
           opt' = opt, screen'.installed = screen.installed
    PROVE  InstalledTableWasTrue'
<1> SUFFICES ASSUME screen.installed # NoTable
             PROVE  \E k \in clusters' : TableWasTrue(screen.installed, k, Names, opt, lived')
  BY DEF InstalledTableWasTrue
<1>1. PICK k \in clusters : TableWasTrue(screen.installed, k, Names, opt, lived)
  BY DEF InstalledTableWasTrue
<1>2. TableWasTrue(screen.installed, k, Names, opt, lived')
  BY <1>1, TableStaysTrue
<1> QED BY <1>1, <1>2

LEMMA CatalogStaysTrue ==
    ASSUME CatalogTableWasTrue, lived \subseteq lived', opt' = opt,
           screen'.catalog = screen.catalog
    PROVE  CatalogTableWasTrue'
BY DEF CatalogTableWasTrue

LEMMA CausesStay ==
    ASSUME ErrorsHaveCause, lived \subseteq lived', opt' = opt, result' = result,
           unreachable' = unreachable
    PROVE  ErrorsHaveCause'
BY DEF ErrorsHaveCause

\* What others do, a get notices only when it asks.
LEMMA OutsideTruthful ==
    ASSUME Truthful, UNCHANGED getVars, lived \subseteq lived', clusters \subseteq clusters',
           pc # "idle" => Now' \in lived' /\ cluster' \in clusters'
    PROVE  Truthful'
<1>1. Moments' /\ Stages'
  BY DEF Moments, Stages, Truthful, getVars
<1>2. Collected'
  <2> SUFFICES ASSUME pc = "updates"
               PROVE  /\ installed \in clusters'
                      /\ TableWasTrue(rows, installed, Names \ todo, opt, lived')
    BY DEF Collected, getVars
  <2>1. installed \in clusters /\ TableWasTrue(rows, installed, Names \ todo, opt, lived)
    BY DEF Truthful, Collected
  <2> QED BY <2>1, TableStaysTrue
<1>3. InstalledTableWasTrue' /\ CatalogTableWasTrue' /\ ErrorsHaveCause'
  BY TablesStayTrue, CatalogStaysTrue, CausesStay DEF Truthful, getVars
<1> QED BY <1>1, <1>2, <1>3 DEF Truthful

\* A get that ends with what it has printed before, for a reason.
LEMMA ReturnTruthful ==
    ASSUME Truthful, NEW r, Return(r), UNCHANGED <<screen, unreachable, lived, clusters>>,
           r = "error" => ErrorsHaveCause'
    PROVE  Truthful'
<1>1. Moments' /\ Stages' /\ Collected'
  BY DEF Return, Moments, Stages, Collected
<1>2. InstalledTableWasTrue' /\ CatalogTableWasTrue'
  BY TablesStayTrue, CatalogStaysTrue DEF Return, Truthful
<1>3. ErrorsHaveCause'
  BY DEF Return, ErrorsHaveCause
<1> QED BY <1>1, <1>2, <1>3 DEF Truthful

LEMMA ListTruthful ==
    ASSUME TypeOK, Truthful, ListInstallations
    PROVE  Truthful'
<1>1. Moments' /\ Stages'
  BY DEF ListInstallations, Moments, Stages, Truthful, Now, catalogVars
<1>2. Collected'
  <2>1. installed' = cluster /\ cluster \in clusters /\ clusters' = clusters
    BY DEF ListInstallations, Truthful, Moments
  <2>2. rows' = {} /\ Names \ todo' = {n \in Names : cluster[n] = NoSpec}
    BY DEF ListInstallations, TypeOK
  <2>3. TableWasTrue(rows', installed', Names \ todo', opt', lived')
    BY <2>1, <2>2 DEF TableWasTrue
  <2> QED BY <2>1, <2>3 DEF Collected
<1>3. InstalledTableWasTrue' /\ CatalogTableWasTrue' /\ ErrorsHaveCause'
  BY TablesStayTrue, CatalogStaysTrue, CausesStay DEF Truthful, ListInstallations
<1> QED BY <1>1, <1>2, <1>3 DEF Truthful

\* A row is made of what the cluster and the catalog said, and now is a moment.
LEMMA NewRowTrue ==
    ASSUME TypeOK, Truthful, NEW n \in Names, AskUpdates(n)
    PROVE  RowWasTrue(n, installed[n], Row(n, installed[n], UpdatesOf(installed[n])), lived)
<1> DEFINE spec == installed[n]
           r == Row(n, spec, UpdatesOf(spec))
<1>1. Now \in lived /\ condition \in Conditions /\ store \in SUBSET Entries
  BY DEF AskUpdates, Truthful, Moments, TypeOK
<1>2. r.profile = Summary(n, spec) /\ r.updates = IF UpdatesOf(spec) = {} THEN {Dash} ELSE UpdatesOf(spec)
  BY DEF Row
<1>3. UpdatesOf(spec) # Unavailable
  BY DEF AskUpdates
<1>4. CASE spec.catalog = NoCatalog
  BY <1>1, <1>2, <1>4 DEF UpdatesOf, UpdatesAt, RowWasTrue
<1>5. CASE spec.catalog # NoCatalog
  <2> DEFINE k == spec.catalog
  <2>1. UpdatesOf(spec) = GetAvailableUpdates(condition, store, k.catalog, k.profile, k.version)
    BY <1>5 DEF UpdatesOf
  <2>2. IF condition = "failing" THEN UpdatesOf(spec) = Unavailable
        ELSE UpdatesOf(spec) =
                IF condition = "missing" THEN {} ELSE NewerThan(store, k.catalog, k.profile, k.version)
    BY <1>1, <2>1, UpdatesAnswer
  <2>3. Now.condition = condition /\ Newer(spec, Now) = NewerThan(store, k.catalog, k.profile, k.version)
    BY DEF Now, Newer
  <2>4. r.updates = UpdatesAt(spec, Now) /\ Now.condition # "failing"
    BY <1>2, <1>3, <1>5, <2>2, <2>3 DEF UpdatesAt
  <2> QED BY <1>1, <1>2, <2>4 DEF RowWasTrue
<1> QED BY <1>4, <1>5

LEMMA AskTruthful ==
    ASSUME TypeOK, Truthful, NEW n \in Names, AskUpdates(n)
    PROVE  Truthful'
<1>1. Moments' /\ Stages'
  BY DEF AskUpdates, Moments, Stages, Truthful, Now, catalogVars
<1>2. Collected'
  <2>1. pc = "updates" /\ todo' = todo \ {n} /\ UNCHANGED <<installed, clusters, opt, lived>>
    BY DEF AskUpdates
  <2>2. installed \in clusters /\ TableWasTrue(rows, installed, Names \ todo, opt, lived)
    BY <2>1 DEF Truthful, Collected
  <2>3. Names \ todo' = (Names \ todo) \cup {n}
    BY <2>1
  <2>4. TableWasTrue(rows', installed, (Names \ todo) \cup {n}, opt, lived)
    <3> DEFINE r == Row(n, installed[n], UpdatesOf(installed[n]))
    <3>1. RowWasTrue(n, installed[n], r, lived)
      BY NewRowTrue
    <3>2. installed[n] # NoSpec
      BY DEF AskUpdates, TypeOK
    <3>3. rows' = IF Listed(opt, n) THEN rows \cup {r} ELSE rows
      BY DEF AskUpdates
    <3> HIDE DEF r
    <3> QED BY <2>2, <3>1, <3>2, <3>3 DEF TableWasTrue
  <2> QED BY <2>1, <2>2, <2>3, <2>4 DEF Collected
<1>3. InstalledTableWasTrue' /\ CatalogTableWasTrue' /\ ErrorsHaveCause'
  BY TablesStayTrue, CatalogStaysTrue, CausesStay DEF Truthful, AskUpdates
<1> QED BY <1>1, <1>2, <1>3 DEF Truthful

LEMMA PrintTruthful ==
    ASSUME TypeOK, Truthful, PrintInstalled
    PROVE  Truthful'
<1>1. Moments' /\ Stages' /\ Collected'
  <2>1. pc = "updates" /\ screen = BlankScreen /\ screen' = [screen EXCEPT !.installed = rows]
    BY DEF FormatInstalledProfilesOutput, PrintInstalled, Truthful, Stages
  <2>2. screen'.catalog = NoTable
    BY <2>1 DEF BlankScreen
  <2>3. pc' = "idle" \/ (pc' = "search" /\ "search" \in Plan(opt) /\ UNCHANGED <<opt, result>>)
    BY DEF FormatInstalledProfilesOutput, PrintInstalled, Return
  <2>4. Now' = Now /\ UNCHANGED <<cluster, lived, clusters>>
    BY DEF FormatInstalledProfilesOutput, PrintInstalled, Now, catalogVars
  <2>5. Moments'
    BY <2>1, <2>3, <2>4 DEF Moments, Truthful
  <2> QED BY <2>1, <2>2, <2>3, <2>5 DEF Stages, Collected, Truthful
<1>2. InstalledTableWasTrue'
  <2>1. installed \in clusters /\ TableWasTrue(rows, installed, Names, opt, lived)
    <3>1. pc = "updates" /\ Names \ todo = Names
      BY DEF FormatInstalledProfilesOutput, PrintInstalled
    <3> QED BY <3>1 DEF Truthful, Collected
  <2>2. screen'.installed = rows /\ UNCHANGED <<opt, lived, clusters>>
    BY DEF FormatInstalledProfilesOutput, PrintInstalled, Return, TypeOK
  <2> QED BY <2>1, <2>2 DEF InstalledTableWasTrue
<1>3. CatalogTableWasTrue'
  <2>1. screen'.catalog = screen.catalog /\ UNCHANGED <<opt, lived>>
    BY DEF FormatInstalledProfilesOutput, PrintInstalled, Return, TypeOK
  <2> QED BY <2>1, CatalogStaysTrue DEF Truthful
<1>4. ErrorsHaveCause'
  BY DEF FormatInstalledProfilesOutput, PrintInstalled, Return, ErrorsHaveCause, Truthful, Stages
<1> QED BY <1>1, <1>2, <1>3, <1>4 DEF Truthful

LEMMA SearchTruthful ==
    ASSUME TypeOK, Truthful, SearchCatalog
    PROVE  Truthful'
<1> DEFINE found == Search(condition, store, opt.name)
<1>1. /\ pc = "search" /\ "search" \in Plan(opt) /\ Now \in lived
      /\ Now.condition = condition /\ Now.store = store
      /\ opt.name \in Queries \cup {NoName} /\ condition \in Conditions
      /\ store \in SUBSET Entries
  <2>1. pc = "search" /\ opt \in Gets
    BY DEF FormatOutput, SearchCatalog, TypeOK
  <2> QED BY <2>1, GetsAreRequests DEF Truthful, Moments, Stages, Now, TypeOK, Requests
<1>2. CASE found = Unavailable
  <2>1. Return("error") /\ UNCHANGED <<screen, unreachable, lived, clusters>>
    BY <1>2 DEF FormatOutput, SearchCatalog
  <2>2. condition # "up"
    <3>1. (SUBSET Entries) \cap {Unavailable} = {}
      BY Unanswered
    <3>2. condition = "up" => found \in SUBSET Entries
      BY <1>1 DEF Search
    <3> QED BY <1>2, <3>1, <3>2
  <2>3. condition = "failing" \/ (condition = "missing" /\ Plan(opt) # {"list"})
    <3>1. Plan(opt) # {"list"}
      BY <1>1
    <3> QED BY <1>1, <2>2, <3>1 DEF Conditions
  <2>4. ErrorsHaveCause'
    BY <1>1, <2>1, <2>3 DEF ErrorsHaveCause, Return
  <2> QED BY <2>1, <2>4, ReturnTruthful
<1>3. CASE found # Unavailable
  <2>1. /\ Return("ok") /\ screen' = [screen EXCEPT !.catalog = found]
        /\ UNCHANGED <<unreachable, lived, clusters>>
    BY <1>3 DEF FormatOutput, SearchCatalog
  <2>2. screen'.catalog = found /\ screen'.installed = screen.installed
    BY <2>1 DEF TypeOK
  <2>3. condition = "up" /\ found = Asked(opt, Now)
    <3>1. condition = "up"
      BY <1>3 DEF Search
    <3>2. found = {e \in store : opt.name = NoName \/ Matches(opt.name, e.name)}
      BY <1>1, <3>1, GetsAreRequests DEF Search, Requests
    <3> QED BY <1>1, <3>1, <3>2 DEF Asked
  <2>4. CatalogTableWasTrue'
    BY <1>1, <2>1, <2>2, <2>3 DEF CatalogTableWasTrue, Return
  <2>5. InstalledTableWasTrue'
    BY <2>1, <2>2, TablesStayTrue DEF Return, Truthful
  <2>6. Moments' /\ Stages' /\ Collected' /\ ErrorsHaveCause'
    BY <2>1 DEF Return, Moments, Stages, Collected, ErrorsHaveCause
  <2> QED BY <2>4, <2>5, <2>6 DEF Truthful
<1> QED BY <1>2, <1>3

\* What is shown with --version is all there is of that version.
LEMMA VersionIsOneEntry ==
    ASSUME NEW s \in SUBSET Entries, NEW c, NEW p, NEW v \in Versions, NEW e \in At(s, c, p, v)
    PROVE  At(s, c, p, v) = {e}
<1>1. v # NoVersion /\ v # Latest
  BY CatalogAssumption DEF CatalogAssumption
<1>2. \A x \in At(s, c, p, v) :
        x \in Entries /\ x.catalog = c /\ x.name = p /\ x.tag.version = v
  BY <1>1, AtStore
<1>3. \A x \in At(s, c, p, v) : Key(x) = Key(e)
  BY <1>2 DEF Key, GetVersionFromTag
<1>4. \A x \in At(s, c, p, v) : x = e
  BY <1>2, <1>3, CatalogAssumption DEF CatalogAssumption
<1> QED BY <1>4

LEMMA ShowTruthful ==
    ASSUME TypeOK, Truthful, ShowVersion
    PROVE  Truthful'
<1> DEFINE c == Parts[opt.name].catalog
           p == Parts[opt.name].profile
<1>1. /\ pc = "show" /\ Plan(opt) = {"show"} /\ Now \in lived
      /\ Now.condition = condition /\ Now.store = store
      /\ condition \in Conditions /\ store \in SUBSET Entries
  BY DEF FormatCatalogProfilesOutput, ShowVersion, Truthful, Moments, Stages, Now, TypeOK
<1>2. opt.version \in Versions
  <2>1. opt \in Gets
    BY <1>1 DEF TypeOK
  <2> QED BY <1>1, <2>1, GetsAreRequests DEF Plan, Requests
<1>3. Asked(opt, Now) = At(store, c, p, opt.version)
  BY <1>1 DEF Asked
<1>4. CASE Parts[opt.name] = NoParts
  <2>1. Return("error") /\ UNCHANGED <<screen, unreachable, lived, clusters>>
    BY <1>4 DEF FormatCatalogProfilesOutput, ShowVersion
  <2>2. ErrorsHaveCause'
    BY <1>1, <1>4, <2>1 DEF ErrorsHaveCause, Return
  <2> QED BY <2>1, <2>2, ReturnTruthful
<1>5. ASSUME Parts[opt.name] # NoParts, NEW e \in Show(condition, store, c, p, opt.version),
             e = NoEntry, Return("error"), UNCHANGED screen
      PROVE  Truthful'
  <2>1. UNCHANGED <<screen, unreachable, lived, clusters>>
    BY <1>5 DEF FormatCatalogProfilesOutput, ShowVersion
  <2>2. condition # "up" \/ At(store, c, p, opt.version) = {}
    BY <1>1, <1>5, ShowAnswer
  <2>3. Plan(opt) # {"list"}
    BY <1>1
  <2>4. condition = "failing" \/ condition = "missing" \/ Asked(opt, Now) = {}
    BY <1>1, <1>3, <2>2 DEF Conditions
  <2>5. ErrorsHaveCause'
    BY <1>1, <1>5, <2>1, <2>3, <2>4 DEF ErrorsHaveCause, Return
  <2> QED BY <1>5, <2>1, <2>5, ReturnTruthful
<1>6. ASSUME Parts[opt.name] # NoParts, NEW e \in Show(condition, store, c, p, opt.version),
             e # NoEntry, Return("ok"), screen' = [screen EXCEPT !.catalog = {e}]
      PROVE  Truthful'
  <2>1. UNCHANGED <<unreachable, lived, clusters>>
    BY DEF FormatCatalogProfilesOutput, ShowVersion
  <2>2. screen'.catalog = {e} /\ screen'.installed = screen.installed
    BY <1>6 DEF TypeOK
  <2>3. condition = "up" /\ e \in At(store, c, p, opt.version)
    BY <1>1, <1>6, ShowAnswer
  <2>4. Asked(opt, Now) = {e}
    BY <1>1, <1>2, <1>3, <2>3, VersionIsOneEntry
  <2>5. CatalogTableWasTrue'
    BY <1>1, <1>6, <2>1, <2>2, <2>3, <2>4 DEF CatalogTableWasTrue, Return
  <2>6. InstalledTableWasTrue'
    BY <1>6, <2>1, <2>2, TablesStayTrue DEF Return, Truthful
  <2>7. Moments' /\ Stages' /\ Collected' /\ ErrorsHaveCause'
    BY <1>6 DEF Return, Moments, Stages, Collected, ErrorsHaveCause
  <2> QED BY <2>5, <2>6, <2>7 DEF Truthful
<1> QED BY <1>4, <1>5, <1>6 DEF FormatCatalogProfilesOutput, ShowVersion

LEMMA GetStepTruthful ==
    ASSUME TypeOK, Truthful, Step
    PROVE  Truthful'
<1>1. CASE Unreachable
  <2>1. /\ Return("error") /\ UNCHANGED <<screen, lived, clusters>>
        /\ unreachable' = TRUE
    BY <1>1 DEF Unreachable
  <2>2. Moments' /\ Stages' /\ Collected' /\ ErrorsHaveCause'
    BY <2>1 DEF Return, Moments, Stages, Collected, ErrorsHaveCause
  <2>3. InstalledTableWasTrue' /\ CatalogTableWasTrue'
    BY <2>1, TablesStayTrue, CatalogStaysTrue DEF Return, Truthful
  <2> QED BY <2>2, <2>3 DEF Truthful
<1>2. ASSUME NEW n \in Names, UpdatesFail(n) PROVE Truthful'
  <2>1. Return("error") /\ UNCHANGED <<screen, unreachable, lived, clusters>>
    BY <1>2 DEF UpdatesFail
  <2>2. Now \in lived
    BY <1>2 DEF UpdatesFail, Truthful, Moments
  <2>3. UpdatesOf(installed[n]) = Unavailable
    BY <1>2 DEF UpdatesFail
  <2>4. condition \in Conditions /\ store \in SUBSET Entries
    BY DEF TypeOK
  <2>5. condition = "failing"
    <3>1. {} # Unavailable
      BY Unanswered
    <3> QED BY <2>3, <2>4, <3>1, UpdatesType DEF UpdatesOf
  <2>6. ErrorsHaveCause'
    BY <2>1, <2>2, <2>5 DEF ErrorsHaveCause, Return, Now
  <2> QED BY <2>1, <2>6, ReturnTruthful
<1> QED BY <1>1, <1>2, ListTruthful, AskTruthful, PrintTruthful, SearchTruthful, ShowTruthful
        DEF Step

LEMMA NextTruthful ==
    ASSUME TypeOK, Truthful, [Next]_vars
    PROVE  Truthful'
<1>1. CASE CatalogChanges
  BY <1>1, OutsideTruthful DEF CatalogChanges, Truthful, Moments
<1>2. ASSUME NEW n \in Names, Delete(n) PROVE Truthful'
  <2>1. UNCHANGED getVars /\ lived' = lived /\ Now' = Now
    BY <1>2 DEF Delete, catalogVars, Now
  <2>2. clusters \subseteq clusters' /\ (pc # "idle" => cluster' \in clusters')
    BY <1>2 DEF Delete
  <2> QED BY <2>1, <2>2, OutsideTruthful DEF Truthful, Moments
<1>3. ASSUME NEW n \in Directories, Reconcile(n) PROVE Truthful'
  <2>1. UNCHANGED getVars /\ lived' = lived /\ Now' = Now
    BY <1>3 DEF Reconcile, catalogVars, Now
  <2>2. clusters \subseteq clusters' /\ (pc # "idle" => cluster' \in clusters')
    BY <1>3 DEF Reconcile
  <2> QED BY <2>1, <2>2, OutsideTruthful DEF Truthful, Moments
<1>4. ASSUME UNCHANGED <<catalogVars, cluster, getVars, lived, clusters>> PROVE Truthful'
  <2>1. Now' = Now
    BY <1>4 DEF catalogVars, Now
  <2> QED BY <1>4, <2>1, OutsideTruthful DEF Truthful, Moments
<1>5. ASSUME NEW n \in Directories,
             Add(n) \/ AddDirect(n) \/ UpgradeTo(n) \/ UpgradeLatest(n)
      PROVE  Truthful'
  BY <1>4, <1>5 DEF UpgradeLatest, Add, AddDirect, UpgradeTo, Start
<1>6. CASE CreateInstallationSpec \/ WriteMarker \/ JobFails
  BY <1>4, <1>6 DEF CreateInstallationSpec, WriteMarker, JobFails
<1>7. ASSUME NEW o \in Gets, Begin(o) PROVE Truthful'
  <2>1. /\ result' = "none" /\ screen' = BlankScreen /\ opt' = o
        /\ lived' = {Now} /\ clusters' = {cluster} /\ cluster' = cluster
    BY <1>7 DEF Begin
  <2>2. Now' = Now
    BY <1>7 DEF Begin, catalogVars, Now
  <2>3. Moments'
    BY <2>1, <2>2 DEF Moments
  <2>4. /\ pc' = "list" => "list" \in Plan(o)
        /\ pc' = "search" => "search" \in Plan(o)
        /\ pc' = "show" => Plan(o) = {"show"}
        /\ pc' \in {"list", "search", "show"}
    BY <1>7 DEF Begin, Plan
  <2>5. Stages' /\ Collected'
    BY <2>1, <2>4 DEF Stages, Collected, BlankScreen
  <2>6. InstalledTableWasTrue' /\ CatalogTableWasTrue' /\ ErrorsHaveCause'
    BY <2>1 DEF InstalledTableWasTrue, CatalogTableWasTrue, ErrorsHaveCause, BlankScreen
  <2> QED BY <2>3, <2>5, <2>6 DEF Truthful
<1>8. CASE Step
  BY <1>8, GetStepTruthful
<1>9. CASE UNCHANGED vars
  BY <1>4, <1>9 DEF vars
<1> QED BY <1>1, <1>2, <1>3, <1>5, <1>6, <1>7, <1>8, <1>9 DEF Next

LEMMA InitTruthful == Init => Truthful
BY DEF Init, Truthful, Moments, Stages, Collected, InstalledTableWasTrue, CatalogTableWasTrue,
       ErrorsHaveCause, BlankScreen

LEMMA AlwaysTruthful == Spec => []Truthful
<1>1. TypeOK /\ Truthful /\ [Next]_vars => Truthful'
  BY NextTruthful
<1> QED BY <1>1, InitTruthful, TypeCorrect, PTL DEF Spec

\* list.go:20-61.  The table of installations is one state of the cluster, complete
\* up to the name asked for, with updates the catalog had, whatever flux and the
\* catalog did meanwhile.
THEOREM InstalledTableCorrect == Spec => []InstalledTableWasTrue
<1>1. Truthful => InstalledTableWasTrue
  BY DEF Truthful
<1> QED BY <1>1, AlwaysTruthful, PTL

\* search.go:14-40, show.go:14-40.  The table of the catalog is all of what was
\* asked for at one moment.
THEOREM CatalogTableCorrect == Spec => []CatalogTableWasTrue
<1>1. Truthful => CatalogTableWasTrue
  BY DEF Truthful
<1> QED BY <1>1, AlwaysTruthful, PTL

\* get.go:50-108.  A get fails only if the cluster or the catalog failed it, or has
\* not got what was asked for.
THEOREM ErrorsCorrect == Spec => []ErrorsHaveCause
<1>1. Truthful => ErrorsHaveCause
  BY DEF Truthful
<1> QED BY <1>1, AlwaysTruthful, PTL

-----------------------------------------------------------------------------
(* The record *)

\* The entry there is for a record that has one.
Resolves(spec) ==
    spec.catalog # NoCatalog =>
        \E e \in Entries : Key(e) = spec.catalog /\ SourceOf(e) = spec.source

\* What is about to be recorded resolves; and the target of an upgrade to the
\* latest is newer than what the directory has, for nobody else writes there.
JobsResolve ==
    /\ job.kind = "write" => Resolves(job.spec)
    /\ job # NoJob /\ job.from \in Versions =>
          /\ repository[job.name].catalog.version = job.from
          /\ job.kind = "show" => job.ask.version \in Versions /\ job.ask.version > job.from
          /\ job.kind = "write" => job.spec.catalog.version > job.from

Resolved == JobsResolve /\ RecordedVersionResolves

LEMMA EntrySpecResolves ==
    ASSUME TypeOK, NEW ask \in Keyed,
           NEW e \in Show(condition, store, ask.catalog, ask.profile, ask.version), e # NoEntry
    PROVE  /\ Resolves(EntrySpec(ask, e))
           /\ ask.version \in Versions => EntrySpec(ask, e).catalog.version = ask.version
<1>1. condition \in Conditions /\ store \in SUBSET Entries
  BY DEF TypeOK
<1>2. e \in At(store, ask.catalog, ask.profile, ask.version) /\ e \in Entries
  BY <1>1, ShowAnswer, ShowInEntries
<1>3. e.catalog = ask.catalog /\ e.name = ask.profile
  BY <1>2, AtStore
<1>4. EntrySpec(ask, e).catalog = Key(e) /\ EntrySpec(ask, e).source = SourceOf(e)
  BY <1>3 DEF EntrySpec, Key
<1>5. Resolves(EntrySpec(ask, e))
  BY <1>2, <1>4 DEF Resolves
<1>6. ASSUME ask.version \in Versions PROVE EntrySpec(ask, e).catalog.version = ask.version
  <2>1. ask.version \notin {NoVersion, Latest}
    BY <1>6, CatalogAssumption DEF CatalogAssumption
  <2>2. e.tag.version = ask.version
    BY <1>2, <2>1, AtStore
  <2> QED BY <2>2 DEF EntrySpec, GetVersionFromTag
<1> QED BY <1>5, <1>6

\* A new job is about an entry, or about an installation that has one.
LEMMA StartResolved ==
    ASSUME TypeOK, Resolved, NEW n \in Directories,
           Add(n) \/ AddDirect(n) \/ UpgradeTo(n) \/ UpgradeLatest(n)
    PROVE  Resolved'
<1>0. NoVersion \notin Versions
  BY CatalogAssumption DEF CatalogAssumption
<1>1. UNCHANGED repository
  BY DEF UpgradeLatest, Add, AddDirect, UpgradeTo, Start
<1>2. RecordedVersionResolves'
  BY <1>1 DEF Resolved, RecordedVersionResolves
<1>3. ASSUME UpgradeLatest(n) PROVE JobsResolve'
  <2> DEFINE k == repository[n].catalog
             updates == GetAvailableUpdates(condition, store, k.catalog, k.profile, k.version)
  <2>1. PICK v \in updates :
          job' = [kind |-> "show", name |-> n, ask |-> [k EXCEPT !.version = v], from |-> k.version]
    BY <1>3 DEF UpgradeLatest, Start
  <2>2. updates # Unavailable
    BY <1>3 DEF UpgradeLatest
  <2>3. condition \in Conditions /\ store \in SUBSET Entries
    BY DEF TypeOK
  <2>4. k \in Keys
    BY <1>3, GetAssumption DEF GetAssumption, UpgradeLatest, TypeOK, Specs
  <2>5. v \in NewerThan(store, k.catalog, k.profile, k.version)
    BY <2>1, <2>2, <2>3, UpdatesAnswer
  <2>6. v \in Versions /\ v > k.version
    BY <2>3, <2>5, NewerType DEF NewerThan
  <2>7. [k EXCEPT !.version = v].version = v
    BY <2>4 DEF Keys
  <2> HIDE DEF k
  <2>8. job'.kind = "show" /\ job'.ask.version = v /\ job'.from = k.version /\ job'.name = n
    BY <2>1, <2>7
  <2> USE DEF k
  <2>9. repository'[job'.name].catalog.version = k.version
    BY <1>1, <2>8
  <2> QED BY <2>6, <2>8, <2>9 DEF JobsResolve
<1>4. ASSUME Add(n) PROVE JobsResolve'
  <2>1. job'.kind = "show" /\ job'.from = NoVersion
    BY <1>4 DEF Add, Start
  <2> QED BY <1>0, <2>1 DEF JobsResolve
<1>5. ASSUME AddDirect(n) PROVE JobsResolve'
  <2>1. job'.kind = "write" /\ job'.from = NoVersion /\ job'.spec.catalog = NoCatalog
    BY <1>5 DEF AddDirect, Start, DirectSpec
  <2> QED BY <1>0, <2>1 DEF JobsResolve, Resolves
<1>6. ASSUME UpgradeTo(n) PROVE JobsResolve'
  <2>1. job'.kind = "show" /\ job'.from = NoVersion
    BY <1>6 DEF UpgradeTo, Start
  <2> QED BY <1>0, <2>1 DEF JobsResolve
<1> QED BY <1>2, <1>3, <1>4, <1>5, <1>6 DEF Resolved

LEMMA CreateResolved ==
    ASSUME TypeOK, Resolved, CreateInstallationSpec
    PROVE  Resolved'
<1>1. PICK e \in Show(condition, store, job.ask.catalog, job.ask.profile, job.ask.version) :
        job' = IF e = NoEntry THEN NoJob
               ELSE [kind |-> "write", name |-> job.name, spec |-> EntrySpec(job.ask, e),
                     from |-> job.from]
  BY DEF CreateInstallationSpec
<1>2. job.kind = "show" /\ job # NoJob /\ job.ask \in Keyed /\ UNCHANGED repository
  BY DEF CreateInstallationSpec, TypeOK, Jobs, NoJob
<1>3. RecordedVersionResolves'
  BY <1>2 DEF Resolved, RecordedVersionResolves
<1>4. CASE e = NoEntry
  <2>1. job' = NoJob
    BY <1>1, <1>4
  <2> QED BY <1>3, <2>1 DEF Resolved, JobsResolve, NoJob
<1>5. CASE e # NoEntry
  <2>1. /\ job'.kind = "write" /\ job'.name = job.name /\ job'.from = job.from
        /\ job'.spec = EntrySpec(job.ask, e)
    BY <1>1, <1>5
  <2>2. /\ Resolves(EntrySpec(job.ask, e))
        /\ job.ask.version \in Versions =>
              EntrySpec(job.ask, e).catalog.version = job.ask.version
    BY <1>1, <1>2, <1>5, EntrySpecResolves
  <2>3. job.from \in Versions =>
          /\ repository[job.name].catalog.version = job.from
          /\ job.ask.version \in Versions /\ job.ask.version > job.from
    BY <1>2 DEF Resolved, JobsResolve
  <2>4. Resolves(job'.spec)
    BY <2>1, <2>2
  <2>5. job'.from \in Versions =>
          /\ repository'[job'.name].catalog.version = job'.from
          /\ job'.spec.catalog.version > job'.from
    BY <1>2, <2>1, <2>2, <2>3
  <2> QED BY <1>3, <2>1, <2>4, <2>5 DEF Resolved, JobsResolve
<1> QED BY <1>4, <1>5

LEMMA WriteResolved ==
    ASSUME TypeOK, Resolved, WriteMarker
    PROVE  Resolved'
<1>1. job' = NoJob /\ Resolves(job.spec) /\ repository' = [repository EXCEPT ![job.name] = job.spec]
  BY DEF WriteMarker, Resolved, JobsResolve
<1>2. JobsResolve'
  BY <1>1 DEF JobsResolve, NoJob
<1>3. RecordedVersionResolves'
  <2> SUFFICES ASSUME NEW n \in Names, repository'[n] # NoSpec, repository'[n].catalog # NoCatalog
               PROVE  \E e \in Entries :
                        Key(e) = repository'[n].catalog /\ SourceOf(e) = repository'[n].source
    BY DEF RecordedVersionResolves
  <2>1. repository'[n] = IF n = job.name THEN job.spec ELSE repository[n]
    BY <1>1 DEF TypeOK
  <2> QED BY <1>1, <2>1 DEF Resolves, Resolved, RecordedVersionResolves
<1> QED BY <1>2, <1>3 DEF Resolved

LEMMA NextResolved ==
    ASSUME TypeOK, Resolved, [Next]_vars
    PROVE  Resolved'
<1>1. ASSUME UNCHANGED <<repository, job>> PROVE Resolved'
  BY <1>1 DEF Resolved, JobsResolve, RecordedVersionResolves
<1>2. CASE CatalogChanges \/ (\E n \in Names \ Directories : Delete(n))
  BY <1>1, <1>2 DEF CatalogChanges, Delete
<1>3. ASSUME NEW n \in Directories, Reconcile(n) PROVE Resolved'
  BY <1>1, <1>3 DEF Reconcile
<1>4. ASSUME NEW n \in Directories,
             Add(n) \/ AddDirect(n) \/ UpgradeTo(n) \/ UpgradeLatest(n)
      PROVE  Resolved'
  BY <1>4, StartResolved
<1>5. CASE JobFails
  BY <1>5 DEF JobFails, Resolved, JobsResolve, RecordedVersionResolves, NoJob
<1>6. CASE (\E o \in Gets : Begin(o)) \/ Step
  BY <1>1, <1>6 DEF Begin, Step, Unreachable, ListInstallations, PrintInstalled, SearchCatalog,
                    ShowVersion, AskUpdates, UpdatesFail
<1>7. CASE UNCHANGED vars
  BY <1>1, <1>7 DEF vars
<1> QED BY <1>2, <1>3, <1>4, <1>5, <1>6, <1>7, CreateResolved, WriteResolved DEF Next

LEMMA InitResolved == Init => Resolved
BY DEF Init, Resolved, JobsResolve, RecordedVersionResolves, NoJob, Nowhere

LEMMA AlwaysResolved == Spec => []Resolved
<1>1. TypeOK /\ Resolved /\ [Next]_vars => Resolved'
  BY NextResolved
<1> QED BY <1>1, InitResolved, TypeCorrect, PTL DEF Spec

\* catalog/install.go:85-121.  Every record from a catalog names, by its own version,
\* the entry its source is from.
THEOREM RecordCorrect == Spec => []RecordedVersionResolves
<1>1. Resolved => RecordedVersionResolves
  BY DEF Resolved
<1> QED BY <1>1, AlwaysResolved, PTL

\* upgrade.go:65-74.  An upgrade to the latest version never goes back, though the
\* catalog may change between its two requests.
THEOREM LatestForward == Spec => LatestMovesForward
<1> DEFINE Forward ==
      \A n \in Names :
          job # NoJob /\ job.from \in Versions /\ repository'[n] # repository[n]
            => repository'[n].catalog.version > repository[n].catalog.version
<1>1. ASSUME TypeOK, Resolved, [Next]_vars PROVE [Forward]_vars
  <2> SUFFICES ASSUME NEW n \in Names, job # NoJob, job.from \in Versions,
                      repository'[n] # repository[n]
               PROVE  repository'[n].catalog.version > repository[n].catalog.version
    OBVIOUS
  <2>1. WriteMarker
    BY <1>1 DEF Next, vars, CatalogChanges, Delete, Reconcile, UpgradeLatest, Add, AddDirect,
                UpgradeTo, Start, CreateInstallationSpec, JobFails, Begin, Step, Unreachable,
                ListInstallations, PrintInstalled, SearchCatalog, ShowVersion, AskUpdates,
                UpdatesFail
  <2>2. job.kind = "write" /\ repository' = [repository EXCEPT ![job.name] = job.spec]
    BY <2>1 DEF WriteMarker
  <2>3. n = job.name /\ repository'[n] = job.spec
    BY <1>1, <2>2 DEF TypeOK
  <2> QED BY <1>1, <2>2, <2>3 DEF Resolved, JobsResolve
<1> QED BY <1>1, TypeCorrect, AlwaysResolved, PTL DEF Spec, LatestMovesForward
=============================================================================
