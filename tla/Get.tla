--------------------------------- MODULE Get ---------------------------------
(***************************************************************************)
(* `pctl get` (cmd/pctl/get.go) between the three places a profile is in:  *)
(*    the catalog     what can be installed,                               *)
(*    the repository  what `pctl add` and `pctl upgrade` have recorded,    *)
(*    the cluster     what flux has made of the repository so far.         *)
(*                                                                         *)
(* A get lists the installations of the cluster once, then asks the        *)
(* catalog for the updates of one after the other, then for its entries.   *)
(* Meanwhile versions are published and withdrawn, the service comes and   *)
(* goes, the owner adds and upgrades, and flux reconciles.                 *)
(***************************************************************************)
EXTENDS Catalog

CONSTANTS
    Stores,         \* what the catalog may have to begin with
    Directories,    \* the installations that are in the repository
    Asks,           \* catalog entries adds are asked for
    DirectSources,  \* repositories given with --profile-repo-url
    ByHand,         \* what is in the cluster without pctl
    Gets,           \* the flags and arguments gets are started with
    NoSpec, NoName, NoRequest, NoTable,
    MaxChanges, MaxJobs, MaxGets   \* bounds on the environment

\* --installed, --catalog, --profile-version, and the query.
Requests == [name: Queries \cup {NoName}, installed: BOOLEAN, catalog: BOOLEAN,
             version: Versions \cup {NoVersion}]

ASSUME GetAssumption ==
    /\ Stores \subseteq SUBSET Entries /\ Directories \subseteq Names
    /\ Asks \subseteq [catalog: Catalogs, profile: Profiles,
                       version: Versions \cup {NoVersion, Latest}]
    /\ DirectSources \subseteq Sources
    /\ ByHand \in [Names -> Specs \cup {NoSpec}]
    /\ Gets \subseteq Requests
    /\ NoName \notin Queries /\ NoSpec \notin Specs
    /\ {MaxChanges, MaxJobs, MaxGets} \subseteq Nat

VARIABLES
    condition, store,  \* the catalog service and its entries
    repository,        \* the ProfileInstallation of each directory, pushed
    cluster,           \* the ProfileInstallations there are
    job,               \* an add or an upgrade going on
    pc, opt,           \* the get going on
    installed,         \* what the cluster answered it
    todo,              \* installations to ask the catalog about
    rows,              \* profileData
    screen,            \* what it has printed
    result,
    lived, clusters,   \* what catalog and cluster were in the course of the get
    unreachable,       \* a kubeconfig or the API of the cluster failed it
    changes, jobs, gets

catalogVars == <<condition, store>>
getVars == <<pc, opt, installed, todo, rows, screen, result, unreachable>>
bounds == <<changes, jobs, gets>>
vars == <<catalogVars, repository, cluster, job, getVars, lived, clusters, bounds>>

Nowhere == [n \in Names |-> NoSpec]
Now == [condition |-> condition, store |-> store]
NoJob == [kind |-> "none"]
BlankScreen == [installed |-> NoTable, catalog |-> NoTable]

Init ==
    /\ condition = "up" /\ store \in Stores
    /\ repository = Nowhere /\ cluster = ByHand
    /\ job = NoJob
    /\ pc = "idle" /\ opt = NoRequest
    /\ installed = Nowhere /\ todo = {} /\ rows = {}
    /\ screen = BlankScreen /\ result = "none" /\ unreachable = FALSE
    /\ lived = {} /\ clusters = {}
    /\ changes = 0 /\ jobs = 0 /\ gets = 0

-----------------------------------------------------------------------------
(* The catalog, flux and the owner *)

\* Somebody deletes an installation; flux would bring back its own.
Delete(n) ==
    /\ changes < MaxChanges /\ changes' = changes + 1
    /\ cluster[n] # NoSpec /\ cluster' = [cluster EXCEPT ![n] = NoSpec]
    /\ clusters' = IF pc = "idle" THEN clusters ELSE clusters \cup {cluster'}
    /\ UNCHANGED <<catalogVars, repository, job, getVars, lived, jobs, gets>>

CatalogChanges ==
    /\ changes < MaxChanges /\ changes' = changes + 1
    /\ \/ condition' \in Conditions \ {condition} /\ UNCHANGED store
       \/ /\ \E e \in Entries : store' = IF e \in store THEN store \ {e} ELSE store \cup {e}
          /\ UNCHANGED condition
    /\ lived' = IF pc = "idle" THEN lived ELSE lived \cup {Now'}
    /\ UNCHANGED <<repository, cluster, job, getVars, clusters, jobs, gets>>

\* flux brings one installation to what the repository has; what is only in the
\* cluster stays.
Reconcile(n) ==
    /\ cluster[n] # repository[n] /\ repository[n] # NoSpec
    /\ cluster' = [cluster EXCEPT ![n] = repository[n]]
    /\ clusters' = IF pc = "idle" THEN clusters ELSE clusters \cup {cluster'}
    /\ UNCHANGED <<catalogVars, repository, job, getVars, lived, bounds>>

-----------------------------------------------------------------------------
(* add and upgrade, as far as the catalog is concerned *)

Start ==
    /\ job = NoJob
    /\ jobs < MaxJobs /\ jobs' = jobs + 1
    /\ UNCHANGED <<catalogVars, repository, cluster, getVars, lived, clusters, changes, gets>>

\* addProfile parses <CATALOG>/<PROFILE>[/<VERSION>], "latest" if there is no version ...
Add(n) ==
    /\ Start
    /\ \E ask \in Asks :
          job' = [kind |-> "show", name |-> n, ask |-> ask, from |-> NoVersion]

\* ... or has the address of a repository.
AddDirect(n) ==
    /\ Start
    /\ \E source \in DirectSources :
          job' = [kind |-> "write", name |-> n, spec |-> DirectSpec(source), from |-> NoVersion]

\* Upgrade reads the marker, which must have a catalog.
UpgradeTo(n) ==
    /\ Start
    /\ repository[n] # NoSpec /\ repository[n].catalog # NoCatalog
    /\ \E v \in Versions :
          job' = [kind |-> "show", name |-> n,
                  ask |-> [repository[n].catalog EXCEPT !.version = v], from |-> NoVersion]

\* Slip: the newest there is, which the installation may already have.
UpgradeLatestOfAll(n) ==
    /\ Start
    /\ repository[n] # NoSpec /\ repository[n].catalog # NoCatalog
    /\ job' = [kind |-> "show", name |-> n,
               ask |-> [repository[n].catalog EXCEPT !.version = Latest],
               from |-> repository[n].catalog.version]

\* --latest: the first of the available updates; none is an error.
UpgradeLatest(n) ==
    /\ Start
    /\ repository[n] # NoSpec /\ repository[n].catalog # NoCatalog
    /\ LET k == repository[n].catalog
           updates == GetAvailableUpdates(condition, store, k.catalog, k.profile, k.version) IN
         /\ updates # Unavailable
         /\ \E v \in updates :
               job' = [kind |-> "show", name |-> n, ask |-> [k EXCEPT !.version = v],
                       from |-> k.version]

\* createInstallationSpec asks (again) for the entry and takes what it gets.
CreateInstallationSpec ==
    /\ job.kind = "show"
    /\ \E e \in Show(condition, store, job.ask.catalog, job.ask.profile, job.ask.version) :
          job' = IF e = NoEntry THEN NoJob
                 ELSE [kind |-> "write", name |-> job.name, spec |-> EntrySpec(job.ask, e),
                       from |-> job.from]
    /\ UNCHANGED <<catalogVars, repository, cluster, getVars, lived, clusters, bounds>>

\* Install writes the marker last, and the owner pushes.
WriteMarker ==
    /\ job.kind = "write"
    /\ repository' = [repository EXCEPT ![job.name] = job.spec]
    /\ job' = NoJob
    /\ UNCHANGED <<catalogVars, cluster, getVars, lived, clusters, bounds>>

\* Any error: the clone, the merge, a kill.
JobFails ==
    /\ job # NoJob /\ job' = NoJob
    /\ UNCHANGED <<catalogVars, repository, cluster, getVars, lived, clusters, bounds>>

-----------------------------------------------------------------------------
(* get *)

Return(r) ==
    /\ pc' = "idle" /\ result' = r
    /\ opt' = opt /\ installed' = Nowhere /\ todo' = {} /\ rows' = {}

\* The version is looked at only with a name; then --catalog comes first, and
\* without a name --installed does.
Plan(o) ==
    CASE o.name # NoName /\ o.version # NoVersion -> {"show"}
      [] o.name # NoName /\ o.catalog -> {"search"}
      [] o.installed -> {"list"}
      [] o.catalog -> {"search"}
      [] OTHER -> {"list", "search"}

Begin(o) ==
    /\ pc = "idle"
    /\ gets < MaxGets /\ gets' = gets + 1
    /\ opt' = o /\ result' = "none" /\ screen' = BlankScreen /\ unreachable' = FALSE
    /\ lived' = {Now} /\ clusters' = {cluster}
    /\ pc' = CASE "list" \in Plan(o) -> "list" [] "search" \in Plan(o) -> "search"
               [] OTHER -> "show"
    /\ UNCHANGED <<catalogVars, repository, cluster, job, installed, todo, rows, changes,
                   jobs>>

\* buildK8sClient and buildCatalogClient need a kubeconfig that parses; the API of
\* the cluster may not answer.
Unreachable ==
    /\ pc \in {"list", "search", "show"} /\ screen = BlankScreen
    /\ unreachable' = TRUE
    /\ Return("error")
    /\ UNCHANGED <<catalogVars, repository, cluster, job, screen, lived, clusters, bounds>>

ListInstallations ==
    /\ pc = "list"
    /\ installed' = cluster
    /\ todo' = {n \in Names : cluster[n] # NoSpec}
    /\ pc' = "updates"
    /\ UNCHANGED <<catalogVars, repository, cluster, job, opt, rows, screen, result,
                   unreachable, lived, clusters, bounds>>

\* strings.Contains(p.Name, name)
Listed(o, n) == o.name = NoName \/ Matches(o.name, n)

\* Slip: no "-" for an installation without updates.
RowWithoutDash(n, spec, updates) == [profile |-> Summary(n, spec), updates |-> updates]

\* One installation: its updates, "-" if there are none, and its row if its name
\* was asked for.  The catalog is asked either way, and one error ends it all.
Row(n, spec, updates) ==
    [profile |-> Summary(n, spec), updates |-> IF updates = {} THEN {Dash} ELSE updates]

UpdatesOf(spec) ==
    IF spec.catalog = NoCatalog THEN {}
    ELSE GetAvailableUpdates(condition, store, spec.catalog.catalog, spec.catalog.profile,
                             spec.catalog.version)

\* Slip: the installation is read again for its row.
AskUpdatesAfresh(n) ==
    /\ pc = "updates" /\ n \in todo /\ condition # "failing"
    /\ rows' = IF cluster[n] = NoSpec \/ ~Listed(opt, n) THEN rows
               ELSE rows \cup {Row(n, cluster[n], UpdatesOf(cluster[n]))}
    /\ todo' = todo \ {n}
    /\ UNCHANGED <<catalogVars, repository, cluster, job, pc, opt, installed, screen,
                   result, unreachable, lived, clusters, bounds>>

AskUpdates(n) ==
    /\ pc = "updates" /\ n \in todo
    /\ LET updates == UpdatesOf(installed[n]) IN
         /\ updates # Unavailable
         /\ rows' = IF Listed(opt, n) THEN rows \cup {Row(n, installed[n], updates)} ELSE rows
    /\ todo' = todo \ {n}
    /\ UNCHANGED <<catalogVars, repository, cluster, job, pc, opt, installed, screen,
                   result, unreachable, lived, clusters, bounds>>

\* Slip: after an error of the catalog it is asked again.
UpdatesRetried(n) ==
    /\ pc = "updates" /\ n \in todo
    /\ UpdatesOf(installed[n]) = Unavailable
    /\ UNCHANGED vars

UpdatesFail(n) ==
    /\ pc = "updates" /\ n \in todo
    /\ UpdatesOf(installed[n]) = Unavailable
    /\ Return("error")
    /\ UNCHANGED <<catalogVars, repository, cluster, job, screen, unreachable, lived,
                   clusters, bounds>>

FormatInstalledProfilesOutput(data) == screen' = [screen EXCEPT !.installed = data]

\* getInstalledProfiles, once the list is complete.
PrintInstalled ==
    /\ pc = "updates" /\ todo = {}
    /\ FormatInstalledProfilesOutput(rows)
    /\ IF "search" \in Plan(opt)
       THEN /\ pc' = "search" /\ rows' = {} /\ installed' = Nowhere
            /\ UNCHANGED <<opt, todo, result>>
       ELSE Return("ok")
    /\ UNCHANGED <<catalogVars, repository, cluster, job, unreachable, lived, clusters, bounds>>

\* getCatalogProfiles.
FormatOutput(found) == screen' = [screen EXCEPT !.catalog = found]

SearchCatalog ==
    /\ pc = "search"
    /\ LET found == Search(condition, store, opt.name) IN
         IF found = Unavailable THEN Return("error") /\ UNCHANGED screen
         ELSE Return("ok") /\ FormatOutput(found)
    /\ UNCHANGED <<catalogVars, repository, cluster, job, unreachable, lived, clusters, bounds>>

\* getCatalogProfilesWithVersion.
FormatCatalogProfilesOutput(entry) == screen' = [screen EXCEPT !.catalog = {entry}]

ShowVersion ==
    /\ pc = "show"
    /\ IF Parts[opt.name] = NoParts THEN Return("error") /\ UNCHANGED screen
       ELSE \E e \in Show(condition, store, Parts[opt.name].catalog, Parts[opt.name].profile,
                          opt.version) :
              IF e = NoEntry THEN Return("error") /\ UNCHANGED screen
              ELSE Return("ok") /\ FormatCatalogProfilesOutput(e)
    /\ UNCHANGED <<catalogVars, repository, cluster, job, unreachable, lived, clusters, bounds>>

Step ==
    \/ Unreachable \/ ListInstallations \/ PrintInstalled \/ SearchCatalog \/ ShowVersion
    \/ \E n \in Names : AskUpdates(n) \/ UpdatesFail(n)

Next ==
    \/ CatalogChanges \/ \E n \in Names \ Directories : Delete(n)
    \/ \E n \in Directories :
          Reconcile(n) \/ Add(n) \/ AddDirect(n) \/ UpgradeTo(n) \/ UpgradeLatest(n)
    \/ CreateInstallationSpec \/ WriteMarker \/ JobFails
    \/ \E o \in Gets : Begin(o)
    \/ Step

Spec == Init /\ [][Next]_vars

\* A get that is started runs on, if only to fail.
FairSpec == Spec /\ WF_vars(Step)

-----------------------------------------------------------------------------
(* Properties *)

Keyed == Keys \cup [catalog: Catalogs, profile: Profiles, version: {Latest}]
Updates == ((SUBSET Versions) \ {{}}) \cup {{Dash}}
Rows == [profile: {Summary(n, s) : n \in Names, s \in Specs}, updates: Updates]
Jobs == {NoJob}
    \cup [kind: {"show"}, name: Names, ask: Keyed, from: Versions \cup {NoVersion}]
    \cup [kind: {"write"}, name: Names, spec: Specs, from: Versions \cup {NoVersion}]

\* Every variable holds a value of its kind; no row is without a version or a "-",
\* and there are none but while the cluster's answer is gone through.
TypeOK ==
    /\ condition \in Conditions /\ store \subseteq Entries
    /\ repository \in [Names -> Specs \cup {NoSpec}]
    /\ cluster \in [Names -> Specs \cup {NoSpec}]
    /\ job \in Jobs
    /\ pc \in {"idle", "list", "updates", "search", "show"}
    /\ opt \in Gets \cup {NoRequest} /\ (pc # "idle" => opt \in Gets)
    /\ installed \in [Names -> Specs \cup {NoSpec}]
    /\ todo \subseteq {n \in Names : installed[n] # NoSpec}
    /\ rows \subseteq Rows
    /\ pc # "updates" => todo = {} /\ rows = {}
    /\ screen \in [installed: {NoTable} \cup SUBSET Rows, catalog: {NoTable} \cup SUBSET Entries]
    /\ result \in {"none", "ok", "error"} /\ unreachable \in BOOLEAN
    /\ lived \subseteq [condition: Conditions, store: SUBSET Entries]
    /\ clusters \subseteq [Names -> Specs \cup {NoSpec}]
    /\ changes \in 0..MaxChanges /\ jobs \in 0..MaxJobs /\ gets \in 0..MaxGets

\* list.go:20-61.  A table of installations is one state the cluster was in while
\* the get ran, no mixture of two, and complete up to the name asked for; and the
\* updates of each row are all the newer versions there were, at one moment of
\* the get, in the catalog; none may also mean that there was no catalog.
Newer(spec, m) ==
    NewerThan(m.store, spec.catalog.catalog, spec.catalog.profile, spec.catalog.version)

UpdatesAt(spec, m) ==
    IF spec.catalog = NoCatalog \/ m.condition = "missing" \/ Newer(spec, m) = {}
    THEN {Dash} ELSE Newer(spec, m)

RowWasTrue(n, spec, r, moments) ==
    /\ r.profile = Summary(n, spec)
    /\ \E m \in moments :
          /\ spec.catalog # NoCatalog => m.condition # "failing"
          /\ r.updates = UpdatesAt(spec, m)

\* The installations `of` the cluster k, those of them that were asked for.
TableWasTrue(table, k, of, o, moments) ==
    /\ \A n \in of : k[n] # NoSpec /\ Listed(o, n) =>
          \E r \in table : RowWasTrue(n, k[n], r, moments)
    /\ \A r \in table : \E n \in of :
          k[n] # NoSpec /\ Listed(o, n) /\ RowWasTrue(n, k[n], r, moments)

InstalledTableWasTrue ==
    screen.installed # NoTable =>
        \E k \in clusters : TableWasTrue(screen.installed, k, Names, opt, lived)

\* search.go:14-40, show.go:14-40.  Whatever is printed of the catalog was in it,
\* at one moment of the get, and was all of what was asked for.
Asked(o, m) ==
    IF "search" \in Plan(o)
    THEN {e \in m.store : o.name = NoName \/ Matches(o.name, e.name)}
    ELSE At(m.store, Parts[o.name].catalog, Parts[o.name].profile, o.version)

CatalogTableWasTrue ==
    screen.catalog # NoTable =>
        \E m \in lived : m.condition = "up" /\ screen.catalog = Asked(opt, m)

\* get.go:50-108.  A get fails for a reason: the cluster could not be reached, the
\* catalog failed in the course of it or, needed for more than updates, was not
\* there, or the version asked for was not.  An installation whose version was
\* withdrawn, or that is not from a catalog, does not keep the others from view.
ErrorsHaveCause ==
    result = "error" =>
        \/ unreachable
        \/ \E m \in lived : m.condition = "failing"
        \/ Plan(opt) # {"list"} /\ \E m \in lived : m.condition = "missing"
        \/ /\ Plan(opt) = {"show"}
           /\ Parts[opt.name] = NoParts \/ \E m \in lived : Asked(opt, m) = {}

\* catalog/install.go:85-121.  What an add or an upgrade records names the entry
\* its source is from, and names it by its own version, whatever was asked for
\* and however the catalog changed: it is what the next upgrade starts from.
RecordedVersionResolves ==
    \A n \in Names :
        repository[n] # NoSpec /\ repository[n].catalog # NoCatalog =>
            \E e \in Entries :
                Key(e) = repository[n].catalog /\ SourceOf(e) = repository[n].source

\* upgrade.go:65-74.  upgrade --latest never takes an installation back, for any
\* order of the updates and any change of the catalog between its requests.
LatestMovesForward ==
    [][\A n \in Names :
          job # NoJob /\ job.from \in Versions /\ repository'[n] # repository[n]
            => repository'[n].catalog.version > repository[n].catalog.version]_vars

\* Every get ends.
Terminates == pc # "idle" ~> pc = "idle"
=============================================================================
