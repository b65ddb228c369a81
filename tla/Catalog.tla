------------------------------- MODULE Catalog -------------------------------
(***************************************************************************)
(* pkg/catalog, pkg/client and pkg/installation: what pctl asks the        *)
(* catalog service, what it makes of the answers, and how an installation  *)
(* remembers where it came from.                                           *)
(*                                                                         *)
(* The service is reached through the proxy of the Kubernetes API.  It is  *)
(* up, or fails (a timeout, a status code), or there is no such service:   *)
(* then the API answers every request with 404, as the catalog does when   *)
(* it has no entry.                                                        *)
(***************************************************************************)
EXTENDS Naturals

CONSTANTS
    Catalogs, Profiles, Urls, Dirs, Branches,   \* names
    Versions, NoVersion, Latest,   \* versions, the empty string, "latest"
    Entries,                       \* all that is ever in the catalog
    Names,                         \* of installations
    Queries,                       \* what the owner may type after `pctl get`
    Contains,                      \* the names a query is a part of
    Parts,                         \* a query split at "/": catalog and profile
    NoParts, Dash, Root, NoCatalog, NoSource, NoEntry, Unavailable

\* A tag is <semver> or <name>/<semver>, or missing.
Tags == [dir: Dirs \cup {Root}, version: Versions \cup {NoVersion}]
GetVersionFromTag(tag) == tag.version

Key(e) == [catalog |-> e.catalog, profile |-> e.name, version |-> GetVersionFromTag(e.tag)]
Keys == [catalog: Catalogs, profile: Profiles, version: Versions \cup {NoVersion}]
Sources == [url: Urls, branch: Branches \cup {Dash}, path: Dirs \cup {Root, Dash}]
Specs == [catalog: Keys \cup {NoCatalog}, source: Sources \cup {NoSource}]

ASSUME CatalogAssumption ==
    /\ Versions \subseteq Nat /\ NoVersion \notin Versions
    /\ Latest \notin Versions \cup {NoVersion}
    /\ Entries \subseteq [catalog: Catalogs, name: Profiles, url: Urls, tag: Tags]
    /\ \A d, e \in Entries : Key(d) = Key(e) => d = e
    /\ Contains \in [Queries -> SUBSET (Names \cup Profiles)]
    /\ Parts \in [Queries -> [catalog: Catalogs, profile: Profiles] \cup {NoParts}]
    /\ Dash \notin Catalogs \cup Versions /\ Root \notin Dirs
    /\ NoCatalog \notin Keys /\ NoSource \notin Sources
    /\ NoEntry \notin Entries
    /\ \A answer \in (SUBSET Versions) \cup (SUBSET Entries) : Unavailable # answer

Conditions == {"up", "failing", "missing"}

-----------------------------------------------------------------------------
(* The service: what is at a path.  `store` is what it has. *)

OfProfile(store, c, p) == {e \in store : e.catalog = c /\ e.name = p}

\* /profiles/<catalog>/<profile>[/<version>]: path.Join drops a version that is empty.
At(store, c, p, v) ==
    LET of == OfProfile(store, c, p)
        released == {e \in of : e.tag.version \in Versions} IN
    IF v = NoVersion THEN of
    ELSE IF v = Latest
         THEN {e \in released : \A d \in released : d.tag.version <= e.tag.version}
         ELSE {e \in of : e.tag.version = v}

\* .../available_updates: without a version it is taken for one, which nobody has.
NewerThan(store, c, p, v) ==
    IF v \notin Versions THEN {}
    ELSE {e.tag.version : e \in {d \in OfProfile(store, c, p) :
                                    d.tag.version \in Versions /\ d.tag.version > v}}

Matches(q, x) == x \in Contains[q]

-----------------------------------------------------------------------------
(* The requests of pctl *)

\* Client.DoRequest gives back the code of any status error, and the callers
\* tell 404 from the rest, if at all.
DoRequest(condition, found) ==
    CASE condition = "up" /\ found # {} -> "ok"
      [] condition = "failing" -> "failed"
      [] OTHER -> "not found"

\* The entries Show may return; none is an error.
Show(condition, store, c, p, v) ==
    IF DoRequest(condition, At(store, c, p, v)) = "ok" THEN At(store, c, p, v) ELSE {NoEntry}

\* Slip: 404 is an error like the others.
GetAvailableUpdatesStrict(condition, store, c, p, v) ==
    IF DoRequest(condition, NewerThan(store, c, p, v)) # "ok" THEN Unavailable
    ELSE NewerThan(store, c, p, v)

\* 404 is no update: there is no newer version, no such entry, or no service.
GetAvailableUpdates(condition, store, c, p, v) ==
    LET newer == NewerThan(store, c, p, v) IN
    CASE DoRequest(condition, newer) = "ok" -> newer
      [] DoRequest(condition, newer) = "not found" -> {}
      [] OTHER -> Unavailable

\* Slip: 404 is an empty list.
SearchTolerant(condition, store, q) ==
    IF condition = "failing" THEN Unavailable
    ELSE IF condition = "missing" THEN {}
    ELSE IF q \in Queries THEN {e \in store : Matches(q, e.name)} ELSE store

\* A list that is empty is answered with 200; for Search 404 is an error.
Search(condition, store, q) ==
    IF condition # "up" THEN Unavailable
    ELSE IF q \in Queries THEN {e \in store : Matches(q, e.name)} ELSE store

-----------------------------------------------------------------------------
(* What an installation records, and what a list of them shows *)

SourceOf(e) == [url |-> e.url, branch |-> Dash, path |-> e.tag.dir]

\* Slip: the version that was asked for, not the one that was found.
EntrySpecAsAsked(ask, e) ==
    [catalog |-> [catalog |-> ask.catalog, profile |-> e.name,
                  version |-> ask.version],
     source |-> SourceOf(e)]

\* createInstallationSpec: the catalog's answer, pinned to the version it has; the
\* path is the first part of the tag.
EntrySpec(ask, e) ==
    [catalog |-> [catalog |-> ask.catalog, profile |-> e.name,
                  version |-> GetVersionFromTag(e.tag)],
     source |-> SourceOf(e)]

\* With --profile-repo-url the catalog is not asked, and not remembered.
DirectSpec(source) == [catalog |-> NoCatalog, source |-> source]

\* installation.Manager.List: "-" for what is not there.
Summary(n, spec) ==
    [name |-> n,
     catalog |-> IF spec.catalog = NoCatalog THEN Dash ELSE spec.catalog.catalog,
     profile |-> IF spec.catalog = NoCatalog THEN Dash ELSE spec.catalog.profile,
     version |-> IF spec.catalog = NoCatalog THEN Dash ELSE spec.catalog.version,
     url |-> IF spec.source = NoSource THEN Dash ELSE spec.source.url,
     branch |-> IF spec.source = NoSource THEN Dash ELSE spec.source.branch,
     path |-> IF spec.source = NoSource THEN Dash ELSE spec.source.path]
=============================================================================
