-------------------------------- MODULE MCGet --------------------------------
(***************************************************************************)
(* A catalog with three releases of one profile and an entry that has no   *)
(* tag; one installation for pctl to add and upgrade, and one made by      *)
(* hand, of the first release.                                             *)
(***************************************************************************)
EXTENDS Get

CONSTANTS catalog1, nginx, other, url1, url2, branch1, mine, theirs, query, path

MCCatalogs == {catalog1}
MCProfiles == {nginx, other}
MCUrls == {url1, url2}
MCDirs == {nginx}
MCBranches == {branch1}
MCVersions == 1..3
Release(v) == [catalog |-> catalog1, name |-> nginx, url |-> url1,
               tag |-> [dir |-> nginx, version |-> v]]
Untagged == [catalog |-> catalog1, name |-> other, url |-> url2,
             tag |-> [dir |-> Root, version |-> NoVersion]]
MCEntries == {Release(v) : v \in MCVersions} \cup {Untagged}
MCStores == {{Release(1), Release(2), Untagged}}
MCDirectories == {mine}
MCNames == {mine, theirs}
\* "pctl get mine" and "pctl get catalog1/nginx"
MCQueries == {query, path}
MCContains == [q \in MCQueries |-> IF q = query THEN {mine, nginx} ELSE {}]
MCParts == [q \in MCQueries |->
    IF q = path THEN [catalog |-> catalog1, profile |-> nginx] ELSE NoParts]

MCAsks == {[catalog |-> catalog1, profile |-> nginx, version |-> Latest]}
     \cup {[catalog |-> catalog1, profile |-> other, version |-> NoVersion]}
MCDirectSources == {[url |-> url2, branch |-> branch1, path |-> Root]}
MCByHand == [n \in MCNames |->
    IF n = mine THEN NoSpec
    ELSE [catalog |-> [catalog |-> catalog1, profile |-> nginx, version |-> 1],
          source |-> NoSource]]

Plain == [name |-> NoName, installed |-> FALSE, catalog |-> FALSE, version |-> NoVersion]
MCGets ==
    {Plain, [Plain EXCEPT !.catalog = TRUE],
     [Plain EXCEPT !.name = query, !.installed = TRUE],
     [Plain EXCEPT !.name = query, !.installed = TRUE, !.catalog = TRUE],
     [Plain EXCEPT !.name = query, !.version = 2],
     [Plain EXCEPT !.name = path, !.version = 2]}
=============================================================================
