-------------------------- MODULE MCClusterInstall --------------------------
(***************************************************************************)
(* Two clusters, two releases, two deployments.  The requests: a version   *)
(* without v, kept, and one with v, not kept, in one and the same directory*)
(* of --out; a version into a cluster of another context than the one      *)
(* waited for, without regard to flux; and a dry run of the latest.        *)
(***************************************************************************)
EXTENDS ClusterInstall

CONSTANTS home, away, manager, webhook, r1, r2

MCClusters == {home, away}
MCComponents == {manager, webhook}
MCVersions == {r1, r2}

Usual ==
    [version |-> NoVersion, prefixed |-> FALSE, out |-> FALSE, keep |-> FALSE, dryRun |-> FALSE,
     ignore |-> FALSE, waited |-> home, target |-> home]
MCRequests ==
    {[Usual EXCEPT !.version = r1, !.out = TRUE, !.keep = TRUE],
     [Usual EXCEPT !.version = r1, !.prefixed = TRUE, !.out = TRUE],
     [Usual EXCEPT !.version = r1, !.prefixed = TRUE, !.target = away, !.ignore = TRUE],
     [Usual EXCEPT !.dryRun = TRUE, !.keep = TRUE]}
=============================================================================
