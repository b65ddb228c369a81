---------------------------- MODULE MCBootstrap ----------------------------
(***************************************************************************)
(* Three bootstraps that want different things, and three adds: two that   *)
(* leave the GitRepository to the configuration and one that does not.     *)
(***************************************************************************)
EXTENDS Bootstrap

CONSTANTS b1, b2, b3, a1, a2, a3, fluxRepo, otherRepo, out, apps

MCBootstraps == {b1, b2, b3}
MCAdds == {a1, a2, a3}
MCRepos == {fluxRepo, otherRepo}
MCDirs == {out, apps}
MCAsked ==
    [b \in MCBootstraps |->
        CASE b = b1 -> [repo |-> fluxRepo, dir |-> apps]
          [] b = b2 -> [repo |-> otherRepo, dir |-> NoDir]
          [] b = b3 -> [repo |-> fluxRepo, dir |-> NoDir]]
MCFlags ==
    [a \in MCAdds |->
        CASE a = a1 -> Blank
          [] a = a2 -> [repo |-> NoRepo, dir |-> apps]
          [] a = a3 -> [repo |-> otherRepo, dir |-> NoDir]]
=============================================================================
