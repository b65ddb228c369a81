--------------------------- MODULE ClusterInstall ---------------------------
(***************************************************************************)
(* pkg/cluster: `pctl install` checks that flux is there, downloads the    *)
(* manifest of the profiles controller, applies it with kubectl and waits  *)
(* until its deployments are ready (install.go, waiter.go).                *)
(*                                                                         *)
(* Waiting is concurrent: a poller goroutine sends the status of each      *)
(* deployment over a channel, a listener keeps the last one of each and    *)
(* cancels the context once all are current, and the context has a         *)
(* deadline.  The cluster changes all the time.                            *)
(***************************************************************************)
EXTENDS Naturals

CONSTANTS
    Clusters,
    DefaultCluster,   \* what kubectl, without flags, talks to
    Components,       \* deployments that Wait is called for
    Versions, NoVersion,
    NoEvent, ErrorEvent,
    Requests,         \* what the runs are asked for: the flags; the cluster of
                      \* --kubeconfig, which the waiter polls; and that of
                      \* --kubeconfig with --context, which is applied to
    MaxChanges, MaxRuns   \* bounds on the environment

Statuses == {"notfound", "progressing", "current"}

NoDirectory == "no directory"

\* The manifest is downloaded into a temporary directory, or into that of --out.
Places == {"temporary", "named"}

Flags ==
    [version: Versions \cup {NoVersion}, prefixed: BOOLEAN, out: BOOLEAN, keep: BOOLEAN,
     dryRun: BOOLEAN, ignore: BOOLEAN, waited: Clusters, target: Clusters]

ASSUME ClusterInstallAssumption ==
    /\ DefaultCluster \in Clusters
    /\ NoVersion \notin Versions /\ NoDirectory \notin Versions \cup {NoVersion}
    /\ Requests \subseteq Flags
    /\ NoEvent # ErrorEvent
    /\ {NoEvent, ErrorEvent} \cap [component: Components, status: Statuses] = {}
    /\ {MaxChanges, MaxRuns} \subseteq Nat

VARIABLES
    latest,     \* the latest release
    flux,       \* the clusters flux is in
    applied,    \* the version of the manifest each cluster has
    deployed,   \* the status of each deployment in each cluster
    pc, opt,
    directory,  \* the manifest in each place; NoVersion stands for none, or a part
    told,       \* the owner was told that the directory is still there
    seen,       \* coll.ResourceStatuses
    event,      \* in the channel
    poller, ctx, collError,
    result,
    beenReady,  \* components that were ready in the target since this run applied
    changes, runs

env == <<latest, flux, applied, deployed>>
wait == <<seen, event, poller, ctx, collError>>
vars == <<env, pc, opt, directory, told, wait, result, beenReady, changes, runs>>

NoRequest == <<>>

Init ==
    /\ latest \in Versions
    /\ flux \in SUBSET Clusters
    /\ applied = [k \in Clusters |-> NoVersion]
    /\ deployed = [k \in Clusters |-> [c \in Components |-> "notfound"]]
    /\ pc = "idle" /\ opt = NoRequest
    /\ directory = [p \in Places |-> NoDirectory] /\ told = FALSE
    /\ seen = [c \in Components |-> "unknown"] /\ event = NoEvent
    /\ poller = "stopped" /\ ctx = "none" /\ collError = FALSE
    /\ result = "none" /\ beenReady = {}
    /\ changes = 0 /\ runs = 0

-----------------------------------------------------------------------------
(* The environment *)

\* A deployment makes progress, or loses it.
DeploymentChanges(k, c) ==
    /\ deployed[k][c] # "notfound"
    /\ deployed' = [deployed EXCEPT ![k][c] =
                       IF @ = "current" THEN "progressing" ELSE "current"]
    /\ beenReady' = IF pc = "waiting" /\ k = opt.target /\ deployed'[k][c] = "current"
                    THEN beenReady \cup {c} ELSE beenReady
    /\ UNCHANGED <<latest, flux, applied>>

EnvironmentChanges ==
    /\ changes < MaxChanges /\ changes' = changes + 1
    /\ \/ \E k \in Clusters, c \in Components : DeploymentChanges(k, c)
       \/ /\ \E v \in Versions \ {latest} : latest' = v
          /\ UNCHANGED <<flux, applied, deployed, beenReady>>
       \/ /\ \E k \in Clusters : flux' = flux \ {k} /\ k \in flux
          /\ UNCHANGED <<latest, applied, deployed, beenReady>>
    /\ UNCHANGED <<pc, opt, directory, told, wait, result, runs>>

-----------------------------------------------------------------------------
(* Install *)

\* i.Location, before the name of the file
Place == IF opt.out THEN "named" ELSE "temporary"
Holding(d) == [directory EXCEPT ![Place] = d]

\* NewInstaller makes a new temporary directory unless --out is given.  The owner
\* may have made the one of --out; nothing checks that it is there.
NewInstaller(o) ==
    /\ pc = "idle" /\ runs < MaxRuns /\ runs' = runs + 1
    /\ opt' = o /\ pc' = "checking" /\ result' = "none" /\ beenReady' = {}
    /\ told' = FALSE
    /\ \/ ~o.out /\ directory' = [directory EXCEPT !["temporary"] = NoVersion]
       \/ o.out /\ UNCHANGED directory
       \/ /\ o.out /\ directory["named"] = NoDirectory
          /\ directory' = [directory EXCEPT !["named"] = NoVersion]
    /\ UNCHANGED <<env, wait, changes>>

\* What is in the directory when the download, or the clean-up, was cut short.
CutShort == IF directory[Place] = NoDirectory THEN {NoDirectory}
            ELSE {directory[Place], NoVersion}
Downloaded == IF pc = "fetching" THEN CutShort ELSE {directory[Place]}

\* Slip: the directory is removed at the end, not deferred.
ReturnWithoutCleanup(r) ==
    /\ pc' = "idle" /\ result' = r /\ opt' = opt /\ told' = told
    /\ directory' = IF opt.keep \/ r = "error" THEN directory ELSE Holding(NoDirectory)

\* The deferred function removes the directory, whosever it is.  If it cannot, the
\* owner is told to, and the result of the install stays what it was.
Return(r) ==
    /\ pc' = "idle" /\ result' = r /\ opt' = opt
    /\ \/ opt.keep /\ told' = told /\ \E d \in Downloaded : directory' = Holding(d)
       \/ ~opt.keep /\ told' = told /\ directory' = Holding(NoDirectory)
       \/ /\ ~opt.keep /\ directory[Place] # NoDirectory
          /\ told' = TRUE /\ \E d \in CutShort : directory' = Holding(d)

Restarted == [c \in Components |-> "progressing"]

\* kubectl apply that does not end well may have applied a part of the manifest.
AppliedInPart ==
    \/ UNCHANGED env
    \/ /\ pc = "applying" /\ ~opt.dryRun
       /\ applied' = [applied EXCEPT ![opt.target] = NoVersion]
       /\ deployed' \in {deployed, [deployed EXCEPT ![opt.target] = Restarted]}
       /\ UNCHANGED <<latest, flux>>

\* A command or a request fails; a failed check can be ignored.
Fails ==
    /\ \/ pc = "checking" /\ ~opt.ignore
       \/ pc \in {"fetching", "applying"}
    /\ AppliedInPart
    /\ Return("error")
    /\ UNCHANGED <<wait, beenReady, changes, runs>>

\* The process is killed, perhaps in the clean-up, and its goroutines are gone.
Kill ==
    /\ pc # "idle" /\ pc' = "idle" /\ result' = "killed"
    /\ AppliedInPart
    /\ poller' = "stopped" /\ event' = NoEvent
    /\ \/ \E d \in Downloaded : directory' = Holding(d)
       \/ ~opt.keep /\ \E d \in CutShort \cup {NoDirectory} : directory' = Holding(d)
    /\ UNCHANGED <<opt, told, seen, ctx, collError, beenReady, changes, runs>>

\* PreFlightCheck asks the cluster that is the default, whatever the flags say.
PreFlightCheck ==
    /\ pc = "checking"
    /\ DefaultCluster \in flux \/ opt.ignore
    /\ pc' = "fetching"
    /\ UNCHANGED <<env, opt, directory, told, wait, result, beenReady, changes, runs>>

\* Only a version that starts with v is taken as one.
Requested == IF opt.version # NoVersion /\ opt.prefixed THEN opt.version ELSE latest

\* WriteFile makes no directory.
Fetch ==
    /\ pc = "fetching"
    /\ directory[Place] # NoDirectory
    /\ directory' = Holding(Requested)
    /\ pc' = "applying"
    /\ UNCHANGED <<env, opt, told, wait, result, beenReady, changes, runs>>

\* kubectl apply: the deployments of another version are not ready at once.
Apply ==
    /\ pc = "applying" /\ ~opt.dryRun
    /\ LET v == directory[Place]
           same == applied[opt.target] = v
       IN  /\ applied' = [applied EXCEPT ![opt.target] = v]
           /\ deployed' = IF same THEN deployed
                          ELSE [deployed EXCEPT ![opt.target] = Restarted]
           /\ beenReady' = {c \in Components : deployed'[opt.target][c] = "current"}
    /\ pc' = "waiting"
    /\ seen' = [c \in Components |-> "unknown"]
    /\ event' = NoEvent /\ poller' = "polling" /\ ctx' = "live" /\ collError' = FALSE
    /\ UNCHANGED <<latest, flux, opt, directory, told, result, changes, runs>>

DryRun ==
    /\ pc = "applying" /\ opt.dryRun
    /\ Return("ok")
    /\ UNCHANGED <<env, wait, beenReady, changes, runs>>

-----------------------------------------------------------------------------
(* Wait *)

Waiting == pc = "waiting"
AllCurrent(status) == \A c \in Components : status[c] = "current"

\* The poller sends what has changed, and sends no more once it sees that the
\* context is done.
Poll(c) ==
    /\ Waiting /\ poller = "polling" /\ event = NoEvent
    /\ seen[c] # deployed[opt.waited][c]
    /\ event' = [component |-> c, status |-> deployed[opt.waited][c]]
    /\ UNCHANGED <<env, pc, opt, directory, told, seen, poller, ctx, collError, result, beenReady,
                   changes, runs>>

PollFails ==
    /\ Waiting /\ poller = "polling" /\ event = NoEvent
    /\ event' = ErrorEvent /\ poller' = "stopped"
    /\ UNCHANGED <<env, pc, opt, directory, told, seen, ctx, collError, result, beenReady,
                   changes, runs>>

PollerStops ==
    /\ Waiting /\ poller = "polling" /\ event = NoEvent /\ ctx # "live"
    /\ poller' = "stopped"
    /\ UNCHANGED <<env, pc, opt, directory, told, seen, event, ctx, collError, result, beenReady,
                   changes, runs>>

\* Slip: ready as soon as no deployment is known not to be.
NotifyOptimist(status) ==
    ctx' = IF ctx = "live" /\ \A c \in Components : status[c] \in {"current", "unknown"}
           THEN "cancelled" ELSE ctx

\* desiredStatusNotifierFunc, called with the statuses after each event.
Notify(status) ==
    ctx' = IF ctx = "live" /\ AllCurrent(status) THEN "cancelled" ELSE ctx

Listen ==
    /\ Waiting /\ event \notin {NoEvent, ErrorEvent}
    /\ seen' = [seen EXCEPT ![event.component] = event.status]
    /\ Notify(seen')
    /\ event' = NoEvent
    /\ UNCHANGED <<env, pc, opt, directory, told, poller, collError, result, beenReady,
                   changes, runs>>

ListenError ==
    /\ Waiting /\ event = ErrorEvent
    /\ collError' = TRUE /\ event' = NoEvent
    /\ UNCHANGED <<env, pc, opt, directory, told, seen, poller, ctx, result, beenReady,
                   changes, runs>>

\* Slip: a context without a deadline.
NoDeadline == FALSE /\ UNCHANGED vars

Deadline ==
    /\ Waiting /\ ctx = "live"
    /\ ctx' = "deadline"
    /\ UNCHANGED <<env, pc, opt, directory, told, seen, event, poller, collError, result, beenReady,
                   changes, runs>>

\* Slip: Wait returns when the context is done, not when the listener is.
WaitReturnsAtOnce ==
    /\ Waiting /\ (ctx # "live" \/ collError)
    /\ Return(IF collError \/ ctx = "deadline" THEN "error" ELSE "ok")
    /\ UNCHANGED <<env, wait, beenReady, changes, runs>>

\* The channel is closed and empty: Wait returns, and Install with it.
WaitReturns ==
    /\ Waiting /\ poller = "stopped" /\ event = NoEvent
    /\ Return(IF collError \/ ctx = "deadline" THEN "error" ELSE "ok")
    /\ UNCHANGED <<env, wait, beenReady, changes, runs>>

Step ==
    \/ PreFlightCheck \/ Fetch \/ Apply \/ DryRun \/ Fails
    \/ (\E c \in Components : Poll(c)) \/ PollFails \/ PollerStops
    \/ Listen \/ ListenError \/ Deadline \/ WaitReturns

Next == Step \/ Kill \/ EnvironmentChanges \/ \E o \in Requests : NewInstaller(o)

Spec == Init /\ [][Next]_vars

\* Commands and requests end, the goroutines run, and time passes.
FairSpec ==
    /\ Spec
    /\ WF_vars(PreFlightCheck \/ Fetch \/ Apply \/ DryRun \/ Fails)
    /\ WF_vars(PollerStops) /\ WF_vars(Listen \/ ListenError)
    /\ WF_vars(Deadline) /\ WF_vars(WaitReturns)
-----------------------------------------------------------------------------
(* Properties *)

\* Every variable holds a value of its kind, and the goroutines of Wait are gone
\* when Install has returned.
TypeOK ==
    /\ latest \in Versions /\ flux \subseteq Clusters
    /\ applied \in [Clusters -> Versions \cup {NoVersion}]
    /\ deployed \in [Clusters -> [Components -> Statuses]]
    /\ pc \in {"idle", "checking", "fetching", "applying", "waiting"}
    /\ opt \in Requests \cup {NoRequest}
    /\ directory \in [Places -> Versions \cup {NoVersion, NoDirectory}] /\ told \in BOOLEAN
    /\ seen \in [Components -> Statuses \cup {"unknown"}]
    /\ event \in [component: Components, status: Statuses] \cup {NoEvent, ErrorEvent}
    /\ poller \in {"polling", "stopped"}
    /\ poller = "polling" \/ event # NoEvent => pc = "waiting"
    /\ ctx \in {"none", "live", "cancelled", "deadline"} /\ collError \in BOOLEAN
    /\ result \in {"none", "ok", "error", "killed"}
    /\ beenReady \subseteq Components

\* waiter.go:51-82.  An install that succeeds has put the version it was asked
\* for into the cluster, and each deployment has been ready there since, however
\* the deadline, the poller and the deployments raced.  (With --context the
\* waiter polls another cluster than the one that was applied to.)
SuccessMeansReady ==
    (pc = "idle" /\ result = "ok" /\ ~opt.dryRun /\ opt.waited = opt.target) =>
        /\ beenReady = Components
        /\ opt.version # NoVersion /\ opt.prefixed => applied[opt.target] = opt.version

\* install.go:79-122.  Whichever step fails, and whether the directory is one of
\* --out with an earlier manifest in it or none at all: when Install returns, the
\* directory is gone or the owner was told to remove it; with --keep, what a
\* successful install leaves in it is what it applied.
CleanedUp ==
    pc = "idle" /\ result \in {"ok", "error"} =>
        IF opt.keep
        THEN result = "ok" => /\ directory[Place] \in Versions
                              /\ opt.dryRun \/ applied[opt.target] = directory[Place]
        ELSE directory[Place] = NoDirectory \/ told

\* waiter.go:56-65.  An install ends, ready or not.
Terminates == pc # "idle" ~> pc = "idle"

=============================================================================
