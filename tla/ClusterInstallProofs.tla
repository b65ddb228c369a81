------------------------ MODULE ClusterInstallProofs ------------------------
(***************************************************************************)
(* However the deadline, the poller, the listener and the cluster race: no *)
(* goroutine outlives Wait, and an install that succeeds has put the       *)
(* version it was asked for into the cluster, where every deployment has   *)
(* been ready since.                                                       *)
(***************************************************************************)
EXTENDS ClusterInstall, TLAPS

Events == [component: Components, status: Statuses]

\* A run has a request, and applies a manifest that was downloaded.
TypeInv ==
    /\ TypeOK
    /\ pc # "idle" => opt \in Requests
    /\ pc \in {"applying", "waiting"} => directory[Place] \in Versions

\* The version asked for is the one downloaded, and then the one applied.
Explicit == opt.version # NoVersion /\ opt.prefixed
AppliedAsFetched ==
    /\ pc = "applying" /\ Explicit => directory[Place] = opt.version
    /\ pc = "waiting" => ~opt.dryRun
    /\ pc = "waiting" /\ Explicit => applied[opt.target] = opt.version

\* The deployments that are ready in the target are among those that were.
ReadyIsRecorded ==
    pc = "waiting" =>
        \A c \in Components : deployed[opt.target][c] = "current" => c \in beenReady

\* What the poller sends, and the listener keeps, has been true.
Faithful == pc = "waiting" /\ opt.waited = opt.target
StatusesAreTrue ==
    Faithful =>
        /\ \A c \in Components : seen[c] = "current" => c \in beenReady
        /\ event \in Events /\ event.status = "current" => event.component \in beenReady

\* The observer cancels the context when every deployment has been ready.
CancelledWhenReady == Faithful /\ ctx = "cancelled" => beenReady = Components

\* The poller stops for a reason that Wait gets to see.
StoppedForAReason ==
    pc = "waiting" =>
        /\ ctx # "none"
        /\ poller = "stopped" => ctx # "live" \/ collError \/ event = ErrorEvent

Inv ==
    /\ TypeInv /\ AppliedAsFetched /\ ReadyIsRecorded /\ StatusesAreTrue
    /\ CancelledWhenReady /\ StoppedForAReason /\ SuccessMeansReady

USE ClusterInstallAssumption

LEMMA RequestFacts ==
    \A o \in Requests :
        /\ o.version \in Versions \cup {NoVersion}
        /\ o.waited \in Clusters /\ o.target \in Clusters
        /\ o.keep \in BOOLEAN /\ o.dryRun \in BOOLEAN
  BY DEF Flags

\* Whatever is put into the directory of a run, the other one is left alone.
LEMMA HoldingType ==
    ASSUME TypeOK, NEW d \in Versions \cup {NoVersion, NoDirectory}
    PROVE  /\ Holding(d) \in [Places -> Versions \cup {NoVersion, NoDirectory}]
           /\ Holding(d)[Place] = d
  BY DEF TypeOK, Holding, Place, Places

LEMMA PlaceContents ==
    ASSUME TypeOK
    PROVE  /\ directory[Place] \in Versions \cup {NoVersion, NoDirectory}
           /\ CutShort \subseteq Versions \cup {NoVersion, NoDirectory}
           /\ Downloaded \subseteq Versions \cup {NoVersion, NoDirectory}
  BY DEF TypeOK, CutShort, Downloaded, Place, Places

LEMMA InitInv ==
    ASSUME Init
    PROVE  Inv
<1>1. TypeInv
  BY DEF Init, TypeInv, TypeOK, Statuses
<1>2. QED
  BY <1>1 DEF Init, Inv, AppliedAsFetched, ReadyIsRecorded, StatusesAreTrue, Faithful,
              CancelledWhenReady, StoppedForAReason, SuccessMeansReady

-----------------------------------------------------------------------------
(* Types *)

LEMMA PartType ==
    ASSUME TypeInv, AppliedInPart
    PROVE  /\ latest' \in Versions /\ flux' \subseteq Clusters
           /\ applied' \in [Clusters -> Versions \cup {NoVersion}]
           /\ deployed' \in [Clusters -> [Components -> Statuses]]
<1>1. CASE UNCHANGED env
  BY <1>1 DEF TypeInv, TypeOK, env
<1>2. CASE pc = "applying" /\ ~UNCHANGED env
  <2>1. opt.target \in Clusters
    BY <1>2, RequestFacts DEF TypeInv
  <2>2. Restarted \in [Components -> Statuses]
    BY DEF Restarted, Statuses
  <2>3. /\ latest \in Versions /\ flux \subseteq Clusters
        /\ applied \in [Clusters -> Versions \cup {NoVersion}]
        /\ deployed \in [Clusters -> [Components -> Statuses]]
    BY DEF TypeInv, TypeOK
  <2>4. QED
    BY <1>2, <2>1, <2>2, <2>3 DEF AppliedInPart
<1>3. QED
  BY <1>1, <1>2 DEF AppliedInPart

LEMMA ReturnType ==
    ASSUME TypeOK, NEW r, Return(r)
    PROVE  /\ directory' \in [Places -> Versions \cup {NoVersion, NoDirectory}]
           /\ told' \in BOOLEAN
<1>1. told' \in BOOLEAN
  BY DEF Return, TypeOK
<1>2. \E d \in Versions \cup {NoVersion, NoDirectory} : directory' = Holding(d)
  BY PlaceContents DEF Return
<1> QED BY <1>1, <1>2, HoldingType

LEMMA NextType ==
    ASSUME TypeInv, [Next]_vars
    PROVE  TypeInv'
<1> USE DEF TypeInv, TypeOK
<1>0. opt' = opt => Place' = Place
  BY DEF Place
<1>1. ASSUME NEW o \in Requests, NewInstaller(o) PROVE TypeInv'
  BY <1>0, <1>1 DEF NewInstaller, Places, env, wait
<1>2. CASE PreFlightCheck
  BY <1>0, <1>2 DEF PreFlightCheck, Place, env, wait
<1>3. CASE Fetch
  <2>1. Requested \in Versions
    BY <1>0, <1>3, RequestFacts DEF Fetch, Requested
  <2>2. /\ directory' \in [Places -> Versions \cup {NoVersion, NoDirectory}]
        /\ directory'[Place'] \in Versions
    <3>1. opt' = opt /\ directory' = Holding(Requested)
      BY <1>3 DEF Fetch
    <3> QED BY <2>1, <3>1, HoldingType DEF Place
  <2>3. QED
    BY <1>0, <1>3, <2>2 DEF Fetch, env, wait
<1>4. CASE Apply
  <2>1. opt \in Requests /\ opt.target \in Clusters /\ directory[Place] \in Versions
    BY <1>0, <1>4, RequestFacts DEF Apply
  <2>2. Restarted \in [Components -> Statuses]
    BY DEF Restarted, Statuses
  <2>3. applied' \in [Clusters -> Versions \cup {NoVersion}]
    BY <1>0, <1>4, <2>1 DEF Apply
  <2>4. deployed' \in [Clusters -> [Components -> Statuses]]
    BY <1>0, <1>4, <2>1, <2>2 DEF Apply
  <2>5. QED
    BY <1>0, <1>4, <2>1, <2>3, <2>4 DEF Apply
<1>5. CASE DryRun
  BY <1>5, ReturnType DEF DryRun, Return, env, wait
<1>6. CASE Fails
  <2>1. latest' \in Versions /\ flux' \subseteq Clusters
        /\ applied' \in [Clusters -> Versions \cup {NoVersion}]
        /\ deployed' \in [Clusters -> [Components -> Statuses]]
    BY <1>0, <1>6, PartType DEF Fails
  <2>2. QED
    BY <1>0, <1>6, <2>1, ReturnType DEF Fails, Return, wait
<1>7. CASE Kill
  <2>1. latest' \in Versions /\ flux' \subseteq Clusters
        /\ applied' \in [Clusters -> Versions \cup {NoVersion}]
        /\ deployed' \in [Clusters -> [Components -> Statuses]]
    BY <1>0, <1>7, PartType DEF Kill
  <2>2. directory' \in [Places -> Versions \cup {NoVersion, NoDirectory}]
    <3>1. \E d \in Versions \cup {NoVersion, NoDirectory} : directory' = Holding(d)
      BY <1>7, PlaceContents DEF Kill
    <3> QED BY <3>1, HoldingType
  <2>3. QED
    BY <1>0, <1>7, <2>1, <2>2 DEF Kill
<1>8. ASSUME NEW c \in Components, Poll(c) PROVE TypeInv'
  <2>1. opt.waited \in Clusters
    BY <1>0, <1>8, RequestFacts DEF Poll, Waiting
  <2>2. event' \in Events
    BY <1>0, <1>8, <2>1 DEF Poll, Events
  <2>3. QED
    BY <1>0, <1>8, <2>2 DEF Poll, Events, env, Waiting
<1>9. CASE PollFails \/ PollerStops \/ ListenError \/ Deadline
  BY <1>0, <1>9 DEF PollFails, PollerStops, ListenError, Deadline, env, Waiting
<1>10. CASE Listen
  <2>1. event \in Events
    BY <1>10 DEF Listen, Events
  <2>2. seen' \in [Components -> Statuses \cup {"unknown"}]
    BY <1>0, <1>10, <2>1 DEF Listen, Events
  <2>3. ctx' \in {"none", "live", "cancelled", "deadline"}
    BY <1>10 DEF Listen, Notify
  <2>4. QED
    BY <1>0, <1>10, <2>2, <2>3 DEF Listen, env, Waiting
<1>11. CASE WaitReturns
  BY <1>11, ReturnType DEF WaitReturns, Return, env, wait
<1>12. CASE EnvironmentChanges
  <2>1. ASSUME NEW k \in Clusters, NEW c \in Components, DeploymentChanges(k, c)
        PROVE  /\ deployed' \in [Clusters -> [Components -> Statuses]]
               /\ beenReady' \subseteq Components
    BY <2>1 DEF DeploymentChanges, Statuses
  <2>2. /\ deployed' \in [Clusters -> [Components -> Statuses]]
        /\ beenReady' \subseteq Components
    BY <1>12, <2>1 DEF EnvironmentChanges
  <2>3. /\ latest' \in Versions /\ flux' \subseteq Clusters /\ applied' = applied
        /\ UNCHANGED <<pc, opt, directory, told, wait, result>>
    BY <1>12 DEF EnvironmentChanges, DeploymentChanges
  <2>4. QED
    BY <1>0, <2>2, <2>3 DEF wait
<1>13. CASE UNCHANGED vars
  BY <1>0, <1>13 DEF vars, env, wait
<1>14. QED
  BY <1>1, <1>2, <1>3, <1>4, <1>5, <1>6, <1>7, <1>8, <1>9, <1>10, <1>11, <1>12, <1>13
     DEF Next, Step

\* Every variable keeps its type, and the poller is gone and the channel empty
\* whenever Install has returned (waiter.go:65).
THEOREM TypeCorrect == Spec => []TypeOK
<1>1. Init => TypeInv
  BY InitInv DEF Inv
<1>2. TypeInv /\ [Next]_vars => TypeInv'
  BY NextType
<1>3. TypeInv => TypeOK
  BY DEF TypeInv
<1>4. QED
  BY <1>1, <1>2, <1>3, PTL DEF Spec
-----------------------------------------------------------------------------
(* Success means ready *)

\* The steps of a run that is not waiting, before and after.
LEMMA BeforeWaiting ==
    ASSUME Inv, TypeInv',
           (\E o \in Requests : NewInstaller(o)) \/ PreFlightCheck \/ Fetch \/ DryRun \/ Fails
    PROVE  Inv'
<1>1. pc' # "waiting"
  BY DEF NewInstaller, PreFlightCheck, Fetch, DryRun, Fails, Return
<1>2. AppliedAsFetched'
  <2>1. CASE Fetch
    <3>1. opt' = opt /\ directory' = Holding(Requested) /\ Place' = Place
      BY <2>1 DEF Fetch, Place
    <3>2. Requested \in Versions /\ TypeOK
      BY <2>1, RequestFacts DEF Fetch, Requested, Inv, TypeInv, TypeOK
    <3>3. directory'[Place'] = Requested
      BY <3>1, <3>2, HoldingType
    <3> QED BY <1>1, <3>1, <3>3 DEF Requested, AppliedAsFetched, Explicit
  <2>2. CASE ~Fetch
    BY <2>2, <1>1 DEF NewInstaller, PreFlightCheck, DryRun, Fails, Return, AppliedAsFetched
  <2>3. QED
    BY <2>1, <2>2
<1>3. SuccessMeansReady'
  BY DEF NewInstaller, PreFlightCheck, Fetch, DryRun, Fails, Return, SuccessMeansReady
<1>4. QED
  BY <1>1, <1>2, <1>3 DEF Inv, ReadyIsRecorded, StatusesAreTrue, Faithful, CancelledWhenReady,
                          StoppedForAReason

LEMMA KillInv ==
    ASSUME Inv, TypeInv', Kill
    PROVE  Inv'
  BY DEF Kill, Inv, AppliedAsFetched, ReadyIsRecorded, StatusesAreTrue, Faithful,
         CancelledWhenReady, StoppedForAReason, SuccessMeansReady

LEMMA ApplyInv ==
    ASSUME Inv, TypeInv', Apply
    PROVE  Inv'
<1>1. /\ opt \in Requests /\ opt.target \in Clusters /\ opt' = opt
      /\ pc = "applying" /\ pc' = "waiting"
      /\ applied \in [Clusters -> Versions \cup {NoVersion}]
  BY RequestFacts DEF Apply, Inv, TypeInv, TypeOK
<1>2. AppliedAsFetched'
  BY <1>1 DEF Apply, Inv, AppliedAsFetched, Explicit
<1>3. ReadyIsRecorded'
  BY <1>1 DEF Apply, ReadyIsRecorded
<1>4. StatusesAreTrue' /\ CancelledWhenReady' /\ StoppedForAReason'
  BY <1>1 DEF Apply, StatusesAreTrue, CancelledWhenReady, StoppedForAReason, Events
<1>5. SuccessMeansReady'
  BY <1>1 DEF SuccessMeansReady
<1>6. QED
  BY <1>2, <1>3, <1>4, <1>5 DEF Inv

\* The poller sends the status of the cluster it polls: the one applied to, in a
\* faithful run.
LEMMA PollInv ==
    ASSUME Inv, TypeInv', NEW c \in Components, Poll(c)
    PROVE  Inv'
<1>1. pc = "waiting" /\ pc' = pc /\ opt' = opt /\ beenReady' = beenReady
  BY DEF Poll, Waiting
<1>2. StatusesAreTrue'
  <2>1. Faithful => (deployed[opt.waited][c] = "current" => c \in beenReady)
    BY DEF Inv, ReadyIsRecorded, Faithful
  <2>2. event'.component = c /\ event'.status = deployed[opt.waited][c]
    BY DEF Poll
  <2>3. QED
    BY <1>1, <2>1, <2>2 DEF Poll, Inv, StatusesAreTrue, Faithful
<1>3. QED
  BY <1>1, <1>2 DEF Poll, env, Inv, AppliedAsFetched, Explicit, ReadyIsRecorded, Faithful,
                    CancelledWhenReady, StoppedForAReason, SuccessMeansReady

LEMMA ListenInv ==
    ASSUME Inv, TypeInv', Listen
    PROVE  Inv'
<1>1. /\ pc = "waiting" /\ pc' = pc /\ opt' = opt /\ beenReady' = beenReady
      /\ event \in Events /\ event' = NoEvent
      /\ seen \in [Components -> Statuses \cup {"unknown"}]
      /\ beenReady \subseteq Components
  BY DEF Listen, Waiting, Inv, TypeInv, TypeOK, Events
<1>2. Faithful => \A c \in Components : seen'[c] = "current" => c \in beenReady
  BY <1>1 DEF Listen, Inv, StatusesAreTrue, Events
<1>3. StatusesAreTrue'
  BY <1>1, <1>2 DEF StatusesAreTrue, Faithful, Events
<1>4. CancelledWhenReady'
  BY <1>1, <1>2 DEF Listen, Notify, AllCurrent, Inv, CancelledWhenReady, Faithful
<1>5. StoppedForAReason'
  BY <1>1 DEF Listen, Notify, Inv, StoppedForAReason
<1>6. QED
  BY <1>1, <1>3, <1>4, <1>5 DEF Listen, env, Inv, AppliedAsFetched, Explicit, ReadyIsRecorded,
                                SuccessMeansReady

LEMMA OtherGoroutines ==
    ASSUME Inv, TypeInv', PollFails \/ PollerStops \/ ListenError \/ Deadline
    PROVE  Inv'
<1>1. pc = "waiting" /\ UNCHANGED <<env, pc, opt, directory, told, seen, beenReady>>
  BY DEF PollFails, PollerStops, ListenError, Deadline, Waiting
<1>2. StatusesAreTrue'
  BY <1>1 DEF PollFails, PollerStops, ListenError, Deadline, Inv, StatusesAreTrue, Faithful, Events
<1>3. CancelledWhenReady'
  BY <1>1 DEF PollFails, PollerStops, ListenError, Deadline, Inv, CancelledWhenReady, Faithful
<1>4. StoppedForAReason'
  BY <1>1 DEF PollFails, PollerStops, ListenError, Deadline, Inv, StoppedForAReason
<1>5. QED
  BY <1>1, <1>2, <1>3, <1>4 DEF env, Inv, AppliedAsFetched, Explicit, ReadyIsRecorded,
                                SuccessMeansReady

\* Wait succeeds only when the context was cancelled by the observer.
LEMMA WaitReturnsInv ==
    ASSUME Inv, TypeInv', WaitReturns
    PROVE  Inv'
<1>1. /\ pc = "waiting" /\ pc' = "idle" /\ opt' = opt
      /\ UNCHANGED <<env, wait, beenReady>>
      /\ poller = "stopped" /\ event # ErrorEvent
  BY DEF WaitReturns, Return, Waiting
<1>2. SuccessMeansReady'
  <2>1. result' = "ok" => ctx = "cancelled"
    BY <1>1 DEF WaitReturns, Return, Inv, TypeInv, TypeOK, StoppedForAReason
  <2>2. result' = "ok" /\ Faithful => beenReady = Components
    BY <2>1 DEF Inv, CancelledWhenReady
  <2>3. Explicit => applied[opt.target] = opt.version
    BY <1>1 DEF Inv, AppliedAsFetched
  <2>4. QED
    BY <1>1, <2>2, <2>3 DEF SuccessMeansReady, Faithful, Explicit, env
<1>3. QED
  BY <1>1, <1>2 DEF Inv, AppliedAsFetched, ReadyIsRecorded, StatusesAreTrue, Faithful,
                    CancelledWhenReady, StoppedForAReason

LEMMA EnvironmentInv ==
    ASSUME Inv, TypeInv', EnvironmentChanges
    PROVE  Inv'
<1>1. UNCHANGED <<pc, opt, directory, told, wait, result, applied>>
  BY DEF EnvironmentChanges, DeploymentChanges
<1>2. pc = "waiting" => opt.target \in Clusters
  BY RequestFacts DEF Inv, TypeInv
<1>3. ReadyIsRecorded'
  <2>1. ASSUME NEW k \in Clusters, NEW c \in Components, DeploymentChanges(k, c),
               pc = "waiting", NEW d \in Components, deployed'[opt.target][d] = "current"
        PROVE  d \in beenReady'
    <3>1. CASE k = opt.target /\ d = c
      BY <2>1, <3>1 DEF DeploymentChanges
    <3>2. CASE ~(k = opt.target /\ d = c)
      <4>1. deployed[opt.target][d] = "current"
        BY <2>1, <3>2, <1>2 DEF DeploymentChanges, Inv, TypeInv, TypeOK
      <4>2. QED
        BY <2>1, <4>1 DEF DeploymentChanges, Inv, ReadyIsRecorded
    <3>3. QED
      BY <3>1, <3>2
  <2>2. QED
    BY <1>1, <2>1 DEF EnvironmentChanges, Inv, ReadyIsRecorded
<1>4. /\ beenReady \subseteq beenReady' /\ beenReady' \subseteq Components
      /\ pc = "idle" => beenReady' = beenReady
  BY DEF EnvironmentChanges, DeploymentChanges, TypeInv, TypeOK
<1>5. StatusesAreTrue' /\ CancelledWhenReady'
  BY <1>1, <1>4 DEF wait, Inv, StatusesAreTrue, CancelledWhenReady, Faithful
<1>6. SuccessMeansReady'
  BY <1>1, <1>4 DEF Inv, SuccessMeansReady
<1>7. QED
  BY <1>1, <1>3, <1>5, <1>6 DEF wait, Inv, AppliedAsFetched, Explicit, Place, StoppedForAReason

LEMMA UnchangedInv ==
    ASSUME Inv, TypeInv', UNCHANGED vars
    PROVE  Inv'
  BY DEF vars, env, wait, Inv, AppliedAsFetched, Explicit, Place, ReadyIsRecorded, StatusesAreTrue,
         Faithful, CancelledWhenReady, StoppedForAReason, SuccessMeansReady

LEMMA NextInv ==
    ASSUME Inv, [Next]_vars
    PROVE  Inv'
<1>1. TypeInv'
  BY NextType DEF Inv
<1>2. QED
  BY <1>1, BeforeWaiting, KillInv, ApplyInv, PollInv, ListenInv, OtherGoroutines,
     WaitReturnsInv, EnvironmentInv, UnchangedInv DEF Next, Step

\* An install that succeeds has put the version it was asked for into the cluster,
\* and each deployment has been ready there since (waiter.go:51-82).
THEOREM ReadyOnSuccess == Spec => []SuccessMeansReady
<1>1. Init => Inv
  BY InitInv
<1>2. Inv /\ [Next]_vars => Inv'
  BY NextInv
<1>3. Inv => SuccessMeansReady
  BY DEF Inv
<1>4. QED
  BY <1>1, <1>2, <1>3, PTL DEF Spec
-----------------------------------------------------------------------------
(* The directory *)

\* While a run waits, its directory holds what it applied.
Directory ==
    /\ pc = "waiting" => applied[opt.target] = directory[Place]
    /\ CleanedUp

\* A run that is kept leaves the manifest alone once it is downloaded; one that is
\* not leaves the directory only with a word to the owner.
LEMMA ReturnDirectory ==
    ASSUME TypeInv, pc # "idle", NEW r, Return(r)
    PROVE  /\ opt' = opt /\ pc' = "idle" /\ result' = r /\ Place' = Place
           /\ ~opt.keep => directory'[Place] = NoDirectory \/ told'
           /\ opt.keep /\ pc # "fetching" => directory'[Place] = directory[Place]
<1>1. opt' = opt /\ pc' = "idle" /\ result' = r /\ Place' = Place
  BY DEF Return, Place
<1>2. ~opt.keep => directory'[Place] = NoDirectory \/ told'
  BY HoldingType DEF Return, TypeInv
<1>3. ASSUME opt.keep, pc # "fetching" PROVE directory'[Place] = directory[Place]
  <2>1. directory' = Holding(directory[Place])
    BY <1>3 DEF Return, Downloaded
  <2> QED BY <2>1, HoldingType, PlaceContents DEF TypeInv
<1> QED BY <1>1, <1>2, <1>3

LEMMA NextDirectory ==
    ASSUME TypeInv, TypeInv', Directory, [Next]_vars
    PROVE  Directory'
<1>1. ASSUME UNCHANGED <<opt, directory, told, applied>>, pc # "idle", pc' \notin {"idle", "waiting"}
      PROVE  Directory'
  BY <1>1 DEF Directory, CleanedUp
<1>2. ASSUME UNCHANGED <<pc, opt, directory, told, applied, result>> PROVE Directory'
  BY <1>2 DEF Directory, CleanedUp, Place
<1>3. ASSUME NEW o \in Requests, NewInstaller(o) PROVE Directory'
  BY <1>3 DEF NewInstaller, Directory, CleanedUp
<1>4. CASE PreFlightCheck
  BY <1>1, <1>4 DEF PreFlightCheck, env
<1>5. CASE Fetch
  BY <1>5 DEF Fetch, Directory, CleanedUp
<1>6. CASE Apply
  <2>1. opt.target \in Clusters /\ opt' = opt /\ directory' = directory /\ pc' = "waiting"
    BY <1>6, RequestFacts DEF Apply, TypeInv
  <2>2. applied'[opt.target] = directory[Place]
    BY <1>6, <2>1 DEF Apply, TypeInv, TypeOK
  <2> QED BY <2>1, <2>2 DEF Directory, CleanedUp, Place
<1>7. CASE Fails
  <2>1. Return("error") /\ pc # "idle"
    BY <1>7 DEF Fails
  <2> QED BY <2>1, ReturnDirectory DEF Directory, CleanedUp
<1>8. CASE DryRun
  <2>1. /\ Return("ok") /\ pc = "applying" /\ opt.dryRun
        /\ directory[Place] \in Versions
    BY <1>8 DEF DryRun, TypeInv
  <2> QED BY <2>1, ReturnDirectory DEF Directory, CleanedUp
<1>9. CASE WaitReturns
  <2>1. /\ (\E r : Return(r)) /\ pc = "waiting" /\ applied' = applied
        /\ opt \in Requests /\ opt.target \in Clusters
    BY <1>9, RequestFacts DEF WaitReturns, Waiting, env, TypeInv
  <2>2. applied[opt.target] = directory[Place]
    BY <2>1 DEF Directory
  <2>3. directory[Place] \in Versions
    BY <2>1, <2>2 DEF TypeInv
  <2> QED BY <2>1, <2>2, <2>3, ReturnDirectory DEF Directory, CleanedUp
<1>10. CASE Kill
  BY <1>10 DEF Kill, Directory, CleanedUp
<1>11. CASE PollFails \/ PollerStops \/ Listen \/ ListenError \/ Deadline
  BY <1>2, <1>11 DEF PollFails, PollerStops, Listen, ListenError, Deadline, env
<1>12. CASE EnvironmentChanges
  BY <1>2, <1>12 DEF EnvironmentChanges, DeploymentChanges
<1>13. ASSUME NEW c \in Components, Poll(c) PROVE Directory'
  BY <1>2, <1>13 DEF Poll, env
<1>14. CASE UNCHANGED vars
  BY <1>2, <1>14 DEF vars, env
<1> QED BY <1>3, <1>4, <1>5, <1>6, <1>7, <1>8, <1>9, <1>10, <1>11, <1>12, <1>13, <1>14
        DEF Next, Step

\* install.go:79-122.  For all requests, whatever an earlier run left in the
\* directory of --out and whether there is one: when Install returns without
\* --keep, the directory is gone or the owner was told to remove it; with --keep,
\* what a successful install leaves in it is what it applied.
THEOREM DirectoryAccounted == Spec => []CleanedUp
<1>1. Init => Inv /\ Directory
  BY InitInv DEF Init, Directory, CleanedUp
<1>2. Inv /\ Directory /\ [Next]_vars => Inv' /\ Directory'
  BY NextInv, NextDirectory DEF Inv
<1>3. Directory => CleanedUp
  BY DEF Directory
<1> QED BY <1>1, <1>2, <1>3, PTL DEF Spec
=============================================================================
