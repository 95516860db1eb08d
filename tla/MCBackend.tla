------------------------------ MODULE MCBackend ------------------------------
(***************************************************************************)
(* FluxCache, Releases and FluxCharts for TLC.  kubeops and the two halves *)
(* of the Flux plugin share no state, so that each is explored with the    *)
(* others at rest: BackendInit chooses which.                              *)
(***************************************************************************)
EXTENDS FluxCache

CONSTANTS
    Names, ReleaseRequests, User, MaxRevisions,   \* Releases
    Packages, ChartRequests, MaxCharts, MaxSyncs  \* FluxCharts

ASSUME ReleaseConstants == User \notin ReleaseRequests /\ MaxRevisions \in Nat

VARIABLES
    part,
    store, releaseRequests,
    charts, chartRequests, syncs

releaseVars == <<store, releaseRequests>>
cacheVars == <<repos, index, redis, watcher, events, tasks, raced, lost, changes>>
chartVars == <<charts, chartRequests, syncs>>
backendVars == <<part, releaseVars, cacheVars, chartVars, faults>>

Helm == INSTANCE Releases WITH Requests <- ReleaseRequests, requests <- releaseRequests
Details == INSTANCE FluxCharts WITH Requests <- ChartRequests, requests <- chartRequests

ReleasesAtRest ==
    /\ store = [n \in Names |-> << >>]
    /\ releaseRequests = [r \in ReleaseRequests |-> Helm!Idle]
DetailsAtRest ==
    /\ charts = [c \in Details!Charts |-> None]
    /\ chartRequests = [r \in ChartRequests |-> Details!Idle]
    /\ syncs = 0

BackendInit ==
    /\ Init
    /\ \/ part = "releases" /\ Helm!Init /\ DetailsAtRest
       \/ part = "cache" /\ ReleasesAtRest /\ DetailsAtRest
       \/ part = "details" /\ ReleasesAtRest /\ Details!Init

BackendNext ==
    \/ part = "releases" /\ Helm!Next /\ UNCHANGED <<part, cacheVars, chartVars>>
    \/ part = "cache" /\ Next /\ UNCHANGED <<part, releaseVars, chartVars>>
    \/ part = "details" /\ Details!Next /\ UNCHANGED <<part, releaseVars, cacheVars>>

FairSpec == BackendInit /\ [][BackendNext]_backendVars /\ Details!Fairness

(* See Releases: a creation that failed leaves no revision of its own.     *)
FailedCreateLeavesNothing == Helm!FailedCreateLeavesNothing

(* See FluxCharts: every request for a package's details is answered.      *)
PullAnswered == Details!PullAnswered

=============================================================================
