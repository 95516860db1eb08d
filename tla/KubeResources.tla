---------------------------- MODULE KubeResources ----------------------------
(***************************************************************************)
(* The dashboard's view of Kubernetes resources: the kube slice of the     *)
(* Redux store (items, sockets, timers), the thunks that fetch and watch,  *)
(* and the effects of the release page (AppView) that start and stop them. *)
(*                                                                         *)
(* A resource is reduced to its versions, some of which are deletions.  A  *)
(* thunk or an event handler runs to its next await in one step, with the  *)
(* reducers it dispatches to and the effects React runs for it; requests,  *)
(* sockets and the cluster are asynchronous.                               *)
(***************************************************************************)
EXTENDS Naturals, Sequences, FiniteSets

LOCAL INSTANCE Functions

CONSTANTS
    Keys,        \* resource URLs that manifests lead to
    Ingresses,   \* those that AccessURLTable fetches as well
    Workloads,   \* Deployments, StatefulSets and DaemonSets
    Pods,        \* pods of a workload at a version: ready, and wanted
    Manifests,   \* what setResourceRefs may be given: sets of keys
    Nothing,     \* no entry in items
    Loading,     \* {isFetching: true}
    Failed,      \* {isFetching: false, error}
    MaxVersion,  \* bound: versions of a resource
    MaxGets,     \* bound: requests on their way
    MaxChanges,  \* bound: changes of the cluster, over all resources
    MaxKubeFaults  \* bound: requests and sockets that fail

ASSUME KubeConstants ==
    /\ Ingresses \subseteq Keys /\ Workloads \subseteq Keys \ Ingresses
    /\ Manifests \subseteq SUBSET Keys
    /\ MaxVersion \in Nat \ {0} /\ MaxGets \in Nat \ {0}
    /\ MaxChanges \in Nat /\ MaxKubeFaults \in Nat
    /\ Nothing \notin Nat /\ Loading \notin Nat /\ Failed \notin Nat
    /\ Nothing # Loading /\ Nothing # Failed /\ Loading # Failed

ASSUME PodsAssumption ==
    Pods \in [Workloads -> [1..MaxVersion -> [ready : Nat, wanted : Nat]]]

VARIABLES
    ver,        \* [Keys -> version now in the cluster]
    deletedAt,  \* [Keys -> versions that are deletions]
    refs,       \* resourceRefs of the mounted AppView, {} when there is none
    shown,      \* apps.selected is there: AppView renders its children
    items,      \* kube.items
    sockets,    \* kube.sockets, with the state of the WebSocket
    events,     \* watch events sent and not yet delivered
    timers,     \* kube.timers
    gets,       \* requests on their way, by key and by the version then current
    overtaken,  \* observer: keys whose newer item an older answer replaced
    blanked,    \* observer: keys whose item was cleared while they are watched
    unseen,     \* observer: keys whose watch began after their deletion
    kubeFaults  \* requests and sockets failed so far

clusterVars == <<ver, deletedAt>>
observers == <<overtaken, blanked, unseen>>
kubeVars == <<clusterVars, refs, shown, items, sockets, events, timers, gets, observers, kubeFaults>>

Versions == 1..MaxVersion
Total(f) == FoldFunction(LAMBDA a, b : a + b, 0, f)
SocketStates == {"none", "connecting", "open", "failed", "closed"}

(* kube.ts initialState, in a page that was just loaded. *)
KubeInit ==
    /\ ver = [k \in Keys |-> 1]
    /\ deletedAt = [k \in Keys |-> {}]
    /\ refs = {}
    /\ shown = FALSE
    /\ items = [k \in Keys |-> Nothing]
    /\ sockets = [k \in Keys |-> "none"]
    /\ events = [k \in Keys |-> << >>]
    /\ timers = {}
    /\ gets = [k \in Keys |-> [v \in Versions |-> 0]]
    /\ overtaken = {}
    /\ blanked = {}
    /\ unseen = {}
    /\ kubeFaults = 0

Gone(k) == ver[k] \in deletedAt[k]

(* The item is what the cluster would answer now.  The object of a DELETED *)
(* event counts as that of its version: the page cannot tell them apart.   *)
Current(k) == items[k] = ver[k] \/ (Gone(k) /\ items[k] = Failed)

-----------------------------------------------------------------------------
(* The reducer *)

(* requestResource: a new item is loading, an existing one stays. *)
requestResource(it) == IF it = Nothing THEN Loading ELSE it

receiveResourceError(k) == [items EXCEPT ![k] = Failed]

(* openWatchResource: no second socket for a URL. *)
openWatchResource(S) ==
    [k \in Keys |-> IF k \in S /\ sockets[k] = "none" THEN "connecting" ELSE sockets[k]]

(* closeWatchResource takes the socket and the timer out of the store.     *)
(* removeEventListener comes before close(), since closing a socket that   *)
(* still connects raises an error event.                                   *)
ErrorListenerKept(S) == (timers \ S) \union {k \in S : sockets[k] = "connecting"}
TimersAfterClose(S) == timers \ S

closeWatchResource(S) ==
    /\ sockets' = [k \in Keys |-> IF k \in S THEN "none" ELSE sockets[k]]
    /\ events' = [k \in Keys |-> IF k \in S THEN << >> ELSE events[k]]
    /\ timers' = TimersAfterClose(S)

(* LOCATION_CHANGE clears items, and leaves sockets and timers alone. *)
LOCATION_CHANGE == [k \in Keys |-> Nothing]

-----------------------------------------------------------------------------
(* Requests *)

OnTheirWay(g) == Total([k \in Keys |-> Total(g[k])])

(* How many requests the page sends for a key when it mounts: its own,     *)
(* unless the item is already loading, and the one of AccessURLTable,      *)
(* whose effect runs first and makes a new item loading.                   *)
Sends(k) ==
    CASE items[k] = Loading -> 0
      [] items[k] = Nothing -> 1
      [] OTHER -> IF k \in Ingresses THEN 2 ELSE 1

(* getResource and openWatchResource for every ref. *)
getAndWatchResource(S) ==
    /\ gets' = [k \in Keys |-> IF k \in S THEN [gets[k] EXCEPT ![ver[k]] = @ + Sends(k)]
                              ELSE gets[k]]
    /\ OnTheirWay(gets') <= MaxGets
    /\ items' = [k \in Keys |-> IF k \in S THEN requestResource(items[k]) ELSE items[k]]
    /\ sockets' = openWatchResource(S)

(* An answer is of any version since the request was sent. *)
ResourceAnswer(k, since, v, item) ==
    /\ gets[k][since] > 0
    /\ v \in since..ver[k]
    /\ gets' = [gets EXCEPT ![k][since] = @ - 1]
    /\ items' = [items EXCEPT ![k] = item]
    /\ overtaken' = IF v = ver[k] THEN overtaken \ {k}
                    ELSE IF Current(k) THEN overtaken \union {k} ELSE overtaken
    /\ blanked' = IF v = ver[k] THEN blanked \ {k} ELSE blanked
    /\ unseen' = IF v = ver[k] THEN unseen \ {k} ELSE unseen
    /\ UNCHANGED <<clusterVars, refs, shown, sockets, events, timers, kubeFaults>>

receiveResource(k, since, v) == v \notin deletedAt[k] /\ ResourceAnswer(k, since, v, v)
NotFound(k, since, v) == v \in deletedAt[k] /\ ResourceAnswer(k, since, v, Failed)

FailedRequest(k, since) ==
    /\ gets[k][since] > 0
    /\ kubeFaults < MaxKubeFaults
    /\ kubeFaults' = kubeFaults + 1
    /\ gets' = [gets EXCEPT ![k][since] = @ - 1]
    /\ items' = receiveResourceError(k)
    /\ overtaken' = IF Current(k) /\ ~Gone(k) THEN overtaken \union {k} ELSE overtaken
    /\ UNCHANGED <<clusterVars, refs, shown, sockets, events, timers, blanked, unseen>>

(* The interval of addTimer: getResource(ref, true) is quiet, so that the  *)
(* row keeps what it shows (and one that is not), and is skipped while the *)
(* item is loading.                                                        *)
ShowsLoading(k) == [items EXCEPT ![k] = Loading]
ItemsAfterPoll(k) == items
PollAllowed(k) == items[k] # Loading
Poll(k) ==
    /\ k \in timers
    /\ PollAllowed(k)
    /\ gets' = [gets EXCEPT ![k][ver[k]] = @ + 1]
    /\ OnTheirWay(gets') <= MaxGets
    /\ items' = ItemsAfterPoll(k)
    /\ UNCHANGED <<clusterVars, refs, shown, sockets, events, timers, observers, kubeFaults>>

-----------------------------------------------------------------------------
(* The page *)

(* The release's manifest was parsed: resourceRefs are set, once, and the  *)
(* effect fetches and watches all of them.                                 *)
Mount(S) ==
    /\ refs = {}
    /\ S # {}
    /\ refs' = S
    /\ shown' = TRUE
    /\ getAndWatchResource(S)
    /\ UNCHANGED <<clusterVars, events, timers, observers, kubeFaults>>

(* To another page: the router clears the items, then React unmounts the   *)
(* page and its cleanup closes the watches.                                *)
Unmount ==
    /\ refs # {}
    /\ refs' = {}
    /\ shown' = FALSE
    /\ items' = LOCATION_CHANGE
    /\ closeWatchResource(refs)
    /\ overtaken' = {} /\ blanked' = {} /\ unseen' = {}
    /\ UNCHANGED <<clusterVars, gets, kubeFaults>>

(* To the page of another release in one history jump: the component stays *)
(* mounted with its refs and its watches.  The apps slice forgot the       *)
(* release, so that the LoadingWrapper replaces the children.              *)
Jump ==
    /\ refs # {}
    /\ shown' = FALSE
    /\ items' = LOCATION_CHANGE
    /\ blanked' = blanked \union refs
    /\ UNCHANGED <<clusterVars, refs, sockets, events, timers, gets, overtaken, unseen, kubeFaults>>

(* The release of the new page is there and the children mount again, with *)
(* the refs of the old one: AccessURLTable requests every ingress, and     *)
(* nobody the rest.                                                        *)
Remounted == refs \intersect Ingresses
Reshow ==
    /\ refs # {}
    /\ ~shown
    /\ shown' = TRUE
    /\ gets' = [k \in Keys |-> IF k \in Remounted /\ items[k] # Loading
                               THEN [gets[k] EXCEPT ![ver[k]] = @ + 1] ELSE gets[k]]
    /\ OnTheirWay(gets') <= MaxGets
    /\ items' = [k \in Keys |-> IF k \in Remounted THEN requestResource(items[k])
                                ELSE items[k]]
    /\ UNCHANGED <<clusterVars, refs, sockets, events, timers, observers, kubeFaults>>

-----------------------------------------------------------------------------
(* Sockets and the cluster *)

(* A watch without resourceVersion begins with an event for what exists,   *)
(* one from a resourceVersion does not.                                    *)
FromResourceVersion(k) == << >>
FirstEvents(k) == IF Gone(k) THEN << >> ELSE <<ver[k]>>
Connect(k) ==
    /\ sockets[k] = "connecting"
    /\ sockets' = [sockets EXCEPT ![k] = "open"]
    /\ events' = [events EXCEPT ![k] = FirstEvents(k)]
    /\ unseen' = IF Gone(k) THEN unseen \union {k} ELSE unseen
    /\ UNCHANGED <<clusterVars, refs, shown, items, timers, gets, overtaken, blanked, kubeFaults>>

(* The error event: addTimer keeps one timer per URL. *)
NoTimer(k) == timers
addTimer(k) == timers \union {k}

SocketError(k) ==
    /\ sockets[k] \in {"connecting", "open"}
    /\ kubeFaults < MaxKubeFaults
    /\ kubeFaults' = kubeFaults + 1
    /\ sockets' = [sockets EXCEPT ![k] = "failed"]
    /\ events' = [events EXCEPT ![k] = << >>]
    /\ timers' = addTimer(k)
    /\ UNCHANGED <<clusterVars, refs, shown, items, gets, observers>>

(* The server ends the watch in order: no error event, and the code does   *)
(* not listen to close.                                                    *)
SocketClose(k) ==
    /\ sockets[k] = "open"
    /\ events[k] = << >>
    /\ kubeFaults < MaxKubeFaults
    /\ kubeFaults' = kubeFaults + 1
    /\ sockets' = [sockets EXCEPT ![k] = "closed"]
    /\ UNCHANGED <<clusterVars, refs, shown, items, events, timers, gets, observers>>

(* The message handler: removeTimer and receiveResource of the event's     *)
(* object, whatever its type: that of a DELETED event too.                 *)
Message(k) ==
    /\ events[k] # << >>
    /\ events' = [events EXCEPT ![k] = Tail(@)]
    /\ timers' = timers \ {k}
    /\ items' = [items EXCEPT ![k] = Head(events[k])]
    /\ overtaken' = overtaken \ {k}
    /\ blanked' = blanked \ {k}
    /\ unseen' = unseen \ {k}
    /\ UNCHANGED <<clusterVars, refs, shown, sockets, gets, kubeFaults>>

(* The cluster changes a resource, or creates it again; or deletes it. *)
Changes == Total([k \in Keys |-> ver[k] - 1])
NewVersion(k) ==
    /\ ver[k] < MaxVersion /\ Changes < MaxChanges
    /\ ver' = [ver EXCEPT ![k] = @ + 1]
    /\ events' = [events EXCEPT ![k] =
                    IF sockets[k] = "open" THEN Append(@, ver[k] + 1) ELSE @]
    /\ UNCHANGED <<refs, shown, items, sockets, timers, gets, observers, kubeFaults>>

Change(k) == NewVersion(k) /\ UNCHANGED deletedAt
Delete(k) ==
    /\ ~Gone(k)
    /\ NewVersion(k)
    /\ deletedAt' = [deletedAt EXCEPT ![k] = @ \union {ver[k] + 1}]

Page == Unmount \/ Jump \/ Reshow \/ \E S \in Manifests : Mount(S)
Answered(k, since) == \E v \in Versions : receiveResource(k, since, v) \/ NotFound(k, since, v)
Browser(k) == Message(k) \/ Poll(k)
Network(k) ==
    \/ Connect(k) \/ SocketError(k) \/ SocketClose(k) \/ Change(k) \/ Delete(k)
    \/ \E since \in Versions : Answered(k, since) \/ FailedRequest(k, since)

KubeNext == Page \/ \E k \in Keys : Browser(k) \/ Network(k)

KubeSpec == KubeInit /\ [][KubeNext]_kubeVars

(* Requests are answered, sockets connect or fail, delivered messages and  *)
(* intervals are handled.  Users and the cluster owe nothing.              *)
KubeFairSpec ==
    /\ KubeSpec
    /\ \A k \in Keys :
        /\ \A since \in Versions :
             WF_kubeVars(Answered(k, since) \/ FailedRequest(k, since))
        /\ WF_kubeVars(Message(k))
        /\ WF_kubeVars(Poll(k))
        /\ WF_kubeVars(Connect(k) \/ SocketError(k))

-----------------------------------------------------------------------------
(* What the page shows of a ref (getData, flattenResources).  A ref        *)
(* without an item gets the same spinner as one that is loading; the view  *)
(* keeps it apart as blank, since no request stands behind it.             *)
Rows ==
    [k \in Keys |-> CASE k \notin refs -> "none"
                     [] k \in refs /\ ~shown -> "hidden"
                     [] k \in refs /\ shown /\ items[k] = Nothing -> "blank"
                     [] k \in refs /\ shown /\ items[k] = Loading -> "spinner"
                     [] k \in refs /\ shown /\ items[k] = Failed -> "error"
                     [] OTHER -> "data"]

(* ApplicationStatus, once its effect has counted the pods of the workloads *)
(* that have an item.  One whose request failed, and one that has no item   *)
(* at all, are left out; the release's own state comes before the pods.     *)
filterByResourceRefs == {k \in refs \intersect Workloads : items[k] # Nothing}
NobodyWaits == FALSE
isSomeResourceLoading == \E k \in filterByResourceRefs : items[k] = Loading
flattenItemList == {k \in filterByResourceRefs : items[k] \in Versions}

readyPods(at) == Total([k \in DOMAIN at |-> Pods[k][at[k]].ready])
totalPods(at) == Total([k \in DOMAIN at |-> Pods[k][at[k]].wanted])

AnyReady(at) == readyPods(at) > 0
AllReady(at) == totalPods(at) = readyPods(at)

(* The release's info: whether it was deleted, and Helm's status, if any. *)
HelmStatuses == {"none", "Deployed", "Failed"}
Infos == [deleted : BOOLEAN, status : HelmStatuses]
StatusOf(info, at) ==
    IF info.deleted THEN "Application Deleted"
    ELSE IF info.status \notin {"none", "Deployed"} THEN "Status"
    ELSE IF totalPods(at) = 0 THEN "No Workload Found"
    ELSE IF AllReady(at) THEN "Ready" ELSE "Not Ready"

ApplicationStatus(info) ==
    IF isSomeResourceLoading THEN "Loading"
    ELSE StatusOf(info, [k \in flattenItemList |-> items[k]])

-----------------------------------------------------------------------------
TypeOK ==
    /\ ver \in [Keys -> Versions]
    /\ deletedAt \in [Keys -> SUBSET Versions]
    /\ refs \in SUBSET Keys
    /\ shown \in BOOLEAN
    /\ items \in [Keys -> Versions \union {Nothing, Loading, Failed}]
    /\ sockets \in [Keys -> SocketStates]
    /\ events \in [Keys -> Seq(Versions)]
    /\ timers \in SUBSET Keys
    /\ gets \in [Keys -> [Versions -> Nat]]
    /\ overtaken \in SUBSET Keys
    /\ blanked \in SUBSET Keys
    /\ unseen \in SUBSET Keys
    /\ kubeFaults \in 0..MaxKubeFaults

(* The page the user left holds no socket and polls nothing: every socket  *)
(* and every interval in the store is one of the mounted page, and an      *)
(* interval runs only where the socket failed (closeWatchResource,         *)
(* addTimer).                                                              *)
NothingLeftOpen ==
    /\ \A k \in Keys : sockets[k] # "none" => k \in refs
    /\ \A k \in timers : k \in refs /\ sockets[k] = "failed"

(* The rows of the page keep the promise of ResourceView: store, sockets,  *)
(* timers and requests together implement it, liveness included.           *)
View == INSTANCE ResourceView WITH row <- Rows, Requested <- Ingresses
RowsAsPromised == View!FairSpec

(* The ways in which a healthy watch shows something stale: an answer to a *)
(* request came after a newer watch event, the page changed under the      *)
(* watch, or the watch began when the resource was already deleted.        *)
Excused == overtaken \union blanked \union unseen
Watched(k) == sockets[k] = "open" /\ events[k] = << >> /\ k \notin Excused

(* A resource whose watch is open and has nothing undelivered is shown as  *)
(* it is in the cluster, but for the three ways above.  If it is deleted,  *)
(* that is not found, or the object of its DELETED event as if it were     *)
(* there still (the handler does not look at the event's type); one that   *)
(* is created again is shown as it is.                                     *)
WatchedIsCurrent == \A k \in Keys : Watched(k) => Current(k)

(* The status waits: as soon as it says anything, every workload it left   *)
(* out failed, or lost its item to a change of page.  And once every       *)
(* workload of the page exists and is watched with nothing undelivered,    *)
(* it says what the pods in the cluster say, whatever answers and events   *)
(* came before and whichever workloads failed on the way.                  *)
StatusIsGrounded ==
    LET W == refs \intersect Workloads
    IN  \A info \in Infos :
          /\ ApplicationStatus(info) # "Loading" =>
                \A k \in W : items[k] \in Versions \/ items[k] = Failed \/ k \in blanked
          /\ (\A k \in W : Watched(k) /\ ~Gone(k)) =>
                ApplicationStatus(info) = StatusOf(info, [k \in W |-> ver[k]])

(* Ready is never said of a workload whose watch shows fewer pods ready    *)
(* than it wants, although only sums are compared: short of one workload   *)
(* with more pods ready than it wants (a rolling update), which may make   *)
(* up for another.                                                         *)
ReadyMeansReady ==
    LET Surplus == {k \in flattenItemList :
                      Pods[k][items[k]].ready > Pods[k][items[k]].wanted}
    IN  \A info \in Infos :
          (ApplicationStatus(info) = "Ready" /\ Surplus = {}) =>
            /\ ~info.deleted
            /\ \A k \in (refs \intersect Workloads) :
                  (Watched(k) /\ ~Gone(k)) =>
                     Pods[k][ver[k]].ready = Pods[k][ver[k]].wanted

(* A watched resource is again and again shown as it is, or as not found   *)
(* once it is deleted, also when its socket failed (the interval polls),   *)
(* unless the server ended the watch in order or for the three ways above. *)
EventuallyCurrent ==
    \A k \in Keys :
        <>[](/\ k \in refs /\ sockets[k] # "closed"
             /\ (sockets[k] = "failed" \/ k \notin Excused))
            => []<>Current(k)

=============================================================================
