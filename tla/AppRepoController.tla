------------------------- MODULE AppRepoController -------------------------
(***************************************************************************)
(* The apprepository-controller (cmd/apprepository-controller): it watches *)
(* AppRepository resources and keeps, for each of them, a CronJob and the  *)
(* one-off Jobs that run the asset-syncer.                                 *)
(*                                                                         *)
(* Three things run concurrently and share no lock:                        *)
(*   - users, through kubeops or kubectl, write AppRepositories            *)
(*     (the API server's state: repos, cronjobs);                          *)
(*   - two informers copy the API server's state into the caches the       *)
(*     listers read, late and in order (repoWatch/repoCache and            *)
(*     cronjobWatch/cronjobCache), and call the event handlers;            *)
(*   - workers take keys off a rate limited work queue and run             *)
(*     syncHandler, whose lister reads and API calls are separate steps.   *)
(*                                                                         *)
(* A key is a namespace/name pair; cronJobName is taken to be injective.   *)
(***************************************************************************)
EXTENDS Integers, Sequences

CONSTANTS
    Keys,           \* namespace/name keys of AppRepositories
    KubeappsKeys,   \* those whose namespace is the one Kubeapps runs in
    Urls,           \* repository URLs
    Installed,      \* keys of the AppRepositories that come with Kubeapps' chart
    InstalledUrl,   \* their URL
    Workers,        \* the workers started by Run (two in main)
    Nil,            \* absence of an object
    Cleanup,        \* the asset-syncer "delete" Job
    MaxEdits,       \* bound on rv
    MaxFaults       \* bound on failed API calls, broken watches and restarts

ASSUME KeysAssumption == KubeappsKeys \subseteq Keys /\ Nil \notin Keys
ASSUME InstalledAssumption == Installed \subseteq Keys /\ InstalledUrl \in Urls
ASSUME BoundsAssumption == MaxEdits \in Nat \ {0} /\ MaxFaults \in Nat

(* An AppRepository. rv is its resourceVersion and uid the rv it was       *)
(* created with; deleting says that it has a deletionTimestamp.            *)
Repo == [uid: Nat, rv: Nat, url: Urls, resync: Nat, deleting: BOOLEAN]

(* A CronJob: the uid in its owner reference (0: none), and the URL and    *)
(* the version of the AppRepository its arguments were made from.          *)
CronJob == [owner: Nat, url: Urls, rv: Nat]

(* A sync Job: the parts of the AppRepository that trigger one.            *)
SyncJob == [url: Urls, resync: Nat]

ASSUME ObjectsAssumption ==
    /\ Nil \notin Repo /\ Nil \notin CronJob /\ Nil \notin SyncJob
    /\ Cleanup \notin SyncJob /\ Cleanup # Nil

VARIABLES
    repos,          \* API server: AppRepository of each key, or Nil
    cronjobs,       \* API server: CronJob of each key, or Nil
    lastJob,        \* the last Job created for each key, or Nil
    rv,             \* API server: number of user writes so far, the installation's included
    repoWatch,      \* AppRepository states not delivered to the informer yet
    repoCache,      \* what appreposLister returns
    cronjobWatch,   \* CronJob creations and deletions not delivered yet
    cronjobCache,   \* the keys whose CronJob cronjobsLister finds
    delayed,        \* workqueue: keys waiting for the rate limiter
    dirty,          \* workqueue: keys that need processing
    queue,          \* workqueue: the order in which Get hands keys out
    processing,     \* workqueue: keys between Get and Done
    workers,        \* program counter and locals of each worker
    dropped,        \* observer: keys whose pending work was given up
    faults          \* bound: failed calls, broken watches and restarts so far

apiVars   == <<repos, cronjobs, lastJob, rv>>
repoVars  == <<repoWatch, repoCache>>
cronVars  == <<cronjobWatch, cronjobCache>>
readyVars == <<dirty, queue, processing>>
vars == <<apiVars, repoVars, cronVars, delayed, readyVars, workers, dropped, faults>>

(* A worker: where in processNextWorkItem and syncHandler it is, the key   *)
(* it took off the queue, and the AppRepository the lister gave it.        *)
At(pc, key, repo) == [pc |-> pc, key |-> key, repo |-> repo]
Idle == At("idle", Nil, Nil)

CleanupPCs == {"cleanupJob", "cleanupCron"}
SyncPCs == {"getCron", "createCron", "updateCron", "syncJob"}

WorkerState ==
    {Idle} \cup [pc: {"lookup"} \cup CleanupPCs, key: Keys, repo: {Nil}]
           \cup [pc: SyncPCs, key: Keys, repo: Repo]

(* An AppRepository as it is created. *)
NewRepo(url, n) == [uid |-> n, rv |-> n, url |-> url, resync |-> 0, deleting |-> FALSE]

(* The controller was started with the chart that also installs the first  *)
(* AppRepositories.                                                        *)
Init ==
    /\ repos = [k \in Keys |-> IF k \in Installed THEN NewRepo(InstalledUrl, 1) ELSE Nil]
    /\ cronjobs = [k \in Keys |-> Nil]
    /\ lastJob = [k \in Keys |-> Nil]
    /\ rv = 1
    /\ repoWatch = [k \in Keys |-> IF k \in Installed THEN <<repos[k]>> ELSE <<>>]
    /\ repoCache = [k \in Keys |-> Nil]
    /\ cronjobWatch = [k \in Keys |-> <<>>]
    /\ cronjobCache = {}
    /\ delayed = {}
    /\ dirty = {}
    /\ queue = <<>>
    /\ processing = {}
    /\ workers = [w \in Workers |-> Idle]
    /\ dropped = {}
    /\ faults = 0

-----------------------------------------------------------------------------
(* Users. Each write is one call to the API server, which also streams the *)
(* new state to the informer.                                              *)

PutRepo(k, obj) ==
    /\ rv < MaxEdits
    /\ rv' = rv + 1
    /\ repos' = [repos EXCEPT ![k] = obj]
    /\ repoWatch' = [repoWatch EXCEPT ![k] = Append(@, obj)]
    /\ UNCHANGED <<cronjobs, lastJob, repoCache, cronVars, delayed, readyVars,
                   workers, dropped, faults>>

CreateAppRepository(k, url) ==
    /\ repos[k] = Nil
    /\ PutRepo(k, NewRepo(url, rv + 1))

(* The spec is replaced by the request's: the dashboard sends no           *)
(* resyncRequests, so the counter goes back to 0. An equal url stands for  *)
(* a change of the credentials, the filter or the pod template.            *)
UpdateAppRepository(k, url) ==
    /\ repos[k] # Nil
    /\ PutRepo(k, [repos[k] EXCEPT !.rv = rv + 1, !.url = url, !.resync = 0])

RefreshAppRepository(k) ==
    /\ repos[k] # Nil
    /\ PutRepo(k, [repos[k] EXCEPT !.rv = rv + 1,
                              !.resync = repos[k].resync + 1])

DeleteAppRepository(k) ==
    /\ repos[k] # Nil
    /\ PutRepo(k, Nil)

(* kubectl delete --cascade=foreground: the object stays, with a           *)
(* deletionTimestamp, until its dependents are gone.                       *)
ForegroundDelete(k) ==
    /\ repos[k] # Nil
    /\ ~repos[k].deleting
    /\ PutRepo(k, [repos[k] EXCEPT !.rv = rv + 1, !.deleting = TRUE])

-----------------------------------------------------------------------------
(* CronJobs in the API server. The informer sees creations and deletions;  *)
(* an update changes nothing the controller reads from its lister.         *)

WriteCronJob(k, cj) ==
    /\ cronjobs' = [cronjobs EXCEPT ![k] = cj]
    /\ cronjobWatch' =
         IF (cj = Nil) = (cronjobs[k] = Nil) THEN cronjobWatch
         ELSE [cronjobWatch EXCEPT ![k] = Append(@, IF cj = Nil THEN "deleted" ELSE "created")]

UserDeletesCronJob(k) ==
    /\ rv < MaxEdits
    /\ cronjobs[k] # Nil
    /\ rv' = rv + 1
    /\ WriteCronJob(k, Nil)
    /\ UNCHANGED <<repos, lastJob, repoVars, cronjobCache, delayed, readyVars,
                   workers, dropped, faults>>

(* Kubernetes' garbage collector: a CronJob goes when its owner is gone,   *)
(* is another object of the same name, or is being deleted in foreground.  *)
CollectCronJob(k) ==
    /\ cronjobs[k] # Nil
    /\ cronjobs[k].owner # 0
    /\ repos[k] # Nil => repos[k].uid # cronjobs[k].owner \/ repos[k].deleting
    /\ WriteCronJob(k, Nil)
    /\ UNCHANGED <<repos, lastJob, rv, repoVars, cronjobCache, delayed, readyVars,
                   workers, dropped, faults>>

(* A repository deleted in foreground goes once nothing depends on it.     *)
FinishForegroundDelete(k) ==
    /\ repos[k] # Nil
    /\ repos[k].deleting
    /\ cronjobs[k] # Nil => cronjobs[k].owner # repos[k].uid
    /\ repos' = [repos EXCEPT ![k] = Nil]
    /\ repoWatch' = [repoWatch EXCEPT ![k] = Append(@, Nil)]
    /\ UNCHANGED <<cronjobs, lastJob, rv, repoCache, cronVars, delayed, readyVars,
                   workers, dropped, faults>>

-----------------------------------------------------------------------------
(* Informers and their event handlers, registered by NewController.        *)

(* Mutants of Enqueues: a resync request is not looked at; a deletion is   *)
(* not handled.                                                            *)
EnqueuesNoResync(old, new) ==
    \/ (old = Nil) # (new = Nil)
    \/ old # Nil /\ new # Nil /\ old.url # new.url

EnqueuesNoDelete(old, new) ==
    \/ old = Nil /\ new # Nil
    \/ old # Nil /\ new # Nil /\ (old.url # new.url \/ old.resync # new.resync)

(* AddFunc and DeleteFunc always enqueue, UpdateFunc only when the URL or  *)
(* the resync counter differs.                                             *)
Enqueues(old, new) ==
    \/ old = Nil /\ new # Nil
    \/ old # Nil /\ new = Nil
    \/ /\ old # Nil
       /\ new # Nil
       /\ old.url # new.url \/ old.resync # new.resync

DeliverRepoEvent(k) ==
    /\ repoWatch[k] # <<>>
    /\ repoCache' = [repoCache EXCEPT ![k] = Head(repoWatch[k])]
    /\ repoWatch' = [repoWatch EXCEPT ![k] = Tail(@)]
    /\ delayed' = IF Enqueues(repoCache[k], Head(repoWatch[k]))
                  THEN delayed \cup {k} ELSE delayed
    /\ UNCHANGED <<apiVars, cronVars, readyVars, workers, dropped, faults>>

(* A watch that broke: the informer lists everything again and hands out   *)
(* the differences, deletions as tombstones. What came and went meanwhile  *)
(* is not reported.                                                        *)
BreakWatch ==
    /\ faults < MaxFaults
    /\ faults' = faults + 1

RelistRepos ==
    /\ BreakWatch
    /\ repoCache' = repos
    /\ repoWatch' = [k \in Keys |-> <<>>]
    /\ delayed' = delayed \cup {k \in Keys : Enqueues(repoCache[k], repos[k])}
    /\ UNCHANGED <<apiVars, cronVars, readyVars, workers, dropped>>

(* handleObject on the deletion of the CronJob of k: only a CronJob with   *)
(* an owner reference is looked at, and its AppRepository is enqueued if   *)
(* the lister has it and it is not being deleted. The observer also notes  *)
(* the deletions that a relist hid from the handler.                       *)
OwnerFound(k) == k \in KubeappsKeys /\ repoCache[k] # Nil

(* Mutant: the owner found is not enqueued.                                *)
handleObjectIgnored(gone, unseen) ==
    /\ UNCHANGED delayed
    /\ dropped' = dropped \cup unseen \cup {k \in gone : OwnerFound(k)}

handleObject(gone, unseen) ==
    /\ delayed' = delayed \cup
         {k \in gone : OwnerFound(k) /\ ~repoCache[k].deleting}
    /\ dropped' = dropped \cup unseen \cup
         {k \in gone : OwnerFound(k) /\ repoCache[k].deleting}

DeliverCronJobEvent(k) ==
    /\ cronjobWatch[k] # <<>>
    /\ cronjobWatch' = [cronjobWatch EXCEPT ![k] = Tail(@)]
    /\ IF Head(cronjobWatch[k]) = "created"
       THEN cronjobCache' = cronjobCache \cup {k} /\ UNCHANGED <<delayed, dropped>>
       ELSE cronjobCache' = cronjobCache \ {k} /\ handleObject({k}, {})
    /\ UNCHANGED <<apiVars, repoVars, readyVars, workers, faults>>

RelistCronJobs ==
    /\ BreakWatch
    /\ cronjobCache' = {k \in Keys : cronjobs[k] # Nil}
    /\ cronjobWatch' = [k \in Keys |-> <<>>]
    /\ handleObject({k \in cronjobCache : cronjobs[k] = Nil},
                    {k \in Keys \ cronjobCache : cronjobs[k] = Nil
                                                 /\ cronjobWatch[k] # <<>>})
    /\ UNCHANGED <<apiVars, repoVars, readyVars, workers>>

-----------------------------------------------------------------------------
(* The work queue of client-go. A key is handed to one worker at a time; a *)
(* key added while it is being processed is queued again by Done.          *)

(* Mutant: a key that is being processed is queued at once.                *)
DelayElapsedBusy(k) ==
    /\ k \in delayed
    /\ delayed' = delayed \ {k}
    /\ dirty' = dirty \cup {k}
    /\ queue' = IF k \in dirty THEN queue ELSE Append(queue, k)
    /\ UNCHANGED <<apiVars, repoVars, cronVars, processing, workers, dropped, faults>>

DelayElapsed(k) ==
    /\ k \in delayed
    /\ delayed' = delayed \ {k}
    /\ dirty' = dirty \cup {k}
    /\ queue' = IF k \in dirty \/ k \in processing THEN queue ELSE Append(queue, k)
    /\ UNCHANGED <<apiVars, repoVars, cronVars, processing, workers, dropped, faults>>

(* processNextWorkItem, up to the call of syncHandler.                     *)
Get(w) ==
    /\ workers[w].pc = "idle"
    /\ queue # <<>>
    /\ workers' = [workers EXCEPT ![w] = At("lookup", Head(queue), Nil)]
    /\ queue' = Tail(queue)
    /\ dirty' = dirty \ {Head(queue)}
    /\ processing' = processing \cup {Head(queue)}
    /\ UNCHANGED <<apiVars, repoVars, cronVars, delayed, dropped, faults>>

(* The first call of syncHandler succeeded: its key is served again.       *)
Proceed(w, pc) ==
    /\ workers' = [workers EXCEPT ![w] = At(pc, workers[w].key, workers[w].repo)]
    /\ dropped' = dropped \ {workers[w].key}
    /\ UNCHANGED <<delayed, readyVars>>

Done(k) ==
    /\ processing' = processing \ {k}
    /\ queue' = IF k \in dirty THEN Append(queue, k) ELSE queue
    /\ UNCHANGED <<delayed, dirty>>

(* processNextWorkItem, after syncHandler: without an error the key is     *)
(* forgotten by the rate limiter. With an error it is not, but nothing     *)
(* adds it to the queue again either.                                      *)
Succeed(w) ==
    /\ Done(workers[w].key)
    /\ workers' = [workers EXCEPT ![w] = Idle]
    /\ UNCHANGED dropped

Fail(w) ==
    /\ Done(workers[w].key)
    /\ workers' = [workers EXCEPT ![w] = Idle]
    /\ dropped' = dropped \cup {workers[w].key}

-----------------------------------------------------------------------------
(* syncHandler, one action per lister read and per API call. A call is     *)
(* answered "ok", fails with an "error" before it took effect, or takes    *)
(* effect but its answer is lost ("timeout").                              *)

Replies == {"ok", "error", "timeout"}

Spend(reply) ==
    /\ reply # "ok" => faults < MaxFaults
    /\ faults' = IF reply = "ok" THEN faults ELSE faults + 1

ownerReferencesForAppRepo(k, repo) == IF k \in KubeappsKeys THEN repo.uid ELSE 0

newCronJob(k, repo) ==
    [owner |-> ownerReferencesForAppRepo(k, repo), url |-> repo.url, rv |-> repo.rv]

newSyncJob(repo) == [url |-> repo.url, resync |-> repo.resync]

(* Mutant: an AppRepository that is not found is synced like any other.    *)
LookupRepoUnchecked(w) ==
    LET k == workers[w].key IN
    /\ workers[w].pc = "lookup"
    /\ workers' = [workers EXCEPT ![w] = At("getCron", k, repoCache[k])]
    /\ UNCHANGED <<apiVars, repoVars, cronVars, delayed, readyVars, dropped, faults>>

LookupRepo(w) ==
    LET k == workers[w].key IN
    /\ workers[w].pc = "lookup"
    /\ workers' = [workers EXCEPT ![w] =
         At(IF repoCache[k] = Nil THEN "cleanupJob" ELSE "getCron", k, repoCache[k])]
    /\ UNCHANGED <<apiVars, repoVars, cronVars, delayed, readyVars, dropped, faults>>

LookupCronJob(w) ==
    LET k == workers[w].key IN
    /\ workers[w].pc = "getCron"
    /\ workers' = [workers EXCEPT ![w] =
         At(IF k \in cronjobCache THEN "updateCron" ELSE "createCron", k, workers[w].repo)]
    /\ UNCHANGED <<apiVars, repoVars, cronVars, delayed, readyVars, dropped, faults>>

CreateCleanupJob(w, reply) ==
    LET k == workers[w].key IN
    /\ workers[w].pc = "cleanupJob"
    /\ Spend(reply)
    /\ lastJob' = IF reply = "error" THEN lastJob
                  ELSE [lastJob EXCEPT ![k] = Cleanup]
    /\ IF reply = "ok" THEN Proceed(w, "cleanupCron") ELSE Fail(w)
    /\ UNCHANGED <<repos, cronjobs, rv, repoVars, cronVars>>

(* Deleting a CronJob that does not exist is no error.                     *)
DeleteCronJob(w, reply) ==
    LET k == workers[w].key IN
    /\ workers[w].pc = "cleanupCron"
    /\ Spend(reply)
    /\ IF reply = "error" THEN UNCHANGED <<cronjobs, cronjobWatch>>
       ELSE WriteCronJob(k, Nil)
    /\ IF reply = "ok" THEN Succeed(w) ELSE Fail(w)
    /\ UNCHANGED <<repos, lastJob, rv, repoVars, cronjobCache>>

(* Creating a CronJob that exists, or updating one that does not, is an    *)
(* error of the API server; both happen when the lister is out of date.    *)
CreateCronJob(w, reply) ==
    LET k == workers[w].key
        accepted == cronjobs[k] = Nil
    IN
    /\ workers[w].pc = "createCron"
    /\ Spend(reply)
    /\ IF accepted /\ reply # "error"
       THEN WriteCronJob(k, newCronJob(k, workers[w].repo))
       ELSE UNCHANGED <<cronjobs, cronjobWatch>>
    /\ IF accepted /\ reply = "ok" THEN Proceed(w, "syncJob") ELSE Fail(w)
    /\ UNCHANGED <<repos, lastJob, rv, repoVars, cronjobCache>>

UpdateCronJob(w, reply) ==
    LET k == workers[w].key
        accepted == cronjobs[k] # Nil
    IN
    /\ workers[w].pc = "updateCron"
    /\ Spend(reply)
    /\ IF accepted /\ reply # "error"
       THEN WriteCronJob(k, newCronJob(k, workers[w].repo))
       ELSE UNCHANGED <<cronjobs, cronjobWatch>>
    /\ IF accepted /\ reply = "ok" THEN Proceed(w, "syncJob") ELSE Fail(w)
    /\ UNCHANGED <<repos, lastJob, rv, repoVars, cronjobCache>>

(* The last call. The check that follows it, that the CronJob is ours,     *)
(* looks at the object just written, which carries our labels.             *)
CreateSyncJob(w, reply) ==
    LET k == workers[w].key IN
    /\ workers[w].pc = "syncJob"
    /\ Spend(reply)
    /\ lastJob' = IF reply = "error" THEN lastJob
                  ELSE [lastJob EXCEPT ![k] = newSyncJob(workers[w].repo)]
    /\ IF reply = "ok" THEN Succeed(w) ELSE Fail(w)
    /\ UNCHANGED <<repos, cronjobs, rv, repoVars, cronVars>>

(* The controller's pod restarts: the queue, the caches and the workers    *)
(* are gone; Run waits for both caches to be filled again, which delivers  *)
(* every existing AppRepository to AddFunc and tells nothing of the ones   *)
(* deleted in the meantime.                                                *)
Restart ==
    /\ faults < MaxFaults
    /\ faults' = faults + 1
    /\ repoCache' = repos
    /\ repoWatch' = [k \in Keys |-> <<>>]
    /\ cronjobCache' = {k \in Keys : cronjobs[k] # Nil}
    /\ cronjobWatch' = [k \in Keys |-> <<>>]
    /\ delayed' = {k \in Keys : repos[k] # Nil}
    /\ dirty' = {}
    /\ queue' = <<>>
    /\ processing' = {}
    /\ workers' = [w \in Workers |-> Idle]
    /\ dropped' = dropped \cup
         {k \in Keys : repos[k] = Nil
                       /\ (repoCache[k] # Nil \/ k \in delayed \cup dirty \cup processing)}
    /\ UNCHANGED apiVars

-----------------------------------------------------------------------------
User ==
    \E k \in Keys :
        \/ \E url \in Urls : CreateAppRepository(k, url) \/ UpdateAppRepository(k, url)
        \/ RefreshAppRepository(k)
        \/ DeleteAppRepository(k)
        \/ ForegroundDelete(k)
        \/ UserDeletesCronJob(k)

syncHandler(w) ==
    \/ LookupRepo(w)
    \/ LookupCronJob(w)
    \/ \E reply \in Replies :
          \/ CreateCleanupJob(w, reply)
          \/ DeleteCronJob(w, reply)
          \/ CreateCronJob(w, reply)
          \/ UpdateCronJob(w, reply)
          \/ CreateSyncJob(w, reply)

Cluster(k) ==
    \/ CollectCronJob(k)
    \/ FinishForegroundDelete(k)

Next ==
    \/ User
    \/ \E k \in Keys :
          \/ Cluster(k)
          \/ DeliverRepoEvent(k)
          \/ DeliverCronJobEvent(k)
          \/ DelayElapsed(k)
    \/ RelistRepos
    \/ RelistCronJobs
    \/ \E w \in Workers : Get(w) \/ syncHandler(w)
    \/ Restart

Spec == Init /\ [][Next]_vars

(* What does not stop: watches deliver, timers fire, the cluster's own     *)
(* controllers run, and so do the workers. Users, faults, restarts and     *)
(* relists owe nothing.                                                    *)
Fairness ==
    /\ \A k \in Keys :
          /\ WF_vars(CollectCronJob(k))
          /\ WF_vars(FinishForegroundDelete(k))
          /\ WF_vars(DeliverRepoEvent(k))
          /\ WF_vars(DeliverCronJobEvent(k))
          /\ WF_vars(DelayElapsed(k))
    /\ \A w \in Workers : WF_vars(Get(w)) /\ WF_vars(syncHandler(w))

FairSpec == Spec /\ Fairness

-----------------------------------------------------------------------------
(* Properties.                                                             *)

TypeOK ==
    /\ repos \in [Keys -> Repo \cup {Nil}]
    /\ cronjobs \in [Keys -> CronJob \cup {Nil}]
    /\ lastJob \in [Keys -> SyncJob \cup {Nil, Cleanup}]
    /\ rv \in 0..MaxEdits
    /\ repoWatch \in [Keys -> Seq(Repo \cup {Nil})]
    /\ repoCache \in [Keys -> Repo \cup {Nil}]
    /\ cronjobWatch \in [Keys -> Seq({"created", "deleted"})]
    /\ cronjobCache \in SUBSET Keys
    /\ delayed \in SUBSET Keys
    /\ dirty \in SUBSET Keys
    /\ queue \in Seq(Keys)
    /\ processing \in SUBSET Keys
    /\ workers \in [Workers -> WorkerState]
    /\ dropped \in SUBSET Keys
    /\ faults \in 0..MaxFaults

(* Two workers never run syncHandler for the same AppRepository at once,   *)
(* whatever is added to the queue while they run (the reason the           *)
(* Controller struct gives for having a work queue).                       *)
OneWorkerPerKey ==
    \A w1, w2 \in Workers :
        w1 # w2 /\ workers[w1].pc # "idle" => workers[w1].key # workers[w2].key

Pending(k) == k \in delayed \cup dirty \cup processing

Settled(k) == ~Pending(k) /\ k \notin dropped

(* What the cluster should hold for the AppRepository in the lister: the   *)
(* Job it calls for was the last one created, the CronJob runs the same    *)
(* URL, and the deletion of one in Kubeapps' own namespace is on its way.  *)
Served(k) ==
    IF repoCache[k] = Nil
    THEN cronjobs[k] = Nil /\ lastJob[k] \in {Nil, Cleanup}
    ELSE /\ lastJob[k] \notin {Nil, Cleanup}
         /\ lastJob[k].url = repoCache[k].url
         /\ lastJob[k].resync = repoCache[k].resync
         /\ cronjobs[k] # Nil => cronjobs[k].url = repoCache[k].url
         /\ k \in KubeappsKeys /\ cronjobs[k] = Nil => cronjobWatch[k] # <<>>

(* No update of an AppRepository is lost on the way from the informer to   *)
(* the cluster: a key for which nothing is queued and whose work was never *)
(* given up (a failed call of syncHandler, a deletion hidden by a relist,  *)
(* a repository in foreground deletion, a restart) has been served from    *)
(* the AppRepository that the lister holds now.                            *)
NoLostUpdate == \A k \in Keys : Settled(k) => Served(k)

(* A CronJob is never overwritten from an older version of its             *)
(* AppRepository than the one it was made from, by a worker that read the  *)
(* lister before another one did.                                          *)
NoRollback ==
    [][\A k \in Keys : cronjobs[k] # Nil /\ cronjobs'[k] # Nil
                           => cronjobs'[k].rv >= cronjobs[k].rv]_vars

(* The work of k was given up, and a fault may be the reason.              *)
Abandoned(k) == faults > 0 /\ k \in dropped

(* A deleted AppRepository eventually loses its CronJob for good, and the  *)
(* Job that cleans the database up is the last one created for it (the     *)
(* TODO workaround of syncHandler's first branch): always without faults,  *)
(* and with them unless they made the controller give its work up.         *)
EventuallyCleanedUp ==
    \A k \in Keys :
        <>[](repos[k] = Nil /\ ~Abandoned(k))
            => <>[](cronjobs[k] = Nil /\ lastJob[k] \in {Nil, Cleanup})

(* An AppRepository in Kubeapps' own namespace eventually has a CronJob    *)
(* for good, although users and the garbage collector delete it,           *)
(* syncHandler works from out of date listers, watches break and the       *)
(* controller restarts, unless a fault made it give the work up.           *)
EventuallyScheduled ==
    \A k \in KubeappsKeys :
        <>[](repos[k] # Nil /\ ~repos[k].deleting /\ ~Abandoned(k))
            => <>[](cronjobs[k] # Nil)

(* The claim of syncHandler's comment, that an item whose processing       *)
(* failed is requeued and attempted again: the CronJob of an AppRepository *)
(* that no longer changes eventually runs its URL.                         *)
EventuallyConverges ==
    \A k \in Keys :
        <>[](repos[k] # Nil /\ ~repos[k].deleting)
            => <>[](repos[k] # Nil /\ cronjobs[k] # Nil => cronjobs[k].url = repos[k].url)
=============================================================================
