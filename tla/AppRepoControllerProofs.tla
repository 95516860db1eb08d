---------------------- MODULE AppRepoControllerProofs ----------------------
(***************************************************************************)
(* Theorems about AppRepoController, for any number of repositories, URLs  *)
(* and workers and any bounds.                                             *)
(***************************************************************************)
EXTENDS AppRepoController, SequenceTheorems, TLAPS

USE KeysAssumption, BoundsAssumption, ObjectsAssumption

(* What the queue holds: no key twice, only dirty keys, none that a worker *)
(* is processing; and a busy worker's key is being processed.              *)
QueueInv ==
    /\ \A i, j \in 1..Len(queue) : i # j => queue[i] # queue[j]
    /\ \A i \in 1..Len(queue) : queue[i] \in dirty /\ queue[i] \notin processing
    /\ \A w \in Workers : workers[w].pc # "idle" => workers[w].key \in processing

(* The CronJob informer is late but not wrong: the last state it has heard *)
(* of or will hear of is the API server's.                                 *)
Heard(k) ==
    IF cronjobWatch[k] = <<>>
    THEN k \in cronjobCache <=> cronjobs[k] # Nil
    ELSE cronjobWatch[k][Len(cronjobWatch[k])] = "created" <=> cronjobs[k] # Nil

WatchInv == \A k \in Keys : Heard(k)

(* A key that will be processed after its present processing.              *)
Fresh(k) == k \in delayed \/ k \in dirty

SameSpec(a, b) ==
    a # Nil /\ b # Nil /\ a.url = b.url /\ a.resync = b.resync

(* The CronJob of k runs url, or its disappearance is not forgotten.       *)
CronJobKept(k, url) ==
    /\ cronjobs[k] # Nil => cronjobs[k].url = url
    /\ k \in KubeappsKeys /\ cronjobs[k] = Nil
          => cronjobWatch[k] # <<>> \/ Fresh(k) \/ k \in dropped

(* What a worker in syncHandler relies on: what it read from the lister is *)
(* still there, or its key will be processed again.                        *)
InFlight(w) ==
    LET k == workers[w].key
        r == workers[w].repo
    IN
    /\ workers[w].pc \in CleanupPCs => Fresh(k) \/ repoCache[k] = Nil
    /\ workers[w].pc = "cleanupCron" => lastJob[k] = Cleanup
    /\ workers[w].pc \in SyncPCs => Fresh(k) \/ SameSpec(repoCache[k], r)
    /\ workers[w].pc = "syncJob" => CronJobKept(k, r.url)

(* Version n of an AppRepository is not newer than r.                      *)
NotNewer(n, r) == r # Nil => n <= r.rv

(* Whatever the lister returns for k from now on is version n or newer.    *)
Ahead(k, n) ==
    /\ n <= rv
    /\ NotNewer(n, repos[k])
    /\ NotNewer(n, repoCache[k])
    /\ \A i \in 1..Len(repoWatch[k]) : NotNewer(n, repoWatch[k][i])

(* The informer gets versions in order: the cache holds the oldest, then   *)
(* come those on their way, and the API server has the newest.             *)
InOrder(k) ==
    /\ repos[k] # Nil => repos[k].rv <= rv
    /\ repoCache[k] # Nil => Ahead(k, repoCache[k].rv)
    /\ \A i \in 1..Len(repoWatch[k]) : repoWatch[k][i] # Nil =>
          /\ repoWatch[k][i].rv <= rv
          /\ NotNewer(repoWatch[k][i].rv, repos[k])
          /\ \A j \in i..Len(repoWatch[k]) : NotNewer(repoWatch[k][i].rv, repoWatch[k][j])

OrderInv == \A k \in Keys : InOrder(k)

(* Where a worker holds an AppRepository it has not written a CronJob of.  *)
HoldingPCs == {"getCron", "createCron", "updateCron"}

Holds(w, k, r) == workers[w].pc \in HoldingPCs /\ workers[w].key = k /\ workers[w].repo = r

(* CronJobs and the workers about to write one stay behind the lister, and *)
(* no CronJob is newer than what the worker of its key holds.              *)
VersionInv ==
    /\ \A k \in Keys : cronjobs[k] # Nil => Ahead(k, cronjobs[k].rv)
    /\ \A w \in Workers, k \in Keys, r \in Repo : Holds(w, k, r) =>
          /\ Ahead(k, r.rv)
          /\ cronjobs[k] # Nil => cronjobs[k].rv <= r.rv

-----------------------------------------------------------------------------
(* Type correctness.                                                       *)

(* Any write of an AppRepository keeps the types.                          *)
LEMMA PutRepoType ==
    ASSUME TypeOK, NEW k \in Keys, NEW obj \in Repo \cup {Nil}, PutRepo(k, obj)
    PROVE  TypeOK'
  <1>1. rv' \in 0..MaxEdits
    BY DEF TypeOK, PutRepo
  <1>2. repoWatch' \in [Keys -> Seq(Repo \cup {Nil})]
    BY DEF TypeOK, PutRepo
  <1>3. repos' \in [Keys -> Repo \cup {Nil}]
    BY DEF TypeOK, PutRepo
  <1>4. QED
    BY <1>1, <1>2, <1>3 DEF TypeOK, PutRepo, cronVars, readyVars

LEMMA UserType ==
    ASSUME TypeOK, User
    PROVE  TypeOK'
  <1>1. PICK k \in Keys :
          \/ \E url \in Urls : CreateAppRepository(k, url) \/ UpdateAppRepository(k, url)
          \/ RefreshAppRepository(k)
          \/ DeleteAppRepository(k)
          \/ ForegroundDelete(k)
          \/ UserDeletesCronJob(k)
    BY DEF User
  <1>2. ASSUME NEW url \in Urls, CreateAppRepository(k, url)
        PROVE  TypeOK'
    <2>1. NewRepo(url, rv + 1) \in Repo
      BY DEF TypeOK, Repo, NewRepo
    <2>2. QED
      BY <1>2, <2>1, PutRepoType DEF CreateAppRepository
  <1>3. ASSUME NEW url \in Urls, UpdateAppRepository(k, url)
        PROVE  TypeOK'
    <2>0. repos[k] \in Repo /\ rv + 1 \in Nat
      BY <1>3 DEF TypeOK, UpdateAppRepository
    <2>1. [repos[k] EXCEPT !.rv = rv + 1, !.url = url, !.resync = 0] \in Repo
      BY <2>0 DEF Repo
    <2>2. QED
      BY <1>3, <2>1, PutRepoType DEF UpdateAppRepository
  <1>4. CASE RefreshAppRepository(k)
    <2>0. repos[k] \in Repo /\ rv + 1 \in Nat
      BY <1>4 DEF TypeOK, RefreshAppRepository
    <2> DEFINE n == repos[k].resync + 1
    <2>3. n \in Nat
      BY <2>0 DEF Repo
    <2> HIDE DEF n
    <2>1. [repos[k] EXCEPT !.rv = rv + 1, !.resync = n] \in Repo
      BY <2>0, <2>3 DEF Repo
    <2> USE DEF n
    <2>2. QED
      BY <1>4, <2>1, PutRepoType DEF RefreshAppRepository
  <1>5. CASE DeleteAppRepository(k)
    BY <1>5, PutRepoType DEF DeleteAppRepository
  <1>6. CASE ForegroundDelete(k)
    <2>0. repos[k] \in Repo /\ rv + 1 \in Nat
      BY <1>6 DEF TypeOK, ForegroundDelete
    <2>1. [repos[k] EXCEPT !.rv = rv + 1, !.deleting = TRUE] \in Repo
      BY <2>0 DEF Repo
    <2>2. QED
      BY <1>6, <2>1, PutRepoType DEF ForegroundDelete
  <1>7. CASE UserDeletesCronJob(k)
    BY <1>7 DEF TypeOK, UserDeletesCronJob, WriteCronJob, repoVars, readyVars
  <1>8. QED
    BY <1>1, <1>2, <1>3, <1>4, <1>5, <1>6, <1>7

(* Any write of a CronJob keeps the types.                                 *)
LEMMA WriteCronJobType ==
    ASSUME TypeOK, NEW k \in Keys, NEW cj \in CronJob \cup {Nil}, WriteCronJob(k, cj)
    PROVE  /\ cronjobs' \in [Keys -> CronJob \cup {Nil}]
           /\ cronjobWatch' \in [Keys -> Seq({"created", "deleted"})]
  <1>1. cronjobs' \in [Keys -> CronJob \cup {Nil}]
    BY DEF TypeOK, WriteCronJob
  <1>2. cronjobWatch' \in [Keys -> Seq({"created", "deleted"})]
    BY DEF TypeOK, WriteCronJob
  <1>3. QED
    BY <1>1, <1>2

(* The worker's next states.                                               *)
LEMMA WorkerType ==
    ASSUME NEW k \in Keys
    PROVE  /\ \A pc \in {"lookup"} \cup CleanupPCs : At(pc, k, Nil) \in WorkerState
           /\ \A pc \in SyncPCs, r \in Repo : At(pc, k, r) \in WorkerState
           /\ Idle \in WorkerState
  BY DEF WorkerState, At

(* Where a worker is tells what it holds.                                  *)
LEMMA WorkerLocals ==
    ASSUME TypeOK, NEW w \in Workers
    PROVE  /\ workers[w].pc # "idle" => workers[w].key \in Keys
           /\ workers[w].pc \in SyncPCs => workers[w].repo \in Repo
           /\ workers[w].pc \in {"lookup"} \cup CleanupPCs => workers[w].repo = Nil
           /\ workers[w].pc \in {"idle", "lookup"} \cup CleanupPCs \cup SyncPCs
           /\ workers[w].pc = "idle" => workers[w].key = Nil
  <1>1. workers[w] \in WorkerState
    BY DEF TypeOK
  <1>2. QED
    BY <1>1 DEF WorkerState, Idle, At, SyncPCs, CleanupPCs

LEMMA SyncHandlerType ==
    ASSUME TypeOK, NEW w \in Workers, syncHandler(w)
    PROVE  TypeOK'
  <1> DEFINE k == workers[w].key
             r == workers[w].repo
  <1>1. CASE LookupRepo(w)
    <2>1. k \in Keys
      BY <1>1, WorkerLocals DEF LookupRepo
    <2>2. At(IF repoCache[k] = Nil THEN "cleanupJob" ELSE "getCron", k, repoCache[k])
            \in WorkerState
      <3>1. repoCache[k] = Nil \/ repoCache[k] \in Repo
        BY <2>1 DEF TypeOK
      <3>2. QED
        BY <2>1, <3>1, WorkerType DEF CleanupPCs, SyncPCs
    <2>3. QED
      BY <1>1, <2>2 DEF TypeOK, LookupRepo, apiVars, repoVars, cronVars, readyVars
  <1>2. CASE LookupCronJob(w)
    <2>1. k \in Keys /\ r \in Repo
      BY <1>2, WorkerLocals DEF LookupCronJob, SyncPCs
    <2>2. At(IF k \in cronjobCache THEN "updateCron" ELSE "createCron", k, r) \in WorkerState
      BY <2>1, WorkerType DEF SyncPCs
    <2>3. QED
      BY <1>2, <2>2 DEF TypeOK, LookupCronJob, apiVars, repoVars, cronVars, readyVars
  <1>3. ASSUME k \in Keys, NEW pc, At(pc, k, r) \in WorkerState, Proceed(w, pc)
        PROVE  /\ workers' \in [Workers -> WorkerState]
               /\ dropped' \subseteq Keys /\ delayed' \subseteq Keys /\ dirty' \subseteq Keys
               /\ processing' \subseteq Keys /\ queue' \in Seq(Keys)
    BY <1>3 DEF TypeOK, Proceed, readyVars
  <1>4. ASSUME k \in Keys, Succeed(w) \/ Fail(w)
        PROVE  /\ workers' \in [Workers -> WorkerState]
               /\ dropped' \subseteq Keys /\ delayed' \subseteq Keys /\ dirty' \subseteq Keys
               /\ processing' \subseteq Keys /\ queue' \in Seq(Keys)
    <2>1. workers' \in [Workers -> WorkerState]
      BY <1>4, WorkerType DEF TypeOK, Succeed, Fail
    <2>2. Done(k) /\ dropped' \subseteq Keys
      BY <1>4 DEF TypeOK, Succeed, Fail
    <2>3. queue' \in Seq(Keys)
      BY <1>4, <2>2 DEF TypeOK, Done
    <2>4. QED
      BY <2>1, <2>2, <2>3 DEF TypeOK, Done
  <1>5. ASSUME NEW reply \in Replies, Spend(reply)
        PROVE  faults' \in 0..MaxFaults
    BY <1>5 DEF TypeOK, Spend
  <1>6. ASSUME NEW reply \in Replies, CreateCleanupJob(w, reply)
        PROVE  TypeOK'
    <2>1. k \in Keys /\ At("cleanupCron", k, r) \in WorkerState
      BY <1>6, WorkerLocals, WorkerType DEF CreateCleanupJob, CleanupPCs
    <2>2. lastJob' \in [Keys -> SyncJob \cup {Nil, Cleanup}]
      BY <1>6, <2>1 DEF TypeOK, CreateCleanupJob
    <2>3. Spend(reply) /\ (Proceed(w, "cleanupCron") \/ Fail(w))
      BY <1>6 DEF CreateCleanupJob
    <2>4. QED
      BY <1>3, <1>4, <1>5, <1>6, <2>1, <2>2, <2>3
      DEF TypeOK, CreateCleanupJob, repoVars, cronVars
  <1>7. ASSUME NEW reply \in Replies, DeleteCronJob(w, reply)
        PROVE  TypeOK'
    <2>1. k \in Keys
      BY <1>7, WorkerLocals DEF DeleteCronJob, CleanupPCs
    <2>2. cronjobs' \in [Keys -> CronJob \cup {Nil}] /\ cronjobWatch' \in [Keys -> Seq({"created", "deleted"})]
      BY <1>7, <2>1, WriteCronJobType DEF TypeOK, DeleteCronJob
    <2>3. Spend(reply) /\ (Succeed(w) \/ Fail(w))
      BY <1>7 DEF DeleteCronJob
    <2>4. QED
      BY <1>4, <1>5, <1>7, <2>1, <2>2, <2>3 DEF TypeOK, DeleteCronJob, repoVars
  <1>8. ASSUME k \in Keys, r \in Repo, WriteCronJob(k, newCronJob(k, r))
        PROVE  /\ cronjobs' \in [Keys -> CronJob \cup {Nil}]
               /\ cronjobWatch' \in [Keys -> Seq({"created", "deleted"})]
    <2>1. newCronJob(k, r) \in CronJob
      BY <1>8 DEF newCronJob, ownerReferencesForAppRepo, CronJob, Repo
    <2>2. QED
      BY <1>8, <2>1, WriteCronJobType
  <1>9. ASSUME NEW reply \in Replies, CreateCronJob(w, reply) \/ UpdateCronJob(w, reply)
        PROVE  TypeOK'
    <2>1. k \in Keys /\ r \in Repo /\ At("syncJob", k, r) \in WorkerState
      BY <1>9, WorkerLocals, WorkerType DEF CreateCronJob, UpdateCronJob, SyncPCs
    <2>2. \/ WriteCronJob(k, newCronJob(k, r))
          \/ UNCHANGED <<cronjobs, cronjobWatch>>
      BY <1>9 DEF CreateCronJob, UpdateCronJob
    <2>3. cronjobs' \in [Keys -> CronJob \cup {Nil}] /\ cronjobWatch' \in [Keys -> Seq({"created", "deleted"})]
      BY <1>8, <2>1, <2>2 DEF TypeOK
    <2>4. Spend(reply) /\ (Proceed(w, "syncJob") \/ Fail(w))
      BY <1>9 DEF CreateCronJob, UpdateCronJob
    <2>5. UNCHANGED <<repos, lastJob, rv, repoVars, cronjobCache>>
      BY <1>9 DEF CreateCronJob, UpdateCronJob
    <2>6. QED
      BY <1>3, <1>4, <1>5, <2>1, <2>3, <2>4, <2>5 DEF TypeOK, repoVars
  <1>10. ASSUME NEW reply \in Replies, CreateSyncJob(w, reply)
         PROVE  TypeOK'
    <2>1. k \in Keys /\ r \in Repo
      BY <1>10, WorkerLocals DEF CreateSyncJob, SyncPCs
    <2>2. newSyncJob(r) \in SyncJob
      BY <2>1 DEF newSyncJob, SyncJob, Repo
    <2>3. lastJob' \in [Keys -> SyncJob \cup {Nil, Cleanup}]
      BY <1>10, <2>1, <2>2 DEF TypeOK, CreateSyncJob
    <2>4. Spend(reply) /\ (Succeed(w) \/ Fail(w))
      BY <1>10 DEF CreateSyncJob
    <2>5. QED
      BY <1>4, <1>5, <1>10, <2>1, <2>3, <2>4 DEF TypeOK, CreateSyncJob, repoVars, cronVars
  <1>11. QED
    BY <1>1, <1>2, <1>6, <1>7, <1>9, <1>10 DEF syncHandler

(* Every variable keeps its type: in particular a worker that is about to  *)
(* write a CronJob holds an AppRepository and one that cleans up does not. *)
THEOREM TypeCorrect == Spec => []TypeOK
  <1>1. Init => TypeOK
    <2> SUFFICES ASSUME Init
                 PROVE  TypeOK
      OBVIOUS
    <2>1. NewRepo(InstalledUrl, 1) \in Repo
      BY InstalledAssumption DEF Repo, NewRepo
    <2>2. repos \in [Keys -> Repo \cup {Nil}]
      BY <2>1 DEF Init
    <2>3. repoWatch \in [Keys -> Seq(Repo \cup {Nil})]
      <3>1. ASSUME NEW k \in Keys
            PROVE  <<repos[k]>> \in Seq(Repo \cup {Nil})
        BY <2>2
      <3>2. <<>> \in Seq(Repo \cup {Nil})
        OBVIOUS
      <3>3. repoWatch = [k \in Keys |-> IF k \in Installed THEN <<repos[k]>> ELSE <<>>]
        BY DEF Init
      <3>4. QED
        BY <3>1, <3>2, <3>3, Zenon
    <2>4. QED
      BY <2>2, <2>3 DEF Init, TypeOK, WorkerState
  <1>2. TypeOK /\ [Next]_vars => TypeOK'
    <2> SUFFICES ASSUME TypeOK, [Next]_vars
                 PROVE  TypeOK'
      OBVIOUS
    <2>1. CASE User
      BY <2>1, UserType
    <2>2. ASSUME NEW k \in Keys, CollectCronJob(k)
          PROVE  TypeOK'
      BY <2>2, WriteCronJobType DEF TypeOK, CollectCronJob, repoVars, readyVars
    <2>3. ASSUME NEW k \in Keys, FinishForegroundDelete(k)
          PROVE  TypeOK'
      BY <2>3 DEF TypeOK, FinishForegroundDelete, cronVars, readyVars
    <2>4. ASSUME NEW k \in Keys, DeliverRepoEvent(k)
          PROVE  TypeOK'
      <3>1. /\ Head(repoWatch[k]) \in Repo \cup {Nil}
            /\ Tail(repoWatch[k]) \in Seq(Repo \cup {Nil})
        BY <2>4 DEF TypeOK, DeliverRepoEvent
      <3>2. repoCache' \in [Keys -> Repo \cup {Nil}]
        BY <2>4, <3>1 DEF TypeOK, DeliverRepoEvent
      <3>3. repoWatch' \in [Keys -> Seq(Repo \cup {Nil})]
        BY <2>4, <3>1 DEF TypeOK, DeliverRepoEvent
      <3>4. delayed' \subseteq Keys
        BY <2>4 DEF TypeOK, DeliverRepoEvent
      <3>5. QED
        BY <2>4, <3>2, <3>3, <3>4 DEF TypeOK, DeliverRepoEvent, apiVars, cronVars, readyVars
    <2>5. ASSUME NEW k \in Keys, DeliverCronJobEvent(k)
          PROVE  TypeOK'
      <3>1. Tail(cronjobWatch[k]) \in Seq({"created", "deleted"})
        BY <2>5 DEF TypeOK, DeliverCronJobEvent
      <3>2. cronjobCache' \subseteq Keys
        BY <2>5 DEF TypeOK, DeliverCronJobEvent
      <3>3. cronjobWatch' \in [Keys -> Seq({"created", "deleted"})]
        BY <2>5, <3>1 DEF TypeOK, DeliverCronJobEvent
      <3>4. delayed' \subseteq Keys /\ dropped' \subseteq Keys
        BY <2>5 DEF TypeOK, DeliverCronJobEvent, handleObject
      <3>5. QED
        BY <2>5, <3>2, <3>3, <3>4 DEF TypeOK, DeliverCronJobEvent, apiVars, repoVars, readyVars
    <2>6. ASSUME NEW k \in Keys, DelayElapsed(k)
          PROVE  TypeOK'
      BY <2>6 DEF TypeOK, DelayElapsed, apiVars, repoVars, cronVars
    <2>7. CASE RelistRepos
      BY <2>7 DEF TypeOK, RelistRepos, BreakWatch, apiVars, cronVars, readyVars
    <2>8. CASE RelistCronJobs
      <3>1. cronjobCache' \subseteq Keys /\ cronjobWatch' \in [Keys -> Seq({"created", "deleted"})]
        BY <2>8 DEF TypeOK, RelistCronJobs
      <3>2. delayed' \subseteq Keys /\ dropped' \subseteq Keys
        BY <2>8 DEF TypeOK, RelistCronJobs, handleObject
      <3>3. QED
        BY <2>8, <3>1, <3>2
        DEF TypeOK, RelistCronJobs, BreakWatch, apiVars, repoVars, readyVars
    <2>9. ASSUME NEW w \in Workers, Get(w)
          PROVE  TypeOK'
      <3>1. Head(queue) \in Keys /\ Tail(queue) \in Seq(Keys)
        BY <2>9 DEF TypeOK, Get
      <3>2. At("lookup", Head(queue), Nil) \in WorkerState
        BY <3>1, WorkerType
      <3>3. QED
        BY <2>9, <3>1, <3>2 DEF TypeOK, Get, apiVars, repoVars, cronVars
    <2>10. ASSUME NEW w \in Workers, syncHandler(w)
           PROVE  TypeOK'
      BY <2>10, SyncHandlerType
    <2>11. CASE Restart
      <3>1. workers' \in [Workers -> WorkerState]
        BY <2>11 DEF Restart, WorkerState
      <3>2. cronjobCache' \subseteq Keys /\ cronjobWatch' \in [Keys -> Seq({"created", "deleted"})]
        BY <2>11 DEF TypeOK, Restart
      <3>3. /\ delayed' \subseteq Keys /\ dropped' \subseteq Keys /\ dirty' \subseteq Keys
            /\ processing' \subseteq Keys /\ queue' \in Seq(Keys)
        BY <2>11 DEF TypeOK, Restart
      <3>4. repoCache' \in [Keys -> Repo \cup {Nil}] /\ repoWatch' \in [Keys -> Seq(Repo \cup {Nil})]
        BY <2>11 DEF TypeOK, Restart
      <3>5. QED
        BY <2>11, <3>1, <3>2, <3>3, <3>4 DEF TypeOK, Restart, apiVars
    <2>12. CASE UNCHANGED vars
      BY <2>12 DEF TypeOK, vars, apiVars, repoVars, cronVars, readyVars
    <2>13. QED
      BY <2>1, <2>2, <2>3, <2>4, <2>5, <2>6, <2>7, <2>8, <2>9, <2>10, <2>11, <2>12
      DEF Next, Cluster
  <1>3. QED
    BY <1>1, <1>2, PTL DEF Spec

-----------------------------------------------------------------------------
(* The work queue hands a key to one worker at a time.                     *)

(* A busy worker either moves on with its key or gives it back.            *)
Moves(w) ==
    /\ \E pc, r : workers' = [workers EXCEPT ![w] = At(pc, workers[w].key, r)]
    /\ UNCHANGED readyVars

Finishes(w) ==
    /\ workers' = [workers EXCEPT ![w] = Idle]
    /\ Done(workers[w].key)

LEMMA SyncHandlerQueue ==
    ASSUME NEW w \in Workers, syncHandler(w)
    PROVE  workers[w].pc # "idle" /\ (Moves(w) \/ Finishes(w))
  <1>1. CASE LookupRepo(w)
    BY <1>1 DEF LookupRepo, Moves
  <1>2. CASE LookupCronJob(w)
    BY <1>2 DEF LookupCronJob, Moves
  <1>3. ASSUME NEW pc, Proceed(w, pc)
        PROVE  Moves(w)
    BY <1>3 DEF Proceed, Moves
  <1>4. Succeed(w) \/ Fail(w) => Finishes(w)
    BY DEF Succeed, Fail, Finishes
  <1>5. ASSUME NEW reply \in Replies,
               \/ CreateCleanupJob(w, reply) \/ DeleteCronJob(w, reply)
               \/ CreateCronJob(w, reply) \/ UpdateCronJob(w, reply)
               \/ CreateSyncJob(w, reply)
        PROVE  workers[w].pc # "idle" /\ (Moves(w) \/ Finishes(w))
    BY <1>3, <1>4, <1>5
    DEF CreateCleanupJob, DeleteCronJob, CreateCronJob, UpdateCronJob, CreateSyncJob
  <1>6. QED
    BY <1>1, <1>2, <1>5 DEF syncHandler, LookupRepo, LookupCronJob

LEMMA MoveKeepsQueue ==
    ASSUME TypeOK, QueueInv, OneWorkerPerKey, NEW w \in Workers,
           workers[w].pc # "idle", Moves(w)
    PROVE  QueueInv' /\ OneWorkerPerKey'
  <1>1. PICK pc, r : workers' = [workers EXCEPT ![w] = At(pc, workers[w].key, r)]
    BY DEF Moves
  <1>2. /\ workers'[w].key = workers[w].key
        /\ \A v \in Workers \ {w} : workers'[v] = workers[v]
    BY <1>1 DEF TypeOK, At
  <1>3. QED
    BY <1>2 DEF Moves, QueueInv, OneWorkerPerKey, readyVars

LEMMA FinishKeepsQueue ==
    ASSUME TypeOK, QueueInv, OneWorkerPerKey, NEW w \in Workers,
           workers[w].pc # "idle", Finishes(w)
    PROVE  QueueInv' /\ OneWorkerPerKey'
  <1> DEFINE k == workers[w].key
  <1>1. /\ workers'[w].pc = "idle" /\ workers'[w].key = Nil
        /\ \A v \in Workers \ {w} : workers'[v] = workers[v]
    BY DEF TypeOK, Finishes, Idle, At
  <1>2. k \in processing /\ k \in Keys
    BY WorkerLocals DEF QueueInv
  <1>3. ASSUME NEW v \in Workers \ {w}, workers[v].pc # "idle"
        PROVE  workers[v].key \in processing \ {k} /\ workers[v].key # Nil
    BY <1>3, WorkerLocals DEF QueueInv, OneWorkerPerKey
  <1>4. OneWorkerPerKey'
    BY <1>1, <1>3 DEF OneWorkerPerKey
  <1>5. \A v \in Workers : workers'[v].pc # "idle" => workers'[v].key \in processing'
    BY <1>1, <1>3 DEF Finishes, Done
  <1>6. CASE k \in dirty
    <2>1. queue' = Append(queue, k) /\ processing' = processing \ {k} /\ dirty' = dirty
      BY <1>6 DEF Finishes, Done
    <2>2. \A i \in 1..Len(queue) : queue[i] # k
      BY <1>2 DEF QueueInv
    <2>3. /\ Len(queue') = Len(queue) + 1
          /\ \A i \in 1..Len(queue) : queue'[i] = queue[i]
          /\ queue'[Len(queue) + 1] = k
      BY <1>2, <2>1 DEF TypeOK
    <2>4. Len(queue) \in Nat
      BY DEF TypeOK
    <2>5. QED
      BY <1>4, <1>5, <1>6, <2>1, <2>2, <2>3, <2>4 DEF QueueInv
  <1>7. CASE k \notin dirty
    <2>1. queue' = queue /\ processing' = processing \ {k} /\ dirty' = dirty
      BY <1>7 DEF Finishes, Done
    <2>2. QED
      BY <1>4, <1>5, <2>1 DEF QueueInv
  <1>8. QED
    BY <1>6, <1>7

LEMMA QueueStep ==
    ASSUME TypeOK, QueueInv, OneWorkerPerKey, [Next]_vars
    PROVE  QueueInv' /\ OneWorkerPerKey'
  <1>1. ASSUME UNCHANGED <<readyVars, workers>>
        PROVE  QueueInv' /\ OneWorkerPerKey'
    BY <1>1 DEF QueueInv, OneWorkerPerKey, readyVars
  <1>2. CASE User
    BY <1>1, <1>2 DEF User, CreateAppRepository, UpdateAppRepository, RefreshAppRepository,
       DeleteAppRepository, ForegroundDelete, PutRepo, UserDeletesCronJob
  <1>3. ASSUME NEW k \in Keys,
               Cluster(k) \/ DeliverRepoEvent(k) \/ DeliverCronJobEvent(k)
        PROVE  QueueInv' /\ OneWorkerPerKey'
    BY <1>1, <1>3 DEF Cluster, CollectCronJob, FinishForegroundDelete,
       DeliverRepoEvent, DeliverCronJobEvent
  <1>4. CASE RelistRepos \/ RelistCronJobs
    BY <1>1, <1>4 DEF RelistRepos, RelistCronJobs
  <1>5. ASSUME NEW k \in Keys, DelayElapsed(k)
        PROVE  QueueInv' /\ OneWorkerPerKey'
    <2>1. workers' = workers /\ processing' = processing /\ dirty' = dirty \cup {k}
      BY <1>5 DEF DelayElapsed
    <2>2. OneWorkerPerKey'
      BY <2>1 DEF OneWorkerPerKey
    <2>3. CASE k \in dirty \/ k \in processing
      <3>1. queue' = queue
        BY <1>5, <2>3 DEF DelayElapsed
      <3>2. QED
        BY <2>1, <2>2, <3>1 DEF QueueInv
    <2>4. CASE k \notin dirty /\ k \notin processing
      <3>1. queue' = Append(queue, k)
        BY <1>5, <2>4 DEF DelayElapsed
      <3>2. /\ Len(queue') = Len(queue) + 1
            /\ \A i \in 1..Len(queue) : queue'[i] = queue[i]
            /\ queue'[Len(queue) + 1] = k
            /\ Len(queue) \in Nat
        BY <3>1 DEF TypeOK
      <3>3. \A i \in 1..Len(queue) : queue[i] # k
        BY <2>4 DEF QueueInv
      <3>4. QED
        BY <2>1, <2>2, <2>4, <3>2, <3>3 DEF QueueInv
    <2>5. QED
      BY <2>3, <2>4
  <1>6. ASSUME NEW w \in Workers, Get(w)
        PROVE  QueueInv' /\ OneWorkerPerKey'
    <2> DEFINE k == Head(queue)
    <2>1. /\ k = queue[1] /\ Len(queue) \in Nat \ {0} /\ 1 \in 1..Len(queue)
          /\ Len(queue') = Len(queue) - 1
          /\ \A i \in 1..Len(queue') : queue'[i] = queue[i + 1] /\ i + 1 \in 1..Len(queue)
      BY <1>6 DEF TypeOK, Get
    <2>2. k \notin processing
      BY <2>1 DEF QueueInv
    <2>3. /\ workers'[w].key = k
          /\ \A v \in Workers \ {w} : workers'[v] = workers[v]
      BY <1>6 DEF TypeOK, Get, At
    <2>4. OneWorkerPerKey'
      <3>1. \A v \in Workers \ {w} : workers[v].pc # "idle" => workers[v].key # k
        BY <2>2 DEF QueueInv
      <3>2. \A v \in Workers \ {w} : workers[v].pc = "idle" => workers[v].key = Nil
        BY WorkerLocals
      <3>3. k # Nil
        BY <2>1 DEF TypeOK
      <3>4. QED
        BY <2>3, <3>1, <3>2, <3>3 DEF OneWorkerPerKey
    <2>5. processing' = processing \cup {k} /\ dirty' = dirty \ {k}
      BY <1>6 DEF Get
    <2>6. \A i \in 1..Len(queue') : queue'[i] # k
      BY <2>1 DEF QueueInv
    <2>7. \A i, j \in 1..Len(queue') : i # j => queue'[i] # queue'[j]
      BY <2>1 DEF QueueInv
    <2>8. \A i \in 1..Len(queue') : queue'[i] \in dirty' /\ queue'[i] \notin processing'
      BY <2>1, <2>5, <2>6 DEF QueueInv
    <2>9. \A v \in Workers : workers'[v].pc # "idle" => workers'[v].key \in processing'
      BY <2>3, <2>5 DEF QueueInv
    <2>10. QED
      BY <2>4, <2>7, <2>8, <2>9 DEF QueueInv
  <1>7. ASSUME NEW w \in Workers, syncHandler(w)
        PROVE  QueueInv' /\ OneWorkerPerKey'
    BY <1>7, SyncHandlerQueue, MoveKeepsQueue, FinishKeepsQueue
  <1>8. CASE Restart
    BY <1>8 DEF Restart, QueueInv, OneWorkerPerKey, Idle, At
  <1>9. CASE UNCHANGED vars
    BY <1>1, <1>9 DEF vars
  <1>10. QED
    BY <1>2, <1>3, <1>4, <1>5, <1>6, <1>7, <1>8, <1>9 DEF Next

-----------------------------------------------------------------------------
(* No update is lost. The invariant needs the queue's, which keeps two     *)
(* workers off a key, and what each worker relies on while in syncHandler. *)

DeliveryInv == WatchInv /\ (\A w \in Workers : InFlight(w)) /\ NoLostUpdate

LEMMA WriteCronJobHeard ==
    ASSUME TypeOK, NEW k \in Keys, NEW cj \in CronJob \cup {Nil}, WriteCronJob(k, cj),
           cronjobCache' = cronjobCache, WatchInv
    PROVE  /\ WatchInv'
           /\ cronjobs'[k] = cj
           /\ \A j \in Keys \ {k} : cronjobs'[j] = cronjobs[j] /\ cronjobWatch'[j] = cronjobWatch[j]
           /\ cronjobs[k] # Nil /\ cj = Nil => cronjobWatch'[k] # <<>>
  <1>1. /\ cronjobs'[k] = cj
        /\ \A j \in Keys \ {k} : cronjobs'[j] = cronjobs[j] /\ cronjobWatch'[j] = cronjobWatch[j]
    BY DEF TypeOK, WriteCronJob
  <1>2. \A j \in Keys \ {k} : Heard(j)'
    BY <1>1 DEF WatchInv, Heard
  <1>3. CASE (cj = Nil) = (cronjobs[k] = Nil)
    <2>1. cronjobWatch' = cronjobWatch
      BY <1>3 DEF WriteCronJob
    <2>2. Heard(k)'
      BY <1>1, <1>3, <2>1 DEF WatchInv, Heard
    <2>3. QED
      BY <1>1, <1>2, <1>3, <2>2 DEF WatchInv
  <1>4. CASE (cj = Nil) # (cronjobs[k] = Nil)
    <2> DEFINE e == IF cj = Nil THEN "deleted" ELSE "created"
    <2>1. cronjobWatch'[k] = Append(cronjobWatch[k], e)
      BY <1>4 DEF TypeOK, WriteCronJob
    <2>2. /\ cronjobWatch'[k] # <<>>
          /\ cronjobWatch'[k][Len(cronjobWatch'[k])] = e
      <3>1. cronjobWatch[k] \in Seq({"created", "deleted"}) /\ e \in {"created", "deleted"}
        BY DEF TypeOK
      <3> HIDE DEF e
      <3>2. QED
        BY <2>1, <3>1
    <2>3. Heard(k)'
      BY <1>1, <2>2 DEF Heard
    <2>4. QED
      BY <1>1, <1>2, <2>2, <2>3 DEF WatchInv
  <1>5. QED
    BY <1>3, <1>4

(* What does not concern the listers' view of things changes nothing.      *)
LEMMA ViewKept ==
    ASSUME DeliveryInv,
           UNCHANGED <<repoCache, cronjobs, cronVars, lastJob, delayed, readyVars,
                       workers, dropped>>
    PROVE  DeliveryInv'
  BY DEF DeliveryInv, WatchInv, Heard, InFlight, CronJobKept, Fresh, SameSpec,
     NoLostUpdate, Settled, Pending, Served, cronVars, readyVars

(* A CronJob that disappears is on its way to the informer.                *)
LEMMA CronJobGone ==
    ASSUME TypeOK, DeliveryInv, NEW k \in Keys, cronjobs[k] # Nil, WriteCronJob(k, Nil),
           UNCHANGED <<repoCache, cronjobCache, lastJob, delayed, readyVars, workers, dropped>>
    PROVE  DeliveryInv'
  <1>1. /\ WatchInv'
        /\ cronjobs'[k] = Nil /\ cronjobWatch'[k] # <<>>
        /\ \A j \in Keys \ {k} : cronjobs'[j] = cronjobs[j] /\ cronjobWatch'[j] = cronjobWatch[j]
    BY WriteCronJobHeard DEF DeliveryInv
  <1>2. ASSUME NEW w \in Workers
        PROVE  InFlight(w)'
    <2>1. InFlight(w) /\ (workers[w].pc = "syncJob" => workers[w].key \in Keys)
      BY WorkerLocals DEF DeliveryInv
    <2>2. CASE workers[w].pc = "syncJob"
      <3>1. CronJobKept(workers[w].key, workers[w].repo.url)'
        BY <1>1, <2>1, <2>2 DEF InFlight, CronJobKept, Fresh, readyVars
      <3>2. QED
        BY <2>1, <3>1 DEF InFlight, Fresh, SameSpec, readyVars
    <2>3. CASE workers[w].pc # "syncJob"
      BY <2>1, <2>3 DEF InFlight, Fresh, SameSpec, readyVars
    <2>4. QED
      BY <2>2, <2>3
  <1>3. NoLostUpdate'
    BY <1>1 DEF DeliveryInv, NoLostUpdate, Settled, Pending, Served, readyVars
  <1>4. QED
    BY <1>1, <1>2, <1>3 DEF DeliveryInv

(* The informer moves the lister on and enqueues what matters.             *)
LEMMA RepoCacheMoves ==
    ASSUME TypeOK, DeliveryInv,
           repoCache' \in [Keys -> Repo \cup {Nil}],
           delayed \subseteq delayed',
           \A k \in Keys : Enqueues(repoCache[k], repoCache'[k]) => k \in delayed',
           UNCHANGED <<cronjobs, cronVars, lastJob, readyVars, workers, dropped>>
    PROVE  DeliveryInv'
  <1>1. WatchInv'
    BY DEF DeliveryInv, WatchInv, Heard, cronVars
  <1>2. ASSUME NEW k \in Keys
        PROVE  \/ k \in delayed'
               \/ repoCache[k] = Nil /\ repoCache'[k] = Nil
               \/ SameSpec(repoCache[k], repoCache'[k])
    BY DEF Enqueues, SameSpec
  <1>3. ASSUME NEW w \in Workers
        PROVE  InFlight(w)'
    <2>1. InFlight(w) /\ workers' = workers
      BY DEF DeliveryInv
    <2>2. CASE workers[w].pc \in CleanupPCs \cup SyncPCs
      <3>1. workers[w].key \in Keys
        BY <2>2, WorkerLocals DEF CleanupPCs, SyncPCs
      <3>2. QED
        BY <1>2, <2>1, <3>1 DEF InFlight, CronJobKept, Fresh, SameSpec, readyVars, cronVars
    <2>3. CASE workers[w].pc \notin CleanupPCs \cup SyncPCs
      BY <2>1, <2>3 DEF InFlight, CleanupPCs, SyncPCs
    <2>4. QED
      BY <2>2, <2>3
  <1>4. NoLostUpdate'
    BY <1>2 DEF DeliveryInv, NoLostUpdate, Settled, Pending, Served, SameSpec, readyVars, cronVars
  <1>5. QED
    BY <1>1, <1>3, <1>4 DEF DeliveryInv

(* The informer hears of CronJobs and forgets no disappearance.            *)
LEMMA CronJobSeen ==
    ASSUME TypeOK, DeliveryInv, WatchInv',
           delayed \subseteq delayed', dropped \subseteq dropped',
           \A k \in KubeappsKeys :
               repoCache[k] # Nil /\ cronjobs[k] = Nil /\ cronjobWatch[k] # <<>>
                   => cronjobWatch'[k] # <<>> \/ k \in delayed' \/ k \in dropped',
           UNCHANGED <<repoCache, cronjobs, lastJob, readyVars, workers>>
    PROVE  DeliveryInv'
  <1>1. ASSUME NEW w \in Workers
        PROVE  InFlight(w)'
    <2>1. InFlight(w) /\ workers' = workers
      BY DEF DeliveryInv
    <2>2. CASE workers[w].pc = "syncJob"
      <3> DEFINE k == workers[w].key
                 r == workers[w].repo
      <3>1. Fresh(k)' \/ SameSpec(repoCache[k], r)'
        BY <2>1, <2>2 DEF InFlight, SyncPCs, Fresh, SameSpec, readyVars
      <3>2. Fresh(k) => Fresh(k)'
        BY DEF Fresh, readyVars
      <3>3. CronJobKept(k, r.url)
        BY <2>1, <2>2 DEF InFlight
      <3>4. Fresh(k) \/ repoCache[k] # Nil
        BY <2>1, <2>2 DEF InFlight, SyncPCs, SameSpec
      <3>5. CronJobKept(k, r.url)'
        BY <2>1, <3>2, <3>3, <3>4 DEF CronJobKept, Fresh
      <3>6. QED
        BY <2>1, <2>2, <3>1, <3>5 DEF InFlight, CleanupPCs
    <2>3. CASE workers[w].pc # "syncJob"
      BY <2>1, <2>3 DEF InFlight, Fresh, SameSpec, readyVars
    <2>4. QED
      BY <2>2, <2>3
  <1>2. NoLostUpdate'
    BY DEF DeliveryInv, NoLostUpdate, Settled, Pending, Served, readyVars
  <1>3. QED
    BY <1>1, <1>2 DEF DeliveryInv

(* Taking the head of a sequence leaves its last element, if any is left.  *)
LEMMA TailLast ==
    ASSUME NEW S, NEW s \in Seq(S), s # <<>>
    PROVE  /\ Tail(s) = <<>> => Len(s) = 1 /\ s[Len(s)] = Head(s)
           /\ Tail(s) # <<>> => Tail(s)[Len(Tail(s))] = s[Len(s)]
           /\ Head(s) \in S
  <1> DEFINE n == Len(s)
  <1>1. n \in Nat /\ n # 0 /\ Head(s) = s[1] /\ Head(s) \in S
    OBVIOUS
  <1>2. Tail(s) \in Seq(S) /\ Len(Tail(s)) = n - 1
    OBVIOUS
  <1>3. \A i \in 1..(n - 1) : Tail(s)[i] = s[i + 1]
    OBVIOUS
  <1>4. Tail(s) = <<>> <=> Len(Tail(s)) = 0
    BY <1>2, EmptySeq
  <1> HIDE DEF n
  <1>5. Tail(s) = <<>> => n = 1
    BY <1>1, <1>2, <1>4
  <1>6. Tail(s) # <<>> => n - 1 \in 1..(n - 1) /\ (n - 1) + 1 = n
    BY <1>1, <1>2, <1>4
  <1>7. Tail(s) # <<>> => Tail(s)[n - 1] = s[n]
    BY <1>3, <1>6
  <1>8. QED
    BY <1>1, <1>2, <1>5, <1>7 DEF n

LEMMA CronJobEvents ==
    ASSUME TypeOK, DeliveryInv, RelistCronJobs \/ \E k \in Keys : DeliverCronJobEvent(k)
    PROVE  DeliveryInv'
  <1>1. CASE RelistCronJobs
    <2>1. WatchInv'
      BY <1>1 DEF RelistCronJobs, WatchInv, Heard, apiVars
    <2>2. delayed \subseteq delayed' /\ dropped \subseteq dropped'
      BY <1>1 DEF RelistCronJobs, handleObject
    <2>3. \A k \in KubeappsKeys :
              repoCache[k] # Nil /\ cronjobs[k] = Nil /\ cronjobWatch[k] # <<>>
                  => k \in delayed' \/ k \in dropped'
      BY <1>1 DEF RelistCronJobs, handleObject, OwnerFound
    <2>4. QED
      BY <1>1, <2>1, <2>2, <2>3, CronJobSeen DEF RelistCronJobs, apiVars, repoVars
  <1>2. ASSUME NEW k \in Keys, DeliverCronJobEvent(k)
        PROVE  DeliveryInv'
    <2> DEFINE s == cronjobWatch[k]
    <2>1. /\ s \in Seq({"created", "deleted"}) /\ s # <<>>
          /\ cronjobWatch'[k] = Tail(s)
          /\ \A j \in Keys \ {k} : cronjobWatch'[j] = cronjobWatch[j]
          /\ UNCHANGED <<repoCache, cronjobs, lastJob, readyVars, workers>>
      BY <1>2 DEF DeliverCronJobEvent, TypeOK, apiVars, repoVars
    <2>2. /\ Tail(s) = <<>> => Len(s) = 1 /\ s[Len(s)] = Head(s)
          /\ Tail(s) # <<>> => Tail(s)[Len(Tail(s))] = s[Len(s)]
          /\ Head(s) \in {"created", "deleted"}
      <3> HIDE DEF s
      <3>1. QED
        BY <2>1, TailLast
    <2>3. s[Len(s)] = "created" <=> cronjobs[k] # Nil
      BY <2>1 DEF DeliveryInv, WatchInv, Heard
    <2>4. /\ Head(s) = "created" => cronjobCache' = cronjobCache \cup {k}
          /\ Head(s) = "deleted" => cronjobCache' = cronjobCache \ {k} /\ handleObject({k}, {})
          /\ Head(s) = "created" => UNCHANGED <<delayed, dropped>>
      BY <1>2 DEF DeliverCronJobEvent
    <2>5. Heard(k)'
      BY <2>1, <2>2, <2>3, <2>4 DEF Heard
    <2>6. \A j \in Keys \ {k} : j \in cronjobCache' <=> j \in cronjobCache
      BY <2>2, <2>4
    <2>7. WatchInv'
      BY <2>1, <2>5, <2>6 DEF DeliveryInv, WatchInv, Heard
    <2>8. delayed \subseteq delayed' /\ dropped \subseteq dropped'
      BY <2>2, <2>4 DEF handleObject
    <2>9. k \in KubeappsKeys /\ repoCache[k] # Nil /\ cronjobs[k] = Nil
              => cronjobWatch'[k] # <<>> \/ k \in delayed' \/ k \in dropped'
      BY <2>1, <2>2, <2>3, <2>4 DEF handleObject, OwnerFound
    <2>10. QED
      BY <2>1, <2>7, <2>8, <2>9, CronJobSeen
  <1>3. QED
    BY <1>1, <1>2

(* The timer and Get move a key from one part of the queue to another.     *)
LEMMA QueueMoves ==
    ASSUME TypeOK, QueueInv, DeliveryInv,
           (\E k \in Keys : DelayElapsed(k)) \/ (\E w \in Workers : Get(w))
    PROVE  DeliveryInv'
  <1>1. ASSUME NEW k \in Keys, DelayElapsed(k)
        PROVE  DeliveryInv'
    <2>1. \A j : Fresh(j)' <=> Fresh(j)
      BY <1>1 DEF DelayElapsed, Fresh
    <2>2. \A j : Settled(j)' <=> Settled(j)
      BY <1>1 DEF DelayElapsed, Settled, Pending
    <2>3. UNCHANGED <<repoCache, cronjobs, cronVars, lastJob, workers, dropped>>
      BY <1>1 DEF DelayElapsed, apiVars, repoVars
    <2>4. WatchInv' /\ NoLostUpdate'
      BY <2>2, <2>3 DEF DeliveryInv, WatchInv, Heard, NoLostUpdate, Served, cronVars
    <2>5. \A w \in Workers : InFlight(w)'
      BY <2>1, <2>3 DEF DeliveryInv, InFlight, CronJobKept, SameSpec, cronVars
    <2>6. QED
      BY <2>4, <2>5 DEF DeliveryInv
  <1>2. ASSUME NEW w \in Workers, Get(w)
        PROVE  DeliveryInv'
    <2> DEFINE k == Head(queue)
    <2>1. k = queue[1] /\ 1 \in 1..Len(queue)
      BY <1>2 DEF Get, TypeOK
    <2>2. k \in dirty /\ k \notin processing
      BY <2>1 DEF QueueInv
    <2>3. \A j : j # k => (Fresh(j)' <=> Fresh(j))
      BY <1>2 DEF Get, Fresh
    <2>4. \A j : Settled(j)' <=> Settled(j)
      BY <1>2, <2>2 DEF Get, Settled, Pending
    <2>5. UNCHANGED <<repoCache, cronjobs, cronVars, lastJob, dropped>>
      BY <1>2 DEF Get, apiVars, repoVars
    <2>6. WatchInv' /\ NoLostUpdate'
      BY <2>4, <2>5 DEF DeliveryInv, WatchInv, Heard, NoLostUpdate, Served, cronVars
    <2>7. /\ workers'[w].pc = "lookup"
          /\ \A v \in Workers \ {w} : workers'[v] = workers[v]
      BY <1>2 DEF Get, TypeOK, At
    <2>8. ASSUME NEW v \in Workers
          PROVE  InFlight(v)'
      <3>1. CASE v = w
        BY <2>7, <3>1 DEF InFlight, CleanupPCs, SyncPCs
      <3>2. CASE v # w /\ workers[v].pc = "idle"
        BY <2>7, <3>2 DEF InFlight, CleanupPCs, SyncPCs
      <3>3. CASE v # w /\ workers[v].pc # "idle"
        <4>1. workers[v].key # k
          BY <2>2, <3>3 DEF QueueInv
        <4>2. InFlight(v) /\ workers'[v] = workers[v]
          BY <2>7, <3>3 DEF DeliveryInv
        <4>3. QED
          BY <2>3, <2>5, <4>1, <4>2 DEF InFlight, CronJobKept, SameSpec, cronVars
      <3>4. QED
        BY <3>1, <3>2, <3>3
    <2>9. QED
      BY <2>6, <2>8 DEF DeliveryInv
  <1>3. QED
    BY <1>1, <1>2

(* A worker in syncHandler touches its own key only, so that every other   *)
(* worker and every other key is where it was.                             *)
LEMMA OwnKeyOnly ==
    ASSUME TypeOK, QueueInv, OneWorkerPerKey, DeliveryInv,
           NEW w \in Workers, NEW k \in Keys, workers[w].key = k, workers[w].pc # "idle",
           \A v \in Workers \ {w} : workers'[v] = workers[v],
           \A j \in Keys \ {k} :
               /\ cronjobs'[j] = cronjobs[j] /\ cronjobWatch'[j] = cronjobWatch[j]
               /\ lastJob'[j] = lastJob[j]
               /\ j \in dropped' <=> j \in dropped
               /\ j \in processing' <=> j \in processing,
           UNCHANGED <<repoCache, delayed, dirty>>,
           WatchInv', InFlight(w)', Settled(k)' => Served(k)'
    PROVE  DeliveryInv'
  <1>1. ASSUME NEW v \in Workers \ {w}
        PROVE  InFlight(v)'
    <2>1. InFlight(v) /\ workers'[v] = workers[v]
      BY DEF DeliveryInv
    <2>2. CASE workers[v].pc = "idle"
      BY <2>1, <2>2 DEF InFlight, CleanupPCs, SyncPCs
    <2>3. CASE workers[v].pc # "idle"
      <3>1. workers[v].key \in Keys \ {k}
        BY <2>3, WorkerLocals DEF OneWorkerPerKey
      <3>2. QED
        BY <2>1, <3>1 DEF InFlight, CronJobKept, Fresh, SameSpec
    <2>4. QED
      BY <2>2, <2>3
  <1>2. ASSUME NEW j \in Keys \ {k}
        PROVE  Settled(j)' => Served(j)'
    BY DEF DeliveryInv, NoLostUpdate, Settled, Pending, Served
  <1>3. QED
    BY <1>1, <1>2 DEF DeliveryInv, NoLostUpdate

(* What a worker does to the queue and to itself at the end of a call.     *)
LEMMA ProceedEffect ==
    ASSUME TypeOK, QueueInv, NEW w \in Workers, workers[w].pc # "idle",
           NEW k, k = workers[w].key, NEW pc, Proceed(w, pc)
    PROVE  /\ workers'[w] = At(pc, k, workers[w].repo)
           /\ \A v \in Workers \ {w} : workers'[v] = workers[v]
           /\ \A j : j # k => (j \in dropped' <=> j \in dropped)
           /\ UNCHANGED <<delayed, dirty, processing>>
           /\ ~Settled(k)'
  <1>1. k \in processing
    BY DEF QueueInv
  <1>2. QED
    BY <1>1 DEF TypeOK, Proceed, readyVars, Settled, Pending

LEMMA FinishEffect ==
    ASSUME TypeOK, NEW w \in Workers, NEW k, k = workers[w].key, Succeed(w) \/ Fail(w)
    PROVE  /\ workers'[w] = Idle
           /\ \A v \in Workers \ {w} : workers'[v] = workers[v]
           /\ \A j : j # k => /\ (j \in dropped' <=> j \in dropped)
                              /\ (j \in processing' <=> j \in processing)
           /\ UNCHANGED <<delayed, dirty>>
           /\ Fail(w) => ~Settled(k)'
  <1>1. Fail(w) => ~Settled(k)'
    BY DEF Fail, Settled
  <1>2. QED
    BY <1>1 DEF TypeOK, Succeed, Fail, Done

LEMMA IdleInFlight ==
    ASSUME NEW w \in Workers, workers'[w] = Idle
    PROVE  InFlight(w)'
  BY DEF InFlight, Idle, At, CleanupPCs, SyncPCs

LEMMA LookupsKeep ==
    ASSUME TypeOK, QueueInv, OneWorkerPerKey, DeliveryInv, NEW w \in Workers,
           LookupRepo(w) \/ LookupCronJob(w)
    PROVE  DeliveryInv'
  <1> DEFINE r == workers[w].repo
  <1>0. PICK k \in Keys : k = workers[w].key
    BY WorkerLocals DEF LookupRepo, LookupCronJob
  <1>1. workers[w].pc # "idle" /\ k \in processing
    BY <1>0 DEF LookupRepo, LookupCronJob, QueueInv
  <1>2. UNCHANGED <<repoCache, cronjobs, cronVars, lastJob, delayed, dirty, processing, dropped>>
    BY DEF LookupRepo, LookupCronJob, apiVars, repoVars, readyVars
  <1>3. WatchInv' /\ ~Settled(k)'
    BY <1>0, <1>1, <1>2 DEF DeliveryInv, WatchInv, Heard, cronVars, Settled, Pending
  <1>4. /\ \A v \in Workers \ {w} : workers'[v] = workers[v]
        /\ LookupRepo(w) => workers'[w] =
              At(IF repoCache[k] = Nil THEN "cleanupJob" ELSE "getCron", k, repoCache[k])
        /\ LookupCronJob(w) => workers'[w] =
              At(IF k \in cronjobCache THEN "updateCron" ELSE "createCron", k, r)
    BY <1>0 DEF TypeOK, LookupRepo, LookupCronJob
  <1>5. InFlight(w)'
    <2>1. CASE LookupRepo(w)
      BY <1>0, <1>2, <1>4, <2>1 DEF InFlight, At, CleanupPCs, SyncPCs, SameSpec
    <2>2. CASE LookupCronJob(w)
      <3>1. Fresh(k) \/ SameSpec(repoCache[k], r)
        BY <1>0, <2>2 DEF DeliveryInv, InFlight, LookupCronJob, SyncPCs
      <3>2. QED
        BY <1>0, <1>2, <1>4, <2>2, <3>1 DEF InFlight, At, CleanupPCs, SyncPCs, Fresh, SameSpec
    <2>3. QED
      BY <2>1, <2>2
  <1>6. QED
    BY <1>0, <1>1, <1>2, <1>3, <1>4, <1>5, OwnKeyOnly DEF cronVars

LEMMA CleanupKeeps ==
    ASSUME TypeOK, QueueInv, OneWorkerPerKey, DeliveryInv, NEW w \in Workers,
           NEW reply \in Replies,
           CreateCleanupJob(w, reply) \/ DeleteCronJob(w, reply)
    PROVE  DeliveryInv'
  <1>0. PICK k \in Keys : k = workers[w].key
    BY WorkerLocals DEF CreateCleanupJob, DeleteCronJob, CleanupPCs
  <1>1. workers[w].pc # "idle" /\ workers[w].pc \in CleanupPCs
    BY DEF CreateCleanupJob, DeleteCronJob, CleanupPCs
  <1>2. Fresh(k) \/ repoCache[k] = Nil
    BY <1>0, <1>1 DEF DeliveryInv, InFlight
  <1>3. CASE CreateCleanupJob(w, reply)
    <2>1. UNCHANGED <<repoCache, cronjobs, cronVars>>
      BY <1>0, <1>3 DEF CreateCleanupJob, repoVars
    <2>2. WatchInv'
      BY <2>1 DEF DeliveryInv, WatchInv, Heard, cronVars
    <2>3. \A j \in Keys \ {k} : lastJob'[j] = lastJob[j]
      BY <1>0, <1>3 DEF CreateCleanupJob, TypeOK
    <2>4. CASE Proceed(w, "cleanupCron") /\ reply = "ok"
      <3>1. lastJob'[k] = Cleanup
        BY <1>0, <1>1, <1>3, <2>4 DEF CreateCleanupJob, TypeOK
      <3>2. /\ workers'[w] = At("cleanupCron", k, workers[w].repo)
            /\ \A v \in Workers \ {w} : workers'[v] = workers[v]
            /\ \A j : j # k => (j \in dropped' <=> j \in dropped)
            /\ UNCHANGED <<delayed, dirty, processing>>
            /\ ~Settled(k)'
        BY <1>0, <1>1, <2>4, ProceedEffect
      <3>3. InFlight(w)'
        BY <1>0, <1>2, <2>1, <3>1, <3>2 DEF InFlight, At, CleanupPCs, SyncPCs, Fresh
      <3>4. QED
        BY <1>0, <1>1, <2>1, <2>2, <2>3, <3>2, <3>3, OwnKeyOnly DEF cronVars
    <2>5. CASE Fail(w)
      <3>1. /\ workers'[w] = Idle
            /\ \A v \in Workers \ {w} : workers'[v] = workers[v]
            /\ \A j : j # k => /\ (j \in dropped' <=> j \in dropped)
                               /\ (j \in processing' <=> j \in processing)
            /\ UNCHANGED <<delayed, dirty>>
            /\ ~Settled(k)'
        BY <1>0, <1>1, <2>5, FinishEffect
      <3>2. QED
        BY <1>0, <1>1, <2>1, <2>2, <2>3, <3>1, IdleInFlight, OwnKeyOnly DEF cronVars
    <2>6. QED
      BY <1>3, <2>4, <2>5 DEF CreateCleanupJob
  <1>4. CASE DeleteCronJob(w, reply)
    <2>1. UNCHANGED <<repoCache, lastJob, cronjobCache>>
      BY <1>0, <1>4 DEF DeleteCronJob, repoVars
    <2>2. /\ WatchInv'
          /\ \A j \in Keys \ {k} : cronjobs'[j] = cronjobs[j] /\ cronjobWatch'[j] = cronjobWatch[j]
          /\ reply = "ok" => cronjobs'[k] = Nil
      <3>1. CASE reply = "error"
        BY <1>4, <2>1, <3>1 DEF DeleteCronJob, DeliveryInv, WatchInv, Heard
      <3>2. CASE reply # "error"
        BY <1>0, <1>1, <1>4, <2>1, <3>2, WriteCronJobHeard DEF DeleteCronJob, DeliveryInv
      <3>3. QED
        BY <3>1, <3>2
    <2>3. (Succeed(w) /\ reply = "ok") \/ Fail(w)
      BY <1>0, <1>4 DEF DeleteCronJob
    <2>4. /\ workers'[w] = Idle
          /\ \A v \in Workers \ {w} : workers'[v] = workers[v]
          /\ \A j : j # k => /\ (j \in dropped' <=> j \in dropped)
                             /\ (j \in processing' <=> j \in processing)
          /\ UNCHANGED <<delayed, dirty>>
          /\ Fail(w) => ~Settled(k)'
      BY <1>0, <1>1, <2>3, FinishEffect
    <2>5. lastJob[k] = Cleanup
      BY <1>0, <1>4 DEF DeleteCronJob, DeliveryInv, InFlight
    <2>6. Fresh(k) => ~Settled(k)'
      BY <2>4 DEF Fresh, Settled, Pending
    <2>7. repoCache[k] = Nil /\ reply = "ok" => Served(k)'
      BY <2>1, <2>2, <2>5 DEF Served
    <2>8. Settled(k)' => Served(k)'
      BY <1>0, <1>2, <2>3, <2>4, <2>6, <2>7
    <2>9. QED
      BY <1>0, <1>1, <2>1, <2>2, <2>4, <2>8, IdleInFlight, OwnKeyOnly
  <1>5. QED
    BY <1>3, <1>4

LEMMA CronJobWriteKeeps ==
    ASSUME TypeOK, QueueInv, OneWorkerPerKey, DeliveryInv, NEW w \in Workers,
           NEW reply \in Replies,
           CreateCronJob(w, reply) \/ UpdateCronJob(w, reply)
    PROVE  DeliveryInv'
  <1>0. PICK k \in Keys : k = workers[w].key
    BY WorkerLocals DEF CreateCronJob, UpdateCronJob
  <1>1. PICK r \in Repo : r = workers[w].repo
    BY WorkerLocals DEF CreateCronJob, UpdateCronJob, SyncPCs
  <1>2. workers[w].pc # "idle" /\ (Fresh(k) \/ SameSpec(repoCache[k], r))
    BY <1>0, <1>1 DEF CreateCronJob, UpdateCronJob, DeliveryInv, InFlight, SyncPCs
  <1>3. UNCHANGED <<repoCache, lastJob, cronjobCache>>
    BY DEF CreateCronJob, UpdateCronJob, repoVars
  <1>4. newCronJob(k, r) \in CronJob /\ newCronJob(k, r).url = r.url
    BY DEF newCronJob, ownerReferencesForAppRepo, CronJob, Repo
  <1>5. \/ UNCHANGED <<cronjobs, cronjobWatch>> /\ Fail(w)
        \/ WriteCronJob(k, newCronJob(k, r)) /\ (Fail(w) \/ Proceed(w, "syncJob"))
    BY <1>0, <1>1 DEF CreateCronJob, UpdateCronJob
  <1>6. /\ WatchInv'
        /\ \A j \in Keys \ {k} : cronjobs'[j] = cronjobs[j] /\ cronjobWatch'[j] = cronjobWatch[j]
        /\ WriteCronJob(k, newCronJob(k, r)) => cronjobs'[k] = newCronJob(k, r)
    <2>1. CASE WriteCronJob(k, newCronJob(k, r))
      BY <1>3, <1>4, <2>1, WriteCronJobHeard DEF DeliveryInv
    <2>2. CASE ~WriteCronJob(k, newCronJob(k, r))
      BY <1>3, <1>5, <2>2 DEF DeliveryInv, WatchInv, Heard
    <2>3. QED
      BY <2>1, <2>2
  <1>7. CASE Fail(w)
    <2>1. /\ workers'[w] = Idle
          /\ \A v \in Workers \ {w} : workers'[v] = workers[v]
          /\ \A j : j # k => /\ (j \in dropped' <=> j \in dropped)
                             /\ (j \in processing' <=> j \in processing)
          /\ UNCHANGED <<delayed, dirty>>
          /\ ~Settled(k)'
      BY <1>0, <1>7, FinishEffect
    <2>2. QED
      BY <1>0, <1>2, <1>3, <1>6, <2>1, IdleInFlight, OwnKeyOnly
  <1>8. CASE WriteCronJob(k, newCronJob(k, r)) /\ Proceed(w, "syncJob")
    <2>1. /\ workers'[w] = At("syncJob", k, r)
          /\ \A v \in Workers \ {w} : workers'[v] = workers[v]
          /\ \A j : j # k => (j \in dropped' <=> j \in dropped)
          /\ UNCHANGED <<delayed, dirty, processing>>
          /\ ~Settled(k)'
      BY <1>0, <1>1, <1>2, <1>8, ProceedEffect
    <2>2. CronJobKept(k, r.url)'
      BY <1>4, <1>6, <1>8 DEF CronJobKept
    <2>3. Fresh(k)' \/ SameSpec(repoCache'[k], r)
      BY <1>2, <1>3, <2>1 DEF Fresh
    <2>4. workers'[w].pc = "syncJob" /\ workers'[w].key = k /\ workers'[w].repo = r
      BY <2>1 DEF At
    <2>5. InFlight(w)'
      BY <2>2, <2>3, <2>4 DEF InFlight, CleanupPCs, SameSpec, CronJobKept, Fresh
    <2>6. QED
      BY <1>0, <1>2, <1>3, <1>6, <2>1, <2>5, OwnKeyOnly
  <1>9. QED
    BY <1>5, <1>7, <1>8

LEMMA SyncJobKeeps ==
    ASSUME TypeOK, QueueInv, OneWorkerPerKey, DeliveryInv, NEW w \in Workers,
           NEW reply \in Replies, CreateSyncJob(w, reply)
    PROVE  DeliveryInv'
  <1>0. PICK k \in Keys : k = workers[w].key
    BY WorkerLocals DEF CreateSyncJob
  <1>1. PICK r \in Repo : r = workers[w].repo
    BY WorkerLocals DEF CreateSyncJob, SyncPCs
  <1>2. /\ workers[w].pc # "idle"
        /\ Fresh(k) \/ SameSpec(repoCache[k], r)
        /\ CronJobKept(k, r.url)
    BY <1>0, <1>1 DEF CreateSyncJob, DeliveryInv, InFlight, SyncPCs
  <1>3. UNCHANGED <<repoCache, cronjobs, cronVars>>
    BY DEF CreateSyncJob, repoVars
  <1>4. WatchInv'
    BY <1>3 DEF DeliveryInv, WatchInv, Heard, cronVars
  <1>5. /\ newSyncJob(r) \in SyncJob
        /\ newSyncJob(r).url = r.url /\ newSyncJob(r).resync = r.resync
    BY DEF newSyncJob, SyncJob, Repo
  <1>6. /\ \A j \in Keys \ {k} : lastJob'[j] = lastJob[j]
        /\ reply = "ok" => lastJob'[k] = newSyncJob(r)
    BY <1>0, <1>1 DEF CreateSyncJob, TypeOK
  <1>7. (reply = "ok" /\ Succeed(w)) \/ Fail(w)
    BY DEF CreateSyncJob
  <1>8. /\ workers'[w] = Idle
        /\ \A v \in Workers \ {w} : workers'[v] = workers[v]
        /\ \A j : j # k => /\ (j \in dropped' <=> j \in dropped)
                           /\ (j \in processing' <=> j \in processing)
        /\ UNCHANGED <<delayed, dirty>>
        /\ Fail(w) => ~Settled(k)'
    BY <1>0, <1>7, FinishEffect
  <1>9. ASSUME Settled(k)'
        PROVE  Served(k)'
    <2>1. ~Fresh(k) /\ k \notin dropped' /\ reply = "ok" /\ dropped' = dropped
      BY <1>7, <1>8, <1>9 DEF Fresh, Settled, Pending, Succeed
    <2>2. SameSpec(repoCache'[k], r)
      BY <1>2, <1>3, <2>1
    <2>3. lastJob'[k] \notin {Nil, Cleanup} /\ lastJob'[k].url = r.url /\ lastJob'[k].resync = r.resync
      BY <1>5, <1>6, <2>1
    <2>4. /\ cronjobs'[k] # Nil => cronjobs'[k].url = r.url
          /\ k \in KubeappsKeys /\ cronjobs'[k] = Nil => cronjobWatch'[k] # <<>>
      BY <1>2, <1>3, <2>1 DEF CronJobKept, cronVars
    <2>5. QED
      BY <2>2, <2>3, <2>4 DEF Served, SameSpec
  <1>10. QED
    BY <1>0, <1>2, <1>3, <1>4, <1>6, <1>8, <1>9, IdleInFlight, OwnKeyOnly DEF cronVars

(* A restart enqueues every AppRepository there is; what it forgets of the *)
(* others is noted as given up.                                            *)
LEMMA RestartKeeps ==
    ASSUME TypeOK, DeliveryInv, Restart
    PROVE  DeliveryInv'
  <1>1. WatchInv'
    BY DEF Restart, WatchInv, Heard, apiVars
  <1>2. \A w \in Workers : InFlight(w)'
    BY IdleInFlight DEF Restart
  <1>3. ASSUME NEW k \in Keys, Settled(k)'
        PROVE  Served(k)'
    <2>1. repos[k] = Nil /\ repoCache[k] = Nil /\ Settled(k)
      BY <1>3 DEF Restart, Settled, Pending
    <2>2. repoCache'[k] = Nil /\ cronjobs' = cronjobs /\ lastJob' = lastJob
      BY <2>1 DEF Restart, apiVars
    <2>3. QED
      BY <2>1, <2>2 DEF DeliveryInv, NoLostUpdate, Served
  <1>4. QED
    BY <1>1, <1>2, <1>3 DEF DeliveryInv, NoLostUpdate

LEMMA DeliveryStep ==
    ASSUME TypeOK, TypeOK', QueueInv, OneWorkerPerKey, DeliveryInv, [Next]_vars
    PROVE  DeliveryInv'
  <1>1. ASSUME NEW k \in Keys, NEW obj, PutRepo(k, obj)
        PROVE  DeliveryInv'
    BY <1>1, ViewKept DEF PutRepo
  <1>2. ASSUME NEW k \in Keys, UserDeletesCronJob(k) \/ CollectCronJob(k)
        PROVE  DeliveryInv'
    BY <1>2, CronJobGone DEF UserDeletesCronJob, CollectCronJob, repoVars
  <1>3. CASE User
    BY <1>1, <1>2, <1>3 DEF User, CreateAppRepository, UpdateAppRepository,
       RefreshAppRepository, DeleteAppRepository, ForegroundDelete
  <1>4. ASSUME NEW k \in Keys, FinishForegroundDelete(k)
        PROVE  DeliveryInv'
    BY <1>4, ViewKept DEF FinishForegroundDelete
  <1>5. ASSUME NEW k \in Keys, DeliverRepoEvent(k)
        PROVE  DeliveryInv'
    <2>1. /\ delayed \subseteq delayed'
          /\ \A j \in Keys : Enqueues(repoCache[j], repoCache'[j]) => j \in delayed'
      <3>1. \A j \in Keys \ {k} : repoCache'[j] = repoCache[j]
        BY <1>5 DEF DeliverRepoEvent, TypeOK
      <3>2. \A j \in Keys \ {k} : ~Enqueues(repoCache[j], repoCache'[j])
        BY <3>1 DEF Enqueues
      <3>3. Enqueues(repoCache[k], repoCache'[k]) => k \in delayed'
        BY <1>5 DEF DeliverRepoEvent, TypeOK
      <3>4. QED
        BY <1>5, <3>2, <3>3 DEF DeliverRepoEvent
    <2>2. QED
      BY <1>5, <2>1, RepoCacheMoves DEF DeliverRepoEvent, TypeOK, apiVars
  <1>6. CASE RelistRepos
    BY <1>6, RepoCacheMoves DEF RelistRepos, TypeOK, apiVars
  <1>7. CASE RelistCronJobs \/ \E k \in Keys : DeliverCronJobEvent(k)
    BY <1>7, CronJobEvents
  <1>8. CASE (\E k \in Keys : DelayElapsed(k)) \/ (\E w \in Workers : Get(w))
    BY <1>8, QueueMoves
  <1>9. ASSUME NEW w \in Workers, syncHandler(w)
        PROVE  DeliveryInv'
    BY <1>9, LookupsKeep, CleanupKeeps, CronJobWriteKeeps, SyncJobKeeps DEF syncHandler
  <1>10. CASE Restart
    BY <1>10, RestartKeeps
  <1>11. CASE UNCHANGED vars
    BY <1>11, ViewKept DEF vars, apiVars, repoVars
  <1>12. QED
    BY <1>2, <1>3, <1>4, <1>5, <1>6, <1>7, <1>8, <1>9, <1>10, <1>11 DEF Next, Cluster

-----------------------------------------------------------------------------
(* Versions: CronJobs are never made from an older AppRepository.          *)

(* The API server stores a version newer than all before, or a deletion,   *)
(* and sends it to the informer.                                           *)
LEMMA StoredInOrder ==
    ASSUME TypeOK, TypeOK', OrderInv, NEW k \in Keys, NEW obj \in Repo \cup {Nil},
           repos' = [repos EXCEPT ![k] = obj],
           repoWatch' = [repoWatch EXCEPT ![k] = Append(@, obj)],
           repoCache' = repoCache, rv <= rv',
           obj # Nil => rv <= obj.rv /\ obj.rv <= rv'
    PROVE  /\ OrderInv'
           /\ \A j \in Keys, n \in Nat : Ahead(j, n) => Ahead(j, n)'
  <1>1. rv \in Nat /\ rv' \in Nat
    BY DEF TypeOK
  <1>2. \A r \in Repo : r.rv \in Nat
    BY DEF Repo
  <1>3. \A j \in Keys : /\ repos[j] \in Repo \cup {Nil} /\ repoCache[j] \in Repo \cup {Nil}
                        /\ repoWatch[j] \in Seq(Repo \cup {Nil})
    BY DEF TypeOK
  <1>4. \A j \in Keys \ {k} : repos'[j] = repos[j] /\ repoWatch'[j] = repoWatch[j]
    BY DEF TypeOK
  <1>5. /\ repos'[k] = obj
        /\ Len(repoWatch'[k]) = Len(repoWatch[k]) + 1
        /\ \A i \in 1..Len(repoWatch[k]) : repoWatch'[k][i] = repoWatch[k][i]
        /\ repoWatch'[k][Len(repoWatch[k]) + 1] = obj
        /\ Len(repoWatch[k]) \in Nat
    <2>1. repoWatch'[k] = Append(repoWatch[k], obj) /\ repos'[k] = obj
      BY DEF TypeOK
    <2>2. QED
      BY <1>3, <2>1
  <1>6. \A i \in 1..Len(repoWatch'[k]) :
           i \in 1..Len(repoWatch[k]) \/ i = Len(repoWatch[k]) + 1
    BY <1>5
  <1>7. ASSUME NEW j \in Keys, NEW n \in Nat, Ahead(j, n)
        PROVE  Ahead(j, n)'
    <2>1. CASE j = k
      <3>1. n <= rv' /\ NotNewer(n, obj)
        BY <1>1, <1>2, <1>7 DEF Ahead, NotNewer
      <3>2. QED
        BY <1>5, <1>6, <1>7, <2>1, <3>1 DEF Ahead, NotNewer
    <2>2. CASE j # k
      BY <1>1, <1>4, <1>7, <2>2 DEF Ahead, NotNewer
    <2>3. QED
      BY <2>1, <2>2
  <1>8. \A j \in Keys \ {k} : InOrder(j)'
    <2> SUFFICES ASSUME NEW j \in Keys \ {k}
                 PROVE  InOrder(j)'
      OBVIOUS
    <2>1. InOrder(j)
      BY DEF OrderInv
    <2>2. repos'[j] # Nil => repos'[j].rv <= rv'
      BY <1>1, <1>2, <1>3, <1>4, <2>1 DEF InOrder
    <2>3. repoCache'[j] # Nil => Ahead(j, repoCache[j].rv)'
      <3> SUFFICES ASSUME repoCache[j] # Nil
                   PROVE  Ahead(j, repoCache[j].rv)'
        OBVIOUS
      <3>1. PICK n \in Nat : n = repoCache[j].rv
        BY <1>2, <1>3
      <3>2. Ahead(j, n)'
        BY <1>7, <2>1, <3>1 DEF InOrder
      <3>3. QED
        BY <3>1, <3>2 DEF Ahead
    <2>4. \A i \in 1..Len(repoWatch[j]) : repoWatch[j][i] # Nil => repoWatch[j][i].rv \in Nat
      BY <1>2, <1>3
    <2>5. QED
      BY <1>1, <1>4, <2>1, <2>2, <2>3, <2>4 DEF InOrder
  <1>9. InOrder(k)'
    <2>1. InOrder(k)
      BY DEF OrderInv
    <2>2. repos'[k] # Nil => repos'[k].rv <= rv'
      BY <1>5
    <2>3. repoCache'[k] # Nil => Ahead(k, repoCache[k].rv)'
      <3> SUFFICES ASSUME repoCache[k] # Nil
                   PROVE  Ahead(k, repoCache[k].rv)'
        OBVIOUS
      <3>1. PICK n \in Nat : n = repoCache[k].rv
        BY <1>2, <1>3
      <3>2. Ahead(k, n)'
        BY <1>7, <2>1, <3>1 DEF InOrder
      <3>3. QED
        BY <3>1, <3>2 DEF Ahead
    <2>4. ASSUME NEW i \in 1..Len(repoWatch'[k]), repoWatch'[k][i] # Nil
          PROVE  /\ repoWatch'[k][i].rv <= rv'
                 /\ NotNewer(repoWatch'[k][i].rv, repos'[k])
                 /\ \A j \in i..Len(repoWatch'[k]) :
                       NotNewer(repoWatch'[k][i].rv, repoWatch'[k][j])
      <3>1. CASE i \in 1..Len(repoWatch[k])
        <4>1. repoWatch'[k][i] = repoWatch[k][i] /\ repoWatch[k][i].rv \in Nat
          BY <1>2, <1>3, <1>5, <2>4, <3>1
        <4>2. repoWatch[k][i].rv <= rv
          BY <2>1, <2>4, <3>1, <4>1 DEF InOrder
        <4>3. repoWatch[k][i].rv <= rv' /\ NotNewer(repoWatch[k][i].rv, obj)
          BY <1>1, <1>2, <4>1, <4>2 DEF NotNewer
        <4>4. \A j \in i..Len(repoWatch[k]) : NotNewer(repoWatch[k][i].rv, repoWatch[k][j])
          BY <2>1, <2>4, <3>1, <4>1 DEF InOrder
        <4>5. ASSUME NEW j \in i..Len(repoWatch'[k])
              PROVE  NotNewer(repoWatch[k][i].rv, repoWatch'[k][j])
          <5>1. \/ j \in 1..Len(repoWatch[k]) /\ j \in i..Len(repoWatch[k])
                \/ j = Len(repoWatch[k]) + 1
            BY <1>5, <3>1
          <5>2. QED
            BY <1>5, <4>3, <4>4, <5>1
        <4>6. QED
          BY <1>5, <4>1, <4>3, <4>5
      <3>2. CASE i = Len(repoWatch[k]) + 1
        <4>1. repoWatch'[k][i] = obj /\ \A j \in i..Len(repoWatch'[k]) : j = i
          BY <1>5, <3>2
        <4>2. NotNewer(obj.rv, obj)
          BY <1>2, <2>4, <4>1 DEF NotNewer
        <4>3. QED
          BY <1>5, <2>4, <4>1, <4>2
      <3>3. QED
        BY <1>6, <3>1, <3>2
    <2>5. QED
      BY <2>2, <2>3, <2>4 DEF InOrder
  <1>10. QED
    BY <1>7, <1>8, <1>9 DEF OrderInv

(* The informer moves the oldest version on its way into the cache.        *)
LEMMA DeliveredInOrder ==
    ASSUME TypeOK, OrderInv, NEW k \in Keys, DeliverRepoEvent(k)
    PROVE  /\ OrderInv'
           /\ \A j \in Keys, n \in Nat : Ahead(j, n) => Ahead(j, n)'
  <1>1. UNCHANGED <<repos, rv>>
    BY DEF DeliverRepoEvent, apiVars
  <1>2. \A r \in Repo : r.rv \in Nat
    BY DEF Repo
  <1>3. \A j \in Keys \ {k} : repoCache'[j] = repoCache[j] /\ repoWatch'[j] = repoWatch[j]
    BY DEF TypeOK, DeliverRepoEvent
  <1>4. /\ repoCache'[k] = repoWatch[k][1]
        /\ Len(repoWatch[k]) \in Nat \ {0}
        /\ Len(repoWatch'[k]) = Len(repoWatch[k]) - 1
        /\ \A i \in 1..Len(repoWatch'[k]) : repoWatch'[k][i] = repoWatch[k][i + 1]
        /\ repoWatch[k][1] \in Repo \cup {Nil}
    <2>1. repoWatch[k] \in Seq(Repo \cup {Nil}) /\ repoWatch[k] # <<>>
      BY DEF TypeOK, DeliverRepoEvent
    <2>2. repoCache'[k] = Head(repoWatch[k]) /\ repoWatch'[k] = Tail(repoWatch[k])
      BY DEF TypeOK, DeliverRepoEvent
    <2>3. QED
      BY <2>1, <2>2
  <1>5. ASSUME NEW j \in Keys, NEW n \in Nat, Ahead(j, n)
        PROVE  Ahead(j, n)'
    <2>1. CASE j = k
      <3>1. \A i \in 1..Len(repoWatch'[k]) : i + 1 \in 1..Len(repoWatch[k])
        BY <1>4
      <3>2. 1 \in 1..Len(repoWatch[k])
        BY <1>4
      <3>3. QED
        BY <1>1, <1>4, <1>5, <2>1, <3>1, <3>2 DEF Ahead
    <2>2. CASE j # k
      BY <1>1, <1>3, <1>5, <2>2 DEF Ahead
    <2>3. QED
      BY <2>1, <2>2
  <1>6. \A j \in Keys \ {k} : InOrder(j)'
    BY <1>1, <1>3 DEF OrderInv, InOrder, Ahead
  <1>7. InOrder(k)'
    <2>0. InOrder(k)
      BY DEF OrderInv
    <2>1. 1 \in 1..Len(repoWatch[k])
      BY <1>4
    <2>2. ASSUME NEW i \in 1..Len(repoWatch'[k])
          PROVE  /\ i + 1 \in 1..Len(repoWatch[k])
                 /\ \A j \in i..Len(repoWatch'[k]) :
                       j + 1 \in (i + 1)..Len(repoWatch[k]) /\ j \in 1..Len(repoWatch'[k])
      BY <1>4
    <2>3. repoCache'[k] # Nil => Ahead(k, repoCache[k].rv)'
      <3> SUFFICES ASSUME repoCache'[k] # Nil
                   PROVE  Ahead(k, repoCache[k].rv)'
        OBVIOUS
      <3>1. repoWatch[k][1].rv \in Nat
        BY <1>2, <1>4
      <3>2. /\ repoWatch[k][1].rv <= rv
            /\ NotNewer(repoWatch[k][1].rv, repos[k])
            /\ \A j \in 1..Len(repoWatch[k]) : NotNewer(repoWatch[k][1].rv, repoWatch[k][j])
        BY <1>4, <2>0, <2>1 DEF InOrder
      <3>3. \A i \in 1..Len(repoWatch'[k]) : NotNewer(repoWatch[k][1].rv, repoWatch'[k][i])
        BY <1>4, <2>2, <3>2
      <3>4. QED
        BY <1>1, <1>4, <2>1, <3>1, <3>2, <3>3 DEF Ahead
    <2>4. ASSUME NEW i \in 1..Len(repoWatch'[k]), repoWatch'[k][i] # Nil
          PROVE  /\ repoWatch'[k][i].rv <= rv'
                 /\ NotNewer(repoWatch'[k][i].rv, repos'[k])
                 /\ \A j \in i..Len(repoWatch'[k]) :
                       NotNewer(repoWatch'[k][i].rv, repoWatch'[k][j])
      <3>1. i + 1 \in 1..Len(repoWatch[k]) /\ repoWatch[k][i + 1] = repoWatch'[k][i]
        BY <1>4, <2>2
      <3>2. /\ repoWatch[k][i + 1].rv <= rv
            /\ NotNewer(repoWatch[k][i + 1].rv, repos[k])
            /\ \A j \in (i + 1)..Len(repoWatch[k]) :
                  NotNewer(repoWatch[k][i + 1].rv, repoWatch[k][j])
        BY <2>0, <2>4, <3>1 DEF InOrder
      <3>3. QED
        BY <1>1, <1>4, <2>2, <3>1, <3>2
    <2>5. QED
      BY <1>1, <2>0, <2>3, <2>4 DEF InOrder
  <1>8. QED
    BY <1>5, <1>6, <1>7 DEF OrderInv

(* A list of what the API server has skips versions and reorders none.     *)
LEMMA ListedInOrder ==
    ASSUME TypeOK, OrderInv, repoCache' = repos, repoWatch' = [k \in Keys |-> <<>>],
           UNCHANGED <<repos, rv>>
    PROVE  /\ OrderInv'
           /\ \A j \in Keys, n \in Nat : Ahead(j, n) => Ahead(j, n)'
  <1>1. \A j \in Keys : repoCache'[j] = repos[j] /\ 1..Len(repoWatch'[j]) = {}
    OBVIOUS
  <1>2. \A j \in Keys : repos[j] # Nil => repos[j].rv \in Nat
    BY DEF TypeOK, Repo
  <1>3. QED
    BY <1>1, <1>2 DEF OrderInv, InOrder, Ahead, NotNewer

LEMMA OrderStep ==
    ASSUME TypeOK, TypeOK', OrderInv, [Next]_vars
    PROVE  /\ OrderInv'
           /\ \A j \in Keys, n \in Nat : Ahead(j, n) => Ahead(j, n)'
  <1> DEFINE Goal == /\ OrderInv'
                     /\ \A j \in Keys, n \in Nat : Ahead(j, n) => Ahead(j, n)'
  <1>0. rv \in Nat /\ rv' \in Nat /\ rv + 1 \in Nat
    BY DEF TypeOK
  <1>1. ASSUME NEW k \in Keys, NEW obj \in Repo \cup {Nil}, PutRepo(k, obj),
               obj # Nil => obj.rv = rv + 1
        PROVE  Goal
    <2>1. rv' = rv + 1
      BY <1>1 DEF PutRepo
    <2>2. rv <= rv' /\ (obj # Nil => rv <= obj.rv /\ obj.rv <= rv')
      BY <1>0, <1>1, <2>1
    <2>3. QED
      BY <1>1, <2>2, StoredInOrder DEF PutRepo
  <1>2. ASSUME UNCHANGED <<repos, repoVars>>, rv' = rv \/ rv' = rv + 1
        PROVE  Goal
    <2>1. rv <= rv'
      BY <1>0, <1>2
    <2>2. \A j \in Keys, n \in Nat : Ahead(j, n) => Ahead(j, n)'
      BY <1>0, <1>2, <2>1 DEF Ahead, repoVars
    <2>3. \A j \in Keys : InOrder(j)'
      <3> SUFFICES ASSUME NEW j \in Keys
                   PROVE  InOrder(j)'
        OBVIOUS
      <3>1. /\ repos[j] # Nil => repos[j].rv \in Nat
            /\ repoCache[j] # Nil => repoCache[j].rv \in Nat
            /\ \A i \in 1..Len(repoWatch[j]) : repoWatch[j][i] # Nil => repoWatch[j][i].rv \in Nat
        BY DEF TypeOK, Repo
      <3>2. InOrder(j)
        BY DEF OrderInv
      <3>3. QED
        BY <1>0, <1>2, <2>1, <2>2, <3>1, <3>2 DEF InOrder, repoVars
    <2>4. QED
      BY <2>2, <2>3 DEF OrderInv
  <1>3. CASE User
    <2>1. PICK k \in Keys :
          \/ \E url \in Urls : CreateAppRepository(k, url) \/ UpdateAppRepository(k, url)
          \/ RefreshAppRepository(k)
          \/ DeleteAppRepository(k)
          \/ ForegroundDelete(k)
          \/ UserDeletesCronJob(k)
      BY <1>3 DEF User
    <2>2. ASSUME NEW obj, PutRepo(k, obj)
          PROVE  obj \in Repo \cup {Nil}
      BY <2>2 DEF PutRepo, TypeOK
    <2>3. ASSUME NEW url \in Urls, CreateAppRepository(k, url)
          PROVE  Goal
      <3>1. NewRepo(url, rv + 1).rv = rv + 1
        BY DEF NewRepo
      <3>2. QED
        BY <1>1, <2>2, <2>3, <3>1 DEF CreateAppRepository
    <2>4. ASSUME repos[k] # Nil
          PROVE  repos[k] \in Repo
      BY <2>4 DEF TypeOK
    <2>5. ASSUME NEW url \in Urls, UpdateAppRepository(k, url)
          PROVE  Goal
      <3>1. [repos[k] EXCEPT !.rv = rv + 1, !.url = url, !.resync = 0].rv = rv + 1
        BY <2>4, <2>5 DEF UpdateAppRepository, Repo
      <3>2. QED
        BY <1>1, <2>2, <2>5, <3>1 DEF UpdateAppRepository
    <2>6. CASE RefreshAppRepository(k)
      <3>1. [repos[k] EXCEPT !.rv = rv + 1, !.resync = repos[k].resync + 1].rv = rv + 1
        BY <2>4, <2>6 DEF RefreshAppRepository, Repo
      <3>2. QED
        BY <1>1, <2>2, <2>6, <3>1 DEF RefreshAppRepository
    <2>7. CASE ForegroundDelete(k)
      <3>1. [repos[k] EXCEPT !.rv = rv + 1, !.deleting = TRUE].rv = rv + 1
        BY <2>4, <2>7 DEF ForegroundDelete, Repo
      <3>2. QED
        BY <1>1, <2>2, <2>7, <3>1 DEF ForegroundDelete
    <2>8. CASE DeleteAppRepository(k)
      BY <1>1, <2>2, <2>8 DEF DeleteAppRepository
    <2>9. CASE UserDeletesCronJob(k)
      BY <1>2, <2>9 DEF UserDeletesCronJob
    <2>10. QED
      BY <2>1, <2>3, <2>5, <2>6, <2>7, <2>8, <2>9
  <1>4. ASSUME NEW k \in Keys, CollectCronJob(k) \/ DeliverCronJobEvent(k) \/ DelayElapsed(k)
        PROVE  Goal
    BY <1>2, <1>4 DEF CollectCronJob, DeliverCronJobEvent, DelayElapsed, apiVars
  <1>5. ASSUME NEW k \in Keys, FinishForegroundDelete(k)
        PROVE  Goal
    <2>1. rv <= rv'
      BY <1>0, <1>5 DEF FinishForegroundDelete
    <2>2. QED
      BY <1>5, <2>1, StoredInOrder DEF FinishForegroundDelete
  <1>6. ASSUME NEW k \in Keys, DeliverRepoEvent(k)
        PROVE  Goal
    BY <1>6, DeliveredInOrder
  <1>7. CASE RelistRepos \/ Restart
    BY <1>7, ListedInOrder DEF RelistRepos, Restart, apiVars
  <1>8. CASE RelistCronJobs
    BY <1>2, <1>8 DEF RelistCronJobs, apiVars
  <1>9. ASSUME NEW w \in Workers, Get(w) \/ syncHandler(w)
        PROVE  Goal
    BY <1>2, <1>9 DEF Get, syncHandler, LookupRepo, LookupCronJob, CreateCleanupJob,
       DeleteCronJob, CreateCronJob, UpdateCronJob, CreateSyncJob, apiVars
  <1>10. CASE UNCHANGED vars
    BY <1>2, <1>10 DEF vars, apiVars
  <1>11. QED
    BY <1>3, <1>4, <1>5, <1>6, <1>7, <1>8, <1>9, <1>10 DEF Next, Cluster

(* What a step may do to a CronJob: only the worker that holds an          *)
(* AppRepository of the key writes one, and it then holds it no longer.    *)
WrittenBy(w, k) ==
    /\ workers[w].pc \in HoldingPCs
    /\ workers[w].key = k
    /\ cronjobs'[k].rv = workers[w].repo.rv
    /\ workers'[w].pc \notin HoldingPCs

(* A worker comes to hold an AppRepository only from the lister.           *)
ReadBy(w) ==
    /\ workers[w].key = workers'[w].key
    /\ workers[w].pc # "idle"
    /\ workers'[w].repo # Nil
    /\ workers'[w].repo = repoCache[workers[w].key]

StaysWith(w) ==
    /\ workers[w].pc \in HoldingPCs
    /\ workers'[w].key = workers[w].key
    /\ workers'[w].repo = workers[w].repo

LEMMA SyncHandlerVersions ==
    ASSUME TypeOK, NEW w \in Workers, syncHandler(w)
    PROVE  /\ \A k \in Keys : \/ cronjobs'[k] = cronjobs[k]
                              \/ cronjobs'[k] = Nil
                              \/ WrittenBy(w, k)
           /\ workers'[w].pc \in HoldingPCs => StaysWith(w) \/ ReadBy(w)
           /\ \A v \in Workers \ {w} : workers'[v] = workers[v]
  <1> DEFINE k == workers[w].key
             r == workers[w].repo
  <1>0. k \in Keys /\ workers[w].pc # "idle"
    BY SyncHandlerQueue, WorkerLocals
  <1>1. ASSUME NEW pc, Proceed(w, pc)
        PROVE  workers'[w].pc = pc /\ \A v \in Workers \ {w} : workers'[v] = workers[v]
    BY <1>1 DEF Proceed, TypeOK, At
  <1>2. ASSUME Succeed(w) \/ Fail(w)
        PROVE  workers'[w].pc = "idle" /\ \A v \in Workers \ {w} : workers'[v] = workers[v]
    BY <1>2 DEF Succeed, Fail, TypeOK, Idle, At
  <1>3. CASE LookupRepo(w)
    <2>1. workers'[w] = At(IF repoCache[k] = Nil THEN "cleanupJob" ELSE "getCron", k, repoCache[k])
      BY <1>3 DEF LookupRepo, TypeOK
    <2>2. workers'[w].pc \in HoldingPCs => ReadBy(w)
      BY <1>0, <2>1 DEF At, HoldingPCs, ReadBy
    <2>3. QED
      BY <1>3, <2>2 DEF LookupRepo, TypeOK, apiVars
  <1>4. CASE LookupCronJob(w)
    <2>1. workers'[w] = At(IF k \in cronjobCache THEN "updateCron" ELSE "createCron", k, r)
      BY <1>4 DEF LookupCronJob, TypeOK
    <2>2. StaysWith(w)
      BY <1>4, <2>1 DEF LookupCronJob, At, HoldingPCs, StaysWith
    <2>3. QED
      BY <1>4, <2>2 DEF LookupCronJob, TypeOK, apiVars
  <1>5. ASSUME NEW reply \in Replies, CreateCleanupJob(w, reply) \/ CreateSyncJob(w, reply)
        PROVE  /\ cronjobs' = cronjobs /\ workers'[w].pc \notin HoldingPCs
               /\ \A v \in Workers \ {w} : workers'[v] = workers[v]
    BY <1>1, <1>2, <1>5 DEF CreateCleanupJob, CreateSyncJob, HoldingPCs
  <1>6. ASSUME NEW reply \in Replies, DeleteCronJob(w, reply)
        PROVE  /\ \A j \in Keys : cronjobs'[j] = cronjobs[j] \/ cronjobs'[j] = Nil
               /\ workers'[w].pc \notin HoldingPCs
               /\ \A v \in Workers \ {w} : workers'[v] = workers[v]
    <2>1. \A j \in Keys : cronjobs'[j] = cronjobs[j] \/ cronjobs'[j] = Nil
      BY <1>0, <1>6 DEF DeleteCronJob, WriteCronJob, TypeOK
    <2>2. QED
      BY <1>2, <1>6, <2>1 DEF DeleteCronJob, HoldingPCs
  <1>7. ASSUME NEW reply \in Replies, CreateCronJob(w, reply) \/ UpdateCronJob(w, reply)
        PROVE  /\ \A j \in Keys : cronjobs'[j] = cronjobs[j] \/ WrittenBy(w, j)
               /\ workers'[w].pc \notin HoldingPCs
               /\ \A v \in Workers \ {w} : workers'[v] = workers[v]
    <2>1. workers[w].pc \in HoldingPCs
      BY <1>7 DEF CreateCronJob, UpdateCronJob, HoldingPCs
    <2>2. /\ workers'[w].pc \notin HoldingPCs
          /\ \A v \in Workers \ {w} : workers'[v] = workers[v]
      BY <1>1, <1>2, <1>7 DEF CreateCronJob, UpdateCronJob, HoldingPCs
    <2>3. cronjobs' = cronjobs \/ cronjobs' = [cronjobs EXCEPT ![k] = newCronJob(k, r)]
      BY <1>7 DEF CreateCronJob, UpdateCronJob, WriteCronJob
    <2>4. newCronJob(k, r).rv = r.rv
      BY DEF newCronJob
    <2>5. ASSUME NEW j \in Keys, cronjobs'[j] # cronjobs[j]
          PROVE  WrittenBy(w, j)
      <3>1. j = k /\ cronjobs'[j] = newCronJob(k, r)
        BY <2>3, <2>5 DEF TypeOK
      <3>2. QED
        BY <2>1, <2>2, <2>4, <3>1 DEF WrittenBy
    <2>6. QED
      BY <2>2, <2>5
  <1>8. QED
    BY <1>3, <1>4, <1>5, <1>6, <1>7 DEF syncHandler

LEMMA VersionMoves ==
    ASSUME TypeOK, [Next]_vars
    PROVE  /\ \A k \in Keys : \/ cronjobs'[k] = cronjobs[k]
                              \/ cronjobs'[k] = Nil
                              \/ \E w \in Workers : WrittenBy(w, k)
           /\ \A w \in Workers : workers'[w].pc \in HoldingPCs => StaysWith(w) \/ ReadBy(w)
  <1> DEFINE Goal == /\ \A k \in Keys : \/ cronjobs'[k] = cronjobs[k]
                                        \/ cronjobs'[k] = Nil
                                        \/ \E w \in Workers : WrittenBy(w, k)
                     /\ \A w \in Workers : workers'[w].pc \in HoldingPCs
                                              => StaysWith(w) \/ ReadBy(w)
  <1>1. ASSUME UNCHANGED <<cronjobs, workers>>
        PROVE  Goal
    BY <1>1 DEF StaysWith
  <1>2. ASSUME NEW k \in Keys, WriteCronJob(k, Nil), UNCHANGED workers
        PROVE  Goal
    BY <1>2 DEF StaysWith, WriteCronJob, TypeOK
  <1>3. CASE User
    BY <1>1, <1>2, <1>3 DEF User, CreateAppRepository, UpdateAppRepository,
       RefreshAppRepository, DeleteAppRepository, ForegroundDelete, PutRepo, UserDeletesCronJob
  <1>4. ASSUME NEW k \in Keys, Cluster(k)
        PROVE  Goal
    BY <1>1, <1>2, <1>4 DEF Cluster, CollectCronJob, FinishForegroundDelete
  <1>5. ASSUME NEW k \in Keys,
               DeliverRepoEvent(k) \/ DeliverCronJobEvent(k) \/ DelayElapsed(k)
        PROVE  Goal
    BY <1>1, <1>5 DEF DeliverRepoEvent, DeliverCronJobEvent, DelayElapsed, apiVars
  <1>6. CASE RelistRepos \/ RelistCronJobs
    BY <1>1, <1>6 DEF RelistRepos, RelistCronJobs, apiVars
  <1>7. ASSUME NEW w \in Workers, Get(w)
        PROVE  Goal
    <2>1. /\ workers'[w].pc \notin HoldingPCs
          /\ \A v \in Workers \ {w} : workers'[v] = workers[v]
      BY <1>7 DEF Get, TypeOK, At, HoldingPCs
    <2>2. QED
      BY <1>7, <2>1 DEF Get, apiVars, StaysWith
  <1>8. ASSUME NEW w \in Workers, syncHandler(w)
        PROVE  Goal
    BY <1>8, SyncHandlerVersions DEF StaysWith
  <1>9. CASE Restart
    BY <1>9 DEF Restart, apiVars, Idle, At, HoldingPCs
  <1>10. CASE UNCHANGED vars
    BY <1>1, <1>10 DEF vars, apiVars
  <1>11. QED
    BY <1>3, <1>4, <1>5, <1>6, <1>7, <1>8, <1>9, <1>10 DEF Next

LEMMA VersionStep ==
    ASSUME TypeOK, TypeOK', OneWorkerPerKey, OrderInv, VersionInv, [Next]_vars
    PROVE  /\ VersionInv'
           /\ \A k \in Keys : cronjobs[k] # Nil /\ cronjobs'[k] # Nil
                                  => cronjobs'[k].rv >= cronjobs[k].rv
  <1>1. \A j \in Keys, n \in Nat : Ahead(j, n) => Ahead(j, n)'
    BY OrderStep
  <1>2. \A r \in Repo : r.rv \in Nat
    BY DEF Repo
  <1>3. \A k \in Keys : cronjobs[k] # Nil => cronjobs[k].rv \in Nat
    BY DEF TypeOK, CronJob
  <1>4. ASSUME NEW w \in Workers, NEW k \in Keys, WrittenBy(w, k)
        PROVE  /\ Ahead(k, cronjobs'[k].rv)
               /\ cronjobs'[k].rv \in Nat
               /\ cronjobs[k] # Nil => cronjobs[k].rv <= cronjobs'[k].rv
    <2>1. PICK r \in Repo : r = workers[w].repo
      BY <1>4, WorkerLocals DEF WrittenBy, HoldingPCs, SyncPCs
    <2>2. Holds(w, k, r) /\ cronjobs'[k].rv = r.rv
      BY <1>4, <2>1 DEF WrittenBy, Holds
    <2>3. QED
      BY <1>2, <2>2 DEF VersionInv
  <1>5. ASSUME NEW k \in Keys, cronjobs'[k] # Nil
        PROVE  /\ Ahead(k, cronjobs[k].rv)'
               /\ cronjobs[k] # Nil => cronjobs'[k].rv >= cronjobs[k].rv
    <2>1. PICK n \in Nat : n = cronjobs'[k].rv
      BY <1>5 DEF TypeOK, CronJob
    <2>2. ASSUME Ahead(k, n)
          PROVE  Ahead(k, cronjobs[k].rv)'
      <3>1. Ahead(k, n)'
        BY <1>1, <2>2
      <3>2. QED
        BY <2>1, <3>1 DEF Ahead
    <2>3. CASE cronjobs'[k] = cronjobs[k]
      BY <1>3, <1>5, <2>1, <2>3, <2>2 DEF VersionInv
    <2>4. CASE \E w \in Workers : WrittenBy(w, k)
      BY <1>3, <1>4, <2>1, <2>4, <2>2
    <2>5. QED
      BY <1>5, <2>3, <2>4, VersionMoves
  <1>6. ASSUME NEW w \in Workers, NEW k \in Keys, NEW r \in Repo, Holds(w, k, r)'
        PROVE  /\ Ahead(k, r.rv)'
               /\ cronjobs'[k] # Nil => cronjobs'[k].rv <= r.rv
    <2>1. workers'[w].pc \in HoldingPCs /\ workers'[w].key = k /\ workers'[w].repo = r
      BY <1>6 DEF Holds
    <2>2. workers[w].pc # "idle" /\ workers[w].key = k
      BY <2>1, VersionMoves DEF StaysWith, ReadBy, HoldingPCs
    <2>3. /\ Ahead(k, r.rv)
          /\ cronjobs[k] # Nil => cronjobs[k].rv <= r.rv
      <3>1. CASE StaysWith(w)
        <4>1. Holds(w, k, r)
          BY <2>1, <3>1 DEF StaysWith, Holds
        <4>2. QED
          BY <4>1 DEF VersionInv
      <3>2. CASE ReadBy(w)
        <4>1. repoCache[k] = r /\ r # Nil
          BY <2>1, <2>2, <3>2 DEF ReadBy
        <4>2. QED
          BY <1>2, <1>3, <4>1 DEF OrderInv, InOrder, VersionInv, Ahead, NotNewer
      <3>3. QED
        BY <2>1, <3>1, <3>2, VersionMoves
    <2>4. \A v \in Workers : ~WrittenBy(v, k)
      BY <2>1, <2>2 DEF WrittenBy, OneWorkerPerKey, HoldingPCs
    <2>5. cronjobs'[k] = cronjobs[k] \/ cronjobs'[k] = Nil
      BY <2>4, VersionMoves
    <2>6. QED
      BY <1>1, <1>2, <2>3, <2>5
  <1>7. QED
    BY <1>5, <1>6 DEF VersionInv

-----------------------------------------------------------------------------
(* Two workers never run syncHandler for the same AppRepository at once.   *)
THEOREM OneWorker == Spec => []OneWorkerPerKey
  <1>1. Init => QueueInv /\ OneWorkerPerKey
    BY DEF Init, QueueInv, OneWorkerPerKey, Idle, At
  <1>2. TypeOK /\ QueueInv /\ OneWorkerPerKey /\ [Next]_vars => QueueInv' /\ OneWorkerPerKey'
    BY QueueStep
  <1>3. QED
    BY <1>1, <1>2, TypeCorrect, PTL DEF Spec

(* A key that is not queued and whose work was never given up has been     *)
(* served from what the lister holds, for any number of workers and with   *)
(* any number of failed calls, broken watches and restarts.                *)
THEOREM NothingLost == Spec => []NoLostUpdate
  <1>1. Init => QueueInv /\ OneWorkerPerKey /\ DeliveryInv
    BY DEF Init, QueueInv, OneWorkerPerKey, DeliveryInv, WatchInv, Heard, InFlight,
       NoLostUpdate, Served, CleanupPCs, SyncPCs, Idle, At
  <1>2. TypeOK /\ TypeOK' /\ QueueInv /\ OneWorkerPerKey /\ DeliveryInv /\ [Next]_vars
            => QueueInv' /\ OneWorkerPerKey' /\ DeliveryInv'
    BY QueueStep, DeliveryStep
  <1>3. DeliveryInv => NoLostUpdate
    BY DEF DeliveryInv
  <1>4. QED
    BY <1>1, <1>2, <1>3, TypeCorrect, PTL DEF Spec

(* A CronJob is never overwritten from an older version of its             *)
(* AppRepository: the lister only moves forward, and the one worker of a   *)
(* key writes what it read after every CronJob of that key was written.    *)
THEOREM NeverRollsBack == Spec => NoRollback
  <1>1. Init => QueueInv /\ OneWorkerPerKey /\ OrderInv /\ VersionInv
    <2> SUFFICES ASSUME Init
                 PROVE  QueueInv /\ OneWorkerPerKey /\ OrderInv /\ VersionInv
      OBVIOUS
    <2>1. QueueInv /\ OneWorkerPerKey
      BY DEF Init, QueueInv, OneWorkerPerKey, Idle, At
    <2>2. VersionInv
      BY DEF Init, VersionInv, Holds, HoldingPCs, Idle, At
    <2>3. ASSUME NEW k \in Keys
          PROVE  InOrder(k)
      <3>1. CASE k \in Installed
        <4>1. /\ repos[k] = NewRepo(InstalledUrl, 1) /\ rv = 1
              /\ repoCache[k] = Nil /\ repoWatch[k] = <<repos[k]>>
          BY <3>1 DEF Init
        <4>2. repos[k].rv = 1
          BY <4>1 DEF NewRepo
        <4>3. \A i \in 1..Len(repoWatch[k]) : i = 1 /\ \A j \in i..Len(repoWatch[k]) : j = 1
          BY <4>1
        <4>4. repoWatch[k][1] = repos[k]
          BY <4>1
        <4>5. QED
          BY <4>1, <4>2, <4>3, <4>4 DEF InOrder, NotNewer
      <3>2. CASE k \notin Installed
        BY <3>2 DEF Init, InOrder
      <3>3. QED
        BY <3>1, <3>2
    <2>4. QED
      BY <2>1, <2>2, <2>3 DEF OrderInv
  <1>2. TypeOK /\ TypeOK' /\ QueueInv /\ OneWorkerPerKey /\ OrderInv /\ VersionInv /\ [Next]_vars
            => QueueInv' /\ OneWorkerPerKey' /\ OrderInv' /\ VersionInv'
    BY QueueStep, OrderStep, VersionStep
  <1>3. TypeOK /\ TypeOK' /\ OneWorkerPerKey /\ OrderInv /\ VersionInv /\ [Next]_vars
            => [\A k \in Keys : cronjobs[k] # Nil /\ cronjobs'[k] # Nil
                                   => cronjobs'[k].rv >= cronjobs[k].rv]_vars
    BY VersionStep
  <1>4. QED
    BY <1>1, <1>2, <1>3, TypeCorrect, PTL DEF Spec, NoRollback
=============================================================================
