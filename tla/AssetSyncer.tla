---------------------------- MODULE AssetSyncer ----------------------------
(***************************************************************************)
(* The asset-syncer (cmd/asset-syncer) and the tables it keeps for one     *)
(* Helm repository (pkg/dbutils). A sync Job fetches the index, compares   *)
(* its checksum with the stored one, and if they differ upserts one chart  *)
(* after the other, deletes the charts that are gone, fetches icons and    *)
(* files, and stores the checksum last. Each statement commits on its own. *)
(* The pod restarts from the beginning whenever a step fails, and nothing  *)
(* keeps two Jobs of a repository (the CronJob's and the controller's)     *)
(* from running at once, or a cleanup Job from running beside them.        *)
(***************************************************************************)
EXTENDS Integers, FiniteSetsExt

CONSTANTS
    Charts,         \* names of charts
    Versions,       \* chart versions, as numbers in their semver order
    Icon,           \* the icon of a chart, among the things fetched for it
    Indexes,        \* the indexes that may be served
    Rules,          \* filter rules: each the set of charts it lets through
    Jobs,           \* sync Jobs that may run at the same time
    Nil,            \* no row
    MaxPublish,     \* bound on how often another index is served
    MaxEdits,       \* bound on what users do to the AppRepository
    MaxFaults       \* bound on failed calls and killed pods

(* An index lists versions of charts. The stamp stands for the sha256 of   *)
(* its bytes: indexes with the same checksum are the same.                 *)
Index == [stamp: Nat, charts: [Charts -> SUBSET Versions]]
Checksum(index) == index.stamp
NoChecksum == 0     \* "", a NULL column and a missing row alike

ASSUME IndexesAssumption ==
    /\ Versions \subseteq Nat
    /\ Icon \notin Versions
    /\ Rules \subseteq SUBSET Charts
    /\ Indexes \subseteq Index
    /\ \A x \in Indexes, c \in Charts :        \* some version is the latest
          x.charts[c] # {} => \E v \in x.charts[c] : \A u \in x.charts[c] : v >= u
ASSUME ChecksumAssumption ==
    \A x, y \in Indexes : Checksum(x) # NoChecksum /\ (Checksum(x) = Checksum(y) => x = y)
ASSUME SyncerBoundsAssumption == MaxPublish \in Nat /\ MaxEdits \in Nat /\ MaxFaults \in Nat

Assets == Charts \X (Versions \cup {Icon})

JobPCs == {"idle", "fetch", "compare", "ensure", "import", "files", "store"}
Passes == {"shallow", "full"}
Job == [pc: JobPCs, filter: SUBSET Charts, index: Indexes, pass: Passes,
        todo: SUBSET Charts, fetching: SUBSET Assets]

ASSUME NilAssumption == Nil \notin Nat /\ \A vs \in SUBSET Versions : Nil # vs

VARIABLES
    upstream,   \* the index that the repository serves now
    exists,     \* is there an AppRepository
    notice,     \* is its deletion in the controller's queue
    handler,    \* the controller's next call for a deleted AppRepository
    cronjob,    \* is there a CronJob
    filter,     \* its filter rule: the charts it lets through
    args,       \* the filter rule in the arguments of the Jobs the CronJob starts
    cleanup,    \* has a cleanup Job been created that has not run yet
    repo,       \* table repos: the checksum of its row, or Nil
    charts,     \* table charts: the versions listed for each chart, or Nil
    assets,     \* table files, and the icons in the rows of table charts
    jobs,       \* program counter and locals of each sync Job
    solo,       \* observer: Jobs that nothing has interfered with since they began
    suspect,    \* observer: something interfered with what the checksum covers
    torn,       \* observer: rows were written since a checksum was stored
    recalled,   \* observer: the index stored was served again over torn tables
    missed,     \* observer: fetches that failed and were only logged
    published,  \* bound
    edits,      \* bound
    faults      \* bound

upstreamVars == <<upstream, published>>
controllerVars == <<notice, handler, cronjob>>
repoVars == <<exists, filter, args, controllerVars, cleanup, edits>>
tableVars == <<repo, charts, assets>>
trust == <<solo, suspect>>
halfway == <<torn, recalled>>
observers == <<trust, halfway, missed>>
vars == <<upstreamVars, repoVars, tableVars, jobs, observers, faults>>

Init ==
    /\ upstream \in Indexes
    /\ published = 0
    /\ exists = TRUE
    /\ filter = Charts
    /\ args = Charts
    /\ notice = FALSE
    /\ handler = "idle"
    /\ cronjob = TRUE
    /\ cleanup = FALSE
    /\ repo = Nil
    /\ charts = [c \in Charts |-> Nil]
    /\ assets = {}
    /\ jobs = [j \in Jobs |-> [pc |-> "idle", filter |-> {}, index |-> upstream, pass |-> "full",
                               todo |-> {}, fetching |-> {}]]
    /\ solo = {}
    /\ suspect = FALSE
    /\ torn = FALSE
    /\ recalled = FALSE
    /\ missed = {}
    /\ edits = 0
    /\ faults = 0

Busy(j) == jobs[j].pc # "idle"

-----------------------------------------------------------------------------
(* The outside: the publisher, the user, the controller's answer to what   *)
(* the user does, and the cleanup Job.                                     *)

Stored == IF repo = Nil THEN NoChecksum ELSE repo

(* Another index is served, possibly one that was served before; so does   *)
(* an edit of the URL, for the Jobs started since. The observer notes when *)
(* it is the one whose checksum is stored, and a Job is running or has     *)
(* stopped halfway with another index.                                     *)
Publish ==
    /\ published < MaxPublish
    /\ published' = published + 1
    /\ upstream' \in Indexes \ {upstream}
    /\ recalled' = (Checksum(upstream') = Stored /\ (torn \/ \E j \in Jobs : Busy(j)))
    /\ UNCHANGED <<repoVars, tableVars, jobs, trust, torn, missed, faults>>

Edit ==
    /\ edits < MaxEdits
    /\ edits' = edits + 1

Fault ==
    /\ faults < MaxFaults
    /\ faults' = faults + 1

(* A filter rule is not part of the checksum, and a change of it alone     *)
(* does not make the controller touch the CronJob.                         *)
EditFilter(rule) ==
    /\ Edit
    /\ filter' = rule
    /\ suspect' = TRUE
    /\ UNCHANGED <<upstreamVars, exists, args, controllerVars, cleanup, tableVars, jobs, solo, halfway, missed, faults>>

(* The controller has some reason to serve the AppRepository, its creation *)
(* or deletion, a resync request or a restart: it creates the CronJob, or  *)
(* updates it so that its arguments follow the AppRepository.              *)
Reconcile ==
    /\ exists
    /\ handler = "idle"
    /\ args # filter \/ ~cronjob
    /\ args' = filter
    /\ cronjob' = TRUE
    /\ UNCHANGED <<upstreamVars, exists, filter, notice, handler, cleanup, edits, tableVars, jobs, observers, faults>>

RemoveRepo ==
    /\ Edit
    /\ exists
    /\ exists' = FALSE
    /\ notice' = TRUE
    /\ UNCHANGED <<upstreamVars, filter, args, handler, cronjob, cleanup, tableVars, jobs, observers, faults>>

(* Bounded by RemoveRepo.                                                  *)
AddRepo ==
    /\ ~exists
    /\ exists' = TRUE
    /\ UNCHANGED <<upstreamVars, filter, args, controllerVars, cleanup, edits, tableVars, jobs, observers, faults>>

(* The controller's worker takes the key, unless one is working on it. If  *)
(* the AppRepository has not come back it creates a cleanup Job. An error  *)
(* ends the handler, and nothing calls it again.                           *)
CleanUp ==
    /\ notice
    /\ handler = "idle"
    /\ notice' = FALSE
    /\ \/ exists /\ UNCHANGED <<handler, cleanup, suspect, faults>>
       \/ ~exists /\ cleanup' = TRUE /\ handler' = "cronjob" /\ UNCHANGED <<suspect, faults>>
       \/ ~exists /\ Fault /\ suspect' = TRUE /\ UNCHANGED <<handler, cleanup>>
    /\ UNCHANGED <<upstreamVars, exists, filter, args, cronjob, edits, tableVars, jobs, solo, halfway, missed>>

(* Its second call, after the cleanup Job may have run already.            *)
DeleteCronJob ==
    /\ handler = "cronjob"
    /\ handler' = "idle"
    /\ \/ cronjob' = FALSE /\ UNCHANGED faults
       \/ Fault /\ UNCHANGED cronjob
    /\ UNCHANGED <<upstreamVars, exists, filter, args, notice, cleanup, edits, tableVars, jobs, observers>>

(* The CronJob of an AppRepository in the namespace of Kubeapps is owned   *)
(* by it.                                                                  *)
GarbageCollect ==
    /\ ~exists
    /\ cronjob
    /\ cronjob' = FALSE
    /\ UNCHANGED <<upstreamVars, exists, filter, args, notice, handler, cleanup, edits, tableVars, jobs, observers, faults>>

(* Mutant: foreign keys without ON DELETE CASCADE.                         *)
EmptyNoCascade ==
    /\ repo' = Nil
    /\ solo' = {}
    /\ suspect' = (suspect \/ \E j \in Jobs : Busy(j))
    /\ UNCHANGED <<charts, assets>>

(* The rows go, and with them, by ON DELETE CASCADE, those that refer to   *)
(* them. A Job that is running at that moment has lost what it wrote.      *)
Empty ==
    /\ repo' = Nil
    /\ charts' = [c \in Charts |-> Nil]
    /\ assets' = {}
    /\ solo' = {}
    /\ suspect' = (suspect \/ \E j \in Jobs : Busy(j))

(* The delete command. A cleanup Job whose attempts have all failed is not *)
(* created again.                                                          *)
Delete ==
    /\ cleanup
    /\ cleanup' = FALSE
    /\ \/ Empty /\ UNCHANGED faults
       \/ Fault /\ suspect' = TRUE /\ UNCHANGED <<tableVars, solo>>
    /\ UNCHANGED <<upstreamVars, exists, filter, args, controllerVars, edits, jobs, halfway, missed>>

InvalidateCache ==
    /\ Edit
    /\ Empty
    /\ UNCHANGED <<upstreamVars, exists, filter, args, controllerVars, cleanup, jobs, halfway, missed, faults>>

-----------------------------------------------------------------------------
(* The life of a sync Job's pod.                                           *)

Goto(j, pc) == jobs' = [jobs EXCEPT ![j].pc = pc]

(* A run begins, in a new pod or in one that restarts (OnFailure) with the *)
(* same arguments. The observer notes when another Job is running, or      *)
(* something else is wrong with it.                                        *)
Begin(j, rule, stray) ==
    LET others == {i \in Jobs \ {j} : Busy(i)} IN
    /\ jobs' = [jobs EXCEPT ![j].pc = "fetch", ![j].filter = rule]
    /\ solo' = IF others = {} THEN {j} ELSE {}
    /\ suspect' = (suspect \/ others # {} \/ stray)

(* The CronJob may be there longer than the AppRepository: the observer    *)
(* notes a Job of a repository that is gone.                               *)
Start(j) ==
    /\ cronjob
    /\ ~Busy(j)
    /\ Begin(j, args, ~exists)
    /\ UNCHANGED <<upstreamVars, repoVars, tableVars, halfway, missed, faults>>

(* logrus.Fatal: the pod exits and the kubelet restarts it.                *)
Fatal(j) == Begin(j, jobs[j].filter, FALSE)

(* The pod dies, or the call it is about to make fails. A call that took   *)
(* effect but was not answered is a crash right after it.                  *)
Crash(j) ==
    /\ Busy(j)
    /\ Fault
    /\ Fatal(j)
    /\ UNCHANGED <<upstreamVars, repoVars, tableVars, halfway, missed>>

(* The CronJob's concurrency policy Replace, or the garbage collector.     *)
Kill(j) ==
    /\ Busy(j)
    /\ Fault
    /\ Goto(j, "idle")
    /\ UNCHANGED <<upstreamVars, repoVars, tableVars, observers>>

-----------------------------------------------------------------------------
(* The sync command, one action per call to the outside.                   *)

FetchIndex(j) ==
    /\ jobs[j].pc = "fetch"
    /\ jobs' = [jobs EXCEPT ![j].pc = "compare", ![j].index = upstream]
    /\ UNCHANGED <<upstreamVars, repoVars, tableVars, observers, faults>>

(* The charts of an index that a filter rule lets through, and the         *)
(* versions that a pass lists of each.                                     *)
Selected(index, rule) == {c \in rule : index.charts[c] # {}}

(* Mutant: the shallow pass takes all versions but the latest.             *)
ListedRest(index, c, pass) ==
    IF pass = "shallow" THEN index.charts[c] \ {Max(index.charts[c])} ELSE index.charts[c]

Listed(index, c, pass) ==
    IF pass = "shallow" THEN {Max(index.charts[c])} ELSE index.charts[c]

(* What fetchFiles fetches: each chart's icon and the files of each        *)
(* version listed.                                                         *)
Tasks(index, rule, pass) ==
    UNION {{c} \X ({Icon} \cup Listed(index, c, pass)) : c \in Selected(index, rule)}

(* One turn of the loop over fetchLatestOnly.                              *)
Pass(j, pass) == jobs' = [jobs EXCEPT ![j].pc = "ensure", ![j].pass = pass]

(* Mutant: a repository that was processed once is never processed again.  *)
LastChecksumOnce(j) ==
    LET index == jobs[j].index IN
    /\ jobs[j].pc = "compare"
    /\ \/ Stored # NoChecksum /\ Goto(j, "idle") /\ UNCHANGED trust
       \/ Stored = NoChecksum /\ Selected(index, Charts) = {} /\ Fatal(j)
       \/ /\ Stored = NoChecksum /\ Selected(index, Charts) # {}
          /\ Pass(j, "shallow")
          /\ UNCHANGED trust
    /\ UNCHANGED <<upstreamVars, repoVars, tableVars, halfway, missed, faults>>

(* The stored checksum decides. LastChecksum ignores the error of its      *)
(* query, so that a read that fails looks like a repository that was never *)
(* processed. Charts refuses an index without charts, but not one whose    *)
(* charts are all filtered out.                                            *)
LastChecksum(j) ==
    LET index == jobs[j].index IN
    /\ jobs[j].pc = "compare"
    /\ \E last \in {Stored, NoChecksum} :
         /\ IF last = Stored THEN UNCHANGED faults ELSE Fault
         /\ \/ /\ last = Checksum(index)
               /\ Goto(j, "idle")
               /\ UNCHANGED trust
            \/ /\ last # Checksum(index)
               /\ Selected(index, Charts) = {}
               /\ Fatal(j)
            \/ /\ last # Checksum(index)
               /\ Selected(index, Charts) # {}
               /\ Pass(j, IF last = NoChecksum THEN "shallow" ELSE "full")
               /\ UNCHANGED solo
               /\ suspect' = (suspect \/ last # Stored)
    /\ UNCHANGED <<upstreamVars, repoVars, tableVars, halfway, missed>>

(* Mutant: a sync begins by deleting the rows it is going to write.        *)
EnsureRepoExistsAfresh(j) ==
    /\ jobs[j].pc = "ensure"
    /\ repo' = Stored
    /\ charts' = [c \in Charts |-> Nil]
    /\ assets' = {}
    /\ jobs' = [jobs EXCEPT ![j].pc = "import",
                            ![j].todo = Selected(jobs[j].index, jobs[j].filter)]
    /\ UNCHANGED <<upstreamVars, repoVars, observers, faults>>

EnsureRepoExists(j) ==
    /\ jobs[j].pc = "ensure"
    /\ repo' = Stored
    /\ jobs' = [jobs EXCEPT ![j].pc = "import",
                            ![j].todo = Selected(jobs[j].index, jobs[j].filter)]
    /\ UNCHANGED <<upstreamVars, repoVars, charts, assets, observers, faults>>

(* One upsert; it replaces the row's info, its icon included, and needs    *)
(* the row of the repository.                                              *)
importCharts(j, c) ==
    /\ jobs[j].pc = "import"
    /\ c \in jobs[j].todo
    /\ IF repo = Nil
       THEN Fatal(j) /\ UNCHANGED <<charts, assets, torn>>
       ELSE /\ charts' = [charts EXCEPT ![c] = Listed(jobs[j].index, c, jobs[j].pass)]
            /\ assets' = assets \ {<<c, Icon>>}
            /\ jobs' = [jobs EXCEPT ![j].todo = jobs[j].todo \ {c}]
            /\ torn' = TRUE
            /\ UNCHANGED trust
    /\ UNCHANGED <<upstreamVars, repoVars, repo, recalled, missed, faults>>

(* NOT IN () is no SQL: with nothing to keep the statement fails.          *)
removeMissingCharts(j) ==
    LET keep == Selected(jobs[j].index, jobs[j].filter) IN
    /\ jobs[j].pc = "import"
    /\ jobs[j].todo = {}
    /\ IF keep = {}
       THEN Fatal(j) /\ UNCHANGED <<charts, assets, torn>>
       ELSE /\ charts' = [c \in Charts |-> IF c \in keep THEN charts[c] ELSE Nil]
            /\ assets' = {t \in assets : t[1] \in keep}
            /\ jobs' = [jobs EXCEPT ![j].pc = "files",
                          ![j].fetching = Tasks(jobs[j].index, jobs[j].filter, jobs[j].pass)]
            /\ torn' = TRUE
            /\ UNCHANGED trust
    /\ UNCHANGED <<upstreamVars, repoVars, repo, recalled, missed, faults>>

(* updateIcon, or insertFiles unless the files exist: both need the row of *)
(* the chart.                                                              *)
Import(t) ==
    /\ charts[t[1]] # Nil
    /\ assets' = assets \cup {t}
    /\ missed' = missed \ {t}

(* A worker of fetchFiles imports an icon or the files of a version, in    *)
(* any order; errors are only logged.                                      *)
fetchFiles(j, t) ==
    /\ jobs[j].pc = "files"
    /\ t \in jobs[j].fetching
    /\ jobs' = [jobs EXCEPT ![j].fetching = jobs[j].fetching \ {t}]
    /\ \/ /\ Import(t)
          /\ UNCHANGED faults
       \/ /\ charts[t[1]] = Nil
          /\ missed' = missed \cup {t}
          /\ UNCHANGED <<assets, faults>>
       \/ /\ Fault
          /\ missed' = missed \cup {t}
          /\ UNCHANGED assets
    /\ UNCHANGED <<upstreamVars, repoVars, repo, charts, trust, halfway>>

(* Mutants: the workers are not waited for; no pass follows the shallow    *)
(* one.                                                                    *)
NextPassNoWait(j) ==
    /\ jobs[j].pc = "files"
    /\ IF jobs[j].pass = "shallow" THEN Pass(j, "full") ELSE Goto(j, "store")
    /\ UNCHANGED <<upstreamVars, repoVars, tableVars, observers, faults>>

NextPassOnce(j) ==
    /\ jobs[j].pc = "files"
    /\ jobs[j].fetching = {}
    /\ Goto(j, "store")
    /\ UNCHANGED <<upstreamVars, repoVars, tableVars, observers, faults>>

(* The workers are done: the full pass follows the shallow one.            *)
NextPass(j) ==
    /\ jobs[j].pc = "files"
    /\ jobs[j].fetching = {}
    /\ IF jobs[j].pass = "shallow" THEN Pass(j, "full") ELSE Goto(j, "store")
    /\ UNCHANGED <<upstreamVars, repoVars, tableVars, observers, faults>>

(* An upsert: it also creates the row that a cleanup Job has deleted.      *)
UpdateLastCheck(j) ==
    /\ jobs[j].pc = "store"
    /\ repo' = Checksum(jobs[j].index)
    /\ Goto(j, "idle")
    /\ suspect' = ~(j \in solo /\ jobs[j].filter = filter /\ exists)
    /\ torn' = FALSE
    /\ recalled' = FALSE
    /\ UNCHANGED <<upstreamVars, repoVars, charts, assets, solo, missed, faults>>

-----------------------------------------------------------------------------
sync(j) ==
    \/ FetchIndex(j)
    \/ LastChecksum(j)
    \/ EnsureRepoExists(j)
    \/ \E c \in Charts : importCharts(j, c)
    \/ removeMissingCharts(j)
    \/ \E t \in Assets : fetchFiles(j, t)
    \/ NextPass(j)
    \/ UpdateLastCheck(j)

Next ==
    \/ Publish
    \/ \E rule \in Rules : EditFilter(rule)
    \/ Reconcile
    \/ RemoveRepo
    \/ AddRepo
    \/ CleanUp
    \/ DeleteCronJob
    \/ GarbageCollect
    \/ Delete
    \/ InvalidateCache
    \/ \E j \in Jobs : Start(j) \/ Crash(j) \/ Kill(j) \/ sync(j)

Spec == Init /\ [][Next]_vars

(* The CronJob starts Jobs for ever, pods run, the cleanup Job too.        *)
Fairness ==
    /\ WF_vars(Delete)
    /\ \A j \in Jobs : WF_vars(Start(j)) /\ WF_vars(sync(j))

FairSpec == Spec /\ Fairness

-----------------------------------------------------------------------------
(* Properties.                                                             *)

(* A row of table charts has a version: its readers take the first one.    *)
TypeOK ==
    /\ upstream \in Indexes
    /\ exists \in BOOLEAN
    /\ filter \in SUBSET Charts
    /\ args \in SUBSET Charts
    /\ notice \in BOOLEAN
    /\ handler \in {"idle", "cronjob"}
    /\ cronjob \in BOOLEAN
    /\ cleanup \in BOOLEAN
    /\ repo \in Nat \cup {Nil}
    /\ charts \in [Charts -> {Nil} \cup ((SUBSET Versions) \ {{}})]
    /\ assets \in SUBSET Assets
    /\ jobs \in [Jobs -> Job]
    /\ solo \in SUBSET Jobs
    /\ suspect \in BOOLEAN
    /\ torn \in BOOLEAN
    /\ recalled \in BOOLEAN
    /\ missed \in SUBSET Assets
    /\ published \in 0..MaxPublish
    /\ edits \in 0..MaxEdits
    /\ faults \in 0..MaxFaults

(* A run that begins now would take the repository for processed.          *)
WouldSkip == Stored = Checksum(upstream)

Wanted ==
    [c \in Charts |-> IF c \in Selected(upstream, filter) THEN upstream.charts[c] ELSE Nil]

(* When the stored checksum makes a Job skip the repository, the charts in *)
(* the database are those of the index and of the filter, whatever crashed *)
(* or was killed halfway and whichever indexes were served in between,     *)
(* unless something interfered with the run that stored it: another Job, a *)
(* deletion of the rows, a lost read of the checksum, or a change of the   *)
(* filter; or the index stored was served again while the tables were half *)
(* written for another one, which the checksum cannot tell.                *)
SkipSound == WouldSkip /\ ~suspect /\ ~recalled => charts = Wanted

(* In the same case nothing is missing beside the charts: every icon, and  *)
(* the files of every version, were imported, or their import has failed   *)
(* and was logged. Upserting a chart drops its icon and deleting one drops *)
(* its files, so this needs all of them to be fetched again in time.       *)
AssetsComplete ==
    WouldSkip /\ ~suspect /\ ~recalled => Tasks(upstream, filter, "full") \subseteq assets \cup missed

(* Once the controller has dealt with the deletion of an AppRepository and *)
(* its cleanup Job has run, none of its rows is left, unless a call failed *)
(* that creates or runs the cleanup Job, or a sync Job ran beside it or    *)
(* was started after the deletion by the CronJob, which is deleted last,   *)
(* and stays if that call fails.                                           *)
NoOrphans ==
    ~exists /\ ~notice /\ handler = "idle" /\ ~cleanup /\ ~suspect /\ (\A j \in Jobs : ~Busy(j))
        => repo = Nil /\ assets = {} /\ \A c \in Charts : charts[c] = Nil

(* Readers of the database see no gap while a processed repository is      *)
(* synced again: a chart version disappears only if the index being synced *)
(* or the Job's filter has it no more. (Charts are upserted before any is  *)
(* deleted, and the pass over the latest versions is for new repositories  *)
(* only.)                                                                  *)
Shown(c, v) == charts[c] # Nil /\ v \in charts[c]

NoFlicker ==
    [][Stored # NoChecksum /\ repo' # Nil /\ ~suspect =>
         \A c \in Charts, v \in Versions :
             Shown(c, v) /\ ~Shown(c, v)' =>
                 \E j \in Jobs : Busy(j) /\ (v \notin jobs[j].index.charts[c] \/ c \notin jobs[j].filter)
      ]_vars

(* The database catches up with the index that is served last, although    *)
(* Jobs crash and are killed while they sync it or an earlier one. A rule  *)
(* that lets nothing through is excepted, also one that only a running Job *)
(* still has: removeMissingCharts fails, and its pod restarts with it.     *)
EventuallyInSync ==
    <>[](/\ exists /\ cronjob /\ ~suspect /\ ~recalled
         /\ \A rule \in {filter} \cup {jobs[j].filter : j \in {i \in Jobs : Busy(i)}} :
              Selected(upstream, rule) # {})
        => <>[](charts = Wanted)

(* What sync.go says of the comparison, "Check if the repo has been        *)
(* already processed": when no Job is running and the next one would skip  *)
(* the repository, the database holds what the index and filter ask for.   *)
AlreadyProcessed ==
    WouldSkip /\ exists /\ (\A j \in Jobs : ~Busy(j)) => charts = Wanted
=============================================================================
