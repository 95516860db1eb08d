------------------------- MODULE AssetSyncerProofs -------------------------
(***************************************************************************)
(* Theorems about AssetSyncer, for any charts, versions, indexes and       *)
(* number of Jobs and any bounds: its types, and what the stored checksum  *)
(* promises.  The inductive invariant says who may still write the tables, *)
(* how the checksum stored relates to the index a Job is syncing, and what *)
(* a Job that runs alone has written so far.                               *)
(***************************************************************************)
EXTENDS AssetSyncer, TLAPS

USE SyncerBoundsAssumption, NilAssumption

-----------------------------------------------------------------------------
(* Type correctness.                                                       *)

LEMMA IndexFacts ==
    ASSUME NEW x \in Indexes
    PROVE  /\ x.charts \in [Charts -> SUBSET Versions]
           /\ Checksum(x) \in Nat /\ Checksum(x) # NoChecksum
  <1>1. x \in Index
    BY IndexesAssumption
  <1>2. QED
    BY <1>1, ChecksumAssumption DEF Index, Checksum

(* A chart of an index lists known versions, and so does either pass.      *)
LEMMA ListedType ==
    ASSUME NEW index \in Indexes, NEW c \in Charts, index.charts[c] # {}, NEW pass
    PROVE  Listed(index, c, pass) \in (SUBSET Versions) \ {{}}
  <1>2. index.charts[c] \in SUBSET Versions
    BY IndexFacts
  <1>3. \E v \in index.charts[c] : \A u \in index.charts[c] : v >= u
    BY IndexesAssumption
  <1>4. Max(index.charts[c]) \in index.charts[c]
    BY <1>3 DEF Max
  <1>5. CASE pass = "shallow"
    <2>1. Listed(index, c, pass) = {Max(index.charts[c])}
      BY <1>5 DEF Listed
    <2>2. QED
      BY <1>2, <1>4, <2>1
  <1>6. CASE pass # "shallow"
    <2>1. Listed(index, c, pass) = index.charts[c]
      BY <1>6 DEF Listed
    <2>2. QED
      BY <1>2, <2>1
  <1>7. QED
    BY <1>5, <1>6

LEMMA SelectedType ==
    ASSUME NEW index, NEW rule \in SUBSET Charts
    PROVE  Selected(index, rule) \in SUBSET Charts
  BY DEF Selected

LEMMA TasksType ==
    ASSUME NEW index \in Indexes, NEW rule \in SUBSET Charts, NEW pass
    PROVE  Tasks(index, rule, pass) \in SUBSET Assets
  <1>1. ASSUME NEW c \in Selected(index, rule)
        PROVE  {c} \X ({Icon} \cup Listed(index, c, pass)) \subseteq Assets
    <2>1. c \in Charts /\ index.charts[c] # {}
      BY <1>1 DEF Selected
    <2>2. Listed(index, c, pass) \in (SUBSET Versions) \ {{}}
      BY <2>1, ListedType
    <2>3. QED
      BY <2>1, <2>2 DEF Assets
  <1>2. QED
    BY <1>1 DEF Tasks

(* The parts of a Job that a step writes.                                  *)
LEMMA JobType ==
    ASSUME TypeOK, NEW j \in Jobs
    PROVE  /\ jobs[j].pc \in JobPCs /\ jobs[j].filter \in SUBSET Charts
           /\ jobs[j].index \in Indexes /\ jobs[j].pass \in Passes
           /\ jobs[j].todo \in SUBSET Charts /\ jobs[j].fetching \in SUBSET Assets
           /\ \A pc \in JobPCs : [jobs[j] EXCEPT !.pc = pc] \in Job
           /\ \A pc \in JobPCs, f \in SUBSET Charts :
                 [jobs[j] EXCEPT !.pc = pc, !.filter = f] \in Job
           /\ \A pc \in JobPCs, i \in Indexes : [jobs[j] EXCEPT !.pc = pc, !.index = i] \in Job
           /\ \A pc \in JobPCs, p \in Passes : [jobs[j] EXCEPT !.pc = pc, !.pass = p] \in Job
           /\ \A pc \in JobPCs, cs \in SUBSET Charts :
                 [jobs[j] EXCEPT !.pc = pc, !.todo = cs] \in Job
           /\ \A cs \in SUBSET Charts : [jobs[j] EXCEPT !.todo = cs] \in Job
           /\ \A pc \in JobPCs, ts \in SUBSET Assets :
                 [jobs[j] EXCEPT !.pc = pc, !.fetching = ts] \in Job
           /\ \A ts \in SUBSET Assets : [jobs[j] EXCEPT !.fetching = ts] \in Job
  <1>1. jobs[j] \in Job
    BY DEF TypeOK
  <1>2. QED
    BY <1>1 DEF Job

(* A pod that begins again.                                                *)
LEMMA BeginType ==
    ASSUME TypeOK, NEW j \in Jobs, NEW rule \in SUBSET Charts, NEW stray, Begin(j, rule, stray)
    PROVE  jobs' \in [Jobs -> Job] /\ solo' \in SUBSET Jobs /\ suspect' \in BOOLEAN
  <1>1. [jobs[j] EXCEPT !.pc = "fetch", !.filter = rule] \in Job
    BY JobType DEF JobPCs
  <1>2. jobs' \in [Jobs -> Job]
    BY <1>1 DEF TypeOK, Begin
  <1>3. solo' \in SUBSET Jobs
    BY DEF Begin
  <1>4. suspect' \in BOOLEAN
    BY DEF Begin
  <1>5. QED
    BY <1>2, <1>3, <1>4

LEMMA OutsideType ==
    ASSUME TypeOK,
           \/ Publish \/ Reconcile \/ RemoveRepo \/ AddRepo \/ CleanUp \/ DeleteCronJob
           \/ GarbageCollect \/ Delete \/ InvalidateCache
           \/ \E rule \in Rules : EditFilter(rule)
    PROVE  TypeOK'
  <1>1. CASE Publish
    <2>1. upstream' \in Indexes /\ published' \in 0..MaxPublish
      BY <1>1 DEF TypeOK, Publish
    <2>2. recalled' \in BOOLEAN
      BY <1>1 DEF Publish
    <2>3. QED
      BY <1>1, <2>1, <2>2 DEF TypeOK, Publish, repoVars, controllerVars, tableVars, trust
  <1>2. CASE RemoveRepo
    <2>1. exists' \in BOOLEAN /\ notice' \in BOOLEAN
      BY <1>2 DEF RemoveRepo
    <2>2. edits' \in 0..MaxEdits
      BY <1>2 DEF TypeOK, RemoveRepo, Edit
    <2>3. UNCHANGED <<upstreamVars, filter, args, handler, cronjob, cleanup, tableVars, jobs, observers, faults>>
      BY <1>2 DEF RemoveRepo
    <2>4. QED
      BY <2>1, <2>2, <2>3 DEF TypeOK, upstreamVars, tableVars, observers, trust, halfway
  <1>3. CASE AddRepo
    BY <1>3 DEF TypeOK, AddRepo, controllerVars, upstreamVars, tableVars, observers, trust, halfway
  <1>4. ASSUME Empty
        PROVE  /\ repo' \in Nat \cup {Nil} /\ charts' \in [Charts -> {Nil} \cup ((SUBSET Versions) \ {{}})]
               /\ assets' \in SUBSET Assets /\ solo' \in SUBSET Jobs /\ suspect' \in BOOLEAN
    <2>1. /\ repo' \in Nat \cup {Nil} /\ charts' \in [Charts -> {Nil} \cup ((SUBSET Versions) \ {{}})]
          /\ assets' \in SUBSET Assets /\ solo' \in SUBSET Jobs
      BY <1>4 DEF Empty
    <2>2. suspect' \in BOOLEAN
      BY <1>4 DEF Empty
    <2>3. QED
      BY <2>1, <2>2
  <1>5. CASE Delete
    <2>1. CASE Empty /\ UNCHANGED faults
      BY <1>4, <1>5, <2>1 DEF TypeOK, Delete, upstreamVars, controllerVars, halfway
    <2>2. CASE Fault /\ suspect' = TRUE /\ UNCHANGED <<tableVars, solo>>
      <3>1. cleanup' \in BOOLEAN /\ suspect' \in BOOLEAN
        BY <1>5, <2>2 DEF Delete
      <3>2. faults' \in 0..MaxFaults
        BY <2>2 DEF TypeOK, Fault
      <3>3. UNCHANGED <<upstreamVars, exists, filter, args, controllerVars, edits, jobs, halfway, missed, tableVars, solo>>
        BY <1>5, <2>2 DEF Delete
      <3>4. QED
        BY <3>1, <3>2, <3>3 DEF TypeOK, tableVars, upstreamVars, controllerVars, halfway
    <2>3. QED
      BY <1>5, <2>1, <2>2 DEF Delete
  <1>6. CASE InvalidateCache
    BY <1>4, <1>6 DEF TypeOK, InvalidateCache, Edit, upstreamVars, controllerVars, halfway
  <1>7. ASSUME NEW rule \in Rules, EditFilter(rule)
        PROVE  TypeOK'
    BY <1>7, IndexesAssumption DEF TypeOK, EditFilter, Edit, tableVars, upstreamVars, controllerVars, halfway
  <1>8. CASE Reconcile
    BY <1>8 DEF TypeOK, Reconcile, tableVars, observers, upstreamVars, trust, halfway
  <1>9. CASE CleanUp
    <2>1. /\ notice' \in BOOLEAN /\ cleanup' \in BOOLEAN /\ suspect' \in BOOLEAN
          /\ handler' \in {"idle", "cronjob"}
      BY <1>9 DEF TypeOK, CleanUp
    <2>2. faults' \in 0..MaxFaults
      BY <1>9 DEF TypeOK, CleanUp, Fault
    <2>3. QED
      BY <1>9, <2>1, <2>2 DEF TypeOK, CleanUp, tableVars, upstreamVars, halfway
  <1>10. CASE DeleteCronJob
    <2>1. cronjob' \in BOOLEAN /\ handler' \in {"idle", "cronjob"}
      BY <1>10 DEF TypeOK, DeleteCronJob
    <2>2. faults' \in 0..MaxFaults
      BY <1>10 DEF TypeOK, DeleteCronJob, Fault
    <2>3. QED
      BY <1>10, <2>1, <2>2 DEF TypeOK, DeleteCronJob, tableVars, upstreamVars, observers, trust, halfway
  <1>11. CASE GarbageCollect
    BY <1>11 DEF TypeOK, GarbageCollect, tableVars, upstreamVars, observers, trust, halfway
  <1>12. QED
    BY <1>1, <1>2, <1>3, <1>5, <1>6, <1>7, <1>8, <1>9, <1>10, <1>11

LEMMA PodType ==
    ASSUME TypeOK, NEW j \in Jobs, Start(j) \/ Crash(j) \/ Kill(j)
    PROVE  TypeOK'
  <1>1. CASE Start(j)
    <2>1. jobs' \in [Jobs -> Job] /\ solo' \in SUBSET Jobs /\ suspect' \in BOOLEAN
      BY <1>1, BeginType DEF TypeOK, Start
    <2>2. QED
      BY <1>1, <2>1 DEF TypeOK, Start, repoVars, controllerVars, tableVars, upstreamVars, halfway
  <1>2. CASE Crash(j)
    <2>1. jobs' \in [Jobs -> Job] /\ solo' \in SUBSET Jobs /\ suspect' \in BOOLEAN
      BY <1>2, BeginType, JobType DEF Crash, Fatal
    <2>2. QED
      BY <1>2, <2>1 DEF TypeOK, Crash, Fault, repoVars, controllerVars, tableVars, upstreamVars, halfway
  <1>3. CASE Kill(j)
    <2>1. [jobs[j] EXCEPT !.pc = "idle"] \in Job
      BY JobType DEF JobPCs
    <2>2. jobs' \in [Jobs -> Job]
      BY <1>3, <2>1 DEF TypeOK, Kill, Goto
    <2>3. QED
      BY <1>3, <2>2 DEF TypeOK, Kill, Fault, repoVars, controllerVars, tableVars, observers, upstreamVars, trust, halfway
  <1>4. QED
    BY <1>1, <1>2, <1>3

(* Only charts of the index are left to import.                            *)
TodoInv ==
    \A j \in Jobs : jobs[j].pc = "import" =>
        jobs[j].todo \subseteq Selected(jobs[j].index, jobs[j].filter)

LEMMA SyncType ==
    ASSUME TypeOK, TodoInv, NEW j \in Jobs, sync(j)
    PROVE  TypeOK'
  <1> DEFINE job == jobs[j]
  <1>1. CASE FetchIndex(j)
    <2>1. [job EXCEPT !.pc = "compare", !.index = upstream] \in Job
      BY JobType DEF JobPCs, TypeOK
    <2>2. jobs' \in [Jobs -> Job]
      BY <1>1, <2>1 DEF TypeOK, FetchIndex
    <2>3. QED
      BY <1>1, <2>2 DEF TypeOK, FetchIndex, repoVars, controllerVars, tableVars, observers, upstreamVars, trust, halfway
  <1>2. CASE LastChecksum(j)
    <2>1. PICK last \in {Stored, NoChecksum} :
            /\ IF last = Stored THEN UNCHANGED faults ELSE Fault
            /\ \/ Goto(j, "idle") /\ UNCHANGED trust
               \/ Fatal(j)
               \/ /\ Pass(j, IF last = NoChecksum THEN "shallow" ELSE "full")
                  /\ UNCHANGED solo
                  /\ suspect' = (suspect \/ last # Stored)
      BY <1>2 DEF LastChecksum
    <2>2. faults' \in 0..MaxFaults
      BY <2>1 DEF TypeOK, Fault
    <2>3. jobs' \in [Jobs -> Job] /\ solo' \in SUBSET Jobs /\ suspect' \in BOOLEAN
      <3>1. CASE Goto(j, "idle") /\ UNCHANGED trust
        <4>1. [job EXCEPT !.pc = "idle"] \in Job
          BY JobType DEF JobPCs
        <4>2. QED
          BY <3>1, <4>1 DEF TypeOK, Goto, trust
      <3>2. CASE Fatal(j)
        BY <3>2, BeginType, JobType DEF Fatal
      <3>3. ASSUME NEW p \in Passes, Pass(j, p), solo' = solo, suspect' = (suspect \/ last # Stored)
            PROVE  jobs' \in [Jobs -> Job] /\ solo' \in SUBSET Jobs /\ suspect' \in BOOLEAN
        <4>1. [job EXCEPT !.pc = "ensure", !.pass = p] \in Job
          BY JobType DEF JobPCs
        <4>2. jobs' \in [Jobs -> Job]
          BY <3>3, <4>1 DEF TypeOK, Pass
        <4>3. suspect' \in BOOLEAN
          BY <3>3
        <4>4. QED
          BY <3>3, <4>2, <4>3 DEF TypeOK
      <3>4. QED
        BY <2>1, <3>1, <3>2, <3>3 DEF Passes
    <2>4. QED
      BY <1>2, <2>2, <2>3 DEF TypeOK, LastChecksum, repoVars, controllerVars, tableVars, upstreamVars, halfway
  <1>3. CASE EnsureRepoExists(j)
    <2>1. [job EXCEPT !.pc = "import", !.todo = Selected(job.index, job.filter)] \in Job
      BY JobType, SelectedType DEF JobPCs
    <2>2. jobs' \in [Jobs -> Job]
      BY <1>3, <2>1 DEF TypeOK, EnsureRepoExists
    <2>3. repo' \in Nat \cup {Nil}
      BY <1>3 DEF TypeOK, EnsureRepoExists, Stored, NoChecksum
    <2>4. QED
      BY <1>3, <2>2, <2>3 DEF TypeOK, EnsureRepoExists, repoVars, controllerVars, observers, upstreamVars, trust, halfway
  <1>4. ASSUME Fatal(j), UNCHANGED <<charts, assets, torn>>,
               UNCHANGED <<upstreamVars, repoVars, repo, recalled, missed, faults>>
        PROVE  TypeOK'
    <2>1. jobs' \in [Jobs -> Job] /\ solo' \in SUBSET Jobs /\ suspect' \in BOOLEAN
      BY <1>4, BeginType, JobType DEF Fatal
    <2>2. QED
      BY <1>4, <2>1 DEF TypeOK, repoVars, controllerVars, upstreamVars, trust, halfway
  <1>5. ASSUME NEW c \in Charts, importCharts(j, c)
        PROVE  TypeOK'
    <2>1. CASE repo = Nil
      BY <1>4, <1>5, <2>1 DEF importCharts
    <2>2. CASE repo # Nil
      <3>1. [job EXCEPT !.todo = job.todo \ {c}] \in Job
        <4>1. job.todo \ {c} \in SUBSET Charts
          BY JobType
        <4>2. QED
          BY <4>1, JobType
      <3>2. jobs' \in [Jobs -> Job]
        BY <1>5, <2>2, <3>1 DEF TypeOK, importCharts
      <3>3. charts' \in [Charts -> {Nil} \cup ((SUBSET Versions) \ {{}})]
        <4>1. job.index.charts[c] # {}
          BY <1>5 DEF importCharts, TodoInv, Selected
        <4>2. Listed(job.index, c, job.pass) \in (SUBSET Versions) \ {{}}
          BY <4>1, JobType, ListedType
        <4>3. QED
          BY <1>5, <2>2, <4>2 DEF TypeOK, importCharts
      <3>4. assets' \in SUBSET Assets
        BY <1>5, <2>2 DEF TypeOK, importCharts
      <3>5. QED
        BY <1>5, <2>2, <3>2, <3>3, <3>4 DEF TypeOK, importCharts, repoVars, controllerVars, upstreamVars, trust, halfway
    <2>3. QED
      BY <2>1, <2>2
  <1>6. CASE removeMissingCharts(j)
    <2> DEFINE keep == Selected(job.index, job.filter)
    <2>1. CASE keep = {}
      BY <1>4, <1>6, <2>1 DEF removeMissingCharts
    <2>2. CASE keep # {}
      <3>1. [job EXCEPT !.pc = "files", !.fetching = Tasks(job.index, job.filter, job.pass)] \in Job
        BY JobType, TasksType DEF JobPCs
      <3>2. jobs' \in [Jobs -> Job]
        BY <1>6, <2>2, <3>1 DEF TypeOK, removeMissingCharts
      <3>3. charts' \in [Charts -> {Nil} \cup ((SUBSET Versions) \ {{}})]
        BY <1>6, <2>2 DEF TypeOK, removeMissingCharts
      <3>4. assets' \in SUBSET Assets
        BY <1>6, <2>2 DEF TypeOK, removeMissingCharts
      <3>5. QED
        BY <1>6, <2>2, <3>2, <3>3, <3>4 DEF TypeOK, removeMissingCharts, repoVars, controllerVars, upstreamVars, trust, halfway
    <2>3. QED
      BY <2>1, <2>2
  <1>7. ASSUME NEW t \in Assets, fetchFiles(j, t)
        PROVE  TypeOK'
    <2>1. [job EXCEPT !.fetching = job.fetching \ {t}] \in Job
      <3>1. job.fetching \ {t} \in SUBSET Assets
        BY JobType
      <3>2. QED
        BY <3>1, JobType
    <2>2. jobs' \in [Jobs -> Job]
      BY <1>7, <2>1 DEF TypeOK, fetchFiles
    <2>3. assets' \in SUBSET Assets /\ missed' \in SUBSET Assets /\ faults' \in 0..MaxFaults
      BY <1>7 DEF TypeOK, fetchFiles, Import, Fault
    <2>4. QED
      BY <1>7, <2>2, <2>3 DEF TypeOK, fetchFiles, repoVars, controllerVars, upstreamVars, trust, halfway
  <1>8. CASE NextPass(j)
    <2>1. /\ [job EXCEPT !.pc = "ensure", !.pass = "full"] \in Job
          /\ [job EXCEPT !.pc = "store"] \in Job
      BY JobType DEF JobPCs, Passes
    <2>2. jobs' \in [Jobs -> Job]
      BY <1>8, <2>1 DEF TypeOK, NextPass, Pass, Goto
    <2>3. QED
      BY <1>8, <2>2 DEF TypeOK, NextPass, repoVars, controllerVars, tableVars, observers, upstreamVars, trust, halfway
  <1>9. CASE UpdateLastCheck(j)
    <2>1. [job EXCEPT !.pc = "idle"] \in Job
      BY JobType DEF JobPCs
    <2>2. jobs' \in [Jobs -> Job]
      BY <1>9, <2>1 DEF TypeOK, UpdateLastCheck, Goto
    <2>3. repo' \in Nat
      BY <1>9, JobType, IndexFacts DEF UpdateLastCheck
    <2>4. suspect' \in BOOLEAN
      BY <1>9 DEF UpdateLastCheck
    <2>5. QED
      BY <1>9, <2>2, <2>3, <2>4 DEF TypeOK, UpdateLastCheck, repoVars, controllerVars, upstreamVars, trust, halfway
  <1>10. QED
    BY <1>1, <1>2, <1>3, <1>5, <1>6, <1>7, <1>8, <1>9 DEF sync

(* A step of Job j leaves the other Jobs as they are.                      *)
LEMMA OtherJobs ==
    ASSUME TypeOK, NEW j \in Jobs, Start(j) \/ Crash(j) \/ Kill(j) \/ sync(j)
    PROVE  \A i \in Jobs \ {j} : jobs'[i] = jobs[i]
  <1>1. ASSUME NEW rule, NEW stray, Begin(j, rule, stray)
        PROVE  \A i \in Jobs \ {j} : jobs'[i] = jobs[i]
    BY <1>1 DEF TypeOK, Begin
  <1>2. ASSUME NEW pc, Goto(j, pc) \/ Pass(j, pc)
        PROVE  \A i \in Jobs \ {j} : jobs'[i] = jobs[i]
    BY <1>2 DEF TypeOK, Goto, Pass
  <1>3. CASE Start(j) \/ Crash(j) \/ Kill(j)
    BY <1>1, <1>2, <1>3 DEF Start, Crash, Kill, Fatal
  <1>4. CASE FetchIndex(j) \/ EnsureRepoExists(j)
    BY <1>4 DEF TypeOK, FetchIndex, EnsureRepoExists
  <1>5. CASE LastChecksum(j)
    BY <1>1, <1>2, <1>5 DEF LastChecksum, Fatal
  <1>6. ASSUME NEW c \in Charts, importCharts(j, c)
        PROVE  \A i \in Jobs \ {j} : jobs'[i] = jobs[i]
    BY <1>1, <1>6 DEF TypeOK, importCharts, Fatal
  <1>7. CASE removeMissingCharts(j)
    BY <1>1, <1>7 DEF TypeOK, removeMissingCharts, Fatal
  <1>8. ASSUME NEW t \in Assets, fetchFiles(j, t)
        PROVE  \A i \in Jobs \ {j} : jobs'[i] = jobs[i]
    BY <1>8 DEF TypeOK, fetchFiles
  <1>9. CASE NextPass(j) \/ UpdateLastCheck(j)
    BY <1>2, <1>9 DEF NextPass, UpdateLastCheck
  <1>10. QED
    BY <1>3, <1>4, <1>5, <1>6, <1>7, <1>8, <1>9 DEF sync

LEMMA TodoStep ==
    ASSUME TypeOK, TodoInv, [Next]_vars
    PROVE  TodoInv'
  <1>1. ASSUME UNCHANGED jobs
        PROVE  TodoInv'
    BY <1>1 DEF TodoInv
  <1>2. CASE UNCHANGED vars
    BY <1>1, <1>2 DEF vars
  <1>3. CASE \/ Publish \/ Reconcile \/ RemoveRepo \/ AddRepo \/ CleanUp \/ DeleteCronJob
           \/ GarbageCollect \/ Delete \/ InvalidateCache
             \/ \E rule \in Rules : EditFilter(rule)
    BY <1>1, <1>3 DEF Publish, Reconcile, RemoveRepo, AddRepo, CleanUp, DeleteCronJob,
                      GarbageCollect, Delete, InvalidateCache, EditFilter
  <1>4. ASSUME NEW j \in Jobs, Start(j) \/ Crash(j) \/ Kill(j) \/ sync(j)
        PROVE  TodoInv'
    <2>1. SUFFICES jobs'[j].pc = "import" =>
                     jobs'[j].todo \subseteq Selected(jobs'[j].index, jobs'[j].filter)
      BY <1>4, OtherJobs DEF TodoInv
    <2>2. jobs[j] \in Job
      BY DEF TypeOK
    <2>3. ASSUME NEW rule, NEW stray, Begin(j, rule, stray)
          PROVE  jobs'[j].pc = "fetch"
      BY <2>2, <2>3 DEF TypeOK, Begin, Job
    <2>4. ASSUME NEW pc, Goto(j, pc)
          PROVE  jobs'[j].pc = pc
      BY <2>2, <2>4 DEF TypeOK, Goto, Job
    <2>5. ASSUME NEW p, Pass(j, p)
          PROVE  jobs'[j].pc = "ensure"
      BY <2>2, <2>5 DEF TypeOK, Pass, Job
    <2>6. CASE Start(j) \/ Crash(j) \/ Kill(j)
      BY <2>3, <2>4, <2>6 DEF Start, Crash, Kill, Fatal
    <2>7. CASE FetchIndex(j)
      BY <2>2, <2>7 DEF TypeOK, FetchIndex, Job
    <2>8. CASE LastChecksum(j)
      BY <2>3, <2>4, <2>5, <2>8 DEF LastChecksum, Fatal
    <2>9. CASE EnsureRepoExists(j)
      BY <2>2, <2>9 DEF TypeOK, EnsureRepoExists, Job
    <2>10. ASSUME NEW c \in Charts, importCharts(j, c)
           PROVE  jobs'[j].pc = "import" =>
                     jobs'[j].todo \subseteq Selected(jobs'[j].index, jobs'[j].filter)
      <3>1. CASE repo = Nil
        BY <2>3, <2>10, <3>1 DEF importCharts, Fatal
      <3>2. CASE repo # Nil
        <4>1. /\ jobs'[j].todo = jobs[j].todo \ {c}
              /\ jobs'[j].index = jobs[j].index /\ jobs'[j].filter = jobs[j].filter
          BY <2>2, <2>10, <3>2 DEF TypeOK, importCharts, Job
        <4>2. QED
          BY <2>10, <4>1 DEF TodoInv, importCharts
      <3>3. QED
        BY <3>1, <3>2
    <2>11. CASE removeMissingCharts(j)
      <3>1. CASE Selected(jobs[j].index, jobs[j].filter) = {}
        BY <2>3, <2>11, <3>1 DEF removeMissingCharts, Fatal
      <3>2. CASE Selected(jobs[j].index, jobs[j].filter) # {}
        BY <2>2, <2>11, <3>2 DEF TypeOK, removeMissingCharts, Job
      <3>3. QED
        BY <3>1, <3>2
    <2>12. ASSUME NEW t \in Assets, fetchFiles(j, t)
           PROVE  jobs'[j].pc = "files"
      BY <2>2, <2>12 DEF TypeOK, fetchFiles, Job
    <2>13. CASE NextPass(j) \/ UpdateLastCheck(j)
      BY <2>4, <2>5, <2>13 DEF NextPass, UpdateLastCheck
    <2>14. QED
      BY <1>4, <2>6, <2>7, <2>8, <2>9, <2>10, <2>11, <2>12, <2>13 DEF sync
  <1>5. QED
    BY <1>2, <1>3, <1>4 DEF Next

LEMMA SyncerInit == Init => TypeOK /\ TodoInv
  <1> SUFFICES ASSUME Init
               PROVE  TypeOK /\ TodoInv
    OBVIOUS
  <1>1. upstream \in Indexes
    BY DEF Init
  <1>2. jobs \in [Jobs -> Job]
    BY <1>1 DEF Init, Job, JobPCs, Passes
  <1>3. /\ exists \in BOOLEAN /\ cleanup \in BOOLEAN /\ suspect \in BOOLEAN /\ notice \in BOOLEAN
        /\ handler \in {"idle", "cronjob"} /\ cronjob \in BOOLEAN /\ torn \in BOOLEAN /\ recalled \in BOOLEAN
    BY DEF Init
  <1>4. /\ charts \in [Charts -> {Nil} \cup ((SUBSET Versions) \ {{}})] /\ filter \in SUBSET Charts
        /\ args \in SUBSET Charts /\ repo \in Nat \cup {Nil} /\ assets \in SUBSET Assets
        /\ missed \in SUBSET Assets /\ solo \in SUBSET Jobs
        /\ edits \in 0..MaxEdits /\ faults \in 0..MaxFaults /\ published \in 0..MaxPublish
    BY DEF Init
  <1>5. TodoInv
    BY DEF Init, TodoInv
  <1>6. QED
    BY <1>1, <1>2, <1>3, <1>4, <1>5 DEF TypeOK

LEMMA SyncerStep == TypeOK /\ TodoInv /\ [Next]_vars => TypeOK' /\ TodoInv'
  <1>1. ASSUME TypeOK, UNCHANGED vars
        PROVE  TypeOK'
    BY <1>1 DEF TypeOK, vars, repoVars, controllerVars, tableVars, observers, upstreamVars, trust, halfway
  <1>2. QED
    BY <1>1, OutsideType, PodType, SyncType, TodoStep DEF Next

(* Every variable keeps its type: in particular the listing of a chart is  *)
(* never taken from an index that does not have it.                        *)
THEOREM SyncerTypeCorrect == Spec => []TypeOK
  BY SyncerInit, SyncerStep, PTL DEF Spec
-----------------------------------------------------------------------------
(* The inductive invariant.                                                *)

(* A Job that was never interfered with is the only one running.           *)
SoloInv == \A i, j \in Jobs : j \in solo /\ Busy(j) /\ Busy(i) => i = j

(* If nothing was interfered with, that holds of the Job that is running.  *)
SuspectInv == ~suspect => \A j \in Jobs : Busy(j) => j \in solo

(* What an index and the filter ask for.                                   *)
Asked(x) == [c \in Charts |-> IF c \in Selected(x, filter) THEN x.charts[c] ELSE Nil]

(* Unless rows were written since, the tables are those of the index whose *)
(* checksum is stored, whether it is served now or not.                    *)
StoredInv ==
    ~suspect /\ ~torn =>
        \A x \in Indexes : Checksum(x) = Stored =>
            charts = Asked(x) /\ Tasks(x, filter, "full") \subseteq assets \cup missed

(* If they were, it takes that index served again for a Job to skip it.    *)
TornInv == ~suspect /\ torn /\ WouldSkip => recalled

(* A Job writes only for an index that is not the one processed last: if   *)
(* that one is served, it was served again while the Job was running. And  *)
(* it takes the shallow pass only if none was processed.                   *)
FreshInv(j) ==
    ~suspect =>
      /\ jobs[j].pc = "compare" /\ WouldSkip => jobs[j].index = upstream \/ recalled
      /\ jobs[j].pc \in {"ensure", "import", "files", "store"} /\ WouldSkip => recalled
      /\ jobs[j].pc \in {"ensure", "import"} /\ jobs[j].pass = "shallow" => Stored = NoChecksum

(* What a Job that runs alone has written when it is at each step.         *)
Kept(j) == Selected(jobs[j].index, jobs[j].filter)

ImportInv(j) ==
    j \in solo /\ jobs[j].pc = "import" =>
        \A c \in Kept(j) \ jobs[j].todo : charts[c] = Listed(jobs[j].index, c, jobs[j].pass)

FilesInv(j) ==
    j \in solo /\ jobs[j].pc \in {"files", "store"} =>
        /\ charts = [c \in Charts |-> IF c \in Kept(j) THEN Listed(jobs[j].index, c, jobs[j].pass)
                                                       ELSE Nil]
        /\ Tasks(jobs[j].index, jobs[j].filter, jobs[j].pass)
              \subseteq assets \cup missed \cup jobs[j].fetching

StoreInv(j) == jobs[j].pc = "store" => jobs[j].pass = "full" /\ jobs[j].fetching = {}

JobInv(j) == FreshInv(j) /\ ImportInv(j) /\ FilesInv(j) /\ StoreInv(j)

(* Nothing is left, and nothing runs, once a repository is cleaned up.     *)
OrphanInv ==
    ~exists /\ ~notice /\ ~cleanup /\ ~suspect =>
        /\ \A j \in Jobs : ~Busy(j)
        /\ repo = Nil /\ assets = {} /\ \A c \in Charts : charts[c] = Nil

SyncInv ==
    /\ SoloInv /\ SuspectInv /\ OrphanInv /\ StoredInv /\ TornInv
    /\ \A j \in Jobs : JobInv(j)

Step(j) == Start(j) \/ Crash(j) \/ Kill(j) \/ sync(j)

-----------------------------------------------------------------------------
(* The initial states.                                                     *)

LEMMA InitSync == Init => SyncInv
  <1> SUFFICES ASSUME Init
               PROVE  SyncInv
    OBVIOUS
  <1>1. Stored = NoChecksum /\ ~torn
    BY DEF Init, Stored
  <1>2. \A j \in Jobs : jobs[j].pc = "idle"
    BY DEF Init
  <1>3. SoloInv /\ SuspectInv /\ OrphanInv
    BY <1>2 DEF Init, SoloInv, SuspectInv, OrphanInv, Busy
  <1>4. StoredInv /\ TornInv
    BY <1>1, IndexFacts DEF StoredInv, TornInv
  <1>5. \A j \in Jobs : JobInv(j)
    BY <1>2 DEF JobInv, FreshInv, ImportInv, FilesInv, StoreInv
  <1>6. QED
    BY <1>3, <1>4, <1>5 DEF SyncInv

-----------------------------------------------------------------------------
(* Steps of the outside.                                                   *)

(* Emptying the tables: no Job that runs now is trusted afterwards.        *)
LEMMA EmptySafe ==
    ASSUME TypeOK, SyncInv, Empty, UNCHANGED <<upstream, exists, filter, jobs>>
    PROVE  SyncInv'
  <1>1. Stored' = NoChecksum /\ solo' = {} /\ upstream' = upstream /\ jobs' = jobs
    BY DEF Empty, Stored
  <1>2. suspect' \/ \A j \in Jobs : ~Busy(j)
    BY DEF Empty
  <1>3. \A j \in Jobs : Busy(j)' <=> Busy(j)
    BY <1>1 DEF Busy
  <1>4. ~WouldSkip'
    BY <1>1, IndexFacts DEF WouldSkip, TypeOK
  <1>5. StoredInv' /\ TornInv'
    BY <1>1, <1>4, IndexFacts DEF StoredInv, TornInv
  <1>6. SoloInv' /\ SuspectInv'
    BY <1>1, <1>2, <1>3 DEF SoloInv, SuspectInv
  <1>7. OrphanInv'
    BY <1>2, <1>3 DEF OrphanInv, Empty
  <1>8. ASSUME NEW j \in Jobs
        PROVE  JobInv(j)'
    <2>1. StoreInv(j)'
      BY <1>1 DEF SyncInv, JobInv, StoreInv
    <2>2. FreshInv(j)'
      BY <1>1, <1>2 DEF FreshInv, Busy
    <2>3. ImportInv(j)' /\ FilesInv(j)'
      BY <1>1 DEF ImportInv, FilesInv
    <2>4. QED
      BY <2>1, <2>2, <2>3 DEF JobInv
  <1>9. QED
    BY <1>5, <1>6, <1>7, <1>8 DEF SyncInv

(* What only an observer of interference or the AppRepository changes.     *)
LEMMA QuietSafe ==
    ASSUME TypeOK, SyncInv, UNCHANGED <<upstream, tableVars, jobs, solo, torn, recalled, missed>>,
           suspect' \/ (suspect' = suspect /\ filter' = filter),
           suspect' \/ exists' \/ notice' \/ cleanup'
              \/ (exists' = exists /\ notice' = notice /\ cleanup' = cleanup)
    PROVE  SyncInv'
  <1>1. /\ upstream' = upstream /\ repo' = repo /\ charts' = charts /\ assets' = assets
        /\ jobs' = jobs /\ solo' = solo /\ missed' = missed /\ Stored' = Stored
    BY DEF tableVars, Stored
  <1>2. \A j \in Jobs : Busy(j)' <=> Busy(j)
    BY <1>1 DEF Busy
  <1>3. SoloInv' /\ SuspectInv'
    BY <1>1, <1>2 DEF SyncInv, SoloInv, SuspectInv
  <1>4. OrphanInv'
    BY <1>1, <1>2 DEF SyncInv, OrphanInv
  <1>5. StoredInv' /\ TornInv'
    <2>1. CASE suspect'
      BY <2>1 DEF StoredInv, TornInv
    <2>2. CASE suspect' = suspect /\ filter' = filter
      BY <1>1, <2>2 DEF SyncInv, StoredInv, TornInv, WouldSkip, Asked
    <2>3. QED
      BY <2>1, <2>2
  <1>6. ASSUME NEW j \in Jobs
        PROVE  JobInv(j)'
    <2>1. FreshInv(j)'
      BY <1>1 DEF SyncInv, JobInv, FreshInv, WouldSkip
    <2>2. StoreInv(j)' /\ ImportInv(j)' /\ FilesInv(j)'
      BY <1>1 DEF SyncInv, JobInv, StoreInv, ImportInv, FilesInv, Kept
    <2>3. QED
      BY <2>1, <2>2 DEF JobInv
  <1>7. QED
    BY <1>3, <1>4, <1>5, <1>6 DEF SyncInv

(* Another index is served: what is stored stays what it is, and if it is  *)
(* the one stored while a Job runs or the tables are torn, that is noted.  *)
LEMMA PublishSafe ==
    ASSUME TypeOK, SyncInv, Publish
    PROVE  SyncInv'
  <1>1. /\ repo' = repo /\ charts' = charts /\ assets' = assets /\ jobs' = jobs
        /\ solo' = solo /\ missed' = missed /\ Stored' = Stored
    BY DEF Publish, tableVars, trust, Stored
  <1>2. /\ suspect' = suspect /\ exists' = exists /\ cleanup' = cleanup /\ notice' = notice
        /\ filter' = filter /\ torn' = torn
    BY DEF Publish, trust, repoVars, controllerVars
  <1>3. \A j \in Jobs : Busy(j)' <=> Busy(j)
    BY <1>1 DEF Busy
  <1>4. WouldSkip' => Checksum(upstream') = Stored
    BY <1>1 DEF WouldSkip
  <1>5. SoloInv' /\ SuspectInv' /\ OrphanInv'
    BY <1>1, <1>2, <1>3 DEF SyncInv, SoloInv, SuspectInv, OrphanInv
  <1>6. StoredInv'
    BY <1>1, <1>2 DEF SyncInv, StoredInv, Asked
  <1>7. TornInv'
    <2>1. torn /\ WouldSkip' => recalled'
      BY <1>4 DEF Publish
    <2>2. QED
      BY <1>2, <2>1 DEF TornInv
  <1>8. ASSUME NEW j \in Jobs
        PROVE  JobInv(j)'
    <2>1. jobs[j].pc # "idle" /\ WouldSkip' => recalled'
      BY <1>4 DEF Publish, Busy
    <2>2. FreshInv(j)'
      BY <1>1, <1>2, <2>1 DEF SyncInv, JobInv, FreshInv
    <2>3. StoreInv(j)' /\ ImportInv(j)' /\ FilesInv(j)'
      BY <1>1 DEF SyncInv, JobInv, StoreInv, ImportInv, FilesInv, Kept
    <2>4. QED
      BY <2>2, <2>3 DEF JobInv
  <1>9. QED
    BY <1>5, <1>6, <1>7, <1>8 DEF SyncInv

LEMMA OutsideSafe ==
    ASSUME TypeOK, SyncInv,
           \/ Publish \/ Reconcile \/ RemoveRepo \/ AddRepo \/ CleanUp \/ DeleteCronJob
           \/ GarbageCollect \/ Delete \/ InvalidateCache
           \/ \E rule \in Rules : EditFilter(rule)
    PROVE  SyncInv'
  <1>1. CASE Reconcile
    BY <1>1, QuietSafe DEF Reconcile, observers, upstreamVars, trust, halfway
  <1>2. CASE RemoveRepo
    BY <1>2, QuietSafe DEF RemoveRepo, observers, upstreamVars, trust, halfway
  <1>3. CASE AddRepo
    BY <1>3, QuietSafe DEF AddRepo, observers, upstreamVars, trust, halfway
  <1>4. CASE Delete
    <2>1. CASE Empty
      BY <1>4, <2>1, EmptySafe DEF Delete, upstreamVars
    <2>2. CASE suspect' = TRUE /\ UNCHANGED <<tableVars, solo>>
      BY <1>4, <2>2, QuietSafe DEF Delete, upstreamVars, controllerVars, halfway
    <2>3. QED
      BY <1>4, <2>1, <2>2 DEF Delete
  <1>5. CASE InvalidateCache
    BY <1>5, EmptySafe DEF InvalidateCache, upstreamVars
  <1>6. ASSUME NEW rule \in Rules, EditFilter(rule)
        PROVE  SyncInv'
    BY <1>6, QuietSafe DEF EditFilter, upstreamVars, halfway
  <1>7. CASE CleanUp
    BY <1>7, QuietSafe DEF CleanUp, upstreamVars, halfway
  <1>8. CASE DeleteCronJob
    BY <1>8, QuietSafe DEF DeleteCronJob, observers, upstreamVars, trust, halfway
  <1>9. CASE GarbageCollect
    BY <1>9, QuietSafe DEF GarbageCollect, observers, upstreamVars, trust, halfway
  <1>10. QED
    BY <1>1, <1>2, <1>3, <1>4, <1>5, <1>6, <1>7, <1>8, <1>9, PublishSafe

-----------------------------------------------------------------------------
(* Steps of a Job: what holds of all of them.                              *)

(* The fields of a Job after each kind of assignment.                      *)
LEMMA BeginFields ==
    ASSUME TypeOK, NEW j \in Jobs, NEW rule, NEW stray, Begin(j, rule, stray)
    PROVE  /\ jobs'[j].pc = "fetch" /\ jobs'[j].index = jobs[j].index
           /\ suspect => suspect'
  <1>1. jobs[j] \in Job
    BY DEF TypeOK
  <1>2. jobs'[j].pc = "fetch" /\ jobs'[j].index = jobs[j].index
    BY <1>1 DEF TypeOK, Begin, Job
  <1>3. suspect => suspect'
    BY DEF Begin
  <1>4. QED
    BY <1>2, <1>3

LEMMA GotoFields ==
    ASSUME TypeOK, NEW j \in Jobs, NEW pc, Goto(j, pc)
    PROVE  /\ jobs'[j].pc = pc /\ jobs'[j].index = jobs[j].index
           /\ jobs'[j].filter = jobs[j].filter /\ jobs'[j].pass = jobs[j].pass
           /\ jobs'[j].fetching = jobs[j].fetching
  <1>1. jobs[j] \in Job
    BY DEF TypeOK
  <1>2. QED
    BY <1>1 DEF TypeOK, Goto, Job

LEMMA PassFields ==
    ASSUME TypeOK, NEW j \in Jobs, NEW p, Pass(j, p)
    PROVE  jobs'[j].pc = "ensure" /\ jobs'[j].index = jobs[j].index /\ jobs'[j].pass = p
  <1>1. jobs[j] \in Job
    BY DEF TypeOK
  <1>2. QED
    BY <1>1 DEF TypeOK, Pass, Job

(* A step of a Job leaves the AppRepository and the index alone, and tells *)
(* the observers of interference, or none at all.                          *)
Watched(j) ==
    \/ \E rule, stray : Begin(j, rule, stray)
    \/ solo' = solo /\ Busy(j) /\ (suspect => suspect')
    \/ /\ solo' = solo /\ Busy(j) /\ jobs'[j].pc = "idle"
       /\ suspect' = ~(j \in solo /\ jobs[j].filter = filter /\ exists)

LEMMA StepFrame ==
    ASSUME TypeOK, NEW j \in Jobs, Step(j)
    PROVE  /\ UNCHANGED <<upstream, exists, filter, notice, cleanup>>
           /\ exists \/ Busy(j) \/ suspect'
           /\ Watched(j)
  <1>1. CASE Start(j)
    <2>1. Watched(j) /\ UNCHANGED <<upstream, exists, filter, notice, cleanup>>
      BY <1>1 DEF Start, repoVars, controllerVars, upstreamVars, Watched
    <2>2. exists \/ suspect'
      BY <1>1 DEF Start, Begin
    <2>3. QED
      BY <2>1, <2>2
  <1>2. CASE Crash(j)
    BY <1>2 DEF Crash, Fatal, repoVars, controllerVars, upstreamVars, trust, Watched
  <1>3. CASE Kill(j)
    BY <1>3 DEF Kill, repoVars, controllerVars, upstreamVars, trust, observers, Watched
  <1>4. CASE FetchIndex(j)
    BY <1>4 DEF FetchIndex, repoVars, controllerVars, upstreamVars, trust, observers, Watched, Busy
  <1>5. CASE LastChecksum(j)
    <2>1. Busy(j) /\ UNCHANGED <<upstream, exists, filter, notice, cleanup>>
      BY <1>5 DEF LastChecksum, repoVars, controllerVars, upstreamVars, trust, Busy
    <2>2. \/ UNCHANGED trust
          \/ Fatal(j)
          \/ \E last : solo' = solo /\ suspect' = (suspect \/ last # Stored)
      BY <1>5 DEF LastChecksum
    <2>3. ASSUME NEW last, suspect' = (suspect \/ last # Stored)
          PROVE  suspect => suspect'
      BY <2>3
    <2>4. (solo' = solo /\ (suspect => suspect')) \/ Fatal(j)
      BY <2>2, <2>3 DEF trust
    <2>5. QED
      BY <2>1, <2>4 DEF Fatal, Watched
  <1>6. CASE EnsureRepoExists(j)
    BY <1>6 DEF EnsureRepoExists, repoVars, controllerVars, upstreamVars, trust, observers, Watched, Busy
  <1>7. ASSUME NEW c \in Charts, importCharts(j, c)
        PROVE  /\ UNCHANGED <<upstream, exists, filter, notice, cleanup>>
               /\ Busy(j) /\ Watched(j)
    <2>1. Busy(j) /\ UNCHANGED <<upstream, exists, filter, notice, cleanup>>
      BY <1>7 DEF importCharts, repoVars, controllerVars, upstreamVars, trust, Busy
    <2>2. UNCHANGED trust \/ Fatal(j)
      BY <1>7 DEF importCharts
    <2>3. UNCHANGED trust => Watched(j)
      BY <2>1 DEF Watched, trust
    <2>4. QED
      BY <2>1, <2>2, <2>3 DEF Fatal, Watched
  <1>8. CASE removeMissingCharts(j)
    <2>1. Busy(j) /\ UNCHANGED <<upstream, exists, filter, notice, cleanup>>
      BY <1>8 DEF removeMissingCharts, repoVars, controllerVars, upstreamVars, trust, Busy
    <2>2. UNCHANGED trust \/ Fatal(j)
      BY <1>8 DEF removeMissingCharts
    <2>3. UNCHANGED trust => Watched(j)
      BY <2>1 DEF Watched, trust
    <2>4. QED
      BY <2>1, <2>2, <2>3 DEF Fatal, Watched
  <1>9. ASSUME NEW t \in Assets, fetchFiles(j, t)
        PROVE  /\ UNCHANGED <<upstream, exists, filter, notice, cleanup>>
               /\ Busy(j) /\ Watched(j)
    BY <1>9 DEF fetchFiles, repoVars, controllerVars, upstreamVars, trust, Watched, Busy
  <1>10. CASE NextPass(j)
    BY <1>10 DEF NextPass, repoVars, controllerVars, upstreamVars, trust, observers, Watched, Busy
  <1>11. CASE UpdateLastCheck(j)
    <2>1. jobs'[j].pc = "idle"
      BY <1>11, GotoFields DEF UpdateLastCheck
    <2>2. QED
      BY <1>11, <2>1 DEF UpdateLastCheck, repoVars, controllerVars, upstreamVars, trust, Watched, Busy
  <1>12. QED
    BY <1>1, <1>2, <1>3, <1>4, <1>5, <1>6, <1>7, <1>8, <1>9, <1>10, <1>11 DEF Step, sync

(* If another Job runs, neither is trusted after a step of one of them.    *)
LEMMA Together ==
    ASSUME TypeOK, SoloInv, SuspectInv, NEW j \in Jobs, Step(j), NEW i \in Jobs, i # j, Busy(i)
    PROVE  i \notin solo' /\ j \notin solo' /\ suspect'
  <1>1. Busy(j) => i \notin solo /\ j \notin solo /\ suspect
    BY DEF SoloInv, SuspectInv
  <1>2. ASSUME NEW rule, NEW stray, Begin(j, rule, stray)
        PROVE  solo' = {} /\ suspect'
    <2>1. {k \in Jobs \ {j} : Busy(k)} # {}
      OBVIOUS
    <2>2. solo' = {}
      BY <1>2, <2>1 DEF Begin
    <2>3. suspect'
      BY <1>2, <2>1 DEF Begin
    <2>4. QED
      BY <2>2, <2>3
  <1>3. Watched(j)
    BY StepFrame
  <1>4. QED
    BY <1>1, <1>2, <1>3 DEF Watched

(* What remains to be shown of a step of Job j is about j and the tables.  *)
LEMMA StepSafe ==
    ASSUME TypeOK, SyncInv, NEW j \in Jobs, Step(j), StoredInv', TornInv', JobInv(j)'
    PROVE  SyncInv'
  <1>1. \A i \in Jobs \ {j} : jobs'[i] = jobs[i] /\ (Busy(i)' <=> Busy(i))
    BY OtherJobs DEF Step, Busy
  <1>2. SoloInv /\ SuspectInv
    BY DEF SyncInv
  <1>3. \A i \in Jobs \ {j} : Busy(i) => i \notin solo' /\ j \notin solo' /\ suspect'
    BY <1>2, Together
  <1>4. SoloInv'
    BY <1>1, <1>3 DEF SoloInv
  <1>5. /\ Watched(j) /\ (exists \/ Busy(j) \/ suspect')
        /\ UNCHANGED <<upstream, exists, filter, notice, cleanup>>
    BY StepFrame
  <1>6. ASSUME ~suspect', Busy(j)'
        PROVE  j \in solo'
    <2>1. ASSUME NEW rule, NEW stray, Begin(j, rule, stray)
          PROVE  j \in solo'
      <3>1. {i \in Jobs \ {j} : Busy(i)} = {}
        BY <1>3, <1>6
      <3>2. QED
        BY <2>1, <3>1 DEF Begin
    <2>2. CASE solo' = solo /\ Busy(j) /\ (suspect => suspect')
      BY <1>2, <1>6, <2>2 DEF SuspectInv
    <2>3. jobs'[j].pc # "idle"
      BY <1>6 DEF Busy
    <2>4. QED
      BY <1>5, <2>1, <2>2, <2>3 DEF Watched
  <1>7. SuspectInv'
    BY <1>1, <1>3, <1>6 DEF SuspectInv
  <1>8. OrphanInv'
    <2>1. SUFFICES ASSUME ~exists, ~notice, ~cleanup, ~suspect'
                   PROVE  FALSE
      BY <1>5 DEF OrphanInv
    <2>2. Busy(j)
      BY <1>5, <2>1
    <2>3. suspect
      BY <2>1, <2>2 DEF SyncInv, OrphanInv
    <2>4. ASSUME NEW rule, NEW stray, Begin(j, rule, stray)
          PROVE  suspect'
      BY <2>3, <2>4, BeginFields
    <2>5. QED
      BY <1>5, <2>1, <2>3, <2>4 DEF Watched
  <1>9. ASSUME NEW i \in Jobs
        PROVE  JobInv(i)'
    <2>1. CASE i = j
      BY <2>1
    <2>2. CASE i # j
      <3>1. StoreInv(i)'
        BY <1>1, <2>2 DEF SyncInv, JobInv, StoreInv
      <3>2. FreshInv(i)'
        BY <1>1, <1>3, <2>2 DEF FreshInv, Busy
      <3>3. ImportInv(i)' /\ FilesInv(i)'
        BY <1>1, <1>3, <2>2 DEF ImportInv, FilesInv, Busy
      <3>4. QED
        BY <3>1, <3>2, <3>3 DEF JobInv
    <2>3. QED
      BY <2>1, <2>2
  <1>10. QED
    BY <1>4, <1>7, <1>8, <1>9 DEF SyncInv

-----------------------------------------------------------------------------
(* Steps of a Job: what each of them does to the tables and to the Job.    *)

(* A step that neither writes the tables nor moves the Job past "fetch".   *)
LEMMA BackSafe ==
    ASSUME TypeOK, SyncInv, NEW j \in Jobs, Step(j), UNCHANGED <<tableVars, torn, recalled, missed>>,
           jobs'[j].pc \in {"idle", "fetch"}, suspect => suspect'
    PROVE  SyncInv'
  <1>1. /\ upstream' = upstream /\ filter' = filter /\ charts' = charts /\ assets' = assets
        /\ missed' = missed /\ Stored' = Stored
    BY StepFrame DEF tableVars, Stored
  <1>2. StoredInv' /\ TornInv'
    BY <1>1 DEF SyncInv, StoredInv, TornInv, WouldSkip, Asked
  <1>3. JobInv(j)'
    BY DEF JobInv, FreshInv, ImportInv, FilesInv, StoreInv
  <1>4. QED
    BY <1>2, <1>3, StepSafe

LEMMA FatalSafe ==
    ASSUME TypeOK, SyncInv, NEW j \in Jobs, Step(j), Fatal(j),
           UNCHANGED <<tableVars, torn, recalled, missed>>
    PROVE  SyncInv'
  BY BeginFields, BackSafe DEF Fatal

(* A step of a Job that is at work: the tables may change, and are torn    *)
(* then; but nobody would skip the repository, unless the index stored is  *)
(* served again.                                                           *)
LEMMA WorkSafe ==
    ASSUME TypeOK, SyncInv, NEW j \in Jobs, Step(j), Stored' = Stored, suspect => suspect',
           recalled' = recalled,
           torn' \/ /\ torn' = torn /\ charts' = charts
                    /\ assets \cup missed \subseteq assets' \cup missed',
           jobs[j].pc \in {"ensure", "import", "files"}, JobInv(j)'
    PROVE  SyncInv'
  <1>1. upstream' = upstream /\ filter' = filter
    BY StepFrame
  <1>2. TornInv'
    <2>1. SUFFICES ASSUME ~suspect', WouldSkip'
                   PROVE  recalled
      BY DEF TornInv
    <2>2. WouldSkip
      BY <1>1, <2>1 DEF WouldSkip
    <2>3. QED
      BY <2>1, <2>2 DEF SyncInv, JobInv, FreshInv
  <1>3. StoredInv'
    BY <1>1 DEF SyncInv, StoredInv, Asked
  <1>4. QED
    BY <1>2, <1>3, StepSafe

LEMMA FetchIndexSafe ==
    ASSUME TypeOK, SyncInv, NEW j \in Jobs, FetchIndex(j)
    PROVE  SyncInv'
  <1>1. jobs[j] \in Job
    BY DEF TypeOK
  <1>2. jobs'[j].pc = "compare" /\ jobs'[j].index = upstream
    BY <1>1 DEF TypeOK, FetchIndex, Job
  <1>3. /\ upstream' = upstream /\ filter' = filter /\ charts' = charts /\ assets' = assets
        /\ missed' = missed /\ Stored' = Stored
    BY DEF FetchIndex, repoVars, tableVars, observers, upstreamVars, Stored
  <1>4. suspect' = suspect /\ torn' = torn /\ recalled' = recalled
    BY DEF FetchIndex, observers, trust, halfway
  <1>5. StoredInv' /\ TornInv'
    BY <1>3, <1>4 DEF SyncInv, StoredInv, TornInv, WouldSkip, Asked
  <1>6. FreshInv(j)' /\ ImportInv(j)' /\ FilesInv(j)' /\ StoreInv(j)'
    BY <1>2, <1>3 DEF FreshInv, ImportInv, FilesInv, StoreInv
  <1>7. QED
    BY <1>5, <1>6, StepSafe DEF JobInv, Step, sync

LEMMA LastChecksumSafe ==
    ASSUME TypeOK, SyncInv, NEW j \in Jobs, LastChecksum(j)
    PROVE  SyncInv'
  <1>1. Step(j) /\ jobs[j].pc = "compare"
    BY DEF Step, sync, LastChecksum
  <1>2. UNCHANGED <<upstream, filter, repo, charts, assets, torn, recalled, missed>>
    BY DEF LastChecksum, repoVars, tableVars, upstreamVars, halfway
  <1>3. CASE Goto(j, "idle") /\ UNCHANGED trust
    <2>1. jobs'[j].pc = "idle"
      BY <1>3, GotoFields
    <2>2. suspect => suspect'
      BY <1>3 DEF trust
    <2>3. QED
      BY <1>1, <1>2, <2>1, <2>2, BackSafe DEF tableVars
  <1>4. CASE Fatal(j)
    BY <1>1, <1>2, <1>4, FatalSafe DEF tableVars
  <1>5. ASSUME NEW last \in {Stored, NoChecksum}, last # Checksum(jobs[j].index),
               Pass(j, IF last = NoChecksum THEN "shallow" ELSE "full"),
               suspect' = (suspect \/ last # Stored)
        PROVE  SyncInv'
    <2>1. /\ jobs'[j].pc = "ensure" /\ jobs'[j].index = jobs[j].index
          /\ jobs'[j].pass = IF last = NoChecksum THEN "shallow" ELSE "full"
      BY <1>5, PassFields
    <2>2. suspect => suspect'
      BY <1>5
    <2>3. ~suspect' => last = Stored
      BY <1>5
    <2>4. Stored' = Stored /\ upstream' = upstream /\ filter' = filter
      BY <1>2 DEF Stored
    <2>5. StoredInv' /\ TornInv'
      BY <1>2, <2>2, <2>4 DEF SyncInv, StoredInv, TornInv, WouldSkip, Asked
    <2>6. ASSUME ~suspect'
          PROVE  /\ WouldSkip' => recalled'
                 /\ jobs'[j].pass = "shallow" => Stored = NoChecksum
      <3>1. last = Stored /\ ~suspect
        BY <2>2, <2>3, <2>6
      <3>2. WouldSkip => jobs[j].index = upstream \/ recalled
        BY <1>1, <3>1 DEF SyncInv, JobInv, FreshInv
      <3>3. WouldSkip' => WouldSkip /\ jobs[j].index # upstream
        BY <1>5, <2>4, <3>1 DEF WouldSkip
      <3>4. QED
        BY <1>2, <2>1, <3>1, <3>2, <3>3
    <2>7. FreshInv(j)'
      BY <2>1, <2>4, <2>6 DEF FreshInv
    <2>8. ImportInv(j)' /\ FilesInv(j)' /\ StoreInv(j)'
      BY <2>1 DEF ImportInv, FilesInv, StoreInv
    <2>9. QED
      BY <1>1, <2>5, <2>7, <2>8, StepSafe DEF JobInv
  <1>6. QED
    BY <1>3, <1>4, <1>5 DEF LastChecksum

LEMMA EnsureRepoExistsSafe ==
    ASSUME TypeOK, SyncInv, NEW j \in Jobs, EnsureRepoExists(j)
    PROVE  SyncInv'
  <1>1. jobs[j] \in Job
    BY DEF TypeOK
  <1>2. /\ jobs'[j].pc = "import" /\ jobs'[j].index = jobs[j].index
        /\ jobs'[j].filter = jobs[j].filter /\ jobs'[j].pass = jobs[j].pass
        /\ jobs'[j].todo = Kept(j)
    BY <1>1 DEF TypeOK, EnsureRepoExists, Job, Kept
  <1>3. repo \in Nat \cup {Nil} /\ 0 \in Nat
    BY DEF TypeOK
  <1>4. Stored' = Stored
    BY <1>3 DEF EnsureRepoExists, Stored, NoChecksum
  <1>5. /\ jobs[j].pc = "ensure" /\ upstream' = upstream
        /\ charts' = charts /\ assets' = assets /\ missed' = missed
    BY DEF EnsureRepoExists, upstreamVars, observers
  <1>6. suspect' = suspect /\ torn' = torn /\ recalled' = recalled
    BY DEF EnsureRepoExists, observers, trust, halfway
  <1>7. FreshInv(j)'
    BY <1>2, <1>4, <1>5, <1>6 DEF SyncInv, JobInv, FreshInv, WouldSkip
  <1>8. FilesInv(j)' /\ StoreInv(j)'
    BY <1>2, <1>5 DEF SyncInv, JobInv, FilesInv, StoreInv
  <1>9. ImportInv(j)'
    BY <1>2 DEF ImportInv, Kept
  <1>10. QED
    BY <1>4, <1>5, <1>6, <1>7, <1>8, <1>9, WorkSafe DEF JobInv, Step, sync

LEMMA ImportChartsSafe ==
    ASSUME TypeOK, SyncInv, TodoInv, NEW j \in Jobs, NEW c \in Charts, importCharts(j, c)
    PROVE  SyncInv'
  <1>1. Step(j) /\ jobs[j].pc = "import" /\ upstream' = upstream
    BY DEF Step, sync, importCharts, upstreamVars
  <1>2. CASE repo = Nil
    BY <1>1, <1>2, FatalSafe DEF importCharts, tableVars
  <1>3. CASE repo # Nil
    <2>1. jobs[j] \in Job
      BY DEF TypeOK
    <2>2. /\ jobs'[j].pc = "import" /\ jobs'[j].index = jobs[j].index
          /\ jobs'[j].filter = jobs[j].filter /\ jobs'[j].pass = jobs[j].pass
          /\ jobs'[j].todo = jobs[j].todo \ {c}
      BY <1>3, <2>1 DEF TypeOK, importCharts, Job
    <2>3. charts' = [charts EXCEPT ![c] = Listed(jobs[j].index, c, jobs[j].pass)] /\ solo' = solo
      BY <1>3 DEF importCharts, trust
    <2>4. Stored' = Stored
      BY DEF importCharts, Stored
    <2>5. suspect' = suspect /\ torn' /\ recalled' = recalled
      BY <1>3 DEF importCharts, trust
    <2>6. ImportInv(j)'
      <3>1. SUFFICES ASSUME j \in solo, NEW d \in Kept(j) \ (jobs[j].todo \ {c})
                     PROVE  charts'[d] = Listed(jobs[j].index, d, jobs[j].pass)
        BY <2>2, <2>3 DEF ImportInv, Kept
      <3>2. d \in Charts /\ charts \in [Charts -> {Nil} \cup ((SUBSET Versions) \ {{}})]
        BY <2>1 DEF TypeOK, Job, Kept, Selected
      <3>3. CASE d = c
        BY <2>3, <3>2, <3>3
      <3>4. CASE d # c
        <4>1. charts[d] = Listed(jobs[j].index, d, jobs[j].pass)
          BY <1>1, <3>1, <3>4 DEF SyncInv, JobInv, ImportInv
        <4>2. QED
          BY <2>3, <3>2, <3>4, <4>1
      <3>5. QED
        BY <3>3, <3>4
    <2>7. FreshInv(j)'
      BY <1>1, <2>2, <2>4, <2>5 DEF SyncInv, JobInv, FreshInv, WouldSkip
    <2>8. FilesInv(j)' /\ StoreInv(j)'
      BY <1>1, <2>2 DEF SyncInv, JobInv, FilesInv, StoreInv
    <2>9. QED
      BY <1>1, <2>4, <2>5, <2>6, <2>7, <2>8, WorkSafe DEF JobInv
  <1>4. QED
    BY <1>2, <1>3

LEMMA RemoveMissingChartsSafe ==
    ASSUME TypeOK, SyncInv, NEW j \in Jobs, removeMissingCharts(j)
    PROVE  SyncInv'
  <1>1. /\ Step(j) /\ jobs[j].pc = "import" /\ jobs[j].todo = {} /\ upstream' = upstream
    BY DEF Step, sync, removeMissingCharts, upstreamVars
  <1>2. CASE Kept(j) = {}
    BY <1>1, <1>2, FatalSafe DEF removeMissingCharts, tableVars, Kept
  <1>3. CASE Kept(j) # {}
    <2>1. jobs[j] \in Job
      BY DEF TypeOK
    <2>2. /\ jobs'[j].pc = "files" /\ jobs'[j].index = jobs[j].index
          /\ jobs'[j].filter = jobs[j].filter /\ jobs'[j].pass = jobs[j].pass
          /\ jobs'[j].fetching = Tasks(jobs[j].index, jobs[j].filter, jobs[j].pass)
      BY <1>3, <2>1 DEF TypeOK, removeMissingCharts, Job, Kept
    <2>3. charts' = [d \in Charts |-> IF d \in Kept(j) THEN charts[d] ELSE Nil] /\ solo' = solo
      BY <1>3 DEF removeMissingCharts, Kept, trust
    <2>4. Stored' = Stored
      BY DEF removeMissingCharts, Stored
    <2>5. suspect' = suspect /\ torn' /\ recalled' = recalled
      BY <1>3 DEF removeMissingCharts, Kept, trust
    <2>6. FilesInv(j)'
      <3>1. SUFFICES ASSUME j \in solo
                     PROVE  charts' = [d \in Charts |-> IF d \in Kept(j)
                                          THEN Listed(jobs[j].index, d, jobs[j].pass) ELSE Nil]
        BY <2>2, <2>3 DEF FilesInv, Kept
      <3>2. \A d \in Kept(j) : charts[d] = Listed(jobs[j].index, d, jobs[j].pass)
        BY <1>1, <3>1 DEF SyncInv, JobInv, ImportInv
      <3>3. QED
        BY <2>3, <3>2
    <2>7. FreshInv(j)'
      BY <1>1, <2>2, <2>4, <2>5 DEF SyncInv, JobInv, FreshInv, WouldSkip
    <2>8. ImportInv(j)' /\ StoreInv(j)'
      BY <1>1, <2>2 DEF SyncInv, JobInv, ImportInv, StoreInv
    <2>9. QED
      BY <1>1, <2>4, <2>5, <2>6, <2>7, <2>8, WorkSafe DEF JobInv
  <1>4. QED
    BY <1>2, <1>3

LEMMA FetchFilesSafe ==
    ASSUME TypeOK, SyncInv, NEW j \in Jobs, NEW t \in Assets, fetchFiles(j, t)
    PROVE  SyncInv'
  <1>1. Step(j) /\ jobs[j].pc = "files" /\ upstream' = upstream
    BY DEF Step, sync, fetchFiles, upstreamVars
  <1>2. jobs[j] \in Job
    BY DEF TypeOK
  <1>3. /\ jobs'[j].pc = "files" /\ jobs'[j].index = jobs[j].index
        /\ jobs'[j].filter = jobs[j].filter /\ jobs'[j].pass = jobs[j].pass
        /\ jobs'[j].fetching = jobs[j].fetching \ {t}
    BY <1>1, <1>2 DEF TypeOK, fetchFiles, Job
  <1>4. solo' = solo /\ charts' = charts /\ Stored' = Stored
    BY DEF fetchFiles, Stored, trust
  <1>5. suspect' = suspect /\ torn' = torn /\ recalled' = recalled
    BY DEF fetchFiles, trust, halfway
  <1>6. /\ assets \cup missed \subseteq assets' \cup missed'
        /\ assets \cup missed \cup jobs[j].fetching \subseteq assets' \cup missed' \cup jobs'[j].fetching
    BY <1>3 DEF fetchFiles, Import
  <1>7. FilesInv(j)'
    BY <1>1, <1>3, <1>4, <1>6 DEF SyncInv, JobInv, FilesInv, Kept
  <1>8. FreshInv(j)'
    BY <1>1, <1>3, <1>4, <1>5 DEF SyncInv, JobInv, FreshInv, WouldSkip
  <1>9. ImportInv(j)' /\ StoreInv(j)'
    BY <1>1, <1>3 DEF SyncInv, JobInv, ImportInv, StoreInv
  <1>10. QED
    BY <1>1, <1>4, <1>5, <1>6, <1>7, <1>8, <1>9, WorkSafe DEF JobInv

LEMMA NextPassSafe ==
    ASSUME TypeOK, SyncInv, NEW j \in Jobs, NextPass(j)
    PROVE  SyncInv'
  <1>1. Step(j) /\ jobs[j].pc = "files" /\ jobs[j].fetching = {} /\ upstream' = upstream
    BY DEF Step, sync, NextPass, upstreamVars
  <1>2. /\ solo' = solo /\ charts' = charts /\ assets' = assets /\ missed' = missed
        /\ Stored' = Stored
    BY DEF NextPass, tableVars, observers, trust, Stored
  <1>3. suspect' = suspect /\ torn' = torn /\ recalled' = recalled
    BY DEF NextPass, observers, trust, halfway
  <1>4. CASE Pass(j, "full")
    <2>1. jobs'[j].pc = "ensure" /\ jobs'[j].index = jobs[j].index /\ jobs'[j].pass = "full"
      BY <1>4, PassFields
    <2>2. FreshInv(j)'
      BY <1>1, <1>2, <1>3, <2>1 DEF SyncInv, JobInv, FreshInv, WouldSkip
    <2>3. ImportInv(j)' /\ FilesInv(j)' /\ StoreInv(j)'
      BY <1>1, <2>1 DEF SyncInv, JobInv, ImportInv, FilesInv, StoreInv
    <2>4. QED
      BY <1>1, <1>2, <1>3, <2>2, <2>3, WorkSafe DEF JobInv
  <1>5. CASE jobs[j].pass # "shallow" /\ Goto(j, "store")
    <2>1. jobs[j].pass = "full"
      BY <1>5, JobType DEF Passes
    <2>2. /\ jobs'[j].pc = "store" /\ jobs'[j].index = jobs[j].index
          /\ jobs'[j].filter = jobs[j].filter /\ jobs'[j].pass = jobs[j].pass
          /\ jobs'[j].fetching = jobs[j].fetching
      BY <1>5, GotoFields
    <2>3. FreshInv(j)'
      BY <1>1, <1>2, <1>3, <2>2 DEF SyncInv, JobInv, FreshInv, WouldSkip
    <2>4. ImportInv(j)' /\ StoreInv(j)'
      BY <1>1, <2>1, <2>2 DEF SyncInv, JobInv, ImportInv, StoreInv
    <2>5. FilesInv(j)'
      BY <1>1, <1>2, <2>2 DEF SyncInv, JobInv, FilesInv, Kept
    <2>6. QED
      BY <1>1, <1>2, <1>3, <2>3, <2>4, <2>5, WorkSafe DEF JobInv
  <1>6. QED
    BY <1>4, <1>5 DEF NextPass

(* The checksum is stored: what the Job has written is what it stands for. *)
LEMMA UpdateLastCheckSafe ==
    ASSUME TypeOK, SyncInv, NEW j \in Jobs, UpdateLastCheck(j)
    PROVE  SyncInv'
  <1> DEFINE index == jobs[j].index
  <1>1. Step(j) /\ jobs[j].pc = "store"
    BY DEF Step, sync, UpdateLastCheck
  <1>2. /\ filter' = filter /\ charts' = charts /\ assets' = assets /\ missed' = missed
        /\ torn' = FALSE
    BY DEF UpdateLastCheck, repoVars
  <1>3. jobs'[j].pc = "idle"
    BY GotoFields DEF UpdateLastCheck
  <1>4. index \in Indexes /\ Checksum(index) \in Nat
    BY JobType, IndexFacts
  <1>5. Stored' = Checksum(index)
    <2>1. repo' = Checksum(index)
      BY DEF UpdateLastCheck
    <2>2. repo' # Nil
      BY <1>4, <2>1, NilAssumption
    <2>3. QED
      BY <2>1, <2>2 DEF Stored
  <1>6. JobInv(j)'
    BY <1>3 DEF JobInv, FreshInv, ImportInv, FilesInv, StoreInv
  <1>7. ASSUME ~suspect'
        PROVE  charts = Asked(index) /\ Tasks(index, filter, "full") \subseteq assets \cup missed
    <2>1. j \in solo /\ jobs[j].filter = filter
      BY <1>7 DEF UpdateLastCheck
    <2>2. jobs[j].pass = "full" /\ jobs[j].fetching = {}
      BY <1>1 DEF SyncInv, JobInv, StoreInv
    <2>3. /\ charts = [c \in Charts |-> IF c \in Selected(index, filter)
                                        THEN Listed(index, c, "full") ELSE Nil]
          /\ Tasks(index, filter, "full") \subseteq assets \cup missed
      BY <1>1, <2>1, <2>2 DEF SyncInv, JobInv, FilesInv, Kept
    <2>4. \A c \in Charts : Listed(index, c, "full") = index.charts[c]
      BY DEF Listed
    <2>5. QED
      BY <2>3, <2>4 DEF Asked
  <1>8. \A x \in Indexes : Checksum(x) = Stored' => x = index
    BY <1>4, <1>5, ChecksumAssumption
  <1>9. StoredInv'
    BY <1>2, <1>7, <1>8 DEF StoredInv, Asked
  <1>10. TornInv'
    BY <1>2 DEF TornInv
  <1>11. QED
    BY <1>1, <1>6, <1>9, <1>10, StepSafe

LEMMA SyncStep ==
    ASSUME TypeOK, TodoInv, SyncInv, [Next]_vars
    PROVE  SyncInv'
  <1>1. CASE UNCHANGED vars
    BY <1>1, QuietSafe DEF vars, repoVars, controllerVars, upstreamVars, observers, trust, halfway
  <1>2. ASSUME NEW j \in Jobs, Start(j) \/ Crash(j)
        PROVE  SyncInv'
    <2>1. PICK rule, stray : Begin(j, rule, stray)
      BY <1>2 DEF Start, Crash, Fatal
    <2>2. QED
      BY <1>2, <2>1, BeginFields, BackSafe DEF Start, Crash, Step, halfway
  <1>3. ASSUME NEW j \in Jobs, Kill(j)
        PROVE  SyncInv'
    <2>1. jobs'[j].pc = "idle"
      BY <1>3, GotoFields DEF Kill
    <2>2. suspect => suspect'
      BY <1>3 DEF Kill, observers, trust
    <2>3. UNCHANGED <<tableVars, torn, recalled, missed>>
      BY <1>3 DEF Kill, observers, halfway
    <2>4. QED
      BY <1>3, <2>1, <2>2, <2>3, BackSafe DEF Step
  <1>4. ASSUME NEW j \in Jobs, sync(j)
        PROVE  SyncInv'
    BY <1>4, FetchIndexSafe, LastChecksumSafe, EnsureRepoExistsSafe, ImportChartsSafe,
       RemoveMissingChartsSafe, FetchFilesSafe, NextPassSafe, UpdateLastCheckSafe DEF sync
  <1>5. QED
    BY <1>1, <1>2, <1>3, <1>4, OutsideSafe DEF Next

-----------------------------------------------------------------------------
(* The theorems.                                                           *)

LEMMA SyncAlways == Spec => [](TypeOK /\ TodoInv /\ SyncInv)
  <1>1. Init => TypeOK /\ TodoInv
    BY SyncerInit
  <1>2. TypeOK /\ TodoInv /\ [Next]_vars => TypeOK' /\ TodoInv'
    BY SyncerStep
  <1>3. QED
    BY <1>1, <1>2, InitSync, SyncStep, PTL DEF Spec

(* If nothing interfered and the index stored was not served again over    *)
(* torn tables, a Job that would skip the repository finds it complete.    *)
LEMMA SkipIsStored ==
    ASSUME TypeOK, SyncInv, WouldSkip, ~suspect, ~recalled
    PROVE  charts = Asked(upstream) /\ Tasks(upstream, filter, "full") \subseteq assets \cup missed
  <1>1. ~torn
    BY DEF SyncInv, TornInv
  <1>2. upstream \in Indexes /\ Checksum(upstream) = Stored
    BY DEF TypeOK, WouldSkip
  <1>3. QED
    BY <1>1, <1>2 DEF SyncInv, StoredInv

(* When the stored checksum makes a sync Job skip the repository, and      *)
(* nothing interfered with the run that stored it, the charts in the       *)
(* database are those the index and the filter ask for.                    *)
THEOREM SkipIsSound == Spec => []SkipSound
  <1>1. TypeOK /\ SyncInv => SkipSound
    BY SkipIsStored DEF SkipSound, Wanted, Asked
  <1>2. QED
    BY <1>1, SyncAlways, PTL

(* In the same case every icon and file was imported, or the failure of    *)
(* its import was logged.                                                  *)
THEOREM NothingMissing == Spec => []AssetsComplete
  <1>1. TypeOK /\ SyncInv => AssetsComplete
    BY SkipIsStored DEF AssetsComplete
  <1>2. QED
    BY <1>1, SyncAlways, PTL

(* A cleanup Job that ran alone leaves no row of a deleted AppRepository.  *)
THEOREM NothingOrphaned == Spec => []NoOrphans
  <1>1. SyncInv => NoOrphans
    BY DEF SyncInv, OrphanInv, NoOrphans
  <1>2. QED
    BY <1>1, SyncAlways, PTL

(* A chart version that a step takes from the readers of a processed       *)
(* repository is one that the index being synced or its filter drops.      *)
Dropped(c, v) ==
    \E j \in Jobs : Busy(j) /\ (v \notin jobs[j].index.charts[c] \/ c \notin jobs[j].filter)

LEMMA FlickerStep ==
    ASSUME TypeOK, TodoInv, SyncInv, Next, Stored # NoChecksum, repo' # Nil, ~suspect,
           NEW c \in Charts, NEW v \in Versions, Shown(c, v), ~Shown(c, v)'
    PROVE  Dropped(c, v)
  <1>1. charts' # charts
    BY DEF Shown
  <1>2. charts \in [Charts -> {Nil} \cup ((SUBSET Versions) \ {{}})] /\ charts[c] # Nil
    BY DEF TypeOK, Shown
  <1>3. CASE \/ Publish \/ Reconcile \/ RemoveRepo \/ AddRepo \/ CleanUp \/ DeleteCronJob
           \/ GarbageCollect \/ Delete \/ InvalidateCache
             \/ \E rule \in Rules : EditFilter(rule)
    BY <1>1, <1>3 DEF Publish, Reconcile, RemoveRepo, AddRepo, CleanUp, DeleteCronJob,
                      GarbageCollect, Delete, InvalidateCache, EditFilter,
                      Empty, tableVars
  <1>4. ASSUME NEW j \in Jobs, \/ Start(j) \/ Crash(j) \/ Kill(j) \/ FetchIndex(j) \/ LastChecksum(j)
                               \/ EnsureRepoExists(j) \/ NextPass(j) \/ UpdateLastCheck(j)
                               \/ \E t \in Assets : fetchFiles(j, t)
        PROVE  FALSE
    BY <1>1, <1>4 DEF Start, Crash, Kill, FetchIndex, LastChecksum, EnsureRepoExists, NextPass,
                      UpdateLastCheck, fetchFiles, tableVars
  <1>5. ASSUME NEW j \in Jobs, NEW d \in Charts, importCharts(j, d)
        PROVE  Dropped(c, v)
    <2>1. /\ jobs[j].pc = "import" /\ Busy(j)
          /\ charts' = [charts EXCEPT ![d] = Listed(jobs[j].index, d, jobs[j].pass)]
          /\ d \in jobs[j].todo
      BY <1>1, <1>5 DEF importCharts, Busy
    <2>2. d = c
      BY <1>2, <2>1 DEF Shown
    <2>3. jobs[j].pass # "shallow"
      BY <2>1 DEF SyncInv, JobInv, FreshInv
    <2>4. charts'[c] = jobs[j].index.charts[c]
      BY <1>2, <2>1, <2>2, <2>3 DEF Listed
    <2>5. jobs[j].index.charts[c] \in SUBSET Versions
      BY JobType, IndexFacts
    <2>6. v \notin jobs[j].index.charts[c]
      BY <2>4, <2>5, NilAssumption DEF Shown
    <2>7. QED
      BY <2>1, <2>6 DEF Dropped
  <1>6. ASSUME NEW j \in Jobs, removeMissingCharts(j)
        PROVE  Dropped(c, v)
    <2>1. /\ Busy(j)
          /\ charts' = [d \in Charts |-> IF d \in Kept(j) THEN charts[d] ELSE Nil]
      BY <1>1, <1>6 DEF removeMissingCharts, Busy, Kept
    <2>2. c \notin Kept(j)
      BY <2>1 DEF Shown
    <2>3. c \notin jobs[j].filter \/ v \notin jobs[j].index.charts[c]
      BY <2>2 DEF Kept, Selected
    <2>4. QED
      BY <2>1, <2>3 DEF Dropped
  <1>7. QED
    BY <1>3, <1>4, <1>5, <1>6 DEF Next, sync

(* Readers see no gap while a processed repository is synced again: charts *)
(* are upserted before any is deleted, and only a repository that was      *)
(* never processed is first synced with the latest versions alone.         *)
THEOREM ReadersSeeNoGap == Spec => NoFlicker
  <1>1. ASSUME TypeOK, TodoInv, SyncInv, [Next]_vars
        PROVE  [Stored # NoChecksum /\ repo' # Nil /\ ~suspect =>
                  \A c \in Charts, v \in Versions :
                    Shown(c, v) /\ ~Shown(c, v)' =>
                      \E j \in Jobs : Busy(j) /\ (v \notin jobs[j].index.charts[c]
                                                  \/ c \notin jobs[j].filter)]_vars
    BY <1>1, FlickerStep DEF Dropped
  <1>2. QED
    BY <1>1, SyncAlways, PTL DEF Spec, NoFlicker
=============================================================================
