# Kubeapps in TLA+

TLA+ modules for the parts of Kubeapps that keep state and run concurrently,
the TLC runs that check them on small instances, and theorems with proofs that
TLAPS checks for every instance. Source paths are those of the repository;
`PROJECT.json` maps every definition to the lines it models.

## The system

Users work in the **dashboard** (TypeScript, React and Redux). It calls
**kubeops** (Go), which writes `AppRepository` resources and Helm releases to
Kubernetes, and **assetsvc** and **kubeapps-apis** (Go), which read charts. The
**apprepository-controller** (Go) watches the `AppRepository` resources and
keeps, for each, a CronJob and one-off Jobs that run the **asset-syncer** (Go),
which copies a chart repository into PostgreSQL. **pinniped-proxy** (Rust)
exchanges tokens for clusters that need it.

| Component | State it keeps | Operations | Talks to | What is hard | What makes it correct |
|---|---|---|---|---|---|
| apprepository-controller | listers' caches, rate limited work queue, workers' locals | event handlers, `syncHandler`, `Run` | API server (watch, create, update, delete) | caches behind the API server, two workers, failed calls, broken watches, restarts | one worker per key; no event lost; no CronJob rolled back; deleted repositories cleaned up; CronJobs come back |
| asset-syncer, Helm | none of its own: rows of `repos`, `charts`, `files` | `sync`, `delete`, `invalidate-cache` | chart repository (HTTP), PostgreSQL | statements that commit one by one, crashes and restarts, two Jobs at once, a cleanup beside a sync | the stored checksum implies complete tables; no rows of a deleted repository; readers see no gap; tables catch up |
| asset-syncer, OCI | tags of each repository, results of the worker pools | `Checksum`, `FilterIndex`, `Charts` | registry (HTTP) | bounded channels, results in any order, errors that drop charts | every chart tag is listed; latest version first; pools end |
| kubeops, AppRepository handlers (`pkg/kube`) | secrets beside the AppRepository | create, update, refresh, delete, validate | API server | several calls per request, no transaction | secret and copy exist exactly with the repository |
| kubeops, releases (`pkg/agent`) | Helm's release storage | create, upgrade, roll back, delete | Helm, API server | check and then act, undo of a failed install | a failed creation leaves nothing; a request undoes only what it did (which does not hold) |
| assetsvc | none | list, get, filter, paginate | PostgreSQL | page boundaries | pages partition the result |
| kubeapps-apis, Flux plugin | Redis cache, watch goroutines, HelmCharts | add, modify, delete, fetch, pull a chart | API server, Redis | a goroutine per event, a watch that ends, restarts | cache entry is of the last version, or absent; every request is answered |
| kubeapps-apis, core and other plugins | registered plugins | list, get | plugins | none | none beyond the plugins' |
| dashboard, Kubernetes resources | `kube` slice: items, sockets, timers | get, watch, poll, close | API server through kubeops | answers after newer events, page changes under open sockets, failed and ended watches | what is shown follows the cluster; a page that was left holds nothing open; status counts what it should |
| dashboard, releases | `apps` slice, dialogs | list, show, roll back, delete | kubeops, assetsvc | answers of an earlier page, lists of another scope, the same name in two namespaces | a page shows its own release; a list its own scope; rollbacks ask for a revision that exists |
| dashboard, deployment and upgrade forms | `charts.selected`, `charts.deployed`, form state | select a version, type, restore, submit | assetsvc, kubeops | effects that run in the order of answers | the form's own chart, its values and the user's changes are sent |
| dashboard, session | `auth`, `config` and `clusters` slices, localStorage | log in, expire, log out, change context | kubeops, auth proxy, other tabs | answers of earlier sessions, redirects, entries of clusters made before their lists | the store follows the URL; the header renders; nobody waits for ever |
| dashboard, application repositories | `repos` slice, form state | list, add, edit, delete, validate, credentials | kubeops | secrets that arrive apart, edits during validation, lists read before a write | tables follow the server; what is submitted was validated; credentials are kept |
| dashboard, catalog | `charts` slice, page state, URL | search, filter, scroll, retry | assetsvc | pages appended whoever asked, flags shared with the chart page | only charts of the query, and all of them |
| dashboard, operators | `operators` slice, form state | list, install, create, update and delete instances | API server through kubeops | one slice for all pages, thunks of several requests | writes go to what the page names; flags come down; one OperatorGroup |
| pinniped-proxy | none | proxy a request | Pinniped | none | none |

The hazards of the code, each at its line, are listed in `PROJECT.json`
("hazards") with the property that covers it. Hazards of parts that have no
module yet are under "Plan".

## Modules

| Module | What it is |
|---|---|
| `AppRepoController` | the controller, with the API server, the informers and the work queue as it uses them |
| `AppRepoControllerProofs` | its theorems |
| `MCController` | its instance for TLC |
| `AssetSyncer` | the asset-syncer and the tables, for one Helm repository |
| `AssetSyncerProofs` | its type correctness and what the stored checksum promises, proved |
| `MCSyncer` | its instance for TLC |
| `KubeResources` | the dashboard's Kubernetes resources: requests, sockets, timers, and the page that starts and stops them |
| `ResourceView` | abstract: what the rows of a release page promise; `KubeResources` implements it |
| `ReleasePages` | the list of releases and the release page |
| `ReleasePagesProofs` | what its pages show and roll back to, and the safety of `KubeResources` and its refinement of `ResourceView`, proved |
| `ReleaseForms` | the chart page, and the forms that deploy and upgrade |
| `Session` | login, expiry, logout, clusters and namespaces of one tab |
| `SessionProofs` | that the store follows the URL, the header renders and lists are their cluster's, proved |
| `AppRepos` | the page of application repositories and its form |
| `AppReposProofs` | what the form submits and what the tables show, proved |
| `Catalog` | the catalog's paging, search and filters |
| `ChartForms` | `ReleaseForms` under names that do not occur in `Catalog`, for the proofs and the run |
| `ChartsProofs` | what the catalog shows and what the forms of `ReleaseForms` send, proved |
| `Operators` | the pages of operators and of their instances |
| `OperatorsProofs` | its flags, writes and OperatorGroups, proved |
| `Releases` | kubeops' requests on Helm releases |
| `FluxCache` | the Flux plugin's Redis cache, with its watch and its goroutines |
| `FluxCharts` | the Flux plugin's requests for the details of a package |
| `MCBackend` | the composition of these three, and their instance for TLC |
| `BackendProofs` | what `Releases` and `FluxCache` promise, and the composition with them, proved |
| `MCKube`, `MCReleases`, `MCForms`, `MCSession`, `MCRepos`, `MCCatalog`, `MCOperators` | their instances for TLC |

### AppRepoController

State. The API server holds `repos`, `cronjobs` and the last Job of each key
(`lastJob`). `repoWatch` and `cronjobWatch` are the events on their way to the
informers, `repoCache` and `cronjobCache` what the listers return. `delayed`,
`dirty`, `queue` and `processing` are client-go's rate limited queue; `workers`
the program counter and locals of each worker. An AppRepository is reduced to
what the controller tells apart (URL, resync counter, deletion timestamp, uid,
resource version), a CronJob to its owner, its URL and the version it was made
from. `dropped` is an observer: the keys whose pending work the code gives up.

Actions. Users create, update, refresh and delete AppRepositories
(`pkg/kube/kube_handler.go`), delete them in foreground, or delete a CronJob.
`DeliverRepoEvent` and `DeliverCronJobEvent` are the event handlers of
`NewController`; `RelistRepos` and `RelistCronJobs` what client-go does when a
watch breaks. `Get`, `Succeed` and `Fail` are `processNextWorkItem`, and
`syncHandler` is split where another goroutine or the API server may run in
between: one action per lister read and per API call. A call is answered, fails,
or takes effect without an answer. `Restart` is a new pod: caches filled, queue
empty, every existing AppRepository added. `Init` is a new installation: the
chart's AppRepositories (`Installed`) exist, and their events are on their way.

Abstractions. `cronJobName` is injective. The rate limiter's delay is any time.
Failing `AddRateLimited` and undecodable keys do not exist. Events of the
recorder are not modelled. The ownership check after the last call looks at the
object the API server returned for our own write, so it passes.

### AssetSyncer

State. `upstream` is the index now served, with a stamp for its sha256: an index
names the time it was generated at, so two publications differ in their bytes.
`exists` and `filter` are the AppRepository, `args` the filter rule in the
CronJob's arguments, `cleanup` a cleanup Job that waits. `repo`, `charts` and
`assets` are the tables. A Job has a program counter, the filter it was started
with, the index it fetched, the pass it is in, and what is left to import
(`todo`) and to fetch (`fetching`). `solo`, `suspect` and `missed` are
observers: which Jobs nothing interfered with, whether something interfered
with what the stored checksum covers, and which fetches failed and were only
logged.

Actions. `sync` is the command of that name, one action per request or
statement: `FetchIndex`, `LastChecksum` (with the comparison and the choice of
passes), `EnsureRepoExists`, `importCharts` (one upsert), `removeMissingCharts`,
`fetchFiles` (one icon or one version, in any order, since ten workers run),
`NextPass`, `UpdateLastCheck`. `Start`, `Crash` and `Kill` are the pod's life:
the CronJob starts it, a failure restarts it with the same arguments
(`RestartPolicy: OnFailure`), and the next schedule replaces it. `Delete` and
`InvalidateCache` are the other commands.

Abstractions. A filter rule is the set of charts it lets through; a chart
without an icon counts as one whose icon was imported; contents of files are not
kept, so that a version republished under the same number is the same version.
The order of upserts is free (the code sorts by name).

### Releases

State. `store` is Helm's storage: the revisions of each release, each with its
status and the request it stems from. A request has a program counter, and goes
through its handler (`CreateHandler`, `upgradeHandler`, `rollbackHandler`,
`DeleteHandler`) and the agent's function of that name. Helm is external and
modelled by what the agent relies on: `Install` refuses a name in use, stores a
pending revision and waits for the cluster; `Operate` does so for upgrades and
rollbacks; `Recorded` and `Uninstalled` are what ends them. `Undo` is the
deletion by which `CreateRelease` simulates the Atomic flag. A fault is an error
of a call, or the end of the process (`Crash`), which leaves what Helm stored.

Abstractions. Fetching a chart is whether there is one, values whether they can
be read. `upgradeRelease` overwrites the error of `GetChart` and goes on without
a chart, as in the code; Helm then refuses.

### FluxCache and FluxCharts

`FluxCache`. `repos` and `index` are the HelmRepositories and the index Flux
serves, `events` the watch, `tasks` the goroutines of its events, `redis` the
entries. A goroutine clears the entry, fetches the index if the object of its
event was ready, and sets the entry, in separate steps (`Clear`,
`onAddOrModifyRepo`, `Set`), or deletes it. A watch that ends, or cannot be
started, is dead until a restart; Redis survives a restart. Package summaries are
the number of the index they were made of. `raced` and `lost` are observers:
repositories two of whose events were handled at once, and those whose last event
was not served because a call failed or nobody watched.

`FluxCharts`. `charts` are the HelmCharts of a namespace, and a request lists
them, creates one if no pull of its package is over, and waits for the first
event that ends the wait, whichever chart it is of. Flux (`Pull`, `Sync`) and
users (`Delete`) are external. A tarball is the package it holds.

### The dashboard's modules

They share one way of modelling. The store is one slice of Redux, with the local
state of the mounted component where an operation needs it. A thunk is split at
each `await`: it runs to the first one when it is dispatched, and each answer is
an action that dispatches what the code dispatches, reduces it, renders, and runs
the effects whose dependencies changed, in the order of the source. JavaScript
has one thread, so nothing can come in between. Requests on their way are a set
(or a bag, where two equal ones matter), are answered in any order, and may fail.
Users do what the page they see offers; `LOCATION_CHANGE` is part of every move,
since the router dispatches it before React renders the new page. Contents
(manifests, YAML, JSON) are reduced to where they come from.

Observers (`overtaken`, `foreign`, `tainted`, `late`, `dirty`, ...) record that
something of an earlier page, scope or session came in. They guard the
properties: the code has no means to tell such an answer from its own, and each
of these cases is a hazard of the list. What the properties then say is that
there is no other way to go wrong.

- **`KubeResources`**. `items`, `sockets` and `timers` are the slice, `refs` the
  refs of the mounted AppView, `gets` requests by the version that was current
  when they were sent, `events` what a watch has sent. `Mount`, `Unmount` and
  `Jump` are the page: opened, left, and moved to another release by one history
  jump, in which React keeps the component and the router clears the items.
  `Connect`, `SocketError` (which starts the polling interval), `SocketClose`
  (which nobody listens to), `Message`, `Poll` and the answers are the events.
  `Rows` is what the table renders, `ApplicationStatus` what the status says.
- **`ReleasePages`**. `page` is the URL; `mounted` tells a page that React keeps
  from one it mounts. `selectApp`, `receiveAppUpdateInfo`, `receiveAppList`,
  `receiveRollbackApp` and `receiveDeleteApp` are the thunks' answers.
  Update information is stored by release name only, as in the reducer.
- **`ReleaseForms`**. `sel` and `deployed` are the slice, `form` the state of the
  form. `FollowSelection`, `ComputeModifications` and `ApplyModifications` are
  the effects of the two forms; a text is the version it comes from, whether it
  has the release's modifications, and whether the user typed.
- **`Session`**. `tab` is the tab: route, `auth` and `clusters` slices, login
  form and context selector; `storage` is localStorage, which other tabs change;
  `cookie` and `valid` are the auth proxy and the API server. `Redirects`
  follows PrivateRoute, LoginForm and Routes until the URL rests.
- **`AppRepos`**. Two namespaces, each with at most one repository of the same
  name. A request is handled by the backend in one step and answered in another.
  `RepoEffect`, `SecretEffect` and `PullEffects` are the form's effects;
  `install` validates, waits, and submits.
- **`Catalog`**. `at` is the URL, `page`, `loaded` and `armed` the component's
  state, `typing` the timeout of the search box. `Found` gives the pages of a
  query. `Scroll` is the IntersectionObserver, `forceRetry` the retry link.
- **`Operators`**. `st` is the slice with its five flags; `ui` the mounted
  component. `Read`, `CreateOperator` and `WriteInstance` are the thunks' steps,
  `Fail` their errors.

## Runs

| Run | Checks | Instance |
|---|---|---|
| `controller` | `TypeOK`, `OneWorkerPerKey`, `NoLostUpdate`, `NoRollback`, `EventuallyCleanedUp`, `EventuallyScheduled` | 2 repositories (the chart's, and one of another namespace), 2 URLs, 2 workers, 2 edits after the installation, 1 fault, under `FairSpec` |
| `controller_requeue` | `EventuallyConverges` is violated | 1 repository, not installed at first, 2 edits, no fault |
| `syncer_safety` | `TypeOK`, `SkipSound`, `AssetsComplete`, `NoOrphans`, `NoFlicker`, `EventuallyInSync` | 1 Job, 2 charts, 2 versions, 4 contents, 2 publications, 2 edits, 1 fault, under `FairSpec` |
| `syncer_two_jobs` | `AlreadyProcessed` is violated | 2 Jobs, 2 contents, no fault |
| `kube_resources` | `TypeOK`, `NothingLeftOpen`, `WatchedIsCurrent`, `StatusIsGrounded`, `EventuallyCurrent`, `RowsAsPromised` | a workload and an ingress, 2 versions, 2 requests per key and version, 1 failed request, under `KubeFairSpec` |
| `release_pages` | `PageShowsItsRelease`, `ListShowsItsScope`, `RollbackTargetExists` | 2 releases of one name in 2 namespaces, 2 revisions, 2 page changes, 1 failed request |
| `release_forms` | `DeploysOwnChart`, `ValuesFollowVersion`, `ModificationsSurvive`, `TypingSurvives` | 2 charts, 3 versions, one without values, 2 page changes, 1 failed request |
| `session` | `ContextFollowsURL`, `NoCrash`, `ListsAreOwn`, `LoginSettles` | 2 users, 2 clusters, 3 namespaces, 2 moves, 1 fault, under `FairSpec` |
| `repos` | `ListMatchesServer`, `SubmittedIsSound`, `CredentialsKept` | 2 namespaces, 2 URLs, 2 kinds of credentials, 4 user actions, 1 fault |
| `catalog` | `ShownMatchesQuery`, `EverythingIsShown` | 3 charts, 2 repositories, up to 3 pages, 2 searches, 3 moves, 1 fault, under `FairSpec` |
| `operators` | `ActsOnItsPage`, `NoEndlessSpinner`, `GroupPerNamespace` | 2 operators, 2 instances, 3 visits, 1 fault |
| `backend` | `FailedCreateLeavesNothing`, `CacheIsCurrent`, `PullAnswered` | `Releases`: 3 requests on 1 name, 3 revisions; `FluxCache`: 1 repository, 3 goroutines, 2 indexes, 4 other changes; `FluxCharts`: 2 requests, 2 packages, 3 HelmCharts, 1 update or deletion beside the pulls; 1 fault, under `FairSpec` |

Bounds. The installation and two edits are a creation, a change and a deletion or
recreation, with the other worker on the other key meanwhile; a fault may hit any
call, watch or the pod. The theorems below have no bounds. The three parts of
`backend` share no state, so that `MCBackend` explores one at a time; names and
repositories do not meet in them, requests and goroutines do, hence one of the
former and two or three of the latter. For the syncer, two publications make an
index change under a running Job, the contents include an index without charts,
a chart that appears, one that disappears and one that loses its older version.
In the dashboard two page changes are what it takes for an answer to arrive on
the page after the one that asked, and on a page of the same kind that React
keeps; three visits let a write follow such an answer. Two versions, two releases
of one name, two users and two namespaces are what one thing can be confused
with. Symmetry is used in two runs, `JobSymmetry` over the syncer's Jobs and
`MCSymmetry` in the operators' run.
Deadlock is not checked where the system may rest: a controller with nothing to
do, a repository that was removed, a dashboard whose user has used up his moves.

Fairness. In the controller, watches deliver, delays of the rate limiter end,
workers run (`wait.Until` in `Run`), and Kubernetes' garbage collector works.
Users, faults, relists and restarts owe nothing. The liveness properties leave out
keys whose work a fault made the controller give up (`Abandoned`), because a call
that fails once is never tried again, which is what `controller_requeue` is
about. In the syncer the CronJob starts Jobs for ever,
pods run until they end, and a cleanup Job runs. Faults are bounded, so that
they stop. In the dashboard the browser delivers what has arrived and fires its
timers, and requests are answered or fail; in `session` this is assumed only of
the requests somebody waits for (`Kinds`: the check of a token, of the cookie, and
the list of namespaces). Users owe nothing, but in `catalog`,
where `EverythingIsShown` is about a user who keeps scrolling and retrying. In
`backend` requests for details run, and Flux ends every first pull; nothing else
is fair.

### What the properties say

- `NoLostUpdate`: a key with nothing queued, whose work was never given up, has
  been served from the AppRepository now in the lister. Losing an event anywhere
  between informer and cluster would violate it. What the code does give up is
  explicit in `dropped`: failed calls, deletions hidden by a relist, foreground
  deletion, and deletions a restart forgets.
- `NoRollback`: a CronJob is never overwritten from an older AppRepository.
- `EventuallyCleanedUp`, `EventuallyScheduled`: the two directions of
  convergence that hold although listers are out of date, watches break and the
  controller restarts.
- `SkipSound`, `AssetsComplete`: if the next Job would skip the repository, the
  tables hold what index and filter ask for, down to icons and files (failed
  fetches aside), whatever crashed, unless something interfered.
- `NoOrphans`: a deleted repository leaves no rows, unless a Job ran beside.
- `NoFlicker`: a chart version leaves the tables of a processed repository only
  if the index being synced, or the filter, no longer has it.
- `EventuallyInSync`: the tables catch up with the index, unless the rule of the
  CronJob, or of a Job that runs, lets no chart through: that Job's `NOT IN ()`
  fails, and it restarts with the same rule until it is replaced.
- `WatchedIsCurrent`, `EventuallyCurrent`: a healthy watch shows the cluster, and
  so does polling once a socket failed, whatever order requests are answered in.
- `NothingLeftOpen`: no socket and no interval outlives its page, although
  closing a socket that still connects raises an error.
- `StatusIsGrounded`: the status agrees with the cluster once all workloads are
  watched, and leaves out only workloads that failed or lost their item.
- `RowsAsPromised`: refinement. With `row <- Rows` the detailed specification
  implements `ResourceView!FairSpec`: a spinner ends, and a row that shows
  something does not go back to a spinner while its page is open.
- `PageShowsItsRelease`, `ListShowsItsScope`: a page shows what its URL names,
  although `selected` and `listOverview` are shared and the latter never cleared.
- `RollbackTargetExists`: a rollback asks for an earlier revision of its release.
- `DeploysOwnChart`, `ValuesFollowVersion`: what a form sends is a version of its
  chart, and that version's values unless the user typed.
- `ModificationsSurvive`, `TypingSurvives`: the effects neither lose the release's
  modifications nor what the user typed, apart from the one case named there.
- `ContextFollowsURL`, `ListsAreOwn`, `NoCrash`: cluster and namespace of the
  store are those of the URL, the lists offered belong to their cluster, and the
  header finds the entry it reads unless a logout cleared it. `ListsAreOwn` ends
  at a logout too. The proof showed why, in a case beyond the run's bounds: an
  error that arrives after the logout makes the login page show its children, the
  user logs in behind it and changes the context, and the login form then returns
  to the page of the other cluster, so that no list of the new one is asked for.
- `LoginSettles`: the spinners of the login page and of the root page end.
- `ListMatchesServer`: tables updated by hand (`addedRepo`, `repoUpdated`) agree
  with the server once everything is answered, row by row and without duplicates.
- `SubmittedIsSound`, `CredentialsKept`: what is submitted was validated as it
  is, and an update that does not touch the credentials keeps them, if no other
  secret was ever filled into its form.
- `ShownMatchesQuery`, `EverythingIsShown`: no chart of another query, and in the
  end every chart of this one.
- `ActsOnItsPage`, `NoEndlessSpinner`, `GroupPerNamespace`: a write names what
  the page names, every thunk lowers its flag on every path, and an installation
  that is repeated after a failure leaves one OperatorGroup.

- `FailedCreateLeavesNothing`: whatever other requests do to the release meanwhile,
  a creation that answers with an error has no revision in Helm's storage, unless
  the answer says that undoing failed.
- `CacheIsCurrent`: once the events of a repository are handled, its entry is of
  the index Flux serves now, and absent if the repository is gone or not ready,
  after restarts too; apart from what `raced` and `lost` name.
- `PullAnswered`: every request for details ends, however the pulls end.

### Disagreements found

- `controller_requeue`. Comments in `controller.go` say a failed item is put
  back on the queue. It is not. No call needs to fail for this: a URL edited
  right after a creation meets a lister without the CronJob, `Create` answers
  AlreadyExists, and the CronJob keeps the old URL.
- `syncer_two_jobs`. Two Jobs of one repository may leave the checksum of the
  newer index over charts of the older one. Every later Job skips.

`AlreadyProcessed` fails in two more ways, by one Job each: a read of the
checksum that fails (`LastChecksum` ignores the error) makes a processed
repository get a shallow pass, which a crash leaves behind; and a filter that is
edited is not applied while the index stays the same, since the checksum does not
cover it. `SkipSound` leaves both out by name.

In the backend the models show four more, which the properties leave out and the
hazards name. Of two requests that create one release, the one that Helm refuses
uninstalls what the other installed: `agent.go:91` says it simulates the Atomic
flag, which removes only what the failed installation made. Goroutines of two
events of one repository may leave an entry of a repository that is not ready,
although `cache.go:221` clears the key so that the cache has no stale
information. A watch that ends makes `processEvents` spin for ever (`cache.go:180`).
And a request for the details of a package may get the tarball of another one,
since it takes the first chart of the namespace whose pull is over
(`conditions.go:145`).

## Proofs

`AppRepoControllerProofs` proves, for all sets of keys, URLs and workers and
all bounds:

- `TypeCorrect`: `Spec => []TypeOK`.
- `OneWorker`: `Spec => []OneWorkerPerKey`. The property is not inductive: `Get`
  would break it if a key in the queue could be in processing. `QueueInv` adds
  that the queue has no duplicates, that queued keys are dirty and not in
  processing, and that the key of a busy worker is in processing.
- `NothingLost`: `Spec => []NoLostUpdate`. `NoLostUpdate` speaks of keys with
  nothing pending, so the invariant must say what a worker in the middle of
  `syncHandler` has achieved: `InFlight` states, per program counter, what
  already holds of CronJob and Job, provided the AppRepository it read is still
  the lister's or the key is queued again; `WatchInv` ties the CronJob lister
  and its pending events to the CronJobs that exist.
- `NeverRollsBack`: `Spec => NoRollback`, an action property. `Ahead(k, n)` says
  that whatever the lister may return for `k` from now on is version `n` or
  newer; no step makes it false, since the watch delivers versions in order
  (`OrderInv`) and a relist or a restart only skips some. `VersionInv` says it of
  the version of every CronJob and of what a worker holds between its read of
  the lister and its write, and that no CronJob of its key is newer than that:
  which needs `OneWorkerPerKey`, as a second worker could write in between.

`AssetSyncerProofs` proves `SyncerTypeCorrect`: `Spec => []TypeOK`. `TodoInv`
(only charts of the fetched index are left to import) is needed for the versions
a pass lists to exist.

It also proves, for all charts, versions and indexes, any
number of Jobs and all bounds, every safety property of `syncer_safety`:
`SkipIsSound` (`SkipSound`), `NothingMissing` (`AssetsComplete`),
`NothingOrphaned` (`NoOrphans`) and `ReadersSeeNoGap` (`NoFlicker`, an action
property). None of them is inductive: they speak of the moment when a checksum is
stored, or of the tables at rest, and say nothing of a Job halfway. `SyncInv` adds

- who may write: a Job that nothing interfered with is the only one running
  (`SoloInv`), and it is that one while nothing is suspect (`SuspectInv`);
- how checksums relate: nothing newer than the index served is stored
  (`TableInv`), an index a Job holds was served and its stamp identifies it
  (`StampInv`), and a Job at work syncs an index newer than the one stored, with
  the shallow pass only if none is (`FreshInv`). Hence nobody would skip the
  repository while a Job changes the tables;
- what a Job that runs alone has written at each step (`ImportInv`, `FilesInv`,
  `StoreInv`), which is what storing the checksum turns into `SkipSound`;
- that a cleaned-up repository has no rows and no running Job (`OrphanInv`).

The lemma `Together` shows that a step beside another running Job leaves neither
of them trusted, so that the proof of a step (`StepSafe`) is about the Job that
takes it. `SyncInv` was model-checked with one and with two Jobs before it was
proved.

Of `KubeResources`, `ReleasePagesProofs` proves, for all resources, manifests and
bounds, every invariant of `kube_resources`: `KubeTypeCorrect` (`TypeOK`), `NothingStaysOpen`
(`NothingLeftOpen`), `WatchShowsCluster` (`WatchedIsCurrent`) and
`StatusGrounded` (`StatusIsGrounded`); and `RowsImplementView`, which is
`KubeSpec => View!Spec`, the safety part of `RowsAsPromised`. `KubeInv` adds

- `EventsInv`: only an open watch has events, and the last one is of the version
  now in the cluster. `WatchedIsCurrent` speaks of a watch that has delivered
  everything, so the step that delivers the last event needs to know what it
  says;
- `BlankInv`: a row of the page lacks an item only after a jump, which is what
  `StatusIsGrounded` says of the workloads the status leaves out.

For the refinement each step is shown to be one of the view: `Mount` opens it,
`Unmount` closes it, `Jump` blanks it, an answer, an error or a message settles a
row (or none, if its page was left), and polls, sockets and the cluster change no
row.

`BackendProofs` proves of `Releases` `FailedCreateUndone`
(`FailedCreateLeavesNothing`), of `FluxCache` `CacheStaysCurrent`
(`CacheIsCurrent`), and of their composition both (`BackendSafe`), for any
requests, names, repositories, goroutines, restarts and crashes. Neither is
inductive. For the first, `RevisionsOwned` says of every revision in Helm's
storage that its request has called Helm on that release and did not end as a
failed creation: undoing must reach what the request made, and nobody writes under
another request's name. For the second, `CacheInv` follows a change from the
cluster to Redis: the last event of a repository is about its present state
(`LastEventTells`), so is the goroutine of that event, which has come as far as
its program counter says (`LastTaskTells`), and outside `raced` there is one
goroutine (`OneAtATime`).

`OperatorsProofs` proves the three invariants of `operators` (`SpinnersEnd`,
`OneGroupPerNamespace`, `WritesToItsPage`) from one inductive invariant
(`OperatorsInvariant`): requests have the shape of their kind and ask for what the
mounted page names, a page that no late answer reached holds it or awaits it
(`PageInv`), and `createOperator` asks for a group only after it saw none and
subscribes only after there is one (`GroupInv`).

Of `ReleaseForms`, `ChartsProofs` proves the invariants of `release_forms`
(`OwnChartDeployed`, `OwnValuesDeployed`, `ModificationsDeployed`) and its action
property (`TypingIsKept`). They speak of what was submitted; `FormsInvariant` says
why the form could not submit anything else: an untainted page holds and awaits
versions of its chart only (`OwnChart`), with the values of the selected version
(`OwnValues`), and the text follows them until the user types (`TextInv`).

Of `ReleasePages`, `ReleasePagesProofs` proves the invariants (`OwnReleaseShown`,
`OwnScopeListed`, `RollsBackToThePast`). `PagesInvariant` adds that what the open
page asked for is its release or in its scope (`AsksForItsPage`), that requests for
update information follow the list of the page (`ListInv`: until it is there, the
page shows a spinner or an error), and that the dialog of a page that was mounted in this visit
was opened on the release shown and offers revisions before its last
(`DialogInv`). That a namesake's update information appears in the list of all
namespaces only is where names that are unique in a namespace are needed.

Of `Catalog`, `ChartsProofs` proves the invariant (`OwnChartsShown`). What is shown
is filtered from what is kept, also while a spinner or the operators hide it, so
`CatalogInvariant` is about the charts kept; and that an observer of the scroll
handler fires only on an open catalog, so that what it asks for is a query.

`ReleasePagesProofs` and `ChartsProofs` each hold the theorems of two modules, and
no theorem relates the two. `KubeResources` shares no name with `ReleasePages`, so
the first extends both; the second sees `ReleaseForms` through `ChartForms`.

`SessionProofs` proves the three invariants of `session` (`ContextFollowsURLHolds`,
`NoCrashHolds`, `ListsAreOwnHolds`), for any clusters, namespaces and users and any
number of requests, faults and loads. A step of the tab reduces, follows redirects
until the URL rests, renders, and runs the effects that send requests; the proof
goes the same way, with a lemma for each redirect (`FromPrivateFacts`,
`FromLoginFacts`, `FromRootFacts`), one for the three in a row (`RedirectsFacts`),
one for the render (`RenderFacts`) and one for the step (`StepInv`), so that each
action only has to show what it gives to the render. `SessionInv` adds

- `TabInv`: the header's entry exists in a tab whose clusters were not cleared,
  each cluster of the configuration has an entry with a list (`Full`), and the
  context is the URL's (`Follows`) also where the property does not ask for it, so
  that the next login finds it so;
- `CredInv`: which credentials can exist. Nothing is sent before the configuration
  arrives; with the proxy no token is stored, and requests carry the cookie the tab
  was let in with; without faults every credential is accepted. Hence without
  faults no answer ends the session;
- `LoginInv`: without faults, a tab that has not logged out asks the API nothing and
  shows no error before it is logged in. Hence nobody gets behind the login page,
  and a list that was copied from another cluster is always asked for again.

`AppReposProofs` proves the invariants and the action property of `repos`
(`SubmittedIsSoundHolds`, `ListMatchesServerHolds`, `CredentialsAreKept`). The
invariant has two parts. `FormSide` is about the form: what was validated is what
the form holds unless `shifted` (`StillChecked`), an untouched form holds the header
of the secret it saw, however user, password and header are put together again on
submission (`Filled`), its pull secrets are its namespace's (`Fits`), and a request
keeps what the form promised at the click (`TaskOk`). `ListSide` is about the list.
It follows answers rather than the list: one that nothing has overtaken is what the
server holds now, for both stages of a list (`FreshOk`), and of two writes in one
namespace at most one is not out of date (`OneWriter`). The list then equals the
server up to the current writes whose answers are on their way (`Match`), unless
a list that will replace it is on its way (`Refetch`), or an outdated write whose
answer `dirty` will record (`Overdue`). `FormSide` is inductive by itself and gives
`ListSide` its types.

Three things about the models changed for these proofs. `RowOf` and `AsListed` are
written without `SelectSeq`, whose definition is recursive. In `Fill`, `refilled`
stays true once another secret was filled in: `CredentialsKept` excused the last
change only, and is false of a form filled from a foreign secret and then from its own
twice. In `Session` an action that changes the storage does so before it renders, as
the code does, so that a request its effects send carries the token stored by then.

Each of these invariants was checked by TLC on the run's instance before it was
proved.

The proofs use the assumptions stated in the modules (`KeysAssumption`,
`InstalledAssumption`, `BoundsAssumption`, `ObjectsAssumption`; `ContentsAssumption`,
`SyncerBoundsAssumption`, `NilAssumption`; `KubeConstants`; `ReleaseConstants`,
`CacheConstants`, `OperatorsConstants`, `CatalogConstants`; `SessionConstants`,
`RepoConstants`, `FirstIsSpec`, and `NoneAssumption` of `Session` and `AppRepos`):
bounds are naturals, model values differ from the records or versions they stand
beside, releases and repositories are finitely many, a release's name is unique in
its namespace, an instance has an operator, a query finds pages of charts, clusters
have a namespace and share none (an empty list of namespaces is an error in
`fetchNamespaces`, like a failed request), and the scope of all namespaces
(`_all`) is not the name of one.

Only model-checked: the liveness properties (`EventuallyCleanedUp`,
`EventuallyScheduled`, `EventuallyInSync`, `EventuallyCurrent`, the fairness of
`RowsAsPromised`, `LoginSettles`, `EverythingIsShown`, `PullAnswered`), since
fairness is out of the prover's reach. Every invariant and every action property
that a passing run checks is a theorem.

## Plan

Done: `AppRepoController`, `AssetSyncer`, the dashboard's modules, `Releases`,
`FluxCache` and `FluxCharts`, and the proofs of their safety. Left, in this order:

1. `OCIRegistry`: the tag check and pull pools as channels and workers, checked
   against the sequential definition of the listing. A tag check or pull that
   fails is only logged (`asset-syncer/utils.go:542`), which drops the chart from
   the tables; results arrive in any order (`:614`). The pool that reads the Flux
   plugin's cache (`cache.go:333`) has the same shape.
2. `AppRepoHandler`: the handlers' calls on AppRepositories and secrets. Deleting
   reads the credentials before it deletes (`kube_handler.go:683`), so that an
   update in between leaves the copied secret behind.
3. A composition of controller and syncer in which the controller's Jobs are the
   syncer's. `syncJobSpec` writes into the object of the informer's cache
   (`controller.go:488`), which needs the aliasing of Go maps.

## Not modelled

assetsvc's queries, kubeapps-apis' stateless plugins and pinniped-proxy keep no
state shared between steps. Lists of releases and of package summaries change
nothing; the cache of repository indexes in `pkg/chart`, a map that concurrent
requests write without a lock, appears only as a process that may die at any
moment. In the dashboard: lists of resources without a name
and the discovery of kinds; the widgets of the basic form, the schema and the
YAML and JSON functions in `shared/`; channels, approval strategy and filters of
operators; styles and other rendering. `shared/hapi/release.js`, generated
clients and protobufs, the Helm chart and scripts are not program logic of the
system.
