--------------------------- MODULE BackendProofs ---------------------------
(***************************************************************************)
(* Theorems about Releases and FluxCache, for any names, requests,         *)
(* repositories, goroutines and bounds.                                    *)
(***************************************************************************)
EXTENDS MCBackend, FiniteSetTheorems, SequenceTheorems, TLAPS

-----------------------------------------------------------------------------
(* Releases: the inductive invariant.                                      *)

Statuses == {"pending", "deployed", "superseded", "uninstalled", "failed"}
Revisions == [by : ReleaseRequests \union {User}, status : Statuses]
Kinds == {"none", "create", "upgrade", "rollback", "purge", "keep"}
Fresh == {"idle", "create", "install", "upgrade", "run upgrade", "rollback", "purge", "keep",
          "refused"}
Acted == {"deploy", "undo", "done", "failed", "undo failed", "gone"}

HelmType ==
    /\ store \in [Names -> Seq(Revisions)]
    /\ releaseRequests \in [ReleaseRequests ->
           [pc : Fresh \union Acted, kind : Kinds, name : Names \union {"none"},
            chart : BOOLEAN, to : Nat]]
    /\ \A r \in ReleaseRequests :
           releaseRequests[r].pc # "idle" => releaseRequests[r].name \in Names

(* A revision is of the release that its request names; that request has   *)
(* called Helm, and did not fail as a creation.                            *)
OwnRevision(q, n) ==
    q.pc \in Acted /\ q.name = n /\ (q.kind = "create" => q.pc # "failed")
RevisionsOwned ==
    \A n \in Names, r \in ReleaseRequests :
        (\E i \in 1..Len(store[n]) : store[n][i].by = r) => OwnRevision(releaseRequests[r], n)

HelmInv == HelmType /\ RevisionsOwned

-----------------------------------------------------------------------------
(* What Helm's storage does to the revisions of a release: their requests  *)
(* stay.                                                                   *)

LEMMA RecordedKeeps ==
    ASSUME HelmType, NEW n \in Names, NEW r \in ReleaseRequests, NEW status \in Statuses
    PROVE  /\ Helm!Recorded(n, r, status) \in Seq(Revisions)
           /\ Len(Helm!Recorded(n, r, status)) = Len(store[n])
           /\ \A i \in 1..Len(store[n]) : Helm!Recorded(n, r, status)[i].by = store[n][i].by
  <1> DEFINE q == Helm!Recorded(n, r, status)
  <1>1. store[n] \in Seq(Revisions) /\ Len(store[n]) \in Nat
    BY DEF HelmType
  <1>2. \A i \in 1..Len(store[n]) : store[n][i] \in Revisions
    BY <1>1
  <1>3. ASSUME NEW i \in 1..Len(store[n]) PROVE q[i] \in Revisions /\ q[i].by = store[n][i].by
    <2>1. CASE store[n][i] = Helm!Revision(r, "pending")
      BY <2>1, <1>2 DEF Helm!Recorded, Helm!Revision, Revisions
    <2>2. CASE store[n][i] # Helm!Revision(r, "pending")
      BY <2>2, <1>2 DEF Helm!Recorded, Helm!Revision, Revisions, Statuses
    <2> QED BY <2>1, <2>2
  <1>4. q = [i \in 1..Len(store[n]) |-> q[i]]
    BY DEF Helm!Recorded
  <1> HIDE DEF q
  <1>5. q \in Seq(Revisions) /\ Len(q) = Len(store[n])
    BY <1>1, <1>3, <1>4
  <1> QED BY <1>3, <1>5 DEF q

LEMMA UninstalledKeeps ==
    ASSUME HelmType, NEW n \in Names, NEW keep \in BOOLEAN, store[n] # << >>
    PROVE  /\ Helm!Uninstalled(n, keep) \in Seq(Revisions)
           /\ Len(Helm!Uninstalled(n, keep)) <= Len(store[n])
           /\ \A i \in 1..Len(Helm!Uninstalled(n, keep)) :
                 Helm!Uninstalled(n, keep)[i].by = store[n][i].by
  <1>1. store[n] \in Seq(Revisions) /\ Len(store[n]) \in Nat
    BY DEF HelmType
  <1>2. CASE keep
    <2> DEFINE q == [store[n] EXCEPT ![Len(store[n])].status = "uninstalled"]
    <2>1. Helm!Uninstalled(n, keep) = q
      BY <1>2 DEF Helm!Uninstalled
    <2>2. store[n] = [i \in 1..Len(store[n]) |-> store[n][i]]
      BY <1>1
    <2>3. ASSUME NEW i \in 1..Len(store[n]) PROVE q[i] \in Revisions /\ q[i].by = store[n][i].by
      <3>1. store[n][i] \in Revisions
        BY <1>1
      <3> QED BY <2>2, <3>1 DEF Revisions, Statuses
    <2>4. q = [i \in 1..Len(store[n]) |-> q[i]]
      BY <2>2
    <2>5. q \in Seq(Revisions) /\ Len(q) = Len(store[n])
      BY <1>1, <2>3, <2>4
    <2> QED BY <1>1, <2>1, <2>3, <2>5
  <1>3. CASE ~keep
    BY <1>1, <1>3 DEF Helm!Uninstalled
  <1> QED BY <1>2, <1>3

(* A step that changes nothing but where request r is.                     *)
LEMMA GoKeeps ==
    ASSUME HelmInv, NEW r \in ReleaseRequests, NEW pc \in Fresh \union Acted,
           Helm!Go(r, pc), UNCHANGED store,
           releaseRequests[r].pc # "idle",
           \/ releaseRequests[r].pc \in Fresh
           \/ pc \in Acted \ {"failed"}
    PROVE  HelmInv'
  <1>1. HelmType'
    BY DEF HelmInv, HelmType, Helm!Go
  <1>2. RevisionsOwned'
    <2> SUFFICES ASSUME NEW n \in Names, NEW s \in ReleaseRequests, NEW i \in 1..Len(store[n]),
                        store[n][i].by = s
                 PROVE  OwnRevision(releaseRequests'[s], n)
      BY DEF RevisionsOwned
    <2>1. OwnRevision(releaseRequests[s], n)
      BY DEF HelmInv, RevisionsOwned
    <2>2. CASE s = r
      BY <2>1, <2>2 DEF HelmInv, HelmType, OwnRevision, Helm!Go, Fresh, Acted
    <2>3. CASE s # r
      BY <2>1, <2>3 DEF HelmInv, HelmType, Helm!Go
    <2> QED BY <2>2, <2>3
  <1> QED BY <1>1, <1>2 DEF HelmInv

LEMMA AcceptKeeps ==
    ASSUME HelmInv, NEW r \in ReleaseRequests, NEW n \in Names,
           NEW pc \in Fresh \ {"idle"}, NEW kind \in Kinds, NEW chart \in BOOLEAN, NEW to \in Nat,
           Helm!Accept(r, Helm!Request(pc, kind, n, chart, to))
    PROVE  HelmInv'
  <1>1. HelmType'
    BY DEF HelmInv, HelmType, Helm!Accept, Helm!Request, Fresh
  <1>2. RevisionsOwned'
    <2> SUFFICES ASSUME NEW m \in Names, NEW s \in ReleaseRequests, NEW i \in 1..Len(store[m]),
                        store[m][i].by = s
                 PROVE  OwnRevision(releaseRequests'[s], m)
      BY DEF RevisionsOwned, Helm!Accept
    <2>1. OwnRevision(releaseRequests[s], m)
      BY DEF HelmInv, RevisionsOwned
    <2>2. s # r
      BY <2>1 DEF OwnRevision, Helm!Accept, Acted
    <2> QED BY <2>1, <2>2 DEF HelmInv, HelmType, Helm!Accept
  <1> QED BY <1>1, <1>2 DEF HelmInv

(* Request r, which has a release's revisions rewritten, keeps the others  *)
(* and may own the new ones.                                               *)
LEMMA RewriteKeeps ==
    ASSUME HelmInv, NEW r \in ReleaseRequests, NEW n \in Names, NEW q \in Seq(Revisions),
           NEW pc \in Acted,
           store' = [store EXCEPT ![n] = q],
           Helm!Go(r, pc),
           releaseRequests[r].name = n, releaseRequests[r].pc # "idle",
           \A i \in 1..Len(q) : q[i].by = r \/ \E j \in 1..Len(store[n]) : q[i].by = store[n][j].by,
           (\E i \in 1..Len(q) : q[i].by = r) =>
               (releaseRequests[r].kind = "create" => pc # "failed")
    PROVE  HelmInv'
  <1>1. HelmType'
    BY DEF HelmInv, HelmType, Helm!Go
  <1>2. ASSUME NEW m \in Names, NEW s \in ReleaseRequests, NEW i \in 1..Len(store'[m]),
               store'[m][i].by = s
        PROVE  OwnRevision(releaseRequests'[s], m)
    <2>1. CASE s = r /\ m = n
      BY <1>2, <2>1 DEF HelmInv, HelmType, OwnRevision, Helm!Go
    <2>2. CASE s = r /\ m # n
      BY <1>2, <2>2 DEF HelmInv, HelmType, RevisionsOwned, OwnRevision, Helm!Go
    <2>3. CASE s # r
      <3>1. releaseRequests'[s] = releaseRequests[s]
        BY <2>3 DEF HelmInv, HelmType, Helm!Go
      <3>2. \E j \in 1..Len(store[m]) : store[m][j].by = s
        BY <1>2, <2>3 DEF HelmInv, HelmType
      <3> QED BY <3>1, <3>2 DEF HelmInv, RevisionsOwned
    <2> QED BY <2>1, <2>2, <2>3
  <1> QED BY <1>1, <1>2 DEF HelmInv, RevisionsOwned

LEMMA RecordKeeps ==
    ASSUME HelmInv, NEW r \in ReleaseRequests, NEW status \in Statuses, NEW pc \in Acted,
           releaseRequests[r].pc = "deploy",
           store' = [store EXCEPT ![releaseRequests[r].name] =
                        Helm!Recorded(releaseRequests[r].name, r, status)],
           Helm!Go(r, pc),
           releaseRequests[r].kind = "create" => pc # "failed"
    PROVE  HelmInv'
  <1> DEFINE n == releaseRequests[r].name
             q == Helm!Recorded(n, r, status)
  <1>1. n \in Names /\ store[n] \in Seq(Revisions)
    BY DEF HelmInv, HelmType
  <1>2. /\ q \in Seq(Revisions)
        /\ Len(q) = Len(store[n])
        /\ \A i \in 1..Len(store[n]) : q[i].by = store[n][i].by
    BY <1>1, RecordedKeeps DEF HelmInv
  <1> HIDE DEF q
  <1>3. \A i \in 1..Len(q) : q[i].by = r \/ \E j \in 1..Len(store[n]) : q[i].by = store[n][j].by
    BY <1>2
  <1>4. store' = [store EXCEPT ![n] = q] /\ releaseRequests[r].name = n
    BY DEF q
  <1>5. releaseRequests[r].pc # "idle"
    OBVIOUS
  <1> HIDE DEF n
  <1> QED BY <1>1, <1>2, <1>3, <1>4, <1>5, RewriteKeeps

LEMMA HelmInit == Helm!Init => HelmInv
  <1> SUFFICES ASSUME Helm!Init PROVE HelmInv
    OBVIOUS
  <1>1. store \in [Names -> Seq(Revisions)]
    <2>1. << >> \in Seq(Revisions) /\ <<Helm!Revision(User, "deployed")>> \in Seq(Revisions)
      BY DEF Helm!Revision, Revisions, Statuses
    <2> QED BY <2>1 DEF Helm!Init
  <1>2. HelmType
    BY <1>1 DEF HelmType, Helm!Init, Helm!Idle, Fresh, Kinds
  <1>3. ASSUME NEW n \in Names, NEW r \in ReleaseRequests, NEW i \in 1..Len(store[n])
        PROVE  store[n][i].by # r
    <2>1. store[n] = << >> \/ store[n] = <<Helm!Revision(User, "deployed")>>
      BY DEF Helm!Init
    <2>2. store[n][i].by = User
      BY <2>1 DEF Helm!Revision
    <2> QED BY <2>2, ReleaseConstants
  <1> QED BY <1>2, <1>3 DEF HelmInv, RevisionsOwned

LEMMA HelmStep ==
    ASSUME HelmInv, [Helm!Next]_releaseVars
    PROVE  HelmInv'
  <1>1. CASE UNCHANGED releaseVars
    BY <1>1 DEF releaseVars, HelmInv, HelmType, RevisionsOwned
  <1>2. CASE Helm!Crash
    <2>1. HelmType'
      BY <1>2 DEF HelmInv, HelmType, Helm!Crash, Acted, Helm!Ended
    <2>2. ASSUME NEW r \in ReleaseRequests, NEW n \in Names, OwnRevision(releaseRequests[r], n)
          PROVE  OwnRevision(releaseRequests'[r], n)
      BY <1>2, <2>2 DEF HelmInv, HelmType, Helm!Crash, OwnRevision, Acted, Helm!Ended
    <2> QED BY <1>2, <2>1, <2>2 DEF HelmInv, RevisionsOwned, Helm!Crash
  <1>3. ASSUME NEW r \in ReleaseRequests, NEW n \in Names, Helm!Receive(r, n)
        PROVE  HelmInv'
    <2>1. CASE Helm!CreateHandler(r, n)
      BY <2>1, AcceptKeeps DEF Helm!CreateHandler, Helm!PrepareFails, Fresh, Kinds
    <2>2. CASE Helm!upgradeHandler(r, n)
      BY <2>2, AcceptKeeps DEF Helm!upgradeHandler, Helm!PrepareFails, Fresh, Kinds
    <2>3. ASSUME NEW to \in 0..MaxRevisions, Helm!rollbackHandler(r, n, to) PROVE HelmInv'
      <3>1. to \in Nat
        BY ReleaseConstants
      <3> QED BY <2>3, <3>1, AcceptKeeps DEF Helm!rollbackHandler, Fresh, Kinds
    <2>4. ASSUME NEW kind \in {"purge", "keep"}, Helm!DeleteHandler(r, n, kind) PROVE HelmInv'
      BY <2>4, AcceptKeeps DEF Helm!DeleteHandler, Fresh, Kinds
    <2> QED BY <1>3, <2>1, <2>2, <2>3, <2>4 DEF Helm!Receive
  <1>4. ASSUME NEW r \in ReleaseRequests, Helm!Step(r)
        PROVE  HelmInv'
    <2> DEFINE n == releaseRequests[r].name
    <2>a. ASSUME releaseRequests[r].pc # "idle"
          PROVE  n \in Names /\ store[n] \in Seq(Revisions) /\ Len(store[n]) \in Nat
      BY <2>a DEF HelmInv, HelmType
    <2>1. CASE Helm!CreateRelease(r)
      BY <2>1, GoKeeps DEF Helm!CreateRelease, Fresh, Acted
    <2>2. CASE Helm!Install(r)
      <3>1. CASE UNCHANGED store
        BY <2>2, <3>1, GoKeeps DEF Helm!Install, Fresh, Acted
      <3>2. CASE store' = [store EXCEPT ![n] = <<Helm!Revision(r, "pending")>>] /\ Helm!Go(r, "deploy")
        <4> DEFINE q == <<Helm!Revision(r, "pending")>>
        <4>1. q \in Seq(Revisions) /\ \A i \in 1..Len(q) : q[i].by = r
          BY DEF Helm!Revision, Revisions, Statuses
        <4>2. releaseRequests[r].pc # "idle"
          BY <2>2 DEF Helm!Install
        <4> HIDE DEF q
        <4> QED BY <2>a, <3>2, <4>1, <4>2, RewriteKeeps DEF q, Acted
      <3> QED BY <2>2, <3>1, <3>2 DEF Helm!Install
    <2>3. CASE Helm!Deployed(r)
      BY <2>3, RecordKeeps DEF Helm!Deployed, Acted, Statuses
    <2>4. CASE Helm!DeployFails(r)
      <3>1. Helm!AfterFailure(r) \in Acted
            /\ (releaseRequests[r].kind = "create" => Helm!AfterFailure(r) # "failed")
        BY DEF Helm!AfterFailure, Acted
      <3> QED BY <2>4, <3>1, RecordKeeps DEF Helm!DeployFails, Statuses
    <2>5. CASE Helm!Undo(r)
      <3>1. CASE UNCHANGED store /\ Helm!Go(r, "undo failed")
        BY <2>5, <3>1, GoKeeps DEF Helm!Undo, Acted
      <3>2. CASE store' = [store EXCEPT ![n] = << >>] /\ Helm!Go(r, "failed")
        <4>1. releaseRequests[r].pc # "idle"
          BY <2>5 DEF Helm!Undo
        <4>2. << >> \in Seq(Revisions) /\ 1..Len(<< >>) = {}
          OBVIOUS
        <4> QED BY <2>a, <3>2, <4>1, <4>2, RewriteKeeps DEF Acted
      <3> QED BY <2>5, <3>1, <3>2 DEF Helm!Undo
    <2>6. CASE Helm!UpgradeRelease(r)
      BY <2>6, GoKeeps DEF Helm!UpgradeRelease, Fresh, Acted
    <2>7. CASE Helm!Operate(r)
      <3> DEFINE q == Append(store[n], Helm!Revision(r, "pending"))
      <3>1. releaseRequests[r].pc # "idle" /\ store' = [store EXCEPT ![n] = q] /\ Helm!Go(r, "deploy")
        BY <2>7 DEF Helm!Operate
      <3>2. Helm!Revision(r, "pending") \in Revisions
        BY DEF Helm!Revision, Revisions, Statuses
      <3>3. q \in Seq(Revisions)
        BY <2>a, <3>1, <3>2
      <3>4. \A i \in 1..Len(q) : q[i].by = r \/ \E j \in 1..Len(store[n]) : q[i].by = store[n][j].by
        BY <2>a, <3>1 DEF Helm!Revision
      <3> HIDE DEF q
      <3> QED BY <2>a, <3>1, <3>3, <3>4, RewriteKeeps DEF Acted
    <2>8. CASE Helm!Refuse(r)
      BY <2>8, GoKeeps DEF Helm!Refuse, Fresh, Acted
    <2>9. CASE Helm!DeleteRelease(r)
      <3>1. releaseRequests[r].pc \in {"purge", "keep"}
        BY <2>9 DEF Helm!DeleteRelease
      <3>2. CASE UNCHANGED store
        BY <2>9, <3>1, <3>2, GoKeeps DEF Helm!DeleteRelease, Fresh, Acted
      <3>3. CASE /\ Helm!Status(n) # "none"
                 /\ store' = [store EXCEPT ![n] = Helm!Uninstalled(n, releaseRequests[r].kind = "keep")]
                 /\ Helm!Go(r, "done")
        <4>1. store[n] # << >>
          BY <3>3 DEF Helm!Status
        <4> DEFINE q == Helm!Uninstalled(n, releaseRequests[r].kind = "keep")
        <4>2. /\ q \in Seq(Revisions)
              /\ Len(q) <= Len(store[n])
              /\ \A i \in 1..Len(q) : q[i].by = store[n][i].by
          BY <2>a, <3>1, <4>1, UninstalledKeeps DEF HelmInv
        <4> HIDE DEF q
        <4>3. \A i \in 1..Len(q) : \E j \in 1..Len(store[n]) : q[i].by = store[n][j].by
          BY <2>a, <3>1, <4>2
        <4> QED BY <2>a, <3>1, <3>3, <4>2, <4>3, RewriteKeeps DEF q, Acted
      <3> QED BY <2>9, <3>2, <3>3 DEF Helm!DeleteRelease
    <2> QED BY <1>4, <2>1, <2>2, <2>3, <2>4, <2>5, <2>6, <2>7, <2>8, <2>9 DEF Helm!Step
  <1> QED BY <1>1, <1>2, <1>3, <1>4 DEF Helm!Next

LEMMA OwnedMeansNothingLeft == HelmInv => FailedCreateLeavesNothing
  BY DEF HelmInv, RevisionsOwned, OwnRevision, Acted,
         FailedCreateLeavesNothing, Helm!FailedCreateLeavesNothing

(* A request to create a release that failed or was refused left no        *)
(* revision in Helm's storage, however many requests work on the release   *)
(* at once and whenever kubeops crashes: CreateRelease's undoing reaches   *)
(* everything of its own, since no request writes to another release.      *)
THEOREM FailedCreateUndone == Helm!Spec => []FailedCreateLeavesNothing
  <1>1. HelmInv /\ [Helm!Next]_Helm!vars => HelmInv'
    BY HelmStep DEF Helm!vars, releaseVars
  <1> QED BY <1>1, HelmInit, OwnedMeansNothingLeft, PTL DEF Helm!Spec

-----------------------------------------------------------------------------
(* FluxCache: the inductive invariant.                                     *)

Events == [type : {"ADDED", "MODIFIED", "DELETED"}, key : Repos, ready : BOOLEAN]

CacheType ==
    /\ repos \in [Repos -> {"absent", "unready", "ready"}]
    /\ index \in [Repos -> Nat]
    /\ redis \in [Repos -> Nat \union {None}]
    /\ watcher \in {"starting", "watching", "dead"}
    /\ events \in Seq(Events)
    /\ tasks \in [Slots -> Goroutines \union {None}]
    /\ raced \subseteq Repos /\ lost \subseteq Repos

(* Nothing is on its way to a watch that has not begun.                    *)
NothingEarly ==
    /\ watcher # "watching" => events = << >>
    /\ watcher = "starting" => \A i \in Slots : tasks[i] = None

(* A repository outside raced has at most one goroutine.                   *)
OneAtATime ==
    \A k \in Repos \ raced : \A i, j \in Tasks(k) : i = j

(* The last event of a repository is about its state in the cluster.       *)
Pending(k) == \E i \in 1..Len(events) : events[i].key = k
Tells(e) ==
    /\ e.ready <=> repos[e.key] = "ready"
    /\ e.type = "DELETED" <=> repos[e.key] = "absent"
LastEventTells ==
    \A i \in 1..Len(events) :
        (\A j \in 1..Len(events) : j > i => events[j].key # events[i].key) => Tells(events[i])

(* So is the goroutine of the last event, and it has come as far as its pc *)
(* says.                                                                   *)
UpToDate(k, t) ==
    /\ t.ready <=> repos[k] = "ready"
    /\ t.pc = "delete" <=> repos[k] = "absent"
    /\ t.pc = "index" => redis[k] = None
    /\ t.pc = "set" => t.ready /\ t.value = index[k]
LastTaskTells ==
    watcher = "watching" =>
        \A k \in Repos \ (raced \union lost) :
            ~Pending(k) => \A i \in Tasks(k) : UpToDate(k, tasks[i])

CacheInv ==
    CacheType /\ NothingEarly /\ OneAtATime /\ LastEventTells /\ LastTaskTells /\ CacheIsCurrent

-----------------------------------------------------------------------------
LEMMA NoneIsNoTask == \A t \in Goroutines : t # None
  BY CacheConstants

LEMMA HandledMeans ==
    ASSUME NEW k
    PROVE  Handled(k) <=> watcher = "watching" /\ Tasks(k) = {} /\ ~Pending(k)
  BY DEF Handled, Pending

LEMMA CacheInit == Init => CacheInv
  <1> SUFFICES ASSUME Init PROVE CacheInv
    OBVIOUS
  <1>1. CacheType
    BY DEF Init, CacheType
  <1>2. 1..Len(events) = {}
    BY DEF Init
  <1> QED BY <1>1, <1>2 DEF Init, CacheInv, NothingEarly, OneAtATime, Tasks, LastEventTells,
             LastTaskTells, CacheIsCurrent, Handled

(* A change of a HelmRepository: its event is the last, and tells.         *)
LEMMA NotifyKeeps ==
    ASSUME CacheInv, NEW k \in Repos, NEW type \in {"ADDED", "MODIFIED", "DELETED"},
           NEW state \in {"absent", "unready", "ready"},
           type = "DELETED" <=> state = "absent",
           Notify(type, k, state),
           index' \in [Repos -> Nat], \A m \in Repos \ {k} : index'[m] = index[m]
    PROVE  CacheInv'
  <1> DEFINE e == Event(type, k, state = "ready")
  <1>0. e \in Events /\ e.key = k /\ (e.ready <=> state = "ready") /\ e.type = type
    BY DEF Event, Events
  <1> HIDE DEF e
  <1>1. CacheType'
    <2>1. Append(events, e) \in Seq(Events)
      BY <1>0 DEF CacheInv, CacheType
    <2>2. events' \in Seq(Events)
      BY <2>1 DEF CacheInv, CacheType, Notify, e
    <2> QED BY <2>2 DEF CacheInv, CacheType, Notify
  <1>2. NothingEarly' /\ OneAtATime'
    BY DEF CacheInv, NothingEarly, OneAtATime, Notify, Tasks
  <1>3. CASE watcher # "watching"
    <2>1. events' = << >> /\ watcher' # "watching" /\ 1..Len(<< >>) = {}
      BY <1>3 DEF CacheInv, NothingEarly, Notify
    <2> QED BY <1>1, <1>2, <2>1 DEF CacheInv, LastEventTells, LastTaskTells, CacheIsCurrent, Handled
  <1>4. CASE watcher = "watching"
    <2>1. /\ events' = Append(events, e) /\ events \in Seq(Events)
          /\ repos' = [repos EXCEPT ![k] = state]
          /\ UNCHANGED <<redis, watcher, tasks, raced, lost>>
      BY <1>4 DEF Notify, CacheInv, CacheType, e
    <2>2. /\ Len(events) \in Nat /\ Len(events') = Len(events) + 1
          /\ \A i \in 1..Len(events) : events'[i] = events[i]
          /\ events'[Len(events) + 1] = e
      BY <2>1, <1>0
    <2>3. Pending(k)'
      BY <1>0, <2>2 DEF Pending
    <2>4. \A m \in Repos \ {k} : repos'[m] = repos[m] /\ (Pending(m)' <=> Pending(m))
      BY <1>0, <2>1, <2>2 DEF Pending, CacheInv, CacheType
    <2>5. LastEventTells'
      <3> SUFFICES ASSUME NEW i \in 1..Len(events'),
                          \A j \in 1..Len(events') : j > i => events'[j].key # events'[i].key
                   PROVE  Tells(events[i])'
        BY DEF LastEventTells
      <3>1. CASE i = Len(events) + 1
        BY <1>0, <2>1, <2>2, <3>1 DEF Tells, CacheInv, CacheType
      <3>2. CASE i # Len(events) + 1
        <4>1. i \in 1..Len(events) /\ events'[i].key # k
          BY <1>0, <2>2, <3>2
        <4>2. Tells(events[i]) /\ events[i] \in Events
          BY <2>1, <2>2, <4>1 DEF CacheInv, LastEventTells
        <4>3. events'[i] = events[i] /\ repos'[events[i].key] = repos[events[i].key]
          BY <2>1, <2>2, <2>4, <4>1, <4>2 DEF Events
        <4> QED BY <4>2, <4>3 DEF Tells
      <3> QED BY <3>1, <3>2
    <2>6. LastTaskTells'
      <3> SUFFICES ASSUME NEW m \in Repos \ (raced \union lost), ~Pending(m)', NEW i \in Tasks(m)
                   PROVE  UpToDate(m, tasks[i])'
        BY <2>1 DEF LastTaskTells, Tasks
      <3>1. m # k /\ ~Pending(m)
        BY <2>3, <2>4
      <3>2. UpToDate(m, tasks[i])
        BY <1>4, <3>1 DEF CacheInv, LastTaskTells
      <3> QED BY <2>1, <2>4, <3>1, <3>2 DEF UpToDate
    <2>7. CacheIsCurrent'
      <3> SUFFICES ASSUME NEW m \in Repos \ (raced \union lost), Handled(m)'
                   PROVE  (redis[m] = IF repos[m] = "ready" THEN index[m] ELSE None)'
        BY <2>1 DEF CacheIsCurrent
      <3>1. m # k /\ Handled(m)
        BY <2>1, <2>3, <2>4, HandledMeans DEF Handled, Pending, Tasks
      <3> QED BY <2>1, <2>4, <3>1 DEF CacheInv, CacheIsCurrent
    <2> QED BY <1>1, <1>2, <2>5, <2>6, <2>7 DEF CacheInv
  <1> QED BY <1>3, <1>4

(* The watch begins with an event for everything there is.                 *)
LEMMA Enumerated ==
    ASSUME NEW S, IsFiniteSet(S)
    PROVE  /\ SetToSeq(S) \in Seq(S)
           /\ \A k \in S : \E i \in 1..Len(SetToSeq(S)) : SetToSeq(S)[i] = k
           /\ \A i, j \in 1..Len(SetToSeq(S)) : i # j => SetToSeq(S)[i] # SetToSeq(S)[j]
  <1>1. Cardinality(S) \in Nat /\ ExistsBijection(1..Cardinality(S), S)
    BY FS_CardinalityType
  <1>2. PICK f \in Bijection(1..Cardinality(S), S) : TRUE
    BY <1>1 DEF ExistsBijection
  <1>3. f \in [1..Cardinality(S) -> S] /\ IsInjective(f)
    BY <1>2 DEF Bijection, Injection
  <1> DEFINE q == SetToSeq(S)
  <1>4. q \in [1..Cardinality(S) -> S] /\ IsInjective(q)
    BY <1>3 DEF SetToSeq
  <1> HIDE DEF q
  <1>5. q \in Seq(S) /\ Len(q) = Cardinality(S)
    BY <1>1, <1>4
  <1>6. q \in Injection(1..Cardinality(S), S)
    BY <1>4 DEF Injection
  <1>7. q \in Surjection(1..Cardinality(S), S)
    <2>1. IsFiniteSet(1..Cardinality(S)) /\ Cardinality(1..Cardinality(S)) = Cardinality(S)
      BY <1>1, FS_Interval
    <2> QED BY <1>6, <2>1, FS_Injection
  <1>8. \A k \in S : \E i \in 1..Cardinality(S) : q[i] = k
    BY <1>7 DEF Surjection
  <1>9. \A i, j \in 1..Cardinality(S) : i # j => q[i] # q[j]
    BY <1>4 DEF IsInjective
  <1> QED BY <1>5, <1>8, <1>9 DEF q

LEMMA startResourceWatcherKeeps ==
    ASSUME CacheInv, startResourceWatcher
    PROVE  CacheInv'
  <1> DEFINE existing == {k \in Repos : repos[k] # "absent"}
             q == SetToSeq(existing)
  <1>1. /\ q \in Seq(existing)
        /\ \A k \in existing : \E i \in 1..Len(q) : q[i] = k
        /\ \A i, j \in 1..Len(q) : i # j => q[i] # q[j]
    <2>1. IsFiniteSet(existing)
      BY CacheConstants, FS_Subset
    <2> QED BY <2>1, Enumerated
  <1>2. /\ events' = [i \in 1..Len(q) |-> Event("ADDED", q[i], repos[q[i]] = "ready")]
        /\ lost' = {k \in Repos \ existing : redis[k] # None} /\ raced' = {}
        /\ watcher' = "watching"
        /\ UNCHANGED <<repos, index, redis, tasks>>
    BY DEF startResourceWatcher, cluster
  <1> HIDE DEF q
  <1>3. Len(q) \in Nat /\ \A i \in 1..Len(q) : q[i] \in existing
    BY <1>1
  <1>4. ASSUME NEW i \in 1..Len(q)
        PROVE  events'[i] \in Events /\ events'[i].key = q[i] /\ Tells(events[i])'
    BY <1>2, <1>3 DEF Event, Events, Tells
  <1>5. events' \in Seq(Events) /\ Len(events') = Len(q)
    BY <1>2, <1>3, <1>4
  <1>6. \A k \in existing : Pending(k)'
    BY <1>1, <1>4, <1>5 DEF Pending
  <1>7. \A i \in Slots : tasks'[i] = None
    BY <1>2 DEF startResourceWatcher, CacheInv, NothingEarly
  <1>8. \A k \in Repos : Tasks(k)' = {}
    BY <1>7 DEF Tasks
  <1>9. CacheType'
    BY <1>2, <1>5 DEF CacheInv, CacheType
  <1>10. NothingEarly' /\ OneAtATime' /\ LastTaskTells'
    BY <1>2, <1>8 DEF NothingEarly, OneAtATime, LastTaskTells
  <1>11. LastEventTells'
    BY <1>4, <1>5 DEF LastEventTells
  <1>12. CacheIsCurrent'
    <2> SUFFICES ASSUME NEW m \in Repos \ lost', Handled(m)'
                 PROVE  (redis[m] = IF repos[m] = "ready" THEN index[m] ELSE None)'
      BY <1>2 DEF CacheIsCurrent
    <2>1. m \notin existing
      BY <1>6 DEF Handled, Pending
    <2> QED BY <1>2, <2>1
  <1> QED BY <1>9, <1>10, <1>11, <1>12 DEF CacheInv

(* Nothing of the cache's state needs the watch once it has ended.         *)
LEMMA NoWatchKeeps ==
    ASSUME CacheInv, watcher' \in {"starting", "dead"}, events' = << >>,
           UNCHANGED <<repos, index, redis, raced, lost>>,
           \/ watcher' = "dead" /\ tasks' = tasks
           \/ tasks' = [i \in Slots |-> None]
    PROVE  CacheInv'
  <1>1. events' \in Seq(Events) /\ 1..Len(events') = {}
    OBVIOUS
  <1>2. CacheType'
    BY <1>1 DEF CacheInv, CacheType
  <1>3. NothingEarly' /\ LastEventTells' /\ LastTaskTells' /\ CacheIsCurrent'
    BY <1>1 DEF NothingEarly, LastEventTells, LastTaskTells, CacheIsCurrent, Handled
  <1>4. OneAtATime'
    BY DEF CacheInv, OneAtATime, Tasks
  <1> QED BY <1>2, <1>3, <1>4 DEF CacheInv

LEMMA processEventsKeeps ==
    ASSUME CacheInv, processEvents
    PROVE  CacheInv'
  <1> DEFINE e == Head(events)
             slot == CHOOSE i \in Slots : tasks[i] = None
  <1>1. events \in Seq(Events) /\ events # << >> /\ slot \in Slots /\ tasks[slot] = None
    BY DEF processEvents, CacheInv, CacheType
  <1>2. /\ Len(events) \in Nat /\ Len(events) >= 1 /\ e = events[1] /\ e \in Events
        /\ Tail(events) \in Seq(Events) /\ Len(Tail(events)) = Len(events) - 1
        /\ \A i \in 1..(Len(events) - 1) : Tail(events)[i] = events[i + 1]
    BY <1>1
  <1>3. /\ tasks' = [tasks EXCEPT ![slot] = Goroutine(e)]
        /\ events' = Tail(events)
        /\ raced' = IF Tasks(e.key) = {} THEN raced \ {e.key} ELSE raced \union {e.key}
        /\ lost' = lost \ {e.key}
        /\ UNCHANGED <<repos, index, redis, watcher>>
    BY DEF processEvents, cluster
  <1> HIDE DEF e, slot
  <1>4. Goroutine(e) \in Goroutines /\ Goroutine(e).key = e.key /\ e.key \in Repos
    BY <1>2 DEF Goroutine, Goroutines, Events
  <1>a. PICK c \in Repos : c = e.key
    BY <1>4
  <1>c. /\ tasks' = [tasks EXCEPT ![slot] = Goroutine(e)] /\ Goroutine(e).key = c
        /\ events' = Tail(events) /\ e.key = c
        /\ raced' = IF Tasks(c) = {} THEN raced \ {c} ELSE raced \union {c}
        /\ lost' = lost \ {c}
        /\ UNCHANGED <<repos, index, redis, watcher>>
    BY <1>3, <1>4, <1>a
  <1>5. Goroutine(e) # None
    BY <1>4, NoneIsNoTask
  <1>6. Tasks(c)' = Tasks(c) \union {slot}
    BY <1>1, <1>c, <1>4, <1>5 DEF Tasks, CacheInv, CacheType
  <1>7. ASSUME NEW m \in Repos \ {c}
        PROVE  /\ Tasks(m)' = Tasks(m) /\ \A i \in Tasks(m) : tasks'[i] = tasks[i]
               /\ Pending(m)' <=> Pending(m)
               /\ m \in raced' <=> m \in raced
               /\ m \in lost' <=> m \in lost
    <2>1. Tasks(m)' = Tasks(m) /\ \A i \in Tasks(m) : tasks'[i] = tasks[i]
      BY <1>1, <1>c, <1>4, <1>5 DEF Tasks, CacheInv, CacheType
    <2>2. ASSUME NEW i \in 1..Len(events), events[i].key = m
          PROVE  Pending(m)'
      <3>1. i - 1 \in 1..Len(events') /\ events'[i - 1] = events[i]
        BY <1>2, <1>c, <2>2
      <3> QED BY <2>2, <3>1 DEF Pending
    <2>3. Pending(m)' => Pending(m)
      BY <1>2, <1>c DEF Pending
    <2> QED BY <1>c, <2>1, <2>2, <2>3 DEF Pending
  <1>8. CacheType'
    BY <1>1, <1>2, <1>c, <1>4 DEF CacheInv, CacheType
  <1>9. NothingEarly'
    BY <1>1, <1>c DEF CacheInv, NothingEarly
  <1>10. OneAtATime'
    <2> SUFFICES ASSUME NEW m \in Repos \ raced' PROVE \A i, j \in Tasks(m)' : i = j
      BY DEF OneAtATime
    <2>1. CASE m = c
      BY <1>c, <1>4, <1>6, <2>1
    <2>2. CASE m # c
      BY <1>7, <2>2 DEF CacheInv, OneAtATime
    <2> QED BY <2>1, <2>2
  <1>11. LastEventTells'
    <2> SUFFICES ASSUME NEW i \in 1..Len(events'),
                        \A j \in 1..Len(events') : j > i => events'[j].key # events'[i].key
                 PROVE  Tells(events[i])'
      BY DEF LastEventTells
    <2>1. i + 1 \in 1..Len(events) /\ events'[i] = events[i + 1]
      BY <1>2, <1>c
    <2>2. ASSUME NEW j \in 1..Len(events), j > i + 1 PROVE events[j].key # events[i + 1].key
      <3>1. j - 1 \in 1..Len(events') /\ j - 1 > i /\ events'[j - 1] = events[j]
        BY <1>2, <1>c, <2>2
      <3> QED BY <2>1, <3>1
    <2>3. Tells(events[i + 1])
      BY <2>1, <2>2 DEF CacheInv, LastEventTells
    <2> QED BY <1>c, <2>1, <2>3 DEF Tells
  <1>12. LastTaskTells'
    <2> SUFFICES ASSUME watcher = "watching", NEW m \in Repos \ (raced' \union lost'), ~Pending(m)',
                        NEW i \in Tasks(m)'
                 PROVE  UpToDate(m, tasks[i])'
      BY <1>c DEF LastTaskTells
    <2>1. CASE m = c
      <3>1. i = slot /\ tasks'[i] = Goroutine(e)
        BY <1>1, <1>c, <1>6, <2>1 DEF CacheInv, CacheType
      <3>2. ASSUME NEW j \in 1..Len(events), j > 1 PROVE events[j].key # c
        <4>1. j - 1 \in 1..Len(events') /\ events'[j - 1] = events[j]
          BY <1>2, <1>c, <3>2
        <4> QED BY <2>1, <4>1 DEF Pending
      <3>3. Tells(e)
        BY <1>2, <1>c, <3>2 DEF CacheInv, LastEventTells
      <3> QED BY <1>2, <1>c, <2>1, <3>1, <3>3 DEF UpToDate, Tells, Goroutine, Events
    <2>2. CASE m # c
      <3>1. UpToDate(m, tasks[i]) /\ tasks'[i] = tasks[i]
        BY <1>7, <2>2 DEF CacheInv, LastTaskTells
      <3> QED BY <1>c, <3>1 DEF UpToDate
    <2> QED BY <2>1, <2>2
  <1>13. CacheIsCurrent'
    <2> SUFFICES ASSUME NEW m \in Repos \ (raced' \union lost'), Handled(m)'
                 PROVE  (redis[m] = IF repos[m] = "ready" THEN index[m] ELSE None)'
      BY DEF CacheIsCurrent
    <2>1. watcher = "watching" /\ Tasks(m)' = {} /\ ~Pending(m)'
      BY <1>c DEF Handled, Pending
    <2>2. m # c
      BY <1>6, <2>1
    <2>3. Handled(m) /\ m \notin raced \union lost
      BY <1>7, <2>1, <2>2, HandledMeans
    <2> QED BY <1>c, <2>3 DEF CacheInv, CacheIsCurrent
  <1> QED BY <1>8, <1>9, <1>10, <1>11, <1>12, <1>13 DEF CacheInv

(* A step of goroutine i, after which it is t, or at its end.  It writes   *)
(* no entry but its own; and what it leaves is right if it was alone, knew *)
(* the state of the cluster, and nothing failed.                           *)
LEMMA GoroutineKeeps ==
    ASSUME CacheInv, NEW i \in Slots, tasks[i] # None, NEW t \in Goroutines \union {None},
           tasks' = [tasks EXCEPT ![i] = t],
           t # None => t.key = tasks[i].key,
           redis' \in [Repos -> Nat \union {None}],
           \A m \in Repos \ {tasks[i].key} : redis'[m] = redis[m],
           lost' = lost \/ lost' = lost \union {tasks[i].key},
           UNCHANGED <<repos, index, watcher, events, raced>>,
           (tasks[i].key \notin lost' /\ UpToDate(tasks[i].key, tasks[i])) =>
               IF t # None
               THEN /\ t.ready <=> repos[t.key] = "ready"
                    /\ t.pc = "delete" <=> repos[t.key] = "absent"
                    /\ t.pc = "index" => redis'[t.key] = None
                    /\ t.pc = "set" => t.ready /\ t.value = index[t.key]
               ELSE redis'[tasks[i].key] = IF repos[tasks[i].key] = "ready"
                                           THEN index[tasks[i].key] ELSE None
    PROVE  CacheInv'
  <1>0. tasks[i] \in Goroutines /\ tasks[i].key \in Repos
    BY DEF CacheInv, CacheType, Goroutines
  <1>k. PICK k \in Repos : k = tasks[i].key
    BY <1>0
  <1>1. tasks[i] \in Goroutines /\ tasks[i].key = k /\ i \in Tasks(k)
    BY <1>0, <1>k DEF Tasks
  <1>2. \A m \in Repos \ {k} : Tasks(m)' = Tasks(m) /\ \A j \in Tasks(m) : tasks'[j] = tasks[j]
    BY <1>1 DEF Tasks, CacheInv, CacheType
  <1>3. Tasks(k)' = IF t # None THEN Tasks(k) ELSE Tasks(k) \ {i}
    BY <1>1 DEF Tasks, CacheInv, CacheType
  <1>4. \A m : Pending(m)' <=> Pending(m)
    BY DEF Pending
  <1>5. CacheType'
    BY <1>1 DEF CacheInv, CacheType
  <1>6. NothingEarly'
    BY <1>1 DEF CacheInv, NothingEarly
  <1>7. OneAtATime'
    BY <1>2, <1>3 DEF CacheInv, OneAtATime
  <1>8. LastEventTells'
    BY DEF CacheInv, LastEventTells, Tells
  <1>9. ASSUME k \notin raced \union lost', watcher = "watching", ~Pending(k)
        PROVE  /\ Tasks(k) = {i} /\ UpToDate(k, tasks[i])
               /\ t # None => UpToDate(k, tasks[i])'
    <2>1. Tasks(k) = {i} /\ k \notin raced \union lost
      BY <1>1, <1>9 DEF CacheInv, OneAtATime
    <2>2. UpToDate(k, tasks[i])
      BY <1>1, <1>9, <2>1 DEF CacheInv, LastTaskTells
    <2>3. tasks'[i] = t
      BY DEF CacheInv, CacheType
    <2>4. ASSUME t # None
          PROVE  /\ t.ready <=> repos'[k] = "ready"
                 /\ t.pc = "delete" <=> repos'[k] = "absent"
                 /\ t.pc = "index" => redis'[k] = None
                 /\ t.pc = "set" => t.ready /\ t.value = index'[k]
      BY <1>k, <1>9, <2>2, <2>4
    <2> QED BY <2>1, <2>2, <2>3, <2>4 DEF UpToDate
  <1>10. LastTaskTells'
    <2> SUFFICES ASSUME watcher = "watching", NEW m \in Repos \ (raced \union lost'), ~Pending(m),
                        NEW j \in Tasks(m)'
                 PROVE  UpToDate(m, tasks[j])'
      BY <1>4 DEF LastTaskTells
    <2>1. CASE m = k
      BY <1>3, <1>9, <2>1
    <2>2. CASE m # k
      <3>1. tasks'[j] = tasks[j] /\ UpToDate(m, tasks[j]) /\ redis'[m] = redis[m]
        BY <1>k, <1>2, <2>2 DEF CacheInv, LastTaskTells
      <3> QED BY <3>1 DEF UpToDate
    <2> QED BY <2>1, <2>2
  <1>11. CacheIsCurrent'
    <2> SUFFICES ASSUME NEW m \in Repos \ (raced \union lost'), Handled(m)'
                 PROVE  (redis[m] = IF repos[m] = "ready" THEN index[m] ELSE None)'
      BY DEF CacheIsCurrent
    <2>1. watcher = "watching" /\ Tasks(m)' = {} /\ ~Pending(m)
      BY <1>4 DEF Handled, Pending
    <2>2. CASE m = k
      <3>1. Tasks(k) = {i} /\ UpToDate(k, tasks[i]) /\ t = None
        BY <1>3, <1>9, <2>1, <2>2
      <3> QED BY <1>k, <2>2, <3>1
    <2>3. CASE m # k
      <3>1. Handled(m)
        BY <1>2, <2>1, <2>3, HandledMeans
      <3> QED BY <1>k, <2>3, <3>1 DEF CacheInv, CacheIsCurrent
    <2> QED BY <2>2, <2>3
  <1> QED BY <1>5, <1>6, <1>7, <1>8, <1>10, <1>11 DEF CacheInv

LEMMA StepKeeps ==
    ASSUME CacheInv, NEW i \in Slots, Step(i)
    PROVE  CacheInv'
  <1>0. /\ tasks[i] # None /\ tasks[i] \in Goroutines /\ tasks[i].key \in Repos
        /\ redis \in [Repos -> Nat \union {None}] /\ index[tasks[i].key] \in Nat
        /\ tasks \in [Slots -> Goroutines \union {None}]
    BY DEF Step, Clear, onAddOrModifyRepo, Set, onDelete, CacheInv, CacheType, Goroutines
  <1> DEFINE k == tasks[i].key
             Moved(pc, value) == [tasks[i] EXCEPT !.pc = pc, !.value = value]
  <1>1. ASSUME NEW pc \in {"index", "set"}, NEW value \in Nat \union {None}, Goto(i, pc, value)
        PROVE  /\ Moved(pc, value) \in Goroutines /\ tasks' = [tasks EXCEPT ![i] = Moved(pc, value)]
               /\ Moved(pc, value) # None
               /\ Moved(pc, value).key = k /\ Moved(pc, value).ready = tasks[i].ready
               /\ Moved(pc, value).pc = pc /\ Moved(pc, value).value = value
    <2>1. Moved(pc, value) \in Goroutines
      BY <1>0 DEF Goroutines
    <2>2. tasks' = [tasks EXCEPT ![i] = Moved(pc, value)]
      BY <1>0, <1>1 DEF Goto
    <2> QED BY <1>0, <2>1, <2>2, NoneIsNoTask DEF Goroutines
  <1> HIDE DEF Moved
  <1>2. CASE Clear(i)
    <2>1. Goto(i, "index", None) /\ UNCHANGED <<repos, index, watcher, events, raced>>
      BY <1>2 DEF Clear, cluster
    <2>2. redis' \in [Repos -> Nat \union {None}] /\ \A m \in Repos \ {k} : redis'[m] = redis[m]
      BY <1>0, <1>2 DEF Clear, ClearEntry
    <2>3. \/ lost' = lost /\ redis'[k] = None
          \/ lost' = lost \union {k}
      BY <1>0, <1>2 DEF Clear, ClearEntry
    <2>4. tasks[i].pc = "clear"
      BY <1>2 DEF Clear
    <2>5. /\ Moved("index", None) \in Goroutines /\ Moved("index", None) # None
          /\ tasks' = [tasks EXCEPT ![i] = Moved("index", None)]
          /\ Moved("index", None).key = k /\ Moved("index", None).ready = tasks[i].ready
          /\ Moved("index", None).pc = "index" /\ Moved("index", None).value = None
      BY <1>1, <2>1
    <2> QED BY <1>0, <2>1, <2>2, <2>3, <2>4, <2>5, GoroutineKeeps DEF UpToDate
  <1>3. CASE onAddOrModifyRepo(i)
    <2>1. UNCHANGED <<repos, index, redis, watcher, events, raced>> /\ tasks[i].pc = "index"
      BY <1>3 DEF onAddOrModifyRepo, cluster
    <2>2. CASE ~tasks[i].ready /\ End(i) /\ lost' = lost
      BY <1>0, <2>1, <2>2, GoroutineKeeps DEF UpToDate, End
    <2>3. CASE tasks[i].ready /\ Goto(i, "set", index[k]) /\ lost' = lost
      <3>1. /\ Moved("set", index[k]) \in Goroutines /\ Moved("set", index[k]) # None
            /\ tasks' = [tasks EXCEPT ![i] = Moved("set", index[k])]
            /\ Moved("set", index[k]).key = k /\ Moved("set", index[k]).ready = tasks[i].ready
            /\ Moved("set", index[k]).pc = "set" /\ Moved("set", index[k]).value = index[k]
        BY <1>0, <1>1, <2>3
      <3> QED BY <1>0, <2>1, <2>3, <3>1, GoroutineKeeps DEF UpToDate
    <2>4. CASE tasks[i].ready /\ repos[k] = "absent" /\ End(i) /\ lost' = lost
      BY <1>0, <2>1, <2>4, GoroutineKeeps DEF UpToDate, End
    <2>5. CASE End(i) /\ lost' = lost \union {k}
      BY <1>0, <2>1, <2>5, GoroutineKeeps DEF UpToDate, End
    <2> QED BY <1>3, <2>2, <2>3, <2>4, <2>5 DEF onAddOrModifyRepo
  <1>4. CASE Set(i)
    <2>1. /\ UNCHANGED <<repos, index, watcher, events, raced>> /\ tasks[i].pc = "set"
          /\ tasks' = [tasks EXCEPT ![i] = None]
      BY <1>4 DEF Set, cluster, End
    <2>2. redis' \in [Repos -> Nat \union {None}] /\ \A m \in Repos \ {k} : redis'[m] = redis[m]
      BY <1>0, <1>4 DEF Set, Goroutines
    <2>3. \/ lost' = lost /\ redis'[k] = tasks[i].value
          \/ lost' = lost \union {k}
      BY <1>0, <1>4 DEF Set
    <2> QED BY <1>0, <2>1, <2>2, <2>3, GoroutineKeeps DEF UpToDate
  <1>5. CASE onDelete(i)
    <2>1. /\ UNCHANGED <<repos, index, watcher, events, raced>> /\ tasks[i].pc = "delete"
          /\ tasks' = [tasks EXCEPT ![i] = None]
      BY <1>5 DEF onDelete, cluster, End
    <2>2. redis' \in [Repos -> Nat \union {None}] /\ \A m \in Repos \ {k} : redis'[m] = redis[m]
      BY <1>0, <1>5 DEF onDelete, ClearEntry
    <2>3. \/ lost' = lost /\ redis'[k] = None
          \/ lost' = lost \union {k}
      BY <1>0, <1>5 DEF onDelete, ClearEntry
    <2> QED BY <1>0, <2>1, <2>2, <2>3, GoroutineKeeps DEF UpToDate
  <1> QED BY <1>2, <1>3, <1>4, <1>5 DEF Step

LEMMA CacheStep ==
    ASSUME CacheInv, [Next]_cacheVars
    PROVE  CacheInv'
  <1>1. CASE UNCHANGED cacheVars
    BY <1>1 DEF cacheVars, CacheInv, CacheType, NothingEarly, OneAtATime, LastEventTells,
                Tells, LastTaskTells, UpToDate, CacheIsCurrent, Handled, Tasks, Pending
  <1>2. ASSUME NEW k \in Repos, Create(k) \/ Reconcile(k) \/ Degrade(k) \/ Delete(k)
        PROVE  CacheInv'
    <2>1. index \in [Repos -> Nat]
      BY DEF CacheInv, CacheType
    <2>2. index' \in [Repos -> Nat] /\ \A m \in Repos \ {k} : index'[m] = index[m]
      BY <1>2, <2>1 DEF Create, Reconcile, Degrade, Delete
    <2> QED BY <1>2, <2>2, NotifyKeeps DEF Create, Reconcile, Degrade, Delete
  <1>3. CASE startResourceWatcher
    BY <1>3, startResourceWatcherKeeps
  <1>4. CASE WatchRefused
    <2>1. watcher = "starting" /\ watcher' = "dead" /\ UNCHANGED <<cluster, redis, events, tasks, raced, lost>>
      BY <1>4 DEF WatchRefused
    <2>2. events' = << >>
      BY <2>1 DEF CacheInv, NothingEarly
    <2> QED BY <2>1, <2>2, NoWatchKeeps DEF cluster
  <1>5. CASE WatchEnds
    BY <1>5, NoWatchKeeps DEF WatchEnds, cluster
  <1>6. CASE Restart
    BY <1>6, NoWatchKeeps DEF Restart, cluster
  <1>7. CASE processEvents
    BY <1>7, processEventsKeeps
  <1>8. ASSUME NEW i \in Slots, Step(i) PROVE CacheInv'
    BY <1>8, StepKeeps
  <1> QED BY <1>1, <1>2, <1>3, <1>4, <1>5, <1>6, <1>7, <1>8 DEF Next

(* Once all events of a HelmRepository are handled, its entry in Redis is  *)
(* made of the index that Flux serves, or there is none, for any number of *)
(* repositories, goroutines, restarts and failures: unless two of its      *)
(* events were handled at once, a call failed or it was deleted while      *)
(* nobody watched.                                                         *)
THEOREM CacheStaysCurrent == Spec => []CacheIsCurrent
  <1>1. CacheInv /\ [Next]_vars => CacheInv'
    BY CacheStep DEF vars, cacheVars
  <1>2. CacheInv => CacheIsCurrent
    BY DEF CacheInv
  <1> QED BY <1>1, <1>2, CacheInit, PTL DEF Spec

-----------------------------------------------------------------------------
(* Both hold of the composition as well, where FairSpec lets one part work *)
(* at a time.                                                              *)
THEOREM BackendSafe == FairSpec => [](FailedCreateLeavesNothing /\ CacheIsCurrent)
  <1>1. BackendInit => HelmInv /\ CacheInv
    <2>1. ReleasesAtRest => Helm!Init \/ HelmInv
      <3> SUFFICES ASSUME ReleasesAtRest PROVE HelmInv
        OBVIOUS
      <3>1. << >> \in Seq(Revisions) /\ 1..Len(<< >>) = {}
        OBVIOUS
      <3> QED BY <3>1 DEF ReleasesAtRest, HelmInv, HelmType, RevisionsOwned, Helm!Idle, Fresh, Kinds
    <2> QED BY <2>1, HelmInit, CacheInit DEF BackendInit
  <1>2. HelmInv /\ CacheInv /\ [BackendNext]_backendVars => HelmInv' /\ CacheInv'
    BY HelmStep, CacheStep DEF BackendNext, backendVars, releaseVars, cacheVars
  <1>3. HelmInv /\ CacheInv => FailedCreateLeavesNothing /\ CacheIsCurrent
    BY OwnedMeansNothingLeft DEF CacheInv
  <1> QED BY <1>1, <1>2, <1>3, PTL DEF FairSpec
=============================================================================
