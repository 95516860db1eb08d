------------------------------ MODULE FluxCache ------------------------------
(***************************************************************************)
(* The cache of the Flux plugin (ResourceWatcherCache): package summaries  *)
(* of HelmRepositories, kept in Redis by a watch whose every event is      *)
(* handled by a goroutine of its own.                                      *)
(*                                                                         *)
(* The summaries of a repository are reduced to the index they were made   *)
(* of; indexes are numbered as Flux stores them.  One step is one call to  *)
(* Redis, to the API server or to Flux's source controller.                *)
(***************************************************************************)
EXTENDS Naturals, Sequences, SequencesExt, FiniteSets

CONSTANTS
    Repos,       \* keys of HelmRepositories (redisKeyFor)
    None,
    MaxIndexes,  \* bound: indexes Flux stores for a repository
    MaxTasks,    \* bound: goroutines at a time
    MaxChanges,  \* bound: changes of HelmRepositories other than a new index
    MaxFaults    \* bound: failed calls, ended watches and restarts

(* The goroutine that handles one event. *)
Goroutines == [key : Repos, ready : BOOLEAN, pc : {"clear", "index", "set", "delete"},
               value : Nat \union {None}]

ASSUME CacheConstants ==
    /\ IsFiniteSet(Repos) /\ None \notin Goroutines
    /\ MaxTasks \in Nat

VARIABLES
    repos,    \* [Repos -> "absent", "unready" or "ready"], in the cluster
    index,    \* [Repos -> number of the index that Flux serves]
    redis,    \* [Repos -> index its entry was made of, or None]
    watcher,  \* "starting", "watching", or "dead" (never to be started again)
    events,   \* the channel of the watch
    tasks,    \* [1..MaxTasks -> goroutine of an event, or None]
    raced,    \* observer: repositories two of whose events were handled at once
    lost,     \* observer: repositories whose last event was not served
    changes, faults

vars == <<repos, index, redis, watcher, events, tasks, raced, lost, changes, faults>>
cluster == <<repos, index, changes>>

Slots == 1..MaxTasks
Tasks(k) == {i \in Slots : tasks[i] # None /\ tasks[i].key = k}
Event(type, k, ready) == [type |-> type, key |-> k, ready |-> ready]

(* A plugin that was just started beside an empty Redis. *)
Init ==
    /\ repos = [k \in Repos |-> "absent"]
    /\ index = [k \in Repos |-> 0]
    /\ redis = [k \in Repos |-> None]
    /\ watcher = "starting"
    /\ events = << >>
    /\ tasks = [i \in Slots |-> None]
    /\ raced = {} /\ lost = {}
    /\ changes = 0 /\ faults = 0

Fault == faults < MaxFaults /\ faults' = faults + 1

-----------------------------------------------------------------------------
(* HelmRepositories, as users and Flux change them. *)

Notify(type, k, state) ==
    /\ repos' = [repos EXCEPT ![k] = state]
    /\ events' = IF watcher = "watching"
                 THEN Append(events, Event(type, k, state = "ready")) ELSE events
    /\ UNCHANGED <<redis, watcher, tasks, raced, lost, faults>>

Create(k) ==
    /\ repos[k] = "absent" /\ changes < MaxChanges
    /\ changes' = changes + 1
    /\ Notify("ADDED", k, "unready")
    /\ UNCHANGED index

(* Flux stored a new index. *)
Reconcile(k) ==
    /\ repos[k] # "absent" /\ index[k] < MaxIndexes
    /\ index' = [index EXCEPT ![k] = @ + 1]
    /\ Notify("MODIFIED", k, "ready")
    /\ UNCHANGED changes

(* A new generation that Flux has not observed, or an index it cannot get. *)
Degrade(k) ==
    /\ repos[k] = "ready" /\ changes < MaxChanges
    /\ changes' = changes + 1
    /\ Notify("MODIFIED", k, "unready")
    /\ UNCHANGED index

Delete(k) ==
    /\ repos[k] # "absent" /\ changes < MaxChanges
    /\ changes' = changes + 1
    /\ Notify("DELETED", k, "absent")
    /\ UNCHANGED index

-----------------------------------------------------------------------------
(* The watch *)

(* newResourceWatcherChan: a watch without resourceVersion, which begins   *)
(* with an event for everything that exists.  Nothing tells the cache what *)
(* was deleted before.                                                     *)
startResourceWatcher ==
    /\ watcher = "starting"
    /\ watcher' = "watching"
    /\ LET existing == {k \in Repos : repos[k] # "absent"}
           All == SetToSeq(existing)
       IN /\ events' = [i \in 1..Len(All) |-> Event("ADDED", All[i], repos[All[i]] = "ready")]
          /\ lost' = {k \in Repos \ existing : redis[k] # None}
    /\ raced' = {}
    /\ UNCHANGED <<cluster, redis, tasks, faults>>

(* The error is logged, and nobody tries again. *)
WatchRefused ==
    /\ watcher = "starting" /\ Fault
    /\ watcher' = "dead"
    /\ UNCHANGED <<cluster, redis, events, tasks, raced, lost>>

(* The closed channel yields events without a type, which the loop skips   *)
(* for ever.                                                               *)
WatchEnds ==
    /\ watcher = "watching" /\ Fault
    /\ watcher' = "dead"
    /\ events' = << >>
    /\ UNCHANGED <<cluster, redis, tasks, raced, lost>>

(* A new pod of the plugin; Redis goes on. *)
Restart ==
    /\ Fault
    /\ watcher' = "starting"
    /\ events' = << >>
    /\ tasks' = [i \in Slots |-> None]
    /\ UNCHANGED <<cluster, redis, raced, lost>>

(* The goroutine an event gets. *)
Goroutine(e) ==
    [key |-> e.key, ready |-> e.ready,
     pc |-> IF e.type = "DELETED" THEN "delete" ELSE "clear", value |-> None]

processEvents ==
    /\ events # << >>
    /\ \E i \in Slots : tasks[i] = None
    /\ LET e == Head(events)
           slot == CHOOSE i \in Slots : tasks[i] = None
       IN /\ tasks' = [tasks EXCEPT ![slot] = Goroutine(e)]
          /\ raced' = IF Tasks(e.key) = {} THEN raced \ {e.key} ELSE raced \union {e.key}
          /\ lost' = lost \ {e.key}
    /\ events' = Tail(events)
    /\ UNCHANGED <<cluster, redis, watcher, faults>>

-----------------------------------------------------------------------------
(* A goroutine: onAddOrModify or onDelete *)

Goto(i, pc, value) == tasks' = [tasks EXCEPT ![i].pc = pc, ![i].value = value]
End(i) == tasks' = [tasks EXCEPT ![i] = None]

(* The entry is cleared first, so that a repository that is not ready, or  *)
(* cannot be indexed, has none; and a goroutine that leaves it until it    *)
(* has a new one.                                                          *)
KeepEntry(k) == redis
ClearEntry(k) == [redis EXCEPT ![k] = None]

(* The result of Del is not looked at. *)
Clear(i) ==
    /\ tasks[i] # None /\ tasks[i].pc = "clear"
    /\ \/ /\ redis' = ClearEntry(tasks[i].key)
          /\ UNCHANGED <<lost, faults>>
       \/ /\ Fault
          /\ lost' = lost \union {tasks[i].key}
          /\ UNCHANGED redis
    /\ Goto(i, "index", None)
    /\ UNCHANGED <<cluster, watcher, events, raced>>

(* onAddOrModifyRepo: of a repository that was ready when the event was    *)
(* sent, the index that is served now; that of a repository deleted by now *)
(* may be gone.                                                            *)
onAddOrModifyRepo(i) ==
    /\ tasks[i] # None /\ tasks[i].pc = "index"
    /\ LET k == tasks[i].key IN
       \/ /\ ~tasks[i].ready
          /\ End(i)
          /\ UNCHANGED <<lost, faults>>
       \/ /\ tasks[i].ready
          /\ Goto(i, "set", index[k])
          /\ UNCHANGED <<lost, faults>>
       \/ /\ tasks[i].ready /\ repos[k] = "absent"
          /\ End(i)
          /\ UNCHANGED <<lost, faults>>
       \/ /\ tasks[i].ready /\ Fault
          /\ End(i)
          /\ lost' = lost \union {k}
    /\ UNCHANGED <<cluster, redis, watcher, events, raced>>

Set(i) ==
    /\ tasks[i] # None /\ tasks[i].pc = "set"
    /\ \/ /\ redis' = [redis EXCEPT ![tasks[i].key] = tasks[i].value]
          /\ UNCHANGED <<lost, faults>>
       \/ /\ Fault
          /\ lost' = lost \union {tasks[i].key}
          /\ UNCHANGED redis
    /\ End(i)
    /\ UNCHANGED <<cluster, watcher, events, raced>>

onDelete(i) ==
    /\ tasks[i] # None /\ tasks[i].pc = "delete"
    /\ \/ /\ redis' = ClearEntry(tasks[i].key)
          /\ UNCHANGED <<lost, faults>>
       \/ /\ Fault
          /\ lost' = lost \union {tasks[i].key}
          /\ UNCHANGED redis
    /\ End(i)
    /\ UNCHANGED <<cluster, watcher, events, raced>>

Step(i) == Clear(i) \/ onAddOrModifyRepo(i) \/ Set(i) \/ onDelete(i)

Next ==
    \/ \E k \in Repos : Create(k) \/ Reconcile(k) \/ Degrade(k) \/ Delete(k)
    \/ startResourceWatcher \/ WatchRefused \/ WatchEnds \/ Restart \/ processEvents
    \/ \E i \in Slots : Step(i)

Spec == Init /\ [][Next]_vars

-----------------------------------------------------------------------------
Handled(k) == /\ watcher = "watching" /\ Tasks(k) = {}
              /\ \A i \in 1..Len(events) : events[i].key # k

(* Once all events of a repository are handled, its entry is made of the   *)
(* index that Flux serves, and there is none if the repository is gone or  *)
(* not ready: also after a restart, which finds the entries of before.     *)
(* Except where two events were handled at once (each in a goroutine of    *)
(* its own), a call failed, or the repository was deleted while nobody     *)
(* watched.                                                                *)
CacheIsCurrent ==
    \A k \in Repos \ (raced \union lost) :
        Handled(k) => redis[k] = IF repos[k] = "ready" THEN index[k] ELSE None

=============================================================================
