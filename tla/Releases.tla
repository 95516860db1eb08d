------------------------------ MODULE Releases ------------------------------
(***************************************************************************)
(* kubeops' requests on the Helm releases of one namespace: the handlers   *)
(* of cmd/kubeops and pkg/agent, each request in a goroutine of its own,   *)
(* against Helm's storage.                                                 *)
(*                                                                         *)
(* A release is the sequence of its revisions, and a revision the request  *)
(* it stems from and its status.  One step is one action of Helm, or the   *)
(* part of one up to where it waits for the cluster.                       *)
(***************************************************************************)
EXTENDS Naturals, Sequences

CONSTANTS
    Names,         \* names of releases
    Requests,      \* requests
    User,          \* who made what is there at the start
    MaxRevisions,  \* bound: revisions of a release
    MaxFaults      \* bound: failures that are not Helm's refusals

VARIABLES
    store,     \* [Names -> revisions in Helm's storage]
    requests,  \* [Requests -> request]
    faults

vars == <<store, requests, faults>>

Idle == [pc |-> "idle", kind |-> "none", name |-> "none", chart |-> FALSE, to |-> 0]
Revision(who, status) == [by |-> who, status |-> status]

Init ==
    /\ store \in [Names -> {<< >>, <<Revision(User, "deployed")>>}]
    /\ requests = [r \in Requests |-> Idle]
    /\ faults = 0

Status(n) == IF store[n] = << >> THEN "none" ELSE store[n][Len(store[n])].status
Go(r, pc) == requests' = [requests EXCEPT ![r].pc = pc]
Fault == faults < MaxFaults /\ faults' = faults + 1

-----------------------------------------------------------------------------
(* Helm's storage *)

(* An operation has ended: its revision, if it is still there, gets its    *)
(* status, and the one deployed before is superseded.                      *)
Recorded(n, r, status) ==
    [i \in 1..Len(store[n]) |->
        IF store[n][i] = Revision(r, "pending") THEN Revision(r, status)
        ELSE IF status = "deployed" /\ store[n][i].status = "deployed"
        THEN [store[n][i] EXCEPT !.status = "superseded"]
        ELSE store[n][i]]

Uninstalled(n, keepHistory) ==
    IF keepHistory
    THEN [store[n] EXCEPT ![Len(store[n])].status = "uninstalled"] ELSE << >>

(* What Helm upgrades: nothing that another operation works on, and only   *)
(* what has a deployed revision, or failed.                                *)
Upgradable(n) ==
    /\ Status(n) # "pending"
    /\ \/ \E i \in 1..Len(store[n]) : store[n][i].status = "deployed"
       \/ Status(n) \in {"failed", "superseded"}

-----------------------------------------------------------------------------
(* The handlers *)

(* A request as it is when its handler calls the agent. *)
Request(pc, kind, n, chart, to) ==
    [pc |-> pc, kind |-> kind, name |-> n, chart |-> chart, to |-> to]
Accept(r, q) ==
    /\ requests[r].pc = "idle"
    /\ requests' = [requests EXCEPT ![r] = q]
    /\ UNCHANGED store

(* The repository and its secrets, the chart, or the registries' secrets   *)
(* cannot be had: nothing was done yet.                                    *)
PrepareFails(r, kind, n) == Fault /\ Accept(r, Request("refused", kind, n, FALSE, 0))

CreateHandler(r, n) ==
    \/ Accept(r, Request("create", "create", n, TRUE, 0)) /\ UNCHANGED faults
    \/ PrepareFails(r, "create", n)

(* upgradeRelease does not look at the error of GetChart: it goes on       *)
(* without a chart.                                                        *)
upgradeHandler(r, n) ==
    \/ Accept(r, Request("upgrade", "upgrade", n, TRUE, 0)) /\ UNCHANGED faults
    \/ Fault /\ Accept(r, Request("upgrade", "upgrade", n, FALSE, 0))
    \/ PrepareFails(r, "upgrade", n)

rollbackHandler(r, n, to) == Accept(r, Request("rollback", "rollback", n, TRUE, to)) /\ UNCHANGED faults
DeleteHandler(r, n, kind) == Accept(r, Request(kind, kind, n, TRUE, 0)) /\ UNCHANGED faults

-----------------------------------------------------------------------------
(* The agent *)

(* CreateRelease goes on unless GetRelease returns a release of the name:  *)
(* any error is taken for its absence.  Values it cannot read are refused  *)
(* before Helm is called.                                                  *)
CreateRelease(r) ==
    /\ requests[r].pc = "create"
    /\ \/ /\ Go(r, IF store[requests[r].name] = << >> THEN "install" ELSE "refused")
          /\ UNCHANGED faults
       \/ Fault /\ Go(r, "install")
       \/ Fault /\ Go(r, "refused")
    /\ UNCHANGED store

(* Helm's install checks the name once more. *)
Install(r) ==
    /\ requests[r].pc = "install"
    /\ LET n == requests[r].name IN
       \/ /\ store[n] = << >>
          /\ store' = [store EXCEPT ![n] = <<Revision(r, "pending")>>]
          /\ Go(r, "deploy")
          /\ UNCHANGED faults
       \/ /\ store[n] # << >>
          /\ Go(r, "undo")
          /\ UNCHANGED <<store, faults>>
       \/ /\ Fault
          /\ Go(r, "undo")
          /\ UNCHANGED store

(* The resources are in the cluster, or not; what cannot be recorded is    *)
(* only logged.                                                            *)
Deployed(r) ==
    /\ requests[r].pc = "deploy"
    /\ store' = [store EXCEPT ![requests[r].name] = Recorded(requests[r].name, r, "deployed")]
    /\ Go(r, "done")
    /\ UNCHANGED faults

(* A failed install is undone; and one that keeps what it left.            *)
LeaveFailed(r) == "failed"
AfterFailure(r) == IF requests[r].kind = "create" THEN "undo" ELSE "failed"
DeployFails(r) ==
    /\ requests[r].pc = "deploy" /\ Fault
    /\ store' = [store EXCEPT ![requests[r].name] = Recorded(requests[r].name, r, "failed")]
    /\ Go(r, AfterFailure(r))

(* Simulates the Atomic flag: whatever has the name is uninstalled, and    *)
(* that there is nothing is no error.                                      *)
Undo(r) ==
    /\ requests[r].pc = "undo"
    /\ \/ /\ store' = [store EXCEPT ![requests[r].name] = << >>]
          /\ Go(r, "failed")
          /\ UNCHANGED faults
       \/ /\ Fault
          /\ Go(r, "undo failed")
          /\ UNCHANGED store

(* UpgradeRelease looks for the release first, and reads the values. *)
UpgradeRelease(r) ==
    /\ requests[r].pc = "upgrade"
    /\ \/ /\ Go(r, IF store[requests[r].name] = << >> THEN "refused" ELSE "run upgrade")
          /\ UNCHANGED faults
       \/ Fault /\ Go(r, "refused")
    /\ UNCHANGED store

(* Helm makes a new revision: of an upgrade, for which it needs a chart, or *)
(* of a rollback, once its target was found.                                *)
Operate(r) ==
    LET n == requests[r].name IN
    /\ \/ requests[r].pc = "run upgrade" /\ requests[r].chart
          /\ Upgradable(n)
       \/ requests[r].pc = "rollback" /\ requests[r].to <= Len(store[n])
          /\ (requests[r].to # 0 \/ Len(store[n]) > 1)
    /\ Len(store[n]) < MaxRevisions
    /\ store' = [store EXCEPT ![n] = Append(@, Revision(r, "pending"))]
    /\ Go(r, "deploy")
    /\ UNCHANGED faults

Refuse(r) ==
    LET n == requests[r].name IN
    /\ \/ requests[r].pc = "run upgrade"
          /\ (~requests[r].chart \/ ~Upgradable(n))
       \/ requests[r].pc = "rollback"
          /\ (requests[r].to > Len(store[n]) \/ (requests[r].to = 0 /\ Len(store[n]) <= 1))
    /\ Go(r, "refused")
    /\ UNCHANGED <<store, faults>>

(* DeleteRelease: "purge" is the query parameter. *)
DeleteRelease(r) ==
    /\ requests[r].pc \in {"purge", "keep"}
    /\ LET n == requests[r].name
           keepHistory == requests[r].kind = "keep"
           gone == {"none"} \union (IF keepHistory THEN {"uninstalled"} ELSE {})
       IN
       \/ /\ Status(n) \notin gone
          /\ store' = [store EXCEPT ![n] = Uninstalled(n, keepHistory)]
          /\ Go(r, "done")
          /\ UNCHANGED faults
       \/ /\ Status(n) \in gone
          /\ Go(r, "refused")
          /\ UNCHANGED <<store, faults>>
       \/ /\ Fault
          /\ Go(r, "failed")
          /\ UNCHANGED store

(* kubeops' process ends, killed or by the Go runtime, which aborts it     *)
(* when two requests write the cache of indexes (storeIndexInCache has no  *)
(* lock).  Requests under way stop where they are; what Helm had stored,   *)
(* pending revisions too, stays.                                           *)
Ended == {"idle", "refused", "failed", "undo failed", "done", "gone"}
Crash ==
    /\ Fault
    /\ \E r \in Requests : requests[r].pc \notin Ended
    /\ requests' = [r \in Requests |->
          IF requests[r].pc \in Ended THEN requests[r] ELSE [requests[r] EXCEPT !.pc = "gone"]]
    /\ UNCHANGED store

Step(r) ==
    \/ CreateRelease(r) \/ Install(r) \/ Deployed(r) \/ DeployFails(r) \/ Undo(r)
    \/ UpgradeRelease(r) \/ Operate(r) \/ Refuse(r) \/ DeleteRelease(r)

Receive(r, n) ==
    \/ CreateHandler(r, n) \/ upgradeHandler(r, n)
    \/ \E to \in 0..MaxRevisions : rollbackHandler(r, n, to)
    \/ \E kind \in {"purge", "keep"} : DeleteHandler(r, n, kind)

Next ==
    \/ Crash
    \/ \E r \in Requests : Step(r) \/ \E n \in Names : Receive(r, n)

Spec == Init /\ [][Next]_vars

-----------------------------------------------------------------------------
(* A request to create a release that failed left nothing behind: no       *)
(* revision of it is in Helm's storage, whatever other requests did to the *)
(* release meanwhile, unless the undoing itself failed, which the answer   *)
(* says.                                                                   *)
FailedCreateLeavesNothing ==
    \A r \in Requests :
        (requests[r].kind = "create" /\ requests[r].pc \in {"refused", "failed"}) =>
            \A n \in Names : \A i \in 1..Len(store[n]) : store[n][i].by # r

=============================================================================
