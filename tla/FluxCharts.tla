----------------------------- MODULE FluxCharts -----------------------------
(***************************************************************************)
(* Details of a package in the Flux plugin: a request looks for a          *)
(* HelmChart that was pulled, creates one if there is none, and waits on a *)
(* watch of the namespace until a pull is complete (pullChartTarball,      *)
(* waitUntilChartPullComplete).  The URL of a tarball is the package it    *)
(* holds.                                                                  *)
(***************************************************************************)
EXTENDS Naturals, Sequences, FiniteSetsExt

CONSTANTS
    Requests,   \* requests of one namespace
    Packages,   \* pairs of a repository and a chart
    MaxCharts,  \* bound: HelmCharts of the namespace
    None,
    MaxSyncs,   \* bound: status updates that end no pull, and deletions
    MaxFaults   \* bound: failed calls, ended watches

VARIABLES
    charts,    \* [Charts -> HelmChart or None]
    requests,  \* [Requests -> request]
    syncs, faults

vars == <<charts, requests, syncs, faults>>

Charts == 1..MaxCharts
Statuses == {"new", "pulled", "failed"}
Idle == [pc |-> "idle", package |-> None, events |-> << >>, url |-> None]

(* A HelmChart of an earlier request is there, in any status. *)
Init ==
    /\ \E p \in Packages, s \in Statuses :
         charts = [c \in Charts |-> IF c = 1 THEN [package |-> p, status |-> s] ELSE None]
    /\ requests = [r \in Requests |-> Idle]
    /\ syncs = 0 /\ faults = 0

(* Every watch of the namespace gets the event, whichever chart it waits   *)
(* for.                                                                    *)
Notified(type, chart) ==
    [r \in Requests |-> IF requests[r].pc = "wait"
                        THEN [requests[r] EXCEPT !.events =
                                Append(@, [type |-> type, chart |-> chart])]
                        ELSE requests[r]]

-----------------------------------------------------------------------------
(* isChartPullComplete: to stop waiting, with or without success; and one  *)
(* to which a failed pull is not over.                                     *)
OnlySuccess(chart) == chart.status = "pulled"
isChartPullComplete(chart) == chart.status \in {"pulled", "failed"}

(* The request's answer: the URL, or the message of the failed pull. *)
Answered(q, chart) ==
    IF chart.status = "pulled"
    THEN [q EXCEPT !.pc = "done", !.url = chart.package, !.events = << >>]
    ELSE [q EXCEPT !.pc = "error", !.events = << >>]

GetAvailablePackageDetail(r, p) ==
    /\ requests[r].pc = "idle"
    /\ requests' = [requests EXCEPT ![r].pc = "list", ![r].package = p]
    /\ UNCHANGED <<charts, syncs, faults>>

(* The first HelmChart of the package whose pull is over is the answer,    *)
(* whichever comes first in the list.                                      *)
Over(p) == {c \in Charts : charts[c] # None /\ charts[c].package = p
                           /\ isChartPullComplete(charts[c])}
List(r) ==
    /\ requests[r].pc = "list"
    /\ LET found == Over(requests[r].package) IN
       \/ /\ found = {}
          /\ requests' = [requests EXCEPT ![r].pc = "create"]
       \/ \E c \in found : requests' = [requests EXCEPT ![r] = Answered(@, charts[c])]
    /\ UNCHANGED <<charts, syncs, faults>>

(* The watch begins after the resourceVersion of the new HelmChart, so it  *)
(* misses nothing of what comes after its creation.                        *)
Create(r) ==
    /\ requests[r].pc = "create"
    /\ \E c \in Charts : charts[c] = None
    /\ LET new == [package |-> requests[r].package, status |-> "new"]
           name == Min({c \in Charts : charts[c] = None})
       IN /\ charts' = [charts EXCEPT ![name] = new]
          /\ requests' = [Notified("ADDED", new) EXCEPT ![r].pc = "wait"]
    /\ UNCHANGED <<syncs, faults>>

(* A call that fails is an error of the request; a watch that ends yields  *)
(* an event without a type, and so does that.                              *)
Fails(r) ==
    /\ requests[r].pc \in {"list", "create", "wait"}
    /\ faults < MaxFaults
    /\ faults' = faults + 1
    /\ requests' = [requests EXCEPT ![r].pc = "error", ![r].events = << >>]
    /\ UNCHANGED <<charts, syncs>>

waitUntilChartPullComplete(r) ==
    /\ requests[r].pc = "wait" /\ requests[r].events # << >>
    /\ LET e == Head(requests[r].events) IN
       requests' = [requests EXCEPT ![r] =
         IF e.type # "MODIFIED" THEN [@ EXCEPT !.pc = "error", !.events = << >>]
         ELSE IF isChartPullComplete(e.chart) THEN Answered(@, e.chart)
         ELSE [@ EXCEPT !.events = Tail(@)]]
    /\ UNCHANGED <<charts, syncs, faults>>

-----------------------------------------------------------------------------
(* Flux *)

(* The first pull of a HelmChart ends; status updates may come before it,  *)
(* and after it, since charts are pulled every ten minutes.                *)
Pull(c, s) ==
    /\ charts[c] # None /\ charts[c].status = "new" /\ s # "new"
    /\ LET chart == [charts[c] EXCEPT !.status = s] IN
       /\ charts' = [charts EXCEPT ![c] = chart]
       /\ requests' = Notified("MODIFIED", chart)
    /\ UNCHANGED <<syncs, faults>>

Sync(c, s) ==
    /\ charts[c] # None /\ syncs < MaxSyncs
    /\ s = "new" <=> charts[c].status = "new"
    /\ syncs' = syncs + 1
    /\ LET chart == [charts[c] EXCEPT !.status = s] IN
       /\ charts' = [charts EXCEPT ![c] = chart]
       /\ requests' = Notified("MODIFIED", chart)
    /\ UNCHANGED faults

Delete(c) ==
    /\ charts[c] # None /\ syncs < MaxSyncs
    /\ syncs' = syncs + 1
    /\ charts' = [charts EXCEPT ![c] = None]
    /\ requests' = Notified("DELETED", charts[c])
    /\ UNCHANGED faults

Step(r) == List(r) \/ Create(r) \/ waitUntilChartPullComplete(r)

Next ==
    \/ \E r \in Requests : Step(r) \/ Fails(r)
    \/ \E r \in Requests, p \in Packages : GetAvailablePackageDetail(r, p)
    \/ \E c \in Charts : Delete(c) \/ \E s \in Statuses : Pull(c, s) \/ Sync(c, s)

Spec == Init /\ [][Next]_vars

(* Requests run, and Flux brings every new HelmChart to an end. *)
Fairness ==
    /\ \A r \in Requests : WF_vars(Step(r))
    /\ \A c \in Charts : WF_vars(\E s \in Statuses : Pull(c, s))
FairSpec == Spec /\ Fairness

-----------------------------------------------------------------------------
(* Every request for details is answered, with a tarball or an error,      *)
(* however the pulls end and whatever else happens in the namespace.       *)
PullAnswered ==
    \A r \in Requests : requests[r].pc # "idle" ~> requests[r].pc \in {"done", "error"}

=============================================================================
