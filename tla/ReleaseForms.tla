---------------------------- MODULE ReleaseForms ----------------------------
(***************************************************************************)
(* The dashboard's chart page (ChartView) and the two forms that create    *)
(* and upgrade releases (DeploymentForm, UpgradeForm with the              *)
(* DeploymentFormBody they share), with the charts slice's selected and    *)
(* deployed versions and the thunks that fill them.                        *)
(*                                                                         *)
(* The text of a values file is reduced to where it comes from: the chart  *)
(* version it starts from, the version whose defaults the modifications    *)
(* applied to it were computed from, and whether the user typed in it.     *)
(* Effects run with the store change that triggers them, in the order of   *)
(* the source, and those of a component before those of its parent.        *)
(***************************************************************************)
EXTENDS Naturals, FiniteSets

CONSTANTS
    Versions,    \* chart versions
    Chart(_),    \* the chart of a version
    Number(_),   \* its version number
    NoValues,    \* versions without a values file
    None,
    MaxVisits,   \* bound: page changes
    MaxRequests, \* bound: requests on their way when the user sends more
    MaxFaults    \* bound: requests that fail

FormConstants ==
    /\ NoValues \subseteq Versions /\ None \notin Versions
    /\ \A x, y \in Versions : Chart(x) = Chart(y) /\ Number(x) = Number(y) => x = y
    /\ MaxVisits \in Nat /\ MaxRequests \in Nat /\ MaxFaults \in Nat

VARIABLES
    page,       \* [at |-> "elsewhere", "view", "new" or "upgrade", of |-> version]
    visit,
    fetching,   \* charts.isFetching
    sel,        \* charts.selected
    deployed,   \* charts.deployed: a version, or None for {}
    ours,       \* observer: what deployed holds was requested in this visit
    form,       \* state of the mounted form, None without one
    requests,   \* requests on their way, each with the visit that sent it
    submits,    \* deployChart and upgradeApp requests on their way
    tainted,    \* observer: the visit found, or was given, something of an earlier one
    faults

vars == <<page, visit, fetching, sel, deployed, ours, form, requests, submits, tainted, faults>>

NoSelection == [version |-> None, values |-> None, versions |-> None, error |-> FALSE]
Elsewhere == [at |-> "elsewhere", of |-> None]
Pages == {Elsewhere} \union [at : {"view", "new", "upgrade"}, of : Versions]
Text(base, mods, typed) == [base |-> base, mods |-> mods, typed |-> typed]
Request(kind, x, v) == [kind |-> kind, of |-> x, visit |-> v]

(* The values file of a version, if it has one. *)
ValuesOf(x) == IF x \in NoValues THEN None ELSE x

Init ==
    /\ page = Elsewhere
    /\ visit = 0
    /\ fetching = FALSE
    /\ sel = NoSelection
    /\ deployed = None
    /\ ours = FALSE
    /\ form = None
    /\ requests = {}
    /\ submits = {}
    /\ tainted = FALSE
    /\ faults = 0

-----------------------------------------------------------------------------
(* The forms' effects *)

(* DeploymentForm: the selected values, until the user changes them; and   *)
(* one that keeps the first it got.                                        *)
KeepsFirst(f, s) ==
    IF f.modified \/ f.text.base # None THEN f
    ELSE [f EXCEPT !.text = Text(s.values, None, FALSE)]
FollowSelection(f, s) ==
    IF f.modified THEN f ELSE [f EXCEPT !.text = Text(s.values, None, FALSE)]

(* UpgradeForm: the modifications are computed once, from the first values *)
(* of charts.deployed that are not empty.                                  *)
ComputeModifications(f, d, own) ==
    IF ValuesOf(d) # None /\ f.basis = None
    THEN [f EXCEPT !.basis = d, !.stale = ~own, !.text = Text(d, d, FALSE)] ELSE f

(* They are applied to the selected values when those, or the              *)
(* modifications, change.                                                  *)
ForgetModifications(f, s) ==
    IF ~f.modified /\ s.values # None
    THEN [f EXCEPT !.text = Text(s.values, None, FALSE)] ELSE f
IgnoreTyping(f, s) ==
    IF s.values # None THEN [f EXCEPT !.text = Text(s.values, f.basis, FALSE)] ELSE f
ApplyModifications(f, s) ==
    IF ~f.modified /\ s.values # None
    THEN [f EXCEPT !.text = Text(s.values, f.basis, FALSE)] ELSE f

(* A change of the store from sel to s and from deployed to d. *)
RunEffects(f, s, d, own) ==
    IF f = None THEN None
    ELSE IF f.kind = "new"
    THEN IF s.values # sel.values THEN FollowSelection(f, s) ELSE f
    ELSE LET g == ComputeModifications(f, d, own) IN
         IF s.values # sel.values \/ g.basis # f.basis THEN ApplyModifications(g, s) ELSE g

NewForm(x) ==
    [kind |-> "new", of |-> x, text |-> Text(sel.values, None, FALSE), basis |-> None,
     stale |-> FALSE, modified |-> FALSE, restored |-> FALSE, deploying |-> FALSE]
UpgradeFormOf(x) ==
    [NewForm(x) EXCEPT !.kind = "upgrade", !.text = Text(x, x, FALSE)]

-----------------------------------------------------------------------------
(* Pages *)

(* Leaving ChartView empties the selection; the forms leave it as it is. *)
LeaveAsItIs == sel
Leave == IF page.at = "view" THEN NoSelection ELSE sel

(* What the page requests when it opens: ChartView the versions, to select *)
(* one of them; DeploymentForm the versions and the version of its URL.    *)
OpenRequests(p, v) ==
    CASE p.at = "view" -> {Request("select", p.of, v)}
      [] p.at = "new" -> {Request("versions", p.of, v), Request("version", p.of, v)}
      [] OTHER -> {}

Visit(p) ==
    /\ p # page /\ visit < MaxVisits /\ Cardinality(requests) < MaxRequests
    /\ page' = p
    /\ visit' = visit + 1
    /\ sel' = Leave
    /\ form' = IF p.at = "new" THEN FollowSelection(NewForm(p.of), sel') ELSE None
    /\ fetching' = (fetching \/ p.at \in {"view", "new"})
    /\ requests' = requests \union OpenRequests(p, visit + 1)
    /\ tainted' = (page.at # "view" /\ sel # NoSelection)
    /\ ours' = FALSE
    /\ UNCHANGED <<deployed, submits, faults>>

(* UpgradeForm fetches the version that has the number of the deployed     *)
(* one, of its own chart: the deployed one may be another chart's, and     *)
(* then there may be none.                                                 *)
Numbered(x) == {y \in Versions : Chart(y) = Chart(page.of) /\ Number(y) = Number(x)}
FollowUp(x) ==
    CASE x = None -> {}
      [] x # None /\ Numbered(x) = {} -> {Request("version", None, visit)}
      [] OTHER -> {Request("version", y, visit) : y \in Numbered(x)}

(* AppUpgrade requests the deployed version as soon as it knows the        *)
(* repository: here the user has chosen one before, so that it need not    *)
(* wait for the update information.                                        *)
getDeployedChartVersion ==
    /\ page.at = "upgrade" /\ form = None
    /\ Cardinality(requests) < MaxRequests
    /\ deployed' = None
    /\ requests' = requests \union {Request("deployed", page.of, visit)}
    /\ UNCHANGED <<page, visit, fetching, sel, ours, form, submits, tainted, faults>>

(* The release and its update information are there and the form is        *)
(* mounted.  Its effects run first, on whatever charts.deployed holds;     *)
(* then AppUpgrade's clears it and requests the deployed version.          *)
Mounted(f) == ApplyModifications(ComputeModifications(f, deployed, ours), sel)
ShowUpgradeForm ==
    /\ page.at = "upgrade" /\ form = None
    /\ form' = Mounted(UpgradeFormOf(page.of))
    /\ deployed' = None
    /\ fetching' = TRUE
    /\ requests' = requests \union FollowUp(deployed)
                   \union {Request("versions", page.of, visit), Request("deployed", page.of, visit)}
    /\ UNCHANGED <<page, visit, sel, ours, submits, tainted, faults>>

(* The form's versions can be chosen from, the new form's unless there is  *)
(* an error, the upgrade form's unless it is loading.                      *)
SelectorShown ==
    /\ form # None /\ sel.version # None /\ sel.versions # None
    /\ IF form.kind = "new" THEN ~sel.error ELSE ~fetching

(* The form's body is shown with a version, versions and no error. *)
BodyShown ==
    /\ form # None /\ ~form.deploying
    /\ ~sel.error /\ ~fetching
    /\ sel.version # None /\ sel.versions # None

(* UpgradeForm.selectVersion fetches the version, DeploymentForm's goes to *)
(* its URL, where the mounted form fetches it.                             *)
selectVersion(x) ==
    /\ SelectorShown
    /\ Cardinality(requests) < MaxRequests
    /\ Chart(x) = sel.versions
    /\ requests' = requests \union {Request("version", x, visit)}
    /\ page' = IF form.kind = "new" THEN [page EXCEPT !.of = x] ELSE page
    /\ form' = IF form.kind = "new" THEN [form EXCEPT !.of = x] ELSE form
    /\ UNCHANGED <<visit, fetching, sel, deployed, ours, submits, tainted, faults>>

handleValuesChange ==
    /\ BodyShown
    /\ form' = [form EXCEPT !.text.typed = TRUE, !.modified = TRUE]
    /\ UNCHANGED <<page, visit, fetching, sel, deployed, ours, requests, submits, tainted, faults>>

(* restoreDefaultValues does not mark the values as modified. *)
restoreDefaultValues ==
    /\ BodyShown
    /\ sel.values # None
    /\ form' = [form EXCEPT !.text = Text(sel.values, None, FALSE), !.restored = TRUE]
    /\ UNCHANGED <<page, visit, fetching, sel, deployed, ours, requests, submits, tainted, faults>>

(* handleDeploy: the selected version with the text of the form.  For the  *)
(* properties the request keeps what the form knew.                        *)
handleDeploy ==
    /\ BodyShown
    /\ Cardinality(requests) + Cardinality(submits) < MaxRequests
    /\ submits' = submits \union
                  {[kind |-> form.kind, version |-> sel.version, text |-> form.text,
                    of |-> form.of, basis |-> form.basis, stale |-> form.stale,
                    restored |-> form.restored, modified |-> form.modified,
                    tainted |-> tainted, visit |-> visit]}
    /\ form' = [form EXCEPT !.deploying = TRUE]
    /\ UNCHANGED <<page, visit, fetching, sel, deployed, ours, requests, tainted, faults>>

(* On success the user is sent to the release, wherever he is by now. *)
Submitted(q) ==
    /\ visit < MaxVisits
    /\ submits' = submits \ {q}
    /\ page' = Elsewhere
    /\ visit' = visit + 1
    /\ sel' = Leave
    /\ form' = None
    /\ tainted' = FALSE
    /\ ours' = FALSE
    /\ UNCHANGED <<fetching, deployed, requests, faults>>

(* validate fails, or the request does. *)
SubmitFailed(q) ==
    /\ faults < MaxFaults
    /\ faults' = faults + 1
    /\ submits' = submits \ {q}
    /\ form' = IF form # None /\ q.visit = visit THEN [form EXCEPT !.deploying = FALSE] ELSE form
    /\ UNCHANGED <<page, visit, fetching, sel, deployed, ours, requests, tainted>>

-----------------------------------------------------------------------------
(* Answers *)

Store(q, s, d, own) ==
    /\ sel' = s
    /\ deployed' = d
    /\ ours' = own
    /\ form' = RunEffects(form, s, d, own)
    /\ fetching' = FALSE
    /\ tainted' = (tainted \/ q.visit # visit)
    /\ UNCHANGED <<page, visit, submits, faults>>

receiveChartVersions(q) ==
    /\ q.kind = "versions"
    /\ requests' = requests \ {q}
    /\ Store(q, [sel EXCEPT !.versions = Chart(q.of), !.error = FALSE], deployed, ours)

(* fetchChartVersionsAndSelectVersion selects without values. *)
SelectFromVersions(q) ==
    /\ q.kind = "select"
    /\ requests' = requests \ {q}
    /\ Store(q, [version |-> q.of, values |-> None, versions |-> Chart(q.of),
                 error |-> FALSE], deployed, ours)

(* getChartVersion: version and values come together. *)
selectChartVersion(q) ==
    /\ q.kind = "version" /\ q.of # None
    /\ requests' = requests \ {q}
    /\ Store(q, [sel EXCEPT !.version = q.of, !.values = ValuesOf(q.of), !.error = FALSE],
             deployed, ours)

(* getDeployedChartVersion's answer; the mounted form then fetches that    *)
(* version.                                                                *)
receiveDeployedChartVersion(q) ==
    /\ q.kind = "deployed"
    /\ requests' = (requests \ {q}) \union
                   (IF form # None /\ form.kind = "upgrade" THEN FollowUp(q.of) ELSE {})
    /\ Store(q, sel, q.of, q.visit = visit)

(* The version is not there, or the request fails. *)
errorChart(q) ==
    /\ \/ q.of = None /\ UNCHANGED faults
       \/ faults < MaxFaults /\ faults' = faults + 1
    /\ requests' = requests \ {q}
    /\ sel' = [sel EXCEPT !.error = TRUE]
    /\ fetching' = FALSE
    /\ tainted' = (tainted \/ q.visit # visit)
    /\ UNCHANGED <<page, visit, deployed, ours, form, submits>>

User ==
    \/ \E p \in Pages : Visit(p)
    \/ getDeployedChartVersion \/ ShowUpgradeForm \/ handleValuesChange \/ restoreDefaultValues \/ handleDeploy
    \/ \E x \in Versions : selectVersion(x)
Answer(q) ==
    \/ receiveChartVersions(q) \/ SelectFromVersions(q) \/ selectChartVersion(q)
    \/ receiveDeployedChartVersion(q) \/ errorChart(q)
Next ==
    \/ User
    \/ \E q \in requests : Answer(q)
    \/ \E q \in submits : Submitted(q) \/ SubmitFailed(q)

Spec == Init /\ [][Next]_vars

-----------------------------------------------------------------------------
(* A form that opened on an empty selection, and got no answer of another  *)
(* page, deploys its own chart: ChartView empties the selection when it is *)
(* left, and the button waits for version and versions.  In a visit that   *)
(* is tainted the form does offer, and deploy, another chart's version.    *)
DeploysOwnChart ==
    \A q \in submits : q.tainted \/ Chart(q.version) = Chart(q.of)

(* The values sent with a version are that version's own (or none), unless *)
(* the user ever typed in them or the version has none: answers for two    *)
(* versions may come in any order, and the text still follows the version. *)
(* Once the user typed, it no longer does, even after he restored the      *)
(* defaults, since valuesModified is never reset.                          *)
ValuesFollowVersion ==
    \A q \in submits :
        \/ q.modified \/ q.version \in NoValues
        \/ q.text.base \in {None, q.version}
        \/ q.tainted

(* Once the upgrade form has computed the modifications of the release,    *)
(* every upgrade carries them, whatever versions are selected afterwards   *)
(* and in whatever order their values arrive, unless the user asked for    *)
(* the defaults; and they are the changes to the defaults of the version   *)
(* that is deployed.  They are not when charts.deployed still held, or was *)
(* given late, the version of an earlier upgrade page: the form's effects  *)
(* run before the one that clears it, and never compute them again.        *)
ModificationsSurvive ==
    \A q \in submits : (q.kind = "upgrade" /\ q.basis # None /\ ~q.restored) =>
        q.text.mods = q.basis /\ (q.stale \/ q.basis = q.of)

(* What the user typed is lost only when he restores the defaults, when    *)
(* the form closes, or when the release's modifications are computed       *)
(* after he typed.                                                         *)
TypingSurvives ==
    [][(form # None /\ form.text.typed /\ form' # None /\ visit' = visit /\ ~form'.text.typed)
        => restoreDefaultValues \/ (form.basis = None /\ form'.basis # None)]_vars

=============================================================================
