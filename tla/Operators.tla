------------------------------ MODULE Operators ------------------------------
(***************************************************************************)
(* The dashboard's operators: the operators slice of the store, the pages  *)
(* that list, show and install operators, and those that create, show,     *)
(* update and delete the instances of their custom resources.              *)
(*                                                                         *)
(* All pages share one slice: one operator, one CSV, one resource, and a   *)
(* flag for each kind of request.  An operator stands for its CSV as well; *)
(* the text of a form is reduced to the resource it was filled from.       *)
(***************************************************************************)
EXTENDS Naturals, FiniteSets

CONSTANTS
    Ops,          \* operators
    GlobalOps,    \* those whose default channel supports AllNamespaces
    Instances,    \* custom resources
    OwnerOf(_),   \* the operator of an instance
    None,
    MaxVersion,   \* bound: versions of an instance
    MaxVisits,    \* bound: pages visited
    MaxRequests,  \* bound: requests on their way when the user acts
    MaxFaults     \* bound: requests that fail

ASSUME OperatorsConstants ==
    /\ GlobalOps \subseteq Ops /\ None \notin Ops /\ None \notin Instances
    /\ \A x \in Instances : OwnerOf(x) \in Ops
    /\ {MaxVersion, MaxVisits, MaxRequests, MaxFaults} \subseteq Nat

VARIABLES
    server,      \* [Instances -> version in the cluster, 0 when there is none]
    groups,      \* OperatorGroups of the namespace
    subs,        \* Subscriptions: the operators subscribed to in the namespace
    page, visit,
    st,          \* the operators slice
    ui,          \* state of the mounted component
    requests,    \* requests on their way
    late,        \* observer: an answer to an earlier page came in
    overlapped,  \* observer: two createOperator were on their way together
    faults

cluster == <<server, groups, subs>>
vars == <<cluster, page, visit, st, ui, requests, late, overlapped, faults>>

Flags == {"OLM", "operator", "csv", "resource", "subscriptions"}
Page(at, of) == [at |-> at, of |-> of]
AppList == Page("apps", None)
Pages ==
    {AppList, Page("list", None)}
    \union {Page(at, o) : at \in {"operator", "new", "create"}, o \in Ops}
    \union {Page(at, x) : at \in {"instance", "update"}, x \in Instances}
Resource(x) == [of |-> x, version |-> server[x]]
Owner(p) == IF p.at = "create" THEN p.of ELSE OwnerOf(p.of)

(* A request on behalf of page p; the writes note how they were sent. *)
Request(kind, of, v) ==
    [kind |-> kind, of |-> of, visit |-> v, from |-> None, body |-> None, sure |-> TRUE]
Reads(kinds, of, v) == {Request(kind, of, v) : kind \in kinds}

-----------------------------------------------------------------------------
(* The reducer *)

NoErrors == [operator |-> None, csv |-> None, resource |-> None, subscriptions |-> None]
initialState ==
    [fetching |-> {}, olm |-> FALSE, operator |-> None, csv |-> None, resource |-> None,
     errors |-> NoErrors]

Fetching(s, flags) == [s EXCEPT !.fetching = @ \union flags]
Done(s, flag) == [s EXCEPT !.fetching = @ \ {flag}]
isFetching(s) == s.fetching # {}
Error(s, elem, op) == [Done(s, elem) EXCEPT !.errors[elem] = op]

OLMInstalled(s) == [Done(s, "OLM") EXCEPT !.olm = TRUE]
errorOLMCheck(s) == [Done(s, "OLM") EXCEPT !.errors.operator = "fetch"]
receiveOperator(s, o) == [Done(s, "operator") EXCEPT !.operator = o]
errorOperators(s) == [Error(s, "operator", "fetch") EXCEPT !.operator = None]
receiveCSV(s, o) == [Done(s, "csv") EXCEPT !.csv = o]
errorCSVs(s) == [Error(s, "csv", "fetch") EXCEPT !.csv = None]
receiveCustomResource(s, r) == [Done(s, "resource") EXCEPT !.resource = r]
errorCustomResource(s) == [Error(s, "resource", "fetch") EXCEPT !.resource = None]
errorSubscriptionList(s) == [Error(s, "subscriptions", "fetch") EXCEPT !.resource = None]
LOCATION_CHANGE(s) == [s EXCEPT !.errors = NoErrors]
setNamespaceState(s) == [initialState EXCEPT !.olm = s.olm]

(* The flags a thunk raises when it starts, and still has to lower. *)
FlagsOf(kind) ==
    CASE kind = "olm" -> {"OLM"}
      [] kind \in {"operators", "operator", "groups", "group", "subscribe"} -> {"operator"}
      [] kind = "csv" -> {"csv"}
      [] kind = "subscriptions" -> {"subscriptions"}
      [] kind \in {"csv_resource", "csvs_resources"} -> {"csv", "resource"}
      [] OTHER -> {"resource"}

-----------------------------------------------------------------------------
(* Pages *)

NoState == [since |-> 0, crd |-> FALSE, channel |-> None, global |-> FALSE,
            modal |-> FALSE, deleting |-> FALSE, values |-> None]

(* The effects of the mounted page for a CSV and for a resource in the     *)
(* store.  parseCSV leaves the CRD alone when the CSV does not own it; the *)
(* form is filled again by every resource (and by the first one only).     *)
parseCSV(u, p, s) ==
    IF p.at \in {"instance", "create", "update"} /\ s.csv = Owner(p)
    THEN [u EXCEPT !.crd = TRUE] ELSE u
FilledOnce(u, p, s) ==
    IF p.at = "update" /\ s.resource # None /\ u.values = None
    THEN [u EXCEPT !.values = s.resource] ELSE u
CurrentValues(u, p, s) ==
    IF p.at = "update" /\ s.resource # None THEN [u EXCEPT !.values = s.resource] ELSE u
DefaultChannel(u, p, s) ==
    IF p.at = "new" /\ s.operator # None
    THEN [u EXCEPT !.channel = s.operator, !.global = s.operator \in GlobalOps] ELSE u

(* Every answer is a new object: its effect runs also when nothing changed. *)
Effects(u, p, kind, s) ==
    CASE kind \in {"csv", "csv_resource"} -> parseCSV(u, p, s)
      [] kind = "resource" -> CurrentValues(u, p, s)
      [] kind = "operator" -> DefaultChannel(u, p, s)
      [] OTHER -> u

(* A component that was just made runs all its effects, with what an       *)
(* earlier page left in the store.                                         *)
NewComponent(p, s) ==
    LET new == [NoState EXCEPT !.since = visit + 1]
    IN DefaultChannel(CurrentValues(parseCSV(new, p, s), p, s), p, s)

(* React keeps the component of a page of the same kind; only the forms    *)
(* clean up their state.                                                   *)
Component(p, s) ==
    IF page.at # p.at THEN NewComponent(p, s)
    ELSE IF p.at \in {"create", "update"} THEN [NoState EXCEPT !.since = ui.since] ELSE ui

(* Requests that follow an answer: the CSV of the operator on its page,    *)
(* the lists once OLM is known to be installed.                            *)
OperatorCSV(p, s, v) ==
    IF p.at = "operator" /\ s.operator # None THEN Reads({"csv"}, s.operator, v) ELSE {}
Lists(p, s, v) ==
    IF p.at = "list" /\ s.olm THEN Reads({"operators", "subscriptions"}, None, v) ELSE {}
Follow(kind, s) ==
    CASE kind = "operator" -> OperatorCSV(page, s, visit)
      [] kind = "olm" /\ ~st.olm -> Lists(page, s, visit)
      [] OTHER -> {}

PageRequests(p, v) ==
    CASE p.at = "apps" -> Reads({"csvs_resources"}, None, v)
      [] p.at = "list" -> Reads({"olm"}, None, v)
      [] p.at = "operator" -> Reads({"operator"}, p.of, v) \union Reads({"subscriptions"}, None, v)
      [] p.at = "new" -> Reads({"operator"}, p.of, v)
      [] p.at = "create" -> Reads({"csv"}, p.of, v)
      [] OTHER -> Reads({"csv_resource"}, p.of, v) \union Reads({"csv"}, OwnerOf(p.of), v)

MountRequests(p, s, v) ==
    PageRequests(p, v)
    \union (IF page.at # p.at THEN OperatorCSV(p, s, v) \union Lists(p, s, v) ELSE {})

AllFlags(R) == UNION {FlagsOf(q.kind) : q \in R}

(* The user is taken to page p with store s and requests Q on their way;   *)
(* a push of the URL he is at mounts nothing.                              *)
Enter(p, s, Q) ==
    LET moved == LOCATION_CHANGE(s)
        sent == MountRequests(p, moved, visit + 1)
    IN /\ page' = p
       /\ visit' = visit + 1
       /\ ui' = Component(p, moved)
       /\ st' = Fetching(moved, AllFlags(sent))
       /\ requests' = Q \union sent
       /\ late' = FALSE
NavigateTo(p, s, Q) ==
    \/ p # page /\ Enter(p, s, Q)
    \/ /\ p = page
       /\ st' = LOCATION_CHANGE(s)
       /\ requests' = Q
       /\ UNCHANGED <<page, visit, ui, late>>

Init ==
    /\ server \in [Instances -> 0..1]
    /\ groups = 0
    /\ subs = {}
    /\ page = AppList
    /\ visit = 0
    /\ st = Fetching(initialState, {"csv", "resource"})
    /\ ui = NoState
    /\ requests = PageRequests(AppList, 0)
    /\ late = FALSE
    /\ overlapped = FALSE
    /\ faults = 0

CanAct == Cardinality(requests) <= MaxRequests

Visit(p) ==
    /\ CanAct /\ visit < MaxVisits /\ p # page
    /\ Enter(p, st, requests)
    /\ UNCHANGED <<cluster, overlapped, faults>>

(* The context selector: the slice starts anew, its requests go on. *)
setNamespace ==
    /\ CanAct /\ visit < MaxVisits
    /\ Enter(AppList, setNamespaceState(st), requests)
    /\ UNCHANGED <<cluster, overlapped, faults>>

-----------------------------------------------------------------------------
(* What the user does on a page *)

(* A write, with the page it is sent from and whether that page had loaded *)
(* without an answer to an earlier one coming in.                          *)
Loaded == ~late /\ \A q \in requests : q.visit # visit
Write(kind, of, body) ==
    [kind |-> kind, of |-> of, visit |-> visit, from |-> page, body |-> body,
     sure |-> Loaded]

Send(q) ==
    /\ CanAct
    /\ requests' = requests \union {q}
    /\ st' = Fetching(st, FlagsOf(q.kind))
    /\ UNCHANGED <<cluster, page, visit, late, faults>>

(* OperatorNew: the form, unless there is an error or something loads. *)
OperatorFormShown ==
    /\ page.at = "new" /\ ~isFetching(st)
    /\ st.errors.operator = None
    /\ st.operator # None /\ ui.channel # None
setInstallationMode ==
    /\ OperatorFormShown /\ ui.channel \in GlobalOps
    /\ ui' = [ui EXCEPT !.global = ~@]
    /\ UNCHANGED <<cluster, page, visit, st, requests, late, overlapped, faults>>

(* createOperator: no group is needed in the operators namespace. *)
Creating == \E q \in requests : q.kind \in {"groups", "group", "subscribe"}
FirstStep == IF ui.global THEN "subscribe" ELSE "groups"
DeployOperator ==
    /\ OperatorFormShown
    /\ Send(Write(FirstStep, st.operator, ui.global))
    /\ overlapped' = (overlapped \/ Creating)
    /\ UNCHANGED ui

(* OperatorInstanceForm: a resource that the user names. *)
DeployInstance(x) ==
    /\ page.at = "create" /\ ~isFetching(st) /\ st.errors.csv = None
    /\ ui.crd /\ st.csv # None /\ OwnerOf(x) = page.of
    /\ Send(Write("create", x, None))
    /\ UNCHANGED <<ui, overlapped>>

UpdateInstance ==
    /\ page.at = "update" /\ ~isFetching(st) /\ st.errors.resource # "fetch"
    /\ st.resource # None /\ ui.values # None
    /\ Send(Write("update", page.of, ui.values))
    /\ UNCHANGED <<ui, overlapped>>

(* OperatorInstance: the buttons are there while the instance loads. *)
ButtonsShown == page.at = "instance" /\ st.errors.resource # "fetch"
openModal ==
    /\ ButtonsShown /\ ~ui.modal
    /\ ui' = [ui EXCEPT !.modal = TRUE]
    /\ UNCHANGED <<cluster, page, visit, st, requests, late, overlapped, faults>>

closeModal ==
    /\ ButtonsShown /\ ui.modal
    /\ ui' = [ui EXCEPT !.modal = FALSE]
    /\ UNCHANGED <<cluster, page, visit, st, requests, late, overlapped, faults>>

(* handleDeleteClick: without the CRD it throws and the dialog stays; the  *)
(* thunk catches a missing resource, and its error ends the spinner of the *)
(* page.  What is deleted is the resource of the store.                    *)
Target == st.resource.of
handleDeleteClick ==
    /\ ButtonsShown /\ ui.modal /\ ~ui.deleting
    /\ IF ui.crd /\ st.resource # None
       THEN /\ Send(Write("delete", Target, None))
            /\ ui' = [ui EXCEPT !.deleting = TRUE]
       ELSE /\ IF ui.crd
               THEN /\ ui' = [ui EXCEPT !.modal = FALSE]
                    /\ st' = Error(st, "resource", "delete")
               ELSE /\ ui' = [ui EXCEPT !.deleting = TRUE]
                    /\ UNCHANGED st
            /\ UNCHANGED <<cluster, page, visit, requests, late, faults>>
    /\ UNCHANGED overlapped

-----------------------------------------------------------------------------
(* Answers *)

(* The store becomes s, q is answered and Q follows it. *)
Answered(q, s, Q) ==
    LET more == Follow(q.kind, s)
    IN /\ st' = Fetching(s, AllFlags(more))
       /\ ui' = Effects(ui, page, q.kind, s)
       /\ requests' = (requests \ {q}) \union Q \union more
       /\ late' = (late \/ q.visit # visit)
       /\ UNCHANGED <<page, visit>>

Continue(q, kind) == {[q EXCEPT !.kind = kind]}

(* getResource goes on with the resource once it has the CSV, getResources *)
(* with the lists of all CRDs.                                             *)
Read(q) ==
    /\ \/ q.kind = "olm" /\ Answered(q, OLMInstalled(st), {})
       \/ q.kind = "operators" /\ Answered(q, Done(st, "operator"), {})
       \/ q.kind = "operator" /\ Answered(q, receiveOperator(st, q.of), {})
       \/ q.kind = "csv" /\ Answered(q, receiveCSV(st, q.of), {})
       \/ q.kind = "subscriptions" /\ Answered(q, Done(st, "subscriptions"), {})
       \/ q.kind = "csvs_resources" /\ Answered(q, Done(st, "csv"), Continue(q, "resources"))
       \/ q.kind = "resources" /\ Answered(q, Done(st, "resource"), {})
       \/ /\ q.kind = "csv_resource"
          /\ Answered(q, receiveCSV(st, OwnerOf(q.of)), Continue(q, "resource"))
       \/ /\ q.kind = "resource" /\ server[q.of] > 0
          /\ Answered(q, receiveCustomResource(st, Resource(q.of)), {})
    /\ UNCHANGED <<cluster, overlapped, faults>>

(* createOperatorGroupIfNotExists, and one that does not look. *)
CreatesAnyway(n) == "group"
AfterGroups(n) == IF n > 0 THEN "subscribe" ELSE "group"
CreateOperator(q) ==
    /\ \/ /\ q.kind = "groups"
          /\ Answered(q, st, Continue(q, AfterGroups(groups)))
          /\ UNCHANGED <<cluster>>
       \/ /\ q.kind = "group"
          /\ groups' = groups + 1
          /\ Answered(q, st, Continue(q, "subscribe"))
          /\ UNCHANGED <<server, subs>>
       \/ /\ q.kind = "subscribe" /\ <<q.of, q.body>> \notin subs
          /\ subs' = subs \union {<<q.of, q.body>>}
          /\ visit < MaxVisits
          /\ NavigateTo(Page("list", None), Done(st, "operator"), requests \ {q})
          /\ UNCHANGED <<server, groups>>
    /\ UNCHANGED <<overlapped, faults>>

(* A write that succeeds takes the user to the next page from wherever he  *)
(* is.  The API server refuses an update of another version or name.       *)
Accepted(q) ==
    \/ q.kind = "create" /\ server[q.of] = 0
    \/ q.kind = "delete" /\ server[q.of] > 0
    \/ q.kind = "update" /\ q.body = Resource(q.of) /\ server[q.of] \in 1..(MaxVersion - 1)
AfterWrite(q) == IF q.kind = "delete" THEN AppList ELSE Page("instance", q.of)
WriteInstance(q) ==
    /\ Accepted(q) /\ visit < MaxVisits
    /\ server' = [server EXCEPT ![q.of] = IF q.kind = "delete" THEN 0 ELSE @ + 1]
    /\ NavigateTo(AfterWrite(q), Done(st, "resource"), requests \ {q})
    /\ UNCHANGED <<groups, subs, overlapped, faults>>

(* What each thunk dispatches when its request fails.  getResource without *)
(* a CSV reports both; and one that only reports the CSV.                  *)
ReportsCSVOnly(s) == errorCSVs(s)
WithoutCSV(s) == errorCustomResource(errorCSVs(s))
Failed(q, s) ==
    CASE q.kind = "olm" -> errorOLMCheck(s)
      [] q.kind \in {"operators", "operator"} -> errorOperators(s)
      [] q.kind = "csv" -> errorCSVs(s)
      [] q.kind = "csv_resource" -> WithoutCSV(s)
      [] q.kind = "csvs_resources" -> Done(errorCSVs(s), "resource")
      [] q.kind \in {"resource", "resources"} -> errorCustomResource(s)
      [] q.kind = "subscriptions" -> errorSubscriptionList(s)
      [] q.kind \in {"groups", "group", "subscribe"} -> Error(s, "operator", "create")
      [] OTHER -> Error(s, "resource", q.kind)

(* The answer to a delete closes the dialog of the component that asked. *)
Closed(q, u) ==
    IF q.kind = "delete" /\ q.visit >= u.since
    THEN [u EXCEPT !.deleting = FALSE, !.modal = FALSE] ELSE u

Refused(q) ==
    \/ q.kind = "resource" /\ server[q.of] = 0
    \/ q.kind \in {"create", "update", "delete"} /\ ~Accepted(q)
    \/ q.kind = "subscribe" /\ <<q.of, q.body>> \in subs

Fail(q) ==
    /\ \/ Refused(q) /\ UNCHANGED faults
       \/ faults < MaxFaults /\ faults' = faults + 1
    /\ st' = Failed(q, st)
    /\ ui' = Closed(q, ui)
    /\ requests' = requests \ {q}
    /\ late' = (late \/ q.visit # visit)
    /\ UNCHANGED <<cluster, page, visit, overlapped>>

ChangedElsewhere(x) ==
    /\ server[x] \in 1..(MaxVersion - 1)
    /\ server' = [server EXCEPT ![x] = @ + 1]
    /\ UNCHANGED <<groups, subs, page, visit, st, ui, requests, late, overlapped, faults>>

User ==
    \/ \E p \in Pages : Visit(p)
    \/ setNamespace \/ setInstallationMode \/ DeployOperator \/ UpdateInstance
    \/ openModal \/ closeModal \/ handleDeleteClick
    \/ \E x \in Instances : DeployInstance(x)
Answer(q) == Read(q) \/ CreateOperator(q) \/ WriteInstance(q) \/ Fail(q)
Next ==
    \/ User
    \/ \E q \in requests : Answer(q)
    \/ \E x \in Instances : ChangedElsewhere(x)

Spec == Init /\ [][Next]_vars

-----------------------------------------------------------------------------
(* A write goes to what the page names: an update sends the instance's own *)
(* text, an operator's page installs that operator, and a delete removes   *)
(* the instance of the URL; unless an answer to an earlier page came in,   *)
(* or the instance still loads, when the delete button already works.      *)
ActsOnItsPage ==
    \A q \in requests : (q.from # None /\ q.sure) =>
        CASE q.kind = "update" -> q.body.of = q.from.of
          [] q.kind = "create" -> OwnerOf(q.of) = q.from.of
          [] OTHER -> q.of = q.from.of

(* No page loads for ever: a flag is only up while a thunk that lowers it  *)
(* is on its way, on every path through the thunks of several requests.    *)
NoEndlessSpinner == st.fetching \subseteq AllFlags(requests)

(* A namespace with a subscription has an OperatorGroup, also when one of  *)
(* the requests of createOperator failed and was repeated, and never a     *)
(* second one unless two installations ran at once (the list is read       *)
(* before the group is created).                                           *)
GroupPerNamespace ==
    /\ (\E o \in Ops : <<o, FALSE>> \in subs) => groups > 0
    /\ groups > 1 => overlapped

=============================================================================
