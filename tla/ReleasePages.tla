---------------------------- MODULE ReleasePages ----------------------------
(***************************************************************************)
(* The dashboard's list of releases (AppList) and release page (AppView):  *)
(* the apps slice of the store, the thunks behind it, the rollback and     *)
(* delete dialogs, and the navigation between the pages.                   *)
(*                                                                         *)
(* Answers carry no mark of the page that asked: the reducer applies them  *)
(* to whatever page is open.  A visit is the stay on one URL, whatever its *)
(* search query; a request remembers its visit only for the properties'    *)
(* sake.                                                                   *)
(***************************************************************************)
EXTENDS Integers, Sequences, FiniteSets, SequencesExt

CONSTANTS
    Releases,      \* releases
    Namespace(_),  \* the namespace of a release
    Name(_),       \* its name, unique in a namespace only
    Namespaces,
    All,           \* the list of all namespaces
    None,
    Revisions,     \* revisions the releases may have at first
    MaxRevision,   \* bound: revisions of a release
    MaxVisits,     \* bound: page changes
    MaxPending,    \* bound: requests on their way when the user sends more
    MaxFaults      \* bound: requests that fail although the release is there

Scopes == Namespaces \union {All}

(* An entry of the list, and the selected release at one of its revisions, *)
(* each with the release whose update information stands beside it.        *)
Entries == [rel : Releases, info : Releases \union {None}]
Selections == [rel : Releases, rev : Nat, info : Releases \union {None}]

ASSUME ReleaseConstants ==
    /\ \A r \in Releases : Namespace(r) \in Namespaces
    /\ \A r, o \in Releases : Namespace(r) = Namespace(o) /\ Name(r) = Name(o) => r = o
    /\ IsFiniteSet(Releases) /\ All \notin Namespaces
    /\ None \notin Seq(Entries) /\ None \notin Selections
    /\ None \notin {"FetchError", "DeleteError", "RollbackError"}
    /\ MaxRevision \in Nat /\ Revisions \subseteq [Releases -> 1..MaxRevision]

VARIABLES
    alive,      \* releases that exist
    revision,   \* [Releases -> their last revision]
    page,       \* the URL: [at |-> "list" or "view", of |-> scope or release]
    visit,      \* number of the current visit
    mounted,    \* the visit in which the mounted component was created
    fetching,   \* apps.isFetching
    error,      \* apps.error, by its class
    selected,   \* apps.selected
    overview,   \* apps.listOverview
    dialog,     \* RollbackDialog: open, and the revision the user chose
    deleting,   \* DeleteButton's state
    requests,   \* requests on their way
    foreign,    \* observer: the visit took over something of an earlier one
    early,      \* observer: a search came before the list it searches
    faults

store == <<fetching, error, selected, overview>>
local == <<dialog, deleting>>
cluster == <<alive, revision>>
route == <<page, visit, mounted>>
vars == <<cluster, route, store, local, requests, foreign, early, faults>>

Pages == [at : {"list"}, of : Scopes] \union [at : {"view"}, of : Releases]

(* RollbackDialog's initial state. *)
NoDialog == [open |-> FALSE, choice |-> None]

-----------------------------------------------------------------------------
(* Requests: what shared/App.ts and Chart.listWithFilters send. *)
Request(kind, of, rev, v, odd) ==
    [kind |-> kind, of |-> of, rev |-> rev, visit |-> v, odd |-> odd]
getRelease(r, v) == Request("release", r, revision[r], v, FALSE)
listApps(s, v) == Request("list", s, 0, v, FALSE)
listWithFilters(r, v) == Request("info", r, 0, v, FALSE)
deleteRequest(r) == Request("delete", r, 0, visit, FALSE)
rollback(r, rev) == Request("rollback", r, rev, visit, foreign \/ mounted # visit)

(* What the page asks for when it is opened: AppView's and AppList's       *)
(* effects.  An AppList that is mounted for all namespaces first fetches   *)
(* the current one, then finds allns in the URL and fetches again.         *)
MountRequests(p, current, fresh, v) ==
    CASE p.at = "view" -> {getRelease(p.of, v)}
      [] p.at = "list" /\ p.of = All /\ fresh -> {listApps(current, v), listApps(All, v)}
      [] OTHER -> {listApps(p.of, v)}

(* The user has just logged in. *)
Init ==
    /\ alive = Releases
    /\ revision \in Revisions
    /\ page \in [at : {"list"}, of : Namespaces]
    /\ visit = 0
    /\ mounted = 0
    /\ fetching = TRUE
    /\ error = None
    /\ selected = None
    /\ overview = None
    /\ dialog = NoDialog
    /\ deleting = FALSE
    /\ requests = MountRequests(page, page.of, TRUE, 0)
    /\ foreign = FALSE
    /\ early = FALSE
    /\ faults = 0

-----------------------------------------------------------------------------
(* Navigation *)

MaySend == Cardinality(requests) <= MaxPending

(* LOCATION_CHANGE forgets error and selected, not listOverview. *)
SelectedKept == selected
SelectedAfterMove == None

(* The page's thunk dispatches requestApp or listApps at once. *)
NotFetchingYet == fetching
FetchingAfterMove == TRUE

(* From one release page to another (a jump in the history) React keeps    *)
(* the component, and with it the dialog's state.  AppList stays as well   *)
(* when the scope changes, and fetches once.                               *)
Stays(p) == page.at = "view" /\ p.at = "view"

NavigateTo(p) ==
    /\ page' = p
    /\ visit' = visit + 1
    /\ mounted' = IF Stays(p) THEN mounted ELSE visit + 1
    /\ error' = None
    /\ selected' = SelectedAfterMove
    /\ fetching' = FetchingAfterMove
    /\ foreign' = FALSE
    /\ early' = FALSE
    /\ dialog' = IF Stays(p) THEN dialog ELSE NoDialog
    /\ deleting' = IF Stays(p) THEN deleting ELSE FALSE
    /\ UNCHANGED overview

Visit(p) ==
    /\ p # page
    /\ visit < MaxVisits /\ MaySend
    /\ NavigateTo(p)
    /\ \E current \in Namespaces :
         requests' = requests \union MountRequests(p, current, page.at = "view", visit + 1)
    /\ UNCHANGED <<cluster, faults>>

(* A search of the list pushes its query.  The reducer takes that for a    *)
(* change of page, AppList asks for nothing: its namespace is the same.    *)
submitSearchFilter ==
    /\ page.at = "list"
    /\ error' = None
    /\ selected' = SelectedAfterMove
    /\ fetching' = FALSE
    /\ early' = (\/ early \/ error # None
                 \/ \E q \in requests : q.kind = "list" /\ q.visit = visit)
    /\ UNCHANGED <<cluster, route, overview, local, requests, foreign, faults>>

-----------------------------------------------------------------------------
(* Answers *)

Late(q) == q.visit # visit

(* getApp and what getAppWithUpdateInfo does next: selectApp, then the     *)
(* request for the update information.                                     *)
selectApp(q, rev) ==
    /\ q.kind = "release"
    /\ rev \in q.rev..revision[q.of]
    /\ selected' = [rel |-> q.of, rev |-> rev, info |-> None]
    /\ fetching' = TRUE
    /\ requests' = (requests \ {q}) \union {listWithFilters(q.of, q.visit)}
    /\ foreign' = (foreign \/ Late(q))
    /\ UNCHANGED <<cluster, route, error, overview, local, early, faults>>

(* errorApp: the class of the error is that of the thunk. *)
errorApp(q) ==
    /\ q.kind \in {"release", "list", "delete", "rollback"}
    /\ \/ q.kind # "list" /\ q.of \notin alive /\ UNCHANGED faults
       \/ q.kind = "rollback" /\ q.rev \notin 1..revision[q.of] /\ UNCHANGED faults
       \/ faults < MaxFaults /\ faults' = faults + 1
    /\ error' = CASE q.kind \in {"release", "list"} -> "FetchError"
                  [] q.kind = "delete" -> "DeleteError"
                  [] OTHER -> "RollbackError"
    /\ fetching' = FALSE
    /\ deleting' = IF q.kind = "delete" /\ q.visit >= mounted THEN FALSE ELSE deleting
    /\ requests' = requests \ {q}
    /\ foreign' = (foreign \/ Late(q))
    /\ UNCHANGED <<cluster, route, selected, overview, dialog, early>>

(* receiveAppUpdateInfo: the first release of that name in the list, and   *)
(* the selected release if it has that name, whatever their namespaces.    *)
FirstNamed(list, r, i) ==
    /\ Name(list[i].rel) = Name(r)
    /\ \A j \in 1..(i - 1) : Name(list[j].rel) # Name(r)
SetInfo(list, r) ==
    [i \in DOMAIN list |->
        IF FirstNamed(list, r, i) THEN [list[i] EXCEPT !.info = r] ELSE list[i]]

receiveAppUpdateInfo(q) ==
    /\ q.kind = "info"
    /\ overview' = IF overview = None THEN None ELSE SetInfo(overview, q.of)
    /\ selected' = IF selected # None /\ Name(selected.rel) = Name(q.of)
                   THEN [selected EXCEPT !.info = q.of] ELSE selected
    /\ fetching' = FALSE
    /\ requests' = requests \ {q}
    /\ foreign' = (foreign \/ Late(q))
    /\ UNCHANGED <<cluster, route, error, local, early, faults>>

(* fetchAppsWithUpdateInfo: the list, then a request for each of its       *)
(* releases.  Helm sorts the list by names, so that nothing orders two     *)
(* releases of one name.                                                   *)
InScope(r, s) == r \in alive /\ (s = All \/ Namespace(r) = s)
Listed(s) == {r \in Releases : InScope(r, s)}
receiveAppList(q) ==
    /\ q.kind = "list"
    /\ \E list \in SetToSeqs(Listed(q.of)) :
         overview' = [i \in 1..Len(list) |-> [rel |-> list[i], info |-> None]]
    /\ fetching' = (Listed(q.of) # {})
    /\ requests' = (requests \ {q}) \union {listWithFilters(r, q.visit) : r \in Listed(q.of)}
    /\ foreign' = (foreign \/ Late(q))
    /\ early' = (early /\ Late(q))
    /\ UNCHANGED <<cluster, route, error, selected, local, faults>>

-----------------------------------------------------------------------------
(* The dialogs of the release page *)

CurrentRevision == IF selected = None THEN 0 ELSE selected.rev
TargetIsCurrent == IF dialog.choice = None THEN CurrentRevision ELSE dialog.choice
TargetRevision == IF dialog.choice = None THEN CurrentRevision - 1 ELSE dialog.choice

(* StatusAwareButton: disabled without a status. *)
OpenRollback ==
    /\ page.at = "view" /\ selected # None /\ ~dialog.open
    /\ dialog' = [dialog EXCEPT !.open = TRUE]
    /\ UNCHANGED <<cluster, route, store, deleting, requests, foreign, early, faults>>

CloseRollback ==
    /\ dialog.open
    /\ dialog' = [dialog EXCEPT !.open = FALSE]
    /\ UNCHANGED <<cluster, route, store, deleting, requests, foreign, early, faults>>

(* The options are the revisions before the current one. *)
selectRevision(n) ==
    /\ dialog.open
    /\ n \in 1..(CurrentRevision - 1)
    /\ dialog' = [dialog EXCEPT !.choice = n]
    /\ UNCHANGED <<cluster, route, store, deleting, requests, foreign, early, faults>>

(* The button stays enabled while a rollback is on its way. *)
handleRollback ==
    /\ dialog.open
    /\ CurrentRevision # 1 /\ MaySend
    /\ requests' = requests \union {rollback(page.of, TargetRevision)}
    /\ fetching' = TRUE
    /\ UNCHANGED <<cluster, route, error, selected, overview, local, foreign, early, faults>>

(* The release has a new revision, the dialog closes if its component is   *)
(* still there, and the thunk fetches the release again, wherever the user *)
(* is by now.                                                              *)
receiveRollbackApp(q) ==
    /\ q.kind = "rollback"
    /\ q.of \in alive /\ q.rev \in 1..revision[q.of] /\ revision[q.of] < MaxRevision
    /\ revision' = [revision EXCEPT ![q.of] = @ + 1]
    /\ fetching' = TRUE
    /\ requests' = (requests \ {q})
                   \union {Request("release", q.of, revision[q.of] + 1, q.visit, FALSE)}
    /\ dialog' = IF q.visit >= mounted THEN [dialog EXCEPT !.open = FALSE] ELSE dialog
    /\ foreign' = (foreign \/ Late(q))
    /\ UNCHANGED <<alive, route, error, selected, overview, deleting, early, faults>>

(* ConfirmDialog hides its button while deleting. *)
handleDeleteClick ==
    /\ page.at = "view" /\ selected # None /\ ~deleting /\ MaySend
    /\ deleting' = TRUE
    /\ fetching' = TRUE
    /\ requests' = requests \union {deleteRequest(page.of)}
    /\ UNCHANGED <<cluster, route, error, selected, overview, dialog, foreign, early, faults>>

(* Once the release is gone the user is sent to the list, wherever he is. *)
receiveDeleteApp(q) ==
    /\ q.kind = "delete" /\ q.of \in alive
    /\ visit < MaxVisits
    /\ alive' = alive \ {q.of}
    /\ LET p == [at |-> "list", of |-> Namespace(q.of)] IN
        /\ NavigateTo(p)
        /\ requests' = (requests \ {q}) \union MountRequests(p, p.of, page.at = "view", visit + 1)
    /\ UNCHANGED <<revision, faults>>

(* Somebody else upgrades the release. *)
UpgradedElsewhere(r) ==
    /\ r \in alive /\ revision[r] < MaxRevision
    /\ revision' = [revision EXCEPT ![r] = @ + 1]
    /\ UNCHANGED <<alive, route, store, local, requests, foreign, early, faults>>

User ==
    \/ \E p \in Pages : Visit(p)
    \/ submitSearchFilter
    \/ OpenRollback \/ CloseRollback \/ handleRollback \/ handleDeleteClick
    \/ \E n \in 1..MaxRevision : selectRevision(n)
Answer(q) ==
    \/ \E rev \in 1..MaxRevision : selectApp(q, rev)
    \/ receiveAppUpdateInfo(q) \/ receiveAppList(q)
    \/ receiveRollbackApp(q) \/ receiveDeleteApp(q) \/ errorApp(q)
Next ==
    \/ User
    \/ \E q \in requests : Answer(q)
    \/ \E r \in Releases : UpgradedElsewhere(r)

Spec == Init /\ [][Next]_vars

-----------------------------------------------------------------------------
(* What the list page shows: AppList's LoadingWrapper and its error. *)
ListShown == page.at = "list" /\ ~fetching /\ error = None
NameIsShared(r) == \E o \in Releases \ {r} : Name(o) = Name(r)

(* The release page shows its own release and that release's update        *)
(* information, unless an answer to an earlier page's request came in:     *)
(* LOCATION_CHANGE empties the selection before the new page reads it.     *)
PageShowsItsRelease ==
    (page.at = "view" /\ ~foreign /\ selected # None) =>
        selected.rel = page.of /\ selected.info \in {None, page.of}

(* Once the list page stops loading it lists its own scope, although       *)
(* listOverview is never cleared: isFetching hides the old list until the  *)
(* new one, or an error, is there; unless a search came first, which       *)
(* lowers isFetching, or forgets the error, over the list of the page      *)
(* before.  The update information beside a release is its own; in the     *)
(* list of all namespaces it may be that of another release of the same    *)
(* name.                                                                   *)
ListShowsItsScope ==
    (ListShown /\ ~foreign /\ ~early) =>
        /\ overview # None
        /\ \A i \in DOMAIN overview :
             /\ page.of \in {All, Namespace(overview[i].rel)}
             /\ \/ overview[i].info \in {None, overview[i].rel}
                \/ page.of = All /\ NameIsShared(overview[i].rel)

(* A rollback asks for a revision that the release had before the one the  *)
(* dialog was opened on, never for the current one or for one that cannot  *)
(* exist, unless the dialog was kept across two release pages or the page  *)
(* shows a foreign release.                                                *)
RollbackTargetExists ==
    \A q \in requests :
        (q.kind = "rollback" /\ ~q.odd) => q.rev \in 1..(revision[q.of] - 1)

=============================================================================
