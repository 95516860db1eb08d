------------------------------ MODULE Catalog ------------------------------
(***************************************************************************)
(* The dashboard's catalog: the list of charts in the charts slice, the    *)
(* infinite scroll and the filters of Catalog.tsx, the search box that     *)
(* delays what is typed, and the requests of other pages that end in the   *)
(* same slice.                                                             *)
(*                                                                         *)
(* An effect runs with the change that triggers it, in the order of the    *)
(* source; what the server finds for a query does not change.              *)
(***************************************************************************)
EXTENDS Naturals, Sequences, FiniteSets, Bags

CONSTANTS
    Namespaces, Searches,  \* what a query can ask for
    RepoFilters,           \* values of the Repository filter: sets of repositories
    RepoOf(_),             \* the repository of a chart
    Found(_, _),           \* pages of charts for a scope and repositories, at least one
    Charts,
    None,
    MaxPage,               \* bound: pages requested
    MaxRequests,           \* bound: requests on their way
    MaxMoves,              \* bound: changes of the URL, and typing
    MaxFaults              \* bound: requests that fail

ASSUME CatalogConstants ==
    /\ RepoFilters \subseteq SUBSET {RepoOf(c) : c \in Charts} /\ {} \in RepoFilters
    /\ \A ns \in Namespaces, search \in Searches, repos \in RepoFilters :
          Found([ns |-> ns, search |-> search], repos) \in Seq(SUBSET Charts)
    /\ MaxPage \in Nat \ {0} /\ MaxRequests \in Nat /\ MaxMoves \in Nat /\ MaxFaults \in Nat

VARIABLES
    at,        \* URL of the catalog, None on another page
    page,      \* state page
    loaded,    \* state hasLoadedFirstPage
    armed,     \* some observer of the scroll handler would ask for more
    typing,    \* the search box's timeout: the text, and the URL it was typed at
    charts,    \* the charts slice
    requests,  \* requests on their way, a bag
    foreign,   \* observer: an answer to another query came in
    overshot,  \* observer: a page after the current one came in
    missed,    \* observer: pages of the query that failed
    moves, faults

catalog == <<at, page, loaded, armed>>
observers == <<foreign, overshot, missed>>
vars == <<catalog, typing, charts, requests, observers, moves, faults>>

Scopes == [ns : Namespaces, search : Searches]
Locations == [scope : Scopes, repos : RepoFilters, type : {"any", "Operators"}]
Request(kind, scope, repos, p) == [kind |-> kind, scope |-> scope, repos |-> repos, page |-> p]
List(scope, repos, p) == Request("charts", scope, repos, p)
Other(kind) == Request(kind, None, {}, 0)
OtherKinds == {"categories", "readme", "version"}

FirstPage == 1

(* charts.ts initialState, before the catalog is first opened. *)
Init ==
    /\ at = None
    /\ page = FirstPage
    /\ loaded = FALSE
    /\ armed = FALSE
    /\ typing = None
    /\ charts = [isFetching |-> FALSE, hasFinishedFetching |-> FALSE, items |-> {},
                 error |-> FALSE]
    /\ requests = EmptyBag
    /\ foreign = FALSE
    /\ overshot = FALSE
    /\ missed = {}
    /\ moves = 0
    /\ faults = 0

-----------------------------------------------------------------------------
(* The reducer *)

requestCharts(s) == [s EXCEPT !.isFetching = TRUE]

(* isLastPage, and one that stops a page early. *)
OnePageEarly(p, total) == p + 1 >= total
IsLastPage(p, total) == p >= total

(* A page after the last is empty. *)
PageOf(pages, p) == IF p \in DOMAIN pages THEN pages[p] ELSE {}

receiveCharts(s, r) ==
    LET pages == Found(r.scope, r.repos)
    IN [s EXCEPT !.isFetching = FALSE,
                 !.hasFinishedFetching = IsLastPage(r.page, Len(pages)),
                 !.items = @ \union PageOf(pages, r.page)]

ItemsKept(s) == [s EXCEPT !.hasFinishedFetching = FALSE]
resetRequestCharts(s) == [s EXCEPT !.hasFinishedFetching = FALSE, !.items = {}]

(* errorChart, and the actions of the chart page handled with it. *)
Restarted(s) == [s EXCEPT !.isFetching = FALSE, !.hasFinishedFetching = FALSE]
errorChart(s) == [Restarted(s) EXCEPT !.error = TRUE]
selectReadme(s) == Restarted(s)
resetChartVersion(s) == [Restarted(s) EXCEPT !.error = FALSE]
selectChartVersion(s) == [s EXCEPT !.isFetching = FALSE, !.error = FALSE]
clearErrorChart(s) == [s EXCEPT !.error = FALSE]
errorChartCategories(s) == [s EXCEPT !.isFetching = FALSE]

-----------------------------------------------------------------------------
(* The page *)

(* The scroll handler is rendered, and a rendering whose observer asks for *)
(* more.                                                                   *)
HandlerShown(l, s) == l # None /\ ~s.isFetching /\ ~s.hasFinishedFetching
Asks(l, s, first) == l.type = "any" /\ ~s.error /\ first

(* The store becomes s while the page is at l.  Observers are not          *)
(* disconnected: one made by an earlier rendering of the handler still     *)
(* fires.                                                                  *)
Rendered(l, s) ==
    LET first == l # None /\ (loaded \/ ~s.isFetching)
    IN /\ at' = l
       /\ charts' = s
       /\ loaded' = first
       /\ armed' = (HandlerShown(l, s) /\ (armed \/ Asks(l, s, first)))

(* The requests for a new URL l.  Namespace and search are used at once,   *)
(* repositories one rendering later.  The effect that fetches comes before *)
(* the one that goes back to the first page.                               *)
Requests(l) ==
    LET before == IF at = None THEN {} ELSE at.repos
        moved == at = None \/ l.scope # at.scope
        filtered == l.repos # before
    IN (IF moved THEN {List(l.scope, before, page)} ELSE {})
       \union (IF filtered
               THEN {List(l.scope, l.repos, IF moved THEN FirstPage ELSE page)} ELSE {})
       \union (IF (moved \/ filtered) /\ page # FirstPage
               THEN {List(l.scope, l.repos, FirstPage)} ELSE {})
       \union (IF at = None \/ l.scope.ns # at.scope.ns THEN {Other("categories")} ELSE {})

Send(R) ==
    /\ BagCardinality(requests) + Cardinality(R) <= MaxRequests
    /\ requests' = requests (+) SetToBag(R)

SameQuery(l) ==
    at # None /\ l.scope = at.scope /\ l.repos = at.repos

(* The URL becomes l: nothing but the shown charts changes when the query  *)
(* stays.                                                                  *)
GoTo(l) ==
    /\ IF SameQuery(l)
       THEN /\ Rendered(l, charts)
            /\ UNCHANGED <<page, requests, observers>>
       ELSE /\ Send(Requests(l))
            /\ at' = l
            /\ charts' = resetRequestCharts(requestCharts(charts))
            /\ loaded' = (loaded /\ at # None)
            /\ armed' = FALSE
            /\ page' = FirstPage
            /\ foreign' = FALSE
            /\ overshot' = FALSE
            /\ missed' = {}

(* A filter, a link or the browser's history. *)
ChangeURL(l) ==
    /\ moves < MaxMoves
    /\ moves' = moves + 1
    /\ l # at
    /\ GoTo(l)
    /\ UNCHANGED <<typing, faults>>

(* The search box keeps one timeout, with the props of the last key.       *)
Type(text) ==
    /\ at # None
    /\ moves < MaxMoves
    /\ moves' = moves + 1
    /\ typing' = [text |-> text, url |-> at]
    /\ UNCHANGED <<catalog, charts, requests, observers, faults>>

(* The timeout: setSearchFilter goes to the catalog from any page. *)
setSearchFilter ==
    /\ typing # None
    /\ typing' = None
    /\ GoTo([typing.url EXCEPT !.scope.search = typing.text])
    /\ UNCHANGED <<moves, faults>>

Leave ==
    /\ at # None
    /\ page' = FirstPage
    /\ Rendered(None, charts)
    /\ foreign' = FALSE
    /\ overshot' = FALSE
    /\ missed' = {}
    /\ UNCHANGED <<typing, requests, moves, faults>>

(* A chart page was opened and left, and what it asked for is on its way. *)
ChartPage(kind) ==
    /\ at = None
    /\ kind \in {"readme", "version"}
    /\ Send({Other(kind)})
    /\ charts' = resetChartVersion(charts)
    /\ UNCHANGED <<catalog, typing, observers, moves, faults>>

(* increaseRequestedPage: the end of the list comes into view. *)
Scroll ==
    /\ armed
    /\ page < MaxPage
    /\ page' = page + 1
    /\ Send({List(at.scope, at.repos, page + 1)})
    /\ Rendered(at, requestCharts(charts))
    /\ UNCHANGED <<typing, observers, moves, faults>>

(* forceRetry, and one that only clears the error. *)
ClearsOnly == {}
RetryRequests == {List(at.scope, at.repos, page)}
forceRetry ==
    /\ at # None
    /\ charts.error /\ ~charts.hasFinishedFetching
    /\ Send(RetryRequests)
    /\ Rendered(at, requestCharts(clearErrorChart(charts)))
    /\ UNCHANGED <<page, typing, observers, moves, faults>>

-----------------------------------------------------------------------------
(* Answers *)

OfQuery(r) == r.kind = "charts" /\ at # None /\ r.scope = at.scope /\ r.repos = at.repos

Answered(r) ==
    CASE r.kind = "charts" -> receiveCharts(charts, r)
      [] r.kind = "categories" -> charts
      [] r.kind = "readme" -> selectReadme(charts)
      [] r.kind = "version" -> selectChartVersion(charts)

Answer(r) ==
    /\ BagIn(r, requests)
    /\ requests' = requests (-) SetToBag({r})
    /\ Rendered(at, Answered(r))
    /\ foreign' = (foreign \/ (at # None /\ r.kind = "charts" /\ ~OfQuery(r)))
    /\ overshot' = (overshot \/ (OfQuery(r) /\ r.page > page))
    /\ missed' = IF OfQuery(r) THEN missed \ {r.page} ELSE missed
    /\ UNCHANGED <<page, typing, moves, faults>>

FailedWith(r) ==
    CASE r.kind \in {"charts", "version"} -> errorChart(charts)
      [] r.kind = "readme" -> selectReadme(charts)
      [] r.kind = "categories" -> errorChartCategories(charts)

Fail(r) ==
    /\ BagIn(r, requests)
    /\ faults < MaxFaults
    /\ faults' = faults + 1
    /\ requests' = requests (-) SetToBag({r})
    /\ Rendered(at, FailedWith(r))
    /\ missed' = IF OfQuery(r) THEN missed \union {r.page} ELSE missed
    /\ UNCHANGED <<page, foreign, overshot, typing, moves>>

Reply == \E r \in BagToSet(requests) : Answer(r) \/ Fail(r)

Next ==
    \/ \E l \in Locations : ChangeURL(l)
    \/ \E text \in Searches : Type(text)
    \/ setSearchFilter \/ Leave \/ Scroll \/ forceRetry
    \/ \E kind \in OtherKinds : ChartPage(kind)
    \/ Reply

Spec == Init /\ [][Next]_vars

(* Requests are answered, the timeout fires, and the user keeps scrolling  *)
(* and retrying.                                                           *)
FairSpec ==
    /\ Spec
    /\ WF_vars(Reply)
    /\ WF_vars(setSearchFilter)
    /\ WF_vars(Scroll)
    /\ WF_vars(forceRetry)

-----------------------------------------------------------------------------
(* filteredCharts, in CatalogItems. *)
Shown ==
    IF at = None \/ (charts.isFetching /\ page = FirstPage) \/ at.type # "any" THEN {}
    ELSE {c \in charts.items : at.repos = {} \/ RepoOf(c) \in at.repos}

Wanted(l) == UNION {PageOf(Found(l.scope, l.repos), p) : p \in DOMAIN Found(l.scope, l.repos)}

(* The catalog shows no chart that the current namespace, search and       *)
(* repositories do not lead to, whatever was listed before and however the *)
(* URL changed, unless an answer to an earlier query came in after the     *)
(* change (receiveCharts appends, whoever asked).                          *)
ShownMatchesQuery ==
    (at # None /\ ~foreign) => Shown \subseteq Wanted(at)

(* A user who stops changing the URL (MaxMoves sees to it), scrolls and    *)
(* retries gets to see every chart the query has, whatever failed on the   *)
(* way and whatever other requests did to isFetching and                   *)
(* hasFinishedFetching.  Three cases are left out in which the code loses  *)
(* a page: an answer to another query; one for a page after the current    *)
(* one, asked for before the page went back to the first; and a page that  *)
(* failed when another one is current.                                     *)
EverythingIsShown ==
    <>[](/\ at # None /\ at.type = "any"
         /\ ~foreign /\ ~overshot /\ missed \subseteq {page})
        => []<>(at # None /\ Wanted(at) \subseteq Shown)

=============================================================================
