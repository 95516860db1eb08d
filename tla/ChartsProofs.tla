---------------------------- MODULE ChartsProofs ----------------------------
(***************************************************************************)
(* Theorems about the two models of the charts slice: what the catalog     *)
(* shows (Catalog), and what the chart page and the forms that create and  *)
(* upgrade a release send (ReleaseForms).  They hold for any charts,       *)
(* versions and queries, any number of requests and any order of their     *)
(* answers.                                                                *)
(*                                                                         *)
(* The forms are seen through ChartForms, with variables of their own, so  *)
(* that no theorem relates the two.                                        *)
(***************************************************************************)
EXTENDS Catalog, ChartForms, TLAPS

-----------------------------------------------------------------------------
(* The catalog *)

Slices == [isFetching : BOOLEAN, hasFinishedFetching : BOOLEAN, items : SUBSET Charts,
           error : BOOLEAN]

(* A request for charts asks for a query. *)
WellFormed(r) ==
    /\ r.kind \in {"charts"} \union OtherKinds
    /\ r.kind = "charts" => r.scope \in Scopes /\ r.repos \in RepoFilters

(* Only a page that is open has an observer. *)
TypeInv ==
    /\ at # None => at \in Locations
    /\ armed => at # None
    /\ typing # None => typing \in [text : Searches, url : Locations]
    /\ charts \in Slices
    /\ foreign \in BOOLEAN
    /\ \A r \in DOMAIN requests : WellFormed(r)

(* What is kept for the open page was found for its query, also while it   *)
(* is hidden: behind the spinner, by the filter, or among the operators.   *)
ItemsAreWanted == at # None /\ ~foreign => charts.items \subseteq Wanted(at)

Inv == TypeInv /\ ItemsAreWanted

-----------------------------------------------------------------------------
(* The reducer *)

LEMMA ReducerFacts ==
    ASSUME NEW s \in Slices
    PROVE  /\ requestCharts(s) \in Slices /\ requestCharts(s).items = s.items
           /\ resetRequestCharts(s) \in Slices /\ resetRequestCharts(s).items = {}
           /\ errorChart(s) \in Slices /\ errorChart(s).items = s.items
           /\ selectReadme(s) \in Slices /\ selectReadme(s).items = s.items
           /\ resetChartVersion(s) \in Slices /\ resetChartVersion(s).items = s.items
           /\ selectChartVersion(s) \in Slices /\ selectChartVersion(s).items = s.items
           /\ clearErrorChart(s) \in Slices /\ clearErrorChart(s).items = s.items
           /\ errorChartCategories(s) \in Slices /\ errorChartCategories(s).items = s.items
  <1>1. requestCharts(s) \in Slices /\ requestCharts(s).items = s.items
    BY DEF Slices, requestCharts
  <1>2. resetRequestCharts(s) \in Slices /\ resetRequestCharts(s).items = {}
    BY DEF Slices, resetRequestCharts
  <1>3. Restarted(s) \in Slices /\ Restarted(s).items = s.items
    BY DEF Slices, Restarted
  <1>4. errorChart(s) \in Slices /\ errorChart(s).items = s.items
    BY <1>3 DEF Slices, errorChart
  <1>5. resetChartVersion(s) \in Slices /\ resetChartVersion(s).items = s.items
    BY <1>3 DEF Slices, resetChartVersion
  <1>6. selectChartVersion(s) \in Slices /\ selectChartVersion(s).items = s.items
    BY DEF Slices, selectChartVersion
  <1>7. clearErrorChart(s) \in Slices /\ clearErrorChart(s).items = s.items
    BY DEF Slices, clearErrorChart
  <1>8. errorChartCategories(s) \in Slices /\ errorChartCategories(s).items = s.items
    BY DEF Slices, errorChartCategories
  <1> QED BY <1>1, <1>2, <1>3, <1>4, <1>5, <1>6, <1>7, <1>8 DEF selectReadme

(* An answer adds a page of what its query finds. *)
LEMMA ReceiveFacts ==
    ASSUME NEW s \in Slices, NEW r, r.scope \in Scopes, r.repos \in RepoFilters
    PROVE  /\ receiveCharts(s, r) \in Slices
           /\ receiveCharts(s, r).items \subseteq s.items \union Wanted(r)
  <1> DEFINE pages == Found(r.scope, r.repos)
             found == PageOf(pages, r.page)
  <1>1. pages \in Seq(SUBSET Charts)
    <2>1. PICK ns \in Namespaces, search \in Searches : r.scope = [ns |-> ns, search |-> search]
      BY DEF Scopes
    <2> QED BY <2>1, CatalogConstants
  <1>2. found \in SUBSET Charts
    BY <1>1 DEF PageOf
  <1>3. found \subseteq Wanted(r)
    BY DEF PageOf, Wanted
  <1>4. receiveCharts(s, r) = [s EXCEPT !.isFetching = FALSE,
                                        !.hasFinishedFetching = IsLastPage(r.page, Len(pages)),
                                        !.items = @ \union found]
    BY DEF receiveCharts
  <1>5. IsLastPage(r.page, Len(pages)) \in BOOLEAN
    BY DEF IsLastPage
  <1> HIDE DEF found, pages
  <1>6. s.items \union found \in SUBSET Charts
    BY <1>2 DEF Slices
  <1>7. receiveCharts(s, r) \in Slices /\ receiveCharts(s, r).items = s.items \union found
    BY <1>4, <1>5, <1>6 DEF Slices
  <1> QED BY <1>3, <1>7

-----------------------------------------------------------------------------
(* Requests *)

LEMMA SentFacts ==
    ASSUME NEW scope \in Scopes, NEW repos \in RepoFilters, NEW p
    PROVE  WellFormed(List(scope, repos, p))
  BY DEF WellFormed, List, Request

LEMMA OtherFacts ==
    ASSUME NEW kind \in OtherKinds
    PROVE  WellFormed(Other(kind))
  BY DEF WellFormed, Other, Request, OtherKinds

LEMMA SendKeeps ==
    ASSUME TypeInv, NEW R, \A r \in R : WellFormed(r), Send(R)
    PROVE  \A r \in DOMAIN requests' : WellFormed(r)
  <1>1. DOMAIN requests' = DOMAIN requests \union R
    BY DEF Send, SetToBag, (+)
  <1> QED BY <1>1 DEF TypeInv

LEMMA AnsweredKeeps ==
    ASSUME TypeInv, NEW r, requests' = requests (-) SetToBag({r})
    PROVE  \A o \in DOMAIN requests' : WellFormed(o)
  <1>1. DOMAIN requests' \subseteq DOMAIN requests
    BY DEF SetToBag, (-)
  <1> QED BY <1>1 DEF TypeInv

-----------------------------------------------------------------------------
(* The page *)

(* A step that renders the page with the store s. *)
LEMMA RenderedKeeps ==
    ASSUME Inv, NEW s \in Slices, Rendered(at, s), foreign' \in BOOLEAN, typing' = typing,
           \A r \in DOMAIN requests' : WellFormed(r),
           at # None /\ ~foreign' => s.items \subseteq Wanted(at)
    PROVE  Inv'
  <1>1. at' = at /\ charts' = s /\ (armed' => at # None)
    BY DEF Rendered, HandlerShown
  <1>2. TypeInv'
    BY <1>1 DEF Inv, TypeInv
  <1>3. ItemsAreWanted'
    BY <1>1 DEF ItemsAreWanted, Wanted
  <1> QED BY <1>2, <1>3 DEF Inv

LEMMA RequestsFacts ==
    ASSUME TypeInv, NEW l \in Locations, NEW r \in Requests(l)
    PROVE  WellFormed(r)
  <1> DEFINE before == IF at = None THEN {} ELSE at.repos
  <1>1. l.scope \in Scopes /\ l.repos \in RepoFilters
    BY DEF Locations
  <1>2. before \in RepoFilters
    BY CatalogConstants DEF TypeInv, Locations
  <1>3. \/ \E repos \in RepoFilters, p \in {page, FirstPage} : r = List(l.scope, repos, p)
        \/ r = Other("categories")
    BY <1>1, <1>2 DEF Requests
  <1>4. CASE r = Other("categories")
    BY <1>4, OtherFacts DEF OtherKinds
  <1>5. CASE \E repos \in RepoFilters, p \in {page, FirstPage} : r = List(l.scope, repos, p)
    BY <1>1, <1>5, SentFacts
  <1> QED BY <1>3, <1>4, <1>5

LEMMA GoToKeeps ==
    ASSUME Inv, NEW l \in Locations, GoTo(l),
           typing' # None => typing' \in [text : Searches, url : Locations]
    PROVE  Inv'
  <1>1. CASE SameQuery(l)
    <2>1. /\ at' = l /\ charts' = charts /\ (armed' => l # None)
          /\ requests' = requests /\ foreign' = foreign
      BY <1>1 DEF GoTo, Rendered, HandlerShown, observers
    <2>2. TypeInv'
      BY <2>1 DEF Inv, TypeInv
    <2>3. at # None /\ l.scope = at.scope /\ l.repos = at.repos
      BY <1>1 DEF SameQuery
    <2>4. Wanted(l) = Wanted(at)
      BY <2>3 DEF Wanted
    <2>5. ItemsAreWanted'
      <3>1. (~foreign) => charts.items \subseteq Wanted(l)
        BY <2>3, <2>4 DEF Inv, ItemsAreWanted
      <3> QED BY <2>1, <3>1 DEF ItemsAreWanted, Wanted
    <2> QED BY <2>2, <2>5 DEF Inv
  <1>2. CASE ~SameQuery(l)
    <2> DEFINE R == Requests(l)
    <2>1. /\ Send(R) /\ at' = l /\ charts' = resetRequestCharts(requestCharts(charts))
          /\ armed' = FALSE /\ foreign' = FALSE
      BY <1>2 DEF GoTo
    <2>2. TypeInv /\ charts \in Slices
      BY DEF Inv, TypeInv
    <2>3. \A r \in R : WellFormed(r)
      BY <2>2, RequestsFacts
    <2> HIDE DEF R
    <2>4. \A r \in DOMAIN requests' : WellFormed(r)
      BY <2>1, <2>2, <2>3, SendKeeps
    <2>5. requestCharts(charts) \in Slices
      BY <2>2, ReducerFacts
    <2>6. charts' \in Slices /\ charts'.items = {}
      BY <2>1, <2>5, ReducerFacts
    <2>7. TypeInv'
      BY <2>1, <2>4, <2>6 DEF TypeInv
    <2>8. ItemsAreWanted'
      BY <2>6 DEF ItemsAreWanted
    <2> QED BY <2>7, <2>8 DEF Inv
  <1> QED BY <1>1, <1>2

LEMMA ChangeURLKeeps ==
    ASSUME Inv, NEW l \in Locations, ChangeURL(l)
    PROVE  Inv'
  <1>1. GoTo(l) /\ typing' = typing
    BY DEF ChangeURL
  <1>2. typing' # None => typing' \in [text : Searches, url : Locations]
    BY <1>1 DEF Inv, TypeInv
  <1> QED BY <1>1, <1>2, GoToKeeps

LEMMA setSearchFilterKeeps ==
    ASSUME Inv, setSearchFilter
    PROVE  Inv'
  <1> DEFINE l == [typing.url EXCEPT !.scope.search = typing.text]
  <1>1. GoTo(l) /\ typing # None /\ typing' = None
    BY DEF setSearchFilter
  <1>2. typing.text \in Searches /\ typing.url \in Locations
    BY <1>1 DEF Inv, TypeInv
  <1>3. l \in Locations
    BY <1>2 DEF Locations, Scopes
  <1> HIDE DEF l
  <1> QED BY <1>1, <1>3, GoToKeeps

LEMMA TypeKeeps ==
    ASSUME Inv, NEW text \in Searches, Type(text)
    PROVE  Inv'
  <1>1. /\ at # None /\ typing' = [text |-> text, url |-> at]
        /\ at' = at /\ armed' = armed /\ charts' = charts /\ requests' = requests
        /\ foreign' = foreign
    BY DEF Type, catalog, observers
  <1>2. TypeInv'
    BY <1>1 DEF Inv, TypeInv
  <1>3. ItemsAreWanted'
    BY <1>1 DEF Inv, ItemsAreWanted, Wanted
  <1> QED BY <1>2, <1>3 DEF Inv

LEMMA LeaveKeeps ==
    ASSUME Inv, Leave
    PROVE  Inv'
  <1>1. /\ at' = None /\ armed' = FALSE /\ charts' = charts /\ requests' = requests
        /\ foreign' = FALSE /\ typing' = typing
    BY DEF Leave, Rendered, HandlerShown
  <1> QED BY <1>1 DEF Inv, TypeInv, ItemsAreWanted

LEMMA ChartPageKeeps ==
    ASSUME Inv, NEW kind \in OtherKinds, ChartPage(kind)
    PROVE  Inv'
  <1> DEFINE R == {Other(kind)}
  <1>1. /\ at = None /\ Send(R) /\ charts' = resetChartVersion(charts)
        /\ at' = at /\ armed' = armed /\ typing' = typing /\ foreign' = foreign
    BY DEF ChartPage, catalog, observers
  <1>2. TypeInv /\ charts \in Slices /\ \A r \in R : WellFormed(r)
    BY OtherFacts DEF Inv, TypeInv
  <1> HIDE DEF R
  <1>3. \A r \in DOMAIN requests' : WellFormed(r)
    BY <1>1, <1>2, SendKeeps
  <1>4. charts' \in Slices
    BY <1>1, <1>2, ReducerFacts
  <1> QED BY <1>1, <1>2, <1>3, <1>4 DEF Inv, TypeInv, ItemsAreWanted

(* The page asks for more of its own query. *)
LEMMA AsksAgain ==
    ASSUME Inv, at # None, NEW p, NEW s \in Slices, s.items = charts.items,
           Send({List(at.scope, at.repos, p)}), Rendered(at, s), foreign' = foreign,
           typing' = typing
    PROVE  Inv'
  <1> DEFINE R == {List(at.scope, at.repos, p)}
  <1>1. TypeInv /\ at.scope \in Scopes /\ at.repos \in RepoFilters
    BY DEF Inv, TypeInv, Locations
  <1>2. \A r \in R : WellFormed(r)
    BY <1>1, SentFacts
  <1>3. Send(R)
    OBVIOUS
  <1> HIDE DEF R
  <1>4. \A r \in DOMAIN requests' : WellFormed(r)
    BY <1>1, <1>2, <1>3, SendKeeps
  <1>5. foreign' \in BOOLEAN /\ (at # None /\ ~foreign' => s.items \subseteq Wanted(at))
    BY DEF Inv, TypeInv, ItemsAreWanted
  <1> QED BY <1>4, <1>5, RenderedKeeps

LEMMA ScrollKeeps ==
    ASSUME Inv, Scroll
    PROVE  Inv'
  <1> DEFINE s == requestCharts(charts)
             p == page + 1
  <1>1. /\ at # None /\ Send({List(at.scope, at.repos, p)}) /\ Rendered(at, s)
        /\ foreign' = foreign /\ typing' = typing
    BY DEF Scroll, observers, Inv, TypeInv
  <1>2. s \in Slices /\ s.items = charts.items
    BY ReducerFacts DEF Inv, TypeInv
  <1> HIDE DEF s, p
  <1> QED BY <1>1, <1>2, AsksAgain

LEMMA forceRetryKeeps ==
    ASSUME Inv, forceRetry
    PROVE  Inv'
  <1> DEFINE c == clearErrorChart(charts)
             s == requestCharts(c)
  <1>1. /\ at # None /\ Send({List(at.scope, at.repos, page)}) /\ Rendered(at, s)
        /\ foreign' = foreign /\ typing' = typing
    BY DEF forceRetry, RetryRequests, observers
  <1>2. c \in Slices /\ c.items = charts.items
    BY ReducerFacts DEF Inv, TypeInv
  <1> HIDE DEF c
  <1>3. s \in Slices /\ s.items = charts.items
    BY <1>2, ReducerFacts
  <1> HIDE DEF s
  <1> QED BY <1>1, <1>3, AsksAgain

-----------------------------------------------------------------------------
(* Answers *)

LEMMA AnswerKeeps ==
    ASSUME Inv, NEW r \in DOMAIN requests, Answer(r)
    PROVE  Inv'
  <1> DEFINE s == Answered(r)
  <1>1. /\ requests' = requests (-) SetToBag({r}) /\ Rendered(at, s) /\ typing' = typing
        /\ foreign' = (foreign \/ (at # None /\ r.kind = "charts" /\ ~OfQuery(r)))
    BY DEF Answer
  <1>2. TypeInv /\ charts \in Slices /\ WellFormed(r) /\ foreign' \in BOOLEAN
    BY <1>1 DEF Inv, TypeInv
  <1>3. \A o \in DOMAIN requests' : WellFormed(o)
    BY <1>1, <1>2, AnsweredKeeps
  <1>4. ASSUME at # None, ~foreign'
        PROVE  charts.items \subseteq Wanted(at) /\ (r.kind = "charts" => OfQuery(r))
    BY <1>1, <1>4 DEF Inv, ItemsAreWanted
  <1>5. CASE r.kind = "charts"
    <2>1. s = receiveCharts(charts, r)
      BY <1>5 DEF Answered
    <2>2. s \in Slices /\ s.items \subseteq charts.items \union Wanted(r)
      BY <1>2, <1>5, <2>1, ReceiveFacts DEF WellFormed
    <2>3. OfQuery(r) => Wanted(r) = Wanted(at)
      BY DEF OfQuery, Wanted
    <2>4. at # None /\ ~foreign' => s.items \subseteq Wanted(at)
      BY <1>4, <1>5, <2>2, <2>3
    <2> HIDE DEF s
    <2> QED BY <1>1, <1>2, <1>3, <2>2, <2>4, RenderedKeeps
  <1>6. CASE r.kind # "charts"
    <2>1. s \in {charts, selectReadme(charts), selectChartVersion(charts)}
      BY <1>2, <1>6 DEF Answered, WellFormed, OtherKinds
    <2>2. s \in Slices /\ s.items = charts.items
      BY <1>2, <2>1, ReducerFacts
    <2> HIDE DEF s
    <2> QED BY <1>1, <1>2, <1>3, <1>4, <2>2, RenderedKeeps
  <1> QED BY <1>5, <1>6

LEMMA FailKeeps ==
    ASSUME Inv, NEW r \in DOMAIN requests, Fail(r)
    PROVE  Inv'
  <1> DEFINE s == FailedWith(r)
  <1>1. /\ requests' = requests (-) SetToBag({r}) /\ Rendered(at, s) /\ typing' = typing
        /\ foreign' = foreign
    BY DEF Fail
  <1>2. TypeInv /\ charts \in Slices /\ WellFormed(r) /\ foreign' \in BOOLEAN
    BY <1>1 DEF Inv, TypeInv
  <1>3. \A o \in DOMAIN requests' : WellFormed(o)
    BY <1>1, <1>2, AnsweredKeeps
  <1>4. s \in {errorChart(charts), selectReadme(charts), errorChartCategories(charts)}
    BY <1>2 DEF FailedWith, WellFormed, OtherKinds
  <1>5. s \in Slices /\ s.items = charts.items
    BY <1>2, <1>4, ReducerFacts
  <1>6. at # None /\ ~foreign' => s.items \subseteq Wanted(at)
    BY <1>1, <1>5 DEF Inv, ItemsAreWanted
  <1> HIDE DEF s
  <1> QED BY <1>1, <1>2, <1>3, <1>5, <1>6, RenderedKeeps

-----------------------------------------------------------------------------
(* The invariant *)

LEMMA InitHolds ==
    ASSUME Init
    PROVE  Inv
  <1>1. /\ at = None /\ armed = FALSE /\ typing = None /\ foreign = FALSE
        /\ charts = [isFetching |-> FALSE, hasFinishedFetching |-> FALSE, items |-> {},
                     error |-> FALSE]
        /\ DOMAIN requests = {}
    BY DEF Init, EmptyBag, SetToBag
  <1>2. charts \in Slices
    BY <1>1 DEF Slices
  <1> QED BY <1>1, <1>2 DEF Inv, TypeInv, ItemsAreWanted

LEMMA NextKeeps ==
    ASSUME Inv, [Next]_vars
    PROVE  Inv'
  <1>1. ASSUME NEW l \in Locations, ChangeURL(l) PROVE Inv'
    BY <1>1, ChangeURLKeeps
  <1>2. ASSUME NEW text \in Searches, Type(text) PROVE Inv'
    BY <1>2, TypeKeeps
  <1>3. CASE setSearchFilter
    BY <1>3, setSearchFilterKeeps
  <1>4. CASE Leave
    BY <1>4, LeaveKeeps
  <1>5. CASE Scroll
    BY <1>5, ScrollKeeps
  <1>6. CASE forceRetry
    BY <1>6, forceRetryKeeps
  <1>7. ASSUME NEW kind \in OtherKinds, ChartPage(kind) PROVE Inv'
    BY <1>7, ChartPageKeeps
  <1>8. ASSUME NEW r \in DOMAIN requests, Answer(r) \/ Fail(r) PROVE Inv'
    BY <1>8, AnswerKeeps, FailKeeps
  <1>9. CASE UNCHANGED vars
    BY <1>9 DEF vars, catalog, observers, Inv, TypeInv, ItemsAreWanted, Wanted
  <1> QED BY <1>1, <1>2, <1>3, <1>4, <1>5, <1>6, <1>7, <1>8, <1>9 DEF Next, Reply, BagToSet

(* In every state the charts kept for the open catalog were found for its  *)
(* query, unless an answer to another query came in, and nothing but an    *)
(* open catalog asks for more.                                             *)
THEOREM CatalogInvariant == Spec => []Inv
  <1>1. Init => Inv
    BY InitHolds
  <1>2. Inv /\ [Next]_vars => Inv'
    BY NextKeeps
  <1> QED BY <1>1, <1>2, PTL DEF Spec

(* The catalog shows no chart that the namespace, search and repositories  *)
(* of its URL do not lead to (Catalog.tsx resets the charts with every     *)
(* change of the query), unless an answer to an earlier query came in      *)
(* after the change.                                                       *)
THEOREM OwnChartsShown == Spec => []ShownMatchesQuery
  <1>1. Inv => ShownMatchesQuery
    <2>1. Shown \subseteq charts.items
      BY DEF Shown
    <2> QED BY <2>1 DEF Inv, ItemsAreWanted, ShownMatchesQuery
  <1> QED BY <1>1, CatalogInvariant, PTL

-----------------------------------------------------------------------------
(* The forms *)

FormCharts == {Chart(x) : x \in Versions}
Selections ==
    [version : Versions \union {Null}, values : Versions \union {Null},
     versions : FormCharts \union {Null}, error : BOOLEAN]
Texts == [base : Versions \union {Null}, mods : Versions \union {Null}, typed : BOOLEAN]
Forms ==
    [kind : {"new", "upgrade"}, of : Versions, text : Texts, basis : Versions \union {Null},
     stale : BOOLEAN, modified : BOOLEAN, restored : BOOLEAN, deploying : BOOLEAN]
Asked == [kind : {"versions", "select", "version", "deployed"}, of : Versions, visit : Nat]
         \union [kind : {"version"}, of : {Null}, visit : Nat]

(* A form is the one of the URL. *)
FormsTypeInv ==
    /\ formPage \in For!Pages /\ visit \in Nat /\ sel \in Selections
    /\ deployed \in Versions \union {Null} /\ ours \in BOOLEAN
    /\ form # Null => form \in Forms /\ formPage = [at |-> form.kind, of |-> form.of]
    /\ formRequests \subseteq Asked /\ \A q \in formRequests : q.visit <= visit

(* A page that found nothing of an earlier one, and was given nothing,     *)
(* holds and awaits only its own chart.                                    *)
OwnChart ==
    ~tainted /\ formPage.at # "elsewhere" =>
        /\ sel.version # Null => Chart(sel.version) = Chart(formPage.of)
        /\ sel.versions \in {Null, Chart(formPage.of)}
        /\ \A q \in formRequests : q.visit = visit /\ q.of # Null => Chart(q.of) = Chart(formPage.of)

(* What an upgrade page requested as the deployed version is the one of    *)
(* its release.                                                            *)
OwnDeployed ==
    /\ ours /\ deployed # Null /\ formPage.at = "upgrade" => deployed = formPage.of
    /\ \A q \in formRequests : q.visit = visit /\ q.kind = "deployed" =>
          formPage.at = "upgrade" /\ q.of = formPage.of

(* Only ChartView selects a version without its values. *)
OwnValues ==
    /\ \A q \in formRequests : q.visit = visit /\ q.kind = "select" => formPage.at = "view"
    /\ ~tainted /\ formPage.at \in {"new", "upgrade"} /\ sel.version # Null =>
          sel.values = For!ValuesOf(sel.version)

(* The text follows the selected values until the user types; it carries   *)
(* the modifications once they are known, until he restores the defaults,  *)
(* and they are those of the release.                                      *)
TextInv ==
    form # Null =>
        /\ ~form.modified /\ sel.values # Null => form.text.base = sel.values
        /\ form.kind = "upgrade" /\ form.basis # Null /\ ~form.restored =>
              form.text.mods = form.basis
        /\ form.kind = "upgrade" /\ form.basis # Null /\ ~form.stale => form.basis = form.of
        /\ form.text.typed => form.modified

SubmitInv == For!DeploysOwnChart /\ For!ValuesFollowVersion /\ For!ModificationsSurvive

FormsInv == FormsTypeInv /\ OwnChart /\ OwnDeployed /\ OwnValues /\ TextInv /\ SubmitInv

-----------------------------------------------------------------------------
(* The forms' effects *)

(* The text of form f, beside selection s. *)
FitsSelection(f, s) ==
    /\ ~f.modified /\ s.values # Null => f.text.base = s.values
    /\ f.kind = "upgrade" /\ f.basis # Null /\ ~f.restored => f.text.mods = f.basis
    /\ f.kind = "upgrade" /\ f.basis # Null /\ ~f.stale => f.basis = f.of
    /\ f.text.typed => f.modified

LEMMA ApplyFacts ==
    ASSUME NEW f \in Forms, NEW s \in Selections
    PROVE  LET g == For!ApplyModifications(f, s)
           IN /\ g \in Forms /\ g.kind = f.kind /\ g.of = f.of /\ g.basis = f.basis
              /\ g.stale = f.stale /\ g.modified = f.modified /\ g.restored = f.restored
              /\ f.modified \/ s.values = Null => g = f
              /\ ~f.modified /\ s.values # Null =>
                    /\ g.text.base = s.values /\ g.text.mods = f.basis /\ ~g.text.typed
  <1>1. f.basis \in Versions \union {Null} /\ s.values \in Versions \union {Null}
    BY DEF Forms, Selections
  <1>2. CASE ~f.modified /\ s.values # Null
    <2> DEFINE g == [f EXCEPT !.text = For!Text(s.values, f.basis, FALSE)]
    <2>1. For!ApplyModifications(f, s) = g
      BY <1>2 DEF For!ApplyModifications
    <2>2. /\ g \in Forms /\ g.kind = f.kind /\ g.of = f.of /\ g.basis = f.basis
          /\ g.stale = f.stale /\ g.modified = f.modified /\ g.restored = f.restored
          /\ g.text.base = s.values /\ g.text.mods = f.basis /\ ~g.text.typed
      <3>1. /\ For!Text(s.values, f.basis, FALSE) \in Texts
            /\ For!Text(s.values, f.basis, FALSE).base = s.values
            /\ For!Text(s.values, f.basis, FALSE).mods = f.basis
            /\ ~For!Text(s.values, f.basis, FALSE).typed
        BY <1>1 DEF For!Text, Texts
      <3>2. /\ g \in Forms /\ g.kind = f.kind /\ g.of = f.of /\ g.basis = f.basis
            /\ g.stale = f.stale /\ g.modified = f.modified /\ g.restored = f.restored
            /\ g.text = For!Text(s.values, f.basis, FALSE)
        BY <3>1 DEF Forms
      <3> QED BY <3>1, <3>2
    <2> QED BY <1>2, <2>1, <2>2
  <1>3. CASE ~(~f.modified /\ s.values # Null)
    BY <1>3 DEF For!ApplyModifications
  <1> QED BY <1>2, <1>3

LEMMA FollowFacts ==
    ASSUME NEW f \in Forms, NEW s \in Selections
    PROVE  LET g == For!FollowSelection(f, s)
           IN /\ g \in Forms /\ g.kind = f.kind /\ g.of = f.of /\ g.basis = f.basis
              /\ g.stale = f.stale /\ g.modified = f.modified /\ g.restored = f.restored
              /\ f.modified => g = f
              /\ ~f.modified => g.text.base = s.values /\ ~g.text.typed
  <1>1. s.values \in Versions \union {Null}
    BY DEF Selections
  <1>2. CASE f.modified
    BY <1>2 DEF For!FollowSelection
  <1>3. CASE ~f.modified
    <2> DEFINE g == [f EXCEPT !.text = For!Text(s.values, Null, FALSE)]
    <2>1. For!FollowSelection(f, s) = g
      BY <1>3 DEF For!FollowSelection
    <2>2. /\ For!Text(s.values, Null, FALSE) \in Texts
          /\ For!Text(s.values, Null, FALSE).base = s.values
          /\ ~For!Text(s.values, Null, FALSE).typed
      BY <1>1 DEF For!Text, Texts
    <2>3. /\ g \in Forms /\ g.kind = f.kind /\ g.of = f.of /\ g.basis = f.basis
          /\ g.stale = f.stale /\ g.modified = f.modified /\ g.restored = f.restored
          /\ g.text = For!Text(s.values, Null, FALSE)
      BY <2>2 DEF Forms
    <2> HIDE DEF g
    <2> QED BY <1>3, <2>1, <2>2, <2>3
  <1> QED BY <1>2, <1>3

LEMMA ComputeFacts ==
    ASSUME NEW f \in Forms, NEW d \in Versions \union {Null}, NEW own \in BOOLEAN
    PROVE  LET g == For!ComputeModifications(f, d, own)
           IN /\ g \in Forms /\ g.kind = f.kind /\ g.of = f.of
              /\ g.modified = f.modified /\ g.restored = f.restored
              /\ \/ g = f
                 \/ /\ f.basis = Null /\ d # Null /\ g.basis = d /\ g.stale = ~own
                    /\ g.text.base = d /\ g.text.mods = d /\ ~g.text.typed
  <1>1. CASE For!ValuesOf(d) # Null /\ f.basis = Null
    <2> DEFINE g == [f EXCEPT !.basis = d, !.stale = ~own, !.text = For!Text(d, d, FALSE)]
    <2>1. For!ComputeModifications(f, d, own) = g
      BY <1>1 DEF For!ComputeModifications
    <2>2. /\ For!Text(d, d, FALSE) \in Texts /\ For!Text(d, d, FALSE).mods = d
          /\ For!Text(d, d, FALSE).base = d /\ ~For!Text(d, d, FALSE).typed
      BY DEF For!Text, Texts
    <2>3. /\ g \in Forms /\ g.text = For!Text(d, d, FALSE) /\ g.basis = d /\ g.stale = ~own
          /\ g.kind = f.kind /\ g.of = f.of /\ g.modified = f.modified /\ g.restored = f.restored
      BY <2>2 DEF Forms
    <2>4. d # Null
      BY <1>1 DEF For!ValuesOf
    <2> HIDE DEF g
    <2> QED BY <1>1, <2>1, <2>2, <2>3, <2>4
  <1>2. CASE ~(For!ValuesOf(d) # Null /\ f.basis = Null)
    BY <1>2 DEF For!ComputeModifications
  <1> QED BY <1>1, <1>2

(* A form goes on fitting what is selected; and what the user typed is     *)
(* there, unless the modifications were computed just now.                 *)
LEMMA RunEffectsFacts ==
    ASSUME NEW f \in Forms, f # Null, sel \in Selections, FitsSelection(f, sel),
           NEW s \in Selections, NEW d \in Versions \union {Null}, NEW own \in BOOLEAN,
           f.kind = "upgrade" /\ own /\ d # Null => d = f.of
    PROVE  LET g == For!RunEffects(f, s, d, own)
           IN /\ g \in Forms /\ g.kind = f.kind /\ g.of = f.of
              /\ FitsSelection(g, s)
              /\ f.text.typed => g.text.typed \/ (f.basis = Null /\ g.basis # Null)
  <1>1. CASE f.kind = "new"
    <2>1. For!RunEffects(f, s, d, own)
          = IF s.values # sel.values THEN For!FollowSelection(f, s) ELSE f
      BY <1>1 DEF For!RunEffects
    <2> QED BY <1>1, <2>1, FollowFacts DEF FitsSelection
  <1>2. CASE f.kind # "new"
    <2> DEFINE g == For!ComputeModifications(f, d, own)
    <2>0. f.kind = "upgrade"
      BY <1>2 DEF Forms
    <2>1. For!RunEffects(f, s, d, own) = IF s.values # sel.values \/ g.basis # f.basis
                                         THEN For!ApplyModifications(g, s) ELSE g
      BY <1>2 DEF For!RunEffects
    <2>2. /\ g \in Forms /\ g.kind = f.kind /\ g.of = f.of
          /\ g.modified = f.modified /\ g.restored = f.restored
          /\ \/ g = f
             \/ /\ f.basis = Null /\ d # Null /\ g.basis = d /\ g.stale = ~own
                /\ g.text.mods = d /\ ~g.text.typed
      BY ComputeFacts
    <2> HIDE DEF g
    <2>3. /\ For!ApplyModifications(g, s) \in Forms /\ For!ApplyModifications(g, s).kind = g.kind
          /\ For!ApplyModifications(g, s).of = g.of /\ For!ApplyModifications(g, s).basis = g.basis
          /\ For!ApplyModifications(g, s).stale = g.stale
          /\ For!ApplyModifications(g, s).modified = g.modified
          /\ For!ApplyModifications(g, s).restored = g.restored
          /\ g.modified \/ s.values = Null => For!ApplyModifications(g, s) = g
          /\ ~g.modified /\ s.values # Null =>
                /\ For!ApplyModifications(g, s).text.base = s.values
                /\ For!ApplyModifications(g, s).text.mods = g.basis
                /\ ~For!ApplyModifications(g, s).text.typed
      BY <2>2, ApplyFacts
    <2>b. g.basis # Null /\ ~g.stale => g.basis = f.of
      BY <2>0, <2>2 DEF FitsSelection
    <2>4. CASE For!RunEffects(f, s, d, own) = For!ApplyModifications(g, s)
      BY <2>0, <2>2, <2>3, <2>4, <2>b DEF FitsSelection
    <2>5. CASE /\ For!RunEffects(f, s, d, own) = g /\ s.values = sel.values
               /\ g.basis = f.basis
      BY <2>0, <2>2, <2>5, <2>b DEF FitsSelection
    <2> QED BY <2>1, <2>4, <2>5
  <1> QED BY <1>1, <1>2

LEMMA NewFormFacts ==
    ASSUME NEW x \in Versions, sel \in Selections
    PROVE  /\ For!NewForm(x) \in Forms /\ For!NewForm(x).kind = "new" /\ For!NewForm(x).of = x
           /\ For!UpgradeFormOf(x) \in Forms /\ For!UpgradeFormOf(x).kind = "upgrade"
           /\ For!UpgradeFormOf(x).of = x
           /\ \A f \in {For!NewForm(x), For!UpgradeFormOf(x)} :
                 f.basis = Null /\ ~f.modified /\ ~f.restored /\ ~f.text.typed
  <1>1. /\ For!Text(sel.values, Null, FALSE) \in Texts /\ For!Text(x, x, FALSE) \in Texts
        /\ ~For!Text(sel.values, Null, FALSE).typed /\ ~For!Text(x, x, FALSE).typed
    BY DEF For!Text, Texts, Selections
  <1>2. /\ For!NewForm(x) \in Forms /\ For!NewForm(x).kind = "new" /\ For!NewForm(x).of = x
        /\ For!NewForm(x).text = For!Text(sel.values, Null, FALSE)
        /\ For!NewForm(x).basis = Null /\ ~For!NewForm(x).modified /\ ~For!NewForm(x).restored
    BY <1>1 DEF For!NewForm, Forms
  <1>3. /\ For!UpgradeFormOf(x) \in Forms /\ For!UpgradeFormOf(x).kind = "upgrade"
        /\ For!UpgradeFormOf(x).of = x /\ For!UpgradeFormOf(x).text = For!Text(x, x, FALSE)
        /\ For!UpgradeFormOf(x).basis = For!NewForm(x).basis
        /\ For!UpgradeFormOf(x).modified = For!NewForm(x).modified
        /\ For!UpgradeFormOf(x).restored = For!NewForm(x).restored
    BY <1>1, <1>2 DEF For!UpgradeFormOf, Forms
  <1> QED BY <1>1, <1>2, <1>3

-----------------------------------------------------------------------------
(* Answers *)

(* What an answer to a request of this page may select. *)
Selects(q, s) ==
    /\ s.version # sel.version => s.version = q.of
    /\ s.versions # sel.versions => s.versions = Chart(q.of)
    /\ q.kind # "select" => \/ s.version = sel.version /\ s.values = sel.values
                            \/ s.values = For!ValuesOf(s.version)

(* A request that the upgrade form sends for the deployed version. *)
Followed(r) ==
    /\ r.visit = visit /\ r.kind = "version"
    /\ r.of # Null => Chart(r.of) = Chart(formPage.of)

LEMMA FollowUpFacts ==
    ASSUME visit \in Nat, NEW x \in Versions \union {Null}, NEW r \in For!FollowUp(x)
    PROVE  r \in Asked /\ Followed(r)
  <1>1. CASE x # Null /\ For!Numbered(x) = {}
    <2>1. r = For!Request("version", Null, visit)
      BY <1>1 DEF For!FollowUp
    <2> QED BY <2>1 DEF For!Request, Asked, Followed
  <1>2. CASE x # Null /\ For!Numbered(x) # {}
    <2>1. PICK y \in For!Numbered(x) : r = For!Request("version", y, visit)
      BY <1>2 DEF For!FollowUp
    <2>2. y \in Versions /\ Chart(y) = Chart(formPage.of)
      BY DEF For!Numbered
    <2> QED BY <2>1, <2>2 DEF For!Request, Asked, Followed
  <1>3. x # Null
    BY DEF For!FollowUp
  <1> QED BY <1>1, <1>2, <1>3

LEMMA StoreKeeps ==
    ASSUME FormsInv, NEW q \in formRequests, q.of \in Versions, q.of # Null,
           NEW s \in Selections, NEW d \in Versions \union {Null}, NEW own \in BOOLEAN,
           For!Store(q, s, d, own), own /\ d # Null /\ formPage.at = "upgrade" => d = formPage.of,
           formRequests' \subseteq Asked,
           \A r \in formRequests' : r \in formRequests \/ Followed(r),
           Selects(q, s)
    PROVE  FormsInv'
  <1>1. /\ sel' = s /\ deployed' = d /\ ours' = own /\ form' = For!RunEffects(form, s, d, own)
        /\ tainted' = (tainted \/ q.visit # visit)
        /\ formPage' = formPage /\ visit' = visit /\ submits' = submits
    BY DEF For!Store
  <1>2. /\ form # Null => form \in Forms
        /\ form # Null => FitsSelection(form, sel)
        /\ form # Null => formPage.at = form.kind /\ formPage.of = form.of
        /\ sel \in Selections
    BY DEF FormsInv, FormsTypeInv, TextInv, FitsSelection
  <1>3. form' # Null => /\ form # Null /\ form' \in Forms /\ form'.kind = form.kind
                        /\ form'.of = form.of /\ FitsSelection(form', s)
    <2>1. CASE form = Null
      BY <1>1, <2>1 DEF For!RunEffects
    <2>2. CASE form # Null
      <3> DEFINE g == For!RunEffects(form, s, d, own)
      <3>1. g \in Forms /\ g.kind = form.kind /\ g.of = form.of /\ FitsSelection(g, s)
        BY <1>2, <2>2, RunEffectsFacts
      <3> QED BY <1>1, <2>2, <3>1
    <2> QED BY <2>1, <2>2
  <1>4. FormsTypeInv'
    <2>1. \A r \in formRequests' : r.visit <= visit'
      BY <1>1 DEF Followed, FormsInv, FormsTypeInv
    <2> QED BY <1>1, <1>3, <2>1 DEF FormsInv, FormsTypeInv
  <1>5. OwnChart'
    <2> SUFFICES ASSUME ~tainted, q.visit = visit, formPage.at # "elsewhere"
                 PROVE  /\ s.version # Null => Chart(s.version) = Chart(formPage.of)
                        /\ s.versions \in {Null, Chart(formPage.of)}
                        /\ \A r \in formRequests' : r.visit = visit /\ r.of # Null =>
                              Chart(r.of) = Chart(formPage.of)
      BY <1>1 DEF OwnChart
    <2>1. Chart(q.of) = Chart(formPage.of)
      BY DEF FormsInv, OwnChart
    <2> QED BY <2>1 DEF FormsInv, OwnChart, Selects, Followed
  <1>6. OwnValues'
    <2>1. \A r \in formRequests' : r.visit = visit /\ r.kind = "select" => formPage.at = "view"
      BY DEF FormsInv, OwnValues, Followed
    <2>2. ASSUME ~tainted, q.visit = visit, formPage.at \in {"new", "upgrade"}, s.version # Null
          PROVE  s.values = For!ValuesOf(s.version)
      BY <2>2 DEF FormsInv, OwnValues, Selects
    <2> QED BY <1>1, <2>1, <2>2 DEF OwnValues
  <1>7. TextInv'
    BY <1>1, <1>3 DEF TextInv, FitsSelection
  <1>8. SubmitInv'
    BY <1>1 DEF FormsInv, SubmitInv, For!DeploysOwnChart, For!ValuesFollowVersion,
           For!ModificationsSurvive
  <1>9. OwnDeployed'
    BY <1>1 DEF FormsInv, OwnDeployed, Followed
  <1> QED BY <1>4, <1>5, <1>6, <1>7, <1>8, <1>9 DEF FormsInv

LEMMA FormAnswerKeeps ==
    ASSUME FormsInv, NEW q \in formRequests, For!Answer(q)
    PROVE  FormsInv'
  <1>0. /\ sel \in Selections /\ q \in Asked
        /\ formRequests \subseteq Asked /\ deployed \in Versions \union {Null} /\ visit \in Nat
        /\ ours \in BOOLEAN
    BY DEF FormsInv, FormsTypeInv
  <1>q. q.of # Null \/ q.kind # "version" => q.of \in Versions /\ Chart(q.of) \in FormCharts
    BY <1>0 DEF Asked, FormCharts
  <1>v. q.of \in Versions => q.of # Null
    BY FormAssumption DEF For!FormConstants
  <1>d. ours /\ deployed # Null /\ formPage.at = "upgrade" => deployed = formPage.of
    BY DEF FormsInv, OwnDeployed
  <1>1. CASE For!receiveChartVersions(q)
    <2> DEFINE s == [sel EXCEPT !.versions = Chart(q.of), !.error = FALSE]
    <2>0. q.of \in Versions /\ Chart(q.of) \in FormCharts /\ q.of # Null
      BY <1>q, <1>v, <1>1 DEF For!receiveChartVersions
    <2>1. /\ s \in Selections /\ s.version = sel.version /\ s.values = sel.values
          /\ s.versions = Chart(q.of)
      BY <1>0, <2>0 DEF Selections
    <2>2. For!Store(q, s, deployed, ours) /\ formRequests' = formRequests \ {q} /\ q.kind # "select"
      BY <1>1 DEF For!receiveChartVersions
    <2>3. formRequests' \subseteq Asked /\ \A r \in formRequests' : r \in formRequests
      BY <1>0, <2>2
    <2>4. Selects(q, s)
      BY <2>1, <2>2 DEF Selects
    <2> HIDE DEF s
    <2> QED BY <1>0, <1>d, <2>0, <2>1, <2>2, <2>3, <2>4, StoreKeeps
  <1>2. CASE For!SelectFromVersions(q)
    <2> DEFINE s == [version |-> q.of, values |-> Null, versions |-> Chart(q.of), error |-> FALSE]
    <2>0. q.of \in Versions /\ Chart(q.of) \in FormCharts /\ q.of # Null
      BY <1>q, <1>v, <1>2 DEF For!SelectFromVersions
    <2>1. s \in Selections /\ s.version = q.of /\ s.versions = Chart(q.of)
      BY <1>0, <2>0 DEF Selections
    <2>2. For!Store(q, s, deployed, ours) /\ formRequests' = formRequests \ {q} /\ q.kind = "select"
      BY <1>2 DEF For!SelectFromVersions
    <2>3. formRequests' \subseteq Asked /\ \A r \in formRequests' : r \in formRequests
      BY <1>0, <2>2
    <2>4. Selects(q, s)
      BY <2>1, <2>2 DEF Selects
    <2> HIDE DEF s
    <2> QED BY <1>0, <1>d, <2>0, <2>1, <2>2, <2>3, <2>4, StoreKeeps
  <1>3. CASE For!selectChartVersion(q)
    <2> DEFINE s == [sel EXCEPT !.version = q.of, !.values = For!ValuesOf(q.of), !.error = FALSE]
    <2>0. q.of \in Versions /\ Chart(q.of) \in FormCharts /\ q.of # Null
      BY <1>q, <1>v, <1>3 DEF For!selectChartVersion
    <2>1. /\ s \in Selections /\ s.version = q.of /\ s.values = For!ValuesOf(q.of)
          /\ s.versions = sel.versions
      BY <1>0, <2>0 DEF Selections, For!ValuesOf
    <2>2. For!Store(q, s, deployed, ours) /\ formRequests' = formRequests \ {q} /\ q.kind # "select"
      BY <1>3 DEF For!selectChartVersion
    <2>3. formRequests' \subseteq Asked /\ \A r \in formRequests' : r \in formRequests
      BY <1>0, <2>2
    <2>4. Selects(q, s)
      BY <2>1, <2>2 DEF Selects
    <2> HIDE DEF s
    <2> QED BY <1>0, <1>d, <2>0, <2>1, <2>2, <2>3, <2>4, StoreKeeps
  <1>4. CASE For!receiveDeployedChartVersion(q)
    <2> DEFINE own == q.visit = visit
    <2>0. q.of \in Versions /\ q.of # Null /\ q.kind = "deployed"
      BY <1>q, <1>v, <1>4 DEF For!receiveDeployedChartVersion
    <2>1. \A r \in For!FollowUp(q.of) : r \in Asked /\ Followed(r)
      BY <1>0, <2>0, FollowUpFacts
    <2>2. For!Store(q, sel, q.of, own) /\ formRequests' \subseteq formRequests \union For!FollowUp(q.of)
      BY <1>4 DEF For!receiveDeployedChartVersion
    <2>3. formRequests' \subseteq Asked
      BY <1>0, <2>1, <2>2
    <2>4. \A t \in formRequests' : t \in formRequests \/ Followed(t)
      BY <2>1, <2>2
    <2>5. Selects(q, sel)
      BY DEF Selects
    <2>6. own \in BOOLEAN /\ (own => q.of = formPage.of)
      BY <2>0 DEF FormsInv, OwnDeployed
    <2> HIDE DEF own
    <2> QED BY <1>0, <2>0, <2>2, <2>3, <2>4, <2>5, <2>6, StoreKeeps
  <1>5. CASE For!errorChart(q)
    <2>1. /\ sel' \in Selections /\ sel'.version = sel.version /\ sel'.values = sel.values
          /\ sel'.versions = sel.versions
      BY <1>0, <1>5 DEF For!errorChart, Selections
    <2>2. /\ formRequests' = formRequests \ {q} /\ tainted' = (tainted \/ q.visit # visit)
          /\ UNCHANGED <<formPage, visit, deployed, ours, form, submits>>
      BY <1>5 DEF For!errorChart
    <2>3. FormsTypeInv'
      BY <2>1, <2>2 DEF FormsInv, FormsTypeInv
    <2>4. OwnChart' /\ OwnValues' /\ OwnDeployed'
      BY <2>1, <2>2 DEF FormsInv, OwnChart, OwnValues, OwnDeployed
    <2>5. TextInv' /\ SubmitInv'
      BY <2>1, <2>2 DEF FormsInv, TextInv, SubmitInv, For!DeploysOwnChart,
             For!ValuesFollowVersion,
                        For!ModificationsSurvive
    <2> QED BY <2>3, <2>4, <2>5 DEF FormsInv
  <1> QED BY <1>1, <1>2, <1>3, <1>4, <1>5 DEF For!Answer

-----------------------------------------------------------------------------
(* Pages and what the user does on them *)

LEMMA PageFacts ==
    ASSUME NEW p \in For!Pages
    PROVE  /\ p.at \in {"elsewhere", "view", "new", "upgrade"}
           /\ p.at # "elsewhere" => p.of \in Versions /\ p = [at |-> p.at, of |-> p.of]
  BY DEF For!Pages, For!Elsewhere

LEMMA OpenFacts ==
    ASSUME NEW p \in For!Pages, NEW v \in Nat, NEW q \in For!OpenRequests(p, v)
    PROVE  /\ q \in Asked /\ q.visit = v /\ q.of = p.of
           /\ q.kind = "select" => p.at = "view"
           /\ q.kind # "deployed"
  <1>1. CASE p.at = "view"
    <2>1. q = For!Request("select", p.of, v) /\ p.of \in Versions
      BY <1>1, PageFacts DEF For!OpenRequests
    <2> QED BY <1>1, <2>1 DEF For!Request, Asked
  <1>2. CASE p.at = "new"
    <2>1. q \in {For!Request("versions", p.of, v), For!Request("version", p.of, v)} /\ p.of \in Versions
      BY <1>2, PageFacts DEF For!OpenRequests
    <2> QED BY <2>1 DEF For!Request, Asked
  <1>3. CASE p.at \notin {"view", "new"}
    BY <1>3 DEF For!OpenRequests
  <1> QED BY <1>1, <1>2, <1>3

LEMMA LeaveFacts ==
    ASSUME sel \in Selections
    PROVE  /\ For!Leave \in Selections
           /\ formPage.at = "view" \/ sel = For!NoSelection => For!Leave = For!NoSelection
           /\ For!NoSelection.version = Null /\ For!NoSelection.versions = Null
  BY DEF For!Leave, For!NoSelection, Selections

LEMMA VisitKeeps ==
    ASSUME FormsInv, NEW p \in For!Pages, For!Visit(p)
    PROVE  FormsInv'
  <1>0. sel \in Selections /\ visit \in Nat /\ formRequests \subseteq Asked
    BY DEF FormsInv, FormsTypeInv
  <1>n. PICK n \in Nat : n = visit + 1
    BY <1>0
  <1>1. /\ formPage' = p /\ visit' = n /\ sel' = For!Leave
        /\ form' = IF p.at = "new" THEN For!FollowSelection(For!NewForm(p.of), sel') ELSE Null
        /\ formRequests' = formRequests \union For!OpenRequests(p, n)
        /\ tainted' = (formPage.at # "view" /\ sel # For!NoSelection)
        /\ ours' = FALSE /\ UNCHANGED <<deployed, submits>>
    BY <1>n DEF For!Visit
  <1>2. /\ sel' \in Selections
        /\ ~tainted' => sel' = For!NoSelection
        /\ For!NoSelection.version = Null /\ For!NoSelection.versions = Null
    BY <1>0, <1>1, LeaveFacts
  <1>3. \A q \in formRequests' : /\ q \in Asked /\ q.visit <= n
                                 /\ q.visit = n => /\ q.of = p.of /\ q.kind # "deployed"
                                                   /\ q.kind = "select" => p.at = "view"
    <2>1. \A q \in formRequests : q \in Asked /\ q.visit <= n /\ q.visit # n
      BY <1>0, <1>n DEF FormsInv, FormsTypeInv, Asked
    <2>2. \A q \in For!OpenRequests(p, n) : /\ q \in Asked /\ q.visit = n /\ q.of = p.of
                                            /\ q.kind = "select" => p.at = "view"
                                            /\ q.kind # "deployed"
      BY OpenFacts
    <2> QED BY <1>1, <2>1, <2>2
  <1>4. form' # Null => /\ p.at = "new" /\ form' \in Forms /\ form'.kind = "new"
                        /\ form'.of = p.of /\ FitsSelection(form', sel')
    <2> SUFFICES ASSUME p.at = "new"
                 PROVE  LET g == For!FollowSelection(For!NewForm(p.of), sel')
                        IN /\ g \in Forms /\ g.kind = "new" /\ g.of = p.of /\ FitsSelection(g, sel')
      BY <1>1
    <2>1. /\ For!NewForm(p.of) \in Forms /\ For!NewForm(p.of).kind = "new" /\ For!NewForm(p.of).of = p.of
          /\ ~For!NewForm(p.of).modified
      BY <1>0, PageFacts, NewFormFacts
    <2> DEFINE g == For!FollowSelection(For!NewForm(p.of), sel')
    <2>2. /\ g \in Forms /\ g.kind = "new" /\ g.of = p.of /\ ~g.modified
          /\ g.text.base = sel'.values /\ ~g.text.typed
      BY <1>2, <2>1, FollowFacts
    <2> QED BY <2>2 DEF FitsSelection
  <1>5. FormsTypeInv'
    <2>1. form' # Null => formPage' = [at |-> form'.kind, of |-> form'.of]
      BY <1>1, <1>4, PageFacts
    <2>2. /\ visit' \in Nat /\ formPage' \in For!Pages /\ deployed' \in Versions \union {Null}
          /\ ours' \in BOOLEAN
      BY <1>1 DEF FormsInv, FormsTypeInv
    <2> QED BY <1>1, <1>2, <1>3, <1>4, <2>1, <2>2 DEF FormsTypeInv
  <1>6. OwnChart' /\ OwnValues' /\ OwnDeployed'
    BY <1>1, <1>2, <1>3 DEF OwnChart, OwnValues, OwnDeployed
  <1>7. TextInv'
    BY <1>4 DEF TextInv, FitsSelection
  <1>8. SubmitInv'
    BY <1>1 DEF FormsInv, SubmitInv, For!DeploysOwnChart, For!ValuesFollowVersion,
           For!ModificationsSurvive
  <1> QED BY <1>5, <1>6, <1>7, <1>8 DEF FormsInv

LEMMA getDeployedKeeps ==
    ASSUME FormsInv, For!getDeployedChartVersion
    PROVE  FormsInv'
  <1> DEFINE t == For!Request("deployed", formPage.of, visit)
  <1>0. sel \in Selections /\ visit \in Nat /\ formPage \in For!Pages /\ formRequests \subseteq Asked
    BY DEF FormsInv, FormsTypeInv
  <1>1. /\ formPage.at = "upgrade" /\ deployed' = Null /\ form = Null
        /\ formRequests' = formRequests \union {t}
        /\ UNCHANGED <<formPage, visit, sel, ours, form, submits, tainted>>
    BY DEF For!getDeployedChartVersion
  <1>2. formPage.of \in Versions
    BY <1>0, <1>1, PageFacts
  <1>3. t \in Asked /\ t.visit = visit /\ t.of = formPage.of /\ t.kind = "deployed"
    BY <1>0, <1>2 DEF For!Request, Asked
  <1> HIDE DEF t
  <1>4. FormsTypeInv'
    <2>1. formRequests' \subseteq Asked /\ \A q \in formRequests' : q.visit <= visit'
      BY <1>0, <1>1, <1>3 DEF FormsInv, FormsTypeInv
    <2> QED BY <1>1, <2>1 DEF FormsInv, FormsTypeInv
  <1>5. OwnChart' /\ OwnValues' /\ OwnDeployed'
    BY <1>1, <1>3 DEF FormsInv, OwnChart, OwnValues, OwnDeployed
  <1>6. TextInv'
    BY <1>1 DEF TextInv
  <1>7. SubmitInv'
    BY <1>1 DEF FormsInv, SubmitInv, For!DeploysOwnChart, For!ValuesFollowVersion,
           For!ModificationsSurvive
  <1> QED BY <1>4, <1>5, <1>6, <1>7 DEF FormsInv

(* The form's effects, on mounting, see what an earlier page left in       *)
(* charts.deployed; then it is stale.                                      *)
LEMMA MountedFacts ==
    ASSUME FormsInv, formPage.at = "upgrade"
    PROVE  LET g == For!Mounted(For!UpgradeFormOf(formPage.of))
           IN g \in Forms /\ g.kind = "upgrade" /\ g.of = formPage.of /\ FitsSelection(g, sel)
  <1> DEFINE f == For!UpgradeFormOf(formPage.of)
             m == For!ComputeModifications(f, deployed, ours)
             g == For!ApplyModifications(m, sel)
  <1>0. /\ sel \in Selections /\ formPage.of \in Versions
        /\ deployed \in Versions \union {Null} /\ ours \in BOOLEAN
        /\ ours /\ deployed # Null => deployed = formPage.of
    BY PageFacts DEF FormsInv, FormsTypeInv, OwnDeployed
  <1>1. /\ f \in Forms /\ f.kind = "upgrade" /\ f.of = formPage.of
        /\ f.basis = Null /\ ~f.modified /\ ~f.restored /\ ~f.text.typed
    BY <1>0, NewFormFacts
  <1> HIDE DEF f
  <1>2. /\ m \in Forms /\ m.kind = f.kind /\ m.of = f.of
        /\ m.modified = f.modified /\ m.restored = f.restored
        /\ \/ m = f
           \/ /\ deployed # Null /\ m.basis = deployed /\ m.stale = ~ours
              /\ m.text.mods = deployed /\ ~m.text.typed
    BY <1>0, <1>1, ComputeFacts
  <1> HIDE DEF m
  <1>3. /\ m.basis # Null /\ ~m.stale => m.basis = formPage.of
        /\ m.basis # Null => m.text.mods = m.basis
        /\ ~m.modified /\ ~m.text.typed
    BY <1>0, <1>1, <1>2
  <1>4. /\ g \in Forms /\ g.kind = m.kind /\ g.of = m.of /\ g.basis = m.basis
        /\ g.stale = m.stale /\ g.modified = m.modified /\ g.restored = m.restored
        /\ sel.values = Null => g = m
        /\ sel.values # Null =>
              g.text.base = sel.values /\ g.text.mods = m.basis /\ ~g.text.typed
    BY <1>0, <1>2, <1>3, ApplyFacts
  <1>5. FitsSelection(g, sel)
    BY <1>1, <1>2, <1>3, <1>4 DEF FitsSelection
  <1>6. For!Mounted(For!UpgradeFormOf(formPage.of)) = g
    BY DEF For!Mounted, f, m
  <1> HIDE DEF g
  <1> QED BY <1>1, <1>2, <1>4, <1>5, <1>6

LEMMA ShowUpgradeFormKeeps ==
    ASSUME FormsInv, For!ShowUpgradeForm
    PROVE  FormsInv'
  <1>0. /\ sel \in Selections /\ visit \in Nat /\ formPage \in For!Pages /\ formRequests \subseteq Asked
        /\ deployed \in Versions \union {Null}
    BY DEF FormsInv, FormsTypeInv
  <1> DEFINE r == For!Request("versions", formPage.of, visit)
             t == For!Request("deployed", formPage.of, visit)
             g == For!Mounted(For!UpgradeFormOf(formPage.of))
  <1>1. /\ formPage.at = "upgrade" /\ deployed' = Null /\ form' = g
        /\ formRequests' = formRequests \union For!FollowUp(deployed) \union {r, t}
        /\ UNCHANGED <<formPage, visit, sel, ours, submits, tainted>>
    BY DEF For!ShowUpgradeForm
  <1>2. formPage.of \in Versions /\ formPage = [at |-> "upgrade", of |-> formPage.of]
    BY <1>0, <1>1, PageFacts
  <1>3. /\ \A q \in {r, t} : /\ q \in Asked /\ q.visit = visit /\ q.of = formPage.of
                             /\ q.kind # "select"
        /\ \A q \in For!FollowUp(deployed) : q \in Asked /\ Followed(q)
    <2>1. \A q \in {r, t} : /\ q \in Asked /\ q.visit = visit /\ q.of = formPage.of
                            /\ q.kind # "select"
      BY <1>0, <1>2 DEF For!Request, Asked
    <2> QED BY <1>0, <2>1, FollowUpFacts
  <1> HIDE DEF r, t
  <1>5. g \in Forms /\ g.kind = "upgrade" /\ g.of = formPage.of /\ FitsSelection(g, sel)
    BY <1>1, MountedFacts
  <1> HIDE DEF g
  <1>6. FormsTypeInv'
    <2>1. formRequests' \subseteq Asked /\ \A q \in formRequests' : q.visit <= visit'
      BY <1>0, <1>1, <1>3 DEF FormsInv, FormsTypeInv, Followed
    <2> QED BY <1>0, <1>1, <1>2, <1>5, <2>1 DEF FormsInv, FormsTypeInv
  <1>7. OwnChart' /\ OwnValues' /\ OwnDeployed'
    BY <1>1, <1>3 DEF FormsInv, OwnChart, OwnValues, OwnDeployed, Followed
  <1>8. TextInv'
    BY <1>1, <1>5 DEF TextInv, FitsSelection
  <1>9. SubmitInv'
    BY <1>1 DEF FormsInv, SubmitInv, For!DeploysOwnChart, For!ValuesFollowVersion,
           For!ModificationsSurvive
  <1> QED BY <1>6, <1>7, <1>8, <1>9 DEF FormsInv

(* The state of the form changes, and nothing else that the page shows. *)
LEMMA FormKeeps ==
    ASSUME FormsInv, form' # Null => /\ form # Null /\ form' \in Forms /\ form'.kind = form.kind
                                     /\ form'.of = form.of /\ FitsSelection(form', sel),
           UNCHANGED <<formPage, visit, sel, deployed, ours, formRequests, tainted>>, SubmitInv'
    PROVE  FormsInv'
  <1>1. FormsTypeInv'
    BY DEF FormsInv, FormsTypeInv
  <1>2. OwnChart' /\ OwnValues' /\ OwnDeployed'
    BY DEF FormsInv, OwnChart, OwnValues, OwnDeployed
  <1>3. TextInv'
    BY DEF TextInv, FitsSelection
  <1> QED BY <1>1, <1>2, <1>3 DEF FormsInv

LEMMA selectVersionKeeps ==
    ASSUME FormsInv, NEW x \in Versions, For!selectVersion(x)
    PROVE  FormsInv'
  <1> DEFINE r == For!Request("version", x, visit)
  <1>0. /\ sel \in Selections /\ visit \in Nat /\ formPage \in For!Pages /\ formRequests \subseteq Asked
        /\ form \in Forms /\ formPage = [at |-> form.kind, of |-> form.of] /\ form # Null
        /\ sel.versions # Null
    BY DEF FormsInv, FormsTypeInv, For!selectVersion, For!SelectorShown
  <1>1. /\ Chart(x) = sel.versions /\ formRequests' = formRequests \union {r}
        /\ formPage' = IF form.kind = "new" THEN [formPage EXCEPT !.of = x] ELSE formPage
        /\ form' = IF form.kind = "new" THEN [form EXCEPT !.of = x] ELSE form
        /\ UNCHANGED <<visit, sel, deployed, ours, submits, tainted>>
    BY DEF For!selectVersion
  <1>2. r \in Asked /\ r.visit = visit /\ r.of = x /\ r.kind = "version"
    BY <1>0 DEF For!Request, Asked
  <1> HIDE DEF r
  <1>3. /\ form' \in Forms /\ form'.kind = form.kind /\ form'.text = form.text
        /\ form'.basis = form.basis /\ form'.stale = form.stale /\ form'.modified = form.modified
        /\ form'.restored = form.restored
        /\ form'.of = IF form.kind = "new" THEN x ELSE form.of
    BY <1>0, <1>1 DEF Forms
  <1>4. /\ formPage' = [at |-> form'.kind, of |-> form'.of] /\ formPage' \in For!Pages
        /\ formPage'.at = formPage.at /\ formPage'.of \in {formPage.of, x}
        /\ formPage.at \in {"new", "upgrade"}
        /\ formPage.at = "upgrade" => formPage' = formPage
    BY <1>0, <1>1, <1>3 DEF For!Pages, Forms
  <1>5. FormsTypeInv'
    <2>1. formRequests' \subseteq Asked /\ \A q \in formRequests' : q.visit <= visit'
      BY <1>0, <1>1, <1>2 DEF FormsInv, FormsTypeInv
    <2> QED BY <1>0, <1>1, <1>3, <1>4, <2>1 DEF FormsInv, FormsTypeInv
  <1>6. OwnChart'
    <2>1. ~tainted => Chart(x) = Chart(formPage.of)
      BY <1>0, <1>1, <1>4 DEF FormsInv, OwnChart
    <2>2. ~tainted => Chart(formPage'.of) = Chart(formPage.of)
      BY <1>4, <2>1
    <2> QED BY <1>1, <1>2, <1>4, <2>1, <2>2 DEF FormsInv, OwnChart
  <1>7. OwnValues'
    BY <1>1, <1>2, <1>4 DEF FormsInv, OwnValues
  <1>8. TextInv'
    BY <1>0, <1>1, <1>3 DEF FormsInv, TextInv
  <1>9. SubmitInv'
    BY <1>1 DEF FormsInv, SubmitInv, For!DeploysOwnChart, For!ValuesFollowVersion,
           For!ModificationsSurvive
  <1>10. OwnDeployed'
    BY <1>1, <1>2, <1>4 DEF FormsInv, OwnDeployed
  <1> QED BY <1>5, <1>6, <1>7, <1>8, <1>9, <1>10 DEF FormsInv

LEMMA EditKeeps ==
    ASSUME FormsInv, For!handleValuesChange \/ For!restoreDefaultValues
    PROVE  FormsInv'
  <1>0. /\ form \in Forms /\ form # Null /\ sel \in Selections /\ FitsSelection(form, sel)
        /\ form.text \in Texts
    BY DEF FormsInv, FormsTypeInv, TextInv, FitsSelection, Forms, For!handleValuesChange,
           For!restoreDefaultValues,
           For!BodyShown
  <1>1. UNCHANGED <<formPage, visit, sel, deployed, ours, formRequests, submits, tainted>>
    BY DEF For!handleValuesChange, For!restoreDefaultValues
  <1>2. SubmitInv'
    BY <1>1 DEF FormsInv, SubmitInv, For!DeploysOwnChart, For!ValuesFollowVersion,
           For!ModificationsSurvive
  <1>3. CASE For!handleValuesChange
    <2>1. form' = [form EXCEPT !.text = [form.text EXCEPT !.typed = TRUE], !.modified = TRUE]
      BY <1>3 DEF For!handleValuesChange
    <2>2. /\ [form.text EXCEPT !.typed = TRUE] \in Texts
          /\ [form.text EXCEPT !.typed = TRUE].mods = form.text.mods
      BY <1>0 DEF Texts
    <2>3. /\ form' \in Forms /\ form'.kind = form.kind /\ form'.of = form.of
          /\ form'.basis = form.basis /\ form'.stale = form.stale /\ form'.restored = form.restored
          /\ form'.modified = TRUE /\ form'.text = [form.text EXCEPT !.typed = TRUE]
      BY <1>0, <2>1, <2>2 DEF Forms
    <2>4. FitsSelection(form', sel)
      BY <1>0, <2>2, <2>3 DEF FitsSelection
    <2> QED BY <1>0, <1>1, <1>2, <2>3, <2>4, FormKeeps
  <1>4. CASE For!restoreDefaultValues
    <2>1. form' = [form EXCEPT !.text = For!Text(sel.values, Null, FALSE), !.restored = TRUE]
      BY <1>4 DEF For!restoreDefaultValues
    <2>2. /\ For!Text(sel.values, Null, FALSE) \in Texts
          /\ For!Text(sel.values, Null, FALSE).base = sel.values
          /\ ~For!Text(sel.values, Null, FALSE).typed
      BY <1>0 DEF For!Text, Texts, Selections
    <2>3. /\ form' \in Forms /\ form'.kind = form.kind /\ form'.of = form.of
          /\ form'.basis = form.basis /\ form'.stale = form.stale
          /\ form'.restored = TRUE /\ form'.text = For!Text(sel.values, Null, FALSE)
      BY <1>0, <2>1, <2>2 DEF Forms
    <2>4. FitsSelection(form', sel)
      BY <1>0, <2>2, <2>3 DEF FitsSelection
    <2> QED BY <1>0, <1>1, <1>2, <2>3, <2>4, FormKeeps
  <1> QED BY <1>3, <1>4

LEMMA handleDeployKeeps ==
    ASSUME FormsInv, For!handleDeploy
    PROVE  FormsInv'
  <1> DEFINE q == [kind |-> form.kind, version |-> sel.version, text |-> form.text,
                   of |-> form.of, basis |-> form.basis, stale |-> form.stale,
                   restored |-> form.restored, modified |-> form.modified,
                   tainted |-> tainted, visit |-> visit]
  <1>0. /\ form \in Forms /\ form # Null /\ sel \in Selections /\ FitsSelection(form, sel)
        /\ formPage = [at |-> form.kind, of |-> form.of] /\ sel.version # Null
    BY DEF FormsInv, FormsTypeInv, TextInv, FitsSelection, For!handleDeploy, For!BodyShown
  <1>1. /\ submits' = submits \union {q} /\ form' = [form EXCEPT !.deploying = TRUE]
        /\ UNCHANGED <<formPage, visit, sel, deployed, ours, formRequests, tainted>>
    BY DEF For!handleDeploy
  <1>2. /\ form' \in Forms /\ form'.kind = form.kind /\ form'.of = form.of
        /\ FitsSelection(form', sel)
    BY <1>0, <1>1 DEF Forms, FitsSelection
  <1>3. q.tainted \/ Chart(q.version) = Chart(q.of)
    BY <1>0 DEF FormsInv, OwnChart, Forms
  <1>4. \/ q.modified \/ q.version \in NoValues
        \/ q.text.base \in {Null, q.version}
        \/ q.tainted
    <2> SUFFICES ASSUME ~form.modified, sel.version \notin NoValues, ~tainted
                 PROVE  form.text.base = sel.version
      OBVIOUS
    <2>1. sel.values = For!ValuesOf(sel.version)
      BY <1>0 DEF FormsInv, OwnValues, Forms
    <2>2. sel.values = sel.version
      BY <2>1 DEF For!ValuesOf
    <2> QED BY <1>0, <2>2 DEF FitsSelection
  <1>5. (q.kind = "upgrade" /\ q.basis # Null /\ ~q.restored) =>
           q.text.mods = q.basis /\ (q.stale \/ q.basis = q.of)
    BY <1>0 DEF FitsSelection
  <1> HIDE DEF q
  <1>6. SubmitInv'
    BY <1>1, <1>3, <1>4, <1>5
       DEF FormsInv, SubmitInv, For!DeploysOwnChart, For!ValuesFollowVersion,
           For!ModificationsSurvive
  <1> QED BY <1>0, <1>1, <1>2, <1>6, FormKeeps

LEMMA SubmitKeeps ==
    ASSUME FormsInv, NEW q \in submits, For!Submitted(q) \/ For!SubmitFailed(q)
    PROVE  FormsInv'
  <1>0. SubmitInv'
    BY DEF For!Submitted, For!SubmitFailed, FormsInv, SubmitInv, For!DeploysOwnChart,
           For!ValuesFollowVersion,
           For!ModificationsSurvive
  <1>1. CASE For!Submitted(q)
    <2>0. sel \in Selections /\ visit \in Nat /\ formRequests \subseteq Asked
      BY DEF FormsInv, FormsTypeInv
    <2>1. /\ formPage' = For!Elsewhere /\ visit' = visit + 1 /\ sel' = For!Leave /\ form' = Null
          /\ tainted' = FALSE /\ ours' = FALSE /\ UNCHANGED <<deployed, formRequests>>
      BY <1>1 DEF For!Submitted
    <2>2. For!Elsewhere \in For!Pages /\ For!Elsewhere.at = "elsewhere" /\ For!Leave \in Selections
      BY <2>0, LeaveFacts DEF For!Pages, For!Elsewhere
    <2>3. \A r \in formRequests' : r.visit <= visit' /\ r.visit # visit'
      BY <2>0, <2>1 DEF FormsInv, FormsTypeInv, Asked
    <2>4. FormsTypeInv'
      <3>1. ours' \in BOOLEAN
        BY <2>1
      <3> QED BY <2>0, <2>1, <2>2, <2>3, <3>1 DEF FormsInv, FormsTypeInv
    <2>5. OwnChart' /\ OwnValues' /\ OwnDeployed' /\ TextInv'
      BY <2>1, <2>2, <2>3 DEF OwnChart, OwnValues, OwnDeployed, TextInv
    <2> QED BY <1>0, <2>4, <2>5 DEF FormsInv
  <1>2. CASE For!SubmitFailed(q)
    <2>1. /\ UNCHANGED <<formPage, visit, sel, deployed, ours, formRequests, tainted>>
          /\ form' = form \/ (form # Null /\ form' = [form EXCEPT !.deploying = FALSE])
      BY <1>2 DEF For!SubmitFailed
    <2>2. form' # Null => /\ form # Null /\ form' \in Forms /\ form'.kind = form.kind
                          /\ form'.of = form.of /\ FitsSelection(form', sel)
      BY <2>1 DEF FormsInv, FormsTypeInv, TextInv, Forms, FitsSelection
    <2> QED BY <1>0, <2>1, <2>2, FormKeeps
  <1> QED BY <1>1, <1>2

-----------------------------------------------------------------------------
LEMMA FormsInit == For!Init => FormsInv
  <1> SUFFICES ASSUME For!Init
               PROVE  FormsInv
    OBVIOUS
  <1>1. ours \in BOOLEAN
    BY DEF For!Init
  <1>2. FormsTypeInv
    BY <1>1 DEF For!Init, FormsTypeInv, For!Pages, For!Elsewhere, For!NoSelection, Selections
  <1>3. OwnChart /\ OwnDeployed /\ OwnValues /\ TextInv /\ SubmitInv
    BY DEF For!Init, OwnChart, OwnDeployed, OwnValues, TextInv, SubmitInv, For!DeploysOwnChart,
           For!ValuesFollowVersion, For!ModificationsSurvive, For!Elsewhere
  <1> QED BY <1>2, <1>3 DEF FormsInv

LEMMA FormsNext == FormsInv /\ [For!Next]_(For!vars) => FormsInv'
  <1> SUFFICES ASSUME FormsInv, [For!Next]_(For!vars)
               PROVE  FormsInv'
    OBVIOUS
  <1>1. CASE For!User
    BY <1>1, VisitKeeps, getDeployedKeeps, ShowUpgradeFormKeeps, EditKeeps, handleDeployKeeps,
       selectVersionKeeps
       DEF For!User
  <1>2. ASSUME NEW q \in formRequests, For!Answer(q)
        PROVE  FormsInv'
    BY <1>2, FormAnswerKeeps
  <1>3. ASSUME NEW q \in submits, For!Submitted(q) \/ For!SubmitFailed(q)
        PROVE  FormsInv'
    BY <1>3, SubmitKeeps
  <1>4. CASE UNCHANGED For!vars
    BY <1>4 DEF For!vars, FormsInv, FormsTypeInv, OwnChart, OwnDeployed, OwnValues, TextInv, SubmitInv,
           For!DeploysOwnChart,
                For!ValuesFollowVersion, For!ModificationsSurvive
  <1> QED BY <1>1, <1>2, <1>3, <1>4 DEF For!Next

(* For any charts and versions: a page that took over nothing of an        *)
(* earlier one holds and awaits its own chart, what an upgrade page has    *)
(* requested as the deployed version is its release's, and the form's text *)
(* follows the selected values, the modifications and the user as the      *)
(* effects of the two forms intend.                                        *)
THEOREM FormsInvariant == FormsSpec => []FormsInv
  BY FormsInit, FormsNext, PTL DEF FormsSpec, For!Spec

(* A form that is not tainted by another page deploys its own chart.       *)
THEOREM OwnChartDeployed == FormsSpec => []DeploysOwnChart
  <1>1. FormsInv => DeploysOwnChart
    BY DEF FormsInv, SubmitInv, DeploysOwnChart
  <1> QED BY <1>1, FormsInvariant, PTL

(* The values sent with a version are its own, in whatever order the       *)
(* answers for several versions came in, until the user types.             *)
THEOREM OwnValuesDeployed == FormsSpec => []ValuesFollowVersion
  <1>1. FormsInv => ValuesFollowVersion
    BY DEF FormsInv, SubmitInv, ValuesFollowVersion
  <1> QED BY <1>1, FormsInvariant, PTL

(* Modifications that the upgrade form has computed are in every upgrade,  *)
(* unless the user asked for the defaults, and they are relative to the    *)
(* version that is deployed unless charts.deployed was filled for an       *)
(* earlier page (UpgradeForm.tsx:103-113 runs before AppUpgrade.tsx:83-96  *)
(* clears it).                                                             *)
THEOREM ModificationsDeployed == FormsSpec => []ModificationsSurvive
  <1>1. FormsInv => ModificationsSurvive
    BY DEF FormsInv, SubmitInv, ModificationsSurvive
  <1> QED BY <1>1, FormsInvariant, PTL

-----------------------------------------------------------------------------
(* The step that TypingSurvives is about. *)
TypingLost ==
    form # Null /\ form.text.typed /\ form' # Null /\ visit' = visit /\ ~form'.text.typed
Excused == For!restoreDefaultValues \/ (form.basis = Null /\ form'.basis # Null)

LEMMA StoreKeepsTyping ==
    ASSUME FormsInv, NEW q \in formRequests, NEW s \in Selections, NEW d \in Versions \union {Null},
           NEW own \in BOOLEAN, For!Store(q, s, d, own), TypingLost,
           own /\ d # Null /\ formPage.at = "upgrade" => d = formPage.of
    PROVE  Excused
  <1>1. /\ form \in Forms /\ form # Null /\ sel \in Selections /\ FitsSelection(form, sel)
        /\ formPage.at = form.kind /\ formPage.of = form.of
    BY DEF FormsInv, FormsTypeInv, TextInv, FitsSelection, TypingLost
  <1> DEFINE g == For!RunEffects(form, s, d, own)
  <1>2. form.text.typed => g.text.typed \/ (form.basis = Null /\ g.basis # Null)
    BY <1>1, RunEffectsFacts
  <1>3. form' = g
    BY DEF For!Store
  <1> QED BY <1>2, <1>3 DEF TypingLost, Excused

LEMMA StepKeepsTyping ==
    ASSUME FormsInv, [For!Next]_(For!vars), TypingLost
    PROVE  Excused
  <1>0. /\ form \in Forms /\ form.text \in Texts /\ form # Null /\ sel \in Selections
        /\ visit \in Nat /\ deployed \in Versions \union {Null} /\ ours \in BOOLEAN
        /\ \A q \in formRequests :
              q.of # Null \/ q.kind # "version" => q.of \in Versions /\ Chart(q.of) \in FormCharts
    BY DEF FormsInv, FormsTypeInv, TypingLost, Forms, Asked, FormCharts
  <1>1. ~(form' # Null => form'.text = form.text)
    BY DEF TypingLost
  <1>2. ASSUME NEW p \in For!Pages, For!Visit(p)
        PROVE  FALSE
    BY <1>0, <1>2 DEF For!Visit, TypingLost
  <1>d. ours /\ deployed # Null /\ formPage.at = "upgrade" => deployed = formPage.of
    BY DEF FormsInv, OwnDeployed
  <1>3. ~For!ShowUpgradeForm /\ ~For!getDeployedChartVersion
    BY DEF For!ShowUpgradeForm, For!getDeployedChartVersion, TypingLost
  <1>4. ~For!handleValuesChange
    <2> SUFFICES ASSUME For!handleValuesChange
                 PROVE  FALSE
      OBVIOUS
    <2>1. form' = [form EXCEPT !.text = [form.text EXCEPT !.typed = TRUE], !.modified = TRUE]
      BY DEF For!handleValuesChange
    <2>2. [form.text EXCEPT !.typed = TRUE].typed = TRUE
      BY <1>0 DEF Texts
    <2>3. form'.text = [form.text EXCEPT !.typed = TRUE]
      BY <1>0, <2>1 DEF Forms
    <2> QED BY <2>2, <2>3 DEF TypingLost
  <1>5. ~For!handleDeploy
    BY <1>0, <1>1 DEF For!handleDeploy, Forms
  <1>6. ASSUME NEW x \in Versions, For!selectVersion(x)
        PROVE  FALSE
    BY <1>0, <1>1, <1>6 DEF For!selectVersion, Forms
  <1>7. ASSUME NEW q \in submits, For!Submitted(q) \/ For!SubmitFailed(q)
        PROVE  FALSE
    <2>1. CASE For!Submitted(q)
      BY <2>1 DEF For!Submitted, TypingLost
    <2>2. CASE For!SubmitFailed(q)
      BY <1>0, <1>1, <2>2 DEF For!SubmitFailed, Forms
    <2> QED BY <1>7, <2>1, <2>2
  <1>8. ASSUME NEW q \in formRequests, For!Answer(q)
        PROVE  Excused
    <2>0. q.of # Null \/ q.kind # "version" => q.of \in Versions /\ Chart(q.of) \in FormCharts
      BY <1>0
    <2>1. CASE For!receiveChartVersions(q)
      <3>1. [sel EXCEPT !.versions = Chart(q.of), !.error = FALSE] \in Selections
        BY <1>0, <2>0, <2>1 DEF Selections, For!receiveChartVersions
      <3> QED BY <1>0, <1>d, <2>1, <3>1, StoreKeepsTyping DEF For!receiveChartVersions
    <2>2. CASE For!SelectFromVersions(q)
      <3>1. [version |-> q.of, values |-> Null, versions |-> Chart(q.of), error |-> FALSE]
               \in Selections
        BY <2>0, <2>2 DEF Selections, For!SelectFromVersions
      <3> QED BY <1>0, <1>d, <2>2, <3>1, StoreKeepsTyping DEF For!SelectFromVersions
    <2>3. CASE For!selectChartVersion(q)
      <3>1. [sel EXCEPT !.version = q.of, !.values = For!ValuesOf(q.of), !.error = FALSE] \in Selections
        BY <1>0, <2>0, <2>3 DEF Selections, For!ValuesOf, For!selectChartVersion
      <3> QED BY <1>0, <1>d, <2>3, <3>1, StoreKeepsTyping DEF For!selectChartVersion
    <2>4. CASE For!receiveDeployedChartVersion(q)
      <3> DEFINE own == q.visit = visit
      <3>1. q.of \in Versions /\ For!Store(q, sel, q.of, own)
        BY <2>0, <2>4 DEF For!receiveDeployedChartVersion
      <3>2. own \in BOOLEAN /\ (own => q.of = formPage.of)
        BY <2>4 DEF FormsInv, OwnDeployed, For!receiveDeployedChartVersion
      <3> HIDE DEF own
      <3> QED BY <1>0, <3>1, <3>2, StoreKeepsTyping
    <2>5. CASE For!errorChart(q)
      BY <1>1, <2>5 DEF For!errorChart
    <2> QED BY <1>8, <2>1, <2>2, <2>3, <2>4, <2>5 DEF For!Answer
  <1>9. ~(UNCHANGED For!vars)
    BY <1>1 DEF For!vars
  <1> QED BY <1>2, <1>3, <1>4, <1>5, <1>6, <1>7, <1>8, <1>9 DEF For!Next, For!User, Excused

(* No answer takes away what the user typed, in whatever order the answers *)
(* come, but for the modifications computed after he typed.                *)
THEOREM TypingIsKept == FormsSpec => TypingSurvives
  <1>1. FormsInv /\ [For!Next]_(For!vars) => [TypingLost => Excused]_(For!vars)
    BY StepKeepsTyping
  <1>2. FormsSpec => [][TypingLost => Excused]_(For!vars)
    BY <1>1, FormsInvariant, PTL DEF FormsSpec, For!Spec
  <1> QED BY <1>2 DEF TypingSurvives, For!TypingSurvives, TypingLost, Excused

=============================================================================
