------------------------------ MODULE Session ------------------------------
(***************************************************************************)
(* One tab of the dashboard from loading to logout: configuration, login   *)
(* with a token or through the auth proxy's cookie, expiry of the session, *)
(* redirects, and the current cluster and namespace (auth, config and      *)
(* cluster slices of the store, LoginForm, PrivateRoute, Routes, Header,   *)
(* ContextSelector, the axios interceptors, localStorage).                 *)
(*                                                                         *)
(* A handler runs with the renders, redirects and effects it causes in one *)
(* step.  Two equal requests on their way are one.  The form for a new     *)
(* namespace is opened and sent in one step.                               *)
(***************************************************************************)
EXTENDS Naturals, FiniteSets

CONSTANTS
    Users,         \* who may log in; a user stands for his token as well
    TokenSpace(_), \* the namespace in a user's token, or None
    Creators,      \* users who may create namespaces
    Clusters,      \* config.clusters
    First,         \* config.clusters[0]
    Default,       \* the cluster called "default"
    Strangers,     \* clusters that URLs may name and the configuration lacks
    Names(_),      \* namespaces that a cluster may have, or a URL names for it
    None,
    MaxRequests,   \* bound: requests on their way when the user does something
    MaxLoads,      \* bound: logins through the proxy
    MaxMoves,      \* bound: context changes, history jumps, reloads, actions of other tabs
    MaxFaults      \* bound: failed requests and revoked credentials

Places == Clusters \union Strangers
AllNames == UNION {Names(c) : c \in Places}
NameOrNone == AllNames \union {None}

ASSUME SessionConstants ==
    /\ First \in Clusters /\ Default \in Clusters /\ Clusters \intersect Strangers = {}
    /\ \A c \in Clusters : Names(c) # {}
    /\ \A c, d \in Clusters : c # d => Names(c) \intersect Names(d) = {}
    /\ \A u \in Users : TokenSpace(u) \in NameOrNone
    /\ MaxRequests \in Nat /\ MaxLoads \in Nat /\ MaxMoves \in Nat /\ MaxFaults \in Nat

VARIABLES
    oauth,     \* is authProxyEnabled and oauthLoginURI configured?
    storage,   \* localStorage, shared by the tabs of the browser
    cookie,    \* the auth proxy's session cookie: a user or None
    valid,     \* users whose credentials are accepted
    spaces,    \* [Places -> its namespaces]; a cluster that is not there has none
    tab,       \* the tab: route, auth slice, cluster slice, local state
    requests,  \* requests on their way
    loads, moves, faults

vars == <<oauth, storage, cookie, valid, spaces, tab, requests, loads, moves, faults>>
counters == <<loads, moves, faults>>
server == <<oauth, cookie, valid, spaces>>

At(name) == [at |-> name, cluster |-> None, ns |-> None]
Private(c, n) == [at |-> "private", cluster |-> c, ns |-> n]
Privates == {Private(c, n) : c \in Places, n \in NameOrNone}
Pages == {At("config"), At("root"), At("login")} \union Privates

(* A cluster in the store: its current namespace and those it has, each if *)
(* known, canCreateNS; and what the context selector holds.                *)
Entries == [ns : NameOrNone, list : (SUBSET AllNames) \union {None},
            can : BOOLEAN, error : BOOLEAN]
Entry(n, list) == [ns |-> n, list |-> list, can |-> FALSE, error |-> FALSE]
Picks == [cluster : Places, ns : NameOrNone]

ASSUME NoneAssumption ==
    /\ None \notin Users \union Places \union Privates
    /\ None \notin Entries /\ None \notin Picks
    /\ \A list \in SUBSET AllNames : list # None

NoStoredNamespaces == [c \in Places |-> None]

(* A request that a step sends carries the token stored by then. *)
Request(kind, c, n) == [kind |-> kind, cluster |-> c, ns |-> n,
                        cred |-> IF storage'.token # None THEN storage'.token ELSE cookie]
CookieRequest == [kind |-> "cookie", cluster |-> None, ns |-> None, cred |-> None]

(* The state of the store before the configuration is there: auth.ts and   *)
(* cluster.ts getInitialState read localStorage when the page loads.       *)
Loaded(token, page) ==
    [page |-> At("config"), target |-> page, from |-> None, form |-> "none",
     authed |-> token # None, authing |-> FALSE, expired |-> FALSE,
     current |-> Default, initial |-> IF token = None THEN None ELSE TokenSpace(token),
     clusters |-> [c \in Places |-> None], pick |-> None,
     leaving |-> FALSE, crashed |-> FALSE, cleared |-> FALSE, stuck |-> FALSE]

Init ==
    /\ oauth \in BOOLEAN
    /\ storage = [token |-> None, oidc |-> FALSE, ns |-> NoStoredNamespaces]
    /\ cookie = None
    /\ valid = Users
    /\ spaces = [c \in Places |-> IF c \in Clusters THEN {CHOOSE n \in Names(c) : TRUE} ELSE {}]
    /\ tab = Loaded(None, At("root"))
    /\ requests = {}
    /\ loads = 0 /\ moves = 0 /\ faults = 0

-----------------------------------------------------------------------------
(* The cluster reducer.  A reducer that throws leaves the store alone, and *)
(* the thunk that dispatched reports the error.                            *)

EntryOf(t, c) == IF t.clusters[c] = None THEN Entry(None, None) ELSE t.clusters[c]
errorNamespaces(t, c) ==
    [t EXCEPT !.clusters[c] = [EntryOf(t, c) EXCEPT !.error = TRUE]]
setAllowCreate(t, c, allowed) ==
    [t EXCEPT !.clusters[c] = [EntryOf(t, c) EXCEPT !.can = allowed]]

(* getCurrentNamespace: the selected one, the last one used, the token's,  *)
(* or the first of the list; and one that prefers the last one used.       *)
PreferStored(c, n, list) ==
    IF storage.ns[c] \in list THEN storage.ns[c] ELSE CHOOSE first \in list : TRUE
getCurrentNamespace(c, n, list) ==
    IF n # None THEN n
    ELSE IF storage.ns[c] \in list THEN storage.ns[c]
    ELSE IF storage.token # None /\ TokenSpace(storage.token) \in list
    THEN TokenSpace(storage.token)
    ELSE CHOOSE first \in list : TRUE

receiveNamespaces(t, c, list) ==
    IF t.clusters[c] = None \/ list = {} THEN errorNamespaces(t, c)
    ELSE [t EXCEPT !.clusters[c] =
            [t.clusters[c] EXCEPT !.ns = getCurrentNamespace(c, @, list), !.list = list,
                                  !.error = FALSE]]

receiveNamespace(t, c, n) ==
    IF t.clusters[c] = None \/ (t.clusters[c] # None /\ t.clusters[c].list = None)
    THEN errorNamespaces(t, c)
    ELSE IF n \in t.clusters[c].list THEN t
    ELSE [t EXCEPT !.clusters[c] =
            [t.clusters[c] EXCEPT !.list = @ \union {n}, !.error = FALSE]]

(* setNamespaceState copies the entry of the cluster that was current, and *)
(* one that writes nothing but the namespace.                              *)
EntryWithoutList(t, c, n) == [t EXCEPT !.current = c, !.clusters[c] = Entry(n, None)]
setNamespaceState(t, c, n) ==
    [t EXCEPT !.current = c, !.clusters[c] = [t.clusters[t.current] EXCEPT !.ns = n,
                                                                           !.error = FALSE]]

(* clearClusters restores the initial entry of the cluster "default", with *)
(* the namespace of the token the page was loaded with, and no other;      *)
(* currentCluster stays.                                                   *)
clearClusters(t) ==
    [t EXCEPT !.cleared = TRUE, !.clusters =
        [c \in Places |-> IF c = Default THEN Entry(t.initial, {}) ELSE None]]

(* LOCATION_CHANGE takes cluster and namespace from the path, if there, be *)
(* the cluster configured or not.                                          *)
LOCATION_CHANGE(t, p) ==
    LET c == IF p.cluster = None THEN t.current ELSE p.cluster
    IN [t EXCEPT !.page = p, !.current = c,
                 !.clusters[c] = [EntryOf(t, c) EXCEPT !.ns = IF p.ns = None THEN @ ELSE p.ns]]

-----------------------------------------------------------------------------
(* Rendering: redirects *)

(* ErrorBoundary replaces the page by the current cluster's error. *)
Children(t) == ~t.clusters[t.current].error

(* LoginForm, when it is mounted, asks for the cookie first if the proxy   *)
(* is configured.                                                          *)
MountLogin(t) ==
    IF t.page.at # "login" \/ ~Children(t) THEN [t EXCEPT !.form = "none"]
    ELSE IF t.form # "none" THEN t
    ELSE IF oauth THEN [t EXCEPT !.form = "checking", !.authing = TRUE, !.authed = FALSE]
    ELSE [t EXCEPT !.form = "ready"]

ToLogin(t, from) == LOCATION_CHANGE([t EXCEPT !.from = from], At("login"))

(* PrivateRoute: without authentication to the login page, or the notice   *)
(* that the session has expired.                                           *)
FromPrivate(t) ==
    IF t.page.at = "private" /\ ~t.authed /\ ~t.expired THEN ToLogin(t, t.page) ELSE t

(* LoginForm leaves for the page the user came from. *)
FromLogin(t) ==
    IF t.page.at = "login" /\ t.authed /\ ~t.authing /\ t.form = "ready"
    THEN LOCATION_CHANGE([t EXCEPT !.from = None], IF t.from = None THEN At("root") ELSE t.from)
    ELSE t

(* rootNamespacedRedirect *)
FromRoot(t) ==
    IF t.page.at # "root" THEN t
    ELSE IF ~t.authed THEN ToLogin(t, None)
    ELSE IF t.clusters[t.current].ns = None THEN t
    ELSE LOCATION_CHANGE(t, Private(t.current, t.clusters[t.current].ns))

(* Header shows the menu and the context selector. *)
ShowNav(t) ==
    t.authed /\ ~t.crashed /\ t.clusters[t.current] # None /\ t.clusters[t.current].ns # None

(* ContextSelector: its state when it is mounted, and its effect on any    *)
(* change of the clusters.                                                 *)
Selector(old, t) ==
    IF ~ShowNav(t) THEN None
    ELSE IF old.pick = None THEN [cluster |-> t.current, ns |-> t.clusters[t.current].ns]
    ELSE IF old.clusters # t.clusters /\ t.clusters[old.pick.cluster] # None
    THEN [old.pick EXCEPT !.ns = t.clusters[old.pick.cluster].ns]
    ELSE old.pick

(* It cannot be rendered without the namespaces of the picked cluster. *)
SelectorFails(t) ==
    t.pick # None /\ (t.clusters[t.pick.cluster] = None
                      \/ (t.clusters[t.pick.cluster] # None
                          /\ t.clusters[t.pick.cluster].list = None))

(* The stages of a render, each applied to what the one before left. *)
Then(S, Stage(_)) == {Stage(x) : x \in S}
Redirects(t) ==
    IF ~Children(t) THEN MountLogin(t)
    ELSE CHOOSE r \in Then(Then(Then(Then({t}, FromPrivate), MountLogin), FromLogin), FromRoot) :
            TRUE
WithSelector(old, t) ==
    LET v == [MountLogin(t) EXCEPT !.pick = Selector(old, t)]
    IN IF SelectorFails(v) THEN [v EXCEPT !.crashed = TRUE, !.pick = None] ELSE v

(* Header, ErrorBoundary and RoutesContainer read the current entry. *)
RenderState(old, t) ==
    IF t.page.at = "config" \/ t.crashed THEN t
    ELSE IF t.clusters[t.current] = None THEN [t EXCEPT !.crashed = TRUE, !.pick = None]
    ELSE CHOOSE r \in {WithSelector(old, u) : u \in {Redirects(t)}} : TRUE
Render(old, t) == CHOOSE r \in {RenderState(old, x) : x \in {t}} : TRUE

(* Effects: Header lists the namespaces of a cluster that becomes current  *)
(* or when the user is authenticated, and asks whether he may create some; *)
(* ContextSelector gets the current namespace, LoginForm asks for the      *)
(* cookie.                                                                 *)
Asked(c) == {Request("list", c, None), Request("can", c, None)}
OnLoginOnly(old, t) ==
    IF t.authed /\ (~old.authed \/ old.page.at = "config") THEN Asked(t.current) ELSE {}
HeaderRequests(old, t) ==
    IF t.authed /\ (~old.authed \/ old.page.at = "config" \/ old.current # t.current)
    THEN Asked(t.current) ELSE {}
EffectRequests(old, t) ==
    IF t.crashed \/ t.page.at = "config" THEN {}
    ELSE HeaderRequests(old, t)
         \union
         (IF ShowNav(t) /\ (~ShowNav(old) \/ old.current # t.current
                            \/ old.clusters[old.current].ns # t.clusters[t.current].ns)
          THEN {Request("get", t.current, t.clusters[t.current].ns)} ELSE {})
         \union
         (IF t.form = "checking" /\ old.form # "checking" THEN {CookieRequest} ELSE {})

(* A step of the tab: the store becomes t, q was answered. *)
Step(t, answered) ==
    \E u \in {Render(tab, t)} :
        /\ tab' = u
        /\ requests' = (requests \ answered) \union EffectRequests(tab, u)

-----------------------------------------------------------------------------
(* Logging in and out *)

(* unsetAuthToken, unsetAuthCookie and unsetStoredNamespace. *)
StorageAfterLogout ==
    [token |-> IF storage.oidc THEN storage.token ELSE None, oidc |-> FALSE,
     ns |-> NoStoredNamespaces]

(* authenticationError ends the spinner; and one that only shows itself. *)
ErrorShownOnly(t) == t
authenticationError(t) == [t EXCEPT !.authing = FALSE]

(* Menu, or the button beside an error that ErrorBoundary shows.           *)
(* logout: with the proxy the browser leaves for its sign-out page and the *)
(* store stays as it is; otherwise token and clusters are forgotten.       *)
logout(t) ==
    IF storage.oidc THEN [t EXCEPT !.leaving = TRUE]
    ELSE clearClusters([t EXCEPT !.authed = FALSE, !.authing = FALSE])

(* The interceptor: authenticationError, then expireSession. *)
expireSession(t) ==
    logout([authenticationError(t) EXCEPT !.expired = @ \/ storage.oidc])

Logout ==
    /\ tab.page.at # "config" /\ ~tab.crashed
    /\ ShowNav(tab) \/ ~Children(tab)
    /\ storage' = StorageAfterLogout
    /\ Step(logout(tab), {})
    /\ UNCHANGED <<server, counters>>

(* The sign-out page expires the cookie; the user ends on a fresh page. *)
SignedOut ==
    /\ tab.leaving
    /\ cookie' = None
    /\ tab' = Loaded(storage.token, At("root"))
    /\ requests' = {}
    /\ UNCHANGED <<oauth, storage, valid, spaces, counters>>

(* authenticate: the token is validated before it is stored. *)
FormShown == tab.form = "ready" /\ ~tab.authing /\ ~tab.crashed
handleSubmit(u) ==
    /\ FormShown /\ ~oauth /\ Cardinality(requests) < MaxRequests
    /\ tab' = [tab EXCEPT !.authed = FALSE, !.authing = TRUE]
    /\ requests' = requests \union {[CookieRequest EXCEPT !.kind = "validate", !.cred = u]}
    /\ UNCHANGED <<server, storage, counters>>

validateToken(q) ==
    /\ q.kind = "validate"
    /\ IF q.cred \in valid
       THEN /\ storage' = [storage EXCEPT !.token = q.cred, !.oidc = FALSE]
            /\ Step([tab EXCEPT !.authed = TRUE, !.authing = FALSE], {q})
       ELSE /\ UNCHANGED storage
            /\ Step(authenticationError(tab), {q})
    /\ UNCHANGED <<server, counters>>

(* The login page of the proxy: a cookie, and the dashboard afresh. *)
LoginViaProvider(u) ==
    /\ FormShown /\ oauth /\ u \in valid /\ loads < MaxLoads
    /\ cookie' = u
    /\ tab' = Loaded(storage.token, At("root"))
    /\ requests' = {}
    /\ loads' = loads + 1
    /\ UNCHANGED <<oauth, storage, valid, spaces, moves, faults>>

(* checkCookieAuthentication; isAuthenticatedWithCookie is true unless     *)
(* proxy or API server refuse.                                             *)
checkCookieAuthentication(q) ==
    /\ q.kind = "cookie"
    /\ LET ok == cookie \in valid
           t == [tab EXCEPT !.authed = ok, !.authing = FALSE, !.form = IF @ = "checking" THEN "ready" ELSE @,
                            !.expired = @ /\ ~ok]
       IN /\ storage' = [storage EXCEPT !.oidc = @ \/ ok]
          /\ Step(t, {q})
    /\ UNCHANGED <<server, counters>>

(* Without any response it throws: nothing is dispatched any more. *)
CookieUnreachable(q) ==
    /\ q.kind = "cookie" /\ faults < MaxFaults
    /\ tab' = [tab EXCEPT !.stuck = TRUE]
    /\ requests' = requests \ {q}
    /\ faults' = faults + 1
    /\ UNCHANGED <<server, storage, loads, moves>>

-----------------------------------------------------------------------------
(* Configuration *)

receiveConfig ==
    /\ tab.page.at = "config"
    /\ UNCHANGED <<server, storage, counters>>
    /\ LET t == LOCATION_CHANGE([tab EXCEPT !.current = First,
                    !.clusters = [c \in Places |-> IF c \in Clusters THEN Entry(None, {}) ELSE None]],
                    tab.target)
       IN Step(t, {})

(* The user reloads, also out of the notice that the session expired; the  *)
(* URL is kept.                                                            *)
Reload ==
    /\ tab.page.at # "config" /\ moves < MaxMoves
    /\ tab' = Loaded(storage.token, tab.page)
    /\ requests' = {}
    /\ moves' = moves + 1
    /\ UNCHANGED <<server, storage, loads, faults>>

-----------------------------------------------------------------------------
(* Answers that concern the clusters.  A request with a credential that is *)
(* no longer accepted ends the session whoever is logged in by now; but    *)
(* kubeops (AsUser) refuses a cluster it does not know whatever the token. *)

API == {"list", "can", "get", "create"}
Accepted(q) == q.cred \in valid \/ (~oauth /\ q.cluster \in Strangers)

Unauthorized(q) ==
    /\ q.kind \in API /\ ~Accepted(q)
    /\ storage' = StorageAfterLogout
    /\ \E t \in {Render(tab, expireSession(tab))} :
       \E u \in {IF t.crashed THEN t ELSE Render(t, errorNamespaces(t, q.cluster))} :
        /\ tab' = u
        /\ requests' = (requests \ {q}) \union EffectRequests(tab, t) \union EffectRequests(t, u)
    /\ UNCHANGED <<server, counters>>

(* Any other failure; under the proxy an answer that never comes is taken  *)
(* for an expired session.                                                 *)
FailedRequest(q) ==
    /\ q.kind \in API /\ faults < MaxFaults
    /\ faults' = faults + 1
    /\ \/ /\ UNCHANGED storage
          /\ Step(errorNamespaces(tab, q.cluster), {q})
       \/ /\ storage.oidc
          /\ storage' = StorageAfterLogout
          /\ Step(errorNamespaces(expireSession(tab), q.cluster), {q})
    /\ UNCHANGED <<server, loads, moves>>

fetchNamespaces(q) ==
    /\ q.kind = "list" /\ Accepted(q)
    /\ UNCHANGED <<server, storage, counters>>
    /\ Step(receiveNamespaces(tab, q.cluster, spaces[q.cluster]), {q})

canCreate(q) ==
    /\ q.kind = "can" /\ Accepted(q)
    /\ UNCHANGED <<server, storage, counters>>
    /\ Step(IF q.cluster \in Clusters THEN setAllowCreate(tab, q.cluster, q.cred \in Creators)
            ELSE errorNamespaces(tab, q.cluster), {q})

getNamespace(q) ==
    /\ q.kind = "get" /\ Accepted(q)
    /\ UNCHANGED <<server, storage, counters>>
    /\ Step(IF q.ns \in spaces[q.cluster] THEN receiveNamespace(tab, q.cluster, q.ns)
            ELSE errorNamespaces(tab, q.cluster), {q})

-----------------------------------------------------------------------------
(* The context selector *)

(* While the browser leaves for another page the user waits. *)
CanMove == moves < MaxMoves /\ Cardinality(requests) < MaxRequests /\ ~tab.leaving

(* setNamespace: to the URL of the new context, from a namespaced page. *)
ChangeTo(t, c, n) ==
    IF t.page.at = "private"
    THEN LOCATION_CHANGE(setNamespaceState(t, c, n), Private(c, n))
    ELSE setNamespaceState(t, c, n)

selectCluster(c) ==
    /\ tab.pick # None /\ tab.clusters[c] # None /\ c # tab.pick.cluster
    /\ CanMove /\ moves' = moves + 1
    /\ LET t == [tab EXCEPT !.pick = [cluster |-> c, ns |-> tab.clusters[c].ns]]
       IN tab' = IF SelectorFails(t) THEN [t EXCEPT !.crashed = TRUE, !.pick = None] ELSE t
    /\ UNCHANGED <<server, storage, loads, faults>>
    /\ requests' = requests \union {Request("list", c, None)}

selectNamespace(n) ==
    /\ tab.pick # None /\ n \in tab.clusters[tab.pick.cluster].list /\ n # tab.pick.ns
    /\ tab' = [tab EXCEPT !.pick.ns = n]
    /\ UNCHANGED <<server, storage, requests, counters>>

changeContext ==
    /\ tab.pick # None /\ CanMove
    /\ storage' = [storage EXCEPT !.ns[tab.pick.cluster] = tab.pick.ns]
    /\ Step(ChangeTo(tab, tab.pick.cluster, tab.pick.ns), {})
    /\ moves' = moves + 1
    /\ UNCHANGED <<server, loads, faults>>

createNewNS(n) ==
    /\ tab.pick # None /\ n \in Names(tab.pick.cluster) \ spaces[tab.pick.cluster]
    /\ tab.clusters[tab.current].can
    /\ CanMove
    /\ moves' = moves + 1
    /\ UNCHANGED <<server, storage, tab, loads, faults>>
    /\ requests' = requests \union {Request("create", tab.pick.cluster, n)}

(* Created: the namespaces are listed again and the user is taken to the   *)
(* new one, wherever he is.                                                *)
createNamespace(q) ==
    /\ q.kind = "create" /\ q.cred \in valid \intersect Creators /\ ~tab.crashed
    /\ spaces' = [spaces EXCEPT ![q.cluster] = @ \union {q.ns}]
    /\ storage' = [storage EXCEPT !.ns[q.cluster] = q.ns]
    /\ \E u \in {Render(tab, LOCATION_CHANGE(setNamespaceState(tab, q.cluster, q.ns),
                                            Private(q.cluster, q.ns)))} :
        /\ tab' = u
        /\ requests' = (requests \ {q}) \union {Request("list", q.cluster, None)}
                       \union EffectRequests(tab, u)
    /\ UNCHANGED <<oauth, cookie, valid, counters>>

(* A link or a jump in the history to another page, also one that names a  *)
(* cluster which is not configured.                                        *)
Visit(p) ==
    /\ tab.page.at # "config" /\ ~tab.crashed /\ CanMove
    /\ p.at = "root" \/ (p.at = "private" /\ p.ns \in Names(p.cluster))
    /\ p # tab.page
    /\ moves' = moves + 1
    /\ UNCHANGED <<server, storage, loads, faults>>
    /\ Step(LOCATION_CHANGE(tab, p), {})

-----------------------------------------------------------------------------
(* Other tabs and the backend *)

OtherTabLogsIn(u) ==
    /\ ~oauth /\ u \in valid /\ u # storage.token /\ moves < MaxMoves
    /\ storage' = [storage EXCEPT !.token = u]
    /\ moves' = moves + 1
    /\ UNCHANGED <<server, tab, requests, loads, faults>>
OtherTabLogsOut ==
    /\ storage.token # None /\ ~storage.oidc /\ moves < MaxMoves
    /\ storage' = StorageAfterLogout
    /\ moves' = moves + 1
    /\ UNCHANGED <<server, tab, requests, loads, faults>>

Revoke(u) ==
    /\ u \in valid /\ faults < MaxFaults
    /\ valid' = valid \ {u}
    /\ faults' = faults + 1
    /\ UNCHANGED <<oauth, storage, cookie, spaces, tab, requests, loads, moves>>

Answer(q) ==
    \/ validateToken(q) \/ checkCookieAuthentication(q)
    \/ fetchNamespaces(q) \/ canCreate(q) \/ getNamespace(q) \/ createNamespace(q)
    \/ Unauthorized(q)

Selecting ==
    \/ changeContext
    \/ \E c \in Places : selectCluster(c)
    \/ \E n \in AllNames : selectNamespace(n) \/ createNewNS(n)

Environment ==
    \/ OtherTabLogsOut
    \/ \E u \in Users : OtherTabLogsIn(u) \/ Revoke(u)
    \/ \E q \in requests : FailedRequest(q) \/ CookieUnreachable(q)

Next ==
    \/ \E q \in requests : Answer(q)
    \/ receiveConfig \/ Logout \/ SignedOut \/ Reload \/ Selecting \/ Environment
    \/ \E u \in Users : handleSubmit(u) \/ LoginViaProvider(u)
    \/ \E p \in Pages : Visit(p)

Spec == Init /\ [][Next]_vars

(* The requests that the user waits for are answered: a token, the cookie  *)
(* and the namespaces.                                                     *)
FairSpec ==
    /\ Spec
    /\ WF_vars(\E q \in requests : validateToken(q))
    /\ WF_vars(\E q \in requests : checkCookieAuthentication(q))
    /\ WF_vars(\E q \in requests : fetchNamespaces(q) \/ (q.kind = "list" /\ Unauthorized(q)))

-----------------------------------------------------------------------------
(* The store follows the URL: while the user is logged in, the current     *)
(* cluster and namespace are those of the page, whatever lists and         *)
(* namespaces arrive late and however the context changed                  *)
(* (getCurrentNamespace keeps what is selected).                           *)
ContextFollowsURL ==
    (tab.page.at = "private" /\ tab.page.ns # None /\ tab.authed
        /\ ~tab.crashed /\ ~tab.leaving) =>
        /\ tab.current = tab.page.cluster
        /\ tab.clusters[tab.current].ns = tab.page.ns

(* The header can be rendered, in any order of answers, context changes    *)
(* and history jumps, with two exceptions.  A logout cleared the clusters: *)
(* clearClusters leaves currentCluster and drops its entry.  Or a URL has  *)
(* named a cluster that the configuration lacks: LOCATION_CHANGE makes an  *)
(* entry without namespaces current, and setNamespaceState copies it.      *)
Strange(t) == \E c \in Strangers : t.clusters[c] # None
NoCrash == tab.crashed => tab.cleared \/ Strange(tab)

(* The namespaces offered for a cluster are its own, although              *)
(* setNamespaceState copies those of the cluster the user comes from:      *)
(* unless a request fails, a list of the cluster is on its way until then. *)
(* After a logout in the same page it is not so: an error that arrives     *)
(* late lets the user log in behind it and change the context, and the     *)
(* login form then goes back to the page of the other cluster.             *)
ListsAreOwn ==
    \A c \in Clusters :
        (tab.clusters[c] # None /\ tab.clusters[c].list # None
            /\ faults = 0 /\ ~tab.cleared /\ ~tab.crashed)
            => \/ tab.clusters[c].list \subseteq Names(c)
               \/ \E q \in requests : q.kind = "list" /\ q.cluster = c

(* Nobody waits for ever: the spinner of the login page ends unless the    *)
(* check of the cookie got no response at all, and "Fetching Cluster Info" *)
(* ends, with a namespace or with an error, unless a request failed (then  *)
(* the late answer to an earlier one may clear the error).                 *)
AtRoot == tab.page.at = "root" /\ tab.authed /\ ~tab.crashed /\ Children(tab)
LoginSettles ==
    /\ tab.authing ~> (~tab.authing \/ tab.stuck)
    /\ AtRoot ~> (~AtRoot \/ faults > 0)

=============================================================================
