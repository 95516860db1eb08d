------------------------------ MODULE AppRepos ------------------------------
(***************************************************************************)
(* The dashboard's page of application repositories: the repos slice of    *)
(* the store, its thunks, the two tables of AppRepoList, and AppRepoForm   *)
(* with its validation, its credentials and its pull secrets.              *)
(*                                                                         *)
(* There are two namespaces, Kubeapps' own (global) and one other, each    *)
(* with at most one repository, both of the same name.  A repository is    *)
(* reduced to its URL, whether it has a filter, its credentials and its    *)
(* pull secret.  The backend handles a request in one step and its reply   *)
(* arrives in another; two equal requests on their way are one.            *)
(***************************************************************************)
EXTENDS Naturals, Sequences, FiniteSets

CONSTANTS
    Global, Team,   \* the two namespaces
    All,            \* the scope of all namespaces
    Urls,           \* URLs a user may type
    GoodUrls,       \* those that the backend's validation accepts
    Words,          \* pieces of authorization headers
    Empty,          \* the empty piece
    Undefined,      \* the piece "undefined"
    Typed(_),       \* what the user may type after a scheme
    Own,            \* the name of the secret that holds a repository's header
    Pulls(_),       \* pull secrets a namespace has from the start
    NewPull,        \* name of a pull secret that the user may create
    FirstSpec(_),   \* repositories that a namespace may have at first
    None,
    MaxRequests,    \* bound: requests on their way when the user does something
    MaxActions,     \* bound: buttons the user presses and changes of the URL
    MaxEdits,       \* bound: changes of a form's field
    MaxFaults       \* bound: failures that no other step explains, and other users' writes

AllPulls == Pulls(Global) \union Pulls(Team) \union {NewPull}

(* An authorization header: its scheme, and what follows, decoded, in the  *)
(* parts between which there is a colon (Basic) or a space (Bearer).       *)
Schemes == {"Basic", "Bearer", "other"}
Headers == [scheme : Schemes, parts : Seq(Words)]
Header(scheme, parts) == [scheme |-> scheme, parts |-> parts]

ASSUME RepoConstants ==
    /\ Global # Team /\ All \notin {Global, Team}
    /\ GoodUrls \subseteq Urls
    /\ Empty \in Words /\ Undefined \in Words
    /\ \A x \in Schemes : Typed(x) \subseteq Seq(Words)
    /\ NewPull \notin Pulls(Global) \union Pulls(Team)
    /\ Own \notin AllPulls \union {None}
    /\ \A p \in AllPulls : p \notin Headers
    /\ None \notin Urls \union AllPulls /\ None \notin Headers

VARIABLES
    server,    \* [Spaces -> the repository with its secret, or None]
    pullsAt,   \* [Spaces -> names of its pull secrets]
    page,      \* allNS and currentNamespace
    st,        \* the repos slice of the store
    form,      \* the open AppRepoForm, or None
    requests,
    dirty,     \* observer: the list may differ from the server for a known reason
    actions, edits, faults

vars == <<server, pullsAt, page, st, form, requests, dirty, actions, edits, faults>>
backend == <<server, pullsAt>>
bounds == <<actions, edits, faults>>

Spaces == {Global, Team}
HeaderOrNone == Headers \union {None}
PullOrNone == AllPulls \union {None}

(* What a repository refers to: no credentials, its own secret or a pull   *)
(* secret; and what the form sends: nothing, a header or a pull secret.    *)
Refs == {Own} \union PullOrNone
Creds == Headers \union PullOrNone
Specs == [url : Urls, filter : BOOLEAN, ref : Refs, header : HeaderOrNone, pull : PullOrNone]
Values == [url : Urls, filter : BOOLEAN, header : Creds, pull : PullOrNone]
ASSUME FirstIsSpec == \A n \in Spaces : FirstSpec(n) \subseteq Specs

(* A row of the list, a stored secret, what is validated, the form's state *)
(* and an answer.  None is none of them.                                   *)
Modes == {"add", "edit"}
Methods == {"none", "Basic", "Bearer", "custom", "registry"}
Rows == [ns : Spaces, url : Urls, filter : BOOLEAN, ref : Refs, pull : PullOrNone]
Secrets == [ns : Spaces, header : Headers \union AllPulls]
Checks == [url : Urls, header : Creds]
Forms ==
    [mode : Modes, ns : Spaces, url : Urls \union {None}, filter : BOOLEAN,
     method : Methods, header : HeaderOrNone, user : Seq(Words), token : Seq(Words),
     pull : PullOrNone, options : SUBSET AllPulls,
     validated : {"unset", "yes", "no"}, checked : Checks \union {None},
     shifted : BOOLEAN, touched : BOOLEAN, seen : Secrets \union {None},
     refilled : BOOLEAN, alien : SUBSET AllPulls]
Answers == [ok : BOOLEAN, val : Seq(Rows) \union Rows \union {None}]
ASSUME NoneAssumption ==
    /\ None \notin Modes /\ None \notin Specs /\ None \notin Rows
    /\ None \notin Secrets /\ None \notin Forms /\ None \notin Answers

RowFor(n, w) == [ns |-> n, url |-> w.url, filter |-> w.filter, ref |-> w.ref, pull |-> w.pull]
Listed(n) == RowFor(n, server[n])
ListedIn(S, n) == IF n \in S /\ server[n] # None THEN <<Listed(n)>> ELSE << >>
AsListed(S) == ListedIn(S, Team) \o ListedIn(S, Global)

(* refetchRepos: all namespaces, the global one, or the current one and    *)
(* then the global one.                                                    *)
Scope == IF page.all THEN All ELSE page.ns
Covers(scope) == IF scope = Global THEN {Global} ELSE Spaces

Blank == [kind |-> "", ns |-> None, scope |-> None, stage |-> 1, part |-> << >>,
          vals |-> None, mode |-> None, own |-> TRUE, same |-> TRUE, reply |-> None,
          stale |-> FALSE, checked |-> None, excused |-> FALSE, alien |-> {},
          seen |-> None, name |-> None]
Request(kind, n) == [Blank EXCEPT !.kind = kind, !.ns = n]
ListRequest(scope) == [Blank EXCEPT !.kind = "list", !.scope = scope]

(* The secret that a row refers to is fetched by its name. *)
SecretRequests(r) ==
    IF r = None THEN {}
    ELSE IF r.ref = None THEN {} ELSE {[Request("secret", r.ns) EXCEPT !.name = r.ref]}

Init ==
    /\ server \in {[n \in Spaces |-> IF n = Global THEN g ELSE t] :
                     g \in FirstSpec(Global), t \in FirstSpec(Team) \union {None}}
    /\ pullsAt = [n \in Spaces |-> Pulls(n)]
    /\ page = [all |-> FALSE, ns |-> Team]
    /\ st = [repos |-> << >>, secrets |-> << >>, pulls |-> {}, fetching |-> TRUE,
             errors |-> {}, validating |-> FALSE]
    /\ form = None
    /\ requests = {ListRequest(Team)}
    /\ dirty = FALSE
    /\ actions = 0 /\ edits = 0 /\ faults = 0

-----------------------------------------------------------------------------
(* The reducer *)

requestRepos(s) == [s EXCEPT !.fetching = TRUE]
receiveRepos(s, list) == [s EXCEPT !.repos = list, !.fetching = FALSE, !.errors = {}]
addedRepo(s, r) == [s EXCEPT !.repos = Append(@, r)]

(* repoUpdated replaces the repository of that name and namespace, and one *)
(* that looks at the name alone.                                           *)
UpdatedByName(s, r) ==
    [s EXCEPT !.repos = [i \in DOMAIN @ |-> [r EXCEPT !.ns = s.repos[i].ns]]]
repoUpdated(s, r) ==
    [s EXCEPT !.repos = [i \in DOMAIN @ |-> IF @[i].ns = r.ns THEN r ELSE @[i]]]

(* A secret replaces the one of its name and namespace.  The one that      *)
(* kubeops writes for a repository is owned by it, a pull secret is not.   *)
Owned(x) == x.header \notin AllPulls
SameName(x, y) == x.ns = y.ns /\ (x.header = y.header \/ (Owned(x) /\ Owned(y)))
receiveReposSecret(s, x) ==
    LET at == {i \in DOMAIN s.secrets : SameName(s.secrets[i], x)}
    IN [s EXCEPT !.secrets = IF at = {} THEN Append(@, x)
                             ELSE [i \in DOMAIN @ |-> IF i \in at THEN x ELSE @[i]]]

(* errorRepos keeps the fetch error besides the new one, and ends every    *)
(* spinner, whatever is still on its way.                                  *)
errorRepos(s, op) ==
    [s EXCEPT !.errors = (@ \intersect {"fetch"}) \union {op},
              !.fetching = FALSE, !.validating = FALSE]

LOCATION_CHANGE(s) == [s EXCEPT !.errors = {}, !.fetching = FALSE]

-----------------------------------------------------------------------------
(* The form *)

RowsOf(s, n) == {i \in DOMAIN s.repos : s.repos[i].ns = n}
RowOf(s, n) ==
    IF RowsOf(s, n) = {} THEN None
    ELSE s.repos[CHOOSE i \in RowsOf(s, n) : \A j \in RowsOf(s, n) : i <= j]

(* The tables are shown without a fetch error and while nothing is being   *)
(* fetched; an edit form lives in its row.                                 *)
TablesShown(s) == ~s.fetching /\ "fetch" \notin s.errors

(* AppRepoList gives the first secret whose owner has the repository's     *)
(* name, whatever its namespace.                                           *)
OwnedIn(s) == {i \in DOMAIN s.secrets : Owned(s.secrets[i])}
SecretFor(s) ==
    IF OwnedIn(s) = {} THEN None
    ELSE s.secrets[CHOOSE i \in OwnedIn(s) : \A j \in OwnedIn(s) : i <= j]

(* What the form sends, as a header or as the name of a pull secret. *)
FinalHeader(f) ==
    CASE f.method = "custom" -> f.header
      [] f.method = "Basic" -> Header("Basic", f.user)
      [] f.method = "Bearer" -> Header("Bearer", f.token)
      [] f.method = "registry" -> f.pull
      [] OTHER -> None

(* The form takes a stored header apart: user and password are what is     *)
(* before the first and the second colon, a token ends at the next space.  *)
Part(h, i) == IF i \in DOMAIN h.parts THEN h.parts[i] ELSE Undefined
Parsed(h) == h # None /\ (h # None => h.scheme # "other")
Decoded(h) == IF h.scheme = "Basic" THEN <<Part(h, 1), Part(h, 2)>> ELSE <<Part(h, 1)>>
Parse(f, h) ==
    IF h.scheme = "Basic" THEN [f EXCEPT !.header = h, !.user = Decoded(h), !.method = "Basic"]
    ELSE [f EXCEPT !.header = h, !.token = Decoded(h), !.method = "Bearer"]

(* The effect on repo: the fields follow the stored repository, a filter   *)
(* only if it has one.                                                     *)
RepoEffect(f, r) == [f EXCEPT !.url = r.url, !.filter = @ \/ r.filter]

(* The effect on secret and authHeader, to its end: a header in the state  *)
(* that can be parsed is parsed, any other is replaced by the stored one.  *)
(* And one that parses without choosing the method.                        *)
MethodForgotten(f, x) ==
    IF Parsed(f.header) THEN [Parse(f, f.header) EXCEPT !.method = f.method]
    ELSE IF Parsed(x.header) THEN [Parse(f, x.header) EXCEPT !.method = f.method]
    ELSE [f EXCEPT !.header = x.header, !.method = "custom"]
SecretEffect(f, x) ==
    IF ~Owned(x) THEN [f EXCEPT !.method = "registry"]
    ELSE IF Parsed(f.header) THEN Parse(f, f.header)
    ELSE IF Parsed(x.header) THEN Parse(f, x.header)
    ELSE [f EXCEPT !.header = x.header, !.method = "custom"]

(* The effects on pull secrets: the repository's own is selected whenever  *)
(* it is among the loaded ones, also where another serves as credentials,  *)
(* and the options are filled when empty.                                  *)
OwnPull(f, s) ==
    LET r == IF f.mode = "edit" THEN RowOf(s, f.ns) ELSE None
    IN IF r = None THEN f.pull ELSE IF r.pull \in s.pulls THEN r.pull ELSE f.pull
PullEffects(f, s) ==
    [f EXCEPT !.pull = OwnPull(f, s),
              !.shifted = @ \/ (f.method = "registry" /\ OwnPull(f, s) # f.pull),
              !.options = IF @ = {} THEN s.pulls ELSE @]

Checked(f) == [url |-> f.url, header |-> FinalHeader(f)]
Vals(f) == [url |-> f.url, filter |-> f.filter, header |-> FinalHeader(f), pull |-> f.pull]

(* For the properties a form remembers what was validated last, whether    *)
(* something changed it since behind the handlers' back, where its         *)
(* credentials come from, and which pull secrets it took over from another *)
(* namespace.                                                              *)
EmptyForm(mode, n) ==
    [mode |-> mode, ns |-> n, url |-> None, filter |-> FALSE, method |-> "none",
     header |-> None, user |-> <<Empty, Empty>>, token |-> <<Empty>>,
     pull |-> None, options |-> st.pulls,
     validated |-> "unset", checked |-> None, shifted |-> FALSE, touched |-> FALSE,
     seen |-> None, refilled |-> FALSE, alien |-> st.pulls \ pullsAt[n]]

Fill(f, x) ==
    IF x = None THEN f
    ELSE [SecretEffect(f, x) EXCEPT !.seen = x, !.refilled = @ \/ (f.seen # None /\ f.seen # x)]

(* What becomes of the open form f when the store changes from st to s.    *)
Unmounts(f, s) == f.mode = "edit" /\ (~TablesShown(s) \/ RowOf(s, f.ns) = None)
AfterStore(f, s, rowChanged, secretChanged) ==
    IF f = None THEN None
    ELSE IF Unmounts(f, s) THEN None
    ELSE LET edit == f.mode = "edit"
             g == IF edit /\ rowChanged THEN RepoEffect(f, RowOf(s, f.ns)) ELSE f
             h == IF edit /\ secretChanged THEN Fill(g, SecretFor(s)) ELSE g
         IN [PullEffects(h, s) EXCEPT !.shifted = @ \/ Checked(h) # Checked(f)]

(* Requests whose form, or whose button, is no longer there cannot reach   *)
(* it with their answer.                                                   *)
Detached(Q, f, s) ==
    {[q EXCEPT !.own = @ /\ (q.mode = None \/ f # None),
               !.same = @ /\ (q.mode # "edit" \/ TablesShown(s))] : q \in Q}

(* A change of the store to s, with the requests Q; and one under a form   *)
(* that has become f.                                                      *)
StoreUnder(f, s, Q, rowChanged, secretChanged) ==
    \E g \in {AfterStore(f, s, rowChanged, secretChanged)} :
        /\ st' = s
        /\ form' = g
        /\ requests' = Detached(Q, g, s)
Store(s, Q, rowChanged, secretChanged) == StoreUnder(form, s, Q, rowChanged, secretChanged)

-----------------------------------------------------------------------------
(* The user: scope and buttons of the list *)

Acts ==
    /\ actions < MaxActions
    /\ actions' = actions + 1
    /\ UNCHANGED <<edits, faults>>
Sends == Acts /\ Cardinality(requests) < MaxRequests

(* An open form for a new repository belongs to the current namespace: it  *)
(* follows, keeps options and choice, and fetches the new pull secrets.    *)
Follows(n) == form # None /\ (form # None => form.mode = "add" /\ form.ns # n)
FormIn(n) ==
    IF ~Follows(n) THEN form
    ELSE [form EXCEPT !.ns = n,
            !.alien = (@ \union form.options \union st.pulls \union ({form.pull} \ {None}))
                      \ pullsAt[n]]

(* The toggle, the context selector and the browser's history change the   *)
(* URL (all but the toggle behind an open form too, and the query alone    *)
(* changes no scope); the list is fetched again if its scope changes.      *)
MoveTo(p) ==
    /\ p.ns = page.ns \/ p.all = page.all
    /\ p.all # page.all => form = None
    /\ Acts
    /\ page' = p
    /\ LET scope == IF p.all THEN All ELSE p.ns
           Q == requests \union (IF Follows(p.ns) THEN {Request("pulls", p.ns)} ELSE {})
       IN IF scope = Scope THEN StoreUnder(FormIn(p.ns), LOCATION_CHANGE(st), Q, FALSE, FALSE)
          ELSE StoreUnder(FormIn(p.ns), requestRepos(LOCATION_CHANGE(st)),
                          Q \union {ListRequest(scope)}, FALSE, FALSE)
    /\ UNCHANGED <<backend, dirty>>

InTables(n) == TablesShown(st) /\ RowOf(st, n) # None

handleDeleteClick(n) ==
    /\ InTables(n) /\ form = None /\ Sends
    /\ requests' = requests \union {[Request("delete", n) EXCEPT !.scope = Scope]}
    /\ UNCHANGED <<backend, page, st, form, dirty>>

handleResyncClick(S) ==
    /\ S # {} /\ form = None /\ Sends
    /\ requests' = requests \union {Request("resync", n) : n \in S}
    /\ UNCHANGED <<backend, page, st, form, dirty>>
handleResyncAllClick == handleResyncClick({st.repos[i].ns : i \in DOMAIN st.repos})

(* The form opens: its effects fetch the pull secrets of its namespace and *)
(* the secret of its repository.                                           *)
OpenForm(mode, n) ==
    /\ form = None /\ Sends
    /\ \/ mode = "add" /\ n = page.ns
       \/ mode = "edit" /\ InTables(n)
    /\ LET r == RowOf(st, n)
           f == EmptyForm(mode, n)
           g == IF mode = "edit" THEN Fill(RepoEffect(f, r), SecretFor(st)) ELSE f
       IN /\ form' = PullEffects(g, st)
          /\ requests' = requests \union {Request("pulls", n)} \union
                         (IF mode = "edit" THEN SecretRequests(r) ELSE {})
    /\ UNCHANGED <<backend, page, st, dirty>>

CloseForm ==
    /\ form # None /\ Acts
    /\ form' = None
    /\ requests' = Detached(requests, None, st)
    /\ UNCHANGED <<backend, page, st, dirty>>

-----------------------------------------------------------------------------
(* The user: the fields of the form.  All but the filter and the pull      *)
(* secret forget the validation.                                           *)

Edit(f) ==
    /\ form # None /\ edits < MaxEdits
    /\ edits' = edits + 1
    /\ form' = PullEffects(f, st)
    /\ UNCHANGED <<backend, page, st, requests, dirty, actions, faults>>

KeepsValidation(f) == f
Revalidate(f) == [f EXCEPT !.validated = "unset"]
Retouched(f) == [Revalidate(f) EXCEPT !.touched = TRUE]

handleURLChange(u) == Edit(Revalidate([form EXCEPT !.url = u]))
handleAuthRadioButtonChange(m) ==
    /\ form # None /\ m # form.method /\ (m = "registry" => form.ns # Global)
    /\ Edit(Retouched([form EXCEPT !.method = m]))
handleUserChange(u) ==
    /\ form # None /\ form.method = "Basic"
    /\ Edit(Retouched([form EXCEPT !.user = u]))
handleAuthTokenChange(t) ==
    /\ form # None /\ form.method = "Bearer"
    /\ Edit(Retouched([form EXCEPT !.token = t]))
handleAuthHeaderChange(h) ==
    /\ form # None /\ form.method = "custom"
    /\ LET f == Retouched([form EXCEPT !.header = h])
       IN Edit(IF form.mode = "edit" THEN Fill(f, SecretFor(st)) ELSE f)
handleFilterNames == Edit([form EXCEPT !.filter = ~@])

(* A pull secret that serves as credentials is not validated again. *)
selectPullSecret(p) ==
    /\ form # None /\ form.ns # Global /\ p \in form.options \union {None}
    /\ Edit([form EXCEPT !.pull = p, !.shifted = @ \/ form.method = "registry",
                         !.touched = @ \/ form.method = "registry"])

(* AppRepoAddDockerCreds *)
handleCredentials ==
    /\ form # None /\ form.ns # Global /\ Sends
    /\ ~ \E q \in requests : q.kind = "cred" /\ q.own
    /\ requests' = requests \union {[Request("cred", form.ns) EXCEPT !.mode = form.mode]}
    /\ UNCHANGED <<backend, page, st, form, dirty>>

(* install: validate first, unless that was done or has failed before, in  *)
(* the page's namespace.  It goes on with the values of the click.         *)
Task(kind) ==
    [Request(kind, form.ns) EXCEPT !.mode = form.mode, !.vals = Vals(form),
        !.checked = form.checked, !.excused = form.shifted, !.alien = form.alien,
        !.seen = IF form.touched \/ form.refilled THEN None ELSE form.seen]
onSubmit(mode) == IF mode = "edit" THEN "update" ELSE "create"
install ==
    /\ form # None /\ form.url # None /\ ~st.validating /\ Sends
    /\ IF form.validated = "unset"
       THEN /\ requests' = requests \union {[Task("validate") EXCEPT !.checked = Checked(form),
                                                !.excused = FALSE, !.scope = page.ns]}
            /\ st' = [st EXCEPT !.validating = TRUE]
       ELSE /\ requests' = requests \union {Task(onSubmit(form.mode))}
            /\ UNCHANGED st
    /\ UNCHANGED <<backend, page, form, dirty>>

-----------------------------------------------------------------------------
(* The backend *)

(* Replies and writes that a change of namespace n overtook. *)
Overtaken(Q, n) ==
    {IF (q.kind = "list" /\ (q.reply # None \/ q.stage = 2)) \/ (q.reply # None /\ q.ns = n)
     THEN [q EXCEPT !.stale = TRUE] ELSE q : q \in Q}

Reply(ok, val) == [ok |-> ok, val |-> val]
WithReply(q, r) == (requests \ {q}) \union {[q EXCEPT !.reply = r]}

(* A list is read at one moment and delivered at another; answers that     *)
(* nothing overtakes are read and delivered in one step.                   *)
list(q) ==
    /\ q.kind = "list"
    /\ requests' = WithReply(q, Reply(TRUE, AsListed(IF q.scope = All THEN Spaces
                                          ELSE IF q.stage = 1 THEN {q.scope} ELSE {Global})))
    /\ UNCHANGED backend
AtOnce == {"secret", "pulls", "validate", "resync", "cred"}
SecretCalled(n, name) ==
    IF name # Own THEN IF name \in pullsAt[n] THEN name ELSE None
    ELSE IF server[n] = None THEN None ELSE server[n].header
ReplyTo(q) ==
    CASE q.kind = "secret" ->
           IF SecretCalled(q.ns, q.name) = None THEN Reply(FALSE, None)
           ELSE Reply(TRUE, [ns |-> q.ns, header |-> SecretCalled(q.ns, q.name)])
      [] q.kind = "pulls" -> Reply(TRUE, pullsAt[q.ns])
      [] q.kind = "validate" ->
           Reply(q.vals.url \in GoodUrls
                 /\ (q.vals.header \in AllPulls => q.vals.header \in pullsAt[q.scope]), None)
      [] q.kind = "cred" -> Reply(NewPull \notin pullsAt[q.ns], None)
      [] OTHER -> Reply(server[q.ns] # None, None)

(* What is written: create sends the filter as filterRule, update under a  *)
(* name that the backend does not read.  A header goes to the repository's *)
(* own secret, which otherwise stays as it is.                             *)
Ref(c) == IF c \in Headers THEN Own ELSE c
Written(q, applied) ==
    IF q.kind = "delete" THEN None
    ELSE [url |-> q.vals.url, filter |-> q.kind = "create" /\ q.vals.filter,
          ref |-> Ref(q.vals.header),
          header |-> IF applied /\ q.vals.header \in Headers THEN q.vals.header
                     ELSE IF server[q.ns] = None THEN None ELSE server[q.ns].header,
          pull |-> q.vals.pull]

(* The repository is written first and the secret after it.  An error that *)
(* is answered after the first write says nothing of it; here its reply    *)
(* holds the row for the properties.                                       *)
CanWrite(q) ==
    /\ (q.kind = "create") = (server[q.ns] = None)
    /\ q.kind # "delete" => (q.ns # Global \/ q.vals.pull = None)
Write(q, applied, ok) ==
    \E w \in {Written(q, applied)} :
        /\ server' = [server EXCEPT ![q.ns] = w]
        /\ requests' = Overtaken(requests \ {q}, q.ns)
                       \union {[q EXCEPT !.reply = Reply(ok, IF w = None THEN None
                                                             ELSE RowFor(q.ns, w))]}
Mutations == {"create", "update", "delete"}
SecretMissing(q) == q.kind # "delete" /\ q.vals.header \in AllPulls \ pullsAt[q.ns]
Writes(q) ==
    /\ q.kind \in Mutations
    /\ IF CanWrite(q) THEN Write(q, TRUE, ~SecretMissing(q))
       ELSE /\ requests' = WithReply(q, Reply(FALSE, None))
            /\ UNCHANGED server
    /\ UNCHANGED pullsAt

(* Writing the secret fails, or copying it to Kubeapps' namespace, or, in  *)
(* a deletion, deleting that copy.                                         *)
SecretFails(q) ==
    /\ q.reply = None /\ q.kind \in Mutations /\ CanWrite(q) /\ faults < MaxFaults
    /\ faults' = faults + 1
    /\ IF q.kind = "delete" THEN server[q.ns].ref # None /\ q.ns # Global
       ELSE q.vals.header # None
    /\ \E applied \in BOOLEAN : (applied => q.ns # Global) /\ Write(q, applied, FALSE)
    /\ UNCHANGED <<pullsAt, page, st, form, dirty, actions, edits>>

Backend(q) ==
    /\ q.reply = None
    /\ list(q) \/ Writes(q)
    /\ UNCHANGED <<page, st, form, dirty, bounds>>

(* Somebody else writes a repository. *)
UpdatedElsewhere(n, r) ==
    /\ server[n] # r /\ faults < MaxFaults
    /\ faults' = faults + 1
    /\ server' = [server EXCEPT ![n] = r]
    /\ requests' = Overtaken(requests, n)
    /\ dirty' = TRUE
    /\ UNCHANGED <<pullsAt, page, st, form, actions, edits>>

-----------------------------------------------------------------------------
(* Answers *)

CreateUndelivered(Q) == \E q \in Q : q.kind = "create" /\ q.reply # None /\ q.reply.ok

(* fetchRepos: the namespace's repositories, then the global ones. *)
fetchRepos(q, a) ==
    /\ q.kind = "list" /\ a.ok
    /\ IF q.scope = Team /\ q.stage = 1
       THEN /\ Store(requestRepos(st),
                     (requests \ {q}) \union {[ListRequest(Team) EXCEPT !.stage = 2,
                                                !.part = a.val, !.stale = q.stale]},
                     FALSE, FALSE)
            /\ UNCHANGED dirty
       ELSE \E s \in {receiveRepos(st, q.part \o a.val)} :
            /\ Store(s, (requests \ {q}) \union
                        (IF form # None /\ (form # None => form.mode = "edit")
                         THEN SecretRequests(RowOf(s, form.ns)) ELSE {}), TRUE, FALSE)
            /\ dirty' = (q.stale \/ q.scope # Scope \/ CreateUndelivered(requests))

fetchRepoSecret(q, a) ==
    /\ q.kind = "secret" /\ a.ok
    /\ \E s \in {receiveReposSecret(st, a.val)} :
        Store(s, requests \ {q}, FALSE, SecretFor(s) # SecretFor(st))
    /\ UNCHANGED dirty

fetchImagePullSecrets(q, a) ==
    /\ q.kind = "pulls" /\ a.ok
    /\ st' = [st EXCEPT !.pulls = a.val]
    /\ form' = IF form = None THEN None
               ELSE [PullEffects(form, st') EXCEPT !.alien = @ \union (a.val \ pullsAt[form.ns])]
    /\ requests' = requests \ {q}
    /\ UNCHANGED dirty

(* A form that is still there takes the result over, whatever it holds by  *)
(* now.                                                                    *)
setValidated(q, result) ==
    IF form = None \/ ~q.own THEN form
    ELSE [form EXCEPT !.validated = result, !.checked = q.checked,
                      !.shifted = Checked(form) # q.checked]
validateRepo(q, a) ==
    /\ q.kind = "validate"
    /\ st' = IF a.ok THEN [st EXCEPT !.validating = FALSE, !.errors = @ \ {"validate"}]
             ELSE errorRepos(st, "validate")
    /\ form' = setValidated(q, IF a.ok THEN "yes" ELSE "no")
    /\ requests' = (requests \ {q}) \union
                   (IF a.ok
                    THEN {[q EXCEPT !.kind = onSubmit(q.mode), !.reply = None, !.stale = FALSE]}
                    ELSE {})
    /\ UNCHANGED dirty

(* The button closes the form it has open, also a later one. *)
ClosedBy(q, f) ==
    IF f # None /\ q.same /\ f.mode = q.mode /\ (q.mode = "add" \/ f.ns = q.ns) THEN None ELSE f
installRepo(q, a) ==
    /\ q.kind = "create" /\ a.ok
    /\ st' = addedRepo(st, a.val)
    /\ form' = ClosedBy(q, form)
    /\ requests' = Detached(requests \ {q}, form', st')
    /\ dirty' = (dirty \/ q.stale \/ q.ns \notin Covers(Scope))

updateRepo(q, a) ==
    /\ q.kind = "update" /\ a.ok
    /\ st' = repoUpdated(st, a.val)
    /\ form' = AfterStore(ClosedBy(q, form), st', form # None /\ form.ns = q.ns, FALSE)
    /\ requests' = Detached((requests \ {q}) \union SecretRequests(a.val), form', st')
    /\ dirty' = (dirty \/ q.stale)

(* After a deletion, and after one that failed, the list is fetched again, *)
(* in the scope of the click.                                              *)
deleteRepo(q, a) ==
    /\ q.kind = "delete"
    /\ Store(requestRepos(IF a.ok THEN st ELSE errorRepos(st, "delete")),
             (requests \ {q}) \union {ListRequest(q.scope)}, FALSE, FALSE)
    /\ UNCHANGED dirty

resyncRepo(q, a) ==
    /\ q.kind = "resync" /\ a.ok
    /\ requests' = requests \ {q}
    /\ UNCHANGED <<st, form, dirty>>

(* The new pull secret is an option, wherever the form is by now. *)
OptionsAfter(a) == IF a.ok THEN form.options \union {NewPull} ELSE form.options
createDockerRegistrySecret(q, a) ==
    /\ q.kind = "cred"
    /\ LET s == IF a.ok THEN st ELSE errorRepos(st, "fetch")
           f == IF form = None \/ ~q.own THEN form
                ELSE [form EXCEPT !.options = OptionsAfter(a),
                                  !.alien = IF a.ok /\ q.ns # form.ns
                                            THEN @ \union ({NewPull} \ pullsAt[form.ns]) ELSE @]
       IN /\ st' = s
          /\ form' = AfterStore(f, s, FALSE, FALSE)
          /\ requests' = Detached(requests \ {q}, form', s)
    /\ UNCHANGED dirty

(* The errors are kept by operation. *)
ErrorOf(q) ==
    CASE q.kind = "create" -> "create"
      [] q.kind \in {"update", "resync"} -> "update"
      [] OTHER -> "fetch"
Refused(q, a) ==
    /\ q.kind \in {"list", "secret", "pulls", "create", "update", "resync"} /\ ~a.ok
    /\ Store(errorRepos(st, ErrorOf(q)), requests \ {q}, FALSE, FALSE)
    /\ dirty' = (dirty \/ q.kind = "list" \/ a.val # None)

Deliver(q, a) ==
    \/ fetchRepos(q, a) \/ fetchRepoSecret(q, a) \/ fetchImagePullSecrets(q, a)
    \/ validateRepo(q, a) \/ installRepo(q, a) \/ updateRepo(q, a) \/ deleteRepo(q, a)
    \/ resyncRepo(q, a) \/ createDockerRegistrySecret(q, a) \/ Refused(q, a)
Answer(q) ==
    /\ \/ q.reply # None /\ Deliver(q, q.reply)
       \/ q.kind \in AtOnce /\ Deliver(q, ReplyTo(q))
    /\ pullsAt' = IF q.kind = "cred" THEN [pullsAt EXCEPT ![q.ns] = @ \union {NewPull}] ELSE pullsAt
    /\ UNCHANGED <<server, page, bounds>>
FailedRequest(q) ==
    /\ q.reply = None /\ faults < MaxFaults
    /\ faults' = faults + 1
    /\ Deliver(q, Reply(FALSE, None))
    /\ UNCHANGED <<backend, page, actions, edits>>

-----------------------------------------------------------------------------
ListButtons ==
    \/ \E all \in BOOLEAN, n \in Spaces : MoveTo([all |-> all, ns |-> n])
    \/ handleResyncAllClick
    \/ \E n \in Spaces : handleDeleteClick(n) \/ (InTables(n) /\ handleResyncClick({n}))
    \/ \E n \in Spaces, mode \in Modes : OpenForm(mode, n)
FormFields ==
    \/ \E u \in Urls : handleURLChange(u)
    \/ \E m \in Methods : handleAuthRadioButtonChange(m)
    \/ \E u \in Typed("Basic") : handleUserChange(u)
    \/ \E t \in Typed("Bearer") : handleAuthTokenChange(t)
    \/ \E parts \in Typed("other") : handleAuthHeaderChange(Header("other", parts))
    \/ \E p \in PullOrNone : selectPullSecret(p)
    \/ handleFilterNames
Next ==
    \/ ListButtons \/ FormFields \/ CloseForm \/ handleCredentials \/ install
    \/ \E q \in requests : Backend(q) \/ SecretFails(q) \/ FailedRequest(q) \/ Answer(q)
    \/ \E n \in Spaces : \E r \in FirstSpec(n) \union {None} : UpdatedElsewhere(n, r)

Spec == Init /\ [][Next]_vars

-----------------------------------------------------------------------------
(* With nothing on its way and no error shown, the tables hold the         *)
(* repositories of the page's scope as they are on the server, each once,  *)
(* after any mixture of the user's own creations, updates, deletions and   *)
(* changes of scope.  It fails only after another user's write, an answer  *)
(* for a scope that was left, a list that was read before a write, a list  *)
(* that failed, a list that held the new repository already, or an error   *)
(* that kubeops answered after it had written the repository.              *)
ListMatchesServer ==
    (requests = {} /\ TablesShown(st) /\ ~dirty) =>
        /\ {st.repos[i] : i \in DOMAIN st.repos}
             = {Listed(n) : n \in {m \in Covers(Scope) : server[m] # None}}
        /\ \A i, j \in DOMAIN st.repos : st.repos[i].ns = st.repos[j].ns => i = j

(* What is created or updated was validated with the URL and credentials   *)
(* that are sent, or the user insisted after that validation failed, and   *)
(* its pull secret exists in its namespace.  Excused: fields that changed  *)
(* while the validation ran or that the store's effects replaced after it, *)
(* a pull secret chosen as credentials after it, and the pull secrets that *)
(* the form took over from another namespace: those of the store when it   *)
(* opened, a late list, or its own when the namespace changed under it.    *)
SubmittedIsSound ==
    \A q \in requests :
        q.kind \in {"create", "update"} =>
            /\ q.excused \/ q.checked = [url |-> q.vals.url, header |-> q.vals.header]
            /\ q.vals.pull \in pullsAt[q.ns] \union q.alien \union {None}

(* An update in which the user did not touch the credentials keeps them,   *)
(* once the form was filled from the repository's own and current secret   *)
(* and from no other before: the header goes through the form's state,     *)
(* where a secret that is late, out of date, or of another namespace's     *)
(* repository of that name, makes the update drop or replace it.  It holds *)
(* of headers that the form can put together again: of a password it keeps *)
(* what precedes a colon, and it knows no pull secret as credentials.      *)
Survives(h) == h # None /\ (Parsed(h) => Decoded(h) = h.parts)
CredentialsKept ==
    [][\A q \in requests :
        (/\ q.kind = "update" /\ q.reply = None /\ server[q.ns] # None
         /\ server[q.ns].ref = Own /\ Survives(server[q.ns].header)
         /\ q.seen = [ns |-> q.ns, header |-> server[q.ns].header]
         /\ server' # server /\ q \notin requests')
            => /\ server'[q.ns] # None
               /\ server'[q.ns].ref = Own /\ server'[q.ns].header = server[q.ns].header]_vars

=============================================================================
