--------------------------- MODULE SessionProofs ---------------------------
(***************************************************************************)
(* Theorems about Session, for any clusters, namespaces and users, any     *)
(* number of requests, faults and loads of the page, and any order of the  *)
(* answers.                                                                *)
(*                                                                         *)
(* A step of the tab ends in a render, which follows redirects until none  *)
(* applies and then runs the effects that send requests.  The proof goes   *)
(* the same way: what one redirect does, what a render does (AfterRender), *)
(* what a step does (StepSafe, StepLogin, StepLists), and that every       *)
(* action is such a step.                                                  *)
(***************************************************************************)
EXTENDS Session, TLAPS

(* Where a redirect or the history can lead, and the state of a tab. *)
Goals == {At("root"), At("login")} \union Privates
Tabs == [page : Pages, target : Goals, from : Privates \union {None},
         form : {"none", "checking", "ready"}, authed : BOOLEAN, authing : BOOLEAN,
         expired : BOOLEAN, current : Places, initial : NameOrNone,
         clusters : [Places -> Entries \union {None}], pick : Picks \union {None},
         leaving : BOOLEAN, crashed : BOOLEAN, cleared : BOOLEAN, stuck : BOOLEAN]

(* Every configured cluster has a namespace, and only its own. *)
SessionTypes ==
    /\ oauth \in BOOLEAN
    /\ storage \in [token : Users \union {None}, oidc : BOOLEAN, ns : [Places -> NameOrNone]]
    /\ cookie \in Users \union {None}
    /\ valid \subseteq Users
    /\ spaces \in [Places -> SUBSET AllNames]
    /\ \A c \in Clusters : spaces[c] # {} /\ spaces[c] \subseteq Names(c)
    /\ tab \in Tabs
    /\ faults \in Nat

(* A request names what its kind needs. *)
Typed(q) ==
    /\ q.kind \in API \union {"validate", "cookie"}
    /\ q.kind = "validate" => q.cred \in Users
    /\ q.kind \in API => q.cluster \in Places
    /\ q.kind = "get" => q.ns \in NameOrNone
    /\ q.kind = "create" => q.ns \in Names(q.cluster)
RequestInv == \A q \in requests : Typed(q)

(* The store's context is the URL's. *)
Follows(t) ==
    (t.page.at = "private" /\ t.page.ns # None) =>
        /\ t.current = t.page.cluster
        /\ t.clusters[t.current] # None
        /\ t.clusters[t.current].ns = t.page.ns

(* Every cluster of the configuration has an entry, with a list of         *)
(* namespaces, empty at first, unless a URL named another cluster.         *)
Full(t) ==
    \A c \in Clusters : t.clusters[c] # None /\ (t.clusters[c].list # None \/ Strange(t))
(* The two cases in which the header may fail. *)
Excused(t) == t.cleared \/ Strange(t)
PickOk(t) == (t.pick # None /\ t.pick.cluster \in Strangers) => Excused(t)

(* What is true of the tab between two steps. Only a tab whose clusters a  *)
(* logout cleared can lack the entry that the header reads, and only there *)
(* or after the URL of a stranger can an entry lack namespaces; a tab that *)
(* is leaving for the login page of the identity provider may have lost    *)
(* the URL's context.                                                      *)
TabInv(t) ==
    /\ t.page.at = "config" => (t.form = "none" /\ t.pick = None /\ ~t.crashed)
    /\ (t.page.at # "config" /\ ~t.crashed) => t.clusters[t.current] # None
    /\ (t.page.at # "config" /\ ~t.cleared) => Full(t)
    /\ t.crashed => Excused(t)
    /\ PickOk(t)
    /\ t.pick # None => ShowNav(t)
    /\ t.expired => t.leaving
    /\ (~t.crashed /\ ~t.leaving) => Follows(t)
    /\ (~t.crashed /\ t.form # "none") => t.page.at = "login"
    /\ t.authing => ~t.authed
    /\ (~t.crashed /\ t.form = "ready") => ~t.authed
    /\ t.form = "checking" => ~t.authed

(* Credentials. Nothing is sent before the configuration arrived; without  *)
(* OAuth there is no cookie, and with it no token is stored and the API is *)
(* called with the cookie that the tab was let in with.                    *)
CredInv ==
    /\ tab.page.at = "config" => requests = {}
    /\ ~oauth => /\ cookie = None /\ ~storage.oidc /\ tab.form # "checking"
                 /\ \A q \in requests : q.kind # "cookie"
    /\ oauth => /\ storage.token = None
                /\ tab.authed => cookie # None
                /\ \A q \in requests : /\ q.kind # "validate"
                                       /\ q.kind \in API => (q.cred = cookie /\ cookie # None)
    /\ faults = 0 => valid = Users

(* Without faults, a tab that has not logged out asks the API for nothing  *)
(* until it is logged in, so no error of an earlier session can reach the  *)
(* login page.                                                             *)
NoErrors(t) == \A c \in Places : t.clusters[c] # None => ~t.clusters[c].error
NoAPI(R) == \A q \in R : q.kind \notin API
LoginInv ==
    (~tab.cleared /\ ~tab.crashed /\ ~tab.leaving /\ faults = 0) =>
        /\ ~tab.authed => (NoAPI(requests) /\ NoErrors(tab))
        /\ tab.page.at = "login" => ~tab.authed

(* The inductive invariant. ListsAreOwn needs CredInv and LoginInv: a list *)
(* that is not the cluster's own is asked for again because the user is    *)
(* logged in when the context changes, and a late error may not log the    *)
(* user out meanwhile.                                                     *)
SessionInv == SessionTypes /\ RequestInv /\ TabInv(tab) /\ CredInv /\ LoginInv /\ ListsAreOwn

-----------------------------------------------------------------------------

(* What the redirects leave alone: the rest of the tab, what the store     *)
(* knows of the clusters, and that the header can be rendered.             *)
Fixed(t, u) ==
    /\ u.target = t.target /\ u.initial = t.initial /\ u.leaving = t.leaving
    /\ u.cleared = t.cleared /\ u.expired = t.expired /\ u.stuck = t.stuck
Kept(t, u) ==
    \A c \in Places :
        /\ t.clusters[c] # None => /\ u.clusters[c] # None
                                   /\ u.clusters[c].list = t.clusters[c].list
                                   /\ u.clusters[c].error = t.clusters[c].error
        /\ t.clusters[c] = None => (u.clusters[c] = None \/ ~u.clusters[c].error)
TabShown(t) == t \in Tabs /\ t.page.at # "config" /\ t.clusters[t.current] # None
Stage(t, u) ==
    /\ TabShown(u) /\ Fixed(t, u) /\ Kept(t, u)
    /\ u.pick = t.pick /\ u.crashed = t.crashed

(* URLs, entries and the reducer of LOCATION_CHANGE. *)
LEMMA PageFacts ==
    ASSUME NEW p \in Pages
    PROVE  /\ p.cluster = None \/ p.cluster \in Places
           /\ p.ns \in NameOrNone
           /\ p.at \in {"config", "root", "login", "private"}
           /\ p.at = "private" <=> p \in Privates
           /\ p.at = "private" => p.cluster # None
           /\ p.at # "private" => (p.cluster = None /\ p.ns = None)
           /\ p.at # "config" => p \in Goals
<1>1. CASE p \in {At("config"), At("root"), At("login")}
  BY <1>1 DEF At, Pages, Goals, Privates, Private, NameOrNone
<1>2. CASE p \in Privates
  <2>1. PICK c \in Places, n \in NameOrNone : p = Private(c, n)
    BY <1>2 DEF Privates
  <2> QED
    BY <1>2, <2>1, NoneAssumption DEF Private, Goals
<1> QED
  BY <1>1, <1>2 DEF Pages

LEMMA GoalFacts ==
    ASSUME NEW p \in Goals
    PROVE  p \in Pages /\ p.at # "config"
<1>1. CASE p \in {At("root"), At("login")}
  BY <1>1 DEF At, Pages
<1>2. CASE p \in Privates
  BY <1>2 DEF Privates, Private, Pages
<1> QED
  BY <1>1, <1>2 DEF Goals

LEMMA PlaceFacts ==
    /\ Clusters \subseteq Places /\ Strangers \subseteq Places
    /\ \A c \in Places : c \in Clusters \/ c \in Strangers
    /\ \A c \in Strangers : c \notin Clusters
    /\ First \in Places /\ Default \in Places
BY SessionConstants DEF Places

LEMMA EntryFacts ==
    /\ \A n \in NameOrNone, list \in (SUBSET AllNames) \union {None} :
          /\ Entry(n, list) \in Entries
          /\ Entry(n, list).ns = n /\ Entry(n, list).list = list /\ ~Entry(n, list).error
    /\ None \in NameOrNone /\ None \notin Entries /\ None \notin Picks
    /\ \A e \in Entries : e # None
    /\ {} \in SUBSET AllNames
BY NoneAssumption DEF Entry, Entries, NameOrNone

LEMMA LocationFacts ==
    ASSUME NEW t \in Tabs, NEW p \in Goals
    PROVE  LET u == LOCATION_CHANGE(t, p)
           IN /\ Stage(t, u) /\ Follows(u)
              /\ u.page = p /\ u.from = t.from /\ u.form = t.form
              /\ u.authed = t.authed /\ u.authing = t.authing
              /\ u.current = IF p.cluster = None THEN t.current ELSE p.cluster
<1> DEFINE c == IF p.cluster = None THEN t.current ELSE p.cluster
           e == EntryOf(t, c)
           f == [e EXCEPT !.ns = IF p.ns = None THEN @ ELSE p.ns]
           u == LOCATION_CHANGE(t, p)
<1>1. p \in Pages /\ p.at # "config"
  BY GoalFacts
<1>2. c \in Places
  BY <1>1, PageFacts DEF Tabs
<1>3. /\ e \in Entries /\ (t.clusters[c] # None => e = t.clusters[c])
      /\ t.clusters[c] = None => ~e.error
  BY <1>2, EntryFacts DEF Tabs, EntryOf
<1>4. /\ f \in Entries /\ f # None /\ f.list = e.list /\ f.error = e.error
      /\ p.ns # None => f.ns = p.ns
  BY <1>1, <1>3, PageFacts, EntryFacts DEF Entries
<1>5. u = [t EXCEPT !.page = p, !.current = c, !.clusters[c] = f]
  BY DEF LOCATION_CHANGE
<1> HIDE DEF c, e, f, u
<1>6. /\ u.page = p /\ u.from = t.from /\ u.form = t.form
      /\ u.authed = t.authed /\ u.authing = t.authing
      /\ u.pick = t.pick /\ u.crashed = t.crashed
      /\ u.current = c /\ u.clusters = [t.clusters EXCEPT ![c] = f]
      /\ Fixed(t, u)
  BY <1>5 DEF Tabs, Fixed
<1>7. u \in Tabs
  BY <1>1, <1>2, <1>4, <1>5 DEF Tabs
<1>8. u.clusters[c] = f
  BY <1>2, <1>6 DEF Tabs
<1>9. Kept(t, u)
  BY <1>2, <1>3, <1>4, <1>6, <1>8 DEF Kept, Tabs
<1>10. Follows(u)
  BY <1>1, <1>4, <1>6, <1>8, PageFacts DEF Follows, c
<1> QED
  BY <1>1, <1>4, <1>6, <1>7, <1>8, <1>9, <1>10 DEF Stage, TabShown, c, u

-----------------------------------------------------------------------------
(* Rendering *)

LEMMA StageTransitive ==
    ASSUME NEW t, NEW u, NEW v, Stage(t, u), Stage(u, v)
    PROVE  Stage(t, v)
BY DEF Stage, Fixed, Kept

LEMMA StageReflexive ==
    ASSUME NEW t, TabShown(t)
    PROVE  Stage(t, t)
BY DEF Stage, Fixed, Kept

(* What is kept keeps the entries, and the excuse for a failure. *)
LEMMA KeptFacts ==
    ASSUME NEW t, NEW u, Kept(t, u)
    PROVE  /\ Strange(t) => Strange(u)
           /\ (Excused(t) /\ u.cleared = t.cleared) => Excused(u)
           /\ (PickOk(t) /\ u.cleared = t.cleared /\ u.pick = t.pick) => PickOk(u)
           /\ Full(t) => Full(u)
           /\ NoErrors(t) => NoErrors(u)
<1>1. Strange(t) => Strange(u)
  BY PlaceFacts DEF Kept, Strange
<1>2. Full(t) => Full(u)
  BY <1>1, PlaceFacts DEF Kept, Full
<1>3. NoErrors(t) => NoErrors(u)
  BY DEF Kept, NoErrors
<1> QED
  BY <1>1, <1>2, <1>3 DEF Excused, PickOk

(* A tab with the same clusters, and one whose entries are as good. *)
LEMMA SameClusters ==
    ASSUME NEW t, NEW u, u.clusters = t.clusters
    PROVE  /\ Strange(u) <=> Strange(t)
           /\ u.cleared = t.cleared => (Excused(u) <=> Excused(t))
           /\ (PickOk(t) /\ u.cleared = t.cleared /\ u.pick \in {t.pick, None}) => PickOk(u)
           /\ Full(u) <=> Full(t)
BY DEF Strange, Excused, Full, PickOk

LEMMA ChildrenKept ==
    ASSUME NEW t, NEW u, TabShown(t), Kept(t, u), u.current = t.current
    PROVE  Children(u) = Children(t)
BY DEF Kept, TabShown, Tabs, Children

LEMMA ToLoginFacts ==
    ASSUME NEW t, TabShown(t), NEW from \in Privates \union {None}
    PROVE  LET u == ToLogin(t, from)
           IN /\ Stage(t, u) /\ u.page.at = "login" /\ u.form = t.form
              /\ u.authed = t.authed /\ u.authing = t.authing /\ u.current = t.current
<1> DEFINE s == [t EXCEPT !.from = from]
<1>1. /\ s \in Tabs /\ Stage(t, s) /\ s.form = t.form
      /\ s.authed = t.authed /\ s.authing = t.authing /\ s.current = t.current
  BY DEF TabShown, Tabs, Stage, Fixed, Kept
<1>2. At("login") \in Goals /\ At("login").cluster = None /\ At("login").at = "login"
  BY DEF Goals, At
<1> HIDE DEF s
<1>3. LET u == LOCATION_CHANGE(s, At("login"))
      IN /\ Stage(s, u) /\ u.page = At("login") /\ u.form = s.form
         /\ u.authed = s.authed /\ u.authing = s.authing /\ u.current = s.current
  BY <1>1, <1>2, LocationFacts
<1>4. ToLogin(t, from) = LOCATION_CHANGE(s, At("login"))
  BY DEF ToLogin, s
<1> QED
  BY <1>1, <1>2, <1>3, <1>4, StageTransitive

LEMMA FromPrivateFacts ==
    ASSUME NEW t, TabShown(t)
    PROVE  LET u == FromPrivate(t)
           IN /\ Stage(t, u) /\ u.form = t.form
              /\ u.authed = t.authed /\ u.authing = t.authing /\ u.current = t.current
              /\ IF t.page.at = "private" /\ ~t.authed /\ ~t.expired
                 THEN u.page.at = "login" ELSE u = t
<1>1. t.page \in Pages
  BY DEF TabShown, Tabs
<1>2. t.page.at = "private" => t.page \in Privates \union {None}
  BY <1>1, PageFacts
<1> QED
  BY <1>2, ToLoginFacts, StageReflexive DEF FromPrivate

LEMMA MountFacts ==
    ASSUME NEW t, TabShown(t)
    PROVE  LET u == MountLogin(t)
           IN /\ Stage(t, u) /\ u.page = t.page /\ u.from = t.from
              /\ u.current = t.current /\ u.clusters = t.clusters
              /\ u.authed => t.authed
              /\ t.authed => (u.authed \/ (t.page.at = "login" /\ u.form = "checking"))
              /\ u.authing => (t.authing \/ ~u.authed)
              /\ u.form # "none" => (u.page.at = "login" /\ Children(u))
              /\ (u.page.at = "login" /\ Children(u)) => u.form # "none"
              /\ u.form = "checking" => (t.form = "checking" \/ (oauth /\ ~u.authed))
              /\ t.form # "none" => (u.authed = t.authed)
              /\ u.form = "ready" => (u.authed = t.authed)
<1> USE DEF MountLogin
<1>0. Children(MountLogin(t)) = Children(t)
  BY DEF Children, TabShown, Tabs
<1>1. CASE t.page.at # "login" \/ ~Children(t)
  BY <1>0, <1>1 DEF Stage, TabShown, Tabs, Fixed, Kept
<1>2. CASE ~(t.page.at # "login" \/ ~Children(t)) /\ t.form # "none"
  BY <1>0, <1>2, StageReflexive DEF TabShown, Tabs
<1>3. CASE ~(t.page.at # "login" \/ ~Children(t)) /\ t.form = "none" /\ oauth
  BY <1>0, <1>3 DEF Stage, TabShown, Tabs, Fixed, Kept
<1>4. CASE ~(t.page.at # "login" \/ ~Children(t)) /\ t.form = "none" /\ ~oauth
  BY <1>0, <1>4 DEF Stage, TabShown, Tabs, Fixed, Kept
<1> QED
  BY <1>1, <1>2, <1>3, <1>4

LEMMA FromLoginFacts ==
    ASSUME NEW t, TabShown(t)
    PROVE  LET u == FromLogin(t)
           IN /\ Stage(t, u) /\ u.form = t.form
              /\ u.authed = t.authed /\ u.authing = t.authing
              /\ IF t.page.at = "login" /\ t.authed /\ ~t.authing /\ t.form = "ready"
                 THEN u.page.at \in {"root", "private"} /\ Follows(u) ELSE u = t
<1> DEFINE g == t.page.at = "login" /\ t.authed /\ ~t.authing /\ t.form = "ready"
           s == [t EXCEPT !.from = None]
           p == IF t.from = None THEN At("root") ELSE t.from
<1>1. /\ s \in Tabs /\ Stage(t, s) /\ s.form = t.form
      /\ s.authed = t.authed /\ s.authing = t.authing
  BY DEF TabShown, Tabs, Stage, Fixed, Kept
<1>2. p \in Goals /\ p.at \in {"root", "private"}
  <2>1. CASE t.from = None
    BY <2>1 DEF Goals, At
  <2>2. CASE t.from # None
    BY <2>2, NoneAssumption DEF TabShown, Tabs, Goals, Privates, Private
  <2> QED
    BY <2>1, <2>2
<1>3. CASE g
  <2>1. FromLogin(t) = LOCATION_CHANGE(s, p)
    BY <1>3 DEF FromLogin
  <2> HIDE DEF s, p
  <2>2. LET u == LOCATION_CHANGE(s, p)
        IN /\ Stage(s, u) /\ Follows(u) /\ u.page = p /\ u.form = s.form
           /\ u.authed = s.authed /\ u.authing = s.authing
    BY <1>1, <1>2, LocationFacts
  <2> QED
    BY <1>1, <1>2, <1>3, <2>1, <2>2, StageTransitive
<1>4. CASE ~g
  BY <1>4, StageReflexive DEF FromLogin
<1> QED
  BY <1>3, <1>4

LEMMA FromRootFacts ==
    ASSUME NEW t, TabShown(t)
    PROVE  LET u == FromRoot(t)
           IN /\ Stage(t, u) /\ u.form = t.form
              /\ u.authed = t.authed /\ u.authing = t.authing /\ u.current = t.current
              /\ t.page.at # "root" => u = t
              /\ (t.page.at = "root" /\ ~t.authed) => u.page.at = "login"
              /\ (t.page.at = "root" /\ t.authed) => u.page.at \in {"root", "private"}
              /\ t.page.at = "root" => Follows(u)
<1>1. CASE t.page.at # "root"
  BY <1>1, StageReflexive DEF FromRoot
<1>2. CASE t.page.at = "root" /\ ~t.authed
  BY <1>2, ToLoginFacts DEF FromRoot, Follows
<1>3. CASE t.page.at = "root" /\ t.authed /\ t.clusters[t.current].ns = None
  BY <1>3, StageReflexive DEF FromRoot, Follows
<1>4. CASE t.page.at = "root" /\ t.authed /\ t.clusters[t.current].ns # None
  <2> DEFINE n == t.clusters[t.current].ns
             p == Private(t.current, n)
  <2>1. t.current \in Places /\ n \in NameOrNone /\ t \in Tabs
    BY DEF TabShown, Tabs, Entries
  <2>2. /\ p \in Goals /\ p.at = "private" /\ p.cluster = t.current
        /\ p.cluster # None
    BY <2>1, NoneAssumption DEF Goals, Privates, Private
  <2>3. FromRoot(t) = LOCATION_CHANGE(t, p)
    BY <1>4 DEF FromRoot
  <2> HIDE DEF p
  <2> QED
    BY <1>4, <2>1, <2>2, <2>3, LocationFacts
<1> QED
  BY <1>1, <1>2, <1>3, <1>4

(* The state of the login, as far as the redirects depend on it. *)
Sane(t) ==
    /\ t.authing => ~t.authed
    /\ t.form = "checking" => ~t.authed
    /\ t.expired => t.leaving

LEMMA RedirectsFacts ==
    ASSUME NEW t, TabShown(t), Sane(t),
           t.leaving \/ Follows(t) \/ (~t.authed /\ Children(t))
    PROVE  LET r == Redirects(t)
           IN /\ Stage(t, r) /\ Sane(r)
              /\ r.leaving \/ Follows(r)
              /\ r.authed => t.authed
              /\ r.page.at = "login" => (~r.authed \/ ~Children(r))
              /\ r.form = "checking" => (t.form = "checking" \/ oauth)
              /\ (t.authed /\ t.page.at # "login") => (r.authed /\ r.page.at # "login")
              /\ (t.authed /\ t.page.at # "login") => r.current = t.current
<1>1. CASE ~Children(t)
  <2> DEFINE r == MountLogin(t)
  <2>1. Redirects(t) = r
    BY <1>1 DEF Redirects
  <2>2. /\ Stage(t, r) /\ r.page = t.page /\ r.current = t.current /\ r.clusters = t.clusters
        /\ r.authed => t.authed
        /\ t.authed => (r.authed \/ (t.page.at = "login" /\ r.form = "checking"))
        /\ r.authing => (t.authing \/ ~r.authed)
        /\ r.form # "none" => Children(r)
        /\ r.form = "checking" => (t.form = "checking" \/ (oauth /\ ~r.authed))
    BY MountFacts
  <2> HIDE DEF r
  <2>3. Children(r) = Children(t)
    BY <2>2 DEF Children
  <2>4. Sane(r)
    BY <2>2 DEF Sane, Stage, Fixed
  <2>5. r.leaving \/ Follows(r)
    BY <1>1, <2>2 DEF Follows, Stage, Fixed
  <2> QED
    BY <1>1, <2>1, <2>2, <2>3, <2>4, <2>5
<1>2. CASE Children(t)
  <2> DEFINE a == FromPrivate(t)
             b == MountLogin(a)
             d == FromLogin(b)
             r == FromRoot(d)
  <2>1. Redirects(t) = r
    <3>1. Then(Then(Then(Then({t}, FromPrivate), MountLogin), FromLogin), FromRoot) = {r}
      BY DEF Then
    <3> QED
      BY <1>2, <3>1 DEF Redirects
  <2>2. /\ Stage(t, a) /\ a.form = t.form
        /\ a.authed = t.authed /\ a.authing = t.authing /\ a.current = t.current
        /\ IF t.page.at = "private" /\ ~t.authed /\ ~t.expired
           THEN a.page.at = "login" ELSE a = t
    BY FromPrivateFacts
  <2>3. TabShown(a) /\ Children(a)
    BY <1>2, <2>2, ChildrenKept DEF Stage
  <2> HIDE DEF a
  <2>4. a.leaving \/ Follows(a)
    BY <2>2 DEF Follows, Stage, Fixed, Sane
  <2>5. Sane(a)
    BY <2>2 DEF Sane, Stage, Fixed
  <2>6. /\ Stage(a, b) /\ b.page = a.page /\ b.current = a.current /\ b.clusters = a.clusters
        /\ b.authed => a.authed
        /\ a.authed => (b.authed \/ (a.page.at = "login" /\ b.form = "checking"))
        /\ b.authing => (a.authing \/ ~b.authed)
        /\ (b.page.at = "login" /\ Children(b)) => b.form # "none"
        /\ b.form = "checking" => (a.form = "checking" \/ (oauth /\ ~b.authed))
    BY <2>3, MountFacts
  <2> HIDE DEF b
  <2>7. TabShown(b) /\ Children(b) /\ Sane(b) /\ (b.leaving \/ Follows(b))
    BY <2>3, <2>4, <2>5, <2>6 DEF Stage, Fixed, Sane, Children, Follows
  <2>8. /\ Stage(b, d) /\ d.form = b.form
        /\ d.authed = b.authed /\ d.authing = b.authing
        /\ IF b.page.at = "login" /\ b.authed /\ ~b.authing /\ b.form = "ready"
           THEN d.page.at \in {"root", "private"} /\ Follows(d) ELSE d = b
    BY <2>7, FromLoginFacts
  <2> HIDE DEF d
  <2>9. TabShown(d) /\ Sane(d) /\ (d.leaving \/ Follows(d))
    BY <2>7, <2>8 DEF Stage, Fixed, Sane
  <2>10. d.page.at = "login" => ~d.authed
    BY <2>6, <2>7, <2>8 DEF Sane, TabShown, Tabs
  <2>11. /\ Stage(d, r) /\ r.form = d.form
         /\ r.authed = d.authed /\ r.authing = d.authing /\ r.current = d.current
         /\ d.page.at # "root" => r = d
         /\ (d.page.at = "root" /\ ~d.authed) => r.page.at = "login"
         /\ (d.page.at = "root" /\ d.authed) => r.page.at \in {"root", "private"}
         /\ d.page.at = "root" => Follows(r)
    BY <2>9, FromRootFacts
  <2> HIDE DEF r
  <2>12. Stage(t, r)
    BY <2>2, <2>6, <2>8, <2>11, StageTransitive
  <2>13. Sane(r) /\ (r.leaving \/ Follows(r))
    BY <2>9, <2>11 DEF Sane, Stage, Fixed
  <2>14. r.page.at = "login" => ~r.authed
    BY <2>10, <2>11
  <2>15. (t.authed /\ t.page.at # "login") =>
            /\ r.authed /\ r.page.at # "login"
            /\ r.current = t.current
    BY <2>2, <2>6, <2>8, <2>11
  <2> QED
    BY <2>1, <2>2, <2>6, <2>8, <2>11, <2>12, <2>13, <2>14, <2>15
<1> QED
  BY <1>1, <1>2

LEMMA SelectorFacts ==
    ASSUME NEW old \in Tabs, NEW t, TabShown(t)
    PROVE  /\ Selector(old, t) \in Picks \union {None}
           /\ Selector(old, t) # None => ShowNav(t)
           /\ Selector(old, t) # None =>
                 \/ Selector(old, t).cluster = t.current
                 \/ old.pick # None /\ Selector(old, t).cluster = old.pick.cluster
<1>1. CASE ~ShowNav(t)
  BY <1>1 DEF Selector
<1>2. CASE ShowNav(t) /\ old.pick = None
  <2> DEFINE n == t.clusters[t.current].ns
  <2>1. t.current \in Places /\ n \in NameOrNone
    BY DEF TabShown, Tabs, Entries
  <2>2. [cluster |-> t.current, ns |-> n] \in Picks
    BY <2>1 DEF Picks
  <2> QED
    BY <1>2, <2>2 DEF Selector
<1>3. CASE ShowNav(t) /\ old.pick # None
  <2>1. old.pick \in Picks /\ old.pick.cluster \in Places
    BY <1>3 DEF Tabs, Picks
  <2>2. CASE t.clusters[old.pick.cluster] # None
    <3> DEFINE n == t.clusters[old.pick.cluster].ns
    <3>1. n \in NameOrNone
      BY <2>1, <2>2 DEF TabShown, Tabs, Entries
    <3>2. /\ [old.pick EXCEPT !.ns = n] \in Picks
          /\ [old.pick EXCEPT !.ns = n].cluster = old.pick.cluster
      BY <2>1, <3>1 DEF Picks
    <3> QED
      BY <1>3, <2>1, <3>2 DEF Selector
  <2>3. CASE t.clusters[old.pick.cluster] = None
    BY <1>3, <2>1, <2>3 DEF Selector
  <2> QED
    BY <2>2, <2>3
<1> QED
  BY <1>1, <1>2, <1>3

(* What a step hands to the render: the URL's context is in the store, or  *)
(* the render goes to the login page.                                      *)
RenderPre(t) ==
    /\ t \in Tabs /\ t.page.at # "config" /\ Sane(t)
    /\ t.crashed => (Excused(t) /\ t.pick = None)
    /\ ~t.cleared => Full(t)
    /\ (~t.cleared /\ ~t.crashed) => t.clusters[t.current] # None
    /\ PickOk(t)
    /\ (~t.crashed /\ ~t.leaving) =>
          \/ Follows(t)
          \/ ~t.authed /\ (t.clusters[t.current] = None \/ Children(t))

(* What a render leaves. *)
AfterRender(t, u) ==
    /\ u \in Tabs /\ TabInv(u) /\ Kept(t, u) /\ Fixed(t, u)
    /\ u.page.at # "config"
    /\ u.authed => t.authed
    /\ u.form = "checking" => (t.form = "checking" \/ oauth)
    /\ (t.authed /\ t.page.at # "login") =>
          u.authed /\ (~u.crashed => u.page.at # "login") /\ u.current = t.current
    /\ (u.page.at = "login" /\ u.authed /\ ~u.crashed) => ~Children(u)
    /\ t.crashed => u.crashed

LEMMA RenderFacts ==
    ASSUME NEW old \in Tabs, NEW t, RenderPre(t), t.pick = old.pick
    PROVE  AfterRender(t, Render(old, t))
<1>1. Render(old, t) = RenderState(old, t)
  BY DEF Render
<1>2. CASE t.crashed
  <2>1. RenderState(old, t) = t
    BY <1>2 DEF RenderState
  <2>2. TabInv(t)
    BY <1>2 DEF TabInv, RenderPre, Sane
  <2> QED
    BY <1>1, <1>2, <2>1, <2>2 DEF AfterRender, RenderPre, Kept, Fixed
<1>3. CASE ~t.crashed /\ t.clusters[t.current] = None
  <2> DEFINE u == [t EXCEPT !.crashed = TRUE, !.pick = None]
  <2>1. RenderState(old, t) = u
    BY <1>3 DEF RenderState, RenderPre
  <2>2. t.cleared
    BY <1>3 DEF RenderPre
  <2>3. u \in Tabs /\ u.crashed /\ u.pick = None /\ u.page = t.page /\ u.clusters = t.clusters
        /\ Fixed(t, u) /\ u.authed = t.authed /\ u.authing = t.authing /\ u.form = t.form
        /\ u.current = t.current
    BY DEF RenderPre, Tabs, Fixed
  <2> HIDE DEF u
  <2>4. TabInv(u)
    BY <2>2, <2>3, SameClusters DEF TabInv, RenderPre, Sane, Fixed, Excused, PickOk
  <2> QED
    BY <1>1, <1>3, <2>1, <2>3, <2>4 DEF AfterRender, RenderPre, Kept
<1>4. CASE ~t.crashed /\ t.clusters[t.current] # None
  <2> DEFINE r == Redirects(t)
             m == MountLogin(r)
             s == Selector(old, r)
             v == [m EXCEPT !.pick = s]
             u == IF SelectorFails(v) THEN [v EXCEPT !.crashed = TRUE, !.pick = None] ELSE v
  <2>1. RenderState(old, t) = u
    BY <1>4 DEF RenderState, RenderPre, WithSelector
  <2>2. TabShown(t) /\ Sane(t) /\ (t.leaving \/ Follows(t) \/ (~t.authed /\ Children(t)))
    BY <1>4 DEF RenderPre, TabShown
  <2>3. /\ Stage(t, r) /\ Sane(r)
        /\ r.leaving \/ Follows(r)
        /\ r.authed => t.authed
        /\ r.page.at = "login" => (~r.authed \/ ~Children(r))
        /\ r.form = "checking" => (t.form = "checking" \/ oauth)
        /\ (t.authed /\ t.page.at # "login") => (r.authed /\ r.page.at # "login")
        /\ (t.authed /\ t.page.at # "login") => r.current = t.current
    BY <2>2, RedirectsFacts
  <2>4. TabShown(r)
    BY <2>3 DEF Stage
  <2> HIDE DEF r
  <2>5. /\ Stage(r, m) /\ m.page = r.page /\ m.current = r.current /\ m.clusters = r.clusters
        /\ m.authed => r.authed
        /\ r.authed => (m.authed \/ (r.page.at = "login" /\ m.form = "checking"))
        /\ m.authing => (r.authing \/ ~m.authed)
        /\ m.form # "none" => (m.page.at = "login" /\ Children(m))
        /\ m.form = "checking" => (r.form = "checking" \/ (oauth /\ ~m.authed))
    BY <2>4, MountFacts
  <2>6. TabShown(m) /\ Children(m) = Children(r)
    BY <2>5 DEF Stage, Children
  <2>7. /\ s \in Picks \union {None} /\ (s # None => ShowNav(r))
        /\ s # None => (s.cluster = r.current \/ (t.pick # None /\ s.cluster = t.pick.cluster))
    BY <2>4, SelectorFacts
  <2> HIDE DEF m, s
  <2>8. /\ v \in Tabs /\ v.pick = s /\ v.page = m.page /\ v.clusters = m.clusters
        /\ v.current = m.current /\ v.authed = m.authed /\ v.authing = m.authing
        /\ v.form = m.form /\ v.crashed = m.crashed /\ Fixed(m, v)
    BY <2>6, <2>7 DEF TabShown, Tabs, Fixed
  <2>9. Fixed(t, v) /\ ~v.crashed /\ Kept(t, v)
    BY <1>4, <2>3, <2>5, <2>8 DEF Stage, Fixed, Kept
  <2> HIDE DEF v
  <2>10. m.authed = r.authed
    <3>1. m.authed <=> r.authed
      BY <2>3, <2>5, <2>6
    <3>2. m.authed \in BOOLEAN /\ r.authed \in BOOLEAN
      BY <2>4, <2>6 DEF TabShown, Tabs
    <3> QED
      BY <3>1, <3>2
  <2>a. (v.pick # None /\ v.pick.cluster \in Strangers) => Excused(v)
    <3>1. CASE s # None /\ s.cluster = r.current
      <4>1. v.clusters[s.cluster] # None
        BY <2>4, <2>5, <2>8, <3>1 DEF TabShown
      <4> QED
        BY <2>8, <4>1 DEF Excused, Strange
    <3>2. CASE s # None /\ t.pick # None /\ s.cluster = t.pick.cluster
      BY <2>8, <2>9, <3>2, KeptFacts DEF RenderPre, PickOk, Fixed
    <3> QED
      BY <2>7, <2>8, <3>1, <3>2
  <2>11. SelectorFails(v) => Excused(v)
    <3>1. PickOk(v)
      BY <2>a DEF PickOk
    <3>2. v.pick # None => (v.pick.cluster \in Places)
      BY <2>8 DEF Tabs, Picks
    <3>3. ~v.cleared => Full(v)
      BY <2>9, KeptFacts DEF RenderPre, Fixed
    <3> QED
      BY <3>1, <3>2, <3>3, PlaceFacts DEF SelectorFails, Full, Excused, PickOk
  <2>12. /\ u \in Tabs /\ u.page = v.page /\ u.clusters = v.clusters
         /\ u.current = v.current /\ u.authed = v.authed /\ u.authing = v.authing
         /\ u.form = v.form /\ Fixed(v, u)
         /\ u.crashed => (SelectorFails(v) /\ u.pick = None)
         /\ ~u.crashed => u.pick = s
    <3>1. CASE ~SelectorFails(v)
      <4>1. u = v
        BY <3>1
      <4> HIDE DEF u
      <4> QED
        BY <2>8, <2>9, <4>1 DEF Fixed
    <3>2. CASE SelectorFails(v)
      <4> DEFINE w == [v EXCEPT !.crashed = TRUE, !.pick = None]
      <4>1. u = w
        BY <3>2
      <4> HIDE DEF u
      <4>2. /\ w \in Tabs /\ w.page = v.page /\ w.clusters = v.clusters
            /\ w.current = v.current /\ w.authed = v.authed /\ w.authing = v.authing
            /\ w.form = v.form /\ w.crashed /\ w.pick = None /\ Fixed(v, w)
        BY <2>8 DEF Tabs, Fixed
      <4> HIDE DEF w
      <4> QED
        BY <3>2, <4>1, <4>2
    <3> QED
      BY <3>1, <3>2
  <2> HIDE DEF u
  <2>13. Fixed(t, u) /\ Kept(t, u)
    BY <2>9, <2>12 DEF Fixed, Kept
  <2>14. Sane(u) /\ u.page.at # "config" /\ u.clusters[u.current] # None
    BY <2>3, <2>5, <2>6, <2>8, <2>12, <2>13 DEF Sane, Stage, Fixed, TabShown
  <2>15. Children(u) = Children(r)
    BY <2>5, <2>6, <2>8, <2>12 DEF Children
  <2>16. (u.page.at = "login" /\ u.authed) => ~Children(u)
    BY <2>3, <2>5, <2>8, <2>10, <2>12, <2>15
  <2>17. u.form # "none" => (u.page.at = "login" /\ ~u.authed)
    BY <2>5, <2>6, <2>8, <2>12, <2>15, <2>16
  <2>18. u.pick # None => ShowNav(u)
    BY <2>5, <2>7, <2>8, <2>10, <2>12, <2>14 DEF ShowNav, Tabs
  <2>19. u.leaving \/ Follows(u)
    BY <2>3, <2>5, <2>8, <2>12 DEF Follows, Stage, Fixed
  <2>20. ~u.cleared => Full(u)
    BY <2>13, KeptFacts DEF RenderPre, Fixed
  <2>b. (u.crashed => Excused(u)) /\ PickOk(u)
    BY <2>a, <2>8, <2>11, <2>12, SameClusters DEF Fixed, PickOk
  <2>21. TabInv(u)
    BY <2>12, <2>b, <2>14, <2>17, <2>18, <2>19, <2>20 DEF TabInv, Sane
  <2> QED
    BY <1>1, <1>4, <2>1, <2>3, <2>5, <2>8, <2>10, <2>12, <2>13, <2>14, <2>16, <2>21
    DEF AfterRender
<1> QED
  BY <1>2, <1>3, <1>4

-----------------------------------------------------------------------------
(* Steps *)

(* What a step does to the rest of the state, what it may send, and the    *)
(* login that its tab claims.                                              *)
Around ==
    /\ oauth' = oauth /\ cookie' = cookie /\ valid' = valid
    /\ spaces' \in [Places -> SUBSET AllNames]
    /\ \A c \in Clusters : spaces'[c] # {} /\ spaces'[c] \subseteq Names(c)
    /\ storage' \in [token : Users \union {None}, oidc : BOOLEAN, ns : [Places -> NameOrNone]]
    /\ oauth => storage'.token = None
    /\ ~oauth => ~storage'.oidc
    /\ faults' \in Nat /\ (faults' = 0 => faults = 0)

Sound(R) ==
    \A q \in R :
        /\ Typed(q)
        /\ ~oauth => q.kind # "cookie"
        /\ oauth => /\ q.kind # "validate"
                    /\ q.kind \in API => (q.cred = cookie /\ cookie # None)

Credible(t) == (oauth /\ t.authed => cookie # None) /\ (~oauth => t.form # "checking")

(* A request and the effects that send requests. *)
LEMMA RequestFacts ==
    ASSUME NEW kind, NEW c, NEW n
    PROVE  LET q == Request(kind, c, n)
           IN /\ q.kind = kind /\ q.cluster = c /\ q.ns = n
              /\ q.cred = IF storage'.token # None THEN storage'.token ELSE cookie
BY DEF Request

LEMMA EffectFacts ==
    ASSUME Around, NEW old, NEW u \in Tabs, Credible(u),
           NEW q \in EffectRequests(old, u)
    PROVE  /\ Sound({q})
           /\ q.kind \in API => u.authed
           /\ u.page.at # "config"
<1>0. ~u.crashed /\ u.page.at # "config"
  BY DEF EffectRequests
<1>1. CASE q \in HeaderRequests(old, u)
  <2>1. /\ q = Request("list", u.current, None) \/ q = Request("can", u.current, None)
        /\ u.authed
    BY <1>1 DEF HeaderRequests, Asked
  <2>2. /\ q.kind \in {"list", "can"} /\ q.cluster = u.current
        /\ q.cred = IF storage'.token # None THEN storage'.token ELSE cookie
    BY <2>1, RequestFacts
  <2>3. u.current \in Places
    BY DEF Tabs
  <2> QED
    BY <1>0, <2>1, <2>2, <2>3 DEF Sound, Typed, API, Around, Credible
<1>2. CASE q = Request("get", u.current, u.clusters[u.current].ns) /\ ShowNav(u)
  <2>1. /\ q.kind = "get" /\ q.cluster = u.current /\ q.ns = u.clusters[u.current].ns
        /\ q.cred = IF storage'.token # None THEN storage'.token ELSE cookie
    BY <1>2, RequestFacts
  <2>2. u.current \in Places /\ u.clusters[u.current].ns \in NameOrNone /\ u.authed
    BY <1>2 DEF Tabs, Entries, ShowNav
  <2> QED
    BY <1>0, <2>1, <2>2 DEF Sound, Typed, API, Around, Credible
<1>3. CASE q = CookieRequest /\ u.form = "checking"
  BY <1>0, <1>3 DEF Sound, Typed, API, CookieRequest, Credible
<1> QED
  BY <1>1, <1>2, <1>3 DEF EffectRequests

(* A step keeps each part of the invariant. *)
LEMMA StepSafe ==
    ASSUME SessionTypes, CredInv, Around, NEW old, NEW t, NEW R, Sound(R), Credible(t),
           AfterRender(t, tab'), requests' = R \union EffectRequests(old, tab')
    PROVE  SessionTypes' /\ RequestInv' /\ TabInv(tab)' /\ CredInv'
<1>1. SessionTypes'
  BY DEF SessionTypes, Around, AfterRender
<1>2. Credible(tab') /\ tab'.page.at # "config" /\ tab' \in Tabs
  BY DEF Credible, AfterRender
<1>3. Sound(requests')
  <2>1. ASSUME NEW q \in EffectRequests(old, tab')
        PROVE  Sound({q})
    BY <1>2, EffectFacts
  <2> QED
    BY <2>1 DEF Sound
<1>4. RequestInv'
  BY <1>3 DEF Sound, RequestInv, Typed, API
<1>5. TabInv(tab)'
  BY DEF AfterRender, TabInv, Full, Follows, ShowNav, Excused, PickOk, Strange
<1>6. CredInv'
  BY <1>2, <1>3 DEF CredInv, Sound, Around, Credible
<1> QED
  BY <1>1, <1>4, <1>5, <1>6

LEMMA StepLogin ==
    ASSUME Around, NEW old, NEW t, NEW R, Credible(t), RenderPre(t),
           AfterRender(t, tab'), requests' = R \union EffectRequests(old, tab'),
           (faults' = 0 /\ ~t.cleared /\ ~t.crashed /\ ~t.leaving
               /\ (~t.authed \/ t.page.at = "login")) => (NoAPI(R) /\ NoErrors(t))
    PROVE  LoginInv'
<1> SUFFICES ASSUME ~tab'.cleared, ~tab'.crashed, ~tab'.leaving, faults' = 0
             PROVE  /\ ~tab'.authed => (NoAPI(requests)' /\ NoErrors(tab)')
                    /\ tab'.page.at = "login" => ~tab'.authed
  BY DEF LoginInv
<1>1. ~t.cleared /\ ~t.leaving /\ ~t.crashed
  BY DEF AfterRender, Fixed, TabInv
<1>3. NoErrors(t) => NoErrors(tab)'
  BY DEF NoErrors, AfterRender, Kept
<1>4. ~tab'.authed => (~t.authed \/ t.page.at = "login")
  BY DEF AfterRender
<1>5. ~tab'.authed => (NoAPI(requests)' /\ NoErrors(tab)')
  <2>1. Credible(tab') /\ tab' \in Tabs
    BY DEF Credible, AfterRender
  <2>2. ASSUME NEW q \in EffectRequests(old, tab'), ~tab'.authed
        PROVE  q.kind \notin API
    BY <2>1, <2>2, EffectFacts
  <2> QED
    BY <1>1, <1>3, <1>4, <2>2 DEF NoAPI, API
<1>6. tab'.page.at = "login" => ~tab'.authed
  <2> SUFFICES ASSUME tab'.page.at = "login", tab'.authed
               PROVE  FALSE
    OBVIOUS
  <2>1. ~Children(tab')
    BY <1>1 DEF AfterRender
  <2>2. ~t.authed \/ t.page.at = "login"
    BY <1>1 DEF AfterRender
  <2>3. NoErrors(tab')
    BY <1>1, <1>3, <2>2 DEF NoErrors
  <2>4. tab'.current \in Places /\ tab'.clusters[tab'.current] # None
    BY <1>1 DEF AfterRender, Tabs, TabInv
  <2> QED
    BY <2>1, <2>3, <2>4 DEF NoErrors, Children
<1> QED
  BY <1>5, <1>6

LEMMA StepLists ==
    ASSUME NEW t, NEW R, RenderPre(t),
           AfterRender(t, tab'), requests' = R \union EffectRequests(tab, tab'),
           (faults' = 0 /\ ~t.cleared /\ ~t.crashed) =>
              \A c \in Clusters :
                 \/ t.clusters[c].list = None \/ t.clusters[c].list \subseteq Names(c)
                 \/ \E q \in R : q.kind = "list" /\ q.cluster = c
                 \/ c = t.current /\ c # tab.current /\ t.authed /\ t.page.at # "login"
    PROVE  ListsAreOwn'
<1> SUFFICES ASSUME NEW c \in Clusters, faults' = 0, ~tab'.cleared, ~tab'.crashed
             PROVE  \/ tab'.clusters[c].list = None \/ tab'.clusters[c].list \subseteq Names(c)
                    \/ \E q \in requests' : q.kind = "list" /\ q.cluster = c
  BY DEF ListsAreOwn
<1>1. ~t.cleared /\ ~t.crashed /\ Full(t)
  BY DEF AfterRender, Fixed, RenderPre
<1>2. tab'.clusters[c].list = t.clusters[c].list
  BY <1>1, PlaceFacts DEF Full, AfterRender, Kept
<1>3. CASE c = t.current /\ c # tab.current /\ t.authed /\ t.page.at # "login"
  <2> DEFINE q == Request("list", tab'.current, None)
  <2>1. tab'.authed /\ tab'.current = c /\ tab'.page.at # "config"
    BY <1>3 DEF AfterRender
  <2>2. q \in EffectRequests(tab, tab')
    BY <1>3, <2>1 DEF EffectRequests, HeaderRequests, Asked
  <2>3. q.kind = "list" /\ q.cluster = tab'.current
    BY RequestFacts
  <2> QED
    BY <2>1, <2>2, <2>3
<1> QED
  BY <1>1, <1>2, <1>3

(* What a step must leave for the parts that need no fault. *)
LoginOk(t, R) ==
    (faults' = 0 /\ ~t.cleared /\ ~t.crashed /\ ~t.leaving
        /\ (~t.authed \/ t.page.at = "login")) => (NoAPI(R) /\ NoErrors(t))
ListsOk(t, R) ==
    (faults' = 0 /\ ~t.cleared /\ ~t.crashed) =>
        \A c \in Clusters :
            \/ t.clusters[c].list = None \/ t.clusters[c].list \subseteq Names(c)
            \/ \E q \in R : q.kind = "list" /\ q.cluster = c
            \/ c = t.current /\ c # tab.current /\ t.authed /\ t.page.at # "login"

LEMMA Remaining ==
    ASSUME SessionInv, NEW A
    PROVE  Sound(requests \ A)
BY DEF SessionInv, RequestInv, CredInv, Sound

(* Every action is a Step of a tab that is ready to be rendered: this is   *)
(* what each of the lemmas below shows.                                    *)
LEMMA StepInv ==
    ASSUME SessionInv, Around, NEW t, NEW A, RenderPre(t), t.pick = tab.pick, Credible(t), Step(t, A),
           LoginOk(t, requests \ A), ListsOk(t, requests \ A)
    PROVE  SessionInv'
<1> DEFINE R == requests \ A
<1>1. tab' = Render(tab, t) /\ requests' = R \union EffectRequests(tab, tab')
  BY DEF Step
<1>2. tab \in Tabs /\ SessionTypes /\ CredInv /\ Sound(R)
  BY Remaining DEF SessionInv, SessionTypes
<1>3. AfterRender(t, tab')
  BY <1>1, <1>2, RenderFacts
<1> HIDE DEF R
<1>4. SessionTypes' /\ RequestInv' /\ TabInv(tab)' /\ CredInv'
  BY <1>1, <1>2, <1>3, StepSafe
<1>5. LoginInv'
  <2>1. LoginOk(t, R)
    BY DEF R
  <2> QED
    BY <1>1, <1>2, <1>3, <2>1, StepLogin DEF LoginOk
<1>6. ListsAreOwn'
  <2>1. ListsOk(t, R)
    BY DEF R
  <2> QED
    BY <1>1, <1>2, <1>3, <2>1, StepLists DEF ListsOk
<1> QED
  BY <1>4, <1>5, <1>6 DEF SessionInv

(* The tab between two steps is ready to be rendered. *)
LEMMA TabPre ==
    ASSUME NEW t \in Tabs, TabInv(t), t.page.at # "config"
    PROVE  RenderPre(t)
BY DEF TabInv, RenderPre, Sane, ShowNav

LEMMA AroundSame ==
    ASSUME SessionInv, UNCHANGED <<server, storage>>, faults' \in Nat, faults' = 0 => faults = 0
    PROVE  Around
BY DEF SessionInv, SessionTypes, CredInv, Around, server

LEMMA AroundStorage ==
    ASSUME SessionInv, UNCHANGED server,
           storage' \in [token : Users \union {None}, oidc : BOOLEAN, ns : [Places -> NameOrNone]],
           oauth => storage'.token = None, ~oauth => ~storage'.oidc,
           faults' \in Nat, faults' = 0 => faults = 0
    PROVE  Around
BY DEF SessionInv, SessionTypes, Around, server

LEMMA StorageFacts ==
    ASSUME SessionInv
    PROVE  /\ StorageAfterLogout \in
                 [token : Users \union {None}, oidc : BOOLEAN, ns : [Places -> NameOrNone]]
           /\ oauth => StorageAfterLogout.token = None
           /\ ~StorageAfterLogout.oidc
<1>1. None \in NameOrNone
  BY EntryFacts
<1>2. NoStoredNamespaces \in [Places -> NameOrNone]
  BY <1>1 DEF NoStoredNamespaces
<1> HIDE DEF NoStoredNamespaces
<1> QED
  BY <1>2 DEF SessionInv, SessionTypes, CredInv, StorageAfterLogout

LEMMA TabCredible ==
    ASSUME SessionInv
    PROVE  Credible(tab)
BY DEF SessionInv, CredInv, Credible

LEMMA OwnLists ==
    ASSUME SessionInv, faults' = 0 => faults = 0, NEW R, ~tab.crashed,
           \A q \in requests : q.kind = "list" => q \in R,
           NEW t, t.cleared = tab.cleared, tab.page.at # "config",
           \A c \in Clusters : t.clusters[c] = tab.clusters[c] 
               \/ (tab.clusters[c] # None => t.clusters[c].list = tab.clusters[c].list)
    PROVE  ListsOk(t, R)
<1> SUFFICES ASSUME faults' = 0, ~t.cleared, NEW c \in Clusters
             PROVE  \/ t.clusters[c].list = None \/ t.clusters[c].list \subseteq Names(c)
                    \/ \E q \in R : q.kind = "list" /\ q.cluster = c
  BY DEF ListsOk
<1>1. tab.clusters[c] # None
  BY DEF SessionInv, TabInv, Full
<1>2. \/ tab.clusters[c].list = None \/ tab.clusters[c].list \subseteq Names(c)
      \/ \E q \in requests : q.kind = "list" /\ q.cluster = c
  BY <1>1 DEF SessionInv, ListsAreOwn
<1> QED
  BY <1>1, <1>2

(* Logging out, and the page that is loaded afresh after it. *)
LEMMA LogoutFacts ==
    ASSUME NEW s \in Tabs, s.page.at # "config", s.authing => ~s.authed,
           s.form = "checking" => ~s.authed, s.expired => (s.leaving \/ storage.oidc),
           s.crashed => (Excused(s) /\ s.pick = None), ~s.cleared => Full(s),
           (~s.cleared /\ ~s.crashed) => s.clusters[s.current] # None, PickOk(s)
    PROVE  LET u == logout(s)
           IN /\ RenderPre(u) /\ u.pick = s.pick /\ u.form = s.form /\ (u.authed => s.authed)
              /\ u.crashed = s.crashed
              /\ storage.oidc => (u.leaving /\ u.clusters = s.clusters /\ u.cleared = s.cleared)
              /\ ~storage.oidc => u.cleared
<1>1. CASE storage.oidc
  <2> DEFINE u == [s EXCEPT !.leaving = TRUE]
  <2>1. logout(s) = u
    BY <1>1 DEF logout
  <2>2. /\ u \in Tabs /\ u.page = s.page /\ u.form = s.form /\ u.authed = s.authed
        /\ u.authing = s.authing /\ u.leaving /\ u.clusters = s.clusters
        /\ u.cleared = s.cleared /\ u.crashed = s.crashed /\ u.pick = s.pick
        /\ u.current = s.current
    BY DEF Tabs
  <2> HIDE DEF u
  <2> QED
    BY <1>1, <2>1, <2>2, SameClusters DEF RenderPre, Sane
<1>2. CASE ~storage.oidc
  <2> DEFINE C == [c \in Places |-> IF c = Default THEN Entry(s.initial, {}) ELSE None]
             u == [s EXCEPT !.authed = FALSE, !.authing = FALSE, !.cleared = TRUE, !.clusters = C]
  <2>0. s.initial \in NameOrNone
    BY DEF Tabs
  <2>1. Entry(s.initial, {}) \in Entries /\ ~Entry(s.initial, {}).error
    BY <2>0, EntryFacts
  <2>2. C \in [Places -> Entries \union {None}]
    BY <2>1
  <2>3. \A c \in Places : C[c] = None \/ ~C[c].error
    BY <2>1
  <2>4. logout(s) = u
    BY <1>2 DEF logout, clearClusters, Tabs
  <2> HIDE DEF C
  <2>5. /\ u \in Tabs /\ u.page = s.page /\ u.form = s.form /\ ~u.authed /\ ~u.authing
        /\ u.leaving = s.leaving /\ u.clusters = C /\ u.cleared /\ u.crashed = s.crashed
        /\ u.pick = s.pick /\ u.current \in Places /\ u.expired = s.expired
    BY <2>2 DEF Tabs
  <2> HIDE DEF u
  <2>6. u.clusters[u.current] = None \/ Children(u)
    BY <2>3, <2>5 DEF Children
  <2> QED
    BY <1>2, <2>4, <2>5, <2>6 DEF RenderPre, Sane, Excused, PickOk
<1> QED
  BY <1>1, <1>2

LEMMA LogoutStep ==
    ASSUME SessionInv, Logout
    PROVE  SessionInv'
<1> DEFINE t == logout(tab)
<1>1. tab \in Tabs /\ TabInv(tab) /\ tab.page.at # "config" /\ ~tab.crashed
  BY DEF SessionInv, SessionTypes, Logout
<1>2. /\ RenderPre(t) /\ t.pick = tab.pick /\ t.form = tab.form /\ (t.authed => tab.authed)
      /\ storage.oidc => (t.leaving /\ t.clusters = tab.clusters /\ t.cleared = tab.cleared)
      /\ ~storage.oidc => t.cleared
  BY <1>1, LogoutFacts DEF TabInv
<1> HIDE DEF t
<1>3. Around
  BY StorageFacts, AroundStorage DEF Logout, counters, SessionInv, SessionTypes
<1>4. Credible(t)
  BY <1>2, TabCredible DEF Credible
<1>5. LoginOk(t, requests \ {})
  BY <1>2 DEF LoginOk
<1>6. ListsOk(t, requests \ {})
  <2>1. CASE storage.oidc
    BY <1>1, <1>2, <1>3, <2>1, OwnLists DEF Around
  <2>2. CASE ~storage.oidc
    BY <1>2, <2>2 DEF ListsOk
  <2> QED
    BY <2>1, <2>2
<1>7. Step(t, {})
  BY DEF Logout, t
<1> QED
  BY <1>2, <1>3, <1>4, <1>5, <1>6, <1>7, StepInv

LEMMA LoadedFacts ==
    ASSUME NEW token \in Users \union {None}, NEW goal \in Goals
    PROVE  LET u == Loaded(token, goal)
           IN /\ u \in Tabs /\ TabInv(u) /\ u.page.at = "config" /\ u.form = "none"
              /\ u.authed <=> token # None
              /\ ~u.leaving /\ ~u.crashed
              /\ \A c \in Places : u.clusters[c] = None
<1> DEFINE u == Loaded(token, goal)
           C == [c \in Places |-> None]
           n == IF token = None THEN None ELSE TokenSpace(token)
<1>1. At("config") \in Pages /\ At("config").at = "config"
  BY DEF Pages, At
<1>2. C \in [Places -> Entries \union {None}]
  OBVIOUS
<1>3. n \in NameOrNone
  BY SessionConstants, EntryFacts
<1>4. Default \in Places
  BY PlaceFacts
<1>5. \A c \in Places : C[c] = None
  OBVIOUS
<1>6. u = [page |-> At("config"), target |-> goal, from |-> None, form |-> "none",
           authed |-> token # None, authing |-> FALSE, expired |-> FALSE,
           current |-> Default, initial |-> n, clusters |-> C, pick |-> None,
           leaving |-> FALSE, crashed |-> FALSE, cleared |-> FALSE, stuck |-> FALSE]
  BY DEF Loaded
<1> HIDE DEF C, n, u
<1>7. u \in Tabs
  BY <1>1, <1>2, <1>3, <1>4, <1>6 DEF Tabs
<1>8. TabInv(u)
  BY <1>1, <1>6 DEF TabInv, Follows, PickOk
<1>9. /\ u.page.at = "config" /\ u.form = "none" /\ ~u.leaving /\ ~u.crashed
      /\ u.clusters = C /\ u.authed = (token # None)
  BY <1>1, <1>6
<1> QED
  BY <1>5, <1>7, <1>8, <1>9 DEF u

(* A page that is loaded afresh. *)
LEMMA FreshStep ==
    ASSUME SessionInv, NEW goal \in Goals, tab' = Loaded(storage.token, goal),
           requests' = {}, cookie' \in Users \union {None}, ~oauth => cookie' = None,
           UNCHANGED <<oauth, storage, valid, spaces, faults>>
    PROVE  SessionInv'
<1>1. storage.token \in Users \union {None}
  BY DEF SessionInv, SessionTypes
<1>2. /\ tab' \in Tabs /\ TabInv(tab') /\ tab'.page.at = "config" /\ tab'.form = "none"
      /\ tab'.authed <=> storage.token # None
      /\ ~tab'.leaving /\ ~tab'.crashed
      /\ \A c \in Places : tab'.clusters[c] = None
  BY <1>1, LoadedFacts
<1>3. SessionTypes' /\ RequestInv'
  BY <1>2 DEF SessionInv, SessionTypes, RequestInv
<1>4. TabInv(tab)'
  BY <1>2 DEF TabInv, Follows, ShowNav, Excused, PickOk, Strange, Full
<1>5. CredInv'
  BY <1>2 DEF SessionInv, CredInv
<1>6. LoginInv' /\ ListsAreOwn'
  BY <1>2, PlaceFacts DEF LoginInv, NoAPI, NoErrors, ListsAreOwn
<1> QED
  BY <1>3, <1>4, <1>5, <1>6 DEF SessionInv

LEMMA FreshSteps ==
    ASSUME SessionInv, SignedOut \/ Reload \/ \E u \in Users : LoginViaProvider(u)
    PROVE  SessionInv'
<1>1. At("root") \in Goals
  BY DEF Goals
<1>2. CASE SignedOut
  BY <1>1, <1>2, FreshStep DEF SignedOut, counters, SessionInv, CredInv
<1>3. CASE Reload
  <2>1. tab.page \in Goals
    BY <1>3, PageFacts DEF Reload, SessionInv, SessionTypes, Tabs
  <2> QED
    BY <1>3, <2>1, FreshStep DEF Reload, server, SessionInv, CredInv, SessionTypes
<1>4. ASSUME NEW u \in Users, LoginViaProvider(u)
      PROVE  SessionInv'
  BY <1>1, <1>4, FreshStep DEF LoginViaProvider
<1> QED
  BY <1>2, <1>3, <1>4

LEMMA SubmitStep ==
    ASSUME SessionInv, NEW u \in Users, handleSubmit(u)
    PROVE  SessionInv'
<1> DEFINE q == [CookieRequest EXCEPT !.kind = "validate", !.cred = u]
           t == [tab EXCEPT !.authed = FALSE, !.authing = TRUE]
<1>0. tab \in Tabs /\ TabInv(tab) /\ tab.form = "ready" /\ ~tab.crashed /\ ~oauth
  BY DEF handleSubmit, FormShown, SessionInv, SessionTypes
<1>1. q.kind = "validate" /\ q.cred = u
  BY DEF CookieRequest
<1>2. /\ t \in Tabs /\ t.page = tab.page /\ t.form = tab.form /\ ~t.authed /\ t.authing
      /\ t.leaving = tab.leaving /\ t.clusters = tab.clusters /\ t.cleared = tab.cleared
      /\ t.crashed = tab.crashed /\ t.pick = tab.pick /\ t.current = tab.current
      /\ t.expired = tab.expired
  BY <1>0 DEF Tabs
<1>3. tab' = t /\ requests' = requests \union {q} /\ UNCHANGED <<server, storage, faults>>
  BY DEF handleSubmit, counters
<1> HIDE DEF q, t
<1>4. ~tab.authed /\ tab.page.at = "login" /\ t.pick = None
  BY <1>0, <1>2 DEF TabInv, ShowNav
<1>5. SessionTypes' /\ RequestInv'
  BY <1>1, <1>2, <1>3 DEF SessionInv, SessionTypes, RequestInv, Typed, API, server
<1>6. TabInv(t)
  BY <1>0, <1>2, <1>4, SameClusters DEF TabInv, Follows
<1>7. CredInv'
  BY <1>0, <1>1, <1>2, <1>3, <1>4 DEF SessionInv, CredInv, server, API
<1>8. LoginInv'
  BY <1>1, <1>2, <1>3, <1>4 DEF SessionInv, LoginInv, NoAPI, NoErrors, API
<1>9. ListsAreOwn'
  BY <1>2, <1>3 DEF SessionInv, ListsAreOwn
<1> QED
  BY <1>3, <1>5, <1>6, <1>7, <1>8, <1>9 DEF SessionInv

(* A step that changes no more of the tab than the state of the login. *)
LEMMA AuthStep ==
    ASSUME SessionInv, Around, tab.page.at # "config", NEW A, \A q \in A : q.kind # "list",
           NEW t \in Tabs,
           t.page = tab.page, t.clusters = tab.clusters, t.current = tab.current,
           t.cleared = tab.cleared, t.crashed = tab.crashed, t.leaving = tab.leaving,
           t.pick = tab.pick, Sane(t), Credible(t), LoginOk(t, requests \ A), Step(t, A)
    PROVE  SessionInv'
<1>1. TabInv(tab)
  BY DEF SessionInv
<1>2. RenderPre(t)
  BY <1>1, SameClusters DEF TabInv, RenderPre, Follows, ShowNav
<1>3. ListsOk(t, requests \ A)
  <2>1. CASE tab.crashed
    BY <2>1 DEF ListsOk
  <2>2. CASE ~tab.crashed
    BY <2>2, OwnLists DEF Around
  <2> QED
    BY <2>1, <2>2
<1> QED
  BY <1>2, <1>3, StepInv

LEMMA AnswerFacts ==
    ASSUME SessionInv, NEW q \in requests
    PROVE  /\ tab.page.at # "config" /\ tab \in Tabs /\ TabInv(tab)
           /\ q.kind = "validate" => q.cred \in Users /\ ~oauth
           /\ q.kind = "cookie" => oauth
           /\ q.kind \in API => q.cluster \in Places
BY DEF SessionInv, SessionTypes, RequestInv, Typed, CredInv

LEMMA ValidateStep ==
    ASSUME SessionInv, NEW q \in requests, validateToken(q)
    PROVE  SessionInv'
<1>1. /\ tab.page.at # "config" /\ tab \in Tabs /\ TabInv(tab)
      /\ q.cred \in Users /\ ~oauth /\ q.kind = "validate"
  BY AnswerFacts DEF validateToken
<1>2. \A r \in {q} : r.kind # "list"
  BY <1>1
<1>3. UNCHANGED <<server, faults>>
  BY DEF validateToken, counters
<1>4. CASE q.cred \in valid
  <2> DEFINE t == [tab EXCEPT !.authed = TRUE, !.authing = FALSE]
  <2>1. /\ t \in Tabs /\ t.page = tab.page /\ t.form = tab.form /\ t.authed /\ ~t.authing
        /\ t.leaving = tab.leaving /\ t.clusters = tab.clusters /\ t.cleared = tab.cleared
        /\ t.crashed = tab.crashed /\ t.pick = tab.pick /\ t.current = tab.current
        /\ t.expired = tab.expired
    BY <1>1 DEF Tabs
  <2>2. storage' = [storage EXCEPT !.token = q.cred, !.oidc = FALSE] /\ Step(t, {q})
    BY <1>4 DEF validateToken
  <2> HIDE DEF t
  <2>3. Around
    BY <1>1, <1>3, <2>2, AroundStorage DEF SessionInv, SessionTypes
  <2>4. Sane(t) /\ Credible(t)
    BY <1>1, <2>1, TabCredible DEF Sane, TabInv, Credible, SessionInv, CredInv
  <2>5. LoginOk(t, requests \ {q})
    BY <1>3, <2>1 DEF LoginOk, SessionInv, LoginInv, NoAPI, NoErrors
  <2> QED
    BY <1>1, <1>2, <2>1, <2>2, <2>3, <2>4, <2>5, AuthStep
<1>5. CASE q.cred \notin valid
  <2> DEFINE t == [tab EXCEPT !.authing = FALSE]
  <2>1. /\ t \in Tabs /\ t.page = tab.page /\ t.form = tab.form /\ t.authed = tab.authed
        /\ ~t.authing
        /\ t.leaving = tab.leaving /\ t.clusters = tab.clusters /\ t.cleared = tab.cleared
        /\ t.crashed = tab.crashed /\ t.pick = tab.pick /\ t.current = tab.current
        /\ t.expired = tab.expired
    BY <1>1 DEF Tabs
  <2>2. storage' = storage /\ Step(t, {q})
    BY <1>5 DEF validateToken, authenticationError
  <2> HIDE DEF t
  <2>3. Around
    BY <1>1, <1>3, <2>2, AroundSame DEF SessionInv, SessionTypes
  <2>4. Sane(t) /\ Credible(t)
    BY <1>1, <2>1, TabCredible DEF Sane, TabInv, Credible, SessionInv, CredInv
  <2>5. LoginOk(t, requests \ {q})
    BY <1>3, <2>1 DEF LoginOk, SessionInv, LoginInv, NoAPI, NoErrors
  <2> QED
    BY <1>1, <1>2, <2>1, <2>2, <2>3, <2>4, <2>5, AuthStep
<1> QED
  BY <1>4, <1>5

LEMMA CookieStep ==
    ASSUME SessionInv, NEW q \in requests, checkCookieAuthentication(q)
    PROVE  SessionInv'
<1> DEFINE ok == cookie \in valid
           t == [tab EXCEPT !.authed = ok, !.authing = FALSE,
                            !.form = IF @ = "checking" THEN "ready" ELSE @,
                            !.expired = @ /\ ~ok]
<1>1. /\ tab.page.at # "config" /\ tab \in Tabs /\ TabInv(tab)
      /\ oauth /\ q.kind = "cookie"
  BY AnswerFacts DEF checkCookieAuthentication
<1>2. \A r \in {q} : r.kind # "list"
  BY <1>1
<1>3. UNCHANGED <<server, faults>> /\ storage' = [storage EXCEPT !.oidc = @ \/ ok] /\ Step(t, {q})
  BY DEF checkCookieAuthentication, counters
<1>4. /\ t \in Tabs /\ t.page = tab.page /\ t.form # "checking" /\ t.authed = ok /\ ~t.authing
      /\ t.leaving = tab.leaving /\ t.clusters = tab.clusters /\ t.cleared = tab.cleared
      /\ t.crashed = tab.crashed /\ t.pick = tab.pick /\ t.current = tab.current
      /\ t.expired => tab.expired
  <2> DEFINE f == IF tab.form = "checking" THEN "ready" ELSE tab.form
             x == tab.expired /\ ~ok
             o == ok
  <2>1. /\ f \in {"none", "checking", "ready"} /\ f # "checking"
        /\ x \in BOOLEAN /\ (x => tab.expired) /\ o \in BOOLEAN
    BY <1>1 DEF Tabs
  <2>2. t = [tab EXCEPT !.authed = o, !.authing = FALSE, !.form = f, !.expired = x]
    BY <1>1 DEF Tabs
  <2>3. o = ok
    OBVIOUS
  <2> HIDE DEF f, x, o, t, ok
  <2> QED
    BY <1>1, <2>1, <2>2, <2>3 DEF Tabs
<1> HIDE DEF t
<1>5. Around
  <2>1. storage' \in [token : Users \union {None}, oidc : BOOLEAN, ns : [Places -> NameOrNone]]
        /\ storage'.token = storage.token
    BY <1>3 DEF SessionInv, SessionTypes
  <2> QED
    BY <1>1, <1>3, <2>1, AroundStorage DEF SessionInv, SessionTypes, CredInv
<1>6. ok => cookie # None
  BY NoneAssumption DEF SessionInv, SessionTypes
<1>7. Sane(t) /\ Credible(t)
  BY <1>1, <1>4, <1>6 DEF Sane, TabInv, Credible
<1>8. LoginOk(t, requests \ {q})
  <2> SUFFICES ASSUME faults' = 0, ~t.cleared, ~t.crashed, ~t.leaving,
                      ~t.authed \/ t.page.at = "login"
               PROVE  NoAPI(requests \ {q}) /\ NoErrors(t)
    BY DEF LoginOk
  <2>1. faults = 0 /\ valid = Users
    BY <1>3 DEF SessionInv, CredInv
  <2>2. CASE ok
    <3>1. tab.page.at = "login"
      BY <1>4, <2>2
    <3> QED
      BY <1>4, <2>1, <3>1 DEF SessionInv, LoginInv, NoAPI, NoErrors
  <2>3. CASE ~ok
    <3>1. cookie = None
      BY <2>1, <2>3 DEF SessionInv, SessionTypes
    <3>2. ~tab.authed
      BY <1>1, <3>1 DEF SessionInv, CredInv
    <3> QED
      BY <1>4, <2>1, <3>2 DEF SessionInv, LoginInv, NoAPI, NoErrors
  <2> QED
    BY <2>2, <2>3
<1> QED
  BY <1>1, <1>2, <1>3, <1>4, <1>5, <1>7, <1>8, AuthStep

LEMMA UnreachableStep ==
    ASSUME SessionInv, NEW q \in requests, CookieUnreachable(q)
    PROVE  SessionInv'
<1> DEFINE t == [tab EXCEPT !.stuck = TRUE]
<1>1. tab.page.at # "config" /\ tab \in Tabs /\ TabInv(tab)
  BY AnswerFacts
<1>2. /\ t \in Tabs /\ t.page = tab.page /\ t.form = tab.form /\ t.authed = tab.authed
      /\ t.authing = tab.authing
      /\ t.leaving = tab.leaving /\ t.clusters = tab.clusters /\ t.cleared = tab.cleared
      /\ t.crashed = tab.crashed /\ t.pick = tab.pick /\ t.current = tab.current
      /\ t.expired = tab.expired
  BY <1>1 DEF Tabs
<1>3. /\ tab' = t /\ requests' = requests \ {q} /\ faults' = faults + 1
      /\ UNCHANGED <<server, storage>>
  BY DEF CookieUnreachable
<1> HIDE DEF t
<1>4. faults' \in Nat /\ faults' # 0
  BY <1>3 DEF SessionInv, SessionTypes
<1>5. SessionTypes' /\ RequestInv'
  BY <1>2, <1>3, <1>4 DEF SessionInv, SessionTypes, RequestInv, Typed, API, server
<1>6. TabInv(t)
  BY <1>1, <1>2, SameClusters DEF TabInv, Follows, ShowNav
<1>7. CredInv'
  BY <1>2, <1>3, <1>4 DEF SessionInv, CredInv, server
<1>8. LoginInv' /\ ListsAreOwn'
  BY <1>4 DEF LoginInv, ListsAreOwn
<1> QED
  BY <1>3, <1>5, <1>6, <1>7, <1>8 DEF SessionInv

LEMMA ConfigStep ==
    ASSUME SessionInv, receiveConfig
    PROVE  SessionInv'
<1> DEFINE C == [c \in Places |-> IF c \in Clusters THEN Entry(None, {}) ELSE None]
           s == [tab EXCEPT !.current = First, !.clusters = C]
           t == LOCATION_CHANGE(s, tab.target)
<1>1. tab \in Tabs /\ TabInv(tab) /\ tab.page.at = "config" /\ requests = {}
  BY DEF receiveConfig, SessionInv, SessionTypes, CredInv
<1>2. UNCHANGED <<server, storage, faults>> /\ Step(t, {})
  BY DEF receiveConfig, counters
<1>3. C \in [Places -> Entries \union {None}]
  BY EntryFacts
<1>4. /\ \A c \in Clusters : C[c] # None /\ C[c].list = {}
      /\ \A c \in Places : C[c] = None \/ ~C[c].error
  BY EntryFacts, PlaceFacts
<1>5. {} # None
  BY NoneAssumption
<1> HIDE DEF C
<1>6. /\ s \in Tabs /\ s.form = tab.form /\ s.authed = tab.authed /\ s.authing = tab.authing
      /\ s.leaving = tab.leaving /\ s.clusters = C /\ s.crashed = tab.crashed
      /\ s.expired = tab.expired /\ s.pick = tab.pick
  BY <1>1, <1>3, PlaceFacts DEF Tabs
<1>7. tab.target \in Goals
  BY <1>1 DEF Tabs
<1> HIDE DEF s
<1>8. /\ Stage(s, t) /\ Follows(t) /\ t.form = s.form
      /\ t.authed = s.authed /\ t.authing = s.authing
  BY <1>6, <1>7, LocationFacts
<1> HIDE DEF t
<1>9. /\ \A c \in Clusters : t.clusters[c] # None /\ t.clusters[c].list = {}
      /\ \A c \in Places : t.clusters[c] = None \/ ~t.clusters[c].error
  BY <1>4, <1>6, <1>8, PlaceFacts DEF Stage, Kept
<1>10. RenderPre(t)
  BY <1>1, <1>5, <1>6, <1>8, <1>9 
  DEF RenderPre, Stage, TabShown, Fixed, Sane, Full, TabInv, PickOk
<1>11. Around
  BY <1>2, AroundSame DEF SessionInv, SessionTypes
<1>12. Credible(t) /\ t.pick = tab.pick
  BY <1>6, <1>8, TabCredible DEF Credible, Stage
<1>13. LoginOk(t, requests \ {}) /\ ListsOk(t, requests \ {})
  BY <1>1, <1>9 DEF LoginOk, ListsOk, NoAPI, NoErrors
<1> QED
  BY <1>2, <1>10, <1>11, <1>12, <1>13, StepInv

-----------------------------------------------------------------------------
(* Answers *)

(* One entry of the clusters is replaced. *)
Replaced(t, u, c, e) ==
    /\ u \in Tabs /\ u.clusters = [t.clusters EXCEPT ![c] = e]
    /\ u.page = t.page /\ u.form = t.form /\ u.authed = t.authed /\ u.authing = t.authing
    /\ u.leaving = t.leaving /\ u.cleared = t.cleared /\ u.crashed = t.crashed
    /\ u.pick = t.pick /\ u.current = t.current /\ u.expired = t.expired

LEMMA ReplacedFacts ==
    ASSUME NEW t \in Tabs, NEW c \in Places, NEW e \in Entries
    PROVE  Replaced(t, [t EXCEPT !.clusters[c] = e], c, e)
BY DEF Replaced, Tabs

LEMMA ReplacedPre ==
    ASSUME NEW t \in Tabs, NEW u, NEW c \in Places, NEW e \in Entries,
           Replaced(t, u, c, e),
           t.clusters[c] # None =>
              /\ t.clusters[c].ns # None => e.ns = t.clusters[c].ns
              /\ t.clusters[c].list # None => e.list # None,
           RenderPre(t), t.crashed \/ t.leaving \/ Follows(t)
    PROVE  RenderPre(u) /\ (Credible(t) => Credible(u))
<1>1. e # None
  BY EntryFacts
<1>2. u.clusters[c] = e /\ \A d \in Places : d # c => u.clusters[d] = t.clusters[d]
  BY DEF Replaced, Tabs
<1>a. Strange(t) => Strange(u)
  BY <1>1, <1>2, PlaceFacts DEF Strange
<1>3. Sane(u)
  BY DEF Replaced, RenderPre, Sane
<1>4. ~u.cleared => Full(u)
  BY <1>1, <1>2, <1>a, PlaceFacts DEF Replaced, RenderPre, Full
<1>b. /\ Excused(t) => Excused(u)
      /\ t.clusters[t.current] # None => u.clusters[u.current] # None
      /\ PickOk(t) => PickOk(u)
  BY <1>1, <1>2, <1>a DEF Replaced, Excused, PickOk, Tabs
<1>5. (~u.crashed /\ ~u.leaving) => Follows(u)
  <2>1. t.current \in Places
    BY DEF Tabs
  <2>2. Follows(t) => Follows(u)
    BY <1>1, <1>2, <2>1 DEF Replaced, Follows
  <2> QED
    BY <2>2 DEF Replaced
<1> QED
  BY <1>3, <1>4, <1>b, <1>5 DEF Replaced, RenderPre, Credible

LEMMA ErrorFacts ==
    ASSUME NEW t \in Tabs, NEW c \in Places
    PROVE  \E e \in Entries :
              /\ Replaced(t, errorNamespaces(t, c), c, e)
              /\ t.clusters[c] # None => (e.ns = t.clusters[c].ns /\ e.list = t.clusters[c].list)
<1> DEFINE f == EntryOf(t, c)
           e == [f EXCEPT !.error = TRUE]
<1>1. f \in Entries
  BY EntryFacts DEF Tabs, EntryOf
<1>2. e \in Entries /\ e.ns = f.ns /\ e.list = f.list
  BY <1>1 DEF Entries
<1>3. errorNamespaces(t, c) = [t EXCEPT !.clusters[c] = e]
  BY DEF errorNamespaces, Tabs
<1>4. t.clusters[c] # None => f = t.clusters[c]
  BY DEF EntryOf
<1> HIDE DEF e, f
<1> QED
  BY <1>2, <1>3, <1>4, ReplacedFacts

LEMMA ErrorPre ==
    ASSUME NEW t \in Tabs, NEW c \in Places, RenderPre(t), t.crashed \/ t.leaving \/ Follows(t)
    PROVE  LET u == errorNamespaces(t, c)
           IN /\ RenderPre(u) /\ u.pick = t.pick /\ (Credible(t) => Credible(u))
              /\ u.cleared = t.cleared
              /\ \A d \in Places :
                    t.clusters[d] # None => u.clusters[d].list = t.clusters[d].list
              /\ u.page = t.page /\ u.authed = t.authed
<1> DEFINE u == errorNamespaces(t, c)
<1>1. PICK e \in Entries :
         /\ Replaced(t, u, c, e)
         /\ t.clusters[c] # None => (e.ns = t.clusters[c].ns /\ e.list = t.clusters[c].list)
  BY ErrorFacts
<1> HIDE DEF u
<1>2. RenderPre(u) /\ (Credible(t) => Credible(u))
  BY <1>1, ReplacedPre
<1>3. u.cleared = t.cleared /\ u.clusters = [t.clusters EXCEPT ![c] = e]
  BY <1>1 DEF Replaced
<1>4. \A d \in Places : t.clusters[d] # None => u.clusters[d].list = t.clusters[d].list
  BY <1>1, <1>3 DEF Tabs
<1> QED
  BY <1>1, <1>2, <1>3, <1>4 DEF u, Replaced

LEMMA ExpireFacts ==
    ASSUME SessionInv, tab.page.at # "config"
    PROVE  LET u == expireSession(tab)
           IN /\ RenderPre(u) /\ u.pick = tab.pick /\ Credible(u) /\ u.crashed = tab.crashed
              /\ storage.oidc => u.leaving
              /\ ~storage.oidc => u.cleared
<1> DEFINE x == tab.expired \/ storage.oidc
           s == [tab EXCEPT !.authing = FALSE, !.expired = x]
<1>1. tab \in Tabs /\ TabInv(tab) /\ Credible(tab) /\ storage.oidc \in BOOLEAN
  BY TabCredible DEF SessionInv, SessionTypes
<1>2. x \in BOOLEAN /\ (x <=> (tab.expired \/ storage.oidc))
  OBVIOUS
<1>3. expireSession(tab) = logout(s)
  <2>1. [authenticationError(tab) EXCEPT !.expired = @ \/ storage.oidc] = s
    BY <1>1 DEF authenticationError, Tabs
  <2> QED
    BY <2>1 DEF expireSession
<1> HIDE DEF x
<1>4. /\ s \in Tabs /\ s.page = tab.page /\ s.form = tab.form /\ s.authed = tab.authed
      /\ ~s.authing /\ s.leaving = tab.leaving /\ s.clusters = tab.clusters
      /\ s.cleared = tab.cleared /\ s.crashed = tab.crashed /\ s.pick = tab.pick
      /\ s.expired = x /\ s.current = tab.current
  BY <1>1, <1>2 DEF Tabs
<1> HIDE DEF s
<1>5. s.expired => (s.leaving \/ storage.oidc)
  BY <1>1, <1>2, <1>4 DEF TabInv
<1>6. s.crashed => (Excused(s) /\ s.pick = None)
  BY <1>1, <1>4, SameClusters DEF TabInv, ShowNav
<1>7. /\ ~s.cleared => Full(s)
      /\ PickOk(s)
      /\ (~s.cleared /\ ~s.crashed) => s.clusters[s.current] # None
  BY <1>1, <1>4, SameClusters DEF TabInv
<1>8. s.form = "checking" => ~s.authed
  BY <1>1, <1>4 DEF TabInv
<1>9. LET u == logout(s)
      IN /\ RenderPre(u) /\ u.pick = s.pick /\ u.form = s.form /\ (u.authed => s.authed)
         /\ u.crashed = s.crashed
         /\ storage.oidc => (u.leaving /\ u.clusters = s.clusters /\ u.cleared = s.cleared)
         /\ ~storage.oidc => u.cleared
  BY <1>4, <1>5, <1>6, <1>7, <1>8, LogoutFacts
<1> QED
  BY <1>1, <1>3, <1>4, <1>9 DEF Credible

LEMMA UnauthorizedStep ==
    ASSUME SessionInv, NEW q \in requests, Unauthorized(q)
    PROVE  SessionInv'
<1> DEFINE x == expireSession(tab)
           t == Render(tab, x)
           y == errorNamespaces(t, q.cluster)
           R == requests \ {q}
           R2 == R \union EffectRequests(tab, t)
<1>1. /\ tab.page.at # "config" /\ tab \in Tabs /\ TabInv(tab)
      /\ q.kind \in API /\ q.cluster \in Places
  BY AnswerFacts DEF Unauthorized, API
<1>2. /\ tab' = IF t.crashed THEN t ELSE Render(t, y)
      /\ requests' = R2 \union EffectRequests(t, tab')
      /\ storage' = StorageAfterLogout /\ UNCHANGED <<server, faults>>
  BY DEF Unauthorized, counters
<1>3. /\ RenderPre(x) /\ x.pick = tab.pick /\ Credible(x)
      /\ ~storage.oidc => x.cleared
  BY <1>1, ExpireFacts
<1>4. AfterRender(x, t)
  BY <1>1, <1>3, RenderFacts
<1> HIDE DEF x, t, y
<1>5. t \in Tabs /\ TabInv(t) /\ t.page.at # "config" /\ Credible(t) /\ t.cleared = x.cleared
  BY <1>3, <1>4 DEF AfterRender, Credible, Fixed
<1>6. Around
  BY <1>2, StorageFacts, AroundStorage DEF SessionInv, SessionTypes
<1>7. Sound(R)
  BY Remaining
<1>8. SessionTypes' /\ RequestInv' /\ TabInv(tab)' /\ CredInv' /\ tab'.cleared = x.cleared
  <2>1. CASE t.crashed
    <3>1. tab' = t /\ EffectRequests(t, tab') = {}
      BY <1>2, <2>1 DEF EffectRequests
    <3>2. requests' = R \union EffectRequests(tab, tab')
      BY <1>2, <3>1
    <3>3. AfterRender(x, tab')
      BY <1>4, <3>1
    <3> HIDE DEF R
    <3> QED
      BY <1>3, <1>5, <1>6, <1>7, <3>1, <3>2, <3>3, StepSafe DEF SessionInv
  <2>2. CASE ~t.crashed
    <3>1. RenderPre(t) /\ (t.leaving \/ Follows(t))
      BY <1>5, <2>2, TabPre DEF TabInv
    <3>2. RenderPre(y) /\ y.pick = t.pick /\ Credible(y) /\ y.cleared = t.cleared
      BY <1>1, <1>5, <3>1, ErrorPre DEF y
    <3>3. AfterRender(y, tab')
      BY <1>2, <1>5, <2>2, <3>2, RenderFacts
    <3>4. ASSUME NEW r \in EffectRequests(tab, t)
          PROVE  Sound({r})
      BY <1>5, <1>6, EffectFacts
    <3>5. Sound(R2)
      BY <1>7, <3>4 DEF Sound
    <3> HIDE DEF R2
    <3>6. tab'.cleared = y.cleared
      BY <3>3 DEF AfterRender, Fixed
    <3> QED
      BY <1>2, <1>5, <1>6, <3>2, <3>3, <3>5, <3>6, StepSafe DEF SessionInv
  <2> QED
    BY <2>1, <2>2
<1>9. faults' = 0 => tab'.cleared
  <2> SUFFICES ASSUME faults' = 0
               PROVE  ~storage.oidc
    BY <1>3, <1>8
  <2>1. faults = 0 /\ valid = Users /\ q.cred \notin valid
    BY <1>2 DEF SessionInv, CredInv, Unauthorized, Accepted
  <2>2. oauth => (q.cred = cookie /\ cookie \in Users)
    BY <1>1 DEF SessionInv, CredInv, SessionTypes
  <2> QED
    BY <2>1, <2>2 DEF SessionInv, CredInv
<1>10. LoginInv' /\ ListsAreOwn'
  BY <1>9 DEF LoginInv, ListsAreOwn
<1> QED
  BY <1>8, <1>10 DEF SessionInv

LEMMA FailedStep ==
    ASSUME SessionInv, NEW q \in requests, FailedRequest(q)
    PROVE  SessionInv'
<1>1. /\ tab.page.at # "config" /\ tab \in Tabs /\ TabInv(tab) /\ q.cluster \in Places
  BY AnswerFacts DEF FailedRequest, API
<1>2. UNCHANGED server /\ faults' \in Nat /\ faults' # 0
  BY DEF FailedRequest, SessionInv, SessionTypes
<1>3. \A t : LoginOk(t, requests \ {q}) /\ ListsOk(t, requests \ {q})
  BY <1>2 DEF LoginOk, ListsOk
<1>4. CASE UNCHANGED storage /\ Step(errorNamespaces(tab, q.cluster), {q})
  <2>1. RenderPre(tab) /\ (tab.crashed \/ tab.leaving \/ Follows(tab))
    BY <1>1, TabPre DEF TabInv
  <2>2. /\ RenderPre(errorNamespaces(tab, q.cluster))
        /\ errorNamespaces(tab, q.cluster).pick = tab.pick
        /\ Credible(errorNamespaces(tab, q.cluster))
    BY <1>1, <2>1, TabCredible, ErrorPre
  <2>3. Around
    BY <1>2, <1>4, AroundSame
  <2> QED
    BY <1>3, <1>4, <2>2, <2>3, StepInv
<1>5. CASE /\ storage.oidc /\ storage' = StorageAfterLogout
           /\ Step(errorNamespaces(expireSession(tab), q.cluster), {q})
  <2> DEFINE x == expireSession(tab)
  <2>1. RenderPre(x) /\ x.pick = tab.pick /\ Credible(x) /\ x.leaving
    BY <1>1, <1>5, ExpireFacts
  <2> HIDE DEF x
  <2>2. x \in Tabs
    BY <2>1 DEF RenderPre
  <2>3. /\ RenderPre(errorNamespaces(x, q.cluster)) /\ Credible(errorNamespaces(x, q.cluster))
        /\ errorNamespaces(x, q.cluster).pick = tab.pick
    BY <1>1, <2>1, <2>2, ErrorPre
  <2>4. Around
    BY <1>2, <1>5, StorageFacts, AroundStorage
  <2>5. Step(errorNamespaces(x, q.cluster), {q})
    BY <1>5 DEF x
  <2> QED
    BY <1>3, <2>3, <2>4, <2>5, StepInv
<1> QED
  BY <1>4, <1>5 DEF FailedRequest

(* While an API request is on its way the user is logged in. *)
LEMMA LoggedIn ==
    ASSUME SessionInv, NEW q \in requests, q.kind \in API,
           faults = 0, ~tab.cleared, ~tab.crashed, ~tab.leaving
    PROVE  tab.authed /\ tab.page.at # "login"
BY DEF SessionInv, LoginInv, NoAPI

LEMMA AnswerLogin ==
    ASSUME SessionInv, NEW q \in requests, q.kind \in API, faults' = faults,
           NEW t, t.cleared = tab.cleared, t.leaving = tab.leaving,
           t.crashed = tab.crashed, t.authed = tab.authed, t.page = tab.page, NEW R
    PROVE  LoginOk(t, R)
BY LoggedIn DEF LoginOk

(* Answers that replace one entry of the clusters. *)
LEMMA EntryStep ==
    ASSUME SessionInv, NEW q \in requests, q.kind \in {"list", "can", "get"},
           UNCHANGED <<server, storage, counters>>,
           NEW t, NEW e \in Entries, Replaced(tab, t, q.cluster, e), Step(t, {q}),
           tab.clusters[q.cluster] # None =>
              /\ tab.clusters[q.cluster].ns # None => e.ns = tab.clusters[q.cluster].ns
              /\ tab.clusters[q.cluster].list # None => e.list # None
              /\ \/ e.list = None \/ q.cluster \notin Clusters
                 \/ e.list \subseteq Names(q.cluster)
                 \/ /\ q.kind # "list" /\ tab.clusters[q.cluster].list # None
                    /\ ~(tab.clusters[q.cluster].list \subseteq Names(q.cluster))
    PROVE  SessionInv'
<1>1. /\ tab.page.at # "config" /\ tab \in Tabs /\ TabInv(tab) /\ q.cluster \in Places
      /\ q.kind \in API
  BY AnswerFacts DEF API
<1>2. RenderPre(tab) /\ (tab.crashed \/ tab.leaving \/ Follows(tab))
  BY <1>1, TabPre DEF TabInv
<1>3. RenderPre(t) /\ Credible(t) /\ t.pick = tab.pick
  BY <1>1, <1>2, ReplacedPre, TabCredible DEF Replaced
<1>4. Around /\ faults' = faults
  BY AroundSame DEF counters, SessionInv, SessionTypes
<1>5. LoginOk(t, requests \ {q})
  BY <1>1, <1>4, AnswerLogin DEF Replaced
<1>6. ListsOk(t, requests \ {q})
  <2> SUFFICES ASSUME faults' = 0, ~t.cleared, ~t.crashed, NEW c \in Clusters
               PROVE  \/ t.clusters[c].list = None \/ t.clusters[c].list \subseteq Names(c)
                      \/ \E r \in requests \ {q} : r.kind = "list" /\ r.cluster = c
    BY DEF ListsOk
  <2>1. ~tab.cleared /\ ~tab.crashed /\ faults = 0
    BY <1>1, <1>4 DEF Replaced, TabInv
  <2>2. tab.clusters[c] # None /\ c \in Places
    BY <1>1, <2>1, PlaceFacts DEF TabInv, Full
  <2>3. \/ tab.clusters[c].list = None \/ tab.clusters[c].list \subseteq Names(c)
        \/ \E r \in requests : r.kind = "list" /\ r.cluster = c
    BY <2>1, <2>2 DEF SessionInv, ListsAreOwn
  <2>4. t.clusters[q.cluster] = e /\ (c # q.cluster => t.clusters[c] = tab.clusters[c])
    BY <1>1 DEF Replaced, Tabs
  <2>5. CASE c # q.cluster
    BY <2>3, <2>4, <2>5
  <2>6. CASE c = q.cluster
    BY <2>2, <2>3, <2>4, <2>6
  <2> QED
    BY <2>5, <2>6
<1> QED
  BY <1>3, <1>4, <1>5, <1>6, StepInv

LEMMA CurrentFacts ==
    ASSUME SessionInv, NEW c \in Places, NEW n \in NameOrNone, NEW list \in SUBSET AllNames, list # {}
    PROVE  /\ getCurrentNamespace(c, n, list) \in NameOrNone
           /\ n # None => getCurrentNamespace(c, n, list) = n
<1>1. (CHOOSE first \in list : TRUE) \in list
  OBVIOUS
<1> QED
  BY <1>1 DEF getCurrentNamespace, NameOrNone

LEMMA FetchStep ==
    ASSUME SessionInv, NEW q \in requests, fetchNamespaces(q)
    PROVE  SessionInv'
<1> DEFINE c == q.cluster
           list == spaces[q.cluster]
           t == receiveNamespaces(tab, c, list)
<1>1. /\ tab.page.at # "config" /\ tab \in Tabs /\ TabInv(tab) /\ c \in Places
      /\ q.kind = "list"
  BY AnswerFacts DEF API, fetchNamespaces
<1>2. list \in SUBSET AllNames /\ (c \in Clusters => list \subseteq Names(c) /\ list # {})
  BY <1>1 DEF SessionInv, SessionTypes
<1>3. UNCHANGED <<server, storage, counters>> /\ Step(t, {q})
  BY DEF fetchNamespaces
<1>4. CASE tab.clusters[c] = None \/ list = {}
  <2>1. t = errorNamespaces(tab, c)
    BY <1>4 DEF receiveNamespaces
  <2>2. PICK e \in Entries :
           /\ Replaced(tab, t, c, e)
           /\ tab.clusters[c] # None =>
                 (e.ns = tab.clusters[c].ns /\ e.list = tab.clusters[c].list)
    BY <1>1, <2>1, ErrorFacts
  <2> HIDE DEF t
  <2> QED
    BY <1>1, <1>2, <1>3, <1>4, <2>2, EntryStep
<1>5. CASE tab.clusters[c] # None /\ list # {}
  <2> DEFINE n == getCurrentNamespace(c, tab.clusters[c].ns, list)
             e == [tab.clusters[c] EXCEPT !.ns = n, !.list = list, !.error = FALSE]
  <2>1. tab.clusters[c] \in Entries /\ tab.clusters[c].ns \in NameOrNone
    BY <1>1, <1>5 DEF Tabs, Entries
  <2>2. n \in NameOrNone /\ (tab.clusters[c].ns # None => n = tab.clusters[c].ns)
    BY <1>1, <1>2, <1>5, <2>1, CurrentFacts
  <2>3. t = [tab EXCEPT !.clusters[c] = e]
    BY <1>1, <1>5, <2>1 DEF receiveNamespaces, Entries
  <2> HIDE DEF n, list
  <2>4. e \in Entries /\ e.ns = n /\ e.list = list
    BY <1>2, <2>1, <2>2 DEF Entries
  <2>5. list # None
    BY <1>2, NoneAssumption
  <2> HIDE DEF e
  <2>6. Replaced(tab, t, c, e)
    BY <1>1, <2>3, <2>4, ReplacedFacts
  <2> HIDE DEF t
  <2> QED
    BY <1>1, <1>2, <1>3, <2>2, <2>4, <2>5, <2>6, EntryStep
<1> QED
  BY <1>4, <1>5

LEMMA CanStep ==
    ASSUME SessionInv, NEW q \in requests, canCreate(q)
    PROVE  SessionInv'
<1> DEFINE c == q.cluster
           old == tab.clusters[c]
<1>1. /\ tab.page.at # "config" /\ tab \in Tabs /\ TabInv(tab) /\ c \in Places
      /\ q.kind = "can"
  BY AnswerFacts DEF API, canCreate
<1>2. UNCHANGED <<server, storage, counters>>
  BY DEF canCreate
<1>3. CASE q.cluster \notin Clusters
  <2>1. Step(errorNamespaces(tab, c), {q})
    BY <1>3 DEF canCreate
  <2>2. PICK e \in Entries :
           /\ Replaced(tab, errorNamespaces(tab, c), c, e)
           /\ old # None => (e.ns = old.ns /\ e.list = old.list)
    BY <1>1, ErrorFacts
  <2> QED
    BY <1>1, <1>2, <1>3, <2>1, <2>2, EntryStep
<1>4. CASE q.cluster \in Clusters
  <2> DEFINE f == EntryOf(tab, c)
             a == q.cred \in Creators
             e == [f EXCEPT !.can = a]
             t == [tab EXCEPT !.clusters[c] = e]
  <2>1. f \in Entries /\ (old # None => f = old)
    BY <1>1, EntryFacts DEF Tabs, EntryOf
  <2>2. a \in BOOLEAN
    OBVIOUS
  <2>3. Step(t, {q})
    BY <1>4 DEF canCreate, setAllowCreate
  <2> HIDE DEF f, a
  <2>4. e \in Entries /\ e.ns = f.ns /\ e.list = f.list
    BY <2>1, <2>2 DEF Entries
  <2> HIDE DEF e
  <2>5. Replaced(tab, t, c, e)
    BY <1>1, <2>4, ReplacedFacts
  <2> HIDE DEF t
  <2> QED
    BY <1>1, <1>2, <2>1, <2>3, <2>4, <2>5, EntryStep
<1> QED
  BY <1>3, <1>4

LEMMA GetStep ==
    ASSUME SessionInv, NEW q \in requests, getNamespace(q)
    PROVE  SessionInv'
<1> DEFINE c == q.cluster
           n == q.ns
           old == tab.clusters[c]
<1>1. /\ tab.page.at # "config" /\ tab \in Tabs /\ TabInv(tab) /\ c \in Places
      /\ q.kind = "get"
  BY AnswerFacts DEF API, getNamespace
<1>2. UNCHANGED <<server, storage, counters>>
  BY DEF getNamespace
<1>3. ASSUME Step(errorNamespaces(tab, c), {q})
      PROVE  SessionInv'
  <2>1. PICK e \in Entries :
           /\ Replaced(tab, errorNamespaces(tab, c), c, e)
           /\ old # None => (e.ns = old.ns /\ e.list = old.list)
    BY <1>1, ErrorFacts
  <2> QED
    BY <1>1, <1>2, <1>3, <2>1, EntryStep
<1>4. CASE q.ns \notin spaces[q.cluster] \/ old = None \/ old.list = None
  BY <1>3, <1>4 DEF getNamespace, receiveNamespace
<1>5. CASE q.ns \in spaces[q.cluster] /\ old # None /\ old.list # None
  <2>1. old \in Entries /\ old.ns \in NameOrNone /\ old.list \in SUBSET AllNames
    BY <1>1, <1>5 DEF Tabs, Entries
  <2>2. (c \in Clusters => n \in Names(c)) /\ n \in AllNames
    BY <1>1, <1>5 DEF SessionInv, SessionTypes
  <2>3. Step(receiveNamespace(tab, c, n), {q})
    BY <1>5 DEF getNamespace
  <2>4. CASE n \in old.list
    <3>1. receiveNamespace(tab, c, n) = tab
      BY <1>5, <2>4 DEF receiveNamespace
    <3>2. Replaced(tab, tab, c, old)
      BY <1>1 DEF Replaced, Tabs
    <3>3. Step(tab, {q})
      BY <2>3, <3>1
    <3> HIDE DEF old
    <3> QED
      BY <1>1, <1>2, <2>1, <3>2, <3>3, EntryStep DEF old
  <2>5. CASE n \notin old.list
    <3> DEFINE e == [old EXCEPT !.list = old.list \union {n}, !.error = FALSE]
               t == [tab EXCEPT !.clusters[c] = e]
    <3>1. receiveNamespace(tab, c, n) = t
      BY <1>1, <1>5, <2>1, <2>5 DEF receiveNamespace, Entries
    <3>2. old.list \union {n} \in SUBSET AllNames
      BY <2>1, <2>2
    <3>3. e \in Entries /\ e.ns = old.ns /\ e.list = old.list \union {n}
      BY <2>1, <3>2 DEF Entries
    <3>4. e.list # None
      BY <3>2, <3>3, NoneAssumption
    <3> HIDE DEF e
    <3>5. Replaced(tab, t, c, e)
      BY <1>1, <3>3, ReplacedFacts
    <3>6. Step(t, {q})
      BY <2>3, <3>1
    <3> HIDE DEF t
    <3> QED
      BY <1>1, <1>2, <1>5, <2>1, <2>2, <3>3, <3>4, <3>5, <3>6, EntryStep
  <2> QED
    BY <2>4, <2>5
<1> QED
  BY <1>4, <1>5

-----------------------------------------------------------------------------
(* The context selector and the history *)

LEMMA PickFacts ==
    ASSUME SessionInv, tab.pick # None
    PROVE  /\ tab \in Tabs /\ TabInv(tab) /\ tab.page.at # "config" /\ ~tab.crashed
           /\ tab.authed /\ tab.clusters[tab.current] # None
           /\ tab.pick \in Picks /\ tab.pick.cluster \in Places /\ tab.pick.ns \in NameOrNone
           /\ (faults = 0 /\ ~tab.cleared /\ ~tab.leaving) => tab.page.at # "login"
BY DEF SessionInv, SessionTypes, TabInv, ShowNav, LoginInv, Tabs, Picks

(* selectCluster, selectNamespace and createNewNS: at most the selection   *)
(* changes, or the selector fails, and a request is sent.                  *)
LEMMA SelectorStep ==
    ASSUME SessionInv, tab.pick # None, UNCHANGED <<server, storage, faults>>,
           NEW t \in Tabs, tab' = t,
           t.page = tab.page, t.form = tab.form, t.authed = tab.authed,
           t.authing = tab.authing, t.leaving = tab.leaving, t.clusters = tab.clusters,
           t.cleared = tab.cleared, t.current = tab.current, t.expired = tab.expired,
           t.crashed => (Excused(t) /\ t.pick = None), PickOk(t),
           requests \subseteq requests',
           \A q \in requests' \ requests :
              /\ Typed(q) /\ q.kind \in API
              /\ q.cred = IF storage'.token # None THEN storage'.token ELSE cookie
    PROVE  SessionInv'
<1>1. /\ tab \in Tabs /\ TabInv(tab) /\ tab.page.at # "config" /\ ~tab.crashed
      /\ tab.authed /\ tab.clusters[tab.current] # None
  BY PickFacts
<1>2. SessionTypes'
  BY DEF SessionInv, SessionTypes, server
<1>3. RequestInv'
  <2>1. \A q \in requests' : Typed(q)
    BY DEF SessionInv, RequestInv
  <2> QED
    BY <2>1 DEF RequestInv, Typed, API
<1>4. TabInv(t)
  BY <1>1, SameClusters DEF TabInv, Follows, ShowNav, Tabs
<1>5. CredInv'
  BY <1>1 DEF SessionInv, CredInv, server, API
<1>6. LoginInv'
  BY <1>1 DEF SessionInv, LoginInv
<1>7. ListsAreOwn'
  BY <1>1 DEF SessionInv, ListsAreOwn
<1> QED
  BY <1>2, <1>3, <1>4, <1>5, <1>6, <1>7 DEF SessionInv

LEMMA SelectClusterStep ==
    ASSUME SessionInv, NEW c \in Places, selectCluster(c)
    PROVE  SessionInv'
<1> DEFINE n == tab.clusters[c].ns
           k == [cluster |-> c, ns |-> n]
           s == [tab EXCEPT !.pick = k]
           t == IF SelectorFails(s) THEN [s EXCEPT !.crashed = TRUE, !.pick = None] ELSE s
           q == Request("list", c, None)
<1>1. /\ tab.pick # None /\ tab.clusters[c] # None /\ tab' = t
      /\ requests' = requests \union {q} /\ UNCHANGED <<server, storage, faults>>
  BY DEF selectCluster
<1>2. tab \in Tabs /\ TabInv(tab) /\ tab.page.at # "config" /\ ~tab.crashed
  BY <1>1, PickFacts
<1>3. n \in NameOrNone
  BY <1>1, <1>2 DEF Tabs, Entries
<1>4. k \in Picks /\ k # None /\ k.cluster = c
  BY <1>3, NoneAssumption DEF Picks
<1> HIDE DEF n, k
<1>5. /\ s \in Tabs /\ s.pick = k /\ s.clusters = tab.clusters
      /\ s.page = tab.page /\ s.form = tab.form /\ s.authed = tab.authed
      /\ s.authing = tab.authing /\ s.leaving = tab.leaving
      /\ s.cleared = tab.cleared /\ s.current = tab.current /\ s.expired = tab.expired
      /\ s.crashed = tab.crashed
  BY <1>2, <1>4 DEF Tabs
<1>6. SelectorFails(s) => Excused(tab)
  BY <1>1, <1>2, <1>4, <1>5, PlaceFacts DEF SelectorFails, TabInv, Full, Excused, Strange
<1>a. c \in Strangers => Excused(tab)
  BY <1>1 DEF Excused, Strange
<1> HIDE DEF s
<1>7. /\ t \in Tabs /\ t.clusters = tab.clusters /\ t.pick \in {k, None}
      /\ t.page = tab.page /\ t.form = tab.form /\ t.authed = tab.authed
      /\ t.authing = tab.authing /\ t.leaving = tab.leaving
      /\ t.cleared = tab.cleared /\ t.current = tab.current /\ t.expired = tab.expired
      /\ t.crashed => (Excused(t) /\ t.pick = None)
  <2>1. CASE SelectorFails(s)
    BY <1>5, <1>6, <2>1, SameClusters DEF Tabs
  <2>2. CASE ~SelectorFails(s)
    BY <1>2, <1>5, <2>2
  <2> QED
    BY <2>1, <2>2
<1>8. /\ Typed(q) /\ q.kind \in API
      /\ q.cred = IF storage'.token # None THEN storage'.token ELSE cookie
  BY RequestFacts DEF Typed, API
<1> HIDE DEF t, q
<1>9. PickOk(t)
  BY <1>4, <1>7, <1>a, SameClusters DEF PickOk
<1> QED
  BY <1>1, <1>7, <1>8, <1>9, SelectorStep

LEMMA SelectNamespaceStep ==
    ASSUME SessionInv, NEW n \in AllNames, selectNamespace(n)
    PROVE  SessionInv'
<1> DEFINE t == [tab EXCEPT !.pick.ns = n]
<1>1. /\ tab.pick # None /\ tab' = t /\ requests' = requests
      /\ UNCHANGED <<server, storage, faults>>
  BY DEF selectNamespace, counters
<1>2. tab \in Tabs /\ ~tab.crashed /\ tab.pick \in Picks
  BY <1>1, PickFacts
<1>3. /\ [tab.pick EXCEPT !.ns = n] \in Picks
      /\ [tab.pick EXCEPT !.ns = n].cluster = tab.pick.cluster
  BY <1>2 DEF Picks, NameOrNone
<1>4. /\ t \in Tabs /\ t.clusters = tab.clusters
      /\ t.page = tab.page /\ t.form = tab.form /\ t.authed = tab.authed
      /\ t.authing = tab.authing /\ t.leaving = tab.leaving
      /\ t.cleared = tab.cleared /\ t.current = tab.current /\ t.expired = tab.expired
      /\ ~t.crashed /\ t.pick.cluster = tab.pick.cluster
  BY <1>2, <1>3 DEF Tabs
<1> HIDE DEF t
<1>5. PickOk(t)
  BY <1>1, <1>4, SameClusters DEF SessionInv, TabInv, PickOk
<1> QED
  BY <1>1, <1>4, <1>5, SelectorStep

LEMMA CreateNewStep ==
    ASSUME SessionInv, NEW n \in AllNames, createNewNS(n)
    PROVE  SessionInv'
<1> DEFINE q == Request("create", tab.pick.cluster, n)
<1>1. /\ tab.pick # None /\ n \in Names(tab.pick.cluster) /\ UNCHANGED tab
      /\ requests' = requests \union {q} /\ UNCHANGED <<server, storage, faults>>
  BY DEF createNewNS
<1>2. tab \in Tabs /\ ~tab.crashed /\ tab.pick.cluster \in Places
  BY <1>1, PickFacts
<1>3. /\ Typed(q) /\ q.kind \in API
      /\ q.cred = IF storage'.token # None THEN storage'.token ELSE cookie
  BY <1>1, <1>2, RequestFacts DEF Typed, API
<1> HIDE DEF q
<1>4. PickOk(tab)
  BY DEF SessionInv, TabInv
<1> QED
  BY <1>1, <1>2, <1>3, <1>4, SelectorStep

LEMMA SetFacts ==
    ASSUME NEW s \in Tabs, NEW c \in Places, NEW n \in NameOrNone,
           s.clusters[s.current] # None
    PROVE  LET u == setNamespaceState(s, c, n)
           IN /\ u \in Tabs /\ u.current = c
              /\ u.clusters[c] # None /\ u.clusters[c].ns = n
              /\ u.clusters[c].list = s.clusters[s.current].list
              /\ \A d \in Places : d # c => u.clusters[d] = s.clusters[d]
              /\ u.page = s.page /\ u.form = s.form /\ u.authed = s.authed
              /\ u.authing = s.authing /\ u.leaving = s.leaving /\ u.crashed = s.crashed
              /\ u.cleared = s.cleared /\ u.expired = s.expired /\ u.pick = s.pick
<1> DEFINE f == s.clusters[s.current]
           e == [f EXCEPT !.ns = n, !.error = FALSE]
           u == setNamespaceState(s, c, n)
<1>1. f \in Entries
  BY DEF Tabs
<1>2. e \in Entries /\ e.ns = n /\ e.list = f.list /\ e # None
  BY <1>1, EntryFacts DEF Entries
<1>3. u = [s EXCEPT !.current = c, !.clusters[c] = e]
  BY DEF setNamespaceState
<1> HIDE DEF e, f, u
<1>4. u.clusters = [s.clusters EXCEPT ![c] = e] /\ u \in Tabs
  BY <1>2, <1>3 DEF Tabs
<1>5. u.clusters[c] = e /\ \A d \in Places : d # c => u.clusters[d] = s.clusters[d]
  BY <1>4 DEF Tabs
<1>6. /\ u.current = c /\ u.page = s.page /\ u.form = s.form /\ u.authed = s.authed
      /\ u.authing = s.authing /\ u.leaving = s.leaving /\ u.crashed = s.crashed
      /\ u.cleared = s.cleared /\ u.expired = s.expired /\ u.pick = s.pick
  BY <1>3 DEF Tabs
<1> QED
  BY <1>2, <1>4, <1>5, <1>6 DEF u, f

LEMMA SetPre ==
    ASSUME SessionInv, tab.page.at # "config", ~tab.crashed, tab.clusters[tab.current] # None,
           NEW c \in Places, NEW n \in NameOrNone,
           NEW t,
           \/ t = setNamespaceState(tab, c, n) /\ tab.page.at # "private"
           \/ t = LOCATION_CHANGE(setNamespaceState(tab, c, n), Private(c, n))
    PROVE  /\ RenderPre(t) /\ Credible(t) /\ t.current = c /\ t.pick = tab.pick
           /\ t.cleared = tab.cleared /\ t.leaving = tab.leaving /\ t.authed = tab.authed
           /\ t.page.at = "private" \/ t.page = tab.page
           /\ ~tab.cleared => \A d \in Clusters : d # c => t.clusters[d].list = tab.clusters[d].list
           /\ ~tab.cleared => t.clusters[c].list = tab.clusters[tab.current].list
<1> DEFINE u == setNamespaceState(tab, c, n)
<1>1. tab \in Tabs /\ TabInv(tab) /\ Credible(tab)
  BY TabCredible DEF SessionInv, SessionTypes
<1>2. /\ u \in Tabs /\ u.current = c
      /\ u.clusters[c] # None /\ u.clusters[c].ns = n
      /\ u.clusters[c].list = tab.clusters[tab.current].list
      /\ \A d \in Places : d # c => u.clusters[d] = tab.clusters[d]
      /\ u.page = tab.page /\ u.form = tab.form /\ u.authed = tab.authed
      /\ u.authing = tab.authing /\ u.leaving = tab.leaving /\ u.crashed = tab.crashed
      /\ u.cleared = tab.cleared /\ u.expired = tab.expired /\ u.pick = tab.pick
  BY <1>1, SetFacts
<1>3. tab.current \in Places
  BY <1>1 DEF Tabs
<1> HIDE DEF u
<1>a. Strange(tab) => Strange(u)
  BY <1>2, PlaceFacts DEF Strange
<1>b. tab.current \in Strangers => Strange(tab)
  BY DEF Strange
<1>4. ~u.cleared => Full(u)
  BY <1>1, <1>2, <1>3, <1>a, <1>b, PlaceFacts DEF TabInv, Full
<1>c. PickOk(u)
  BY <1>1, <1>2, <1>a DEF TabInv, PickOk, Excused
<1>d. Sane(u)
  BY <1>1, <1>2 DEF TabInv, Sane
<1>e. /\ \A d \in Clusters : d # c => u.clusters[d].list = tab.clusters[d].list
      /\ u.clusters[c].list = tab.clusters[tab.current].list
  BY <1>2, PlaceFacts
<1>5. CASE t = u /\ tab.page.at # "private"
  <2>1. Follows(u)
    BY <1>2, <1>5 DEF Follows
  <2>2. RenderPre(u)
    BY <1>2, <1>4, <1>c, <1>d, <2>1 DEF RenderPre
  <2>3. Credible(u)
    BY <1>1, <1>2 DEF Credible
  <2> QED
    BY <1>2, <1>5, <1>e, <2>2, <2>3
<1>6. CASE t = LOCATION_CHANGE(u, Private(c, n))
  <2> DEFINE p == Private(c, n)
  <2>1. p \in Goals /\ p.at = "private" /\ p.cluster = c /\ p.cluster # None
    BY NoneAssumption DEF Goals, Privates, Private
  <2> HIDE DEF p
  <2>2. /\ Stage(u, t) /\ Follows(t) /\ t.page = p /\ t.form = u.form
        /\ t.authed = u.authed /\ t.authing = u.authing /\ t.current = c
    BY <1>2, <1>6, <2>1, LocationFacts DEF p
  <2>3. ~t.cleared => Full(t)
    BY <1>4, <2>2, KeptFacts DEF Stage, Fixed
  <2>a. PickOk(t)
    BY <1>c, <2>2, KeptFacts DEF Stage, Fixed
  <2>b. Sane(t)
    BY <1>d, <2>2 DEF Sane, Stage, Fixed
  <2>c. t \in Tabs /\ t.page.at # "config" /\ ~t.crashed /\ t.clusters[t.current] # None
    BY <1>2, <2>1, <2>2 DEF Stage, TabShown, Fixed
  <2>4. RenderPre(t)
    BY <2>2, <2>3, <2>a, <2>b, <2>c DEF RenderPre
  <2>5. \A d \in Clusters \union {c} : u.clusters[d] # None => t.clusters[d].list = u.clusters[d].list
    BY <1>2, <2>2, PlaceFacts DEF Stage, Kept
  <2>6. ~tab.cleared => \A d \in Clusters \union {c} : t.clusters[d].list = u.clusters[d].list
    BY <1>2, <1>4, <2>5 DEF Full
  <2>7. /\ t.pick = tab.pick /\ t.cleared = tab.cleared /\ t.leaving = tab.leaving
        /\ t.authed = tab.authed /\ t.page.at = "private" /\ t.current = c
    BY <1>2, <2>1, <2>2 DEF Stage, Fixed
  <2>8. Credible(t)
    BY <1>1, <1>2, <2>2 DEF Credible, Stage, Fixed
  <2> QED
    BY <1>e, <2>4, <2>6, <2>7, <2>8
<1> QED
  BY <1>5, <1>6 DEF u

LEMMA ChangeStep ==
    ASSUME SessionInv, changeContext
    PROVE  SessionInv'
<1> DEFINE c == tab.pick.cluster
           n == tab.pick.ns
           t == ChangeTo(tab, c, n)
<1>1. /\ tab.pick # None /\ ~tab.leaving /\ UNCHANGED <<server, faults>>
      /\ storage' = [storage EXCEPT !.ns[c] = n] /\ Step(t, {})
  BY DEF changeContext, CanMove
<1>2. /\ tab \in Tabs /\ TabInv(tab) /\ tab.page.at # "config" /\ ~tab.crashed
      /\ tab.authed /\ tab.clusters[tab.current] # None
      /\ c \in Places /\ n \in NameOrNone
      /\ (faults = 0 /\ ~tab.cleared /\ ~tab.leaving) => tab.page.at # "login"
  BY <1>1, PickFacts
<1>3. \/ t = setNamespaceState(tab, c, n) /\ tab.page.at # "private"
      \/ t = LOCATION_CHANGE(setNamespaceState(tab, c, n), Private(c, n))
  BY DEF ChangeTo
<1> HIDE DEF t
<1>4. /\ RenderPre(t) /\ Credible(t) /\ t.current = c /\ t.pick = tab.pick
      /\ t.cleared = tab.cleared /\ t.leaving = tab.leaving /\ t.authed = tab.authed
      /\ t.page.at = "private" \/ t.page = tab.page
      /\ ~tab.cleared => \A d \in Clusters : d # c => t.clusters[d].list = tab.clusters[d].list
      /\ ~tab.cleared => t.clusters[c].list = tab.clusters[tab.current].list
  <2>1. /\ tab.page.at # "config" /\ ~tab.crashed /\ tab.clusters[tab.current] # None
        /\ c \in Places /\ n \in NameOrNone
    BY <1>2
  <2> HIDE DEF c, n
  <2> QED
    BY <1>3, <2>1, SetPre
<1>5. Around
  <2>1. /\ storage' \in [token : Users \union {None}, oidc : BOOLEAN, ns : [Places -> NameOrNone]]
        /\ storage'.token = storage.token /\ storage'.oidc = storage.oidc
    BY <1>1, <1>2 DEF SessionInv, SessionTypes
  <2> QED
    BY <1>1, <2>1, AroundStorage DEF SessionInv, SessionTypes, CredInv
<1>6. LoginOk(t, requests \ {})
  BY <1>1, <1>2, <1>4 DEF LoginOk
<1>7. ListsOk(t, requests \ {})
  <2> SUFFICES ASSUME faults' = 0, ~t.cleared, NEW d \in Clusters
               PROVE  \/ t.clusters[d].list = None \/ t.clusters[d].list \subseteq Names(d)
                      \/ \E q \in requests \ {} : q.kind = "list" /\ q.cluster = d
                      \/ d = t.current /\ d # tab.current /\ t.authed /\ t.page.at # "login"
    BY DEF ListsOk
  <2>1. ~tab.cleared /\ faults = 0 /\ t.page.at # "login"
    BY <1>1, <1>2, <1>4
  <2>2. tab.clusters[d] # None
    BY <1>2, <2>1 DEF TabInv, Full
  <2>3. \/ tab.clusters[d].list = None \/ tab.clusters[d].list \subseteq Names(d)
        \/ \E q \in requests : q.kind = "list" /\ q.cluster = d
    BY <1>2, <2>1, <2>2 DEF SessionInv, ListsAreOwn
  <2>4. (d # c \/ c = tab.current) => t.clusters[d].list = tab.clusters[d].list
    BY <1>4, <2>1
  <2> QED
    BY <1>2, <1>4, <2>1, <2>3, <2>4
<1> QED
  BY <1>1, <1>4, <1>5, <1>6, <1>7, StepInv

LEMMA CreateStep ==
    ASSUME SessionInv, NEW q \in requests, createNamespace(q)
    PROVE  SessionInv'
<1> DEFINE c == q.cluster
           n == q.ns
           l == Request("list", c, None)
           t == LOCATION_CHANGE(setNamespaceState(tab, c, n), Private(c, n))
           R == (requests \ {q}) \union {l}
<1>1. /\ tab.page.at # "config" /\ tab \in Tabs /\ TabInv(tab) /\ ~tab.crashed
      /\ c \in Places /\ n \in Names(c) /\ q.kind = "create"
  BY AnswerFacts DEF createNamespace, API, SessionInv, RequestInv, Typed
<1>2. /\ spaces' = [spaces EXCEPT ![c] = @ \union {n}]
      /\ storage' = [storage EXCEPT !.ns[c] = n]
      /\ tab' = Render(tab, t) /\ requests' = R \union EffectRequests(tab, tab')
      /\ UNCHANGED <<oauth, cookie, valid, faults>>
  BY DEF createNamespace, counters
<1>3. n \in NameOrNone /\ n \in AllNames
  BY <1>1 DEF AllNames, NameOrNone
<1>4. tab.clusters[tab.current] # None
  BY <1>1 DEF TabInv
<1>5. /\ RenderPre(t) /\ Credible(t) /\ t.current = c /\ t.pick = tab.pick
      /\ t.cleared = tab.cleared /\ t.leaving = tab.leaving /\ t.authed = tab.authed
      /\ t.page.at = "private" \/ t.page = tab.page
      /\ ~tab.cleared => \A d \in Clusters : d # c => t.clusters[d].list = tab.clusters[d].list
  BY <1>1, <1>3, <1>4, SetPre
<1> HIDE DEF t
<1>6. Around
  <2>1. /\ storage' \in [token : Users \union {None}, oidc : BOOLEAN, ns : [Places -> NameOrNone]]
        /\ storage'.token = storage.token /\ storage'.oidc = storage.oidc
    BY <1>1, <1>2, <1>3 DEF SessionInv, SessionTypes
  <2>2. /\ spaces' \in [Places -> SUBSET AllNames]
        /\ \A d \in Clusters : spaces'[d] # {} /\ spaces'[d] \subseteq Names(d)
    BY <1>1, <1>2, <1>3 DEF SessionInv, SessionTypes
  <2> QED
    BY <1>2, <2>1, <2>2 DEF SessionInv, SessionTypes, CredInv, Around
<1>7. AfterRender(t, tab')
  BY <1>1, <1>2, <1>5, RenderFacts
<1>8. l.kind = "list" /\ l.cluster = c
      /\ l.cred = IF storage'.token # None THEN storage'.token ELSE cookie
  BY RequestFacts
<1>9. Sound(R)
  <2>1. oauth => cookie # None
    BY <1>1 DEF SessionInv, CredInv, API
  <2>2. Sound(requests \ {q})
    BY Remaining
  <2> QED
    BY <1>1, <1>6, <1>8, <2>1, <2>2 DEF Sound, Typed, API, Around
<1>10. LoginOk(t, R)
  <2>1. (faults' = 0 /\ ~t.cleared /\ ~t.crashed /\ ~t.leaving) => (tab.authed /\ tab.page.at # "login")
    BY <1>1, <1>2, <1>5, LoggedIn DEF API
  <2> QED
    BY <1>5, <2>1 DEF LoginOk
<1>11. ListsOk(t, R)
  <2> SUFFICES ASSUME faults' = 0, ~t.cleared, NEW d \in Clusters
               PROVE  \/ t.clusters[d].list = None \/ t.clusters[d].list \subseteq Names(d)
                      \/ \E r \in R : r.kind = "list" /\ r.cluster = d
    BY DEF ListsOk
  <2>1. CASE d = c
    BY <1>8, <2>1
  <2>2. CASE d # c
    <3>1. tab.clusters[d] # None /\ ~tab.cleared
      BY <1>1, <1>5 DEF TabInv, Full
    <3>2. \/ tab.clusters[d].list = None \/ tab.clusters[d].list \subseteq Names(d)
          \/ \E r \in requests : r.kind = "list" /\ r.cluster = d
      BY <1>1, <1>2, <3>1 DEF SessionInv, ListsAreOwn
    <3> QED
      BY <1>1, <1>5, <2>2, <3>1, <3>2
  <2> QED
    BY <2>1, <2>2
<1> HIDE DEF R
<1>12. SessionTypes' /\ RequestInv' /\ TabInv(tab)' /\ CredInv'
  BY <1>2, <1>5, <1>6, <1>7, <1>9, StepSafe DEF SessionInv
<1>13. LoginInv'
  BY <1>2, <1>5, <1>6, <1>7, <1>10, StepLogin DEF LoginOk
<1>14. ListsAreOwn'
  BY <1>2, <1>5, <1>7, <1>11, StepLists DEF ListsOk
<1> QED
  BY <1>12, <1>13, <1>14 DEF SessionInv

LEMMA VisitStep ==
    ASSUME SessionInv, NEW p \in Pages, Visit(p)
    PROVE  SessionInv'
<1> DEFINE t == LOCATION_CHANGE(tab, p)
<1>1. /\ tab.page.at # "config" /\ ~tab.crashed /\ p.at \in {"root", "private"}
      /\ UNCHANGED <<server, storage, faults>> /\ Step(t, {})
  BY DEF Visit
<1>2. tab \in Tabs /\ TabInv(tab) /\ Credible(tab)
  BY TabCredible DEF SessionInv, SessionTypes
<1>3. p \in Goals
  BY <1>1, PageFacts
<1>4. /\ Stage(tab, t) /\ Follows(t) /\ t.page = p /\ t.form = tab.form
      /\ t.authed = tab.authed /\ t.authing = tab.authing
  BY <1>2, <1>3, LocationFacts
<1> HIDE DEF t
<1>5. ~t.cleared => Full(t)
  BY <1>1, <1>2, <1>4, KeptFacts DEF Stage, Fixed, TabInv
<1>a. PickOk(t) /\ t.pick = tab.pick
  BY <1>2, <1>4, KeptFacts DEF TabInv, Stage, Fixed
<1>6. RenderPre(t) /\ Credible(t)
  BY <1>1, <1>2, <1>4, <1>5, <1>a DEF RenderPre, TabInv, Sane, Stage, TabShown, Fixed, Credible
<1>7. Around
  BY <1>1, AroundSame DEF SessionInv, SessionTypes
<1>8. LoginOk(t, requests \ {})
  <2> SUFFICES ASSUME faults' = 0, ~t.cleared, ~t.leaving, ~t.authed
               PROVE  NoAPI(requests \ {}) /\ NoErrors(t)
    BY <1>1, <1>4 DEF LoginOk
  <2>1. NoAPI(requests) /\ NoErrors(tab) /\ ~tab.cleared
    BY <1>1, <1>4 DEF SessionInv, LoginInv, Stage, Fixed
  <2> QED
    BY <1>4, <2>1, KeptFacts DEF NoAPI, Stage
<1>9. ListsOk(t, requests \ {})
  BY <1>1, <1>4, OwnLists, PlaceFacts DEF Stage, Fixed, Kept
<1> QED
  BY <1>1, <1>6, <1>a, <1>7, <1>8, <1>9, StepInv

-----------------------------------------------------------------------------
(* Other tabs and the backend *)

LEMMA OtherStep ==
    ASSUME SessionInv, OtherTabLogsOut \/ \E u \in Users : OtherTabLogsIn(u) \/ Revoke(u)
    PROVE  SessionInv'
<1>1. CASE OtherTabLogsOut
  <2>1. /\ storage' = StorageAfterLogout /\ UNCHANGED <<server, tab, requests, faults>>
    BY <1>1 DEF OtherTabLogsOut
  <2> QED
    BY <2>1, StorageFacts
    DEF SessionInv, SessionTypes, RequestInv, Typed, TabInv, Full, Excused, PickOk, Strange,
        Follows, ShowNav, CredInv, LoginInv,
        NoAPI, NoErrors, ListsAreOwn, server
<1>2. ASSUME NEW u \in Users, OtherTabLogsIn(u)
      PROVE  SessionInv'
  <2>1. /\ storage' = [storage EXCEPT !.token = u] /\ UNCHANGED <<server, tab, requests, faults>>
        /\ ~oauth
    BY <1>2 DEF OtherTabLogsIn
  <2> QED
    BY <2>1
    DEF SessionInv, SessionTypes, RequestInv, Typed, TabInv, Full, Excused, PickOk, Strange,
        Follows, ShowNav, CredInv, LoginInv,
        NoAPI, NoErrors, ListsAreOwn, server
<1>3. ASSUME NEW u \in Users, Revoke(u)
      PROVE  SessionInv'
  <2>1. /\ valid' = valid \ {u} /\ faults' = faults + 1
        /\ UNCHANGED <<oauth, storage, cookie, spaces, tab, requests>>
    BY <1>3 DEF Revoke
  <2>2. faults' \in Nat /\ faults' # 0
    BY <2>1 DEF SessionInv, SessionTypes
  <2> QED
    BY <2>1, <2>2
    DEF SessionInv, SessionTypes, RequestInv, Typed, TabInv, Full, Excused, PickOk, Strange,
        Follows, ShowNav, CredInv, LoginInv,
        ListsAreOwn
<1> QED
  BY <1>1, <1>2, <1>3

(* The invariant holds at first and is kept by every action. *)
LEMMA InitInv ==
    ASSUME Init
    PROVE  SessionInv
<1>1. At("root") \in Goals
  BY DEF Goals
<1>2. /\ tab \in Tabs /\ TabInv(tab) /\ tab.form = "none" /\ ~tab.authed
      /\ \A c \in Places : tab.clusters[c] = None
  BY <1>1, LoadedFacts DEF Init
<1>3. None \in NameOrNone
  BY EntryFacts
<1>4. storage \in [token : Users \union {None}, oidc : BOOLEAN, ns : [Places -> NameOrNone]]
  BY <1>3 DEF Init, NoStoredNamespaces
<1>5. \A c \in Clusters : (CHOOSE n \in Names(c) : TRUE) \in Names(c)
  BY SessionConstants
<1>6. /\ spaces \in [Places -> SUBSET AllNames]
      /\ \A c \in Clusters : spaces[c] # {} /\ spaces[c] \subseteq Names(c)
  BY <1>5, PlaceFacts DEF Init, AllNames
<1>7. SessionTypes /\ RequestInv
  BY <1>2, <1>4, <1>6 DEF Init, SessionTypes, RequestInv
<1>8. CredInv /\ LoginInv /\ ListsAreOwn
  BY <1>2, PlaceFacts DEF Init, CredInv, LoginInv, NoAPI, NoErrors, ListsAreOwn
<1> QED
  BY <1>2, <1>7, <1>8 DEF SessionInv

LEMMA NextInv ==
    ASSUME SessionInv, [Next]_vars
    PROVE  SessionInv'
<1>1. ASSUME NEW q \in requests, Answer(q)
      PROVE  SessionInv'
  BY <1>1, ValidateStep, CookieStep, FetchStep, CanStep, GetStep, CreateStep, UnauthorizedStep DEF Answer
<1>2. CASE Selecting
  BY <1>2, ChangeStep, SelectClusterStep, SelectNamespaceStep, CreateNewStep DEF Selecting
<1>3. CASE Environment
  BY <1>3, OtherStep, FailedStep, UnreachableStep DEF Environment
<1>4. CASE UNCHANGED vars
  BY <1>4
  DEF vars, SessionInv, SessionTypes, RequestInv, Typed, TabInv, Full, Excused, PickOk, Strange,
        Follows, ShowNav, CredInv, LoginInv,
      NoAPI, NoErrors, ListsAreOwn
<1>5. CASE \E u \in Users : handleSubmit(u) \/ LoginViaProvider(u)
  BY <1>5, SubmitStep, FreshSteps
<1>6. CASE receiveConfig \/ Logout \/ SignedOut \/ Reload
  BY <1>6, ConfigStep, LogoutStep, FreshSteps
<1>7. CASE \E p \in Pages : Visit(p)
  BY <1>7, VisitStep
<1> QED
  BY <1>1, <1>2, <1>3, <1>4, <1>5, <1>6, <1>7 DEF Next

(* SessionInv holds in every state. *)
LEMMA InvHolds == Spec => []SessionInv
<1>1. Init => SessionInv
  BY InitInv
<1>2. SessionInv /\ [Next]_vars => SessionInv'
  BY NextInv
<1> QED
  BY <1>1, <1>2, PTL DEF Spec

(* On a page of a cluster and namespace the store's current cluster and    *)
(* namespace are those of the URL, for any clusters, namespaces and users, *)
(* whatever lists and namespaces arrive late (getCurrentNamespace keeps    *)
(* what is selected, and LOCATION_CHANGE selects what the URL names).      *)
THEOREM ContextFollowsURLHolds == Spec => []ContextFollowsURL
<1>1. SessionInv => ContextFollowsURL
  BY DEF SessionInv, TabInv, Follows, ContextFollowsURL
<1> QED
  BY <1>1, InvHolds, PTL

(* The header, which reads the entry of the current cluster, can be        *)
(* rendered after any order of answers, context changes, history jumps and *)
(* writes of other tabs, until a logout clears the store's clusters        *)
(* (clearClusters keeps currentCluster and drops its entry) or a URL names *)
(* a cluster that is not configured (LOCATION_CHANGE makes an entry for it *)
(* that has no namespaces).                                                *)
THEOREM NoCrashHolds == Spec => []NoCrash
<1>1. SessionInv => NoCrash
  BY DEF SessionInv, TabInv, NoCrash, Excused
<1> QED
  BY <1>1, InvHolds, PTL

(* Until a request fails or the user logs out, the namespaces that the     *)
(* selector offers for a cluster are its own, or the list that will        *)
(* replace them is on its way (setNamespaceState copies the entry of the   *)
(* cluster the user comes from, and Header fetches the namespaces of every *)
(* cluster that becomes current).                                          *)
THEOREM ListsAreOwnHolds == Spec => []ListsAreOwn
<1>1. SessionInv => ListsAreOwn
  BY DEF SessionInv
<1> QED
  BY <1>1, InvHolds, PTL

=============================================================================
