--------------------------- MODULE AppReposProofs ---------------------------
(***************************************************************************)
(* Theorems about AppRepos, for any URLs, headers, pull secrets and        *)
(* repositories, any number of requests and of other users' writes, and    *)
(* any order of the answers.                                               *)
(*                                                                         *)
(* The invariant has two parts.  FormSide is about the form: what it holds *)
(* was validated, comes from the repository's secret and fits its          *)
(* namespace, and a request that submits it keeps that.  ListSide is about *)
(* the list: the answers on their way that nothing has overtaken carry     *)
(* what the server holds, and the list is the server's up to those         *)
(* answers.  The first is inductive by itself and gives the second its     *)
(* types.                                                                  *)
(***************************************************************************)
EXTENDS AppRepos, WellFoundedInduction, TLAPS

(* The values of the requests and of the store. *)
Tasks == {"validate", "create", "update"}
RequestSet ==
    [kind : AtOnce \union {"list", "create", "update", "delete"}, ns : Spaces \union {None},
     scope : Spaces \union {All, None}, stage : {1, 2}, part : Seq(Rows),
     vals : Values \union {None}, mode : Modes \union {None}, own : BOOLEAN, same : BOOLEAN,
     reply : Answers \union {None}, stale : BOOLEAN, checked : Checks \union {None},
     excused : BOOLEAN, alien : SUBSET AllPulls, seen : Secrets \union {None}, name : Refs]
Ops == {"fetch", "create", "update", "delete", "validate"}
Stores == [repos : Seq(Rows), secrets : Seq(Secrets), pulls : SUBSET AllPulls,
           fetching : BOOLEAN, errors : SUBSET Ops, validating : BOOLEAN]

(* A create or an update that the server has carried out, and one that it  *)
(* has carried out and answers with an error.                              *)
Wrote(q) == q.kind \in {"create", "update"} /\ q.reply # None /\ q.reply.ok
Torn(q) ==
    /\ q.kind \in {"create", "update"} /\ q.reply # None
    /\ ~q.reply.ok /\ q.reply.val # None

(* A request names what its kind needs, and an answer that is on its way   *)
(* has the type that its kind promises.                                    *)
RequestOk(q) ==
    /\ q \in RequestSet
    /\ q.kind # "list" => q.ns \in Spaces
    /\ q.kind \in {"list", "delete"} => q.scope \in Spaces \union {All}
    /\ q.kind \in Tasks => (q.vals \in Values /\ q.mode \in Modes)
    /\ q.kind = "cred" => q.mode \in Modes
    /\ q.kind \in AtOnce => q.reply = None
    /\ (q.kind = "list" /\ q.reply # None) => (q.reply.ok /\ q.reply.val \in Seq(Rows))
    /\ Wrote(q) => q.reply.val \in Rows
AllOk(Q) == \A q \in Q : RequestOk(q)

RepoTypes ==
    /\ server \in [Spaces -> Specs \union {None}]
    /\ pullsAt \in [Spaces -> SUBSET AllPulls]
    /\ page \in [all : BOOLEAN, ns : Spaces]
    /\ dirty \in BOOLEAN

-----------------------------------------------------------------------------
(* Rows *)

(* The row of a namespace is the first one of it, so it is one of the      *)
(* list's.                                                                 *)
LEMMA LeastIndex ==
    ASSUME NEW T, T \subseteq Nat, T # {}
    PROVE  \E i \in T : \A j \in T : i <= j
<1>1. \E x \in T : \A y \in T : ~(<<y, x>> \in OpToRel(<, Nat))
  BY NatLessThanWellFounded, WFMin DEF OpToRel
<1>2. ASSUME NEW x \in T, NEW y \in T, ~(<<y, x>> \in OpToRel(<, Nat))
      PROVE  x <= y
  <2>1. ~(y < x)
    BY <1>2 DEF OpToRel
  <2> QED  BY <2>1
<1> QED  BY <1>1, <1>2

LEMMA RowOfTypes ==
    ASSUME NEW s \in Stores, NEW n
    PROVE  RowOf(s, n) \in Rows \union {None}
<1> DEFINE T == RowsOf(s, n)
           k == CHOOSE i \in T : \A j \in T : i <= j
<1>1. s.repos \in Seq(Rows)
  BY DEF Stores
<1>2. T \subseteq Nat /\ T \subseteq DOMAIN s.repos
  BY <1>1 DEF RowsOf
<1>3. CASE T = {}
  BY <1>3 DEF RowOf
<1>4. CASE T # {}
  <2>1. k \in T
    <3> HIDE DEF T
    <3>1. \E i \in T : \A j \in T : i <= j
      BY <1>2, <1>4, LeastIndex
    <3> QED  BY <3>1
  <2>2. RowOf(s, n) = s.repos[k]
    BY <1>4 DEF RowOf
  <2> HIDE DEF k
  <2>3. s.repos[k] \in Rows
    BY <1>1, <1>2, <2>1
  <2> QED  BY <2>2, <2>3
<1> QED  BY <1>3, <1>4

LEMMA RowForTypes ==
    ASSUME NEW n \in Spaces, NEW w \in Specs
    PROVE  RowFor(n, w) \in Rows /\ RowFor(n, w).ns = n
BY DEF RowFor, Specs, Rows

LEMMA ListedTypes ==
    ASSUME server \in [Spaces -> Specs \union {None}], NEW n \in Spaces, server[n] # None
    PROVE  Listed(n) \in Rows
<1>1. server[n] \in Specs
  OBVIOUS
<1> QED  BY <1>1, RowForTypes DEF Listed

LEMMA AsListedTypes ==
    ASSUME server \in [Spaces -> Specs \union {None}], NEW S
    PROVE  AsListed(S) \in Seq(Rows)
<1>1. ASSUME NEW n \in Spaces PROVE ListedIn(S, n) \in Seq(Rows)
  <2>1. CASE n \in S /\ server[n] # None
    <3>1. Listed(n) \in Rows
      BY <2>1, ListedTypes
    <3>2. ListedIn(S, n) = <<Listed(n)>>
      BY <2>1 DEF ListedIn
    <3> QED  BY <3>1, <3>2
  <2>2. CASE ~(n \in S /\ server[n] # None)
    BY <2>2 DEF ListedIn
  <2> QED  BY <2>1, <2>2
<1>2. ListedIn(S, Team) \in Seq(Rows) /\ ListedIn(S, Global) \in Seq(Rows)
  BY <1>1 DEF Spaces
<1> QED  BY <1>2 DEF AsListed

-----------------------------------------------------------------------------
(* Requests *)

(* A request whose form is no longer there, and one that was overtaken. *)
Shut(q, f, s) ==
    [q EXCEPT !.own = @ /\ (q.mode = None \/ f # None),
              !.same = @ /\ (q.mode # "edit" \/ TablesShown(s))]
Late(q) == [q EXCEPT !.stale = TRUE]

(* What Detached leaves alone. *)
Like(r, q) ==
    /\ r.kind = q.kind /\ r.ns = q.ns /\ r.scope = q.scope /\ r.stage = q.stage
    /\ r.part = q.part /\ r.vals = q.vals /\ r.mode = q.mode /\ r.reply = q.reply
    /\ r.checked = q.checked /\ r.excused = q.excused /\ r.alien = q.alien
    /\ r.seen = q.seen /\ r.name = q.name

LEMMA ShutFacts ==
    ASSUME NEW q \in RequestSet, NEW f, NEW s
    PROVE  /\ Shut(q, f, s) \in RequestSet
           /\ Like(Shut(q, f, s), q) /\ Shut(q, f, s).stale = q.stale
           /\ Shut(q, f, s).own => (q.own /\ (q.mode = None \/ f # None))
<1> DEFINE x == q.own /\ (q.mode = None \/ f # None)
           y == q.same /\ (q.mode # "edit" \/ TablesShown(s))
<1>1. x \in BOOLEAN /\ y \in BOOLEAN /\ (x => (q.own /\ (q.mode = None \/ f # None)))
  OBVIOUS
<1>2. Shut(q, f, s) = [q EXCEPT !.own = x, !.same = y]
  BY DEF Shut
<1> HIDE DEF x, y
<1>3. [q EXCEPT !.own = x, !.same = y] \in RequestSet
  BY <1>1 DEF RequestSet
<1>4. [q EXCEPT !.own = x, !.same = y].own = x
  BY DEF RequestSet
<1>5. Like([q EXCEPT !.own = x, !.same = y], q) /\ [q EXCEPT !.own = x, !.same = y].stale = q.stale
  BY DEF RequestSet, Like
<1> QED  BY <1>1, <1>2, <1>3, <1>4, <1>5

LEMMA LateFacts ==
    ASSUME NEW q \in RequestSet
    PROVE  /\ Late(q) \in RequestSet /\ Like(Late(q), q) /\ Late(q).stale
           /\ Late(q).own = q.own
BY DEF Late, Like, RequestSet

LEMMA LikeOk ==
    ASSUME NEW q, NEW r \in RequestSet, RequestOk(q), Like(r, q)
    PROVE  RequestOk(r)
BY DEF RequestOk, Like, Wrote

LEMMA DetachedOk ==
    ASSUME NEW Q, NEW f, NEW s, AllOk(Q)
    PROVE  AllOk(Detached(Q, f, s))
<1> SUFFICES ASSUME NEW r \in Detached(Q, f, s)
             PROVE  RequestOk(r)
  BY DEF AllOk
<1>1. PICK q \in Q : r = Shut(q, f, s)
  BY DEF Detached, Shut
<1>2. RequestOk(q) /\ q \in RequestSet
  BY DEF AllOk, RequestOk
<1>3. r \in RequestSet /\ Like(r, q)
  BY <1>1, <1>2, ShutFacts
<1> QED  BY <1>2, <1>3, LikeOk

LEMMA OvertakenOk ==
    ASSUME NEW Q, NEW n, AllOk(Q)
    PROVE  AllOk(Overtaken(Q, n))
<1> SUFFICES ASSUME NEW r \in Overtaken(Q, n)
             PROVE  RequestOk(r)
  BY DEF AllOk
<1>1. PICK q \in Q : r = q \/ r = Late(q)
  BY DEF Overtaken, Late
<1>2. RequestOk(q) /\ q \in RequestSet
  BY DEF AllOk, RequestOk
<1>3. CASE r = q
  BY <1>2, <1>3
<1>4. CASE r = Late(q)
  <2>1. r \in RequestSet /\ Like(r, q)
    BY <1>4, <1>2, LateFacts
  <2> QED  BY <1>2, <2>1, LikeOk
<1> QED  BY <1>1, <1>3, <1>4

LEMMA NewRequests ==
    ASSUME NEW kind \in AtOnce \union {"create", "update", "delete"}, NEW n \in Spaces
    PROVE  /\ Request(kind, n) \in RequestSet
           /\ Request(kind, n).kind = kind /\ Request(kind, n).ns = n
           /\ Request(kind, n).reply = None /\ Request(kind, n).mode = None
           /\ Request(kind, n).own
           /\ kind \in {"secret", "pulls", "resync"} => RequestOk(Request(kind, n))
<1>1. << >> \in Seq(Rows)
  OBVIOUS
<1>2. /\ Request(kind, n) \in RequestSet
      /\ Request(kind, n).kind = kind /\ Request(kind, n).ns = n
      /\ Request(kind, n).reply = None /\ Request(kind, n).mode = None
      /\ Request(kind, n).own
  BY <1>1 DEF Request, Blank, RequestSet, Refs, PullOrNone
<1>3. kind \in {"secret", "pulls", "resync"} => RequestOk(Request(kind, n))
  BY <1>2 DEF RequestOk, AtOnce, Tasks, Wrote
<1> QED  BY <1>2, <1>3

LEMMA NewLists ==
    ASSUME NEW scope \in Spaces \union {All}
    PROVE  /\ RequestOk(ListRequest(scope))
           /\ ListRequest(scope).kind = "list" /\ ListRequest(scope).scope = scope
           /\ ListRequest(scope).reply = None /\ ListRequest(scope).mode = None
           /\ ListRequest(scope).stage = 1 /\ ListRequest(scope).part = << >>
<1>1. << >> \in Seq(Rows)
  OBVIOUS
<1>2. /\ ListRequest(scope) \in RequestSet
      /\ ListRequest(scope).kind = "list" /\ ListRequest(scope).scope = scope
      /\ ListRequest(scope).reply = None /\ ListRequest(scope).mode = None
      /\ ListRequest(scope).stage = 1 /\ ListRequest(scope).part = << >>
  BY <1>1 DEF ListRequest, Blank, RequestSet, Refs, PullOrNone
<1>3. RequestOk(ListRequest(scope))
  BY <1>2 DEF RequestOk, AtOnce, Tasks, Wrote
<1> QED  BY <1>2, <1>3

(* The requests for the secret of a row. *)
LEMMA NamedTypes ==
    ASSUME NEW t \in RequestSet, NEW x \in Refs
    PROVE  /\ [t EXCEPT !.name = x] \in RequestSet
           /\ [t EXCEPT !.name = x].kind = t.kind /\ [t EXCEPT !.name = x].ns = t.ns
           /\ [t EXCEPT !.name = x].mode = t.mode /\ [t EXCEPT !.name = x].reply = t.reply
BY DEF RequestSet

LEMMA SecretRequestsOk ==
    ASSUME NEW row \in Rows \union {None}, NEW r \in SecretRequests(row)
    PROVE  RequestOk(r) /\ r.kind = "secret" /\ r.mode = None
<1> DEFINE t == Request("secret", row.ns)
<1>1. row # None /\ r = [t EXCEPT !.name = row.ref]
  BY DEF SecretRequests
<1>2. row.ns \in Spaces /\ row.ref \in Refs
  BY <1>1 DEF Rows
<1>3. t \in RequestSet /\ t.kind = "secret" /\ t.ns = row.ns /\ t.reply = None /\ t.mode = None
  BY <1>2, NewRequests DEF AtOnce
<1> HIDE DEF t
<1>4. /\ r \in RequestSet /\ r.kind = "secret" /\ r.ns = row.ns /\ r.reply = None
      /\ r.mode = None
  BY <1>1, <1>2, <1>3, NamedTypes
<1>5. RequestOk(r)
  BY <1>2, <1>4 DEF RequestOk, AtOnce, Tasks, Wrote
<1> QED  BY <1>4, <1>5

LEMMA ScopeTypes ==
    ASSUME page \in [all : BOOLEAN, ns : Spaces]
    PROVE  Scope \in Spaces \union {All}
BY DEF Scope

-----------------------------------------------------------------------------
(* The form *)

(* The pull secrets that a form offers and has chosen are its namespace's, *)
(* but for those that it knows it took over from another namespace.        *)
Fits(f, s, P) ==
    /\ s.pulls \subseteq P[f.ns] \union f.alien
    /\ f.options \subseteq P[f.ns] \union f.alien
    /\ f.pull \in P[f.ns] \union f.alien \union {None}
(* What was validated is what the form holds, unless something changed the *)
(* form behind the handlers' back.                                         *)
StillChecked(f) == (f.validated # "unset" /\ ~f.shifted) => f.checked = Checked(f)
(* A form whose credentials the user did not touch holds none before a     *)
(* secret arrives, and then the secret's own, until another secret         *)
(* arrives; it sends them again if it can put the header together.         *)
Filled(f) ==
    ~f.touched =>
        /\ f.seen = None => (f.header = None /\ f.method = "none")
        /\ (f.seen # None /\ ~f.refilled) =>
              /\ f.header = f.seen.header /\ f.method # "registry"
              /\ Survives(f.seen.header) => FinalHeader(f) = f.seen.header
FormOk(f, s, P) == f \in Forms /\ Fits(f, s, P) /\ StillChecked(f) /\ Filled(f)

(* What a request submits keeps the promises of its form at the click.     *)
TaskOk(q, P) ==
    q.kind \in Tasks =>
        /\ q.excused \/ q.checked = [url |-> q.vals.url, header |-> q.vals.header]
        /\ q.vals.pull \in P[q.ns] \union q.alien \union {None}
        /\ (q.seen # None /\ Survives(q.seen.header)) => q.vals.header = q.seen.header
TasksOk(Q, P) == \A q \in Q : TaskOk(q, P)

(* The invariant's part about the form and what it submits. *)
FormSide(s, f, Q, P) ==
    /\ s \in Stores
    /\ f = None \/ FormOk(f, s, P)
    /\ AllOk(Q)
    /\ TasksOk(Q, P)

(* What the effects on pull secrets leave alone. *)
Same(g, f) ==
    /\ g.mode = f.mode /\ g.ns = f.ns /\ g.url = f.url /\ g.filter = f.filter
    /\ g.method = f.method /\ g.header = f.header /\ g.user = f.user /\ g.token = f.token
    /\ g.validated = f.validated /\ g.checked = f.checked /\ g.touched = f.touched
    /\ g.seen = f.seen /\ g.refilled = f.refilled /\ g.alien = f.alien

LEMMA SameChecked ==
    ASSUME NEW f, NEW g, Same(g, f)
    PROVE  /\ (g.pull = f.pull \/ f.method # "registry") =>
                 (FinalHeader(g) = FinalHeader(f) /\ Checked(g) = Checked(f))
           /\ Filled(f) => Filled(g)
<1>1. (g.pull = f.pull \/ f.method # "registry") => FinalHeader(g) = FinalHeader(f)
  BY DEF Same, FinalHeader
<1>2. FinalHeader(g) = FinalHeader(f) => Checked(g) = Checked(f)
  BY DEF Same, Checked
<1>3. Filled(f) => Filled(g)
  BY <1>1 DEF Same, Filled
<1> QED  BY <1>1, <1>2, <1>3

(* The pull secret that the effects choose is the form's or one of the     *)
(* loaded ones.                                                            *)
LEMMA PullEffectsOk ==
    ASSUME NEW f \in Forms, NEW s \in Stores, NEW P
    PROVE  LET g == PullEffects(f, s) IN
           /\ g \in Forms /\ Same(g, f)
           /\ Fits(f, s, P) => Fits(g, s, P)
           /\ ~g.shifted => (~f.shifted /\ Checked(g) = Checked(f))
           /\ Filled(f) => Filled(g)
<1> DEFINE p == OwnPull(f, s)
           b == f.shifted \/ (f.method = "registry" /\ p # f.pull)
           o == IF f.options = {} THEN s.pulls ELSE f.options
           g == [f EXCEPT !.pull = p, !.shifted = b, !.options = o]
<1>1. PullEffects(f, s) = g
  BY DEF PullEffects
<1>2. p \in s.pulls \union {f.pull} /\ o \in {s.pulls, f.options}
  BY DEF OwnPull
<1>3. /\ s.pulls \subseteq AllPulls /\ f.pull \in PullOrNone /\ f.options \subseteq AllPulls
      /\ f.shifted \in BOOLEAN
  BY DEF Stores, Forms
<1>4. b \in BOOLEAN /\ (~b => (~f.shifted /\ (p = f.pull \/ f.method # "registry")))
  BY <1>3
<1> HIDE DEF p, o, b
<1>5. p \in PullOrNone /\ o \in SUBSET AllPulls
  BY <1>2, <1>3 DEF PullOrNone
<1>6. g \in Forms
  BY <1>4, <1>5 DEF Forms
<1>7. Same(g, f) /\ g.pull = p /\ g.options = o /\ g.shifted = b
  BY DEF Forms, Same
<1> HIDE DEF g
<1>8. Fits(f, s, P) => Fits(g, s, P)
  BY <1>2, <1>7 DEF Fits, Same
<1>9. ~g.shifted => (~f.shifted /\ Checked(g) = Checked(f))
  BY <1>4, <1>7, SameChecked
<1> QED  BY <1>1, <1>6, <1>7, <1>8, <1>9, SameChecked

LEMMA EffectsOk ==
    ASSUME NEW f, NEW s \in Stores, NEW P, FormOk(f, s, P)
    PROVE  FormOk(PullEffects(f, s), s, P)
<1> DEFINE g == PullEffects(f, s)
<1>1. f \in Forms /\ Fits(f, s, P) /\ StillChecked(f) /\ Filled(f)
  BY DEF FormOk
<1>2. /\ g \in Forms /\ Same(g, f) /\ Fits(g, s, P) /\ Filled(g)
      /\ ~g.shifted => (~f.shifted /\ Checked(g) = Checked(f))
  BY <1>1, PullEffectsOk
<1> HIDE DEF g
<1>3. StillChecked(g)
  BY <1>1, <1>2 DEF StillChecked, Same
<1>4. FormOk(g, s, P)
  BY <1>2, <1>3 DEF FormOk
<1> QED  BY <1>4 DEF g

LEMMA RepoEffectOk ==
    ASSUME NEW f \in Forms, NEW r \in Rows, NEW s, NEW P
    PROVE  LET g == RepoEffect(f, r) IN
           /\ g \in Forms
           /\ g.validated = f.validated /\ g.checked = f.checked /\ g.shifted = f.shifted
           /\ Fits(f, s, P) => Fits(g, s, P)
           /\ Filled(f) => Filled(g)
<1> DEFINE b == f.filter \/ r.filter
           g == [f EXCEPT !.url = r.url, !.filter = b]
<1>1. RepoEffect(f, r) = g
  BY DEF RepoEffect
<1>2. b \in BOOLEAN /\ r.url \in Urls
  BY DEF Rows
<1> HIDE DEF b
<1>3. g \in Forms
  BY <1>2 DEF Forms
<1>4. /\ g.mode = f.mode /\ g.ns = f.ns /\ g.method = f.method /\ g.header = f.header
      /\ g.user = f.user /\ g.token = f.token /\ g.validated = f.validated
      /\ g.checked = f.checked /\ g.shifted = f.shifted /\ g.touched = f.touched
      /\ g.seen = f.seen /\ g.refilled = f.refilled /\ g.alien = f.alien /\ g.pull = f.pull
      /\ g.options = f.options
  BY DEF Forms
<1> HIDE DEF g
<1>5. FinalHeader(g) = FinalHeader(f)
  BY <1>4 DEF FinalHeader
<1>6. (Fits(f, s, P) => Fits(g, s, P)) /\ (Filled(f) => Filled(g))
  BY <1>4, <1>5 DEF Fits, Filled
<1> QED  BY <1>1, <1>3, <1>4, <1>6

(* Taking a header apart, and putting it together again. *)
OwnSecrets == [ns : Spaces, header : Headers]

LEMMA HeaderTypes ==
    ASSUME NEW x \in Schemes, NEW u \in Seq(Words)
    PROVE  Header(x, u) \in Headers
BY DEF Header, Headers

LEMMA DecodedTypes ==
    ASSUME NEW h \in Headers
    PROVE  Decoded(h) \in Seq(Words)
<1>1. h.parts \in Seq(Words)
  BY DEF Headers
<1>2. Part(h, 1) \in Words /\ Part(h, 2) \in Words
  BY <1>1, RepoConstants DEF Part
<1> DEFINE x == Part(h, 1)
           y == Part(h, 2)
<1>3. x \in Words /\ y \in Words
  BY <1>2
<1> HIDE DEF x, y
<1>4. <<x, y>> \in Seq(Words) /\ <<x>> \in Seq(Words)
  BY <1>3
<1> QED  BY <1>4 DEF Decoded, x, y

LEMMA ParseOk ==
    ASSUME NEW f \in Forms, NEW h \in Headers, Parsed(h)
    PROVE  LET g == Parse(f, h) IN
           /\ g \in Forms
           /\ g.mode = f.mode /\ g.ns = f.ns /\ g.url = f.url /\ g.filter = f.filter
           /\ g.validated = f.validated /\ g.checked = f.checked /\ g.pull = f.pull
           /\ g.options = f.options /\ g.alien = f.alien
           /\ g.shifted = f.shifted /\ g.touched = f.touched /\ g.seen = f.seen
           /\ g.refilled = f.refilled
           /\ g.header = h /\ g.method # "registry"
           /\ Survives(h) => FinalHeader(g) = h
<1> DEFINE u == Decoded(h)
<1>1. u \in Seq(Words)
  BY DecodedTypes
<1>2. h.scheme \in {"Basic", "Bearer"} /\ h = [scheme |-> h.scheme, parts |-> h.parts]
  BY DEF Parsed, Headers, Schemes
<1>3. Survives(h) => u = h.parts
  BY DEF Survives
<1> HIDE DEF u
<1>4. h \in HeaderOrNone
  BY DEF HeaderOrNone
<1>5. CASE h.scheme = "Basic"
  <2> DEFINE g == [f EXCEPT !.header = h, !.user = u, !.method = "Basic"]
  <2>1. Parse(f, h) = g
    BY <1>5 DEF Parse, u
  <2>2. g \in Forms
    BY <1>1, <1>4 DEF Forms, Methods
  <2>3. /\ g.mode = f.mode /\ g.ns = f.ns /\ g.url = f.url /\ g.filter = f.filter
        /\ g.validated = f.validated /\ g.checked = f.checked /\ g.pull = f.pull
        /\ g.options = f.options /\ g.alien = f.alien
        /\ g.shifted = f.shifted /\ g.touched = f.touched /\ g.seen = f.seen
        /\ g.refilled = f.refilled
        /\ g.header = h /\ g.user = u /\ g.method = "Basic"
    BY DEF Forms
  <2> HIDE DEF g
  <2>4. FinalHeader(g) = [scheme |-> "Basic", parts |-> u]
    BY <2>3 DEF FinalHeader, Header
  <2>5. Survives(h) => FinalHeader(g) = h
    BY <1>2, <1>3, <1>5, <2>4
  <2> QED  BY <2>1, <2>2, <2>3, <2>5
<1>6. CASE h.scheme = "Bearer"
  <2> DEFINE g == [f EXCEPT !.header = h, !.token = u, !.method = "Bearer"]
  <2>1. Parse(f, h) = g
    BY <1>6 DEF Parse, u
  <2>2. g \in Forms
    BY <1>1, <1>4 DEF Forms, Methods
  <2>3. /\ g.mode = f.mode /\ g.ns = f.ns /\ g.url = f.url /\ g.filter = f.filter
        /\ g.validated = f.validated /\ g.checked = f.checked /\ g.pull = f.pull
        /\ g.options = f.options /\ g.alien = f.alien
        /\ g.shifted = f.shifted /\ g.touched = f.touched /\ g.seen = f.seen
        /\ g.refilled = f.refilled
        /\ g.header = h /\ g.token = u /\ g.method = "Bearer"
    BY DEF Forms
  <2> HIDE DEF g
  <2>4. FinalHeader(g) = [scheme |-> "Bearer", parts |-> u]
    BY <2>3 DEF FinalHeader, Header
  <2>5. Survives(h) => FinalHeader(g) = h
    BY <1>2, <1>3, <1>6, <2>4
  <2> QED  BY <2>1, <2>2, <2>3, <2>5
<1> QED  BY <1>2, <1>5, <1>6

LEMMA SecretEffectOk ==
    ASSUME NEW f \in Forms, NEW x \in OwnSecrets
    PROVE  LET g == SecretEffect(f, x) IN
           /\ g \in Forms
           /\ g.mode = f.mode /\ g.ns = f.ns /\ g.url = f.url /\ g.filter = f.filter
           /\ g.validated = f.validated /\ g.checked = f.checked /\ g.pull = f.pull
           /\ g.options = f.options /\ g.alien = f.alien
           /\ g.shifted = f.shifted /\ g.touched = f.touched /\ g.seen = f.seen
           /\ g.refilled = f.refilled
           /\ (f.header = None \/ f.header = x.header) =>
                 /\ g.header = x.header /\ g.method # "registry"
                 /\ Survives(x.header) => FinalHeader(g) = x.header
<1>1. x.header \in Headers /\ f.header \in HeaderOrNone
  BY DEF OwnSecrets, Forms
<1>2. Owned(x)
  BY <1>1, RepoConstants DEF Owned
<1>3. CASE Parsed(f.header)
  <2>1. f.header \in Headers /\ f.header # None
    BY <1>1, <1>3 DEF Parsed, HeaderOrNone
  <2>2. SecretEffect(f, x) = Parse(f, f.header)
    BY <1>2, <1>3 DEF SecretEffect
  <2> QED  BY <1>3, <2>1, <2>2, ParseOk
<1>4. CASE ~Parsed(f.header) /\ Parsed(x.header)
  <2>1. SecretEffect(f, x) = Parse(f, x.header)
    BY <1>2, <1>4 DEF SecretEffect
  <2> QED  BY <1>1, <1>4, <2>1, ParseOk
<1>5. CASE ~Parsed(f.header) /\ ~Parsed(x.header)
  <2> DEFINE h == x.header
             g == [f EXCEPT !.header = h, !.method = "custom"]
  <2>1. SecretEffect(f, x) = g
    BY <1>2, <1>5 DEF SecretEffect
  <2>2. h \in HeaderOrNone
    BY <1>1 DEF HeaderOrNone
  <2> HIDE DEF h
  <2>3. g \in Forms
    BY <2>2 DEF Forms, Methods
  <2>4. /\ g.mode = f.mode /\ g.ns = f.ns /\ g.url = f.url /\ g.filter = f.filter
        /\ g.validated = f.validated /\ g.checked = f.checked /\ g.pull = f.pull
        /\ g.options = f.options /\ g.alien = f.alien
        /\ g.shifted = f.shifted /\ g.touched = f.touched /\ g.seen = f.seen
        /\ g.refilled = f.refilled /\ g.header = h /\ g.method = "custom"
    BY DEF Forms
  <2> HIDE DEF g
  <2>5. FinalHeader(g) = h
    BY <2>4 DEF FinalHeader
  <2> QED  BY <2>1, <2>3, <2>4, <2>5 DEF h
<1> QED  BY <1>3, <1>4, <1>5

LEMMA FillOk ==
    ASSUME NEW f \in Forms, NEW x \in OwnSecrets \union {None}, NEW s, NEW P
    PROVE  LET g == Fill(f, x) IN
           /\ g \in Forms
           /\ g.validated = f.validated /\ g.checked = f.checked /\ g.shifted = f.shifted
           /\ Fits(f, s, P) => Fits(g, s, P)
           /\ Filled(f) => Filled(g)
<1>1. CASE x = None
  BY <1>1 DEF Fill
<1>2. CASE x # None
  <2> DEFINE h == SecretEffect(f, x)
             b == h.refilled \/ (f.seen # None /\ f.seen # x)
             g == [h EXCEPT !.seen = x, !.refilled = b]
  <2>1. x \in OwnSecrets /\ x \in Secrets
    BY <1>2 DEF OwnSecrets, Secrets
  <2>2. Fill(f, x) = g
    BY <1>2 DEF Fill
  <2>3. b \in BOOLEAN /\ (~b => (~h.refilled /\ (f.seen = None \/ f.seen = x)))
    BY <2>1, SecretEffectOk DEF Forms
  <2>4. /\ h \in Forms
        /\ h.mode = f.mode /\ h.ns = f.ns /\ h.url = f.url /\ h.filter = f.filter
        /\ h.validated = f.validated /\ h.checked = f.checked /\ h.pull = f.pull
        /\ h.options = f.options /\ h.alien = f.alien
        /\ h.shifted = f.shifted /\ h.touched = f.touched /\ h.refilled = f.refilled
        /\ (f.header = None \/ f.header = x.header) =>
              /\ h.header = x.header /\ h.method # "registry"
              /\ Survives(x.header) => FinalHeader(h) = x.header
    BY <2>1, SecretEffectOk
  <2> HIDE DEF h, b
  <2>5. g \in Forms
    BY <2>1, <2>3, <2>4 DEF Forms
  <2>6. /\ g.mode = f.mode /\ g.ns = f.ns /\ g.url = f.url /\ g.filter = f.filter
        /\ g.validated = f.validated /\ g.checked = f.checked /\ g.pull = f.pull
        /\ g.options = f.options /\ g.alien = f.alien
        /\ g.shifted = f.shifted /\ g.touched = f.touched
        /\ g.seen = x /\ g.refilled = b /\ g.pull = h.pull
        /\ g.header = h.header /\ g.method = h.method /\ g.user = h.user /\ g.token = h.token
    BY <2>4 DEF Forms
  <2> HIDE DEF g
  <2>7. FinalHeader(g) = FinalHeader(h)
    BY <2>6 DEF FinalHeader
  <2>8. Fits(f, s, P) => Fits(g, s, P)
    BY <2>6 DEF Fits
  <2>9. Filled(f) => Filled(g)
    <3> SUFFICES ASSUME Filled(f), ~f.touched, ~b
                 PROVE  /\ g.header = x.header /\ g.method # "registry"
                        /\ Survives(x.header) => FinalHeader(g) = x.header
      BY <1>2, <2>6 DEF Filled
    <3>1. f.header = None \/ f.header = x.header
      BY <1>2, <2>3, <2>4 DEF Filled
    <3> QED  BY <2>4, <2>6, <2>7, <3>1
  <2> QED  BY <2>2, <2>5, <2>6, <2>8, <2>9
<1> QED  BY <1>1, <1>2

(* The secret that the form is given is one that a repository owns. *)
LEMMA SecretForTypes ==
    ASSUME NEW s \in Stores
    PROVE  SecretFor(s) \in OwnSecrets \union {None}
<1> DEFINE T == OwnedIn(s)
           k == CHOOSE i \in T : \A j \in T : i <= j
<1>1. s.secrets \in Seq(Secrets)
  BY DEF Stores
<1>2. T \subseteq Nat /\ T \subseteq DOMAIN s.secrets /\ \A i \in T : Owned(s.secrets[i])
  BY <1>1 DEF OwnedIn
<1>3. CASE T = {}
  BY <1>3 DEF SecretFor
<1>4. CASE T # {}
  <2>1. k \in T
    <3> HIDE DEF T
    <3>1. \E i \in T : \A j \in T : i <= j
      BY <1>2, <1>4, LeastIndex
    <3> QED  BY <3>1
  <2>2. SecretFor(s) = s.secrets[k]
    BY <1>4 DEF SecretFor
  <2> HIDE DEF k
  <2>3. s.secrets[k] \in Secrets /\ Owned(s.secrets[k])
    BY <1>1, <1>2, <2>1
  <2> DEFINE x == s.secrets[k]
  <2> HIDE DEF x
  <2>4. x \in Secrets /\ Owned(x)
    BY <2>3 DEF x
  <2>5. x \in OwnSecrets
    BY <2>4 DEF Secrets, OwnSecrets, Owned
  <2> QED  BY <2>2, <2>5 DEF x
<1> QED  BY <1>3, <1>4

LEMMA FinalHeaderTypes ==
    ASSUME NEW f \in Forms
    PROVE  FinalHeader(f) \in Creds
<1>1. /\ f.header \in HeaderOrNone /\ f.user \in Seq(Words) /\ f.token \in Seq(Words)
      /\ f.pull \in PullOrNone
  BY DEF Forms
<1>2. Header("Basic", f.user) \in Headers /\ Header("Bearer", f.token) \in Headers
  BY <1>1, HeaderTypes DEF Schemes
<1>3. f.header \in Creds /\ f.pull \in Creds /\ None \in Creds /\ Headers \subseteq Creds
  BY <1>1 DEF HeaderOrNone, PullOrNone, Creds
<1> QED  BY <1>2, <1>3 DEF FinalHeader

LEMMA ValsTypes ==
    ASSUME NEW f \in Forms, f.url # None
    PROVE  Vals(f) \in Values /\ Checked(f) \in Checks
<1>1. /\ f.url \in Urls /\ f.filter \in BOOLEAN /\ f.pull \in PullOrNone
      /\ FinalHeader(f) \in Creds
  BY FinalHeaderTypes DEF Forms
<1> QED  BY <1>1 DEF Vals, Values, Checked, Checks

LEMMA FormOkMoves ==
    ASSUME NEW f, NEW s, NEW P, FormOk(f, s, P), NEW s2, s2.pulls = s.pulls,
           NEW P2, P[f.ns] \subseteq P2[f.ns]
    PROVE  FormOk(f, s2, P2)
BY DEF FormOk, Fits

LEMMA AfterStoreOk ==
    ASSUME NEW f, NEW s \in Stores, NEW P, f = None \/ FormOk(f, s, P),
           NEW rc \in BOOLEAN, NEW sc \in BOOLEAN
    PROVE  LET g == AfterStore(f, s, rc, sc) IN g = None \/ FormOk(g, s, P)
<1> DEFINE edit == f.mode = "edit"
           g == IF edit /\ rc THEN RepoEffect(f, RowOf(s, f.ns)) ELSE f
           h == IF edit /\ sc THEN Fill(g, SecretFor(s)) ELSE g
           k == PullEffects(h, s)
           b == k.shifted \/ Checked(h) # Checked(f)
           z == [k EXCEPT !.shifted = b]
<1>1. CASE f = None \/ Unmounts(f, s)
  BY <1>1 DEF AfterStore
<1>2. CASE f # None /\ ~Unmounts(f, s)
  <2>1. AfterStore(f, s, rc, sc) = z
    BY <1>2 DEF AfterStore
  <2>2. f \in Forms /\ Fits(f, s, P) /\ StillChecked(f) /\ Filled(f)
    BY <1>2 DEF FormOk
  <2>3. /\ g \in Forms /\ g.validated = f.validated /\ g.checked = f.checked
        /\ g.shifted = f.shifted /\ Fits(g, s, P) /\ Filled(g)
    <3>1. CASE edit /\ rc
      <4>1. RowOf(s, f.ns) \in Rows
        BY <1>2, <3>1, RowOfTypes DEF Unmounts
      <4> QED  BY <2>2, <3>1, <4>1, RepoEffectOk
    <3>2. CASE ~(edit /\ rc)
      BY <2>2, <3>2
    <3> QED  BY <3>1, <3>2
  <2> HIDE DEF g
  <2>4. /\ h \in Forms /\ h.validated = f.validated /\ h.checked = f.checked
        /\ h.shifted = f.shifted /\ Fits(h, s, P) /\ Filled(h)
    <3>1. CASE edit /\ sc
      <4>1. SecretFor(s) \in OwnSecrets \union {None}
        BY SecretForTypes
      <4>2. LET x == Fill(g, SecretFor(s)) IN
            /\ x \in Forms /\ x.validated = g.validated /\ x.checked = g.checked
            /\ x.shifted = g.shifted /\ Fits(x, s, P) /\ Filled(x)
        BY <2>3, <4>1, FillOk
      <4>3. h = Fill(g, SecretFor(s))
        BY <3>1
      <4> QED  BY <2>3, <4>2, <4>3
    <3>2. CASE ~(edit /\ sc)
      BY <2>3, <3>2
    <3> QED  BY <3>1, <3>2
  <2> HIDE DEF h
  <2>5. /\ k \in Forms /\ Same(k, h) /\ Fits(k, s, P) /\ Filled(k)
        /\ ~k.shifted => (~h.shifted /\ Checked(k) = Checked(h))
    BY <2>4, PullEffectsOk
  <2> HIDE DEF k
  <2>7. b \in BOOLEAN /\ (~b => (~k.shifted /\ Checked(h) = Checked(f)))
    BY <2>5 DEF Forms
  <2> HIDE DEF b
  <2>8. z \in Forms
    BY <2>5, <2>7 DEF Forms
  <2>9. Same(z, k) /\ z.pull = k.pull /\ z.options = k.options /\ z.shifted = b
    BY <2>5 DEF Forms, Same
  <2> HIDE DEF z
  <2>10. Checked(z) = Checked(k) /\ Filled(z)
    BY <2>5, <2>9, SameChecked
  <2>11. Fits(z, s, P)
    BY <2>5, <2>9 DEF Fits, Same
  <2>12. StillChecked(z)
    <3> SUFFICES ASSUME z.validated # "unset", ~b
                 PROVE  z.checked = Checked(z)
      BY <2>9 DEF StillChecked
    <3>1. f.validated # "unset" /\ z.checked = f.checked
      BY <2>4, <2>5, <2>9 DEF Same
    <3>2. ~f.shifted /\ Checked(z) = Checked(f)
      BY <2>4, <2>5, <2>7, <2>10
    <3> QED  BY <2>2, <3>1, <3>2 DEF StillChecked
  <2> QED  BY <1>2, <2>1, <2>8, <2>10, <2>11, <2>12 DEF FormOk
<1> QED  BY <1>1, <1>2

-----------------------------------------------------------------------------
(* Requests of the form *)

LEMMA TaskLike ==
    ASSUME NEW q, NEW r, Like(r, q), NEW P, TaskOk(q, P)
    PROVE  TaskOk(r, P)
BY DEF TaskOk, Like

LEMMA DetachedTasks ==
    ASSUME NEW Q, AllOk(Q), NEW g, NEW s, NEW P, TasksOk(Q, P)
    PROVE  TasksOk(Detached(Q, g, s), P)
<1> SUFFICES ASSUME NEW r \in Detached(Q, g, s)
             PROVE  TaskOk(r, P)
  BY DEF TasksOk
<1>1. PICK q \in Q : r = Shut(q, g, s)
  BY DEF Detached, Shut
<1>2. q \in RequestSet /\ TaskOk(q, P)
  BY DEF AllOk, RequestOk, TasksOk
<1>3. Like(r, q)
  BY <1>1, <1>2, ShutFacts
<1> QED  BY <1>2, <1>3, TaskLike

LEMMA OvertakenTasks ==
    ASSUME NEW Q, AllOk(Q), NEW P, TasksOk(Q, P), NEW n
    PROVE  TasksOk(Overtaken(Q, n), P)
<1> SUFFICES ASSUME NEW r \in Overtaken(Q, n)
             PROVE  TaskOk(r, P)
  BY DEF TasksOk
<1>1. PICK q \in Q : r = q \/ r = Late(q)
  BY DEF Overtaken, Late
<1>2. q \in RequestSet /\ TaskOk(q, P)
  BY DEF AllOk, RequestOk, TasksOk
<1>3. CASE r = q
  BY <1>2, <1>3
<1>4. CASE r = Late(q)
  <2>1. Like(r, q)
    BY <1>2, <1>4, LateFacts
  <2> QED  BY <1>2, <2>1, TaskLike
<1> QED  BY <1>1, <1>3, <1>4

(* A request that submits nothing. *)
LEMMA OtherTasks ==
    ASSUME NEW q, q.kind \notin Tasks, NEW P
    PROVE  TaskOk(q, P)
BY DEF TaskOk

(* A change of the store under a form. *)
LEMMA UnderKeeps ==
    ASSUME NEW P, NEW s \in Stores, NEW f, f = None \/ FormOk(f, s, P),
           NEW Q, AllOk(Q), TasksOk(Q, P),
           NEW rc \in BOOLEAN, NEW sc \in BOOLEAN, StoreUnder(f, s, Q, rc, sc)
    PROVE  FormSide(st', form', requests', P)
<1> DEFINE g == AfterStore(f, s, rc, sc)
<1>1. st' = s /\ form' = g /\ requests' = Detached(Q, g, s)
  BY DEF StoreUnder
<1>2. g = None \/ FormOk(g, s, P)
  BY AfterStoreOk
<1> HIDE DEF g
<1>3. AllOk(Detached(Q, g, s)) /\ TasksOk(Detached(Q, g, s), P)
  BY DetachedOk, DetachedTasks
<1> QED  BY <1>1, <1>2, <1>3 DEF FormSide

LEMMA StoreKeeps ==
    ASSUME NEW P, FormSide(st, form, requests, P),
           NEW s \in Stores, s.pulls = st.pulls,
           NEW Q, AllOk(Q), TasksOk(Q, P),
           NEW rc \in BOOLEAN, NEW sc \in BOOLEAN, Store(s, Q, rc, sc)
    PROVE  FormSide(st', form', requests', P)
<1>1. form = None \/ FormOk(form, s, P)
  BY FormOkMoves DEF FormSide
<1>2. StoreUnder(form, s, Q, rc, sc)
  BY DEF Store
<1> QED  BY <1>1, <1>2, UnderKeeps

-----------------------------------------------------------------------------
(* The reducer *)

(* What each of the reducer's cases changes. *)
LEMMA StoreTypes ==
    ASSUME NEW s \in Stores
    PROVE  /\ requestRepos(s) \in Stores /\ requestRepos(s).pulls = s.pulls
           /\ requestRepos(s).repos = s.repos
           /\ LOCATION_CHANGE(s) \in Stores /\ LOCATION_CHANGE(s).pulls = s.pulls
           /\ LOCATION_CHANGE(s).repos = s.repos
           /\ \A op \in Ops : /\ errorRepos(s, op) \in Stores
                              /\ errorRepos(s, op).pulls = s.pulls
                              /\ errorRepos(s, op).repos = s.repos
<1>1. ASSUME NEW op \in Ops PROVE (s.errors \intersect {"fetch"}) \union {op} \in SUBSET Ops
  BY DEF Ops
<1>2. \A op \in Ops : /\ errorRepos(s, op) \in Stores
                      /\ errorRepos(s, op).pulls = s.pulls
                      /\ errorRepos(s, op).repos = s.repos
  BY <1>1 DEF Stores, errorRepos
<1>3. {} \in SUBSET Ops
  OBVIOUS
<1> QED  BY <1>2, <1>3 DEF Stores, requestRepos, LOCATION_CHANGE

LEMMA ReposTypes ==
    ASSUME NEW s \in Stores
    PROVE  /\ \A v \in Seq(Rows) :
                 /\ receiveRepos(s, v) \in Stores /\ receiveRepos(s, v).pulls = s.pulls
                 /\ receiveRepos(s, v).repos = v
           /\ \A r \in Rows :
                 /\ addedRepo(s, r) \in Stores /\ addedRepo(s, r).pulls = s.pulls
                 /\ addedRepo(s, r).repos = Append(s.repos, r)
<1>1. s.repos \in Seq(Rows) /\ {} \in SUBSET Ops
  BY DEF Stores
<1>2. \A r \in Rows : Append(s.repos, r) \in Seq(Rows)
  BY <1>1
<1> QED  BY <1>1, <1>2 DEF Stores, receiveRepos, addedRepo

LEMMA UpdatedTypes ==
    ASSUME NEW s \in Stores, NEW r \in Rows
    PROVE  /\ repoUpdated(s, r) \in Stores /\ repoUpdated(s, r).pulls = s.pulls
           /\ repoUpdated(s, r).repos
                = [i \in DOMAIN s.repos |-> IF s.repos[i].ns = r.ns THEN r ELSE s.repos[i]]
<1> DEFINE u == [i \in DOMAIN s.repos |-> IF s.repos[i].ns = r.ns THEN r ELSE s.repos[i]]
<1>1. s.repos \in Seq(Rows)
  BY DEF Stores
<1>2. PICK m \in Nat : s.repos \in [1..m -> Rows]
  BY <1>1
<1>3. u \in [1..m -> Rows]
  BY <1>2
<1>4. u \in Seq(Rows)
  BY <1>3
<1>5. repoUpdated(s, r) = [s EXCEPT !.repos = u]
  BY DEF repoUpdated
<1> HIDE DEF u
<1>6. /\ repoUpdated(s, r) \in Stores /\ repoUpdated(s, r).pulls = s.pulls
      /\ repoUpdated(s, r).repos = u
  BY <1>4, <1>5 DEF Stores
<1> QED  BY <1>6 DEF u

LEMMA SecretTypes ==
    ASSUME NEW s \in Stores, NEW x \in Secrets
    PROVE  /\ receiveReposSecret(s, x) \in Stores /\ receiveReposSecret(s, x).pulls = s.pulls
           /\ receiveReposSecret(s, x).repos = s.repos
<1> DEFINE T == {i \in DOMAIN s.secrets : SameName(s.secrets[i], x)}
           u == [i \in DOMAIN s.secrets |-> IF i \in T THEN x ELSE s.secrets[i]]
           v == IF T = {} THEN Append(s.secrets, x) ELSE u
<1>1. s.secrets \in Seq(Secrets)
  BY DEF Stores
<1>2. PICK m \in Nat : s.secrets \in [1..m -> Secrets]
  BY <1>1
<1>3. u \in [1..m -> Secrets]
  BY <1>2
<1>4. v \in Seq(Secrets)
  BY <1>1, <1>3
<1>5. receiveReposSecret(s, x) = [s EXCEPT !.secrets = v]
  BY DEF receiveReposSecret
<1> HIDE DEF v
<1> QED  BY <1>4, <1>5 DEF Stores

-----------------------------------------------------------------------------
(* The user *)

(* A form for a new repository that follows the namespace knows what it    *)
(* takes along.                                                            *)
LEMMA FormInOk ==
    ASSUME RepoTypes, FormSide(st, form, requests, pullsAt), NEW n \in Spaces
    PROVE  FormIn(n) = None \/ FormOk(FormIn(n), st, pullsAt)
<1>1. CASE ~Follows(n)
  BY <1>1 DEF FormIn, FormSide
<1>2. CASE Follows(n)
  <2> DEFINE x == (form.alien \union form.options \union st.pulls \union ({form.pull} \ {None}))
                  \ pullsAt[n]
             g == [form EXCEPT !.ns = n, !.alien = x]
  <2>1. FormIn(n) = g
    BY <1>2 DEF FormIn
  <2>2. form # None
    BY <1>2 DEF Follows
  <2>3. form \in Forms /\ StillChecked(form) /\ Filled(form) /\ st \in Stores
    BY <2>2 DEF FormSide, FormOk
  <2>4. /\ form.alien \subseteq AllPulls /\ form.options \subseteq AllPulls
        /\ st.pulls \subseteq AllPulls /\ form.pull \in PullOrNone
    BY <2>3 DEF Forms, Stores
  <2>5. /\ x \in SUBSET AllPulls /\ st.pulls \subseteq pullsAt[n] \union x
        /\ form.options \subseteq pullsAt[n] \union x
        /\ form.pull \in pullsAt[n] \union x \union {None}
    BY <2>4 DEF PullOrNone
  <2> HIDE DEF x
  <2>6. g \in Forms
    BY <2>3, <2>5 DEF Forms
  <2>7. /\ g.ns = n /\ g.alien = x /\ g.options = form.options /\ g.pull = form.pull
        /\ g.url = form.url /\ g.method = form.method /\ g.header = form.header
        /\ g.user = form.user /\ g.token = form.token /\ g.validated = form.validated
        /\ g.checked = form.checked /\ g.shifted = form.shifted /\ g.touched = form.touched
        /\ g.seen = form.seen /\ g.refilled = form.refilled
    BY <2>3 DEF Forms
  <2> HIDE DEF g
  <2>8. FinalHeader(g) = FinalHeader(form) /\ Checked(g) = Checked(form)
    BY <2>7 DEF FinalHeader, Checked
  <2>9. Fits(g, st, pullsAt) /\ StillChecked(g) /\ Filled(g)
    BY <2>3, <2>5, <2>7, <2>8 DEF Fits, StillChecked, Filled
  <2> QED  BY <2>1, <2>6, <2>9 DEF FormOk
<1> QED  BY <1>1, <1>2

(* What a change of the URL requests besides a list. *)
PullsOf(n) == IF Follows(n) THEN {Request("pulls", n)} ELSE {}

LEMMA PullsOfOk ==
    ASSUME NEW n \in Spaces, NEW q \in PullsOf(n)
    PROVE  RequestOk(q) /\ q.kind = "pulls"
<1>1. RequestOk(Request("pulls", n)) /\ Request("pulls", n).kind = "pulls"
  BY NewRequests DEF AtOnce
<1> QED  BY <1>1 DEF PullsOf

(* Each action of the user keeps the form's part. *)
LEMMA MoveToForm ==
    ASSUME RepoTypes, FormSide(st, form, requests, pullsAt),
           NEW p \in [all : BOOLEAN, ns : Spaces], MoveTo(p)
    PROVE  FormSide(st', form', requests', pullsAt') /\ RepoTypes'
<1> DEFINE scope == IF p.all THEN All ELSE p.ns
           N == requests \union PullsOf(p.ns)
           f == FormIn(p.ns)
<1>1. scope \in Spaces \union {All} /\ p.ns \in Spaces
  OBVIOUS
<1>2. st \in Stores /\ AllOk(requests) /\ TasksOk(requests, pullsAt)
  BY DEF FormSide
<1>3. pullsAt' = pullsAt /\ RepoTypes'
  BY DEF MoveTo, RepoTypes, backend, Acts
<1>4. AllOk(N) /\ TasksOk(N, pullsAt)
  <2>1. \A q \in PullsOf(p.ns) : RequestOk(q) /\ TaskOk(q, pullsAt)
    BY <1>1, PullsOfOk, OtherTasks DEF Tasks
  <2> QED  BY <1>2, <2>1 DEF AllOk, TasksOk
<1>5. f = None \/ FormOk(f, st, pullsAt)
  BY <1>1, FormInOk
<1>6. CASE scope = Scope
  <2> DEFINE s == LOCATION_CHANGE(st)
  <2>1. StoreUnder(f, s, N, FALSE, FALSE)
    BY <1>6 DEF MoveTo, PullsOf
  <2>2. s \in Stores /\ s.pulls = st.pulls
    BY <1>2, StoreTypes
  <2> HIDE DEF f, s, N
  <2>3. f = None \/ FormOk(f, s, pullsAt)
    BY <1>5, <2>2, FormOkMoves
  <2> QED  BY <1>3, <1>4, <2>1, <2>2, <2>3, UnderKeeps
<1>7. CASE scope # Scope
  <2> DEFINE Q == N \union {ListRequest(scope)}
             s == requestRepos(LOCATION_CHANGE(st))
  <2>1. StoreUnder(f, s, Q, FALSE, FALSE)
    BY <1>7 DEF MoveTo, PullsOf
  <2> HIDE DEF scope, f, N
  <2>2. RequestOk(ListRequest(scope)) /\ TaskOk(ListRequest(scope), pullsAt)
    BY <1>1, NewLists, OtherTasks DEF Tasks
  <2>3. AllOk(Q) /\ TasksOk(Q, pullsAt)
    BY <1>4, <2>2 DEF AllOk, TasksOk
  <2>4. s \in Stores /\ s.pulls = st.pulls
    BY <1>2, StoreTypes
  <2> HIDE DEF Q, s
  <2>5. f = None \/ FormOk(f, s, pullsAt)
    BY <1>5, <2>4, FormOkMoves
  <2> QED  BY <1>3, <2>1, <2>3, <2>4, <2>5, UnderKeeps
<1> QED  BY <1>6, <1>7

LEMMA DeleteRequest ==
    ASSUME NEW n \in Spaces, NEW sc \in Spaces \union {All}
    PROVE  LET q == [Request("delete", n) EXCEPT !.scope = sc] IN
           RequestOk(q) /\ q.kind = "delete" /\ q.mode = None /\ q.reply = None
<1> DEFINE q == [Request("delete", n) EXCEPT !.scope = sc]
<1>1. /\ Request("delete", n) \in RequestSet
      /\ Request("delete", n).kind = "delete" /\ Request("delete", n).ns = n
      /\ Request("delete", n).reply = None /\ Request("delete", n).mode = None
  BY NewRequests
<1>2. /\ q \in RequestSet /\ q.kind = "delete" /\ q.ns = n /\ q.reply = None /\ q.mode = None
      /\ q.scope = sc
  BY <1>1 DEF RequestSet
<1> HIDE DEF q
<1>3. RequestOk(q)
  BY <1>2 DEF RequestOk, AtOnce, Tasks, Wrote
<1> QED  BY <1>2, <1>3 DEF q

LEMMA DeleteForm ==
    ASSUME RepoTypes, FormSide(st, form, requests, pullsAt), NEW n \in Spaces, handleDeleteClick(n)
    PROVE  FormSide(st', form', requests', pullsAt') /\ RepoTypes'
<1> DEFINE q == [Request("delete", n) EXCEPT !.scope = Scope]
<1>1. /\ requests' = requests \union {q}
      /\ server' = server /\ pullsAt' = pullsAt /\ page' = page /\ st' = st /\ form' = form
      /\ dirty' = dirty
  BY DEF handleDeleteClick, backend, Sends, Acts
<1>2. Scope \in Spaces \union {All}
  BY ScopeTypes DEF RepoTypes
<1>3. RequestOk(q) /\ q.kind = "delete" /\ q.mode = None
  BY <1>2, DeleteRequest
<1> HIDE DEF q
<1>4. TaskOk(q, pullsAt)
  BY <1>3, OtherTasks DEF Tasks
<1> QED  BY <1>1, <1>3, <1>4 DEF FormSide, AllOk, TasksOk, RepoTypes

LEMMA ResyncForm ==
    ASSUME RepoTypes, FormSide(st, form, requests, pullsAt),
           NEW S, S \subseteq Spaces, handleResyncClick(S)
    PROVE  FormSide(st', form', requests', pullsAt') /\ RepoTypes'
<1>1. /\ requests' = requests \union {Request("resync", n) : n \in S}
      /\ server' = server /\ pullsAt' = pullsAt /\ page' = page /\ st' = st /\ form' = form
      /\ dirty' = dirty
  BY DEF handleResyncClick, backend, Sends, Acts
<1>2. ASSUME NEW n \in S
      PROVE  RequestOk(Request("resync", n)) /\ TaskOk(Request("resync", n), pullsAt)
  <2>1. /\ RequestOk(Request("resync", n)) /\ Request("resync", n).kind = "resync"
        /\ Request("resync", n).mode = None
    BY NewRequests DEF AtOnce
  <2> QED  BY <2>1, OtherTasks DEF Tasks
<1> QED  BY <1>1, <1>2 DEF FormSide, AllOk, TasksOk, RepoTypes

LEMMA RepoSpaces ==
    ASSUME st \in Stores
    PROVE  {st.repos[i].ns : i \in DOMAIN st.repos} \subseteq Spaces
<1>1. st.repos \in Seq(Rows)
  BY DEF Stores
<1>2. \A i \in DOMAIN st.repos : st.repos[i] \in Rows
  BY <1>1
<1> QED  BY <1>2 DEF Rows

LEMMA EmptyFormOk ==
    ASSUME st \in Stores, NEW mode \in Modes, NEW n \in Spaces
    PROVE  /\ FormOk(EmptyForm(mode, n), st, pullsAt)
           /\ EmptyForm(mode, n).validated = "unset"
<1> DEFINE x == st.pulls \ pullsAt[n]
           u == <<Empty, Empty>>
           v == <<Empty>>
           f == [mode |-> mode, ns |-> n, url |-> None, filter |-> FALSE, method |-> "none",
                 header |-> None, user |-> u, token |-> v, pull |-> None, options |-> st.pulls,
                 validated |-> "unset", checked |-> None, shifted |-> FALSE, touched |-> FALSE,
                 seen |-> None, refilled |-> FALSE, alien |-> x]
<1>1. EmptyForm(mode, n) = f
  BY DEF EmptyForm
<1>2. st.pulls \in SUBSET AllPulls /\ None \in HeaderOrNone /\ None \in PullOrNone
  BY DEF Stores, HeaderOrNone, PullOrNone
<1>3. x \in SUBSET AllPulls /\ st.pulls \subseteq pullsAt[n] \union x
  BY <1>2
<1>4. u \in Seq(Words) /\ v \in Seq(Words)
  BY RepoConstants
<1> HIDE DEF x, u, v
<1>5. f \in Forms
  BY <1>2, <1>3, <1>4 DEF Forms, Methods
<1>6. /\ f.alien = x /\ f.ns = n /\ f.options = st.pulls /\ f.pull = None
      /\ f.validated = "unset" /\ f.seen = None /\ f.header = None /\ f.method = "none"
  OBVIOUS
<1> HIDE DEF f
<1>7. Fits(f, st, pullsAt) /\ StillChecked(f) /\ Filled(f)
  BY <1>3, <1>6 DEF Fits, StillChecked, Filled
<1> QED  BY <1>1, <1>5, <1>6, <1>7 DEF FormOk

LEMMA OpenFormForm ==
    ASSUME RepoTypes, FormSide(st, form, requests, pullsAt),
           NEW n \in Spaces, NEW mode \in Modes, OpenForm(mode, n)
    PROVE  FormSide(st', form', requests', pullsAt') /\ RepoTypes'
<1> DEFINE r == RowOf(st, n)
           f == EmptyForm(mode, n)
           g == IF mode = "edit" THEN Fill(RepoEffect(f, r), SecretFor(st)) ELSE f
           New == {Request("pulls", n)} \union
                  (IF mode = "edit" THEN SecretRequests(r) ELSE {})
<1>1. /\ form = None /\ form' = PullEffects(g, st) /\ requests' = requests \union New
      /\ mode = "edit" => r # None
      /\ server' = server /\ pullsAt' = pullsAt /\ page' = page /\ st' = st
      /\ dirty' = dirty
  BY DEF OpenForm, backend, Sends, Acts, InTables
<1>2. st \in Stores /\ AllOk(requests) /\ TasksOk(requests, pullsAt)
  BY <1>1 DEF FormSide
<1>3. r \in Rows \union {None}
  BY <1>2, RowOfTypes
<1>4. /\ f \in Forms /\ Fits(f, st, pullsAt) /\ Filled(f) /\ FormOk(f, st, pullsAt)
      /\ f.validated = "unset"
  BY <1>2, EmptyFormOk DEF FormOk
<1>5. \A q \in New : q = Request("pulls", n) \/ q \in SecretRequests(r)
  OBVIOUS
<1> HIDE DEF f, r
<1>6. FormOk(g, st, pullsAt)
  <2>1. CASE mode # "edit"
    BY <1>4, <2>1
  <2>2. CASE mode = "edit"
    <3> DEFINE h == RepoEffect(f, r)
    <3>1. r \in Rows
      BY <1>1, <1>3, <2>2
    <3>2. h \in Forms /\ h.validated = "unset" /\ Fits(h, st, pullsAt) /\ Filled(h)
      BY <1>4, <3>1, RepoEffectOk
    <3> HIDE DEF h
    <3>3. SecretFor(st) \in OwnSecrets \union {None}
      BY <1>2, SecretForTypes
    <3>4. LET k == Fill(h, SecretFor(st)) IN
          k \in Forms /\ k.validated = "unset" /\ Fits(k, st, pullsAt) /\ Filled(k)
      BY <3>2, <3>3, FillOk
    <3>5. g = Fill(h, SecretFor(st))
      BY <2>2 DEF h
    <3> QED  BY <3>4, <3>5 DEF FormOk, StillChecked
  <2> QED  BY <2>1, <2>2
<1> HIDE DEF g, New
<1>7. FormOk(form', st, pullsAt)
  BY <1>1, <1>2, <1>6, EffectsOk
<1>8. ASSUME NEW q \in New PROVE RequestOk(q) /\ q.kind \notin Tasks
  <2>1. RequestOk(Request("pulls", n)) /\ Request("pulls", n).kind = "pulls"
    BY NewRequests DEF AtOnce
  <2>2. q \in SecretRequests(r) => (RequestOk(q) /\ q.kind = "secret")
    BY <1>3, SecretRequestsOk
  <2> QED  BY <1>5, <2>1, <2>2 DEF Tasks
<1>9. AllOk(requests')
  BY <1>1, <1>2, <1>8 DEF AllOk
<1>10. TasksOk(requests', pullsAt)
  BY <1>1, <1>2, <1>8, OtherTasks DEF TasksOk
<1> QED  BY <1>1, <1>2, <1>7, <1>9, <1>10 DEF FormSide, RepoTypes

LEMMA CloseFormForm ==
    ASSUME RepoTypes, FormSide(st, form, requests, pullsAt), CloseForm
    PROVE  FormSide(st', form', requests', pullsAt') /\ RepoTypes'
<1>1. /\ form' = None /\ requests' = Detached(requests, None, st)
      /\ server' = server /\ pullsAt' = pullsAt /\ page' = page /\ st' = st
      /\ dirty' = dirty
  BY DEF CloseForm, backend, Acts
<1>2. st \in Stores /\ AllOk(requests) /\ TasksOk(requests, pullsAt)
  BY DEF FormSide
<1>3. AllOk(Detached(requests, None, st)) /\ TasksOk(Detached(requests, None, st), pullsAt)
  BY <1>2, DetachedOk, DetachedTasks
<1> QED  BY <1>1, <1>2, <1>3 DEF FormSide, RepoTypes

LEMMA EditForm ==
    ASSUME RepoTypes, FormSide(st, form, requests, pullsAt),
           NEW f, FormOk(f, st, pullsAt), Edit(f)
    PROVE  FormSide(st', form', requests', pullsAt') /\ RepoTypes'
<1>1. /\ form' = PullEffects(f, st) /\ requests' = requests
      /\ server' = server /\ pullsAt' = pullsAt /\ page' = page /\ st' = st
      /\ dirty' = dirty
  BY DEF Edit, backend
<1>2. st \in Stores /\ AllOk(requests) /\ TasksOk(requests, pullsAt)
  BY DEF FormSide
<1>3. FormOk(form', st, pullsAt)
  BY <1>1, <1>2, EffectsOk
<1> QED  BY <1>1, <1>2, <1>3 DEF FormSide, RepoTypes

(* A change of a field that forgets the validation. *)
LEMMA ForgetsOk ==
    ASSUME NEW f, FormOk(f, st, pullsAt), NEW g \in Forms,
           g.validated = "unset", g.alien = f.alien, g.ns = f.ns,
           g.options = f.options, g.pull = f.pull,
           g.touched \/ (/\ g.header = f.header /\ g.method = f.method /\ g.user = f.user
                         /\ g.token = f.token /\ g.seen = f.seen
                         /\ g.refilled = f.refilled /\ g.touched = f.touched)
    PROVE  FormOk(g, st, pullsAt)
<1>1. Fits(g, st, pullsAt) /\ StillChecked(g)
  BY DEF FormOk, Fits, StillChecked
<1>2. Filled(g)
  <2>1. CASE g.touched
    BY <2>1 DEF Filled
  <2>2. CASE ~g.touched
    <3>1. FinalHeader(g) = FinalHeader(f)
      BY <2>2 DEF FinalHeader
    <3> QED  BY <2>2, <3>1 DEF FormOk, Filled
  <2> QED  BY <2>1, <2>2
<1> QED  BY <1>1, <1>2 DEF FormOk

LEMMA FieldsForm ==
    ASSUME RepoTypes, FormSide(st, form, requests, pullsAt), FormFields
    PROVE  FormSide(st', form', requests', pullsAt') /\ RepoTypes'
<1>0. form # None
  BY DEF FormFields, handleURLChange, handleAuthRadioButtonChange, handleUserChange,
         handleAuthTokenChange, handleAuthHeaderChange, selectPullSecret, handleFilterNames, Edit
<1>1. FormOk(form, st, pullsAt) /\ form \in Forms /\ st \in Stores
  BY <1>0 DEF FormSide, FormOk
<1>2. ASSUME NEW u \in Urls, handleURLChange(u)
      PROVE  FormSide(st', form', requests', pullsAt') /\ RepoTypes'
  <2> DEFINE g == Revalidate([form EXCEPT !.url = u])
  <2>1. /\ g \in Forms /\ g.validated = "unset" /\ g.alien = form.alien /\ g.ns = form.ns
        /\ g.options = form.options /\ g.pull = form.pull
        /\ g.header = form.header /\ g.method = form.method /\ g.user = form.user
        /\ g.token = form.token /\ g.seen = form.seen /\ g.refilled = form.refilled /\ g.touched = form.touched
    BY <1>1 DEF Forms, Revalidate
  <2>2. Edit(g)
    BY <1>2 DEF handleURLChange
  <2> HIDE DEF g
  <2>3. FormOk(g, st, pullsAt)
    BY <1>1, <2>1, ForgetsOk
  <2> QED  BY <2>1, <2>2, <2>3, EditForm
<1>3. ASSUME NEW m \in Methods, handleAuthRadioButtonChange(m)
      PROVE  FormSide(st', form', requests', pullsAt') /\ RepoTypes'
  <2> DEFINE g == Retouched([form EXCEPT !.method = m])
  <2>1. /\ g \in Forms /\ g.validated = "unset" /\ g.alien = form.alien /\ g.ns = form.ns
        /\ g.options = form.options /\ g.pull = form.pull /\ g.touched
    BY <1>1 DEF Forms, Revalidate, Retouched
  <2>2. Edit(g)
    BY <1>3 DEF handleAuthRadioButtonChange
  <2> HIDE DEF g
  <2>3. FormOk(g, st, pullsAt)
    BY <1>1, <2>1, ForgetsOk
  <2> QED  BY <2>1, <2>2, <2>3, EditForm
<1>4. ASSUME NEW h \in Typed("Basic"), handleUserChange(h)
      PROVE  FormSide(st', form', requests', pullsAt') /\ RepoTypes'
  <2> DEFINE g == Retouched([form EXCEPT !.user = h])
  <2>0. h \in Seq(Words)
    BY RepoConstants DEF Schemes
  <2>1. /\ g \in Forms /\ g.validated = "unset" /\ g.alien = form.alien /\ g.ns = form.ns
        /\ g.options = form.options /\ g.pull = form.pull /\ g.touched
    BY <1>1, <2>0 DEF Forms, Revalidate, Retouched
  <2>2. Edit(g)
    BY <1>4 DEF handleUserChange
  <2> HIDE DEF g
  <2>3. FormOk(g, st, pullsAt)
    BY <1>1, <2>1, ForgetsOk
  <2> QED  BY <2>1, <2>2, <2>3, EditForm
<1>8. ASSUME NEW h \in Typed("Bearer"), handleAuthTokenChange(h)
      PROVE  FormSide(st', form', requests', pullsAt') /\ RepoTypes'
  <2> DEFINE g == Retouched([form EXCEPT !.token = h])
  <2>0. h \in Seq(Words)
    BY RepoConstants DEF Schemes
  <2>1. /\ g \in Forms /\ g.validated = "unset" /\ g.alien = form.alien /\ g.ns = form.ns
        /\ g.options = form.options /\ g.pull = form.pull /\ g.touched
    BY <1>1, <2>0 DEF Forms, Revalidate, Retouched
  <2>2. Edit(g)
    BY <1>8 DEF handleAuthTokenChange
  <2> HIDE DEF g
  <2>3. FormOk(g, st, pullsAt)
    BY <1>1, <2>1, ForgetsOk
  <2> QED  BY <2>2, <2>3, EditForm
<1>5. ASSUME NEW h \in HeaderOrNone, handleAuthHeaderChange(h)
      PROVE  FormSide(st', form', requests', pullsAt') /\ RepoTypes'
  <2> DEFINE g == Retouched([form EXCEPT !.header = h])
             k == IF form.mode = "edit" THEN Fill(g, SecretFor(st)) ELSE g
  <2>1. /\ g \in Forms /\ g.validated = "unset" /\ g.alien = form.alien /\ g.ns = form.ns
        /\ g.options = form.options /\ g.pull = form.pull /\ g.touched
    BY <1>1 DEF Forms, Revalidate, Retouched
  <2>2. Edit(k)
    BY <1>5 DEF handleAuthHeaderChange
  <2> HIDE DEF g
  <2>3. FormOk(g, st, pullsAt)
    BY <1>1, <2>1, ForgetsOk
  <2>4. SecretFor(st) \in OwnSecrets \union {None}
    BY <1>1, SecretForTypes
  <2>5. LET x == Fill(g, SecretFor(st)) IN
        /\ x \in Forms /\ x.validated = g.validated
        /\ Fits(x, st, pullsAt) /\ Filled(x)
    BY <2>1, <2>3, <2>4, FillOk DEF FormOk
  <2>6. FormOk(k, st, pullsAt)
    <3>1. CASE form.mode = "edit"
      BY <2>1, <2>5, <3>1 DEF FormOk, StillChecked
    <3>2. CASE form.mode # "edit"
      BY <2>1, <2>3, <3>2
    <3> QED  BY <3>1, <3>2
  <2> HIDE DEF k
  <2> QED  BY <2>2, <2>6, EditForm
<1>6. ASSUME NEW p, selectPullSecret(p)
      PROVE  FormSide(st', form', requests', pullsAt') /\ RepoTypes'
  <2> DEFINE b == form.shifted \/ form.method = "registry"
             d == form.touched \/ form.method = "registry"
             g == [form EXCEPT !.pull = p, !.shifted = b, !.touched = d]
  <2>1. p \in form.options \union {None} /\ Edit(g)
    BY <1>6 DEF selectPullSecret
  <2>2. p \in PullOrNone
    BY <1>1, <2>1 DEF Forms, PullOrNone
  <2>3. /\ b \in BOOLEAN /\ (~b => (~form.shifted /\ form.method # "registry"))
        /\ d \in BOOLEAN /\ (~d => (~form.touched /\ form.method # "registry"))
    BY <1>1 DEF Forms
  <2> HIDE DEF b, d
  <2>4. g \in Forms
    BY <1>1, <2>2, <2>3 DEF Forms
  <2>5. /\ g.ns = form.ns /\ g.url = form.url /\ g.method = form.method
        /\ g.header = form.header /\ g.user = form.user /\ g.token = form.token
        /\ g.validated = form.validated /\ g.checked = form.checked /\ g.touched = d
        /\ g.seen = form.seen /\ g.refilled = form.refilled /\ g.shifted = b
        /\ g.alien = form.alien /\ g.pull = p /\ g.options = form.options
    BY <1>1 DEF Forms
  <2> HIDE DEF g
  <2>6. form.method # "registry" =>
          (FinalHeader(g) = FinalHeader(form) /\ Checked(g) = Checked(form))
    BY <2>5 DEF FinalHeader, Checked
  <2>7. Fits(g, st, pullsAt)
    BY <1>1, <2>1, <2>5 DEF FormOk, Fits
  <2>8. StillChecked(g)
    BY <1>1, <2>3, <2>5, <2>6 DEF FormOk, StillChecked
  <2>9. Filled(g)
    BY <1>1, <2>3, <2>5, <2>6 DEF FormOk, Filled
  <2>10. FormOk(g, st, pullsAt)
    BY <2>4, <2>7, <2>8, <2>9 DEF FormOk
  <2> QED  BY <2>1, <2>10, EditForm
<1>7. ASSUME handleFilterNames
      PROVE  FormSide(st', form', requests', pullsAt') /\ RepoTypes'
  <2> DEFINE b == ~form.filter
             g == [form EXCEPT !.filter = b]
  <2>1. Edit(g)
    BY <1>7 DEF handleFilterNames
  <2>2. b \in BOOLEAN
    OBVIOUS
  <2> HIDE DEF b
  <2>3. /\ g \in Forms /\ g.ns = form.ns /\ g.url = form.url /\ g.method = form.method
        /\ g.header = form.header /\ g.user = form.user /\ g.token = form.token
        /\ g.validated = form.validated /\ g.checked = form.checked /\ g.touched = form.touched /\ g.seen = form.seen
        /\ g.refilled = form.refilled /\ g.shifted = form.shifted
        /\ g.alien = form.alien /\ g.pull = form.pull /\ g.options = form.options
    BY <1>1, <2>2 DEF Forms
  <2> HIDE DEF g
  <2>4. FinalHeader(g) = FinalHeader(form) /\ Checked(g) = Checked(form)
    BY <2>3 DEF FinalHeader, Checked
  <2>5. FormOk(g, st, pullsAt)
    BY <1>1, <2>3, <2>4 DEF FormOk, Fits, StillChecked, Filled
  <2> QED  BY <2>1, <2>3, <2>5, EditForm
<1>9. \A parts \in Typed("other") : Header("other", parts) \in HeaderOrNone
  BY RepoConstants, HeaderTypes DEF Schemes, HeaderOrNone
<1> QED  BY <1>2, <1>3, <1>4, <1>5, <1>6, <1>7, <1>8, <1>9 DEF FormFields

LEMMA CredentialsForm ==
    ASSUME RepoTypes, FormSide(st, form, requests, pullsAt), handleCredentials
    PROVE  /\ FormSide(st', form', requests', pullsAt') /\ RepoTypes'
           /\ \E q : requests' = requests \union {q} /\ q.kind = "cred"
<1> DEFINE r == Request("cred", form.ns)
           q == [r EXCEPT !.mode = form.mode]
<1>1. /\ form # None /\ requests' = requests \union {q}
      /\ server' = server /\ pullsAt' = pullsAt /\ page' = page /\ st' = st /\ form' = form
      /\ dirty' = dirty
  BY DEF handleCredentials, backend, Sends, Acts
<1>2. form \in Forms
  BY <1>1 DEF FormSide, FormOk
<1>3. form.mode \in Modes /\ form.ns \in Spaces
  BY <1>2 DEF Forms
<1>4. r \in RequestSet /\ r.kind = "cred" /\ r.ns = form.ns /\ r.reply = None
  BY <1>3, NewRequests DEF AtOnce
<1> HIDE DEF r
<1>5. q \in RequestSet /\ q.kind = "cred" /\ q.ns = form.ns /\ q.reply = None /\ q.mode = form.mode
  BY <1>3, <1>4 DEF RequestSet
<1> HIDE DEF q
<1>6. RequestOk(q)
  BY <1>3, <1>5 DEF RequestOk, AtOnce, Tasks, Wrote
<1>7. TaskOk(q, pullsAt)
  BY <1>1, <1>5 DEF TaskOk, Tasks
<1> QED  BY <1>1, <1>5, <1>6, <1>7 DEF FormSide, AllOk, TasksOk, RepoTypes

(* The request that a click on the form's button sends, field by field. *)
TaskWith(r, f, v, y) ==
    [r EXCEPT !.mode = f.mode, !.vals = v, !.checked = f.checked, !.excused = f.shifted,
              !.alien = f.alien, !.seen = y]
CheckedWith(t, c, n) == [t EXCEPT !.checked = c, !.excused = FALSE, !.scope = n]

LEMMA TaskFields ==
    ASSUME NEW f \in Forms, NEW r \in RequestSet, NEW v \in Values, NEW y \in Secrets \union {None}
    PROVE  LET t == TaskWith(r, f, v, y)
           IN /\ t \in RequestSet /\ t.kind = r.kind /\ t.ns = r.ns /\ t.reply = r.reply
              /\ t.mode = f.mode /\ t.vals = v /\ t.alien = f.alien /\ t.seen = y
              /\ t.checked = f.checked /\ t.excused = f.shifted
<1> DEFINE t == [r EXCEPT !.mode = f.mode, !.vals = v, !.checked = f.checked,
                          !.excused = f.shifted, !.alien = f.alien, !.seen = y]
<1>1. /\ f.mode \in Modes /\ f.checked \in Checks \union {None} /\ f.shifted \in BOOLEAN
      /\ f.alien \in SUBSET AllPulls
  BY DEF Forms
<1>2. t \in RequestSet
  BY <1>1 DEF RequestSet
<1>3. /\ t.kind = r.kind /\ t.ns = r.ns /\ t.reply = r.reply
      /\ t.mode = f.mode /\ t.vals = v /\ t.alien = f.alien
  BY DEF RequestSet
<1>4. t.seen = y /\ t.checked = f.checked /\ t.excused = f.shifted
  BY DEF RequestSet
<1> QED  BY <1>2, <1>3, <1>4 DEF TaskWith

LEMMA CheckFields ==
    ASSUME NEW t \in RequestSet, NEW c \in Checks, NEW n \in Spaces
    PROVE  LET q == CheckedWith(t, c, n) IN
           /\ q \in RequestSet /\ q.kind = t.kind /\ q.ns = t.ns /\ q.reply = t.reply
           /\ q.mode = t.mode /\ q.vals = t.vals /\ q.alien = t.alien /\ q.seen = t.seen
           /\ q.checked = c
<1>1. CheckedWith(t, c, n) \in RequestSet
  BY DEF RequestSet, CheckedWith
<1>2. LET q == CheckedWith(t, c, n) IN
      /\ q.kind = t.kind /\ q.ns = t.ns /\ q.reply = t.reply
      /\ q.mode = t.mode /\ q.vals = t.vals /\ q.alien = t.alien /\ q.seen = t.seen
      /\ q.checked = c
  BY DEF RequestSet, CheckedWith
<1> QED  BY <1>1, <1>2

LEMMA TaskIs ==
    ASSUME form \in Forms, form.url # None, NEW kind \in Tasks
    PROVE  LET q == Task(kind) IN
           /\ q \in RequestSet /\ q.kind = kind /\ q.ns = form.ns /\ q.reply = None
           /\ q.mode = form.mode /\ q.vals = Vals(form) /\ q.alien = form.alien
           /\ q.seen = IF form.touched \/ form.refilled THEN None ELSE form.seen
           /\ q.checked = form.checked /\ q.excused = form.shifted
<1> DEFINE r == Request(kind, form.ns)
           y == IF form.touched \/ form.refilled THEN None ELSE form.seen
           t == TaskWith(r, form, Vals(form), y)
<1>1. form.ns \in Spaces /\ form.seen \in Secrets \union {None}
  BY DEF Forms
<1>3. Vals(form) \in Values
  BY ValsTypes
<1>4. y \in Secrets \union {None}
  BY <1>1
<1>5. r \in RequestSet /\ r.kind = kind /\ r.ns = form.ns /\ r.reply = None
  BY <1>1, NewRequests DEF AtOnce, Tasks
<1>6. Task(kind) = t
  BY DEF Task, TaskWith
<1>7. /\ t \in RequestSet /\ t.kind = kind /\ t.ns = form.ns /\ t.reply = None
      /\ t.mode = form.mode /\ t.vals = Vals(form) /\ t.alien = form.alien /\ t.seen = y
      /\ t.checked = form.checked /\ t.excused = form.shifted
  <2> HIDE DEF r, y
  <2> QED  BY <1>3, <1>4, <1>5, TaskFields
<1> HIDE DEF r, t
<1> QED  BY <1>6, <1>7

(* A submission takes the form's promises over. *)
LEMMA TaskFacts ==
    ASSUME FormOk(form, st, pullsAt), form # None, form.url # None,
           NEW q \in RequestSet, q.kind \in Tasks, q.ns = form.ns, q.reply = None,
           q.mode = form.mode, q.vals = Vals(form), q.alien = form.alien,
           q.seen = IF form.touched \/ form.refilled THEN None ELSE form.seen,
           q.excused \/ q.checked = Checked(form)
    PROVE  RequestOk(q) /\ TaskOk(q, pullsAt)
<1>1. form \in Forms
  BY DEF FormOk
<1>2. form.mode \in Modes /\ form.ns \in Spaces
  BY <1>1 DEF Forms
<1>4. Vals(form) \in Values
  BY <1>1, ValsTypes
<1>5. /\ Vals(form).url = form.url /\ Vals(form).header = FinalHeader(form)
      /\ Vals(form).pull = form.pull
  BY DEF Vals
<1>6. RequestOk(q)
  <2>1. /\ q.kind # "list" /\ q.kind # "delete" /\ q.kind # "cred" /\ ~Wrote(q)
    BY DEF Tasks, Wrote
  <2> QED  BY <1>2, <1>4, <2>1 DEF RequestOk
<1>7. q.excused \/ q.checked = [url |-> q.vals.url, header |-> q.vals.header]
  BY <1>5 DEF Checked
<1>8. q.vals.pull \in pullsAt[q.ns] \union q.alien \union {None}
  BY <1>2, <1>5 DEF FormOk, Fits
<1>9. (q.seen # None /\ Survives(q.seen.header)) => q.vals.header = q.seen.header
  BY <1>5 DEF FormOk, Filled
<1>10. TaskOk(q, pullsAt)
  BY <1>7, <1>8, <1>9 DEF TaskOk
<1> QED  BY <1>6, <1>10

LEMMA InstallForm ==
    ASSUME RepoTypes, FormSide(st, form, requests, pullsAt), install
    PROVE  /\ FormSide(st', form', requests', pullsAt') /\ RepoTypes'
           /\ st'.repos = st.repos
           /\ \E q : /\ requests' = requests \union {q} /\ q.kind \in Tasks /\ q.reply = None
<1>1. /\ form # None /\ form.url # None
      /\ server' = server /\ pullsAt' = pullsAt /\ page' = page /\ form' = form
      /\ dirty' = dirty
  BY DEF install, backend, Sends, Acts
<1>2. /\ FormOk(form, st, pullsAt) /\ form \in Forms /\ st \in Stores /\ AllOk(requests)
      /\ TasksOk(requests, pullsAt)
  BY <1>1 DEF FormSide, FormOk
<1>3. ASSUME NEW q, requests' = requests \union {q}, RequestOk(q), TaskOk(q, pullsAt),
             q.kind \in Tasks, q.reply = None,
             st' \in Stores, st'.pulls = st.pulls, st'.repos = st.repos
      PROVE  /\ FormSide(st', form', requests', pullsAt') /\ RepoTypes'
             /\ st'.repos = st.repos
             /\ \E p : /\ requests' = requests \union {p} /\ p.kind \in Tasks /\ p.reply = None
  <2>1. FormOk(form, st', pullsAt)
    BY <1>2, <1>3, FormOkMoves
  <2>2. AllOk(requests') /\ TasksOk(requests', pullsAt)
    BY <1>2, <1>3 DEF AllOk, TasksOk
  <2>3. RepoTypes'
    BY <1>1 DEF RepoTypes
  <2>4. FormSide(st', form', requests', pullsAt')
    BY <1>1, <1>3, <2>1, <2>2 DEF FormSide
  <2> QED  BY <1>3, <2>3, <2>4
<1>4. CASE form.validated = "unset"
  <2> DEFINE t == Task("validate")
             q == CheckedWith(t, Checked(form), page.ns)
  <2>1. requests' = requests \union {q} /\ st' = [st EXCEPT !.validating = TRUE]
    BY <1>4 DEF install, CheckedWith
  <2>2. Checked(form) \in Checks /\ page.ns \in Spaces
    BY <1>1, <1>2, ValsTypes DEF RepoTypes
  <2>3. /\ t \in RequestSet /\ t.kind = "validate" /\ t.ns = form.ns /\ t.reply = None
        /\ t.mode = form.mode /\ t.vals = Vals(form) /\ t.alien = form.alien
        /\ t.seen = IF form.touched \/ form.refilled THEN None ELSE form.seen
    BY <1>1, <1>2, TaskIs DEF Tasks
  <2> HIDE DEF t
  <2>4. /\ q \in RequestSet /\ q.kind = t.kind /\ q.ns = t.ns /\ q.reply = t.reply
        /\ q.mode = t.mode /\ q.vals = t.vals /\ q.alien = t.alien /\ q.seen = t.seen
        /\ q.checked = Checked(form)
    BY <2>2, <2>3, CheckFields
  <2>5. st' \in Stores /\ st'.pulls = st.pulls /\ st'.repos = st.repos
    BY <1>2, <2>1 DEF Stores
  <2> HIDE DEF q
  <2>6. q.kind \in Tasks
    BY <2>3, <2>4 DEF Tasks
  <2>7. RequestOk(q) /\ TaskOk(q, pullsAt)
    BY <1>1, <1>2, <2>3, <2>4, <2>6, TaskFacts
  <2> QED  BY <1>3, <2>1, <2>3, <2>4, <2>5, <2>6, <2>7
<1>5. CASE form.validated # "unset"
  <2> DEFINE kind == onSubmit(form.mode)
             q == Task(kind)
  <2>1. requests' = requests \union {q} /\ st' = st
    BY <1>5 DEF install
  <2>2. kind \in Tasks
    BY DEF onSubmit, Tasks
  <2>3. form.shifted \/ form.checked = Checked(form)
    BY <1>2, <1>5 DEF FormOk, StillChecked
  <2> HIDE DEF kind
  <2>4. /\ q \in RequestSet /\ q.kind = kind /\ q.ns = form.ns /\ q.reply = None
        /\ q.mode = form.mode /\ q.vals = Vals(form) /\ q.alien = form.alien
        /\ q.seen = IF form.touched \/ form.refilled THEN None ELSE form.seen
        /\ q.checked = form.checked /\ q.excused = form.shifted
    BY <1>1, <1>2, <2>2, TaskIs
  <2> HIDE DEF q
  <2>5. q.excused \/ q.checked = Checked(form)
    BY <2>3, <2>4
  <2>6. RequestOk(q) /\ TaskOk(q, pullsAt)
    BY <1>1, <1>2, <2>2, <2>4, <2>5, TaskFacts
  <2> QED  BY <1>2, <1>3, <2>1, <2>2, <2>4, <2>6
<1> QED  BY <1>4, <1>5

-----------------------------------------------------------------------------
(* The backend *)

(* An answered request. *)
Replied(q, a) == [q EXCEPT !.reply = a]

LEMMA RepliedFacts ==
    ASSUME NEW q \in RequestSet, NEW a \in Answers
    PROVE  LET r == Replied(q, a) IN
           /\ r \in RequestSet /\ r.reply = a
           /\ r.kind = q.kind /\ r.ns = q.ns /\ r.scope = q.scope /\ r.stage = q.stage
           /\ r.part = q.part /\ r.vals = q.vals /\ r.mode = q.mode /\ r.own = q.own
           /\ r.stale = q.stale /\ r.checked = q.checked /\ r.excused = q.excused
           /\ r.alien = q.alien /\ r.seen = q.seen
<1>1. Replied(q, a) \in RequestSet
  BY DEF Replied, RequestSet
<1> QED  BY <1>1 DEF Replied, RequestSet

LEMMA RepliedTask ==
    ASSUME NEW q \in RequestSet, NEW a \in Answers, NEW f, NEW P, TaskOk(q, P)
    PROVE  TaskOk(Replied(q, a), P)
<1> DEFINE r == Replied(q, a)
<1>1. /\ r.kind = q.kind /\ r.ns = q.ns /\ r.vals = q.vals /\ r.mode = q.mode /\ r.own = q.own
      /\ r.checked = q.checked /\ r.excused = q.excused
      /\ r.alien = q.alien /\ r.seen = q.seen
  BY RepliedFacts
<1> HIDE DEF r
<1>2. TaskOk(r, P)
  BY <1>1 DEF TaskOk
<1> QED  BY <1>2 DEF r

(* The rows that a list request reads. *)
Fetched(q) ==
    AsListed(IF q.scope = All THEN Spaces ELSE IF q.stage = 1 THEN {q.scope} ELSE {Global})

LEMMA ListForm ==
    ASSUME RepoTypes, FormSide(st, form, requests, pullsAt),
           NEW q \in requests, Backend(q), list(q)
    PROVE  /\ FormSide(st', form', requests', pullsAt') /\ RepoTypes'
           /\ requests' = (requests \ {q}) \union {Replied(q, Reply(TRUE, Fetched(q)))}
           /\ RequestOk(q) /\ q.kind = "list" /\ Reply(TRUE, Fetched(q)) \in Answers
           /\ UNCHANGED <<server, page, st, dirty>>
<1> DEFINE a == Reply(TRUE, Fetched(q))
           r == Replied(q, a)
<1>1. /\ requests' = (requests \ {q}) \union {r} /\ q.kind = "list"
      /\ UNCHANGED <<server, pullsAt, page, st, form, dirty>>
  BY DEF Backend, list, WithReply, Replied, backend, bounds, Fetched
<1>2. RequestOk(q) /\ q \in RequestSet /\ TaskOk(q, pullsAt)
  BY DEF FormSide, AllOk, TasksOk, RequestOk
<1>3. Fetched(q) \in Seq(Rows)
  BY AsListedTypes DEF Fetched, RepoTypes
<1>4. a \in Answers /\ a.ok /\ a.val = Fetched(q)
  BY <1>3 DEF Reply, Answers
<1> HIDE DEF a
<1>5. /\ r \in RequestSet /\ r.reply = a
      /\ r.kind = q.kind /\ r.ns = q.ns /\ r.scope = q.scope
  BY <1>2, <1>4, RepliedFacts
<1>6. TaskOk(r, pullsAt)
  BY <1>2, <1>4, RepliedTask
<1> HIDE DEF r
<1>7. RequestOk(r)
  BY <1>1, <1>2, <1>3, <1>4, <1>5 DEF RequestOk, Tasks, AtOnce, Wrote
<1>8. FormSide(st', form', requests', pullsAt') /\ RepoTypes'
  BY <1>1, <1>6, <1>7 DEF FormSide, AllOk, TasksOk, RepoTypes
<1> QED  BY <1>1, <1>2, <1>4, <1>8 DEF a, r

LEMMA WrittenFacts ==
    ASSUME RepoTypes, NEW q, RequestOk(q), q.kind \in Mutations, NEW b \in BOOLEAN
    PROVE  /\ q.kind = "delete" => Written(q, b) = None
           /\ q.kind # "delete" =>
                 /\ Written(q, b) \in Specs
                 /\ Written(q, b).ref = Ref(q.vals.header)
                 /\ Written(q, b).header \in {q.vals.header} \union
                       {IF server[q.ns] = None THEN None ELSE server[q.ns].header}
<1>1. CASE q.kind = "delete"
  BY <1>1 DEF Written
<1>2. CASE q.kind # "delete"
  <2> DEFINE x == q.kind = "create" /\ q.vals.filter
             o == IF server[q.ns] = None THEN None ELSE server[q.ns].header
             y == Ref(q.vals.header)
             h == IF b /\ q.vals.header \in Headers THEN q.vals.header ELSE o
             w == [url |-> q.vals.url, filter |-> x, ref |-> y, header |-> h, pull |-> q.vals.pull]
  <2>1. Written(q, b) = w
    BY <1>2 DEF Written
  <2>2. q.vals \in Values /\ q.ns \in Spaces
    BY <1>2 DEF RequestOk, Tasks, Mutations
  <2>3. x \in BOOLEAN /\ q.vals.url \in Urls /\ q.vals.pull \in PullOrNone /\ q.vals.header \in Creds
    BY <2>2 DEF Values
  <2>4. o \in HeaderOrNone
    BY <2>2 DEF RepoTypes, Specs, HeaderOrNone
  <2>5. y \in Refs
    BY <2>3 DEF Ref, Refs, Creds
  <2> HIDE DEF o
  <2>6. h \in HeaderOrNone /\ h \in {q.vals.header, o}
    BY <2>4 DEF HeaderOrNone
  <2> HIDE DEF x, y, h
  <2>7. w \in Specs /\ w.ref = y /\ w.header = h
    BY <2>3, <2>5, <2>6 DEF Specs
  <2> QED  BY <1>2, <2>1, <2>6, <2>7 DEF y, o
<1> QED  BY <1>1, <1>2

(* What a write does: the repository is replaced, and what it overtakes is *)
(* out of date.                                                            *)
Outcome(q, b, ok) ==
    Reply(ok, IF Written(q, b) = None THEN None ELSE RowFor(q.ns, Written(q, b)))

LEMMA WriteFacts ==
    ASSUME RepoTypes, NEW q, RequestOk(q), q.kind \in Mutations,
           NEW b \in BOOLEAN, NEW ok \in BOOLEAN, Write(q, b, ok)
    PROVE  /\ server' = [server EXCEPT ![q.ns] = Written(q, b)]
           /\ requests' = Overtaken(requests \ {q}, q.ns) \union {Replied(q, Outcome(q, b, ok))}
           /\ Outcome(q, b, ok) \in Answers /\ Outcome(q, b, ok).ok = ok
           /\ q.kind = "delete" => Written(q, b) = None
           /\ q.kind # "delete" =>
                 /\ Written(q, b) \in Specs
                 /\ Outcome(q, b, ok).val = RowFor(q.ns, Written(q, b))
                 /\ Outcome(q, b, ok).val \in Rows
           /\ q.ns \in Spaces
<1> DEFINE w == Written(q, b)
           v == IF w = None THEN None ELSE RowFor(q.ns, w)
<1>1. q.ns \in Spaces
  BY DEF RequestOk, Mutations
<1>2. /\ q.kind = "delete" => w = None
      /\ q.kind # "delete" => w \in Specs
  BY WrittenFacts
<1>3. /\ server' = [server EXCEPT ![q.ns] = w]
      /\ requests' = Overtaken(requests \ {q}, q.ns) \union {Replied(q, Reply(ok, v))}
  BY DEF Write, Replied
<1> HIDE DEF w
<1>4. v \in Rows \union {None} /\ (q.kind # "delete" => (v = RowFor(q.ns, w) /\ v \in Rows))
  BY <1>1, <1>2, RowForTypes, NoneAssumption
<1>5. Outcome(q, b, ok) = Reply(ok, v)
  BY DEF Outcome, w
<1> HIDE DEF v
<1>6. Reply(ok, v) \in Answers /\ Reply(ok, v).ok = ok /\ Reply(ok, v).val = v
  BY <1>4 DEF Reply, Answers
<1> QED  BY <1>1, <1>2, <1>3, <1>4, <1>5, <1>6 DEF w

LEMMA WriteForm ==
    ASSUME RepoTypes, FormSide(st, form, requests, pullsAt), NEW q \in requests,
           q.kind \in Mutations, NEW b \in BOOLEAN, NEW ok \in BOOLEAN, Write(q, b, ok),
           UNCHANGED <<pullsAt, page, st, form, dirty>>
    PROVE  FormSide(st', form', requests', pullsAt') /\ RepoTypes'
<1> DEFINE a == Outcome(q, b, ok)
           r == Replied(q, a)
           Q == Overtaken(requests \ {q}, q.ns)
<1>1. RequestOk(q) /\ q \in RequestSet /\ TaskOk(q, pullsAt)
  BY DEF FormSide, AllOk, TasksOk, RequestOk
<1>2. /\ server' = [server EXCEPT ![q.ns] = Written(q, b)]
      /\ requests' = Q \union {r}
      /\ a \in Answers /\ Written(q, b) \in Specs \union {None} /\ q.ns \in Spaces
      /\ q.kind # "delete" => a.val \in Rows
  BY <1>1, WriteFacts
<1> HIDE DEF a
<1>3. /\ r \in RequestSet /\ r.reply = a
      /\ r.kind = q.kind /\ r.ns = q.ns /\ r.scope = q.scope /\ r.vals = q.vals /\ r.mode = q.mode
  BY <1>1, <1>2, RepliedFacts
<1>4. TaskOk(r, pullsAt)
  BY <1>1, <1>2, RepliedTask
<1> HIDE DEF r
<1>5. RequestOk(r)
  BY <1>1, <1>2, <1>3 DEF RequestOk, Tasks, AtOnce, Wrote, Mutations
<1>6. AllOk(requests \ {q}) /\ TasksOk(requests \ {q}, pullsAt)
  BY DEF FormSide, AllOk, TasksOk
<1>7. AllOk(Q) /\ TasksOk(Q, pullsAt)
  BY <1>6, OvertakenOk, OvertakenTasks
<1> HIDE DEF Q
<1>8. AllOk(requests') /\ TasksOk(requests', pullsAt)
  BY <1>2, <1>4, <1>5, <1>7 DEF AllOk, TasksOk
<1>9. server' \in [Spaces -> Specs \union {None}]
  BY <1>2 DEF RepoTypes
<1> QED  BY <1>8, <1>9 DEF FormSide, RepoTypes

(* Three ways a write may end: done, done and answered with an error, and  *)
(* refused.                                                                *)
LEMMA WritesFacts ==
    ASSUME NEW q, Backend(q), Writes(q)
    PROVE  /\ q.kind \in Mutations /\ q.reply = None /\ UNCHANGED <<pullsAt, page, st, form, dirty>>
           /\ \/ CanWrite(q) /\ \E ok \in BOOLEAN : Write(q, TRUE, ok)
              \/ /\ ~CanWrite(q) /\ server' = server
                 /\ requests' = (requests \ {q}) \union {Replied(q, Reply(FALSE, None))}
<1>1. /\ q.kind \in Mutations /\ q.reply = None
      /\ UNCHANGED <<pullsAt, page, st, form, dirty>>
  BY DEF Backend, Writes
<1>2. CASE CanWrite(q)
  <2> DEFINE ok == ~SecretMissing(q)
  <2>1. Write(q, TRUE, ok) /\ ok \in BOOLEAN
    BY <1>2 DEF Writes
  <2> HIDE DEF ok
  <2> QED  BY <1>1, <1>2, <2>1
<1>3. CASE ~CanWrite(q)
  BY <1>1, <1>3 DEF Writes, WithReply, Replied
<1> QED  BY <1>2, <1>3

LEMMA RefusalForm ==
    ASSUME RepoTypes, FormSide(st, form, requests, pullsAt), NEW q \in requests,
           q.kind \in Mutations, server' = server,
           requests' = (requests \ {q}) \union {Replied(q, Reply(FALSE, None))},
           UNCHANGED <<pullsAt, page, st, form, dirty>>
    PROVE  FormSide(st', form', requests', pullsAt') /\ RepoTypes'
<1> DEFINE a == Reply(FALSE, None)
           r == Replied(q, a)
<1>1. RequestOk(q) /\ q \in RequestSet /\ TaskOk(q, pullsAt)
  BY DEF FormSide, AllOk, TasksOk, RequestOk
<1>2. a \in Answers /\ ~a.ok
  BY DEF Reply, Answers
<1> HIDE DEF a
<1>3. /\ r \in RequestSet /\ r.reply = a
      /\ r.kind = q.kind /\ r.ns = q.ns /\ r.scope = q.scope /\ r.vals = q.vals /\ r.mode = q.mode
  BY <1>1, <1>2, RepliedFacts
<1>4. TaskOk(r, pullsAt)
  BY <1>1, <1>2, RepliedTask
<1> HIDE DEF r
<1>5. RequestOk(r)
  BY <1>1, <1>2, <1>3 DEF RequestOk, Tasks, AtOnce, Wrote, Mutations
<1>6. requests' = (requests \ {q}) \union {r}
  BY DEF r, a
<1> QED  BY <1>4, <1>5, <1>6 DEF FormSide, AllOk, TasksOk, RepoTypes

LEMMA WritesForm ==
    ASSUME RepoTypes, FormSide(st, form, requests, pullsAt),
           NEW q \in requests, Backend(q), Writes(q)
    PROVE  FormSide(st', form', requests', pullsAt') /\ RepoTypes'
BY WritesFacts, WriteForm, RefusalForm

LEMMA SecretFailsIs ==
    ASSUME NEW q, SecretFails(q)
    PROVE  /\ q.kind \in Mutations /\ q.reply = None /\ CanWrite(q)
           /\ UNCHANGED <<pullsAt, page, st, form, dirty>>
           /\ \E b \in BOOLEAN : Write(q, b, FALSE)
BY DEF SecretFails

LEMMA SecretFailsForm ==
    ASSUME RepoTypes, FormSide(st, form, requests, pullsAt), NEW q \in requests, SecretFails(q)
    PROVE  FormSide(st', form', requests', pullsAt') /\ RepoTypes'
BY SecretFailsIs, WriteForm

LEMMA ElsewhereForm ==
    ASSUME RepoTypes, FormSide(st, form, requests, pullsAt),
           NEW n \in Spaces, NEW r \in FirstSpec(n) \union {None}, UpdatedElsewhere(n, r)
    PROVE  FormSide(st', form', requests', pullsAt') /\ RepoTypes'
<1>1. /\ server' = [server EXCEPT ![n] = r] /\ requests' = Overtaken(requests, n)
      /\ dirty' = TRUE
      /\ UNCHANGED <<pullsAt, page, st, form>>
  BY DEF UpdatedElsewhere
<1>2. r \in Specs \union {None}
  BY FirstIsSpec
<1>3. AllOk(requests) /\ TasksOk(requests, pullsAt)
  BY DEF FormSide
<1>4. AllOk(requests') /\ TasksOk(requests', pullsAt)
  BY <1>1, <1>3, OvertakenOk, OvertakenTasks
<1> QED  BY <1>1, <1>2, <1>4 DEF FormSide, RepoTypes

-----------------------------------------------------------------------------
(* Answers *)

(* What an answer carries: rows, a row, a secret or the namespace's pull   *)
(* secrets, and for a request that is not answered at once, the reply that *)
(* was given to it. A write that was carried out is not answered by an     *)
(* error, unless that is its reply.                                        *)
GoodAnswer(q, a) ==
    /\ a.ok \in BOOLEAN
    /\ a.ok => /\ q.kind = "list" => a.val \in Seq(Rows)
               /\ q.kind \in {"create", "update"} => a.val \in Rows
               /\ q.kind = "secret" => a.val \in Secrets
               /\ q.kind = "pulls" => a.val = pullsAt[q.ns]
               /\ q.kind \notin AtOnce => (q.reply # None /\ a = q.reply)
    /\ q.reply # None => a = q.reply

LEMMA GivenAnswers ==
    ASSUME NEW q, RequestOk(q), q.reply # None
    PROVE  GoodAnswer(q, q.reply)
<1>1. q.reply \in Answers /\ q.kind \notin AtOnce
  BY DEF RequestOk, RequestSet
<1>2. q.reply.ok \in BOOLEAN
  BY <1>1 DEF Answers
<1> QED  BY <1>1, <1>2 DEF GoodAnswer, RequestOk, Wrote, AtOnce

LEMMA SecretCalledTypes ==
    ASSUME RepoTypes, NEW n \in Spaces, NEW x
    PROVE  SecretCalled(n, x) \in Headers \union AllPulls \union {None}
<1>1. pullsAt[n] \subseteq AllPulls /\ server[n] \in Specs \union {None}
  BY DEF RepoTypes
<1>2. server[n] # None => server[n].header \in HeaderOrNone
  BY <1>1 DEF Specs
<1> QED  BY <1>1, <1>2 DEF SecretCalled, HeaderOrNone

LEMMA AnswersAtOnce ==
    ASSUME RepoTypes, NEW q, RequestOk(q), q.kind \in AtOnce
    PROVE  GoodAnswer(q, ReplyTo(q))
<1>1. q.ns \in Spaces /\ q.reply = None
  BY DEF RequestOk, AtOnce
<1>2. CASE q.kind = "secret"
  <2> DEFINE h == SecretCalled(q.ns, q.name)
  <2>1. h \in Headers \union AllPulls \union {None}
    BY <1>1, SecretCalledTypes
  <2>2. CASE h # None
    <3>1. ReplyTo(q) = Reply(TRUE, [ns |-> q.ns, header |-> h])
      BY <1>2, <2>2 DEF ReplyTo
    <3> HIDE DEF h
    <3>2. [ns |-> q.ns, header |-> h] \in Secrets
      BY <1>1, <2>1, <2>2 DEF Secrets
    <3> QED  BY <1>1, <1>2, <3>1, <3>2 DEF GoodAnswer, Reply, AtOnce
  <2>3. CASE h = None
    <3>1. ReplyTo(q) = Reply(FALSE, None)
      BY <1>2, <2>3 DEF ReplyTo
    <3> QED  BY <1>1, <1>2, <3>1 DEF GoodAnswer, Reply
  <2> QED  BY <2>2, <2>3
<1>3. CASE q.kind = "pulls"
  <2>1. ReplyTo(q) = Reply(TRUE, pullsAt[q.ns])
    BY <1>3 DEF ReplyTo
  <2> QED  BY <1>1, <1>3, <2>1 DEF GoodAnswer, Reply, AtOnce
<1>4. ASSUME NEW b, b \in BOOLEAN, ReplyTo(q) = Reply(b, None), q.kind \in {"validate", "cred", "resync"}
      PROVE  GoodAnswer(q, ReplyTo(q))
  BY <1>1, <1>4 DEF GoodAnswer, Reply, AtOnce
<1>5. CASE q.kind = "validate"
  <2> DEFINE b == /\ q.vals.url \in GoodUrls
                  /\ (q.vals.header \in AllPulls => q.vals.header \in pullsAt[q.scope])
  <2>1. ReplyTo(q) = Reply(b, None) /\ b \in BOOLEAN
    BY <1>5 DEF ReplyTo
  <2> HIDE DEF b
  <2> QED  BY <1>4, <1>5, <2>1
<1>6. CASE q.kind = "cred"
  <2> DEFINE b == NewPull \notin pullsAt[q.ns]
  <2>1. ReplyTo(q) = Reply(b, None) /\ b \in BOOLEAN
    BY <1>6 DEF ReplyTo
  <2> HIDE DEF b
  <2> QED  BY <1>4, <1>6, <2>1
<1>7. CASE q.kind = "resync"
  <2> DEFINE b == server[q.ns] # None
  <2>1. ReplyTo(q) = Reply(b, None) /\ b \in BOOLEAN
    BY <1>7 DEF ReplyTo
  <2> HIDE DEF b
  <2> QED  BY <1>4, <1>7, <2>1
<1> QED  BY <1>2, <1>3, <1>5, <1>6, <1>7 DEF AtOnce

LEMMA FailedAnswers ==
    ASSUME NEW q, q.reply = None
    PROVE  GoodAnswer(q, Reply(FALSE, None)) /\ ~Reply(FALSE, None).ok
BY DEF GoodAnswer, Reply

(* The request for the global repositories, after the namespace's own      *)
(* arrived.                                                                *)
SecondList(v, b) == [ListRequest(Team) EXCEPT !.stage = 2, !.part = v, !.stale = b]

LEMMA PartTypes ==
    ASSUME NEW t \in RequestSet, NEW v \in Seq(Rows)
    PROVE  [t EXCEPT !.part = v] \in RequestSet
BY DEF RequestSet

LEMMA StageTypes ==
    ASSUME NEW t \in RequestSet, NEW k \in {1, 2}
    PROVE  [t EXCEPT !.stage = k] \in RequestSet
BY DEF RequestSet

LEMMA StaleTypes ==
    ASSUME NEW t \in RequestSet, NEW q \in RequestSet
    PROVE  [t EXCEPT !.stale = q.stale] \in RequestSet
BY DEF RequestSet

LEMMA SecondTypes ==
    ASSUME NEW t \in RequestSet, NEW q \in RequestSet, NEW v \in Seq(Rows), NEW k \in {1, 2}
    PROVE  [t EXCEPT !.stage = k, !.part = v, !.stale = q.stale] \in RequestSet
<1>1. [t EXCEPT !.stage = k, !.part = v, !.stale = q.stale]
        = [[[t EXCEPT !.stage = k] EXCEPT !.part = v] EXCEPT !.stale = q.stale]
  BY DEF RequestSet
<1>2. [t EXCEPT !.stage = k] \in RequestSet
  BY StageTypes
<1>3. [[t EXCEPT !.stage = k] EXCEPT !.part = v] \in RequestSet
  BY <1>2, PartTypes
<1>4. [[[t EXCEPT !.stage = k] EXCEPT !.part = v] EXCEPT !.stale = q.stale] \in RequestSet
  BY <1>3, StaleTypes
<1> QED  BY <1>1, <1>4

LEMMA SecondListFacts ==
    ASSUME NEW v \in Seq(Rows), NEW q \in RequestSet
    PROVE  LET r == SecondList(v, q.stale) IN
           /\ RequestOk(r) /\ r.kind = "list" /\ r.scope = Team /\ r.stage = 2 /\ r.part = v
           /\ r.stale = q.stale /\ r.reply = None /\ r.mode = None
<1> DEFINE t == ListRequest(Team)
           k == 2
           r == [t EXCEPT !.stage = k, !.part = v, !.stale = q.stale]
<1>1. /\ RequestOk(t) /\ t.kind = "list" /\ t.scope = Team /\ t.reply = None /\ t.mode = None
  BY NewLists DEF Spaces
<1>2. k \in {1, 2}
  OBVIOUS
<1>3. t \in RequestSet
  BY <1>1 DEF RequestOk
<1> HIDE DEF t, k
<1>4. r \in RequestSet
  BY <1>2, <1>3, SecondTypes
<1>5. /\ r.kind = t.kind /\ r.scope = t.scope /\ r.stage = k /\ r.part = v
      /\ r.stale = q.stale /\ r.reply = t.reply /\ r.mode = t.mode
  BY <1>3 DEF RequestSet
<1>6. SecondList(v, q.stale) = r
  BY DEF SecondList, t, k
<1> HIDE DEF r
<1>7. RequestOk(r)
  BY <1>1, <1>4, <1>5 DEF RequestOk, Tasks, AtOnce, Wrote
<1>8. r.stage = 2
  BY <1>5 DEF k
<1> QED  BY <1>1, <1>5, <1>6, <1>7, <1>8

LEMMA FetchReposForm ==
    ASSUME FormSide(st, form, requests, pullsAt),
           NEW q \in requests, NEW a, GoodAnswer(q, a), fetchRepos(q, a)
    PROVE  FormSide(st', form', requests', pullsAt)
<1>1. /\ RequestOk(q) /\ q \in RequestSet /\ AllOk(requests \ {q})
      /\ TasksOk(requests \ {q}, pullsAt) /\ st \in Stores
  BY DEF FormSide, AllOk, TasksOk, RequestOk
<1>2. q.kind = "list" /\ a.ok /\ a.val \in Seq(Rows) /\ q.part \in Seq(Rows)
  BY <1>1 DEF fetchRepos, GoodAnswer, RequestSet
<1>3. CASE q.scope = Team /\ q.stage = 1
  <2> DEFINE r == SecondList(a.val, q.stale)
             Q == (requests \ {q}) \union {r}
  <2>1. Store(requestRepos(st), Q, FALSE, FALSE)
    BY <1>3 DEF fetchRepos, SecondList
  <2>2. RequestOk(r) /\ r.kind = "list" /\ r.mode = None
    BY <1>1, <1>2, SecondListFacts
  <2> HIDE DEF r
  <2>3. TaskOk(r, pullsAt)
    BY <2>2, OtherTasks DEF Tasks
  <2>4. AllOk(Q) /\ TasksOk(Q, pullsAt)
    BY <1>1, <2>2, <2>3 DEF AllOk, TasksOk
  <2> HIDE DEF Q
  <2> QED  BY <1>1, <2>1, <2>4, StoreTypes, StoreKeeps
<1>4. CASE ~(q.scope = Team /\ q.stage = 1)
  <2> DEFINE s == receiveRepos(st, q.part \o a.val)
             New == IF form # None /\ (form # None => form.mode = "edit")
                    THEN SecretRequests(RowOf(s, form.ns)) ELSE {}
             Q == (requests \ {q}) \union New
  <2>1. Store(s, Q, TRUE, FALSE)
    BY <1>4 DEF fetchRepos
  <2>2. q.part \o a.val \in Seq(Rows)
    BY <1>2
  <2>3. s \in Stores /\ s.pulls = st.pulls
    BY <1>1, <2>2, ReposTypes
  <2> HIDE DEF s
  <2>4. ASSUME NEW r \in New PROVE RequestOk(r) /\ TaskOk(r, pullsAt)
    <3>1. r \in SecretRequests(RowOf(s, form.ns)) /\ RowOf(s, form.ns) \in Rows \union {None}
      BY <2>3, RowOfTypes
    <3> QED  BY <3>1, SecretRequestsOk, OtherTasks DEF Tasks
  <2> HIDE DEF New
  <2>5. AllOk(Q) /\ TasksOk(Q, pullsAt)
    BY <1>1, <2>4 DEF AllOk, TasksOk
  <2> HIDE DEF Q
  <2> QED  BY <2>1, <2>3, <2>5, StoreKeeps
<1> QED  BY <1>3, <1>4

LEMMA FetchSecretForm ==
    ASSUME FormSide(st, form, requests, pullsAt),
           NEW q \in requests, NEW a, GoodAnswer(q, a), fetchRepoSecret(q, a)
    PROVE  FormSide(st', form', requests', pullsAt)
<1> DEFINE s == receiveReposSecret(st, a.val)
           b == SecretFor(s) # SecretFor(st)
           Q == requests \ {q}
<1>1. AllOk(Q) /\ TasksOk(Q, pullsAt) /\ st \in Stores
  BY DEF FormSide, AllOk, TasksOk
<1>2. q.kind = "secret" /\ a.ok /\ a.val \in Secrets /\ Store(s, Q, FALSE, b) /\ b \in BOOLEAN
  BY DEF fetchRepoSecret, GoodAnswer
<1>3. s \in Stores /\ s.pulls = st.pulls
  BY <1>1, <1>2, SecretTypes
<1> HIDE DEF s, b, Q
<1> QED  BY <1>1, <1>2, <1>3, StoreKeeps

LEMMA FetchPullsForm ==
    ASSUME RepoTypes, FormSide(st, form, requests, pullsAt),
           NEW q \in requests, NEW a, GoodAnswer(q, a), fetchImagePullSecrets(q, a)
    PROVE  FormSide(st', form', requests', pullsAt)
<1>1. /\ RequestOk(q) /\ AllOk(requests \ {q}) /\ TasksOk(requests \ {q}, pullsAt)
      /\ st \in Stores
  BY DEF FormSide, AllOk, TasksOk
<1>2. /\ a.val = pullsAt[q.ns] /\ q.ns \in Spaces /\ st' = [st EXCEPT !.pulls = a.val]
      /\ requests' = requests \ {q}
  BY <1>1 DEF fetchImagePullSecrets, GoodAnswer, RequestOk
<1>3. st' \in Stores /\ st'.pulls = a.val /\ a.val \in SUBSET AllPulls
  BY <1>1, <1>2 DEF Stores, RepoTypes
<1>4. CASE form = None
  BY <1>1, <1>2, <1>3, <1>4 DEF FormSide, fetchImagePullSecrets
<1>5. CASE form # None
  (* The form knows the secrets that are not its namespace's. *)
  <2> DEFINE n == form.ns
             x == form.alien \union (a.val \ pullsAt[n])
             g == [form EXCEPT !.alien = x]
             k == PullEffects(form, st')
             z == [k EXCEPT !.alien = k.alien \union (a.val \ pullsAt[n])]
  <2>1. form' = z
    BY <1>5 DEF fetchImagePullSecrets
  <2>2. FormOk(form, st, pullsAt) /\ form \in Forms
    BY <1>5 DEF FormSide, FormOk
  <2>3. /\ k \in Forms /\ Same(k, form) /\ Filled(k)
        /\ ~k.shifted => (~form.shifted /\ Checked(k) = Checked(form))
    BY <1>3, <2>2, PullEffectsOk DEF FormOk
  <2>4. k.pull \in a.val \union {form.pull} /\ k.options \in {a.val, form.options}
    BY <1>3, <2>2 DEF PullEffects, OwnPull, Forms
  <2> HIDE DEF k
  <2>5. x \in SUBSET AllPulls /\ k.alien = form.alien
    BY <1>3, <2>2, <2>3 DEF Forms, Same
  <2>6. z = [k EXCEPT !.alien = x]
    BY <2>5
  <2>7. /\ a.val \subseteq pullsAt[n] \union x
        /\ k.options \subseteq pullsAt[n] \union x
        /\ k.pull \in pullsAt[n] \union x \union {None}
    BY <2>2, <2>4 DEF FormOk, Fits
  <2> HIDE DEF x
  <2>8. z \in Forms
    BY <2>3, <2>5, <2>6 DEF Forms
  <2>9. /\ z.ns = k.ns /\ z.alien = x /\ z.options = k.options /\ z.pull = k.pull
        /\ z.url = k.url /\ z.method = k.method /\ z.header = k.header
        /\ z.user = k.user /\ z.token = k.token /\ z.validated = k.validated
        /\ z.checked = k.checked /\ z.shifted = k.shifted /\ z.touched = k.touched
        /\ z.seen = k.seen /\ z.refilled = k.refilled
    BY <2>3, <2>6 DEF Forms
  <2> HIDE DEF z
  <2>10. FinalHeader(z) = FinalHeader(k) /\ Checked(z) = Checked(k)
    BY <2>9 DEF FinalHeader, Checked
  <2>11. Filled(z)
    BY <2>3, <2>9, <2>10 DEF Filled
  <2>12. StillChecked(z)
    BY <2>2, <2>3, <2>9, <2>10 DEF StillChecked, FormOk, Same
  <2>13. Fits(z, st', pullsAt)
    BY <1>3, <2>3, <2>7, <2>9 DEF Fits, Same
  <2> QED  BY <1>1, <1>2, <1>3, <2>1, <2>8, <2>11, <2>12, <2>13 DEF FormSide, FormOk
<1> QED  BY <1>4, <1>5

(* What a successful validation sends next. *)
Promoted(q) == [q EXCEPT !.kind = onSubmit(q.mode), !.reply = None, !.stale = FALSE]

LEMMA PromotedFacts ==
    ASSUME NEW q, RequestOk(q), q.kind = "validate"
    PROVE  LET r == Promoted(q) IN
           /\ RequestOk(r) /\ r.kind \in Tasks /\ r.reply = None
           /\ r.ns = q.ns /\ r.vals = q.vals /\ r.mode = q.mode /\ r.own = q.own
           /\ r.checked = q.checked /\ r.excused = q.excused
           /\ r.alien = q.alien /\ r.seen = q.seen
<1> DEFINE k == onSubmit(q.mode)
           r == [q EXCEPT !.kind = k, !.reply = None, !.stale = FALSE]
<1>1. k \in {"create", "update"}
  BY DEF onSubmit
<1>2. Promoted(q) = r
  BY DEF Promoted
<1>3. q \in RequestSet
  BY DEF RequestOk
<1> HIDE DEF k
<1>4. r \in RequestSet
  BY <1>1, <1>3 DEF RequestSet
<1>5. /\ r.kind = k /\ r.reply = None
      /\ r.ns = q.ns /\ r.vals = q.vals /\ r.mode = q.mode /\ r.own = q.own
      /\ r.checked = q.checked /\ r.excused = q.excused
      /\ r.alien = q.alien /\ r.seen = q.seen
  BY <1>3 DEF RequestSet
<1> HIDE DEF r
<1>6. RequestOk(r)
  BY <1>1, <1>4, <1>5 DEF RequestOk, Tasks, AtOnce, Wrote
<1> QED  BY <1>1, <1>2, <1>5, <1>6 DEF Tasks

LEMMA SetValidatedOk ==
    ASSUME FormSide(st, form, requests, pullsAt), NEW q \in requests,
           NEW result \in {"yes", "no"}
    PROVE  LET f == setValidated(q, result) IN f = None \/ FormOk(f, st, pullsAt)
<1>1. CASE form = None \/ ~q.own
  BY <1>1 DEF setValidated, FormSide
<1>2. CASE form # None /\ q.own
  <2> DEFINE b == Checked(form) # q.checked
             f == [form EXCEPT !.validated = result, !.checked = q.checked, !.shifted = b]
  <2>1. setValidated(q, result) = f
    BY <1>2 DEF setValidated
  <2>2. FormOk(form, st, pullsAt) /\ form \in Forms /\ q \in RequestSet
    BY <1>2 DEF FormSide, FormOk, AllOk, RequestOk
  <2>3. b \in BOOLEAN /\ (~b => Checked(form) = q.checked)
    OBVIOUS
  <2>4. q.checked \in Checks \union {None}
    BY <2>2 DEF RequestSet
  <2> HIDE DEF b
  <2>5. f \in Forms
    BY <2>2, <2>3, <2>4 DEF Forms
  <2>6. /\ f.ns = form.ns /\ f.url = form.url /\ f.method = form.method
        /\ f.header = form.header /\ f.user = form.user /\ f.token = form.token
        /\ f.touched = form.touched
        /\ f.seen = form.seen /\ f.refilled = form.refilled /\ f.alien = form.alien
        /\ f.pull = form.pull /\ f.options = form.options
        /\ f.checked = q.checked /\ f.shifted = b
    BY <2>2 DEF Forms
  <2> HIDE DEF f
  <2>7. FinalHeader(f) = FinalHeader(form) /\ Checked(f) = Checked(form)
    BY <2>6 DEF FinalHeader, Checked
  <2>8. Fits(f, st, pullsAt) /\ Filled(f)
    BY <2>2, <2>6, <2>7 DEF FormOk, Fits, Filled
  <2>9. StillChecked(f)
    BY <2>3, <2>6, <2>7 DEF StillChecked
  <2> QED  BY <2>1, <2>5, <2>8, <2>9 DEF FormOk
<1> QED  BY <1>1, <1>2

LEMMA ValidateForm ==
    ASSUME FormSide(st, form, requests, pullsAt),
           NEW q \in requests, NEW a, GoodAnswer(q, a), validateRepo(q, a)
    PROVE  /\ FormSide(st', form', requests', pullsAt) /\ st'.repos = st.repos
           /\ q.kind = "validate"
           /\ \/ requests' = requests \ {q}
              \/ \E r : requests' = (requests \ {q}) \union {r} /\ r.kind \in Tasks /\ r.reply = None
<1> DEFINE result == IF a.ok THEN "yes" ELSE "no"
           New == IF a.ok THEN {Promoted(q)} ELSE {}
<1>1. /\ RequestOk(q) /\ AllOk(requests \ {q}) /\ TasksOk(requests \ {q}, pullsAt)
      /\ st \in Stores /\ TaskOk(q, pullsAt)
  BY DEF FormSide, AllOk, TasksOk
<1>2. /\ q.kind = "validate" /\ form' = setValidated(q, result)
      /\ requests' = (requests \ {q}) \union New
  BY DEF validateRepo, Promoted
<1>3. st' \in Stores /\ st'.pulls = st.pulls /\ st'.repos = st.repos
  <2>1. CASE a.ok
    <3>1. st' = [st EXCEPT !.validating = FALSE, !.errors = st.errors \ {"validate"}]
      BY <2>1 DEF validateRepo
    <3>2. st.errors \ {"validate"} \in SUBSET Ops
      BY <1>1 DEF Stores
    <3> QED  BY <1>1, <3>1, <3>2 DEF Stores
  <2>2. CASE ~a.ok
    <3>1. st' = errorRepos(st, "validate") /\ "validate" \in Ops
      BY <2>2 DEF validateRepo, Ops
    <3> QED  BY <1>1, <3>1, StoreTypes
  <2> QED  BY <2>1, <2>2
<1>4. form' = None \/ FormOk(form', st, pullsAt)
  <2>1. result \in {"yes", "no"}
    OBVIOUS
  <2> HIDE DEF result
  <2> QED  BY <1>2, <2>1, SetValidatedOk
<1>5. form' = None \/ FormOk(form', st', pullsAt)
  BY <1>3, <1>4, FormOkMoves
<1>6. LET r == Promoted(q) IN
      /\ RequestOk(r) /\ r.kind \in Tasks /\ r.reply = None
      /\ r.ns = q.ns /\ r.vals = q.vals /\ r.mode = q.mode /\ r.own = q.own
      /\ r.checked = q.checked /\ r.excused = q.excused
      /\ r.alien = q.alien /\ r.seen = q.seen
  BY <1>1, <1>2, PromotedFacts
<1>7. TaskOk(Promoted(q), pullsAt)
  <2> DEFINE r == Promoted(q)
  <2> HIDE DEF r
  <2>1. /\ r.ns = q.ns /\ r.vals = q.vals /\ r.mode = q.mode /\ r.own = q.own
        /\ r.checked = q.checked /\ r.excused = q.excused
        /\ r.alien = q.alien /\ r.seen = q.seen
    BY <1>6 DEF r
  <2>2. TaskOk(r, pullsAt)
    BY <1>1, <1>2, <2>1 DEF TaskOk, Tasks
  <2> QED  BY <2>2 DEF r
<1>8. \A r \in New : RequestOk(r) /\ TaskOk(r, pullsAt)
  BY <1>6, <1>7
<1>9. New = {} \/ (\E r : New = {r} /\ r.kind \in Tasks /\ r.reply = None)
  BY <1>6
<1> HIDE DEF New
<1>10. AllOk(requests') /\ TasksOk(requests', pullsAt)
  BY <1>1, <1>2, <1>8 DEF AllOk, TasksOk
<1>12. FormSide(st', form', requests', pullsAt)
  BY <1>3, <1>5, <1>10 DEF FormSide
<1> QED  BY <1>2, <1>3, <1>9, <1>12

LEMMA InstallRepoForm ==
    ASSUME FormSide(st, form, requests, pullsAt),
           NEW q \in requests, NEW a, GoodAnswer(q, a), installRepo(q, a)
    PROVE  FormSide(st', form', requests', pullsAt)
<1>1. /\ AllOk(requests \ {q}) /\ TasksOk(requests \ {q}, pullsAt) /\ st \in Stores
  BY DEF FormSide, AllOk, TasksOk
<1>2. /\ q.kind = "create" /\ a.ok /\ a.val \in Rows /\ st' = addedRepo(st, a.val)
      /\ form' = ClosedBy(q, form) /\ requests' = Detached(requests \ {q}, form', st')
  BY DEF installRepo, GoodAnswer
<1>3. st' \in Stores /\ st'.pulls = st.pulls
  BY <1>1, <1>2, ReposTypes
<1>4. form' = None \/ form' = form
  BY <1>2 DEF ClosedBy
<1>5. form' = None \/ FormOk(form', st', pullsAt)
  BY <1>3, <1>4, FormOkMoves DEF FormSide
<1>6. AllOk(requests') /\ TasksOk(requests', pullsAt)
  BY <1>1, <1>2, <1>4, DetachedOk, DetachedTasks
<1> QED  BY <1>3, <1>5, <1>6 DEF FormSide

LEMMA UpdateRepoForm ==
    ASSUME FormSide(st, form, requests, pullsAt),
           NEW q \in requests, NEW a, GoodAnswer(q, a), updateRepo(q, a)
    PROVE  FormSide(st', form', requests', pullsAt)
<1> DEFINE New == SecretRequests(a.val)
           Q == (requests \ {q}) \union New
           f == ClosedBy(q, form)
           b == form # None /\ form.ns = q.ns
<1>1. /\ RequestOk(q) /\ AllOk(requests \ {q}) /\ TasksOk(requests \ {q}, pullsAt)
      /\ st \in Stores
  BY DEF FormSide, AllOk, TasksOk
<1>2. /\ q.kind = "update" /\ a.ok /\ a.val \in Rows /\ st' = repoUpdated(st, a.val)
      /\ form' = AfterStore(f, st', b, FALSE) /\ requests' = Detached(Q, form', st')
  BY DEF updateRepo, GoodAnswer
<1>4. ASSUME NEW r \in New PROVE RequestOk(r) /\ TaskOk(r, pullsAt)
  BY <1>2, SecretRequestsOk, OtherTasks DEF Tasks
<1>5. st' \in Stores /\ st'.pulls = st.pulls
  BY <1>1, <1>2, UpdatedTypes
<1>6. f = None \/ f = form
  BY DEF ClosedBy
<1>7. b \in BOOLEAN
  OBVIOUS
<1> HIDE DEF New, f, b
<1>8. AllOk(Q) /\ TasksOk(Q, pullsAt)
  BY <1>1, <1>4 DEF AllOk, TasksOk
<1>9. f = None \/ FormOk(f, st', pullsAt)
  BY <1>5, <1>6, FormOkMoves DEF FormSide
<1>10. form' = None \/ FormOk(form', st', pullsAt)
  BY <1>2, <1>5, <1>7, <1>9, AfterStoreOk
<1> HIDE DEF Q
<1>12. AllOk(requests') /\ TasksOk(requests', pullsAt)
  BY <1>2, <1>8, DetachedOk, DetachedTasks
<1> QED  BY <1>5, <1>10, <1>12 DEF FormSide

LEMMA DeleteRepoForm ==
    ASSUME FormSide(st, form, requests, pullsAt),
           NEW q \in requests, NEW a, GoodAnswer(q, a), deleteRepo(q, a)
    PROVE  FormSide(st', form', requests', pullsAt)
<1> DEFINE t == IF a.ok THEN st ELSE errorRepos(st, "delete")
           s == requestRepos(t)
           Q == (requests \ {q}) \union {ListRequest(q.scope)}
<1>1. /\ RequestOk(q) /\ AllOk(requests \ {q}) /\ TasksOk(requests \ {q}, pullsAt)
      /\ st \in Stores
  BY DEF FormSide, AllOk, TasksOk
<1>2. q.kind = "delete" /\ Store(s, Q, FALSE, FALSE)
  BY DEF deleteRepo
<1>3. q.scope \in Spaces \union {All}
  BY <1>1, <1>2 DEF RequestOk
<1>4. RequestOk(ListRequest(q.scope)) /\ TaskOk(ListRequest(q.scope), pullsAt)
  BY <1>3, NewLists, OtherTasks DEF Tasks
<1>5. AllOk(Q) /\ TasksOk(Q, pullsAt)
  BY <1>1, <1>4 DEF AllOk, TasksOk
<1>6. t \in Stores /\ t.pulls = st.pulls
  BY <1>1, StoreTypes DEF Ops
<1> HIDE DEF t
<1>7. s \in Stores /\ s.pulls = st.pulls
  BY <1>6, StoreTypes
<1> HIDE DEF s, Q
<1> QED  BY <1>2, <1>5, <1>7, StoreKeeps

LEMMA ResyncRepoForm ==
    ASSUME FormSide(st, form, requests, pullsAt),
           NEW q \in requests, NEW a, resyncRepo(q, a)
    PROVE  FormSide(st', form', requests', pullsAt)
BY DEF FormSide, AllOk, TasksOk, resyncRepo

LEMMA RefusedForm ==
    ASSUME FormSide(st, form, requests, pullsAt),
           NEW q \in requests, NEW a, GoodAnswer(q, a), Refused(q, a)
    PROVE  FormSide(st', form', requests', pullsAt)
<1> DEFINE s == errorRepos(st, ErrorOf(q))
           Q == requests \ {q}
<1>1. AllOk(Q) /\ TasksOk(Q, pullsAt) /\ st \in Stores
  BY DEF FormSide, AllOk, TasksOk
<1>2. Store(s, Q, FALSE, FALSE)
  BY DEF Refused
<1>3. ErrorOf(q) \in Ops
  BY DEF ErrorOf, Ops
<1>4. s \in Stores /\ s.pulls = st.pulls
  BY <1>1, <1>3, StoreTypes
<1> HIDE DEF s, Q
<1> QED  BY <1>1, <1>2, <1>4, StoreKeeps

(* Pull secrets are only added. *)
LEMMA SideGrows ==
    ASSUME NEW s, NEW f, NEW Q, NEW P, NEW P2, FormSide(s, f, Q, P),
           \A n \in Spaces : P[n] \subseteq P2[n]
    PROVE  FormSide(s, f, Q, P2)
<1>1. f = None \/ FormOk(f, s, P2)
  <2>1. CASE f # None
    <3>1. FormOk(f, s, P) /\ f.ns \in Spaces
      BY <2>1 DEF FormSide, FormOk, Forms
    <3> QED  BY <3>1, FormOkMoves
  <2> QED  BY <2>1
<1>2. TasksOk(Q, P2)
  <2> SUFFICES ASSUME NEW q \in Q PROVE TaskOk(q, P2)
    BY DEF TasksOk
  <2>1. TaskOk(q, P) /\ (q.kind \in Tasks => q.ns \in Spaces)
    BY DEF FormSide, TasksOk, AllOk, RequestOk, Tasks
  <2> QED  BY <2>1 DEF TaskOk
<1> QED  BY <1>1, <1>2 DEF FormSide

LEMMA CredForm ==
    ASSUME FormSide(st, form, requests, pullsAt),
           NEW q \in requests, NEW a, createDockerRegistrySecret(q, a),
           NEW P, \A n \in Spaces : pullsAt[n] \subseteq P[n], a.ok => NewPull \in P[q.ns]
    PROVE  FormSide(st', form', requests', P) /\ st'.repos = st.repos
<1> DEFINE s == IF a.ok THEN st ELSE errorRepos(st, "fetch")
           o == OptionsAfter(a)
           x == IF a.ok /\ q.ns # form.ns
                THEN form.alien \union ({NewPull} \ pullsAt[form.ns]) ELSE form.alien
           f == IF form = None \/ ~q.own THEN form
                ELSE [form EXCEPT !.options = o, !.alien = x]
           Q == requests \ {q}
<1>1. /\ q.kind = "cred" /\ st' = s /\ form' = AfterStore(f, s, FALSE, FALSE)
      /\ requests' = Detached(Q, form', s)
  BY DEF createDockerRegistrySecret
<1>2. FormSide(st, form, requests, P)
  BY SideGrows
<1>3. /\ RequestOk(q) /\ AllOk(Q) /\ TasksOk(Q, P) /\ st \in Stores
      /\ form = None \/ FormOk(form, st, P)
  BY <1>2 DEF FormSide, AllOk, TasksOk
<1>4. s \in Stores /\ s.pulls = st.pulls /\ s.repos = st.repos
  BY <1>3, StoreTypes DEF Ops
<1>5. f = None \/ FormOk(f, st, P)
  <2>1. CASE form = None \/ ~q.own
    BY <1>3, <2>1
  <2>2. CASE form # None /\ q.own
    <3> DEFINE g == [form EXCEPT !.options = o, !.alien = x]
    <3>1. f = g /\ FormOk(form, st, P) /\ form \in Forms /\ form.ns \in Spaces
      BY <1>3, <2>2 DEF FormOk, Forms
    <3>2. /\ o \subseteq form.options \union {NewPull} /\ (~a.ok => o = form.options)
          /\ form.alien \subseteq x /\ x \subseteq form.alien \union {NewPull}
      BY DEF OptionsAfter
    <3>3. o \in SUBSET AllPulls /\ x \in SUBSET AllPulls
      BY <3>1, <3>2 DEF Forms, AllPulls
    <3>4. a.ok => NewPull \in P[form.ns] \union x
      BY <3>1
    <3>5. o \subseteq P[form.ns] \union x
      BY <3>1, <3>2, <3>4 DEF FormOk, Fits
    <3> HIDE DEF o, x
    <3>6. g \in Forms
      BY <3>1, <3>3 DEF Forms
    <3>7. /\ g.ns = form.ns /\ g.alien = x /\ g.options = o /\ g.pull = form.pull
          /\ g.url = form.url /\ g.method = form.method /\ g.header = form.header
          /\ g.user = form.user /\ g.token = form.token /\ g.validated = form.validated
          /\ g.checked = form.checked /\ g.shifted = form.shifted /\ g.touched = form.touched
          /\ g.seen = form.seen /\ g.refilled = form.refilled
      BY <3>1 DEF Forms
    <3> HIDE DEF g
    <3>8. FinalHeader(g) = FinalHeader(form) /\ Checked(g) = Checked(form)
      BY <3>7 DEF FinalHeader, Checked
    <3>9. StillChecked(g) /\ Filled(g)
      BY <3>1, <3>7, <3>8 DEF FormOk, StillChecked, Filled
    <3>10. Fits(g, st, P)
      BY <3>1, <3>2, <3>5, <3>7 DEF FormOk, Fits
    <3> QED  BY <3>1, <3>6, <3>9, <3>10 DEF FormOk
  <2> QED  BY <2>1, <2>2
<1> HIDE DEF s, f, Q
<1>6. f = None \/ FormOk(f, s, P)
  BY <1>4, <1>5, FormOkMoves
<1>7. form' = None \/ FormOk(form', s, P)
  BY <1>1, <1>4, <1>6, AfterStoreOk
<1>9. AllOk(requests') /\ TasksOk(requests', P)
  BY <1>1, <1>3, DetachedOk, DetachedTasks
<1> QED  BY <1>1, <1>4, <1>7, <1>9 DEF FormSide

LEMMA DeliverForm ==
    ASSUME RepoTypes, FormSide(st, form, requests, pullsAt),
           NEW q \in requests, NEW a, GoodAnswer(q, a), Deliver(q, a), q.kind # "cred"
    PROVE  FormSide(st', form', requests', pullsAt)
<1>1. ~createDockerRegistrySecret(q, a)
  BY DEF createDockerRegistrySecret
<1> QED  BY <1>1, FetchReposForm, FetchSecretForm, FetchPullsForm, ValidateForm, InstallRepoForm,
            UpdateRepoForm, DeleteRepoForm, ResyncRepoForm, RefusedForm DEF Deliver

LEMMA DeliverDirty ==
    ASSUME dirty \in BOOLEAN, NEW q, NEW a, Deliver(q, a)
    PROVE  dirty' \in BOOLEAN
BY DEF Deliver, fetchRepos, fetchRepoSecret, fetchImagePullSecrets, validateRepo, installRepo,
       updateRepo, deleteRepo, resyncRepo, createDockerRegistrySecret, Refused

LEMMA DeliverCred ==
    ASSUME NEW q, q.kind = "cred", NEW a, Deliver(q, a)
    PROVE  createDockerRegistrySecret(q, a)
BY DEF Deliver, fetchRepos, fetchRepoSecret, fetchImagePullSecrets, validateRepo, installRepo,
       updateRepo, deleteRepo, resyncRepo, Refused

LEMMA AnswerForm ==
    ASSUME RepoTypes, FormSide(st, form, requests, pullsAt), NEW q \in requests, Answer(q)
    PROVE  /\ FormSide(st', form', requests', pullsAt') /\ RepoTypes'
           /\ \E a : GoodAnswer(q, a) /\ Deliver(q, a)
<1>1. RequestOk(q)
  BY DEF FormSide, AllOk
<1>2. PICK a : /\ Deliver(q, a)
               /\ (q.reply # None /\ a = q.reply) \/ (q.kind \in AtOnce /\ a = ReplyTo(q))
  BY DEF Answer
<1>3. GoodAnswer(q, a)
  BY <1>1, <1>2, GivenAnswers, AnswersAtOnce
<1>4. /\ pullsAt' = IF q.kind = "cred" THEN [pullsAt EXCEPT ![q.ns] = @ \union {NewPull}] ELSE pullsAt
      /\ UNCHANGED <<server, page>>
  BY DEF Answer
<1>5. dirty' \in BOOLEAN
  BY <1>2, DeliverDirty DEF RepoTypes
<1>6. CASE q.kind # "cred"
  <2>1. FormSide(st', form', requests', pullsAt)
    BY <1>2, <1>3, <1>6, DeliverForm
  <2>2. pullsAt' = pullsAt
    BY <1>4, <1>6
  <2> QED  BY <1>2, <1>3, <1>4, <1>5, <2>1, <2>2 DEF RepoTypes
<1>7. CASE q.kind = "cred"
  <2>1. q.ns \in Spaces
    BY <1>1, <1>7 DEF RequestOk
  <2>2. pullsAt' = [pullsAt EXCEPT ![q.ns] = @ \union {NewPull}]
    BY <1>4, <1>7
  <2>3. /\ \A n \in Spaces : pullsAt[n] \subseteq pullsAt'[n]
        /\ NewPull \in pullsAt'[q.ns]
        /\ pullsAt' \in [Spaces -> SUBSET AllPulls]
    BY <2>1, <2>2 DEF RepoTypes, AllPulls
  <2>4. createDockerRegistrySecret(q, a)
    BY <1>2, <1>7, DeliverCred
  <2>5. FormSide(st', form', requests', pullsAt')
    BY <2>3, <2>4, CredForm
  <2> QED  BY <1>2, <1>3, <1>4, <1>5, <2>3, <2>5 DEF RepoTypes
<1> QED  BY <1>6, <1>7

LEMMA FailedForm ==
    ASSUME RepoTypes, FormSide(st, form, requests, pullsAt), NEW q \in requests, FailedRequest(q)
    PROVE  /\ FormSide(st', form', requests', pullsAt') /\ RepoTypes'
           /\ \E a : GoodAnswer(q, a) /\ Deliver(q, a)
<1> DEFINE a == Reply(FALSE, None)
<1>1. /\ q.reply = None /\ Deliver(q, a)
      /\ UNCHANGED <<server, pullsAt, page>>
  BY DEF FailedRequest, backend
<1>2. GoodAnswer(q, a) /\ ~a.ok
  BY <1>1, FailedAnswers
<1> HIDE DEF a
<1>3. dirty' \in BOOLEAN
  BY <1>1, DeliverDirty DEF RepoTypes
<1>4. FormSide(st', form', requests', pullsAt)
  <2>1. CASE q.kind # "cred"
    BY <1>1, <1>2, <2>1, DeliverForm
  <2>2. CASE q.kind = "cred"
    <3>1. createDockerRegistrySecret(q, a)
      BY <1>1, <2>2, DeliverCred
    <3> QED  BY <1>2, <3>1, CredForm
  <2> QED  BY <2>1, <2>2
<1> QED  BY <1>1, <1>2, <1>3, <1>4 DEF RepoTypes

(* The form's part holds at first and is kept by every action. *)
LEMMA InitForm ==
    ASSUME Init
    PROVE  RepoTypes /\ FormSide(st, form, requests, pullsAt)
<1>1. /\ RequestOk(ListRequest(Team)) /\ ListRequest(Team).kind = "list"
      /\ ListRequest(Team).mode = None
  BY NewLists DEF Spaces
<1>2. TaskOk(ListRequest(Team), pullsAt)
  BY <1>1, OtherTasks DEF Tasks
<1>3. AllOk(requests) /\ TasksOk(requests, pullsAt)
  BY <1>1, <1>2 DEF Init, AllOk, TasksOk
<1>4. st \in Stores
  <2>1. << >> \in Seq(Rows) /\ << >> \in Seq(Secrets) /\ {} \in SUBSET AllPulls /\ {} \in SUBSET Ops
    OBVIOUS
  <2> QED  BY <2>1 DEF Init, Stores
<1>5. server \in [Spaces -> Specs \union {None}]
  <2>1. PICK g \in FirstSpec(Global), t \in FirstSpec(Team) \union {None} :
          server = [n \in Spaces |-> IF n = Global THEN g ELSE t]
    BY DEF Init
  <2> QED  BY <2>1, FirstIsSpec DEF Spaces
<1>6. pullsAt \in [Spaces -> SUBSET AllPulls]
  <2>1. \A n \in Spaces : Pulls(n) \subseteq AllPulls
    BY DEF Spaces, AllPulls
  <2> QED  BY <2>1 DEF Init
<1> QED  BY <1>3, <1>4, <1>5, <1>6 DEF Init, RepoTypes, FormSide, Spaces

LEMMA ButtonsForm ==
    ASSUME RepoTypes, FormSide(st, form, requests, pullsAt), ListButtons
    PROVE  FormSide(st', form', requests', pullsAt') /\ RepoTypes'
<1>1. st \in Stores
  BY DEF FormSide
<1>2. ASSUME NEW all \in BOOLEAN, NEW n \in Spaces, MoveTo([all |-> all, ns |-> n])
      PROVE  FormSide(st', form', requests', pullsAt') /\ RepoTypes'
  <2> DEFINE p == [all |-> all, ns |-> n]
  <2>1. p \in [all : BOOLEAN, ns : Spaces] /\ MoveTo(p)
    BY <1>2
  <2> HIDE DEF p
  <2> QED  BY <2>1, MoveToForm
<1>3. ASSUME handleResyncAllClick
      PROVE  FormSide(st', form', requests', pullsAt') /\ RepoTypes'
  <2> DEFINE S == {st.repos[i].ns : i \in DOMAIN st.repos}
  <2>1. S \subseteq Spaces /\ handleResyncClick(S)
    BY <1>1, <1>3, RepoSpaces DEF handleResyncAllClick
  <2> HIDE DEF S
  <2> QED  BY <2>1, ResyncForm
<1>4. ASSUME NEW n \in Spaces, handleResyncClick({n})
      PROVE  FormSide(st', form', requests', pullsAt') /\ RepoTypes'
  <2> DEFINE S == {n}
  <2>1. S \subseteq Spaces /\ handleResyncClick(S)
    BY <1>4
  <2> HIDE DEF S
  <2> QED  BY <2>1, ResyncForm
<1> QED  BY <1>2, <1>3, <1>4, DeleteForm, OpenFormForm DEF ListButtons

LEMMA NextForm ==
    ASSUME RepoTypes, FormSide(st, form, requests, pullsAt), [Next]_vars
    PROVE  FormSide(st', form', requests', pullsAt') /\ RepoTypes'
<1>1. CASE UNCHANGED vars
  BY <1>1 DEF vars, RepoTypes
<1>2. ASSUME NEW q \in requests, Backend(q)
      PROVE  FormSide(st', form', requests', pullsAt') /\ RepoTypes'
  <2>1. list(q) \/ Writes(q)
    BY <1>2 DEF Backend
  <2> QED  BY <1>2, <2>1, ListForm, WritesForm
<1> QED  BY <1>1, <1>2, ButtonsForm, FieldsForm, CloseFormForm, CredentialsForm, InstallForm,
            SecretFailsForm, FailedForm, AnswerForm, ElsewhereForm DEF Next

(* The inductive invariant that the next two theorems rest on. *)
FormSafe == RepoTypes /\ FormSide(st, form, requests, pullsAt)

LEMMA FormSafety == Spec => []FormSafe
<1>1. Init => FormSafe
  BY InitForm DEF FormSafe
<1>2. FormSafe /\ [Next]_vars => FormSafe'
  BY NextForm DEF FormSafe
<1> QED  BY <1>1, <1>2, PTL DEF Spec

(* What AppRepoForm submits (install, after validateRepo) was validated    *)
(* with the URL and credentials that are sent, or the user insisted after  *)
(* a failed validation, and its pull secret exists in its namespace: for   *)
(* any URLs, headers and pull secrets, any number of requests on their way *)
(* and any order of their answers. The excuses are those of                *)
(* SubmittedIsSound.                                                       *)
THEOREM SubmittedIsSoundHolds == Spec => []SubmittedIsSound
<1>1. FormSafe => SubmittedIsSound
  BY DEF FormSafe, FormSide, TasksOk, TaskOk, Tasks, SubmittedIsSound
<1> QED  BY <1>1, FormSafety, PTL

(* The update that is carried out is the request that leaves, whether or   *)
(* not its secret was written.                                             *)
LEMMA UpdateIsOwn ==
    ASSUME FormSafe, [Next]_vars, NEW q \in requests, q.kind = "update", q.reply = None,
           server' # server, q \notin requests'
    PROVE  \E b \in BOOLEAN : server' = [server EXCEPT ![q.ns] = Written(q, b)]
<1>1. \E p \in requests : (Backend(p) /\ Writes(p)) \/ SecretFails(p)
  <2>1. ~(UNCHANGED vars)
    BY DEF vars
  <2>2. Next
    BY <2>1
  <2>3. ~ListButtons /\ ~FormFields /\ ~CloseForm /\ ~handleCredentials /\ ~install
    BY DEF ListButtons, FormFields, CloseForm, handleCredentials, install, MoveTo,
           handleResyncAllClick, handleResyncClick, handleDeleteClick, OpenForm, handleURLChange,
           handleAuthRadioButtonChange, handleUserChange, handleAuthTokenChange,
           handleAuthHeaderChange, selectPullSecret, handleFilterNames, Edit, backend
  <2>4. \A p \in requests : ~FailedRequest(p) /\ ~Answer(p)
    BY DEF FailedRequest, Answer, backend
  <2>5. \A n \in Spaces : \A r \in FirstSpec(n) \union {None} : ~UpdatedElsewhere(n, r)
    <3>1. \A n : q \in Overtaken(requests, n)
      BY DEF Overtaken
    <3> QED  BY <3>1 DEF UpdatedElsewhere
  <2>6. PICK p \in requests : Backend(p) \/ SecretFails(p)
    BY <2>2, <2>3, <2>4, <2>5 DEF Next
  <2>7. ~list(p)
    BY DEF list, backend
  <2> QED  BY <2>6, <2>7 DEF Backend
<1>2. PICK p \in requests : (Backend(p) /\ Writes(p)) \/ SecretFails(p)
  BY <1>1
<1>3. RequestOk(p) /\ RepoTypes
  BY DEF FormSafe, FormSide, AllOk
<1>4. p.kind \in Mutations /\ \E b \in BOOLEAN, ok \in BOOLEAN : Write(p, b, ok)
  <2>1. CASE Backend(p) /\ Writes(p)
    BY <2>1, WritesFacts
  <2>2. CASE SecretFails(p)
    BY <2>2, SecretFailsIs
  <2> QED  BY <1>2, <2>1, <2>2
<1>5. PICK b \in BOOLEAN, ok \in BOOLEAN : Write(p, b, ok)
  BY <1>4
<1>6. /\ server' = [server EXCEPT ![p.ns] = Written(p, b)]
      /\ requests' = Overtaken(requests \ {p}, p.ns) \union {Replied(p, Outcome(p, b, ok))}
  BY <1>3, <1>4, <1>5, WriteFacts
<1>7. q # p => q \in Overtaken(requests \ {p}, p.ns)
  BY DEF Overtaken
<1> QED  BY <1>6, <1>7

(* No step that carries an update out, also one that fails on the secret,  *)
(* changes the header of a repository whose credentials the form was       *)
(* filled from and the user did not touch: the form's effect on secret and *)
(* authHeader takes the header apart, and install puts it together again.  *)
(* It is about the headers that survive this.                              *)
THEOREM CredentialsAreKept == Spec => CredentialsKept
<1>1. ASSUME FormSafe, [Next]_vars, NEW q \in requests, q.kind = "update", q.reply = None,
             server[q.ns] # None, server[q.ns].ref = Own, Survives(server[q.ns].header),
             q.seen = [ns |-> q.ns, header |-> server[q.ns].header],
             server' # server, q \notin requests'
      PROVE  /\ server'[q.ns] # None
             /\ server'[q.ns].ref = Own /\ server'[q.ns].header = server[q.ns].header
  <2> DEFINE h == server[q.ns].header
  <2>1. RequestOk(q) /\ TaskOk(q, pullsAt) /\ RepoTypes
    BY <1>1 DEF FormSafe, FormSide, AllOk, TasksOk
  <2>2. q.ns \in Spaces /\ q.kind \in Mutations
    BY <1>1, <2>1 DEF RequestOk, Mutations
  <2>3. PICK b \in BOOLEAN : server' = [server EXCEPT ![q.ns] = Written(q, b)]
    BY <1>1, UpdateIsOwn
  <2>4. server'[q.ns] = Written(q, b)
    BY <2>1, <2>2, <2>3 DEF RepoTypes
  <2>5. h \in Headers
    BY <1>1, <2>1, <2>2 DEF RepoTypes, Specs, HeaderOrNone, Survives
  <2>6. q.seen.header = h /\ q.seen \in Secrets
    BY <1>1, <2>2, <2>5 DEF Secrets
  <2>7. q.vals.header = h
    BY <1>1, <2>1, <2>6, NoneAssumption DEF TaskOk, Tasks
  <2>8. Ref(q.vals.header) = Own
    BY <2>5, <2>7 DEF Ref
  <2>9. Written(q, b) \in Specs /\ Written(q, b).ref = Own /\ Written(q, b).header = h
    BY <1>1, <2>1, <2>2, <2>7, <2>8, WrittenFacts
  <2> QED  BY <2>4, <2>9, NoneAssumption
<1> DEFINE Step == \A q \in requests :
        (/\ q.kind = "update" /\ q.reply = None /\ server[q.ns] # None
         /\ server[q.ns].ref = Own /\ Survives(server[q.ns].header)
         /\ q.seen = [ns |-> q.ns, header |-> server[q.ns].header]
         /\ server' # server /\ q \notin requests')
            => /\ server'[q.ns] # None
               /\ server'[q.ns].ref = Own /\ server'[q.ns].header = server[q.ns].header
<1>2. FormSafe /\ [Next]_vars => [Step]_vars
  BY <1>1
<1>3. Spec => [][Step]_vars
  BY <1>2, FormSafety, PTL DEF Spec
<1> QED  BY <1>3 DEF CredentialsKept

-----------------------------------------------------------------------------
(* The list *)

(* What a list of the namespaces S holds when the server has the           *)
(* repositories sv.                                                        *)
RowsIn(sv, S, n) == IF n \in S /\ sv[n] # None THEN <<RowFor(n, sv[n])>> ELSE << >>
ServerRows(sv, S) == RowsIn(sv, S, Team) \o RowsIn(sv, S, Global)
Scopes(q) == IF q.scope = All THEN Spaces ELSE IF q.stage = 1 THEN {q.scope} ELSE {Global}

(* An answer that nothing has overtaken is what the server holds now: the  *)
(* row of a repository that was written, and a list in each of its stages. *)
FreshOk(q, sv) ==
    ~q.stale =>
        /\ Wrote(q) => (sv[q.ns] # None /\ q.reply.val = RowFor(q.ns, sv[q.ns]))
        /\ q.kind = "list" =>
              /\ q.reply # None => q.reply.val = ServerRows(sv, Scopes(q))
              /\ q.stage = 1 => q.part = << >>
              /\ q.stage = 2 => (q.scope = Team /\ q.part = ServerRows(sv, {Team}))
AllFresh(Q, sv) == \A q \in Q : FreshOk(q, sv)

(* Of two writes of one namespace the server carried the later one out     *)
(* after the other, which is then out of date.                             *)
OneWriter(Q) ==
    \A q, r \in Q :
        (Wrote(q) /\ Wrote(r) /\ ~q.stale /\ ~r.stale /\ q.ns = r.ns) => q = r

(* A list, or a deletion that will ask for one, is on its way; a write     *)
(* that is out of date or that is answered by an error is, and its answer  *)
(* will make the list known to differ; a write that is current is.         *)
Refetch(Q) == \E q \in Q : q.kind = "list" \/ (q.kind = "delete" /\ q.reply # None)
Overdue(Q) == \E q \in Q : (Wrote(q) /\ q.stale) \/ Torn(q)
Pending(Q, kind, n) == \E q \in Q : Wrote(q) /\ ~q.stale /\ q.kind = kind /\ q.ns = n
(* The list L shows what the server has in the namespaces C, up to the     *)
(* answers of current writes that are still on their way.                  *)
There(L, n) == \E i \in DOMAIN L : L[i].ns = n
Match(L, sv, C, Q) ==
    /\ \A i \in DOMAIN L : L[i].ns \in C
    /\ \A i, j \in DOMAIN L : L[i].ns = L[j].ns => i = j
    /\ \A n \in C :
          /\ sv[n] = None => ~There(L, n)
          /\ sv[n] # None =>
                \/ \E i \in DOMAIN L : L[i] = RowFor(n, sv[n])
                \/ There(L, n) /\ Pending(Q, "update", n)
                \/ ~There(L, n) /\ Pending(Q, "create", n)
          /\ Pending(Q, "create", n) => ~There(L, n)

(* The invariant's part about the list.  The list may differ from the      *)
(* server without a known reason only while something is on its way that   *)
(* will replace it, or that will be the reason.                            *)
ListSide(L, sv, C, Q, d) ==
    /\ AllFresh(Q, sv)
    /\ OneWriter(Q)
    /\ ~d => (Refetch(Q) \/ Overdue(Q) \/ Match(L, sv, C, Q))

LEMMA AsServerRows ==
    ASSUME NEW S
    PROVE  AsListed(S) = ServerRows(server, S)
<1>1. \A n : Listed(n) = RowFor(n, server[n])
  BY DEF Listed
<1>2. \A n : ListedIn(S, n) = RowsIn(server, S, n)
  BY <1>1 DEF ListedIn, RowsIn
<1> QED  BY <1>2 DEF AsListed, ServerRows

(* Only these requests matter to the list. *)
Busy(q) == q.kind = "list" \/ Wrote(q) \/ Torn(q) \/ (q.kind = "delete" /\ q.reply # None)

LEMMA SameBusy ==
    ASSUME NEW L, NEW sv, NEW C, NEW Q, NEW R, NEW d, NEW d2, ListSide(L, sv, C, Q, d),
           ~d2 => ~d,
           \A q \in Q : Busy(q) => q \in R,
           \A q \in R : Busy(q) => q \in Q
    PROVE  ListSide(L, sv, C, R, d2)
<1>1. AllFresh(R, sv)
  <2> SUFFICES ASSUME NEW q \in R PROVE FreshOk(q, sv)
    BY DEF AllFresh
  <2>1. CASE Busy(q)
    BY <2>1 DEF ListSide, AllFresh
  <2>2. CASE ~Busy(q)
    BY <2>2 DEF FreshOk, Busy
  <2> QED  BY <2>1, <2>2
<1>2. OneWriter(R)
  <2>1. \A q \in R : Wrote(q) => q \in Q
    BY DEF Busy
  <2> QED  BY <2>1 DEF ListSide, OneWriter
<1>3. Refetch(Q) => Refetch(R)
  BY DEF Refetch, Busy
<1>4. Overdue(Q) => Overdue(R)
  BY DEF Overdue, Busy
<1>5. \A kind, n : Pending(Q, kind, n) <=> Pending(R, kind, n)
  BY DEF Pending, Busy
<1>6. Match(L, sv, C, Q) => Match(L, sv, C, R)
  BY <1>5 DEF Match
<1> QED  BY <1>1, <1>2, <1>3, <1>4, <1>6 DEF ListSide

LEMMA DetachedList ==
    ASSUME NEW L, NEW sv, NEW C, NEW Q, NEW d, NEW f, NEW s, \A q \in Q : q \in RequestSet,
           ListSide(L, sv, C, Q, d)
    PROVE  ListSide(L, sv, C, Detached(Q, f, s), d)
<1> DEFINE D == Detached(Q, f, s)
<1>1. D = {Shut(q, f, s) : q \in Q}
  BY DEF Detached, Shut
<1>2. ASSUME NEW q \in Q
      PROVE  /\ Like(Shut(q, f, s), q) /\ Shut(q, f, s).stale = q.stale
             /\ Wrote(Shut(q, f, s)) <=> Wrote(q)
             /\ Torn(Shut(q, f, s)) <=> Torn(q)
  <2>1. Like(Shut(q, f, s), q) /\ Shut(q, f, s).stale = q.stale
    BY ShutFacts
  <2> QED  BY <2>1 DEF Like, Wrote, Torn
<1>3. \A q \in Q : Shut(q, f, s) \in D
  BY <1>1
<1>4. \A r \in D : \E q \in Q : r = Shut(q, f, s)
  BY <1>1
<1> HIDE DEF D
<1>5. AllFresh(D, sv)
  <2> SUFFICES ASSUME NEW r \in D PROVE FreshOk(r, sv)
    BY DEF AllFresh
  <2>1. PICK q \in Q : r = Shut(q, f, s)
    BY <1>4
  <2>2. Like(r, q) /\ r.stale = q.stale /\ (Wrote(r) <=> Wrote(q)) /\ FreshOk(q, sv)
    BY <1>2, <2>1 DEF ListSide, AllFresh
  <2>3. Scopes(r) = Scopes(q)
    BY <2>2 DEF Like, Scopes
  <2> QED  BY <2>2, <2>3 DEF FreshOk, Like
<1>6. OneWriter(D)
  <2> SUFFICES ASSUME NEW r \in D, NEW t \in D, Wrote(r), Wrote(t), ~r.stale, ~t.stale, r.ns = t.ns
               PROVE  r = t
    BY DEF OneWriter
  <2>1. PICK q \in Q : r = Shut(q, f, s)
    BY <1>4
  <2>2. PICK p \in Q : t = Shut(p, f, s)
    BY <1>4
  <2>3. Wrote(q) /\ ~q.stale /\ q.ns = r.ns
    BY <1>2, <2>1 DEF Like
  <2>4. Wrote(p) /\ ~p.stale /\ p.ns = t.ns
    BY <1>2, <2>2 DEF Like
  <2>5. q = p
    BY <2>3, <2>4 DEF ListSide, OneWriter
  <2> QED  BY <2>1, <2>2, <2>5
<1>7. Refetch(Q) => Refetch(D)
  BY <1>2, <1>3 DEF Refetch, Like
<1>8. Overdue(Q) => Overdue(D)
  BY <1>2, <1>3 DEF Overdue
<1>9. ASSUME NEW kind, NEW n PROVE Pending(Q, kind, n) <=> Pending(D, kind, n)
  <2>1. Pending(Q, kind, n) => Pending(D, kind, n)
    BY <1>2, <1>3 DEF Pending, Like
  <2>2. ASSUME NEW r \in D, Wrote(r), ~r.stale, r.kind = kind, r.ns = n
        PROVE  Pending(Q, kind, n)
    <3>1. PICK q \in Q : r = Shut(q, f, s)
      BY <1>4
    <3> QED  BY <1>2, <2>2, <3>1 DEF Pending, Like
  <2> QED  BY <2>1, <2>2 DEF Pending
<1>10. Match(L, sv, C, Q) => Match(L, sv, C, D)
  BY <1>9 DEF Match
<1>11. ListSide(L, sv, C, D, d)
  BY <1>5, <1>6, <1>7, <1>8, <1>10 DEF ListSide
<1> QED  BY <1>11 DEF D

(* A list on its way, or a write that is answered by an error. *)
LEMMA AddList ==
    ASSUME NEW Q, NEW sv, AllFresh(Q, sv), OneWriter(Q), NEW r, FreshOk(r, sv),
           ~Wrote(r), Refetch({r}) \/ Overdue({r}), NEW L, NEW C, NEW d
    PROVE  ListSide(L, sv, C, Q \union {r}, d)
<1>1. AllFresh(Q \union {r}, sv)
  BY DEF AllFresh
<1>2. OneWriter(Q \union {r})
  BY DEF OneWriter
<1>3. Refetch(Q \union {r}) \/ Overdue(Q \union {r})
  BY DEF Refetch, Overdue
<1> QED  BY <1>1, <1>2, <1>3 DEF ListSide

LEMMA FewerFresh ==
    ASSUME NEW Q, NEW R, R \subseteq Q, NEW sv, AllFresh(Q, sv), OneWriter(Q)
    PROVE  AllFresh(R, sv) /\ OneWriter(R)
BY DEF AllFresh, OneWriter

LEMMA OvertakenFresh ==
    ASSUME NEW Q, \A q \in Q : q \in RequestSet, NEW n, NEW sv, NEW sv2, AllFresh(Q, sv),
           \A m : m # n => sv2[m] = sv[m]
    PROVE  AllFresh(Overtaken(Q, n), sv2)
<1> SUFFICES ASSUME NEW r \in Overtaken(Q, n) PROVE FreshOk(r, sv2)
  BY DEF AllFresh
<1>1. PICK q \in Q : r = IF (q.kind = "list" /\ (q.reply # None \/ q.stage = 2))
                            \/ (q.reply # None /\ q.ns = n)
                         THEN Late(q) ELSE q
  BY DEF Overtaken, Late
<1>2. CASE r = Late(q)
  <2>1. r.stale
    BY <1>2, LateFacts
  <2> QED  BY <2>1 DEF FreshOk
<1>3. CASE r # Late(q)
  <2>1. /\ r = q /\ FreshOk(q, sv)
        /\ ~(q.kind = "list" /\ (q.reply # None \/ q.stage = 2)) /\ ~(q.reply # None /\ q.ns = n)
    BY <1>1, <1>3 DEF AllFresh
  <2> QED  BY <2>1 DEF FreshOk, Wrote
<1> QED  BY <1>2, <1>3

LEMMA OvertakenOne ==
    ASSUME NEW Q, \A q \in Q : q \in RequestSet, NEW n, OneWriter(Q)
    PROVE  /\ OneWriter(Overtaken(Q, n))
           /\ \A r \in Overtaken(Q, n) :
                 (Wrote(r) /\ ~r.stale) => (r \in Q /\ r.ns # n)
           /\ \A q \in Q : (Wrote(q) /\ ~q.stale /\ q.ns # n) => q \in Overtaken(Q, n)
           /\ \A q \in Q : (Wrote(q) /\ q.ns = n) =>
                 \E r \in Overtaken(Q, n) : Wrote(r) /\ r.stale
           /\ Refetch(Q) => Refetch(Overtaken(Q, n))
           /\ Overdue(Q) => Overdue(Overtaken(Q, n))
<1> DEFINE Out(q) == (q.kind = "list" /\ (q.reply # None \/ q.stage = 2)) \/ (q.reply # None /\ q.ns = n)
           O == Overtaken(Q, n)
<1>1. O = {IF Out(q) THEN Late(q) ELSE q : q \in Q}
  BY DEF Overtaken, Late
<1>2. \A r \in O : \E q \in Q : (Out(q) /\ r = Late(q)) \/ (~Out(q) /\ r = q)
  BY <1>1
<1>3. \A q \in Q : (Out(q) => Late(q) \in O) /\ (~Out(q) => q \in O)
  BY <1>1
<1>4. \A q \in Q : /\ Late(q).stale /\ Late(q).kind = q.kind /\ Late(q).reply = q.reply
                   /\ Wrote(Late(q)) <=> Wrote(q)
                   /\ Torn(Late(q)) <=> Torn(q)
  BY LateFacts DEF Like, Wrote, Torn
<1> HIDE DEF O
<1>5. ASSUME NEW r \in O, Wrote(r), ~r.stale PROVE r \in Q /\ r.ns # n
  <2>1. PICK q \in Q : (Out(q) /\ r = Late(q)) \/ (~Out(q) /\ r = q)
    BY <1>2
  <2>2. ~Out(q) /\ r = q
    BY <1>4, <1>5, <2>1
  <2> QED  BY <1>5, <2>2 DEF Wrote
<1>6. OneWriter(O)
  BY <1>5 DEF OneWriter
<1>7. \A q \in Q : (Wrote(q) /\ ~q.stale /\ q.ns # n) => q \in O
  BY <1>3 DEF Wrote
<1>8. \A q \in Q : (Wrote(q) /\ q.ns = n) => \E r \in O : Wrote(r) /\ r.stale
  BY <1>3, <1>4 DEF Wrote
<1>9. Refetch(Q) => Refetch(O)
  BY <1>3, <1>4 DEF Refetch
<1>10. Overdue(Q) => Overdue(O)
  <2> SUFFICES ASSUME NEW q \in Q, (Wrote(q) /\ q.stale) \/ Torn(q) PROVE Overdue(O)
    BY DEF Overdue
  <2>1. CASE Out(q)
    BY <1>3, <1>4, <2>1 DEF Overdue
  <2>2. CASE ~Out(q)
    BY <1>3, <2>2 DEF Overdue
  <2> QED  BY <2>1, <2>2
<1> QED  BY <1>5, <1>6, <1>7, <1>8, <1>9, <1>10 DEF O

(* The list's part of the invariant. *)
ListInv == ListSide(st.repos, server, Covers(Scope), requests, dirty)

LEMMA RequestsAreTyped ==
    ASSUME FormSide(st, form, requests, pullsAt)
    PROVE  \A q \in requests : q \in RequestSet /\ RequestOk(q)
BY DEF FormSide, AllOk, RequestOk

(* A step that neither list, server, scope nor a request of weight sees. *)
LEMMA QuietStep ==
    ASSUME FormSide(st, form, requests, pullsAt), ListInv, NEW Old, NEW New,
           \A q \in Old \union New : ~Busy(q),
           requests' = (requests \ Old) \union New,
           st'.repos = st.repos, server' = server, Scope' = Scope, dirty' = dirty
    PROVE  ListInv'
<1> DEFINE R == (requests \ Old) \union New
<1>1. ListSide(st.repos, server, Covers(Scope), R, dirty)
  BY SameBusy DEF ListInv
<1> HIDE DEF R
<1>2. requests' = R /\ Covers(Scope)' = Covers(Scope)
  BY DEF R, Covers
<1> QED  BY <1>1, <1>2 DEF ListInv

(* The same with a change of the store around the form. *)
LEMMA QuietStore ==
    ASSUME FormSide(st, form, requests, pullsAt), ListInv, NEW Old, NEW New,
           \A q \in Old \union New : ~Busy(q), \A q \in New : q \in RequestSet,
           NEW Q, Q = (requests \ Old) \union New,
           NEW f, NEW s, requests' = Detached(Q, f, s),
           st'.repos = st.repos, server' = server, Scope' = Scope, dirty' = dirty
    PROVE  ListInv'
<1>1. ListSide(st.repos, server, Covers(Scope), Q, dirty)
  BY SameBusy DEF ListInv
<1>2. \A q \in Q : q \in RequestSet
  BY RequestsAreTyped
<1>3. ListSide(st.repos, server, Covers(Scope), requests', dirty)
  BY <1>1, <1>2, DetachedList
<1>4. Covers(Scope)' = Covers(Scope)
  BY DEF Covers
<1> QED  BY <1>3, <1>4 DEF ListInv

LEMMA UnderIs ==
    ASSUME NEW g, NEW s, NEW Q, NEW rc, NEW sc, StoreUnder(g, s, Q, rc, sc)
    PROVE  st' = s /\ requests' = Detached(Q, form', s)
BY DEF StoreUnder

LEMMA StoreIs ==
    ASSUME NEW s, NEW Q, NEW rc, NEW sc, Store(s, Q, rc, sc)
    PROVE  st' = s /\ requests' = Detached(Q, form', s)
BY UnderIs DEF Store

LEMMA NewListFresh ==
    ASSUME NEW scope \in Spaces \union {All}, NEW sv
    PROVE  /\ FreshOk(ListRequest(scope), sv) /\ Refetch({ListRequest(scope)})
           /\ ListRequest(scope) \in RequestSet /\ ~Wrote(ListRequest(scope))
<1>1. /\ RequestOk(ListRequest(scope)) /\ ListRequest(scope).kind = "list"
      /\ ListRequest(scope).reply = None /\ ListRequest(scope).stage = 1
      /\ ListRequest(scope).part = << >>
  BY NewLists
<1> QED  BY <1>1 DEF FreshOk, Refetch, Wrote, RequestOk

LEMMA IdleKinds ==
    ASSUME NEW q, q.kind \in {"secret", "pulls", "validate", "resync", "cred"} \/ q.reply = None,
           q.kind # "list"
    PROVE  ~Busy(q)
BY DEF Busy, Wrote, Torn

LEMMA MoveToList ==
    ASSUME RepoTypes, FormSide(st, form, requests, pullsAt), ListInv,
           NEW p \in [all : BOOLEAN, ns : Spaces], MoveTo(p)
    PROVE  ListInv'
<1> DEFINE scope == IF p.all THEN All ELSE p.ns
           f == FormIn(p.ns)
           Old == {}
           New == PullsOf(p.ns)
           N == requests \union New
<1>1. scope \in Spaces \union {All} /\ p.ns \in Spaces
  OBVIOUS
<1>2. st \in Stores
  BY DEF FormSide
<1>3. server' = server /\ dirty' = dirty /\ page' = p
  BY DEF MoveTo, backend
<1>4. Scope' = scope
  BY <1>3 DEF Scope
<1>5. \A q \in New : q \in RequestSet /\ ~Busy(q)
  BY <1>1, PullsOfOk, IdleKinds DEF RequestOk
<1>6. CASE scope = Scope
  <2> DEFINE s == LOCATION_CHANGE(st)
  <2>1. StoreUnder(f, s, N, FALSE, FALSE)
    BY <1>6 DEF MoveTo, PullsOf
  <2>2. st' = s /\ requests' = Detached(N, form', s)
    <3> HIDE DEF f, s, N
    <3> QED  BY <2>1, UnderIs
  <2>3. st'.repos = st.repos
    BY <1>2, <2>2, StoreTypes
  <2>4. /\ N = (requests \ Old) \union New
        /\ \A q \in Old \union New : ~Busy(q)
    BY <1>5
  <2>5. Scope' = Scope
    BY <1>4, <1>6
  <2> HIDE DEF Old, New, N, s
  <2> QED  BY <1>3, <1>5, <2>2, <2>3, <2>4, <2>5, QuietStore
<1>7. CASE scope # Scope
  <2> DEFINE l == ListRequest(scope)
             Q == N \union {l}
             s == requestRepos(LOCATION_CHANGE(st))
  <2>1. StoreUnder(f, s, Q, FALSE, FALSE)
    BY <1>7 DEF MoveTo, PullsOf
  <2> HIDE DEF scope
  <2>2. FreshOk(l, server) /\ Refetch({l}) /\ l \in RequestSet /\ ~Wrote(l)
    BY <1>1, NewListFresh
  <2>3. AllFresh(N, server) /\ OneWriter(N)
    <3>1. \A q \in New : FreshOk(q, server) /\ ~Wrote(q)
      BY <1>5 DEF Busy, FreshOk
    <3> QED  BY <3>1 DEF ListInv, ListSide, AllFresh, OneWriter
  <2>4. \A q \in Q : q \in RequestSet
    BY <1>5, <2>2, RequestsAreTyped
  <2>5. requests' = Detached(Q, form', s)
    <3> HIDE DEF f, s, Q
    <3> QED  BY <2>1, UnderIs
  <2> HIDE DEF N, l
  <2>6. ListSide(st'.repos, server, Covers(Scope)', Q, dirty)
    BY <2>2, <2>3, AddList
  <2> HIDE DEF Q, s
  <2>7. ListSide(st'.repos, server, Covers(Scope)', requests', dirty)
    BY <2>4, <2>5, <2>6, DetachedList
  <2> QED  BY <1>3, <2>7 DEF ListInv
<1> QED  BY <1>6, <1>7

LEMMA ButtonsList ==
    ASSUME RepoTypes, FormSide(st, form, requests, pullsAt), ListInv, ListButtons
    PROVE  ListInv'
<1>1. st \in Stores
  BY DEF FormSide
<1>2. ASSUME NEW all \in BOOLEAN, NEW n \in Spaces, MoveTo([all |-> all, ns |-> n])
      PROVE  ListInv'
  <2> DEFINE p == [all |-> all, ns |-> n]
  <2>1. p \in [all : BOOLEAN, ns : Spaces] /\ MoveTo(p)
    BY <1>2
  <2> HIDE DEF p
  <2> QED  BY <2>1, MoveToList
<1>3. ASSUME NEW S, S \subseteq Spaces, handleResyncClick(S)
      PROVE  ListInv'
  <2> DEFINE New == {Request("resync", n) : n \in S}
  <2>1. /\ requests' = requests \union New
        /\ server' = server /\ page' = page /\ st' = st /\ dirty' = dirty
    BY <1>3 DEF handleResyncClick, backend
  <2>2. \A n \in S : Request("resync", n).kind = "resync"
    BY <1>3, NewRequests DEF AtOnce
  <2>3. \A q \in New : ~Busy(q)
    BY <2>2, IdleKinds
  <2> HIDE DEF New
  <2>4. Scope' = Scope
    BY <2>1 DEF Scope
  <2> DEFINE Old == {}
  <2>5. requests' = (requests \ Old) \union New /\ \A q \in Old \union New : ~Busy(q)
    BY <2>1, <2>3
  <2> HIDE DEF Old
  <2> QED  BY <2>1, <2>4, <2>5, QuietStep
<1>4. ASSUME handleResyncAllClick
      PROVE  ListInv'
  <2> DEFINE S == {st.repos[i].ns : i \in DOMAIN st.repos}
  <2>1. S \subseteq Spaces /\ handleResyncClick(S)
    BY <1>1, <1>4, RepoSpaces DEF handleResyncAllClick
  <2> HIDE DEF S
  <2> QED  BY <2>1, <1>3
<1>5. ASSUME NEW n \in Spaces, handleResyncClick({n})
      PROVE  ListInv'
  <2> DEFINE S == {n}
  <2>1. S \subseteq Spaces /\ handleResyncClick(S)
    BY <1>5
  <2> HIDE DEF S
  <2> QED  BY <2>1, <1>3
<1>6. ASSUME NEW n \in Spaces, handleDeleteClick(n)
      PROVE  ListInv'
  <2> DEFINE q == [Request("delete", n) EXCEPT !.scope = Scope]
             Old == {}
             New == {q}
  <2>1. /\ requests' = requests \union {q}
        /\ server' = server /\ page' = page /\ st' = st /\ dirty' = dirty
    BY <1>6 DEF handleDeleteClick, backend
  <2>2. Scope \in Spaces \union {All}
    BY ScopeTypes DEF RepoTypes
  <2>3. q.kind = "delete" /\ q.reply = None
    BY <2>2, DeleteRequest
  <2> HIDE DEF q
  <2>4. requests' = (requests \ Old) \union New /\ \A r \in Old \union New : ~Busy(r)
    BY <2>1, <2>3, IdleKinds
  <2>5. Scope' = Scope
    BY <2>1 DEF Scope
  <2> HIDE DEF Old, New
  <2> QED  BY <2>1, <2>4, <2>5, QuietStep
<1>7. ASSUME NEW n \in Spaces, NEW mode \in Modes, OpenForm(mode, n)
      PROVE  ListInv'
  <2> DEFINE New == {Request("pulls", n)} \union
                    (IF mode = "edit" THEN SecretRequests(RowOf(st, n)) ELSE {})
             Old == {}
  <2>1. /\ requests' = requests \union New
        /\ server' = server /\ page' = page /\ st' = st /\ dirty' = dirty
    BY <1>7 DEF OpenForm, backend
  <2>2. /\ Request("pulls", n).kind = "pulls"
        /\ \A q \in SecretRequests(RowOf(st, n)) : q.kind = "secret"
    BY <1>1, NewRequests, RowOfTypes, SecretRequestsOk DEF AtOnce
  <2>3. \A q \in New : q.kind \in {"pulls", "secret"}
    BY <2>2
  <2> HIDE DEF New
  <2>4. requests' = (requests \ Old) \union New /\ \A q \in Old \union New : ~Busy(q)
    BY <2>1, <2>3, IdleKinds
  <2>5. Scope' = Scope
    BY <2>1 DEF Scope
  <2> HIDE DEF Old
  <2> QED  BY <2>1, <2>4, <2>5, QuietStep
<1> QED  BY <1>2, <1>4, <1>5, <1>6, <1>7 DEF ListButtons

LEMMA OthersList ==
    ASSUME RepoTypes, FormSide(st, form, requests, pullsAt), ListInv,
           FormFields \/ CloseForm \/ handleCredentials \/ install
    PROVE  ListInv'
<1>1. server' = server /\ page' = page /\ dirty' = dirty /\ Scope' = Scope
  BY DEF FormFields, CloseForm, handleCredentials, install, handleURLChange,
         handleAuthRadioButtonChange, handleUserChange, handleAuthTokenChange,
         handleAuthHeaderChange,
         selectPullSecret, handleFilterNames, Edit, backend, Scope
<1>2. CASE FormFields
  <2>1. requests' = requests /\ st' = st
    BY <1>2 DEF FormFields, handleURLChange, handleAuthRadioButtonChange, handleUserChange,
                handleAuthTokenChange, handleAuthHeaderChange, selectPullSecret, handleFilterNames, Edit
  <2>2. Covers(Scope)' = Covers(Scope)
    BY <1>1 DEF Covers
  <2> QED  BY <1>1, <2>1, <2>2 DEF ListInv
<1>3. CASE CloseForm
  <2>1. requests' = Detached(requests, None, st) /\ st' = st
    BY <1>3 DEF CloseForm
  <2>2. requests = (requests \ {}) \union {}
    OBVIOUS
  <2> QED  BY <1>1, <2>1, <2>2, QuietStore
<1>4. ASSUME NEW q, requests' = requests \union {q}, ~Busy(q), st'.repos = st.repos
      PROVE  ListInv'
  <2> DEFINE Old == {}
             New == {q}
  <2>1. requests' = (requests \ Old) \union New /\ \A r \in Old \union New : ~Busy(r)
    BY <1>4
  <2> HIDE DEF Old, New
  <2> QED  BY <1>1, <1>4, <2>1, QuietStep
<1>5. CASE handleCredentials
  <2>1. PICK q : requests' = requests \union {q} /\ q.kind = "cred"
    BY <1>5, CredentialsForm
  <2>2. st' = st
    BY <1>5 DEF handleCredentials
  <2>3. ~Busy(q)
    BY <2>1, IdleKinds
  <2> QED  BY <1>4, <2>1, <2>2, <2>3
<1>6. CASE install
  <2>1. PICK q : requests' = requests \union {q} /\ q.kind \in Tasks /\ q.reply = None
    BY <1>6, InstallForm
  <2>2. st'.repos = st.repos
    BY <1>6, InstallForm
  <2>3. ~Busy(q)
    BY <2>1, IdleKinds DEF Tasks
  <2> QED  BY <1>4, <2>1, <2>2, <2>3
<1> QED  BY <1>2, <1>3, <1>5, <1>6

LEMMA BackendList ==
    ASSUME RepoTypes, FormSide(st, form, requests, pullsAt), ListInv,
           NEW q \in requests, Backend(q), list(q)
    PROVE  ListInv'
<1> DEFINE a == Reply(TRUE, Fetched(q))
           r == Replied(q, a)
           Q == requests \ {q}
<1>1. /\ requests' = Q \union {r} /\ RequestOk(q) /\ q.kind = "list" /\ a \in Answers
      /\ UNCHANGED <<server, page, st, dirty>>
  BY ListForm
<1>2. q \in RequestSet /\ FreshOk(q, server)
  BY <1>1 DEF RequestOk, ListInv, ListSide, AllFresh
<1>3. a.val = ServerRows(server, Scopes(q))
  BY AsServerRows DEF Reply, Fetched, Scopes
<1> HIDE DEF a
<1>4. /\ r.reply = a /\ r.kind = q.kind /\ r.scope = q.scope /\ r.stage = q.stage
      /\ r.part = q.part /\ r.stale = q.stale
  BY <1>1, <1>2, RepliedFacts
<1> HIDE DEF r
<1>5. Scopes(r) = Scopes(q) /\ ~Wrote(r)
  BY <1>1, <1>4 DEF Scopes, Wrote
<1>6. FreshOk(r, server)
  BY <1>1, <1>2, <1>3, <1>4, <1>5 DEF FreshOk
<1>7. Refetch({r})
  BY <1>1, <1>4 DEF Refetch
<1>8. AllFresh(Q, server) /\ OneWriter(Q)
  BY FewerFresh DEF ListInv, ListSide
<1> HIDE DEF Q
<1>9. ListSide(st'.repos, server, Covers(Scope)', Q \union {r}, dirty)
  BY <1>5, <1>6, <1>7, <1>8, AddList
<1> QED  BY <1>1, <1>9 DEF ListInv

(* A write that is carried out. *)
LEMMA WrittenList ==
    ASSUME RepoTypes, FormSide(st, form, requests, pullsAt), ListInv,
           NEW q \in requests, q.kind \in {"create", "update"}, q.reply = None, q.ns \in Spaces,
           NEW r, r.kind = q.kind, r.ns = q.ns, Wrote(r),
           NEW w \in Specs, r.reply.val = RowFor(q.ns, w),
           (q.kind = "create") <=> (server[q.ns] = None),
           NEW sv, sv[q.ns] = w, \A m : m # q.ns => sv[m] = server[m]
    PROVE  ListSide(st.repos, sv, Covers(Scope), Overtaken(requests \ {q}, q.ns) \union {r}, dirty)
<1> DEFINE Q == requests \ {q}
           O == Overtaken(Q, q.ns)
           R == O \union {r}
           L == st.repos
           C == Covers(Scope)
<1>1. /\ \A p \in Q : p \in RequestSet
      /\ AllFresh(Q, server) /\ OneWriter(Q)
  BY RequestsAreTyped, FewerFresh DEF ListInv, ListSide
<1>2. sv[q.ns] = w /\ w # None /\ server \in [Spaces -> Specs \union {None}]
  BY NoneAssumption DEF RepoTypes
<1>3. \A m : m # q.ns => sv[m] = server[m]
  OBVIOUS
<1>4. AllFresh(O, sv)
  BY <1>1, <1>3, OvertakenFresh
<1>5. /\ OneWriter(O)
      /\ \A p \in O : (Wrote(p) /\ ~p.stale) => (p \in Q /\ p.ns # q.ns)
      /\ \A p \in Q : (Wrote(p) /\ ~p.stale /\ p.ns # q.ns) => p \in O
      /\ \A p \in Q : (Wrote(p) /\ p.ns = q.ns) => \E t \in O : Wrote(t) /\ t.stale
      /\ Refetch(Q) => Refetch(O)
      /\ Overdue(Q) => Overdue(O)
  BY <1>1, OvertakenOne
<1>6. ~Wrote(q) /\ ~Torn(q)
  BY DEF Wrote, Torn
<1>7. FreshOk(r, sv)
  BY <1>2 DEF FreshOk
<1>8. AllFresh(R, sv)
  BY <1>4, <1>7 DEF AllFresh
<1>9. OneWriter(R)
  BY <1>5 DEF OneWriter
<1>10. Refetch(requests) => Refetch(R)
  <2>1. Refetch(requests) => Refetch(Q)
    BY DEF Refetch
  <2>2. Refetch(O) => Refetch(R)
    BY DEF Refetch
  <2> QED  BY <1>5, <2>1, <2>2
<1>11. Overdue(requests) => Overdue(R)
  <2>1. Overdue(requests) => Overdue(Q)
    BY <1>6 DEF Overdue
  <2>2. Overdue(O) => Overdue(R)
    BY DEF Overdue
  <2> QED  BY <1>5, <2>1, <2>2
<1> HIDE DEF O
<1>12. ASSUME Match(L, server, C, requests), ~Overdue(R)
       PROVE  Match(L, sv, C, R)
  <2>1. ~r.stale /\ \A p \in Q : ~(Wrote(p) /\ p.ns = q.ns)
    BY <1>5, <1>12 DEF Overdue
  <2>2. \A kind, n : n # q.ns => (Pending(R, kind, n) <=> Pending(requests, kind, n))
    BY <1>5, <1>6 DEF Pending
  <2>3. \A kind : ~Pending(requests, kind, q.ns)
    BY <1>6, <2>1 DEF Pending
  <2>4. \A kind : Pending(R, kind, q.ns) => kind = q.kind
    BY <1>5 DEF Pending
  <2>5. Pending(R, q.kind, q.ns)
    BY <2>1 DEF Pending
  <2> HIDE DEF R, L, C
  <2>6. /\ \A i \in DOMAIN L : L[i].ns \in C
        /\ \A i, j \in DOMAIN L : L[i].ns = L[j].ns => i = j
    BY <1>12 DEF Match
  <2>7. ASSUME NEW n \in C, n # q.ns
        PROVE  /\ sv[n] = None => ~There(L, n)
               /\ sv[n] # None =>
                     \/ \E i \in DOMAIN L : L[i] = RowFor(n, sv[n])
                     \/ There(L, n) /\ Pending(R, "update", n)
                     \/ ~There(L, n) /\ Pending(R, "create", n)
               /\ Pending(R, "create", n) => ~There(L, n)
    BY <1>3, <1>12, <2>2, <2>7 DEF Match
  <2>8. ASSUME q.ns \in C
        PROVE  /\ \/ There(L, q.ns) /\ Pending(R, "update", q.ns)
                  \/ ~There(L, q.ns) /\ Pending(R, "create", q.ns)
               /\ Pending(R, "create", q.ns) => ~There(L, q.ns)
    <3>1. CASE q.kind = "create"
      <4>1. ~There(L, q.ns)
        BY <1>12, <2>8, <3>1 DEF Match
      <4> QED  BY <2>5, <3>1, <4>1
    <3>2. CASE q.kind = "update"
      <4>1. server[q.ns] # None
        BY <3>2
      <4>2. \E i \in DOMAIN L : L[i] = RowFor(q.ns, server[q.ns])
        BY <1>12, <2>3, <2>8, <4>1 DEF Match
      <4>3. There(L, q.ns)
        BY <4>2 DEF There, RowFor
      <4>4. ~Pending(R, "create", q.ns) /\ Pending(R, "update", q.ns)
        BY <2>4, <2>5, <3>2
      <4> QED  BY <4>3, <4>4
    <3> QED  BY <3>1, <3>2
  <2> QED  BY <1>2, <2>6, <2>7, <2>8 DEF Match
<1> HIDE DEF R, L, C
<1>13. ListSide(L, sv, C, R, dirty)
  BY <1>8, <1>9, <1>10, <1>11, <1>12 DEF ListInv, ListSide, L, C
<1> QED  BY <1>13 DEF R, L, C, O, Q

(* A deletion asks for a list, a write is current when it is answered, and *)
(* one that is answered by an error is overdue.                            *)
LEMMA WriteList ==
    ASSUME RepoTypes, FormSide(st, form, requests, pullsAt), ListInv,
           NEW q \in requests, q.kind \in Mutations, q.reply = None, CanWrite(q),
           NEW b \in BOOLEAN, NEW ok \in BOOLEAN, Write(q, b, ok),
           UNCHANGED <<page, st, dirty>>
    PROVE  ListInv'
<1> DEFINE a == Outcome(q, b, ok)
           r == Replied(q, a)
           Q == requests \ {q}
           O == Overtaken(Q, q.ns)
           w == Written(q, b)
<1>1. RequestOk(q) /\ q \in RequestSet /\ \A p \in Q : p \in RequestSet
  BY RequestsAreTyped
<1>2. /\ server' = [server EXCEPT ![q.ns] = w] /\ requests' = O \union {r}
      /\ a \in Answers /\ a.ok = ok /\ q.ns \in Spaces
      /\ q.kind # "delete" => (w \in Specs /\ a.val = RowFor(q.ns, w) /\ a.val \in Rows)
  BY <1>1, WriteFacts
<1> HIDE DEF a, w
<1>3. r.reply = a /\ r.kind = q.kind /\ r.ns = q.ns /\ a # None
  BY <1>1, <1>2, RepliedFacts, NoneAssumption
<1> HIDE DEF r
<1>4. Covers(Scope)' = Covers(Scope) /\ st'.repos = st.repos /\ dirty' = dirty
  BY DEF Scope, Covers
<1>5. server'[q.ns] = w /\ \A m : m # q.ns => server'[m] = server[m]
  BY <1>2 DEF RepoTypes
<1>6. CASE q.kind # "delete" /\ ok
  <2>1. w \in Specs /\ r.reply.val = RowFor(q.ns, w) /\ Wrote(r)
    BY <1>2, <1>3, <1>6 DEF Wrote, Mutations
  <2>2. (q.kind = "create") <=> (server[q.ns] = None)
    BY <1>6 DEF CanWrite
  <2>3. q.kind \in {"create", "update"}
    BY <1>6 DEF Mutations
  <2>4. ListSide(st.repos, server', Covers(Scope), O \union {r}, dirty)
    BY <1>2, <1>3, <1>5, <2>1, <2>2, <2>3, WrittenList
  <2> QED  BY <1>2, <1>4, <2>4 DEF ListInv
<1>7. CASE q.kind = "delete" \/ ~ok
  <2>1. ~Wrote(r) /\ (Refetch({r}) \/ Overdue({r}))
    <3>1. CASE q.kind = "delete"
      BY <1>3, <3>1 DEF Wrote, Refetch
    <3>2. CASE q.kind # "delete"
      <4>1. ~ok /\ a.val \in Rows /\ a.val # None /\ q.kind \in {"create", "update"}
        BY <1>2, <1>7, <3>2, NoneAssumption DEF Mutations
      <4>2. Torn(r) /\ ~Wrote(r)
        BY <1>2, <1>3, <4>1 DEF Torn, Wrote
      <4> QED  BY <4>2 DEF Overdue
    <3> QED  BY <3>1, <3>2
  <2>2. FreshOk(r, server')
    BY <1>3, <2>1 DEF FreshOk, Mutations
  <2>3. AllFresh(Q, server) /\ OneWriter(Q)
    BY FewerFresh DEF ListInv, ListSide
  <2>4. AllFresh(O, server') /\ OneWriter(O)
    BY <1>1, <1>5, <2>3, OvertakenFresh, OvertakenOne
  <2> HIDE DEF O
  <2>5. ListSide(st'.repos, server', Covers(Scope)', O \union {r}, dirty')
    BY <2>1, <2>2, <2>4, AddList
  <2> QED  BY <1>2, <2>5 DEF ListInv
<1> QED  BY <1>6, <1>7

LEMMA WritesList ==
    ASSUME RepoTypes, FormSide(st, form, requests, pullsAt), ListInv,
           NEW q \in requests, Backend(q), Writes(q)
    PROVE  ListInv'
<1>1. q.kind \in Mutations /\ q.reply = None /\ UNCHANGED <<page, st, dirty>>
  BY WritesFacts
<1>2. CASE CanWrite(q)
  <2>1. PICK ok \in BOOLEAN : Write(q, TRUE, ok)
    BY <1>2, WritesFacts
  <2> DEFINE b == TRUE
  <2>2. b \in BOOLEAN /\ Write(q, b, ok)
    BY <2>1
  <2> HIDE DEF b
  <2> QED  BY <1>1, <1>2, <2>2, WriteList
<1>3. CASE ~CanWrite(q)
  <2> DEFINE a == Reply(FALSE, None)
             r == Replied(q, a)
             Q == requests \ {q}
             Old == {q}
             New == {r}
  <2>1. server' = server /\ requests' = Q \union {r}
    BY <1>3, WritesFacts
  <2>2. a \in Answers /\ ~a.ok /\ a.val = None /\ q \in RequestSet
    BY RequestsAreTyped DEF Reply, Answers
  <2> HIDE DEF a
  <2>3. r.reply = a /\ r.kind = q.kind
    BY <2>2, RepliedFacts
  <2>4. a # None
    BY <2>2, NoneAssumption
  <2> HIDE DEF r
  <2>5. ~Wrote(r) /\ ~Torn(r) /\ ~Wrote(q) /\ ~Torn(q)
    BY <1>1, <2>2, <2>3 DEF Wrote, Torn
  <2>6. Scope' = Scope /\ Covers(Scope)' = Covers(Scope) /\ st'.repos = st.repos /\ dirty' = dirty
    BY <1>1 DEF Scope, Covers
  <2>7. CASE q.kind = "delete"
    <3>1. Refetch({r}) /\ FreshOk(r, server)
      BY <2>3, <2>4, <2>5, <2>7 DEF Refetch, FreshOk
    <3>2. AllFresh(Q, server) /\ OneWriter(Q)
      BY FewerFresh DEF ListInv, ListSide
    <3> HIDE DEF Q
    <3>3. ListSide(st'.repos, server, Covers(Scope)', Q \union {r}, dirty')
      BY <2>5, <3>1, <3>2, AddList
    <3> QED  BY <2>1, <3>3 DEF ListInv
  <2>8. CASE q.kind # "delete"
    <3>1. requests' = (requests \ Old) \union New
      BY <2>1
    <3>2. \A p \in Old \union New : ~Busy(p)
      BY <1>1, <2>3, <2>5, <2>8 DEF Busy, Mutations
    <3> HIDE DEF Old, New
    <3> QED  BY <2>1, <2>6, <3>1, <3>2, QuietStep
  <2> QED  BY <2>7, <2>8
<1> QED  BY <1>2, <1>3

LEMMA SecretFailsList ==
    ASSUME RepoTypes, FormSide(st, form, requests, pullsAt), ListInv,
           NEW q \in requests, SecretFails(q)
    PROVE  ListInv'
<1>1. /\ q.kind \in Mutations /\ q.reply = None /\ CanWrite(q)
      /\ UNCHANGED <<page, st, dirty>>
  BY SecretFailsIs
<1>2. PICK b \in BOOLEAN : Write(q, b, FALSE)
  BY SecretFailsIs
<1> DEFINE ok == FALSE
<1>3. ok \in BOOLEAN /\ Write(q, b, ok)
  BY <1>2
<1> HIDE DEF ok
<1> QED  BY <1>1, <1>3, WriteList

LEMMA ElsewhereList ==
    ASSUME RepoTypes, FormSide(st, form, requests, pullsAt), ListInv,
           NEW n \in Spaces, NEW r \in FirstSpec(n) \union {None}, UpdatedElsewhere(n, r)
    PROVE  ListInv'
<1>1. server' = [server EXCEPT ![n] = r] /\ requests' = Overtaken(requests, n) /\ dirty' = TRUE
  BY DEF UpdatedElsewhere
<1>2. \A m : m # n => server'[m] = server[m]
  BY <1>1 DEF RepoTypes
<1>3. \A q \in requests : q \in RequestSet
  BY RequestsAreTyped
<1>4. AllFresh(requests, server) /\ OneWriter(requests)
  BY DEF ListInv, ListSide
<1>5. AllFresh(Overtaken(requests, n), server') /\ OneWriter(Overtaken(requests, n))
  BY <1>2, <1>3, <1>4, OvertakenFresh, OvertakenOne
<1> QED  BY <1>1, <1>5 DEF ListInv, ListSide

(* The rows of a fresh list are the server's. *)
LEMMA ServerRowsMatch ==
    ASSUME NEW sv, NEW C, NEW Q, \A n \in C : ~Pending(Q, "create", n), C \subseteq Spaces,
           NEW L, L = ServerRows(sv, C)
    PROVE  Match(L, sv, C, Q)
<1> DEFINE T == Team \in C /\ sv[Team] # None
           G == Global \in C /\ sv[Global] # None
           t == RowFor(Team, sv[Team])
           g == RowFor(Global, sv[Global])
<1>1. t.ns = Team /\ g.ns = Global /\ Team # Global
  BY RepoConstants DEF RowFor
<1>2. L = (IF T THEN <<t>> ELSE << >>) \o (IF G THEN <<g>> ELSE << >>)
  BY DEF ServerRows, RowsIn
<1>3. \A n \in C : n = Team \/ n = Global
  BY DEF Spaces
<1>4. ASSUME /\ \A i \in DOMAIN L : (T /\ L[i] = t) \/ (G /\ L[i] = g)
             /\ \A i, j \in DOMAIN L : L[i] = L[j] => i = j
             /\ T => \E i \in DOMAIN L : L[i] = t
             /\ G => \E i \in DOMAIN L : L[i] = g
      PROVE  Match(L, sv, C, Q)
  <2>1. /\ \A i \in DOMAIN L : L[i].ns \in C
        /\ \A i, j \in DOMAIN L : L[i].ns = L[j].ns => i = j
    BY <1>1, <1>4
  <2>2. ASSUME NEW n \in C
        PROVE  /\ sv[n] = None => ~There(L, n)
               /\ sv[n] # None => \E i \in DOMAIN L : L[i] = RowFor(n, sv[n])
    <3>1. CASE n = Team
      BY <1>1, <1>4, <3>1 DEF There
    <3>2. CASE n = Global
      BY <1>1, <1>4, <3>2 DEF There
    <3> QED  BY <1>3, <3>1, <3>2
  <2> QED  BY <2>1, <2>2 DEF Match
<1> HIDE DEF T, G, t, g
<1>5. t # g
  BY <1>1
<1>6. CASE T /\ G
  <2> DEFINE S == {t, g}
  <2>1. L = <<t>> \o <<g>> /\ <<t>> \in Seq(S) /\ <<g>> \in Seq(S)
    BY <1>2, <1>6
  <2>2. Len(L) = 2 /\ L \in Seq(S) /\ L[1] = t /\ L[2] = g
    <3>1. Len(<<t>>) = 1 /\ Len(<<g>>) = 1 /\ <<t>>[1] = t /\ <<g>>[1] = g
      OBVIOUS
    <3> HIDE DEF S
    <3> QED  BY <2>1, <3>1
  <2>3. DOMAIN L = {1, 2}
    <3>1. DOMAIN L = 1..2
      BY <2>2
    <3> QED  BY <3>1
  <2> QED  BY <1>4, <1>5, <1>6, <2>2, <2>3
<1>7. CASE T /\ ~G
  <2>1. L = <<t>>
    BY <1>2, <1>7
  <2>2. DOMAIN L = {1} /\ L[1] = t
    BY <2>1
  <2> QED  BY <1>4, <1>7, <2>2
<1>8. CASE ~T /\ G
  <2>1. L = <<g>>
    BY <1>2, <1>8
  <2>2. DOMAIN L = {1} /\ L[1] = g
    BY <2>1
  <2> QED  BY <1>4, <1>8, <2>2
<1>9. CASE ~T /\ ~G
  <2>1. L = << >>
    BY <1>2, <1>9
  <2>2. DOMAIN L = {}
    BY <2>1
  <2> QED  BY <1>4, <1>9, <2>2
<1> QED  BY <1>6, <1>7, <1>8, <1>9

(* The last answer of a list that nothing overtook brings all the rows of  *)
(* its scope.                                                              *)
LEMMA FetchedInFull ==
    ASSUME NEW q \in RequestSet, q.scope \in Spaces \union {All}, q.kind = "list", ~q.stale,
           q.reply # None, NEW sv, FreshOk(q, sv), ~(q.scope = Team /\ q.stage = 1)
    PROVE  q.part \o q.reply.val = ServerRows(sv, Covers(q.scope))
<1> DEFINE T == RowsIn(sv, {Team}, Team)
           G == RowsIn(sv, {Global}, Global)
<1>1. /\ q.reply.val = ServerRows(sv, Scopes(q))
      /\ q.stage = 1 => q.part = << >>
      /\ q.stage = 2 => (q.scope = Team /\ q.part = ServerRows(sv, {Team}))
      /\ q.stage \in {1, 2}
  BY DEF FreshOk, RequestSet
<1>2. Global # Team /\ All # Global /\ All # Team
  BY RepoConstants
<1>3. /\ \E m : T = << >> \/ T = <<m>>
      /\ \E m : G = << >> \/ G = <<m>>
  BY DEF RowsIn
<1>4. RowsIn(sv, {Team}, Global) = << >> /\ RowsIn(sv, {Global}, Team) = << >>
  BY <1>2 DEF RowsIn
<1>5. /\ RowsIn(sv, Spaces, Team) = T /\ RowsIn(sv, Spaces, Global) = G
  BY DEF RowsIn, Spaces
<1>6. /\ ServerRows(sv, {Team}) = T \o << >> /\ ServerRows(sv, {Global}) = << >> \o G
      /\ ServerRows(sv, Spaces) = T \o G
  BY <1>4, <1>5 DEF ServerRows
<1> HIDE DEF T, G
<1>7. T \o << >> = T /\ << >> \o G = G /\ << >> \o (T \o G) = T \o G
  BY <1>3
<1>8. CASE q.scope = Team
  <2>1. q.stage = 2 /\ Scopes(q) = {Global} /\ Covers(q.scope) = Spaces
    BY <1>1, <1>2, <1>8 DEF Scopes, Covers
  <2>2. q.reply.val = G /\ q.part = T
    BY <1>1, <1>6, <1>7, <2>1
  <2> QED  BY <1>6, <2>1, <2>2
<1>9. CASE q.scope = Global
  <2>1. q.stage = 1 /\ Scopes(q) = {Global} /\ Covers(q.scope) = {Global}
    BY <1>1, <1>2, <1>9 DEF Scopes, Covers
  <2>2. q.reply.val = G /\ q.part = << >>
    BY <1>1, <1>6, <1>7, <2>1
  <2> QED  BY <1>6, <1>7, <2>1, <2>2
<1>10. CASE q.scope = All
  <2>1. q.stage = 1 /\ Scopes(q) = Spaces /\ Covers(q.scope) = Spaces
    BY <1>1, <1>2, <1>10 DEF Scopes, Covers
  <2>2. q.reply.val = T \o G /\ q.part = << >>
    BY <1>1, <1>6, <2>1
  <2> QED  BY <1>6, <1>7, <2>1, <2>2
<1> QED  BY <1>8, <1>9, <1>10 DEF Spaces

LEMMA FetchReposList ==
    ASSUME RepoTypes, FormSide(st, form, requests, pullsAt), ListInv,
           NEW q \in requests, NEW a, GoodAnswer(q, a), fetchRepos(q, a),
           server' = server, page' = page
    PROVE  ListInv'
<1> DEFINE Q == requests \ {q}
<1>1. RequestOk(q) /\ q \in RequestSet /\ (\A p \in Q : p \in RequestSet) /\ st \in Stores
  BY RequestsAreTyped DEF FormSide
<1>2. /\ q.kind = "list" /\ a.ok /\ a.val \in Seq(Rows) /\ q.reply # None /\ a = q.reply
      /\ q.part \in Seq(Rows) /\ q.scope \in Spaces \union {All}
  BY <1>1 DEF fetchRepos, GoodAnswer, RequestSet, RequestOk, AtOnce
<1>3. AllFresh(Q, server) /\ OneWriter(Q) /\ FreshOk(q, server)
  BY FewerFresh DEF ListInv, ListSide, AllFresh
<1>4. Scope' = Scope /\ Covers(Scope)' = Covers(Scope)
  BY DEF Scope, Covers
<1>5. CASE q.scope = Team /\ q.stage = 1
  <2> DEFINE r == SecondList(a.val, q.stale)
             R == Q \union {r}
  <2>1. Store(requestRepos(st), R, FALSE, FALSE) /\ dirty' = dirty
    BY <1>5 DEF fetchRepos, SecondList
  <2>2. /\ RequestOk(r) /\ r.kind = "list" /\ r.scope = Team /\ r.stage = 2 /\ r.part = a.val
        /\ r.stale = q.stale /\ r.reply = None
    BY <1>1, <1>2, SecondListFacts
  <2> HIDE DEF r
  <2>3. ~q.stale => a.val = ServerRows(server, {Team})
    <3>1. Scopes(q) = {Team}
      BY <1>5, RepoConstants DEF Scopes
    <3> QED  BY <1>2, <1>3, <3>1 DEF FreshOk
  <2>4. FreshOk(r, server) /\ Refetch({r}) /\ r \in RequestSet /\ ~Wrote(r)
    BY <2>2, <2>3 DEF FreshOk, Refetch, Wrote, RequestOk
  <2>5. ListSide(st'.repos, server, Covers(Scope), R, dirty)
    BY <1>3, <2>4, AddList
  <2>6. \A p \in R : p \in RequestSet
    BY <1>1, <2>4
  <2>7. requests' = Detached(R, form', requestRepos(st))
    BY <2>1, StoreIs
  <2> HIDE DEF R
  <2>8. ListSide(st'.repos, server, Covers(Scope), requests', dirty)
    BY <2>5, <2>6, <2>7, DetachedList
  <2> QED  BY <1>4, <2>1, <2>8 DEF ListInv
<1>6. CASE ~(q.scope = Team /\ q.stage = 1)
  <2> DEFINE v == q.part \o a.val
             s == receiveRepos(st, v)
             New == IF form # None /\ (form # None => form.mode = "edit")
                    THEN SecretRequests(RowOf(s, form.ns)) ELSE {}
             R == Q \union New
  <2>1. Store(s, R, TRUE, FALSE)
    BY <1>6 DEF fetchRepos
  <2>2. dirty' = (q.stale \/ q.scope # Scope \/ CreateUndelivered(requests))
    BY <1>6 DEF fetchRepos
  <2>3. v \in Seq(Rows)
    BY <1>2
  <2>4. st' = s /\ requests' = Detached(R, form', s)
    <3> HIDE DEF s, R, v
    <3> QED  BY <2>1, StoreIs
  <2>5. s.repos = v /\ s \in Stores
    BY <1>1, <2>3, ReposTypes
  <2> HIDE DEF s
  <2>6. ASSUME NEW r \in New PROVE r \in RequestSet /\ ~Busy(r)
    <3>1. r \in SecretRequests(RowOf(s, form.ns)) /\ RowOf(s, form.ns) \in Rows \union {None}
      BY <2>5, RowOfTypes
    <3> QED  BY <3>1, SecretRequestsOk, IdleKinds DEF RequestOk
  <2> HIDE DEF New
  <2>7. AllFresh(R, server) /\ OneWriter(R)
    <3>1. \A r \in New : FreshOk(r, server) /\ ~Wrote(r)
      BY <2>6 DEF Busy, FreshOk
    <3> QED  BY <1>3, <3>1 DEF AllFresh, OneWriter
  <2>8. ASSUME ~dirty' PROVE Match(v, server, Covers(Scope), R)
    <3>1. ~q.stale /\ q.scope = Scope /\ ~CreateUndelivered(requests)
      BY <2>2, <2>8
    <3>2. v = ServerRows(server, Covers(Scope))
      BY <1>1, <1>2, <1>3, <1>6, <3>1, FetchedInFull
    <3>3. Covers(Scope) \subseteq Spaces
      BY DEF Covers, Spaces
    <3>4. \A n \in Covers(Scope) : ~Pending(R, "create", n)
      BY <2>6, <3>1 DEF Pending, CreateUndelivered, Wrote, Busy
    <3> HIDE DEF v, R
    <3> QED  BY <3>2, <3>3, <3>4, ServerRowsMatch
  <2> HIDE DEF v
  <2>9. ListSide(v, server, Covers(Scope), R, dirty')
    BY <2>7, <2>8 DEF ListSide
  <2>10. \A p \in R : p \in RequestSet
    BY <1>1, <2>6
  <2> HIDE DEF R
  <2>11. ListSide(v, server, Covers(Scope), requests', dirty')
    BY <2>4, <2>9, <2>10, DetachedList
  <2> QED  BY <1>4, <2>4, <2>5, <2>11 DEF ListInv
<1> QED  BY <1>5, <1>6

(* The row of a created repository is appended when the answer arrives. *)
LEMMA CreatedMatch ==
    ASSUME NEW L \in Seq(Rows), NEW sv, NEW C, NEW Q, NEW q \in Q, OneWriter(Q),
           Wrote(q), ~q.stale, q.kind = "create", q.ns \in C, FreshOk(q, sv),
           q.reply.val \in Rows, Match(L, sv, C, Q)
    PROVE  Match(Append(L, q.reply.val), sv, C, Q \ {q})
<1> DEFINE r == q.reply.val
           M == Append(L, r)
           R == Q \ {q}
<1>1. r = RowFor(q.ns, sv[q.ns]) /\ r.ns = q.ns /\ sv[q.ns] # None
  BY DEF FreshOk, RowFor
<1>2. Pending(Q, "create", q.ns)
  BY DEF Pending
<1>3. ~There(L, q.ns)
  BY <1>2 DEF Match
<1>4. \A kind : ~Pending(R, kind, q.ns)
  BY DEF Pending, OneWriter
<1>5. \A kind, n : n # q.ns => (Pending(R, kind, n) <=> Pending(Q, kind, n))
  BY DEF Pending
<1>6. /\ \A i \in DOMAIN M : (i \in DOMAIN L /\ M[i] = L[i]) \/ (i = Len(L) + 1 /\ M[i] = r)
      /\ \A i \in DOMAIN L : i \in DOMAIN M /\ M[i] = L[i]
      /\ Len(L) + 1 \in DOMAIN M /\ M[Len(L) + 1] = r
  OBVIOUS
<1> HIDE DEF r, M, R
<1>7. \A n : n # q.ns => (There(M, n) <=> There(L, n))
  BY <1>1, <1>6 DEF There
<1>8. \A i \in DOMAIN M : M[i].ns \in C
  BY <1>1, <1>6 DEF Match
<1>9. \A i, j \in DOMAIN M : M[i].ns = M[j].ns => i = j
  BY <1>1, <1>3, <1>6 DEF Match, There
<1>10. ASSUME NEW n \in C, n # q.ns
       PROVE  /\ sv[n] = None => ~There(M, n)
              /\ sv[n] # None =>
                    \/ \E i \in DOMAIN M : M[i] = RowFor(n, sv[n])
                    \/ There(M, n) /\ Pending(R, "update", n)
                    \/ ~There(M, n) /\ Pending(R, "create", n)
              /\ Pending(R, "create", n) => ~There(M, n)
  <2>1. (\E i \in DOMAIN L : L[i] = RowFor(n, sv[n]))
           => (\E i \in DOMAIN M : M[i] = RowFor(n, sv[n]))
    BY <1>6
  <2>2. /\ There(M, n) <=> There(L, n)
        /\ Pending(R, "update", n) <=> Pending(Q, "update", n)
        /\ Pending(R, "create", n) <=> Pending(Q, "create", n)
    BY <1>5, <1>7, <1>10
  <2> QED  BY <2>1, <2>2 DEF Match
<1>11. \E i \in DOMAIN M : M[i] = RowFor(q.ns, sv[q.ns])
  BY <1>1, <1>6
<1>12. Match(M, sv, C, R)
  BY <1>1, <1>4, <1>8, <1>9, <1>10, <1>11 DEF Match
<1> QED  BY <1>12 DEF M, R, r

(* The rows of an updated repository are replaced. *)
LEMMA UpdatedMatch ==
    ASSUME NEW L, NEW sv, NEW C, NEW Q, NEW q \in Q, OneWriter(Q),
           Wrote(q), ~q.stale, q.kind = "update", FreshOk(q, sv), Match(L, sv, C, Q),
           NEW M, M = [i \in DOMAIN L |-> IF L[i].ns = q.reply.val.ns THEN q.reply.val ELSE L[i]]
    PROVE  Match(M, sv, C, Q \ {q})
<1> DEFINE r == q.reply.val
           R == Q \ {q}
<1>1. r = RowFor(q.ns, sv[q.ns]) /\ r.ns = q.ns /\ sv[q.ns] # None
  BY DEF FreshOk, RowFor
<1>2. ~Pending(Q, "create", q.ns) /\ \A kind : ~Pending(R, kind, q.ns)
  BY DEF Pending, OneWriter
<1>3. \A kind, n : n # q.ns => (Pending(R, kind, n) <=> Pending(Q, kind, n))
  BY DEF Pending
<1>4. /\ DOMAIN M = DOMAIN L
      /\ \A i \in DOMAIN L : /\ M[i].ns = L[i].ns
                             /\ L[i].ns = q.ns => M[i] = r
                             /\ L[i].ns # q.ns => M[i] = L[i]
  BY <1>1
<1> HIDE DEF r, R
<1>5. \A n : There(M, n) <=> There(L, n)
  BY <1>4 DEF There
<1>6. /\ \A i \in DOMAIN M : M[i].ns \in C
      /\ \A i, j \in DOMAIN M : M[i].ns = M[j].ns => i = j
  BY <1>4 DEF Match
<1>7. ASSUME NEW n \in C, n # q.ns
      PROVE  /\ sv[n] = None => ~There(M, n)
             /\ sv[n] # None =>
                   \/ \E i \in DOMAIN M : M[i] = RowFor(n, sv[n])
                   \/ There(M, n) /\ Pending(R, "update", n)
                   \/ ~There(M, n) /\ Pending(R, "create", n)
             /\ Pending(R, "create", n) => ~There(M, n)
  <2>1. RowFor(n, sv[n]).ns = n
    BY DEF RowFor
  <2>2. (\E i \in DOMAIN L : L[i] = RowFor(n, sv[n]))
           => (\E i \in DOMAIN M : M[i] = RowFor(n, sv[n]))
    BY <1>4, <1>7, <2>1
  <2>3. /\ There(M, n) <=> There(L, n)
        /\ Pending(R, "update", n) <=> Pending(Q, "update", n)
        /\ Pending(R, "create", n) <=> Pending(Q, "create", n)
    BY <1>3, <1>5, <1>7
  <2> QED  BY <2>2, <2>3 DEF Match
<1>8. ASSUME q.ns \in C
      PROVE  \E i \in DOMAIN M : M[i] = RowFor(q.ns, sv[q.ns])
  <2>1. There(L, q.ns)
    <3>1. RowFor(q.ns, sv[q.ns]).ns = q.ns
      BY DEF RowFor
    <3> QED  BY <1>1, <1>2, <1>8, <3>1 DEF Match, There
  <2> QED  BY <1>1, <1>4, <2>1 DEF There
<1>9. Match(M, sv, C, R)
  BY <1>1, <1>2, <1>6, <1>7, <1>8 DEF Match
<1> QED  BY <1>9 DEF R

(* What waits for a list, and what is overdue, still does when the answer  *)
(* of a fresh write was delivered.                                         *)
LEMMA StillWaiting ==
    ASSUME NEW Q, NEW q, Wrote(q), ~q.stale
    PROVE  /\ Refetch(Q) => Refetch(Q \ {q})
           /\ Overdue(Q) => Overdue(Q \ {q})
BY DEF Refetch, Overdue, Wrote, Torn

LEMMA InstallRepoList ==
    ASSUME RepoTypes, FormSide(st, form, requests, pullsAt), ListInv,
           NEW q \in requests, NEW a, GoodAnswer(q, a), installRepo(q, a),
           server' = server, page' = page
    PROVE  ListInv'
<1> DEFINE Q == requests \ {q}
           C == Covers(Scope)
<1>1. RequestOk(q) /\ (\A p \in Q : p \in RequestSet) /\ st \in Stores /\ st.repos \in Seq(Rows)
  BY RequestsAreTyped DEF FormSide, Stores
<1>2. /\ q.kind = "create" /\ a.ok /\ a.val \in Rows /\ q.reply # None /\ a = q.reply
      /\ st' = addedRepo(st, a.val) /\ requests' = Detached(Q, form', st')
      /\ dirty' = (dirty \/ q.stale \/ q.ns \notin Covers(Scope))
  BY DEF installRepo, GoodAnswer, AtOnce
<1>3. Wrote(q) /\ q.reply.val = a.val
  BY <1>2 DEF Wrote
<1>4. st'.repos = Append(st.repos, a.val)
  BY <1>1, <1>2, ReposTypes
<1>5. AllFresh(Q, server) /\ OneWriter(Q) /\ FreshOk(q, server) /\ OneWriter(requests)
  BY FewerFresh DEF ListInv, ListSide, AllFresh
<1>6. Scope' = Scope /\ Covers(Scope)' = C
  BY DEF Scope, Covers
<1>7. ASSUME ~dirty' PROVE Refetch(Q) \/ Overdue(Q) \/ Match(st'.repos, server, C, Q)
  <2>1. ~dirty /\ ~q.stale /\ q.ns \in C
    BY <1>2, <1>7
  <2>2. Refetch(requests) \/ Overdue(requests) \/ Match(st.repos, server, C, requests)
    BY <2>1 DEF ListInv, ListSide
  <2>3. CASE Match(st.repos, server, C, requests)
    <3> HIDE DEF C
    <3>1. Match(Append(st.repos, q.reply.val), server, C, requests \ {q})
      BY <1>1, <1>2, <1>3, <1>5, <2>1, <2>3, CreatedMatch
    <3> QED  BY <1>3, <1>4, <3>1
  <2> QED  BY <1>3, <2>1, <2>2, <2>3, StillWaiting
<1> HIDE DEF C
<1>8. ListSide(st'.repos, server, C, Q, dirty')
  BY <1>5, <1>7 DEF ListSide
<1> HIDE DEF Q
<1>9. ListSide(st'.repos, server, C, requests', dirty')
  BY <1>1, <1>2, <1>8, DetachedList
<1> QED  BY <1>6, <1>9 DEF ListInv

LEMMA UpdateRepoList ==
    ASSUME RepoTypes, FormSide(st, form, requests, pullsAt), ListInv,
           NEW q \in requests, NEW a, GoodAnswer(q, a), updateRepo(q, a),
           server' = server, page' = page
    PROVE  ListInv'
<1> DEFINE Q == requests \ {q}
           C == Covers(Scope)
           New == SecretRequests(a.val)
           R == Q \union New
<1>1. RequestOk(q) /\ (\A p \in Q : p \in RequestSet) /\ st \in Stores
  BY RequestsAreTyped DEF FormSide
<1>2. /\ q.kind = "update" /\ a.ok /\ a.val \in Rows /\ q.reply # None /\ a = q.reply
      /\ st' = repoUpdated(st, a.val) /\ requests' = Detached(R, form', st')
      /\ dirty' = (dirty \/ q.stale)
  BY DEF updateRepo, GoodAnswer, AtOnce
<1>3. Wrote(q) /\ q.reply.val = a.val /\ q.ns \in Spaces
  BY <1>1, <1>2 DEF Wrote, RequestOk
<1>4. st'.repos = [i \in DOMAIN st.repos |-> IF st.repos[i].ns = q.reply.val.ns THEN q.reply.val
                                             ELSE st.repos[i]]
  BY <1>1, <1>2, <1>3, UpdatedTypes
<1>5. AllFresh(Q, server) /\ OneWriter(Q) /\ FreshOk(q, server) /\ OneWriter(requests)
  BY FewerFresh DEF ListInv, ListSide, AllFresh
<1>6. Scope' = Scope /\ Covers(Scope)' = C
  BY DEF Scope, Covers
<1>7. ASSUME ~dirty' PROVE Refetch(Q) \/ Overdue(Q) \/ Match(st'.repos, server, C, Q)
  <2>1. ~dirty /\ ~q.stale
    BY <1>2, <1>7
  <2>2. Refetch(requests) \/ Overdue(requests) \/ Match(st.repos, server, C, requests)
    BY <2>1 DEF ListInv, ListSide
  <2>3. CASE Match(st.repos, server, C, requests)
    <3> HIDE DEF C
    <3> QED  BY <1>2, <1>3, <1>4, <1>5, <2>1, <2>3, UpdatedMatch
  <2> QED  BY <1>3, <2>1, <2>2, <2>3, StillWaiting
<1>8. ASSUME NEW r \in New PROVE r \in RequestSet /\ ~Busy(r)
  BY <1>2, SecretRequestsOk, IdleKinds DEF RequestOk
<1> HIDE DEF C, New
<1>9. ListSide(st'.repos, server, C, Q, dirty')
  BY <1>5, <1>7 DEF ListSide
<1> HIDE DEF Q
<1>10. (\A p \in Q : Busy(p) => p \in R) /\ (\A p \in R : Busy(p) => p \in Q)
  BY <1>8
<1>11. \A p \in R : p \in RequestSet
  BY <1>1, <1>8
<1> HIDE DEF R
<1>12. ListSide(st'.repos, server, C, R, dirty')
  BY <1>9, <1>10, SameBusy
<1>13. ListSide(st'.repos, server, C, requests', dirty')
  BY <1>2, <1>11, <1>12, DetachedList
<1> QED  BY <1>6, <1>13 DEF ListInv


(* A deletion leaves a list behind. *)
LEMMA DeleteRepoList ==
    ASSUME RepoTypes, FormSide(st, form, requests, pullsAt), ListInv,
           NEW q \in requests, NEW a, deleteRepo(q, a),
           server' = server, page' = page
    PROVE  ListInv'
<1> DEFINE s == requestRepos(IF a.ok THEN st ELSE errorRepos(st, "delete"))
           r == ListRequest(q.scope)
           Q == requests \ {q}
           R == Q \union {r}
<1>1. RequestOk(q) /\ (\A p \in Q : p \in RequestSet)
  BY RequestsAreTyped
<1>2. q.kind = "delete" /\ Store(s, R, FALSE, FALSE) /\ dirty' = dirty
  BY DEF deleteRepo
<1>3. q.scope \in Spaces \union {All}
  BY <1>1, <1>2 DEF RequestOk
<1>4. FreshOk(r, server) /\ Refetch({r}) /\ r \in RequestSet /\ ~Wrote(r)
  BY <1>3, NewListFresh
<1>5. AllFresh(Q, server) /\ OneWriter(Q)
  BY FewerFresh DEF ListInv, ListSide
<1> HIDE DEF s, r, Q
<1>6. ListSide(st'.repos, server, Covers(Scope)', R, dirty)
  BY <1>4, <1>5, AddList
<1>7. \A p \in R : p \in RequestSet
  BY <1>1, <1>4
<1> HIDE DEF R
<1>8. requests' = Detached(R, form', s)
  BY <1>2, StoreIs
<1>9. ListSide(st'.repos, server, Covers(Scope)', requests', dirty)
  BY <1>6, <1>7, <1>8, DetachedList
<1> QED  BY <1>2, <1>9 DEF ListInv

(* A list that failed leaves its tables as they were, and so does an error *)
(* after a write; they are known to be out of date.                        *)
LEMMA RefusedList ==
    ASSUME RepoTypes, FormSide(st, form, requests, pullsAt), ListInv,
           NEW q \in requests, NEW a, GoodAnswer(q, a), Refused(q, a),
           server' = server, page' = page
    PROVE  ListInv'
<1> DEFINE s == errorRepos(st, ErrorOf(q))
           Q == requests \ {q}
<1>1. (\A p \in Q : p \in RequestSet) /\ st \in Stores
  BY RequestsAreTyped DEF FormSide
<1>2. /\ Store(s, Q, FALSE, FALSE) /\ dirty' = (dirty \/ q.kind = "list" \/ a.val # None)
      /\ q.kind # "delete" /\ ~Wrote(q) /\ (Torn(q) => a.val # None)
  BY DEF Refused, GoodAnswer, Wrote, Torn
<1>3. ErrorOf(q) \in Ops
  BY DEF ErrorOf, Ops
<1>4. s.repos = st.repos
  BY <1>1, <1>3, StoreTypes
<1> HIDE DEF s
<1>5. st' = s /\ requests' = Detached(Q, form', s)
  BY <1>2, StoreIs
<1>6. Scope' = Scope
  BY DEF Scope
<1>7. CASE q.kind = "list" \/ a.val # None
  <2>1. AllFresh(Q, server) /\ OneWriter(Q) /\ dirty'
    BY <1>2, <1>7, FewerFresh DEF ListInv, ListSide
  <2> HIDE DEF Q
  <2>2. ListSide(st'.repos, server, Covers(Scope)', Q, dirty')
    BY <2>1 DEF ListSide
  <2>3. ListSide(st'.repos, server, Covers(Scope)', requests', dirty')
    BY <1>1, <1>5, <2>2, DetachedList
  <2> QED  BY <2>3 DEF ListInv
<1>8. CASE q.kind # "list" /\ a.val = None
  <2> DEFINE Old == {q}
             New == {}
  <2>1. dirty' = dirty
    BY <1>2, <1>8 DEF RepoTypes
  <2>2. /\ \A p \in Old \union New : ~Busy(p)
        /\ \A p \in New : p \in RequestSet
        /\ Q = (requests \ Old) \union New
    BY <1>2, <1>8 DEF Busy
  <2>3. st'.repos = st.repos
    BY <1>4, <1>5
  <2> HIDE DEF Old, New, Q
  <2> QED  BY <1>5, <1>6, <2>1, <2>2, <2>3, QuietStore
<1> QED  BY <1>7, <1>8

(* The answers that the list does not depend on. *)
LEMMA QuietAnswers ==
    ASSUME RepoTypes, FormSide(st, form, requests, pullsAt), ListInv,
           NEW q \in requests, NEW a, GoodAnswer(q, a), server' = server, page' = page,
           \/ fetchRepoSecret(q, a) \/ fetchImagePullSecrets(q, a) \/ validateRepo(q, a)
           \/ resyncRepo(q, a) \/ createDockerRegistrySecret(q, a)
    PROVE  ListInv'
<1> DEFINE Old == {q}
           Gone == {}
           Q == requests \ {q}
<1>1. st \in Stores
  BY DEF FormSide
<1>2. q.kind \in AtOnce /\ dirty' = dirty /\ Scope' = Scope
  BY DEF fetchRepoSecret, fetchImagePullSecrets, validateRepo, resyncRepo,
         createDockerRegistrySecret, AtOnce, Scope
<1>3. ~Busy(q)
  BY <1>2, IdleKinds DEF AtOnce
<1>4. /\ Q = (requests \ Old) \union Gone
      /\ \A p \in Old \union Gone : ~Busy(p)
      /\ \A p \in Gone : p \in RequestSet
  BY <1>3
<1>5. CASE fetchRepoSecret(q, a)
  <2> DEFINE s == receiveReposSecret(st, a.val)
             b == SecretFor(s) # SecretFor(st)
  <2>1. a.val \in Secrets /\ Store(s, Q, FALSE, b)
    BY <1>5 DEF fetchRepoSecret, GoodAnswer
  <2>2. s.repos = st.repos
    BY <1>1, <2>1, SecretTypes
  <2> HIDE DEF s, b
  <2>3. st' = s /\ requests' = Detached(Q, form', s)
    BY <2>1, StoreIs
  <2>4. st'.repos = st.repos
    BY <2>2, <2>3
  <2> HIDE DEF Q, Old, Gone
  <2> QED  BY <1>2, <1>4, <2>3, <2>4, QuietStore
<1>6. CASE createDockerRegistrySecret(q, a)
  <2> DEFINE s == IF a.ok THEN st ELSE errorRepos(st, "fetch")
  <2>1. st' = s /\ requests' = Detached(Q, form', s)
    BY <1>6 DEF createDockerRegistrySecret
  <2>2. s.repos = st.repos
    BY <1>1, StoreTypes DEF Ops
  <2> HIDE DEF s, Q, Old, Gone
  <2>3. st'.repos = st.repos
    BY <2>1, <2>2
  <2> QED  BY <1>2, <1>4, <2>1, <2>3, QuietStore
<1>7. CASE fetchImagePullSecrets(q, a) \/ resyncRepo(q, a)
  <2>1. requests' = Q /\ st'.repos = st.repos
    BY <1>1, <1>7 DEF fetchImagePullSecrets, resyncRepo, Stores
  <2> HIDE DEF Q, Old, Gone
  <2> QED  BY <1>2, <1>4, <2>1, QuietStep
<1>8. CASE validateRepo(q, a)
  <2>1. /\ st'.repos = st.repos
        /\ \/ requests' = requests \ {q}
           \/ \E r : requests' = (requests \ {q}) \union {r} /\ r.kind \in Tasks /\ r.reply = None
    BY <1>8, ValidateForm
  <2>2. CASE requests' = requests \ {q}
    <3>1. requests' = (requests \ Old) \union Gone
      BY <2>2
    <3> HIDE DEF Q, Old, Gone
    <3> QED  BY <1>2, <1>4, <2>1, <3>1, QuietStep
  <2>3. ASSUME NEW r, requests' = (requests \ {q}) \union {r}, r.kind \in Tasks, r.reply = None
        PROVE  ListInv'
    <3> DEFINE New == {r}
    <3>1. ~Busy(r)
      BY <2>3, IdleKinds DEF Tasks
    <3>2. requests' = (requests \ Old) \union New /\ \A p \in Old \union New : ~Busy(p)
      BY <1>3, <2>3, <3>1
    <3> HIDE DEF Old, New
    <3> QED  BY <1>2, <2>1, <3>2, QuietStep
  <2> QED  BY <2>1, <2>2, <2>3
<1> QED  BY <1>5, <1>6, <1>7, <1>8

LEMMA DeliverList ==
    ASSUME RepoTypes, FormSide(st, form, requests, pullsAt), ListInv,
           NEW q \in requests, NEW a, GoodAnswer(q, a), Deliver(q, a),
           server' = server, page' = page
    PROVE  ListInv'
BY FetchReposList, InstallRepoList, UpdateRepoList, DeleteRepoList, RefusedList, QuietAnswers
   DEF Deliver

(* Every action keeps the list's part. *)
LEMMA NextList ==
    ASSUME FormSafe, ListInv, [Next]_vars
    PROVE  ListInv'
<1>1. RepoTypes /\ FormSide(st, form, requests, pullsAt)
  BY DEF FormSafe
<1>2. CASE UNCHANGED vars
  <2>1. Covers(Scope)' = Covers(Scope)
    BY <1>2 DEF vars, Covers, Scope
  <2> QED  BY <1>2, <2>1 DEF vars, ListInv
<1>3. ASSUME NEW q \in requests, Backend(q)
      PROVE  ListInv'
  <2>1. list(q) \/ Writes(q)
    BY <1>3 DEF Backend
  <2> QED  BY <1>1, <1>3, <2>1, BackendList, WritesList
<1>4. ASSUME NEW q \in requests, FailedRequest(q) \/ Answer(q)
      PROVE  ListInv'
  <2>1. PICK a : GoodAnswer(q, a) /\ Deliver(q, a)
    BY <1>1, <1>4, AnswerForm, FailedForm
  <2>2. server' = server /\ page' = page
    BY <1>4 DEF FailedRequest, Answer, backend
  <2> QED  BY <1>1, <2>1, <2>2, DeliverList
<1> QED  BY <1>1, <1>2, <1>3, <1>4, ButtonsList, OthersList, SecretFailsList,
              ElsewhereList DEF Next

LEMMA InitList ==
    ASSUME Init
    PROVE  ListInv
<1> DEFINE r == ListRequest(Team)
           Q == {}
<1>1. FreshOk(r, server) /\ Refetch({r}) /\ ~Wrote(r)
  BY NewListFresh DEF Spaces
<1>2. AllFresh(Q, server) /\ OneWriter(Q)
  BY DEF AllFresh, OneWriter
<1> HIDE DEF r
<1>3. ListSide(st.repos, server, Covers(Scope), Q \union {r}, dirty)
  BY <1>1, <1>2, AddList
<1>4. requests = Q \union {r}
  BY DEF Init, r
<1> QED  BY <1>3, <1>4 DEF ListInv

(* ListInv holds in every state. *)
LEMMA ListSafety == Spec => []ListInv
<1>1. Init => ListInv
  BY InitList
<1>2. FormSafe /\ ListInv /\ [Next]_vars => ListInv'
  BY NextList
<1> QED  BY <1>1, <1>2, FormSafety, PTL DEF Spec

(* When nothing is on its way, the tables of AppRepoList hold each         *)
(* repository of the page's scope once and as it is on the server, for any *)
(* repositories and any interleaving of the user's own creations, updates, *)
(* deletions and changes of scope with their answers, but for the reasons  *)
(* that dirty observes: another user's write, an answer for a scope that   *)
(* was left, a list that was read before a write, one that failed, one     *)
(* that held a new repository before its own answer appended it            *)
(* (addedRepo), or an error that kubeops answered after it had written the *)
(* repository.                                                             *)
THEOREM ListMatchesServerHolds == Spec => []ListMatchesServer
<1>1. ASSUME ListInv PROVE ListMatchesServer
  <2> SUFFICES ASSUME requests = {}, ~dirty
               PROVE  /\ {st.repos[i] : i \in DOMAIN st.repos}
                            = {Listed(n) : n \in {m \in Covers(Scope) : server[m] # None}}
                      /\ \A i, j \in DOMAIN st.repos : st.repos[i].ns = st.repos[j].ns => i = j
    BY DEF ListMatchesServer
  <2> DEFINE L == st.repos
             C == Covers(Scope)
  <2>1. ~Refetch(requests) /\ ~Overdue(requests) /\ \A kind, n : ~Pending(requests, kind, n)
    BY DEF Refetch, Overdue, Pending
  <2>2. Match(L, server, C, requests)
    BY <1>1, <2>1 DEF ListInv, ListSide
  <2> HIDE DEF L, C
  <2>3. \A n : Listed(n) = RowFor(n, server[n]) /\ Listed(n).ns = n
    BY DEF Listed, RowFor
  <2>4. ASSUME NEW n \in C, server[n] # None
        PROVE  \E i \in DOMAIN L : L[i] = Listed(n)
    BY <2>1, <2>2, <2>3, <2>4 DEF Match
  <2>5. ASSUME NEW i \in DOMAIN L
        PROVE  \E n \in {m \in C : server[m] # None} : L[i] = Listed(n)
    <3> DEFINE n == L[i].ns
    <3>1. n \in C /\ There(L, n)
      BY <2>2 DEF Match, There
    <3>2. server[n] # None
      BY <2>2, <3>1 DEF Match
    <3>3. PICK j \in DOMAIN L : L[j] = Listed(n)
      BY <2>4, <3>1, <3>2
    <3>4. L[j].ns = L[i].ns
      BY <2>3, <3>3
    <3>5. j = i
      BY <2>2, <3>4 DEF Match
    <3> QED  BY <3>1, <3>2, <3>3, <3>5
  <2>6. {L[i] : i \in DOMAIN L} = {Listed(n) : n \in {m \in C : server[m] # None}}
    BY <2>4, <2>5
  <2>7. \A i, j \in DOMAIN L : L[i].ns = L[j].ns => i = j
    BY <2>2 DEF Match
  <2> QED  BY <2>6, <2>7 DEF L, C
<1> QED  BY <1>1, ListSafety, PTL

=============================================================================
