------------------------- MODULE ReleasePagesProofs -------------------------
(***************************************************************************)
(* Theorems about the list of releases and the release page                *)
(* (ReleasePages), and about the Kubernetes resources that the release     *)
(* page shows (KubeResources), for any releases, resources and manifests,  *)
(* any number of requests and any order of their answers.                  *)
(*                                                                         *)
(* The two modules have no name in common, and no theorem relates them.    *)
(***************************************************************************)
EXTENDS ReleasePages, KubeResources, FiniteSetTheorems, SequenceTheorems, TLAPS

-----------------------------------------------------------------------------
(* The list of releases and the release page *)

Requests ==
    [kind : {"list"}, of : Scopes, rev : Int, visit : Nat, odd : BOOLEAN]
    \union [kind : {"release", "info", "delete", "rollback"}, of : Releases, rev : Int,
            visit : Nat, odd : BOOLEAN]

TypeInv ==
    /\ revision \in [Releases -> Nat \ {0}] /\ page \in Pages
    /\ visit \in Nat /\ mounted \in Nat /\ mounted <= visit
    /\ fetching \in BOOLEAN /\ foreign \in BOOLEAN /\ early \in BOOLEAN /\ deleting \in BOOLEAN
    /\ selected # None => selected \in Selections
    /\ overview # None => overview \in Seq(Entries)
    /\ dialog \in [open : BOOLEAN, choice : Nat \union {None}]
    /\ requests \subseteq Requests
    /\ \A q \in requests : q.visit <= visit
    /\ \A q \in requests : q.kind = "release" => q.rev >= 1

(* What the open page has asked for is its release, or in its scope. *)
InPage(r) == page.of \in {All, Namespace(r)}
AsksForItsPage(q) ==
    q.visit = visit =>
        IF page.at = "view" THEN q.kind # "list" /\ q.of = page.of
        ELSE /\ q.kind = "list" => page.of \in {All, q.of}
             /\ q.kind # "list" => q.kind = "info" /\ InPage(q.of)

(* A list that is in scope, with update information that may be shown.     *)
Fitting(e) ==
    /\ InPage(e.rel)
    /\ e.info \in {None, e.rel} \/ (page.of = All /\ NameIsShared(e.rel))
ListIsOwn == overview # None /\ \A i \in DOMAIN overview : Fitting(overview[i])

(* The list of the page is there before the requests that follow it.       *)
(* Until it comes it is asked for, or an error has taken its place, so     *)
(* that a search leaves its mark.                                          *)
ListAwaited == error # None \/ \E q \in requests : q.kind = "list" /\ q.visit = visit
ListInv ==
    page.at = "list" /\ ~foreign =>
        \/ ListIsOwn
        \/ /\ early \/ (~ListShown /\ ListAwaited)
           /\ \A q \in requests : q.visit = visit => q.kind # "info"

(* The dialog of a page that was mounted in this visit was opened on the   *)
(* release that is shown.                                                  *)
DialogInv ==
    /\ dialog.open => page.at = "view"
    /\ page.at = "view" /\ ~foreign /\ mounted = visit =>
          /\ dialog.open => selected # None
          /\ dialog.choice # None => dialog.choice \in 1..(revision[page.of] - 1)
          /\ selected # None => selected.rev \in 1..revision[page.of]

Inv ==
    /\ TypeInv /\ PageShowsItsRelease /\ ListInv /\ DialogInv /\ RollbackTargetExists
    /\ \A q \in requests : AsksForItsPage(q)

-----------------------------------------------------------------------------
(* Requests *)

LEMMA PageFacts ==
    ASSUME NEW p \in Pages
    PROVE  /\ p.at \in {"list", "view"}
           /\ p.at = "list" => p.of \in Scopes
           /\ p.at = "view" => p.of \in Releases
  BY DEF Pages

LEMMA RequestTypes ==
    ASSUME NEW q \in Requests
    PROVE  /\ q.kind = "list" => q.of \in Scopes
           /\ q.kind # "list" => q.of \in Releases
           /\ q.kind \in {"list", "release", "info", "delete", "rollback"}
           /\ q.rev \in Int /\ q.visit \in Nat /\ q.odd \in BOOLEAN
  BY DEF Requests

LEMMA SentFacts ==
    ASSUME TypeInv, NEW v \in Nat
    PROVE  /\ \A r \in Releases :
                 /\ getRelease(r, v) \in Requests /\ getRelease(r, v).kind = "release"
                 /\ getRelease(r, v).of = r /\ getRelease(r, v).visit = v
                 /\ getRelease(r, v).rev = revision[r]
           /\ \A s \in Scopes :
                 /\ listApps(s, v) \in Requests /\ listApps(s, v).kind = "list"
                 /\ listApps(s, v).of = s /\ listApps(s, v).visit = v
           /\ \A r \in Releases :
                 /\ listWithFilters(r, v) \in Requests /\ listWithFilters(r, v).kind = "info"
                 /\ listWithFilters(r, v).of = r /\ listWithFilters(r, v).visit = v
  <1>0. visit \in Nat /\ revision \in [Releases -> Nat \ {0}]
    BY DEF TypeInv
  <1>1. ASSUME NEW r \in Releases
        PROVE  /\ getRelease(r, v) \in Requests /\ getRelease(r, v).kind = "release"
               /\ getRelease(r, v).of = r /\ getRelease(r, v).visit = v
               /\ getRelease(r, v).rev = revision[r]
    <2>1. getRelease(r, v)
          = [kind |-> "release", of |-> r, rev |-> revision[r], visit |-> v, odd |-> FALSE]
      BY DEF getRelease, Request
    <2>2. revision[r] \in Int
      BY <1>0
    <2>3. getRelease(r, v) \in [kind : {"release", "info", "delete", "rollback"}, of : Releases,
                                rev : Int, visit : Nat, odd : BOOLEAN]
      BY <2>1, <2>2
    <2> QED BY <2>1, <2>3 DEF Requests
  <1>2. ASSUME NEW s \in Scopes
        PROVE  /\ listApps(s, v) \in Requests /\ listApps(s, v).kind = "list"
               /\ listApps(s, v).of = s /\ listApps(s, v).visit = v
    <2>1. listApps(s, v) = [kind |-> "list", of |-> s, rev |-> 0, visit |-> v, odd |-> FALSE]
      BY DEF listApps, Request
    <2>2. listApps(s, v)
          \in [kind : {"list"}, of : Scopes, rev : Int, visit : Nat, odd : BOOLEAN]
      BY <2>1
    <2> QED BY <2>1, <2>2 DEF Requests
  <1>3. ASSUME NEW r \in Releases
        PROVE  /\ listWithFilters(r, v) \in Requests /\ listWithFilters(r, v).kind = "info"
               /\ listWithFilters(r, v).of = r /\ listWithFilters(r, v).visit = v
    <2>1. listWithFilters(r, v)
          = [kind |-> "info", of |-> r, rev |-> 0, visit |-> v, odd |-> FALSE]
      BY DEF listWithFilters, Request
    <2>2. listWithFilters(r, v) \in [kind : {"release", "info", "delete", "rollback"},
                                     of : Releases, rev : Int, visit : Nat, odd : BOOLEAN]
      BY <2>1
    <2> QED BY <2>1, <2>2 DEF Requests
  <1> QED BY <1>1, <1>2, <1>3

LEMMA MountFacts ==
    ASSUME TypeInv, NEW p \in Pages, NEW current \in Namespaces, NEW fresh, NEW v \in Nat,
           NEW q \in MountRequests(p, current, fresh, v)
    PROVE  /\ q \in Requests /\ q.visit = v
           /\ q.kind = "release" => q.rev >= 1
           /\ IF p.at = "view" THEN q.kind = "release" /\ q.of = p.of
              ELSE q.kind = "list" /\ p.of \in {All, q.of}
  <1>1. CASE p.at = "view"
    <2>1. q = getRelease(p.of, v) /\ p.of \in Releases
      BY <1>1, PageFacts DEF MountRequests
    <2>2. revision[p.of] >= 1
      BY <2>1 DEF TypeInv
    <2> QED BY <1>1, <2>1, <2>2, SentFacts
  <1>2. CASE p.at = "list" /\ p.of = All /\ fresh
    <2>1. q \in {listApps(current, v), listApps(All, v)}
      BY <1>2 DEF MountRequests
    <2>2. current \in Scopes /\ All \in Scopes
      BY DEF Scopes
    <2> QED BY <1>2, <2>1, <2>2, SentFacts
  <1>3. CASE p.at # "view" /\ ~(p.at = "list" /\ p.of = All /\ fresh)
    <2>1. q = listApps(p.of, v) /\ p.of \in Scopes
      BY <1>3, PageFacts DEF MountRequests
    <2> QED BY <1>3, <2>1, SentFacts
  <1> QED BY <1>1, <1>2, <1>3

-----------------------------------------------------------------------------
(* A new page *)

LEMMA NavigateKeeps ==
    ASSUME Inv, NEW p \in Pages, NEW Q \in SUBSET requests, NEW current \in Namespaces, NEW fresh,
           NavigateTo(p), requests' = Q \union MountRequests(p, current, fresh, visit + 1),
           revision' = revision
    PROVE  Inv'
  <1>0. TypeInv /\ visit \in Nat
    BY DEF Inv, TypeInv
  <1>n. PICK n \in Nat : n = visit + 1
    BY <1>0
  <1>1. /\ page' = p /\ visit' = n /\ mounted' = (IF Stays(p) THEN mounted ELSE n)
        /\ error' = None /\ selected' = None /\ fetching' = TRUE /\ foreign' = FALSE
        /\ early' = FALSE /\ dialog' = (IF Stays(p) THEN dialog ELSE NoDialog)
        /\ deleting' = (IF Stays(p) THEN deleting ELSE FALSE)
        /\ overview' = overview /\ requests' = Q \union MountRequests(p, current, fresh, n)
    BY <1>n DEF NavigateTo, SelectedAfterMove, FetchingAfterMove
  <1>2. \A q \in Q : q \in Requests /\ q.visit <= n /\ q.visit # n
    BY <1>0, <1>n, RequestTypes DEF TypeInv
  <1>3. \A q \in MountRequests(p, current, fresh, n) :
           /\ q \in Requests /\ q.visit = n
           /\ q.kind = "release" => q.rev >= 1
           /\ q.kind \in {"release", "list"}
           /\ IF p.at = "view" THEN q.kind = "release" /\ q.of = p.of
              ELSE q.kind = "list" /\ p.of \in {All, q.of}
    BY <1>0, MountFacts
  <1>4. /\ NoDialog \in [open : BOOLEAN, choice : Nat \union {None}]
        /\ ~NoDialog.open /\ NoDialog.choice = None
    BY DEF NoDialog
  <1>5. TypeInv'
    <2>1. mounted' \in Nat /\ mounted' <= visit' /\ (Stays(p) => mounted' # visit')
      BY <1>0, <1>n, <1>1 DEF TypeInv
    <2>2. dialog' \in [open : BOOLEAN, choice : Nat \union {None}]
      BY <1>0, <1>1, <1>4 DEF TypeInv
    <2>3. /\ deleting' \in BOOLEAN /\ fetching' \in BOOLEAN /\ foreign' \in BOOLEAN
          /\ early' \in BOOLEAN
      BY <1>0, <1>1 DEF TypeInv
    <2>4. /\ requests' \subseteq Requests
          /\ \A q \in requests' : q.visit <= visit'
          /\ \A q \in requests' : q.kind = "release" => q.rev >= 1
      BY <1>0, <1>1, <1>2, <1>3 DEF TypeInv
    <2>5. revision' \in [Releases -> Nat \ {0}] /\ overview' # None => overview' \in Seq(Entries)
      BY <1>0, <1>1 DEF TypeInv
    <2> QED BY <1>0, <1>1, <2>1, <2>2, <2>3, <2>4, <2>5 DEF TypeInv
  <1>6. PageShowsItsRelease'
    BY <1>1 DEF PageShowsItsRelease
  <1>7. ListInv'
    <2>1. ~ListShown'
      BY <1>1 DEF ListShown
    <2>2. page'.at = "list" => \A q \in requests' : q.visit = visit' => q.kind # "info"
      BY <1>1, <1>2, <1>3
    <2>3. page'.at = "list" => ListAwaited'
      <3> SUFFICES ASSUME p.at = "list"
                   PROVE  \E q \in requests' : q.kind = "list" /\ q.visit = visit'
        BY <1>1 DEF ListAwaited
      <3>1. \E q : q \in MountRequests(p, current, fresh, n)
        BY DEF MountRequests
      <3> QED BY <1>1, <1>3, <3>1
    <2> QED BY <2>1, <2>2, <2>3 DEF ListInv
  <1>8. DialogInv'
    <2>1. CASE Stays(p)
      <3>1. mounted' # visit'
        BY <1>0, <1>n, <1>1, <2>1 DEF TypeInv
      <3> QED BY <1>1, <2>1, <3>1 DEF DialogInv, Stays
    <2>2. CASE ~Stays(p)
      BY <1>1, <1>4, <2>2 DEF DialogInv
    <2> QED BY <2>1, <2>2
  <1>9. RollbackTargetExists'
    BY <1>1, <1>3 DEF Inv, RollbackTargetExists
  <1>10. \A q \in requests' : AsksForItsPage(q)'
    BY <1>1, <1>2, <1>3 DEF AsksForItsPage
  <1> QED BY <1>5, <1>6, <1>7, <1>8, <1>9, <1>10 DEF Inv

-----------------------------------------------------------------------------
(* Steps on the open page *)

SamePage == page' = page /\ visit' = visit /\ mounted' = mounted
Grown == revision' \in [Releases -> Nat \ {0}] /\ \A r \in Releases : revision[r] <= revision'[r]

(* A request that the open page may send. *)
MayBeSent(q) ==
    /\ q \in Requests /\ q.visit <= visit /\ AsksForItsPage(q)
    /\ q.kind = "release" => q.rev >= 1
    /\ q.kind = "rollback" /\ ~q.odd => q.rev \in 1..(revision[q.of] - 1)

(* What is asked stays right while revisions only grow. *)
LEMMA RequestsKept ==
    ASSUME Inv, SamePage, Grown, NEW Sent, \A q \in Sent : MayBeSent(q),
           requests' \subseteq requests \union Sent
    PROVE  /\ requests' \subseteq Requests
           /\ \A q \in requests' : q.visit <= visit'
           /\ \A q \in requests' : q.kind = "release" => q.rev >= 1
           /\ RollbackTargetExists'
           /\ \A q \in requests' : AsksForItsPage(q)'
  <1>1. \A q \in requests : MayBeSent(q)
    BY DEF Inv, TypeInv, RollbackTargetExists, MayBeSent
  <1>2. \A q \in requests' : MayBeSent(q)
    BY <1>1
  <1>3. RollbackTargetExists'
    <2> SUFFICES ASSUME NEW q \in requests', q.kind = "rollback", ~q.odd
                 PROVE  q.rev \in 1..(revision'[q.of] - 1)
      BY DEF RollbackTargetExists
    <2>1. q.rev \in 1..(revision[q.of] - 1) /\ q.of \in Releases /\ q.rev \in Int
      BY <1>2, RequestTypes DEF MayBeSent
    <2>2. revision[q.of] <= revision'[q.of] /\ revision[q.of] \in Nat /\ revision'[q.of] \in Nat
      BY <2>1 DEF Grown, Inv, TypeInv
    <2> QED BY <2>1, <2>2
  <1>4. \A q \in requests' : AsksForItsPage(q)'
    BY <1>2 DEF MayBeSent, AsksForItsPage, SamePage, InPage
  <1> QED BY <1>2, <1>3, <1>4 DEF MayBeSent, SamePage

LEMMA FewerRequests ==
    ASSUME Inv, SamePage, Grown, requests' \subseteq requests
    PROVE  /\ \A q \in requests : MayBeSent(q)
           /\ requests' \subseteq requests \union requests
           /\ requests' \subseteq Requests
           /\ \A q \in requests' : q.visit <= visit'
           /\ \A q \in requests' : q.kind = "release" => q.rev >= 1
           /\ RollbackTargetExists'
           /\ \A q \in requests' : AsksForItsPage(q)'
  <1>1. \A o \in requests : MayBeSent(o)
    BY DEF Inv, TypeInv, RollbackTargetExists, MayBeSent
  <1>2. requests' \subseteq requests \union requests
    OBVIOUS
  <1> QED BY <1>1, <1>2, RequestsKept

(* An answer that leaves the page without a mark was asked for by it. *)
LEMMA OwnAnswer ==
    ASSUME Inv, NEW q \in requests, foreign' = (foreign \/ Late(q))
    PROVE  /\ q \in Requests /\ q.visit \in Nat /\ q.visit <= visit
           /\ foreign' \in BOOLEAN
           /\ ~foreign' => ~foreign /\ q.visit = visit
           /\ ~foreign' /\ page.at = "view" => q.kind # "list" /\ q.of = page.of
           /\ ~foreign' /\ page.at = "list" =>
                 /\ q.kind \in {"list", "info"}
                 /\ q.kind = "list" => page.of \in {All, q.of}
                 /\ q.kind = "info" => InPage(q.of)
  <1>1. q \in Requests /\ AsksForItsPage(q) /\ q.visit <= visit /\ foreign \in BOOLEAN
    BY DEF Inv, TypeInv
  <1>2. q.visit \in Nat
    BY <1>1, RequestTypes
  <1> QED BY <1>1, <1>2 DEF AsksForItsPage, Late

(* The parts that only depend on what such a step leaves alone. *)
LEMMA SelectionKept ==
    ASSUME Inv, SamePage, selected' = selected, foreign' = FALSE => foreign = FALSE
    PROVE  PageShowsItsRelease'
  BY DEF Inv, PageShowsItsRelease, SamePage, TypeInv

LEMMA GrownRange ==
    ASSUME Inv, Grown, NEW r \in Releases, NEW n
    PROVE  /\ n \in 1..(revision[r] - 1) => n \in 1..(revision'[r] - 1)
           /\ n \in 1..revision[r] => n \in 1..revision'[r]
  <1>1. revision[r] <= revision'[r] /\ revision[r] \in Nat /\ revision'[r] \in Nat
    BY DEF Grown, Inv, TypeInv
  <1> QED BY <1>1

LEMMA DialogKept ==
    ASSUME Inv, SamePage, Grown, selected' = selected, foreign' = FALSE => foreign = FALSE,
           foreign' \in BOOLEAN, dialog' = dialog \/ dialog' = [dialog EXCEPT !.open = FALSE]
    PROVE  DialogInv' /\ dialog' \in [open : BOOLEAN, choice : Nat \union {None}]
  <1>1. dialog \in [open : BOOLEAN, choice : Nat \union {None}] /\ foreign \in BOOLEAN
    BY DEF Inv, TypeInv
  <1>2. /\ dialog' \in [open : BOOLEAN, choice : Nat \union {None}]
        /\ dialog'.choice = dialog.choice /\ (dialog'.open => dialog.open)
    BY <1>1
  <1>3. page.at = "view" => page.of \in Releases
    BY PageFacts DEF Inv, TypeInv
  <1>4. CASE page.at = "view" /\ ~foreign' /\ mounted = visit
    <2>1. page.of \in Releases /\ ~foreign
      BY <1>1, <1>3, <1>4
    <2>2. /\ dialog.open => selected # None
          /\ dialog.choice # None => dialog.choice \in 1..(revision[page.of] - 1)
          /\ selected # None => selected.rev \in 1..revision[page.of]
      BY <1>4, <2>1 DEF Inv, DialogInv
    <2>3. dialog.choice # None => dialog.choice \in 1..(revision'[page.of] - 1)
      BY <2>1, <2>2, GrownRange
    <2>4. selected # None => selected.rev \in 1..revision'[page.of]
      BY <2>1, <2>2, GrownRange
    <2> QED BY <1>2, <1>4, <2>2, <2>3, <2>4 DEF DialogInv, SamePage
  <1>5. CASE ~(page.at = "view" /\ ~foreign' /\ mounted = visit)
    BY <1>2, <1>5 DEF DialogInv, SamePage, Inv
  <1> QED BY <1>2, <1>4, <1>5

(* A list that was own stays own while it is left alone. *)
LEMMA OwnListKept ==
    ASSUME SamePage, overview' = overview, ListIsOwn
    PROVE  ListIsOwn'
  BY DEF ListIsOwn, Fitting, InPage, SamePage, NameIsShared

(* A step that leaves the selection and the list alone. *)
LEMMA SelectionUntouched ==
    ASSUME Inv, SamePage, Grown, selected' = selected, overview' = overview,
           fetching' \in BOOLEAN, deleting' \in BOOLEAN, foreign' \in BOOLEAN, early' \in BOOLEAN,
           ~foreign' => ~foreign, dialog' = dialog \/ dialog' = [dialog EXCEPT !.open = FALSE], ListInv',
           NEW Sent, \A q \in Sent : MayBeSent(q), requests' \subseteq requests \union Sent
    PROVE  Inv'
  <1>1. /\ requests' \subseteq Requests
        /\ \A q \in requests' : q.visit <= visit'
        /\ \A q \in requests' : q.kind = "release" => q.rev >= 1
        /\ RollbackTargetExists'
        /\ \A q \in requests' : AsksForItsPage(q)'
    BY RequestsKept
  <1>2. foreign' = FALSE => foreign = FALSE
    BY DEF Inv, TypeInv
  <1>3. DialogInv' /\ dialog' \in [open : BOOLEAN, choice : Nat \union {None}]
    BY <1>2, DialogKept
  <1>4. PageShowsItsRelease'
    BY <1>2, SelectionKept
  <1>5. TypeInv'
    <2>1. /\ selected' # None => selected' \in Selections
          /\ overview' # None => overview' \in Seq(Entries)
      BY DEF Inv, TypeInv
    <2> QED BY <1>1, <1>3, <2>1 DEF Inv, TypeInv, SamePage, Grown
  <1> QED BY <1>1, <1>3, <1>4, <1>5 DEF Inv

LEMMA ListKept ==
    ASSUME Inv, SamePage, overview' = overview, fetching' = fetching, error' = error,
           foreign' = foreign, early' = early, requests' = requests
    PROVE  ListInv'
  <1>1. ListIsOwn => ListIsOwn'
    BY OwnListKept
  <1>2. (ListShown' <=> ListShown) /\ (ListAwaited' <=> ListAwaited)
    BY DEF ListShown, ListAwaited, SamePage
  <1> QED BY <1>1, <1>2 DEF Inv, ListInv, SamePage

(* A step of the rollback dialog alone. *)
LEMMA OnlyDialog ==
    ASSUME Inv, SamePage, Grown, DialogInv',
           dialog' \in [open : BOOLEAN, choice : Nat \union {None}],
           requests' = requests, foreign' = foreign, early' = early, deleting' = deleting,
           fetching' = fetching, error' = error, selected' = selected, overview' = overview
    PROVE  Inv'
  <1>1. /\ requests' \subseteq Requests
        /\ \A q \in requests' : q.visit <= visit'
        /\ \A q \in requests' : q.kind = "release" => q.rev >= 1
        /\ RollbackTargetExists'
        /\ \A q \in requests' : AsksForItsPage(q)'
    BY FewerRequests
  <1>2. ListInv'
    BY ListKept
  <1>3. PageShowsItsRelease'
    BY SelectionKept
  <1>4. TypeInv'
    <2>1. /\ selected' # None => selected' \in Selections
          /\ overview' # None => overview' \in Seq(Entries)
          /\ foreign' \in BOOLEAN /\ deleting' \in BOOLEAN /\ fetching' \in BOOLEAN
          /\ early' \in BOOLEAN
      BY DEF Inv, TypeInv
    <2> QED BY <1>1, <2>1 DEF Inv, TypeInv, SamePage, Grown
  <1> QED BY <1>1, <1>2, <1>3, <1>4 DEF Inv

-----------------------------------------------------------------------------
(* Answers *)

LEMMA NothingElse ==
    ASSUME Inv, UNCHANGED <<alive, revision>>, UNCHANGED route
    PROVE  SamePage /\ Grown
  BY DEF Inv, TypeInv, SamePage, Grown, route

LEMMA selectAppKeeps ==
    ASSUME Inv, NEW q \in requests, NEW rev \in 1..MaxRevision, selectApp(q, rev)
    PROVE  Inv'
  <1>1. /\ q.kind = "release" /\ rev \in q.rev..revision[q.of]
        /\ selected' = [rel |-> q.of, rev |-> rev, info |-> None] /\ fetching' = TRUE
        /\ requests' = (requests \ {q}) \union {listWithFilters(q.of, q.visit)}
        /\ foreign' = (foreign \/ Late(q))
        /\ overview' = overview /\ error' = error /\ dialog' = dialog /\ deleting' = deleting
        /\ early' = early /\ UNCHANGED <<alive, revision>> /\ UNCHANGED route
    BY DEF selectApp, cluster, local
  <1>2. SamePage /\ Grown
    BY <1>1, NothingElse
  <1>3. /\ q \in Requests /\ q.visit \in Nat /\ q.visit <= visit /\ foreign' \in BOOLEAN
        /\ ~foreign' => ~foreign /\ page.at # "list"
        /\ ~foreign' /\ page.at = "view" => q.of = page.of
    BY <1>1, OwnAnswer
  <1>4. q.of \in Releases /\ q.rev \in Int /\ q.rev >= 1 /\ revision[q.of] \in Nat
    BY <1>1, <1>3, RequestTypes DEF Inv, TypeInv
  <1>5. rev \in Nat /\ rev \in 1..revision[q.of]
    BY <1>1, <1>4
  <1>6. selected' \in Selections /\ selected' # None
    BY <1>1, <1>4, <1>5, ReleaseConstants DEF Selections
  <1>7. MayBeSent(listWithFilters(q.of, q.visit))
    <2>1. /\ listWithFilters(q.of, q.visit) \in Requests
          /\ listWithFilters(q.of, q.visit).kind = "info"
          /\ listWithFilters(q.of, q.visit).of = q.of
          /\ listWithFilters(q.of, q.visit).visit = q.visit
      BY <1>3, <1>4, SentFacts DEF Inv
    <2>2. AsksForItsPage(q)
      BY DEF Inv
    <2>3. AsksForItsPage(listWithFilters(q.of, q.visit))
      BY <1>1, <2>1, <2>2 DEF AsksForItsPage
    <2> QED BY <1>3, <2>1, <2>3 DEF MayBeSent
  <1>8. /\ requests' \subseteq Requests
        /\ \A o \in requests' : o.visit <= visit'
        /\ \A o \in requests' : o.kind = "release" => o.rev >= 1
        /\ RollbackTargetExists'
        /\ \A o \in requests' : AsksForItsPage(o)'
    <2> DEFINE Sent == {listWithFilters(q.of, q.visit)}
    <2>1. \A o \in Sent : MayBeSent(o)
      BY <1>7
    <2>2. requests' \subseteq requests \union Sent
      BY <1>1
    <2> HIDE DEF Sent
    <2> QED BY <1>2, <2>1, <2>2, RequestsKept
  <1>9. TypeInv'
    <2>1. /\ dialog' \in [open : BOOLEAN, choice : Nat \union {None}] /\ deleting' \in BOOLEAN
          /\ early' \in BOOLEAN /\ overview' # None => overview' \in Seq(Entries)
      BY <1>1 DEF Inv, TypeInv
    <2> QED BY <1>1, <1>2, <1>3, <1>6, <1>8, <2>1 DEF Inv, TypeInv, SamePage, Grown
  <1>10. PageShowsItsRelease'
    BY <1>1, <1>2, <1>3 DEF PageShowsItsRelease, SamePage
  <1>11. ListInv'
    BY <1>2, <1>3 DEF ListInv, SamePage
  <1>12. DialogInv'
    <2>1. dialog.open => page.at = "view"
      BY DEF Inv, DialogInv
    <2>2. page.at = "view" /\ ~foreign' /\ mounted = visit =>
             (dialog.choice # None => dialog.choice \in 1..(revision[page.of] - 1))
      BY <1>3 DEF Inv, DialogInv
    <2>3. page.at = "view" /\ ~foreign' => selected'.rev \in 1..revision[page.of]
      BY <1>1, <1>3, <1>5
    <2> QED BY <1>1, <1>2, <1>6, <2>1, <2>2, <2>3 DEF DialogInv, SamePage
  <1> QED BY <1>8, <1>9, <1>10, <1>11, <1>12 DEF Inv

(* The update information of a list stands beside a release of its name,   *)
(* and if the two are different releases the list is that of all           *)
(* namespaces.                                                             *)
LEMMA SetInfoTyped ==
    ASSUME overview \in Seq(Entries), NEW r \in Releases
    PROVE  /\ SetInfo(overview, r) \in Seq(Entries)
           /\ DOMAIN SetInfo(overview, r) = DOMAIN overview
           /\ \A i \in DOMAIN overview :
                 SetInfo(overview, r)[i] =
                    IF FirstNamed(overview, r, i) THEN [overview[i] EXCEPT !.info = r]
                    ELSE overview[i]
  <1>1. /\ DOMAIN overview = 1..Len(overview) /\ Len(overview) \in Nat
        /\ \A i \in DOMAIN overview : overview[i] \in Entries
    OBVIOUS
  <1>2. /\ DOMAIN SetInfo(overview, r) = 1..Len(overview)
        /\ \A i \in DOMAIN overview :
              SetInfo(overview, r)[i] =
                 IF FirstNamed(overview, r, i) THEN [overview[i] EXCEPT !.info = r] ELSE overview[i]
    BY <1>1 DEF SetInfo
  <1>3. ASSUME NEW i \in DOMAIN overview
        PROVE  [overview[i] EXCEPT !.info = r] \in Entries
    BY <1>1 DEF Entries
  <1>4. \A i \in 1..Len(overview) : SetInfo(overview, r)[i] \in Entries
    BY <1>1, <1>2, <1>3
  <1>5. SetInfo(overview, r) \in [1..Len(overview) -> Entries]
    BY <1>1, <1>4 DEF SetInfo
  <1>6. SetInfo(overview, r) \in Seq(Entries)
    BY <1>1, <1>5
  <1> QED BY <1>1, <1>2, <1>6

LEMMA SetInfoFits ==
    ASSUME overview \in Seq(Entries), NEW r \in Releases, InPage(r), ListIsOwn
    PROVE  \A i \in DOMAIN SetInfo(overview, r) : Fitting(SetInfo(overview, r)[i])
  <1>1. /\ DOMAIN SetInfo(overview, r) = DOMAIN overview
        /\ \A i \in DOMAIN overview : overview[i] \in Entries
    BY SetInfoTyped
  <1>2. \A i \in DOMAIN overview :
           SetInfo(overview, r)[i] =
              IF FirstNamed(overview, r, i) THEN [overview[i] EXCEPT !.info = r] ELSE overview[i]
    BY SetInfoTyped
  <1>3. ASSUME NEW i \in DOMAIN overview
        PROVE  Fitting(SetInfo(overview, r)[i])
    <2>1. Fitting(overview[i]) /\ overview[i] \in Entries
      BY <1>1 DEF ListIsOwn
    <2>2. CASE ~FirstNamed(overview, r, i)
      BY <1>2, <2>1, <2>2
    <2>3. CASE FirstNamed(overview, r, i)
      <3> DEFINE e == SetInfo(overview, r)[i]
      <3>1. overview[i].rel \in Releases /\ Name(overview[i].rel) = Name(r)
        BY <2>1, <2>3 DEF FirstNamed, Entries
      <3>2. e.rel = overview[i].rel /\ e.info = r
        BY <1>2, <2>1, <2>3 DEF Entries
      <3>3. CASE e.rel = r
        BY <2>1, <3>2, <3>3 DEF Fitting
      <3>4. CASE e.rel # r
        <4>1. NameIsShared(e.rel)
          BY <3>1, <3>2, <3>4 DEF NameIsShared
        <4>2. Namespace(e.rel) # Namespace(r)
          BY <3>1, <3>2, <3>4, ReleaseConstants
        <4>3. InPage(e.rel)
          BY <2>1, <3>2 DEF Fitting
        <4>4. page.of = All
          BY <4>2, <4>3 DEF InPage
        <4> QED BY <4>1, <4>3, <4>4 DEF Fitting
      <3> QED BY <3>3, <3>4
    <2> QED BY <2>2, <2>3
  <1> QED BY <1>1, <1>3

LEMMA receiveAppUpdateInfoKeeps ==
    ASSUME Inv, NEW q \in requests, receiveAppUpdateInfo(q)
    PROVE  Inv'
  <1>1. /\ q.kind = "info" /\ fetching' = FALSE /\ requests' = requests \ {q}
        /\ overview' = (IF overview = None THEN None ELSE SetInfo(overview, q.of))
        /\ selected' = (IF selected # None /\ Name(selected.rel) = Name(q.of)
                        THEN [selected EXCEPT !.info = q.of] ELSE selected)
        /\ foreign' = (foreign \/ Late(q))
        /\ error' = error /\ dialog' = dialog /\ deleting' = deleting /\ early' = early
        /\ UNCHANGED <<alive, revision>> /\ UNCHANGED route
    BY DEF receiveAppUpdateInfo, cluster, local
  <1>2. SamePage /\ Grown
    BY <1>1, NothingElse
  <1>3. /\ q \in Requests /\ foreign' \in BOOLEAN
        /\ ~foreign' => ~foreign /\ q.visit = visit
        /\ ~foreign' /\ page.at = "view" => q.of = page.of
        /\ ~foreign' /\ page.at = "list" => InPage(q.of)
    BY <1>1, OwnAnswer
  <1>4. q.of \in Releases
    BY <1>1, <1>3, RequestTypes
  <1>5. /\ requests' \subseteq Requests
        /\ \A o \in requests' : o.visit <= visit'
        /\ \A o \in requests' : o.kind = "release" => o.rev >= 1
        /\ RollbackTargetExists'
        /\ \A o \in requests' : AsksForItsPage(o)'
    <2>1. requests' \subseteq requests
      BY <1>1
    <2> QED BY <1>2, <2>1, FewerRequests
  <1>6. ASSUME selected # None
        PROVE  /\ selected' \in Selections /\ selected' # None
               /\ selected'.rel = selected.rel /\ selected'.rev = selected.rev
               /\ selected'.info \in {selected.info, q.of}
    <2>1. selected \in Selections
      BY <1>6 DEF Inv, TypeInv
    <2>2. [selected EXCEPT !.info = q.of] \in Selections
      BY <1>4, <2>1 DEF Selections
    <2>3. /\ [selected EXCEPT !.info = q.of].rel = selected.rel
          /\ [selected EXCEPT !.info = q.of].rev = selected.rev
          /\ [selected EXCEPT !.info = q.of].info = q.of
      BY <2>1 DEF Selections
    <2>4. selected' \in Selections
      BY <1>1, <2>1, <2>2
    <2> QED BY <1>1, <2>3, <2>4, ReleaseConstants
  <1>7. selected = None => selected' = None
    BY <1>1
  <1>8. overview # None => overview' \in Seq(Entries) /\ overview' # None
    <2> SUFFICES ASSUME overview # None
                 PROVE  overview' \in Seq(Entries)
      BY ReleaseConstants
    <2>1. overview \in Seq(Entries)
      BY DEF Inv, TypeInv
    <2> QED BY <1>1, <1>4, <2>1, SetInfoTyped
  <1>9. TypeInv'
    <2>1. /\ dialog' \in [open : BOOLEAN, choice : Nat \union {None}] /\ deleting' \in BOOLEAN
          /\ early' \in BOOLEAN /\ overview' # None => overview' \in Seq(Entries)
      BY <1>1, <1>8 DEF Inv, TypeInv
    <2>2. selected' # None => selected' \in Selections
      BY <1>6, <1>7
    <2> QED BY <1>1, <1>2, <1>3, <1>5, <2>1, <2>2 DEF Inv, TypeInv, SamePage, Grown
  <1>10. PageShowsItsRelease'
    BY <1>2, <1>3, <1>6, <1>7 DEF Inv, PageShowsItsRelease, SamePage
  <1>11. ListInv'
    <2> SUFFICES ASSUME page.at = "list", ~foreign'
                 PROVE  ListIsOwn'
      BY <1>2 DEF ListInv, SamePage
    <2>1. ~foreign /\ q.visit = visit /\ InPage(q.of)
      BY <1>3
    <2>2. ListIsOwn
      BY <1>1, <2>1 DEF Inv, ListInv
    <2>3. overview # None /\ overview \in Seq(Entries)
      BY <2>2 DEF ListIsOwn, Inv, TypeInv
    <2>4. overview' = SetInfo(overview, q.of)
      BY <1>1, <2>3
    <2>5. \A i \in DOMAIN overview' : Fitting(overview'[i])
      BY <1>4, <2>1, <2>2, <2>3, <2>4, SetInfoFits
    <2>6. \A i \in DOMAIN overview' : Fitting(overview[i])'
      BY <1>2, <2>5 DEF Fitting, InPage, SamePage, NameIsShared
    <2> QED BY <1>8, <2>3, <2>6 DEF ListIsOwn
  <1>12. DialogInv'
    <2>1. dialog.open => page.at = "view"
      BY DEF Inv, DialogInv
    <2>2. page.at = "view" /\ ~foreign' /\ mounted = visit =>
             /\ dialog.open => selected # None
             /\ dialog.choice # None => dialog.choice \in 1..(revision[page.of] - 1)
             /\ selected # None => selected.rev \in 1..revision[page.of]
      BY <1>3 DEF Inv, DialogInv
    <2> QED BY <1>1, <1>2, <1>6, <1>7, <2>1, <2>2 DEF DialogInv, SamePage
  <1> QED BY <1>5, <1>9, <1>10, <1>11, <1>12 DEF Inv

(* A list holds releases of its scope. *)
LEMMA ListedFacts ==
    ASSUME NEW s, NEW list \in SetToSeqs(Listed(s)), NEW ov,
           ov = [i \in 1..Len(list) |-> [rel |-> list[i], info |-> None]]
    PROVE  /\ ov \in Seq(Entries)
           /\ \A i \in DOMAIN ov : ov[i].rel \in Listed(s) /\ ov[i].info = None
  <1>1. Listed(s) \subseteq Releases
    BY DEF Listed
  <1>2. IsFiniteSet(Listed(s))
    BY <1>1, FS_Subset, ReleaseConstants
  <1>3. PICK n \in Nat : n = Cardinality(Listed(s))
    BY <1>2, FS_CardinalityType
  <1>4. list \in [1..n -> Listed(s)]
    BY <1>3 DEF SetToSeqs
  <1>5. Len(list) = n
    BY <1>4
  <1>6. \A i \in 1..n : [rel |-> list[i], info |-> None] \in Entries
    BY <1>1, <1>4 DEF Entries
  <1>7. ov \in [1..n -> Entries]
    BY <1>5, <1>6
  <1>8. ov \in Seq(Entries)
    BY <1>7
  <1> QED BY <1>4, <1>5, <1>8

LEMMA receiveAppListKeeps ==
    ASSUME Inv, NEW q \in requests, receiveAppList(q)
    PROVE  Inv'
  <1> DEFINE Sent == {listWithFilters(r, q.visit) : r \in Listed(q.of)}
  <1>1. /\ q.kind = "list" /\ fetching' \in BOOLEAN
        /\ requests' = (requests \ {q}) \union Sent
        /\ foreign' = (foreign \/ Late(q))
        /\ error' = error /\ selected' = selected /\ dialog' = dialog /\ deleting' = deleting
        /\ early' = (early /\ Late(q)) /\ UNCHANGED <<alive, revision>> /\ UNCHANGED route
    BY DEF receiveAppList, cluster, local
  <1>2. SamePage /\ Grown
    BY <1>1, NothingElse
  <1>3. /\ q \in Requests /\ q.visit \in Nat /\ q.visit <= visit /\ foreign' \in BOOLEAN
        /\ ~foreign' => ~foreign /\ q.visit = visit
        /\ ~foreign' => page.at # "view"
        /\ ~foreign' /\ page.at = "list" => page.of \in {All, q.of}
    BY <1>1, OwnAnswer
  <1>4. PICK list \in SetToSeqs(Listed(q.of)) :
           overview' = [i \in 1..Len(list) |-> [rel |-> list[i], info |-> None]]
    BY DEF receiveAppList
  <1>5. /\ overview' \in Seq(Entries)
        /\ \A i \in DOMAIN overview' : overview'[i].rel \in Listed(q.of) /\ overview'[i].info = None
    BY <1>4, ListedFacts
  <1>6. \A r \in Listed(q.of) : r \in Releases /\ (page.of \in {All, q.of} => InPage(r))
    BY DEF Listed, InScope, InPage
  <1>7. \A o \in Sent : MayBeSent(o)
    <2> SUFFICES ASSUME NEW r \in Listed(q.of)
                 PROVE  MayBeSent(listWithFilters(r, q.visit))
      OBVIOUS
    <2>1. /\ listWithFilters(r, q.visit) \in Requests
          /\ listWithFilters(r, q.visit).kind = "info"
          /\ listWithFilters(r, q.visit).of = r
          /\ listWithFilters(r, q.visit).visit = q.visit
      BY <1>3, <1>6, SentFacts DEF Inv
    <2>2. AsksForItsPage(q)
      BY DEF Inv
    <2>3. AsksForItsPage(listWithFilters(r, q.visit))
      BY <1>1, <1>6, <2>1, <2>2 DEF AsksForItsPage
    <2> QED BY <1>3, <2>1, <2>3 DEF MayBeSent
  <1>8. requests' \subseteq requests \union Sent
    BY <1>1
  <1> HIDE DEF Sent
  <1>9. /\ requests' \subseteq Requests
        /\ \A o \in requests' : o.visit <= visit'
        /\ \A o \in requests' : o.kind = "release" => o.rev >= 1
        /\ RollbackTargetExists'
        /\ \A o \in requests' : AsksForItsPage(o)'
    BY <1>2, <1>7, <1>8, RequestsKept
  <1>10. foreign' = FALSE => foreign = FALSE
    BY <1>3 DEF Inv, TypeInv
  <1>11. DialogInv' /\ dialog' \in [open : BOOLEAN, choice : Nat \union {None}]
    BY <1>1, <1>2, <1>3, <1>10, DialogKept
  <1>12. PageShowsItsRelease'
    BY <1>1, <1>2, <1>10, SelectionKept
  <1>13. TypeInv'
    <2>1. deleting' \in BOOLEAN /\ (selected' # None => selected' \in Selections)
      BY <1>1 DEF Inv, TypeInv
    <2>2. early' \in BOOLEAN
      BY <1>1
    <2> QED BY <1>1, <1>2, <1>3, <1>5, <1>9, <1>11, <2>1, <2>2 DEF Inv, TypeInv, SamePage, Grown
  <1>14. ListInv'
    <2> SUFFICES ASSUME page.at = "list", ~foreign'
                 PROVE  ListIsOwn'
      BY <1>2 DEF ListInv, SamePage
    <2>1. page.of \in {All, q.of}
      BY <1>3
    <2>2. \A i \in DOMAIN overview' : InPage(overview'[i].rel) /\ overview'[i].info = None
      BY <1>5, <1>6, <2>1
    <2>3. \A i \in DOMAIN overview' : Fitting(overview[i])'
      BY <1>2, <2>2 DEF Fitting, InPage, SamePage
    <2> QED BY <1>5, <2>3, ReleaseConstants DEF ListIsOwn
  <1> QED BY <1>9, <1>11, <1>12, <1>13, <1>14 DEF Inv

LEMMA errorAppKeeps ==
    ASSUME Inv, NEW q \in requests, errorApp(q)
    PROVE  Inv'
  <1>1. /\ fetching' = FALSE /\ requests' \subseteq requests
        /\ foreign' = (foreign \/ Late(q)) /\ deleting' \in {FALSE, deleting}
        /\ selected' = selected /\ overview' = overview /\ dialog' = dialog /\ early' = early
        /\ UNCHANGED <<alive, revision>> /\ UNCHANGED route
    BY DEF errorApp, cluster
  <1>2. error' # None
    BY ReleaseConstants DEF errorApp
  <1>3. SamePage /\ Grown
    BY <1>1, NothingElse
  <1>4. foreign' \in BOOLEAN /\ (~foreign' => ~foreign)
    BY <1>1, OwnAnswer
  <1>5. ListInv'
    <2> SUFFICES ASSUME page.at = "list", ~foreign', ~ListIsOwn'
                 PROVE  /\ ~ListShown' /\ ListAwaited'
                        /\ \A o \in requests' : o.visit = visit' => o.kind # "info"
      BY <1>3 DEF ListInv, SamePage
    <2>1. ~ListIsOwn
      BY <1>1, <1>3, OwnListKept
    <2> QED BY <1>1, <1>2, <1>3, <1>4, <2>1 DEF Inv, ListInv, ListShown, ListAwaited, SamePage
  <1>6. deleting' \in BOOLEAN /\ early' \in BOOLEAN
    BY <1>1 DEF Inv, TypeInv
  <1> QED BY <1>1, <1>3, <1>4, <1>5, <1>6, FewerRequests, SelectionUntouched

-----------------------------------------------------------------------------
(* The dialogs *)

LEMMA OpenRollbackKeeps ==
    ASSUME Inv, OpenRollback
    PROVE  Inv'
  <1>1. /\ page.at = "view" /\ selected # None /\ dialog' = [dialog EXCEPT !.open = TRUE]
        /\ requests' = requests /\ foreign' = foreign /\ early' = early /\ deleting' = deleting
        /\ fetching' = fetching /\ error' = error /\ selected' = selected /\ overview' = overview
        /\ UNCHANGED <<alive, revision>> /\ UNCHANGED route
    BY DEF OpenRollback, cluster, store
  <1>2. SamePage /\ Grown
    BY <1>1, NothingElse
  <1>3. dialog \in [open : BOOLEAN, choice : Nat \union {None}]
    BY DEF Inv, TypeInv
  <1>4. /\ dialog' \in [open : BOOLEAN, choice : Nat \union {None}]
        /\ dialog'.choice = dialog.choice
    BY <1>1, <1>3
  <1>5. DialogInv'
    BY <1>1, <1>2, <1>4 DEF Inv, DialogInv, SamePage
  <1> QED BY <1>1, <1>2, <1>4, <1>5, OnlyDialog

LEMMA CloseRollbackKeeps ==
    ASSUME Inv, CloseRollback
    PROVE  Inv'
  <1>1. /\ dialog' = [dialog EXCEPT !.open = FALSE]
        /\ requests' = requests /\ foreign' = foreign /\ early' = early /\ deleting' = deleting
        /\ fetching' = fetching /\ error' = error /\ selected' = selected /\ overview' = overview
        /\ UNCHANGED <<alive, revision>> /\ UNCHANGED route
    BY DEF CloseRollback, cluster, store
  <1>2. SamePage /\ Grown
    BY <1>1, NothingElse
  <1>3. foreign' \in BOOLEAN
    BY <1>1 DEF Inv, TypeInv
  <1>4. DialogInv' /\ dialog' \in [open : BOOLEAN, choice : Nat \union {None}]
    BY <1>1, <1>2, <1>3, DialogKept
  <1> QED BY <1>1, <1>2, <1>4, OnlyDialog

LEMMA selectRevisionKeeps ==
    ASSUME Inv, NEW n \in 1..MaxRevision, selectRevision(n)
    PROVE  Inv'
  <1>1. /\ dialog.open /\ n \in 1..(CurrentRevision - 1)
        /\ dialog' = [dialog EXCEPT !.choice = n]
        /\ requests' = requests /\ foreign' = foreign /\ early' = early /\ deleting' = deleting
        /\ fetching' = fetching /\ error' = error /\ selected' = selected /\ overview' = overview
        /\ UNCHANGED <<alive, revision>> /\ UNCHANGED route
    BY DEF selectRevision, cluster, store
  <1>2. SamePage /\ Grown
    BY <1>1, NothingElse
  <1>3. dialog \in [open : BOOLEAN, choice : Nat \union {None}] /\ n \in Nat
    BY ReleaseConstants DEF Inv, TypeInv
  <1>4. /\ dialog' \in [open : BOOLEAN, choice : Nat \union {None}]
        /\ dialog'.choice = n /\ dialog'.open = dialog.open
    BY <1>1, <1>3
  <1>5. page.at = "view" /\ page.of \in Releases
    BY <1>1, PageFacts DEF Inv, DialogInv, TypeInv
  <1>6. revision[page.of] \in Nat
    BY <1>5 DEF Inv, TypeInv
  <1>7. CASE ~foreign /\ mounted = visit
    <2>1. selected # None /\ selected.rev \in 1..revision[page.of]
      BY <1>1, <1>5, <1>7 DEF Inv, DialogInv
    <2>2. n \in 1..(selected.rev - 1)
      BY <1>1, <2>1 DEF CurrentRevision
    <2>3. n \in 1..(revision[page.of] - 1)
      BY <1>3, <1>6, <2>1, <2>2
    <2>4. DialogInv'
      BY <1>1, <1>2, <1>4, <1>5, <2>1, <2>3 DEF DialogInv, SamePage
    <2> QED BY <1>1, <1>2, <1>4, <2>4, OnlyDialog
  <1>8. CASE ~(~foreign /\ mounted = visit)
    <2>1. DialogInv'
      BY <1>1, <1>2, <1>5, <1>8 DEF DialogInv, SamePage
    <2> QED BY <1>1, <1>2, <1>4, <2>1, OnlyDialog
  <1> QED BY <1>7, <1>8

(* The target of a rollback that is not odd. *)
LEMMA TargetFacts ==
    ASSUME Inv, dialog.open, CurrentRevision # 1
    PROVE  /\ TargetRevision \in Int
           /\ page.at = "view" /\ page.of \in Releases
           /\ ~foreign /\ mounted = visit => TargetRevision \in 1..(revision[page.of] - 1)
  <1>1. page.at = "view" /\ page.of \in Releases
    BY PageFacts DEF Inv, DialogInv, TypeInv
  <1>2. CurrentRevision \in Nat
    BY DEF Inv, TypeInv, CurrentRevision, Selections
  <1>3. dialog.choice # None => dialog.choice \in Nat
    BY DEF Inv, TypeInv
  <1>4. TargetRevision \in Int
    BY <1>2, <1>3 DEF TargetRevision
  <1>5. revision[page.of] \in Nat
    BY <1>1 DEF Inv, TypeInv
  <1>6. ASSUME ~foreign, mounted = visit
        PROVE  TargetRevision \in 1..(revision[page.of] - 1)
    <2>1. /\ selected # None /\ selected.rev \in 1..revision[page.of]
          /\ dialog.choice # None => dialog.choice \in 1..(revision[page.of] - 1)
      BY <1>1, <1>6 DEF Inv, DialogInv
    <2>2. CASE dialog.choice # None
      BY <2>1, <2>2 DEF TargetRevision
    <2>3. CASE dialog.choice = None
      <3>1. TargetRevision = selected.rev - 1 /\ selected.rev # 1
        BY <2>1, <2>3 DEF TargetRevision, CurrentRevision
      <3> QED BY <1>5, <2>1, <3>1
    <2> QED BY <2>2, <2>3
  <1> QED BY <1>1, <1>4, <1>6

LEMMA handleRollbackKeeps ==
    ASSUME Inv, handleRollback
    PROVE  Inv'
  <1> DEFINE q == rollback(page.of, TargetRevision)
             Sent == {q}
  <1>1. /\ dialog.open /\ CurrentRevision # 1 /\ requests' = requests \union Sent
        /\ fetching' = TRUE /\ foreign' = foreign /\ deleting' = deleting /\ dialog' = dialog
        /\ early' = early /\ error' = error /\ selected' = selected /\ overview' = overview
        /\ UNCHANGED <<alive, revision>> /\ UNCHANGED route
    BY DEF handleRollback, cluster, local
  <1>2. SamePage /\ Grown
    BY <1>1, NothingElse
  <1>3. /\ TargetRevision \in Int /\ page.at = "view" /\ page.of \in Releases
        /\ ~foreign /\ mounted = visit => TargetRevision \in 1..(revision[page.of] - 1)
    BY <1>1, TargetFacts
  <1>4. /\ q.kind = "rollback" /\ q.of = page.of /\ q.rev = TargetRevision /\ q.visit = visit
        /\ q.odd = (foreign \/ mounted # visit)
    BY DEF rollback, Request
  <1>5. q \in Requests
    <2>1. visit \in Nat /\ (foreign \/ mounted # visit) \in BOOLEAN
      BY DEF Inv, TypeInv
    <2>2. q \in [kind : {"release", "info", "delete", "rollback"}, of : Releases, rev : Int,
                 visit : Nat, odd : BOOLEAN]
      BY <1>3, <2>1 DEF rollback, Request
    <2> QED BY <2>2 DEF Requests
  <1> HIDE DEF q
  <1>6. MayBeSent(q)
    <2>1. q.visit <= visit
      BY <1>4 DEF Inv, TypeInv
    <2>2. AsksForItsPage(q)
      BY <1>3, <1>4 DEF AsksForItsPage
    <2> QED BY <1>3, <1>4, <1>5, <2>1, <2>2 DEF MayBeSent
  <1>7. \A o \in Sent : MayBeSent(o)
    BY <1>6
  <1>8. deleting' \in BOOLEAN /\ foreign' \in BOOLEAN /\ early' \in BOOLEAN
    BY <1>1 DEF Inv, TypeInv
  <1>9. ListInv'
    BY <1>2, <1>3 DEF ListInv, SamePage
  <1> HIDE DEF Sent
  <1> QED BY <1>1, <1>2, <1>7, <1>8, <1>9, SelectionUntouched

LEMMA handleDeleteClickKeeps ==
    ASSUME Inv, handleDeleteClick
    PROVE  Inv'
  <1> DEFINE q == deleteRequest(page.of)
             Sent == {q}
  <1>1. /\ page.at = "view" /\ requests' = requests \union Sent
        /\ fetching' = TRUE /\ foreign' = foreign /\ deleting' = TRUE /\ dialog' = dialog
        /\ early' = early /\ error' = error /\ selected' = selected /\ overview' = overview
        /\ UNCHANGED <<alive, revision>> /\ UNCHANGED route
    BY DEF handleDeleteClick, cluster
  <1>2. SamePage /\ Grown
    BY <1>1, NothingElse
  <1>3. page.of \in Releases /\ visit \in Nat
    BY <1>1, PageFacts DEF Inv, TypeInv
  <1>4. q.kind = "delete" /\ q.of = page.of /\ q.visit = visit
    BY DEF deleteRequest, Request
  <1>5. q \in Requests
    <2>1. q \in [kind : {"release", "info", "delete", "rollback"}, of : Releases, rev : Int,
                 visit : Nat, odd : BOOLEAN]
      BY <1>3 DEF deleteRequest, Request
    <2> QED BY <2>1 DEF Requests
  <1> HIDE DEF q
  <1>6. MayBeSent(q)
    <2>1. AsksForItsPage(q)
      BY <1>1, <1>4 DEF AsksForItsPage
    <2> QED BY <1>3, <1>4, <1>5, <2>1 DEF MayBeSent
  <1>7. \A o \in Sent : MayBeSent(o)
    BY <1>6
  <1>8. foreign' \in BOOLEAN /\ early' \in BOOLEAN
    BY <1>1 DEF Inv, TypeInv
  <1>9. ListInv'
    BY <1>1, <1>2 DEF ListInv, SamePage
  <1> HIDE DEF Sent
  <1> QED BY <1>1, <1>2, <1>7, <1>8, <1>9, SelectionUntouched

LEMMA RevisionGrows ==
    ASSUME Inv, NEW r \in Releases, revision' = [revision EXCEPT ![r] = @ + 1]
    PROVE  Grown
  <1>1. revision \in [Releases -> Nat \ {0}]
    BY DEF Inv, TypeInv
  <1>2. revision[r] + 1 \in Nat \ {0}
    BY <1>1
  <1>3. revision' \in [Releases -> Nat \ {0}]
    BY <1>1, <1>2
  <1>4. \A o \in Releases : revision[o] <= revision'[o]
    BY <1>1
  <1> QED BY <1>3, <1>4 DEF Grown

LEMMA receiveRollbackAppKeeps ==
    ASSUME Inv, NEW q \in requests, receiveRollbackApp(q)
    PROVE  Inv'
  <1> DEFINE o == Request("release", q.of, revision[q.of] + 1, q.visit, FALSE)
             Sent == {o}
  <1>1. /\ q.kind = "rollback" /\ revision' = [revision EXCEPT ![q.of] = @ + 1]
        /\ requests' = (requests \ {q}) \union Sent
        /\ foreign' = (foreign \/ Late(q)) /\ fetching' = TRUE /\ deleting' = deleting
        /\ dialog' = dialog \/ dialog' = [dialog EXCEPT !.open = FALSE]
        /\ early' = early /\ error' = error /\ selected' = selected /\ overview' = overview
        /\ UNCHANGED route
    BY DEF receiveRollbackApp
  <1>2. /\ q \in Requests /\ q.visit \in Nat /\ q.visit <= visit /\ foreign' \in BOOLEAN
        /\ ~foreign' => ~foreign /\ page.at # "list"
    BY <1>1, OwnAnswer
  <1>3. q.of \in Releases
    BY <1>1, <1>2, RequestTypes
  <1>4. SamePage /\ Grown
    BY <1>1, <1>3, RevisionGrows DEF SamePage, route
  <1>5. revision[q.of] \in Nat /\ revision[q.of] + 1 \in Int /\ revision[q.of] + 1 >= 1
    BY <1>3 DEF Inv, TypeInv
  <1>6. /\ o.kind = "release" /\ o.of = q.of /\ o.visit = q.visit /\ o.rev >= 1
    BY <1>5 DEF Request
  <1>7. o \in Requests
    <2>1. o \in [kind : {"release", "info", "delete", "rollback"}, of : Releases, rev : Int,
                 visit : Nat, odd : BOOLEAN]
      BY <1>2, <1>3, <1>5 DEF Request
    <2> QED BY <2>1 DEF Requests
  <1> HIDE DEF o
  <1>8. MayBeSent(o)
    <2>1. AsksForItsPage(q)
      BY DEF Inv
    <2>2. AsksForItsPage(o)
      BY <1>1, <1>6, <2>1 DEF AsksForItsPage
    <2> QED BY <1>2, <1>6, <1>7, <2>2 DEF MayBeSent
  <1>9. \A x \in Sent : MayBeSent(x)
    BY <1>8
  <1>10. requests' \subseteq requests \union Sent
    BY <1>1
  <1>11. deleting' \in BOOLEAN /\ early' \in BOOLEAN
    BY <1>1 DEF Inv, TypeInv
  <1>12. ListInv'
    BY <1>2, <1>4 DEF ListInv, SamePage
  <1> HIDE DEF Sent
  <1> QED BY <1>1, <1>2, <1>4, <1>9, <1>10, <1>11, <1>12, SelectionUntouched

LEMMA UpgradedElsewhereKeeps ==
    ASSUME Inv, NEW r \in Releases, UpgradedElsewhere(r)
    PROVE  Inv'
  <1>1. /\ revision' = [revision EXCEPT ![r] = @ + 1] /\ requests' = requests
        /\ foreign' = foreign /\ fetching' = fetching /\ deleting' = deleting /\ dialog' = dialog
        /\ early' = early /\ error' = error /\ selected' = selected /\ overview' = overview
        /\ UNCHANGED route
    BY DEF UpgradedElsewhere, store, local
  <1>2. SamePage /\ Grown
    BY <1>1, RevisionGrows DEF SamePage, route
  <1>3. /\ foreign' \in BOOLEAN /\ deleting' \in BOOLEAN /\ fetching' \in BOOLEAN
        /\ early' \in BOOLEAN
    BY <1>1 DEF Inv, TypeInv
  <1>4. ListInv'
    BY <1>1, <1>2, ListKept
  <1> QED BY <1>1, <1>2, <1>3, <1>4, FewerRequests, SelectionUntouched

-----------------------------------------------------------------------------
(* The steps that change the page *)

LEMMA VisitKeeps ==
    ASSUME Inv, NEW p \in Pages, Visit(p)
    PROVE  Inv'
  <1> DEFINE fresh == page.at = "view"
  <1>1. NavigateTo(p) /\ revision' = revision
    BY DEF Visit, cluster
  <1>2. PICK current \in Namespaces :
           requests' = requests \union MountRequests(p, current, fresh, visit + 1)
    BY DEF Visit
  <1> HIDE DEF fresh
  <1> QED BY <1>1, <1>2, NavigateKeeps

LEMMA receiveDeleteAppKeeps ==
    ASSUME Inv, NEW q \in requests, receiveDeleteApp(q)
    PROVE  Inv'
  <1> DEFINE p == [at |-> "list", of |-> Namespace(q.of)]
             Q == requests \ {q}
             current == p.of
             fresh == page.at = "view"
  <1>1. q.of \in Releases
    BY RequestTypes DEF receiveDeleteApp, Inv, TypeInv
  <1>2. Namespace(q.of) \in Namespaces
    BY <1>1, ReleaseConstants
  <1>3. p \in Pages /\ current \in Namespaces
    BY <1>2 DEF Pages, Scopes
  <1>4. /\ NavigateTo(p) /\ revision' = revision /\ Q \in SUBSET requests
        /\ requests' = Q \union MountRequests(p, current, fresh, visit + 1)
    BY DEF receiveDeleteApp
  <1> HIDE DEF p, Q, current, fresh
  <1> QED BY <1>3, <1>4, NavigateKeeps

(* A search over a list that is still awaited leaves its mark. *)
LEMMA submitSearchFilterKeeps ==
    ASSUME Inv, submitSearchFilter
    PROVE  Inv'
  <1>1. /\ page.at = "list" /\ error' = None /\ selected' = None /\ fetching' = FALSE
        /\ early' = (early \/ ListAwaited) /\ overview' = overview
        /\ dialog' = dialog /\ deleting' = deleting /\ requests' = requests /\ foreign' = foreign
        /\ UNCHANGED <<alive, revision>> /\ UNCHANGED route
    BY DEF submitSearchFilter, SelectedAfterMove, ListAwaited, cluster, local
  <1>2. SamePage /\ Grown
    BY <1>1, NothingElse
  <1>3. /\ requests' \subseteq Requests
        /\ \A q \in requests' : q.visit <= visit'
        /\ \A q \in requests' : q.kind = "release" => q.rev >= 1
        /\ RollbackTargetExists'
        /\ \A q \in requests' : AsksForItsPage(q)'
    BY <1>1, <1>2, FewerRequests
  <1>4. PageShowsItsRelease'
    BY <1>1 DEF PageShowsItsRelease
  <1>5. DialogInv'
    BY <1>1, <1>2 DEF Inv, DialogInv, SamePage
  <1>6. ListInv'
    <2>1. ListIsOwn => ListIsOwn'
      BY <1>1, <1>2, OwnListKept
    <2> QED BY <1>1, <1>2, <2>1 DEF Inv, ListInv, SamePage
  <1>7. TypeInv'
    <2>1. early' \in BOOLEAN
      BY <1>1
    <2>2. /\ overview' # None => overview' \in Seq(Entries)
          /\ dialog' \in [open : BOOLEAN, choice : Nat \union {None}]
          /\ foreign' \in BOOLEAN /\ deleting' \in BOOLEAN
      BY <1>1 DEF Inv, TypeInv
    <2> QED BY <1>1, <1>2, <1>3, <2>1, <2>2 DEF Inv, TypeInv, SamePage, Grown
  <1> QED BY <1>3, <1>4, <1>5, <1>6, <1>7 DEF Inv

-----------------------------------------------------------------------------
(* The invariant *)

LEMMA InitHolds ==
    ASSUME Init
    PROVE  Inv
  <1>1. /\ revision \in [Releases -> 1..MaxRevision] /\ visit = 0 /\ mounted = 0 /\ fetching = TRUE
        /\ selected = None /\ overview = None /\ dialog = NoDialog /\ deleting = FALSE
        /\ foreign = FALSE /\ early = FALSE /\ page.at = "list" /\ page.of \in Namespaces /\ page \in Pages
        /\ requests = MountRequests(page, page.of, TRUE, 0)
    BY ReleaseConstants DEF Init, Pages, Scopes
  <1>2. revision \in [Releases -> Nat \ {0}]
    BY <1>1, ReleaseConstants
  <1>3. requests = {listApps(page.of, 0)}
    BY <1>1, ReleaseConstants DEF MountRequests
  <1>4. PICK s \in Namespaces, n \in Nat : s = page.of /\ n = 0
    BY <1>1
  <1>5. /\ listApps(s, n) \in Requests /\ listApps(s, n).kind = "list"
        /\ listApps(s, n).of = s /\ listApps(s, n).visit = n
    <2>1. s \in Scopes
      BY DEF Scopes
    <2>2. listApps(s, n) = [kind |-> "list", of |-> s, rev |-> 0, visit |-> n, odd |-> FALSE]
      BY DEF listApps, Request
    <2>3. listApps(s, n) \in [kind : {"list"}, of : Scopes, rev : Int, visit : Nat, odd : BOOLEAN]
      BY <2>1, <2>2
    <2> QED BY <2>2, <2>3 DEF Requests
  <1>6. \A q \in requests : /\ q \in Requests /\ q.kind = "list" /\ q.of = page.of /\ q.visit = 0
    BY <1>3, <1>4, <1>5 DEF Requests
  <1>7. NoDialog \in [open : BOOLEAN, choice : Nat \union {None}] /\ ~NoDialog.open
    BY DEF NoDialog
  <1>8. TypeInv
    <2>1. \A q \in requests : q \in Requests /\ q.visit = visit
      BY <1>1, <1>6
    <2>a. \A q \in requests : q.visit <= visit
      <3>1. \A q \in requests : q.visit = 0
        BY <1>6
      <3>2. visit = 0
        BY <1>1
      <3> QED BY <3>1, <3>2
    <2>2. \A q \in requests : q.kind = "release" => q.rev >= 1
      BY <1>6
    <2>3. visit \in Nat /\ mounted \in Nat /\ mounted <= visit
      BY <1>1
    <2>4. /\ page \in Pages /\ fetching \in BOOLEAN /\ foreign \in BOOLEAN /\ deleting \in BOOLEAN
          /\ early \in BOOLEAN
      BY <1>1
    <2>5. selected = None /\ overview = None
          /\ dialog \in [open : BOOLEAN, choice : Nat \union {None}]
      BY <1>1, <1>7
    <2> QED BY <1>2, <2>1, <2>2, <2>3, <2>4, <2>5, <2>a DEF TypeInv
  <1>9. PageShowsItsRelease /\ DialogInv
    BY <1>1, <1>7 DEF PageShowsItsRelease, DialogInv
  <1>10. ListInv
    <2>1. ListAwaited
      BY <1>1, <1>3, <1>6 DEF ListAwaited
    <2> QED BY <1>1, <1>6, <2>1 DEF ListInv, ListShown
  <1>11. RollbackTargetExists /\ \A q \in requests : AsksForItsPage(q)
    BY <1>1, <1>6 DEF RollbackTargetExists, AsksForItsPage
  <1> QED BY <1>8, <1>9, <1>10, <1>11 DEF Inv

LEMMA StutterKeeps ==
    ASSUME Inv, UNCHANGED vars
    PROVE  Inv'
  <1>1. /\ dialog' = dialog /\ requests' = requests /\ foreign' = foreign /\ deleting' = deleting
        /\ early' = early /\ fetching' = fetching /\ error' = error /\ selected' = selected /\ overview' = overview
        /\ UNCHANGED <<alive, revision>> /\ UNCHANGED route
    BY DEF vars, store, cluster, local
  <1>2. SamePage /\ Grown
    BY <1>1, NothingElse
  <1>3. foreign' \in BOOLEAN
    BY <1>1 DEF Inv, TypeInv
  <1>4. DialogInv' /\ dialog' \in [open : BOOLEAN, choice : Nat \union {None}]
    BY <1>1, <1>2, <1>3, DialogKept
  <1> QED BY <1>1, <1>2, <1>4, OnlyDialog

LEMMA NextKeeps ==
    ASSUME Inv, [Next]_vars
    PROVE  Inv'
  <1>1. ASSUME NEW p \in Pages, Visit(p) PROVE Inv'
    BY <1>1, VisitKeeps
  <1>2. CASE OpenRollback
    BY <1>2, OpenRollbackKeeps
  <1>3. CASE CloseRollback
    BY <1>3, CloseRollbackKeeps
  <1>4. CASE handleRollback
    BY <1>4, handleRollbackKeeps
  <1>5. CASE handleDeleteClick
    BY <1>5, handleDeleteClickKeeps
  <1>6. ASSUME NEW n \in 1..MaxRevision, selectRevision(n) PROVE Inv'
    BY <1>6, selectRevisionKeeps
  <1>7. ASSUME NEW q \in requests, Answer(q) PROVE Inv'
    <2>1. ASSUME NEW rev \in 1..MaxRevision, selectApp(q, rev) PROVE Inv'
      BY <2>1, selectAppKeeps
    <2>2. CASE receiveAppUpdateInfo(q)
      BY <2>2, receiveAppUpdateInfoKeeps
    <2>3. CASE receiveAppList(q)
      BY <2>3, receiveAppListKeeps
    <2>4. CASE receiveRollbackApp(q)
      BY <2>4, receiveRollbackAppKeeps
    <2>5. CASE receiveDeleteApp(q)
      BY <2>5, receiveDeleteAppKeeps
    <2>6. CASE errorApp(q)
      BY <2>6, errorAppKeeps
    <2> QED BY <1>7, <2>1, <2>2, <2>3, <2>4, <2>5, <2>6 DEF Answer
  <1>8. ASSUME NEW r \in Releases, UpgradedElsewhere(r) PROVE Inv'
    BY <1>8, UpgradedElsewhereKeeps
  <1>9. CASE submitSearchFilter
    BY <1>9, submitSearchFilterKeeps
  <1>10. CASE UNCHANGED vars
    BY <1>10, StutterKeeps
  <1> QED BY <1>1, <1>2, <1>3, <1>4, <1>5, <1>6, <1>7, <1>8, <1>9, <1>10 DEF Next, User

(* Along every behaviour of the pages, requests belong to the page that    *)
(* sent them, and the open page's list, selection and dialog are its own   *)
(* unless an answer to an earlier page came in, or, for the list, a search *)
(* was made before it came.                                                *)
THEOREM PagesInvariant == Spec => []Inv
  <1>1. Init => Inv
    BY InitHolds
  <1>2. Inv /\ [Next]_vars => Inv'
    BY NextKeeps
  <1> QED BY <1>1, <1>2, PTL DEF Spec

(* The release page shows its own release and that release's update        *)
(* information, however the answers arrive, unless an answer to an earlier *)
(* page came in (reducers/apps.ts forgets the selection on                 *)
(* LOCATION_CHANGE).                                                       *)
THEOREM OwnReleaseShown == Spec => []PageShowsItsRelease
  <1>1. Inv => PageShowsItsRelease
    BY DEF Inv
  <1> QED BY <1>1, PagesInvariant, PTL

(* Once the list page stops loading it shows its own scope, with update    *)
(* information that is a release's own or, in the list of all namespaces,  *)
(* that of a namesake (receiveAppUpdateInfo in reducers/apps.ts looks for  *)
(* the name only); an answer to an earlier page and a search made before   *)
(* the list came (AppList.tsx:45-57, which reducers/apps.ts takes for a    *)
(* change of page) are the only ways around it.                            *)
THEOREM OwnScopeListed == Spec => []ListShowsItsScope
  <1>1. Inv => ListShowsItsScope
    <2> SUFFICES ASSUME Inv, ListShown, ~foreign, ~early
                 PROVE  /\ overview # None
                        /\ \A i \in DOMAIN overview :
                             /\ page.of \in {All, Namespace(overview[i].rel)}
                             /\ \/ overview[i].info \in {None, overview[i].rel}
                                \/ page.of = All /\ NameIsShared(overview[i].rel)
      BY DEF ListShowsItsScope
    <2>1. ListIsOwn
      BY DEF Inv, ListInv, ListShown
    <2> QED BY <2>1 DEF ListIsOwn, Fitting, InPage
  <1> QED BY <1>1, PagesInvariant, PTL

(* A rollback asks for a revision that its release had before the current  *)
(* one, though the release may be upgraded while the dialog is open        *)
(* (RollbackDialog.tsx takes the target from the selected release), unless *)
(* the dialog was kept across two release pages or shows a foreign         *)
(* release.                                                                *)
THEOREM RollsBackToThePast == Spec => []RollbackTargetExists
  <1>1. Inv => RollbackTargetExists
    BY DEF Inv
  <1> QED BY <1>1, PagesInvariant, PTL

-----------------------------------------------------------------------------
(* The resources on the release page *)

USE KubeConstants DEF clusterVars, observers

(* Only an open watch has events, and the last one is of the version now   *)
(* in the cluster.                                                         *)
EventsInv ==
    \A k \in Keys : events[k] # << >> =>
        sockets[k] = "open" /\ events[k][Len(events[k])] = ver[k]

(* A row of the page lacks an item only if the page changed under it.      *)
BlankInv == \A k \in refs : items[k] = Nothing => k \in blanked

KubeInv == TypeOK /\ NothingLeftOpen /\ EventsInv /\ BlankInv /\ WatchedIsCurrent

-----------------------------------------------------------------------------
(* Queues of events.                                                       *)

LEMMA LastEvent ==
    ASSUME NEW T, NEW s \in Seq(T), s # << >>, Tail(s) = << >>
    PROVE  Head(s) = s[Len(s)]
  <1>1. \A m, n \in Nat : m = n - 1 /\ m = 0 => n = 1
    OBVIOUS
  <1>2. Len(s) \in Nat /\ Len(Tail(s)) = Len(s) - 1
    BY HeadTailProperties, LenProperties
  <1>3. Len(Tail(s)) = 0
    BY EmptySeq
  <1>4. Len(s) = 1
    BY <1>1, <1>2, <1>3, Zenon
  <1>5. 1 \in 1 .. Len(s) /\ Len(s) \in 1 .. Len(s)
    BY <1>4
  <1>6. Head(SubSeq(s, 1, Len(s))) = s[1]
    BY <1>5, HeadTailOfSubSeq
  <1>7. SubSeq(s, 1, Len(s)) = s
    BY SubSeqFull
  <1> QED BY <1>4, <1>6, <1>7, Zenon

LEMMA AppendedEvent ==
    ASSUME NEW T, NEW s \in Seq(T), NEW e \in T
    PROVE  /\ Append(s, e) \in Seq(T)
           /\ Append(s, e) # << >>
           /\ Append(s, e)[Len(Append(s, e))] = e
  BY AppendProperties, LenProperties

-----------------------------------------------------------------------------
(* Type correctness.                                                       *)

LEMMA InitType == KubeInit => TypeOK
  <1>. SUFFICES ASSUME KubeInit PROVE TypeOK
    OBVIOUS
  <1>1. events \in [Keys -> Seq(Versions)]
    BY DEF KubeInit
  <1>2. deletedAt \in [Keys -> SUBSET Versions]
    BY DEF KubeInit
  <1>3. ver \in [Keys -> Versions] /\ gets \in [Keys -> [Versions -> Nat]]
    BY DEF KubeInit, Versions
  <1>4. /\ refs \in SUBSET Keys /\ shown \in BOOLEAN /\ timers \in SUBSET Keys
        /\ overtaken \in SUBSET Keys /\ blanked \in SUBSET Keys /\ unseen \in SUBSET Keys
    BY DEF KubeInit
  <1>6. kubeFaults \in 0..MaxKubeFaults
    BY DEF KubeInit
  <1>5. /\ items \in [Keys -> Versions \union {Nothing, Loading, Failed}]
        /\ sockets \in [Keys -> SocketStates]
    BY DEF KubeInit, SocketStates
  <1> QED BY <1>1, <1>2, <1>3, <1>4, <1>5, <1>6 DEF TypeOK

(* What a change or a deletion in the cluster does. *)
LEMMA NewVersionFacts ==
    ASSUME TypeOK, NEW k \in Keys, Change(k) \/ Delete(k)
    PROVE  /\ ver[k] + 1 \in Versions
           /\ ver' = [ver EXCEPT ![k] = ver[k] + 1]
           /\ events' = [events EXCEPT ![k] =
                IF sockets[k] = "open" THEN Append(events[k], ver[k] + 1) ELSE events[k]]
           /\ Append(events[k], ver[k] + 1) # << >>
           /\ Append(events[k], ver[k] + 1)[Len(Append(events[k], ver[k] + 1))] = ver[k] + 1
           /\ ver' \in [Keys -> Versions] /\ events' \in [Keys -> Seq(Versions)]
           /\ deletedAt' \in [Keys -> SUBSET Versions]
           /\ \A j \in Keys \ {k} : deletedAt'[j] = deletedAt[j]
           /\ UNCHANGED <<refs, shown, items, sockets, timers, gets, kubeFaults>>
           /\ UNCHANGED <<overtaken, blanked, unseen>>
  <1>1. NewVersion(k)
    BY DEF Change, Delete
  <1>2. ver[k] \in Versions /\ ver[k] < MaxVersion
    BY <1>1 DEF NewVersion, TypeOK
  <1>3. ver[k] + 1 \in Versions
    BY <1>2 DEF Versions
  <1>6. /\ Append(events[k], ver[k] + 1) \in Seq(Versions)
        /\ Append(events[k], ver[k] + 1) # << >>
        /\ Append(events[k], ver[k] + 1)[Len(Append(events[k], ver[k] + 1))] = ver[k] + 1
    <2>1. events[k] \in Seq(Versions)
      BY DEF TypeOK
    <2>2. \A s \in Seq(Versions), e \in Versions :
             /\ Append(s, e) \in Seq(Versions)
             /\ Append(s, e) # << >>
             /\ Append(s, e)[Len(Append(s, e))] = e
      BY AppendedEvent
    <2> QED BY <1>3, <2>1, <2>2
  <1>7. ver' \in [Keys -> Versions] /\ events' \in [Keys -> Seq(Versions)]
    BY <1>1, <1>3, <1>6 DEF NewVersion, TypeOK
  <1>4. CASE Change(k)
    <2>1. deletedAt' = deletedAt /\ deletedAt \in [Keys -> SUBSET Versions]
      BY <1>4 DEF Change, TypeOK
    <2> QED BY <1>1, <1>3, <1>6, <1>7, <2>1 DEF NewVersion
  <1>5. CASE Delete(k)
    <2>1. deletedAt' = [deletedAt EXCEPT ![k] = deletedAt[k] \union {ver[k] + 1}]
      BY <1>5 DEF Delete
    <2>2. deletedAt \in [Keys -> SUBSET Versions]
      BY DEF TypeOK
    <2>3. /\ deletedAt' \in [Keys -> SUBSET Versions]
          /\ \A j \in Keys \ {k} : deletedAt'[j] = deletedAt[j]
      BY <1>3, <2>1, <2>2
    <2> QED BY <1>1, <1>3, <1>6, <1>7, <2>3 DEF NewVersion
  <1> QED BY <1>4, <1>5

LEMMA MountType ==
    ASSUME TypeOK, NEW S \in Manifests, Mount(S)
    PROVE  TypeOK'
  <1>. USE DEF Mount, getAndWatchResource
  <1>1. S \subseteq Keys
    OBVIOUS
  <1>2. gets' \in [Keys -> [Versions -> Nat]]
    <2>. SUFFICES ASSUME NEW k \in S
                  PROVE [gets[k] EXCEPT ![ver[k]] = @ + Sends(k)] \in [Versions -> Nat]
      BY <1>1 DEF TypeOK
    <2>1. Sends(k) \in 0..2
      BY DEF Sends
    <2>2. gets[k] \in [Versions -> Nat] /\ ver[k] \in Versions
      BY <1>1 DEF TypeOK
    <2>3. gets[k][ver[k]] + Sends(k) \in Nat
      BY <2>1, <2>2
    <2> QED BY <2>2, <2>3
  <1>3. items' \in [Keys -> Versions \union {Nothing, Loading, Failed}]
    BY DEF TypeOK, requestResource
  <1>4. sockets' \in [Keys -> SocketStates]
    BY DEF TypeOK, openWatchResource, SocketStates
  <1> QED BY <1>1, <1>2, <1>3, <1>4 DEF TypeOK

LEMMA StepType == TypeOK /\ [KubeNext]_kubeVars => TypeOK'
  <1>. SUFFICES ASSUME TypeOK, [KubeNext]_kubeVars PROVE TypeOK'
    OBVIOUS
  <1>1. CASE Unmount
    <2>1. events' \in [Keys -> Seq(Versions)]
      BY <1>1 DEF Unmount, closeWatchResource, TypeOK
    <2>2. sockets' \in [Keys -> SocketStates] /\ timers' \in SUBSET Keys
      BY <1>1 DEF Unmount, closeWatchResource, TimersAfterClose, SocketStates, TypeOK
    <2>3. items' \in [Keys -> Versions \union {Nothing, Loading, Failed}]
      BY <1>1 DEF Unmount, LOCATION_CHANGE
    <2> QED BY <1>1, <2>1, <2>2, <2>3 DEF Unmount, TypeOK
  <1>. USE DEF TypeOK
  <1>2. CASE Jump
    BY <1>2 DEF Jump, LOCATION_CHANGE
  <1>3. ASSUME NEW S \in Manifests, Mount(S) PROVE TypeOK'
    BY <1>3, MountType
  <1>4. ASSUME NEW k \in Keys, NEW since \in Versions, NEW v \in Versions,
               NEW x \in Versions \union {Failed},
               x = v \/ (v \in deletedAt[k] /\ x = Failed), ResourceAnswer(k, since, v, x)
        PROVE  TypeOK'
    <2>1. gets[k][since] \in Nat
      OBVIOUS
    <2> QED BY <1>4, <2>1 DEF ResourceAnswer
  <1>5. ASSUME NEW k \in Keys, Message(k) PROVE TypeOK'
    <2>1. Head(events[k]) \in Versions /\ Tail(events[k]) \in Seq(Versions)
      BY <1>5 DEF Message
    <2> QED BY <1>5, <2>1 DEF Message
  <1>6. ASSUME NEW k \in Keys, Poll(k) PROVE TypeOK'
    <2>1. gets[k][ver[k]] \in Nat
      OBVIOUS
    <2> QED BY <1>6, <2>1 DEF Poll, ItemsAfterPoll
  <1>7. ASSUME NEW k \in Keys, Connect(k) PROVE TypeOK'
    BY <1>7 DEF Connect, FirstEvents, SocketStates
  <1>8. ASSUME NEW k \in Keys, SocketError(k) PROVE TypeOK'
    BY <1>8 DEF SocketError, addTimer, SocketStates
  <1>9. ASSUME NEW k \in Keys, SocketClose(k) PROVE TypeOK'
    BY <1>9 DEF SocketClose, SocketStates
  <1>10. ASSUME NEW k \in Keys, Change(k) \/ Delete(k) PROVE TypeOK'
    BY <1>10, NewVersionFacts
  <1>11. ASSUME NEW k \in Keys, NEW since \in Versions, FailedRequest(k, since)
         PROVE  TypeOK'
    <2>1. gets[k][since] \in Nat
      OBVIOUS
    <2> QED BY <1>11, <2>1 DEF FailedRequest, receiveResourceError
  <1>12. CASE UNCHANGED kubeVars
    BY <1>12 DEF kubeVars
  <1>13. CASE Reshow
    BY <1>13 DEF Reshow, requestResource
  <1> QED
    BY <1>1, <1>2, <1>3, <1>4, <1>5, <1>6, <1>7, <1>8, <1>9, <1>10, <1>11, <1>12, <1>13
    DEF KubeNext, Page, Answered, receiveResource, NotFound, Browser, Network

(* Every variable of the resources' slice keeps its type, whatever the     *)
(* answers, the sockets and the page do.                                   *)
THEOREM KubeTypeCorrect == KubeSpec => []TypeOK
  <1>1. KubeInit => TypeOK
    BY InitType
  <1>2. TypeOK /\ [KubeNext]_kubeVars => TypeOK'
    BY StepType
  <1> QED BY <1>1, <1>2, PTL DEF KubeSpec

-----------------------------------------------------------------------------
(* What is open, and what it shows.                                        *)

LEMMA InitKube == KubeInit => KubeInv
  BY InitType DEF KubeInit, KubeInv, NothingLeftOpen, EventsInv, BlankInv,
         WatchedIsCurrent, Watched

LEMMA StepOpen == KubeInv /\ [KubeNext]_kubeVars => NothingLeftOpen'
  <1>. SUFFICES ASSUME KubeInv, [KubeNext]_kubeVars PROVE NothingLeftOpen'
    OBVIOUS
  <1>. USE DEF KubeInv, TypeOK, NothingLeftOpen
  <1>1. CASE Unmount
    BY <1>1 DEF Unmount, closeWatchResource, TimersAfterClose
  <1>2. CASE Jump
    BY <1>2 DEF Jump
  <1>3. ASSUME NEW S \in Manifests, Mount(S) PROVE NothingLeftOpen'
    BY <1>3 DEF Mount, getAndWatchResource, openWatchResource
  <1>4. ASSUME NEW k \in Keys, NEW since \in Versions, NEW v \in Versions,
               NEW x \in Versions \union {Failed},
               x = v \/ (v \in deletedAt[k] /\ x = Failed), ResourceAnswer(k, since, v, x)
        PROVE  NothingLeftOpen'
    BY <1>4 DEF ResourceAnswer
  <1>5. ASSUME NEW k \in Keys, Message(k) PROVE NothingLeftOpen'
    BY <1>5 DEF Message
  <1>6. ASSUME NEW k \in Keys, Poll(k) PROVE NothingLeftOpen'
    BY <1>6 DEF Poll
  <1>7. ASSUME NEW k \in Keys, Connect(k) PROVE NothingLeftOpen'
    BY <1>7 DEF Connect
  <1>8. ASSUME NEW k \in Keys, SocketError(k) PROVE NothingLeftOpen'
    BY <1>8 DEF SocketError, addTimer
  <1>9. ASSUME NEW k \in Keys, SocketClose(k) PROVE NothingLeftOpen'
    BY <1>9 DEF SocketClose
  <1>10. ASSUME NEW k \in Keys, Change(k) \/ Delete(k) PROVE NothingLeftOpen'
    BY <1>10, NewVersionFacts
  <1>11. ASSUME NEW k \in Keys, NEW since \in Versions, FailedRequest(k, since)
         PROVE  NothingLeftOpen'
    BY <1>11 DEF FailedRequest
  <1>12. CASE UNCHANGED kubeVars
    BY <1>12 DEF kubeVars
  <1>13. CASE Reshow
    BY <1>13 DEF Reshow, requestResource
  <1> QED
    BY <1>1, <1>2, <1>3, <1>4, <1>5, <1>6, <1>7, <1>8, <1>9, <1>10, <1>11, <1>12, <1>13
    DEF KubeNext, Page, Answered, receiveResource, NotFound, Browser, Network

(* What an event still to be delivered says. *)
LEMMA StepEvents == KubeInv /\ [KubeNext]_kubeVars => EventsInv'
  <1>. SUFFICES ASSUME KubeInv, [KubeNext]_kubeVars PROVE EventsInv'
    OBVIOUS
  <1>. USE DEF KubeInv, TypeOK, EventsInv
  <1>1. CASE Unmount
    BY <1>1 DEF Unmount, closeWatchResource, NothingLeftOpen
  <1>2. CASE Jump
    BY <1>2 DEF Jump
  <1>3. ASSUME NEW S \in Manifests, Mount(S) PROVE EventsInv'
    BY <1>3 DEF Mount, getAndWatchResource, openWatchResource
  <1>4. ASSUME NEW k \in Keys, NEW since \in Versions, NEW v \in Versions,
               NEW x \in Versions \union {Failed},
               x = v \/ (v \in deletedAt[k] /\ x = Failed), ResourceAnswer(k, since, v, x)
        PROVE  EventsInv'
    BY <1>4 DEF ResourceAnswer
  <1>5. ASSUME NEW k \in Keys, Message(k) PROVE EventsInv'
    <2>1. events[k] \in Seq(Versions) /\ events[k] # << >>
      BY <1>5 DEF Message
    <2>2. Tail(events[k]) # << >> =>
             Tail(events[k])[Len(Tail(events[k]))] = events[k][Len(events[k])]
      BY <2>1
    <2> QED BY <1>5, <2>1, <2>2 DEF Message
  <1>6. ASSUME NEW k \in Keys, Poll(k) PROVE EventsInv'
    BY <1>6 DEF Poll
  <1>7. ASSUME NEW k \in Keys, Connect(k) PROVE EventsInv'
    BY <1>7 DEF Connect, FirstEvents
  <1>8. ASSUME NEW k \in Keys, SocketError(k) PROVE EventsInv'
    BY <1>8 DEF SocketError
  <1>9. ASSUME NEW k \in Keys, SocketClose(k) PROVE EventsInv'
    BY <1>9 DEF SocketClose
  <1>10. ASSUME NEW k \in Keys, Change(k) \/ Delete(k) PROVE EventsInv'
    <2>1. /\ events[k] \in Seq(Versions) /\ ver[k] + 1 \in Versions
          /\ ver' = [ver EXCEPT ![k] = ver[k] + 1]
          /\ events' = [events EXCEPT ![k] = IF sockets[k] = "open"
                            THEN Append(events[k], ver[k] + 1) ELSE events[k]]
          /\ sockets' = sockets
      BY <1>10, NewVersionFacts
    <2>2. LET e == Append(events[k], ver[k] + 1)
          IN  e # << >> /\ e[Len(e)] = ver[k] + 1
      BY <1>10, NewVersionFacts
    <2> QED BY <2>1, <2>2
  <1>11. ASSUME NEW k \in Keys, NEW since \in Versions, FailedRequest(k, since)
         PROVE  EventsInv'
    BY <1>11 DEF FailedRequest
  <1>12. CASE UNCHANGED kubeVars
    BY <1>12 DEF kubeVars
  <1>13. CASE Reshow
    BY <1>13 DEF Reshow, requestResource
  <1> QED
    BY <1>1, <1>2, <1>3, <1>4, <1>5, <1>6, <1>7, <1>8, <1>9, <1>10, <1>11, <1>12, <1>13
    DEF KubeNext, Page, Answered, receiveResource, NotFound, Browser, Network

(* A row gets an item with its page and loses it only with a jump. *)
LEMMA StepBlank == KubeInv /\ [KubeNext]_kubeVars => BlankInv'
  <1>. SUFFICES ASSUME KubeInv, [KubeNext]_kubeVars PROVE BlankInv'
    OBVIOUS
  <1>. USE DEF KubeInv, TypeOK, BlankInv
  <1>0. \A v \in Versions : v # Nothing
    BY DEF Versions
  <1>1. CASE Unmount
    BY <1>1 DEF Unmount
  <1>2. CASE Jump
    BY <1>2 DEF Jump
  <1>3. ASSUME NEW S \in Manifests, Mount(S) PROVE BlankInv'
    BY <1>3 DEF Mount, getAndWatchResource, requestResource
  <1>4. ASSUME NEW k \in Keys, NEW since \in Versions, NEW v \in Versions,
               NEW x \in Versions \union {Failed},
               x = v \/ (v \in deletedAt[k] /\ x = Failed), ResourceAnswer(k, since, v, x)
        PROVE  BlankInv'
    BY <1>0, <1>4 DEF ResourceAnswer
  <1>5. ASSUME NEW k \in Keys, Message(k) PROVE BlankInv'
    <2>1. Head(events[k]) \in Versions
      BY <1>5 DEF Message
    <2> QED BY <1>0, <1>5, <2>1 DEF Message
  <1>6. ASSUME NEW k \in Keys, Poll(k) PROVE BlankInv'
    BY <1>6 DEF Poll, ItemsAfterPoll
  <1>7. ASSUME NEW k \in Keys, Connect(k) PROVE BlankInv'
    BY <1>7 DEF Connect
  <1>8. ASSUME NEW k \in Keys, SocketError(k) PROVE BlankInv'
    BY <1>8 DEF SocketError
  <1>9. ASSUME NEW k \in Keys, SocketClose(k) PROVE BlankInv'
    BY <1>9 DEF SocketClose
  <1>10. ASSUME NEW k \in Keys, Change(k) \/ Delete(k) PROVE BlankInv'
    BY <1>10, NewVersionFacts
  <1>11. ASSUME NEW k \in Keys, NEW since \in Versions, FailedRequest(k, since)
         PROVE  BlankInv'
    BY <1>11 DEF FailedRequest, receiveResourceError
  <1>12. CASE UNCHANGED kubeVars
    BY <1>12 DEF kubeVars
  <1>13. CASE Reshow
    BY <1>13 DEF Reshow, requestResource
  <1> QED
    BY <1>1, <1>2, <1>3, <1>4, <1>5, <1>6, <1>7, <1>8, <1>9, <1>10, <1>11, <1>12, <1>13
    DEF KubeNext, Page, Answered, receiveResource, NotFound, Browser, Network

(* The last event delivered, or a request answered in time, is the item. *)
LEMMA StepCurrent == KubeInv /\ [KubeNext]_kubeVars => WatchedIsCurrent'
  <1>. SUFFICES ASSUME KubeInv, [KubeNext]_kubeVars PROVE WatchedIsCurrent'
    OBVIOUS
  <1>. USE DEF KubeInv, TypeOK, WatchedIsCurrent, Watched, Excused, Current, Gone
  <1>1. CASE Unmount
    BY <1>1 DEF Unmount, closeWatchResource, NothingLeftOpen
  <1>2. CASE Jump
    BY <1>2 DEF Jump, NothingLeftOpen
  <1>3. ASSUME NEW S \in Manifests, Mount(S) PROVE WatchedIsCurrent'
    BY <1>3 DEF Mount, getAndWatchResource, openWatchResource, NothingLeftOpen
  <1>4. ASSUME NEW k \in Keys, NEW since \in Versions, NEW v \in Versions,
               NEW x \in Versions \union {Failed},
               x = v \/ (v \in deletedAt[k] /\ x = Failed), ResourceAnswer(k, since, v, x)
        PROVE  WatchedIsCurrent'
    <2>1. CASE v = ver[k]
      BY <1>4, <2>1 DEF ResourceAnswer
    <2>2. CASE v # ver[k]
      <3>1. Current(k) => overtaken' = overtaken \union {k}
        BY <1>4, <2>2 DEF ResourceAnswer
      <3>2. overtaken' \in {overtaken, overtaken \union {k}} /\ blanked' = blanked /\ unseen' = unseen
        BY <1>4, <2>2 DEF ResourceAnswer
      <3> QED BY <1>4, <3>1, <3>2 DEF ResourceAnswer
    <2> QED BY <2>1, <2>2
  <1>5. ASSUME NEW k \in Keys, Message(k) PROVE WatchedIsCurrent'
    <2>1. events[k] \in Seq(Versions) /\ events[k] # << >>
      BY <1>5 DEF Message
    <2>2. Tail(events[k]) = << >> => Head(events[k]) = ver[k]
      <3>1. events[k][Len(events[k])] = ver[k]
        BY <2>1 DEF EventsInv
      <3> QED BY <2>1, <3>1, LastEvent
    <2> QED BY <1>5, <2>1, <2>2 DEF Message
  <1>6. ASSUME NEW k \in Keys, Poll(k) PROVE WatchedIsCurrent'
    BY <1>6 DEF Poll, ItemsAfterPoll
  <1>7. ASSUME NEW k \in Keys, Connect(k) PROVE WatchedIsCurrent'
    BY <1>7 DEF Connect, FirstEvents
  <1>8. ASSUME NEW k \in Keys, SocketError(k) PROVE WatchedIsCurrent'
    BY <1>8 DEF SocketError
  <1>9. ASSUME NEW k \in Keys, SocketClose(k) PROVE WatchedIsCurrent'
    BY <1>9 DEF SocketClose
  <1>10. ASSUME NEW k \in Keys, Change(k) \/ Delete(k) PROVE WatchedIsCurrent'
    <2>1. ver[k] + 1 \in Versions
      BY <1>10, NewVersionFacts
    <2>2. events[k] \in Seq(Versions)
      OBVIOUS
    <2>3. Append(events[k], ver[k] + 1) # << >>
      BY <1>10, NewVersionFacts
    <2>4. ASSUME NEW j \in Keys, sockets[j] = "open", events'[j] = << >>
          PROVE  j # k
      BY <1>10, <2>3, <2>4, NewVersionFacts
    <2>5. \A j \in Keys \ {k} : ver'[j] = ver[j] /\ deletedAt'[j] = deletedAt[j] /\ events'[j] = events[j]
      BY <1>10, NewVersionFacts
    <2>6. /\ sockets' = sockets /\ items' = items
          /\ overtaken' = overtaken /\ blanked' = blanked /\ unseen' = unseen
      BY <1>10, NewVersionFacts
    <2> QED BY <2>4, <2>5, <2>6
  <1>11. ASSUME NEW k \in Keys, NEW since \in Versions, FailedRequest(k, since)
         PROVE  WatchedIsCurrent'
    BY <1>11 DEF FailedRequest, receiveResourceError
  <1>12. CASE UNCHANGED kubeVars
    BY <1>12 DEF kubeVars
  <1>13. CASE Reshow
    <2>1. \A k \in Keys : items[k] # Nothing => items'[k] = items[k]
      BY <1>13 DEF Reshow, requestResource
    <2>2. \A k \in Keys : Current(k) => items[k] # Nothing
      BY DEF Versions
    <2> QED BY <1>13, <2>1, <2>2 DEF Reshow
  <1> QED
    BY <1>1, <1>2, <1>3, <1>4, <1>5, <1>6, <1>7, <1>8, <1>9, <1>10, <1>11, <1>12, <1>13
    DEF KubeNext, Page, Answered, receiveResource, NotFound, Browser, Network

LEMMA KubeInvariant == KubeSpec => []KubeInv
  <1>1. KubeInit => KubeInv
    BY InitKube
  <1>2. KubeInv /\ [KubeNext]_kubeVars => KubeInv'
    BY StepType, StepOpen, StepEvents, StepBlank, StepCurrent DEF KubeInv
  <1> QED BY <1>1, <1>2, PTL DEF KubeSpec

(* No socket and no polling interval outlives its page, and an interval    *)
(* runs only for a socket that failed: closeWatchResource takes the        *)
(* listener off before it closes, whatever state the socket is in.         *)
THEOREM NothingStaysOpen == KubeSpec => []NothingLeftOpen
  <1>1. KubeInv => NothingLeftOpen
    BY DEF KubeInv
  <1> QED BY <1>1, KubeInvariant, PTL

(* A watch that is open and delivered shows the resource as it is in the   *)
(* cluster, however requests, events, changes and deletions interleave; a  *)
(* deleted one as its DELETED event had it, or as not found.  Left out are *)
(* an older answer that overtook an event, a page that changed under the   *)
(* watch, and a watch that began after the deletion.                       *)
THEOREM WatchShowsCluster == KubeSpec => []WatchedIsCurrent
  <1>1. KubeInv => WatchedIsCurrent
    BY DEF KubeInv
  <1> QED BY <1>1, KubeInvariant, PTL

LEMMA GroundedByInvariant == KubeInv => StatusIsGrounded
  <1>. SUFFICES ASSUME KubeInv PROVE StatusIsGrounded
    OBVIOUS
  <1>. DEFINE W == refs \intersect Workloads
  <1>1. W \subseteq Keys
    BY DEF KubeInv, TypeOK
  <1>2. ASSUME NEW info \in Infos, \A k \in W : Watched(k) /\ ~Gone(k)
        PROVE  ApplicationStatus(info) = StatusOf(info, [k \in W |-> ver[k]])
    <2>1. \A k \in W : items[k] = ver[k] /\ ver[k] \in Versions
      BY <1>1, <1>2 DEF KubeInv, TypeOK, WatchedIsCurrent, Current
    <2>2. \A k \in W : items[k] # Nothing /\ items[k] # Loading
      BY <2>1 DEF Versions
    <2>3. filterByResourceRefs = W
      BY <2>2 DEF filterByResourceRefs
    <2>4. ~isSomeResourceLoading
      BY <2>2, <2>3 DEF isSomeResourceLoading
    <2>5. flattenItemList = W
      BY <2>1, <2>3 DEF flattenItemList
    <2>6. [k \in flattenItemList |-> items[k]] = [k \in W |-> ver[k]]
      BY <2>1, <2>5
    <2> QED BY <2>4, <2>6, Zenon DEF ApplicationStatus
  <1>3. ASSUME NEW info \in Infos, ApplicationStatus(info) # "Loading", NEW k \in W
        PROVE  items[k] \in Versions \/ items[k] = Failed \/ k \in blanked
    <2>1. ~isSomeResourceLoading
      BY <1>3, Zenon DEF ApplicationStatus
    <2>2. items[k] \in Versions \union {Nothing, Loading, Failed}
      BY <1>1 DEF KubeInv, TypeOK
    <2>3. items[k] = Nothing => k \in blanked
      BY DEF KubeInv, BlankInv
    <2>4. items[k] # Loading
      BY <2>1 DEF isSomeResourceLoading, filterByResourceRefs
    <2> QED BY <2>2, <2>3, <2>4
  <1> QED BY <1>2, <1>3, Zenon DEF StatusIsGrounded

(* As soon as the status says anything, every workload it left out failed  *)
(* or lost its item to a change of page; and once all workloads exist and  *)
(* are watched, it is computed from the pods in the cluster, whatever Helm *)
(* says of the release (ApplicationStatus, filterByResourceRefs).          *)
THEOREM StatusGrounded == KubeSpec => []StatusIsGrounded
  <1> QED BY KubeInvariant, GroundedByInvariant, PTL

-----------------------------------------------------------------------------
(* The rows implement ResourceView: what one step does to them.            *)

LEMMA RowOf ==
    ASSUME TypeOK, NEW k \in Keys
    PROVE  /\ Rows[k] = "none" <=> k \notin refs
           /\ Rows[k] = "hidden" <=> k \in refs /\ ~shown
           /\ Rows[k] = "blank" <=> k \in refs /\ shown /\ items[k] = Nothing
           /\ Rows[k] \in View!RowStates
  BY DEF TypeOK, Rows, Versions, View!RowStates, View!Shows

LEMMA SameRows ==
    ASSUME TypeOK, refs' = refs, shown' = shown, \A k \in refs : items'[k] = items[k]
    PROVE  Rows' = Rows
  BY DEF TypeOK, Rows

LEMMA SettledRow ==
    ASSUME TypeOK, TypeOK', NEW k \in Keys, NEW x \in Versions \union {Failed},
           refs' = refs, shown' = shown, items' = [items EXCEPT ![k] = x]
    PROVE  View!Settle(k) \/ Rows' = Rows
  <1>0. items \in [Keys -> Versions \union {Nothing, Loading, Failed}]
    BY DEF TypeOK
  <1>1. CASE k \notin refs
    BY <1>0, <1>1, SameRows
  <1>2. CASE k \in refs /\ ~shown
    BY <1>2 DEF Rows
  <1>3. CASE k \in refs /\ shown
    <2>1. items'[k] = x /\ \A j \in Keys \ {k} : items'[j] = items[j]
      BY <1>0
    <2>2. Rows'[k] \in View!Shows
      BY <1>3, <2>1 DEF Rows, View!Shows, Versions
    <2>3. \A j \in Keys \ {k} : Rows'[j] = Rows[j]
      BY <2>1 DEF Rows
    <2>4. Rows' = [Rows EXCEPT ![k] = Rows'[k]]
      BY <2>3 DEF Rows
    <2>5. Rows[k] \notin {"none", "hidden"}
      BY <1>3, RowOf
    <2> QED BY <2>2, <2>4, <2>5 DEF View!Settle
  <1> QED BY <1>1, <1>2, <1>3

LEMMA StepRows == KubeInv /\ KubeInv' /\ [KubeNext]_kubeVars => [View!Next]_Rows
  <1>. SUFFICES ASSUME KubeInv, KubeInv', [KubeNext]_kubeVars PROVE View!Next \/ Rows' = Rows
    OBVIOUS
  <1>0. TypeOK /\ TypeOK' /\ refs \in SUBSET Keys /\ refs' \in SUBSET Keys
    BY DEF KubeInv, TypeOK
  <1>1. CASE Unmount
    <2>1. \E k \in Keys : Rows[k] # "none"
      BY <1>0, <1>1, RowOf DEF Unmount
    <2>2. Rows' = [k \in Keys |-> "none"]
      BY <1>1 DEF Unmount, Rows
    <2> QED BY <2>1, <2>2 DEF View!Next, View!Close
  <1>2. CASE Jump
    <2>1. Rows' = [k \in Keys |-> IF k \in refs THEN "hidden" ELSE "none"]
      BY <1>2 DEF Jump, LOCATION_CHANGE, Rows
    <2>2. \A k \in Keys : Rows[k] = "none" <=> k \notin refs
      BY <1>0, RowOf
    <2> QED BY <2>1, <2>2 DEF View!Next, View!Hide
  <1>9. CASE Reshow
    <2>1. refs' = refs /\ ~shown /\ shown'
      BY <1>9 DEF Reshow
    <2>2. \A k \in Keys : Rows[k] \in {"none", "hidden"}
      BY <2>1 DEF Rows
    <2>3. \A k \in Keys : Rows[k] = "none" <=> k \notin refs
      BY <1>0, RowOf
    <2>4. Rows' \in [Keys -> View!RowStates \ {"hidden"}]
      BY <2>1 DEF Rows, View!RowStates, View!Shows
    <2>5. \A k \in Keys : Rows'[k] = "none" <=> k \notin refs
      BY <2>1 DEF Rows
    <2>6. ASSUME NEW k \in Ingresses PROVE Rows'[k] # "blank"
      <3>1. k \in refs => items'[k] # Nothing
        BY <1>9 DEF Reshow, Remounted, requestResource
      <3> QED BY <2>1, <3>1 DEF Rows
    <2> QED BY <2>2, <2>3, <2>4, <2>5, <2>6 DEF View!Next, View!Return
  <1>3. ASSUME NEW S \in Manifests, Mount(S) PROVE View!Next
    <2>1. S \in SUBSET Keys /\ S # {} /\ refs = {} /\ refs' = S /\ shown'
      BY <1>3 DEF Mount
    <2>2. \A k \in Keys : Rows[k] = "none"
      BY <1>0, <2>1, RowOf
    <2>3. ASSUME NEW k \in S PROVE Rows'[k] \in {"spinner"} \union View!Shows
      <3>1. items'[k] # Nothing
        BY <1>3, <2>1 DEF Mount, getAndWatchResource, requestResource
      <3> QED BY <2>1, <3>1 DEF Rows, View!Shows
    <2>4. DEFINE f == [k \in S |-> Rows'[k]]
    <2>5. f \in [S -> {"spinner"} \union View!Shows]
      BY <2>3
    <2>6. Rows' = [k \in Keys |-> IF k \in S THEN f[k] ELSE "none"]
      BY <2>1 DEF Rows
    <2> HIDE DEF f
    <2>7. View!Open(S)
      BY <2>1, <2>2, <2>5, <2>6 DEF View!Open
    <2> QED BY <2>1, <2>7 DEF View!Next
  <1>4. ASSUME NEW k \in Keys, NEW since \in Versions, NEW v \in Versions,
               NEW x \in Versions \union {Failed}, ResourceAnswer(k, since, v, x)
        PROVE  View!Settle(k) \/ Rows' = Rows
    BY <1>0, <1>4, SettledRow DEF ResourceAnswer
  <1>5. ASSUME NEW k \in Keys, Message(k) PROVE View!Settle(k) \/ Rows' = Rows
    <2>1. Head(events[k]) \in Versions
      BY <1>0, <1>5 DEF Message, TypeOK
    <2> QED BY <1>0, <1>5, <2>1, SettledRow DEF Message
  <1>6. ASSUME NEW k \in Keys, NEW since \in Versions, FailedRequest(k, since)
        PROVE  View!Settle(k) \/ Rows' = Rows
    BY <1>0, <1>6, SettledRow DEF FailedRequest, receiveResourceError
  <1>7. ASSUME NEW k \in Keys, Poll(k) \/ Connect(k) \/ SocketError(k)
                               \/ SocketClose(k) \/ Change(k) \/ Delete(k)
        PROVE  Rows' = Rows
    <2>1. refs' = refs /\ items' = items /\ shown' = shown
      BY <1>7 DEF Poll, ItemsAfterPoll, Connect, SocketError,
             SocketClose, Change, Delete, NewVersion
    <2> QED BY <1>0, <2>1, SameRows
  <1>8. CASE UNCHANGED kubeVars
    BY <1>0, <1>8, SameRows DEF kubeVars
  <1> QED
    BY <1>1, <1>2, <1>3, <1>4, <1>5, <1>6, <1>7, <1>8, <1>9
    DEF KubeNext, Page, Answered, receiveResource, NotFound, Browser, Network, View!Next

(* The store, its sockets, timers and requests implement what the rows of  *)
(* a release page promise, but for liveness: a page opens with no row      *)
(* blank, a row that shows data or an error never goes back to a spinner   *)
(* while it is shown, and rows that come back after a jump are blank only  *)
(* where nothing is requested again.                                       *)
THEOREM RowsImplementView == KubeSpec => View!Spec
  <1>1. KubeInit => View!Init
    BY DEF KubeInit, View!Init, Rows
  <1>2. KubeInv /\ KubeInv' /\ [KubeNext]_kubeVars => [View!Next]_Rows
    BY StepRows
  <1> QED BY <1>1, <1>2, KubeInvariant, PTL DEF KubeSpec, View!Spec

=============================================================================
