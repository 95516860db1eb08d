--------------------------- MODULE OperatorsProofs ---------------------------
(***************************************************************************)
(* The operators slice keeps its promises for any set of operators and     *)
(* instances, and however many pages, requests and faults there are: its   *)
(* flags come down, a namespace gets one OperatorGroup, and a loaded page  *)
(* writes to what its URL names.                                           *)
(***************************************************************************)
EXTENDS Operators, TLAPS

Outcomes == {"fetch", "create", "update", "delete"}
Resources == [of : Instances, version : Nat]
Stores ==
    [fetching : SUBSET Flags, olm : BOOLEAN, operator : Ops \union {None},
     csv : Ops \union {None}, resource : Resources \union {None},
     errors : [operator : Outcomes \union {None}, csv : Outcomes \union {None},
               resource : Outcomes \union {None}, subscriptions : Outcomes \union {None}]]
Components ==
    [since : Nat, crd : BOOLEAN, channel : Ops \union {None}, global : BOOLEAN,
     modal : BOOLEAN, deleting : BOOLEAN, values : Resources \union {None}]

ForOperator == {"operator", "csv"}
ForInstance == {"csv_resource", "resource"}
ForNothing == {"olm", "operators", "subscriptions", "csvs_resources", "resources"}
Installing == {"groups", "group", "subscribe"}
Writing == {"create", "update", "delete"}
Kinds == ForOperator \union ForInstance \union ForNothing \union Installing \union Writing

(* An operator, an instance or nothing is asked for, as the kind has it.   *)
WellFormed(q) ==
    /\ q \in [kind : Kinds, of : Ops \union Instances \union {None}, visit : Nat,
              from : Pages \union {None}, body : {q.body}, sure : BOOLEAN]
    /\ q.kind \in ForOperator \union Installing => q.of \in Ops
    /\ q.kind \in ForInstance \union Writing => q.of \in Instances

-----------------------------------------------------------------------------
(* The steps of createOperator: only those of the namespace ask for a      *)
(* group, one of them at a time unless two overlapped, and the             *)
(* subscription comes after the group.                                     *)
GroupInv ==
    /\ GroupPerNamespace
    /\ \A q \in requests :
          /\ q.kind \in {"groups", "group"} => q.body = FALSE
          /\ q.kind = "subscribe" /\ q.body = FALSE => groups > 0
    /\ ~overlapped =>
          /\ \A q, r \in requests : {q.kind, r.kind} \subseteq Installing => q = r
          /\ \A q \in requests : q.kind = "group" => groups = 0

(* What the mounted page asked for is what its URL names. *)
AsksForItsPage(q) ==
    q.visit = visit =>
        /\ q.kind = "operator" => page.at \in {"operator", "new"} /\ q.of = page.of
        /\ q.kind \in ForInstance => page.at \in {"instance", "update"} /\ q.of = page.of
Awaits(kinds) == \E q \in requests : q.visit = visit /\ q.kind \in kinds

(* Once the answers are there, and none of an earlier page came with them, *)
(* the store and the form hold that.                                       *)
HoldsItsPage ==
    /\ page.at = "new" /\ ~Awaits({"operator"}) => st.operator \in {None, page.of}
    /\ page.at = "instance" /\ ~Awaits(ForInstance) /\ st.resource # None =>
          st.resource.of = page.of
    /\ page.at = "update" /\ ~Awaits(ForInstance) /\ st.resource # None /\ ui.values # None =>
          ui.values.of = page.of

PageInv ==
    /\ ActsOnItsPage
    /\ \A q \in requests : AsksForItsPage(q)
    /\ ~late => HoldsItsPage

ClientInv ==
    /\ page \in Pages /\ visit \in Nat
    /\ st \in Stores /\ ui \in Components
    /\ \A q \in requests : WellFormed(q) /\ q.visit <= visit
    /\ late \in BOOLEAN
    /\ NoEndlessSpinner /\ PageInv
ClusterInv ==
    /\ server \in [Instances -> Nat] /\ groups \in Nat /\ overlapped \in BOOLEAN
    /\ GroupInv
Inv == ClientInv /\ ClusterInv

-----------------------------------------------------------------------------
(* Pages, requests and their flags *)

LEMMA PageFacts ==
    ASSUME NEW p \in Pages
    PROVE  /\ p.at \in {"apps", "list", "operator", "new", "create", "instance", "update"}
           /\ p.at \in {"operator", "new", "create"} => p.of \in Ops
           /\ p.at \in {"instance", "update"} => p.of \in Instances /\ OwnerOf(p.of) \in Ops
  BY OperatorsConstants DEF Pages, Page, AppList

LEMMA FlagFacts ==
    ASSUME NEW R, NEW f
    PROVE  f \in AllFlags(R) <=> \E q \in R : f \in FlagsOf(q.kind)
  BY DEF AllFlags

LEMMA FlagsAreFlags ==
    ASSUME NEW kind
    PROVE  FlagsOf(kind) \subseteq Flags
  BY DEF FlagsOf, Flags

LEMMA RequestFacts ==
    ASSUME NEW kind \in Kinds, NEW of \in Ops \union Instances \union {None}, NEW v \in Nat,
           kind \in ForOperator \union Installing => of \in Ops,
           kind \in ForInstance \union Writing => of \in Instances
    PROVE  /\ WellFormed(Request(kind, of, v))
           /\ Request(kind, of, v).kind = kind /\ Request(kind, of, v).of = of
           /\ Request(kind, of, v).visit = v /\ Request(kind, of, v).from = None
  BY DEF WellFormed, Request

LEMMA ContinueFacts ==
    ASSUME NEW q, WellFormed(q), NEW kind \in Kinds,
           kind \in ForOperator \union Installing => q.of \in Ops,
           kind \in ForInstance \union Writing => q.of \in Instances
    PROVE  \A r \in Continue(q, kind) :
              /\ WellFormed(r) /\ r.kind = kind /\ r.of = q.of /\ r.visit = q.visit
              /\ r.from = q.from /\ r.body = q.body /\ r.sure = q.sure
  BY DEF WellFormed, Continue

-----------------------------------------------------------------------------
(* The reducer *)

LEMMA FlagReducers ==
    ASSUME NEW s \in Stores, NEW F \in SUBSET Flags, NEW f
    PROVE  /\ Fetching(s, F) \in Stores /\ Done(s, f) \in Stores
           /\ Fetching(s, F).fetching = s.fetching \union F
           /\ Done(s, f).fetching = s.fetching \ {f}
           /\ \A t \in {Fetching(s, F), Done(s, f)} :
                 t.operator = s.operator /\ t.resource = s.resource /\ t.errors = s.errors
  BY DEF Stores, Fetching, Done

LEMMA ErrorFacts ==
    ASSUME NEW s \in Stores, NEW elem \in {"operator", "csv", "resource", "subscriptions"},
           NEW op \in Outcomes
    PROVE  /\ Error(s, elem, op) \in Stores
           /\ Error(s, elem, op).fetching = s.fetching \ {elem}
           /\ Error(s, elem, op).operator = s.operator
           /\ Error(s, elem, op).resource = s.resource
  <1>1. Done(s, elem) \in Stores /\ Done(s, elem).fetching = s.fetching \ {elem}
    BY DEF Stores, Done
  <1>2. Done(s, elem).operator = s.operator /\ Done(s, elem).resource = s.resource
    BY DEF Stores, Done
  <1> DEFINE d == Done(s, elem)
  <1> HIDE DEF d
  <1>3. [d EXCEPT !.errors[elem] = op] \in Stores
    BY <1>1 DEF Stores, d
  <1>4. /\ [d EXCEPT !.errors[elem] = op].fetching = d.fetching
        /\ [d EXCEPT !.errors[elem] = op].operator = d.operator
        /\ [d EXCEPT !.errors[elem] = op].resource = d.resource
    BY <1>1 DEF Stores, d
  <1> QED BY <1>1, <1>2, <1>3, <1>4 DEF Error, d

LEMMA Receives ==
    ASSUME NEW s \in Stores, NEW o \in Ops, NEW r \in Resources
    PROVE  /\ OLMInstalled(s) \in Stores
           /\ OLMInstalled(s).fetching = s.fetching \ {"OLM"}
           /\ OLMInstalled(s).operator = s.operator /\ OLMInstalled(s).resource = s.resource
           /\ receiveOperator(s, o) \in Stores
           /\ receiveOperator(s, o).fetching = s.fetching \ {"operator"}
           /\ receiveOperator(s, o).operator = o /\ receiveOperator(s, o).resource = s.resource
           /\ receiveCSV(s, o) \in Stores
           /\ receiveCSV(s, o).fetching = s.fetching \ {"csv"}
           /\ receiveCSV(s, o).operator = s.operator /\ receiveCSV(s, o).resource = s.resource
           /\ receiveCustomResource(s, r) \in Stores
           /\ receiveCustomResource(s, r).fetching = s.fetching \ {"resource"}
           /\ receiveCustomResource(s, r).operator = s.operator
           /\ receiveCustomResource(s, r).resource = r
  BY DEF Stores, Done, OLMInstalled, receiveOperator, receiveCSV, receiveCustomResource

(* A failure lowers all flags of its thunk, and leaves the operator and    *)
(* the resource of the store as they were or takes them out.               *)
LEMMA FailedFacts ==
    ASSUME NEW s \in Stores, NEW q, WellFormed(q)
    PROVE  /\ Failed(q, s) \in Stores
           /\ Failed(q, s).fetching \subseteq s.fetching \ FlagsOf(q.kind)
           /\ Failed(q, s).operator \in {s.operator, None}
           /\ q.kind = "operator" => Failed(q, s).operator = None
           /\ Failed(q, s).resource \in {s.resource, None}
           /\ q.kind \in ForInstance => Failed(q, s).resource = None
  <1>k. q.kind \in Kinds
    BY DEF WellFormed
  <1>1. CASE q.kind = "olm"
    <2>1. Failed(q, s) = errorOLMCheck(s) /\ FlagsOf(q.kind) = {"OLM"}
      BY <1>1 DEF Failed, FlagsOf
    <2>2. /\ Done(s, "OLM") \in Stores /\ Done(s, "OLM").fetching = s.fetching \ {"OLM"}
          /\ Done(s, "OLM").operator = s.operator /\ Done(s, "OLM").resource = s.resource
      BY FlagReducers
    <2>3. /\ errorOLMCheck(s) \in Stores
          /\ errorOLMCheck(s).fetching = s.fetching \ {"OLM"}
          /\ errorOLMCheck(s).operator = s.operator /\ errorOLMCheck(s).resource = s.resource
      BY <2>2 DEF Stores, errorOLMCheck, Outcomes
    <2> QED BY <1>1, <2>1, <2>3 DEF ForInstance
  <1>2. CASE q.kind \in {"operators", "operator"}
    <2>1. Failed(q, s) = errorOperators(s) /\ FlagsOf(q.kind) = {"operator"}
      BY <1>2 DEF Failed, FlagsOf
    <2>2. /\ Error(s, "operator", "fetch") \in Stores
          /\ Error(s, "operator", "fetch").fetching = s.fetching \ {"operator"}
          /\ Error(s, "operator", "fetch").resource = s.resource
      BY ErrorFacts DEF Outcomes
    <2> QED BY <1>2, <2>1, <2>2 DEF Stores, errorOperators, ForInstance
  <1>3. errorCSVs(s) \in Stores /\ errorCSVs(s).fetching = s.fetching \ {"csv"}
        /\ errorCSVs(s).operator = s.operator /\ errorCSVs(s).resource = s.resource
    <2>1. /\ Error(s, "csv", "fetch") \in Stores
          /\ Error(s, "csv", "fetch").fetching = s.fetching \ {"csv"}
          /\ Error(s, "csv", "fetch").operator = s.operator
          /\ Error(s, "csv", "fetch").resource = s.resource
      BY ErrorFacts DEF Outcomes
    <2> QED BY <2>1 DEF Stores, errorCSVs
  <1>4. ASSUME NEW t \in Stores
        PROVE  /\ errorCustomResource(t) \in Stores
               /\ errorCustomResource(t).fetching = t.fetching \ {"resource"}
               /\ errorCustomResource(t).operator = t.operator
               /\ errorCustomResource(t).resource = None
    <2>1. /\ Error(t, "resource", "fetch") \in Stores
          /\ Error(t, "resource", "fetch").fetching = t.fetching \ {"resource"}
          /\ Error(t, "resource", "fetch").operator = t.operator
      BY ErrorFacts DEF Outcomes
    <2> QED BY <2>1 DEF Stores, errorCustomResource
  <1>5. CASE q.kind = "csv"
    <2>1. Failed(q, s) = errorCSVs(s) /\ FlagsOf(q.kind) = {"csv"}
      BY <1>5 DEF Failed, FlagsOf
    <2> QED BY <1>3, <1>5, <2>1 DEF ForInstance
  <1>6. CASE q.kind = "csv_resource"
    <2>1. /\ Failed(q, s) = errorCustomResource(errorCSVs(s))
          /\ FlagsOf(q.kind) = {"csv", "resource"}
      BY <1>6 DEF Failed, FlagsOf, WithoutCSV
    <2> QED BY <1>3, <1>4, <1>6, <2>1
  <1>7. CASE q.kind = "csvs_resources"
    <2>1. Failed(q, s) = Done(errorCSVs(s), "resource") /\ FlagsOf(q.kind) = {"csv", "resource"}
      BY <1>7 DEF Failed, FlagsOf
    <2>2. /\ Done(errorCSVs(s), "resource") \in Stores
          /\ Done(errorCSVs(s), "resource").fetching = errorCSVs(s).fetching \ {"resource"}
          /\ Done(errorCSVs(s), "resource").operator = errorCSVs(s).operator
          /\ Done(errorCSVs(s), "resource").resource = errorCSVs(s).resource
      BY <1>3, FlagReducers
    <2> QED BY <1>3, <1>7, <2>1, <2>2 DEF ForInstance
  <1>8. CASE q.kind \in {"resource", "resources"}
    <2>1. Failed(q, s) = errorCustomResource(s) /\ FlagsOf(q.kind) = {"resource"}
      BY <1>8 DEF Failed, FlagsOf
    <2> QED BY <1>4, <1>8, <2>1
  <1>9. CASE q.kind = "subscriptions"
    <2>1. Failed(q, s) = errorSubscriptionList(s) /\ FlagsOf(q.kind) = {"subscriptions"}
      BY <1>9 DEF Failed, FlagsOf
    <2>2. /\ Error(s, "subscriptions", "fetch") \in Stores
          /\ Error(s, "subscriptions", "fetch").fetching = s.fetching \ {"subscriptions"}
          /\ Error(s, "subscriptions", "fetch").operator = s.operator
      BY ErrorFacts DEF Outcomes
    <2> QED BY <1>9, <2>1, <2>2 DEF Stores, errorSubscriptionList, ForInstance
  <1>10. CASE q.kind \in Installing
    <2>1. Failed(q, s) = Error(s, "operator", "create") /\ FlagsOf(q.kind) = {"operator"}
      BY <1>10 DEF Failed, FlagsOf, Installing
    <2>2. /\ Error(s, "operator", "create") \in Stores
          /\ Error(s, "operator", "create").fetching = s.fetching \ {"operator"}
          /\ Error(s, "operator", "create").operator = s.operator
          /\ Error(s, "operator", "create").resource = s.resource
      BY ErrorFacts DEF Outcomes
    <2> QED BY <1>10, <2>1, <2>2 DEF Installing, ForInstance
  <1>11. CASE q.kind \in Writing
    <2>1. Failed(q, s) = Error(s, "resource", q.kind) /\ FlagsOf(q.kind) = {"resource"}
      BY <1>11 DEF Failed, FlagsOf, Writing
    <2>2. q.kind \in Outcomes
      BY <1>11 DEF Outcomes, Writing
    <2>3. /\ Error(s, "resource", q.kind) \in Stores
          /\ Error(s, "resource", q.kind).fetching = s.fetching \ {"resource"}
          /\ Error(s, "resource", q.kind).operator = s.operator
          /\ Error(s, "resource", q.kind).resource = s.resource
      BY <2>2, ErrorFacts
    <2> QED BY <1>11, <2>1, <2>3 DEF Writing, ForInstance
  <1> QED BY <1>k, <1>1, <1>2, <1>5, <1>6, <1>7, <1>8, <1>9, <1>10, <1>11
          DEF Kinds, ForOperator, ForInstance, ForNothing

LEMMA Locations ==
    ASSUME NEW s \in Stores
    PROVE  /\ LOCATION_CHANGE(s) \in Stores
           /\ LOCATION_CHANGE(s).fetching = s.fetching
           /\ LOCATION_CHANGE(s).operator = s.operator
           /\ LOCATION_CHANGE(s).resource = s.resource
           /\ setNamespaceState(s) \in Stores /\ setNamespaceState(s).fetching = {}
  BY DEF Stores, LOCATION_CHANGE, setNamespaceState, initialState, NoErrors

-----------------------------------------------------------------------------
(* Components and the requests of a page *)

LEMMA EffectTypes ==
    ASSUME NEW u \in Components, NEW p \in Pages, NEW s \in Stores
    PROVE  /\ parseCSV(u, p, s) \in Components /\ parseCSV(u, p, s).values = u.values
           /\ CurrentValues(u, p, s) \in Components
           /\ p.at = "update" /\ s.resource # None => CurrentValues(u, p, s).values = s.resource
           /\ DefaultChannel(u, p, s) \in Components
           /\ DefaultChannel(u, p, s).values = u.values
  <1>1. parseCSV(u, p, s) \in Components /\ parseCSV(u, p, s).values = u.values
    BY DEF Components, parseCSV
  <1>2. /\ CurrentValues(u, p, s) \in Components
        /\ p.at = "update" /\ s.resource # None => CurrentValues(u, p, s).values = s.resource
    BY DEF Components, CurrentValues, Stores
  <1>3. DefaultChannel(u, p, s) \in Components /\ DefaultChannel(u, p, s).values = u.values
    <2>1. CASE p.at = "new" /\ s.operator # None
      <3>1. DefaultChannel(u, p, s) =
               [u EXCEPT !.channel = s.operator, !.global = (s.operator \in GlobalOps)]
        BY <2>1 DEF DefaultChannel
      <3>2. (s.operator \in GlobalOps) \in BOOLEAN /\ s.operator \in Ops \union {None}
        BY DEF Stores
      <3> QED BY <3>1, <3>2 DEF Components
    <2> QED BY <2>1 DEF DefaultChannel
  <1> QED BY <1>1, <1>2, <1>3

LEMMA ComponentTypes ==
    ASSUME ui \in Components, visit \in Nat, page \in Pages,
           NEW p \in Pages, NEW s \in Stores
    PROVE  Component(p, s) \in Components
  <1> DEFINE new == [NoState EXCEPT !.since = visit + 1]
  <1>0. visit + 1 \in Nat
    OBVIOUS
  <1>1. new \in Components
    BY <1>0 DEF NoState, Components
  <1>2. [NoState EXCEPT !.since = ui.since] \in Components
    BY DEF NoState, Components
  <1> HIDE DEF new
  <1>3. CurrentValues(parseCSV(new, p, s), p, s) \in Components
    BY <1>1, EffectTypes
  <1>4. NewComponent(p, s) \in Components
    BY <1>3, EffectTypes DEF NewComponent, new
  <1>5. CASE page.at # p.at
    BY <1>4, <1>5 DEF Component
  <1>6. CASE page.at = p.at /\ p.at \in {"create", "update"}
    BY <1>2, <1>6 DEF Component
  <1>7. CASE page.at = p.at /\ p.at \notin {"create", "update"}
    BY <1>7 DEF Component
  <1> QED BY <1>5, <1>6, <1>7

(* The requests that an answer or a new page sends. *)
LEMMA ReadsFacts ==
    ASSUME NEW kinds \in SUBSET Kinds, NEW of \in Ops \union Instances \union {None}, NEW v \in Nat,
           \A kind \in kinds : /\ kind \in ForOperator \union Installing => of \in Ops
                               /\ kind \in ForInstance \union Writing => of \in Instances,
           NEW q \in Reads(kinds, of, v)
    PROVE  WellFormed(q) /\ q.kind \in kinds /\ q.of = of /\ q.visit = v /\ q.from = None
  <1>1. PICK kind \in kinds : q = Request(kind, of, v)
    BY DEF Reads
  <1> QED BY <1>1, RequestFacts

LEMMA OperatorCSVFacts ==
    ASSUME NEW p \in Pages, NEW s \in Stores, NEW v \in Nat, NEW q \in OperatorCSV(p, s, v)
    PROVE  WellFormed(q) /\ q.kind = "csv" /\ q.visit = v /\ q.from = None
  <1>1. q \in Reads({"csv"}, s.operator, v) /\ s.operator \in Ops
    BY DEF OperatorCSV, Stores
  <1>2. {"csv"} \subseteq Kinds /\ "csv" \notin ForInstance \union Writing
    BY DEF Kinds, ForOperator, ForInstance, Writing
  <1> QED BY <1>1, <1>2, ReadsFacts

LEMMA ListsFacts ==
    ASSUME NEW p \in Pages, NEW s \in Stores, NEW v \in Nat, NEW q \in Lists(p, s, v)
    PROVE  /\ WellFormed(q) /\ q.visit = v /\ q.from = None
           /\ q.kind \in {"operators", "subscriptions"}
  <1>1. q \in Reads({"operators", "subscriptions"}, None, v)
    BY DEF Lists
  <1>2. /\ {"operators", "subscriptions"} \subseteq Kinds
        /\ \A kind \in {"operators", "subscriptions"} :
              kind \notin ForInstance \union Writing \union ForOperator \union Installing
    BY DEF Kinds, ForOperator, ForInstance, ForNothing, Installing, Writing
  <1> QED BY <1>1, <1>2, ReadsFacts

(* A request of page p, visited as number v. *)
AsksFor(q, p) ==
    /\ q.kind \in ForOperator \union ForInstance \union ForNothing
    /\ q.kind = "operator" => p.at \in {"operator", "new"} /\ q.of = p.of
    /\ q.kind = "csv_resource" => p.at \in {"instance", "update"} /\ q.of = p.of
    /\ q.kind # "resource"

LEMMA PageRequestsFacts ==
    ASSUME NEW p \in Pages, NEW v \in Nat
    PROVE  /\ \A q \in PageRequests(p, v) :
                 WellFormed(q) /\ q.visit = v /\ q.from = None /\ AsksFor(q, p)
           /\ p.at = "new" => \E q \in PageRequests(p, v) : q.visit = v /\ q.kind = "operator"
           /\ p.at \in {"instance", "update"} =>
                 \E q \in PageRequests(p, v) : q.visit = v /\ q.kind = "csv_resource"
  <1>k. /\ {"csvs_resources", "olm", "operator", "subscriptions", "csv", "csv_resource"} \subseteq Kinds
        /\ \A kind \in {"csvs_resources", "olm", "subscriptions"} :
              kind \notin ForOperator \union Installing /\ kind \notin ForInstance \union Writing
        /\ \A kind \in {"operator", "csv"} : kind \notin ForInstance \union Writing
        /\ "csv_resource" \notin ForOperator \union Installing
    BY DEF Kinds, ForOperator, ForInstance, ForNothing, Installing, Writing
  <1>1. CASE p.at = "apps"
    <2>1. PageRequests(p, v) = {Request("csvs_resources", None, v)}
      BY <1>1 DEF PageRequests, Reads
    <2>2. /\ WellFormed(Request("csvs_resources", None, v)) /\ Request("csvs_resources", None, v).kind = "csvs_resources"
          /\ Request("csvs_resources", None, v).of = None /\ Request("csvs_resources", None, v).visit = v
          /\ Request("csvs_resources", None, v).from = None
      BY <1>k, RequestFacts
    <2> QED BY <1>1, <2>1, <2>2 DEF AsksFor, ForOperator, ForInstance, ForNothing
  <1>2. CASE p.at = "list"
    <2>1. PageRequests(p, v) = {Request("olm", None, v)}
      BY <1>2 DEF PageRequests, Reads
    <2>2. /\ WellFormed(Request("olm", None, v)) /\ Request("olm", None, v).kind = "olm"
          /\ Request("olm", None, v).of = None /\ Request("olm", None, v).visit = v
          /\ Request("olm", None, v).from = None
      BY <1>k, RequestFacts
    <2> QED BY <1>2, <2>1, <2>2 DEF AsksFor, ForOperator, ForInstance, ForNothing
  <1>3. CASE p.at = "operator"
    <2>0. p.of \in Ops
      BY <1>3, PageFacts
    <2>1. PageRequests(p, v) = {Request("operator", p.of, v),
                                Request("subscriptions", None, v)}
      BY <1>3 DEF PageRequests, Reads
    <2>2. /\ WellFormed(Request("operator", p.of, v)) /\ Request("operator", p.of, v).kind = "operator"
          /\ Request("operator", p.of, v).of = p.of /\ Request("operator", p.of, v).visit = v
          /\ Request("operator", p.of, v).from = None
      BY <2>0, <1>k, RequestFacts
    <2>3. /\ WellFormed(Request("subscriptions", None, v)) /\ Request("subscriptions", None, v).kind = "subscriptions"
          /\ Request("subscriptions", None, v).of = None /\ Request("subscriptions", None, v).visit = v
          /\ Request("subscriptions", None, v).from = None
      BY <1>k, RequestFacts
    <2> QED BY <1>3, <2>1, <2>2, <2>3 DEF AsksFor, ForOperator, ForInstance, ForNothing
  <1>4. CASE p.at = "new"
    <2>0. p.of \in Ops
      BY <1>4, PageFacts
    <2>1. PageRequests(p, v) = {Request("operator", p.of, v)}
      BY <1>4 DEF PageRequests, Reads
    <2>2. /\ WellFormed(Request("operator", p.of, v)) /\ Request("operator", p.of, v).kind = "operator"
          /\ Request("operator", p.of, v).of = p.of /\ Request("operator", p.of, v).visit = v
          /\ Request("operator", p.of, v).from = None
      BY <2>0, <1>k, RequestFacts
    <2> QED BY <1>4, <2>1, <2>2 DEF AsksFor, ForOperator, ForInstance, ForNothing
  <1>5. CASE p.at = "create"
    <2>0. p.of \in Ops
      BY <1>5, PageFacts
    <2>1. PageRequests(p, v) = {Request("csv", p.of, v)}
      BY <1>5 DEF PageRequests, Reads
    <2>2. /\ WellFormed(Request("csv", p.of, v)) /\ Request("csv", p.of, v).kind = "csv"
          /\ Request("csv", p.of, v).of = p.of /\ Request("csv", p.of, v).visit = v
          /\ Request("csv", p.of, v).from = None
      BY <2>0, <1>k, RequestFacts
    <2> QED BY <1>5, <2>1, <2>2 DEF AsksFor, ForOperator, ForInstance, ForNothing
  <1>6. CASE p.at \in {"instance", "update"}
    <2>0. p.of \in Instances /\ OwnerOf(p.of) \in Ops
      BY <1>6, PageFacts
    <2>1. PageRequests(p, v) = {Request("csv_resource", p.of, v),
                                Request("csv", OwnerOf(p.of), v)}
      BY <1>6 DEF PageRequests, Reads
    <2>2. /\ WellFormed(Request("csv_resource", p.of, v)) /\ Request("csv_resource", p.of, v).kind = "csv_resource"
          /\ Request("csv_resource", p.of, v).of = p.of /\ Request("csv_resource", p.of, v).visit = v
          /\ Request("csv_resource", p.of, v).from = None
      BY <2>0, <1>k, RequestFacts
    <2>3. /\ WellFormed(Request("csv", OwnerOf(p.of), v)) /\ Request("csv", OwnerOf(p.of), v).kind = "csv"
          /\ Request("csv", OwnerOf(p.of), v).of = OwnerOf(p.of) /\ Request("csv", OwnerOf(p.of), v).visit = v
          /\ Request("csv", OwnerOf(p.of), v).from = None
      BY <2>0, <1>k, RequestFacts
    <2> QED BY <1>6, <2>1, <2>2, <2>3 DEF AsksFor, ForOperator, ForInstance, ForNothing
  <1> QED BY <1>1, <1>2, <1>3, <1>4, <1>5, <1>6, PageFacts

LEMMA MountFacts ==
    ASSUME NEW p \in Pages, NEW s \in Stores, NEW v \in Nat
    PROVE  /\ \A q \in MountRequests(p, s, v) :
                 WellFormed(q) /\ q.visit = v /\ q.from = None /\ AsksFor(q, p)
           /\ PageRequests(p, v) \subseteq MountRequests(p, s, v)
  <1>1. \A q \in OperatorCSV(p, s, v) \union Lists(p, s, v) :
           WellFormed(q) /\ q.visit = v /\ q.from = None /\ AsksFor(q, p)
    <2>1. \A q \in OperatorCSV(p, s, v) :
             WellFormed(q) /\ q.kind = "csv" /\ q.visit = v /\ q.from = None
      BY OperatorCSVFacts
    <2>2. \A q \in Lists(p, s, v) :
             /\ WellFormed(q) /\ q.kind \in {"operators", "subscriptions"}
             /\ q.visit = v /\ q.from = None
      BY ListsFacts
    <2> QED BY <2>1, <2>2 DEF AsksFor, ForOperator, ForInstance, ForNothing
  <1> QED BY <1>1, PageRequestsFacts DEF MountRequests

LEMMA FollowFacts ==
    ASSUME page \in Pages, visit \in Nat, NEW s \in Stores, NEW kind, NEW q \in Follow(kind, s)
    PROVE  /\ WellFormed(q) /\ q.visit = visit /\ q.from = None
           /\ q.kind \in {"csv", "operators", "subscriptions"}
  <1>1. q \in OperatorCSV(page, s, visit) \/ q \in Lists(page, s, visit)
    <2>1. CASE kind = "operator"
      BY <2>1 DEF Follow
    <2>2. CASE kind = "olm" /\ ~st.olm
      BY <2>2 DEF Follow
    <2>3. CASE kind # "operator" /\ ~(kind = "olm" /\ ~st.olm)
      BY <2>3 DEF Follow
    <2> QED BY <2>1, <2>2, <2>3
  <1> QED BY <1>1, OperatorCSVFacts, ListsFacts

-----------------------------------------------------------------------------
(* The user goes to a page *)

LEMMA EnterKeeps ==
    ASSUME ClientInv, NEW p \in Pages, NEW s \in Stores, NEW Q \in SUBSET requests,
           Enter(p, s, Q), s.fetching \subseteq AllFlags(Q)
    PROVE  /\ ClientInv'
           /\ \A q \in requests' : q \in Q \/ q.kind \notin Installing
  <1>1. visit \in Nat /\ page \in Pages
    BY DEF ClientInv
  <1>n. PICK n \in Nat : n = visit + 1
    BY <1>1
  <1> DEFINE moved == LOCATION_CHANGE(s)
             sent == MountRequests(p, moved, n)
  <1>2. moved \in Stores /\ moved.fetching = s.fetching
    BY Locations
  <1>3. /\ page' = p /\ visit' = n /\ ui' = Component(p, moved)
        /\ st' = Fetching(moved, AllFlags(sent)) /\ requests' = Q \union sent /\ late' = FALSE
    BY <1>n DEF Enter
  <1> HIDE DEF moved
  <1>4. /\ \A q \in sent : WellFormed(q) /\ q.visit = n /\ q.from = None /\ AsksFor(q, p)
        /\ PageRequests(p, n) \subseteq sent
    BY <1>1, <1>2, MountFacts
  <1> HIDE DEF sent
  <1>5. \A q \in Q : WellFormed(q) /\ q.visit <= visit /\ q.visit # n
    BY <1>1, <1>n DEF ClientInv, WellFormed
  <1>6. AllFlags(sent) \in SUBSET Flags
    BY FlagFacts, FlagsAreFlags
  <1>7. st' \in Stores /\ st'.fetching = s.fetching \union AllFlags(sent)
    BY <1>2, <1>3, <1>6, FlagReducers
  <1>8. ui' \in Components
    BY <1>1, <1>2, <1>3, ComponentTypes DEF ClientInv
  <1>9. \A q \in requests' : WellFormed(q) /\ q.visit <= visit'
    BY <1>1, <1>n, <1>3, <1>4, <1>5 DEF WellFormed
  <1>10. NoEndlessSpinner'
    BY <1>3, <1>7, FlagFacts DEF NoEndlessSpinner
  <1>11. ActsOnItsPage'
    <2>1. ActsOnItsPage
      BY DEF ClientInv, PageInv
    <2> QED BY <1>3, <1>4, <2>1 DEF ActsOnItsPage
  <1>12. \A q \in requests' : AsksForItsPage(q)'
    BY <1>3, <1>4, <1>5 DEF AsksForItsPage, AsksFor, ForInstance
  <1>13. HoldsItsPage'
    <2>0. /\ p.at = "new" => \E q \in sent : q.visit = n /\ q.kind = "operator"
          /\ p.at \in {"instance", "update"} =>
                \E q \in sent : q.visit = n /\ q.kind = "csv_resource"
      <3>1. /\ p.at = "new" =>
                  \E q \in PageRequests(p, n) : q.visit = n /\ q.kind = "operator"
            /\ p.at \in {"instance", "update"} =>
                  \E q \in PageRequests(p, n) :
                     q.visit = n /\ q.kind = "csv_resource"
        BY <1>1, PageRequestsFacts
      <3> QED BY <1>4, <3>1
    <2>1. p.at = "new" => Awaits({"operator"})'
      BY <1>3, <2>0 DEF Awaits
    <2>2. p.at \in {"instance", "update"} => Awaits(ForInstance)'
      BY <1>3, <2>0 DEF Awaits, ForInstance
    <2> QED BY <1>3, <2>1, <2>2 DEF HoldsItsPage
  <1>14. \A q \in requests' : q \in Q \/ q.kind \notin Installing
    BY <1>3, <1>4 DEF AsksFor, ForOperator, ForInstance, ForNothing, Installing
  <1>15. PageInv'
    BY <1>11, <1>12, <1>13 DEF PageInv
  <1> QED BY <1>1, <1>3, <1>7, <1>8, <1>9, <1>10, <1>14, <1>15 DEF ClientInv

(* A write that succeeded takes the user on. *)
LEMMA NavigateKeeps ==
    ASSUME ClientInv, NEW p \in Pages, NEW q \in requests, NEW flag,
           q.kind \in Installing \union Writing, FlagsOf(q.kind) = {flag},
           NavigateTo(p, Done(st, flag), requests \ {q})
    PROVE  /\ ClientInv'
           /\ \A r \in requests' : (r \in requests /\ r # q) \/ r.kind \notin Installing
  <1> DEFINE s == Done(st, flag)
             Q == requests \ {q}
  <1>1. /\ s \in Stores /\ s.fetching = st.fetching \ {flag}
        /\ s.operator = st.operator /\ s.resource = st.resource
    BY FlagReducers DEF ClientInv
  <1>2. s.fetching \subseteq AllFlags(Q)
    BY <1>1, FlagFacts DEF ClientInv, NoEndlessSpinner
  <1> HIDE DEF s
  <1>3. CASE p # page /\ Enter(p, s, Q)
    <2>1. Q \in SUBSET requests
      OBVIOUS
    <2> QED BY <1>1, <1>2, <1>3, <2>1, EnterKeeps
  <1>4. CASE st' = LOCATION_CHANGE(s) /\ requests' = Q /\ UNCHANGED <<page, visit, ui, late>>
    <2>1. /\ st' \in Stores /\ st'.fetching = s.fetching
          /\ st'.operator = st.operator /\ st'.resource = st.resource
      BY <1>1, <1>4, Locations
    <2>2. NoEndlessSpinner'
      BY <1>2, <1>4, <2>1 DEF NoEndlessSpinner
    <2>3. PageInv'
      <3>1. /\ Awaits({"operator"}) => Awaits({"operator"})'
            /\ Awaits(ForInstance) => Awaits(ForInstance)'
        BY <1>4 DEF Awaits, Installing, Writing, ForInstance
      <3>2. HoldsItsPage => HoldsItsPage'
        BY <1>4, <2>1, <3>1 DEF HoldsItsPage
      <3>3. ActsOnItsPage'
        BY <1>4 DEF ClientInv, PageInv, ActsOnItsPage
      <3>4. \A r \in requests' : AsksForItsPage(r)'
        BY <1>4 DEF ClientInv, PageInv, AsksForItsPage
      <3> QED BY <1>4, <3>2, <3>3, <3>4 DEF ClientInv, PageInv
    <2> QED BY <1>4, <2>1, <2>2, <2>3 DEF ClientInv
  <1> QED BY <1>3, <1>4 DEF NavigateTo, s

-----------------------------------------------------------------------------
(* Answers *)

LEMMA EffectsFacts ==
    ASSUME NEW u \in Components, NEW p \in Pages, NEW s \in Stores, NEW kind
    PROVE  /\ Effects(u, p, kind, s) \in Components
           /\ kind # "resource" => Effects(u, p, kind, s).values = u.values
           /\ kind = "resource" /\ p.at = "update" /\ s.resource # None =>
                 Effects(u, p, kind, s).values = s.resource
  <1>1. CASE kind \in {"csv", "csv_resource"}
    <2>1. Effects(u, p, kind, s) = parseCSV(u, p, s)
      BY <1>1 DEF Effects
    <2> QED BY <1>1, <2>1, EffectTypes
  <1>2. CASE kind = "resource"
    <2>1. Effects(u, p, kind, s) = CurrentValues(u, p, s)
      BY <1>2 DEF Effects
    <2> QED BY <1>2, <2>1, EffectTypes
  <1>3. CASE kind = "operator"
    <2>1. Effects(u, p, kind, s) = DefaultChannel(u, p, s)
      BY <1>3 DEF Effects
    <2> QED BY <1>3, <2>1, EffectTypes
  <1>4. CASE kind \notin {"csv", "csv_resource", "resource", "operator"}
    BY <1>4 DEF Effects
  <1> QED BY <1>1, <1>2, <1>3, <1>4

(* The thunks of several requests, and what each goes on with. *)
GoesOn(kind, next) ==
    \/ kind = "csvs_resources" /\ next = "resources"
    \/ kind = "csv_resource" /\ next = "resource"
    \/ kind = "groups" /\ next \in {"group", "subscribe"}
    \/ kind = "group" /\ next = "subscribe"

LEMMA GoesOnFacts ==
    ASSUME NEW q, WellFormed(q), NEW next, GoesOn(q.kind, next)
    PROVE  /\ FlagsOf(next) \subseteq FlagsOf(q.kind)
           /\ \A r \in Continue(q, next) :
                 /\ WellFormed(r) /\ r.kind = next /\ r.of = q.of /\ r.visit = q.visit
                 /\ r.from = q.from /\ r.body = q.body /\ r.sure = q.sure
  <1>1. FlagsOf(next) \subseteq FlagsOf(q.kind)
    BY DEF GoesOn, FlagsOf
  <1>2. /\ next \in Kinds
        /\ next \in ForOperator \union Installing => q.of \in Ops
        /\ next \in ForInstance \union Writing => q.of \in Instances
    BY DEF GoesOn, WellFormed, Kinds, ForOperator, ForInstance, ForNothing, Installing, Writing
  <1> QED BY <1>1, <1>2, ContinueFacts

LEMMA AnsweredKeeps ==
    ASSUME ClientInv, NEW q \in requests, NEW s \in Stores, NEW Q, Answered(q, s, Q),
           q.kind \notin Writing,
           Q = {} \/ \E next : GoesOn(q.kind, next) /\ Q = Continue(q, next),
           q.kind = "csv_resource" => Q # {},
           s.fetching \subseteq (st.fetching \ FlagsOf(q.kind)) \union AllFlags(Q),
           s.operator = st.operator \/ (q.kind = "operator" /\ s.operator = q.of),
           s.resource = st.resource \/ (q.kind = "resource" /\ s.resource.of = q.of),
           q.kind = "operator" => s.operator = q.of,
           q.kind = "resource" => s.resource.of = q.of
    PROVE  /\ ClientInv'
           /\ \A r \in requests' : r \in (requests \ {q}) \union Q \/ r.kind \notin Installing
  <1> DEFINE more == Follow(q.kind, s)
  <1>1. /\ st' = Fetching(s, AllFlags(more)) /\ ui' = Effects(ui, page, q.kind, s)
        /\ requests' = (requests \ {q}) \union Q \union more
        /\ late' = (late \/ q.visit # visit) /\ page' = page /\ visit' = visit
    BY DEF Answered
  <1>2. \A r \in more : /\ WellFormed(r) /\ r.visit = visit /\ r.from = None
                        /\ r.kind \in {"csv", "operators", "subscriptions"}
    BY FollowFacts DEF ClientInv
  <1> HIDE DEF more
  <1>3. AllFlags(more) \in SUBSET Flags
    BY FlagFacts, FlagsAreFlags
  <1>4. /\ st' \in Stores /\ st'.fetching = s.fetching \union AllFlags(more)
        /\ st'.operator = s.operator /\ st'.resource = s.resource
    BY <1>1, <1>3, FlagReducers
  <1>5. /\ ui' \in Components
        /\ q.kind # "resource" => ui'.values = ui.values
        /\ q.kind = "resource" /\ page.at = "update" /\ s.resource # None =>
              ui'.values = s.resource
    BY <1>1, EffectsFacts DEF ClientInv
  <1>6. \A r \in Q : /\ WellFormed(r) /\ GoesOn(q.kind, r.kind) /\ r.of = q.of
                     /\ r.visit = q.visit /\ r.from = q.from /\ r.body = q.body /\ r.sure = q.sure
    BY GoesOnFacts DEF ClientInv
  <1>7. \A r \in requests' : WellFormed(r) /\ r.visit <= visit'
    BY <1>1, <1>2, <1>6 DEF ClientInv
  <1>8. NoEndlessSpinner'
    BY <1>1, <1>4, FlagFacts DEF NoEndlessSpinner, ClientInv
  <1>9. ActsOnItsPage'
    <2>1. \A r \in Q : r.from # None /\ r.sure => r.kind \notin Writing /\ r.of = r.from.of
      BY <1>6 DEF ClientInv, PageInv, ActsOnItsPage, GoesOn, Writing
    <2>2. \A r \in requests' : r \in requests \/ r \in Q \/ r.from = None
      BY <1>1, <1>2
    <2> QED BY <2>1, <2>2 DEF ClientInv, PageInv, ActsOnItsPage, Writing
  <1>10. \A r \in requests' : AsksForItsPage(r)'
    BY <1>1, <1>2, <1>6 DEF ClientInv, PageInv, AsksForItsPage, GoesOn, ForInstance
  <1>11. ~late' => HoldsItsPage'
    <2> SUFFICES ASSUME ~late, q.visit = visit
                 PROVE  HoldsItsPage'
      BY <1>1
    <2>1. AsksForItsPage(q) /\ HoldsItsPage
      BY DEF ClientInv, PageInv
    <2>2. Awaits({"operator"}) => q.kind = "operator" \/ Awaits({"operator"})'
      BY <1>1 DEF Awaits
    <2>3. Awaits(ForInstance) => q.kind = "resource" \/ Awaits(ForInstance)'
      BY <1>1, <1>6 DEF Awaits, ForInstance, GoesOn
    <2>4. (page.at = "new" /\ ~Awaits({"operator"}) => st.operator \in {None, page.of})'
      BY <1>1, <1>4, <2>1, <2>2 DEF HoldsItsPage, AsksForItsPage
    <2>5. (page.at = "instance" /\ ~Awaits(ForInstance) /\ st.resource # None =>
              st.resource.of = page.of)'
      BY <1>1, <1>4, <2>1, <2>3 DEF HoldsItsPage, AsksForItsPage, ForInstance
    <2>6. (page.at = "update" /\ ~Awaits(ForInstance) /\ st.resource # None /\ ui.values # None =>
              ui.values.of = page.of)'
      BY <1>1, <1>4, <1>5, <2>1, <2>3 DEF HoldsItsPage, AsksForItsPage, ForInstance
    <2> QED BY <2>4, <2>5, <2>6 DEF HoldsItsPage
  <1>12. \A r \in requests' : r \in (requests \ {q}) \union Q \/ r.kind \notin Installing
    BY <1>1, <1>2 DEF Installing
  <1>13. late' \in BOOLEAN
    BY <1>1
  <1> QED BY <1>1, <1>4, <1>5, <1>7, <1>8, <1>9, <1>10, <1>11, <1>12, <1>13
          DEF ClientInv, PageInv

LEMMA FailKeeps ==
    ASSUME ClientInv, NEW q \in requests, Fail(q)
    PROVE  /\ ClientInv'
           /\ \A r \in requests' : r \in requests \/ r.kind \notin Installing
  <1>1. /\ st' = Failed(q, st) /\ ui' = Closed(q, ui) /\ requests' = requests \ {q}
        /\ late' = (late \/ q.visit # visit) /\ page' = page /\ visit' = visit
    BY DEF Fail
  <1>2. /\ st' \in Stores /\ st'.fetching \subseteq st.fetching \ FlagsOf(q.kind)
        /\ st'.operator \in {st.operator, None}
        /\ q.kind = "operator" => st'.operator = None
        /\ st'.resource \in {st.resource, None}
        /\ q.kind \in ForInstance => st'.resource = None
    BY <1>1, FailedFacts DEF ClientInv
  <1>3. ui' \in Components /\ ui'.values = ui.values
    BY <1>1 DEF ClientInv, Closed, Components
  <1>4. NoEndlessSpinner'
    BY <1>1, <1>2, FlagFacts DEF NoEndlessSpinner, ClientInv
  <1>5. ActsOnItsPage' /\ \A r \in requests' : AsksForItsPage(r)'
    BY <1>1 DEF ClientInv, PageInv, ActsOnItsPage, AsksForItsPage
  <1>6. ~late' => HoldsItsPage'
    <2> SUFFICES ASSUME ~late, q.visit = visit
                 PROVE  HoldsItsPage'
      BY <1>1
    <2>1. HoldsItsPage
      BY DEF ClientInv, PageInv
    <2>2. Awaits({"operator"}) => q.kind = "operator" \/ Awaits({"operator"})'
      BY <1>1 DEF Awaits
    <2>3. Awaits(ForInstance) => q.kind \in ForInstance \/ Awaits(ForInstance)'
      BY <1>1 DEF Awaits
    <2> QED BY <1>1, <1>2, <1>3, <2>1, <2>2, <2>3 DEF HoldsItsPage
  <1>7. late' \in BOOLEAN
    BY <1>1
  <1> QED BY <1>1, <1>2, <1>3, <1>4, <1>5, <1>6, <1>7 DEF ClientInv, PageInv

LEMMA ReadKeeps ==
    ASSUME Inv, NEW q \in requests, Read(q)
    PROVE  /\ ClientInv'
           /\ \A r \in requests' : r \in requests \/ r.kind \notin Installing
  <1>0. WellFormed(q) /\ st \in Stores /\ ClientInv
    BY DEF Inv, ClientInv
  <1> USE DEF Installing, Writing
  <1>1. CASE q.kind = "olm" /\ Answered(q, OLMInstalled(st), {})
    <2>1. /\ OLMInstalled(st) \in Stores /\ OLMInstalled(st).fetching = st.fetching \ {"OLM"}
          /\ OLMInstalled(st).operator = st.operator /\ OLMInstalled(st).resource = st.resource
      BY <1>0 DEF Stores, OLMInstalled, Done
    <2>2. FlagsOf(q.kind) = {"OLM"}
      BY <1>1 DEF FlagsOf
    <2> QED BY <1>0, <1>1, <2>1, <2>2, AnsweredKeeps
  <1>2. CASE q.kind = "operators" /\ Answered(q, Done(st, "operator"), {})
    <2>1. FlagsOf(q.kind) = {"operator"}
      BY <1>2 DEF FlagsOf
    <2>2. /\ Done(st, "operator") \in Stores
          /\ Done(st, "operator").fetching = st.fetching \ {"operator"}
          /\ Done(st, "operator").operator = st.operator
          /\ Done(st, "operator").resource = st.resource
      BY <1>0, FlagReducers
    <2> QED BY <1>0, <1>2, <2>1, <2>2, AnsweredKeeps
  <1>3. CASE q.kind = "operator" /\ Answered(q, receiveOperator(st, q.of), {})
    <2>1. q.of \in Ops /\ FlagsOf(q.kind) = {"operator"}
      BY <1>0, <1>3 DEF FlagsOf, WellFormed, ForOperator
    <2>2. /\ receiveOperator(st, q.of) \in Stores
          /\ receiveOperator(st, q.of).fetching = st.fetching \ {"operator"}
          /\ receiveOperator(st, q.of).operator = q.of
          /\ receiveOperator(st, q.of).resource = st.resource
      BY <1>0, <2>1 DEF Stores, receiveOperator, Done
    <2> QED BY <1>0, <1>3, <2>1, <2>2, AnsweredKeeps
  <1>4. ASSUME NEW o \in Ops
        PROVE  /\ receiveCSV(st, o) \in Stores
               /\ receiveCSV(st, o).fetching = st.fetching \ {"csv"}
               /\ receiveCSV(st, o).operator = st.operator
               /\ receiveCSV(st, o).resource = st.resource
    BY <1>0 DEF Stores, receiveCSV, Done
  <1>5. CASE q.kind = "csv" /\ Answered(q, receiveCSV(st, q.of), {})
    <2>1. q.of \in Ops /\ FlagsOf(q.kind) = {"csv"}
      BY <1>0, <1>5 DEF FlagsOf, WellFormed, ForOperator
    <2> QED BY <1>0, <1>4, <1>5, <2>1, AnsweredKeeps
  <1>6. CASE q.kind = "subscriptions" /\ Answered(q, Done(st, "subscriptions"), {})
    <2>1. FlagsOf(q.kind) = {"subscriptions"}
      BY <1>6 DEF FlagsOf
    <2>2. /\ Done(st, "subscriptions") \in Stores /\ Done(st, "subscriptions").fetching = st.fetching \ {"subscriptions"}
          /\ Done(st, "subscriptions").operator = st.operator /\ Done(st, "subscriptions").resource = st.resource
      BY <1>0, FlagReducers
    <2> QED BY <1>0, <1>6, <2>1, <2>2, AnsweredKeeps
  <1>7. CASE q.kind = "csvs_resources" /\ Answered(q, Done(st, "csv"), Continue(q, "resources"))
    <2>1. GoesOn(q.kind, "resources")
      BY <1>7 DEF GoesOn
    <2>2. /\ Continue(q, "resources") # {}
          /\ \A r \in Continue(q, "resources") : r.kind = "resources"
      BY <1>0, <2>1, GoesOnFacts DEF Continue
    <2>3. FlagsOf(q.kind) = {"csv", "resource"} /\ FlagsOf("resources") = {"resource"}
      BY <1>7 DEF FlagsOf
    <2>4. AllFlags(Continue(q, "resources")) = {"resource"}
      BY <2>2, <2>3 DEF AllFlags
    <2>5. /\ Done(st, "csv") \in Stores /\ Done(st, "csv").fetching = st.fetching \ {"csv"}
          /\ Done(st, "csv").operator = st.operator /\ Done(st, "csv").resource = st.resource
      BY <1>0, FlagReducers
    <2>6. /\ ClientInv'
          /\ \A r \in requests' : \/ r \in (requests \ {q}) \union Continue(q, "resources")
                                 \/ r.kind \notin Installing
      BY <1>0, <1>7, <2>1, <2>3, <2>4, <2>5, AnsweredKeeps
    <2> QED BY <2>2, <2>6
  <1>8. CASE q.kind = "resources" /\ Answered(q, Done(st, "resource"), {})
    <2>1. FlagsOf(q.kind) = {"resource"}
      BY <1>8 DEF FlagsOf
    <2>2. /\ Done(st, "resource") \in Stores /\ Done(st, "resource").fetching = st.fetching \ {"resource"}
          /\ Done(st, "resource").operator = st.operator /\ Done(st, "resource").resource = st.resource
      BY <1>0, FlagReducers
    <2> QED BY <1>0, <1>8, <2>1, <2>2, AnsweredKeeps
  <1>9. CASE /\ q.kind = "csv_resource"
             /\ Answered(q, receiveCSV(st, OwnerOf(q.of)), Continue(q, "resource"))
    <2>1. GoesOn(q.kind, "resource") /\ OwnerOf(q.of) \in Ops
      BY <1>0, <1>9, OperatorsConstants DEF GoesOn, WellFormed, ForInstance
    <2>2. /\ Continue(q, "resource") # {}
          /\ \A r \in Continue(q, "resource") : r.kind = "resource"
      BY <1>0, <2>1, GoesOnFacts DEF Continue
    <2>3. FlagsOf(q.kind) = {"csv", "resource"} /\ FlagsOf("resource") = {"resource"}
      BY <1>9 DEF FlagsOf
    <2>4. AllFlags(Continue(q, "resource")) = {"resource"}
      BY <2>2, <2>3 DEF AllFlags
    <2>6. /\ ClientInv'
          /\ \A r \in requests' : \/ r \in (requests \ {q}) \union Continue(q, "resource")
                                 \/ r.kind \notin Installing
      BY <1>0, <1>4, <1>9, <2>1, <2>2, <2>3, <2>4, AnsweredKeeps
    <2> QED BY <2>2, <2>6
  <1>10. CASE /\ q.kind = "resource" /\ server[q.of] > 0
              /\ Answered(q, receiveCustomResource(st, Resource(q.of)), {})
    <2>1. Resource(q.of) \in Resources /\ Resource(q.of).of = q.of /\ q.of \in Instances
      BY <1>0, <1>10 DEF WellFormed, ForInstance, Resources, Resource, Inv, ClusterInv
    <2>2. FlagsOf(q.kind) = {"resource"}
      BY <1>10 DEF FlagsOf
    <2>3. /\ receiveCustomResource(st, Resource(q.of)) \in Stores
          /\ receiveCustomResource(st, Resource(q.of)).fetching = st.fetching \ {"resource"}
          /\ receiveCustomResource(st, Resource(q.of)).operator = st.operator
          /\ receiveCustomResource(st, Resource(q.of)).resource = Resource(q.of)
      BY <1>0, <2>1 DEF Stores, receiveCustomResource, Done
    <2> QED BY <1>0, <1>10, <2>1, <2>2, <2>3, AnsweredKeeps
  <1> QED BY <1>1, <1>2, <1>3, <1>5, <1>6, <1>7, <1>8, <1>9, <1>10 DEF Read

-----------------------------------------------------------------------------
(* What the user does *)

LEMMA VisitKeeps ==
    ASSUME ClientInv, NEW p \in Pages, Visit(p) \/ setNamespace
    PROVE  /\ ClientInv'
           /\ \A q \in requests' : q \in requests \/ q.kind \notin Installing
  <1>0. st \in Stores /\ st.fetching \subseteq AllFlags(requests) /\ requests \in SUBSET requests
    BY DEF ClientInv, NoEndlessSpinner
  <1>1. CASE Visit(p)
    BY <1>0, <1>1, EnterKeeps DEF Visit
  <1>2. CASE setNamespace
    <2>1. AppList \in Pages
      BY DEF Pages
    <2>2. /\ setNamespaceState(st) \in Stores
          /\ setNamespaceState(st).fetching \subseteq AllFlags(requests)
      BY <1>0, Locations
    <2> QED BY <1>0, <1>2, <2>1, <2>2, EnterKeeps DEF setNamespace
  <1> QED BY <1>1, <1>2

(* A write from a loaded page. *)
LEMMA SendKeeps ==
    ASSUME ClientInv, NEW kind \in Installing \union Writing, NEW of, NEW body,
           Send(Write(kind, of, body)),
           kind \in Installing => of \in Ops,
           kind \in Writing => of \in Instances,
           Loaded => CASE kind = "update" -> body.of = page.of
                       [] kind = "create" -> OwnerOf(of) = page.of
                       [] OTHER -> of = page.of,
           ui' \in Components, ui'.values = ui.values
    PROVE  ClientInv'
  <1> DEFINE q == Write(kind, of, body)
  <1>1. /\ q.kind = kind /\ q.of = of /\ q.visit = visit /\ q.from = page /\ q.body = body
        /\ q.sure = Loaded
    BY DEF Write
  <1>2. WellFormed(q)
    <2>1. Loaded \in BOOLEAN
      BY DEF Loaded
    <2> QED BY <2>1 DEF Write, WellFormed, ClientInv, Kinds, Installing, Writing, ForOperator, ForInstance
  <1>3. /\ requests' = requests \union {q} /\ st' = Fetching(st, FlagsOf(kind))
        /\ page' = page /\ visit' = visit /\ late' = late
    BY <1>1 DEF Send
  <1> HIDE DEF q
  <1>4. /\ st' \in Stores /\ st'.fetching = st.fetching \union FlagsOf(kind)
        /\ st'.operator = st.operator /\ st'.resource = st.resource
    BY <1>3, FlagsAreFlags, FlagReducers DEF ClientInv
  <1>5. NoEndlessSpinner'
    BY <1>1, <1>3, <1>4, FlagFacts DEF NoEndlessSpinner, ClientInv
  <1>6. ActsOnItsPage'
    BY <1>1, <1>3 DEF ActsOnItsPage, ClientInv, PageInv
  <1>7. \A r \in requests' : AsksForItsPage(r)'
    BY <1>1, <1>3 DEF AsksForItsPage, ClientInv, PageInv, Installing, Writing, ForInstance
  <1>8. HoldsItsPage => HoldsItsPage'
    <2>1. \A kinds : Awaits(kinds) => Awaits(kinds)'
      BY <1>3 DEF Awaits
    <2> QED BY <1>3, <1>4, <2>1 DEF HoldsItsPage
  <1>9. \A r \in requests' : WellFormed(r) /\ r.visit <= visit'
    BY <1>1, <1>2, <1>3 DEF ClientInv
  <1> QED BY <1>3, <1>4, <1>5, <1>6, <1>7, <1>8, <1>9 DEF ClientInv, PageInv

(* Nothing is sent: a button, a dialog, or a click that fails at once. *)
LEMMA ClickKeeps ==
    ASSUME ClientInv, st' = st \/ st' = Error(st, "resource", "delete"),
           ui' \in Components, ui'.values = ui.values, UNCHANGED <<page, visit, requests, late>>
    PROVE  ClientInv'
  <1>1. /\ st' \in Stores /\ st'.fetching \subseteq st.fetching
        /\ st'.operator = st.operator /\ st'.resource = st.resource
    BY ErrorFacts DEF ClientInv, Outcomes
  <1>2. NoEndlessSpinner' /\ ActsOnItsPage' /\ \A r \in requests' : AsksForItsPage(r)'
    BY <1>1 DEF ClientInv, PageInv, NoEndlessSpinner, ActsOnItsPage, AsksForItsPage
  <1>3. HoldsItsPage => HoldsItsPage'
    BY <1>1 DEF HoldsItsPage, Awaits
  <1> QED BY <1>1, <1>2, <1>3 DEF ClientInv, PageInv

LEMMA LoadedHolds ==
    ASSUME ClientInv, Loaded
    PROVE  /\ page.at = "new" => st.operator \in {None, page.of}
           /\ page.at = "instance" /\ st.resource # None => st.resource.of = page.of
           /\ page.at = "update" /\ st.resource # None /\ ui.values # None =>
                 ui.values.of = page.of
  BY DEF ClientInv, PageInv, HoldsItsPage, Awaits, Loaded

-----------------------------------------------------------------------------
(* OperatorGroups *)

LEMMA GroupsKept ==
    ASSUME ClusterInv, UNCHANGED <<groups, subs, overlapped>>,
           \A q \in requests' : q \in requests \/ q.kind \notin Installing
    PROVE  GroupInv'
  <1>1. GroupPerNamespace'
    BY DEF ClusterInv, GroupInv, GroupPerNamespace
  <1>2. \A q \in requests' : /\ q.kind \in {"groups", "group"} => q.body = FALSE
                             /\ q.kind = "subscribe" /\ q.body = FALSE => groups' > 0
    BY DEF ClusterInv, GroupInv, Installing
  <1>3. ~overlapped' =>
           /\ \A q, r \in requests' : {q.kind, r.kind} \subseteq Installing => q = r
           /\ \A q \in requests' : q.kind = "group" => groups' = 0
    BY DEF ClusterInv, GroupInv, Installing
  <1> QED BY <1>1, <1>2, <1>3 DEF GroupInv

LEMMA DeployOperatorKeeps ==
    ASSUME Inv, DeployOperator
    PROVE  Inv'
  <1> DEFINE q == Write(FirstStep, st.operator, ui.global)
  <1>1. /\ page.at = "new" /\ st.operator # None /\ Send(q) /\ ui' = ui
        /\ overlapped' = (overlapped \/ Creating) /\ UNCHANGED cluster
    BY DEF DeployOperator, OperatorFormShown, Send
  <1>2. FirstStep \in Installing /\ st.operator \in Ops /\ ui.global \in BOOLEAN
    BY <1>1 DEF FirstStep, Installing, Inv, ClientInv, Stores, Components
  <1>3. ClientInv'
    <2>1. Loaded => st.operator = page.of
      BY <1>1, LoadedHolds DEF Inv
    <2>2. FirstStep \notin {"update", "create"} /\ FirstStep \notin Writing
      BY DEF FirstStep, Writing
    <2>3. ui' \in Components /\ ui'.values = ui.values
      BY <1>1 DEF Inv, ClientInv
    <2> QED BY <1>1, <1>2, <2>1, <2>2, <2>3, SendKeeps DEF Inv
  <1>4. requests' = requests \union {q} /\ q.kind = FirstStep /\ q.body = ui.global
    BY <1>1 DEF Send, Write
  <1> HIDE DEF q
  <1>5. /\ FirstStep = "groups" => ui.global = FALSE
        /\ FirstStep = "subscribe" => ui.global = TRUE
        /\ FirstStep # "group"
    BY <1>2 DEF FirstStep
  <1>6. GroupInv'
    <2>1. GroupPerNamespace'
      BY <1>1, <1>2 DEF Inv, ClusterInv, GroupInv, GroupPerNamespace, cluster
    <2>2. \A r \in requests' : /\ r.kind \in {"groups", "group"} => r.body = FALSE
                               /\ r.kind = "subscribe" /\ r.body = FALSE => groups' > 0
      <3>1. \A r \in requests : /\ r.kind \in {"groups", "group"} => r.body = FALSE
                                /\ r.kind = "subscribe" /\ r.body = FALSE => groups' > 0
        BY <1>1 DEF Inv, ClusterInv, GroupInv, cluster
      <3>2. /\ q.kind \in {"groups", "group"} => q.body = FALSE
            /\ ~(q.kind = "subscribe" /\ q.body = FALSE)
        BY <1>4, <1>5
      <3> QED BY <1>4, <3>1, <3>2
    <2>3. ~overlapped' =>
             /\ \A t, r \in requests' : {t.kind, r.kind} \subseteq Installing => t = r
             /\ \A r \in requests' : r.kind = "group" => groups' = 0
      <3> SUFFICES ASSUME ~overlapped'
                   PROVE  /\ \A t, r \in requests' : {t.kind, r.kind} \subseteq Installing => t = r
                          /\ \A r \in requests' : r.kind = "group" => groups' = 0
        OBVIOUS
      <3>1. \A r \in requests : r.kind \notin Installing
        BY <1>1 DEF Creating, Installing
      <3> QED BY <1>4, <1>5, <3>1 DEF Installing
    <2> QED BY <2>1, <2>2, <2>3 DEF GroupInv
  <1>7. overlapped' \in BOOLEAN
    BY <1>1
  <1> QED BY <1>1, <1>3, <1>6, <1>7 DEF Inv, ClusterInv, cluster

LEMMA CreateOperatorKeeps ==
    ASSUME Inv, NEW q \in requests, CreateOperator(q)
    PROVE  Inv'
  <1>0. WellFormed(q) /\ ClientInv /\ GroupInv /\ overlapped' = overlapped /\ groups \in Nat
    BY DEF Inv, ClientInv, ClusterInv, CreateOperator
  <1>1. ASSUME NEW next, GoesOn(q.kind, next), q.kind \in {"groups", "group"},
               Answered(q, st, Continue(q, next))
        PROVE  /\ ClientInv'
               /\ \A r \in requests' : \/ r \in requests /\ r # q
                                      \/ /\ r \in Continue(q, next)
                                         /\ r.kind = next /\ r.body = q.body
                                      \/ r.kind \notin Installing
    <2>1. st \in Stores /\ q.kind \notin Writing
      BY <1>0, <1>1 DEF ClientInv, Writing
    <2>2. Continue(q, next) # {} /\ \A r \in Continue(q, next) : r.kind = next /\ r.body = q.body
      BY <1>0, <1>1, GoesOnFacts DEF Continue
    <2>3. FlagsOf(q.kind) = {"operator"} /\ FlagsOf(next) = {"operator"}
      BY <1>1 DEF FlagsOf, GoesOn
    <2>4. AllFlags(Continue(q, next)) = {"operator"}
      BY <2>2, <2>3 DEF AllFlags
    <2>5. /\ ClientInv'
          /\ \A r \in requests' : \/ r \in (requests \ {q}) \union Continue(q, next)
                                 \/ r.kind \notin Installing
      BY <1>0, <1>1, <2>1, <2>2, <2>3, <2>4, AnsweredKeeps
    <2> QED BY <2>2, <2>5
  <1>2. CASE /\ q.kind = "groups" /\ UNCHANGED cluster
             /\ Answered(q, st, Continue(q, AfterGroups(groups)))
    <2>1. /\ GoesOn(q.kind, AfterGroups(groups))
          /\ AfterGroups(groups) = "group" => groups = 0
          /\ AfterGroups(groups) = "subscribe" => groups > 0
          /\ AfterGroups(groups) \in {"group", "subscribe"}
      BY <1>0, <1>2 DEF GoesOn, AfterGroups
    <2>2. /\ ClientInv'
          /\ \A r \in requests' : \/ r \in requests /\ r # q
                                 \/ /\ r \in Continue(q, AfterGroups(groups))
                                    /\ r.kind = AfterGroups(groups) /\ r.body = q.body
                                 \/ r.kind \notin Installing
      BY <1>1, <1>2, <2>1
    <2>3. q.body = FALSE
      BY <1>0, <1>2 DEF GroupInv
    <2>4. GroupPerNamespace'
      BY <1>0, <1>2 DEF GroupInv, GroupPerNamespace, cluster
    <2>5. \A r \in requests' : /\ r.kind \in {"groups", "group"} => r.body = FALSE
                               /\ r.kind = "subscribe" /\ r.body = FALSE => groups' > 0
      BY <1>0, <1>2, <2>1, <2>2, <2>3 DEF GroupInv, Installing, cluster
    <2>6. ~overlapped' =>
             /\ \A t, r \in requests' : {t.kind, r.kind} \subseteq Installing => t = r
             /\ \A r \in requests' : r.kind = "group" => groups' = 0
      <3> SUFFICES ASSUME ~overlapped'
                   PROVE  /\ \A t, r \in requests' : {t.kind, r.kind} \subseteq Installing => t = r
                          /\ \A r \in requests' : r.kind = "group" => groups' = 0
        OBVIOUS
      <3>1. \A r \in requests : r # q => r.kind \notin Installing
        BY <1>0, <1>2 DEF GroupInv, Installing
      <3>2. \A t, r \in Continue(q, AfterGroups(groups)) : t = r
        BY DEF Continue
      <3> QED BY <1>2, <2>1, <2>2, <3>1, <3>2 DEF Installing, cluster
    <2> QED BY <1>0, <1>2, <2>2, <2>4, <2>5, <2>6 DEF Inv, ClusterInv, GroupInv, cluster
  <1>3. CASE /\ q.kind = "group" /\ groups' = groups + 1 /\ UNCHANGED <<server, subs>>
             /\ Answered(q, st, Continue(q, "subscribe"))
    <2>1. GoesOn(q.kind, "subscribe")
      BY <1>3 DEF GoesOn
    <2>2. /\ ClientInv'
          /\ \A r \in requests' : \/ r \in requests /\ r # q
                                 \/ /\ r \in Continue(q, "subscribe")
                                    /\ r.kind = "subscribe" /\ r.body = q.body
                                 \/ r.kind \notin Installing
      BY <1>1, <1>3, <2>1
    <2>3. q.body = FALSE /\ groups' > 0
      BY <1>0, <1>3 DEF GroupInv
    <2>4. GroupPerNamespace'
      <3>1. ~overlapped => groups = 0
        BY <1>0, <1>3 DEF GroupInv
      <3>2. overlapped \/ ~(groups' > 1)
        BY <1>0, <1>3, <3>1
      <3>3. groups' > 1 => overlapped'
        BY <1>0, <3>2
      <3> QED BY <2>3, <3>3 DEF GroupPerNamespace
    <2>5. \A r \in requests' : /\ r.kind \in {"groups", "group"} => r.body = FALSE
                               /\ r.kind = "subscribe" /\ r.body = FALSE => groups' > 0
      BY <1>0, <2>2, <2>3 DEF GroupInv, Installing
    <2>6. ~overlapped' =>
             /\ \A t, r \in requests' : {t.kind, r.kind} \subseteq Installing => t = r
             /\ \A r \in requests' : r.kind = "group" => groups' = 0
      <3> SUFFICES ASSUME ~overlapped'
                   PROVE  /\ \A t, r \in requests' : {t.kind, r.kind} \subseteq Installing => t = r
                          /\ \A r \in requests' : r.kind = "group" => groups' = 0
        OBVIOUS
      <3>1. \A r \in requests : r # q => r.kind \notin Installing
        BY <1>0, <1>3 DEF GroupInv, Installing
      <3>2. \A t, r \in Continue(q, "subscribe") : t = r
        BY DEF Continue
      <3> QED BY <2>2, <3>1, <3>2 DEF Installing
    <2> QED BY <1>0, <1>3, <2>2, <2>4, <2>5, <2>6 DEF Inv, ClusterInv, GroupInv
  <1>4. CASE /\ q.kind = "subscribe" /\ subs' = subs \union {<<q.of, q.body>>}
             /\ NavigateTo(Page("list", None), Done(st, "operator"), requests \ {q})
             /\ UNCHANGED <<server, groups>>
    <2>1. Page("list", None) \in Pages /\ FlagsOf(q.kind) = {"operator"} /\ q.kind \in Installing
      BY <1>4 DEF Pages, FlagsOf, Installing
    <2>2. /\ ClientInv'
          /\ \A r \in requests' : (r \in requests /\ r # q) \/ r.kind \notin Installing
      BY <1>0, <1>4, <2>1, NavigateKeeps
    <2>3. GroupPerNamespace'
      BY <1>0, <1>4 DEF GroupInv, GroupPerNamespace
    <2>4. \A r \in requests' : /\ r.kind \in {"groups", "group"} => r.body = FALSE
                               /\ r.kind = "subscribe" /\ r.body = FALSE => groups' > 0
      BY <1>0, <1>4, <2>2 DEF GroupInv, Installing
    <2>5. ~overlapped' =>
             /\ \A t, r \in requests' : {t.kind, r.kind} \subseteq Installing => t = r
             /\ \A r \in requests' : r.kind = "group" => groups' = 0
      BY <1>0, <1>4, <2>2 DEF GroupInv, Installing
    <2> QED BY <1>0, <1>4, <2>2, <2>3, <2>4, <2>5 DEF Inv, ClusterInv, GroupInv
  <1> QED BY <1>2, <1>3, <1>4 DEF CreateOperator

-----------------------------------------------------------------------------
LEMMA InitHolds == Init => Inv
  <1> SUFFICES ASSUME Init
               PROVE  Inv
    OBVIOUS
  <1>1. AppList \in Pages /\ AppList.at = "apps" /\ AppList.of = None
    BY DEF Pages, AppList, Page
  <1>2. requests = {Request("csvs_resources", None, 0)}
    BY <1>1 DEF Init, PageRequests, Reads
  <1>3. \A q \in requests : WellFormed(q) /\ q.kind = "csvs_resources" /\ q.from = None /\ q.visit = 0
    <2>1. /\ "csvs_resources" \in Kinds /\ "csvs_resources" \notin ForOperator \union Installing
          /\ "csvs_resources" \notin ForInstance \union Writing
      BY DEF Kinds, ForNothing, ForOperator, ForInstance, Installing, Writing
    <2> QED BY <1>2, <2>1, RequestFacts
  <1>4. initialState \in Stores /\ initialState.fetching = {}
    BY DEF initialState, Stores, NoErrors
  <1>5. st \in Stores /\ st.fetching = {"csv", "resource"}
    BY <1>4, FlagReducers DEF Init, Flags
  <1>6. NoEndlessSpinner
    <2>1. FlagsOf("csvs_resources") = {"csv", "resource"}
      BY DEF FlagsOf
    <2> QED BY <1>2, <1>3, <1>5, <2>1, FlagFacts DEF NoEndlessSpinner
  <1>7. ui \in Components
    BY DEF Init, NoState, Components
  <1>8. PageInv
    BY <1>1, <1>3 DEF Init, PageInv, ActsOnItsPage, AsksForItsPage, HoldsItsPage, ForInstance
  <1>9. ClusterInv
    <2>1. server \in [Instances -> Nat] /\ groups = 0 /\ subs = {} /\ overlapped = FALSE
      BY DEF Init
    <2>2. GroupPerNamespace
      BY <2>1 DEF GroupPerNamespace
    <2>3. \A q, r \in requests : q = r
      BY <1>2
    <2>4. GroupInv
      BY <1>3, <2>1, <2>2, <2>3 DEF GroupInv, Installing
    <2> QED BY <2>1, <2>4 DEF ClusterInv
  <1>10. page \in Pages /\ visit = 0 /\ late = FALSE
    BY <1>1 DEF Init
  <1>11. visit \in Nat /\ \A q \in requests : q.visit <= visit
    BY <1>3, <1>10
  <1>12. late \in BOOLEAN
    BY <1>10
  <1> QED BY <1>3, <1>5, <1>6, <1>7, <1>8, <1>9, <1>10, <1>11, <1>12 DEF Inv, ClientInv

LEMMA UserKeeps ==
    ASSUME Inv, User
    PROVE  Inv'
  <1>0. ClientInv /\ ui \in Components
    BY DEF Inv, ClientInv
  <1>c. ASSUME ClientInv', UNCHANGED <<cluster, overlapped>>,
               \A q \in requests' : q \in requests \/ q.kind \notin Installing
        PROVE  Inv'
    BY <1>c, GroupsKept DEF Inv, ClusterInv, cluster
  <1>s. ASSUME NEW kind \in Writing, NEW of, NEW body, Send(Write(kind, of, body))
        PROVE  \A q \in requests' : q \in requests \/ q.kind \notin Installing
    BY <1>s DEF Send, Write, Writing, Installing
  <1>1. ASSUME NEW p \in Pages, Visit(p) \/ setNamespace
        PROVE  Inv'
    BY <1>0, <1>1, <1>c, VisitKeeps DEF Visit, setNamespace
  <1>2. CASE setInstallationMode
    <2>1. ui' \in Components /\ ui'.values = ui.values
      BY <1>0, <1>2 DEF setInstallationMode, Components
    <2> QED BY <1>0, <1>2, <1>c, <2>1, ClickKeeps DEF setInstallationMode
  <1>3. CASE DeployOperator
    BY <1>3, DeployOperatorKeeps
  <1>4. CASE UpdateInstance
    <2>1. /\ page.at = "update" /\ st.resource # None /\ ui.values # None /\ ui' = ui
          /\ Send(Write("update", page.of, ui.values)) /\ UNCHANGED <<cluster, overlapped>>
      BY <1>4 DEF UpdateInstance, Send
    <2>2. page.of \in Instances /\ "update" \in Writing /\ "update" \notin Installing
      BY <1>0, <2>1, PageFacts DEF ClientInv, Writing, Installing
    <2>3. Loaded => ui.values.of = page.of
      BY <1>0, <2>1, LoadedHolds
    <2>4. ClientInv'
      BY <1>0, <2>1, <2>2, <2>3, SendKeeps
    <2> QED BY <1>c, <1>s, <2>1, <2>2, <2>4
  <1>5. CASE openModal \/ closeModal
    <2>1. ui' \in Components /\ ui'.values = ui.values
      BY <1>0, <1>5 DEF openModal, closeModal, Components
    <2> QED BY <1>0, <1>5, <1>c, <2>1, ClickKeeps DEF openModal, closeModal
  <1>6. CASE handleDeleteClick
    <2>0. page.at = "instance" /\ UNCHANGED <<cluster, overlapped>>
      BY <1>6 DEF handleDeleteClick, ButtonsShown, Send
    <2>1. CASE ui.crd /\ st.resource # None
      <3>1. Send(Write("delete", Target, None)) /\ ui' = [ui EXCEPT !.deleting = TRUE]
        BY <1>6, <2>1 DEF handleDeleteClick
      <3>2. Target \in Instances /\ "delete" \in Writing /\ "delete" \notin Installing
        BY <1>0, <2>1 DEF ClientInv, Target, Stores, Resources, Writing, Installing
      <3>3. Loaded => Target = page.of
        BY <1>0, <2>0, <2>1, LoadedHolds DEF Target
      <3>4. ui' \in Components /\ ui'.values = ui.values
        BY <1>0, <3>1 DEF Components
      <3>5. ClientInv'
        BY <1>0, <3>1, <3>2, <3>3, <3>4, SendKeeps
      <3> QED BY <1>c, <1>s, <2>0, <3>1, <3>2, <3>5
    <2>2. CASE ~(ui.crd /\ st.resource # None)
      <3>1. /\ st' = st \/ st' = Error(st, "resource", "delete")
            /\ ui' = [ui EXCEPT !.modal = FALSE] \/ ui' = [ui EXCEPT !.deleting = TRUE]
            /\ UNCHANGED <<page, visit, requests, late>>
        BY <1>6, <2>2 DEF handleDeleteClick
      <3>2. ui' \in Components /\ ui'.values = ui.values
        BY <1>0, <3>1 DEF Components
      <3> QED BY <1>0, <1>c, <2>0, <3>1, <3>2, ClickKeeps
    <2> QED BY <2>1, <2>2
  <1>7. ASSUME NEW x \in Instances, DeployInstance(x)
        PROVE  Inv'
    <2>1. /\ OwnerOf(x) = page.of /\ ui' = ui
          /\ Send(Write("create", x, None)) /\ UNCHANGED <<cluster, overlapped>>
      BY <1>7 DEF DeployInstance, Send
    <2>2. "create" \in Writing /\ "create" \notin Installing
      BY DEF Writing, Installing
    <2>3. ClientInv'
      BY <1>0, <2>1, <2>2, SendKeeps
    <2> QED BY <1>c, <1>s, <2>1, <2>2, <2>3
  <1>8. AppList \in Pages
    BY DEF Pages
  <1> QED BY <1>1, <1>2, <1>3, <1>4, <1>5, <1>6, <1>7, <1>8 DEF User

LEMMA WriteInstanceKeeps ==
    ASSUME Inv, NEW q \in requests, WriteInstance(q)
    PROVE  Inv'
  <1>1. q.kind \in Writing /\ WellFormed(q) /\ q.of \in Instances
    BY DEF WriteInstance, Accepted, Writing, Inv, ClientInv, WellFormed
  <1>2. AfterWrite(q) \in Pages /\ FlagsOf(q.kind) = {"resource"}
    BY <1>1 DEF AfterWrite, Pages, FlagsOf, Writing
  <1>3. /\ ClientInv'
        /\ \A r \in requests' : (r \in requests /\ r # q) \/ r.kind \notin Installing
    BY <1>1, <1>2, NavigateKeeps DEF WriteInstance, Inv
  <1>4. GroupInv'
    BY <1>3, GroupsKept DEF WriteInstance, Inv
  <1>5. server' \in [Instances -> Nat]
    BY <1>1 DEF WriteInstance, Inv, ClusterInv
  <1> QED BY <1>3, <1>4, <1>5 DEF WriteInstance, Inv, ClusterInv

LEMMA NextKeeps == Inv /\ [Next]_vars => Inv'
  <1> SUFFICES ASSUME Inv, [Next]_vars
               PROVE  Inv'
    OBVIOUS
  <1>1. CASE User
    BY <1>1, UserKeeps
  <1>2. ASSUME NEW q \in requests, Answer(q)
        PROVE  Inv'
    <2>1. CASE Read(q)
      BY <2>1, ReadKeeps, GroupsKept DEF Read, Inv, ClusterInv, cluster
    <2>2. CASE CreateOperator(q)
      BY <2>2, CreateOperatorKeeps
    <2>3. CASE WriteInstance(q)
      BY <2>3, WriteInstanceKeeps
    <2>4. CASE Fail(q)
      BY <2>4, FailKeeps, GroupsKept DEF Fail, Inv, ClusterInv, cluster
    <2> QED BY <1>2, <2>1, <2>2, <2>3, <2>4 DEF Answer
  <1>3. ASSUME NEW x \in Instances, ChangedElsewhere(x)
        PROVE  Inv'
    <2>1. server' \in [Instances -> Nat]
      BY <1>3 DEF ChangedElsewhere, Inv, ClusterInv
    <2>2. ClientInv' /\ GroupInv'
      BY <1>3 DEF ChangedElsewhere, Inv, ClusterInv, ClientInv, GroupInv, PageInv, GroupPerNamespace,
                  ActsOnItsPage, AsksForItsPage, HoldsItsPage, Awaits, NoEndlessSpinner
    <2> QED BY <1>3, <2>1, <2>2 DEF ChangedElsewhere, Inv, ClusterInv
  <1>4. CASE UNCHANGED vars
    BY <1>4 DEF vars, cluster, Inv, ClusterInv, ClientInv, GroupInv, PageInv, GroupPerNamespace,
                ActsOnItsPage, AsksForItsPage, HoldsItsPage, Awaits, NoEndlessSpinner
  <1> QED BY <1>1, <1>2, <1>3, <1>4 DEF Next

(* For any operators and instances: requests ask for what their page       *)
(* names, a page that no late answer reached holds it, every flag that is  *)
(* up has a request that lowers it, and the requests of createOperator     *)
(* keep one OperatorGroup.                                                 *)
THEOREM OperatorsInvariant == Spec => []Inv
  BY InitHolds, NextKeeps, PTL DEF Spec

(* The flags of the operators slice come down on every path through its    *)
(* thunks: no page waits for an answer that nobody sends.                  *)
THEOREM SpinnersEnd == Spec => []NoEndlessSpinner
  <1>1. Inv => NoEndlessSpinner
    BY DEF Inv, ClientInv
  <1> QED BY <1>1, OperatorsInvariant, PTL

(* createOperator leaves a namespace with the OperatorGroup that its       *)
(* subscriptions need, and with one, if it runs once at a time.            *)
THEOREM OneGroupPerNamespace == Spec => []GroupPerNamespace
  <1>1. Inv => GroupPerNamespace
    BY DEF Inv, ClusterInv, GroupInv
  <1> QED BY <1>1, OperatorsInvariant, PTL

(* What a loaded page creates, updates or deletes is what its URL names.   *)
THEOREM WritesToItsPage == Spec => []ActsOnItsPage
  <1>1. Inv => ActsOnItsPage
    BY DEF Inv, ClientInv, PageInv
  <1> QED BY <1>1, OperatorsInvariant, PTL

=============================================================================
