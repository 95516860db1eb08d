------------------------------ MODULE MCCatalog ------------------------------
EXTENDS Catalog

CONSTANTS c1, c2, c3, r1, r2, ns1

MCCharts == {c1, c2, c3}
MCRepoOf(c) == IF c = c2 THEN r2 ELSE r1
MCNamespaces == {ns1}
MCRepoFilters == {{}, {r2}}

(* One chart on a page: the search finds c1 and c3. *)
MCFound(scope, repos) ==
    SelectSeq(<<{c1}, {c2}, {c3}>>,
              LAMBDA p : \A c \in p : /\ scope.search = "" \/ c # c2
                                      /\ repos = {} \/ MCRepoOf(c) \in repos)

=============================================================================
