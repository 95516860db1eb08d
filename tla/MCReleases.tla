----------------------------- MODULE MCReleases -----------------------------
EXTENDS ReleasePages

CONSTANTS r1, r2, ns1, ns2

\* Two releases of one name in two namespaces.
MCReleases == {r1, r2}
MCNamespace(r) == IF r = r1 THEN ns1 ELSE ns2
MCName(r) == "name"

\* One has a revision to go back to, the other none.
MCRevisions == {[r \in MCReleases |-> IF r = r1 THEN 2 ELSE 1]}

=============================================================================
