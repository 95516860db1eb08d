----------------------------- MODULE MCSession -----------------------------
EXTENDS Session

CONSTANTS u1, u2, main, second, other, m1, m2, s1, o1

\* Two users, the first with a namespace in his token; two clusters, the
\* first of which is called "default", and one that only a URL names.
MCTokenSpace(u) == IF u = u1 THEN m1 ELSE None
MCNames(c) == IF c = main THEN {m1, m2} ELSE IF c = second THEN {s1} ELSE {o1}

=============================================================================
