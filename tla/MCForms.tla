------------------------------ MODULE MCForms ------------------------------
EXTENDS ChartForms

CONSTANTS a1, a2, b1

\* Two versions of one chart, and a chart whose version has no values file.
MCChart(x) == IF x = b1 THEN "b" ELSE "a"
MCNumber(x) == IF x = a2 THEN 2 ELSE 1

=============================================================================
