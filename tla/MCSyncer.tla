------------------------------ MODULE MCSyncer ------------------------------
(***************************************************************************)
(* AssetSyncer for TLC. The indexes include an empty one, one chart alone, *)
(* a chart with and without its older version, and two charts.             *)
(***************************************************************************)
EXTENDS AssetSyncer, TLC

CONSTANTS a, b      \* two charts

MCCharts == {a, b}

MCIndexes == {
    [stamp |-> 1, charts |-> [c \in MCCharts |-> {}]],
    [stamp |-> 2, charts |-> [c \in MCCharts |-> IF c = a THEN {1, 2} ELSE {}]],
    [stamp |-> 3, charts |-> [c \in MCCharts |-> IF c = a THEN {2} ELSE {1}]]}

(* No rule, and one that lets nothing of the second index through.         *)
MCRules == {MCCharts, {b}}

(* Fewer and smaller ones, for two Jobs.                                   *)
MCFewIndexes == {
    [stamp |-> 1, charts |-> [c \in MCCharts |-> IF c = a THEN {1, 2} ELSE {}]],
    [stamp |-> 2, charts |-> [c \in MCCharts |-> IF c = a THEN {} ELSE {1}]]}

JobSymmetry == Permutations(Jobs)
=============================================================================
