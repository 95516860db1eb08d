------------------------------- MODULE MCKube -------------------------------
EXTENDS KubeResources

CONSTANTS dep, sts, ing

MCKeys == {dep, sts, ing}
MCIngresses == {ing}
MCWorkloads == {dep, sts}
MCManifests == {{ing}, {dep, sts}}

(* The Deployment is one pod short but for its second version; the         *)
(* StatefulSet is complete, and rolls over with a pod too many in its      *)
(* second version.                                                         *)
MCPods ==
    [k \in MCWorkloads |->
        [v \in 1..MaxVersion |->
            IF k = dep THEN [ready |-> IF v = 2 THEN 1 ELSE 0, wanted |-> 1]
            ELSE [ready |-> IF v = 2 THEN 2 ELSE 1, wanted |-> 1]]]

=============================================================================
