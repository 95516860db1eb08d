---------------------------- MODULE ResourceView ----------------------------
(***************************************************************************)
(* What the rows of a release page promise to the user, without sockets,   *)
(* timers, requests or a store: a row starts as a spinner or with what is  *)
(* already known, a spinner ends with data or an error, and a row that     *)
(* shows something never goes back to a spinner while the page is open.    *)
(* A page that changes hides its rows until its new release is there.      *)
(* When they come back, those that are requested again keep the promise;   *)
(* the others may be blank, of which nothing is promised but that what     *)
(* they show next is data or an error.                                     *)
(***************************************************************************)
CONSTANTS
    Keys,
    Requested   \* rows that are requested whenever they are shown

VARIABLE row    \* [Keys -> what its row shows]

Shows == {"data", "error"}
RowStates == {"none", "hidden", "spinner", "blank"} \union Shows

Init == row = [k \in Keys |-> "none"]

(* A page is opened with rows for S. *)
Open(S) ==
    /\ \A k \in Keys : row[k] = "none"
    /\ S # {}
    /\ \E f \in [S -> {"spinner"} \union Shows] :
         row' = [k \in Keys |-> IF k \in S THEN f[k] ELSE "none"]

Close ==
    /\ \E k \in Keys : row[k] # "none"
    /\ row' = [k \in Keys |-> "none"]

Hide == row' = [k \in Keys |-> IF row[k] = "none" THEN "none" ELSE "hidden"]

Return ==
    /\ \A k \in Keys : row[k] \in {"none", "hidden"}
    /\ row' \in [Keys -> RowStates \ {"hidden"}]
    /\ \A k \in Keys :
          /\ row'[k] = "none" <=> row[k] = "none"
          /\ k \in Requested => row'[k] # "blank"

(* The row gets something to show. *)
Settle(k) ==
    /\ row[k] \notin {"none", "hidden"}
    /\ \E r \in Shows : row' = [row EXCEPT ![k] = r]

Next ==
    \/ \E k \in Keys : Settle(k)
    \/ Close \/ Hide \/ Return
    \/ \E S \in SUBSET Keys : Open(S)

Spec == Init /\ [][Next]_row
FairSpec == Spec /\ \A k \in Keys : WF_row(row[k] = "spinner" /\ Settle(k))

=============================================================================
