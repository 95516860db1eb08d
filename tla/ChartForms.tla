----------------------------- MODULE ChartForms -----------------------------
(***************************************************************************)
(* ReleaseForms under names that do not occur in Catalog.  Both model a    *)
(* part of the dashboard's charts slice, with state of their own; here the *)
(* forms get names that let ChartsProofs speak of both.                    *)
(***************************************************************************)
EXTENDS Naturals

CONSTANTS Versions, Chart(_), Number(_), NoValues, Null, MaxVisits, MaxFormRequests, MaxFormFaults

VARIABLES
    formPage, visit, fetching, sel, deployed, ours, form, formRequests, submits, tainted, formFaults

For == INSTANCE ReleaseForms
         WITH page <- formPage, requests <- formRequests, faults <- formFaults,
              None <- Null, MaxRequests <- MaxFormRequests, MaxFaults <- MaxFormFaults

ASSUME FormAssumption == For!FormConstants

FormsSpec == For!Spec

(* See ReleaseForms: a form sends a version of its own chart.              *)
DeploysOwnChart == For!DeploysOwnChart

(* See ReleaseForms: the values sent are those of the version sent.        *)
ValuesFollowVersion == For!ValuesFollowVersion

(* See ReleaseForms: an upgrade carries the release's modifications.       *)
ModificationsSurvive == For!ModificationsSurvive

(* See ReleaseForms: the effects do not take away what the user typed.     *)
TypingSurvives == For!TypingSurvives

=============================================================================
