---------------------------- MODULE MCController ----------------------------
(***************************************************************************)
(* AppRepoController for TLC: one repository in Kubeapps' namespace and,   *)
(* where a run asks for it, one in another namespace.                      *)
(***************************************************************************)
EXTENDS AppRepoController

=============================================================================
