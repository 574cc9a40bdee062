-------------------------- MODULE MCRepositoryAdapter --------------------------
(* An instance of RepositoryAdapter for TLC.                                *)
EXTENDS RepositoryAdapter

CONSTANTS n1, n2

(* --nodes is given or not; the context is found or not, and names nodes    *)
(* or none.                                                                 *)
MCFlagNodes == { {}, {n1, n2} }
MCContextNodes == { NoNode, {}, {n1} }
=============================================================================
