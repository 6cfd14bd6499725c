----------------------------- MODULE MCRootHubPort -----------------------------
(***************************************************************************)
(* RootHubPort for TLC: the constants are given in the .cfg files.          *)
(***************************************************************************)
EXTENDS RootHubPort
=============================================================================
