--------------------------- MODULE MCPersistence ----------------------------
(* Persistence for TLC: two topics, two or three manifests.                *)
EXTENDS Persistence
=============================================================================
