----------------------------- MODULE MCSession ------------------------------
(* The session protocol on small instances. *)
EXTENDS SessionRefinement

=============================================================================
