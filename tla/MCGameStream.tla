---------------------------- MODULE MCGameStream ----------------------------
(* GameStream on small instances: two handlers at once, each of which may  *)
(* launch, cancel or probe again and again, and an old and a new session.  *)
EXTENDS SessionRefinement
=============================================================================
