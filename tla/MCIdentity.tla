---------------------------- MODULE MCIdentity ------------------------------
(* Identity on small instances: three processes, so that one may start     *)
(* beside another or after both, and an identity for each of them.         *)
EXTENDS Identity
=============================================================================
