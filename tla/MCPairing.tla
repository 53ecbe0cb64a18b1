----------------------------- MODULE MCPairing -----------------------------
(* Pairing on small instances: two runs, so that one may be overtaken and  *)
(* the other replace it, two handlers, and a right and a wrong PIN.        *)
EXTENDS PairingRefinement
=============================================================================
