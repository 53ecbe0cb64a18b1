--------------------------- MODULE MCPairingPanel ---------------------------
(* PairingPanel on small instances: two calls interleaved, one PIN.        *)
EXTENDS PairingPanel
=============================================================================
