---------------------------- MODULE MCSignaling -----------------------------
(* Signaling on small instances: two host candidates, so that one may be   *)
(* in the offer and the other sent before it, and two of the browser.      *)
EXTENDS Signaling
=============================================================================
