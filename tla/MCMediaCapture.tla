--------------------------- MODULE MCMediaCapture ----------------------------
(* MediaCapture on small instances. A finished capture stops for good.     *)
EXTENDS MediaCapture
=============================================================================
