---------------------------- MODULE MCMediaRelay ----------------------------
(* MediaRelay has no parameters: one session with and without the pattern. *)
EXTENDS MediaRelay
=============================================================================
