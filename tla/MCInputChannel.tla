--------------------------- MODULE MCInputChannel ---------------------------
(* InputChannel on small instances: one key, one button and one gamepad,   *)
(* which never meet in the code, with every reordering of their messages.  *)
EXTENDS InputChannel
=============================================================================
