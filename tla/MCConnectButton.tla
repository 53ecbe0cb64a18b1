-------------------------- MODULE MCConnectButton ---------------------------
(* ConnectButton on small instances: four sessions, one that fails late,   *)
(* one it interferes with, and two after both.                             *)
EXTENDS ConnectButton
=============================================================================
