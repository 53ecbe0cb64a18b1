---------------------------- MODULE MCLaunchPanel ----------------------------
(* LaunchPanel on small instances: two calls interleaved, and an old and a *)
(* new session.                                                            *)
EXTENDS LaunchPanel, TLC

Symmetry == Permutations(Flows) \cup Permutations(LaunchSessions)
=============================================================================
