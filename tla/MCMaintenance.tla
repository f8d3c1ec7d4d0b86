---------------------------- MODULE MCMaintenance ----------------------------
(* Model values for Maintenance: an event past the cutoff and a recent one, *)
(* and two shells.                                                          *)
EXTENDS Maintenance, TLC

CONSTANTS old, recent, s1, s2

Shells == Permutations({s1, s2})
=============================================================================
