----------------------------- MODULE MCScreens ------------------------------
(* Instances of Screens for TLC. *)
EXTENDS Screens, TLC

CONSTANTS v1, v2

Alike == Permutations(Viewers)

=============================================================================
