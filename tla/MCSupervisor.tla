---------------------------- MODULE MCSupervisor ----------------------------
(* Instances of Supervisor for TLC. *)
EXTENDS Supervisor, TLC

CONSTANTS x, y, o1, o2, k1

NameSymmetry == Permutations(Names)

=============================================================================
