---------------------------- MODULE MCAttention ------------------------------
(* Instances of Attention for TLC. *)
EXTENDS Attention, TLC

CONSTANTS a, b, r1, r2

Alike == Permutations(Agents) \cup Permutations(Requests)

=============================================================================
