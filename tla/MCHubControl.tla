---------------------------- MODULE MCHubControl ----------------------------
(* Instances of HubControl for TLC. *)
EXTENDS HubControl, TLC

CONSTANTS h1, h2, x, r1, r2

\* h1 comes back from an outage running agent 1 as x; nothing else runs.
H1RunsX == [h \in Hosts |-> [n \in Names |-> IF h = h1 /\ n = x THEN 1 ELSE None]]
NothingRestored == [h \in Hosts |-> [n \in Names |-> None]]

Once == [h \in Hosts |-> 1]
Twice == [h \in Hosts |-> 2]

RequestSymmetry == Permutations(Requests)
=============================================================================
