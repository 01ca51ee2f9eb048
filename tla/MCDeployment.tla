---------------------------- MODULE MCDeployment ----------------------------
(* Instances of Deployment for TLC: two daemons, the second with one call. *)
EXTENDS Deployment, TLC

CONSTANTS c1, c2, c3, p1, p2

TwoHosts == [c \in Call |-> IF c = c3 THEN p2 ELSE p1]

\* The calls of one daemon are interchangeable.
Symmetry == Permutations({c1, c2})
=============================================================================
