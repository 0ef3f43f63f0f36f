---------------------------- MODULE MCPbftReplica ----------------------------
(***************************************************************************)
(* One of four replicas, for TLC: n0 is the primary.                       *)
(***************************************************************************)
EXTENDS PbftReplica, TLC

CONSTANTS n0, n1, n2, n3

\* The other replicas that are neither the primary nor the one modelled.
Symmetry == Permutations({n2, n3})
=============================================================================
