---------------------------- MODULE MCGraphOrder ----------------------------
(* An instance of GraphOrder for TLC: steps named by their rank. *)
EXTENDS GraphOrder

MCRank == [n \in Nodes |-> n]
=============================================================================
