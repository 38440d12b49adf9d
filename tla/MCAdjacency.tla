---------------------------- MODULE MCAdjacency -----------------------------
(***************************************************************************)
(* AdjacencyStore of a branch (its ids start above 0) with two nodes and   *)
(* room for three edges: a node can be a source again after a failed and   *)
(* after a finished append, and the ids run out.                           *)
(***************************************************************************)
EXTENDS AdjacencyStore

CONSTANTS n1, n2, noNode, a, b

=============================================================================
