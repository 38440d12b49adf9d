----------------------------- MODULE MCLineage ------------------------------
(***************************************************************************)
(* GraphSnapshot at one point of time: a root with branches of branches or *)
(* sibling branches, and edges in and across all layers.  One kind and one *)
(* relation from it to itself (the schema has such relations: a memory     *)
(* reinterprets a memory).                                                 *)
(***************************************************************************)
EXTENDS GraphSnapshot, TLC

CONSTANTS memory, reinterprets, w1, w2, noWorldline, g1, noGeneration, h1, a

MCKinds == {memory}
MCRelations == {reinterprets}
MCSourceKind == [r \in MCRelations |-> memory]
MCTargetKind == [r \in MCRelations |-> memory]
MCWorldlines == {w1, w2}
MCIntervals == {[from |-> 0, to |-> 2]}
MCTimes == {1}
MCGenerations == {g1}

MCSymmetry == Permutations(MCWorldlines)

=============================================================================
