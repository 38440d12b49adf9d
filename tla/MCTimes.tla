------------------------------ MODULE MCTimes -------------------------------
(***************************************************************************)
(* GraphSnapshot on both time axes: rows whose intervals start late, end   *)
(* early or span everything, read at two points, without edges.            *)
(***************************************************************************)
EXTENDS GraphSnapshot, TLC

CONSTANTS thought, generates, w1, w2, noWorldline, g1, noGeneration, h1, a, b

MCKinds == {thought}
MCRelations == {generates}
MCSourceKind == [r \in MCRelations |-> thought]
MCTargetKind == [r \in MCRelations |-> thought]
MCWorldlines == {w1, w2}
MCPoints == {0, 1}

\* Ends before 1, starts after 0, and one that holds throughout.
MCIntervals == IntervalsOver(0 .. 2)

\* The two that one of the points tells apart, for runs with several layers.
MCShortIntervals == {[from |-> 0, to |-> 1], [from |-> 1, to |-> 2]}

MCSymmetry == Permutations(MCWorldlines)

=============================================================================
