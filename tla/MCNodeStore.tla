---------------------------- MODULE MCNodeStore -----------------------------
(***************************************************************************)
(* DeltaNodeStore of a branch with room for three rows, a numeric property *)
(* and one that is not: rows of two worldlines, early and late on both     *)
(* axes, so that each of the three indices can be the shortest, with the   *)
(* least, the greatest and a number in between, or a NaN.                  *)
(***************************************************************************)
EXTENDS DeltaNodeStore

CONSTANTS w1, w2, noWorldline, p, a, nan

MCPropertyValues == <<{0, 1, 2, 3, 17, nan}, {a}>>

Early == [from |-> 0, to |-> 1]
Late == [from |-> 1, to |-> 2]
MCIntervals == {Early, Late}

MCRowInputs ==
    {<<w1, Early, Early, p, 0, a>>, <<w1, Early, Late, p, 1, a>>, <<w1, Late, Early, p, 3, a>>,
     <<w1, Late, Late, p, 2, a>>, <<w2, Late, Late, p, 1, a>>, <<w2, Early, Early, p, nan, a>>,
     <<w2, Early, Late, p, 17, a>>}

=============================================================================
