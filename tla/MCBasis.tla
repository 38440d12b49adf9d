------------------------------ MODULE MCBasis -------------------------------
(***************************************************************************)
(* BranchBasis with two worldlines and one delta_store variable.           *)
(***************************************************************************)
EXTENDS BranchBasis

CONSTANTS memory, reinterprets, w1, w2, noWorldline, g1, noGeneration, h1, a

MCSourceKind == [r \in {reinterprets} |-> memory]
MCTargetKind == [r \in {reinterprets} |-> memory]
MCIntervals == {[from |-> 0, to |-> 2]}

=============================================================================
