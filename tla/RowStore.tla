------------------------------ MODULE RowStore ------------------------------
(***************************************************************************)
(* What an append-only column store promises: a list of whole rows, at     *)
(* most as many as its ids can number.  An append that returns has put the *)
(* row it was given at the end; one that fails has changed nothing.        *)
(***************************************************************************)
EXTENDS Naturals, Sequences

CONSTANTS
    RowSet,  \* the rows an append can be given
    NoRow,   \* no append is running
    Room     \* how many rows the ids can number

VARIABLES
    rows,    \* the rows stored
    pending  \* the row of the append that is running, or NoRow

Init == rows = <<>> /\ pending = NoRow

Call ==
    /\ pending = NoRow
    /\ pending' \in RowSet
    /\ UNCHANGED rows

Return ==
    /\ pending # NoRow
    /\ Len(rows) < Room
    /\ rows' = Append(rows, pending)
    /\ pending' = NoRow

Fail ==
    /\ pending # NoRow
    /\ pending' = NoRow
    /\ UNCHANGED rows

Next == Call \/ Return \/ Fail

Spec == Init /\ [][Next]_<<rows, pending>>

=============================================================================
