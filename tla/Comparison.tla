----------------------------- MODULE Comparison -----------------------------
(***************************************************************************)
(* The comparisons of the query language: a property with a constant.      *)
(***************************************************************************)
EXTENDS Integers

Comparisons == {">", ">=", "<", "<=", "=="}

\* compare, one overload per operation.
Compare(left, op, right) ==
    CASE op = ">"  -> left > right
      [] op = ">=" -> left >= right
      [] op = "<"  -> left < right
      [] op = "<=" -> left <= right
      [] op = "==" -> left = right

=============================================================================
