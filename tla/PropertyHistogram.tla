------------------------- MODULE PropertyHistogram --------------------------
(***************************************************************************)
(* The histogram that build_property_histogram makes of a property column  *)
(* and the estimate of matching rows read from it.  The executor asks the  *)
(* property index when the estimate is below four fifths of its input.     *)
(*                                                                         *)
(* A number of the column is an integer here, and anything else is a value *)
(* that is not finite and that no comparison accepts (a NaN).  Bounds and  *)
(* midpoints of buckets are exact, in units of 1 / (2 * BucketCount).  In  *)
(* a column that is not arithmetic no value is a number, which leaves its  *)
(* histogram as empty as the code does.                                    *)
(***************************************************************************)
EXTENDS Comparison, Sequences, FiniteSets, FiniteSetsExt

BucketCount == 16
Buckets == 0 .. (BucketCount - 1)

IsFinite(value) == value \in Int
Finite(values) == {row \in DOMAIN values : IsFinite(values[row])}

NoHistogram ==
    [buckets |-> [b \in Buckets |-> 0], sampled |-> 0, minimum |-> 0, maximum |-> 0,
     available |-> FALSE]

\* Mutant of BucketOf: the largest value has a bucket of its own, past the last.
BucketOfUnclipped(value, minimum, maximum) ==
    IF minimum = maximum THEN 0
    ELSE ((value - minimum) * BucketCount) \div (maximum - minimum)

BucketOf(value, minimum, maximum) ==
    IF minimum = maximum THEN 0
    ELSE Min({((value - minimum) * BucketCount) \div (maximum - minimum), BucketCount - 1})

BuildHistogram(values) ==
    LET finite == Finite(values)
        samples == {values[row] : row \in finite}
        low == Min(samples)
        high == Max(samples)
    IN  IF finite = {} THEN NoHistogram
        ELSE [buckets |-> [b \in Buckets |->
                              Cardinality({row \in finite : BucketOf(values[row], low, high) = b})],
              sampled |-> Cardinality(finite), minimum |-> low, maximum |-> high,
              available |-> TRUE]

\* The predicate "op value" on the middle of a bucket, both sides scaled.
AcceptsMidpoint(h, b, op, value) ==
    Compare(2 * BucketCount * h.minimum + (2 * b + 1) * (h.maximum - h.minimum), op,
            2 * BucketCount * value)

\* estimate_property_candidates for a column of the given size.
Estimate(h, size, op, value) ==
    IF ~h.available THEN size
    ELSE IF h.minimum = h.maximum
         THEN IF Compare(h.minimum, op, value) THEN h.sampled ELSE 0
         ELSE MapThenSumSet(LAMBDA b : h.buckets[b],
                            {b \in Buckets : AcceptsMidpoint(h, b, op, value)})
              + (size - h.sampled)

\* should_use_property_index, where 0.8 is exactly four fifths.
ShouldUsePropertyIndex(estimate, inputSize) == 5 * estimate < 4 * inputSize

=============================================================================
