------------------------------ MODULE IdLists -------------------------------
(***************************************************************************)
(* Lists as the stores keep and return them: lists of ids in order, and    *)
(* what std::ranges::sort makes of them.                                   *)
(***************************************************************************)
EXTENDS Naturals, Sequences, SequencesExt

\* A list that has exactly these ids, each once, in the order of their appends.
InOrder(list, ids) ==
    /\ Range(list) = ids
    /\ \A i, j \in DOMAIN list : i < j => list[i] < list[j]

\* The entries of a list that are good ones, in the order of the list.
Kept(list, good) ==
    LET kept[i \in 0 .. Len(list)] ==
            IF i = 0 THEN <<>>
            ELSE IF list[i] \in good THEN Append(kept[i - 1], list[i]) ELSE kept[i - 1]
    IN  kept[Len(list)]

\* The orders that a list's entries can be in.
Orders(list) ==
    {[i \in DOMAIN list |-> list[p[i]]] :
        p \in {q \in [DOMAIN list -> DOMAIN list] : Range(q) = DOMAIN list}}

\* std::ranges::sort of ids.
Sorted(ids) ==
    CHOOSE o \in Orders(ids) : \A i, j \in DOMAIN o : i < j => ~(o[j] < o[i])

=============================================================================
