----------------------------- MODULE BranchBasis ----------------------------
(***************************************************************************)
(* GraphSnapshot with a history variable that remembers the snapshot a     *)
(* delta was made for.  The code keeps no such record: publish_branch has  *)
(* only the numbering of the delta to go by.                               *)
(***************************************************************************)
EXTENDS GraphSnapshot

VARIABLE basis  \* per delta_store variable: the snapshot, <<>> if none

basisVars == <<deltas, published, basis>>

BasisInit == Init /\ basis = [h \in DeltaHandles |-> <<>>]

Forget(h) == basis' = [basis EXCEPT ![h] = <<>>]

MakeFor(h, s) == MakeBranchDelta(h, s) /\ basis' = [basis EXCEPT ![h] = s]

Write(h) ==
    /\ \/ \E k \in Kinds, row \in RowInputs : AppendNode(h, k, row)
       \/ \E r \in Relations, source, target \in NodeIdSpace : AppendEdge(h, r, source, target)
    /\ UNCHANGED basis

BasisNext ==
    /\ Room
    /\ \E h \in DeltaHandles :
           \/ NewDelta(h) /\ Forget(h)
           \/ \E s \in published : MakeFor(h, s)
           \/ Write(h)
           \/ PublisherStep(h) /\ Forget(h)

BasisSpec == BasisInit /\ [][BasisNext]_basisVars

\* The delta holds an edge to a node it inherited, so that the rows of the
\* snapshot it was made for matter to it.
BuildsOnBasis(h) ==
    \E r \in Relations : \E e \in EdgeIds(deltas[h], r) :
        EdgeRow(deltas[h], r, e).source < deltas[h].nodeBase[SourceKind[r]]

\* publish_branch refuses a delta that "was not based on the parent snapshot": a
\* delta that builds on the rows of one snapshot never becomes a branch of another,
\* where the same ids are other rows.
BranchesHaveTheirBasis ==
    [][\A h \in DeltaHandles : BuildsOnBasis(h) =>
           \A parent \in published \ {basis[h]}, generation \in Generations,
              worldline \in Worldlines, validAt, knownAt \in Times :
               ~PublishBranch(h, parent, generation, worldline, validAt, knownAt)]_basisVars

=============================================================================
