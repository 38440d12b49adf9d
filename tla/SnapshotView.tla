---------------------------- MODULE SnapshotView ----------------------------
(***************************************************************************)
(* What a snapshot shows.  A snapshot shares the parent it branches from,  *)
(* the parent shares its own, and no link ever changes, so a snapshot is   *)
(* the sequence of its layers, the root first and its own layer last: the  *)
(* parent of s is Front(s).  A layer is a frozen delta together with the   *)
(* worldline and the two times at which it is read.                        *)
(*                                                                         *)
(* Every lookup of the code asks the youngest layer first and hands the id *)
(* to the parent, WITH THE PARENT'S worldline and times, when the layer    *)
(* does not number it.                                                     *)
(***************************************************************************)
EXTENDS DeltaStore, IdLists

CONSTANTS
    Generations,   \* valid generation ids
    NoGeneration,  \* generation_id::invalid()
    Times          \* the timestamps snapshots are read at

ASSUME GenerationAssumption == NoGeneration \notin Generations
ASSUME TimeAssumption == Times \subseteq Int

Layer == [generation : Generations, worldline : Worldlines,
          validAt : Times, knownAt : Times, data : Delta]

\* snapshot::parent, and the snapshots met on the way to the root.
ParentOf(s) == Front(s)
Ancestor(s, i) == SubSeq(s, 1, i)

\* snapshot::check_visibility for a row of this very layer.
RowVisible(layer, row) == RowMatches(row, layer.worldline, layer.validAt, layer.knownAt)

\* The layer that answers for an id: the youngest that numbers it.
Answers(s, i, k, id) ==
    /\ i \in 1 .. Len(s)
    /\ HasNode(s[i].data, k, id)
    /\ \A j \in (i + 1) .. Len(s) : ~HasNode(s[j].data, k, id)

\* Mutant of Visible: inherited rows are read at the branch's worldline and times.
VisibleAsOfBranch(s, k, id) ==
    \E i \in 1 .. Len(s) :
        /\ Answers(s, i, k, id)
        /\ RowVisible(Last(s), NodeRow(s[i].data, k, id))

\* snapshot::contains.
Visible(s, k, id) ==
    \E i \in 1 .. Len(s) :
        /\ Answers(s, i, k, id)
        /\ RowVisible(s[i], NodeRow(s[i].data, k, id))

\* snapshot::property, defined for a visible id.
Property(s, k, id) ==
    LET i == CHOOSE i \in 1 .. Len(s) : Answers(s, i, k, id)
    IN  NodeRow(s[i].data, k, id)

SnapshotExtent(s, k) == NodeExtent(Last(s).data, k)
SnapshotEdgeExtent(s, r) == EdgeExtent(Last(s).data, r)

\* Every id a caller may hold for this snapshot, the unknown ones included.
NodeIdSpace == 0 .. InvalidNodeId

-----------------------------------------------------------------------------
(* The shape of a snapshot: what appends and publications keep up. *)

\* No id of a delta reaches the invalid one.
Bounded(d) ==
    /\ \A k \in Kinds : NodeExtent(d, k) <= InvalidNodeId
    /\ \A r \in Relations : EdgeExtent(d, r) <= InvalidEdgeId

\* Every layer numbers its nodes and edges where the layer before it stopped.
ChainNumbered(s) ==
    /\ s # <<>>
    /\ \A i \in 1 .. (Len(s) - 1) :
           /\ \A k \in Kinds : s[i + 1].data.nodeBase[k] = NodeExtent(s[i].data, k)
           /\ \A r \in Relations : s[i + 1].data.edgeBase[r] = EdgeExtent(s[i].data, r)
    /\ \A i \in 1 .. Len(s) : Bounded(s[i].data)

\* What append_edge sees to in one delta.
EdgesWellFormedIn(d) ==
    \A r \in Relations : \A e \in EdgeIds(d, r) :
        LET edge == EdgeRow(d, r, e) IN
        /\ edge.source < NodeExtent(d, SourceKind[r])
        /\ edge.target < NodeExtent(d, TargetKind[r])
        /\ EndpointsShareWorldline(d, r, edge.source, edge.target)

SnapshotOK(s) ==
    /\ s \in Seq(Layer)
    /\ ChainNumbered(s)
    /\ \A i \in 1 .. Len(s) : EdgesWellFormedIn(s[i].data)

-----------------------------------------------------------------------------
(* Selection. *)

\* The list of ids in order: sorted, or listed in the order of the appends.
Ascending(ids) == CHOOSE list \in [1 .. Cardinality(ids) -> ids] : InOrder(list, ids)

\* snapshot::source_candidates: the parent's, then this layer's in id order.
SourceCandidates(s, k) ==
    FlattenSeq([i \in 1 .. Len(s) |->
        Ascending(IndexedCandidates(s[i].data, k, s[i].worldline, s[i].validAt, s[i].knownAt))])

\* snapshot::property_candidates: a layer's matching rows, those that the
\* snapshot of that layer contains.
PropertyCandidates(s, k, accepted) ==
    FlattenSeq([i \in 1 .. Len(s) |->
        Ascending({id \in PropertyMatches(s[i].data, k, accepted) : Visible(Ancestor(s, i), k, id)})])

-----------------------------------------------------------------------------
(* Traversal. *)

\* adjacency_store::outgoing and incoming of one layer.
LocalOutgoing(d, r, source) == {e \in EdgeIds(d, r) : EdgeRow(d, r, e).source = source}
LocalIncoming(d, r, target) == {e \in EdgeIds(d, r) : EdgeRow(d, r, e).target = target}

\* Mutants of Outgoing and Incoming: the node at the other end is not looked at.
OutgoingToAny(s, r, source) ==
    IF ~Visible(s, SourceKind[r], source) THEN <<>>
    ELSE FlattenSeq([i \in 1 .. Len(s) |-> Ascending(LocalOutgoing(s[i].data, r, source))])
IncomingFromAny(s, r, target) ==
    IF ~Visible(s, TargetKind[r], target) THEN <<>>
    ELSE FlattenSeq([i \in 1 .. Len(s) |-> Ascending(LocalIncoming(s[i].data, r, target))])

\* snapshot::outgoing: an ancestor contributes only when it contains the source,
\* a layer's edge only when the snapshot of that layer contains its target.
Outgoing(s, r, source) ==
    LET upTo[i \in 0 .. Len(s)] ==
            IF i = 0 \/ ~Visible(Ancestor(s, i), SourceKind[r], source)
            THEN <<>>
            ELSE upTo[i - 1] \o
                 Ascending({e \in LocalOutgoing(s[i].data, r, source) :
                     Visible(Ancestor(s, i), TargetKind[r], EdgeRow(s[i].data, r, e).target)})
    IN  upTo[Len(s)]

\* snapshot::incoming, the mirror image.
Incoming(s, r, target) ==
    LET upTo[i \in 0 .. Len(s)] ==
            IF i = 0 \/ ~Visible(Ancestor(s, i), TargetKind[r], target)
            THEN <<>>
            ELSE upTo[i - 1] \o
                 Ascending({e \in LocalIncoming(s[i].data, r, target) :
                     Visible(Ancestor(s, i), SourceKind[r], EdgeRow(s[i].data, r, e).source)})
    IN  upTo[Len(s)]

\* snapshot::edge_target: the youngest layer that numbers the edge answers.
EdgeTarget(s, r, edge) ==
    LET i == CHOOSE i \in 1 .. Len(s) :
                 /\ HasEdge(s[i].data, r, edge)
                 /\ \A j \in (i + 1) .. Len(s) : ~HasEdge(s[j].data, r, edge)
    IN  EdgeRow(s[i].data, r, edge).target

=============================================================================
