--------------------------- MODULE GraphSnapshot ----------------------------
(***************************************************************************)
(* Writing deltas and publishing them as snapshots and branches:           *)
(* storage/delta_store.hpp and storage/snapshot.hpp.                       *)
(*                                                                         *)
(* A caller holds a few delta_store variables, appends nodes and edges to  *)
(* them, and moves one into publish (a root snapshot) or publish_branch (a *)
(* snapshot that overlays a parent).  Every snapshot stays readable for    *)
(* ever.  A call that is refused leaves the store as it was, so a refusal  *)
(* is an action that is not enabled.                                       *)
(***************************************************************************)
EXTENDS SnapshotView

CONSTANTS
    DeltaHandles,  \* the delta_store variables of the callers
    MaxSnapshots,  \* bound: how many snapshots are ever published
    MaxRoots       \* bound: how many of them are roots

ASSUME BoundAssumption == MaxSnapshots \in Nat /\ MaxRoots \in Nat

VARIABLES
    deltas,     \* the contents of each delta_store variable
    published   \* every snapshot published so far

vars == <<deltas, published>>

Snapshots == Seq(Layer)

\* Deltas and layers hold whole rows, with valid worldlines, and whole edges.
TypeOK ==
    /\ deltas \in [DeltaHandles -> Delta]
    /\ published \subseteq Snapshots

Init ==
    /\ deltas = [h \in DeltaHandles |-> FreshDelta]
    /\ published = {}

-----------------------------------------------------------------------------
(* Writing. *)

\* A new delta_store takes the place of whatever the variable held.
NewDelta(h) ==
    /\ deltas' = [deltas EXCEPT ![h] = FreshDelta]
    /\ UNCHANGED published

\* snapshot::make_branch_delta.
MakeBranchDelta(h, s) ==
    /\ deltas' = [deltas EXCEPT ![h] = DeltaFrom(NodeExtents(Last(s).data),
                                                 EdgeExtents(Last(s).data))]
    /\ UNCHANGED published

AppendNode(h, k, row) ==
    /\ CanAppendNode(deltas[h], k, row)
    /\ deltas' = [deltas EXCEPT ![h] = WithNode(deltas[h], k, row)]
    /\ UNCHANGED published

AppendEdge(h, r, source, target) ==
    /\ CanAppendEdge(deltas[h], r, source, target)
    /\ deltas' = [deltas EXCEPT ![h] = WithEdge(deltas[h], r, source, target)]
    /\ UNCHANGED published

-----------------------------------------------------------------------------
(* Publishing.  The delta is moved from; its variable is good for nothing   *)
(* but a new delta_store, which it is given at once.                        *)

LayerOf(generation, worldline, validAt, knownAt, d) ==
    [generation |-> generation, worldline |-> worldline,
     validAt |-> validAt, knownAt |-> knownAt, data |-> d]

Consume(h) == deltas' = [deltas EXCEPT ![h] = FreshDelta]

\* snapshot::publish: the layer becomes a root, wherever the delta's ids start.
Publish(h, generation, worldline, validAt, knownAt) ==
    /\ generation # NoGeneration
    /\ worldline # NoWorldline
    /\ published' = published \cup {<<LayerOf(generation, worldline, validAt, knownAt, deltas[h])>>}
    /\ Consume(h)

\* Mutant of BranchBasesMatch: the edge stores are not compared.
NodeBasesMatch(parent, d) == \A k \in Kinds : d.nodeBase[k] = SnapshotExtent(parent, k)

\* Mutant of BranchBasesMatch: the node stores are not compared.
EdgeBasesMatch(parent, d) == \A r \in Relations : d.edgeBase[r] = SnapshotEdgeExtent(parent, r)

\* snapshot::branch_bases_match: the numbering continues the parent's.
BranchBasesMatch(parent, d) ==
    /\ \A k \in Kinds : d.nodeBase[k] = SnapshotExtent(parent, k)
    /\ \A r \in Relations : d.edgeBase[r] = SnapshotEdgeExtent(parent, r)

\* snapshot::publish_branch.
PublishBranch(h, parent, generation, worldline, validAt, knownAt) ==
    /\ generation # NoGeneration
    /\ worldline # NoWorldline
    /\ worldline # Last(parent).worldline
    /\ BranchBasesMatch(parent, deltas[h])
    /\ published' = published \cup
           {Append(parent, LayerOf(generation, worldline, validAt, knownAt, deltas[h]))}
    /\ Consume(h)

-----------------------------------------------------------------------------

\* The rows and ids callers pass, the invalid ones included.
RowInputs == [worldline : Worldlines \cup {NoWorldline}, valid : Intervals,
              transaction : Intervals, value : Values]

WriterStep(h) ==
    \/ NewDelta(h)
    \/ \E s \in published : MakeBranchDelta(h, s)
    \/ \E k \in Kinds, row \in RowInputs : AppendNode(h, k, row)
    \/ \E r \in Relations, source, target \in NodeIdSpace : AppendEdge(h, r, source, target)

\* The bound on roots: the others have to be branches.
RootRoom == Cardinality({s \in published : Len(s) = 1}) < MaxRoots

PublisherStep(h) ==
    \E generation \in Generations \cup {NoGeneration},
       worldline \in Worldlines \cup {NoWorldline}, validAt, knownAt \in Times :
        \/ RootRoom /\ Publish(h, generation, worldline, validAt, knownAt)
        \/ \E parent \in published :
               PublishBranch(h, parent, generation, worldline, validAt, knownAt)

\* The bound: once MaxSnapshots are out nothing written can be published any more.
Room == Cardinality(published) < MaxSnapshots

Exhausted == ~Room /\ UNCHANGED vars

Next ==
    \/ Room /\ \E h \in DeltaHandles : WriterStep(h) \/ PublisherStep(h)
    \/ Exhausted

Spec == Init /\ [][Next]_vars

-----------------------------------------------------------------------------
(* What must hold of the published snapshots. *)

\* Along a branch the ids of every store go on where the parent's stop
\* (branch_bases_match against make_branch_delta, through any order of appends to
\* several deltas), and none reaches the invalid one.
IdsAreContiguous ==
    /\ \A h \in DeltaHandles : Bounded(deltas[h])
    /\ \A s \in published : ChainNumbered(s)

\* A branch answers for every id of its parent exactly as the parent does: same
\* visibility, same row.  An overlay that shadowed an inherited id, or read it at
\* the branch's own worldline or times, would break it.
BranchKeepsInherited ==
    \A s \in published : Len(s) > 1 =>
        \A k \in Kinds : \A id \in NodeIdSpace :
            id < SnapshotExtent(ParentOf(s), k) =>
                /\ Visible(s, k, id) <=> Visible(ParentOf(s), k, id)
                /\ Visible(s, k, id) => Property(s, k, id) = Property(ParentOf(s), k, id)

\* append_edge leaves no edge to a node numbered later than the edge's own layer
\* (edges of a published layer never gain or lose an end), nor an edge between two
\* nodes of that layer on different worldlines.
EdgesWellFormed ==
    /\ \A h \in DeltaHandles : EdgesWellFormedIn(deltas[h])
    /\ \A s \in published : \A i \in 1 .. Len(s) : EdgesWellFormedIn(s[i].data)

\* Some layer up to the i-th numbers the node, or it lies below where the root's ids start.
EndNumbered(s, i, k, id) ==
    \/ id < s[1].data.nodeBase[k]
    \/ \E j \in 1 .. i : HasNode(s[j].data, k, id)

\* append_edge takes any id below the base of the delta for an inherited end, without
\* the parent to ask, and publish_branch compares bases without the edges to ask: that
\* every end of a published edge is a row of its own layer or of an ancestor (but for
\* ends below the ids of a root that was made as a branch) is up to both together,
\* whichever snapshot the delta was made for and whichever it was published on.
EdgeEndsAreNumbered ==
    \A s \in published : \A i \in 1 .. Len(s) : \A r \in Relations :
        \A e \in EdgeIds(s[i].data, r) :
            LET edge == EdgeRow(s[i].data, r, e) IN
            /\ EndNumbered(s, i, SourceKind[r], edge.source)
            /\ EndNumbered(s, i, TargetKind[r], edge.target)

\* Types, numbering and edges together are inductive: what every append and publication preserves.
StoreInvariant == TypeOK /\ IdsAreContiguous /\ EdgesWellFormed

\* Selection through the indices finds exactly the rows that a scan with contains()
\* finds, in id order and each once, across all layers and whichever index is the
\* shortest; a property predicate looked up in its index selects the same of
\* them as it does when evaluated row by row.
SelectionIsExact ==
    \A s \in published : \A k \in Kinds :
        /\ InOrder(SourceCandidates(s, k), {id \in NodeIdSpace : Visible(s, k, id)})
        /\ \A accepted \in SUBSET Values :
               InOrder(PropertyCandidates(s, k, accepted),
                       {id \in NodeIdSpace : /\ Visible(s, k, id)
                                             /\ Property(s, k, id).value \in accepted})

\* The edges of the chain, and the ends one is found at.
ChainEdges(s, r) == UNION {EdgeIds(s[i].data, r) : i \in 1 .. Len(s)}

EdgeSource(s, r, edge) ==
    LET i == CHOOSE i \in 1 .. Len(s) : edge \in EdgeIds(s[i].data, r)
    IN  EdgeRow(s[i].data, r, edge).source

\* Walking forward and backward see the same edges: from a visible node, outgoing
\* lists in id order every edge of the chain that leaves it for a visible target,
\* incoming the same from the other end, and edge_target names that end.
TraversalIsExact ==
    \A s \in published : \A r \in Relations :
        LET live == {e \in ChainEdges(s, r) : /\ Visible(s, SourceKind[r], EdgeSource(s, r, e))
                                              /\ Visible(s, TargetKind[r], EdgeTarget(s, r, e))}
        IN  \A id \in NodeIdSpace :
                /\ InOrder(Outgoing(s, r, id), {e \in live : EdgeSource(s, r, e) = id})
                /\ InOrder(Incoming(s, r, id), {e \in live : EdgeTarget(s, r, e) = id})

-----------------------------------------------------------------------------
(* The same as a refinement: published snapshots are the chains of views of *)
(* BranchingViews, read through contains, property, outgoing, edge_target.  *)

ViewOf(s) ==
    [nodeExtent |-> NodeExtents(Last(s).data),
     edgeExtent |-> EdgeExtents(Last(s).data),
     nodes |-> [k \in Kinds |->
                   {<<id, Property(s, k, id)>> : id \in {i \in NodeIdSpace : Visible(s, k, i)}}],
     edges |-> [r \in Relations |->
                   UNION {{<<e, id, EdgeTarget(s, r, e)>> : e \in Range(Outgoing(s, r, id))} :
                          id \in NodeIdSpace}]]

ChainOf(s) == [i \in 1 .. Len(s) |-> ViewOf(Ancestor(s, i))]

Views == INSTANCE BranchingViews WITH chains <- {ChainOf(s) : s \in published}

\* Publishing implements BranchingViews: every snapshot is a graph, and a branch
\* adds to its parent without changing what is seen of it.
BranchesAddToParents == Views!Spec

-----------------------------------------------------------------------------
(* What the documentation says and the code does not do. *)

\* "known_at(t): only what was known at t": no visible row was learned later than
\* the time at which the snapshot is said to know.
NoFutureKnowledge ==
    \A s \in published : \A k \in Kinds : \A id \in NodeIdSpace :
        Visible(s, k, id) => Property(s, k, id).transaction.from <= Last(s).knownAt

=============================================================================
