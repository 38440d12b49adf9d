------------------------- MODULE GraphSnapshotProofs ------------------------
(***************************************************************************)
(* Proofs about GraphSnapshot, for every schema, capacity, number of       *)
(* writers and number of snapshots.                                        *)
(***************************************************************************)
EXTENDS GraphSnapshot, ProofLemmas

-----------------------------------------------------------------------------
(* Facts about deltas. *)

\* A delta made from any extents is a delta.
LEMMA DeltaFromType ==
    ASSUME NEW nb \in [Kinds -> Nat], NEW eb \in [Relations -> Nat]
    PROVE  DeltaFrom(nb, eb) \in Delta
  BY DEF DeltaFrom, Delta

\* Extents are natural numbers.
LEMMA ExtentType ==
    ASSUME NEW d \in Delta
    PROVE  /\ NodeExtents(d) \in [Kinds -> Nat]
           /\ EdgeExtents(d) \in [Relations -> Nat]
  BY DEF NodeExtents, EdgeExtents, NodeExtent, EdgeExtent, Delta

\* Appending an accepted row keeps the shape of a delta, adds one id to its kind
\* and leaves every numbered row, and the whole of the edges, alone.
LEMMA WithNodeFacts ==
    ASSUME NEW d \in Delta, NEW k \in Kinds, NEW row \in Row
    PROVE  /\ WithNode(d, k, row) \in Delta
           /\ WithNode(d, k, row).nodeBase = d.nodeBase
           /\ WithNode(d, k, row).edgeBase = d.edgeBase
           /\ WithNode(d, k, row).edges = d.edges
           /\ \A j \in Kinds : NodeExtent(WithNode(d, k, row), j) =
                  NodeExtent(d, j) + (IF j = k THEN 1 ELSE 0)
           /\ \A j \in Kinds : \A id \in Nat : id < NodeExtent(d, j) /\ d.nodeBase[j] <= id
                  => NodeRow(WithNode(d, k, row), j, id) = NodeRow(d, j, id)
  <1> DEFINE e == WithNode(d, k, row)
  <1> DEFINE rows == [d.nodes EXCEPT ![k] = Append(d.nodes[k], row)]
  <1>1. d.nodes \in [Kinds -> Seq(Row)] /\ d.nodeBase \in [Kinds -> Nat]
    BY DEF Delta
  <1>2. rows \in [Kinds -> Seq(Row)]
    BY <1>1
  <1>3. e = [d EXCEPT !.nodes = rows]
    BY DEF WithNode
  <1>4. /\ e \in Delta /\ e.nodes = rows
        /\ e.nodeBase = d.nodeBase /\ e.edgeBase = d.edgeBase /\ e.edges = d.edges
    BY <1>2, <1>3 DEF Delta
  <1>5. ASSUME NEW j \in Kinds
        PROVE  NodeExtent(e, j) = NodeExtent(d, j) + (IF j = k THEN 1 ELSE 0)
    <2>1. Len(d.nodes[j]) \in Nat /\ d.nodeBase[j] \in Nat
      BY <1>1
    <2>2. CASE j = k
      <3>1. Len(rows[j]) = Len(d.nodes[j]) + 1
        BY <1>1, <2>2
      <3> HIDE DEF rows, e
      <3>2. NodeExtent(e, j) = NodeExtent(d, j) + 1
        BY <1>4, <2>1, <3>1 DEF NodeExtent
      <3> QED BY <2>2, <3>2
    <2>3. CASE j # k
      <3>1. rows[j] = d.nodes[j]
        BY <1>1, <2>3
      <3> HIDE DEF rows, e
      <3>2. NodeExtent(e, j) = NodeExtent(d, j)
        BY <1>4, <2>1, <3>1 DEF NodeExtent
      <3>3. NodeExtent(d, j) \in Nat
        BY <2>1 DEF NodeExtent
      <3> QED BY <2>3, <3>2, <3>3
    <2> QED BY <2>2, <2>3
  <1>6. ASSUME NEW j \in Kinds, NEW id \in Nat, id < NodeExtent(d, j), d.nodeBase[j] <= id
        PROVE  NodeRow(e, j, id) = NodeRow(d, j, id)
    <2>1. id - d.nodeBase[j] + 1 \in 1 .. Len(d.nodes[j])
      BY <1>1, <1>6 DEF NodeExtent
    <2>2. rows[j][id - d.nodeBase[j] + 1] = d.nodes[j][id - d.nodeBase[j] + 1]
      BY <1>1, <2>1
    <2> QED BY <1>4, <2>2 DEF NodeRow
  <1> QED BY <1>4, <1>5, <1>6

\* The same for an edge: one more edge id, the nodes untouched.
LEMMA WithEdgeFacts ==
    ASSUME NEW d \in Delta, NEW r \in Relations, NEW source \in Nat, NEW target \in Nat
    PROVE  /\ WithEdge(d, r, source, target) \in Delta
           /\ WithEdge(d, r, source, target).nodeBase = d.nodeBase
           /\ WithEdge(d, r, source, target).edgeBase = d.edgeBase
           /\ WithEdge(d, r, source, target).nodes = d.nodes
           /\ \A q \in Relations : q # r => WithEdge(d, r, source, target).edges[q] = d.edges[q]
           /\ WithEdge(d, r, source, target).edges[r] =
                  Append(d.edges[r], [source |-> source, target |-> target])
           /\ \A q \in Relations : EdgeExtent(WithEdge(d, r, source, target), q) =
                  EdgeExtent(d, q) + (IF q = r THEN 1 ELSE 0)
  <1> DEFINE e == WithEdge(d, r, source, target)
  <1> DEFINE rows == [d.edges EXCEPT ![r] = Append(d.edges[r], [source |-> source, target |-> target])]
  <1>1. d.edges \in [Relations -> Seq(Edge)] /\ d.edgeBase \in [Relations -> Nat]
    BY DEF Delta
  <1>2. rows \in [Relations -> Seq(Edge)]
    BY <1>1 DEF Edge
  <1>3. e = [d EXCEPT !.edges = rows]
    BY DEF WithEdge
  <1>4. /\ e \in Delta /\ e.edges = rows
        /\ e.nodeBase = d.nodeBase /\ e.edgeBase = d.edgeBase /\ e.nodes = d.nodes
    BY <1>2, <1>3 DEF Delta
  <1>5. ASSUME NEW q \in Relations
        PROVE  EdgeExtent(e, q) = EdgeExtent(d, q) + (IF q = r THEN 1 ELSE 0)
    <2>1. Len(d.edges[q]) \in Nat /\ d.edgeBase[q] \in Nat
      BY <1>1
    <2>2. CASE q = r
      <3>1. Len(rows[q]) = Len(d.edges[q]) + 1
        BY <1>1, <2>2 DEF Edge
      <3> HIDE DEF rows, e
      <3>2. EdgeExtent(e, q) = EdgeExtent(d, q) + 1
        BY <1>4, <2>1, <3>1 DEF EdgeExtent
      <3> QED BY <2>2, <3>2
    <2>3. CASE q # r
      <3>1. rows[q] = d.edges[q]
        BY <1>1, <2>3
      <3> HIDE DEF rows, e
      <3>2. EdgeExtent(e, q) = EdgeExtent(d, q)
        BY <1>4, <2>1, <3>1 DEF EdgeExtent
      <3>3. EdgeExtent(d, q) \in Nat
        BY <2>1 DEF EdgeExtent
      <3> QED BY <2>3, <3>2, <3>3
    <2> QED BY <2>2, <2>3
  <1>6. /\ \A q \in Relations : q # r => rows[q] = d.edges[q]
        /\ rows[r] = Append(d.edges[r], [source |-> source, target |-> target])
    BY <1>1
  <1> HIDE DEF rows
  <1> QED BY <1>4, <1>5, <1>6

-----------------------------------------------------------------------------
(* What every delta being written satisfies, append by append. *)

DeltaOK(d) == d \in Delta /\ Bounded(d) /\ EdgesWellFormedIn(d)

\* A delta without rows that starts at bounded extents.
LEMMA DeltaFromOK ==
    ASSUME NEW nb \in [Kinds -> Nat], NEW eb \in [Relations -> Nat],
           \A k \in Kinds : nb[k] <= InvalidNodeId,
           \A r \in Relations : eb[r] <= InvalidEdgeId
    PROVE  DeltaOK(DeltaFrom(nb, eb))
  <1> DEFINE d == DeltaFrom(nb, eb)
  <1>1. d \in Delta
    BY DeltaFromType
  <1>2. /\ d.nodeBase = nb /\ d.edgeBase = eb
        /\ \A k \in Kinds : d.nodes[k] = <<>>
        /\ \A r \in Relations : d.edges[r] = <<>>
    BY DEF DeltaFrom
  <1> HIDE DEF d
  <1>3. Bounded(d)
    BY <1>2 DEF Bounded, NodeExtent, EdgeExtent
  <1>4. \A r \in Relations : EdgeIds(d, r) = {}
    BY <1>2 DEF EdgeIds, EdgeExtent
  <1>5. EdgesWellFormedIn(d)
    BY <1>4 DEF EdgesWellFormedIn
  <1> QED BY <1>1, <1>3, <1>5 DEF DeltaOK, d

\* An edge of a delta has natural numbers for its ends.
LEMMA EdgeRowType ==
    ASSUME NEW d \in Delta, NEW r \in Relations, NEW e \in EdgeIds(d, r)
    PROVE  /\ EdgeRow(d, r, e) \in Edge
           /\ e - d.edgeBase[r] + 1 \in 1 .. Len(d.edges[r])
  <1>1. d.edges[r] \in Seq(Edge) /\ d.edgeBase[r] \in Nat
    BY DEF Delta
  <1>2. e - d.edgeBase[r] + 1 \in 1 .. Len(d.edges[r])
    BY <1>1 DEF EdgeIds, EdgeExtent
  <1> QED BY <1>1, <1>2 DEF EdgeRow

\* delta_node_store::append keeps ids below the invalid one, and no row it adds
\* changes what the edges already written join.
LEMMA AppendNodeOK ==
    ASSUME NEW d, DeltaOK(d), NEW k \in Kinds, NEW row \in Row, CanAppendNode(d, k, row)
    PROVE  DeltaOK(WithNode(d, k, row))
  <1> DEFINE n == WithNode(d, k, row)
  <1>1. d \in Delta /\ Bounded(d) /\ EdgesWellFormedIn(d)
    BY DEF DeltaOK
  <1>2. /\ n \in Delta
        /\ n.nodeBase = d.nodeBase /\ n.edgeBase = d.edgeBase /\ n.edges = d.edges
        /\ \A j \in Kinds : NodeExtent(n, j) = NodeExtent(d, j) + (IF j = k THEN 1 ELSE 0)
        /\ \A j \in Kinds : \A id \in Nat : id < NodeExtent(d, j) /\ d.nodeBase[j] <= id
               => NodeRow(n, j, id) = NodeRow(d, j, id)
    BY <1>1, WithNodeFacts
  <1>3. \A j \in Kinds : NodeExtent(d, j) \in Nat
    BY <1>1 DEF Delta, NodeExtent
  <1> HIDE DEF n
  <1>4. Bounded(n)
    <2>1. ASSUME NEW j \in Kinds PROVE NodeExtent(n, j) <= InvalidNodeId
      <3>1. NodeExtent(d, j) <= InvalidNodeId
        BY <1>1 DEF Bounded
      <3>2. NodeExtent(d, k) < InvalidNodeId
        BY DEF CanAppendNode
      <3>3. CASE j = k
        BY <1>2, <1>3, <3>2, <3>3, CapacityAssumption
      <3>4. CASE j # k
        BY <1>2, <1>3, <3>1, <3>4, CapacityAssumption
      <3> QED BY <3>3, <3>4
    <2>2. \A r \in Relations : EdgeExtent(n, r) = EdgeExtent(d, r)
      BY <1>2 DEF EdgeExtent
    <2> QED BY <1>1, <2>1, <2>2 DEF Bounded
  <1>5. EdgesWellFormedIn(n)
    <2> SUFFICES ASSUME NEW r \in Relations, NEW e \in EdgeIds(n, r)
                 PROVE  LET edge == EdgeRow(n, r, e) IN
                        /\ edge.source < NodeExtent(n, SourceKind[r])
                        /\ edge.target < NodeExtent(n, TargetKind[r])
                        /\ EndpointsShareWorldline(n, r, edge.source, edge.target)
      BY DEF EdgesWellFormedIn
    <2> DEFINE edge == EdgeRow(d, r, e)
    <2>1. e \in EdgeIds(d, r) /\ EdgeRow(n, r, e) = edge
      BY <1>2 DEF EdgeIds, EdgeExtent, EdgeRow
    <2>2. edge.source \in Nat /\ edge.target \in Nat
      BY <1>1, <2>1, EdgeRowType DEF Edge
    <2>3. /\ edge.source < NodeExtent(d, SourceKind[r])
          /\ edge.target < NodeExtent(d, TargetKind[r])
          /\ EndpointsShareWorldline(d, r, edge.source, edge.target)
      BY <1>1, <2>1 DEF EdgesWellFormedIn
    <2> HIDE DEF edge
    <2>4. SourceKind[r] \in Kinds /\ TargetKind[r] \in Kinds
      BY SchemaAssumption
    <2>5. \A j \in Kinds : \A id \in Nat : id < NodeExtent(d, j) =>
             /\ id < NodeExtent(n, j)
             /\ HasNode(n, j, id) => HasNode(d, j, id) /\ NodeRow(n, j, id) = NodeRow(d, j, id)
      BY <1>2, <1>3 DEF HasNode
    <2>6. EndpointsShareWorldline(n, r, edge.source, edge.target)
      BY <2>2, <2>3, <2>4, <2>5 DEF EndpointsShareWorldline
    <2> QED BY <2>1, <2>2, <2>3, <2>4, <2>5, <2>6
  <1> QED BY <1>2, <1>4, <1>5 DEF DeltaOK, n

\* delta_store::append_edge adds an edge between ids that are below the extents
\* and, where both are local, of one worldline.
LEMMA AppendEdgeOK ==
    ASSUME NEW d, DeltaOK(d), NEW r \in Relations, NEW source \in Nat, NEW target \in Nat,
           CanAppendEdge(d, r, source, target)
    PROVE  DeltaOK(WithEdge(d, r, source, target))
  <1> DEFINE n == WithEdge(d, r, source, target)
  <1> DEFINE new == [source |-> source, target |-> target]
  <1>1. d \in Delta /\ Bounded(d) /\ EdgesWellFormedIn(d)
    BY DEF DeltaOK
  <1>2. /\ n \in Delta
        /\ n.nodeBase = d.nodeBase /\ n.edgeBase = d.edgeBase /\ n.nodes = d.nodes
        /\ \A q \in Relations : q # r => n.edges[q] = d.edges[q]
        /\ n.edges[r] = Append(d.edges[r], new)
        /\ \A q \in Relations : EdgeExtent(n, q) = EdgeExtent(d, q) + (IF q = r THEN 1 ELSE 0)
    BY <1>1, WithEdgeFacts
  <1>3. /\ \A q \in Relations : d.edges[q] \in Seq(Edge) /\ d.edgeBase[q] \in Nat
        /\ \A q \in Relations : EdgeExtent(d, q) \in Nat
        /\ d.edges \in [Relations -> Seq(Edge)]
        /\ \A j \in Kinds : d.nodeBase[j] \in Nat /\ NodeExtent(d, j) \in Nat
                             /\ d.nodeBase[j] <= NodeExtent(d, j)
    BY <1>1 DEF Delta, EdgeExtent, NodeExtent
  <1>4. new \in Edge
    BY DEF Edge
  <1> HIDE DEF n, new
  <1>5. /\ \A j \in Kinds : NodeExtent(n, j) = NodeExtent(d, j)
        /\ \A j \in Kinds, id \in Nat : HasNode(n, j, id) = HasNode(d, j, id)
        /\ \A j \in Kinds, id \in Nat : NodeRow(n, j, id) = NodeRow(d, j, id)
    BY <1>2 DEF NodeExtent, HasNode, NodeRow
  <1>6. Bounded(n)
    <2>1. ASSUME NEW q \in Relations PROVE EdgeExtent(n, q) <= InvalidEdgeId
      <3>1. EdgeExtent(d, q) <= InvalidEdgeId
        BY <1>1 DEF Bounded
      <3>2. EdgeExtent(d, r) < InvalidEdgeId
        BY DEF CanAppendEdge
      <3>3. CASE q = r
        BY <1>2, <1>3, <3>2, <3>3, CapacityAssumption
      <3>4. CASE q # r
        BY <1>2, <1>3, <3>1, <3>4, CapacityAssumption
      <3> QED BY <3>3, <3>4
    <2> QED BY <1>1, <1>5, <2>1 DEF Bounded
  <1>7. EdgesWellFormedIn(n)
    <2> SUFFICES ASSUME NEW q \in Relations, NEW e \in EdgeIds(n, q)
                 PROVE  LET edge == EdgeRow(n, q, e) IN
                        /\ edge.source < NodeExtent(n, SourceKind[q])
                        /\ edge.target < NodeExtent(n, TargetKind[q])
                        /\ EndpointsShareWorldline(n, q, edge.source, edge.target)
      BY DEF EdgesWellFormedIn
    <2>1. SourceKind[q] \in Kinds /\ TargetKind[q] \in Kinds
      BY SchemaAssumption
    <2>2. CASE e \in EdgeIds(d, q)
      <3> DEFINE edge == EdgeRow(d, q, e)
      <3>1. edge \in Edge /\ e - d.edgeBase[q] + 1 \in 1 .. Len(d.edges[q])
        BY <1>1, <2>2, EdgeRowType
      <3>2. EdgeRow(n, q, e) = edge
        <4>1. CASE q = r
          <5> DEFINE i == e - d.edgeBase[r] + 1
          <5>1. i \in 1 .. Len(d.edges[r]) /\ d.edges[r] \in Seq(Edge)
            BY <1>3, <3>1, <4>1
          <5> HIDE DEF i
          <5>2. Append(d.edges[r], new)[i] = d.edges[r][i]
            BY <1>4, <5>1
          <5> QED BY <1>2, <4>1, <5>2 DEF EdgeRow, i
        <4>2. CASE q # r
          BY <1>2, <4>2 DEF EdgeRow
        <4> QED BY <4>1, <4>2
      <3>3. /\ edge.source < NodeExtent(d, SourceKind[q])
            /\ edge.target < NodeExtent(d, TargetKind[q])
            /\ EndpointsShareWorldline(d, q, edge.source, edge.target)
        BY <1>1, <2>2 DEF EdgesWellFormedIn
      <3>4. edge.source \in Nat /\ edge.target \in Nat
        BY <3>1 DEF Edge
      <3> HIDE DEF edge
      <3> QED BY <1>5, <2>1, <3>2, <3>3, <3>4 DEF EndpointsShareWorldline
    <2>3. CASE e \notin EdgeIds(d, q)
      <3>1. q = r
        <4>1. q # r => EdgeIds(n, q) = EdgeIds(d, q)
          BY <1>2, <1>3 DEF EdgeIds
        <4> QED BY <2>3, <4>1
      <3>2. e = EdgeExtent(d, r)
        BY <1>2, <1>3, <2>3, <3>1 DEF EdgeIds
      <3>3. e - d.edgeBase[r] + 1 = Len(d.edges[r]) + 1
        BY <1>3, <3>2 DEF EdgeExtent
      <3>4. EdgeRow(n, q, e) = new
        BY <1>2, <1>3, <1>4, <3>1, <3>3 DEF EdgeRow
      <3>5. new.source = source /\ new.target = target
        BY DEF new
      <3>6. /\ source < NodeExtent(d, SourceKind[r])
            /\ target < NodeExtent(d, TargetKind[r])
            /\ EndpointsShareWorldline(d, r, source, target)
        BY <1>3, <2>1, <3>1 DEF CanAppendEdge, EndpointExists, HasNode
      <3> QED BY <1>5, <2>1, <3>1, <3>4, <3>5, <3>6 DEF EndpointsShareWorldline
    <2> QED BY <2>2, <2>3
  <1> QED BY <1>2, <1>6, <1>7 DEF DeltaOK, n

-----------------------------------------------------------------------------
(* Published snapshots: a root is one layer, a branch one more than its parent. *)

\* StoreInvariant, regrouped by the values it speaks of.
LEMMA StoreInvariantSplit ==
    StoreInvariant <=> /\ deltas \in [DeltaHandles -> Delta]
                       /\ \A h \in DeltaHandles : DeltaOK(deltas[h])
                       /\ \A s \in published : SnapshotOK(s)
  BY DEF StoreInvariant, TypeOK, IdsAreContiguous, EdgesWellFormed, DeltaOK, SnapshotOK, Snapshots

\* snapshot::publish freezes a delta as a root.
LEMMA RootOK ==
    ASSUME NEW d, DeltaOK(d), NEW generation \in Generations, NEW worldline \in Worldlines,
           NEW validAt \in Times, NEW knownAt \in Times
    PROVE  SnapshotOK(<<LayerOf(generation, worldline, validAt, knownAt, d)>>)
  <1> DEFINE layer == LayerOf(generation, worldline, validAt, knownAt, d)
  <1>1. d \in Delta /\ Bounded(d) /\ EdgesWellFormedIn(d)
    BY DEF DeltaOK
  <1>2. layer \in Layer /\ layer.data = d
    BY <1>1 DEF LayerOf, Layer
  <1> HIDE DEF layer
  <1>3. <<layer>> \in Seq(Layer) /\ Len(<<layer>>) = 1 /\ <<layer>>[1] = layer
    BY <1>2
  <1> DEFINE s == <<layer>>
  <1>4. s \in Seq(Layer) /\ Len(s) = 1 /\ s[1] = layer
    BY <1>3
  <1> HIDE DEF s
  <1>5. s # <<>>
    BY <1>4
  <1>6. SnapshotOK(s)
    BY <1>1, <1>2, <1>4, <1>5 DEF SnapshotOK, Snapshots, ChainNumbered
  <1> QED BY <1>6 DEF s, layer

\* snapshot::publish_branch puts a layer on top of the parent's, numbered from
\* where the parent's own layer stops.
LEMMA BranchOK ==
    ASSUME NEW parent, SnapshotOK(parent), NEW d, DeltaOK(d), BranchBasesMatch(parent, d),
           NEW generation \in Generations, NEW worldline \in Worldlines,
           NEW validAt \in Times, NEW knownAt \in Times
    PROVE  SnapshotOK(Append(parent, LayerOf(generation, worldline, validAt, knownAt, d)))
  <1> DEFINE layer == LayerOf(generation, worldline, validAt, knownAt, d)
  <1> DEFINE s == Append(parent, layer)
  <1>1. d \in Delta /\ Bounded(d) /\ EdgesWellFormedIn(d)
    BY DEF DeltaOK
  <1>2. layer \in Layer /\ layer.data = d
    BY <1>1 DEF LayerOf, Layer
  <1>3. /\ parent \in Seq(Layer) /\ ChainNumbered(parent) /\ Len(parent) >= 1
        /\ \A i \in 1 .. Len(parent) : EdgesWellFormedIn(parent[i].data)
    BY DEF SnapshotOK, Snapshots, ChainNumbered
  <1> HIDE DEF layer
  <1>4. /\ s \in Seq(Layer) /\ Len(s) = Len(parent) + 1
        /\ \A i \in 1 .. Len(parent) : s[i] = parent[i]
        /\ s[Len(parent) + 1] = layer
    BY <1>2, <1>3
  <1>5. s # <<>> /\ Len(parent) \in Nat
    BY <1>3, <1>4
  <1> HIDE DEF s
  <1>6. \A i \in 1 .. Len(s) : Bounded(s[i].data) /\ EdgesWellFormedIn(s[i].data)
    <2> SUFFICES ASSUME NEW i \in 1 .. Len(s)
                 PROVE  Bounded(s[i].data) /\ EdgesWellFormedIn(s[i].data)
      OBVIOUS
    <2>1. CASE i = Len(parent) + 1
      BY <1>1, <1>2, <1>4, <2>1
    <2>2. CASE i \in 1 .. Len(parent)
      BY <1>3, <1>4, <2>2 DEF ChainNumbered
    <2> QED BY <1>4, <1>5, <2>1, <2>2
  <1>7. ASSUME NEW i \in 1 .. (Len(s) - 1)
        PROVE  /\ \A k \in Kinds : s[i + 1].data.nodeBase[k] = NodeExtent(s[i].data, k)
               /\ \A r \in Relations : s[i + 1].data.edgeBase[r] = EdgeExtent(s[i].data, r)
    <2>1. CASE i = Len(parent)
      <3>1. s[i + 1].data = d /\ s[i] = parent[Len(parent)]
        BY <1>2, <1>3, <1>4, <1>5, <2>1
      <3> QED BY <3>1 DEF BranchBasesMatch, SnapshotExtent, SnapshotEdgeExtent, Last
    <2>2. CASE i \in 1 .. (Len(parent) - 1)
      <3>1. s[i + 1] = parent[i + 1] /\ s[i] = parent[i]
        BY <1>4, <1>5, <2>2
      <3> QED BY <1>3, <2>2, <3>1 DEF ChainNumbered
    <2> QED BY <1>4, <1>5, <2>1, <2>2
  <1>8. SnapshotOK(s)
    BY <1>4, <1>5, <1>6, <1>7 DEF SnapshotOK, Snapshots, ChainNumbered
  <1> QED BY <1>8 DEF s, layer

\* The delta a branch starts from.
LEMMA BranchDeltaOK ==
    ASSUME NEW s, SnapshotOK(s)
    PROVE  DeltaOK(DeltaFrom(NodeExtents(Last(s).data), EdgeExtents(Last(s).data)))
  <1>1. Len(s) \in 1 .. Len(s) /\ s \in Seq(Layer) /\ ChainNumbered(s)
    BY DEF SnapshotOK, Snapshots, ChainNumbered
  <1> DEFINE d == Last(s).data
  <1>2. d \in Delta /\ Bounded(d)
    <2>1. Last(s) \in Layer
      BY <1>1 DEF Last
    <2>2. Bounded(s[Len(s)].data)
      BY <1>1 DEF ChainNumbered
    <2> QED BY <2>1, <2>2 DEF Last, Layer
  <1> HIDE DEF d
  <1>3. /\ \A k \in Kinds : NodeExtents(d)[k] <= InvalidNodeId
        /\ \A r \in Relations : EdgeExtents(d)[r] <= InvalidEdgeId
    BY <1>2 DEF Bounded, NodeExtents, EdgeExtents
  <1>4. NodeExtents(d) \in [Kinds -> Nat] /\ EdgeExtents(d) \in [Relations -> Nat]
    BY <1>2, ExtentType
  <1>5. DeltaOK(DeltaFrom(NodeExtents(d), EdgeExtents(d)))
    BY <1>3, <1>4, DeltaFromOK
  <1> QED BY <1>5 DEF d

\* The default-constructed delta.
LEMMA FreshDeltaOK == DeltaOK(FreshDelta)
  <1> DEFINE nb == [k \in Kinds |-> 0]
  <1> DEFINE eb == [r \in Relations |-> 0]
  <1>1. /\ nb \in [Kinds -> Nat] /\ eb \in [Relations -> Nat]
        /\ \A k \in Kinds : nb[k] <= InvalidNodeId
        /\ \A r \in Relations : eb[r] <= InvalidEdgeId
    BY CapacityAssumption
  <1>2. FreshDelta = DeltaFrom(nb, eb)
    BY DEF FreshDelta
  <1> HIDE DEF nb, eb
  <1> QED BY <1>1, <1>2, DeltaFromOK

-----------------------------------------------------------------------------
(* The inductive invariant. *)

\* Whatever callers append to however many deltas, and in whatever order they
\* publish roots and branches of them, deltas and snapshots stay well formed:
\* typed, numbered without gap or overlap along every branch, below the invalid id,
\* and with edges that have ends (delta_store and snapshot as a whole).
THEOREM StoreIsWellFormed == Spec => []StoreInvariant
  <1>1. Init => StoreInvariant
    <2> SUFFICES ASSUME Init PROVE StoreInvariant
      OBVIOUS
    <2>1. FreshDelta \in Delta
      BY FreshDeltaOK DEF DeltaOK
    <2> QED BY <2>1, FreshDeltaOK, StoreInvariantSplit DEF Init
  <1>2. StoreInvariant /\ [Next]_vars => StoreInvariant'
    <2> SUFFICES ASSUME StoreInvariant, [Next]_vars PROVE StoreInvariant'
      OBVIOUS
    <2>1. /\ deltas \in [DeltaHandles -> Delta]
          /\ \A h \in DeltaHandles : DeltaOK(deltas[h])
          /\ \A s \in published : SnapshotOK(s)
      BY StoreInvariantSplit
    <2>2. StoreInvariant' <=> /\ deltas' \in [DeltaHandles -> Delta]
                              /\ \A h \in DeltaHandles : DeltaOK(deltas'[h])
                              /\ \A s \in published' : SnapshotOK(s)
      BY DEF StoreInvariant, TypeOK, IdsAreContiguous, EdgesWellFormed, DeltaOK, SnapshotOK, Snapshots
    <2>3. ASSUME NEW h \in DeltaHandles, NEW d, DeltaOK(d),
                 deltas' = [deltas EXCEPT ![h] = d],
                 \A s \in published' : SnapshotOK(s)
          PROVE  StoreInvariant'
      <3>1. d \in Delta
        BY <2>3 DEF DeltaOK
      <3> QED BY <2>1, <2>2, <2>3, <3>1
    <2>4. CASE UNCHANGED vars
      BY <2>1, <2>2, <2>4 DEF vars
    <2>5. ASSUME NEW h \in DeltaHandles, NewDelta(h) PROVE StoreInvariant'
      BY <2>1, <2>3, <2>5, FreshDeltaOK DEF NewDelta
    <2>6. ASSUME NEW h \in DeltaHandles, NEW s \in published, MakeBranchDelta(h, s)
          PROVE  StoreInvariant'
      BY <2>1, <2>3, <2>6, BranchDeltaOK DEF MakeBranchDelta
    <2>7. ASSUME NEW h \in DeltaHandles, NEW k \in Kinds, NEW row \in RowInputs,
                 AppendNode(h, k, row)
          PROVE  StoreInvariant'
      <3>1. row \in Row
        BY <2>7 DEF AppendNode, CanAppendNode, RowInputs, Row
      <3>2. DeltaOK(WithNode(deltas[h], k, row))
        BY <2>1, <2>7, <3>1, AppendNodeOK DEF AppendNode
      <3> QED BY <2>1, <2>3, <2>7, <3>2 DEF AppendNode
    <2>8. ASSUME NEW h \in DeltaHandles, NEW r \in Relations,
                 NEW source \in NodeIdSpace, NEW target \in NodeIdSpace,
                 AppendEdge(h, r, source, target)
          PROVE  StoreInvariant'
      <3>1. source \in Nat /\ target \in Nat
        BY CapacityAssumption DEF NodeIdSpace
      <3>2. DeltaOK(WithEdge(deltas[h], r, source, target))
        BY <2>1, <2>8, <3>1, AppendEdgeOK DEF AppendEdge
      <3> QED BY <2>1, <2>3, <2>8, <3>2 DEF AppendEdge
    <2>9. ASSUME NEW h \in DeltaHandles, NEW generation \in Generations \cup {NoGeneration},
                 NEW worldline \in Worldlines \cup {NoWorldline},
                 NEW validAt \in Times, NEW knownAt \in Times,
                 Publish(h, generation, worldline, validAt, knownAt)
          PROVE  StoreInvariant'
      <3>1. generation \in Generations /\ worldline \in Worldlines
        BY <2>9 DEF Publish
      <3>2. SnapshotOK(<<LayerOf(generation, worldline, validAt, knownAt, deltas[h])>>)
        BY <2>1, <3>1, RootOK
      <3>3. \A s \in published' : SnapshotOK(s)
        BY <2>1, <2>9, <3>2 DEF Publish
      <3> QED BY <2>3, <2>9, <3>3, FreshDeltaOK DEF Publish, Consume
    <2>10. ASSUME NEW h \in DeltaHandles, NEW parent \in published,
                  NEW generation \in Generations \cup {NoGeneration},
                  NEW worldline \in Worldlines \cup {NoWorldline},
                  NEW validAt \in Times, NEW knownAt \in Times,
                  PublishBranch(h, parent, generation, worldline, validAt, knownAt)
           PROVE  StoreInvariant'
      <3>1. /\ generation \in Generations /\ worldline \in Worldlines
            /\ BranchBasesMatch(parent, deltas[h])
        BY <2>10 DEF PublishBranch
      <3>2. SnapshotOK(Append(parent,
                              LayerOf(generation, worldline, validAt, knownAt, deltas[h])))
        BY <2>1, <3>1, BranchOK
      <3>3. \A s \in published' : SnapshotOK(s)
        BY <2>1, <2>10, <3>2 DEF PublishBranch
      <3> QED BY <2>3, <2>10, <3>3, FreshDeltaOK DEF PublishBranch, Consume
    <2>11. CASE Next
      BY <2>4, <2>5, <2>6, <2>7, <2>8, <2>9, <2>10, <2>11
         DEF Next, WriterStep, PublisherStep, Exhausted
    <2> QED BY <2>4, <2>11
  <1> QED BY <1>1, <1>2, PTL DEF Spec

\* No branch ever reuses or skips an id of its parent (snapshot::branch_bases_match).
THEOREM IdsStayContiguous == Spec => []IdsAreContiguous
  <1>1. StoreInvariant => IdsAreContiguous
    BY DEF StoreInvariant
  <1> QED BY <1>1, StoreIsWellFormed, PTL

\* An edge never has an end that its layer does not number, nor joins two nodes of its
\* layer across worldlines (delta_store::append_edge).
THEOREM EdgesStayWellFormed == Spec => []EdgesWellFormed
  <1>1. StoreInvariant => EdgesWellFormed
    BY DEF StoreInvariant
  <1> QED BY <1>1, StoreIsWellFormed, PTL

\* Deltas and snapshots have the types their definitions name.
THEOREM TypeCorrect == Spec => []TypeOK
  <1>1. StoreInvariant => TypeOK
    BY DEF StoreInvariant
  <1> QED BY <1>1, StoreIsWellFormed, PTL

\* What make_root and branch return is a chain of layers of one schema, numbered by its
\* bases, with the ends of every edge in it: the shape QueryExecution asks of the
\* snapshots that queries read (its GraphAssumption).
THEOREM PublishedSnapshotsAreChains == Spec => [](\A s \in published : SnapshotOK(s))
  <1>1. StoreInvariant => \A s \in published : SnapshotOK(s)
    BY StoreInvariantSplit
  <1> QED BY <1>1, StoreIsWellFormed, PTL

-----------------------------------------------------------------------------
(* A branch overlays its parent and never shadows it. *)

\* The youngest layer of a branch numbers no id of the parent, so whichever layer
\* answers for an inherited id in the parent answers for it in the branch.
LEMMA InheritedAnswers ==
    ASSUME NEW s, SnapshotOK(s), Len(s) > 1, NEW k \in Kinds, NEW id \in Nat,
           id < SnapshotExtent(ParentOf(s), k), NEW i
    PROVE  Answers(s, i, k, id) <=> Answers(ParentOf(s), i, k, id)
  <1> DEFINE p == ParentOf(s)
  <1> DEFINE n == Len(s)
  <1>1. /\ s \in Seq(Layer) /\ n \in Nat /\ n > 1
        /\ ChainNumbered(s)
    BY DEF SnapshotOK, Snapshots
  <1>2. /\ p \in Seq(Layer) /\ Len(p) = n - 1
        /\ \A j \in 1 .. (n - 1) : p[j] = s[j]
    BY <1>1 DEF ParentOf, Front
  <1>3. Last(p) = s[n - 1]
    BY <1>1, <1>2 DEF Last
  <1>4. s[n].data.nodeBase[k] = NodeExtent(s[n - 1].data, k)
    <2>1. n - 1 \in 1 .. (n - 1) /\ (n - 1) + 1 = n
      BY <1>1
    <2> QED BY <1>1, <2>1 DEF ChainNumbered
  <1>5. s[n].data \in Delta
    <2>1. s[n] \in Layer
      BY <1>1
    <2> QED BY <2>1 DEF Layer
  <1>6. ~HasNode(s[n].data, k, id)
    <2>1. id < s[n].data.nodeBase[k]
      BY <1>3, <1>4 DEF SnapshotExtent
    <2>2. s[n].data.nodeBase[k] \in Nat
      BY <1>5 DEF Delta
    <2> QED BY <2>1, <2>2 DEF HasNode
  <1> HIDE DEF p, n
  <1>7. Answers(s, i, k, id) => Answers(p, i, k, id)
    <2> SUFFICES ASSUME Answers(s, i, k, id) PROVE Answers(p, i, k, id)
      OBVIOUS
    <2>1. i \in 1 .. n /\ HasNode(s[i].data, k, id)
      BY DEF Answers, n
    <2>2. i \in 1 .. (n - 1)
      BY <1>1, <1>6, <2>1
    <2>3. \A j \in (i + 1) .. (n - 1) : ~HasNode(p[j].data, k, id)
      BY <1>1, <1>2, <2>2 DEF Answers, n
    <2> QED BY <1>1, <1>2, <2>1, <2>2, <2>3 DEF Answers
  <1>8. Answers(p, i, k, id) => Answers(s, i, k, id)
    <2> SUFFICES ASSUME Answers(p, i, k, id) PROVE Answers(s, i, k, id)
      OBVIOUS
    <2>1. i \in 1 .. (n - 1) /\ HasNode(s[i].data, k, id)
      BY <1>1, <1>2 DEF Answers
    <2>2. ASSUME NEW j \in (i + 1) .. n PROVE ~HasNode(s[j].data, k, id)
      <3>1. CASE j = n
        BY <1>6, <3>1
      <3>2. CASE j \in (i + 1) .. (n - 1)
        BY <1>1, <1>2, <2>1, <3>2 DEF Answers
      <3> QED BY <1>1, <2>1, <3>1, <3>2
    <2> QED BY <1>1, <2>1, <2>2 DEF Answers, n
  <1> QED BY <1>7, <1>8 DEF p

\* A branch sees every inherited id exactly as its parent does, the same row at the
\* same worldline and times, however deep the chain (snapshot::check_visibility).
THEOREM InheritedIsKept == Spec => []BranchKeepsInherited
  <1>1. StoreInvariant => BranchKeepsInherited
    <2> SUFFICES ASSUME StoreInvariant, NEW s \in published, Len(s) > 1,
                        NEW k \in Kinds, NEW id \in NodeIdSpace,
                        id < SnapshotExtent(ParentOf(s), k)
                 PROVE  /\ Visible(s, k, id) <=> Visible(ParentOf(s), k, id)
                        /\ Visible(s, k, id) => Property(s, k, id) = Property(ParentOf(s), k, id)
      BY DEF BranchKeepsInherited
    <2> DEFINE p == ParentOf(s)
    <2>1. SnapshotOK(s) /\ id \in Nat
      BY StoreInvariantSplit, CapacityAssumption DEF NodeIdSpace
    <2>2. /\ Len(s) \in Nat /\ Len(p) = Len(s) - 1
          /\ \A j \in 1 .. Len(p) : p[j] = s[j]
      BY <2>1 DEF SnapshotOK, Snapshots, ParentOf, Front
    <2>3. \A i : Answers(s, i, k, id) <=> Answers(p, i, k, id)
      BY <2>1, InheritedAnswers
    <2>4. \A i : Answers(p, i, k, id) => i \in 1 .. Len(p) /\ i \in 1 .. Len(s)
      BY <2>3 DEF Answers
    <2> HIDE DEF p
    <2>5. Visible(s, k, id) <=> Visible(p, k, id)
      BY <2>2, <2>3, <2>4 DEF Visible
    <2>6. Visible(s, k, id) => Property(s, k, id) = Property(p, k, id)
      <3> SUFFICES ASSUME Visible(s, k, id) PROVE Property(s, k, id) = Property(p, k, id)
        OBVIOUS
      <3> DEFINE inS == CHOOSE i \in 1 .. Len(s) : Answers(s, i, k, id)
      <3> DEFINE inP == CHOOSE i \in 1 .. Len(p) : Answers(p, i, k, id)
      <3>1. \E i \in 1 .. Len(s) : Answers(s, i, k, id)
        BY DEF Visible
      <3>2. inS \in 1 .. Len(s) /\ Answers(s, inS, k, id)
        BY <3>1
      <3>3. inP \in 1 .. Len(p) /\ Answers(p, inP, k, id)
        BY <2>3, <2>4, <3>1
      <3> HIDE DEF inS, inP
      <3>4. inS = inP
        <4>1. /\ Answers(s, inP, k, id) /\ Answers(s, inS, k, id)
              /\ inP \in 1 .. Len(s) /\ inS \in 1 .. Len(s)
          BY <2>3, <2>4, <3>2, <3>3
        <4>2. ~(inS < inP) /\ ~(inP < inS)
          BY <2>2, <4>1 DEF Answers
        <4> QED BY <2>2, <4>1, <4>2
      <3>5. p[inP] = s[inS]
        BY <2>2, <3>3, <3>4
      <3> QED BY <3>4, <3>5 DEF Property, inS, inP
    <2> QED BY <2>5, <2>6 DEF p
  <1> QED BY <1>1, StoreIsWellFormed, PTL

-----------------------------------------------------------------------------
(* Selection. *)

\* delta_node_store::indexed_candidates returns the rows a full scan returns: each of
\* the three indices it may choose lists every row that matches.
THEOREM IndexFindsEveryMatch ==
    ASSUME NEW d \in Delta, NEW k \in Kinds, NEW worldline, NEW validAt, NEW knownAt
    PROVE  IndexedCandidates(d, k, worldline, validAt, knownAt) =
               {id \in NodeIds(d, k) : RowMatches(NodeRow(d, k, id), worldline, validAt, knownAt)}
  <1> DEFINE matches(id) == RowMatches(NodeRow(d, k, id), worldline, validAt, knownAt)
  <1> DEFINE shortest == ShortestIndex(d, k, worldline, validAt, knownAt)
  <1>1. shortest \subseteq NodeIds(d, k)
    BY DEF ShortestIndex, WorldlineRows, ValidPrefix, TransactionPrefix
  <1>2. ASSUME NEW id \in NodeIds(d, k), matches(id)
        PROVE  /\ id \in WorldlineRows(d, k, worldline)
               /\ id \in ValidPrefix(d, k, validAt)
               /\ id \in TransactionPrefix(d, k, knownAt)
    BY <1>2 DEF RowMatches, Covers, WorldlineRows, ValidPrefix, TransactionPrefix
  <1>3. \A id \in NodeIds(d, k) : matches(id) => id \in shortest
    BY <1>2 DEF ShortestIndex
  <1> HIDE DEF shortest
  <1> QED BY <1>1, <1>3 DEF IndexedCandidates, shortest

-----------------------------------------------------------------------------
(* What a chain of layers shows. *)

\* The layers of a snapshot.
LEMMA LayerFacts ==
    ASSUME NEW s, SnapshotOK(s)
    PROVE  /\ s \in Seq(Layer) /\ Len(s) \in Nat /\ Len(s) >= 1 /\ DOMAIN s = 1 .. Len(s)
           /\ Last(s) = s[Len(s)] /\ Len(s) \in 1 .. Len(s)
           /\ \A i \in 1 .. Len(s) : /\ s[i] \in Layer /\ s[i].data \in Delta
                                     /\ Bounded(s[i].data) /\ EdgesWellFormedIn(s[i].data)
  <1>1. s \in Seq(Layer) /\ s # <<>>
    BY DEF SnapshotOK, Snapshots, ChainNumbered
  <1>2. Len(s) \in Nat /\ Len(s) >= 1 /\ DOMAIN s = 1 .. Len(s)
    BY <1>1
  <1>3. \A i \in 1 .. Len(s) : s[i] \in Layer
    BY <1>1
  <1>4. \A i \in 1 .. Len(s) : s[i].data \in Delta
    BY <1>3 DEF Layer
  <1> QED BY <1>1, <1>2, <1>3, <1>4 DEF SnapshotOK, ChainNumbered, Last

\* The ids that a layer numbers.
LEMMA NodeRange ==
    ASSUME NEW d \in Delta, Bounded(d), NEW k \in Kinds
    PROVE  /\ d.nodeBase[k] \in Nat /\ NodeExtent(d, k) \in Nat
           /\ d.nodeBase[k] <= NodeExtent(d, k) /\ NodeExtent(d, k) <= InvalidNodeId
           /\ \A id \in Nat : id \in NodeIds(d, k) <=>
                                  d.nodeBase[k] <= id /\ id < NodeExtent(d, k)
           /\ \A id \in Nat : HasNode(d, k, id) <=> id \in NodeIds(d, k)
           /\ \A id \in NodeIds(d, k) : /\ id \in NodeIdSpace /\ id \in Nat
                                        /\ NodeRow(d, k, id) \in Row
  <1>1. d.nodeBase[k] \in Nat /\ d.nodes[k] \in Seq(Row) /\ Len(d.nodes[k]) \in Nat
    BY DEF Delta
  <1>2. /\ NodeExtent(d, k) \in Nat /\ d.nodeBase[k] <= NodeExtent(d, k)
        /\ NodeExtent(d, k) <= InvalidNodeId
    BY <1>1 DEF NodeExtent, Bounded
  <1>3. ASSUME NEW id \in Nat
        PROVE  id \in NodeIds(d, k) <=> d.nodeBase[k] <= id /\ id < NodeExtent(d, k)
    BY <1>1, <1>2 DEF NodeIds
  <1>4. ASSUME NEW id \in Nat PROVE HasNode(d, k, id) <=> id \in NodeIds(d, k)
    BY <1>2, <1>3, CapacityAssumption DEF HasNode
  <1>5. ASSUME NEW id \in NodeIds(d, k)
        PROVE  id \in NodeIdSpace /\ id \in Nat /\ NodeRow(d, k, id) \in Row
    <2>1. id \in Nat /\ id < InvalidNodeId
      BY <1>1, <1>2, CapacityAssumption DEF NodeIds
    <2>2. id - d.nodeBase[k] + 1 \in 1 .. Len(d.nodes[k])
      BY <1>1 DEF NodeIds, NodeExtent
    <2> QED BY <1>1, <2>1, <2>2, CapacityAssumption DEF NodeIdSpace, NodeRow
  <1> QED BY <1>1, <1>2, <1>3, <1>4, <1>5

LEMMA EdgeRange ==
    ASSUME NEW d \in Delta, Bounded(d), EdgesWellFormedIn(d), NEW r \in Relations
    PROVE  /\ d.edgeBase[r] \in Nat /\ EdgeExtent(d, r) \in Nat
           /\ d.edgeBase[r] <= EdgeExtent(d, r) /\ EdgeExtent(d, r) <= InvalidEdgeId
           /\ \A e \in Nat : e \in EdgeIds(d, r) <=>
                                  d.edgeBase[r] <= e /\ e < EdgeExtent(d, r)
           /\ \A e \in EdgeIds(d, r) : /\ e \in Nat /\ HasEdge(d, r, e)
                                       /\ EdgeRow(d, r, e).source \in Nat
                                       /\ EdgeRow(d, r, e).target \in Nat
                                       /\ EdgeRow(d, r, e).source < NodeExtent(d, SourceKind[r])
                                       /\ EdgeRow(d, r, e).target < NodeExtent(d, TargetKind[r])
  <1>1. d.edgeBase[r] \in Nat /\ d.edges[r] \in Seq(Edge) /\ Len(d.edges[r]) \in Nat
    BY DEF Delta
  <1>2. /\ EdgeExtent(d, r) \in Nat /\ d.edgeBase[r] <= EdgeExtent(d, r)
        /\ EdgeExtent(d, r) <= InvalidEdgeId
    BY <1>1 DEF EdgeExtent, Bounded
  <1>3. ASSUME NEW e \in Nat
        PROVE  e \in EdgeIds(d, r) <=> d.edgeBase[r] <= e /\ e < EdgeExtent(d, r)
    BY <1>1, <1>2 DEF EdgeIds
  <1>4. ASSUME NEW e \in EdgeIds(d, r)
        PROVE  /\ e \in Nat /\ HasEdge(d, r, e)
               /\ EdgeRow(d, r, e).source \in Nat /\ EdgeRow(d, r, e).target \in Nat
               /\ EdgeRow(d, r, e).source < NodeExtent(d, SourceKind[r])
               /\ EdgeRow(d, r, e).target < NodeExtent(d, TargetKind[r])
    <2>1. e \in Nat /\ d.edgeBase[r] <= e /\ e < EdgeExtent(d, r)
      BY <1>1, <1>2 DEF EdgeIds
    <2>2. HasEdge(d, r, e)
      BY <1>2, <2>1, CapacityAssumption DEF HasEdge
    <2>3. EdgeRow(d, r, e) \in Edge
      BY EdgeRowType
    <2>4. /\ EdgeRow(d, r, e).source < NodeExtent(d, SourceKind[r])
          /\ EdgeRow(d, r, e).target < NodeExtent(d, TargetKind[r])
      BY DEF EdgesWellFormedIn
    <2> QED BY <2>1, <2>2, <2>3, <2>4 DEF Edge
  <1> QED BY <1>1, <1>2, <1>3, <1>4

\* Layers number their nodes, and their edges, one after another.
LEMMA LayersFollow ==
    ASSUME NEW s, SnapshotOK(s), NEW i \in 1 .. Len(s), NEW j \in 1 .. Len(s), i < j
    PROVE  /\ \A k \in Kinds : NodeExtent(s[i].data, k) <= s[j].data.nodeBase[k]
           /\ \A r \in Relations : EdgeExtent(s[i].data, r) <= s[j].data.edgeBase[r]
  <1> DEFINE n == Len(s)
  <1>1. /\ n \in Nat
        /\ \A m \in 1 .. n : s[m].data \in Delta /\ Bounded(s[m].data)
                             /\ EdgesWellFormedIn(s[m].data)
    BY LayerFacts
  <1>2. ASSUME NEW k \in Kinds PROVE NodeExtent(s[i].data, k) <= s[j].data.nodeBase[k]
    <2> DEFINE base == [m \in 1 .. n |-> s[m].data.nodeBase[k]]
               extent == [m \in 1 .. n |-> NodeExtent(s[m].data, k)]
    <2>1. \A m \in 1 .. n : /\ s[m].data.nodeBase[k] \in Nat /\ NodeExtent(s[m].data, k) \in Nat
                            /\ s[m].data.nodeBase[k] <= NodeExtent(s[m].data, k)
      BY <1>1, NodeRange
    <2>2. \A m \in 1 .. (n - 1) : s[m + 1].data.nodeBase[k] = NodeExtent(s[m].data, k)
      BY DEF SnapshotOK, ChainNumbered
    <2>3. Consecutive(n, base, extent)
      <3>1. \A m \in 1 .. (n - 1) : m \in 1 .. n /\ m + 1 \in 1 .. n
        BY <1>1
      <3> QED BY <2>1, <2>2, <3>1 DEF Consecutive
    <2>4. base[j] = s[j].data.nodeBase[k] /\ extent[i] = NodeExtent(s[i].data, k)
      OBVIOUS
    <2> HIDE DEF base, extent
    <2>5. extent[i] <= base[j]
      BY <1>1, <2>3, ConsecutiveApart
    <2> QED BY <2>4, <2>5
  <1>3. ASSUME NEW r \in Relations PROVE EdgeExtent(s[i].data, r) <= s[j].data.edgeBase[r]
    <2> DEFINE base == [m \in 1 .. n |-> s[m].data.edgeBase[r]]
               extent == [m \in 1 .. n |-> EdgeExtent(s[m].data, r)]
    <2>1. \A m \in 1 .. n : /\ s[m].data.edgeBase[r] \in Nat /\ EdgeExtent(s[m].data, r) \in Nat
                            /\ s[m].data.edgeBase[r] <= EdgeExtent(s[m].data, r)
      BY <1>1, EdgeRange
    <2>2. \A m \in 1 .. (n - 1) : s[m + 1].data.edgeBase[r] = EdgeExtent(s[m].data, r)
      BY DEF SnapshotOK, ChainNumbered
    <2>3. Consecutive(n, base, extent)
      <3>1. \A m \in 1 .. (n - 1) : m \in 1 .. n /\ m + 1 \in 1 .. n
        BY <1>1
      <3> QED BY <2>1, <2>2, <3>1 DEF Consecutive
    <2>4. base[j] = s[j].data.edgeBase[r] /\ extent[i] = EdgeExtent(s[i].data, r)
      OBVIOUS
    <2> HIDE DEF base, extent
    <2>5. extent[i] <= base[j]
      BY <1>1, <2>3, ConsecutiveApart
    <2> QED BY <2>4, <2>5
  <1> QED BY <1>2, <1>3

\* So one layer at most numbers an id, and that one answers for it.
LEMMA OneAnswers ==
    ASSUME NEW s, SnapshotOK(s), NEW k \in Kinds, NEW id \in Nat,
           NEW i \in 1 .. Len(s), id \in NodeIds(s[i].data, k)
    PROVE  /\ \A j : Answers(s, j, k, id) <=> j = i
           /\ Visible(s, k, id) <=> RowVisible(s[i], NodeRow(s[i].data, k, id))
           /\ Property(s, k, id) = NodeRow(s[i].data, k, id)
  <1>1. /\ Len(s) \in Nat
        /\ \A m \in 1 .. Len(s) : s[m].data \in Delta /\ Bounded(s[m].data)
    BY LayerFacts
  <1>2. \A m \in 1 .. Len(s) : HasNode(s[m].data, k, id) <=> id \in NodeIds(s[m].data, k)
    BY <1>1, NodeRange
  <1>3. \A m \in 1 .. Len(s) : id \in NodeIds(s[m].data, k) <=>
            s[m].data.nodeBase[k] <= id /\ id < NodeExtent(s[m].data, k)
    BY <1>1, NodeRange
  <1>4. ASSUME NEW m \in 1 .. Len(s), m # i PROVE ~HasNode(s[m].data, k, id)
    <2>1. /\ s[m].data.nodeBase[k] \in Nat /\ NodeExtent(s[m].data, k) \in Nat
          /\ s[i].data.nodeBase[k] \in Nat /\ NodeExtent(s[i].data, k) \in Nat
      BY <1>1, NodeRange
    <2>2. s[i].data.nodeBase[k] <= id /\ id < NodeExtent(s[i].data, k)
      BY <1>3
    <2>3. CASE m < i
      <3>1. NodeExtent(s[m].data, k) <= s[i].data.nodeBase[k]
        BY <2>3, LayersFollow
      <3> QED BY <1>2, <1>3, <2>1, <2>2, <3>1
    <2>4. CASE i < m
      <3>1. NodeExtent(s[i].data, k) <= s[m].data.nodeBase[k]
        BY <2>4, LayersFollow
      <3> QED BY <1>2, <1>3, <2>1, <2>2, <3>1
    <2> QED BY <1>1, <1>4, <2>3, <2>4
  <1>5. HasNode(s[i].data, k, id)
    BY <1>2
  <1>6. \A m \in (i + 1) .. Len(s) : m \in 1 .. Len(s) /\ m # i
    BY <1>1
  <1>7. \A j : Answers(s, j, k, id) <=> j = i
    BY <1>4, <1>5, <1>6 DEF Answers
  <1>8. Visible(s, k, id) <=> RowVisible(s[i], NodeRow(s[i].data, k, id))
    BY <1>7 DEF Visible
  <1>9. Property(s, k, id) = NodeRow(s[i].data, k, id)
    BY <1>7 DEF Property
  <1> QED BY <1>7, <1>8, <1>9

\* An id is visible in a layer that numbers it.
LEMMA VisibleInLayer ==
    ASSUME NEW s, SnapshotOK(s), NEW k \in Kinds, NEW id \in Nat, Visible(s, k, id)
    PROVE  \E i \in 1 .. Len(s) : id \in NodeIds(s[i].data, k)
  <1>1. PICK i \in 1 .. Len(s) : Answers(s, i, k, id)
    BY DEF Visible
  <1>2. HasNode(s[i].data, k, id)
    BY <1>1 DEF Answers
  <1>3. s[i].data \in Delta /\ Bounded(s[i].data)
    BY LayerFacts
  <1>4. id \in NodeIds(s[i].data, k)
    BY <1>2, <1>3, NodeRange
  <1> QED BY <1>4

\* Along a chain the ids from where the root's start to the extent of a layer are
\* numbered by that layer and those below it.
LEMMA BelowExtentIsNumbered ==
    ASSUME NEW s, SnapshotOK(s), NEW i \in 1 .. Len(s), NEW k \in Kinds, NEW id \in Nat,
           id < NodeExtent(s[i].data, k)
    PROVE  EndNumbered(s, i, k, id)
  <1>1. /\ Len(s) \in Nat
        /\ \A m \in 1 .. Len(s) :
               /\ s[m].data.nodeBase[k] \in Nat /\ NodeExtent(s[m].data, k) \in Nat
               /\ HasNode(s[m].data, k, id) <=>
                      s[m].data.nodeBase[k] <= id /\ id < NodeExtent(s[m].data, k)
    BY LayerFacts, NodeRange
  <1> DEFINE reached == {m \in 1 .. i : id < NodeExtent(s[m].data, k)}
  <1>2. reached \in SUBSET Nat /\ i \in reached
    BY <1>1
  <1>3. PICK m \in reached : \A n \in reached : m <= n
    <2> HIDE DEF reached
    <2> QED BY <1>2, LeastNatural
  <1>4. m \in 1 .. i /\ m \in 1 .. Len(s) /\ id < NodeExtent(s[m].data, k)
    BY <1>1
  <1>5. CASE m = 1
    BY <1>1, <1>4, <1>5 DEF EndNumbered
  <1>6. CASE m > 1
    <2>1. m - 1 \in 1 .. i /\ m - 1 \in 1 .. Len(s) /\ m - 1 \in 1 .. (Len(s) - 1)
      BY <1>1, <1>4, <1>6
    <2>2. s[m].data.nodeBase[k] = NodeExtent(s[m - 1].data, k)
      <3>1. s[(m - 1) + 1].data.nodeBase[k] = NodeExtent(s[m - 1].data, k)
        BY <2>1 DEF SnapshotOK, ChainNumbered
      <3>2. (m - 1) + 1 = m
        BY <1>4
      <3> QED BY <3>1, <3>2
    <2>3. m - 1 \notin reached
      BY <1>3, <1>4
    <2>4. NodeExtent(s[m - 1].data, k) <= id
      BY <1>1, <2>1, <2>3
    <2>5. HasNode(s[m].data, k, id)
      BY <1>1, <1>4, <2>2, <2>4
    <2> QED BY <1>4, <2>5 DEF EndNumbered
  <1> QED BY <1>4, <1>5, <1>6

\* The ends of every published edge are rows of its chain, whichever snapshot its delta
\* was made for (endpoint_exists in append_edge, branch_bases_match in publish_branch).
THEOREM EdgeEndsStayNumbered == Spec => []EdgeEndsAreNumbered
  <1>1. (\A s \in published : SnapshotOK(s)) => EdgeEndsAreNumbered
    <2> SUFFICES ASSUME NEW s \in published, SnapshotOK(s), NEW i \in 1 .. Len(s),
                        NEW r \in Relations, NEW e \in EdgeIds(s[i].data, r)
                 PROVE  /\ EndNumbered(s, i, SourceKind[r], EdgeRow(s[i].data, r, e).source)
                        /\ EndNumbered(s, i, TargetKind[r], EdgeRow(s[i].data, r, e).target)
      BY DEF EdgeEndsAreNumbered
    <2>1. SourceKind[r] \in Kinds /\ TargetKind[r] \in Kinds
      BY SchemaAssumption
    <2>2. s[i].data \in Delta /\ Bounded(s[i].data) /\ EdgesWellFormedIn(s[i].data)
      BY LayerFacts
    <2>3. /\ EdgeRow(s[i].data, r, e).source \in Nat
          /\ EdgeRow(s[i].data, r, e).target \in Nat
          /\ EdgeRow(s[i].data, r, e).source < NodeExtent(s[i].data, SourceKind[r])
          /\ EdgeRow(s[i].data, r, e).target < NodeExtent(s[i].data, TargetKind[r])
      BY <2>2, EdgeRange
    <2> QED BY <2>1, <2>3, BelowExtentIsNumbered
  <1> QED BY <1>1, PublishedSnapshotsAreChains, PTL

\* An ancestor is a snapshot as well.
LEMMA AncestorOK ==
    ASSUME NEW s, SnapshotOK(s), NEW i \in 1 .. Len(s)
    PROVE  /\ SnapshotOK(Ancestor(s, i)) /\ Len(Ancestor(s, i)) = i
           /\ \A j \in 1 .. i : Ancestor(s, i)[j] = s[j]
  <1> DEFINE a == Ancestor(s, i)
  <1>1. s \in Seq(Layer) /\ Len(s) \in Nat
    BY LayerFacts
  <1>2. \A j \in 1 .. i : j \in 1 .. Len(s) /\ s[j] \in Layer
    BY <1>1, ElementOfSeq
  <1>3. a \in Seq(Layer) /\ Len(a) = i /\ \A j \in 1 .. i : a[j] = s[j]
    <2>1. /\ SubSeq(s, 1, i) \in Seq(Layer)
          /\ Len(SubSeq(s, 1, i)) = IF 1 <= i THEN i - 1 + 1 ELSE 0
          /\ \A j \in 1 .. i - 1 + 1 : SubSeq(s, 1, i)[j] = s[1 + j - 1]
      BY <1>2, SubSeqProperties
    <2> QED BY <2>1 DEF Ancestor
  <1> HIDE DEF a
  <1>4. a # <<>>
    BY <1>3
  <1>5. \A j \in 1 .. i : Bounded(a[j].data) /\ EdgesWellFormedIn(a[j].data)
    BY <1>2, <1>3, LayerFacts
  <1>6. ASSUME NEW j \in 1 .. (i - 1)
        PROVE  /\ \A k \in Kinds : a[j + 1].data.nodeBase[k] = NodeExtent(a[j].data, k)
               /\ \A r \in Relations : a[j + 1].data.edgeBase[r] = EdgeExtent(a[j].data, r)
    <2>1. a[j + 1] = s[j + 1] /\ a[j] = s[j] /\ j \in 1 .. (Len(s) - 1)
      BY <1>1, <1>3
    <2> QED BY <2>1 DEF SnapshotOK, ChainNumbered
  <1>7. SnapshotOK(a)
    BY <1>3, <1>4, <1>5, <1>6 DEF SnapshotOK, Snapshots, ChainNumbered
  <1> QED BY <1>3, <1>7 DEF a

\* An ancestor sees of the ids up to its extent what the snapshot sees, and no other.
LEMMA AncestorSees ==
    ASSUME NEW s, SnapshotOK(s), NEW i \in 1 .. Len(s), NEW k \in Kinds, NEW id \in Nat
    PROVE  Visible(Ancestor(s, i), k, id) <=>
               Visible(s, k, id) /\ id < NodeExtent(s[i].data, k)
  <1>1. PICK a : a = Ancestor(s, i) /\ SnapshotOK(a) /\ Len(a) = i /\ \A j \in 1 .. i : a[j] = s[j]
    BY AncestorOK
  <1>2. /\ Len(s) \in Nat
        /\ \A m \in 1 .. Len(s) : s[m].data \in Delta /\ Bounded(s[m].data)
    BY LayerFacts
  <1>3. \A m \in 1 .. Len(s) : /\ s[m].data.nodeBase[k] \in Nat /\ NodeExtent(s[m].data, k) \in Nat
                               /\ s[m].data.nodeBase[k] <= NodeExtent(s[m].data, k)
                               /\ id \in NodeIds(s[m].data, k) <=>
                                      s[m].data.nodeBase[k] <= id /\ id < NodeExtent(s[m].data, k)
    BY <1>2, NodeRange
  <1>4. \A m \in 1 .. i : m \in 1 .. Len(s)
    BY <1>2
  <1>5. ASSUME NEW m \in 1 .. i, id \in NodeIds(s[m].data, k)
        PROVE  Visible(a, k, id) <=> Visible(s, k, id)
    <2>1. a[m] = s[m] /\ m \in 1 .. Len(a) /\ id \in NodeIds(a[m].data, k)
      BY <1>1, <1>5
    <2>2. Visible(a, k, id) <=> RowVisible(a[m], NodeRow(a[m].data, k, id))
      BY <1>1, <2>1, OneAnswers
    <2>3. Visible(s, k, id) <=> RowVisible(s[m], NodeRow(s[m].data, k, id))
      BY <1>4, <1>5, OneAnswers
    <2> QED BY <2>1, <2>2, <2>3
  <1>6. ASSUME Visible(a, k, id) PROVE Visible(s, k, id) /\ id < NodeExtent(s[i].data, k)
    <2>1. PICK m \in 1 .. i : id \in NodeIds(a[m].data, k)
      BY <1>1, <1>6, VisibleInLayer
    <2>2. id \in NodeIds(s[m].data, k) /\ m \in 1 .. Len(s)
      BY <1>1, <1>4, <2>1
    <2>3. Visible(s, k, id)
      BY <1>5, <1>6, <2>2
    <2>4. id < NodeExtent(s[m].data, k)
      BY <1>3, <2>2
    <2>5. CASE m = i
      BY <2>3, <2>4, <2>5
    <2>6. CASE m < i
      <3>1. NodeExtent(s[m].data, k) <= s[i].data.nodeBase[k]
        BY <2>2, <2>6, LayersFollow
      <3> QED BY <1>3, <2>2, <2>3, <2>4, <3>1
    <2> QED BY <2>5, <2>6
  <1>7. ASSUME Visible(s, k, id), id < NodeExtent(s[i].data, k) PROVE Visible(a, k, id)
    <2>1. PICK m \in 1 .. Len(s) : id \in NodeIds(s[m].data, k)
      BY <1>7, VisibleInLayer
    <2>2. m \in 1 .. i
      <3> SUFFICES ASSUME i < m PROVE FALSE
        BY <1>2
      <3>1. NodeExtent(s[i].data, k) <= s[m].data.nodeBase[k]
        BY LayersFollow
      <3> QED BY <1>3, <1>7, <2>1, <3>1
    <2> QED BY <1>5, <1>7, <2>1, <2>2
  <1> QED BY <1>1, <1>6, <1>7

\* There is a list of ids in order.
LEMMA AscendingInOrder ==
    ASSUME NEW bound \in Nat, NEW ids \in SUBSET (0 .. (bound - 1)),
           NEW list, list = Ascending(ids)
    PROVE  list \in Seq(Nat) /\ InOrder(list, ids)
  <1>1. PICK line \in Seq(Nat) : InOrder(line, ids)
    BY ListedInOrder
  <1>2. Cardinality(ids) = Len(line) /\ Len(line) \in Nat
    BY <1>1, LengthInOrder, LenProperties
  <1>3. line \in [1 .. Cardinality(ids) -> ids]
    <2>1. line \in [1 .. Len(line) -> Nat] /\ DOMAIN line = 1 .. Len(line)
      BY LenProperties
    <2>2. \A i \in 1 .. Len(line) : line[i] \in ids
      BY <1>1, <2>1 DEF InOrder, Range
    <2> QED BY <1>2, <2>1, <2>2
  <1>4. list \in [1 .. Cardinality(ids) -> ids] /\ InOrder(list, ids)
    BY <1>1, <1>3 DEF Ascending
  <1>5. list \in [1 .. Len(line) -> Nat]
    <2>1. \A id \in ids : id \in Nat
      OBVIOUS
    <2>2. \A i \in 1 .. Len(line) : list[i] \in Nat
      BY <1>2, <1>4, <2>1
    <2> QED BY <1>2, <1>4, <2>2
  <1>6. list = [i \in 1 .. Len(line) |-> list[i]] /\ \A i \in 1 .. Len(line) : list[i] \in Nat
    BY <1>5
  <1>7. list \in Seq(Nat)
    BY <1>2, <1>6, IsASeq
  <1> QED BY <1>4, <1>7

-----------------------------------------------------------------------------
(* Selection across layers. *)

\* The matching ids of one layer.
Selected(s, i, k) == {id \in NodeIds(s[i].data, k) : RowVisible(s[i], NodeRow(s[i].data, k, id))}

\* The visible ids.
VisibleIds(s, k) == {id \in NodeIdSpace : Visible(s, k, id)}

\* The ids selected in the layers are the visible ones, layer by layer.
LEMMA SelectedAreVisible ==
    ASSUME NEW s, SnapshotOK(s), NEW k \in Kinds,
           NEW ids, ids = [i \in 1 .. Len(s) |-> Selected(s, i, k)]
    PROVE  /\ FirstIds(ids, Len(s)) = VisibleIds(s, k)
           /\ \A i \in 1 .. Len(s) : \A id \in ids[i] : id \in Nat /\ id < InvalidNodeId
           /\ \A i, j \in 1 .. Len(s) : i < j => Before(ids[i], ids[j])
  <1>1. /\ Len(s) \in Nat
        /\ \A i \in 1 .. Len(s) : s[i].data \in Delta /\ Bounded(s[i].data)
    BY LayerFacts
  <1>2. \A i \in 1 .. Len(s) : \A id \in NodeIds(s[i].data, k) :
            id \in NodeIdSpace /\ id \in Nat
    BY <1>1, NodeRange
  <1>3. ASSUME NEW i \in 1 .. Len(s), NEW id \in ids[i]
        PROVE  /\ id \in NodeIds(s[i].data, k) /\ id \in Nat /\ id \in NodeIdSpace
               /\ Visible(s, k, id)
    <2>1. id \in NodeIds(s[i].data, k) /\ RowVisible(s[i], NodeRow(s[i].data, k, id))
      BY DEF Selected
    <2>2. id \in Nat /\ id \in NodeIdSpace
      BY <1>2, <2>1
    <2>3. Visible(s, k, id)
      BY <2>1, <2>2, OneAnswers
    <2> QED BY <2>1, <2>2, <2>3
  <1>4. ASSUME NEW id \in NodeIdSpace, Visible(s, k, id)
        PROVE  \E i \in 1 .. Len(s) : id \in ids[i]
    <2>1. id \in Nat
      BY CapacityAssumption DEF NodeIdSpace
    <2>2. PICK i \in 1 .. Len(s) : id \in NodeIds(s[i].data, k)
      BY <1>4, <2>1, VisibleInLayer
    <2>3. RowVisible(s[i], NodeRow(s[i].data, k, id))
      BY <1>4, <2>1, <2>2, OneAnswers
    <2> QED BY <2>2, <2>3 DEF Selected
  <1>5. FirstIds(ids, Len(s)) = VisibleIds(s, k)
    BY <1>3, <1>4 DEF FirstIds, VisibleIds
  <1>6. \A i \in 1 .. Len(s) :
            /\ s[i].data.nodeBase[k] \in Nat /\ NodeExtent(s[i].data, k) \in Nat
            /\ NodeExtent(s[i].data, k) <= InvalidNodeId
            /\ \A id \in Nat : id \in NodeIds(s[i].data, k) <=>
                                   s[i].data.nodeBase[k] <= id /\ id < NodeExtent(s[i].data, k)
    BY <1>1, NodeRange
  <1>7. ASSUME NEW i \in 1 .. Len(s), NEW id \in ids[i] PROVE id \in Nat /\ id < InvalidNodeId
    <2>1. id \in Nat /\ id < NodeExtent(s[i].data, k)
      BY <1>3, <1>6
    <2> QED BY <1>6, <2>1, CapacityAssumption
  <1>8. ASSUME NEW i \in 1 .. Len(s), NEW j \in 1 .. Len(s), i < j,
               NEW x \in ids[i], NEW y \in ids[j]
        PROVE  x < y
    <2>1. x \in Nat /\ y \in Nat /\ x < NodeExtent(s[i].data, k) /\ s[j].data.nodeBase[k] <= y
      BY <1>3, <1>6
    <2>2. NodeExtent(s[i].data, k) <= s[j].data.nodeBase[k]
      BY <1>8, LayersFollow
    <2> QED BY <1>6, <2>1, <2>2
  <1> QED BY <1>5, <1>7, <1>8 DEF Before

\* Lists of these ids, or of some of them, put one after another.
LayerLists(s, k, good) == [i \in 1 .. Len(s) |-> Ascending(Selected(s, i, k) \cap good)]

LEMMA FlattenLayers ==
    ASSUME NEW s, SnapshotOK(s), NEW k \in Kinds, NEW good,
           NEW flat, flat = FlattenSeq(LayerLists(s, k, good))
    PROVE  /\ flat \in Seq(Nat)
           /\ InOrder(flat, VisibleIds(s, k) \cap good)
  <1>1. PICK n \in Nat : n = Len(s) /\ n # 0
    BY LayerFacts
  <1> DEFINE ids == [i \in 1 .. Len(s) |-> Selected(s, i, k) \cap good]
             lists == LayerLists(s, k, good)
  <1>2. PICK all : all = [i \in 1 .. Len(s) |-> Selected(s, i, k)]
    OBVIOUS
  <1>3. /\ FirstIds(all, Len(s)) = VisibleIds(s, k)
        /\ \A i \in 1 .. Len(s) : \A id \in all[i] : id \in Nat /\ id < InvalidNodeId
        /\ \A i, j \in 1 .. Len(s) : i < j => Before(all[i], all[j])
    BY <1>2, SelectedAreVisible
  <1>4. \A i \in 1 .. n : ids[i] = all[i] \cap good /\ lists[i] = Ascending(ids[i])
    BY <1>1, <1>2 DEF LayerLists
  <1>5. DOMAIN lists = 1 .. n /\ Len(lists) = n
    BY <1>1 DEF LayerLists
  <1> HIDE DEF ids, lists
  <1>6. ASSUME NEW i \in 1 .. n PROVE lists[i] \in Seq(Nat) /\ InOrder(lists[i], ids[i])
    <2>1. ids[i] \in SUBSET (0 .. (InvalidNodeId - 1))
      BY <1>1, <1>3, <1>4, CapacityAssumption
    <2> QED BY <1>4, <2>1, AscendingInOrder, CapacityAssumption
  <1>7. \A i, j \in 1 .. n : i < j => Before(ids[i], ids[j])
    BY <1>1, <1>3, <1>4 DEF Before
  <1>8. Parts(n, lists, ids)
    BY <1>6, <1>7 DEF Parts
  <1>9. FirstIds(ids, n) = FirstIds(all, n) \cap good
    <2>1. \A id : id \in FirstIds(ids, n) <=> \E i \in 1 .. n : id \in ids[i]
      BY DEF FirstIds
    <2>2. \A id : id \in FirstIds(all, n) <=> \E i \in 1 .. n : id \in all[i]
      BY DEF FirstIds
    <2>3. \A id : (\E i \in 1 .. n : id \in ids[i]) <=>
                    id \in good /\ (\E i \in 1 .. n : id \in all[i])
      BY <1>4
    <2> QED BY <2>1, <2>2, <2>3
  <1>10. flat \in Seq(Nat) /\ InOrder(flat, FirstIds(ids, n))
    BY <1>1, <1>5, <1>8, FlattenInOrder DEF lists
  <1> QED BY <1>1, <1>3, <1>9, <1>10

\* What a snapshot selects, from all layers and through whichever indices.
LEMMA SourceCandidatesInOrder ==
    ASSUME NEW s, SnapshotOK(s), NEW k \in Kinds
    PROVE  /\ SourceCandidates(s, k) \in Seq(Nat)
           /\ InOrder(SourceCandidates(s, k), VisibleIds(s, k))
  <1> DEFINE found(i) == IndexedCandidates(s[i].data, k, s[i].worldline, s[i].validAt, s[i].knownAt)
  <1>1. PICK good : good = NodeIdSpace
    OBVIOUS
  <1>2. ASSUME NEW i \in 1 .. Len(s) PROVE found(i) = Selected(s, i, k) \cap good
    <2>1. s[i].data \in Delta /\ Bounded(s[i].data)
      BY LayerFacts
    <2>2. found(i) = Selected(s, i, k)
      BY <2>1, IndexFindsEveryMatch DEF Selected, RowVisible
    <2>3. \A id \in Selected(s, i, k) : id \in good
      BY <1>1, <2>1, NodeRange DEF Selected
    <2> HIDE DEF found
    <2> QED BY <2>2, <2>3
  <1>3. SourceCandidates(s, k) = FlattenSeq(LayerLists(s, k, good))
    BY <1>2 DEF SourceCandidates, LayerLists
  <1> HIDE DEF found
  <1>7. /\ SourceCandidates(s, k) \in Seq(Nat)
        /\ InOrder(SourceCandidates(s, k), VisibleIds(s, k) \cap good)
    BY <1>3, FlattenLayers
  <1>8. VisibleIds(s, k) \cap good = VisibleIds(s, k)
    BY <1>1 DEF VisibleIds
  <1> QED BY <1>7, <1>8

\* What the property indices find for a predicate.
LEMMA PropertyCandidatesInOrder ==
    ASSUME NEW s, SnapshotOK(s), NEW k \in Kinds, NEW accepted
    PROVE  /\ PropertyCandidates(s, k, accepted) \in Seq(Nat)
           /\ InOrder(PropertyCandidates(s, k, accepted),
                      {id \in NodeIdSpace : /\ Visible(s, k, id)
                                            /\ Property(s, k, id).value \in accepted})
  <1> DEFINE found(i) == {id \in PropertyMatches(s[i].data, k, accepted) :
                              Visible(Ancestor(s, i), k, id)}
  <1>1. PICK good : good = {id \in NodeIdSpace : Property(s, k, id).value \in accepted}
    OBVIOUS
  <1>3. ASSUME NEW i \in 1 .. Len(s) PROVE found(i) = Selected(s, i, k) \cap good
    <2>1. s[i].data \in Delta /\ Bounded(s[i].data)
      BY LayerFacts
    <2>2. ASSUME NEW id \in NodeIds(s[i].data, k)
          PROVE  id \in found(i) <=> id \in Selected(s, i, k) \cap good
      <3>1. id \in Nat /\ id \in NodeIdSpace /\ id < NodeExtent(s[i].data, k)
        BY <2>1, NodeRange
      <3>2. Visible(Ancestor(s, i), k, id) <=> Visible(s, k, id)
        BY <3>1, AncestorSees
      <3>3. /\ Visible(s, k, id) <=> RowVisible(s[i], NodeRow(s[i].data, k, id))
            /\ Property(s, k, id) = NodeRow(s[i].data, k, id)
        BY <3>1, OneAnswers
      <3> QED BY <1>1, <3>1, <3>2, <3>3 DEF Selected, PropertyMatches
    <2>3. found(i) \subseteq NodeIds(s[i].data, k) /\ Selected(s, i, k) \subseteq NodeIds(s[i].data, k)
      BY DEF PropertyMatches, Selected
    <2> HIDE DEF found
    <2> QED BY <2>2, <2>3
  <1>6. PropertyCandidates(s, k, accepted) = FlattenSeq(LayerLists(s, k, good))
    BY <1>3 DEF PropertyCandidates, LayerLists
  <1> HIDE DEF found
  <1>7. /\ PropertyCandidates(s, k, accepted) \in Seq(Nat)
        /\ InOrder(PropertyCandidates(s, k, accepted), VisibleIds(s, k) \cap good)
    BY <1>6, FlattenLayers
  <1>8. VisibleIds(s, k) \cap good =
            {id \in NodeIdSpace : Visible(s, k, id) /\ Property(s, k, id).value \in accepted}
    BY <1>1 DEF VisibleIds
  <1> QED BY <1>7, <1>8

\* Whatever was appended and published, every snapshot selects exactly the visible rows,
\* each once and in id order, and a predicate that is looked up selects the same of them
\* as one that is evaluated (snapshot::source_candidates, property_candidates).
THEOREM SelectionStaysExact == Spec => []SelectionIsExact
  <1>1. StoreInvariant => SelectionIsExact
    <2> SUFFICES ASSUME StoreInvariant, NEW s \in published, NEW k \in Kinds
                 PROVE  /\ InOrder(SourceCandidates(s, k), {id \in NodeIdSpace : Visible(s, k, id)})
                        /\ \A accepted \in SUBSET Values :
                               InOrder(PropertyCandidates(s, k, accepted),
                                       {id \in NodeIdSpace :
                                           /\ Visible(s, k, id)
                                           /\ Property(s, k, id).value \in accepted})
      BY DEF SelectionIsExact
    <2>1. SnapshotOK(s)
      BY StoreInvariantSplit
    <2>2. InOrder(SourceCandidates(s, k), VisibleIds(s, k))
      BY <2>1, SourceCandidatesInOrder
    <2> QED BY <2>1, <2>2, PropertyCandidatesInOrder DEF VisibleIds
  <1> QED BY <1>1, StoreIsWellFormed, PTL

-----------------------------------------------------------------------------
(* Traversal. *)

\* One layer numbers an edge of the chain, and no layer after it knows of the edge.
LEMMA EdgeAnswers ==
    ASSUME NEW s, SnapshotOK(s), NEW r \in Relations,
           NEW i \in 1 .. Len(s), NEW e \in EdgeIds(s[i].data, r)
    PROVE  \A m \in 1 .. Len(s) :
               /\ e \in EdgeIds(s[m].data, r) <=> m = i
               /\ /\ HasEdge(s[m].data, r, e)
                  /\ \A j \in (m + 1) .. Len(s) : ~HasEdge(s[j].data, r, e)
                  <=> m = i
  <1>1. /\ Len(s) \in Nat
        /\ \A m \in 1 .. Len(s) : s[m].data \in Delta /\ Bounded(s[m].data)
                                  /\ EdgesWellFormedIn(s[m].data)
    BY LayerFacts
  <1>2. e \in Nat /\ HasEdge(s[i].data, r, e)
    BY <1>1, EdgeRange
  <1>3. \A m \in 1 .. Len(s) : e \in EdgeIds(s[m].data, r) <=>
            s[m].data.edgeBase[r] <= e /\ e < EdgeExtent(s[m].data, r)
    BY <1>1, <1>2, EdgeRange
  <1>4. \A m \in 1 .. Len(s) : HasEdge(s[m].data, r, e) => e \in EdgeIds(s[m].data, r)
    BY <1>3 DEF HasEdge
  <1>5. ASSUME NEW m \in 1 .. Len(s), m # i PROVE e \notin EdgeIds(s[m].data, r)
    <2>1. /\ s[m].data.edgeBase[r] \in Nat /\ EdgeExtent(s[m].data, r) \in Nat
          /\ s[i].data.edgeBase[r] \in Nat /\ EdgeExtent(s[i].data, r) \in Nat
      BY <1>1, EdgeRange
    <2>2. s[i].data.edgeBase[r] <= e /\ e < EdgeExtent(s[i].data, r)
      BY <1>3
    <2>3. CASE m < i
      <3>1. EdgeExtent(s[m].data, r) <= s[i].data.edgeBase[r]
        BY <2>3, LayersFollow
      <3> QED BY <1>2, <1>3, <2>1, <2>2, <3>1
    <2>4. CASE i < m
      <3>1. EdgeExtent(s[i].data, r) <= s[m].data.edgeBase[r]
        BY <2>4, LayersFollow
      <3> QED BY <1>2, <1>3, <2>1, <2>2, <3>1
    <2> QED BY <1>1, <1>5, <2>3, <2>4
  <1>6. \A m \in (i + 1) .. Len(s) : m \in 1 .. Len(s) /\ m # i
    BY <1>1
  <1> QED BY <1>2, <1>4, <1>5, <1>6

\* The ends of the edge are read in that layer.
LEMMA EdgeFound ==
    ASSUME NEW s, SnapshotOK(s), NEW r \in Relations,
           NEW i \in 1 .. Len(s), NEW e \in EdgeIds(s[i].data, r)
    PROVE  /\ EdgeSource(s, r, e) = EdgeRow(s[i].data, r, e).source
           /\ EdgeTarget(s, r, e) = EdgeRow(s[i].data, r, e).target
           /\ e \in ChainEdges(s, r)
  <1> DEFINE Has(m) == /\ HasEdge(s[m].data, r, e)
                       /\ \A j \in (m + 1) .. Len(s) : ~HasEdge(s[j].data, r, e)
  <1>1. \A m \in 1 .. Len(s) : (e \in EdgeIds(s[m].data, r) <=> m = i) /\ (Has(m) <=> m = i)
    BY EdgeAnswers
  <1>2. EdgeTarget(s, r, e) = EdgeRow(s[i].data, r, e).target
    <2> DEFINE m == CHOOSE m \in 1 .. Len(s) : Has(m)
    <2>1. m \in 1 .. Len(s) /\ Has(m)
      BY <1>1
    <2> HIDE DEF m
    <2>2. m = i
      BY <1>1, <2>1
    <2> QED BY <2>2 DEF EdgeTarget, m
  <1>3. EdgeSource(s, r, e) = EdgeRow(s[i].data, r, e).source
    <2> DEFINE m == CHOOSE m \in 1 .. Len(s) : e \in EdgeIds(s[m].data, r)
    <2>1. m \in 1 .. Len(s) /\ e \in EdgeIds(s[m].data, r)
      OBVIOUS
    <2> HIDE DEF m
    <2>2. m = i
      BY <1>1, <2>1
    <2> QED BY <2>2 DEF EdgeSource, m
  <1> QED BY <1>2, <1>3 DEF ChainEdges

\* The edges between visible nodes.
LiveEdges(s, r) ==
    {e \in ChainEdges(s, r) : /\ Visible(s, SourceKind[r], EdgeSource(s, r, e))
                              /\ Visible(s, TargetKind[r], EdgeTarget(s, r, e))}

\* The chosen edges of each layer, and the list a layer has of them.
EdgeParts(s, r, good) == [i \in 1 .. Len(s) |-> EdgeIds(s[i].data, r) \cap good]
EdgeLists(s, r, good) == [i \in 1 .. Len(s) |-> Ascending(EdgeIds(s[i].data, r) \cap good)]

\* These lists follow one another and hold all the chosen edges of the chain.
LEMMA EdgeListsFollow ==
    ASSUME NEW s, SnapshotOK(s), NEW r \in Relations, NEW good, good \subseteq ChainEdges(s, r)
    PROVE  /\ Parts(Len(s), EdgeLists(s, r, good), EdgeParts(s, r, good))
           /\ FirstIds(EdgeParts(s, r, good), Len(s)) = good
  <1>1. PICK n \in Nat : n = Len(s)
    BY LayerFacts
  <1>2. PICK ids : ids = EdgeParts(s, r, good)
    OBVIOUS
  <1>3. PICK lists : lists = EdgeLists(s, r, good)
    OBVIOUS
  <1>4. \A i \in 1 .. n : s[i].data \in Delta /\ Bounded(s[i].data) /\ EdgesWellFormedIn(s[i].data)
    BY <1>1, LayerFacts
  <1>5. \A i \in 1 .. n : /\ s[i].data.edgeBase[r] \in Nat /\ EdgeExtent(s[i].data, r) \in Nat
                          /\ EdgeExtent(s[i].data, r) <= InvalidEdgeId
                          /\ \A e \in EdgeIds(s[i].data, r) :
                                 /\ e \in Nat
                                 /\ s[i].data.edgeBase[r] <= e /\ e < EdgeExtent(s[i].data, r)
    BY <1>4, EdgeRange
  <1>6. \A i \in 1 .. n : ids[i] = EdgeIds(s[i].data, r) \cap good /\ lists[i] = Ascending(ids[i])
    BY <1>1, <1>2, <1>3 DEF EdgeParts, EdgeLists
  <1>7. ASSUME NEW i \in 1 .. n PROVE lists[i] \in Seq(Nat) /\ InOrder(lists[i], ids[i])
    <2>1. \A e \in ids[i] : e \in Nat /\ e < InvalidEdgeId
      BY <1>5, <1>6, CapacityAssumption
    <2>2. ids[i] \in SUBSET (0 .. (InvalidEdgeId - 1))
      BY <2>1, CapacityAssumption
    <2> QED BY <1>6, <2>2, AscendingInOrder, CapacityAssumption
  <1>8. ASSUME NEW i \in 1 .. n, NEW j \in 1 .. n, i < j, NEW x \in ids[i], NEW y \in ids[j]
        PROVE  x < y
    <2>1. x \in Nat /\ y \in Nat /\ x < EdgeExtent(s[i].data, r) /\ s[j].data.edgeBase[r] <= y
      BY <1>5, <1>6
    <2>2. EdgeExtent(s[i].data, r) <= s[j].data.edgeBase[r]
      BY <1>1, <1>8, LayersFollow
    <2> QED BY <1>5, <2>1, <2>2
  <1>9. Parts(n, lists, ids)
    BY <1>7, <1>8 DEF Parts, Before
  <1>10. FirstIds(ids, n) = good
    <2>1. \A e \in good : \E i \in 1 .. n : e \in ids[i]
      BY <1>1, <1>6 DEF ChainEdges
    <2>2. \A i \in 1 .. n : ids[i] \subseteq good
      BY <1>6
    <2> QED BY <2>1, <2>2 DEF FirstIds
  <1> QED BY <1>1, <1>2, <1>3, <1>9, <1>10

\* What a node's outgoing edges are listed as.
OutgoingEdges(s, r, id) == {e \in LiveEdges(s, r) : EdgeSource(s, r, e) = id}

\* The part of one layer, where its snapshot shows the node itself.
LEMMA OutgoingOfLayer ==
    ASSUME NEW s, SnapshotOK(s), NEW r \in Relations, NEW id \in Nat, NEW i \in 1 .. Len(s),
           Visible(Ancestor(s, i), SourceKind[r], id)
    PROVE  {e \in LocalOutgoing(s[i].data, r, id) :
                Visible(Ancestor(s, i), TargetKind[r], EdgeRow(s[i].data, r, e).target)} =
               EdgeIds(s[i].data, r) \cap OutgoingEdges(s, r, id)
  <1>1. s[i].data \in Delta /\ Bounded(s[i].data) /\ EdgesWellFormedIn(s[i].data)
    BY LayerFacts
  <1>2. SourceKind[r] \in Kinds /\ TargetKind[r] \in Kinds
    BY SchemaAssumption
  <1>3. Visible(s, SourceKind[r], id)
    BY <1>2, AncestorSees
  <1>4. ASSUME NEW e \in EdgeIds(s[i].data, r)
        PROVE  /\ EdgeRow(s[i].data, r, e).source = id
               /\ Visible(Ancestor(s, i), TargetKind[r], EdgeRow(s[i].data, r, e).target)
               <=> e \in OutgoingEdges(s, r, id)
    <2>1. PICK far \in Nat : /\ far = EdgeRow(s[i].data, r, e).target
                             /\ far < NodeExtent(s[i].data, TargetKind[r])
      BY <1>1, EdgeRange
    <2>2. Visible(Ancestor(s, i), TargetKind[r], far) <=> Visible(s, TargetKind[r], far)
      BY <1>2, <2>1, AncestorSees
    <2>3. /\ EdgeSource(s, r, e) = EdgeRow(s[i].data, r, e).source
          /\ EdgeTarget(s, r, e) = far
          /\ e \in ChainEdges(s, r)
      BY <2>1, EdgeFound
    <2> QED BY <1>3, <2>1, <2>2, <2>3 DEF OutgoingEdges, LiveEdges
  <1> QED BY <1>4 DEF LocalOutgoing

\* Where the walk stops, the layers passed so far have no edge of the node.
LEMMA NoOutgoingBefore ==
    ASSUME NEW s, SnapshotOK(s), NEW r \in Relations, NEW id \in Nat, NEW i \in 1 .. Len(s),
           ~Visible(Ancestor(s, i), SourceKind[r], id)
    PROVE  FirstIds(EdgeParts(s, r, OutgoingEdges(s, r, id)), i) = {}
  <1> SUFFICES ASSUME NEW j \in 1 .. i, NEW e \in EdgeIds(s[j].data, r), e \in OutgoingEdges(s, r, id)
               PROVE  FALSE
    <2>1. Len(s) \in Nat
      BY LayerFacts
    <2>2. \A j \in 1 .. i : j \in 1 .. Len(s)
      BY <2>1
    <2>3. \A j \in 1 .. i : EdgeParts(s, r, OutgoingEdges(s, r, id))[j] =
                                EdgeIds(s[j].data, r) \cap OutgoingEdges(s, r, id)
      BY <2>2 DEF EdgeParts
    <2> QED BY <2>3 DEF FirstIds
  <1>1. Len(s) \in Nat /\ j \in 1 .. Len(s)
    BY LayerFacts
  <1>2. SourceKind[r] \in Kinds
    BY SchemaAssumption
  <1>3. /\ s[i].data \in Delta /\ Bounded(s[i].data)
        /\ s[j].data \in Delta /\ Bounded(s[j].data) /\ EdgesWellFormedIn(s[j].data)
    BY <1>1, LayerFacts
  <1>4. EdgeRow(s[j].data, r, e).source < NodeExtent(s[j].data, SourceKind[r])
    BY <1>3, EdgeRange
  <1>5. EdgeSource(s, r, e) = EdgeRow(s[j].data, r, e).source
    BY <1>1, EdgeFound
  <1>6. EdgeSource(s, r, e) = id /\ Visible(s, SourceKind[r], id)
    BY DEF OutgoingEdges, LiveEdges
  <1>7. NodeExtent(s[j].data, SourceKind[r]) <= NodeExtent(s[i].data, SourceKind[r])
    <2>1. CASE j = i
      BY <1>2, <1>3, <2>1, NodeRange
    <2>2. CASE j < i
      <3>1. NodeExtent(s[j].data, SourceKind[r]) <= s[i].data.nodeBase[SourceKind[r]]
        BY <1>1, <1>2, <2>2, LayersFollow
      <3>2. /\ NodeExtent(s[j].data, SourceKind[r]) \in Nat
            /\ s[i].data.nodeBase[SourceKind[r]] \in Nat /\ NodeExtent(s[i].data, SourceKind[r]) \in Nat
            /\ s[i].data.nodeBase[SourceKind[r]] <= NodeExtent(s[i].data, SourceKind[r])
        BY <1>2, <1>3, NodeRange
      <3> QED BY <3>1, <3>2
    <2> QED BY <1>1, <2>1, <2>2
  <1>8. id < NodeExtent(s[i].data, SourceKind[r])
    <2>1. /\ NodeExtent(s[j].data, SourceKind[r]) \in Nat
          /\ NodeExtent(s[i].data, SourceKind[r]) \in Nat
      BY <1>2, <1>3, NodeRange
    <2> QED BY <1>4, <1>5, <1>6, <1>7, <2>1
  <1> QED BY <1>2, <1>6, <1>8, AncestorSees

\* What one layer adds to the walk.
OutgoingOfOne(s, r, id, i) ==
    Ascending({e \in LocalOutgoing(s[i].data, r, id) :
        Visible(Ancestor(s, i), TargetKind[r], EdgeRow(s[i].data, r, e).target)})

\* The loop of outgoing has a result, the lists gathered.
OutgoingEnds(s, r, id, n, lists, stops) ==
    \E f : Gathers(n, lists, stops, f) /\ Outgoing(s, r, id) = f[n]

\* The walk over the layers gathers their lists, and starts anew where a snapshot does not
\* show the node.
LEMMA OutgoingGathers ==
    ASSUME NEW s, NEW r, NEW id, NEW n \in Nat, n = Len(s),
           NEW lists, \A i \in 1 .. n : lists[i] \in Seq(Nat),
           NEW stops, \A i \in 1 .. n : i \in stops <=> ~Visible(Ancestor(s, i), SourceKind[r], id),
           \A i \in 1 .. n : i \notin stops => lists[i] = OutgoingOfOne(s, r, id, i)
    PROVE  OutgoingEnds(s, r, id, n, lists, stops)
  <1> DEFINE Turn(f) ==
                [i \in 0 .. Len(s) |->
                    IF i = 0 \/ ~Visible(Ancestor(s, i), SourceKind[r], id)
                    THEN <<>>
                    ELSE f[i - 1] \o
                         Ascending({e \in LocalOutgoing(s[i].data, r, id) :
                             Visible(Ancestor(s, i), TargetKind[r], EdgeRow(s[i].data, r, e).target)})]
             loop == CHOOSE f : f = Turn(f)
  <1>1. Outgoing(s, r, id) = loop[n]
    BY DEF Outgoing
  <1>2. \A f : Turn(f) = [i \in 0 .. n |-> Turn(f)[i]]
    OBVIOUS
  <1>3. \A f : Turn(f)[0] = <<>>
    OBVIOUS
  <1>4. ASSUME NEW f, NEW i \in 1 .. n PROVE Turn(f)[i] = Gather(lists, stops, f, i)
    <2>1. PICK part : part = {e \in LocalOutgoing(s[i].data, r, id) :
                                  Visible(Ancestor(s, i), TargetKind[r], EdgeRow(s[i].data, r, e).target)}
      OBVIOUS
    <2>2. i \in 0 .. n /\ i # 0
      OBVIOUS
    <2>3. Turn(f)[i] = IF ~Visible(Ancestor(s, i), SourceKind[r], id) THEN <<>>
                       ELSE f[i - 1] \o Ascending(part)
      BY <2>1, <2>2
    <2>4. i \notin stops => Ascending(part) = lists[i]
      BY <2>1 DEF OutgoingOfOne
    <2> HIDE DEF Turn
    <2> QED BY <2>3, <2>4 DEF Gather
  <1> HIDE DEF Turn, loop
  <1>5. PICK g \in [0 .. n -> Seq(Nat)] : Gathers(n, lists, stops, g)
    BY GatheringEnds
  <1>6. g = Turn(g)
    <2>1. ASSUME NEW i \in 0 .. n PROVE g[i] = Turn(g)[i]
      <3>1. CASE i = 0
        BY <1>3, <1>5, <3>1 DEF Gathers
      <3>2. CASE i # 0
        <4>1. i \in 1 .. n
          BY <3>2
        <4> QED BY <1>4, <1>5, <4>1 DEF Gathers
      <3> QED BY <3>1, <3>2
    <2>2. g = [i \in 0 .. n |-> g[i]]
      BY <1>5
    <2> QED BY <1>2, <2>1, <2>2
  <1>7. loop = Turn(loop)
    BY <1>6 DEF loop
  <1>8. Gathers(n, lists, stops, loop)
    BY <1>3, <1>4, <1>7 DEF Gathers
  <1> QED BY <1>1, <1>8 DEF OutgoingEnds

\* A snapshot follows the live edges of a node, each once, in the order of their ids.
LEMMA OutgoingInOrder ==
    ASSUME NEW s, SnapshotOK(s), NEW r \in Relations, NEW id \in Nat
    PROVE  /\ Outgoing(s, r, id) \in Seq(Nat)
           /\ InOrder(Outgoing(s, r, id), OutgoingEdges(s, r, id))
  <1>1. PICK n \in Nat : n = Len(s)
    BY LayerFacts
  <1>2. PICK good : good = OutgoingEdges(s, r, id)
    OBVIOUS
  <1>3. PICK ids : ids = EdgeParts(s, r, good)
    OBVIOUS
  <1>4. PICK lists : lists = EdgeLists(s, r, good)
    OBVIOUS
  <1>5. PICK stops : stops = {i \in 1 .. n : ~Visible(Ancestor(s, i), SourceKind[r], id)}
    OBVIOUS
  <1>6. Parts(n, lists, ids) /\ FirstIds(ids, n) = good
    <2>1. good \subseteq ChainEdges(s, r)
      BY <1>2 DEF OutgoingEdges, LiveEdges
    <2> QED BY <1>1, <1>3, <1>4, <2>1, EdgeListsFollow
  <1>7. \A i \in 1 .. n : i \in stops => FirstIds(ids, i) = {}
    BY <1>1, <1>2, <1>3, <1>5, NoOutgoingBefore
  <1>8. ASSUME NEW i \in 1 .. n, i \notin stops
        PROVE  lists[i] = OutgoingOfOne(s, r, id, i)
    <2>1. {e \in LocalOutgoing(s[i].data, r, id) :
              Visible(Ancestor(s, i), TargetKind[r], EdgeRow(s[i].data, r, e).target)} =
          EdgeIds(s[i].data, r) \cap good
      BY <1>1, <1>2, <1>5, <1>8, OutgoingOfLayer
    <2>2. lists[i] = Ascending(EdgeIds(s[i].data, r) \cap good)
      BY <1>1, <1>4 DEF EdgeLists
    <2> QED BY <2>1, <2>2 DEF OutgoingOfOne
  <1>9. PICK f : Gathers(n, lists, stops, f) /\ Outgoing(s, r, id) = f[n]
    <2>1. \A i \in 1 .. n : lists[i] \in Seq(Nat)
      BY <1>6 DEF Parts
    <2>2. \A i \in 1 .. n : i \in stops <=> ~Visible(Ancestor(s, i), SourceKind[r], id)
      BY <1>5
    <2>3. OutgoingEnds(s, r, id, n, lists, stops)
      BY <1>1, <1>8, <2>1, <2>2, OutgoingGathers
    <2> QED BY <2>3 DEF OutgoingEnds
  <1>10. f[n] \in Seq(Nat) /\ InOrder(f[n], FirstIds(ids, n))
    BY <1>6, <1>7, <1>9, GatheredInOrder
  <1> QED BY <1>2, <1>6, <1>9, <1>10

\* What a node's incoming edges are listed as.
IncomingEdges(s, r, id) == {e \in LiveEdges(s, r) : EdgeTarget(s, r, e) = id}

\* The part of one layer, where its snapshot shows the node itself.
LEMMA IncomingOfLayer ==
    ASSUME NEW s, SnapshotOK(s), NEW r \in Relations, NEW id \in Nat, NEW i \in 1 .. Len(s),
           Visible(Ancestor(s, i), TargetKind[r], id)
    PROVE  {e \in LocalIncoming(s[i].data, r, id) :
                Visible(Ancestor(s, i), SourceKind[r], EdgeRow(s[i].data, r, e).source)} =
               EdgeIds(s[i].data, r) \cap IncomingEdges(s, r, id)
  <1>1. s[i].data \in Delta /\ Bounded(s[i].data) /\ EdgesWellFormedIn(s[i].data)
    BY LayerFacts
  <1>2. TargetKind[r] \in Kinds /\ SourceKind[r] \in Kinds
    BY SchemaAssumption
  <1>3. Visible(s, TargetKind[r], id)
    BY <1>2, AncestorSees
  <1>4. ASSUME NEW e \in EdgeIds(s[i].data, r)
        PROVE  /\ EdgeRow(s[i].data, r, e).target = id
               /\ Visible(Ancestor(s, i), SourceKind[r], EdgeRow(s[i].data, r, e).source)
               <=> e \in IncomingEdges(s, r, id)
    <2>1. PICK far \in Nat : /\ far = EdgeRow(s[i].data, r, e).source
                             /\ far < NodeExtent(s[i].data, SourceKind[r])
      BY <1>1, EdgeRange
    <2>2. Visible(Ancestor(s, i), SourceKind[r], far) <=> Visible(s, SourceKind[r], far)
      BY <1>2, <2>1, AncestorSees
    <2>3. /\ EdgeTarget(s, r, e) = EdgeRow(s[i].data, r, e).target
          /\ EdgeSource(s, r, e) = far
          /\ e \in ChainEdges(s, r)
      BY <2>1, EdgeFound
    <2> QED BY <1>3, <2>1, <2>2, <2>3 DEF IncomingEdges, LiveEdges
  <1> QED BY <1>4 DEF LocalIncoming

\* Where the walk stops, the layers passed so far have no edge of the node.
LEMMA NoIncomingBefore ==
    ASSUME NEW s, SnapshotOK(s), NEW r \in Relations, NEW id \in Nat, NEW i \in 1 .. Len(s),
           ~Visible(Ancestor(s, i), TargetKind[r], id)
    PROVE  FirstIds(EdgeParts(s, r, IncomingEdges(s, r, id)), i) = {}
  <1> SUFFICES ASSUME NEW j \in 1 .. i, NEW e \in EdgeIds(s[j].data, r), e \in IncomingEdges(s, r, id)
               PROVE  FALSE
    <2>1. Len(s) \in Nat
      BY LayerFacts
    <2>2. \A j \in 1 .. i : j \in 1 .. Len(s)
      BY <2>1
    <2>3. \A j \in 1 .. i : EdgeParts(s, r, IncomingEdges(s, r, id))[j] =
                                EdgeIds(s[j].data, r) \cap IncomingEdges(s, r, id)
      BY <2>2 DEF EdgeParts
    <2> QED BY <2>3 DEF FirstIds
  <1>1. Len(s) \in Nat /\ j \in 1 .. Len(s)
    BY LayerFacts
  <1>2. TargetKind[r] \in Kinds
    BY SchemaAssumption
  <1>3. /\ s[i].data \in Delta /\ Bounded(s[i].data)
        /\ s[j].data \in Delta /\ Bounded(s[j].data) /\ EdgesWellFormedIn(s[j].data)
    BY <1>1, LayerFacts
  <1>4. EdgeRow(s[j].data, r, e).target < NodeExtent(s[j].data, TargetKind[r])
    BY <1>3, EdgeRange
  <1>5. EdgeTarget(s, r, e) = EdgeRow(s[j].data, r, e).target
    BY <1>1, EdgeFound
  <1>6. EdgeTarget(s, r, e) = id /\ Visible(s, TargetKind[r], id)
    BY DEF IncomingEdges, LiveEdges
  <1>7. NodeExtent(s[j].data, TargetKind[r]) <= NodeExtent(s[i].data, TargetKind[r])
    <2>1. CASE j = i
      BY <1>2, <1>3, <2>1, NodeRange
    <2>2. CASE j < i
      <3>1. NodeExtent(s[j].data, TargetKind[r]) <= s[i].data.nodeBase[TargetKind[r]]
        BY <1>1, <1>2, <2>2, LayersFollow
      <3>2. /\ NodeExtent(s[j].data, TargetKind[r]) \in Nat
            /\ s[i].data.nodeBase[TargetKind[r]] \in Nat /\ NodeExtent(s[i].data, TargetKind[r]) \in Nat
            /\ s[i].data.nodeBase[TargetKind[r]] <= NodeExtent(s[i].data, TargetKind[r])
        BY <1>2, <1>3, NodeRange
      <3> QED BY <3>1, <3>2
    <2> QED BY <1>1, <2>1, <2>2
  <1>8. id < NodeExtent(s[i].data, TargetKind[r])
    <2>1. /\ NodeExtent(s[j].data, TargetKind[r]) \in Nat
          /\ NodeExtent(s[i].data, TargetKind[r]) \in Nat
      BY <1>2, <1>3, NodeRange
    <2> QED BY <1>4, <1>5, <1>6, <1>7, <2>1
  <1> QED BY <1>2, <1>6, <1>8, AncestorSees

LEMMA IncomingInOrder ==
    ASSUME NEW s, SnapshotOK(s), NEW r \in Relations, NEW id \in Nat
    PROVE  /\ Incoming(s, r, id) \in Seq(Nat)
           /\ InOrder(Incoming(s, r, id), IncomingEdges(s, r, id))
  <1>1. PICK n \in Nat : n = Len(s)
    BY LayerFacts
  <1>2. PICK good : good = IncomingEdges(s, r, id)
    OBVIOUS
  <1>3. PICK ids : ids = EdgeParts(s, r, good)
    OBVIOUS
  <1>4. PICK lists : lists = EdgeLists(s, r, good)
    OBVIOUS
  <1>5. PICK stops : stops = {i \in 1 .. n : ~Visible(Ancestor(s, i), TargetKind[r], id)}
    OBVIOUS
  <1>6. Parts(n, lists, ids) /\ FirstIds(ids, n) = good
    <2>1. good \subseteq ChainEdges(s, r)
      BY <1>2 DEF IncomingEdges, LiveEdges
    <2> QED BY <1>1, <1>3, <1>4, <2>1, EdgeListsFollow
  <1>7. \A i \in 1 .. n : i \in stops => FirstIds(ids, i) = {}
    BY <1>1, <1>2, <1>3, <1>5, NoIncomingBefore
  <1> DEFINE Turn(f) ==
                [i \in 0 .. Len(s) |->
                    IF i = 0 \/ ~Visible(Ancestor(s, i), TargetKind[r], id)
                    THEN <<>>
                    ELSE f[i - 1] \o
                         Ascending({e \in LocalIncoming(s[i].data, r, id) :
                             Visible(Ancestor(s, i), SourceKind[r], EdgeRow(s[i].data, r, e).source)})]
             loop == CHOOSE f : f = Turn(f)
  <1>8. Incoming(s, r, id) = loop[n]
    BY <1>1 DEF Incoming
  <1>9. \A f : Turn(f) = [i \in 0 .. n |-> Turn(f)[i]]
    BY <1>1
  <1>10. \A f : Turn(f)[0] = <<>>
    BY <1>1
  <1>11. ASSUME NEW f, NEW i \in 1 .. n PROVE Turn(f)[i] = Gather(lists, stops, f, i)
    <2>1. PICK part : part = {e \in LocalIncoming(s[i].data, r, id) :
                                  Visible(Ancestor(s, i), SourceKind[r], EdgeRow(s[i].data, r, e).source)}
      OBVIOUS
    <2>2. i \in 0 .. n /\ i # 0
      OBVIOUS
    <2>3. Turn(f)[i] = IF ~Visible(Ancestor(s, i), TargetKind[r], id) THEN <<>>
                       ELSE f[i - 1] \o Ascending(part)
      BY <1>1, <2>1, <2>2
    <2>4. i \in stops <=> ~Visible(Ancestor(s, i), TargetKind[r], id)
      BY <1>5
    <2>5. ASSUME i \notin stops PROVE Ascending(part) = lists[i]
      <3>1. part = EdgeIds(s[i].data, r) \cap good
        BY <1>1, <1>2, <2>1, <2>4, <2>5, IncomingOfLayer
      <3>2. lists[i] = Ascending(EdgeIds(s[i].data, r) \cap good)
        BY <1>1, <1>4 DEF EdgeLists
      <3> QED BY <3>1, <3>2
    <2> HIDE DEF Turn
    <2> QED BY <2>3, <2>4, <2>5 DEF Gather
  <1> HIDE DEF Turn, loop
  <1>12. PICK g \in [0 .. n -> Seq(Nat)] : Gathers(n, lists, stops, g)
    <2>1. \A i \in 1 .. n : lists[i] \in Seq(Nat)
      BY <1>6 DEF Parts
    <2> QED BY <2>1, GatheringEnds
  <1>13. g = Turn(g)
    <2>1. ASSUME NEW i \in 0 .. n PROVE g[i] = Turn(g)[i]
      <3>1. CASE i = 0
        BY <1>10, <1>12, <3>1 DEF Gathers
      <3>2. CASE i # 0
        <4>1. i \in 1 .. n
          BY <3>2
        <4> QED BY <1>11, <1>12, <4>1 DEF Gathers
      <3> QED BY <3>1, <3>2
    <2>2. g = [i \in 0 .. n |-> g[i]]
      BY <1>12
    <2> QED BY <1>9, <2>1, <2>2
  <1>14. loop = Turn(loop)
    BY <1>13 DEF loop
  <1>15. Gathers(n, lists, stops, loop)
    BY <1>10, <1>11, <1>14 DEF Gathers
  <1>16. loop[n] \in Seq(Nat) /\ InOrder(loop[n], FirstIds(ids, n))
    BY <1>6, <1>7, <1>15, GatheredInOrder
  <1> QED BY <1>2, <1>6, <1>8, <1>16

\* Whatever was appended and published, walking forward and backward see the same edges,
\* each once and in id order, and edge_target names the end that incoming starts from
\* (snapshot::outgoing, incoming, edge_target).
THEOREM TraversalStaysExact == Spec => []TraversalIsExact
  <1>1. StoreInvariant => TraversalIsExact
    <2> SUFFICES ASSUME StoreInvariant, NEW s \in published, NEW r \in Relations,
                        NEW id \in NodeIdSpace
                 PROVE  /\ InOrder(Outgoing(s, r, id), {e \in LiveEdges(s, r) : EdgeSource(s, r, e) = id})
                        /\ InOrder(Incoming(s, r, id), {e \in LiveEdges(s, r) : EdgeTarget(s, r, e) = id})
      BY DEF TraversalIsExact, LiveEdges
    <2>1. SnapshotOK(s)
      BY StoreInvariantSplit
    <2>2. id \in Nat
      BY CapacityAssumption DEF NodeIdSpace
    <2>3. InOrder(Outgoing(s, r, id), OutgoingEdges(s, r, id))
      BY <2>1, <2>2, OutgoingInOrder
    <2>4. InOrder(Incoming(s, r, id), IncomingEdges(s, r, id))
      BY <2>1, <2>2, IncomingInOrder
    <2> QED BY <2>3, <2>4 DEF OutgoingEdges, IncomingEdges
  <1> QED BY <1>1, StoreIsWellFormed, PTL

-----------------------------------------------------------------------------
(* Branches add to their parents. *)

\* What a view is made of.
LEMMA ViewNodes ==
    ASSUME NEW s, NEW k \in Kinds
    PROVE  ViewOf(s).nodes[k] = {<<id, Property(s, k, id)>> : id \in VisibleIds(s, k)}
  BY DEF ViewOf, VisibleIds

LEMMA ViewEdges ==
    ASSUME NEW s, SnapshotOK(s), NEW r \in Relations
    PROVE  /\ ViewOf(s).edges[r] =
                  {<<e, EdgeSource(s, r, e), EdgeTarget(s, r, e)>> : e \in LiveEdges(s, r)}
           /\ \A e \in LiveEdges(s, r) : /\ EdgeSource(s, r, e) \in VisibleIds(s, SourceKind[r])
                                         /\ EdgeTarget(s, r, e) \in VisibleIds(s, TargetKind[r])
  <1>1. SourceKind[r] \in Kinds /\ TargetKind[r] \in Kinds
    BY SchemaAssumption
  <1>2. ASSUME NEW e \in LiveEdges(s, r)
        PROVE  /\ EdgeSource(s, r, e) \in VisibleIds(s, SourceKind[r])
               /\ EdgeTarget(s, r, e) \in VisibleIds(s, TargetKind[r])
    <2>1. PICK i \in 1 .. Len(s) : e \in EdgeIds(s[i].data, r)
      BY DEF LiveEdges, ChainEdges
    <2>2. s[i].data \in Delta /\ Bounded(s[i].data) /\ EdgesWellFormedIn(s[i].data)
      BY LayerFacts
    <2>3. PICK source, target \in Nat :
              /\ source = EdgeSource(s, r, e) /\ target = EdgeTarget(s, r, e)
              /\ source < NodeExtent(s[i].data, SourceKind[r])
              /\ target < NodeExtent(s[i].data, TargetKind[r])
      BY <2>1, <2>2, EdgeFound, EdgeRange
    <2>4. /\ NodeExtent(s[i].data, SourceKind[r]) \in Nat
          /\ NodeExtent(s[i].data, TargetKind[r]) \in Nat
          /\ NodeExtent(s[i].data, SourceKind[r]) <= InvalidNodeId
          /\ NodeExtent(s[i].data, TargetKind[r]) <= InvalidNodeId
      BY <1>1, <2>2, NodeRange
    <2>5. source \in NodeIdSpace /\ target \in NodeIdSpace
      BY <2>3, <2>4, CapacityAssumption DEF NodeIdSpace
    <2> QED BY <2>3, <2>5 DEF LiveEdges, VisibleIds
  <1>3. \A id \in NodeIdSpace : Range(Outgoing(s, r, id)) = OutgoingEdges(s, r, id)
    <2>1. \A id \in NodeIdSpace : id \in Nat
      BY CapacityAssumption DEF NodeIdSpace
    <2> QED BY <2>1, OutgoingInOrder DEF InOrder
  <1>4. ViewOf(s).edges[r] =
            UNION {{<<e, id, EdgeTarget(s, r, e)>> : e \in Range(Outgoing(s, r, id))} :
                   id \in NodeIdSpace}
    BY DEF ViewOf
  <1>5. ViewOf(s).edges[r] =
            UNION {{<<e, id, EdgeTarget(s, r, e)>> : e \in OutgoingEdges(s, r, id)} :
                   id \in NodeIdSpace}
    BY <1>3, <1>4
  <1>6. \A e \in LiveEdges(s, r) : EdgeSource(s, r, e) \in NodeIdSpace
    BY <1>2 DEF VisibleIds
  <1>7. ViewOf(s).edges[r] =
            {<<e, EdgeSource(s, r, e), EdgeTarget(s, r, e)>> : e \in LiveEdges(s, r)}
    <2>1. ASSUME NEW x \in ViewOf(s).edges[r]
          PROVE  \E e \in LiveEdges(s, r) : x = <<e, EdgeSource(s, r, e), EdgeTarget(s, r, e)>>
      <3>1. PICK id \in NodeIdSpace : \E e \in OutgoingEdges(s, r, id) :
                                          x = <<e, id, EdgeTarget(s, r, e)>>
        BY <1>5
      <3> QED BY <3>1 DEF OutgoingEdges
    <2>2. ASSUME NEW e \in LiveEdges(s, r)
          PROVE  <<e, EdgeSource(s, r, e), EdgeTarget(s, r, e)>> \in ViewOf(s).edges[r]
      <3>1. PICK id \in NodeIdSpace : id = EdgeSource(s, r, e)
        BY <1>6
      <3>2. e \in OutgoingEdges(s, r, id)
        BY <3>1 DEF OutgoingEdges
      <3> QED BY <1>5, <3>1, <3>2
    <2> QED BY <2>1, <2>2
  <1> QED BY <1>2, <1>7

\* No id seen reaches the extent.
LEMMA BelowExtent ==
    ASSUME NEW s, SnapshotOK(s)
    PROVE  /\ \A k \in Kinds : \A id \in VisibleIds(s, k) :
                  id \in Nat /\ id < ViewOf(s).nodeExtent[k]
           /\ \A r \in Relations : \A e \in ChainEdges(s, r) :
                  e \in Nat /\ e < ViewOf(s).edgeExtent[r]
  <1>1. PICK n \in Nat : n = Len(s) /\ n \in 1 .. n /\ Last(s) = s[n]
    BY LayerFacts
  <1>2. \A i \in 1 .. n : s[i].data \in Delta /\ Bounded(s[i].data) /\ EdgesWellFormedIn(s[i].data)
    BY <1>1, LayerFacts
  <1>3. ASSUME NEW k \in Kinds, NEW id \in VisibleIds(s, k)
        PROVE  id \in Nat /\ id < ViewOf(s).nodeExtent[k]
    <2>1. id \in Nat /\ Visible(s, k, id)
      BY CapacityAssumption DEF VisibleIds, NodeIdSpace
    <2>2. PICK i \in 1 .. n : id \in NodeIds(s[i].data, k)
      BY <1>1, <2>1, VisibleInLayer
    <2>3. /\ NodeExtent(s[i].data, k) \in Nat /\ id < NodeExtent(s[i].data, k)
          /\ s[n].data.nodeBase[k] \in Nat /\ NodeExtent(s[n].data, k) \in Nat
          /\ s[n].data.nodeBase[k] <= NodeExtent(s[n].data, k)
      BY <1>1, <1>2, <2>1, <2>2, NodeRange
    <2>4. id < NodeExtent(s[n].data, k)
      <3>1. CASE i = n
        BY <2>3, <3>1
      <3>2. CASE i < n
        <4>1. NodeExtent(s[i].data, k) <= s[n].data.nodeBase[k]
          BY <1>1, <3>2, LayersFollow
        <4> QED BY <2>1, <2>3, <4>1
      <3> QED BY <3>1, <3>2
    <2>5. ViewOf(s).nodeExtent[k] = NodeExtent(s[n].data, k)
      BY <1>1 DEF ViewOf, NodeExtents
    <2> QED BY <2>1, <2>4, <2>5
  <1>4. ASSUME NEW r \in Relations, NEW e \in ChainEdges(s, r)
        PROVE  e \in Nat /\ e < ViewOf(s).edgeExtent[r]
    <2>1. PICK i \in 1 .. n : e \in EdgeIds(s[i].data, r)
      BY <1>1 DEF ChainEdges
    <2>2. e \in Nat
      BY <1>2, <2>1, EdgeRange
    <2>3. /\ EdgeExtent(s[i].data, r) \in Nat /\ e < EdgeExtent(s[i].data, r)
          /\ s[n].data.edgeBase[r] \in Nat /\ EdgeExtent(s[n].data, r) \in Nat
          /\ s[n].data.edgeBase[r] <= EdgeExtent(s[n].data, r)
      BY <1>1, <1>2, <2>1, <2>2, EdgeRange
    <2>4. e < EdgeExtent(s[n].data, r)
      <3>1. CASE i = n
        BY <2>3, <3>1
      <3>2. CASE i < n
        <4>1. EdgeExtent(s[i].data, r) <= s[n].data.edgeBase[r]
          BY <1>1, <3>2, LayersFollow
        <4> QED BY <2>2, <2>3, <4>1
      <3> QED BY <3>1, <3>2
    <2>5. ViewOf(s).edgeExtent[r] = EdgeExtent(s[n].data, r)
      BY <1>1 DEF ViewOf, EdgeExtents
    <2> QED BY <2>2, <2>4, <2>5
  <1> QED BY <1>3, <1>4

\* Every snapshot shows a graph.
LEMMA ViewIsGraph ==
    ASSUME NEW s, SnapshotOK(s)
    PROVE  Views!IsGraph(ViewOf(s))
  <1>1. PICK view : view = ViewOf(s)
    OBVIOUS
  <1>2. ASSUME NEW k \in Kinds, NEW m \in view.nodes[k], NEW n \in view.nodes[k]
        PROVE  m[1] < view.nodeExtent[k] /\ (m[1] = n[1] => m = n)
    <2>1. PICK id \in VisibleIds(s, k) : m = <<id, Property(s, k, id)>>
      BY <1>1, ViewNodes
    <2>2. PICK other \in VisibleIds(s, k) : n = <<other, Property(s, k, other)>>
      BY <1>1, ViewNodes
    <2>3. id < view.nodeExtent[k]
      BY <1>1, BelowExtent
    <2> QED BY <2>1, <2>2, <2>3
  <1>3. ASSUME NEW k \in Kinds, NEW id \in VisibleIds(s, k) PROVE Views!Shows(view, k, id)
    <2>1. <<id, Property(s, k, id)>> \in view.nodes[k]
      BY <1>1, ViewNodes
    <2> QED BY <2>1 DEF Views!Shows
  <1>4. ASSUME NEW r \in Relations, NEW e \in view.edges[r], NEW f \in view.edges[r]
        PROVE  /\ e[1] < view.edgeExtent[r]
               /\ e[1] = f[1] => e = f
               /\ Views!Shows(view, SourceKind[r], e[2])
               /\ Views!Shows(view, TargetKind[r], e[3])
    <2>1. PICK edge \in LiveEdges(s, r) :
              e = <<edge, EdgeSource(s, r, edge), EdgeTarget(s, r, edge)>>
      BY <1>1, ViewEdges
    <2>2. PICK other \in LiveEdges(s, r) :
              f = <<other, EdgeSource(s, r, other), EdgeTarget(s, r, other)>>
      BY <1>1, ViewEdges
    <2>3. edge < view.edgeExtent[r]
      BY <1>1, BelowExtent DEF LiveEdges
    <2>4. /\ EdgeSource(s, r, edge) \in VisibleIds(s, SourceKind[r])
          /\ EdgeTarget(s, r, edge) \in VisibleIds(s, TargetKind[r])
          /\ SourceKind[r] \in Kinds /\ TargetKind[r] \in Kinds
      BY ViewEdges, SchemaAssumption
    <2>5. /\ Views!Shows(view, SourceKind[r], EdgeSource(s, r, edge))
          /\ Views!Shows(view, TargetKind[r], EdgeTarget(s, r, edge))
      BY <1>3, <2>4
    <2>6. e[1] = edge /\ e[2] = EdgeSource(s, r, edge) /\ e[3] = EdgeTarget(s, r, edge)
      BY <2>1
    <2>7. f[1] = other
      BY <2>2
    <2>8. e[1] = f[1] => e = f
      BY <2>1, <2>2, <2>6, <2>7
    <2> QED BY <2>3, <2>5, <2>6, <2>8
  <1>5. Views!IsGraph(view)
    BY <1>2, <1>4 DEF Views!IsGraph
  <1> QED BY <1>1, <1>5

\* A snapshot adds to the one below it: of what that one numbers it shows the same.
LEMMA ViewAdds ==
    ASSUME NEW s, SnapshotOK(s), Len(s) > 1
    PROVE  Views!AddsTo(ViewOf(s), ViewOf(Ancestor(s, Len(s) - 1)))
  <1>1. PICK n \in Nat : n = Len(s) /\ n - 1 \in 1 .. n /\ n \in 1 .. n /\ Last(s) = s[n] /\ n - 1 < n
    BY LayerFacts
  <1>2. PICK p : /\ p = Ancestor(s, n - 1) /\ SnapshotOK(p) /\ Len(p) = n - 1
                 /\ \A j \in 1 .. (n - 1) : p[j] = s[j]
    BY <1>1, AncestorOK
  <1>3. /\ \A i \in 1 .. n : s[i].data \in Delta /\ Bounded(s[i].data) /\ EdgesWellFormedIn(s[i].data)
        /\ Last(p) = s[n - 1]
    <2>1. Last(p) = p[n - 1] /\ n - 1 \in 1 .. (n - 1)
      BY <1>2, LayerFacts
    <2> QED BY <1>1, <1>2, <2>1, LayerFacts
  <1>4. \A j \in 1 .. (n - 1) : j \in 1 .. n
    OBVIOUS
  <1>5. PICK view : view = ViewOf(s)
    OBVIOUS
  <1>6. PICK parent : parent = ViewOf(p)
    OBVIOUS
  <1>7. ASSUME NEW k \in Kinds
        PROVE  /\ parent.nodeExtent[k] = NodeExtent(s[n - 1].data, k)
               /\ parent.nodeExtent[k] <= view.nodeExtent[k]
    <2>1. /\ parent.nodeExtent[k] = NodeExtent(s[n - 1].data, k)
          /\ view.nodeExtent[k] = NodeExtent(s[n].data, k)
      BY <1>1, <1>3, <1>5, <1>6 DEF ViewOf, NodeExtents
    <2>2. NodeExtent(s[n - 1].data, k) <= s[n].data.nodeBase[k]
      BY <1>1, LayersFollow
    <2>3. /\ NodeExtent(s[n - 1].data, k) \in Nat /\ s[n].data.nodeBase[k] \in Nat
          /\ NodeExtent(s[n].data, k) \in Nat /\ s[n].data.nodeBase[k] <= NodeExtent(s[n].data, k)
      BY <1>1, <1>3, NodeRange
    <2> QED BY <2>1, <2>2, <2>3
  <1>8. ASSUME NEW r \in Relations
        PROVE  /\ parent.edgeExtent[r] = EdgeExtent(s[n - 1].data, r)
               /\ parent.edgeExtent[r] <= view.edgeExtent[r]
    <2>1. /\ parent.edgeExtent[r] = EdgeExtent(s[n - 1].data, r)
          /\ view.edgeExtent[r] = EdgeExtent(s[n].data, r)
      BY <1>1, <1>3, <1>5, <1>6 DEF ViewOf, EdgeExtents
    <2>2. EdgeExtent(s[n - 1].data, r) <= s[n].data.edgeBase[r]
      BY <1>1, LayersFollow
    <2>3. /\ EdgeExtent(s[n - 1].data, r) \in Nat /\ s[n].data.edgeBase[r] \in Nat
          /\ EdgeExtent(s[n].data, r) \in Nat /\ s[n].data.edgeBase[r] <= EdgeExtent(s[n].data, r)
      BY <1>1, <1>3, EdgeRange
    <2> QED BY <2>1, <2>2, <2>3
  <1>9. ASSUME NEW k \in Kinds, NEW id \in Nat
        PROVE  /\ Visible(p, k, id) <=> Visible(s, k, id) /\ id < parent.nodeExtent[k]
               /\ Visible(p, k, id) => Property(p, k, id) = Property(s, k, id)
    <2>1. Visible(p, k, id) <=> Visible(s, k, id) /\ id < parent.nodeExtent[k]
      BY <1>1, <1>2, <1>7, AncestorSees
    <2>2. ASSUME Visible(p, k, id) PROVE Property(p, k, id) = Property(s, k, id)
      <3>1. PICK i \in 1 .. (n - 1) : id \in NodeIds(p[i].data, k)
        BY <1>2, <2>2, VisibleInLayer
      <3>2. p[i] = s[i] /\ i \in 1 .. Len(p) /\ i \in 1 .. Len(s)
        BY <1>1, <1>2, <1>4
      <3> QED BY <1>2, <3>1, <3>2, OneAnswers
    <2> QED BY <2>1, <2>2
  <1>10. ASSUME NEW k \in Kinds
         PROVE  {node \in view.nodes[k] : node[1] < parent.nodeExtent[k]} = parent.nodes[k]
    <2>1. \A id : id \in VisibleIds(p, k) <=> id \in VisibleIds(s, k) /\ id < parent.nodeExtent[k]
      BY <1>9, CapacityAssumption DEF VisibleIds, NodeIdSpace
    <2>2. \A id \in VisibleIds(p, k) : Property(p, k, id) = Property(s, k, id)
      BY <1>9, CapacityAssumption DEF VisibleIds, NodeIdSpace
    <2>3. view.nodes[k] = {<<id, Property(s, k, id)>> : id \in VisibleIds(s, k)}
      BY <1>5, ViewNodes
    <2>4. parent.nodes[k] = {<<id, Property(p, k, id)>> : id \in VisibleIds(p, k)}
      BY <1>6, ViewNodes
    <2>5. ASSUME NEW node \in view.nodes[k], node[1] < parent.nodeExtent[k]
          PROVE  node \in parent.nodes[k]
      <3>1. PICK id \in VisibleIds(s, k) : node = <<id, Property(s, k, id)>>
        BY <2>3
      <3>2. id \in VisibleIds(p, k)
        BY <2>1, <2>5, <3>1
      <3> QED BY <2>2, <2>4, <3>1, <3>2
    <2>6. ASSUME NEW node \in parent.nodes[k]
          PROVE  node \in view.nodes[k] /\ node[1] < parent.nodeExtent[k]
      <3>1. PICK id \in VisibleIds(p, k) : node = <<id, Property(p, k, id)>>
        BY <2>4
      <3>2. id \in VisibleIds(s, k) /\ id < parent.nodeExtent[k]
        BY <2>1
      <3> QED BY <2>2, <2>3, <3>1, <3>2
    <2> QED BY <2>5, <2>6
  <1>11. ASSUME NEW r \in Relations, NEW i \in 1 .. (n - 1), NEW e \in EdgeIds(s[i].data, r)
         PROVE  /\ EdgeSource(p, r, e) = EdgeSource(s, r, e)
                /\ EdgeTarget(p, r, e) = EdgeTarget(s, r, e)
                /\ e \in ChainEdges(p, r) /\ e \in ChainEdges(s, r)
                /\ e < parent.edgeExtent[r]
                /\ e \in LiveEdges(p, r) <=> e \in LiveEdges(s, r)
    <2>1. p[i] = s[i] /\ i \in 1 .. Len(p) /\ i \in 1 .. Len(s)
      BY <1>1, <1>2, <1>4
    <2>2. /\ EdgeSource(s, r, e) = EdgeRow(s[i].data, r, e).source
          /\ EdgeTarget(s, r, e) = EdgeRow(s[i].data, r, e).target
          /\ e \in ChainEdges(s, r)
      BY <2>1, EdgeFound
    <2>3. /\ EdgeSource(p, r, e) = EdgeRow(s[i].data, r, e).source
          /\ EdgeTarget(p, r, e) = EdgeRow(s[i].data, r, e).target
          /\ e \in ChainEdges(p, r)
      <3>1. e \in EdgeIds(p[i].data, r)
        BY <2>1
      <3> QED BY <1>2, <2>1, <3>1, EdgeFound
    <2>4. e < parent.edgeExtent[r]
      BY <1>2, <1>6, <2>3, BelowExtent
    <2>5. SourceKind[r] \in Kinds /\ TargetKind[r] \in Kinds
      BY SchemaAssumption
    <2>6. s[i].data \in Delta /\ Bounded(s[i].data) /\ EdgesWellFormedIn(s[i].data)
      BY <1>3, <1>4
    <2>7. PICK source, target \in Nat :
              /\ source = EdgeRow(s[i].data, r, e).source /\ target = EdgeRow(s[i].data, r, e).target
              /\ source < NodeExtent(s[i].data, SourceKind[r])
              /\ target < NodeExtent(s[i].data, TargetKind[r])
      BY <2>6, EdgeRange
    <2>8. \A k \in Kinds : /\ NodeExtent(s[i].data, k) \in Nat
                           /\ parent.nodeExtent[k] \in Nat
                           /\ NodeExtent(s[i].data, k) <= parent.nodeExtent[k]
      <3> SUFFICES ASSUME NEW k \in Kinds
                   PROVE  /\ NodeExtent(s[i].data, k) \in Nat
                          /\ parent.nodeExtent[k] \in Nat
                          /\ NodeExtent(s[i].data, k) <= parent.nodeExtent[k]
        OBVIOUS
      <3>1. /\ NodeExtent(s[i].data, k) \in Nat /\ NodeExtent(s[n - 1].data, k) \in Nat
            /\ s[n - 1].data.nodeBase[k] \in Nat
            /\ s[n - 1].data.nodeBase[k] <= NodeExtent(s[n - 1].data, k)
        BY <1>1, <1>3, <2>6, NodeRange
      <3>2. CASE i = n - 1
        BY <1>7, <3>1, <3>2
      <3>3. CASE i < n - 1
        <4>1. NodeExtent(s[i].data, k) <= s[n - 1].data.nodeBase[k]
          BY <1>1, <2>1, <3>3, LayersFollow
        <4> QED BY <1>7, <3>1, <4>1
      <3> QED BY <3>2, <3>3
    <2>9. /\ source < parent.nodeExtent[SourceKind[r]]
          /\ target < parent.nodeExtent[TargetKind[r]]
      BY <2>5, <2>7, <2>8
    <2>10. /\ Visible(p, SourceKind[r], source) <=> Visible(s, SourceKind[r], source)
           /\ Visible(p, TargetKind[r], target) <=> Visible(s, TargetKind[r], target)
      BY <1>9, <2>5, <2>7, <2>9
    <2> QED BY <2>2, <2>3, <2>4, <2>7, <2>10 DEF LiveEdges
  <1>12. ASSUME NEW r \in Relations
         PROVE  {edge \in view.edges[r] : edge[1] < parent.edgeExtent[r]} = parent.edges[r]
    <2>1. view.edges[r] = {<<e, EdgeSource(s, r, e), EdgeTarget(s, r, e)>> : e \in LiveEdges(s, r)}
      BY <1>5, ViewEdges
    <2>2. parent.edges[r] = {<<e, EdgeSource(p, r, e), EdgeTarget(p, r, e)>> : e \in LiveEdges(p, r)}
      BY <1>2, <1>6, ViewEdges
    <2>3. ASSUME NEW edge \in view.edges[r], edge[1] < parent.edgeExtent[r]
          PROVE  edge \in parent.edges[r]
      <3>1. PICK e \in LiveEdges(s, r) : edge = <<e, EdgeSource(s, r, e), EdgeTarget(s, r, e)>>
        BY <2>1
      <3>2. PICK i \in 1 .. n : e \in EdgeIds(s[i].data, r)
        BY <1>1 DEF LiveEdges, ChainEdges
      <3>3. i # n
        <4> SUFFICES ASSUME i = n PROVE FALSE
          OBVIOUS
        <4>1. e \in Nat /\ s[n].data.edgeBase[r] \in Nat /\ s[n].data.edgeBase[r] <= e
          BY <1>3, <3>2, EdgeRange
        <4>2. /\ EdgeExtent(s[n - 1].data, r) <= s[n].data.edgeBase[r]
              /\ EdgeExtent(s[n - 1].data, r) \in Nat
          BY <1>1, <1>3, LayersFollow, EdgeRange
        <4>3. e < EdgeExtent(s[n - 1].data, r)
          BY <1>8, <2>3, <3>1
        <4> QED BY <4>1, <4>2, <4>3
      <3>4. i \in 1 .. (n - 1)
        BY <3>3
      <3>5. /\ EdgeSource(p, r, e) = EdgeSource(s, r, e) /\ EdgeTarget(p, r, e) = EdgeTarget(s, r, e)
            /\ e \in LiveEdges(p, r)
        BY <1>11, <3>2, <3>4
      <3> QED BY <2>2, <3>1, <3>5
    <2>4. ASSUME NEW edge \in parent.edges[r]
          PROVE  edge \in view.edges[r] /\ edge[1] < parent.edgeExtent[r]
      <3>1. PICK e \in LiveEdges(p, r) : edge = <<e, EdgeSource(p, r, e), EdgeTarget(p, r, e)>>
        BY <2>2
      <3>2. PICK i \in 1 .. (n - 1) : e \in EdgeIds(s[i].data, r)
        BY <1>2 DEF LiveEdges, ChainEdges
      <3>3. /\ EdgeSource(p, r, e) = EdgeSource(s, r, e) /\ EdgeTarget(p, r, e) = EdgeTarget(s, r, e)
            /\ e \in LiveEdges(s, r) /\ e < parent.edgeExtent[r]
        BY <1>11, <3>2
      <3> QED BY <2>1, <3>1, <3>3
    <2> QED BY <2>3, <2>4
  <1>13. Views!AddsTo(view, parent)
    BY <1>7, <1>8, <1>10, <1>12 DEF Views!AddsTo
  <1> QED BY <1>1, <1>2, <1>5, <1>6, <1>13

\* The chain of a snapshot ends in what the snapshot shows, and goes on from its parent's.
LEMMA ChainFacts ==
    ASSUME NEW s, SnapshotOK(s)
    PROVE  /\ Len(ChainOf(s)) = Len(s)
           /\ Views!Top(ChainOf(s)) = ViewOf(s)
           /\ Len(s) > 1 => /\ Views!Prefix(ChainOf(s)) = ChainOf(Ancestor(s, Len(s) - 1))
                            /\ Views!Top(Views!Prefix(ChainOf(s))) =
                                   ViewOf(Ancestor(s, Len(s) - 1))
  <1>1. PICK n \in Nat : n = Len(s) /\ n >= 1
    BY LayerFacts
  <1>2. PICK chain : chain = ChainOf(s)
    OBVIOUS
  <1>3. chain = [i \in 1 .. n |-> ViewOf(Ancestor(s, i))]
    BY <1>1, <1>2 DEF ChainOf
  <1>4. Len(chain) = n /\ \A i \in 1 .. n : chain[i] = ViewOf(Ancestor(s, i))
    BY <1>3
  <1>5. Ancestor(s, n) = s
    <2>1. PICK a : /\ a = Ancestor(s, n) /\ SnapshotOK(a) /\ Len(a) = n
                   /\ \A j \in 1 .. n : a[j] = s[j]
      BY <1>1, AncestorOK
    <2>2. a \in Seq(Layer) /\ s \in Seq(Layer)
      BY <2>1, LayerFacts
    <2> QED BY <1>1, <2>1, <2>2
  <1>6. Views!Top(chain) = ViewOf(s)
    BY <1>1, <1>4, <1>5 DEF Views!Top
  <1>7. ASSUME n > 1
        PROVE  /\ Views!Prefix(chain) = ChainOf(Ancestor(s, n - 1))
               /\ Views!Top(Views!Prefix(chain)) = ViewOf(Ancestor(s, n - 1))
    <2>1. n - 1 \in 1 .. n
      BY <1>1, <1>7
    <2>2. PICK p : /\ p = Ancestor(s, n - 1) /\ SnapshotOK(p) /\ Len(p) = n - 1
                   /\ \A j \in 1 .. (n - 1) : p[j] = s[j]
      BY <1>1, <2>1, AncestorOK
    <2>3. ASSUME NEW i \in 1 .. (n - 1) PROVE Ancestor(p, i) = Ancestor(s, i)
      <3>1. i \in 1 .. Len(s) /\ i \in 1 .. Len(p)
        BY <1>1, <2>2
      <3>2. PICK a : /\ a = Ancestor(s, i) /\ SnapshotOK(a) /\ Len(a) = i
                     /\ \A j \in 1 .. i : a[j] = s[j]
        BY <3>1, AncestorOK
      <3>3. PICK b : /\ b = Ancestor(p, i) /\ SnapshotOK(b) /\ Len(b) = i
                     /\ \A j \in 1 .. i : b[j] = p[j]
        BY <2>2, <3>1, AncestorOK
      <3>4. a \in Seq(Layer) /\ b \in Seq(Layer)
        BY <3>2, <3>3, LayerFacts
      <3>5. \A j \in 1 .. i : a[j] = b[j]
        BY <2>2, <3>2, <3>3
      <3> QED BY <3>2, <3>3, <3>4, <3>5
    <2>4. PICK front : front = Views!Prefix(chain)
      OBVIOUS
    <2>5. front = [i \in 1 .. (n - 1) |-> chain[i]]
      <3>1. PICK S : S = {ViewOf(Ancestor(s, i)) : i \in 1 .. n}
        OBVIOUS
      <3>2. chain \in Seq(S)
        BY <1>3, <3>1
      <3>3. front = SubSeq(chain, 1, n - 1)
        BY <1>4, <2>4 DEF Views!Prefix
      <3> QED BY <1>4, <2>1, <3>2, <3>3
    <2>6. front = [i \in 1 .. (n - 1) |-> ViewOf(Ancestor(p, i))]
      <3>1. \A i \in 1 .. (n - 1) : chain[i] = ViewOf(Ancestor(p, i))
        BY <1>4, <2>3
      <3> QED BY <2>5, <3>1
    <2>7. front = ChainOf(p)
      BY <2>2, <2>6 DEF ChainOf
    <2>8. Len(front) = n - 1 /\ front[n - 1] = chain[n - 1]
      BY <1>7, <2>5
    <2>9. Views!Top(front) = ViewOf(p)
      BY <1>4, <2>1, <2>2, <2>8 DEF Views!Top
    <2> QED BY <2>2, <2>4, <2>7, <2>9
  <1> QED BY <1>1, <1>2, <1>4, <1>6, <1>7

\* One snapshot more is one chain more.
LEMMA PublishingAddsAChain ==
    ASSUME StoreInvariant, NEW s, SnapshotOK(s), published' = published \cup {s},
           Len(s) # 1 => Ancestor(s, Len(s) - 1) \in published
    PROVE  Views!Publish
  <1>1. PICK chain : chain = ChainOf(s)
    OBVIOUS
  <1>2. /\ chain \in {ChainOf(p) : p \in published'}
        /\ {ChainOf(p) : p \in published'} = {ChainOf(p) : p \in published} \cup {chain}
    BY <1>1
  <1>3. Views!IsGraph(Views!Top(chain))
    BY <1>1, ChainFacts, ViewIsGraph
  <1>4. Len(s) \in Nat /\ Len(s) >= 1 /\ Len(chain) = Len(s)
    BY <1>1, ChainFacts, LayerFacts
  <1>5. CASE Len(s) = 1
    BY <1>2, <1>3, <1>4, <1>5 DEF Views!Publish, Views!PublishRoot
  <1>6. CASE Len(s) > 1
    <2>1. PICK p \in published : p = Ancestor(s, Len(s) - 1)
      BY <1>4, <1>6
    <2>2. Views!Prefix(chain) \in {ChainOf(q) : q \in published}
      BY <1>1, <1>6, <2>1, ChainFacts
    <2>3. Views!AddsTo(Views!Top(chain), Views!Top(Views!Prefix(chain)))
      BY <1>1, <1>6, ChainFacts, ViewAdds
    <2> QED BY <1>2, <1>3, <2>2, <2>3 DEF Views!Publish, Views!PublishBranch
  <1> QED BY <1>4, <1>5, <1>6

\* Every step publishes a chain of views or leaves all of them alone.
LEMMA StepPublishesAChain ==
    StoreInvariant /\ StoreInvariant' /\ [Next]_vars =>
        [Views!Publish]_{ChainOf(s) : s \in published}
  <1> SUFFICES ASSUME StoreInvariant, StoreInvariant', [Next]_vars
               PROVE  [Views!Publish]_{ChainOf(s) : s \in published}
    OBVIOUS
  <1>1. ASSUME UNCHANGED published PROVE UNCHANGED {ChainOf(s) : s \in published}
    BY <1>1
  <1>2. /\ \A s \in published : SnapshotOK(s)
        /\ \A s \in published' : SnapshotOK(s)
    BY DEF StoreInvariant, TypeOK, IdsAreContiguous, EdgesWellFormed, SnapshotOK, Snapshots
  <1>3. CASE UNCHANGED vars
    BY <1>1, <1>3 DEF vars
  <1>4. ASSUME NEW h \in DeltaHandles, WriterStep(h) PROVE UNCHANGED published
    BY <1>4 DEF WriterStep, NewDelta, MakeBranchDelta, AppendNode, AppendEdge
  <1>5. ASSUME NEW h \in DeltaHandles, NEW generation, NEW worldline, NEW validAt, NEW knownAt,
               Publish(h, generation, worldline, validAt, knownAt)
        PROVE  Views!Publish
    <2>1. PICK layer : /\ layer = LayerOf(generation, worldline, validAt, knownAt, deltas[h])
                       /\ published' = published \cup {<<layer>>}
      BY <1>5 DEF Publish
    <2>2. SnapshotOK(<<layer>>)
      BY <1>2, <2>1
    <2>3. Len(<<layer>>) = 1
      OBVIOUS
    <2> QED BY <2>1, <2>2, <2>3, PublishingAddsAChain
  <1>6. ASSUME NEW h \in DeltaHandles, NEW parent \in published,
               NEW generation \in Generations \cup {NoGeneration},
               NEW worldline \in Worldlines \cup {NoWorldline},
               NEW validAt \in Times, NEW knownAt \in Times,
               PublishBranch(h, parent, generation, worldline, validAt, knownAt)
        PROVE  Views!Publish
    <2>1. PICK s : /\ s = Append(parent, LayerOf(generation, worldline, validAt, knownAt, deltas[h]))
                   /\ published' = published \cup {s}
      BY <1>6 DEF PublishBranch
    <2>2. SnapshotOK(s) /\ SnapshotOK(parent)
      BY <1>2, <2>1
    <2>3. PICK n \in Nat : n = Len(parent) /\ n >= 1 /\ parent \in Seq(Layer)
      BY <2>2, LayerFacts
    <2>4. PICK layer \in Layer : s = Append(parent, layer)
      <3>1. /\ generation \in Generations /\ worldline \in Worldlines
            /\ deltas[h] \in Delta
        BY <1>6 DEF PublishBranch, StoreInvariant, TypeOK
      <3>2. LayerOf(generation, worldline, validAt, knownAt, deltas[h]) \in Layer
        BY <3>1 DEF LayerOf, Layer
      <3> QED BY <2>1, <3>2
    <2>5. s \in Seq(Layer) /\ Len(s) = n + 1 /\ \A j \in 1 .. n : s[j] = parent[j]
      BY <2>3, <2>4
    <2>6. Ancestor(s, n) = parent
      <3>1. PICK a : /\ a = Ancestor(s, n) /\ SnapshotOK(a) /\ Len(a) = n
                     /\ \A j \in 1 .. n : a[j] = s[j]
        BY <2>2, <2>3, <2>5, AncestorOK
      <3>2. a \in Seq(Layer)
        BY <3>1, LayerFacts
      <3> QED BY <2>3, <2>5, <3>1, <3>2
    <2>7. Len(s) - 1 = n
      BY <2>5
    <2> QED BY <2>1, <2>2, <2>6, <2>7, PublishingAddsAChain
  <1>7. CASE Next
    <2>1. CASE Exhausted
      BY <1>1, <2>1 DEF Exhausted, vars
    <2>2. ASSUME NEW h \in DeltaHandles, WriterStep(h) \/ PublisherStep(h)
          PROVE  [Views!Publish]_{ChainOf(s) : s \in published}
      <3>1. CASE WriterStep(h)
        BY <1>1, <1>4, <3>1
      <3>2. CASE PublisherStep(h)
        BY <1>5, <1>6, <3>2 DEF PublisherStep
      <3> QED BY <2>2, <3>1, <3>2
    <2> QED BY <1>7, <2>1, <2>2 DEF Next
  <1> QED BY <1>3, <1>7

\* Publishing implements the views a reader is promised: every snapshot shows a graph,
\* a branch adds to what its parent shows without changing it, and what was published
\* stays as it is (snapshot::publish, publish_branch against every read of a snapshot).
THEOREM PublishingAddsToParents == Spec => BranchesAddToParents
  <1>1. Init => Views!Init
    BY DEF Init, Views!Init
  <1>2. StoreInvariant /\ StoreInvariant' /\ [Next]_vars =>
            [Views!Publish]_{ChainOf(s) : s \in published}
    BY StepPublishesAChain
  <1> QED BY <1>1, <1>2, StoreIsWellFormed, PTL DEF Spec, BranchesAddToParents, Views!Spec

=============================================================================
