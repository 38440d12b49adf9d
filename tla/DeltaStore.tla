----------------------------- MODULE DeltaStore -----------------------------
(***************************************************************************)
(* The contents of a delta_store: per node kind a column store of rows     *)
(* with their worldline and both time intervals, per relation a column     *)
(* store of edges.  Row i of a store has the id base + i - 1, so that a    *)
(* branch can number its rows after those of the snapshot it extends.      *)
(*                                                                         *)
(* A delta is a value here; GraphSnapshot owns the deltas being written    *)
(* and the snapshots that froze one.                                       *)
(***************************************************************************)
EXTENDS Temporal, Sequences, FiniteSets

CONSTANTS
    Kinds,          \* node kinds of the schema (node_spec tags)
    Relations,      \* edge kinds of the schema (edge_spec)
    SourceKind,     \* the node kind an edge of a relation leaves
    TargetKind,     \* the node kind it enters
    InvalidNodeId,  \* node_id::invalid_value, the first id never handed out
    InvalidEdgeId,  \* the same sentinel for edge ids
    Worldlines,     \* valid worldline ids
    NoWorldline,    \* worldline_id::invalid()
    Intervals,      \* the valid and transaction intervals rows are given
    Values          \* property values, one per row

ASSUME SchemaAssumption ==
    /\ SourceKind \in [Relations -> Kinds]
    /\ TargetKind \in [Relations -> Kinds]

ASSUME CapacityAssumption ==
    /\ InvalidNodeId \in Nat
    /\ InvalidEdgeId \in Nat

ASSUME WorldlineAssumption == NoWorldline \notin Worldlines

ASSUME IntervalAssumption == \A i \in Intervals : i \in [from : Int, to : Int] /\ i.from < i.to

-----------------------------------------------------------------------------
(* Rows and the shape of a delta. *)

Row == [worldline : Worldlines, valid : Intervals, transaction : Intervals, value : Values]

Edge == [source : Nat, target : Nat]

Delta == [nodeBase : [Kinds -> Nat], nodes : [Kinds -> Seq(Row)],
          edgeBase : [Relations -> Nat], edges : [Relations -> Seq(Edge)]]

\* delta_store::branch_from: no rows, every store numbered from the given extents.
DeltaFrom(nodeBases, edgeBases) ==
    [nodeBase |-> nodeBases, nodes |-> [k \in Kinds |-> <<>>],
     edgeBase |-> edgeBases, edges |-> [r \in Relations |-> <<>>]]

\* The default-constructed delta_store.
FreshDelta == DeltaFrom([k \in Kinds |-> 0], [r \in Relations |-> 0])

NodeExtent(d, k) == d.nodeBase[k] + Len(d.nodes[k])
EdgeExtent(d, r) == d.edgeBase[r] + Len(d.edges[r])

NodeExtents(d) == [k \in Kinds |-> NodeExtent(d, k)]
EdgeExtents(d) == [r \in Relations |-> EdgeExtent(d, r)]

\* node_store::contains and adjacency_store::contains.
HasNode(d, k, id) == id # InvalidNodeId /\ d.nodeBase[k] <= id /\ id < NodeExtent(d, k)
HasEdge(d, r, id) == id # InvalidEdgeId /\ d.edgeBase[r] <= id /\ id < EdgeExtent(d, r)

NodeIds(d, k) == d.nodeBase[k] .. (NodeExtent(d, k) - 1)
EdgeIds(d, r) == d.edgeBase[r] .. (EdgeExtent(d, r) - 1)

NodeRow(d, k, id) == d.nodes[k][id - d.nodeBase[k] + 1]
EdgeRow(d, r, id) == d.edges[r][id - d.edgeBase[r] + 1]

-----------------------------------------------------------------------------
(* What the two appends accept, and the delta they leave. *)

\* Mutant of CanAppendNode: the worldline is not validated.
CanAppendNodeAnywhere(d, k, row) == NodeExtent(d, k) < InvalidNodeId

\* delta_node_store::append refuses an invalid worldline, node_store::append
\* refuses a row whose id would be the invalid one.
CanAppendNode(d, k, row) ==
    /\ row.worldline # NoWorldline
    /\ NodeExtent(d, k) < InvalidNodeId

WithNode(d, k, row) == [d EXCEPT !.nodes = [d.nodes EXCEPT ![k] = Append(d.nodes[k], row)]]

\* Mutant of EndpointExists: the upper bound is off by one.
EndpointMayBeNext(d, k, id) == id # InvalidNodeId /\ id <= NodeExtent(d, k)

\* delta_store::endpoint_exists: any id below the base counts as inherited.
EndpointExists(d, k, id) == id # InvalidNodeId /\ (id < d.nodeBase[k] \/ HasNode(d, k, id))

\* Two local endpoints must share a worldline; an inherited one is not looked at.
EndpointsShareWorldline(d, r, source, target) ==
    /\ HasNode(d, SourceKind[r], source)
    /\ HasNode(d, TargetKind[r], target)
    => NodeRow(d, SourceKind[r], source).worldline = NodeRow(d, TargetKind[r], target).worldline

CanAppendEdge(d, r, source, target) ==
    /\ EndpointExists(d, SourceKind[r], source)
    /\ EndpointExists(d, TargetKind[r], target)
    /\ EndpointsShareWorldline(d, r, source, target)
    /\ EdgeExtent(d, r) < InvalidEdgeId

WithEdge(d, r, source, target) ==
    [d EXCEPT !.edges =
        [d.edges EXCEPT ![r] = Append(d.edges[r], [source |-> source, target |-> target])]]

-----------------------------------------------------------------------------
(* Selection through the indices that build_indices makes of the rows.  Each  *)
(* index lists every row once; the two time indices are sorted by the start   *)
(* of the interval and read up to the upper bound of the point asked for.     *)

RowMatches(row, worldline, validAt, knownAt) ==
    /\ row.worldline = worldline
    /\ Covers(row.valid, validAt)
    /\ Covers(row.transaction, knownAt)

WorldlineRows(d, k, worldline) ==
    {id \in NodeIds(d, k) : NodeRow(d, k, id).worldline = worldline}

\* Mutant of ValidPrefix: lower_bound for upper_bound.
ValidPrefixBefore(d, k, validAt) ==
    {id \in NodeIds(d, k) : NodeRow(d, k, id).valid.from < validAt}

ValidPrefix(d, k, validAt) ==
    {id \in NodeIds(d, k) : NodeRow(d, k, id).valid.from <= validAt}

TransactionPrefix(d, k, knownAt) ==
    {id \in NodeIds(d, k) : NodeRow(d, k, id).transaction.from <= knownAt}

\* delta_node_store::indexed_candidates scans the shortest of the three lists.
\* A worldline without rows has the empty list, which is the shortest.
ShortestIndex(d, k, worldline, validAt, knownAt) ==
    LET byWorldline   == WorldlineRows(d, k, worldline)
        byValid       == ValidPrefix(d, k, validAt)
        byTransaction == TransactionPrefix(d, k, knownAt)
    IN  IF /\ Cardinality(byWorldline) <= Cardinality(byValid)
           /\ Cardinality(byWorldline) <= Cardinality(byTransaction)
        THEN byWorldline
        ELSE IF Cardinality(byValid) <= Cardinality(byTransaction)
             THEN byValid
             ELSE byTransaction

IndexedCandidates(d, k, worldline, validAt, knownAt) ==
    {id \in ShortestIndex(d, k, worldline, validAt, knownAt) :
        RowMatches(NodeRow(d, k, id), worldline, validAt, knownAt)}

\* delta_node_store::indexed_property_candidates, a predicate being the set of
\* values it accepts: the property index lists every row, whatever its worldline
\* or times.
PropertyMatches(d, k, accepted) == {id \in NodeIds(d, k) : NodeRow(d, k, id).value \in accepted}

=============================================================================
