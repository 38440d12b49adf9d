--------------------------- MODULE QueryOptimizer ---------------------------
(***************************************************************************)
(* query/dsl.hpp and query/optimizer.hpp: a query grows by one operation   *)
(* at a time, may be optimized at any point of that and grow on, and can   *)
(* be executed on a snapshot in every form it has had.                     *)
(***************************************************************************)
EXTENDS QueryExecution

CONSTANTS
    Graphs,        \* snapshots to query
    Operations,    \* the operations piped, each where with one predicate
    MaxOperations  \* bound: operations and fused predicates of a query

VARIABLES
    graph,     \* the snapshot the query is executed on
    query,     \* the query
    projection \* the keys it has projected, none if its projection type is void

queryVars == <<graph, query, projection>>

QueryInit ==
    /\ graph \in Graphs
    /\ query \in [source : Kinds, ops : {<<>>}]
    /\ projection = <<>>

\* Snapshots are as publishing leaves them, and a row has the properties of its kind.
ASSUME GraphAssumption ==
    \A g \in Graphs :
        /\ SnapshotOK(g)
        /\ \A i \in 1 .. Len(g) : \A k \in Kinds : \A n \in 1 .. Len(g[i].data.nodes[k]) :
               DOMAIN g[i].data.nodes[k][n].value = KeysOf[k]

ASSUME OperationAssumption ==
    /\ Operations \subseteq Operation
    /\ \A op \in Operations : op.kind = "where" => Len(op.predicates) = 1

-----------------------------------------------------------------------------
(* optimizer.hpp: append_optimizer and normalize. *)

IsWhere(op) == op.kind = "where"

\* Fused with the filter at the end, if there is one.
AppendFilter(ops, op) ==
    IF ops # <<>> /\ IsWhere(Last(ops))
    THEN Append(Front(ops), Where(Last(ops).predicates \o op.predicates))
    ELSE Append(ops, op)

\* Mutant of PushFilter: filters also go in front of limits.
PushFilterPastLimit(ops, op) ==
    LET kept == Max({0} \cup {i \in 1 .. Len(ops) : ops[i].kind \notin Selectors \cup {"limit"}})
    IN  AppendFilter(SubSeq(ops, 1, kept), op) \o SubSeq(ops, kept + 1, Len(ops))

\* A filter goes in front of the selectors at the end.
PushFilter(ops, op) ==
    LET kept == Max({0} \cup {i \in 1 .. Len(ops) : ops[i].kind \notin Selectors})
    IN  AppendFilter(SubSeq(ops, 1, kept), op) \o SubSeq(ops, kept + 1, Len(ops))

AppendOptimized(ops, op) ==
    CASE op.kind = "limit" /\ ops # <<>> /\ Last(ops).kind = "limit" ->
             Append(Front(ops), Limit(Min({Last(ops).count, op.count})))
      [] IsWhere(op) /\ Len(op.predicates) = 1 -> PushFilter(ops, op)
      [] OTHER -> Append(ops, op)

Normalize(q) ==
    LET optimized[n \in 0 .. Len(q.ops)] ==
            IF n = 0 THEN <<>> ELSE AppendOptimized(optimized[n - 1], q.ops[n])
    IN  [q EXCEPT !.ops = optimized[Len(q.ops)]]

-----------------------------------------------------------------------------

\* The size that MaxOperations bounds.
Size(q) == FoldLeft(LAMBDA n, op : n + (IF IsWhere(op) THEN Len(op.predicates) ELSE 1), 0, q.ops)

\* The kind of the nodes that the query yields: typed_query::current_node.
CurrentKind == KindAfter(query, Len(query.ops))

\* query_has_property_v: a projection hides the other properties.
QueryHasProperty(key) == key \in KeysOf[CurrentKind] /\ (projection = <<>> \/ key \in Range(projection))

\* The static assertions of operator|.
CanPipe(op) ==
    /\ IsWhere(op) => \A j \in 1 .. Len(op.predicates) : QueryHasProperty(op.predicates[j].key)
    /\ op.kind = "top_k" => QueryHasProperty(op.key)
    /\ op.kind = "traverse" => projection = <<>> /\ SourceKind[op.relation] = CurrentKind
    /\ op.kind = "project" => projection = <<>> /\ Range(op.keys) \subseteq KeysOf[CurrentKind]

\* Mutant of Pipe: the projection is not remembered.
PipeUnprojected(op) ==
    /\ Size(query) < MaxOperations
    /\ CanPipe(op)
    /\ query' = [query EXCEPT !.ops = Append(@, op)]
    /\ UNCHANGED <<graph, projection>>

\* operator|.
Pipe(op) ==
    /\ Size(query) < MaxOperations
    /\ CanPipe(op)
    /\ query' = [query EXCEPT !.ops = Append(@, op)]
    /\ projection' = IF op.kind = "project" THEN op.keys ELSE projection
    /\ UNCHANGED graph

Optimize ==
    /\ query' = Normalize(query)
    /\ UNCHANGED <<graph, projection>>

QueryNext == Optimize \/ \E op \in Operations : Pipe(op)

QuerySpec == QueryInit /\ [][QueryNext]_queryVars

-----------------------------------------------------------------------------

\* A filter has a predicate, and piping and optimizing agree on what is projected.
QueryTypeOK ==
    /\ graph \in Graphs
    /\ query.source \in Kinds
    /\ \A i \in 1 .. Len(query.ops) :
           IsWhere(query.ops[i]) => query.ops[i].predicates \in Seq(Predicate) \ {<<>>}
    /\ projection \in Seq(KeysOf[CurrentKind])
    /\ \A i \in 1 .. Len(query.ops) : query.ops[i].kind = "project" => projection = query.ops[i].keys

\* The predicates of a query, each of which the executor may look up or not.
LookupSites(q) ==
    UNION {{<<n, j>> : j \in 1 .. Len(q.ops[n].predicates)} :
           n \in {i \in 1 .. Len(q.ops) : IsWhere(q.ops[i])}}

\* Whatever the histograms say, a query has one result: the same ids in the same
\* order and as often, and the same error, whichever predicates go through an index.
LookupsAreInvisible ==
    LET scanned == Execute(graph, query, projection, {})
    IN  \A lookups \in SUBSET LookupSites(query) :
            Execute(graph, query, projection, lookups) = scanned

\* An optimized query has the result of the query it was made from, errors of
\* mismatching selectors included, also when the query goes on from an optimized one.
OptimizedIsEquivalent ==
    Execute(graph, Normalize(query), projection, {}) = Execute(graph, query, projection, {})

\* Execution fails on a selector that disagrees with the snapshot and on nothing
\* else, and what it returns can be read (materialize does) and traversed from.
OnlySelectorsFail ==
    LET result == Evaluate(graph, query, {})
        mismatch == \E i \in 1 .. Len(query.ops) : SelectorError(graph, query.ops[i]) # NoError
    IN  /\ result.error # NoError <=> mismatch
        /\ Readable(graph, CurrentKind, result.ids)

=============================================================================
