---------------------------- MODULE QueryExplain ----------------------------
(***************************************************************************)
(* query/explain.hpp and the reports of query/optimizer.hpp: the columns   *)
(* a query requires, its counts, its signature and its plan.  explain      *)
(* optimizes the query it is given, executes it and describes both forms.  *)
(* Reasons and the entries of the plan that never change are left out.     *)
(***************************************************************************)
EXTENDS QueryOptimizer

-----------------------------------------------------------------------------
(* optimizer.hpp: required_columns and expression_metrics. *)

\* Mutant of ColumnsOf: a fused filter reports its first predicate only.
ColumnsOfFirst(k, op) ==
    CASE IsWhere(op) -> <<<<k, op.predicates[1].key>>>>
      [] op.kind = "project" -> [j \in 1 .. Len(op.keys) |-> <<k, op.keys[j]>>]
      [] op.kind = "top_k" -> <<<<k, op.key>>>>
      [] OTHER -> <<>>

\* The columns one operation on nodes of kind k reads, in its order.
ColumnsOf(k, op) ==
    CASE IsWhere(op) -> [j \in 1 .. Len(op.predicates) |-> <<k, op.predicates[j].key>>]
      [] op.kind = "project" -> [j \in 1 .. Len(op.keys) |-> <<k, op.keys[j]>>]
      [] op.kind = "top_k" -> <<<<k, op.key>>>>
      [] OTHER -> <<>>

\* unique_types: of equal ones the last stays.
UniqueTypes(list) ==
    LET unique[n \in 0 .. Len(list)] ==
            IF n = 0 THEN <<>>
            ELSE LET first == list[Len(list) + 1 - n]
                     tail == unique[n - 1]
                 IN  IF first \in Range(tail) THEN tail ELSE <<first>> \o tail
    IN  unique[Len(list)]

RequiredColumns(q) ==
    UniqueTypes(FlattenSeq([n \in 1 .. Len(q.ops) |-> ColumnsOf(KindAfter(q, n - 1), q.ops[n])]))

FilterCount(q) ==
    FoldLeft(LAMBDA n, op : n + (IF IsWhere(op) THEN Len(op.predicates) ELSE 0), 0, q.ops)
TraversalCount(q) == Len(SelectSeq(q.ops, LAMBDA op : op.kind = "traverse"))

-----------------------------------------------------------------------------
(* explain.hpp. *)

\* append_operations.
OperationKinds(q) == <<"source_scan">> \o [n \in 1 .. Len(q.ops) |-> q.ops[n].kind]

\* snapshot::estimate_traversal_cardinality: the average out-degrees of all layers
\* are added up.  A fraction is <<numerator, denominator>>.
LayerDegree(layer, r) ==
    LET edges == layer.data.edges[r]
        sources == {edges[i].source : i \in 1 .. Len(edges)}
    IN  IF edges = <<>> THEN <<0, 1>> ELSE <<Len(edges), Cardinality(sources)>>

\* Mutant of AverageDegree: the degrees of the parent are forgotten.
AverageDegreeOfLayer(g, r) == LayerDegree(Last(g), r)

AverageDegree(g, r) ==
    FoldLeft(LAMBDA sum, layer :
                 LET degree == LayerDegree(layer, r)
                 IN  <<sum[1] * degree[2] + degree[1] * sum[2], sum[2] * degree[2]>>,
             <<0, 1>>, g)

EstimateTraversal(g, r, sourceCount) ==
    LET average == AverageDegree(g, r)
    IN  (sourceCount * average[1] + average[2] - 1) \div average[2]

\* estimate_cardinality: what traversals make of the source count; filters, top_k and
\* limits do not lower it.
EstimateCardinality(g, q, sourceCount) ==
    FoldLeft(LAMBDA estimate, op :
                 IF op.kind # "traverse" THEN estimate
                 ELSE LET next == EstimateTraversal(g, op.relation, estimate.current)
                      IN  [current |-> next, traversal |-> next],
             [current |-> sourceCount, traversal |-> 0], q.ops)

\* expression_signature: what is mixed into the hash, in order.  The values compared
\* with, directions, times, worldlines and limits are not.
OperationSignature(op) ==
    CASE IsWhere(op) -> <<"filter">> \o FlattenSeq([j \in 1 .. Len(op.predicates) |->
                                <<op.predicates[j].key, op.predicates[j].op>>])
      [] op.kind = "project" -> <<"project">> \o op.keys
      [] op.kind = "top_k" -> <<"top_k", op.key, op.count>>
      [] op.kind = "traverse" -> <<"traverse", op.relation>>
      [] OTHER -> <<op.kind>>

Signature(q) ==
    <<q.source>> \o FlattenSeq([n \in 1 .. Len(q.ops) |-> OperationSignature(q.ops[n])])

\* The plan, or the error of the execution of the optimized query.
Plan(g, q, optimized, execution) ==
    IF execution.error # NoError THEN [error |-> execution.error]
    ELSE LET sources == Len(SourceCandidates(g, q.source))
         IN  [error |-> NoError,
              signature |-> Signature(optimized),
              logical |-> OperationKinds(q),
              optimized |-> OperationKinds(optimized),
              columns |-> RequiredColumns(optimized),
              traverses |-> TraversalCount(optimized) # 0,
              filters |-> FilterCount(optimized) # 0,
              estimated |-> sources,
              estimatedTraversal |-> EstimateCardinality(g, optimized, sources).traversal,
              actual |-> Len(execution.ids)]

\* optimized is bound, not defined: the query is normalized once.
Explain(g, q, keys) ==
    CHOOSE plan \in {Plan(g, q, optimized, Execute(g, optimized, keys, {})) :
                         optimized \in {Normalize(q)}} : TRUE

-----------------------------------------------------------------------------

\* A snapshot in which only the given columns have their values.
OnlyColumns(g, columns) ==
    [i \in 1 .. Len(g) |-> [g[i] EXCEPT !.data.nodes =
        [k \in Kinds |-> [n \in 1 .. Len(g[i].data.nodes[k]) |->
            [g[i].data.nodes[k][n] EXCEPT !.value =
                [key \in KeysOf[k] |-> IF <<k, key>> \in columns THEN @[key] ELSE 0]]]]]]

\* The columns that the optimizer reports are all that a query reads: on a snapshot
\* with nothing else in it the query, as written and as optimized, has the same result.
RequiredColumnsSuffice ==
    LET needed == Range(RequiredColumns(Normalize(query)))
    IN  Execute(OnlyColumns(graph, needed), query, projection, {})
            = Execute(graph, query, projection, {})

\* Explaining a query or its optimized form gives one plan (but for the form shown as
\* written), whose counts are those of the query as written and of its execution: it
\* fails as the query fails, never names an index for an operation that is not there,
\* and never predicts that a traversal finds nothing when the query finds something.
PlanDescribesTheQuery ==
    LET plans == {Explain(graph, q, projection) : q \in {query, Normalize(query)}}
        result == Execute(graph, query, projection, {})
        filters == FilterCount(query)
    IN  \A plan \in plans :
            /\ plan.error = result.error
            /\ plan.error = NoError =>
                   /\ \A other \in plans : [other EXCEPT !.logical = plan.logical] = plan
                   /\ plan.actual = Len(result.ids)
                   /\ plan.filters <=> filters > 0
                   /\ plan.traverses <=> TraversalCount(query) > 0
                   /\ FilterCount(Normalize(query)) = filters
                   /\ plan.actual > 0 /\ plan.traverses => plan.estimatedTraversal > 0

=============================================================================
