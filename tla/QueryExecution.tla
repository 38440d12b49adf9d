--------------------------- MODULE QueryExecution ---------------------------
(***************************************************************************)
(* query/ast.hpp and query/executor.hpp: a query starts from the visible   *)
(* nodes of a kind and pipes them through operations.  The type of the C++ *)
(* expression nests the operations; here a query is its source kind and    *)
(* the sequence of its operations, the outermost last.                     *)
(*                                                                         *)
(* The executor looks a predicate up in the property index when a          *)
(* histogram predicts few matches.  The histogram is left out: which       *)
(* predicates are looked up is a parameter, any subset of them.            *)
(***************************************************************************)
EXTENDS SnapshotView, Comparison

CONSTANTS
    Keys,   \* property keys of the schema
    KeysOf  \* those of each kind

ASSUME KeyAssumption == KeysOf \in [Kinds -> SUBSET Keys]

\* The value of a row has one number per property of its kind.
ASSUME ComparableAssumption == \A v \in Values : \A key \in DOMAIN v : key \in Keys /\ v[key] \in Int

-----------------------------------------------------------------------------
(* The expression tree. *)

Selectors == {"active_at", "known_at", "in_worldline"}

Predicate == [key : Keys, op : Comparisons, value : Int]

ActiveAt(time) == [kind |-> "active_at", value |-> time]
KnownAt(time) == [kind |-> "known_at", value |-> time]
InWorldline(worldline) == [kind |-> "in_worldline", value |-> worldline]
\* where_expr with one predicate, fused_where_expr with several.
Where(predicates) == [kind |-> "where", predicates |-> predicates]
Traverse(relation) == [kind |-> "traverse", relation |-> relation]
TopK(count, key, direction) ==
    [kind |-> "top_k", count |-> count, key |-> key, direction |-> direction]
Limit(count) == [kind |-> "limit", count |-> count]
Project(keys) == [kind |-> "project", keys |-> keys]

Operation ==
    [kind : {"active_at", "known_at"}, value : Times]
    \cup [kind : {"in_worldline"}, value : Worldlines]
    \cup [kind : {"where"}, predicates : Seq(Predicate) \ {<<>>}]
    \cup [kind : {"traverse"}, relation : Relations]
    \cup [kind : {"top_k"}, count : Nat \ {0}, key : Keys, direction : {"ascending", "descending"}]
    \cup [kind : {"limit"}, count : Nat]
    \cup [kind : {"project"}, keys : Seq(Keys) \ {<<>>}]

\* The kind of the nodes that the first n operations yield.
KindAfter(query, n) ==
    LET hops == {i \in 1 .. n : query.ops[i].kind = "traverse"}
    IN  IF hops = {} THEN query.source ELSE TargetKind[query.ops[Max(hops)].relation]

-----------------------------------------------------------------------------
(* A result: the ids found, or an error. *)

NoError == "none"
Ok(ids) == [error |-> NoError, ids |-> ids]
Fail(error) == [error |-> error, ids |-> <<>>]

\* A query names the times and the worldline it means; the snapshot must agree.
SelectorError(graph, op) ==
    CASE op.kind = "active_at" /\ op.value # Last(graph).validAt -> "conflict"
      [] op.kind = "known_at" /\ op.value # Last(graph).knownAt -> "conflict"
      [] op.kind = "in_worldline" /\ op.value # Last(graph).worldline -> "worldline_mismatch"
      [] OTHER -> NoError

\* matches_predicate, and all the values that match: a predicate of property_candidates.
Matches(predicate, value) == Compare(value[predicate.key], predicate.op, predicate.value)
Accepted(predicate) == {v \in Values : predicate.key \in DOMAIN v /\ Matches(predicate, v)}

ValueOf(graph, k, id) == Property(graph, k, id).value

\* snapshot::property and snapshot::outgoing fail on a node that is not visible.
Readable(graph, k, ids) == \A i \in 1 .. Len(ids) : Visible(graph, k, ids[i])

\* Mutant of RetainSmaller: the smaller set is taken as it is.
TakeSmaller(input, indexed) == IF Len(indexed) >= Len(input) THEN input ELSE indexed

\* retain_smaller_candidate_set: the order and the repetitions are the input's.
RetainSmaller(input, indexed) ==
    IF Len(indexed) >= Len(input) THEN input ELSE Kept(input, Range(indexed))

\* The predicates that are looked up, one after the other.
Retained(graph, k, predicates, input, lookups) ==
    LET retained[j \in 0 .. Len(predicates)] ==
            IF j = 0 THEN input
            ELSE IF j \in lookups
                 THEN RetainSmaller(retained[j - 1],
                                    PropertyCandidates(graph, k, Accepted(predicates[j])))
                 ELSE retained[j - 1]
    IN  retained[Len(predicates)]

MatchesAll(graph, k, predicates, id) ==
    \A j \in 1 .. Len(predicates) : Matches(predicates[j], ValueOf(graph, k, id))

\* Both where steps: all the predicates, on every node that the lookups leave.
EvaluateWhere(graph, k, predicates, input, lookups) ==
    LET retained == Retained(graph, k, predicates, input, lookups)
    IN  IF ~Readable(graph, k, retained) THEN Fail("id_not_found")
        ELSE Ok(Kept(retained, {id \in Range(retained) : MatchesAll(graph, k, predicates, id)}))

\* Targets in the order of the sources and of their edges, repeated if reached twice.
EvaluateTraverse(graph, r, input) ==
    IF ~Readable(graph, SourceKind[r], input) THEN Fail("id_not_found")
    ELSE Ok(FlattenSeq([i \in 1 .. Len(input) |->
                LET edges == Outgoing(graph, r, input[i])
                IN  [n \in 1 .. Len(edges) |-> EdgeTarget(graph, r, edges[n])]]))

Truncate(ids, count) == SubSeq(ids, 1, Min({count, Len(ids)}))

\* A stable sort by the property, then the first few.
EvaluateTopK(graph, k, count, key, direction, input) ==
    LET value(i) == ValueOf(graph, k, input[i])[key]
        before(i, j) == \/ value(i) = value(j) /\ i < j
                        \/ IF direction = "ascending" THEN value(i) < value(j) ELSE value(i) > value(j)
        rank(i) == 1 + Cardinality({j \in 1 .. Len(input) : before(j, i)})
        ranked == [p \in 1 .. Len(input) |-> input[CHOOSE i \in 1 .. Len(input) : rank(i) = p]]
    IN  IF ~Readable(graph, k, input) THEN Fail("id_not_found") ELSE Ok(Truncate(ranked, count))

\* evaluate(), one overload per operation, after what the operations before it found
\* among the nodes of kind k.  lookups are the predicates of a where to look up.
EvaluateOperation(graph, op, k, previous, lookups) ==
    LET input == previous.ids
    IN  IF SelectorError(graph, op) # NoError THEN Fail(SelectorError(graph, op))
        ELSE IF previous.error # NoError THEN previous
        ELSE CASE op.kind = "where" -> EvaluateWhere(graph, k, op.predicates, input, lookups)
               [] op.kind = "traverse" -> EvaluateTraverse(graph, op.relation, input)
               [] op.kind = "top_k" ->
                      EvaluateTopK(graph, k, op.count, op.key, op.direction, input)
               [] op.kind = "limit" -> Ok(Truncate(input, op.count))
               [] op.kind \in Selectors \cup {"project"} -> Ok(input)

\* What the operations of a query find one after the other.  lookups holds <<n, j>> if
\* predicate j of operation n is looked up in its index.
LookedUp(lookups, n) == {site[2] : site \in {l \in lookups : l[1] = n}}

Evaluate(graph, query, lookups) ==
    LET eval[n \in 0 .. Len(query.ops)] ==
            IF n = 0 THEN Ok(SourceCandidates(graph, query.source))
            ELSE EvaluateOperation(graph, query.ops[n], KindAfter(query, n - 1), eval[n - 1],
                                   LookedUp(lookups, n))
    IN  eval[Len(query.ops)]

\* execute: the ids, or with a projection the rows that materialize reads.
Execute(graph, query, projection, lookups) ==
    LET found == Evaluate(graph, query, lookups)
        k == KindAfter(query, Len(query.ops))
    IN  IF found.error # NoError \/ projection = <<>> THEN found
        ELSE IF ~Readable(graph, k, found.ids) THEN Fail("id_not_found")
        ELSE Ok([i \in 1 .. Len(found.ids) |->
                    [id |-> found.ids[i],
                     values |-> [j \in 1 .. Len(projection) |->
                                    ValueOf(graph, k, found.ids[i])[projection[j]]]]])

=============================================================================
