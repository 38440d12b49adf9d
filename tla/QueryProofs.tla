----------------------------- MODULE QueryProofs ----------------------------
(***************************************************************************)
(* Proofs about QueryOptimizer and the columns of QueryExplain, for any    *)
(* snapshots, any operations of the schema, and queries of any length.     *)
(* What is known of a single snapshot comes from GraphSnapshotProofs.      *)
(***************************************************************************)
EXTENDS QueryExplain, GraphSnapshotProofs

-----------------------------------------------------------------------------
(* The kind of the nodes that a query yields. *)

QueryOf(source, ops) == [source |-> source, ops |-> ops]

KindOf(source, ops) == KindAfter(QueryOf(source, ops), Len(ops))

LEMMA KindAtStart ==
    ASSUME NEW q
    PROVE  KindAfter(q, 0) = q.source
  BY DEF KindAfter

\* A traversal goes on to its target's kind, nothing else changes the kind.
NextKind(op, k) == IF op.kind = "traverse" THEN TargetKind[op.relation] ELSE k

LEMMA KindStep ==
    ASSUME NEW q, NEW n \in Nat, NEW m, m = n + 1
    PROVE  KindAfter(q, m) = NextKind(q.ops[m], KindAfter(q, n))
  <1> DEFINE hops(i) == {j \in 1 .. i : q.ops[j].kind = "traverse"}
  <1>1. m \in Nat /\ 1 .. m = (1 .. n) \cup {m} /\ m \in 1 .. m /\ m \notin 1 .. n
    OBVIOUS
  <1>2. /\ KindAfter(q, m) = IF hops(m) = {} THEN q.source ELSE TargetKind[q.ops[Max(hops(m))].relation]
        /\ KindAfter(q, n) = IF hops(n) = {} THEN q.source ELSE TargetKind[q.ops[Max(hops(n))].relation]
    BY DEF KindAfter
  <1>3. CASE q.ops[m].kind = "traverse"
    <2>1. m \in hops(m) /\ hops(m) \in SUBSET (1 .. m) /\ \A i \in hops(m) : i <= m
      BY <1>1, <1>3
    <2> HIDE DEF hops
    <2>2. Max(hops(m)) = m /\ hops(m) # {}
      BY <1>1, <2>1, MaxIsOnlyLast
    <2> QED BY <1>2, <1>3, <2>2 DEF NextKind
  <1>4. CASE q.ops[m].kind # "traverse"
    <2>1. hops(m) = hops(n)
      BY <1>1, <1>4
    <2> HIDE DEF hops
    <2> QED BY <1>2, <1>4, <2>1 DEF NextKind
  <1> QED BY <1>3, <1>4

\* Only the operations so far matter.
LEMMA KindOfFirst ==
    ASSUME NEW q, NEW p, q.source = p.source, NEW n \in Nat, \A i \in 1 .. n : q.ops[i] = p.ops[i]
    PROVE  \A i \in 0 .. n : KindAfter(q, i) = KindAfter(p, i)
  <1> DEFINE T == {i \in 0 .. n : KindAfter(q, i) = KindAfter(p, i)}
  <1> HIDE DEF T
  <1>1. 0 \in T
    BY KindAtStart DEF T
  <1>2. ASSUME NEW i \in 0 .. (n - 1), i \in T PROVE i + 1 \in T
    <2>1. PICK j : j = i + 1
      OBVIOUS
    <2>2. i \in Nat /\ j \in 1 .. n /\ j \in 0 .. n
      BY <2>1
    <2>3. KindAfter(q, j) = NextKind(q.ops[j], KindAfter(q, i))
      BY <2>1, <2>2, KindStep
    <2>4. KindAfter(p, j) = NextKind(p.ops[j], KindAfter(p, i))
      BY <2>1, <2>2, KindStep
    <2>5. KindAfter(q, i) = KindAfter(p, i)
      BY <1>2 DEF T
    <2>6. j \in T
      BY <2>2, <2>3, <2>4, <2>5 DEF T
    <2> QED BY <2>1, <2>6
  <1>3. \A i \in 0 .. n : i \in T
    BY <1>1, <1>2, TurnByTurn
  <1> QED BY <1>3 DEF T

-----------------------------------------------------------------------------
(* Queries that operator| can build. *)

\* What an operation asks of the kind of nodes it is applied to.
Fits(op, k) ==
    /\ IsWhere(op) => \A j \in 1 .. Len(op.predicates) : op.predicates[j].key \in KeysOf[k]
    /\ op.kind = "top_k" => op.key \in KeysOf[k]
    /\ op.kind = "traverse" => SourceKind[op.relation] = k

WellBuilt(source, ops) ==
    \A n \in 1 .. Len(ops) : Fits(ops[n], KindAfter(QueryOf(source, ops), n - 1))

\* A query with one operation more, kind and shape.
BuiltOfMore(source, ops, op) ==
    /\ KindOf(source, Append(ops, op)) = NextKind(op, KindOf(source, ops))
    /\ WellBuilt(source, Append(ops, op)) <=> WellBuilt(source, ops) /\ Fits(op, KindOf(source, ops))

LEMMA BuiltByTurns ==
    ASSUME NEW source, NEW ops \in Seq(Operation), NEW op \in Operation
    PROVE  BuiltOfMore(source, ops, op)
  <1>1. PICK n \in Nat : n = Len(ops)
    BY LenProperties
  <1>2. PICK longer : longer = Append(ops, op)
    OBVIOUS
  <1>3. /\ Len(longer) = n + 1 /\ longer[n + 1] = op /\ \A i \in 1 .. n : longer[i] = ops[i]
    <2>1. Extends(Operation, n, ops, op, longer)
      BY <1>1, <1>2, AppendExtends
    <2> QED BY <2>1 DEF Extends
  <1>4. PICK q : q = QueryOf(source, ops)
    OBVIOUS
  <1>5. PICK p : p = QueryOf(source, longer)
    OBVIOUS
  <1>6. q.source = source /\ p.source = source /\ q.ops = ops /\ p.ops = longer
    BY <1>4, <1>5 DEF QueryOf
  <1>7. \A i \in 0 .. n : KindAfter(p, i) = KindAfter(q, i)
    BY <1>3, <1>6, KindOfFirst
  <1>8. PICK m : m = n + 1
    OBVIOUS
  <1>9. KindAfter(p, m) = NextKind(p.ops[m], KindAfter(p, n))
    BY <1>8, KindStep
  <1>10. KindAfter(p, n) = KindAfter(q, n)
    BY <1>7
  <1>11. KindOf(source, longer) = NextKind(op, KindOf(source, ops))
    BY <1>1, <1>3, <1>4, <1>5, <1>6, <1>8, <1>9, <1>10 DEF KindOf
  <1>12. WellBuilt(source, longer) <=> \A i \in 1 .. (n + 1) : Fits(longer[i], KindAfter(p, i - 1))
    BY <1>3, <1>5 DEF WellBuilt
  <1>13. WellBuilt(source, ops) <=> \A i \in 1 .. n : Fits(ops[i], KindAfter(q, i - 1))
    BY <1>1, <1>4 DEF WellBuilt
  <1>14. \A i \in 1 .. n : Fits(longer[i], KindAfter(p, i - 1)) <=> Fits(ops[i], KindAfter(q, i - 1))
    <2> SUFFICES ASSUME NEW i \in 1 .. n
                 PROVE  Fits(longer[i], KindAfter(p, i - 1)) <=> Fits(ops[i], KindAfter(q, i - 1))
      OBVIOUS
    <2>1. PICK j : j = i - 1
      OBVIOUS
    <2>2. j \in 0 .. n
      BY <2>1
    <2>3. longer[i] = ops[i] /\ KindAfter(p, j) = KindAfter(q, j)
      BY <1>3, <1>7, <2>2
    <2> QED BY <2>1, <2>3
  <1>15. Fits(longer[n + 1], KindAfter(p, (n + 1) - 1)) <=> Fits(op, KindOf(source, ops))
    <2>1. (n + 1) - 1 = n
      OBVIOUS
    <2> QED BY <1>1, <1>3, <1>4, <1>10, <2>1 DEF KindOf
  <1>16. \A i : i \in 1 .. (n + 1) <=> i \in 1 .. n \/ i = n + 1
    OBVIOUS
  <1>17. WellBuilt(source, longer) <=> WellBuilt(source, ops) /\ Fits(op, KindOf(source, ops))
    BY <1>12, <1>13, <1>14, <1>15, <1>16
  <1> QED BY <1>2, <1>11, <1>17 DEF BuiltOfMore

LEMMA NothingBuilt ==
    ASSUME NEW source
    PROVE  KindOf(source, <<>>) = source /\ WellBuilt(source, <<>>)
  <1>1. Len(<<>>) = 0
    OBVIOUS
  <1>2. KindAfter(QueryOf(source, <<>>), 0) = source
    BY KindAtStart DEF QueryOf
  <1> QED BY <1>1, <1>2 DEF KindOf, WellBuilt

-----------------------------------------------------------------------------
(* Executing the operations one after the other. *)

\* What an operation finds, f being what those before it found.
EvaluateTurn(g, q, lookups, f, i) ==
    EvaluateOperation(g, q.ops[i], KindAfter(q, i - 1), f[i - 1], LookedUp(lookups, i))

EvaluatesBy(g, q, lookups, n, f) ==
    /\ f[0] = Ok(SourceCandidates(g, q.source))
    /\ \A i \in 1 .. n : f[i] = EvaluateTurn(g, q, lookups, f, i)

\* There is such an f, however many operations there are.
LEMMA EvaluationEnds ==
    ASSUME NEW g, NEW q, NEW lookups, NEW n \in Nat
    PROVE  \E f : f = [i \in 0 .. n |-> f[i]] /\ EvaluatesBy(g, q, lookups, n, f)
  <1> DEFINE Goes(k) == \E f : f = [i \in 0 .. k |-> f[i]] /\ EvaluatesBy(g, q, lookups, k, f)
  <1>1. Goes(0)
    <2> DEFINE first == [i \in 0 .. 0 |-> Ok(SourceCandidates(g, q.source))]
    <2>1. first = [i \in 0 .. 0 |-> first[i]] /\ first[0] = Ok(SourceCandidates(g, q.source))
      OBVIOUS
    <2>2. \A i \in 1 .. 0 : FALSE
      OBVIOUS
    <2> HIDE DEF first
    <2> QED BY <2>1, <2>2 DEF EvaluatesBy
  <1>2. ASSUME NEW k \in Nat, Goes(k) PROVE Goes(k + 1)
    <2>1. PICK f : f = [i \in 0 .. k |-> f[i]] /\ EvaluatesBy(g, q, lookups, k, f)
      BY <1>2
    <2>2. PICK m : m = k + 1
      OBVIOUS
    <2>3. PICK next : next = EvaluateTurn(g, q, lookups, f, m)
      OBVIOUS
    <2> DEFINE h == [i \in 0 .. m |-> IF i = m THEN next ELSE f[i]]
    <2>4. h = [i \in 0 .. m |-> h[i]]
      OBVIOUS
    <2>5. \A i \in 0 .. k : h[i] = f[i]
      BY <2>2
    <2>6. h[m] = next
      BY <2>2
    <2> HIDE DEF h
    <2>7. h[0] = Ok(SourceCandidates(g, q.source))
      <3>1. 0 \in 0 .. k
        OBVIOUS
      <3> QED BY <2>1, <2>5, <3>1 DEF EvaluatesBy
    <2>8. ASSUME NEW i \in 1 .. m PROVE h[i] = EvaluateTurn(g, q, lookups, h, i)
      <3>1. i - 1 \in 0 .. k
        BY <2>2
      <3>2. h[i - 1] = f[i - 1]
        BY <2>5, <3>1
      <3>3. EvaluateTurn(g, q, lookups, h, i) = EvaluateTurn(g, q, lookups, f, i)
        BY <3>2 DEF EvaluateTurn
      <3>4. CASE i = m
        BY <2>3, <2>6, <3>3, <3>4
      <3>5. CASE i # m
        <4>1. i \in 1 .. k /\ i \in 0 .. k
          BY <2>2, <3>5
        <4> QED BY <2>1, <2>5, <3>3, <4>1 DEF EvaluatesBy
      <3> QED BY <3>4, <3>5
    <2>9. EvaluatesBy(g, q, lookups, m, h)
      BY <2>7, <2>8 DEF EvaluatesBy
    <2>10. Goes(m)
      BY <2>4, <2>9
    <2> QED BY <2>2, <2>10
  <1> HIDE DEF Goes
  <1> DEFINE T == {k \in Nat : Goes(k)}
  <1>3. 0 \in T /\ \A k \in Nat : k \in T => k + 1 \in T
    BY <1>1, <1>2
  <1> HIDE DEF T
  <1>4. n \in T
    BY <1>3, Induction
  <1>5. Goes(n)
    BY <1>4 DEF T
  <1> QED BY <1>5 DEF Goes

\* The loop of Evaluate is one.
LEMMA EvaluateByTurns ==
    ASSUME NEW g, NEW q, NEW lookups, NEW n \in Nat, n = Len(q.ops)
    PROVE  \E f : EvaluatesBy(g, q, lookups, n, f) /\ Evaluate(g, q, lookups) = f[n]
  <1> DEFINE Turn(f) == [i \in 0 .. Len(q.ops) |->
                             IF i = 0 THEN Ok(SourceCandidates(g, q.source))
                             ELSE EvaluateOperation(g, q.ops[i], KindAfter(q, i - 1), f[i - 1],
                                                    LookedUp(lookups, i))]
             loop == CHOOSE f : f = Turn(f)
  <1>1. Evaluate(g, q, lookups) = loop[n]
    BY DEF Evaluate
  <1>2. \A f : Turn(f) = [i \in 0 .. n |-> Turn(f)[i]]
    OBVIOUS
  <1>3. \A f : Turn(f)[0] = Ok(SourceCandidates(g, q.source))
    OBVIOUS
  <1>4. ASSUME NEW f, NEW i \in 1 .. n PROVE Turn(f)[i] = EvaluateTurn(g, q, lookups, f, i)
    <2>1. i \in 0 .. n /\ i # 0
      OBVIOUS
    <2> QED BY <2>1 DEF EvaluateTurn
  <1> HIDE DEF Turn
  <1>5. PICK f : f = [i \in 0 .. n |-> f[i]] /\ EvaluatesBy(g, q, lookups, n, f)
    <2> HIDE DEF loop
    <2> QED BY EvaluationEnds
  <1>6. f = Turn(f)
    <2>1. ASSUME NEW i \in 0 .. n PROVE f[i] = Turn(f)[i]
      <3>1. CASE i = 0
        BY <1>3, <1>5, <3>1 DEF EvaluatesBy
      <3>2. CASE i # 0
        <4>1. i \in 1 .. n
          BY <3>2
        <4> QED BY <1>4, <1>5, <4>1 DEF EvaluatesBy
      <3> QED BY <3>1, <3>2
    <2> QED BY <1>2, <1>5, <2>1
  <1>7. loop = Turn(loop)
    BY <1>6
  <1> HIDE DEF loop
  <1>8. EvaluatesBy(g, q, lookups, n, loop)
    BY <1>3, <1>4, <1>7 DEF EvaluatesBy
  <1> QED BY <1>1, <1>8

-----------------------------------------------------------------------------
(* A query with one operation more, without looking anything up. *)

Scan(g, source, ops) == Evaluate(g, QueryOf(source, ops), {})

ScansMore(g, source, ops, op) ==
    Scan(g, source, Append(ops, op)) =
        EvaluateOperation(g, op, KindOf(source, ops), Scan(g, source, ops), {})

LEMMA NothingLookedUp ==
    ASSUME NEW n
    PROVE  LookedUp({}, n) = {}
  BY DEF LookedUp

LEMMA ScanOfNone ==
    ASSUME NEW g, NEW source
    PROVE  Scan(g, source, <<>>) = Ok(SourceCandidates(g, source))
  <1>1. PICK q : q = QueryOf(source, <<>>)
    OBVIOUS
  <1>2. PICK n \in Nat : n = 0
    OBVIOUS
  <1>3. n = Len(q.ops) /\ q.source = source
    BY <1>1, <1>2 DEF QueryOf
  <1>4. PICK lookups : lookups = {}
    OBVIOUS
  <1>5. PICK f : EvaluatesBy(g, q, lookups, n, f) /\ Evaluate(g, q, lookups) = f[n]
    BY <1>3, EvaluateByTurns
  <1> QED BY <1>1, <1>2, <1>3, <1>4, <1>5 DEF EvaluatesBy, Scan

LEMMA ScanByTurns ==
    ASSUME NEW g, NEW source, NEW ops \in Seq(Operation), NEW op \in Operation
    PROVE  ScansMore(g, source, ops, op)
  <1>1. PICK n \in Nat : n = Len(ops)
    BY LenProperties
  <1>2. PICK m \in Nat : m = n + 1
    OBVIOUS
  <1>3. PICK longer : longer = Append(ops, op)
    OBVIOUS
  <1>4. /\ Len(longer) = m /\ longer[m] = op /\ \A i \in 1 .. n : longer[i] = ops[i]
    <2>1. Extends(Operation, n, ops, op, longer)
      BY <1>1, <1>3, AppendExtends
    <2> QED BY <1>2, <2>1 DEF Extends
  <1>5. PICK q : q = QueryOf(source, ops)
    OBVIOUS
  <1>6. PICK p : p = QueryOf(source, longer)
    OBVIOUS
  <1>7. /\ q.source = source /\ p.source = source /\ q.ops = ops /\ p.ops = longer
        /\ n = Len(q.ops) /\ m = Len(p.ops)
    BY <1>1, <1>4, <1>5, <1>6 DEF QueryOf
  <1>8. PICK lookups : lookups = {}
    OBVIOUS
  <1>9. PICK f : EvaluatesBy(g, q, lookups, n, f) /\ Evaluate(g, q, lookups) = f[n]
    BY <1>7, EvaluateByTurns
  <1>10. PICK h : EvaluatesBy(g, p, lookups, m, h) /\ Evaluate(g, p, lookups) = h[m]
    BY <1>7, EvaluateByTurns
  <1>11. \A i \in 0 .. n : KindAfter(p, i) = KindAfter(q, i)
    <2>1. \A i \in 1 .. n : p.ops[i] = q.ops[i]
      BY <1>4, <1>7
    <2>2. p.source = q.source
      BY <1>7
    <2> QED BY <2>1, <2>2, KindOfFirst
  <1> DEFINE T == {i \in 0 .. n : h[i] = f[i]}
  <1> HIDE DEF T
  <1>12. 0 \in T
    <2>1. 0 \in 0 .. n
      OBVIOUS
    <2> QED BY <1>7, <1>9, <1>10, <2>1 DEF EvaluatesBy, T
  <1>13. ASSUME NEW i \in 0 .. (n - 1), i \in T PROVE i + 1 \in T
    <2>1. PICK j : j = i + 1
      OBVIOUS
    <2>2. j \in 1 .. n /\ j \in 1 .. m /\ j \in 0 .. n /\ j - 1 = i /\ i \in 0 .. n
      BY <1>2, <2>1
    <2>3. f[j] = EvaluateTurn(g, q, lookups, f, j) /\ h[j] = EvaluateTurn(g, p, lookups, h, j)
      BY <1>9, <1>10, <2>2 DEF EvaluatesBy
    <2>4. /\ p.ops[j] = q.ops[j] /\ KindAfter(p, i) = KindAfter(q, i) /\ h[i] = f[i]
      BY <1>4, <1>7, <1>11, <1>13, <2>2 DEF T
    <2>5. h[j] = f[j]
      BY <2>2, <2>3, <2>4 DEF EvaluateTurn
    <2>6. j \in T
      BY <2>2, <2>5 DEF T
    <2> QED BY <2>1, <2>6
  <1>14. \A i \in 0 .. n : i \in T
    BY <1>12, <1>13, TurnByTurn
  <1>15. h[n] = f[n] /\ KindAfter(p, n) = KindAfter(q, n)
    BY <1>11, <1>14 DEF T
  <1>16. h[m] = EvaluateTurn(g, p, lookups, h, m) /\ m - 1 = n
    BY <1>2, <1>10 DEF EvaluatesBy
  <1>17. LookedUp(lookups, m) = {}
    BY <1>8, NothingLookedUp
  <1>18. h[m] = EvaluateOperation(g, op, KindAfter(q, n), f[n], {})
    BY <1>4, <1>7, <1>15, <1>16, <1>17 DEF EvaluateTurn
  <1> QED BY <1>1, <1>3, <1>5, <1>6, <1>8, <1>9, <1>10, <1>18 DEF ScansMore, Scan, KindOf

-----------------------------------------------------------------------------
(* What a query reads. *)

LEMMA GraphOK ==
    ASSUME NEW g \in Graphs
    PROVE  SnapshotOK(g)
  BY GraphAssumption

\* A visible node has a value of its kind.
LEMMA VisibleValue ==
    ASSUME NEW g \in Graphs, NEW k \in Kinds, NEW id \in VisibleIds(g, k)
    PROVE  /\ ValueOf(g, k, id) \in Values /\ DOMAIN ValueOf(g, k, id) = KeysOf[k]
           /\ \A key \in KeysOf[k] : ValueOf(g, k, id)[key] \in Int
  <1>1. SnapshotOK(g)
    BY GraphOK
  <1>2. id \in NodeIdSpace /\ Visible(g, k, id)
    BY DEF VisibleIds
  <1>3. id \in Nat
    BY <1>2, CapacityAssumption DEF NodeIdSpace
  <1>4. PICK i \in 1 .. Len(g) : HasNode(g[i].data, k, id)
    BY <1>2 DEF Visible, Answers
  <1>5. PICK d : d = g[i].data
    OBVIOUS
  <1>6. d \in Delta /\ Bounded(d)
    BY <1>1, <1>5, LayerFacts
  <1>7. id \in NodeIds(d, k)
    BY <1>3, <1>4, <1>5, <1>6, NodeRange
  <1>8. Property(g, k, id) = NodeRow(d, k, id)
    BY <1>1, <1>3, <1>5, <1>7, OneAnswers
  <1>9. PICK n : n = id - d.nodeBase[k] + 1
    OBVIOUS
  <1>10. n \in 1 .. Len(d.nodes[k])
    <2>1. PICK b \in Nat : b = d.nodeBase[k]
      BY <1>6 DEF Delta
    <2>2. PICK l \in Nat : l = Len(d.nodes[k])
      <3>1. d.nodes[k] \in Seq(Row)
        BY <1>6 DEF Delta
      <3> QED BY <3>1, LenProperties
    <2>3. b <= id /\ id <= b + l - 1
      BY <1>3, <1>7, <2>1, <2>2 DEF NodeIds, NodeExtent
    <2>4. n = id - b + 1
      BY <1>9, <2>1
    <2>5. n \in 1 .. l
      BY <1>3, <2>3, <2>4
    <2> QED BY <2>2, <2>5
  <1>11. d.nodes[k][n] \in Row
    BY <1>6, <1>10, ElementOfSeq DEF Delta
  <1>12. ValueOf(g, k, id) = d.nodes[k][n].value
    BY <1>8, <1>9 DEF ValueOf, NodeRow
  <1>13. DOMAIN d.nodes[k][n].value = KeysOf[k]
    BY <1>5, <1>10, GraphAssumption
  <1>14. d.nodes[k][n].value \in Values
    BY <1>11 DEF Row
  <1> QED BY <1>12, <1>13, <1>14, ComparableAssumption

LEMMA ReadableIds ==
    ASSUME NEW g, NEW k, NEW ids \in Seq(VisibleIds(g, k))
    PROVE  Readable(g, k, ids)
  <1>1. ASSUME NEW i \in 1 .. Len(ids) PROVE Visible(g, k, ids[i])
    <2>1. ids[i] \in VisibleIds(g, k)
      BY ElementOfSeq
    <2> QED BY <2>1 DEF VisibleIds
  <1> QED BY <1>1 DEF Readable

\* A list of entries, each of which is one of its entries.
LEMMA ListOfItsRange ==
    ASSUME NEW S, NEW list \in Seq(S)
    PROVE  list \in Seq(Range(list)) /\ \A x \in Range(list) : x \in S
  <1>1. PICK n \in Nat : n = Len(list) /\ list \in [1 .. n -> S]
    BY LenProperties
  <1>2. Range(list) = {list[i] : i \in 1 .. n}
    BY <1>1 DEF Range
  <1>3. list \in [1 .. n -> Range(list)]
    BY <1>1, <1>2
  <1>4. list \in Seq(Range(list))
    BY <1>1, <1>3, SeqDef
  <1> QED BY <1>1, <1>2, <1>4

-----------------------------------------------------------------------------
(* Filters. *)

\* The nodes that match all predicates.
Chosen(g, k, predicates) == {id \in VisibleIds(g, k) : MatchesAll(g, k, predicates, id)}

\* The predicates ask for properties that the kind has.
AskedOf(predicates, k) == \A j \in 1 .. Len(predicates) : predicates[j].key \in KeysOf[k]

\* Nothing that matches is missing from what the index of a predicate finds.
LEMMA IndexHasTheChosen ==
    ASSUME NEW g \in Graphs, NEW k \in Kinds, NEW predicates, AskedOf(predicates, k),
           NEW j \in 1 .. Len(predicates), NEW id \in Chosen(g, k, predicates)
    PROVE  id \in Range(PropertyCandidates(g, k, Accepted(predicates[j])))
  <1>1. id \in VisibleIds(g, k) /\ MatchesAll(g, k, predicates, id)
    BY DEF Chosen
  <1>2. ValueOf(g, k, id) \in Values /\ DOMAIN ValueOf(g, k, id) = KeysOf[k]
    BY <1>1, VisibleValue
  <1>3. predicates[j].key \in KeysOf[k] /\ Matches(predicates[j], ValueOf(g, k, id))
    BY <1>1 DEF MatchesAll, AskedOf
  <1>4. ValueOf(g, k, id) \in Accepted(predicates[j])
    BY <1>2, <1>3 DEF Accepted
  <1>5. PICK accepted : accepted = Accepted(predicates[j])
    OBVIOUS
  <1>6. InOrder(PropertyCandidates(g, k, accepted),
                {i \in NodeIdSpace : Visible(g, k, i) /\ Property(g, k, i).value \in accepted})
    BY GraphOK, PropertyCandidatesInOrder
  <1>7. Range(PropertyCandidates(g, k, accepted)) =
            {i \in NodeIdSpace : Visible(g, k, i) /\ Property(g, k, i).value \in accepted}
    BY <1>6 DEF InOrder
  <1>8. id \in NodeIdSpace /\ Visible(g, k, id)
    BY <1>1 DEF VisibleIds
  <1> QED BY <1>4, <1>5, <1>7, <1>8 DEF ValueOf

\* So retaining what an index finds loses nothing that a filter keeps.
LEMMA RetainingLosesNothing ==
    ASSUME NEW V, NEW input \in Seq(V), NEW indexed, NEW good, good \subseteq Range(indexed)
    PROVE  /\ RetainSmaller(input, indexed) \in Seq(V)
           /\ Kept(RetainSmaller(input, indexed), good) = Kept(input, good)
  <1>1. PICK found : found = Range(indexed)
    OBVIOUS
  <1>2. Kept(input, found) \in Seq(V)
    BY KeptAmong
  <1>3. Kept(Kept(input, found), good) = Kept(input, found \cap good)
    BY KeptTwice
  <1>4. found \cap good = good
    BY <1>1
  <1>5. Kept(Kept(input, found), good) = Kept(input, good)
    BY <1>3, <1>4
  <1> QED BY <1>1, <1>2, <1>5 DEF RetainSmaller

\* Results of retaining for one predicate after the other.
RetainsBy(g, k, predicates, input, lookups, n, f) ==
    /\ f[0] = input
    /\ \A j \in 1 .. n : f[j] =
           IF j \in lookups
           THEN RetainSmaller(f[j - 1], PropertyCandidates(g, k, Accepted(predicates[j])))
           ELSE f[j - 1]

LEMMA RetainingEnds ==
    ASSUME NEW g, NEW k, NEW predicates, NEW V, NEW input \in Seq(V), NEW lookups, NEW n \in Nat
    PROVE  \E f : f = [j \in 0 .. n |-> f[j]] /\ RetainsBy(g, k, predicates, input, lookups, n, f)
  <1>1. PICK S : S = Seq(V)
    OBVIOUS
  <1> DEFINE next(j, ids) ==
                 IF j \in lookups
                 THEN RetainSmaller(ids, PropertyCandidates(g, k, Accepted(predicates[j])))
                 ELSE ids
             step == [x \in (1 .. n) \X S |-> next(x[1], x[2])]
  <1>2. ASSUME NEW j \in 1 .. n, NEW ids \in S PROVE next(j, ids) \in S
    <2>1. PICK found : found = Range(PropertyCandidates(g, k, Accepted(predicates[j])))
      OBVIOUS
    <2>2. Kept(ids, found) \in Seq(V)
      BY <1>1, KeptAmong
    <2>3. Kept(ids, found) \in S
      BY <1>1, <2>2
    <2> QED BY <2>1, <2>3 DEF RetainSmaller
  <1>3. ASSUME NEW j \in 1 .. n, NEW ids \in S PROVE step[<<j, ids>>] = next(j, ids)
    <2> HIDE DEF next
    <2>1. <<j, ids>> \in (1 .. n) \X S
      OBVIOUS
    <2> QED BY <2>1
  <1>4. step \in [(1 .. n) \X S -> S]
    <2> HIDE DEF next
    <2> QED BY <1>2
  <1> HIDE DEF step
  <1>5. PICK f \in [0 .. n -> S] : Runs(n, input, step, f)
    <2>1. input \in S
      BY <1>1
    <2> HIDE DEF next
    <2> QED BY <1>4, <2>1, LoopEnds
  <1>6. ASSUME NEW j \in 1 .. n PROVE f[j] = next(j, f[j - 1])
    <2>1. j - 1 \in 0 .. n
      OBVIOUS
    <2>2. f[j - 1] \in S
      BY <2>1
    <2> HIDE DEF next
    <2>3. step[<<j, f[j - 1]>>] = next(j, f[j - 1])
      BY <1>3, <2>2
    <2> QED BY <1>5, <2>3 DEF Runs
  <1>7. f[0] = input
    BY <1>5 DEF Runs
  <1>8. f = [j \in 0 .. n |-> f[j]]
    OBVIOUS
  <1> QED BY <1>6, <1>7, <1>8 DEF RetainsBy

LEMMA RetainedByTurns ==
    ASSUME NEW g, NEW k, NEW predicates, NEW V, NEW input \in Seq(V), NEW lookups,
           NEW n \in Nat, n = Len(predicates)
    PROVE  \E f : /\ RetainsBy(g, k, predicates, input, lookups, n, f)
                  /\ Retained(g, k, predicates, input, lookups) = f[n]
  <1> DEFINE Turn(f) == [j \in 0 .. Len(predicates) |->
                 IF j = 0 THEN input
                 ELSE IF j \in lookups
                      THEN RetainSmaller(f[j - 1],
                                         PropertyCandidates(g, k, Accepted(predicates[j])))
                      ELSE f[j - 1]]
             loop == CHOOSE f : f = Turn(f)
  <1>1. Retained(g, k, predicates, input, lookups) = loop[n]
    BY DEF Retained
  <1>2. \A f : Turn(f) = [j \in 0 .. n |-> Turn(f)[j]]
    OBVIOUS
  <1>3. \A f : Turn(f)[0] = input
    OBVIOUS
  <1>4. ASSUME NEW f, NEW j \in 1 .. n
        PROVE  Turn(f)[j] = IF j \in lookups
                            THEN RetainSmaller(f[j - 1],
                                               PropertyCandidates(g, k, Accepted(predicates[j])))
                            ELSE f[j - 1]
    <2>1. j \in 0 .. n /\ j # 0
      OBVIOUS
    <2> QED BY <2>1
  <1> HIDE DEF Turn
  <1>5. PICK f : f = [j \in 0 .. n |-> f[j]] /\ RetainsBy(g, k, predicates, input, lookups, n, f)
    <2> HIDE DEF loop
    <2> QED BY RetainingEnds
  <1>6. f = Turn(f)
    <2>1. ASSUME NEW j \in 0 .. n PROVE f[j] = Turn(f)[j]
      <3>1. CASE j = 0
        BY <1>3, <1>5, <3>1 DEF RetainsBy
      <3>2. CASE j # 0
        <4>1. j \in 1 .. n
          BY <3>2
        <4> QED BY <1>4, <1>5, <4>1 DEF RetainsBy
      <3> QED BY <3>1, <3>2
    <2> QED BY <1>2, <1>5, <2>1
  <1>7. loop = Turn(loop)
    BY <1>6
  <1> HIDE DEF loop
  <1>8. RetainsBy(g, k, predicates, input, lookups, n, loop)
    BY <1>3, <1>4, <1>7 DEF RetainsBy
  <1> QED BY <1>1, <1>8

LEMMA RetainedKeepsTheChosen ==
    ASSUME NEW g \in Graphs, NEW k \in Kinds, NEW predicates \in Seq(Predicate),
           AskedOf(predicates, k), NEW input \in Seq(VisibleIds(g, k)), NEW lookups
    PROVE  /\ Retained(g, k, predicates, input, lookups) \in Seq(VisibleIds(g, k))
           /\ Kept(Retained(g, k, predicates, input, lookups), Chosen(g, k, predicates)) =
                  Kept(input, Chosen(g, k, predicates))
  <1>1. PICK n \in Nat : n = Len(predicates)
    BY LenProperties
  <1>2. PICK V : V = VisibleIds(g, k)
    OBVIOUS
  <1>3. PICK good : good = Chosen(g, k, predicates)
    OBVIOUS
  <1>4. PICK f : /\ RetainsBy(g, k, predicates, input, lookups, n, f)
                 /\ Retained(g, k, predicates, input, lookups) = f[n]
    BY <1>1, RetainedByTurns
  <1> DEFINE T == {j \in 0 .. n : f[j] \in Seq(V) /\ Kept(f[j], good) = Kept(input, good)}
  <1> HIDE DEF T
  <1>5. 0 \in T
    <2>1. 0 \in 0 .. n /\ f[0] = input
      BY <1>4 DEF RetainsBy
    <2> QED BY <1>2, <2>1 DEF T
  <1>6. ASSUME NEW i \in 0 .. (n - 1), i \in T PROVE i + 1 \in T
    <2>1. PICK j : j = i + 1
      OBVIOUS
    <2>2. j \in 1 .. n /\ j \in 0 .. n /\ j - 1 = i
      BY <2>1
    <2>3. PICK ids \in Seq(V) : ids = f[i] /\ Kept(ids, good) = Kept(input, good)
      BY <1>6 DEF T
    <2>4. PICK indexed : indexed = PropertyCandidates(g, k, Accepted(predicates[j]))
      OBVIOUS
    <2>5. f[j] = IF j \in lookups THEN RetainSmaller(ids, indexed) ELSE ids
      BY <1>4, <2>2, <2>3, <2>4 DEF RetainsBy
    <2>6. good \subseteq Range(indexed)
      BY <1>1, <1>3, <2>2, <2>4, IndexHasTheChosen
    <2>7. /\ RetainSmaller(ids, indexed) \in Seq(V)
          /\ Kept(RetainSmaller(ids, indexed), good) = Kept(ids, good)
      BY <2>6, RetainingLosesNothing
    <2>8. j \in T
      BY <2>2, <2>3, <2>5, <2>7 DEF T
    <2> QED BY <2>1, <2>8
  <1>7. \A i \in 0 .. n : i \in T
    BY <1>5, <1>6, TurnByTurn
  <1>8. f[n] \in Seq(V) /\ Kept(f[n], good) = Kept(input, good)
    BY <1>7 DEF T
  <1> QED BY <1>2, <1>3, <1>4, <1>8

\* Whichever predicates are looked up, a filter keeps what matches.
LEMMA WhereResult ==
    ASSUME NEW g \in Graphs, NEW k \in Kinds, NEW predicates \in Seq(Predicate),
           AskedOf(predicates, k), NEW input \in Seq(VisibleIds(g, k)), NEW lookups
    PROVE  EvaluateWhere(g, k, predicates, input, lookups) =
               Ok(Kept(input, Chosen(g, k, predicates)))
  <1>1. PICK retained : retained = Retained(g, k, predicates, input, lookups)
    OBVIOUS
  <1>2. PICK V : V = VisibleIds(g, k)
    OBVIOUS
  <1>3. PICK good : good = Chosen(g, k, predicates)
    OBVIOUS
  <1>4. PICK matching : matching = {id \in Range(retained) : MatchesAll(g, k, predicates, id)}
    OBVIOUS
  <1>5. retained \in Seq(VisibleIds(g, k)) /\ Kept(retained, good) = Kept(input, good)
    BY <1>1, <1>3, RetainedKeepsTheChosen
  <1>6. Readable(g, k, retained)
    BY <1>5, ReadableIds
  <1>7. PICK S : S = Range(retained)
    OBVIOUS
  <1>8. retained \in Seq(S) /\ \A x \in S : x \in V
    BY <1>2, <1>5, <1>7, ListOfItsRange
  <1>9. \A x \in S : x \in matching <=> x \in good
    BY <1>2, <1>3, <1>4, <1>7, <1>8 DEF Chosen
  <1>10. Kept(retained, matching) = Kept(retained, good)
    BY <1>8, <1>9, KeptAlike
  <1>11. EvaluateWhere(g, k, predicates, input, lookups) = Ok(Kept(retained, matching))
    BY <1>1, <1>4, <1>6 DEF EvaluateWhere
  <1> QED BY <1>3, <1>5, <1>10, <1>11

-----------------------------------------------------------------------------
(* Traversals, rankings and limits. *)

LEMMA TraverseType ==
    ASSUME NEW g \in Graphs, NEW r \in Relations,
           NEW input \in Seq(VisibleIds(g, SourceKind[r]))
    PROVE  \E ids \in Seq(VisibleIds(g, TargetKind[r])) : EvaluateTraverse(g, r, input) = Ok(ids)
  <1>1. PICK n \in Nat : n = Len(input)
    BY LenProperties
  <1>2. PICK E : E = VisibleIds(g, TargetKind[r])
    OBVIOUS
  <1> DEFINE targets(id) == LET edges == Outgoing(g, r, id)
                            IN  [m \in 1 .. Len(edges) |-> EdgeTarget(g, r, edges[m])]
             lists == [i \in 1 .. Len(input) |-> targets(input[i])]
  <1>3. ASSUME NEW id \in VisibleIds(g, SourceKind[r]) PROVE targets(id) \in Seq(E)
    <2>1. id \in Nat
      BY CapacityAssumption DEF VisibleIds, NodeIdSpace
    <2>2. PICK edges \in Seq(Nat) : edges = Outgoing(g, r, id) /\ InOrder(edges, OutgoingEdges(g, r, id))
      BY <2>1, GraphOK, OutgoingInOrder
    <2>3. PICK l \in Nat : l = Len(edges) /\ DOMAIN edges = 1 .. l
      BY LenProperties
    <2>4. ASSUME NEW m \in 1 .. l PROVE EdgeTarget(g, r, edges[m]) \in E
      <3>1. edges[m] \in Range(edges)
        BY <2>3 DEF Range
      <3>2. edges[m] \in OutgoingEdges(g, r, id)
        BY <2>2, <3>1 DEF InOrder
      <3>3. edges[m] \in LiveEdges(g, r)
        BY <3>2 DEF OutgoingEdges
      <3> QED BY <1>2, <3>3, GraphOK, ViewEdges
    <2>5. targets(id) = [m \in 1 .. l |-> EdgeTarget(g, r, edges[m])]
      BY <2>2, <2>3
    <2>6. targets(id) \in [1 .. l -> E]
      BY <2>4, <2>5
    <2> HIDE DEF targets
    <2> QED BY <2>6, SeqDef
  <1>4. EvaluateTraverse(g, r, input) = Ok(FlattenSeq(lists))
    BY ReadableIds DEF EvaluateTraverse
  <1>5. DOMAIN lists = 1 .. n /\ Len(lists) = n
    BY <1>1
  <1>6. ASSUME NEW i \in 1 .. n PROVE lists[i] \in Seq(E)
    <2>1. input[i] \in VisibleIds(g, SourceKind[r])
      BY <1>1, ElementOfSeq
    <2>2. lists[i] = targets(input[i])
      BY <1>1
    <2> HIDE DEF targets, lists
    <2> QED BY <1>3, <2>1, <2>2
  <1> HIDE DEF targets, lists
  <1>7. FlattenSeq(lists) \in Seq(E)
    BY <1>5, <1>6, FlattenType
  <1> QED BY <1>2, <1>4, <1>7

\* The first few of a list.
LEMMA TruncateType ==
    ASSUME NEW S, NEW ids \in Seq(S), NEW count \in Nat
    PROVE  Truncate(ids, count) \in Seq(S)
  <1>1. PICK n \in Nat : n = Len(ids)
    BY LenProperties
  <1>2. PICK m \in Nat : m = Min({count, n}) /\ m <= n
    BY DEF Min
  <1>3. \A i \in 1 .. m : ids[i] \in S
    BY <1>1, <1>2, ElementOfSeq
  <1>4. /\ SubSeq(ids, 1, m) \in Seq(S)
        /\ Len(SubSeq(ids, 1, m)) = IF 1 <= m THEN m - 1 + 1 ELSE 0
        /\ \A i \in 1 .. m - 1 + 1 : SubSeq(ids, 1, m)[i] = ids[1 + i - 1]
    BY <1>3, SubSeqProperties
  <1> QED BY <1>1, <1>2, <1>4 DEF Truncate

\* The order of a ranking, and where it puts each entry.
Precedes(value, direction, i, j) ==
    \/ value[i] = value[j] /\ i < j
    \/ IF direction = "ascending" THEN value[i] < value[j] ELSE value[i] > value[j]

RankOf(n, value, direction, i) ==
    1 + Cardinality({j \in 1 .. n : Precedes(value, direction, j, i)})

Places(n, value, direction, place) ==
    \A p, i \in 1 .. n : RankOf(n, value, direction, i) = p <=> i = place[p]

LEMMA PlacesExist ==
    ASSUME NEW n \in Nat, NEW value \in [1 .. n -> Int], NEW direction
    PROVE  \E place \in [1 .. n -> 1 .. n] : Places(n, value, direction, place)
  <1> DEFINE before(i, j) == Precedes(value, direction, i, j)
  <1>1. /\ \A i \in 1 .. n : ~before(i, i)
        /\ \A i, j \in 1 .. n : i # j => before(i, j) \/ before(j, i)
    BY DEF Precedes
  <1>2. \A h, i, j \in 1 .. n : before(h, i) /\ before(i, j) => before(h, j)
    <2>1. CASE direction = "ascending"
      BY <2>1 DEF Precedes
    <2>2. CASE direction # "ascending"
      BY <2>2 DEF Precedes
    <2> QED BY <2>1, <2>2
  <1>3. PICK below : below = [i \in 1 .. n |-> {j \in 1 .. n : before(j, i)}]
    OBVIOUS
  <1>4. /\ below \in [1 .. n -> SUBSET (1 .. n)]
        /\ \A i, j \in 1 .. n : j \in below[i] <=> before(j, i)
        /\ \A i \in 1 .. n : below[i] = {j \in 1 .. n : Precedes(value, direction, j, i)}
    BY <1>3
  <1> HIDE DEF before
  <1>5. /\ \A p \in 1 .. n : \E i \in 1 .. n : 1 + Cardinality(below[i]) = p
        /\ \A i, j \in 1 .. n : Cardinality(below[i]) = Cardinality(below[j]) => i = j
        /\ \A i \in 1 .. n : Cardinality(below[i]) \in Nat
    <2>1. \A i \in 1 .. n : i \notin below[i]
      BY <1>1, <1>4
    <2>2. \A i, j \in 1 .. n : i # j => i \in below[j] \/ j \in below[i]
      BY <1>1, <1>4
    <2>3. \A i, j \in 1 .. n : i \in below[j] => below[i] \subseteq below[j]
      <3> SUFFICES ASSUME NEW i \in 1 .. n, NEW j \in 1 .. n, i \in below[j], NEW h \in below[i]
                   PROVE  h \in below[j]
        OBVIOUS
      <3>1. h \in 1 .. n
        BY <1>4
      <3> QED BY <1>2, <1>4, <3>1
    <2> QED BY <1>4, <2>1, <2>2, <2>3, EveryRankIsTaken
  <1>6. PICK place : place = [p \in 1 .. n |-> CHOOSE i \in 1 .. n : 1 + Cardinality(below[i]) = p]
    OBVIOUS
  <1>7. \A p \in 1 .. n : place[p] \in 1 .. n /\ 1 + Cardinality(below[place[p]]) = p
    BY <1>5, <1>6
  <1>8. place \in [1 .. n -> 1 .. n]
    BY <1>6, <1>7
  <1>9. ASSUME NEW p \in 1 .. n, NEW i \in 1 .. n
        PROVE  1 + Cardinality(below[i]) = p <=> i = place[p]
    <2>1. CASE 1 + Cardinality(below[i]) = p
      <3>1. PICK q \in 1 .. n : q = place[p] /\ 1 + Cardinality(below[q]) = p
        BY <1>7
      <3>2. PICK c, d \in Nat : c = Cardinality(below[i]) /\ d = Cardinality(below[q])
        BY <1>5
      <3>3. 1 + c = p /\ 1 + d = p
        BY <2>1, <3>1, <3>2
      <3>4. c = d
        BY <3>3
      <3>5. i = q
        BY <1>5, <3>2, <3>4
      <3> QED BY <2>1, <3>1, <3>5
    <2>2. CASE 1 + Cardinality(below[i]) # p
      BY <1>7, <2>2
    <2> QED BY <2>1, <2>2
  <1>10. Places(n, value, direction, place)
    <2> SUFFICES ASSUME NEW p \in 1 .. n, NEW i \in 1 .. n
                 PROVE  RankOf(n, value, direction, i) = p <=> i = place[p]
      BY DEF Places
    <2>1. {j \in 1 .. n : Precedes(value, direction, j, i)} = below[i]
      BY <1>4
    <2>2. RankOf(n, value, direction, i) = 1 + Cardinality(below[i])
      BY <2>1 DEF RankOf
    <2> QED BY <1>9, <2>2
  <1> QED BY <1>8, <1>10

ValuesAre(g, k, input, key, n, value) ==
    \A i \in 1 .. n : value[i] = ValueOf(g, k, input[i])[key]

Arranged(n, input, place) == [p \in 1 .. n |-> input[place[p]]]

LEMMA RankedByPlaces ==
    ASSUME NEW g, NEW k, NEW count, NEW key, NEW direction, NEW input, NEW n \in Nat, n = Len(input),
           Readable(g, k, input),
           NEW values, ValuesAre(g, k, input, key, n, values),
           NEW place \in [1 .. n -> 1 .. n], Places(n, values, direction, place)
    PROVE  EvaluateTopK(g, k, count, key, direction, input) =
               Ok(Truncate(Arranged(n, input, place), count))
  <1> DEFINE value(i) == ValueOf(g, k, input[i])[key]
             before(i, j) == \/ value(i) = value(j) /\ i < j
                             \/ IF direction = "ascending" THEN value(i) < value(j)
                                                         ELSE value(i) > value(j)
             rank(i) == 1 + Cardinality({j \in 1 .. Len(input) : before(j, i)})
             at(p) == CHOOSE i \in 1 .. Len(input) : rank(i) = p
             ranked == [p \in 1 .. Len(input) |-> input[at(p)]]
  <1>1. EvaluateTopK(g, k, count, key, direction, input) = Ok(Truncate(ranked, count))
    BY DEF EvaluateTopK
  <1> HIDE DEF value
  <1>2. \A i \in 1 .. n : values[i] = value(i)
    BY DEF value, ValuesAre
  <1>3. \A i, j \in 1 .. n : before(i, j) <=> Precedes(values, direction, i, j)
    BY <1>2 DEF Precedes
  <1> HIDE DEF before
  <1>4. ASSUME NEW i \in 1 .. n
        PROVE  rank(i) = RankOf(n, values, direction, i)
    <2>1. {j \in 1 .. Len(input) : before(j, i)} = {j \in 1 .. n : Precedes(values, direction, j, i)}
      BY <1>3
    <2> QED BY <2>1 DEF RankOf
  <1> HIDE DEF rank
  <1>5. \A p, i \in 1 .. n : rank(i) = p <=> i = place[p]
    BY <1>4 DEF Places
  <1>6. ASSUME NEW p \in 1 .. n PROVE at(p) = place[p]
    <2>1. place[p] \in 1 .. n /\ rank(place[p]) = p
      BY <1>5
    <2> HIDE DEF ranked
    <2>2. at(p) \in 1 .. n /\ rank(at(p)) = p
      BY <2>1
    <2> HIDE DEF at
    <2> QED BY <1>5, <2>2
  <1> HIDE DEF at
  <1>7. ranked = [p \in 1 .. n |-> input[place[p]]]
    <2>1. ranked = [p \in 1 .. n |-> input[at(p)]]
      OBVIOUS
    <2>2. \A p \in 1 .. n : input[at(p)] = input[place[p]]
      BY <1>6
    <2>3. [p \in 1 .. n |-> input[at(p)]] = [p \in 1 .. n |-> input[place[p]]]
      BY <2>2
    <2> HIDE DEF ranked
    <2> QED BY <2>1, <2>3
  <1> HIDE DEF ranked
  <1> QED BY <1>1, <1>7 DEF Arranged

\* A ranking is a list of the same nodes.
LEMMA RankingType ==
    ASSUME NEW g \in Graphs, NEW k \in Kinds, NEW count \in Nat, NEW key \in KeysOf[k],
           NEW direction, NEW input \in Seq(VisibleIds(g, k))
    PROVE  \E ids \in Seq(VisibleIds(g, k)) :
               EvaluateTopK(g, k, count, key, direction, input) = Ok(ids)
  <1>1. PICK n \in Nat : n = Len(input)
    BY LenProperties
  <1>2. PICK V : V = VisibleIds(g, k)
    OBVIOUS
  <1>3. PICK value : value = [i \in 1 .. n |-> ValueOf(g, k, input[i])[key]]
    OBVIOUS
  <1>4. \A i \in 1 .. n : input[i] \in V
    BY <1>1, <1>2, ElementOfSeq
  <1>5. value \in [1 .. n -> Int]
    BY <1>2, <1>3, <1>4, VisibleValue
  <1>6. ValuesAre(g, k, input, key, n, value)
    BY <1>3 DEF ValuesAre
  <1>7. PICK place \in [1 .. n -> 1 .. n] : Places(n, value, direction, place)
    BY <1>5, PlacesExist
  <1>8. PICK ranked : ranked = Arranged(n, input, place)
    OBVIOUS
  <1>9. EvaluateTopK(g, k, count, key, direction, input) = Ok(Truncate(ranked, count))
    BY <1>1, <1>6, <1>7, <1>8, ReadableIds, RankedByPlaces
  <1>10. ranked \in Seq(V)
    <2>1. ranked \in [1 .. n -> V]
      BY <1>4, <1>8 DEF Arranged
    <2> QED BY <2>1, SeqDef
  <1>11. Truncate(ranked, count) \in Seq(V)
    BY <1>10, TruncateType
  <1> QED BY <1>2, <1>9, <1>11

-----------------------------------------------------------------------------
(* One operation. *)

LEMMA OperationFacts ==
    ASSUME NEW op \in Operation
    PROVE  /\ op.kind \in {"active_at", "known_at", "in_worldline", "where", "traverse", "top_k",
                           "limit", "project"}
           /\ op.kind = "where" => op.predicates \in Seq(Predicate) /\ op.predicates # <<>>
           /\ op.kind = "traverse" => op.relation \in Relations
           /\ op.kind = "top_k" => op.count \in Nat /\ op.key \in Keys
           /\ op.kind = "limit" => op.count \in Nat
           /\ op.kind = "project" => op.keys \in Seq(Keys) /\ op.keys # <<>>
  BY DEF Operation

\* What an operation finds after what was found before it, read as a list of equations.
OperationFinds(g, op, k, ids, lookups) ==
    LET found == EvaluateOperation(g, op, k, Ok(ids), lookups)
    IN  /\ op.kind = "where" => found = EvaluateWhere(g, k, op.predicates, ids, lookups)
        /\ op.kind = "traverse" => found = EvaluateTraverse(g, op.relation, ids)
        /\ op.kind = "top_k" => found = EvaluateTopK(g, k, op.count, op.key, op.direction, ids)
        /\ op.kind = "limit" => found = Ok(Truncate(ids, op.count))
        /\ op.kind \in Selectors \cup {"project"} => found = Ok(ids)

LEMMA OperationEvaluates ==
    ASSUME NEW g, NEW op \in Operation, NEW k, NEW ids, NEW lookups, SelectorError(g, op) = NoError
    PROVE  OperationFinds(g, op, k, ids, lookups)
  <1>1. Ok(ids).error = NoError /\ Ok(ids).ids = ids
    BY DEF Ok
  <1>2. EvaluateOperation(g, op, k, Ok(ids), lookups) =
            CASE op.kind = "where" -> EvaluateWhere(g, k, op.predicates, ids, lookups)
              [] op.kind = "traverse" -> EvaluateTraverse(g, op.relation, ids)
              [] op.kind = "top_k" -> EvaluateTopK(g, k, op.count, op.key, op.direction, ids)
              [] op.kind = "limit" -> Ok(Truncate(ids, op.count))
              [] op.kind \in Selectors \cup {"project"} -> Ok(ids)
    BY <1>1 DEF EvaluateOperation
  <1> QED BY <1>2 DEF OperationFinds, Selectors

\* Only selectors find errors, and an error stays until a selector finds another.
LEMMA ErrorFacts ==
    ASSUME NEW g, NEW op, NEW k, NEW r, NEW lookups
    PROVE  /\ SelectorError(g, op) \in {NoError, "conflict", "worldline_mismatch"}
           /\ op.kind \notin Selectors => SelectorError(g, op) = NoError
           /\ SelectorError(g, op) # NoError =>
                  EvaluateOperation(g, op, k, r, lookups) = Fail(SelectorError(g, op))
           /\ SelectorError(g, op) = NoError /\ r.error # NoError =>
                  EvaluateOperation(g, op, k, r, lookups) = r
  <1>1. SelectorError(g, op) \in {NoError, "conflict", "worldline_mismatch"}
    BY DEF SelectorError, NoError
  <1>2. op.kind \notin Selectors => SelectorError(g, op) = NoError
    BY DEF SelectorError, Selectors
  <1> QED BY <1>1, <1>2 DEF EvaluateOperation

LEMMA ResultFacts ==
    ASSUME NEW ids, NEW error
    PROVE  /\ Ok(ids).error = NoError /\ Ok(ids).ids = ids
           /\ Fail(error).error = error /\ Fail(error).ids = <<>>
  BY DEF Ok, Fail

\* What the operations find among nodes of kind k: visible nodes or an error of a selector.
Outcome(g, k, r) ==
    \/ \E ids \in Seq(VisibleIds(g, k)) : r = Ok(ids)
    \/ \E error \in {"conflict", "worldline_mismatch"} : r = Fail(error)

LEMMA OutcomeWithoutError ==
    ASSUME NEW g, NEW k, NEW r, Outcome(g, k, r), r.error = NoError
    PROVE  \E ids \in Seq(VisibleIds(g, k)) : r = Ok(ids)
  <1>1. "conflict" # NoError /\ "worldline_mismatch" # NoError
    BY DEF NoError
  <1> QED BY <1>1, ResultFacts DEF Outcome

LEMMA NextKindType ==
    ASSUME NEW op \in Operation, NEW k \in Kinds
    PROVE  NextKind(op, k) \in Kinds
  BY OperationFacts, SchemaAssumption DEF NextKind

\* The kind of the nodes of a query that is built right.
LEMMA KindOfType ==
    ASSUME NEW source \in Kinds, NEW ops \in Seq(Operation)
    PROVE  KindOf(source, ops) \in Kinds
  <1> DEFINE T == {list \in Seq(Operation) : KindOf(source, list) \in Kinds}
  <1> HIDE DEF T
  <1>1. <<>> \in T
    BY NothingBuilt, EmptySeq DEF T
  <1>2. ASSUME NEW list \in Seq(Operation), NEW op \in Operation, list \in T
        PROVE  Append(list, op) \in T
    <2>1. KindOf(source, list) \in Kinds
      BY <1>2 DEF T
    <2>2. BuiltOfMore(source, list, op)
      BY BuiltByTurns
    <2>3. NextKind(op, KindOf(source, list)) \in Kinds
      BY <2>1, NextKindType
    <2>4. Append(list, op) \in Seq(Operation)
      BY AppendType
    <2> QED BY <2>2, <2>3, <2>4 DEF BuiltOfMore, T
  <1>3. ops \in T
    BY <1>1, <1>2, ListInduction
  <1> QED BY <1>3 DEF T

\* Where no selector disagrees, nodes lead to nodes, whichever predicates are looked up.
LEMMA NodesLeadToNodes ==
    ASSUME NEW g \in Graphs, NEW k \in Kinds, NEW op \in Operation, Fits(op, k),
           SelectorError(g, op) = NoError, NEW ids \in Seq(VisibleIds(g, k)), NEW lookups
    PROVE  /\ \E found \in Seq(VisibleIds(g, NextKind(op, k))) :
                  EvaluateOperation(g, op, k, Ok(ids), lookups) = Ok(found)
           /\ EvaluateOperation(g, op, k, Ok(ids), lookups) =
                  EvaluateOperation(g, op, k, Ok(ids), {})
  <1>1. PICK none : none = {}
    OBVIOUS
  <1>2. OperationFinds(g, op, k, ids, lookups) /\ OperationFinds(g, op, k, ids, none)
    BY OperationEvaluates
  <1>3. CASE op.kind = "where"
    <2>1. op.predicates \in Seq(Predicate)
      BY <1>3, OperationFacts
    <2>2. AskedOf(op.predicates, k)
      BY <1>3 DEF Fits, IsWhere, AskedOf
    <2>3. PICK found : found = Kept(ids, Chosen(g, k, op.predicates))
      OBVIOUS
    <2>4. /\ EvaluateWhere(g, k, op.predicates, ids, lookups) = Ok(found)
          /\ EvaluateWhere(g, k, op.predicates, ids, none) = Ok(found)
      BY <2>1, <2>2, <2>3, WhereResult
    <2>5. found \in Seq(VisibleIds(g, k))
      BY <2>3, KeptAmong
    <2>6. NextKind(op, k) = k
      BY <1>3 DEF NextKind
    <2> QED BY <1>1, <1>2, <1>3, <2>4, <2>5, <2>6 DEF OperationFinds
  <1>4. CASE op.kind = "traverse"
    <2>1. op.relation \in Relations /\ SourceKind[op.relation] = k
      BY <1>4, OperationFacts DEF Fits
    <2>2. \E found \in Seq(VisibleIds(g, TargetKind[op.relation])) :
              EvaluateTraverse(g, op.relation, ids) = Ok(found)
      BY <2>1, TraverseType
    <2>3. NextKind(op, k) = TargetKind[op.relation]
      BY <1>4 DEF NextKind
    <2> QED BY <1>1, <1>2, <1>4, <2>2, <2>3 DEF OperationFinds
  <1>5. CASE op.kind = "top_k"
    <2>1. op.count \in Nat /\ op.key \in KeysOf[k]
      BY <1>5, OperationFacts DEF Fits
    <2>2. \E found \in Seq(VisibleIds(g, k)) :
              EvaluateTopK(g, k, op.count, op.key, op.direction, ids) = Ok(found)
      BY <2>1, RankingType
    <2>3. NextKind(op, k) = k
      BY <1>5 DEF NextKind
    <2> QED BY <1>1, <1>2, <1>5, <2>2, <2>3 DEF OperationFinds
  <1>6. CASE op.kind = "limit"
    <2>1. op.count \in Nat
      BY <1>6, OperationFacts
    <2>2. Truncate(ids, op.count) \in Seq(VisibleIds(g, k))
      BY <2>1, TruncateType
    <2>3. NextKind(op, k) = k
      BY <1>6 DEF NextKind
    <2> QED BY <1>1, <1>2, <1>6, <2>2, <2>3 DEF OperationFinds
  <1>7. CASE op.kind \in Selectors \cup {"project"}
    <2>1. NextKind(op, k) = k
      BY <1>7 DEF NextKind, Selectors
    <2> QED BY <1>1, <1>2, <1>7, <2>1 DEF OperationFinds
  <1>8. op.kind \in {"where", "traverse", "top_k", "limit"} \cup Selectors \cup {"project"}
    BY OperationFacts DEF Selectors
  <1> QED BY <1>3, <1>4, <1>5, <1>6, <1>7, <1>8

\* After any outcome.
LEMMA OperationOutcome ==
    ASSUME NEW g \in Graphs, NEW k \in Kinds, NEW op \in Operation, Fits(op, k),
           NEW r, Outcome(g, k, r), NEW lookups
    PROVE  /\ Outcome(g, NextKind(op, k), EvaluateOperation(g, op, k, r, lookups))
           /\ EvaluateOperation(g, op, k, r, lookups).error # NoError <=>
                  r.error # NoError \/ SelectorError(g, op) # NoError
           /\ EvaluateOperation(g, op, k, r, lookups) = EvaluateOperation(g, op, k, r, {})
  <1>1. PICK none : none = {}
    OBVIOUS
  <1>2. PICK found : found = EvaluateOperation(g, op, k, r, lookups)
    OBVIOUS
  <1>3. PICK scanned : scanned = EvaluateOperation(g, op, k, r, none)
    OBVIOUS
  <1>4. CASE SelectorError(g, op) # NoError
    <2>1. PICK error : error = SelectorError(g, op)
      OBVIOUS
    <2>2. found = Fail(error) /\ scanned = Fail(error)
      BY <1>2, <1>3, <1>4, <2>1, ErrorFacts
    <2>3. error \in {"conflict", "worldline_mismatch"} /\ error # NoError
      BY <1>4, <2>1, ErrorFacts
    <2>4. found.error # NoError
      BY <2>2, <2>3, ResultFacts
    <2> QED BY <1>1, <1>2, <1>3, <1>4, <2>2, <2>3, <2>4 DEF Outcome
  <1>5. CASE SelectorError(g, op) = NoError /\ r.error # NoError
    <2>1. found = r /\ scanned = r
      BY <1>2, <1>3, <1>5, ErrorFacts
    <2>2. PICK error \in {"conflict", "worldline_mismatch"} : r = Fail(error)
      BY <1>5, ResultFacts DEF Outcome
    <2> QED BY <1>1, <1>2, <1>3, <1>5, <2>1, <2>2 DEF Outcome
  <1>6. CASE SelectorError(g, op) = NoError /\ r.error = NoError
    <2>1. PICK ids \in Seq(VisibleIds(g, k)) : r = Ok(ids)
      BY <1>6, OutcomeWithoutError
    <2>2. PICK next \in Seq(VisibleIds(g, NextKind(op, k))) : found = Ok(next)
      BY <1>2, <1>6, <2>1, NodesLeadToNodes
    <2>3. found = scanned
      BY <1>1, <1>2, <1>3, <1>6, <2>1, NodesLeadToNodes
    <2>4. found.error = NoError
      BY <2>2, ResultFacts
    <2> QED BY <1>1, <1>2, <1>3, <1>6, <2>2, <2>3, <2>4 DEF Outcome
  <1> QED BY <1>4, <1>5, <1>6

-----------------------------------------------------------------------------
(* Whole queries. *)

\* A selector among the operations disagrees with the snapshot.
Mismatch(g, ops) == \E i \in 1 .. Len(ops) : SelectorError(g, ops[i]) # NoError

\* A query finds visible nodes of its kind or an error, an error only if a selector
\* disagrees, and the same whichever predicates are looked up.
LEMMA QueryOutcome ==
    ASSUME NEW g \in Graphs, NEW source \in Kinds, NEW ops \in Seq(Operation),
           WellBuilt(source, ops), NEW lookups
    PROVE  /\ Outcome(g, KindOf(source, ops), Scan(g, source, ops))
           /\ Scan(g, source, ops).error # NoError <=> Mismatch(g, ops)
           /\ Evaluate(g, QueryOf(source, ops), lookups) = Scan(g, source, ops)
  <1>1. PICK n \in Nat : n = Len(ops)
    BY LenProperties
  <1>2. PICK q : q = QueryOf(source, ops)
    OBVIOUS
  <1>3. q.source = source /\ q.ops = ops /\ n = Len(q.ops)
    BY <1>1, <1>2 DEF QueryOf
  <1>4. PICK none : none = {}
    OBVIOUS
  <1>5. PICK f : EvaluatesBy(g, q, lookups, n, f) /\ Evaluate(g, q, lookups) = f[n]
    BY <1>3, EvaluateByTurns
  <1>6. PICK h : EvaluatesBy(g, q, none, n, h) /\ Evaluate(g, q, none) = h[n]
    BY <1>3, EvaluateByTurns
  <1> DEFINE Mismatched(i) == \E j \in 1 .. i : SelectorError(g, ops[j]) # NoError
             Right(i) == /\ KindAfter(q, i) \in Kinds
                         /\ Outcome(g, KindAfter(q, i), h[i])
                         /\ h[i].error # NoError <=> Mismatched(i)
                         /\ f[i] = h[i]
             T == {i \in 0 .. n : Right(i)}
  <1>7. Right(0)
    <2>1. KindAfter(q, 0) = source
      BY <1>3, KindAtStart
    <2>2. /\ f[0] = Ok(SourceCandidates(g, source))
          /\ h[0] = Ok(SourceCandidates(g, source))
      BY <1>3, <1>5, <1>6 DEF EvaluatesBy
    <2>3. SourceCandidates(g, source) \in Seq(VisibleIds(g, source))
      <3>1. PICK found \in Seq(Nat) : /\ found = SourceCandidates(g, source)
                                      /\ InOrder(found, VisibleIds(g, source))
        BY GraphOK, SourceCandidatesInOrder
      <3>2. found \in Seq(Range(found)) /\ Range(found) = VisibleIds(g, source)
        BY <3>1, ListOfItsRange DEF InOrder
      <3> QED BY <3>1, <3>2
    <2>4. ~Mismatched(0)
      OBVIOUS
    <2>5. h[0].error = NoError
      BY <2>2, ResultFacts
    <2> HIDE DEF Mismatched
    <2> QED BY <2>1, <2>2, <2>3, <2>4, <2>5 DEF Outcome
  <1>8. ASSUME NEW i \in 0 .. (n - 1), Right(i) PROVE Right(i + 1)
    <2>1. PICK j : j = i + 1
      OBVIOUS
    <2>2. j \in 1 .. n /\ j - 1 = i /\ i \in Nat
      BY <2>1
    <2>3. PICK op \in Operation : op = ops[j]
      BY <1>1, <2>2, ElementOfSeq
    <2>4. PICK k \in Kinds : k = KindAfter(q, i)
      BY <1>8
    <2>5. Fits(op, k)
      BY <1>1, <1>2, <2>2, <2>3, <2>4 DEF WellBuilt
    <2>6. KindAfter(q, j) = NextKind(op, k)
      BY <1>3, <2>1, <2>2, <2>3, <2>4, KindStep
    <2>7. PICK r : r = h[i] /\ r = f[i] /\ Outcome(g, k, r) /\ (r.error # NoError <=> Mismatched(i))
      BY <1>8, <2>4
    <2>8. PICK l : l = LookedUp(lookups, j)
      OBVIOUS
    <2>9. f[j] = EvaluateOperation(g, op, k, r, l)
      BY <1>3, <1>5, <2>2, <2>3, <2>4, <2>7, <2>8 DEF EvaluatesBy, EvaluateTurn
    <2>10. h[j] = EvaluateOperation(g, op, k, r, {})
      <3>1. LookedUp(none, j) = {}
        BY <1>4, NothingLookedUp
      <3> QED BY <1>3, <1>6, <2>2, <2>3, <2>4, <2>7, <3>1 DEF EvaluatesBy, EvaluateTurn
    <2>11. Mismatched(j) <=> Mismatched(i) \/ SelectorError(g, op) # NoError
      <3>1. \A m : m \in 1 .. j <=> m \in 1 .. i \/ m = j
        BY <2>1
      <3> QED BY <2>3, <3>1
    <2> HIDE DEF Mismatched
    <2>12. /\ Outcome(g, NextKind(op, k), EvaluateOperation(g, op, k, r, l))
           /\ EvaluateOperation(g, op, k, r, l).error # NoError <=>
                  r.error # NoError \/ SelectorError(g, op) # NoError
           /\ EvaluateOperation(g, op, k, r, l) = EvaluateOperation(g, op, k, r, {})
      BY <2>5, <2>7, OperationOutcome
    <2>13. NextKind(op, k) \in Kinds
      BY NextKindType
    <2>14. Right(j)
      BY <2>6, <2>7, <2>9, <2>10, <2>11, <2>12, <2>13
    <2> QED BY <2>1, <2>14
  <1> HIDE DEF Right
  <1>9. 0 \in T /\ \A i \in 0 .. (n - 1) : i \in T => i + 1 \in T
    BY <1>7, <1>8
  <1> HIDE DEF T
  <1>10. \A i \in 0 .. n : i \in T
    BY <1>9, TurnByTurn
  <1>11. Right(n)
    BY <1>10 DEF T
  <1>12. /\ Outcome(g, KindAfter(q, n), h[n])
         /\ h[n].error # NoError <=> \E j \in 1 .. n : SelectorError(g, ops[j]) # NoError
         /\ f[n] = h[n]
    BY <1>11 DEF Right
  <1>13. KindOf(source, ops) = KindAfter(q, n) /\ Scan(g, source, ops) = h[n]
    BY <1>1, <1>2, <1>4, <1>6 DEF KindOf, Scan
  <1> QED BY <1>1, <1>2, <1>5, <1>12, <1>13 DEF Mismatch

-----------------------------------------------------------------------------
(* The columns that a query reads, and that the optimizer reports. *)

\* What unique_types has made of the last entries of a list.
UniqueTurn(list, f, n) ==
    IF list[Len(list) + 1 - n] \in Range(f[n - 1]) THEN f[n - 1]
    ELSE <<list[Len(list) + 1 - n]>> \o f[n - 1]

\* The recursion of unique_types has a result, and goes along the list from its end.
LEMMA UniqueByTurns ==
    ASSUME NEW E, NEW list \in Seq(E), NEW l \in Nat, l = Len(list)
    PROVE  \E f \in [0 .. l -> Seq(E)] :
               /\ f[0] = <<>> /\ \A n \in 1 .. l : f[n] = UniqueTurn(list, f, n)
               /\ UniqueTypes(list) = f[l]
  <1> DEFINE Turn(f) == [n \in 0 .. Len(list) |->
                             IF n = 0 THEN <<>>
                             ELSE LET first == list[Len(list) + 1 - n]
                                      tail == f[n - 1]
                                  IN  IF first \in Range(tail) THEN tail ELSE <<first>> \o tail]
             loop == CHOOSE f : f = Turn(f)
  <1>1. UniqueTypes(list) = loop[l]
    BY DEF UniqueTypes
  <1>2. \A f : Turn(f) = [n \in 0 .. l |-> Turn(f)[n]]
    OBVIOUS
  <1>3. \A f : Turn(f)[0] = <<>>
    OBVIOUS
  <1>4. ASSUME NEW f, NEW n \in 1 .. l PROVE Turn(f)[n] = UniqueTurn(list, f, n)
    <2>1. n \in 0 .. l /\ n # 0
      OBVIOUS
    <2> QED BY <2>1 DEF UniqueTurn
  <1> HIDE DEF Turn
  <1>5. PICK S : S = Seq(E)
    OBVIOUS
  <1> DEFINE next(n, tail) == IF list[l + 1 - n] \in Range(tail) THEN tail
                              ELSE <<list[l + 1 - n]>> \o tail
             step == [x \in (1 .. l) \X S |-> next(x[1], x[2])]
  <1>6. ASSUME NEW n \in 1 .. l, NEW tail \in S PROVE next(n, tail) \in S
    <2>1. PICK i \in 1 .. l : i = l + 1 - n
      <3>1. l + 1 - n \in 1 .. l
        OBVIOUS
      <3> QED BY <3>1
    <2>2. list[i] \in E
      BY ElementOfSeq
    <2>3. <<list[i]>> \in Seq(E)
      BY <2>2
    <2>4. <<list[i]>> \o tail \in Seq(E)
      BY <1>5, <2>3, ConcatProperties
    <2> QED BY <1>5, <2>1, <2>4
  <1>7. ASSUME NEW n \in 1 .. l, NEW tail \in S PROVE step[<<n, tail>>] = next(n, tail)
    <2> HIDE DEF next
    <2>1. <<n, tail>> \in (1 .. l) \X S
      OBVIOUS
    <2> QED BY <2>1
  <1>8. step \in [(1 .. l) \X S -> S]
    <2> HIDE DEF next
    <2> QED BY <1>6
  <1> HIDE DEF step
  <1>9. <<>> \in S
    BY <1>5, EmptySeq
  <1>10. PICK g \in [0 .. l -> S] : Runs(l, <<>>, step, g)
    <2> HIDE DEF next, loop
    <2> QED BY <1>8, <1>9, LoopEnds
  <1>11. ASSUME NEW n \in 1 .. l PROVE g[n] = UniqueTurn(list, g, n)
    <2>1. n - 1 \in 0 .. l
      OBVIOUS
    <2>2. g[n - 1] \in S
      BY <2>1
    <2>3. step[<<n, g[n - 1]>>] = next(n, g[n - 1])
      <3> HIDE DEF next, loop
      <3> QED BY <1>7, <2>2
    <2>4. g[n] = step[<<n, g[n - 1]>>]
      <3> HIDE DEF next, loop
      <3> QED BY <1>10 DEF Runs
    <2>5. g[n] = next(n, g[n - 1])
      <3> HIDE DEF next, loop
      <3> QED BY <2>3, <2>4
    <2> QED BY <2>5 DEF UniqueTurn
  <1> HIDE DEF next
  <1>12. g[0] = <<>>
    BY <1>10 DEF Runs
  <1>13. g = [n \in 0 .. l |-> g[n]]
    OBVIOUS
  <1>14. g = Turn(g)
    <2>1. ASSUME NEW n \in 0 .. l PROVE g[n] = Turn(g)[n]
      <3>1. CASE n = 0
        BY <1>3, <1>12, <3>1
      <3>2. CASE n # 0
        <4>1. n \in 1 .. l
          BY <3>2
        <4> QED BY <1>4, <1>11, <4>1
      <3> QED BY <3>1, <3>2
    <2> QED BY <1>2, <1>13, <2>1
  <1>15. loop = Turn(loop)
    BY <1>14
  <1> HIDE DEF loop
  <1>16. loop[0] = <<>> /\ \A n \in 1 .. l : loop[n] = UniqueTurn(list, loop, n)
    BY <1>3, <1>4, <1>15
  <1> DEFINE T == {n \in 0 .. l : loop[n] = g[n]}
  <1> HIDE DEF T
  <1>17. 0 \in T
    BY <1>12, <1>16 DEF T
  <1>18. ASSUME NEW n \in 0 .. (l - 1), n \in T PROVE n + 1 \in T
    <2>1. PICK m : m = n + 1
      OBVIOUS
    <2>2. m \in 1 .. l /\ m \in 0 .. l /\ m - 1 = n
      BY <2>1
    <2>3. loop[n] = g[n]
      BY <1>18 DEF T
    <2>4. loop[m] = g[m]
      BY <1>11, <1>16, <2>2, <2>3 DEF UniqueTurn
    <2> QED BY <2>1, <2>2, <2>4 DEF T
  <1>19. \A n \in 0 .. l : n \in T
    BY <1>17, <1>18, TurnByTurn
  <1>20. loop[l] = g[l]
    BY <1>19 DEF T
  <1>21. g \in [0 .. l -> Seq(E)]
    BY <1>5
  <1> QED BY <1>1, <1>11, <1>12, <1>20, <1>21

\* unique_types drops no entry.
LEMMA UniqueTypesHasAll ==
    ASSUME NEW E, NEW list \in Seq(E)
    PROVE  Range(list) \subseteq Range(UniqueTypes(list))
  <1>1. PICK l \in Nat : l = Len(list)
    BY LenProperties
  <1>2. PICK f \in [0 .. l -> Seq(E)] :
               /\ f[0] = <<>> /\ \A n \in 1 .. l : f[n] = UniqueTurn(list, f, n)
               /\ UniqueTypes(list) = f[l]
    BY <1>1, UniqueByTurns
  <1> DEFINE T == {n \in 0 .. l : \A i \in (l + 1 - n) .. l : list[i] \in Range(f[n])}
  <1> HIDE DEF T
  <1>3. 0 \in T
    BY DEF T
  <1>4. ASSUME NEW n \in 0 .. (l - 1), n \in T PROVE n + 1 \in T
    <2>1. PICK m : m = n + 1
      OBVIOUS
    <2>2. m \in 1 .. l /\ m \in 0 .. l /\ m - 1 = n /\ n \in 0 .. l
      BY <2>1
    <2>3. PICK i \in 1 .. l : i = l + 1 - m
      <3>1. l + 1 - m \in 1 .. l
        BY <2>2
      <3> QED BY <3>1
    <2>4. PICK tail \in Seq(E) : tail = f[n]
      BY <2>2
    <2>5. list[i] \in E
      BY <1>1, ElementOfSeq
    <2>6. f[m] = IF list[i] \in Range(tail) THEN tail ELSE <<list[i]>> \o tail
      BY <1>1, <1>2, <2>2, <2>3, <2>4 DEF UniqueTurn
    <2>7. Range(f[m]) = Range(tail) \cup {list[i]}
      <3>1. CASE list[i] \in Range(tail)
        BY <2>6, <3>1
      <3>2. CASE list[i] \notin Range(tail)
        <4>1. <<list[i]>> \in Seq(E) /\ Len(<<list[i]>>) = 1 /\ <<list[i]>>[1] = list[i]
          BY <2>5
        <4>2. PICK one : one = <<list[i]>>
          OBVIOUS
        <4>3. one \in Seq(E) /\ Len(one) = 1 /\ one[1] = list[i]
          BY <4>1, <4>2
        <4>4. Range(one) = {one[j] : j \in 1 .. 1}
          BY <4>3, RangeEquality
        <4>5. \A j : j \in 1 .. 1 <=> j = 1
          OBVIOUS
        <4>6. Range(one) = {list[i]}
          BY <4>3, <4>4, <4>5
        <4>7. Range(one \o tail) = Range(one) \cup Range(tail)
          BY <4>3, RangeConcatenation
        <4> QED BY <2>6, <3>2, <4>2, <4>6, <4>7
      <3> QED BY <3>1, <3>2
    <2>8. \A j \in (l + 1 - m) .. l : j = i \/ j \in (l + 1 - n) .. l
      BY <2>1, <2>3
    <2>9. \A j \in (l + 1 - n) .. l : list[j] \in Range(tail)
      BY <1>4, <2>4 DEF T
    <2>10. \A j \in (l + 1 - m) .. l : list[j] \in Range(f[m])
      BY <2>7, <2>8, <2>9
    <2> QED BY <2>1, <2>2, <2>10 DEF T
  <1>5. \A n \in 0 .. l : n \in T
    BY <1>3, <1>4, TurnByTurn
  <1>6. \A i \in 1 .. l : list[i] \in Range(UniqueTypes(list))
    <2>1. l \in T /\ l + 1 - l = 1
      BY <1>5
    <2> QED BY <1>2, <2>1 DEF T
  <1>7. Range(list) = {list[i] : i \in 1 .. l}
    BY <1>1, RangeEquality
  <1> QED BY <1>6, <1>7

\* Putting lists one after the other loses no entry.
LEMMA FlattenHasAll ==
    ASSUME NEW n \in Nat, NEW E, NEW lists, DOMAIN lists = 1 .. n, Len(lists) = n,
           \A i \in 1 .. n : lists[i] \in Seq(E)
    PROVE  \A i \in 1 .. n : Range(lists[i]) \subseteq Range(FlattenSeq(lists))
  <1>1. CASE n = 0
    BY <1>1
  <1>2. CASE n # 0
    <2>1. PICK f : Gathers(n, lists, {}, f) /\ FlattenSeq(lists) = f[n]
      BY <1>2, FlattenGathers
    <2> DEFINE T == {k \in 0 .. n : f[k] \in Seq(E) /\ \A i \in 1 .. k : Range(lists[i]) \subseteq Range(f[k])}
    <2> HIDE DEF T
    <2>2. 0 \in T
      <3>1. f[0] = <<>>
        BY <2>1 DEF Gathers
      <3>2. \A i \in 1 .. 0 : FALSE
        OBVIOUS
      <3>3. 0 \in 0 .. n /\ <<>> \in Seq(E)
        BY EmptySeq
      <3> QED BY <3>1, <3>2, <3>3 DEF T
    <2>3. ASSUME NEW k \in 0 .. (n - 1), k \in T PROVE k + 1 \in T
      <3>1. PICK m : m = k + 1
        OBVIOUS
      <3>2. m \in 1 .. n /\ m \in 0 .. n /\ m - 1 = k
        BY <3>1
      <3>3. f[m] = f[k] \o lists[m]
        BY <2>1, <3>2 DEF Gathers, Gather
      <3>4. f[k] \in Seq(E) /\ lists[m] \in Seq(E) /\ \A i \in 1 .. k : Range(lists[i]) \subseteq Range(f[k])
        BY <2>3, <3>2 DEF T
      <3>5. f[m] \in Seq(E) /\ Range(f[m]) = Range(f[k]) \cup Range(lists[m])
        BY <3>3, <3>4, ConcatProperties, RangeConcatenation
      <3>6. \A i \in 1 .. m : i \in 1 .. k \/ i = m
        BY <3>1
      <3>7. \A i \in 1 .. m : Range(lists[i]) \subseteq Range(f[m])
        BY <3>4, <3>5, <3>6
      <3> QED BY <3>1, <3>2, <3>5, <3>7 DEF T
    <2>4. \A k \in 0 .. n : k \in T
      BY <2>2, <2>3, TurnByTurn
    <2>5. n \in T
      BY <2>4
    <2> QED BY <2>1, <2>5 DEF T
  <1> QED BY <1>1, <1>2

\* The columns that one operation on nodes of kind k reads, and all operations.
ReadsOf(k, op) == Range(ColumnsOf(k, op))

Reads(source, ops) ==
    UNION {ReadsOf(KindAfter(QueryOf(source, ops), n - 1), ops[n]) : n \in 1 .. Len(ops)}

\* The columns of one operation, by its kind.
LEMMA ListOfColumns ==
    ASSUME NEW k \in Kinds, NEW op \in Operation
    PROVE  /\ ColumnsOf(k, op) \in Seq(Kinds \X Keys)
           /\ op.kind \notin {"where", "top_k", "project"} => ReadsOf(k, op) = {}
           /\ op.kind = "where" =>
                  /\ \A j \in 1 .. Len(op.predicates) : <<k, op.predicates[j].key>> \in ReadsOf(k, op)
                  /\ \A x \in ReadsOf(k, op) :
                         \E j \in 1 .. Len(op.predicates) : x = <<k, op.predicates[j].key>>
           /\ op.kind = "top_k" => <<k, op.key>> \in ReadsOf(k, op)
           /\ op.kind = "project" => \A j \in 1 .. Len(op.keys) : <<k, op.keys[j]>> \in ReadsOf(k, op)
  <1>1. PICK S : S = Kinds \X Keys
    OBVIOUS
  <1>2. CASE op.kind = "where"
    <2>1. op.predicates \in Seq(Predicate)
      BY <1>2, OperationFacts
    <2>2. PICK n \in Nat : n = Len(op.predicates)
      BY <2>1, LenProperties
    <2>3. \A j \in 1 .. n : op.predicates[j].key \in Keys
      <3> SUFFICES ASSUME NEW j \in 1 .. n PROVE op.predicates[j].key \in Keys
        OBVIOUS
      <3>1. op.predicates[j] \in Predicate
        BY <2>1, <2>2, ElementOfSeq
      <3> QED BY <3>1 DEF Predicate
    <2>4. ColumnsOf(k, op) = [j \in 1 .. n |-> <<k, op.predicates[j].key>>]
      BY <1>2, <2>2 DEF ColumnsOf, IsWhere
    <2>5. ColumnsOf(k, op) \in [1 .. n -> S]
      BY <1>1, <2>3, <2>4
    <2>6. ColumnsOf(k, op) \in Seq(S)
      BY <2>5, SeqDef
    <2>7. ReadsOf(k, op) = {<<k, op.predicates[j].key>> : j \in 1 .. n}
      BY <2>4 DEF ReadsOf, Range
    <2> QED BY <1>1, <1>2, <2>2, <2>6, <2>7
  <1>3. CASE op.kind = "project"
    <2>1. op.keys \in Seq(Keys)
      BY <1>3, OperationFacts
    <2>2. PICK n \in Nat : n = Len(op.keys)
      BY <2>1, LenProperties
    <2>3. \A j \in 1 .. n : op.keys[j] \in Keys
      BY <2>1, <2>2, ElementOfSeq
    <2>4. ColumnsOf(k, op) = [j \in 1 .. n |-> <<k, op.keys[j]>>]
      BY <1>3, <2>2 DEF ColumnsOf, IsWhere
    <2>5. ColumnsOf(k, op) \in [1 .. n -> S]
      BY <1>1, <2>3, <2>4
    <2>6. ColumnsOf(k, op) \in Seq(S)
      BY <2>5, SeqDef
    <2>7. \A j \in 1 .. n : <<k, op.keys[j]>> \in ReadsOf(k, op)
      BY <2>4 DEF ReadsOf, Range
    <2> QED BY <1>1, <1>3, <2>2, <2>6, <2>7
  <1>4. CASE op.kind = "top_k"
    <2>1. <<k, op.key>> \in S
      BY <1>1, <1>4, OperationFacts
    <2>2. PICK x \in S : x = <<k, op.key>>
      BY <2>1
    <2>3. ColumnsOf(k, op) = <<x>>
      BY <1>4, <2>2 DEF ColumnsOf, IsWhere
    <2>4. <<x>> \in Seq(S) /\ 1 \in DOMAIN <<x>> /\ <<x>>[1] = x
      OBVIOUS
    <2>5. x \in ReadsOf(k, op)
      BY <2>3, <2>4 DEF ReadsOf, Range
    <2> QED BY <1>1, <1>4, <2>2, <2>3, <2>4, <2>5
  <1>5. CASE op.kind \notin {"where", "top_k", "project"}
    <2>1. ColumnsOf(k, op) = <<>>
      BY <1>5 DEF ColumnsOf, IsWhere
    <2>2. ReadsOf(k, op) = {}
      BY <2>1 DEF ReadsOf, Range
    <2> QED BY <1>1, <1>5, <2>1, <2>2, EmptySeq
  <1> QED BY <1>2, <1>3, <1>4, <1>5

LEMMA NothingRead ==
    ASSUME NEW source
    PROVE  Reads(source, <<>>) = {}
  BY DEF Reads

\* A query with one operation more reads what that operation reads on the kind it finds.
LEMMA ReadsOfMore ==
    ASSUME NEW source, NEW ops \in Seq(Operation), NEW op \in Operation
    PROVE  Reads(source, Append(ops, op)) = Reads(source, ops) \cup ReadsOf(KindOf(source, ops), op)
  <1>1. PICK n \in Nat : n = Len(ops)
    BY LenProperties
  <1>2. PICK longer : longer = Append(ops, op)
    OBVIOUS
  <1>3. /\ Len(longer) = n + 1 /\ longer[n + 1] = op /\ \A i \in 1 .. n : longer[i] = ops[i]
    <2>1. Extends(Operation, n, ops, op, longer)
      BY <1>1, <1>2, AppendExtends
    <2> QED BY <2>1 DEF Extends
  <1>4. PICK q : q = QueryOf(source, ops)
    OBVIOUS
  <1>5. PICK p : p = QueryOf(source, longer)
    OBVIOUS
  <1>6. q.source = p.source /\ \A i \in 1 .. n : q.ops[i] = p.ops[i]
    BY <1>3, <1>4, <1>5 DEF QueryOf
  <1>7. \A i \in 0 .. n : KindAfter(q, i) = KindAfter(p, i)
    BY <1>6, KindOfFirst
  <1> DEFINE here(i) == ReadsOf(KindAfter(p, i - 1), longer[i])
             there(i) == ReadsOf(KindAfter(q, i - 1), ops[i])
  <1>8. ASSUME NEW i \in 1 .. n PROVE here(i) = there(i)
    <2>1. PICK j \in 0 .. n : j = i - 1
      <3>1. i - 1 \in 0 .. n
        OBVIOUS
      <3> QED BY <3>1
    <2>2. KindAfter(q, j) = KindAfter(p, j)
      BY <1>7
    <2> QED BY <1>3, <2>1, <2>2
  <1>9. here(n + 1) = ReadsOf(KindOf(source, ops), op)
    <2>1. (n + 1) - 1 = n /\ n \in 0 .. n
      OBVIOUS
    <2>2. KindAfter(p, n) = KindOf(source, ops)
      BY <1>1, <1>4, <1>7, <2>1 DEF KindOf
    <2> QED BY <1>3, <2>1, <2>2
  <1>10. Reads(source, longer) = UNION {here(i) : i \in 1 .. (n + 1)}
    BY <1>3, <1>5 DEF Reads
  <1>11. Reads(source, ops) = UNION {there(i) : i \in 1 .. n}
    BY <1>1, <1>4 DEF Reads
  <1> HIDE DEF here, there
  <1>12. \A i : i \in 1 .. (n + 1) <=> i \in 1 .. n \/ i = n + 1
    OBVIOUS
  <1>13. ASSUME NEW x
         PROVE  x \in Reads(source, longer) <=>
                    x \in Reads(source, ops) \/ x \in ReadsOf(KindOf(source, ops), op)
    <2>1. x \in Reads(source, longer) <=> \E i \in 1 .. (n + 1) : x \in here(i)
      BY <1>10
    <2>2. x \in Reads(source, ops) <=> \E i \in 1 .. n : x \in there(i)
      BY <1>11
    <2> QED BY <1>8, <1>9, <1>12, <2>1, <2>2
  <1> QED BY <1>2, <1>13

\* What the optimizer reports is no less.
LEMMA RequiredColumnsHaveAll ==
    ASSUME NEW source \in Kinds, NEW ops \in Seq(Operation)
    PROVE  Reads(source, ops) \subseteq Range(RequiredColumns(QueryOf(source, ops)))
  <1>1. PICK n \in Nat : n = Len(ops)
    BY LenProperties
  <1>2. PICK q : q = QueryOf(source, ops)
    OBVIOUS
  <1>3. q.source = source /\ q.ops = ops
    BY <1>2 DEF QueryOf
  <1>4. PICK E : E = Kinds \X Keys
    OBVIOUS
  <1> DEFINE lists == [i \in 1 .. Len(q.ops) |-> ColumnsOf(KindAfter(q, i - 1), q.ops[i])]
  <1>5. DOMAIN lists = 1 .. n /\ Len(lists) = n
    BY <1>1, <1>3
  <1>6. \A i \in 1 .. n : lists[i] = ColumnsOf(KindAfter(q, i - 1), ops[i])
    BY <1>1, <1>3
  <1>7. RequiredColumns(q) = UniqueTypes(FlattenSeq(lists))
    BY DEF RequiredColumns
  <1> HIDE DEF lists
  <1> DEFINE T == {i \in 0 .. n : KindAfter(q, i) \in Kinds}
  <1> HIDE DEF T
  <1>8. 0 \in T
    BY <1>3, KindAtStart DEF T
  <1>9. ASSUME NEW i \in 0 .. (n - 1), i \in T PROVE i + 1 \in T
    <2>1. PICK j : j = i + 1
      OBVIOUS
    <2>2. j \in 1 .. n /\ j \in 0 .. n /\ i \in Nat
      BY <2>1
    <2>3. KindAfter(q, j) = NextKind(q.ops[j], KindAfter(q, i))
      BY <2>1, <2>2, KindStep
    <2>4. q.ops[j] \in Operation
      BY <1>1, <1>3, <2>2, ElementOfSeq
    <2>5. KindAfter(q, i) \in Kinds
      BY <1>9 DEF T
    <2>6. KindAfter(q, j) \in Kinds
      BY <2>3, <2>4, <2>5, NextKindType
    <2> QED BY <2>1, <2>2, <2>6 DEF T
  <1>10. \A i \in 0 .. n : i \in T
    BY <1>8, <1>9, TurnByTurn
  <1>11. ASSUME NEW i \in 1 .. n PROVE lists[i] \in Seq(E)
    <2>1. PICK j : j = i - 1
      OBVIOUS
    <2>2. j \in 0 .. n
      BY <2>1
    <2>3. KindAfter(q, j) \in Kinds
      BY <1>10, <2>2 DEF T
    <2>4. ops[i] \in Operation
      BY <1>1, ElementOfSeq
    <2>5. ColumnsOf(KindAfter(q, j), ops[i]) \in Seq(E)
      BY <1>4, <2>3, <2>4, ListOfColumns
    <2> QED BY <1>6, <2>1, <2>5
  <1>12. PICK flat \in Seq(E) : flat = FlattenSeq(lists)
    BY <1>5, <1>11, FlattenType
  <1>13. Range(flat) \subseteq Range(RequiredColumns(q))
    BY <1>7, <1>12, UniqueTypesHasAll
  <1>14. \A i \in 1 .. n : Range(lists[i]) \subseteq Range(flat)
    BY <1>5, <1>11, <1>12, FlattenHasAll
  <1>15. ASSUME NEW x \in Reads(source, ops) PROVE x \in Range(RequiredColumns(q))
    <2>1. PICK i \in 1 .. n : x \in ReadsOf(KindAfter(q, i - 1), ops[i])
      BY <1>1, <1>2 DEF Reads
    <2>2. x \in Range(lists[i])
      BY <1>6, <2>1 DEF ReadsOf
    <2> QED BY <1>13, <1>14, <2>2
  <1> QED BY <1>2, <1>15

-----------------------------------------------------------------------------
(* Snapshots that differ in values only. *)

\* Two deltas with the same edges, and the same nodes but for their values.
SameButValues(d, e) ==
    /\ e.nodeBase = d.nodeBase /\ e.edgeBase = d.edgeBase /\ e.edges = d.edges
    /\ \A k \in Kinds :
           /\ Len(e.nodes[k]) = Len(d.nodes[k])
           /\ \A n \in 1 .. Len(d.nodes[k]) :
                  /\ e.nodes[k][n].worldline = d.nodes[k][n].worldline
                  /\ e.nodes[k][n].valid = d.nodes[k][n].valid
                  /\ e.nodes[k][n].transaction = d.nodes[k][n].transaction

\* Two chains of such deltas, with the same selectors.
SameChains(s, t) ==
    /\ t = [i \in 1 .. Len(s) |-> t[i]] /\ Len(t) = Len(s)
    /\ \A i \in 1 .. Len(s) :
           /\ t[i].worldline = s[i].worldline
           /\ t[i].validAt = s[i].validAt /\ t[i].knownAt = s[i].knownAt
           /\ SameButValues(s[i].data, t[i].data)

\* Which rows a delta has, and which of them match, does not depend on their values.
LEMMA SameDeltas ==
    ASSUME NEW d, NEW e, SameButValues(d, e), d \in Delta, Bounded(d), NEW k \in Kinds
    PROVE  /\ NodeExtent(e, k) = NodeExtent(d, k) /\ NodeIds(e, k) = NodeIds(d, k)
           /\ \A id : HasNode(e, k, id) <=> HasNode(d, k, id)
           /\ \A id \in NodeIds(d, k) :
                  \A worldline, validAt, knownAt :
                      RowMatches(NodeRow(e, k, id), worldline, validAt, knownAt) <=>
                          RowMatches(NodeRow(d, k, id), worldline, validAt, knownAt)
           /\ \A id \in NodeIds(d, k) : id - d.nodeBase[k] + 1 \in 1 .. Len(d.nodes[k])
           /\ \A worldline, validAt, knownAt :
                  IndexedCandidates(e, k, worldline, validAt, knownAt) =
                      IndexedCandidates(d, k, worldline, validAt, knownAt)
  <1>1. NodeExtent(e, k) = NodeExtent(d, k) /\ NodeIds(e, k) = NodeIds(d, k)
    BY DEF SameButValues, NodeExtent, NodeIds
  <1>2. \A id : HasNode(e, k, id) <=> HasNode(d, k, id)
    BY <1>1 DEF SameButValues, HasNode
  <1>3. ASSUME NEW id \in NodeIds(d, k)
        PROVE  /\ id - d.nodeBase[k] + 1 \in 1 .. Len(d.nodes[k])
               /\ NodeRow(e, k, id).worldline = NodeRow(d, k, id).worldline
               /\ NodeRow(e, k, id).valid = NodeRow(d, k, id).valid
               /\ NodeRow(e, k, id).transaction = NodeRow(d, k, id).transaction
    <2>1. PICK b \in Nat : b = d.nodeBase[k] /\ b = e.nodeBase[k]
      BY DEF Delta, SameButValues
    <2>2. PICK l \in Nat : l = Len(d.nodes[k])
      <3>1. d.nodes[k] \in Seq(Row)
        BY DEF Delta
      <3> QED BY <3>1, LenProperties
    <2>3. id \in Nat
      BY NodeRange
    <2>4. PICK n : n = id - b + 1
      OBVIOUS
    <2>5. n \in 1 .. l
      <3>1. b <= id /\ id <= b + l - 1
        BY <2>1, <2>2, <2>3 DEF NodeIds, NodeExtent
      <3> QED BY <2>3, <2>4, <3>1
    <2>6. /\ e.nodes[k][n].worldline = d.nodes[k][n].worldline
          /\ e.nodes[k][n].valid = d.nodes[k][n].valid
          /\ e.nodes[k][n].transaction = d.nodes[k][n].transaction
      BY <2>2, <2>5 DEF SameButValues
    <2>7. NodeRow(e, k, id) = e.nodes[k][n] /\ NodeRow(d, k, id) = d.nodes[k][n]
      BY <2>1, <2>4 DEF NodeRow
    <2> QED BY <2>1, <2>2, <2>4, <2>5, <2>6, <2>7
  <1>4. ASSUME NEW id \in NodeIds(d, k), NEW worldline, NEW validAt, NEW knownAt
        PROVE  RowMatches(NodeRow(e, k, id), worldline, validAt, knownAt) <=>
                   RowMatches(NodeRow(d, k, id), worldline, validAt, knownAt)
    BY <1>3 DEF RowMatches
  <1>5. ASSUME NEW worldline, NEW validAt, NEW knownAt
        PROVE  IndexedCandidates(e, k, worldline, validAt, knownAt) =
                   IndexedCandidates(d, k, worldline, validAt, knownAt)
    <2>1. /\ WorldlineRows(e, k, worldline) = WorldlineRows(d, k, worldline)
          /\ ValidPrefix(e, k, validAt) = ValidPrefix(d, k, validAt)
          /\ TransactionPrefix(e, k, knownAt) = TransactionPrefix(d, k, knownAt)
      BY <1>1, <1>3 DEF WorldlineRows, ValidPrefix, TransactionPrefix
    <2>2. PICK list : list = ShortestIndex(d, k, worldline, validAt, knownAt)
      OBVIOUS
    <2>3. list = ShortestIndex(e, k, worldline, validAt, knownAt)
      BY <2>1, <2>2 DEF ShortestIndex
    <2>4. list \subseteq NodeIds(d, k)
      BY <2>2 DEF ShortestIndex, WorldlineRows, ValidPrefix, TransactionPrefix
    <2>5. \A id \in list : RowMatches(NodeRow(e, k, id), worldline, validAt, knownAt) <=>
                               RowMatches(NodeRow(d, k, id), worldline, validAt, knownAt)
      BY <1>4, <2>4
    <2> QED BY <2>2, <2>3, <2>5 DEF IndexedCandidates
  <1> QED BY <1>1, <1>2, <1>3, <1>4, <1>5

\* They answer for the same ids and show the same nodes.
LEMMA SameNodes ==
    ASSUME NEW s, SnapshotOK(s), NEW t, SameChains(s, t), NEW k \in Kinds
    PROVE  /\ \A i, id : Answers(t, i, k, id) <=> Answers(s, i, k, id)
           /\ \A id \in Nat : Visible(t, k, id) <=> Visible(s, k, id)
           /\ VisibleIds(t, k) = VisibleIds(s, k)
  <1>1. PICK l \in Nat : l = Len(s) /\ l = Len(t)
    BY LayerFacts DEF SameChains
  <1>2. ASSUME NEW i \in 1 .. l
        PROVE  /\ SameButValues(s[i].data, t[i].data)
               /\ s[i].data \in Delta /\ Bounded(s[i].data)
               /\ t[i].worldline = s[i].worldline
               /\ t[i].validAt = s[i].validAt /\ t[i].knownAt = s[i].knownAt
    BY <1>1, LayerFacts DEF SameChains
  <1>3. \A i \in 1 .. l : \A id : HasNode(t[i].data, k, id) <=> HasNode(s[i].data, k, id)
    BY <1>2, SameDeltas
  <1>4. ASSUME NEW i, NEW id PROVE Answers(t, i, k, id) <=> Answers(s, i, k, id)
    <2>1. \A j \in (i + 1) .. l : i \in 1 .. l => j \in 1 .. l
      OBVIOUS
    <2> QED BY <1>1, <1>3, <2>1 DEF Answers
  <1>5. ASSUME NEW id \in Nat PROVE Visible(t, k, id) <=> Visible(s, k, id)
    <2>1. ASSUME NEW i \in 1 .. l, HasNode(s[i].data, k, id)
          PROVE  RowVisible(t[i], NodeRow(t[i].data, k, id)) <=>
                     RowVisible(s[i], NodeRow(s[i].data, k, id))
      <3>1. id \in NodeIds(s[i].data, k)
        BY <1>2, <2>1, NodeRange
      <3> QED BY <1>2, <3>1, SameDeltas DEF RowVisible
    <2> QED BY <1>1, <1>4, <2>1 DEF Visible, Answers
  <1>6. NodeIdSpace \subseteq Nat
    BY CapacityAssumption DEF NodeIdSpace
  <1> QED BY <1>4, <1>5, <1>6 DEF VisibleIds

\* A source scan finds the same nodes in both chains,
LEMMA SameSources ==
    ASSUME NEW s, SnapshotOK(s), NEW t, SameChains(s, t), NEW k \in Kinds
    PROVE  SourceCandidates(t, k) = SourceCandidates(s, k)
  <1>1. PICK l \in Nat : l = Len(s) /\ l = Len(t)
    BY LayerFacts DEF SameChains
  <1>2. ASSUME NEW i \in 1 .. l
        PROVE  IndexedCandidates(t[i].data, k, t[i].worldline, t[i].validAt, t[i].knownAt) =
               IndexedCandidates(s[i].data, k, s[i].worldline, s[i].validAt, s[i].knownAt)
    <2>1. /\ SameButValues(s[i].data, t[i].data)
          /\ s[i].data \in Delta /\ Bounded(s[i].data)
          /\ t[i].worldline = s[i].worldline
          /\ t[i].validAt = s[i].validAt /\ t[i].knownAt = s[i].knownAt
      BY <1>1, LayerFacts DEF SameChains
    <2> QED BY <2>1, SameDeltas
  <1>3. [i \in 1 .. Len(t) |->
            Ascending(IndexedCandidates(t[i].data, k, t[i].worldline, t[i].validAt, t[i].knownAt))] =
        [i \in 1 .. Len(s) |->
            Ascending(IndexedCandidates(s[i].data, k, s[i].worldline, s[i].validAt, s[i].knownAt))]
    BY <1>1, <1>2
  <1> QED BY <1>3 DEF SourceCandidates

\* the snapshots they were branched from are alike in the same way,
LEMMA SameAncestors ==
    ASSUME NEW s, SnapshotOK(s), NEW t, SameChains(s, t), NEW i \in 1 .. Len(s)
    PROVE  SnapshotOK(Ancestor(s, i)) /\ SameChains(Ancestor(s, i), Ancestor(t, i))
  <1>1. PICK l \in Nat : l = Len(s) /\ l = Len(t)
    BY LayerFacts DEF SameChains
  <1>2. PICK a : /\ a = Ancestor(s, i) /\ SnapshotOK(a) /\ Len(a) = i
                 /\ \A j \in 1 .. i : a[j] = s[j]
    BY AncestorOK
  <1>3. PICK b : b = Ancestor(t, i)
    OBVIOUS
  <1>4. PICK S : \A j \in 1 .. l : t[j] \in S
    <2>1. \A j \in 1 .. l : t[j] \in {t[m] : m \in 1 .. l}
      OBVIOUS
    <2> QED BY <2>1
  <1>5. /\ b \in Seq(S) /\ Len(b) = i /\ \A j \in 1 .. i : b[j] = t[j]
    <2>1. \A j \in 1 .. i : t[j] \in S
      BY <1>1, <1>4
    <2>2. /\ SubSeq(t, 1, i) \in Seq(S)
          /\ Len(SubSeq(t, 1, i)) = IF 1 <= i THEN i - 1 + 1 ELSE 0
          /\ \A j \in 1 .. i - 1 + 1 : SubSeq(t, 1, i)[j] = t[1 + j - 1]
      BY <1>1, <2>1, SubSeqProperties
    <2> QED BY <1>1, <1>3, <2>2 DEF Ancestor
  <1>6. b = [j \in 1 .. i |-> b[j]]
    BY <1>5, LenProperties
  <1>7. \A j \in 1 .. i : j \in 1 .. l
    BY <1>1
  <1> QED BY <1>1, <1>2, <1>3, <1>5, <1>6, <1>7 DEF SameChains

\* They show the same edges.
LEMMA SameEdgesOfLayer ==
    ASSUME NEW d, NEW e, SameButValues(d, e), NEW r
    PROVE  /\ EdgeIds(e, r) = EdgeIds(d, r)
           /\ \A id : HasEdge(e, r, id) <=> HasEdge(d, r, id)
           /\ \A id : EdgeRow(e, r, id) = EdgeRow(d, r, id)
           /\ \A id : LocalOutgoing(e, r, id) = LocalOutgoing(d, r, id)
  <1>1. e.edgeBase = d.edgeBase /\ e.edges = d.edges
    BY DEF SameButValues
  <1>2. EdgeExtent(e, r) = EdgeExtent(d, r)
    BY <1>1 DEF EdgeExtent
  <1>3. EdgeIds(e, r) = EdgeIds(d, r) /\ \A id : HasEdge(e, r, id) <=> HasEdge(d, r, id)
    BY <1>1, <1>2 DEF EdgeIds, HasEdge
  <1>4. \A id : EdgeRow(e, r, id) = EdgeRow(d, r, id)
    BY <1>1 DEF EdgeRow
  <1>5. \A id : LocalOutgoing(e, r, id) = LocalOutgoing(d, r, id)
    BY <1>3, <1>4 DEF LocalOutgoing
  <1> QED BY <1>3, <1>4, <1>5

\* edges lead to the same nodes,
LEMMA SameTargets ==
    ASSUME NEW s, SnapshotOK(s), NEW t, SameChains(s, t), NEW r \in Relations,
           NEW i \in 1 .. Len(s), NEW e \in EdgeIds(s[i].data, r)
    PROVE  EdgeTarget(t, r, e) = EdgeTarget(s, r, e)
  <1>1. EdgeTarget(s, r, e) = EdgeRow(s[i].data, r, e).target
    BY EdgeFound
  <1>2. Len(s) \in Nat /\ Len(t) = Len(s)
    BY LayerFacts DEF SameChains
  <1>3. \A m \in 1 .. Len(s) : SameButValues(s[m].data, t[m].data)
    BY DEF SameChains
  <1> DEFINE Has(m) == /\ HasEdge(t[m].data, r, e)
                       /\ \A j \in (m + 1) .. Len(t) : ~HasEdge(t[j].data, r, e)
  <1>4. \A m \in 1 .. Len(s) : HasEdge(t[m].data, r, e) <=> HasEdge(s[m].data, r, e)
    BY <1>3, SameEdgesOfLayer
  <1>5. ASSUME NEW m \in 1 .. Len(t) PROVE Has(m) <=> m = i
    <2>1. m \in 1 .. Len(s) /\ \A j \in (m + 1) .. Len(t) : j \in 1 .. Len(s)
      BY <1>2
    <2>2. Has(m) <=> /\ HasEdge(s[m].data, r, e)
                     /\ \A j \in (m + 1) .. Len(s) : ~HasEdge(s[j].data, r, e)
      BY <1>2, <1>4, <2>1
    <2> QED BY <2>1, <2>2, EdgeAnswers
  <1>6. EdgeTarget(t, r, e) = EdgeRow(t[i].data, r, e).target
    <2> DEFINE m == CHOOSE m \in 1 .. Len(t) : Has(m)
    <2>1. m \in 1 .. Len(t) /\ Has(m)
      BY <1>2, <1>5
    <2> HIDE DEF m
    <2>2. m = i
      BY <1>5, <2>1
    <2> QED BY <2>2 DEF EdgeTarget, m
  <1> QED BY <1>1, <1>3, <1>6, SameEdgesOfLayer

\* a layer has the same edges to follow,
LEMMA SameOutgoingOfOne ==
    ASSUME NEW s, SnapshotOK(s), NEW t, SameChains(s, t), NEW r \in Relations, NEW id,
           NEW i \in 1 .. Len(s)
    PROVE  /\ OutgoingOfOne(t, r, id, i) = OutgoingOfOne(s, r, id, i)
           /\ OutgoingOfOne(s, r, id, i) \in Seq(Nat)
  <1>1. SnapshotOK(Ancestor(s, i)) /\ SameChains(Ancestor(s, i), Ancestor(t, i))
    BY SameAncestors
  <1>2. TargetKind[r] \in Kinds
    BY SchemaAssumption
  <1>3. \A far \in Nat : Visible(Ancestor(t, i), TargetKind[r], far) <=>
                             Visible(Ancestor(s, i), TargetKind[r], far)
    BY <1>1, <1>2, SameNodes
  <1>4. /\ s[i].data \in Delta /\ Bounded(s[i].data) /\ EdgesWellFormedIn(s[i].data)
        /\ SameButValues(s[i].data, t[i].data)
    BY LayerFacts DEF SameChains
  <1>5. LocalOutgoing(t[i].data, r, id) = LocalOutgoing(s[i].data, r, id)
    BY <1>4, SameEdgesOfLayer
  <1>6. \A e \in LocalOutgoing(s[i].data, r, id) :
            /\ e \in EdgeIds(s[i].data, r)
            /\ EdgeRow(t[i].data, r, e) = EdgeRow(s[i].data, r, e)
    BY <1>4, SameEdgesOfLayer DEF LocalOutgoing
  <1>7. \A e \in LocalOutgoing(s[i].data, r, id) : EdgeRow(s[i].data, r, e).target \in Nat
    BY <1>4, <1>6, EdgeRange
  <1> DEFINE part == {e \in LocalOutgoing(s[i].data, r, id) :
                         Visible(Ancestor(s, i), TargetKind[r], EdgeRow(s[i].data, r, e).target)}
             there == {e \in LocalOutgoing(t[i].data, r, id) :
                         Visible(Ancestor(t, i), TargetKind[r], EdgeRow(t[i].data, r, e).target)}
  <1>8. there = part
    BY <1>3, <1>5, <1>6, <1>7
  <1>9. Ascending(part) \in Seq(Nat)
    <2>1. \A e \in part : e \in Nat /\ e < InvalidEdgeId
      <3>1. /\ \A e \in EdgeIds(s[i].data, r) :
                   /\ e \in Nat
                   /\ s[i].data.edgeBase[r] <= e /\ e < EdgeExtent(s[i].data, r)
            /\ EdgeExtent(s[i].data, r) <= InvalidEdgeId
            /\ EdgeExtent(s[i].data, r) \in Nat
        BY <1>4, EdgeRange
      <3>2. \A e \in part : e \in EdgeIds(s[i].data, r)
        BY <1>6
      <3> HIDE DEF part
      <3> QED BY <3>1, <3>2, CapacityAssumption
    <2> HIDE DEF part
    <2>2. part \in SUBSET (0 .. (InvalidEdgeId - 1))
      BY <2>1, CapacityAssumption
    <2>3. PICK list : list = Ascending(part)
      OBVIOUS
    <2> QED BY <2>2, <2>3, CapacityAssumption, AscendingInOrder
  <1> HIDE DEF part, there
  <1>10. OutgoingOfOne(s, r, id, i) = Ascending(part) /\ OutgoingOfOne(t, r, id, i) = Ascending(there)
    BY DEF OutgoingOfOne, part, there
  <1> QED BY <1>8, <1>9, <1>10

\* and so has the snapshot.
LEMMA SameOutgoing ==
    ASSUME NEW s, SnapshotOK(s), NEW t, SameChains(s, t), NEW r \in Relations, NEW id \in Nat
    PROVE  Outgoing(t, r, id) = Outgoing(s, r, id)
  <1>1. PICK n \in Nat : n = Len(s) /\ n = Len(t)
    BY LayerFacts DEF SameChains
  <1>2. PICK lists : lists = [i \in 1 .. n |-> OutgoingOfOne(s, r, id, i)]
    OBVIOUS
  <1>3. PICK stops : stops = {i \in 1 .. n : ~Visible(Ancestor(s, i), SourceKind[r], id)}
    OBVIOUS
  <1>4. SourceKind[r] \in Kinds
    BY SchemaAssumption
  <1>5. \A i \in 1 .. n : /\ lists[i] \in Seq(Nat)
                          /\ lists[i] = OutgoingOfOne(s, r, id, i)
                          /\ lists[i] = OutgoingOfOne(t, r, id, i)
    <2> SUFFICES ASSUME NEW i \in 1 .. n
                 PROVE  /\ lists[i] \in Seq(Nat)
                        /\ lists[i] = OutgoingOfOne(s, r, id, i)
                        /\ lists[i] = OutgoingOfOne(t, r, id, i)
      OBVIOUS
    <2>1. lists[i] = OutgoingOfOne(s, r, id, i)
      BY <1>2
    <2>2. /\ OutgoingOfOne(t, r, id, i) = OutgoingOfOne(s, r, id, i)
          /\ OutgoingOfOne(s, r, id, i) \in Seq(Nat)
      BY <1>1, SameOutgoingOfOne
    <2> QED BY <2>1, <2>2
  <1>6. \A i \in 1 .. n : i \in stops <=> ~Visible(Ancestor(s, i), SourceKind[r], id)
    BY <1>3
  <1>7. ASSUME NEW i \in 1 .. n
        PROVE  i \in stops <=> ~Visible(Ancestor(t, i), SourceKind[r], id)
    <2>1. SnapshotOK(Ancestor(s, i)) /\ SameChains(Ancestor(s, i), Ancestor(t, i))
      BY <1>1, SameAncestors
    <2> QED BY <1>4, <1>6, <2>1, SameNodes
  <1>8. OutgoingEnds(s, r, id, n, lists, stops)
    BY <1>1, <1>5, <1>6, OutgoingGathers
  <1>9. OutgoingEnds(t, r, id, n, lists, stops)
    BY <1>1, <1>5, <1>7, OutgoingGathers
  <1>10. PICK f : Gathers(n, lists, stops, f) /\ Outgoing(s, r, id) = f[n]
    BY <1>8 DEF OutgoingEnds
  <1>11. PICK h : Gathers(n, lists, stops, h) /\ Outgoing(t, r, id) = h[n]
    BY <1>9 DEF OutgoingEnds
  <1> DEFINE T == {i \in 0 .. n : f[i] = h[i]}
  <1>12. 0 \in T
    BY <1>10, <1>11 DEF Gathers
  <1>13. ASSUME NEW i \in 0 .. (n - 1), i \in T PROVE i + 1 \in T
    <2>1. i + 1 \in 1 .. n /\ i + 1 - 1 = i
      OBVIOUS
    <2>2. f[i + 1] = Gather(lists, stops, f, i + 1) /\ h[i + 1] = Gather(lists, stops, h, i + 1)
      BY <1>10, <1>11, <2>1 DEF Gathers
    <2>3. Gather(lists, stops, f, i + 1) = Gather(lists, stops, h, i + 1)
      BY <1>13, <2>1 DEF Gather
    <2> QED BY <2>1, <2>2, <2>3
  <1> HIDE DEF T
  <1>14. n \in T
    BY <1>12, <1>13, TurnByTurn
  <1> QED BY <1>10, <1>11, <1>14 DEF T

-----------------------------------------------------------------------------
(* Snapshots that agree on the columns read. *)

\* Nodes that are visible have the same values in the columns.
SameValues(s, t, columns) ==
    \A k \in Kinds : \A id \in VisibleIds(s, k), key \in KeysOf[k] :
        <<k, key>> \in columns => ValueOf(t, k, id)[key] = ValueOf(s, k, id)[key]

\* Selectors fail on both or on neither.
LEMMA SameErrors ==
    ASSUME NEW s, SnapshotOK(s), NEW t, SameChains(s, t), NEW op
    PROVE  SelectorError(t, op) = SelectorError(s, op)
  <1>1. Last(s) = s[Len(s)] /\ Len(s) \in 1 .. Len(s)
    BY LayerFacts
  <1>2. Last(t) = t[Len(s)]
    BY DEF SameChains, Last
  <1>3. /\ Last(t).worldline = Last(s).worldline
        /\ Last(t).validAt = Last(s).validAt /\ Last(t).knownAt = Last(s).knownAt
    BY <1>1, <1>2 DEF SameChains
  <1> QED BY <1>3 DEF SelectorError

\* With nothing looked up a filter keeps what matches.
LEMMA RetainedAll ==
    ASSUME NEW g, NEW k, NEW predicates \in Seq(Predicate), NEW V, NEW input \in Seq(V)
    PROVE  Retained(g, k, predicates, input, {}) = input
  <1>1. PICK n \in Nat : n = Len(predicates)
    BY LenProperties
  <1>2. PICK none : none = {}
    OBVIOUS
  <1>3. PICK f : /\ RetainsBy(g, k, predicates, input, none, n, f)
                 /\ Retained(g, k, predicates, input, none) = f[n]
    BY <1>1, RetainedByTurns
  <1> DEFINE T == {j \in 0 .. n : f[j] = input}
  <1>4. 0 \in T
    BY <1>3 DEF RetainsBy
  <1>5. ASSUME NEW i \in 0 .. (n - 1), i \in T PROVE i + 1 \in T
    <2>1. i + 1 \in 1 .. n /\ i + 1 - 1 = i
      OBVIOUS
    <2>2. f[i + 1] = f[i]
      BY <1>2, <1>3, <2>1 DEF RetainsBy
    <2> QED BY <1>5, <2>1, <2>2
  <1> HIDE DEF T
  <1>6. \A i \in 0 .. n : i \in T
    BY <1>4, <1>5, TurnByTurn
  <1> QED BY <1>2, <1>3, <1>6 DEF T

\* Without looking anything up, a filter keeps what matches, in order.
LEMMA WhereScans ==
    ASSUME NEW g, NEW k, NEW predicates \in Seq(Predicate), NEW input \in Seq(VisibleIds(g, k))
    PROVE  EvaluateWhere(g, k, predicates, input, {}) = Ok(Kept(input, Chosen(g, k, predicates)))
  <1>1. PICK retained : retained = Retained(g, k, predicates, input, {})
    OBVIOUS
  <1>2. retained = input
    BY <1>1, RetainedAll
  <1>3. PICK matching : matching = {id \in Range(retained) : MatchesAll(g, k, predicates, id)}
    OBVIOUS
  <1>4. Readable(g, k, retained)
    BY <1>2, ReadableIds
  <1>5. EvaluateWhere(g, k, predicates, input, {}) = Ok(Kept(retained, matching))
    BY <1>1, <1>3, <1>4 DEF EvaluateWhere
  <1>6. PICK V : V = VisibleIds(g, k)
    OBVIOUS
  <1>7. PICK S : S = Range(input)
    OBVIOUS
  <1>8. input \in Seq(S) /\ \A x \in S : x \in V
    BY <1>6, <1>7, ListOfItsRange
  <1>9. PICK good : good = Chosen(g, k, predicates)
    OBVIOUS
  <1>10. \A x \in S : x \in matching <=> x \in good
    BY <1>2, <1>3, <1>6, <1>7, <1>8, <1>9 DEF Chosen
  <1>11. Kept(input, matching) = Kept(input, good)
    BY <1>8, <1>10, KeptAlike
  <1> QED BY <1>2, <1>5, <1>9, <1>11

\* A filter whose columns agree finds the same nodes,
LEMMA SameWhere ==
    ASSUME NEW s, SnapshotOK(s), NEW t, SameChains(s, t), NEW columns, SameValues(s, t, columns),
           NEW k \in Kinds, NEW predicates \in Seq(Predicate), AskedOf(predicates, k),
           \A j \in 1 .. Len(predicates) : <<k, predicates[j].key>> \in columns,
           NEW input \in Seq(VisibleIds(s, k))
    PROVE  EvaluateWhere(t, k, predicates, input, {}) = EvaluateWhere(s, k, predicates, input, {})
  <1>1. PICK V : V = VisibleIds(s, k)
    OBVIOUS
  <1>2. V = VisibleIds(t, k)
    BY <1>1, SameNodes
  <1>3. PICK good : good = Chosen(s, k, predicates)
    OBVIOUS
  <1>4. PICK other : other = Chosen(t, k, predicates)
    OBVIOUS
  <1>5. /\ EvaluateWhere(s, k, predicates, input, {}) = Ok(Kept(input, good))
        /\ EvaluateWhere(t, k, predicates, input, {}) = Ok(Kept(input, other))
    BY <1>1, <1>2, <1>3, <1>4, WhereScans
  <1>6. ASSUME NEW id \in V PROVE id \in good <=> id \in other
    <2>1. ASSUME NEW j \in 1 .. Len(predicates)
          PROVE  Matches(predicates[j], ValueOf(t, k, id)) <=> Matches(predicates[j], ValueOf(s, k, id))
      <3>1. ValueOf(t, k, id)[predicates[j].key] = ValueOf(s, k, id)[predicates[j].key]
        BY <1>1 DEF SameValues, AskedOf
      <3> QED BY <3>1 DEF Matches
    <2>2. MatchesAll(t, k, predicates, id) <=> MatchesAll(s, k, predicates, id)
      BY <2>1 DEF MatchesAll
    <2> QED BY <1>1, <1>2, <1>3, <1>4, <2>2 DEF Chosen
  <1>7. input \in Seq(V)
    BY <1>1
  <1>8. Kept(input, good) = Kept(input, other)
    BY <1>6, <1>7, KeptAlike
  <1> QED BY <1>5, <1>8

\* a traversal does on any columns,
LEMMA SameTraverse ==
    ASSUME NEW s, SnapshotOK(s), NEW t, SameChains(s, t), NEW r \in Relations,
           NEW input \in Seq(VisibleIds(s, SourceKind[r]))
    PROVE  EvaluateTraverse(t, r, input) = EvaluateTraverse(s, r, input)
  <1>1. PICK n \in Nat : n = Len(input)
    BY LenProperties
  <1>2. SourceKind[r] \in Kinds
    BY SchemaAssumption
  <1>3. VisibleIds(t, SourceKind[r]) = VisibleIds(s, SourceKind[r])
    BY <1>2, SameNodes
  <1>4. Readable(s, SourceKind[r], input) /\ Readable(t, SourceKind[r], input)
    BY <1>3, ReadableIds
  <1> DEFINE targets(g, id) == LET edges == Outgoing(g, r, id)
                               IN  [m \in 1 .. Len(edges) |-> EdgeTarget(g, r, edges[m])]
             lists(g) == [i \in 1 .. Len(input) |-> targets(g, input[i])]
  <1>5. /\ EvaluateTraverse(s, r, input) = Ok(FlattenSeq(lists(s)))
        /\ EvaluateTraverse(t, r, input) = Ok(FlattenSeq(lists(t)))
    BY <1>4 DEF EvaluateTraverse
  <1>6. ASSUME NEW id \in VisibleIds(s, SourceKind[r]) PROVE targets(t, id) = targets(s, id)
    <2>1. id \in Nat
      BY CapacityAssumption DEF VisibleIds, NodeIdSpace
    <2>2. PICK edges \in Seq(Nat) : edges = Outgoing(s, r, id) /\ InOrder(edges, OutgoingEdges(s, r, id))
      BY <2>1, OutgoingInOrder
    <2>3. edges = Outgoing(t, r, id)
      BY <2>1, <2>2, SameOutgoing
    <2>4. PICK l \in Nat : l = Len(edges) /\ DOMAIN edges = 1 .. l
      BY LenProperties
    <2>5. ASSUME NEW m \in 1 .. l PROVE EdgeTarget(t, r, edges[m]) = EdgeTarget(s, r, edges[m])
      <3>1. edges[m] \in Range(edges)
        BY <2>4 DEF Range
      <3>2. edges[m] \in ChainEdges(s, r)
        BY <2>2, <3>1 DEF InOrder, OutgoingEdges, LiveEdges
      <3>3. PICK i \in 1 .. Len(s) : edges[m] \in EdgeIds(s[i].data, r)
        BY <3>2 DEF ChainEdges
      <3> QED BY <3>3, SameTargets
    <2> QED BY <2>2, <2>3, <2>4, <2>5
  <1>7. ASSUME NEW i \in 1 .. n PROVE targets(t, input[i]) = targets(s, input[i])
    <2>1. input[i] \in VisibleIds(s, SourceKind[r])
      BY <1>1, ElementOfSeq
    <2> HIDE DEF targets
    <2> QED BY <1>6, <2>1
  <1>8. lists(t) = lists(s)
    <2> HIDE DEF targets
    <2> QED BY <1>1, <1>7
  <1> HIDE DEF lists
  <1> QED BY <1>5, <1>8

\* and so does a ranking by a column that agrees.
LEMMA SameTopK ==
    ASSUME NEW s \in Graphs, NEW t, SameChains(s, t), NEW columns, SameValues(s, t, columns),
           NEW k \in Kinds, NEW count, NEW key \in KeysOf[k], <<k, key>> \in columns,
           NEW direction, NEW input \in Seq(VisibleIds(s, k))
    PROVE  EvaluateTopK(t, k, count, key, direction, input) =
               EvaluateTopK(s, k, count, key, direction, input)
  <1>1. PICK n \in Nat : n = Len(input)
    BY LenProperties
  <1>2. SnapshotOK(s)
    BY GraphOK
  <1>3. VisibleIds(t, k) = VisibleIds(s, k)
    BY <1>2, SameNodes
  <1>4. Readable(s, k, input) /\ Readable(t, k, input)
    BY <1>3, ReadableIds
  <1>5. PICK value : value = [i \in 1 .. n |-> ValueOf(s, k, input[i])[key]]
    OBVIOUS
  <1>6. ASSUME NEW i \in 1 .. n
        PROVE  /\ value[i] = ValueOf(s, k, input[i])[key] /\ value[i] \in Int
               /\ value[i] = ValueOf(t, k, input[i])[key]
    <2>1. input[i] \in VisibleIds(s, k)
      BY <1>1, ElementOfSeq
    <2>2. value[i] = ValueOf(s, k, input[i])[key]
      BY <1>5
    <2>3. ValueOf(s, k, input[i])[key] \in Int
      BY <2>1, VisibleValue
    <2>4. ValueOf(t, k, input[i])[key] = ValueOf(s, k, input[i])[key]
      BY <2>1 DEF SameValues
    <2> QED BY <2>2, <2>3, <2>4
  <1>7. value \in [1 .. n -> Int]
    BY <1>5, <1>6
  <1>8. PICK place \in [1 .. n -> 1 .. n] : Places(n, value, direction, place)
    BY <1>7, PlacesExist
  <1>9. ValuesAre(s, k, input, key, n, value) /\ ValuesAre(t, k, input, key, n, value)
    BY <1>6 DEF ValuesAre
  <1>10. EvaluateTopK(s, k, count, key, direction, input) = Ok(Truncate(Arranged(n, input, place), count))
    BY <1>1, <1>4, <1>8, <1>9, RankedByPlaces
  <1>11. EvaluateTopK(t, k, count, key, direction, input) = Ok(Truncate(Arranged(n, input, place), count))
    BY <1>1, <1>4, <1>8, <1>9, RankedByPlaces
  <1> QED BY <1>10, <1>11

\* The operation makes the same of r on both.
FoundAlike(s, t, op, k, r) ==
    EvaluateOperation(t, op, k, r, {}) = EvaluateOperation(s, op, k, r, {})

\* So every operation does, of nodes found before it
LEMMA SameFound ==
    ASSUME NEW s \in Graphs, NEW t, SameChains(s, t), NEW columns, SameValues(s, t, columns),
           NEW k \in Kinds, NEW op \in Operation, Fits(op, k), ReadsOf(k, op) \subseteq columns,
           SelectorError(s, op) = NoError, NEW ids \in Seq(VisibleIds(s, k))
    PROVE  FoundAlike(s, t, op, k, Ok(ids))
  <1>1. SnapshotOK(s)
    BY GraphOK
  <1>2. PICK none : none = {}
    OBVIOUS
  <1>3. SelectorError(t, op) = NoError
    BY <1>1, SameErrors
  <1>4. OperationFinds(s, op, k, ids, none) /\ OperationFinds(t, op, k, ids, none)
    BY <1>3, OperationEvaluates
  <1>5. CASE op.kind = "where"
    <2>1. op.predicates \in Seq(Predicate)
      BY <1>5, OperationFacts
    <2>2. AskedOf(op.predicates, k)
      BY <1>5 DEF Fits, IsWhere, AskedOf
    <2>3. \A j \in 1 .. Len(op.predicates) : <<k, op.predicates[j].key>> \in columns
      BY <1>5, ListOfColumns
    <2>4. EvaluateWhere(t, k, op.predicates, ids, {}) = EvaluateWhere(s, k, op.predicates, ids, {})
      BY <1>1, <2>1, <2>2, <2>3, SameWhere
    <2> QED BY <1>2, <1>4, <1>5, <2>4 DEF OperationFinds, FoundAlike
  <1>6. CASE op.kind = "traverse"
    <2>1. op.relation \in Relations /\ SourceKind[op.relation] = k
      BY <1>6, OperationFacts DEF Fits
    <2>2. EvaluateTraverse(t, op.relation, ids) = EvaluateTraverse(s, op.relation, ids)
      BY <1>1, <2>1, SameTraverse
    <2> QED BY <1>2, <1>4, <1>6, <2>2 DEF OperationFinds, FoundAlike
  <1>7. CASE op.kind = "top_k"
    <2>1. op.key \in KeysOf[k] /\ <<k, op.key>> \in columns
      BY <1>7, ListOfColumns DEF Fits
    <2>2. EvaluateTopK(t, k, op.count, op.key, op.direction, ids) =
              EvaluateTopK(s, k, op.count, op.key, op.direction, ids)
      BY <2>1, SameTopK
    <2> QED BY <1>2, <1>4, <1>7, <2>2 DEF OperationFinds, FoundAlike
  <1>8. CASE op.kind = "limit"
    BY <1>2, <1>4, <1>8 DEF OperationFinds, FoundAlike
  <1>9. CASE op.kind \in Selectors \cup {"project"}
    BY <1>2, <1>4, <1>9 DEF OperationFinds, FoundAlike
  <1>10. op.kind \in {"where", "traverse", "top_k", "limit"} \cup Selectors \cup {"project"}
    BY OperationFacts DEF Selectors
  <1> QED BY <1>5, <1>6, <1>7, <1>8, <1>9, <1>10

\* or of any outcome.
LEMMA SameOperation ==
    ASSUME NEW s \in Graphs, NEW t, SameChains(s, t), NEW columns, SameValues(s, t, columns),
           NEW k \in Kinds, NEW op \in Operation, Fits(op, k), ReadsOf(k, op) \subseteq columns,
           NEW r, Outcome(s, k, r)
    PROVE  FoundAlike(s, t, op, k, r)
  <1>1. PICK error : error = SelectorError(s, op) /\ error = SelectorError(t, op)
    BY GraphOK, SameErrors
  <1>2. PICK none : none = {}
    OBVIOUS
  <1>3. PICK there, here : /\ there = EvaluateOperation(t, op, k, r, none)
                           /\ here = EvaluateOperation(s, op, k, r, none)
    OBVIOUS
  <1>4. CASE error # NoError
    <2>1. there = Fail(error) /\ here = Fail(error)
      BY <1>1, <1>3, <1>4, ErrorFacts
    <2> QED BY <1>2, <1>3, <2>1 DEF FoundAlike
  <1>5. CASE error = NoError /\ r.error # NoError
    <2>1. SelectorError(t, op) = NoError /\ SelectorError(s, op) = NoError
      BY <1>1, <1>5
    <2>2. there = r /\ here = r
      BY <1>3, <1>5, <2>1, ErrorFacts
    <2> QED BY <1>2, <1>3, <2>2 DEF FoundAlike
  <1>6. CASE error = NoError /\ r.error = NoError
    <2>1. PICK ids \in Seq(VisibleIds(s, k)) : r = Ok(ids)
      BY <1>6, OutcomeWithoutError
    <2>2. SelectorError(s, op) = NoError
      BY <1>1, <1>6
    <2>3. FoundAlike(s, t, op, k, Ok(ids))
      BY <2>2, SameFound
    <2> QED BY <2>1, <2>3
  <1> QED BY <1>4, <1>5, <1>6

\* A query finds the same on both.
LEMMA SameScan ==
    ASSUME NEW s \in Graphs, NEW t, SameChains(s, t), NEW columns, SameValues(s, t, columns),
           NEW source \in Kinds, NEW ops \in Seq(Operation), WellBuilt(source, ops),
           Reads(source, ops) \subseteq columns
    PROVE  Scan(t, source, ops) = Scan(s, source, ops)
  <1> DEFINE T == {list \in Seq(Operation) :
                      WellBuilt(source, list) /\ Reads(source, list) \subseteq columns =>
                          Scan(t, source, list) = Scan(s, source, list)}
  <1>1. <<>> \in T
    <2>1. SourceCandidates(t, source) = SourceCandidates(s, source)
      BY GraphOK, SameSources
    <2>2. Scan(t, source, <<>>) = Scan(s, source, <<>>)
      BY <2>1, ScanOfNone
    <2> QED BY <2>2, EmptySeq
  <1>2. ASSUME NEW list \in Seq(Operation), NEW op \in Operation, list \in T
        PROVE  Append(list, op) \in T
    <2>1. PICK longer \in Seq(Operation) : longer = Append(list, op)
      BY AppendProperties
    <2> SUFFICES ASSUME WellBuilt(source, longer), Reads(source, longer) \subseteq columns
                 PROVE  Scan(t, source, longer) = Scan(s, source, longer)
      BY <2>1
    <2>2. PICK k : k = KindOf(source, list)
      OBVIOUS
    <2>3. WellBuilt(source, list) /\ Fits(op, k)
      BY <2>1, <2>2, BuiltByTurns DEF BuiltOfMore
    <2>4. k \in Kinds
      BY <2>2, KindOfType
    <2>5. Reads(source, list) \subseteq columns /\ ReadsOf(k, op) \subseteq columns
      BY <2>1, <2>2, ReadsOfMore
    <2>6. PICK r : r = Scan(s, source, list) /\ r = Scan(t, source, list)
      BY <1>2, <2>3, <2>5
    <2>7. Outcome(s, k, r)
      BY <2>2, <2>3, <2>6, QueryOutcome
    <2>8. FoundAlike(s, t, op, k, r)
      BY <2>3, <2>4, <2>5, <2>7, SameOperation
    <2>9. ScansMore(s, source, list, op) /\ ScansMore(t, source, list, op)
      BY ScanByTurns
    <2> QED BY <2>1, <2>2, <2>6, <2>8, <2>9 DEF ScansMore, FoundAlike
  <1> HIDE DEF T
  <1>3. \A list \in Seq(Operation) : list \in T
    BY <1>1, <1>2, ListInduction
  <1> QED BY <1>3 DEF T

\* Hence a query has one result on snapshots that agree on the columns it reads and shows.
LEMMA SameExecution ==
    ASSUME NEW s \in Graphs, NEW t, SameChains(s, t), NEW columns, SameValues(s, t, columns),
           NEW source \in Kinds, NEW ops \in Seq(Operation), WellBuilt(source, ops),
           Reads(source, ops) \subseteq columns,
           NEW k, k = KindOf(source, ops), NEW keys \in Seq(KeysOf[k]),
           \A key \in Range(keys) : <<k, key>> \in columns
    PROVE  Execute(t, QueryOf(source, ops), keys, {}) = Execute(s, QueryOf(source, ops), keys, {})
  <1>1. PICK q : q = QueryOf(source, ops)
    OBVIOUS
  <1>2. k = KindAfter(q, Len(q.ops))
    BY <1>1 DEF KindOf, QueryOf
  <1>3. PICK found : found = Evaluate(s, q, {}) /\ found = Evaluate(t, q, {}) /\ Outcome(s, k, found)
    BY <1>1, SameScan, QueryOutcome DEF Scan
  <1>4. k \in Kinds
    BY KindOfType
  <1>5. CASE found.error # NoError \/ keys = <<>>
    BY <1>1, <1>3, <1>5 DEF Execute
  <1>6. CASE ~(found.error # NoError \/ keys = <<>>)
    <2>1. PICK ids \in Seq(VisibleIds(s, k)) : found = Ok(ids)
      BY <1>3, <1>6, OutcomeWithoutError
    <2>2. found.ids = ids
      BY <2>1, ResultFacts
    <2>3. VisibleIds(t, k) = VisibleIds(s, k)
      BY <1>4, GraphOK, SameNodes
    <2>4. Readable(s, k, ids) /\ Readable(t, k, ids)
      BY <2>3, ReadableIds
    <2> DEFINE row(g, i) == [id |-> ids[i],
                             values |-> [j \in 1 .. Len(keys) |-> ValueOf(g, k, ids[i])[keys[j]]]]
    <2>5. /\ Execute(s, q, keys, {}) = Ok([i \in 1 .. Len(ids) |-> row(s, i)])
          /\ Execute(t, q, keys, {}) = Ok([i \in 1 .. Len(ids) |-> row(t, i)])
      BY <1>2, <1>3, <1>6, <2>2, <2>4 DEF Execute
    <2>6. ASSUME NEW i \in 1 .. Len(ids) PROVE row(t, i) = row(s, i)
      <3>1. ids[i] \in VisibleIds(s, k)
        BY ElementOfSeq
      <3>2. ASSUME NEW j \in 1 .. Len(keys)
            PROVE  ValueOf(t, k, ids[i])[keys[j]] = ValueOf(s, k, ids[i])[keys[j]]
        <4>1. keys[j] \in KeysOf[k]
          BY ElementOfSeq
        <4>2. keys[j] \in Range(keys)
          BY LenProperties DEF Range
        <4> QED BY <1>4, <3>1, <4>1, <4>2 DEF SameValues
      <3> QED BY <3>2
    <2> HIDE DEF row
    <2>7. [i \in 1 .. Len(ids) |-> row(t, i)] = [i \in 1 .. Len(ids) |-> row(s, i)]
      BY <2>6
    <2> QED BY <1>1, <2>5, <2>7
  <1> QED BY <1>5, <1>6

\* A row with nothing but the given columns.
OnlyOf(row, k, columns) ==
    [row EXCEPT !.value = [key \in KeysOf[k] |-> IF <<k, key>> \in columns THEN @[key] ELSE 0]]

\* A snapshot with nothing but the given columns agrees on them.
LEMMA OnlyColumnsAgree ==
    ASSUME NEW g \in Graphs, NEW columns, NEW t, t = OnlyColumns(g, columns)
    PROVE  SameChains(g, t) /\ SameValues(g, t, columns)
  <1>1. SnapshotOK(g)
    BY GraphOK
  <1>2. PICK n \in Nat : n = Len(g)
    BY <1>1, LayerFacts
  <1> DEFINE rows(i) == [k \in Kinds |-> [m \in 1 .. Len(g[i].data.nodes[k]) |->
                 OnlyOf(g[i].data.nodes[k][m], k, columns)]]
  <1>3. t = [i \in 1 .. n |-> [g[i] EXCEPT !.data.nodes = rows(i)]]
    BY <1>2 DEF OnlyColumns, OnlyOf
  <1>4. ASSUME NEW i \in 1 .. n
        PROVE  /\ t[i].worldline = g[i].worldline
               /\ t[i].validAt = g[i].validAt /\ t[i].knownAt = g[i].knownAt
               /\ t[i].data.nodeBase = g[i].data.nodeBase /\ t[i].data.edgeBase = g[i].data.edgeBase
               /\ t[i].data.edges = g[i].data.edges
               /\ t[i].data.nodes = rows(i)
    <2>1. g[i] \in Layer /\ g[i].data \in Delta
      BY <1>1, <1>2, LayerFacts
    <2>2. t[i] = [g[i] EXCEPT !.data.nodes = rows(i)]
      BY <1>3
    <2> HIDE DEF rows
    <2> QED BY <2>1, <2>2 DEF Layer, Delta
  <1>5. ASSUME NEW i \in 1 .. n, NEW k \in Kinds
        PROVE  /\ Len(t[i].data.nodes[k]) = Len(g[i].data.nodes[k])
               /\ Len(g[i].data.nodes[k]) \in Nat
               /\ \A m \in 1 .. Len(g[i].data.nodes[k]) :
                      t[i].data.nodes[k][m] = OnlyOf(g[i].data.nodes[k][m], k, columns)
    <2>1. t[i].data.nodes[k] = rows(i)[k]
      BY <1>4
    <2>2. PICK l \in Nat : l = Len(g[i].data.nodes[k])
      <3>1. g[i].data \in Delta
        BY <1>1, <1>2, LayerFacts
      <3>2. g[i].data.nodes[k] \in Seq(Row)
        BY <3>1 DEF Delta
      <3> QED BY <3>2, LenProperties
    <2>3. rows(i)[k] = [m \in 1 .. Len(g[i].data.nodes[k]) |->
              OnlyOf(g[i].data.nodes[k][m], k, columns)]
      OBVIOUS
    <2>4. PICK old, new : /\ old = g[i].data.nodes[k] /\ new = t[i].data.nodes[k]
      OBVIOUS
    <2> HIDE DEF rows
    <2>5. new = [m \in 1 .. l |-> OnlyOf(old[m], k, columns)]
      BY <2>1, <2>2, <2>3, <2>4
    <2> QED BY <2>2, <2>4, <2>5
  <1>6. ASSUME NEW i \in 1 .. n, NEW k \in Kinds, NEW m \in 1 .. Len(g[i].data.nodes[k])
        PROVE  /\ t[i].data.nodes[k][m].worldline = g[i].data.nodes[k][m].worldline
               /\ t[i].data.nodes[k][m].valid = g[i].data.nodes[k][m].valid
               /\ t[i].data.nodes[k][m].transaction = g[i].data.nodes[k][m].transaction
               /\ \A key \in KeysOf[k] : <<k, key>> \in columns =>
                      t[i].data.nodes[k][m].value[key] = g[i].data.nodes[k][m].value[key]
    <2>1. g[i].data \in Delta
      BY <1>1, <1>2, LayerFacts
    <2>2. g[i].data.nodes[k] \in Seq(Row)
      BY <2>1 DEF Delta
    <2>3. g[i].data.nodes[k][m] \in Row
      BY <2>2, ElementOfSeq
    <2>4. t[i].data.nodes[k][m] = OnlyOf(g[i].data.nodes[k][m], k, columns)
      BY <1>5
    <2> HIDE DEF rows
    <2> QED BY <2>3, <2>4 DEF OnlyOf, Row
  <1>7. SameChains(g, t)
    <2>1. t = [i \in 1 .. Len(g) |-> t[i]] /\ Len(t) = Len(g)
      BY <1>2, <1>3
    <2> HIDE DEF rows
    <2> QED BY <1>2, <1>4, <1>5, <1>6, <2>1 DEF SameChains, SameButValues
  <1>8. ASSUME NEW k \in Kinds, NEW id \in VisibleIds(g, k), NEW key \in KeysOf[k],
               <<k, key>> \in columns
        PROVE  ValueOf(t, k, id)[key] = ValueOf(g, k, id)[key]
    <2>1. id \in Nat /\ Visible(g, k, id)
      BY CapacityAssumption DEF VisibleIds, NodeIdSpace
    <2>2. PICK i \in 1 .. n : HasNode(g[i].data, k, id)
      BY <1>2, <2>1 DEF Visible, Answers
    <2>3. g[i].data \in Delta /\ Bounded(g[i].data)
      BY <1>1, <1>2, LayerFacts
    <2>4. id \in NodeIds(g[i].data, k)
      BY <2>1, <2>2, <2>3, NodeRange
    <2>5. \A j : Answers(g, j, k, id) <=> j = i
      BY <1>1, <1>2, <2>1, <2>4, OneAnswers
    <2>6. \A j : Answers(t, j, k, id) <=> j = i
      BY <1>1, <1>7, <2>5, SameNodes
    <2>7. ValueOf(g, k, id) = NodeRow(g[i].data, k, id).value
      BY <1>1, <1>2, <2>1, <2>4, OneAnswers DEF ValueOf
    <2>8. Property(t, k, id) = NodeRow(t[i].data, k, id)
      <3> DEFINE j == CHOOSE j \in 1 .. Len(t) : Answers(t, j, k, id)
      <3>1. Len(t) = n
        BY <1>2, <1>7 DEF SameChains
      <3>2. Answers(t, j, k, id)
        BY <2>6, <3>1
      <3> HIDE DEF j
      <3>3. j = i
        BY <2>6, <3>2
      <3> QED BY <3>3 DEF Property, j
    <2>9. PICK m : m = id - g[i].data.nodeBase[k] + 1
      OBVIOUS
    <2>10. m \in 1 .. Len(g[i].data.nodes[k])
      <3>1. SameButValues(g[i].data, t[i].data)
        BY <1>2, <1>7 DEF SameChains
      <3> QED BY <2>3, <2>4, <2>9, <3>1, SameDeltas
    <2>11. /\ ValueOf(t, k, id) = t[i].data.nodes[k][m].value
           /\ ValueOf(g, k, id) = g[i].data.nodes[k][m].value
      BY <1>4, <2>7, <2>8, <2>9 DEF ValueOf, NodeRow
    <2> QED BY <1>6, <1>8, <2>10, <2>11
  <1> QED BY <1>7, <1>8 DEF SameValues

-----------------------------------------------------------------------------
(* Queries with the same results. *)

\* The projections in a query.
Projects(ops) == {ops[i].keys : i \in {j \in 1 .. Len(ops) : ops[j].kind = "project"}}

\* a can be executed in the place of b, and reads no fewer columns.
Alike(source, a, b) ==
    /\ a \in Seq(Operation) /\ WellBuilt(source, a)
    /\ KindOf(source, a) = KindOf(source, b)
    /\ Projects(a) \subseteq Projects(b)
    /\ Reads(source, b) \subseteq Reads(source, a)
    /\ \A g \in Graphs : Scan(g, source, a) = Scan(g, source, b)

\* The operation itself if it is a projection.
ProjectsOf(op) == IF op.kind = "project" THEN {op.keys} ELSE {}

LEMMA ProjectsOfMore ==
    ASSUME NEW ops \in Seq(Operation), NEW op \in Operation
    PROVE  Projects(Append(ops, op)) = Projects(ops) \cup ProjectsOf(op)
  <1>1. PICK n \in Nat : n = Len(ops)
    BY LenProperties
  <1>2. PICK longer : longer = Append(ops, op)
    OBVIOUS
  <1>3. /\ Len(longer) = n + 1 /\ longer[n + 1] = op /\ \A i \in 1 .. n : longer[i] = ops[i]
    <2>1. Extends(Operation, n, ops, op, longer)
      BY <1>1, <1>2, AppendExtends
    <2> QED BY <2>1 DEF Extends
  <1>4. \A i : i \in 1 .. (n + 1) <=> i \in 1 .. n \/ i = n + 1
    OBVIOUS
  <1>5. ASSUME NEW x PROVE x \in Projects(longer) <=> x \in Projects(ops) \/ x \in ProjectsOf(op)
    <2>1. x \in Projects(longer) <=>
              \E i \in 1 .. (n + 1) : longer[i].kind = "project" /\ x = longer[i].keys
      BY <1>3 DEF Projects
    <2>2. x \in Projects(ops) <=> \E i \in 1 .. n : ops[i].kind = "project" /\ x = ops[i].keys
      BY <1>1 DEF Projects
    <2>3. x \in ProjectsOf(op) <=> op.kind = "project" /\ x = op.keys
      BY DEF ProjectsOf
    <2> QED BY <1>3, <1>4, <2>1, <2>2, <2>3
  <1> QED BY <1>2, <1>5

LEMMA AlikeItself ==
    ASSUME NEW source, NEW ops \in Seq(Operation), WellBuilt(source, ops)
    PROVE  Alike(source, ops, ops)
  BY DEF Alike

LEMMA AlikeBoth ==
    ASSUME NEW source, NEW a, NEW b, NEW c, Alike(source, a, b), Alike(source, b, c)
    PROVE  Alike(source, a, c)
  BY DEF Alike

\* And so they stay with another operation.
LEMMA AlikeWithMore ==
    ASSUME NEW source, NEW a, NEW b \in Seq(Operation), Alike(source, a, b),
           NEW op \in Operation, Fits(op, KindOf(source, b))
    PROVE  Alike(source, Append(a, op), Append(b, op))
  <1>1. /\ a \in Seq(Operation) /\ WellBuilt(source, a) /\ KindOf(source, a) = KindOf(source, b)
        /\ Projects(a) \subseteq Projects(b)
    BY DEF Alike
  <1>2. BuiltOfMore(source, a, op) /\ BuiltOfMore(source, b, op)
    BY <1>1, BuiltByTurns
  <1>3. WellBuilt(source, Append(a, op)) /\ KindOf(source, Append(a, op)) = KindOf(source, Append(b, op))
    BY <1>1, <1>2 DEF BuiltOfMore
  <1>4. /\ Projects(Append(a, op)) = Projects(a) \cup ProjectsOf(op)
        /\ Projects(Append(b, op)) = Projects(b) \cup ProjectsOf(op)
    BY <1>1, ProjectsOfMore
  <1>5. Append(a, op) \in Seq(Operation)
    BY <1>1, AppendType
  <1>6. ASSUME NEW g \in Graphs
        PROVE  Scan(g, source, Append(a, op)) = Scan(g, source, Append(b, op))
    <2>1. ScansMore(g, source, a, op) /\ ScansMore(g, source, b, op)
      BY <1>1, ScanByTurns
    <2>2. Scan(g, source, a) = Scan(g, source, b)
      BY DEF Alike
    <2> QED BY <1>1, <2>1, <2>2 DEF ScansMore
  <1>7. Reads(source, Append(b, op)) \subseteq Reads(source, Append(a, op))
    <2>1. /\ Reads(source, Append(a, op)) = Reads(source, a) \cup ReadsOf(KindOf(source, a), op)
          /\ Reads(source, Append(b, op)) = Reads(source, b) \cup ReadsOf(KindOf(source, b), op)
      BY <1>1, ReadsOfMore
    <2>2. Reads(source, b) \subseteq Reads(source, a)
      BY DEF Alike
    <2> QED BY <1>1, <2>1, <2>2
  <1> QED BY <1>1, <1>3, <1>4, <1>5, <1>6, <1>7 DEF Alike

-----------------------------------------------------------------------------
(* The rewritings of the optimizer. *)

LEMMA FrontAndLast ==
    ASSUME NEW S, NEW front \in Seq(S), NEW last \in S, NEW list, list = Append(front, last)
    PROVE  list \in Seq(S) /\ list # <<>> /\ Front(list) = front /\ Last(list) = last
  <1>1. PICK n \in Nat : n = Len(front)
    BY LenProperties
  <1>2. Extends(S, n, front, last, list)
    BY <1>1, AppendExtends
  <1>3. /\ list \in Seq(S) /\ Len(list) = n + 1 /\ list[n + 1] = last
        /\ \A i \in 1 .. n : list[i] = front[i]
    BY <1>2 DEF Extends
  <1>4. list # <<>> /\ Last(list) = last
    BY <1>3 DEF Last
  <1>5. /\ Front(list) \in Seq(S) /\ Len(Front(list)) = Len(list) - 1
        /\ \A i \in 1 .. (Len(list) - 1) : Front(list)[i] = list[i]
    <2>1. Len(list) >= 1
      BY <1>3
    <2> QED BY <1>3, <2>1, FrontType
  <1>6. Len(Front(list)) = n /\ \A i \in 1 .. n : Front(list)[i] = front[i]
    BY <1>3, <1>5
  <1>7. Front(list) = front
    BY <1>1, <1>5, <1>6, SeqEqual
  <1> QED BY <1>3, <1>4, <1>7

\* Two operations one after the other, after what was found before them.
TwoMore(g, source, front, a, b) ==
    Scan(g, source, Append(Append(front, a), b)) =
        EvaluateOperation(g, b, NextKind(a, KindOf(source, front)),
                          EvaluateOperation(g, a, KindOf(source, front),
                                            Scan(g, source, front), {}), {})

\* What building one operation after the other asks for and yields.
BuiltTwo(source, front, a, b) ==
    /\ WellBuilt(source, front) /\ Fits(a, KindOf(source, front))
    /\ Fits(b, NextKind(a, KindOf(source, front)))

LEMMA OneAfterTheOther ==
    ASSUME NEW source, NEW front \in Seq(Operation), NEW a \in Operation, NEW b \in Operation
    PROVE  /\ Append(front, a) \in Seq(Operation) /\ Append(Append(front, a), b) \in Seq(Operation)
           /\ WellBuilt(source, Append(Append(front, a), b)) <=> BuiltTwo(source, front, a, b)
           /\ KindOf(source, Append(Append(front, a), b)) =
                  NextKind(b, NextKind(a, KindOf(source, front)))
           /\ Projects(Append(Append(front, a), b)) =
                  (Projects(front) \cup ProjectsOf(a)) \cup ProjectsOf(b)
           /\ Reads(source, Append(Append(front, a), b)) =
                  (Reads(source, front) \cup ReadsOf(KindOf(source, front), a))
                      \cup ReadsOf(NextKind(a, KindOf(source, front)), b)
           /\ \A g : TwoMore(g, source, front, a, b)
  <1>1. PICK ops \in Seq(Operation) : ops = Append(front, a)
    BY AppendType
  <1>2. Append(ops, b) \in Seq(Operation)
    BY AppendType
  <1>3. BuiltOfMore(source, front, a) /\ BuiltOfMore(source, ops, b)
    BY BuiltByTurns
  <1>4. Projects(Append(ops, b)) = Projects(ops) \cup ProjectsOf(b)
    BY ProjectsOfMore
  <1>5. Projects(ops) = Projects(front) \cup ProjectsOf(a)
    BY <1>1, ProjectsOfMore
  <1>6. /\ KindOf(source, ops) = NextKind(a, KindOf(source, front))
        /\ WellBuilt(source, ops) <=> WellBuilt(source, front) /\ Fits(a, KindOf(source, front))
    BY <1>1, <1>3 DEF BuiltOfMore
  <1>7. /\ KindOf(source, Append(ops, b)) = NextKind(b, KindOf(source, ops))
        /\ WellBuilt(source, Append(ops, b)) <=> WellBuilt(source, ops) /\ Fits(b, KindOf(source, ops))
    BY <1>3 DEF BuiltOfMore
  <1>8. ASSUME NEW g PROVE TwoMore(g, source, front, a, b)
    <2>1. ScansMore(g, source, front, a) /\ ScansMore(g, source, ops, b)
      BY ScanByTurns
    <2> QED BY <1>1, <1>6, <2>1 DEF ScansMore, TwoMore
  <1>9. WellBuilt(source, Append(ops, b)) <=> BuiltTwo(source, front, a, b)
    BY <1>6, <1>7 DEF BuiltTwo
  <1>10. Reads(source, Append(ops, b)) =
             (Reads(source, front) \cup ReadsOf(KindOf(source, front), a))
                 \cup ReadsOf(NextKind(a, KindOf(source, front)), b)
    <2>1. Reads(source, ops) = Reads(source, front) \cup ReadsOf(KindOf(source, front), a)
      BY <1>1, ReadsOfMore
    <2>2. Reads(source, Append(ops, b)) = Reads(source, ops) \cup ReadsOf(KindOf(source, ops), b)
      BY ReadsOfMore
    <2> QED BY <1>6, <2>1, <2>2
  <1> QED BY <1>1, <1>2, <1>4, <1>5, <1>6, <1>7, <1>8, <1>9, <1>10

\* Filters and limits find no error and lead to no other kind.
LEMMA NarrowingFacts ==
    ASSUME NEW op, op.kind \in {"where", "limit"}
    PROVE  /\ \A g : SelectorError(g, op) = NoError
           /\ \A k : NextKind(op, k) = k
           /\ ProjectsOf(op) = {}
  BY ErrorFacts DEF Selectors, NextKind, ProjectsOf

\* A filter and a selector can change places.
LEMMA SelectorAndFilter ==
    ASSUME NEW source \in Kinds, NEW front \in Seq(Operation), NEW selector \in Operation,
           selector.kind \in Selectors, NEW filter \in Operation, IsWhere(filter),
           BuiltTwo(source, front, selector, filter)
    PROVE  Alike(source, Append(Append(front, filter), selector),
                         Append(Append(front, selector), filter))
  <1>1. PICK k \in Kinds : k = KindOf(source, front)
    BY KindOfType
  <1>2. filter.kind = "where" /\ selector.kind \notin {"where", "traverse", "top_k", "project"}
    BY DEF IsWhere, Selectors
  <1>3. NextKind(selector, k) = k /\ NextKind(filter, k) = k
    BY <1>2 DEF NextKind
  <1>4. ProjectsOf(selector) = {} /\ ProjectsOf(filter) = {}
    BY <1>2 DEF ProjectsOf
  <1>5. WellBuilt(source, front) /\ Fits(filter, k) /\ Fits(selector, k)
    BY <1>1, <1>3 DEF BuiltTwo
  <1>6. BuiltTwo(source, front, filter, selector)
    BY <1>1, <1>3, <1>5 DEF BuiltTwo
  <1>7. ASSUME NEW g \in Graphs
        PROVE  Scan(g, source, Append(Append(front, filter), selector)) =
               Scan(g, source, Append(Append(front, selector), filter))
    <2>1. PICK r : r = Scan(g, source, front) /\ Outcome(g, k, r)
      BY <1>1, <1>5, QueryOutcome
    <2>2. TwoMore(g, source, front, filter, selector) /\ TwoMore(g, source, front, selector, filter)
      BY OneAfterTheOther
    <2>3. PICK none : none = {}
      OBVIOUS
    <2>4. /\ Scan(g, source, Append(Append(front, filter), selector)) =
                 EvaluateOperation(g, selector, k, EvaluateOperation(g, filter, k, r, none), none)
          /\ Scan(g, source, Append(Append(front, selector), filter)) =
                 EvaluateOperation(g, filter, k, EvaluateOperation(g, selector, k, r, none), none)
      BY <1>1, <1>3, <2>1, <2>2, <2>3 DEF TwoMore
    <2>5. SelectorError(g, filter) = NoError
      BY <1>2, ErrorFacts DEF Selectors
    <2>6. CASE SelectorError(g, selector) # NoError
      <3>1. PICK e : e = Fail(SelectorError(g, selector))
        OBVIOUS
      <3>2. \A x : EvaluateOperation(g, selector, k, x, none) = e
        BY <2>6, <3>1, ErrorFacts
      <3>3. e.error # NoError
        BY <2>6, <3>1, ResultFacts
      <3>4. EvaluateOperation(g, filter, k, e, none) = e
        BY <2>5, <3>3, ErrorFacts
      <3> QED BY <2>4, <3>2, <3>4
    <2>7. CASE SelectorError(g, selector) = NoError /\ r.error # NoError
      <3>1. EvaluateOperation(g, filter, k, r, none) = r /\ EvaluateOperation(g, selector, k, r, none) = r
        BY <2>5, <2>7, ErrorFacts
      <3> QED BY <2>4, <3>1
    <2>8. CASE SelectorError(g, selector) = NoError /\ r.error = NoError
      <3>1. PICK ids \in Seq(VisibleIds(g, k)) : r = Ok(ids)
        BY <2>1, <2>8, OutcomeWithoutError
      <3>2. \A x : EvaluateOperation(g, selector, k, Ok(x), none) = Ok(x)
        <4>1. ASSUME NEW x PROVE OperationFinds(g, selector, k, x, none)
          BY <2>8, OperationEvaluates
        <4> QED BY <4>1 DEF OperationFinds
      <3>3. PICK kept : EvaluateOperation(g, filter, k, r, none) = Ok(kept)
        <4>1. OperationFinds(g, filter, k, ids, none)
          BY <2>5, OperationEvaluates
        <4>2. EvaluateOperation(g, filter, k, r, none) = EvaluateWhere(g, k, filter.predicates, ids, none)
          BY <1>2, <3>1, <4>1 DEF OperationFinds
        <4>3. filter.predicates \in Seq(Predicate) /\ AskedOf(filter.predicates, k)
          BY <1>2, <1>5, OperationFacts DEF Fits, AskedOf
        <4>4. EvaluateWhere(g, k, filter.predicates, ids, none) =
                  Ok(Kept(ids, Chosen(g, k, filter.predicates)))
          BY <4>3, WhereResult
        <4> QED BY <4>2, <4>4
      <3> QED BY <2>4, <3>1, <3>2, <3>3
    <2> QED BY <2>6, <2>7, <2>8
  <1>8. Reads(source, Append(Append(front, selector), filter)) \subseteq
            Reads(source, Append(Append(front, filter), selector))
    <2>1. /\ Reads(source, Append(Append(front, selector), filter)) =
                 (Reads(source, front) \cup ReadsOf(k, selector)) \cup ReadsOf(k, filter)
          /\ Reads(source, Append(Append(front, filter), selector)) =
                 (Reads(source, front) \cup ReadsOf(k, filter)) \cup ReadsOf(k, selector)
      BY <1>1, <1>3, OneAfterTheOther
    <2> QED BY <2>1
  <1> QED BY <1>1, <1>3, <1>4, <1>6, <1>7, <1>8, OneAfterTheOther DEF Alike

\* Filters fused match what both match.
LEMMA ChosenByBoth ==
    ASSUME NEW g, NEW k, NEW first \in Seq(Predicate), NEW second \in Seq(Predicate)
    PROVE  Chosen(g, k, first \o second) = Chosen(g, k, first) \cap Chosen(g, k, second)
  <1>1. PICK n \in Nat : n = Len(first)
    BY LenProperties
  <1>2. PICK m \in Nat : m = Len(second)
    BY LenProperties
  <1>3. PICK both : both = first \o second
    OBVIOUS
  <1>4. /\ Len(both) = n + m
        /\ \A i \in 1 .. n : both[i] = first[i]
        /\ \A i \in 1 .. m : both[n + i] = second[i]
    <2>1. Len(both) = n + m
      BY <1>1, <1>2, <1>3, ConcatProperties
    <2>2. \A i \in 1 .. (n + m) : both[i] = IF i <= n THEN first[i] ELSE second[i - n]
      BY <1>1, <1>2, <1>3, ConcatProperties
    <2>3. ASSUME NEW i \in 1 .. n PROVE both[i] = first[i]
      <3>1. i \in 1 .. (n + m) /\ i <= n
        OBVIOUS
      <3> QED BY <2>2, <3>1
    <2>4. ASSUME NEW i \in 1 .. m PROVE both[n + i] = second[i]
      <3>1. PICK j : j = n + i
        OBVIOUS
      <3>2. j \in 1 .. (n + m) /\ ~(j <= n) /\ j - n = i
        BY <3>1
      <3>3. both[j] = second[i]
        BY <2>2, <3>2
      <3> QED BY <3>1, <3>3
    <2> QED BY <2>1, <2>3, <2>4
  <1>5. \A i : i \in 1 .. (n + m) <=> i \in 1 .. n \/ \E j \in 1 .. m : i = n + j
    <2>1. ASSUME NEW i \in 1 .. (n + m), i \notin 1 .. n PROVE \E j \in 1 .. m : i = n + j
      <3>1. i - n \in 1 .. m /\ i = n + (i - n)
        BY <2>1
      <3> QED BY <3>1
    <2>2. \A i \in 1 .. n : i \in 1 .. (n + m)
      OBVIOUS
    <2>3. \A j \in 1 .. m : n + j \in 1 .. (n + m)
      OBVIOUS
    <2> QED BY <2>1, <2>2, <2>3
  <1>6. ASSUME NEW id
        PROVE  MatchesAll(g, k, both, id) <=>
                   MatchesAll(g, k, first, id) /\ MatchesAll(g, k, second, id)
    <2>1. MatchesAll(g, k, both, id) <=>
              \A i \in 1 .. (n + m) : Matches(both[i], ValueOf(g, k, id))
      BY <1>4 DEF MatchesAll
    <2>2. MatchesAll(g, k, first, id) <=> \A i \in 1 .. n : Matches(first[i], ValueOf(g, k, id))
      BY <1>1 DEF MatchesAll
    <2>3. MatchesAll(g, k, second, id) <=> \A i \in 1 .. m : Matches(second[i], ValueOf(g, k, id))
      BY <1>2 DEF MatchesAll
    <2> QED BY <1>4, <1>5, <2>1, <2>2, <2>3
  <1> QED BY <1>3, <1>6 DEF Chosen

\* What two filters ask for, fused.
LEMMA FusedAsks ==
    ASSUME NEW k, NEW first \in Seq(Predicate), NEW second \in Seq(Predicate),
           AskedOf(first, k), AskedOf(second, k), first # <<>>
    PROVE  /\ first \o second \in Seq(Predicate) /\ first \o second # <<>>
           /\ AskedOf(first \o second, k)
  <1>1. PICK n \in Nat : n = Len(first) /\ n >= 1
    <2>1. Len(first) \in Nat /\ Len(first) # 0
      BY LenProperties, EmptySeq
    <2> QED BY <2>1
  <1>2. PICK m \in Nat : m = Len(second)
    BY LenProperties
  <1>3. PICK both : both = first \o second
    OBVIOUS
  <1>4. /\ both \in Seq(Predicate) /\ Len(both) = n + m
        /\ \A i \in 1 .. (n + m) : both[i] = IF i <= n THEN first[i] ELSE second[i - n]
    BY <1>1, <1>2, <1>3, ConcatProperties
  <1>5. both # <<>>
    BY <1>1, <1>2, <1>4, EmptySeq
  <1>6. ASSUME NEW i \in 1 .. (n + m) PROVE both[i].key \in KeysOf[k]
    <2>1. CASE i <= n
      <3>1. i \in 1 .. n /\ both[i] = first[i]
        BY <1>4, <2>1
      <3> QED BY <1>1, <3>1 DEF AskedOf
    <2>2. CASE ~(i <= n)
      <3>1. PICK j : j = i - n
        OBVIOUS
      <3>2. j \in 1 .. m /\ both[i] = second[j]
        BY <1>4, <2>2, <3>1
      <3> QED BY <1>2, <3>2 DEF AskedOf
    <2> QED BY <2>1, <2>2
  <1> QED BY <1>3, <1>4, <1>5, <1>6 DEF AskedOf

\* What a filter keeps of what was found before.
LEMMA FilterResult ==
    ASSUME NEW g \in Graphs, NEW k \in Kinds, NEW op \in Operation, IsWhere(op), Fits(op, k),
           NEW ids \in Seq(VisibleIds(g, k))
    PROVE  EvaluateOperation(g, op, k, Ok(ids), {}) = Ok(Kept(ids, Chosen(g, k, op.predicates)))
  <1>1. PICK none : none = {}
    OBVIOUS
  <1>2. op.kind = "where" /\ op.predicates \in Seq(Predicate) /\ AskedOf(op.predicates, k)
    BY OperationFacts DEF IsWhere, Fits, AskedOf
  <1>3. SelectorError(g, op) = NoError
    BY <1>2, NarrowingFacts
  <1>4. OperationFinds(g, op, k, ids, none)
    BY <1>3, OperationEvaluates
  <1>5. EvaluateOperation(g, op, k, Ok(ids), none) = EvaluateWhere(g, k, op.predicates, ids, none)
    BY <1>2, <1>4 DEF OperationFinds
  <1>6. EvaluateWhere(g, k, op.predicates, ids, none) = Ok(Kept(ids, Chosen(g, k, op.predicates)))
    BY <1>2, WhereResult
  <1> QED BY <1>1, <1>5, <1>6

\* Two operations of which neither finds errors nor leads to another kind, and one that
\* finds as much as the two and reads no less.
Fuses(k, first, second, fused) ==
    /\ fused \in Operation /\ Fits(fused, k) /\ ProjectsOf(fused) = {}
    /\ ReadsOf(k, first) \cup ReadsOf(k, second) \subseteq ReadsOf(k, fused)
    /\ \A kind : NextKind(first, kind) = kind /\ NextKind(second, kind) = kind
                                             /\ NextKind(fused, kind) = kind
    /\ \A g : /\ SelectorError(g, first) = NoError /\ SelectorError(g, second) = NoError
              /\ SelectorError(g, fused) = NoError

FindsAsMuch(g, k, first, second, fused) ==
    \A ids \in Seq(VisibleIds(g, k)) :
        EvaluateOperation(g, second, k, EvaluateOperation(g, first, k, Ok(ids), {}), {}) =
        EvaluateOperation(g, fused, k, Ok(ids), {})

LEMMA FusingIsAlike ==
    ASSUME NEW source \in Kinds, NEW front \in Seq(Operation),
           NEW first \in Operation, NEW second \in Operation, NEW fused,
           BuiltTwo(source, front, first, second),
           NEW k, k = KindOf(source, front), Fuses(k, first, second, fused),
           \A g \in Graphs : FindsAsMuch(g, k, first, second, fused)
    PROVE  Alike(source, Append(front, fused), Append(Append(front, first), second))
  <1>1. /\ fused \in Operation /\ Fits(fused, k) /\ ProjectsOf(fused) = {}
        /\ NextKind(first, k) = k /\ NextKind(second, k) = k /\ NextKind(fused, k) = k
    BY DEF Fuses
  <1>2. Append(front, fused) \in Seq(Operation)
    BY <1>1, AppendType
  <1>3. BuiltOfMore(source, front, fused)
    BY <1>1, BuiltByTurns
  <1>4. WellBuilt(source, front)
    BY DEF BuiltTwo
  <1>5. WellBuilt(source, Append(front, fused)) /\ KindOf(source, Append(front, fused)) = k
    BY <1>1, <1>3, <1>4 DEF BuiltOfMore
  <1>6. /\ KindOf(source, Append(Append(front, first), second)) = k
        /\ Projects(Append(Append(front, first), second)) =
               (Projects(front) \cup ProjectsOf(first)) \cup ProjectsOf(second)
        /\ \A g : TwoMore(g, source, front, first, second)
    BY <1>1, OneAfterTheOther
  <1>7. Projects(Append(front, fused)) = Projects(front) \cup ProjectsOf(fused)
    BY <1>1, ProjectsOfMore
  <1>8. ASSUME NEW g \in Graphs
        PROVE  Scan(g, source, Append(front, fused)) =
               Scan(g, source, Append(Append(front, first), second))
    <2>1. PICK r : r = Scan(g, source, front) /\ Outcome(g, k, r)
      BY <1>4, QueryOutcome
    <2>2. ScansMore(g, source, front, fused)
      BY <1>1, ScanByTurns
    <2>3. PICK none : none = {}
      OBVIOUS
    <2>4. Scan(g, source, Append(front, fused)) = EvaluateOperation(g, fused, k, r, none)
      BY <2>1, <2>2, <2>3 DEF ScansMore
    <2>5. Scan(g, source, Append(Append(front, first), second)) =
              EvaluateOperation(g, second, k, EvaluateOperation(g, first, k, r, none), none)
      BY <1>1, <1>6, <2>1, <2>3 DEF TwoMore
    <2>6. /\ SelectorError(g, first) = NoError /\ SelectorError(g, second) = NoError
          /\ SelectorError(g, fused) = NoError
      BY DEF Fuses
    <2>7. CASE r.error # NoError
      <3>1. /\ EvaluateOperation(g, first, k, r, none) = r
            /\ EvaluateOperation(g, second, k, r, none) = r
            /\ EvaluateOperation(g, fused, k, r, none) = r
        BY <2>6, <2>7, ErrorFacts
      <3> QED BY <2>4, <2>5, <3>1
    <2>8. CASE r.error = NoError
      <3>1. PICK ids \in Seq(VisibleIds(g, k)) : r = Ok(ids)
        BY <2>1, <2>8, OutcomeWithoutError
      <3>2. FindsAsMuch(g, k, first, second, fused)
        OBVIOUS
      <3> QED BY <2>3, <2>4, <2>5, <3>1, <3>2 DEF FindsAsMuch
    <2> QED BY <2>7, <2>8
  <1>9. Reads(source, Append(Append(front, first), second)) \subseteq
            Reads(source, Append(front, fused))
    <2>1. Reads(source, Append(Append(front, first), second)) =
              (Reads(source, front) \cup ReadsOf(k, first)) \cup ReadsOf(k, second)
      BY <1>1, OneAfterTheOther
    <2>2. Reads(source, Append(front, fused)) = Reads(source, front) \cup ReadsOf(k, fused)
      BY <1>1, ReadsOfMore
    <2>3. ReadsOf(k, first) \cup ReadsOf(k, second) \subseteq ReadsOf(k, fused)
      BY DEF Fuses
    <2> QED BY <2>1, <2>2, <2>3
  <1> QED BY <1>1, <1>2, <1>5, <1>6, <1>7, <1>8, <1>9 DEF Alike

\* A fused filter reads what both filters read.
LEMMA FusedReads ==
    ASSUME NEW k \in Kinds, NEW first \in Operation, IsWhere(first),
           NEW second \in Operation, IsWhere(second),
           NEW fused \in Operation, IsWhere(fused),
           fused.predicates = first.predicates \o second.predicates
    PROVE  ReadsOf(k, first) \cup ReadsOf(k, second) \subseteq ReadsOf(k, fused)
  <1>1. /\ first.kind = "where" /\ second.kind = "where" /\ fused.kind = "where"
        /\ first.predicates \in Seq(Predicate) /\ second.predicates \in Seq(Predicate)
    BY OperationFacts DEF IsWhere
  <1>2. PICK n \in Nat : n = Len(first.predicates)
    BY <1>1, LenProperties
  <1>3. PICK m \in Nat : m = Len(second.predicates)
    BY <1>1, LenProperties
  <1>4. PICK both : both = fused.predicates
    OBVIOUS
  <1>5. /\ Len(both) = n + m
        /\ \A i \in 1 .. (n + m) : both[i] = IF i <= n THEN first.predicates[i]
                                               ELSE second.predicates[i - n]
    <2>1. PICK P : P = Predicate
      OBVIOUS
    <2>2. PICK p \in Seq(P) : p = first.predicates
      BY <1>1, <2>1
    <2>3. PICK q \in Seq(P) : q = second.predicates
      BY <1>1, <2>1
    <2>4. both = p \o q /\ Len(p) = n /\ Len(q) = m
      BY <1>2, <1>3, <1>4, <2>2, <2>3
    <2>5. /\ Len(both) = n + m
          /\ \A i \in 1 .. (n + m) : both[i] = IF i <= n THEN p[i] ELSE q[i - n]
      BY <2>4, ConcatProperties
    <2> QED BY <2>2, <2>3, <2>5
  <1>6. \A i \in 1 .. (n + m) : <<k, both[i].key>> \in ReadsOf(k, fused)
    BY <1>1, <1>4, <1>5, ListOfColumns
  <1>7. ASSUME NEW x \in ReadsOf(k, first) PROVE x \in ReadsOf(k, fused)
    <2>1. PICK j \in 1 .. n : x = <<k, first.predicates[j].key>>
      BY <1>1, <1>2, ListOfColumns
    <2>2. j \in 1 .. (n + m) /\ both[j] = first.predicates[j]
      BY <1>5
    <2> QED BY <1>6, <2>1, <2>2
  <1>8. ASSUME NEW x \in ReadsOf(k, second) PROVE x \in ReadsOf(k, fused)
    <2>1. PICK j \in 1 .. m : x = <<k, second.predicates[j].key>>
      BY <1>1, <1>3, ListOfColumns
    <2>2. PICK i : i = j + n
      OBVIOUS
    <2>3. i \in 1 .. (n + m) /\ ~(i <= n) /\ i - n = j
      BY <2>2
    <2>4. both[i] = second.predicates[j]
      BY <1>5, <2>3
    <2> QED BY <1>6, <2>1, <2>3, <2>4
  <1> QED BY <1>7, <1>8

\* fused_where_expr for two where_expr.
LEMMA FusedFilters ==
    ASSUME NEW source \in Kinds, NEW front \in Seq(Operation),
           NEW first \in Operation, IsWhere(first), NEW second \in Operation, IsWhere(second),
           BuiltTwo(source, front, first, second)
    PROVE  Alike(source, Append(front, Where(first.predicates \o second.predicates)),
                         Append(Append(front, first), second))
  <1>1. PICK k \in Kinds : k = KindOf(source, front)
    BY KindOfType
  <1>2. PICK both : both = first.predicates \o second.predicates
    OBVIOUS
  <1>3. PICK fused : fused = Where(both)
    OBVIOUS
  <1>4. /\ first.kind = "where" /\ first.predicates \in Seq(Predicate) /\ first.predicates # <<>>
        /\ second.kind = "where" /\ second.predicates \in Seq(Predicate)
    BY OperationFacts DEF IsWhere
  <1>5. NextKind(first, k) = k
    BY <1>4, NarrowingFacts
  <1>6. Fits(first, k) /\ Fits(second, k)
    BY <1>1, <1>5 DEF BuiltTwo
  <1>7. AskedOf(first.predicates, k) /\ AskedOf(second.predicates, k)
    BY <1>6 DEF Fits, AskedOf
  <1>8. both \in Seq(Predicate) /\ both # <<>> /\ AskedOf(both, k)
    BY <1>2, <1>4, <1>7, FusedAsks
  <1>9. fused.kind = "where" /\ fused.predicates = both
    BY <1>3 DEF Where
  <1>10. fused \in Operation
    BY <1>3, <1>8 DEF Where, Operation
  <1>11. IsWhere(fused) /\ Fits(fused, k)
    BY <1>8, <1>9 DEF IsWhere, Fits, AskedOf
  <1>12. Fuses(k, first, second, fused)
    <2>1. ReadsOf(k, first) \cup ReadsOf(k, second) \subseteq ReadsOf(k, fused)
      BY <1>2, <1>9, <1>10, <1>11, FusedReads
    <2> QED BY <1>4, <1>9, <1>10, <1>11, <2>1, NarrowingFacts DEF Fuses
  <1>13. ASSUME NEW g \in Graphs PROVE FindsAsMuch(g, k, first, second, fused)
    <2> SUFFICES ASSUME NEW ids \in Seq(VisibleIds(g, k))
                 PROVE  EvaluateOperation(g, second, k, EvaluateOperation(g, first, k, Ok(ids), {}), {})
                            = EvaluateOperation(g, fused, k, Ok(ids), {})
      BY DEF FindsAsMuch
    <2>1. PICK m1 : m1 = Chosen(g, k, first.predicates)
      OBVIOUS
    <2>2. PICK m2 : m2 = Chosen(g, k, second.predicates)
      OBVIOUS
    <2>3. PICK once \in Seq(VisibleIds(g, k)) : once = Kept(ids, m1)
      BY KeptAmong
    <2>4. EvaluateOperation(g, first, k, Ok(ids), {}) = Ok(once)
      BY <1>6, <2>1, <2>3, FilterResult
    <2>5. EvaluateOperation(g, second, k, Ok(once), {}) = Ok(Kept(once, m2))
      BY <1>6, <2>2, FilterResult
    <2>6. EvaluateOperation(g, fused, k, Ok(ids), {}) = Ok(Kept(ids, Chosen(g, k, both)))
      BY <1>9, <1>10, <1>11, FilterResult
    <2>7. Chosen(g, k, both) = m1 \cap m2
      BY <1>2, <1>4, <2>1, <2>2, ChosenByBoth
    <2>8. Kept(once, m2) = Kept(ids, m1 \cap m2)
      BY <2>3, KeptTwice
    <2> QED BY <2>4, <2>5, <2>6, <2>7, <2>8
  <1> QED BY <1>1, <1>2, <1>3, <1>12, <1>13, FusingIsAlike

LEMMA MinOfTwo ==
    ASSUME NEW a \in Nat, NEW b \in Nat
    PROVE  Min({a, b}) = IF a <= b THEN a ELSE b
  BY DEF Min

\* The first few of a list.
Truncates(S, list, c, l, cut) ==
    /\ cut \in Seq(S) /\ Len(cut) = l
    /\ \A i \in 1 .. l : cut[i] = list[i]
    /\ cut = Truncate(list, c)

LEMMA TruncateEnds ==
    ASSUME NEW S, NEW list \in Seq(S), NEW m \in Nat, m = Len(list), NEW c \in Nat,
           NEW l \in Nat, l = IF c <= m THEN c ELSE m
    PROVE  Truncates(S, list, c, l, Truncate(list, c))
  <1>1. Truncate(list, c) = SubSeq(list, 1, l)
    BY MinOfTwo DEF Truncate
  <1>2. \A i \in 1 .. l : list[i] \in S
    BY ElementOfSeq
  <1>3. /\ SubSeq(list, 1, l) \in Seq(S)
        /\ Len(SubSeq(list, 1, l)) = IF 1 <= l THEN l - 1 + 1 ELSE 0
        /\ \A i \in 1 .. l - 1 + 1 : SubSeq(list, 1, l)[i] = list[1 + i - 1]
    BY <1>2, SubSeqProperties
  <1>4. Len(SubSeq(list, 1, l)) = l /\ \A i \in 1 .. l : SubSeq(list, 1, l)[i] = list[i]
    BY <1>3
  <1> QED BY <1>1, <1>3, <1>4 DEF Truncates

\* The shorter of two limits.
LEMMA TruncatedTwice ==
    ASSUME NEW S, NEW ids \in Seq(S), NEW a \in Nat, NEW b \in Nat
    PROVE  Truncate(Truncate(ids, a), b) = Truncate(ids, Min({a, b}))
  <1>1. PICK n \in Nat : n = Len(ids)
    BY LenProperties
  <1>2. PICK least \in Nat : least = Min({a, b}) /\ least = IF a <= b THEN a ELSE b
    BY MinOfTwo
  <1>3. PICK p \in Nat : p = IF a <= n THEN a ELSE n
    OBVIOUS
  <1>4. PICK q \in Nat : q = IF b <= p THEN b ELSE p
    OBVIOUS
  <1>5. q = IF least <= n THEN least ELSE n
    BY <1>2, <1>3, <1>4
  <1>6. PICK once : once = Truncate(ids, a)
    OBVIOUS
  <1>7. Truncates(S, ids, a, p, once)
    BY <1>1, <1>3, <1>6, TruncateEnds
  <1>8. once \in Seq(S) /\ Len(once) = p /\ \A i \in 1 .. p : once[i] = ids[i]
    BY <1>7 DEF Truncates
  <1>9. PICK twice : twice = Truncate(once, b)
    OBVIOUS
  <1>10. p = Len(once)
    BY <1>8
  <1>11. Truncates(S, once, b, q, twice)
    BY <1>4, <1>8, <1>9, <1>10, TruncateEnds
  <1>12. PICK direct : direct = Truncate(ids, least)
    OBVIOUS
  <1>13. Truncates(S, ids, least, q, direct)
    BY <1>1, <1>5, <1>12, TruncateEnds
  <1>14. \A i \in 1 .. q : twice[i] = direct[i]
    <2> SUFFICES ASSUME NEW i \in 1 .. q PROVE twice[i] = direct[i]
      OBVIOUS
    <2>1. i \in 1 .. p
      BY <1>4
    <2> QED BY <1>8, <1>11, <1>13, <2>1 DEF Truncates
  <1>15. twice = direct
    <2>1. twice \in Seq(S) /\ Len(twice) = q /\ direct \in Seq(S) /\ Len(direct) = q
      BY <1>11, <1>13 DEF Truncates
    <2> QED BY <1>14, <2>1, SeqEqual
  <1> QED BY <1>2, <1>6, <1>9, <1>12, <1>15

LEMMA FusedLimits ==
    ASSUME NEW source \in Kinds, NEW front \in Seq(Operation),
           NEW first \in Operation, first.kind = "limit",
           NEW second \in Operation, second.kind = "limit",
           BuiltTwo(source, front, first, second)
    PROVE  Alike(source, Append(front, Limit(Min({first.count, second.count}))),
                         Append(Append(front, first), second))
  <1>1. PICK k \in Kinds : k = KindOf(source, front)
    BY KindOfType
  <1>2. PICK a \in Nat : a = first.count
    BY OperationFacts
  <1>3. PICK b \in Nat : b = second.count
    BY OperationFacts
  <1>4. PICK c \in Nat : c = Min({a, b})
    BY MinOfTwo
  <1>5. PICK fused : fused = Limit(c)
    OBVIOUS
  <1>6. fused.kind = "limit" /\ fused.count = c
    BY <1>5 DEF Limit
  <1>7. fused \in Operation
    BY <1>5 DEF Limit, Operation
  <1>8. Fits(fused, k)
    BY <1>6 DEF Fits, IsWhere
  <1>9. Fuses(k, first, second, fused)
    <2>1. ReadsOf(k, first) = {} /\ ReadsOf(k, second) = {}
      BY ListOfColumns
    <2> QED BY <1>6, <1>7, <1>8, <2>1, NarrowingFacts DEF Fuses
  <1>10. ASSUME NEW g \in Graphs PROVE FindsAsMuch(g, k, first, second, fused)
    <2>1. PICK none : none = {}
      OBVIOUS
    <2>2. ASSUME NEW op \in Operation, op.kind = "limit", NEW ids
          PROVE  EvaluateOperation(g, op, k, Ok(ids), none) = Ok(Truncate(ids, op.count))
      <3>1. SelectorError(g, op) = NoError
        BY <2>2, NarrowingFacts
      <3>2. OperationFinds(g, op, k, ids, none)
        BY <3>1, OperationEvaluates
      <3> QED BY <2>2, <3>2 DEF OperationFinds
    <2>3. ASSUME NEW ids \in Seq(VisibleIds(g, k))
          PROVE  EvaluateOperation(g, second, k, EvaluateOperation(g, first, k, Ok(ids), none), none)
                     = EvaluateOperation(g, fused, k, Ok(ids), none)
      <3>1. EvaluateOperation(g, first, k, Ok(ids), none) = Ok(Truncate(ids, a))
        BY <1>2, <2>2
      <3>2. EvaluateOperation(g, second, k, Ok(Truncate(ids, a)), none) =
                Ok(Truncate(Truncate(ids, a), b))
        BY <1>3, <2>2
      <3>3. EvaluateOperation(g, fused, k, Ok(ids), none) = Ok(Truncate(ids, c))
        BY <1>6, <1>7, <2>2
      <3>4. Truncate(Truncate(ids, a), b) = Truncate(ids, c)
        BY <1>4, TruncatedTwice
      <3> QED BY <3>1, <3>2, <3>3, <3>4
    <2> QED BY <2>1, <2>3 DEF FindsAsMuch
  <1> QED BY <1>1, <1>2, <1>3, <1>4, <1>5, <1>9, <1>10, FusingIsAlike

LEMMA HasLast ==
    ASSUME NEW S, NEW list \in Seq(S), list # <<>>
    PROVE  \E front \in Seq(S), last \in S : list = Append(front, last)
  <1>1. PICK n \in Nat : n = Len(list)
    BY LenProperties
  <1>2. n # 0
    BY <1>1, EmptySeq
  <1>3. PICK m \in Nat : n = m + 1
    <2>1. n - 1 \in Nat /\ n = (n - 1) + 1
      BY <1>2
    <2> QED BY <2>1
  <1>4. Len(list) = m + 1
    BY <1>1, <1>3
  <1>5. \E front \in Seq(S), last \in S : list = Append(front, last) /\ Len(front) = m
    BY <1>4, ListExtends
  <1> QED BY <1>5

\* A filter at the end, fused or not.
LEMMA AppendedFilter ==
    ASSUME NEW source \in Kinds, NEW ops \in Seq(Operation), WellBuilt(source, ops),
           NEW op \in Operation, IsWhere(op), Fits(op, KindOf(source, ops))
    PROVE  Alike(source, AppendFilter(ops, op), Append(ops, op))
  <1>1. CASE ~(ops # <<>> /\ IsWhere(Last(ops)))
    <2>1. AppendFilter(ops, op) = Append(ops, op)
      BY <1>1 DEF AppendFilter
    <2>2. Append(ops, op) \in Seq(Operation)
      BY AppendType
    <2>3. BuiltOfMore(source, ops, op)
      BY BuiltByTurns
    <2>4. WellBuilt(source, Append(ops, op))
      BY <2>3 DEF BuiltOfMore
    <2>5. Alike(source, Append(ops, op), Append(ops, op))
      BY <2>2, <2>4, AlikeItself
    <2> QED BY <2>1, <2>5
  <1>2. CASE ops # <<>> /\ IsWhere(Last(ops))
    <2>1. PICK front \in Seq(Operation), last \in Operation : ops = Append(front, last)
      BY <1>2, HasLast
    <2>2. Front(ops) = front /\ Last(ops) = last
      BY <2>1, FrontAndLast
    <2>3. BuiltOfMore(source, front, last)
      BY <2>1, BuiltByTurns
    <2>4. BuiltTwo(source, front, last, op)
      BY <2>1, <2>3 DEF BuiltOfMore, BuiltTwo
    <2>5. AppendFilter(ops, op) = Append(front, Where(last.predicates \o op.predicates))
      BY <1>2, <2>2 DEF AppendFilter
    <2>6. IsWhere(last)
      BY <1>2, <2>2
    <2>7. Alike(source, Append(front, Where(last.predicates \o op.predicates)),
                        Append(Append(front, last), op))
      BY <2>1, <2>4, <2>6, FusedFilters
    <2> QED BY <2>1, <2>5, <2>7
  <1> QED BY <1>1, <1>2

\* Where the selectors at the end begin.
LEMMA MaxOrNone ==
    ASSUME NEW n \in Nat, NEW S \in SUBSET (1 .. n), NEW m \in {0} \cup S, \A i \in S : i <= m
    PROVE  Max({0} \cup S) = m
  <1>1. PICK T : T = {0} \cup S
    OBVIOUS
  <1>2. T \in SUBSET Nat /\ m \in T /\ \A i \in T : m >= i
    BY <1>1
  <1>3. PICK top : top = Max(T)
    OBVIOUS
  <1>4. top \in T /\ \A i \in T : top >= i
    BY <1>2, <1>3 DEF Max
  <1>5. top >= m /\ m >= top /\ top \in Nat /\ m \in Nat
    BY <1>2, <1>4
  <1> QED BY <1>1, <1>3, <1>5

\* The operations that a filter does not pass, and those that it goes in front of.
Settled(ops) == {i \in 1 .. Len(ops) : ops[i].kind \notin Selectors}
SettledEnd(ops) == Max({0} \cup Settled(ops))

LEMMA SettledFacts ==
    ASSUME NEW ops, NEW n \in Nat, n = Len(ops)
    PROVE  \E p \in 0 .. n : /\ SettledEnd(ops) = p /\ p \in {0} \cup Settled(ops)
                             /\ \A i \in Settled(ops) : i <= p
  <1>1. Settled(ops) \in SUBSET (1 .. n)
    BY DEF Settled
  <1>2. CASE Settled(ops) = {}
    <2>1. 0 \in {0} \cup Settled(ops) /\ \A i \in Settled(ops) : i <= 0
      BY <1>2
    <2>2. SettledEnd(ops) = 0
      BY <1>1, <2>1, MaxOrNone DEF SettledEnd
    <2> QED BY <2>1, <2>2
  <1>3. CASE Settled(ops) # {}
    <2>1. PICK p : p = Max(Settled(ops))
      OBVIOUS
    <2>2. p \in Settled(ops) /\ \A i \in Settled(ops) : i <= p
      BY <1>1, <1>3, <2>1, MaxIsLast
    <2>3. SettledEnd(ops) = p
      BY <1>1, <2>2, MaxOrNone DEF SettledEnd
    <2>4. p \in 0 .. n
      BY <1>1, <2>2
    <2> QED BY <2>2, <2>3, <2>4
  <1> QED BY <1>2, <1>3

LEMMA SettledOfMore ==
    ASSUME NEW ops \in Seq(Operation), NEW last \in Operation, NEW n \in Nat, n = Len(ops)
    PROVE  SettledEnd(Append(ops, last)) =
               IF last.kind \in Selectors THEN SettledEnd(ops) ELSE n + 1
  <1>1. PICK longer : longer = Append(ops, last)
    OBVIOUS
  <1>2. Len(longer) = n + 1 /\ longer[n + 1] = last /\ \A i \in 1 .. n : longer[i] = ops[i]
    <2>1. Extends(Operation, n, ops, last, longer)
      BY <1>1, AppendExtends
    <2> QED BY <2>1 DEF Extends
  <1>3. PICK m \in Nat : m = n + 1
    OBVIOUS
  <1>4. Settled(longer) \in SUBSET (1 .. m)
    BY <1>2, <1>3 DEF Settled
  <1>5. \A i : i \in 1 .. m <=> i \in 1 .. n \/ i = m
    BY <1>3
  <1>6. CASE last.kind \in Selectors
    <2>1. Settled(longer) = Settled(ops)
      BY <1>2, <1>3, <1>5, <1>6 DEF Settled
    <2> QED BY <1>1, <1>6, <2>1 DEF SettledEnd
  <1>7. CASE last.kind \notin Selectors
    <2>1. m \in Settled(longer)
      BY <1>2, <1>3, <1>5, <1>7 DEF Settled
    <2>2. \A i \in Settled(longer) : i <= m
      BY <1>4
    <2>3. SettledEnd(longer) = m
      BY <1>4, <2>1, <2>2, MaxOrNone DEF SettledEnd
    <2> QED BY <1>1, <1>3, <1>7, <2>3
  <1> QED BY <1>6, <1>7

\* Lists taken apart and put together.
Parted(S, list, p, n, before, after) ==
    /\ before = SubSeq(list, 1, p) /\ after = SubSeq(list, p + 1, n)
    /\ before \in Seq(S) /\ after \in Seq(S) /\ Len(before) = p /\ Len(after) = n - p
    /\ \A i \in 1 .. p : before[i] = list[i]
    /\ \A i \in 1 .. (n - p) : after[i] = list[p + i]

LEMMA ListParted ==
    ASSUME NEW S, NEW list \in Seq(S), NEW n \in Nat, n = Len(list), NEW p \in 0 .. n
    PROVE  Parted(S, list, p, n, SubSeq(list, 1, p), SubSeq(list, p + 1, n))
  <1>1. \A i \in 1 .. n : list[i] \in S
    BY ElementOfSeq
  <1>2. PICK before : before = SubSeq(list, 1, p)
    OBVIOUS
  <1>3. PICK after : after = SubSeq(list, p + 1, n)
    OBVIOUS
  <1>4. /\ before \in Seq(S) /\ Len(before) = IF 1 <= p THEN p - 1 + 1 ELSE 0
        /\ \A i \in 1 .. p - 1 + 1 : before[i] = list[1 + i - 1]
    <2>1. \A i \in 1 .. p : list[i] \in S
      BY <1>1
    <2> QED BY <1>2, <2>1, SubSeqProperties
  <1>5. PICK m \in Int : m = p + 1
    OBVIOUS
  <1>6. /\ after \in Seq(S) /\ Len(after) = IF m <= n THEN n - m + 1 ELSE 0
        /\ \A i \in 1 .. n - m + 1 : after[i] = list[m + i - 1]
    <2>1. \A i \in m .. n : list[i] \in S
      BY <1>1, <1>5
    <2>2. after = SubSeq(list, m, n)
      BY <1>3, <1>5
    <2> QED BY <2>1, <2>2, SubSeqProperties
  <1>7. Len(before) = p /\ \A i \in 1 .. p : before[i] = list[i]
    BY <1>4
  <1>8. Len(after) = n - p
    BY <1>5, <1>6
  <1>9. ASSUME NEW i \in 1 .. (n - p) PROVE after[i] = list[p + i]
    <2>1. i \in 1 .. n - m + 1 /\ m + i - 1 = p + i
      BY <1>5
    <2> QED BY <1>6, <2>1
  <1> QED BY <1>2, <1>3, <1>4, <1>6, <1>7, <1>8, <1>9 DEF Parted

\* A list with an entry more, taken apart where the list was.
PartedAlike(S, list, longer, p, n, m, x) ==
    /\ SubSeq(longer, 1, p) = SubSeq(list, 1, p)
    /\ SubSeq(longer, p + 1, m) = Append(SubSeq(list, p + 1, n), x)
    /\ SubSeq(list, 1, p) \in Seq(S) /\ SubSeq(list, p + 1, n) \in Seq(S)

LEMMA MoreParted ==
    ASSUME NEW S, NEW list \in Seq(S), NEW n \in Nat, n = Len(list), NEW p \in 0 .. n,
           NEW x \in S, NEW longer, longer = Append(list, x), NEW m \in Nat, m = n + 1
    PROVE  PartedAlike(S, list, longer, p, n, m, x)
  <1>1. /\ longer \in Seq(S) /\ Len(longer) = m /\ longer[m] = x
        /\ \A i \in 1 .. n : longer[i] = list[i]
    <2>1. Extends(S, n, list, x, longer)
      BY AppendExtends
    <2> QED BY <2>1 DEF Extends
  <1>2. PICK a, b : Parted(S, list, p, n, a, b) /\ a = SubSeq(list, 1, p) /\ b = SubSeq(list, p + 1, n)
    BY ListParted
  <1>3. m = Len(longer) /\ p \in 0 .. m
    BY <1>1
  <1>4. PICK c, d : Parted(S, longer, p, m, c, d) /\ c = SubSeq(longer, 1, p) /\ d = SubSeq(longer, p + 1, m)
    BY <1>1, <1>3, ListParted
  <1>5. c = a
    <2>1. c \in Seq(S) /\ a \in Seq(S) /\ Len(c) = p /\ Len(a) = p
      BY <1>2, <1>4 DEF Parted
    <2>2. ASSUME NEW i \in 1 .. p PROVE c[i] = a[i]
      <3>1. i \in 1 .. n
        OBVIOUS
      <3> QED BY <1>1, <1>2, <1>4, <3>1 DEF Parted
    <2> QED BY <2>1, <2>2, SeqEqual
  <1>6. PICK l \in Nat : l = n - p
    <2>1. n - p \in Nat
      OBVIOUS
    <2> QED BY <2>1
  <1>7. PICK e : e = Append(b, x)
    OBVIOUS
  <1>8. e \in Seq(S) /\ Len(e) = l + 1 /\ e[l + 1] = x /\ \A i \in 1 .. l : e[i] = b[i]
    <2>1. b \in Seq(S) /\ l = Len(b)
      BY <1>2, <1>6 DEF Parted
    <2>2. Extends(S, l, b, x, e)
      BY <1>7, <2>1, AppendExtends
    <2> QED BY <2>2 DEF Extends
  <1>9. d = e
    <2>1. d \in Seq(S) /\ Len(d) = l + 1
      BY <1>4, <1>6 DEF Parted
    <2>2. ASSUME NEW i \in 1 .. (l + 1) PROVE d[i] = e[i]
      <3>1. d[i] = longer[p + i]
        <4>1. i \in 1 .. (m - p)
          BY <1>6
        <4> QED BY <1>4, <4>1 DEF Parted
      <3>2. CASE i \in 1 .. l
        <4>1. p + i \in 1 .. n /\ i \in 1 .. (n - p)
          BY <1>6, <3>2
        <4>2. longer[p + i] = list[p + i]
          BY <1>1, <4>1
        <4>3. b[i] = list[p + i]
          BY <1>2, <4>1 DEF Parted
        <4> QED BY <1>8, <3>1, <3>2, <4>2, <4>3
      <3>3. CASE i = l + 1
        <4>1. p + i = m
          BY <1>6, <3>3
        <4> QED BY <1>1, <1>8, <3>1, <3>3, <4>1
      <3> QED BY <3>2, <3>3
    <2> QED BY <1>8, <2>1, <2>2, SeqEqual
  <1>10. a \in Seq(S) /\ b \in Seq(S)
    BY <1>2 DEF Parted
  <1> QED BY <1>2, <1>4, <1>5, <1>7, <1>9, <1>10 DEF PartedAlike

LEMMA ConcatOfMore ==
    ASSUME NEW S, NEW a \in Seq(S), NEW b \in Seq(S), NEW x \in S
    PROVE  a \o Append(b, x) = Append(a \o b, x)
  <1>1. Append(b, x) = b \o <<x>> /\ Append(a \o b, x) = (a \o b) \o <<x>>
    <2>1. a \o b \in Seq(S)
      BY ConcatProperties
    <2> QED BY <2>1, AppendIsConcat
  <1>2. <<x>> \in Seq(S)
    OBVIOUS
  <1> QED BY <1>1, <1>2, ConcatAssociative

LEMMA BuiltTwoFits ==
    ASSUME NEW source, NEW front, NEW a, NEW b, BuiltTwo(source, front, a, b),
           NextKind(a, KindOf(source, front)) = KindOf(source, front)
    PROVE  /\ WellBuilt(source, front) /\ Fits(a, KindOf(source, front))
           /\ Fits(b, KindOf(source, front))
  BY DEF BuiltTwo

\* Where a filter goes: to the end, or in front of the last operation if that is a selector.
LEMMA PushedOnNone ==
    ASSUME NEW op \in Operation
    PROVE  PushFilter(<<>>, op) = AppendFilter(<<>>, op)
  <1>1. PICK none \in Seq(Operation) : none = <<>> /\ Len(none) = 0
    BY EmptySeq
  <1>2. SettledEnd(none) = 0
    <2>1. PICK p \in 0 .. 0 : SettledEnd(none) = p
      BY <1>1, SettledFacts
    <2> QED BY <2>1
  <1>3. PICK a, b : Parted(Operation, none, 0, 0, a, b) /\ a = SubSeq(none, 1, 0) /\ b = SubSeq(none, 0 + 1, 0)
    <2>1. 0 = Len(none) /\ 0 \in Nat /\ 0 \in 0 .. 0
      BY <1>1
    <2>2. Parted(Operation, none, 0, 0, SubSeq(none, 1, 0), SubSeq(none, 0 + 1, 0))
      BY <2>1, ListParted
    <2> QED BY <2>2
  <1>4. a = none /\ b = none
    BY <1>1, <1>3, EmptySeq DEF Parted
  <1>5. PushFilter(none, op) =
            AppendFilter(SubSeq(none, 1, 0), op) \o SubSeq(none, 0 + 1, 0)
    BY <1>1, <1>2 DEF PushFilter, SettledEnd, Settled
  <1>6. AppendFilter(none, op) \in Seq(Operation)
    <2>1. AppendFilter(none, op) = Append(none, op)
      BY <1>1 DEF AppendFilter
    <2> QED BY <2>1, AppendType
  <1>7. AppendFilter(none, op) \o none = AppendFilter(none, op)
    BY <1>1, <1>6, ConcatEmptySeq
  <1> QED BY <1>1, <1>3, <1>4, <1>5, <1>7

LEMMA AppendFilterType ==
    ASSUME NEW ops \in Seq(Operation), NEW op \in Operation, IsWhere(op)
    PROVE  AppendFilter(ops, op) \in Seq(Operation)
  <1>1. CASE ~(ops # <<>> /\ IsWhere(Last(ops)))
    BY <1>1, AppendType DEF AppendFilter
  <1>2. CASE ops # <<>> /\ IsWhere(Last(ops))
    <2>1. PICK front \in Seq(Operation), last \in Operation : ops = Append(front, last)
      BY <1>2, HasLast
    <2>2. Front(ops) = front /\ Last(ops) = last
      BY <2>1, FrontAndLast
    <2>3. /\ last.predicates \in Seq(Predicate) /\ last.predicates # <<>>
          /\ op.predicates \in Seq(Predicate)
      BY <1>2, <2>2, OperationFacts DEF IsWhere
    <2>4. PICK both \in Seq(Predicate) : both = last.predicates \o op.predicates /\ both # <<>>
      <3>1. last.predicates \o op.predicates \in Seq(Predicate)
        BY <2>3, ConcatProperties
      <3>2. last.predicates \o op.predicates # <<>>
        BY <2>3, ConcatEqualIffEmpty
      <3> QED BY <3>1, <3>2
    <2>5. Where(both) \in Operation
      BY <2>4 DEF Where, Operation
    <2>6. AppendFilter(ops, op) = Append(front, Where(both))
      BY <1>2, <2>2, <2>4 DEF AppendFilter
    <2> QED BY <2>1, <2>5, <2>6, AppendType
  <1> QED BY <1>1, <1>2

LEMMA PushedOnMore ==
    ASSUME NEW ops \in Seq(Operation), NEW last \in Operation,
           NEW op \in Operation, IsWhere(op)
    PROVE  PushFilter(Append(ops, last), op) =
               IF last.kind \in Selectors THEN Append(PushFilter(ops, op), last)
               ELSE AppendFilter(Append(ops, last), op)
  <1>1. PICK n \in Nat : n = Len(ops)
    BY LenProperties
  <1>2. PICK m \in Nat : m = n + 1
    OBVIOUS
  <1>3. PICK longer : longer = Append(ops, last)
    OBVIOUS
  <1>4. longer \in Seq(Operation) /\ Len(longer) = m
    <2>1. Extends(Operation, n, ops, last, longer)
      BY <1>1, <1>3, AppendExtends
    <2> QED BY <1>2, <2>1 DEF Extends
  <1>5. PICK p \in 0 .. n : SettledEnd(ops) = p
    BY <1>1, SettledFacts
  <1>6. SettledEnd(longer) = IF last.kind \in Selectors THEN p ELSE m
    BY <1>1, <1>2, <1>3, <1>5, SettledOfMore
  <1>7. PushFilter(ops, op) = AppendFilter(SubSeq(ops, 1, p), op) \o SubSeq(ops, p + 1, n)
    BY <1>1, <1>5 DEF PushFilter, SettledEnd, Settled
  <1>8. CASE last.kind \in Selectors
    <2>1. PushFilter(longer, op) = AppendFilter(SubSeq(longer, 1, p), op) \o SubSeq(longer, p + 1, m)
      BY <1>4, <1>6, <1>8 DEF PushFilter, SettledEnd, Settled
    <2>2. /\ SubSeq(longer, 1, p) = SubSeq(ops, 1, p)
          /\ SubSeq(longer, p + 1, m) = Append(SubSeq(ops, p + 1, n), last)
          /\ SubSeq(ops, 1, p) \in Seq(Operation) /\ SubSeq(ops, p + 1, n) \in Seq(Operation)
      <3>1. PartedAlike(Operation, ops, longer, p, n, m, last)
        BY <1>1, <1>2, <1>3, MoreParted
      <3> QED BY <3>1 DEF PartedAlike
    <2>3. PICK before, after \in Seq(Operation) : before = SubSeq(ops, 1, p) /\ after = SubSeq(ops, p + 1, n)
      BY <2>2
    <2>4. PICK filtered \in Seq(Operation) : filtered = AppendFilter(before, op)
      BY AppendFilterType
    <2>5. filtered \o Append(after, last) = Append(filtered \o after, last)
      BY ConcatOfMore
    <2> QED BY <1>3, <1>7, <1>8, <2>1, <2>2, <2>3, <2>4, <2>5
  <1>9. CASE last.kind \notin Selectors
    <2>1. PushFilter(longer, op) = AppendFilter(SubSeq(longer, 1, m), op) \o SubSeq(longer, m + 1, m)
      BY <1>4, <1>6, <1>9 DEF PushFilter, SettledEnd, Settled
    <2>2. SubSeq(longer, 1, m) = longer
      BY <1>4, SubSeqFull
    <2>3. SubSeq(longer, m + 1, m) = <<>>
      <3>1. PICK j \in Int : j = m + 1 /\ m < j
        OBVIOUS
      <3>2. m \in Int
        OBVIOUS
      <3> QED BY <3>1, <3>2, SubSeqEmpty
    <2>4. AppendFilter(longer, op) \o <<>> = AppendFilter(longer, op)
      BY <1>4, AppendFilterType, ConcatEmptySeq
    <2> QED BY <1>3, <1>9, <2>1, <2>2, <2>3, <2>4
  <1> QED BY <1>8, <1>9

\* A filter goes in front of the selectors at the end without a change of the result.
PushedAlike(source, op, ops) ==
    WellBuilt(source, ops) /\ Fits(op, KindOf(source, ops))
        => Alike(source, PushFilter(ops, op), Append(ops, op))

LEMMA PushedFilter ==
    ASSUME NEW source \in Kinds, NEW op \in Operation, IsWhere(op), NEW ops \in Seq(Operation)
    PROVE  PushedAlike(source, op, ops)
  <1>1. PICK S : S = Seq(Operation)
    OBVIOUS
  <1> DEFINE T == {list \in S : PushedAlike(source, op, list)}
  <1> HIDE DEF T
  <1>2. <<>> \in T
    <2>1. PICK none \in Seq(Operation) : none = <<>>
      BY EmptySeq
    <2>2. PushFilter(none, op) = AppendFilter(none, op)
      BY <2>1, PushedOnNone
    <2>3. PushedAlike(source, op, none)
      BY <2>2, AppendedFilter DEF PushedAlike
    <2> QED BY <1>1, <2>1, <2>3 DEF T
  <1>3. ASSUME NEW list \in Seq(Operation), NEW last \in Operation, list \in T
        PROVE  Append(list, last) \in T
    <2>1. PushedAlike(source, op, list)
      BY <1>3 DEF T
    <2>2. PICK longer \in Seq(Operation) : longer = Append(list, last)
      BY AppendType
    <2>3. PushFilter(longer, op) = IF last.kind \in Selectors THEN Append(PushFilter(list, op), last)
                                   ELSE AppendFilter(longer, op)
      BY <2>2, PushedOnMore
    <2>4. ASSUME WellBuilt(source, longer), Fits(op, KindOf(source, longer))
          PROVE  Alike(source, PushFilter(longer, op), Append(longer, op))
      <3>1. CASE last.kind \notin Selectors
        <4>1. PushFilter(longer, op) = AppendFilter(longer, op)
          BY <2>3, <3>1
        <4> QED BY <2>4, <4>1, AppendedFilter
      <3>2. CASE last.kind \in Selectors
        <4>1. BuiltOfMore(source, list, last)
          BY BuiltByTurns
        <4>2. BuiltTwo(source, list, last, op)
          BY <2>2, <2>4, <4>1 DEF BuiltOfMore, BuiltTwo
        <4>3. Alike(source, Append(Append(list, op), last), Append(Append(list, last), op))
          BY <3>2, <4>2, SelectorAndFilter
        <4>4. NextKind(last, KindOf(source, list)) = KindOf(source, list)
          BY <3>2 DEF Selectors, NextKind
        <4>5. WellBuilt(source, list) /\ Fits(op, KindOf(source, list)) /\ Fits(last, KindOf(source, list))
          BY <4>2, <4>4, BuiltTwoFits
        <4>6. Alike(source, PushFilter(list, op), Append(list, op))
          BY <2>1, <4>5 DEF PushedAlike
        <4>7. PICK filtered \in Seq(Operation) : filtered = Append(list, op)
          BY AppendType
        <4>8. NextKind(op, KindOf(source, list)) = KindOf(source, list)
          BY NarrowingFacts DEF IsWhere
        <4>9. KindOf(source, filtered) = KindOf(source, list)
          <5>1. BuiltOfMore(source, list, op)
            BY BuiltByTurns
          <5> QED BY <4>7, <4>8, <5>1 DEF BuiltOfMore
        <4>10. Fits(last, KindOf(source, filtered))
          BY <4>5, <4>9
        <4>11. Alike(source, PushFilter(list, op), filtered)
          BY <4>6, <4>7
        <4>12. Alike(source, Append(PushFilter(list, op), last), Append(filtered, last))
          BY <4>10, <4>11, AlikeWithMore
        <4>13. PICK pushed : pushed = Append(PushFilter(list, op), last)
          OBVIOUS
        <4>14. Alike(source, pushed, Append(longer, op))
          <5>1. PICK between : between = Append(filtered, last)
            OBVIOUS
          <5>2. PICK whole : whole = Append(longer, op)
            OBVIOUS
          <5>3. Alike(source, pushed, between) /\ Alike(source, between, whole)
            BY <2>2, <4>3, <4>7, <4>12, <4>13, <5>1, <5>2
          <5> QED BY <5>2, <5>3, AlikeBoth
        <4> QED BY <2>3, <3>2, <4>13, <4>14
      <3> QED BY <3>1, <3>2
    <2>5. PushedAlike(source, op, longer)
      BY <2>4 DEF PushedAlike
    <2> QED BY <1>1, <2>2, <2>5 DEF T
  <1>4. ops \in T
    BY <1>2, <1>3, ListInduction
  <1> QED BY <1>4 DEF T

\* append_optimizer.
LEMMA AppendedOptimized ==
    ASSUME NEW source \in Kinds, NEW ops \in Seq(Operation), WellBuilt(source, ops),
           NEW op \in Operation, Fits(op, KindOf(source, ops))
    PROVE  Alike(source, AppendOptimized(ops, op), Append(ops, op))
  <1>1. CASE op.kind = "limit" /\ ops # <<>> /\ Last(ops).kind = "limit"
    <2>1. PICK front \in Seq(Operation), last \in Operation : ops = Append(front, last)
      BY <1>1, HasLast
    <2>2. Front(ops) = front /\ Last(ops) = last
      BY <2>1, FrontAndLast
    <2>3. BuiltOfMore(source, front, last)
      BY BuiltByTurns
    <2>4. BuiltTwo(source, front, last, op)
      BY <2>1, <2>3 DEF BuiltOfMore, BuiltTwo
    <2>5. AppendOptimized(ops, op) = Append(front, Limit(Min({last.count, op.count})))
      BY <1>1, <2>2 DEF AppendOptimized, IsWhere
    <2>6. Alike(source, Append(front, Limit(Min({last.count, op.count}))),
                        Append(Append(front, last), op))
      BY <1>1, <2>2, <2>4, FusedLimits
    <2> QED BY <2>1, <2>5, <2>6
  <1>2. CASE IsWhere(op) /\ Len(op.predicates) = 1
    <2>1. AppendOptimized(ops, op) = PushFilter(ops, op)
      BY <1>2 DEF AppendOptimized, IsWhere
    <2> QED BY <1>2, <2>1, PushedFilter DEF PushedAlike
  <1>3. CASE /\ ~(op.kind = "limit" /\ ops # <<>> /\ Last(ops).kind = "limit")
             /\ ~(IsWhere(op) /\ Len(op.predicates) = 1)
    <2>1. AppendOptimized(ops, op) = Append(ops, op)
      BY <1>3 DEF AppendOptimized
    <2>2. Append(ops, op) \in Seq(Operation)
      BY AppendType
    <2>3. BuiltOfMore(source, ops, op)
      BY BuiltByTurns
    <2>4. WellBuilt(source, Append(ops, op))
      BY <2>3 DEF BuiltOfMore
    <2>5. Alike(source, Append(ops, op), Append(ops, op))
      BY <2>2, <2>4, AlikeItself
    <2> QED BY <2>1, <2>5
  <1> QED BY <1>1, <1>2, <1>3

-----------------------------------------------------------------------------
(* Normalize, the loop of append_optimizer over the operations of a query. *)

OptimizeTurn(q, f, i) == AppendOptimized(f[i - 1], q.ops[i])

OptimizesBy(q, n, f) ==
    /\ f[0] = <<>>
    /\ \A i \in 1 .. n : f[i] = OptimizeTurn(q, f, i)

\* There is such an f, however many operations there are.
LEMMA OptimizingEnds ==
    ASSUME NEW q, NEW n \in Nat
    PROVE  \E f : f = [i \in 0 .. n |-> f[i]] /\ OptimizesBy(q, n, f)
  <1> DEFINE Goes(k) == \E f : f = [i \in 0 .. k |-> f[i]] /\ OptimizesBy(q, k, f)
  <1>1. Goes(0)
    <2> DEFINE first == [i \in 0 .. 0 |-> <<>>]
    <2>1. first = [i \in 0 .. 0 |-> first[i]] /\ first[0] = <<>>
      OBVIOUS
    <2>2. \A i \in 1 .. 0 : FALSE
      OBVIOUS
    <2> HIDE DEF first
    <2> QED BY <2>1, <2>2 DEF OptimizesBy
  <1>2. ASSUME NEW k \in Nat, Goes(k) PROVE Goes(k + 1)
    <2>1. PICK f : f = [i \in 0 .. k |-> f[i]] /\ OptimizesBy(q, k, f)
      BY <1>2
    <2>2. PICK m : m = k + 1
      OBVIOUS
    <2>3. PICK next : next = OptimizeTurn(q, f, m)
      OBVIOUS
    <2> DEFINE h == [i \in 0 .. m |-> IF i = m THEN next ELSE f[i]]
    <2>4. h = [i \in 0 .. m |-> h[i]]
      OBVIOUS
    <2>5. \A i \in 0 .. k : h[i] = f[i]
      BY <2>2
    <2>6. h[m] = next
      BY <2>2
    <2> HIDE DEF h
    <2>7. h[0] = <<>>
      <3>1. 0 \in 0 .. k
        OBVIOUS
      <3> QED BY <2>1, <2>5, <3>1 DEF OptimizesBy
    <2>8. ASSUME NEW i \in 1 .. m PROVE h[i] = OptimizeTurn(q, h, i)
      <3>1. i - 1 \in 0 .. k
        BY <2>2
      <3>2. h[i - 1] = f[i - 1]
        BY <2>5, <3>1
      <3>3. OptimizeTurn(q, h, i) = OptimizeTurn(q, f, i)
        BY <3>2 DEF OptimizeTurn
      <3>4. CASE i = m
        BY <2>3, <2>6, <3>3, <3>4
      <3>5. CASE i # m
        <4>1. i \in 1 .. k /\ i \in 0 .. k
          BY <2>2, <3>5
        <4> QED BY <2>1, <2>5, <3>3, <4>1 DEF OptimizesBy
      <3> QED BY <3>4, <3>5
    <2>9. OptimizesBy(q, m, h)
      BY <2>7, <2>8 DEF OptimizesBy
    <2>10. Goes(m)
      BY <2>4, <2>9
    <2> QED BY <2>2, <2>10
  <1> HIDE DEF Goes
  <1> DEFINE T == {k \in Nat : Goes(k)}
  <1>3. 0 \in T /\ \A k \in Nat : k \in T => k + 1 \in T
    BY <1>1, <1>2
  <1> HIDE DEF T
  <1>4. n \in T
    BY <1>3, Induction
  <1>5. Goes(n)
    BY <1>4 DEF T
  <1> QED BY <1>5 DEF Goes

\* The loop of Normalize is one.
LEMMA NormalizeByTurns ==
    ASSUME NEW q, NEW n \in Nat, n = Len(q.ops)
    PROVE  \E f : OptimizesBy(q, n, f) /\ Normalize(q) = [q EXCEPT !.ops = f[n]]
  <1> DEFINE Turn(f) == [i \in 0 .. Len(q.ops) |->
                             IF i = 0 THEN <<>>
                             ELSE AppendOptimized(f[i - 1], q.ops[i])]
             loop == CHOOSE f : f = Turn(f)
  <1>1. Normalize(q) = [q EXCEPT !.ops = loop[n]]
    BY DEF Normalize
  <1>2. \A f : Turn(f) = [i \in 0 .. n |-> Turn(f)[i]]
    OBVIOUS
  <1>3. \A f : Turn(f)[0] = <<>>
    OBVIOUS
  <1>4. ASSUME NEW f, NEW i \in 1 .. n PROVE Turn(f)[i] = OptimizeTurn(q, f, i)
    <2>1. i \in 0 .. n /\ i # 0
      OBVIOUS
    <2> QED BY <2>1 DEF OptimizeTurn
  <1> HIDE DEF Turn
  <1>5. PICK f : f = [i \in 0 .. n |-> f[i]] /\ OptimizesBy(q, n, f)
    <2> HIDE DEF loop
    <2> QED BY OptimizingEnds
  <1>6. f = Turn(f)
    <2>1. ASSUME NEW i \in 0 .. n PROVE f[i] = Turn(f)[i]
      <3>1. CASE i = 0
        BY <1>3, <1>5, <3>1 DEF OptimizesBy
      <3>2. CASE i # 0
        <4>1. i \in 1 .. n
          BY <3>2
        <4> QED BY <1>4, <1>5, <4>1 DEF OptimizesBy
      <3> QED BY <3>1, <3>2
    <2> QED BY <1>2, <1>5, <2>1
  <1>7. loop = Turn(loop)
    BY <1>6
  <1> HIDE DEF loop
  <1>8. OptimizesBy(q, n, loop)
    BY <1>3, <1>4, <1>7 DEF OptimizesBy
  <1> QED BY <1>1, <1>8

\* Every loop over the operations ends with operations that are alike.
Optimizes(q, source, ops, n, f) ==
    /\ n = Len(ops) /\ OptimizesBy(q, n, f)
    /\ \A i \in 1 .. n : q.ops[i] = ops[i]
    /\ WellBuilt(source, ops)

AlikeAtEnd(source, ops) ==
    \A q, n, f : Optimizes(q, source, ops, n, f) => Alike(source, f[n], ops)

LEMMA OptimizedIsAlike ==
    ASSUME NEW source \in Kinds, NEW ops \in Seq(Operation)
    PROVE  AlikeAtEnd(source, ops)
  <1>1. PICK S : S = Seq(Operation)
    OBVIOUS
  <1> DEFINE T == {list \in S : AlikeAtEnd(source, list)}
  <1> HIDE DEF T
  <1>2. <<>> \in T
    <2>1. PICK none \in Seq(Operation) : none = <<>> /\ Len(none) = 0
      BY EmptySeq
    <2>2. WellBuilt(source, none)
      BY <2>1, NothingBuilt
    <2>3. Alike(source, none, none)
      BY <2>2, AlikeItself
    <2>4. ASSUME NEW q, NEW n, NEW f, Optimizes(q, source, none, n, f)
          PROVE  Alike(source, f[n], none)
      <3>1. f[n] = none
        BY <2>1, <2>4 DEF Optimizes, OptimizesBy
      <3> QED BY <2>3, <3>1
    <2>5. AlikeAtEnd(source, none)
      BY <2>4 DEF AlikeAtEnd
    <2> QED BY <1>1, <2>1, <2>5 DEF T
  <1>3. ASSUME NEW list \in Seq(Operation), NEW op \in Operation, list \in T
        PROVE  Append(list, op) \in T
    <2>1. AlikeAtEnd(source, list)
      BY <1>3 DEF T
    <2>2. PICK n \in Nat : n = Len(list)
      BY LenProperties
    <2>3. PICK m \in Nat : m = n + 1
      OBVIOUS
    <2>4. PICK longer : longer = Append(list, op)
      OBVIOUS
    <2>5. /\ longer \in Seq(Operation) /\ Len(longer) = m /\ longer[m] = op
          /\ \A i \in 1 .. n : longer[i] = list[i]
      <3>1. Extends(Operation, n, list, op, longer)
        BY <2>2, <2>4, AppendExtends
      <3> QED BY <2>3, <3>1 DEF Extends
    <2>6. ASSUME NEW q, NEW l, NEW f, Optimizes(q, source, longer, l, f)
          PROVE  Alike(source, f[l], longer)
      <3>1. /\ l = m /\ OptimizesBy(q, m, f) /\ \A i \in 1 .. m : q.ops[i] = longer[i]
            /\ WellBuilt(source, longer)
        BY <2>5, <2>6 DEF Optimizes
      <3>2. \A i \in 1 .. n : i \in 1 .. m
        BY <2>3
      <3>3. m \in 1 .. m /\ m - 1 = n
        BY <2>3
      <3>4. OptimizesBy(q, n, f)
        BY <3>1, <3>2 DEF OptimizesBy
      <3>5. \A i \in 1 .. n : q.ops[i] = list[i]
        BY <2>5, <3>1, <3>2
      <3>6. BuiltOfMore(source, list, op)
        BY BuiltByTurns
      <3>7. WellBuilt(source, list) /\ Fits(op, KindOf(source, list))
        BY <2>4, <3>1, <3>6 DEF BuiltOfMore
      <3>8. PICK before : before = f[n]
        OBVIOUS
      <3>9. Alike(source, before, list)
        <4>1. Optimizes(q, source, list, n, f)
          BY <2>2, <3>4, <3>5, <3>7 DEF Optimizes
        <4> QED BY <2>1, <3>8, <4>1 DEF AlikeAtEnd
      <3>10. before \in Seq(Operation) /\ WellBuilt(source, before) /\ Fits(op, KindOf(source, before))
        BY <3>7, <3>9 DEF Alike
      <3>11. f[m] = AppendOptimized(before, op)
        BY <2>5, <3>1, <3>3, <3>8 DEF OptimizesBy, OptimizeTurn
      <3>12. PICK between : between = Append(before, op)
        OBVIOUS
      <3>13. Alike(source, f[m], between)
        BY <3>10, <3>11, <3>12, AppendedOptimized
      <3>14. Alike(source, between, longer)
        BY <2>4, <3>7, <3>9, <3>12, AlikeWithMore
      <3>15. Alike(source, f[m], longer)
        BY <3>13, <3>14, AlikeBoth
      <3> QED BY <3>1, <3>15
    <2>7. AlikeAtEnd(source, longer)
      BY <2>6 DEF AlikeAtEnd
    <2> QED BY <1>1, <2>4, <2>5, <2>7 DEF T
  <1>4. ops \in T
    BY <1>2, <1>3, ListInduction
  <1> QED BY <1>4 DEF T

\* optimize.
LEMMA NormalizedIsAlike ==
    ASSUME NEW source \in Kinds, NEW ops \in Seq(Operation), WellBuilt(source, ops)
    PROVE  \E better : /\ Normalize(QueryOf(source, ops)) = QueryOf(source, better)
                       /\ Alike(source, better, ops)
  <1>1. PICK n \in Nat : n = Len(ops)
    BY LenProperties
  <1>2. PICK q : q = QueryOf(source, ops)
    OBVIOUS
  <1>3. q.source = source /\ q.ops = ops
    BY <1>2 DEF QueryOf
  <1>4. PICK f : OptimizesBy(q, n, f) /\ Normalize(q) = [q EXCEPT !.ops = f[n]]
    <2>1. n = Len(q.ops)
      BY <1>1, <1>3
    <2> QED BY <2>1, NormalizeByTurns
  <1>5. Alike(source, f[n], ops)
    <2>1. Optimizes(q, source, ops, n, f)
      BY <1>1, <1>3, <1>4 DEF Optimizes
    <2> QED BY <2>1, OptimizedIsAlike DEF AlikeAtEnd
  <1>6. \A x : [q EXCEPT !.ops = x] = QueryOf(source, x)
    BY <1>2 DEF QueryOf
  <1> QED BY <1>2, <1>4, <1>5, <1>6

-----------------------------------------------------------------------------
(* What holds of every query that can be built, optimized and built on. *)

\* What materialize reads of the nodes found.
ColumnsShown(k, keys) == {<<k, key>> : key \in Range(keys)}

\* The query is built right, and what it projects is the projection, is there and is read.
QueryInvariant ==
    /\ graph \in Graphs
    /\ \E source \in Kinds, ops \in Seq(Operation) :
           query = QueryOf(source, ops) /\ WellBuilt(source, ops)
    /\ projection \in Seq(KeysOf[CurrentKind])
    /\ Projects(query.ops) \subseteq {projection}
    /\ ColumnsShown(CurrentKind, projection) \subseteq Reads(query.source, query.ops)

\* The same of the next state, its query spelled out.
LEMMA QueryInvariantOf ==
    ASSUME NEW source \in Kinds, NEW ops \in Seq(Operation), query = QueryOf(source, ops)
    PROVE  /\ query.source = source /\ query.ops = ops /\ CurrentKind = KindOf(source, ops)
           /\ QueryInvariant <=> /\ graph \in Graphs
                                 /\ \E s \in Kinds, o \in Seq(Operation) :
                                        query = QueryOf(s, o) /\ WellBuilt(s, o)
                                 /\ projection \in Seq(KeysOf[KindOf(source, ops)])
                                 /\ Projects(ops) \subseteq {projection}
                                 /\ ColumnsShown(KindOf(source, ops), projection) \subseteq
                                        Reads(source, ops)
  <1>1. query.source = source /\ query.ops = ops
    BY DEF QueryOf
  <1>2. CurrentKind = KindOf(source, ops)
    BY <1>1 DEF CurrentKind, KindOf
  <1> QED BY <1>1, <1>2 DEF QueryInvariant

\* An empty query projects nothing, and an empty projection shows nothing.
LEMMA NothingProjected ==
    /\ Projects(<<>>) = {}
    /\ \A k : ColumnsShown(k, <<>>) = {}
  BY DEF Projects, ColumnsShown, Range

\* Before anything is piped.
LEMMA QueryInvariantAtStart ==
    QueryInit => QueryInvariant
  <1> SUFFICES ASSUME QueryInit PROVE QueryInvariant
    OBVIOUS
  <1>1. graph \in Graphs /\ query \in [source : Kinds, ops : {<<>>}] /\ projection = <<>>
    BY DEF QueryInit
  <1>2. PICK none \in Seq(Operation) : none = <<>>
    BY EmptySeq
  <1>3. PICK source \in Kinds : query = QueryOf(source, none)
    BY <1>1, <1>2 DEF QueryOf
  <1>4. WellBuilt(source, none)
    BY <1>2, NothingBuilt
  <1>5. projection \in Seq(KeysOf[KindOf(source, none)])
    BY <1>1, EmptySeq
  <1>6. Projects(none) \subseteq {projection}
    BY <1>2, NothingProjected
  <1>7. ColumnsShown(KindOf(source, none), projection) = {}
    BY <1>1, NothingProjected
  <1> QED BY <1>1, <1>3, <1>4, <1>5, <1>6, <1>7, QueryInvariantOf

\* What operator| asserts of an operation is what the operation needs.
LEMMA PipedFits ==
    ASSUME NEW op \in Operation, CanPipe(op)
    PROVE  Fits(op, CurrentKind)
  BY DEF CanPipe, QueryHasProperty, Fits

\* A projection is not empty.
LEMMA ProjectsSomething ==
    ASSUME NEW ops \in Seq(Operation)
    PROVE  <<>> \notin Projects(ops)
  <1> SUFFICES ASSUME <<>> \in Projects(ops) PROVE FALSE
    OBVIOUS
  <1>1. PICK i \in 1 .. Len(ops) : ops[i].kind = "project" /\ ops[i].keys = <<>>
    BY DEF Projects
  <1>2. ops[i] \in Operation
    BY ElementOfSeq
  <1>3. ops[i].keys # <<>>
    BY <1>1, <1>2, OperationFacts
  <1> QED BY <1>1, <1>3

\* The state that piping and optimizing lead to.
LEMMA QueryInvariantNext ==
    ASSUME NEW source \in Kinds, NEW ops \in Seq(Operation), query' = QueryOf(source, ops),
           WellBuilt(source, ops), graph' \in Graphs,
           projection' \in Seq(KeysOf[KindOf(source, ops)]), Projects(ops) \subseteq {projection'},
           ColumnsShown(KindOf(source, ops), projection') \subseteq Reads(source, ops)
    PROVE  QueryInvariant'
  <1>1. query'.source = source /\ query'.ops = ops
    BY DEF QueryOf
  <1>2. CurrentKind' = KindOf(source, ops)
    BY <1>1 DEF CurrentKind, KindOf
  <1> QED BY <1>1, <1>2 DEF QueryInvariant

LEMMA PipeKeepsInvariant ==
    ASSUME QueryInvariant, NEW op \in Operations, Pipe(op)
    PROVE  QueryInvariant'
  <1>1. op \in Operation
    BY OperationAssumption
  <1>2. PICK source \in Kinds, ops \in Seq(Operation) : query = QueryOf(source, ops) /\ WellBuilt(source, ops)
    BY DEF QueryInvariant
  <1>3. PICK k : k = KindOf(source, ops)
    OBVIOUS
  <1>4. /\ query.source = source /\ query.ops = ops /\ CurrentKind = k
        /\ graph \in Graphs /\ projection \in Seq(KeysOf[k]) /\ Projects(ops) \subseteq {projection}
        /\ ColumnsShown(k, projection) \subseteq Reads(source, ops)
    BY <1>2, <1>3, QueryInvariantOf
  <1>5. /\ CanPipe(op) /\ query' = [query EXCEPT !.ops = Append(@, op)] /\ graph' = graph
        /\ projection' = IF op.kind = "project" THEN op.keys ELSE projection
    BY DEF Pipe
  <1>6. PICK longer \in Seq(Operation) : longer = Append(ops, op)
    BY <1>1, AppendType
  <1>7. query' = QueryOf(source, longer)
    BY <1>2, <1>5, <1>6 DEF QueryOf
  <1>8. Fits(op, k)
    BY <1>1, <1>4, <1>5, PipedFits
  <1>9. WellBuilt(source, longer) /\ KindOf(source, longer) = NextKind(op, k)
    <2>1. BuiltOfMore(source, ops, op)
      BY <1>1, BuiltByTurns
    <2> QED BY <1>2, <1>3, <1>6, <1>8, <2>1 DEF BuiltOfMore
  <1>10. Projects(longer) = Projects(ops) \cup ProjectsOf(op)
    BY <1>1, <1>6, ProjectsOfMore
  <1>11. Reads(source, longer) = Reads(source, ops) \cup ReadsOf(k, op)
    BY <1>1, <1>3, <1>6, ReadsOfMore
  <1>12. /\ projection' \in Seq(KeysOf[NextKind(op, k)]) /\ Projects(longer) \subseteq {projection'}
         /\ ColumnsShown(NextKind(op, k), projection') \subseteq Reads(source, longer)
    <2>1. CASE op.kind = "project"
      <3>1. projection = <<>> /\ Range(op.keys) \subseteq KeysOf[k]
        BY <1>4, <1>5, <2>1 DEF CanPipe
      <3>2. projection' = op.keys
        BY <1>5, <2>1
      <3>3. op.keys \in Seq(Keys)
        BY <1>1, <2>1, OperationFacts
      <3>4. ASSUME NEW i \in 1 .. Len(op.keys) PROVE op.keys[i] \in KeysOf[k]
        <4>1. i \in DOMAIN op.keys
          BY <3>3, LenProperties
        <4> QED BY <3>1, <4>1 DEF Range
      <3>5. op.keys \in Seq(KeysOf[k])
        BY <3>3, <3>4, ListOfEntries
      <3>6. NextKind(op, k) = k /\ ProjectsOf(op) = {op.keys}
        BY <2>1 DEF NextKind, ProjectsOf
      <3>7. Projects(ops) = {}
        BY <1>4, <3>1, ProjectsSomething
      <3>8. ColumnsShown(k, op.keys) \subseteq ReadsOf(k, op)
        <4> SUFFICES ASSUME NEW key \in Range(op.keys) PROVE <<k, key>> \in ReadsOf(k, op)
          BY DEF ColumnsShown
        <4>1. PICK i \in 1 .. Len(op.keys) : key = op.keys[i]
          BY <3>3, LenProperties DEF Range
        <4>2. k \in Kinds
          BY <1>3, KindOfType
        <4> QED BY <1>1, <2>1, <4>1, <4>2, ListOfColumns
      <3> QED BY <1>10, <1>11, <3>2, <3>5, <3>6, <3>7, <3>8
    <2>2. CASE op.kind = "traverse"
      <3>1. projection = <<>> /\ projection' = projection
        BY <1>5, <2>2 DEF CanPipe
      <3>2. ProjectsOf(op) = {}
        BY <2>2 DEF ProjectsOf
      <3>3. projection' \in Seq(KeysOf[NextKind(op, k)])
        BY <3>1, EmptySeq
      <3>4. ColumnsShown(NextKind(op, k), projection') = {}
        BY <3>1, NothingProjected
      <3> QED BY <1>4, <1>10, <3>1, <3>2, <3>3, <3>4
    <2>3. CASE op.kind \notin {"project", "traverse"}
      <3>1. projection' = projection /\ NextKind(op, k) = k /\ ProjectsOf(op) = {}
        BY <1>5, <2>3 DEF NextKind, ProjectsOf
      <3> QED BY <1>4, <1>10, <1>11, <3>1
    <2> QED BY <2>1, <2>2, <2>3
  <1>13. /\ projection' \in Seq(KeysOf[KindOf(source, longer)])
         /\ ColumnsShown(KindOf(source, longer), projection') \subseteq Reads(source, longer)
    BY <1>9, <1>12
  <1> QED BY <1>4, <1>5, <1>7, <1>9, <1>12, <1>13, QueryInvariantNext

LEMMA OptimizeKeepsInvariant ==
    ASSUME QueryInvariant, Optimize
    PROVE  QueryInvariant'
  <1>1. PICK source \in Kinds, ops \in Seq(Operation) : query = QueryOf(source, ops) /\ WellBuilt(source, ops)
    BY DEF QueryInvariant
  <1>2. /\ graph \in Graphs /\ projection \in Seq(KeysOf[KindOf(source, ops)])
        /\ Projects(ops) \subseteq {projection}
        /\ ColumnsShown(KindOf(source, ops), projection) \subseteq Reads(source, ops)
    BY <1>1, QueryInvariantOf
  <1>3. PICK better : Normalize(query) = QueryOf(source, better) /\ Alike(source, better, ops)
    BY <1>1, NormalizedIsAlike
  <1>4. /\ better \in Seq(Operation) /\ WellBuilt(source, better)
        /\ KindOf(source, better) = KindOf(source, ops) /\ Projects(better) \subseteq Projects(ops)
        /\ Reads(source, ops) \subseteq Reads(source, better)
    BY <1>3 DEF Alike
  <1>5. query' = QueryOf(source, better) /\ graph' = graph /\ projection' = projection
    BY <1>3 DEF Optimize
  <1>6. /\ projection' \in Seq(KeysOf[KindOf(source, better)]) /\ graph' \in Graphs
        /\ Projects(better) \subseteq {projection'}
        /\ ColumnsShown(KindOf(source, better), projection') \subseteq Reads(source, better)
    BY <1>2, <1>4, <1>5
  <1> QED BY <1>4, <1>5, <1>6, QueryInvariantNext

\* Whatever is piped, and wherever it is optimized in between, a query stays built right
\* (dsl.hpp's operator| and optimizer.hpp's normalize): every operation finds the
\* properties and the kind of node that it asks for, and what is projected is there.
THEOREM QueryIsWellBuilt == QuerySpec => []QueryInvariant
  <1>1. QueryInit => QueryInvariant
    BY QueryInvariantAtStart
  <1>2. QueryInvariant /\ [QueryNext]_queryVars => QueryInvariant'
    <2> SUFFICES ASSUME QueryInvariant, [QueryNext]_queryVars PROVE QueryInvariant'
      OBVIOUS
    <2>1. CASE Optimize
      BY <2>1, OptimizeKeepsInvariant
    <2>2. ASSUME NEW op \in Operations, Pipe(op) PROVE QueryInvariant'
      BY <2>2, PipeKeepsInvariant
    <2>3. CASE UNCHANGED queryVars
      <3>1. graph' = graph /\ query' = query /\ projection' = projection
        BY <2>3 DEF queryVars
      <3>2. CurrentKind' = CurrentKind
        BY <3>1 DEF CurrentKind
      <3> QED BY <3>1, <3>2 DEF QueryInvariant
    <2> QED BY <2>1, <2>2, <2>3 DEF QueryNext
  <1> QED BY <1>1, <1>2, PTL DEF QuerySpec

\* Piping and optimizing agree on what a query projects, and a filter always has a
\* predicate (dsl.hpp's projection type next to the expression type).
THEOREM QueryTypeCorrect == QuerySpec => []QueryTypeOK
  <1>1. QueryInvariant => QueryTypeOK
    <2> SUFFICES ASSUME QueryInvariant PROVE QueryTypeOK
      OBVIOUS
    <2>1. PICK source \in Kinds, ops \in Seq(Operation) : query = QueryOf(source, ops) /\ WellBuilt(source, ops)
      BY DEF QueryInvariant
    <2>2. query.source \in Kinds /\ query.ops = ops
      BY <2>1, QueryInvariantOf
    <2>3. /\ graph \in Graphs /\ projection \in Seq(KeysOf[CurrentKind])
          /\ Projects(ops) \subseteq {projection}
      BY <2>2 DEF QueryInvariant
    <2>4. ASSUME NEW i \in 1 .. Len(ops)
          PROVE  /\ IsWhere(ops[i]) => ops[i].predicates \in Seq(Predicate) \ {<<>>}
                 /\ ops[i].kind = "project" => projection = ops[i].keys
      <3>1. ops[i] \in Operation
        BY ElementOfSeq
      <3>2. IsWhere(ops[i]) => ops[i].predicates \in Seq(Predicate) \ {<<>>}
        BY <3>1, OperationFacts DEF IsWhere
      <3>3. ops[i].kind = "project" => ops[i].keys \in Projects(ops)
        BY DEF Projects
      <3> QED BY <2>3, <3>2, <3>3
    <2> QED BY <2>2, <2>3, <2>4 DEF QueryTypeOK
  <1> QED BY <1>1, QueryIsWellBuilt, PTL

\* Whichever predicates executor.hpp looks up in the property index, a query has the
\* result of a scan: the same ids in the same order and as often, and the same error.
THEOREM LookupsStayInvisible == QuerySpec => []LookupsAreInvisible
  <1>1. QueryInvariant => LookupsAreInvisible
    <2> SUFFICES ASSUME QueryInvariant, NEW lookups
                 PROVE  Execute(graph, query, projection, lookups) = Execute(graph, query, projection, {})
      BY DEF LookupsAreInvisible
    <2>1. PICK source \in Kinds, ops \in Seq(Operation) : query = QueryOf(source, ops) /\ WellBuilt(source, ops)
      BY DEF QueryInvariant
    <2>2. graph \in Graphs
      BY DEF QueryInvariant
    <2>3. PICK none : none = {}
      OBVIOUS
    <2>4. Evaluate(graph, query, lookups) = Evaluate(graph, query, none)
      BY <2>1, <2>2, <2>3, QueryOutcome DEF Scan
    <2>5. Execute(graph, query, projection, lookups) = Execute(graph, query, projection, none)
      BY <2>4 DEF Execute
    <2> QED BY <2>3, <2>5
  <1> QED BY <1>1, QueryIsWellBuilt, PTL

\* optimizer.hpp's normalize leaves the result of every query as it is, the errors of
\* mismatching selectors included, also when the query goes on from an optimized one.
THEOREM OptimizedStaysEquivalent == QuerySpec => []OptimizedIsEquivalent
  <1>1. QueryInvariant => OptimizedIsEquivalent
    <2> SUFFICES ASSUME QueryInvariant PROVE OptimizedIsEquivalent
      OBVIOUS
    <2>1. PICK source \in Kinds, ops \in Seq(Operation) : query = QueryOf(source, ops) /\ WellBuilt(source, ops)
      BY DEF QueryInvariant
    <2>2. graph \in Graphs
      BY DEF QueryInvariant
    <2>3. PICK better : Normalize(query) = QueryOf(source, better) /\ Alike(source, better, ops)
      BY <2>1, NormalizedIsAlike
    <2>4. PICK q : q = Normalize(query)
      OBVIOUS
    <2>5. Evaluate(graph, q, {}) = Evaluate(graph, query, {})
      BY <2>1, <2>2, <2>3, <2>4 DEF Alike, Scan
    <2>6. KindAfter(q, Len(q.ops)) = KindAfter(query, Len(query.ops))
      <3>1. q.ops = better /\ query.ops = ops
        BY <2>1, <2>3, <2>4 DEF QueryOf
      <3> QED BY <2>1, <2>3, <2>4, <3>1 DEF Alike, KindOf
    <2>7. Execute(graph, q, projection, {}) = Execute(graph, query, projection, {})
      BY <2>5, <2>6 DEF Execute
    <2> QED BY <2>4, <2>7 DEF OptimizedIsEquivalent
  <1> QED BY <1>1, QueryIsWellBuilt, PTL

\* executor.hpp fails on a selector that disagrees with the snapshot and on nothing else,
\* and what it returns can be read and traversed from.
THEOREM SelectorsAloneFail == QuerySpec => []OnlySelectorsFail
  <1>1. QueryInvariant => OnlySelectorsFail
    <2> SUFFICES ASSUME QueryInvariant PROVE OnlySelectorsFail
      OBVIOUS
    <2>1. PICK source \in Kinds, ops \in Seq(Operation) : query = QueryOf(source, ops) /\ WellBuilt(source, ops)
      BY DEF QueryInvariant
    <2>2. graph \in Graphs
      BY DEF QueryInvariant
    <2>3. query.ops = ops /\ CurrentKind = KindOf(source, ops)
      BY <2>1, QueryInvariantOf
    <2>4. PICK k : k = KindOf(source, ops)
      OBVIOUS
    <2>5. PICK r : r = Evaluate(graph, query, {})
      OBVIOUS
    <2>6. Outcome(graph, k, r) /\ (r.error # NoError <=> Mismatch(graph, ops))
      BY <2>1, <2>2, <2>4, <2>5, QueryOutcome DEF Scan
    <2>7. Readable(graph, k, r.ids)
      <3>1. CASE \E ids \in Seq(VisibleIds(graph, k)) : r = Ok(ids)
        <4>1. PICK ids \in Seq(VisibleIds(graph, k)) : r = Ok(ids)
          BY <3>1
        <4>2. r.ids = ids
          BY <4>1, ResultFacts
        <4>3. Readable(graph, k, ids)
          BY ReadableIds
        <4> QED BY <4>2, <4>3
      <3>2. CASE \E error \in {"conflict", "worldline_mismatch"} : r = Fail(error)
        <4>1. r.ids = <<>>
          BY <3>2 DEF Fail
        <4>2. Len(r.ids) = 0
          BY <4>1, EmptySeq
        <4> QED BY <4>2 DEF Readable
      <3> QED BY <2>6, <3>1, <3>2 DEF Outcome
    <2> QED BY <2>3, <2>4, <2>5, <2>6, <2>7 DEF OnlySelectorsFail, Mismatch
  <1> QED BY <1>1, QueryIsWellBuilt, PTL

\* The columns that optimizer.hpp's required_columns reports of the optimized query are
\* all that the execution of the query reads, as written and as optimized.
THEOREM ColumnsStaySufficient == QuerySpec => []RequiredColumnsSuffice
  <1>1. QueryInvariant => RequiredColumnsSuffice
    <2> SUFFICES ASSUME QueryInvariant PROVE RequiredColumnsSuffice
      OBVIOUS
    <2>1. PICK source \in Kinds, ops \in Seq(Operation) : query = QueryOf(source, ops) /\ WellBuilt(source, ops)
      BY DEF QueryInvariant
    <2>2. PICK k : k = KindOf(source, ops)
      OBVIOUS
    <2>3. /\ graph \in Graphs /\ projection \in Seq(KeysOf[k])
          /\ ColumnsShown(k, projection) \subseteq Reads(source, ops)
      BY <2>1, <2>2, QueryInvariantOf
    <2>4. PICK better : Normalize(query) = QueryOf(source, better) /\ Alike(source, better, ops)
      BY <2>1, NormalizedIsAlike
    <2>5. PICK needed : needed = Range(RequiredColumns(QueryOf(source, better)))
      OBVIOUS
    <2>6. Reads(source, ops) \subseteq needed
      <3>1. better \in Seq(Operation) /\ Reads(source, ops) \subseteq Reads(source, better)
        BY <2>4 DEF Alike
      <3>2. Reads(source, better) \subseteq needed
        BY <2>5, <3>1, RequiredColumnsHaveAll
      <3> QED BY <3>1, <3>2
    <2>7. \A key \in Range(projection) : <<k, key>> \in needed
      BY <2>3, <2>6 DEF ColumnsShown
    <2>8. PICK t : t = OnlyColumns(graph, needed)
      OBVIOUS
    <2>9. SameChains(graph, t) /\ SameValues(graph, t, needed)
      BY <2>3, <2>8, OnlyColumnsAgree
    <2>10. Execute(t, QueryOf(source, ops), projection, {}) =
               Execute(graph, QueryOf(source, ops), projection, {})
      BY <2>1, <2>2, <2>3, <2>6, <2>7, <2>9, SameExecution
    <2> QED BY <2>1, <2>4, <2>5, <2>8, <2>10 DEF RequiredColumnsSuffice
  <1> QED BY <1>1, QueryIsWellBuilt, PTL

=============================================================================
