------------------------------ MODULE MCQuery -------------------------------
(***************************************************************************)
(* QueryExplain on a root snapshot, on a branch of it, and on the layer of *)
(* the branch published as a root, with two kinds and two relations of the *)
(* memorial schema, one each way.  The root has nodes of either kind that  *)
(* have ended, ties in the property ranked by, a node reached over two     *)
(* edges and edges to nodes that ended; the branch adds nodes on its own   *)
(* worldline, edges from and to inherited ones, and no edge of the second  *)
(* relation.                                                               *)
(***************************************************************************)
EXTENDS QueryExplain

CONSTANTS ghost, action, biases, evidenceFor, activation, confidence,
          w1, w2, noWorldline, g1, noGeneration

MCSourceKind == (biases :> ghost) @@ (evidenceFor :> action)
MCTargetKind == (biases :> action) @@ (evidenceFor :> ghost)
MCKeysOf == (ghost :> {activation, confidence}) @@ (action :> {confidence})

MCValues == UNION {[MCKeysOf[k] -> {1, 2}] : k \in Kinds}

Open == [from |-> 0, to |-> 2]
Ended == [from |-> 0, to |-> 1]
MCIntervals == {Open, Ended}

RowOf(worldline, valid, value) ==
    [worldline |-> worldline, valid |-> valid, transaction |-> Open, value |-> value]
Ghost(worldline, valid, a, c) == RowOf(worldline, valid, (activation :> a) @@ (confidence :> c))
Action(worldline, valid, c) == RowOf(worldline, valid, confidence :> c)

\* Appends as the code makes them: a refused one adds nothing.
WithRows(delta, k, rows) ==
    FoldLeft(LAMBDA d, row : IF CanAppendNode(d, k, row) THEN WithNode(d, k, row) ELSE d, delta, rows)
WithEdges(delta, r, edges) ==
    FoldLeft(LAMBDA d, e : IF CanAppendEdge(d, r, e[1], e[2]) THEN WithEdge(d, r, e[1], e[2]) ELSE d,
             delta, edges)

LayerFor(worldline, delta) ==
    [generation |-> g1, worldline |-> worldline, validAt |-> 1, knownAt |-> 1, data |-> delta]

RootNodes ==
    WithRows(WithRows(FreshDelta, ghost, <<Ghost(w1, Open, 2, 1), Ghost(w1, Ended, 1, 2),
                                           Ghost(w1, Open, 1, 2)>>),
             action, <<Action(w1, Open, 2), Action(w1, Open, 1), Action(w1, Ended, 2)>>)

MCRoot ==
    <<LayerFor(w1, WithEdges(WithEdges(RootNodes, biases,
                                       <<<<0, 0>>, <<2, 0>>, <<0, 2>>, <<0, 1>>>>),
                             evidenceFor, <<<<0, 2>>, <<1, 1>>, <<1, 0>>, <<0, 0>>>>))>>

BranchNodes ==
    WithRows(WithRows(DeltaFrom(NodeExtents(Last(MCRoot).data), EdgeExtents(Last(MCRoot).data)),
                      ghost, <<Ghost(w2, Open, 1, 1), Ghost(w1, Open, 2, 2)>>),
             action, <<Action(w2, Open, 2)>>)

MCBranch ==
    Append(MCRoot, LayerFor(w2, WithEdges(BranchNodes, biases, <<<<0, 3>>, <<3, 1>>, <<3, 3>>>>)))

\* publish given the delta of the branch: no id below the extents of the root is
\* numbered, though edges end there.
MCDetached == <<Last(MCBranch)>>

MCGraphs == {MCRoot, MCBranch, MCDetached}

MCWhere(key, op, value) == Where(<<[key |-> key, op |-> op, value |-> value]>>)

\* On the branch InWorldline(w1) mismatches, KnownAt(0) on both.
MCOperations ==
    {ActiveAt(1), KnownAt(0), InWorldline(w1),
     MCWhere(activation, "==", 1),
     MCWhere(confidence, ">=", 2), MCWhere(confidence, "<", 2),
     Traverse(biases), Traverse(evidenceFor),
     TopK(2, confidence, "ascending"), TopK(1, activation, "descending"),
     Limit(1), Limit(2), Project(<<confidence>>), Project(<<activation, confidence>>)}

=============================================================================
