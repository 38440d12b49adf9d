------------------------ MODULE AdjacencyStoreProofs ------------------------
(***************************************************************************)
(* Proofs about AdjacencyStore: for any nodes, values and room for ids,    *)
(* and wherever appends throw.                                             *)
(***************************************************************************)
EXTENDS AdjacencyStore, ProofLemmas

-----------------------------------------------------------------------------
(* Entries of the hash maps. *)

Ids == IdBase .. (InvalidEdgeId - 1)
Map(map) == DOMAIN map \subseteq Nodes /\ \A n \in DOMAIN map : map[n] \in Seq(Ids)

\* A map that lists edges of a node is typed as one, with no entry as with one.
LEMMA ListedType ==
    ASSUME NEW map, Map(map), NEW n
    PROVE  Listed(map, n) \in Seq(Ids) /\ Listed(map, n) \in Seq(Nat)
  <1>1. Ids \subseteq Nat
    BY AdjacencyAssumption DEF Ids
  <1>2. Listed(map, n) \in Seq(Ids)
    BY EmptySeq DEF Map, Listed
  <1> QED BY <1>1, <1>2, SeqMonotonic

\* An entry that operator[] makes is not seen.
LEMMA EntryIsUnseen ==
    ASSUME NEW map, Map(map), NEW n \in Nodes
    PROVE  /\ Map(WithEntry(map, n)) /\ n \in DOMAIN WithEntry(map, n)
           /\ \A m : Listed(WithEntry(map, n), m) = Listed(map, m)
  BY EmptySeq DEF Map, Listed, WithEntry

\* An edge goes to the end of the list of its node, and no other list changes.
LEMMA EdgeIsListed ==
    ASSUME NEW map, Map(map), NEW n \in Nodes, NEW id \in Ids
    PROVE  /\ Map(WithEdge(map, n, id)) /\ n \in DOMAIN WithEdge(map, n, id)
           /\ \A m : Listed(WithEdge(map, n, id), m) =
                         IF m = n THEN Append(Listed(map, n), id) ELSE Listed(map, m)
  <1> DEFINE entry == WithEntry(map, n)
  <1>1. /\ Map(entry) /\ n \in DOMAIN entry
        /\ \A m : Listed(entry, m) = Listed(map, m)
    BY EntryIsUnseen
  <1>2. WithEdge(map, n, id) = [entry EXCEPT ![n] = Append(entry[n], id)]
    BY DEF WithEdge
  <1>3. \A m \in DOMAIN entry : entry[m] = Listed(map, m)
    BY <1>1 DEF Listed
  <1> HIDE DEF entry
  <1>4. Append(entry[n], id) \in Seq(Ids)
    BY <1>1, AppendProperties DEF Map
  <1>5. Map(WithEdge(map, n, id))
    BY <1>1, <1>2, <1>4 DEF Map
  <1>6. \A m : Listed(WithEdge(map, n, id), m) =
                   IF m = n THEN Append(Listed(map, n), id) ELSE Listed(map, m)
    BY <1>1, <1>2, <1>3 DEF Listed
  <1> QED BY <1>1, <1>2, <1>5, <1>6

-----------------------------------------------------------------------------
(* The inductive invariant. *)

\* The columns that hold an entry of the running append.
Written(c) ==
    \/ pc = "columns" /\ c < at
    \/ pc = "unwinding" /\ c <= at
    \/ pc \in {"outgoing", "incoming", "popping"}

\* An append is past the refusals, its row is known and no statistics are ready.
CallOK ==
    /\ pc = "idle" <=> pending = NoRow
    /\ pc # "idle" => pending \in Row /\ Extent < InvalidEdgeId /\ ~ready
    /\ pc = "columns" => at \in Columns
    /\ pc = "unwinding" => at \in 0 .. 2

\* A column has one entry per edge and, once written, the one that is to be added.
ColumnsOK ==
    \A c \in Columns :
        IF Written(c)
        THEN Len(columns[c]) = size + 1 /\ columns[c][size + 1] = pending[c]
        ELSE Len(columns[c]) = size

\* The edge whose id only the source's list has so far.
Coming(n) == IF pc = "incoming" /\ n = Source THEN {Extent} ELSE {}

ListsOK ==
    \A n \in Nodes : /\ InOrder(Listed(outgoing, n), EdgesWith(1, n) \cup Coming(n))
                     /\ InOrder(Listed(incoming, n), EdgesWith(2, n))

StoreInvariant == TypeOK /\ CallOK /\ ColumnsOK /\ ListsOK /\ StatisticsCurrent

LEMMA NoRowIsNoRow == NoRow \notin Row
  <1> SUFFICES ASSUME NEW r \in Row PROVE Len(r) = 3 /\ Len(NoRow) = 0
    OBVIOUS
  <1> QED BY DEF Row, NoRow

\* What TypeOK says of each part.
LEMMA TypeParts ==
    ASSUME TypeOK
    PROVE  /\ DOMAIN columns = Columns
           /\ columns[1] \in Seq(Nodes) /\ columns[2] \in Seq(Nodes) /\ columns[3] \in Seq(Values)
           /\ Map(outgoing) /\ Map(incoming)
           /\ size \in Nat /\ Extent \in Nat
  BY AdjacencyAssumption DEF TypeOK, ColumnType, Columns, Map, Ids, Extent

\* The ids of edges are those before the extent.
LEMMA EdgesAreNumbered ==
    ASSUME size \in Nat, NEW c, NEW n
    PROVE  \A id \in EdgesWith(c, n) : id \in IdBase .. (Extent - 1)
  BY AdjacencyAssumption DEF EdgesWith, Extent

\* A step that leaves what the columns say of the stored edges alone.
RowsStay == \A c \in Columns : \A i \in 1 .. size : columns'[c][i] = columns[c][i]

\* A step that keeps the size and the rows keeps the edges of every node.
LEMMA SameEdges ==
    ASSUME size \in Nat, size' = size, RowsStay, NEW c \in {1, 2}, NEW n
    PROVE  EdgesWith(c, n)' = EdgesWith(c, n)
  BY DEF EdgesWith, RowsStay, Columns

\* A step that keeps the edges, and what the lists read, keeps the two in agreement.
LEMMA ListsAreKept ==
    ASSUME size \in Nat, ListsOK, size' = size, RowsStay,
           \A n \in Nodes : /\ Listed(outgoing, n)' = Listed(outgoing, n)
                            /\ Listed(incoming, n)' = Listed(incoming, n)
                            /\ Coming(n)' = Coming(n)
    PROVE  ListsOK'
  <1> SUFFICES ASSUME NEW n \in Nodes
               PROVE  /\ InOrder(Listed(outgoing, n)', EdgesWith(1, n)' \cup Coming(n)')
                      /\ InOrder(Listed(incoming, n)', EdgesWith(2, n)')
    BY DEF ListsOK
  <1>1. EdgesWith(1, n)' = EdgesWith(1, n) /\ EdgesWith(2, n)' = EdgesWith(2, n)
    BY SameEdges
  <1> QED BY <1>1 DEF ListsOK

-----------------------------------------------------------------------------
(* One lemma for each action: it keeps the invariant. *)

LEMMA InitInvariant == Init => StoreInvariant
  <1> SUFFICES ASSUME Init PROVE StoreInvariant
    OBVIOUS
  <1>1. size = 0 /\ pc = "idle" /\ pending = NoRow /\ ready = FALSE /\ at = 1
    BY DEF Init
  <1>2. TypeOK
    <2>1. \A c \in Columns : columns[c] = <<>>
      BY DEF Init
    <2>2. DOMAIN columns = Columns
      BY DEF Init
    <2>3. \A map \in {outgoing, incoming} : DOMAIN map = {}
      BY DEF Init, EmptyMap
    <2>4. size \in 0 .. (InvalidEdgeId - IdBase) /\ Len(<<>>) \in size .. (size + 1)
      BY <1>1, AdjacencyAssumption, EmptySeq
    <2>5. \A c \in Columns : columns[c] \in Seq(ColumnType[c])
                             /\ Len(columns[c]) \in size .. (size + 1)
      BY <2>1, <2>4, EmptySeq
    <2>6. \A map \in {outgoing, incoming} :
              DOMAIN map \subseteq Nodes /\ \A n \in DOMAIN map : map[n] \in Seq(Ids)
      BY <2>3
    <2>7. ready \in BOOLEAN
      BY <1>1
    <2>8. at \in Columns \cup {0} /\ pending \in Row \cup {NoRow}
      BY <1>1 DEF Columns
    <2>9. pc \in {"idle", "columns", "unwinding", "outgoing", "incoming", "popping"}
      BY <1>1
    <2> QED BY <2>2, <2>4, <2>5, <2>6, <2>7, <2>8, <2>9 DEF TypeOK, Ids
  <1>3. CallOK
    BY <1>1 DEF CallOK
  <1>4. ColumnsOK
    BY <1>1, EmptySeq DEF Init, ColumnsOK, Written
  <1>5. ListsOK
    <2> SUFFICES ASSUME NEW n \in Nodes
                 PROVE  /\ InOrder(Listed(outgoing, n), EdgesWith(1, n) \cup Coming(n))
                        /\ InOrder(Listed(incoming, n), EdgesWith(2, n))
      BY DEF ListsOK
    <2>1. EdgesWith(1, n) = {} /\ EdgesWith(2, n) = {} /\ Coming(n) = {}
      BY <1>1 DEF EdgesWith, Coming
    <2>2. Listed(outgoing, n) = <<>> /\ Listed(incoming, n) = <<>>
      BY DEF Init, Listed, EmptyMap
    <2> QED BY <2>1, <2>2, EmptyInOrder
  <1>6. StatisticsCurrent
    BY <1>1 DEF StatisticsCurrent
  <1> QED BY <1>2, <1>3, <1>4, <1>5, <1>6 DEF StoreInvariant

LEMMA BeginKeeps ==
    ASSUME StoreInvariant,
           NEW source \in Nodes \cup {InvalidNode}, NEW target \in Nodes \cup {InvalidNode},
           NEW value \in Values, Begin(source, target, value)
    PROVE  StoreInvariant'
  <1>1. UNCHANGED <<columns, outgoing, incoming, size, statistics>> /\ ready' = FALSE
    BY DEF Begin
  <1>2. pc = "idle" /\ pc' \in {"idle", "columns"} /\ at' = 1
    BY DEF Begin
  <1>3. \/ pc' = "idle" /\ pending' = NoRow
        \/ pc' = "columns" /\ pending' \in Row /\ pending' # NoRow
    BY <1>2, NoRowIsNoRow DEF StoreInvariant, CallOK, Begin, Row
  <1>4. TypeOK'
    <2>1. ready' \in BOOLEAN
      BY <1>1
    <2>2. at' \in Columns \cup {0} /\ pending' \in Row \cup {NoRow}
      BY <1>2, <1>3 DEF Columns
    <2>3. pc' \in {"idle", "columns", "unwinding", "outgoing", "incoming", "popping"}
      BY <1>2
    <2> QED BY <1>1, <2>1, <2>2, <2>3 DEF StoreInvariant, TypeOK
  <1>5. Extent < InvalidEdgeId /\ Extent' = Extent
    BY <1>1 DEF Begin, Extent
  <1>6. CallOK'
    BY <1>1, <1>2, <1>3, <1>5 DEF CallOK, Columns
  <1>7. ColumnsOK'
    BY <1>1, <1>2 DEF StoreInvariant, ColumnsOK, Written, Columns
  <1>8. ListsOK'
    BY <1>1, <1>2, TypeParts, ListsAreKept DEF StoreInvariant, Coming, Listed, RowsStay
  <1> QED BY <1>1, <1>4, <1>6, <1>7, <1>8 DEF StoreInvariant, StatisticsCurrent

LEMMA PushColumnKeeps ==
    ASSUME StoreInvariant, PushColumn
    PROVE  StoreInvariant' /\ RowsStay
  <1>1. /\ UNCHANGED <<outgoing, incoming, size, statistics, ready, pending>>
        /\ pc = "columns" /\ pc' \in {"columns", "outgoing"}
        /\ columns' = [columns EXCEPT ![at] = Append(@, pending[at])]
    BY DEF PushColumn
  <1>2. at \in Columns /\ pending \in Row /\ ready = FALSE
    BY <1>1 DEF StoreInvariant, CallOK, TypeOK
  <1>3. /\ Len(columns[at]) = size /\ columns[at] \in Seq(ColumnType[at])
        /\ pending[at] \in ColumnType[at] /\ DOMAIN columns = Columns /\ size \in Nat
    <2>1. Len(columns[at]) = size /\ columns[at] \in Seq(ColumnType[at])
      BY <1>1, <1>2 DEF StoreInvariant, ColumnsOK, Written, TypeOK, Columns
    <2>2. pending[at] \in ColumnType[at]
      BY <1>2 DEF Row, Columns, ColumnType
    <2> QED BY <2>1, <2>2, TypeParts DEF StoreInvariant
  <1> DEFINE longer == Append(columns[at], pending[at])
  <1>4. /\ longer \in Seq(ColumnType[at]) /\ Len(longer) = size + 1
        /\ longer[size + 1] = pending[at]
        /\ \A i \in 1 .. size : longer[i] = columns[at][i]
    <2> DEFINE S == ColumnType[at]  s == columns[at]  e == pending[at]
    <2>1. s \in Seq(S) /\ e \in S /\ Len(s) = size
      BY <1>3
    <2> HIDE DEF S, s, e
    <2>2. /\ Append(s, e) \in Seq(S) /\ Len(Append(s, e)) = Len(s) + 1
          /\ Append(s, e)[Len(s) + 1] = e
          /\ \A i \in 1 .. Len(s) : Append(s, e)[i] = s[i]
      BY <2>1, AppendType
    <2> QED BY <2>1, <2>2 DEF S, s, e
  <1>5. /\ DOMAIN columns' = Columns /\ columns'[at] = longer
        /\ \A c \in Columns \ {at} : columns'[c] = columns[c]
    BY <1>1, <1>2, <1>3
  <1> HIDE DEF longer
  <1>6. TypeOK'
    <2>1. at' \in Columns
      BY <1>2 DEF PushColumn, Columns
    <2>2. \A c \in Columns : columns'[c] \in Seq(ColumnType[c])
                             /\ Len(columns'[c]) \in size .. (size + 1)
      BY <1>3, <1>4, <1>5 DEF StoreInvariant, TypeOK
    <2> QED BY <1>1, <1>5, <2>1, <2>2 DEF StoreInvariant, TypeOK, ColumnType, Columns
  <1>7. CallOK'
    BY <1>1, <1>2 DEF StoreInvariant, CallOK, PushColumn, Row, NoRow, Extent
  <1>8. ColumnsOK'
    <2>1. \/ at' = at + 1 /\ pc' = "columns"
          \/ at = 3 /\ pc' = "outgoing"
      BY <1>1, <1>2 DEF PushColumn, Columns
    <2>2. ASSUME NEW c \in Columns PROVE Written(c)' <=> c = at \/ Written(c)
      <3>1. Written(c) <=> c < at
        BY <1>1 DEF Written
      <3>2. Written(c)' <=> (pc' = "columns" /\ c < at') \/ pc' = "outgoing"
        BY <1>1 DEF Written
      <3> QED BY <1>2, <2>1, <3>1, <3>2 DEF Columns
    <2>3. size \in Nat /\ size' = size /\ pending' = pending
      BY <1>1, <1>3
    <2> QED BY <1>1, <1>4, <1>5, <2>2, <2>3 DEF StoreInvariant, ColumnsOK
  <1>9. ListsOK'
    <2>1. RowsStay
      BY <1>4, <1>5 DEF RowsStay
    <2> QED BY <1>1, <1>3, <2>1, ListsAreKept DEF StoreInvariant, Coming, Listed
  <1>10. RowsStay
    BY <1>4, <1>5 DEF RowsStay
  <1> QED BY <1>1, <1>2, <1>6, <1>7, <1>8, <1>9, <1>10 DEF StoreInvariant, StatisticsCurrent

LEMMA PushColumnThrowsKeeps ==
    ASSUME StoreInvariant, PushColumnThrows
    PROVE  StoreInvariant'
  <1>1. /\ UNCHANGED <<columns, outgoing, incoming, size, statistics, ready, pending>>
        /\ pc = "columns" /\ pc' = "unwinding" /\ at' = at - 1
    BY DEF PushColumnThrows
  <1>2. at \in Columns /\ ready = FALSE
    BY <1>1 DEF StoreInvariant, CallOK, TypeOK
  <1>3. TypeOK'
    BY <1>1, <1>2 DEF StoreInvariant, TypeOK, Columns
  <1>4. CallOK'
    BY <1>1, <1>2 DEF StoreInvariant, CallOK, Columns, Extent
  <1>5. ColumnsOK'
    BY <1>1, <1>2 DEF StoreInvariant, ColumnsOK, Written, Columns
  <1>6. ListsOK'
    BY <1>1, TypeParts, ListsAreKept DEF StoreInvariant, Coming, Listed, RowsStay
  <1> QED BY <1>1, <1>2, <1>3, <1>4, <1>5, <1>6 DEF StoreInvariant, StatisticsCurrent

LEMMA UnwindColumnKeeps ==
    ASSUME StoreInvariant, UnwindColumn
    PROVE  StoreInvariant' /\ RowsStay
  <1>1. /\ UNCHANGED <<outgoing, incoming, size, statistics, ready, pc, pending>>
        /\ pc = "unwinding" /\ at \in Columns /\ at' = at - 1
        /\ columns' = [columns EXCEPT ![at] = Front(@)]
    BY DEF UnwindColumn
  <1>2. at \in 1 .. 2 /\ ready = FALSE
    BY <1>1 DEF StoreInvariant, CallOK, TypeOK, Columns
  <1>3. /\ Len(columns[at]) = size + 1 /\ columns[at] \in Seq(ColumnType[at])
        /\ DOMAIN columns = Columns /\ size \in Nat
    BY <1>1, <1>2, TypeParts DEF StoreInvariant, ColumnsOK, Written, TypeOK, Columns
  <1> DEFINE shorter == Front(columns[at])
  <1>4. /\ shorter \in Seq(ColumnType[at]) /\ Len(shorter) = size
        /\ \A i \in 1 .. size : shorter[i] = columns[at][i]
    BY <1>3, FrontType
  <1>5. /\ DOMAIN columns' = Columns /\ columns'[at] = shorter
        /\ \A c \in Columns \ {at} : columns'[c] = columns[c]
    BY <1>1, <1>3
  <1> HIDE DEF shorter
  <1>6. TypeOK'
    <2>1. \A c \in Columns : columns'[c] \in Seq(ColumnType[c])
                             /\ Len(columns'[c]) \in size .. (size + 1)
      BY <1>3, <1>4, <1>5 DEF StoreInvariant, TypeOK
    <2>2. at' \in Columns \cup {0}
      BY <1>1, <1>2 DEF Columns
    <2> QED BY <1>1, <1>5, <2>1, <2>2 DEF StoreInvariant, TypeOK
  <1>7. CallOK'
    BY <1>1, <1>2 DEF StoreInvariant, CallOK, Extent
  <1>8. ColumnsOK'
    <2>1. \A c \in Columns : Written(c)' <=> c # at /\ Written(c)
      BY <1>1, <1>2 DEF Written, Columns
    <2>2. size' = size /\ pending' = pending
      BY <1>1
    <2> QED BY <1>3, <1>4, <1>5, <2>1, <2>2 DEF StoreInvariant, ColumnsOK
  <1>9. ListsOK'
    <2>1. RowsStay
      BY <1>4, <1>5 DEF RowsStay
    <2> QED BY <1>1, <1>3, <2>1, ListsAreKept DEF StoreInvariant, Coming, Listed
  <1>10. RowsStay
    BY <1>4, <1>5 DEF RowsStay
  <1> QED BY <1>1, <1>2, <1>6, <1>7, <1>8, <1>9, <1>10 DEF StoreInvariant, StatisticsCurrent

LEMMA UnwoundKeeps ==
    ASSUME StoreInvariant, Unwound
    PROVE  StoreInvariant'
  <1>1. /\ UNCHANGED <<columns, outgoing, incoming, size, statistics, ready>>
        /\ pc = "unwinding" /\ at = 0 /\ pc' = "idle" /\ at' = 1 /\ pending' = NoRow
    BY DEF Unwound
  <1>2. ready = FALSE
    BY <1>1 DEF StoreInvariant, CallOK, TypeOK
  <1>3. TypeOK'
    BY <1>1 DEF StoreInvariant, TypeOK, Columns
  <1>4. CallOK'
    BY <1>1 DEF CallOK
  <1>5. ColumnsOK'
    BY <1>1 DEF StoreInvariant, ColumnsOK, Written, Columns
  <1>6. ListsOK'
    BY <1>1, TypeParts, ListsAreKept DEF StoreInvariant, Coming, Listed, RowsStay
  <1> QED BY <1>1, <1>2, <1>3, <1>4, <1>5, <1>6 DEF StoreInvariant, StatisticsCurrent

\* The running append's row names two nodes, and its id is the next.
LEMMA PendingFacts ==
    ASSUME StoreInvariant, pc # "idle"
    PROVE  /\ Source \in Nodes /\ Target \in Nodes /\ ready = FALSE
           /\ Extent \in Ids /\ size \in Nat /\ size + 1 \in 0 .. (InvalidEdgeId - IdBase)
  <1>1. pending \in Row /\ Extent < InvalidEdgeId /\ ready = FALSE
    BY DEF StoreInvariant, CallOK, TypeOK
  <1>2. Source \in Nodes /\ Target \in Nodes
    BY <1>1 DEF Source, Target, Row
  <1>3. size \in Nat
    BY TypeParts DEF StoreInvariant
  <1> QED BY <1>1, <1>2, <1>3, AdjacencyAssumption DEF Ids, Extent

LEMMA PushOutgoingKeeps ==
    ASSUME StoreInvariant, PushOutgoing
    PROVE  StoreInvariant'
  <1>1. /\ UNCHANGED <<columns, incoming, size, statistics, ready, at, pending>>
        /\ pc = "outgoing" /\ pc' = "incoming"
        /\ outgoing' = WithEdge(outgoing, Source, Extent)
    BY DEF PushOutgoing
  <1>2. Source \in Nodes /\ Extent \in Ids /\ ready = FALSE /\ size \in Nat
    BY <1>1, PendingFacts
  <1>3. Map(outgoing) /\ Map(incoming)
    BY TypeParts DEF StoreInvariant
  <1>4. /\ Map(outgoing')
        /\ \A m : Listed(outgoing', m) =
                      IF m = Source THEN Append(Listed(outgoing, Source), Extent)
                                    ELSE Listed(outgoing, m)
    BY <1>1, <1>2, <1>3, EdgeIsListed
  <1>5. TypeOK'
    BY <1>1, <1>4 DEF StoreInvariant, TypeOK, Map, Ids
  <1>6. CallOK'
    BY <1>1 DEF StoreInvariant, CallOK, Extent
  <1>7. ColumnsOK'
    BY <1>1 DEF StoreInvariant, ColumnsOK, Written
  <1>8. ListsOK'
    <2> SUFFICES ASSUME NEW n \in Nodes
                 PROVE  /\ InOrder(Listed(outgoing', n), EdgesWith(1, n)' \cup Coming(n)')
                        /\ InOrder(Listed(incoming, n), EdgesWith(2, n)')
      BY <1>1 DEF ListsOK, Listed
    <2>1. EdgesWith(1, n)' = EdgesWith(1, n) /\ EdgesWith(2, n)' = EdgesWith(2, n)
      BY <1>1, <1>2, SameEdges DEF RowsStay
    <2>2. InOrder(Listed(outgoing, n), EdgesWith(1, n)) /\ InOrder(Listed(incoming, n), EdgesWith(2, n))
      <3>1. Coming(n) = {}
        BY <1>1 DEF Coming
      <3> QED BY <3>1 DEF StoreInvariant, ListsOK
    <2>3. Coming(n)' = IF n = Source THEN {Extent} ELSE {}
      BY <1>1 DEF Coming, Source, Extent
    <2>4. CASE n = Source
      <3>1. \A id \in EdgesWith(1, n) : id < Extent
        BY <1>2, EdgesAreNumbered, AdjacencyAssumption DEF Ids
      <3>2. Listed(outgoing, n) \in Seq(Nat) /\ Extent \in Nat
        BY <1>2, <1>3, ListedType, AdjacencyAssumption DEF Ids
      <3>3. InOrder(Append(Listed(outgoing, n), Extent), EdgesWith(1, n) \cup {Extent})
        BY <2>2, <3>1, <3>2, AppendInOrder
      <3> QED BY <1>4, <2>1, <2>2, <2>3, <2>4, <3>3
    <2>5. CASE n # Source
      BY <1>4, <2>1, <2>2, <2>3, <2>5
    <2> QED BY <2>4, <2>5
  <1> QED BY <1>1, <1>2, <1>5, <1>6, <1>7, <1>8 DEF StoreInvariant, StatisticsCurrent

LEMMA PushOutgoingThrowsKeeps ==
    ASSUME StoreInvariant, PushOutgoingThrows
    PROVE  StoreInvariant'
  <1>1. /\ UNCHANGED <<columns, incoming, size, statistics, ready, at, pending>>
        /\ pc = "outgoing" /\ pc' = "popping"
        /\ outgoing' \in {outgoing, WithEntry(outgoing, Source)}
    BY DEF PushOutgoingThrows
  <1>2. Source \in Nodes /\ Map(outgoing) /\ ready = FALSE /\ size \in Nat
    BY <1>1, PendingFacts, TypeParts DEF StoreInvariant
  <1>3. Map(outgoing') /\ \A m : Listed(outgoing', m) = Listed(outgoing, m)
    BY <1>1, <1>2, EntryIsUnseen
  <1>4. TypeOK'
    BY <1>1, <1>3 DEF StoreInvariant, TypeOK, Map, Ids
  <1>5. CallOK'
    BY <1>1 DEF StoreInvariant, CallOK, Extent
  <1>6. ColumnsOK'
    BY <1>1 DEF StoreInvariant, ColumnsOK, Written
  <1>7. ListsOK'
    <2>1. \A n : /\ Listed(outgoing, n)' = Listed(outgoing, n)
                 /\ Listed(incoming, n)' = Listed(incoming, n)
      BY <1>1, <1>3 DEF Listed
    <2>2. \A n : Coming(n)' = Coming(n)
      BY <1>1 DEF Coming
    <2> QED BY <1>1, <1>2, <2>1, <2>2, ListsAreKept DEF StoreInvariant, RowsStay
  <1> QED BY <1>1, <1>2, <1>4, <1>5, <1>6, <1>7 DEF StoreInvariant, StatisticsCurrent

\* The row written to every column becomes the row of the edge whose id comes next.
LEMMA EdgeIsAdded ==
    ASSUME size \in Nat, size' = size + 1, columns' = columns, NEW c \in {1, 2}, NEW n,
           columns[c][size + 1] = pending[c]
    PROVE  EdgesWith(c, n)' =
               EdgesWith(c, n) \cup (IF pending[c] = n THEN {Extent} ELSE {})
  <1> DEFINE rows == {j \in 1 .. size : columns[c][j] = n}
             rowsThen == {j \in 1 .. (size + 1) : columns[c][j] = n}
  <1>1. rowsThen = rows \cup (IF pending[c] = n THEN {size + 1} ELSE {})
    OBVIOUS
  <1>2. /\ EdgesWith(c, n) = {IdBase + i - 1 : i \in rows}
        /\ EdgesWith(c, n)' = {IdBase + i - 1 : i \in rowsThen}
    BY DEF EdgesWith
  <1>3. Extent = IdBase + (size + 1) - 1
    BY AdjacencyAssumption DEF Extent
  <1> HIDE DEF rows, rowsThen
  <1>4. CASE pending[c] = n
    BY <1>1, <1>2, <1>3, <1>4
  <1>5. CASE pending[c] # n
    BY <1>1, <1>2, <1>5
  <1> QED BY <1>4, <1>5

LEMMA PushIncomingKeeps ==
    ASSUME StoreInvariant, PushIncoming
    PROVE  StoreInvariant'
  <1>1. /\ UNCHANGED <<columns, outgoing, statistics, ready, at>>
        /\ pc = "incoming" /\ pc' = "idle" /\ pending' = NoRow /\ size' = size + 1
        /\ incoming' = WithEdge(incoming, Target, Extent)
    BY DEF PushIncoming
  <1>2. /\ Source \in Nodes /\ Target \in Nodes /\ Extent \in Ids /\ ready = FALSE
        /\ size \in Nat /\ size + 1 \in 0 .. (InvalidEdgeId - IdBase)
    BY <1>1, PendingFacts
  <1>3. Map(outgoing) /\ Map(incoming)
    BY TypeParts DEF StoreInvariant
  <1>4. /\ Map(incoming')
        /\ \A m : Listed(incoming', m) =
                      IF m = Target THEN Append(Listed(incoming, Target), Extent)
                                    ELSE Listed(incoming, m)
    BY <1>1, <1>2, <1>3, EdgeIsListed
  <1>5. \A c \in Columns : Len(columns[c]) = size + 1 /\ columns[c][size + 1] = pending[c]
    BY <1>1 DEF StoreInvariant, ColumnsOK, Written
  <1>6. TypeOK'
    <2>1. \A c \in Columns : Len(columns'[c]) \in size' .. (size' + 1)
      BY <1>1, <1>2, <1>5
    <2>2. size' \in 0 .. (InvalidEdgeId - IdBase) /\ pending' \in Row \cup {NoRow}
      BY <1>1, <1>2
    <2> QED BY <1>1, <1>3, <1>4, <2>1, <2>2 DEF StoreInvariant, TypeOK, Map, Ids
  <1>7. CallOK'
    BY <1>1 DEF CallOK
  <1>8. ColumnsOK'
    BY <1>1, <1>5 DEF ColumnsOK, Written
  <1>9. ListsOK'
    <2> SUFFICES ASSUME NEW n \in Nodes
                 PROVE  /\ InOrder(Listed(outgoing, n), EdgesWith(1, n)')
                        /\ InOrder(Listed(incoming', n), EdgesWith(2, n)')
      BY <1>1 DEF ListsOK, Listed, Coming
    <2>1. /\ EdgesWith(1, n)' = EdgesWith(1, n) \cup (IF Source = n THEN {Extent} ELSE {})
          /\ EdgesWith(2, n)' = EdgesWith(2, n) \cup (IF Target = n THEN {Extent} ELSE {})
      BY <1>1, <1>2, <1>5, EdgeIsAdded DEF Source, Target, Columns
    <2>2. /\ InOrder(Listed(outgoing, n), EdgesWith(1, n) \cup Coming(n))
          /\ InOrder(Listed(incoming, n), EdgesWith(2, n))
      BY DEF StoreInvariant, ListsOK
    <2>3. Coming(n) = IF Source = n THEN {Extent} ELSE {}
      BY <1>1 DEF Coming
    <2>4. InOrder(Listed(incoming', n), EdgesWith(2, n)')
      <3>1. CASE n = Target
        <4>1. \A id \in EdgesWith(2, n) : id < Extent
          BY <1>2, EdgesAreNumbered, AdjacencyAssumption DEF Ids
        <4>2. Listed(incoming, n) \in Seq(Nat) /\ Extent \in Nat
          BY <1>2, <1>3, ListedType, AdjacencyAssumption DEF Ids
        <4>3. InOrder(Append(Listed(incoming, n), Extent), EdgesWith(2, n) \cup {Extent})
          BY <2>2, <4>1, <4>2, AppendInOrder
        <4> QED BY <1>4, <2>1, <3>1, <4>3
      <3>2. CASE n # Target
        BY <1>4, <2>1, <2>2, <3>2
      <3> QED BY <3>1, <3>2
    <2> QED BY <2>1, <2>2, <2>3, <2>4
  <1> QED BY <1>1, <1>2, <1>6, <1>7, <1>8, <1>9 DEF StoreInvariant, StatisticsCurrent

LEMMA PushIncomingThrowsKeeps ==
    ASSUME StoreInvariant, PushIncomingThrows
    PROVE  StoreInvariant'
  <1>1. /\ UNCHANGED <<columns, size, statistics, ready, at, pending>>
        /\ pc = "incoming" /\ pc' = "popping"
        /\ incoming' \in {incoming, WithEntry(incoming, Target)}
        /\ outgoing' = [outgoing EXCEPT ![Source] = Front(@)]
    BY DEF PushIncomingThrows
  <1>2. /\ Source \in Nodes /\ Target \in Nodes /\ Extent \in Ids /\ ready = FALSE
        /\ size \in Nat /\ Map(outgoing) /\ Map(incoming)
    BY <1>1, PendingFacts, TypeParts DEF StoreInvariant
  <1>3. Map(incoming') /\ \A m : Listed(incoming', m) = Listed(incoming, m)
    BY <1>1, <1>2, EntryIsUnseen
  <1> DEFINE list == Listed(outgoing, Source)
  <1>4. list \in Seq(Nat) /\ list \in Seq(Ids) /\ Extent \in Nat
    BY <1>2, ListedType, AdjacencyAssumption DEF Ids
  <1>5. InOrder(Front(list), EdgesWith(1, Source)) /\ Len(list) >= 1
    <2>1. InOrder(list, EdgesWith(1, Source) \cup {Extent})
      BY <1>1, <1>2 DEF StoreInvariant, ListsOK, Coming
    <2>2. \A id \in EdgesWith(1, Source) : id < Extent
      BY <1>2, EdgesAreNumbered, AdjacencyAssumption DEF Ids
    <2> QED BY <1>4, <2>1, <2>2, FrontInOrder
  <1>6. Source \in DOMAIN outgoing /\ outgoing[Source] = list /\ Front(list) \in Seq(Ids)
    BY <1>4, <1>5, EmptySeq, FrontType DEF Listed
  <1> HIDE DEF list
  <1>7. /\ Map(outgoing')
        /\ \A m : Listed(outgoing', m) = IF m = Source THEN Front(list) ELSE Listed(outgoing, m)
    BY <1>1, <1>2, <1>6 DEF Map, Listed
  <1>8. TypeOK'
    BY <1>1, <1>3, <1>7 DEF StoreInvariant, TypeOK, Map, Ids
  <1>9. CallOK'
    BY <1>1 DEF StoreInvariant, CallOK, Extent
  <1>10. ColumnsOK'
    BY <1>1 DEF StoreInvariant, ColumnsOK, Written
  <1>11. ListsOK'
    <2> SUFFICES ASSUME NEW n \in Nodes
                 PROVE  /\ InOrder(Listed(outgoing', n), EdgesWith(1, n))
                        /\ InOrder(Listed(incoming', n), EdgesWith(2, n))
      <3>1. \A n \in Nodes : /\ EdgesWith(1, n)' = EdgesWith(1, n)
                             /\ EdgesWith(2, n)' = EdgesWith(2, n)
                             /\ Coming(n)' = {}
        BY <1>1, <1>2, SameEdges DEF Coming, RowsStay
      <3> QED BY <3>1 DEF ListsOK, Listed
    <2>1. /\ InOrder(Listed(outgoing, n), EdgesWith(1, n) \cup Coming(n))
          /\ InOrder(Listed(incoming, n), EdgesWith(2, n))
      BY DEF StoreInvariant, ListsOK
    <2>2. n # Source => Coming(n) = {}
      BY DEF Coming
    <2> QED BY <1>3, <1>5, <1>7, <2>1, <2>2
  <1> QED BY <1>1, <1>2, <1>8, <1>9, <1>10, <1>11 DEF StoreInvariant, StatisticsCurrent

LEMMA PopColumnsKeeps ==
    ASSUME StoreInvariant, PopColumns
    PROVE  StoreInvariant' /\ RowsStay
  <1>1. /\ UNCHANGED <<outgoing, incoming, size, statistics, ready, at>>
        /\ pc = "popping" /\ pc' = "idle" /\ pending' = NoRow
        /\ columns' = [c \in Columns |-> Front(columns[c])]
    BY DEF PopColumns
  <1>2. ready = FALSE /\ size \in Nat
    BY <1>1, PendingFacts
  <1>3. \A c \in Columns : Len(columns[c]) = size + 1 /\ columns[c] \in Seq(ColumnType[c])
    BY <1>1 DEF StoreInvariant, ColumnsOK, Written, TypeOK
  <1>4. \A c \in Columns : /\ columns'[c] \in Seq(ColumnType[c]) /\ Len(columns'[c]) = size
                           /\ \A i \in 1 .. size : columns'[c][i] = columns[c][i]
    <2> SUFFICES ASSUME NEW c \in Columns
                 PROVE  /\ columns'[c] \in Seq(ColumnType[c]) /\ Len(columns'[c]) = size
                        /\ \A i \in 1 .. size : columns'[c][i] = columns[c][i]
      OBVIOUS
    <2> DEFINE S == ColumnType[c]  s == columns[c]
    <2>1. s \in Seq(S) /\ Len(s) = size + 1
      BY <1>3
    <2>2. columns'[c] = Front(s)
      BY <1>1
    <2> HIDE DEF S, s
    <2>3. /\ Front(s) \in Seq(S) /\ Len(Front(s)) = size
          /\ \A i \in 1 .. size : Front(s)[i] = s[i]
      BY <1>2, <2>1, FrontType
    <2> QED BY <2>2, <2>3 DEF S, s
  <1>5. DOMAIN columns' = Columns
    BY <1>1
  <1>6. TypeOK'
    BY <1>1, <1>2, <1>4, <1>5 DEF StoreInvariant, TypeOK
  <1>7. CallOK'
    BY <1>1 DEF CallOK
  <1>8. ColumnsOK'
    BY <1>1, <1>4 DEF ColumnsOK, Written
  <1>9. ListsOK'
    <2>1. RowsStay
      BY <1>4 DEF RowsStay
    <2>2. \A n : Coming(n)' = Coming(n)
      BY <1>1 DEF Coming
    <2> QED BY <1>1, <1>2, <2>1, <2>2, ListsAreKept DEF StoreInvariant, Listed
  <1>10. RowsStay
    BY <1>4 DEF RowsStay
  <1> QED BY <1>1, <1>2, <1>6, <1>7, <1>8, <1>9, <1>10 DEF StoreInvariant, StatisticsCurrent

\* The longest list is that of the node that most edges leave.
LEMMA LongestList ==
    ASSUME StoreInvariant, pc = "idle"
    PROVE  {0} \cup {Len(outgoing[n]) : n \in DOMAIN outgoing} =
               {0} \cup {Cardinality(EdgesWith(1, n)) : n \in Nodes}
  <1>1. Map(outgoing)
    BY TypeParts DEF StoreInvariant
  <1>2. \A n \in Nodes : Cardinality(EdgesWith(1, n)) = Len(Listed(outgoing, n))
    <2> SUFFICES ASSUME NEW n \in Nodes
                 PROVE  Cardinality(EdgesWith(1, n)) = Len(Listed(outgoing, n))
      OBVIOUS
    <2>1. InOrder(Listed(outgoing, n), EdgesWith(1, n))
      <3>1. Coming(n) = {}
        BY DEF Coming
      <3> QED BY <3>1 DEF StoreInvariant, ListsOK
    <2> QED BY <1>1, <2>1, ListedType, LengthInOrder
  <1>3. \A n : Len(Listed(outgoing, n)) = IF n \in DOMAIN outgoing THEN Len(outgoing[n]) ELSE 0
    BY EmptySeq DEF Listed
  <1> QED BY <1>1, <1>2, <1>3 DEF Map

LEMMA BuildStatisticsKeeps ==
    ASSUME StoreInvariant, BuildStatistics
    PROVE  StoreInvariant'
  <1>1. /\ UNCHANGED <<columns, outgoing, incoming, size, pc, at, pending>>
        /\ pc = "idle" /\ ready' = TRUE
    BY DEF BuildStatistics
  <1>2. TypeOK'
    BY <1>1 DEF StoreInvariant, TypeOK
  <1>3. CallOK'
    BY <1>1 DEF StoreInvariant, CallOK
  <1>4. ColumnsOK'
    BY <1>1 DEF StoreInvariant, ColumnsOK, Written
  <1>5. ListsOK'
    BY <1>1, TypeParts, ListsAreKept DEF StoreInvariant, Coming, Listed, RowsStay
  <1>6. StatisticsCurrent'
    <2>1. /\ statistics'.edgeCount = size'
          /\ statistics'.maximumOutDegree =
                 Max({0} \cup {Cardinality(EdgesWith(1, n)) : n \in Nodes})
      BY <1>1, LongestList DEF BuildStatistics
    <2>2. \A n : EdgesWith(1, n)' = EdgesWith(1, n)
      BY <1>1 DEF EdgesWith
    <2> QED BY <2>1, <2>2 DEF StatisticsCurrent
  <1> QED BY <1>2, <1>3, <1>4, <1>5, <1>6 DEF StoreInvariant

\* Nothing happens, or one of the actions does.
LEMMA StepKeepsInvariant == StoreInvariant /\ [Next]_vars => StoreInvariant'
  <1> SUFFICES ASSUME StoreInvariant, [Next]_vars PROVE StoreInvariant'
    OBVIOUS
  <1>1. CASE UNCHANGED vars
    <2>1. UNCHANGED <<columns, outgoing, incoming, size, statistics, ready, pc, at, pending>>
      BY <1>1 DEF vars
    <2>2. TypeOK'
      BY <2>1 DEF StoreInvariant, TypeOK
    <2>3. CallOK'
      BY <2>1 DEF StoreInvariant, CallOK, Extent
    <2>4. ColumnsOK'
      BY <2>1 DEF StoreInvariant, ColumnsOK, Written
    <2>5. \A c, n : EdgesWith(c, n)' = EdgesWith(c, n)
      BY <2>1 DEF EdgesWith
    <2>6. ListsOK'
      BY <2>1, <2>5 DEF StoreInvariant, ListsOK, Coming, Source, Extent, Listed
    <2>7. StatisticsCurrent'
      BY <2>1, <2>5 DEF StoreInvariant, StatisticsCurrent
    <2> QED BY <2>2, <2>3, <2>4, <2>6, <2>7 DEF StoreInvariant
  <1>2. CASE Run
    BY <1>2, PushColumnKeeps, PushColumnThrowsKeeps, UnwindColumnKeeps, UnwoundKeeps,
       PushOutgoingKeeps, PushOutgoingThrowsKeeps, PushIncomingKeeps, PushIncomingThrowsKeeps,
       PopColumnsKeeps DEF Run
  <1>3. CASE \E source, target \in Nodes \cup {InvalidNode}, value \in Values :
                 Begin(source, target, value)
    BY <1>3, BeginKeeps
  <1> QED BY <1>1, <1>2, <1>3, BuildStatisticsKeeps DEF Next

\* The invariant holds of every reachable state.
THEOREM StoreIsWellFormed == Spec => []StoreInvariant
  BY InitInvariant, StepKeepsInvariant, PTL DEF Spec

\* Every column and hash map keeps its type, and no append hands out the invalid id
\* or goes past it (adjacency_store::append, the capacity check).
THEOREM StoreIsTyped == Spec => []TypeOK
  <1>1. StoreInvariant => TypeOK
    BY DEF StoreInvariant
  <1> QED BY <1>1, StoreIsWellFormed, PTL

\* Between calls the columns and both hash maps agree on every edge, whatever writes
\* of earlier appends threw and whatever their handlers took back.
THEOREM MapsAgreeWithColumns == Spec => []StoreConsistent
  <1>1. StoreInvariant => StoreConsistent
    <2> SUFFICES ASSUME StoreInvariant, pc = "idle" PROVE StoreConsistent
      BY DEF StoreConsistent
    <2>1. \A c \in Columns : Len(columns[c]) = size
      BY DEF StoreInvariant, ColumnsOK, Written
    <2>2. \A n : Coming(n) = {}
      BY DEF Coming
    <2> QED BY <2>1, <2>2 DEF StoreInvariant, ListsOK, StoreConsistent
  <1> QED BY <1>1, StoreIsWellFormed, PTL

\* Statistics that are called ready are those of the edges stored, after failed
\* appends as well (build_statistics, and append that makes them stale).
THEOREM StatisticsAreNeverStale == Spec => []StatisticsCurrent
  <1>1. StoreInvariant => StatisticsCurrent
    BY DEF StoreInvariant
  <1> QED BY <1>1, StoreIsWellFormed, PTL

-----------------------------------------------------------------------------
(* Appends are atomic: the store implements RowStore. *)

\* The rows stored, as RowStore sees them.
StoredRows == [i \in 1 .. size |-> [c \in Columns |-> columns[c][i]]]

\* A row is the triple of what its columns hold.
LEMMA RowFromColumns ==
    ASSUME NEW row \in Row
    PROVE  row = [c \in Columns |-> row[c]]
  BY DEF Row, Columns

LEMMA StoredRowsLength ==
    ASSUME size \in Nat
    PROVE  DOMAIN StoredRows = 1 .. size /\ Len(StoredRows) = size
  BY DEF StoredRows

\* No step touches the rows stored but the last write of an append.
LEMMA SameRows ==
    ASSUME size \in Nat, size' = size, RowsStay
    PROVE  StoredRows' = StoredRows
  BY DEF StoredRows, RowsStay

LEMMA RowIsAppended ==
    ASSUME size \in Nat, size' = size + 1, columns' = columns, pending \in Row,
           \A c \in Columns : columns[c][size + 1] = pending[c]
    PROVE  StoredRows' = Append(StoredRows, pending)
  <1>1. pending = [c \in Columns |-> columns[c][size + 1]]
    BY RowFromColumns
  <1>2. StoredRows' = [i \in 1 .. (size + 1) |-> [c \in Columns |-> columns[c][i]]]
    BY DEF StoredRows
  <1> DEFINE row(i) == [c \in Columns |-> columns[c][i]]
  <1>3. StoredRows = [i \in 1 .. size |-> row(i)] /\ pending = row(size + 1)
    BY <1>1 DEF StoredRows
  <1>4. StoredRows' = [i \in 1 .. (size + 1) |-> row(i)]
    BY <1>2
  <1> HIDE DEF row
  <1>5. Len(StoredRows) = size
    BY StoredRowsLength
  <1>6. Append(StoredRows, pending) =
            [i \in 1 .. (size + 1) |-> IF i \in 1 .. size THEN row(i) ELSE row(size + 1)]
    BY <1>3, <1>5
  <1>7. \A i \in 1 .. (size + 1) : i \in 1 .. size \/ i = size + 1
    OBVIOUS
  <1> QED BY <1>4, <1>6, <1>7

\* A step of an append is, to RowStore, its return, its failure or nothing; every other
\* step is a call or nothing.
LEMMA StepImplementsRowStore ==
    StoreInvariant /\ [Next]_vars => [Rows!Next]_<<StoredRows, pending>>
  <1> SUFFICES ASSUME StoreInvariant, [Next]_vars PROVE [Rows!Next]_<<StoredRows, pending>>
    OBVIOUS
  <1>1. size \in Nat
    BY TypeParts DEF StoreInvariant
  <1> USE DEF Rows!Next
  <1>2. CASE PushColumn \/ PushColumnThrows \/ UnwindColumn \/ PushOutgoing
             \/ PushOutgoingThrows \/ PushIncomingThrows \/ BuildStatistics
    <2>1. size' = size /\ pending' = pending
      BY <1>2 DEF PushColumn, PushColumnThrows, UnwindColumn, PushOutgoing, PushOutgoingThrows,
                  PushIncomingThrows, BuildStatistics
    <2>2. RowsStay
      <3>1. columns' = columns => RowsStay
        BY DEF RowsStay
      <3> QED BY <1>2, <3>1, PushColumnKeeps, UnwindColumnKeeps
              DEF PushColumnThrows, PushOutgoing, PushOutgoingThrows, PushIncomingThrows,
                  BuildStatistics
    <2> QED BY <1>1, <2>1, <2>2, SameRows
  <1>3. CASE \E source, target \in Nodes \cup {InvalidNode}, value \in Values :
                 Begin(source, target, value)
    <2>1. /\ size' = size /\ columns' = columns /\ pending = NoRow
          /\ pending' \in Row \/ pending' = pending
      BY <1>3 DEF Begin, StoreInvariant, CallOK, Row
    <2>2. StoredRows' = StoredRows
      BY <1>1, <2>1, SameRows DEF RowsStay
    <2> QED BY <2>1, <2>2 DEF Rows!Call, StoredRows
  <1>4. CASE Unwound \/ PopColumns
    <2>1. size' = size /\ pending # NoRow /\ pending' = NoRow
      BY <1>4 DEF Unwound, PopColumns, StoreInvariant, CallOK
    <2>2. RowsStay
      <3>1. columns' = columns => RowsStay
        BY DEF RowsStay
      <3> QED BY <1>4, <3>1, PopColumnsKeeps DEF Unwound
    <2>3. StoredRows' = StoredRows
      BY <1>1, <2>1, <2>2, SameRows
    <2> QED BY <2>1, <2>3 DEF Rows!Fail, StoredRows
  <1>5. CASE PushIncoming
    <2>1. /\ size' = size + 1 /\ columns' = columns /\ pending' = NoRow
          /\ pc = "incoming"
      BY <1>5 DEF PushIncoming
    <2>2. pending \in Row /\ pending # NoRow /\ Extent < InvalidEdgeId
      BY <2>1 DEF StoreInvariant, CallOK
    <2>3. \A c \in Columns : columns[c][size + 1] = pending[c]
      BY <2>1 DEF StoreInvariant, ColumnsOK, Written
    <2>4. StoredRows' = Append(StoredRows, pending)
      BY <1>1, <2>1, <2>2, <2>3, RowIsAppended
    <2>5. Len(StoredRows) < InvalidEdgeId - IdBase
      BY <1>1, <2>2, StoredRowsLength, AdjacencyAssumption DEF Extent
    <2> QED BY <2>1, <2>2, <2>4, <2>5 DEF Rows!Return, StoredRows
  <1>6. CASE UNCHANGED vars
    <2>1. size' = size /\ columns' = columns /\ pending' = pending
      BY <1>6 DEF vars
    <2> QED BY <1>1, <2>1, SameRows DEF RowsStay
  <1> QED BY <1>2, <1>3, <1>4, <1>5, <1>6 DEF Next, Run

\* Every append adds the row it was given or changes nothing: with all that it does
\* when a write throws, it is one step of RowStore.
THEOREM StoreImplementsRowStore == Spec => AppendsAreAtomic
  <1>1. Init => Rows!Init
    <2> SUFFICES ASSUME Init PROVE Rows!Init
      OBVIOUS
    <2>1. size = 0 /\ pending = NoRow
      BY DEF Init
    <2>2. StoredRows = <<>>
      BY <2>1 DEF StoredRows
    <2> QED BY <2>1, <2>2 DEF Rows!Init, StoredRows
  <1>2. StoreInvariant /\ [Next]_vars => [Rows!Next]_<<StoredRows, pending>>
    BY StepImplementsRowStore
  <1> QED BY <1>1, <1>2, StoreIsWellFormed, PTL DEF Spec, AppendsAreAtomic, Rows!Spec, StoredRows

=============================================================================
