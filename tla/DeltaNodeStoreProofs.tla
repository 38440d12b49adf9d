------------------------ MODULE DeltaNodeStoreProofs ------------------------
(***************************************************************************)
(* Proofs about DeltaNodeStore: for any worldlines, intervals, property    *)
(* columns and room for ids, and wherever appends and builds throw.        *)
(***************************************************************************)
EXTENDS DeltaNodeStore, ProofLemmas

-----------------------------------------------------------------------------
(* The inductive invariant. *)

Room == InvalidNodeId - IdBase
Starting == {i.from : i \in Intervals}
Entries == Starting \X Ids

\* The columns that hold an entry of the running append.
Written(c) ==
    \/ pc = "append" /\ c < at
    \/ pc = "unwinding" /\ c <= at

\* An append has a row and no ready indices; past its metadata it has an id as well.
CallOK ==
    /\ pc \in {"append", "unwinding"} <=> pending # NoRow
    /\ pc \in {"append", "unwinding"} => pending \in RowInputs
    /\ pc # "idle" => ~ready
    /\ pc = "append" => at \in Columns /\ (at > MetadataColumns + 1 => Extent < InvalidNodeId)
    /\ pc = "unwinding" => at \in 0 .. (LastColumn - 1)
    /\ pc = "build" => at \in 1 .. (size + 1)

\* A column has one entry per row and, once written, the one that is to be added.
ColumnsOK ==
    \A c \in Columns :
        IF Written(c)
        THEN Len(columns[c]) = size + 1 /\ columns[c][size + 1] = pending[c]
        ELSE Len(columns[c]) = size

ListedOn(w) == IF w \in DOMAIN worldlineIndex THEN worldlineIndex[w] ELSE <<>>
OnWorldline(w, n) == {IdOf(i) : i \in {j \in 1 .. n : columns[1][j] = w}}
Starts(c, n) == [i \in 1 .. n |-> <<columns[c][i].from, IdOf(i)>>]

\* A build has listed the rows before the one it is at.
BuildOK ==
    pc = "build" =>
        /\ \A w \in Worldlines : InOrder(ListedOn(w), OnWorldline(w, at - 1))
        /\ validIndex = Starts(2, at - 1) /\ transactionIndex = Starts(3, at - 1)

\* Indices that are ready list all rows, those by time in some order of their times.
ReadyOK ==
    ready =>
        /\ \A w \in Worldlines : InOrder(ListedOn(w), OnWorldline(w, size))
        /\ validIndex \in SortedByTime(Starts(2, size))
        /\ transactionIndex \in SortedByTime(Starts(3, size))
        /\ propertyRows = [row \in 1 .. size |-> IdOf(row)]

NodeStoreInvariant == TypeOK /\ CallOK /\ ColumnsOK /\ BuildOK /\ ReadyOK

\* What TypeOK says of the indices.
IndexTypes ==
    /\ \A w \in DOMAIN worldlineIndex : w \in Worldlines /\ worldlineIndex[w] \in Seq(Ids)
    /\ validIndex \in Seq(Entries) /\ transactionIndex \in Seq(Entries)
    /\ propertyRows \in Seq(Ids)
    /\ \A c \in PropertyColumns : histograms[c].buckets \in [Buckets -> 0 .. Room]

StoreTypes ==
    /\ DOMAIN columns = Columns
    /\ \A c \in Columns : columns[c] \in Seq(ColumnType[c])
    /\ size \in 0 .. Room
    /\ pc \in {"idle", "append", "unwinding", "build"}
    /\ at \in 0 .. (LastColumn + InvalidNodeId)
    /\ pending = NoRow \/ IsRow(pending)

LEMMA TypeParts == TypeOK <=> IndexTypes /\ StoreTypes /\ ready \in BOOLEAN
  BY DEF TypeOK, IndexTypes, StoreTypes, Entries, Starting, Room

LEMMA TypePartsNext == IndexTypes' /\ StoreTypes' /\ ready' \in BOOLEAN => TypeOK'
  BY DEF TypeOK, IndexTypes, StoreTypes, Entries, Starting, Room

LEMMA Constants ==
    /\ LastColumn \in Nat /\ LastColumn >= 5 /\ MetadataColumns = 4
    /\ Columns = 1 .. LastColumn /\ PropertyColumns \subseteq Columns
    /\ IdBase \in Nat /\ InvalidNodeId \in Nat /\ Room \in Nat
    /\ Ids \subseteq Nat
  BY NodeStoreAssumption DEF LastColumn, MetadataColumns, Columns, PropertyColumns, Room, Ids

LEMMA RowFacts ==
    /\ NoRow \notin RowInputs
    /\ \A row \in RowInputs : /\ IsRow(row) /\ row # NoRow /\ DOMAIN row = Columns
                              /\ \A c \in Columns : row[c] \in ColumnType[c]
                              /\ row = [c \in Columns |-> row[c]]
                              /\ row[1] # NoWorldline
  <1>1. 1 \in Columns /\ DOMAIN NoRow = {}
    BY Constants DEF NoRow
  <1>2. ASSUME NEW row \in RowInputs
        PROVE  /\ IsRow(row) /\ DOMAIN row = Columns
               /\ \A c \in Columns : row[c] \in ColumnType[c]
               /\ row = [c \in Columns |-> row[c]]
    BY RowAssumption DEF IsRow
  <1>3. ColumnType[1] = Worldlines
    BY <1>1 DEF ColumnType
  <1> QED BY <1>1, <1>2, <1>3, NodeStoreAssumption

\* A step that leaves the indices alone, and leaves them not ready.
LEMMA IndicesAreUnread ==
    ASSUME IndexTypes, UNCHANGED indices, ready' = FALSE, pc' # "build"
    PROVE  IndexTypes' /\ BuildOK' /\ ReadyOK'
  <1>1. IndexTypes'
    BY DEF IndexTypes, indices
  <1> QED BY <1>1 DEF BuildOK, ReadyOK

LEMMA InitInvariant == Init => NodeStoreInvariant
  <1> SUFFICES ASSUME Init PROVE NodeStoreInvariant
    OBVIOUS
  <1>1. size = 0 /\ pc = "idle" /\ pending = NoRow /\ ready = FALSE /\ at = 1
    BY DEF Init
  <1>2. \A c \in Columns : columns[c] = <<>>
    BY DEF Init
  <1>3. StoreTypes
    BY <1>1, <1>2, Constants, EmptySeq DEF Init, StoreTypes
  <1>4. IndexTypes
    <2>1. DOMAIN worldlineIndex = {}
      BY DEF Init, EmptyMap
    <2>2. validIndex \in Seq(Entries) /\ transactionIndex \in Seq(Entries) /\ propertyRows \in Seq(Ids)
      BY EmptySeq DEF Init
    <2>3. \A c \in PropertyColumns : histograms[c].buckets \in [Buckets -> 0 .. Room]
      BY Constants DEF Init, NoHistogram
    <2> QED BY <2>1, <2>2, <2>3 DEF IndexTypes
  <1>5. CallOK
    BY <1>1 DEF CallOK
  <1>6. ColumnsOK
    BY <1>1, <1>2, EmptySeq DEF ColumnsOK, Written
  <1> QED BY <1>1, <1>3, <1>4, <1>5, <1>6, TypeParts DEF NodeStoreInvariant, BuildOK, ReadyOK

LEMMA BeginKeeps ==
    ASSUME NodeStoreInvariant,
           NEW row \in RowInputs \cup {[r EXCEPT ![1] = NoWorldline] : r \in RowInputs},
           Begin(row)
    PROVE  NodeStoreInvariant'
  <1>1. row \in RowInputs
    <2> SUFFICES ASSUME NEW r \in RowInputs, row = [r EXCEPT ![1] = NoWorldline] PROVE FALSE
      OBVIOUS
    <2>1. row[1] = NoWorldline
      BY RowFacts, Constants
    <2> QED BY <2>1 DEF Begin
  <1>2. /\ pc = "idle" /\ ready' = FALSE /\ at' = 1
        /\ \/ pc' = "append" /\ pending' = row
           \/ pc' = "idle" /\ pending' = pending
        /\ UNCHANGED <<columns, size, indices>>
    BY DEF Begin, store
  <1>3. pending = NoRow
    BY <1>2 DEF NodeStoreInvariant, CallOK
  <1>4. StoreTypes'
    BY <1>1, <1>2, <1>3, Constants, RowFacts, TypeParts DEF NodeStoreInvariant, StoreTypes
  <1>5. IndexTypes' /\ BuildOK' /\ ReadyOK'
    BY <1>2, TypeParts, IndicesAreUnread DEF NodeStoreInvariant
  <1>6. CallOK'
    BY <1>1, <1>2, <1>3, Constants, RowFacts DEF CallOK
  <1>7. ColumnsOK'
    BY <1>2, Constants DEF NodeStoreInvariant, ColumnsOK, Written
  <1>8. ready' \in BOOLEAN
    BY <1>2
  <1>9. TypeOK'
    BY <1>4, <1>5, <1>8, TypePartsNext
  <1> QED BY <1>5, <1>6, <1>7, <1>9 DEF NodeStoreInvariant

LEMMA PushColumnKeeps ==
    ASSUME NodeStoreInvariant, PushColumn
    PROVE  /\ NodeStoreInvariant'
           /\ \A c \in Columns : \A i \in 1 .. size : columns'[c][i] = columns[c][i]
           /\ pc' = "idle" => \A c \in Columns : columns'[c][size + 1] = pending[c]
  <1>1. /\ pc = "append" /\ ~Full /\ UNCHANGED <<indices, ready>>
        /\ columns' = [columns EXCEPT ![at] = Append(@, pending[at])]
    BY DEF PushColumn
  <1>2. /\ at \in Columns /\ pending \in RowInputs /\ ready = FALSE /\ pending # NoRow
        /\ at > MetadataColumns + 1 => Extent < InvalidNodeId
    BY <1>1 DEF NodeStoreInvariant, CallOK, TypeOK
  <1>3. StoreTypes /\ IndexTypes /\ ColumnsOK /\ size \in Nat
    BY TypeParts, Constants DEF NodeStoreInvariant, StoreTypes
  <1>4. \A c \in Columns : Written(c) <=> c < at
    BY <1>1 DEF Written
  <1>5. /\ Len(columns[at]) = size /\ columns[at] \in Seq(ColumnType[at])
        /\ pending[at] \in ColumnType[at] /\ DOMAIN columns = Columns
    BY <1>2, <1>3, <1>4, RowFacts, Constants DEF ColumnsOK, StoreTypes
  <1> DEFINE longer == Append(columns[at], pending[at])
  <1>6. /\ longer \in Seq(ColumnType[at]) /\ Len(longer) = size + 1
        /\ longer[size + 1] = pending[at]
        /\ \A i \in 1 .. size : longer[i] = columns[at][i]
    <2> DEFINE S == ColumnType[at]  s == columns[at]  e == pending[at]
    <2>1. s \in Seq(S) /\ e \in S /\ Len(s) = size
      BY <1>5
    <2> HIDE DEF S, s, e
    <2>2. /\ Append(s, e) \in Seq(S) /\ Len(Append(s, e)) = Len(s) + 1
          /\ Append(s, e)[Len(s) + 1] = e
          /\ \A i \in 1 .. Len(s) : Append(s, e)[i] = s[i]
      BY <2>1, AppendType
    <2> QED BY <2>1, <2>2 DEF S, s, e
  <1>7. /\ DOMAIN columns' = Columns /\ columns'[at] = longer
        /\ \A c \in Columns \ {at} : columns'[c] = columns[c]
    BY <1>1, <1>2, <1>5
  <1> HIDE DEF longer
  <1>8. \A c \in Columns : columns'[c] \in Seq(ColumnType[c])
    BY <1>3, <1>6, <1>7 DEF StoreTypes
  <1>9. \A c \in Columns : IF c <= at
                           THEN Len(columns'[c]) = size + 1 /\ columns'[c][size + 1] = pending[c]
                           ELSE Len(columns'[c]) = size
    <2> SUFFICES ASSUME NEW c \in Columns
                 PROVE  IF c <= at
                        THEN Len(columns'[c]) = size + 1 /\ columns'[c][size + 1] = pending[c]
                        ELSE Len(columns'[c]) = size
      OBVIOUS
    <2>1. CASE c = at
      BY <1>2, <1>6, <1>7, <2>1, Constants
    <2>2. CASE c # at
      <3>1. c <= at <=> Written(c)
        BY <1>2, <1>4, <2>2, Constants
      <3> QED BY <1>3, <1>7, <2>2, <3>1 DEF ColumnsOK
    <2> QED BY <2>1, <2>2
  <1>10. \A c \in Columns : \A i \in 1 .. size : columns'[c][i] = columns[c][i]
    BY <1>6, <1>7
  <1>11. CASE at < LastColumn
    <2>1. at' = at + 1 /\ UNCHANGED <<size, pc, pending>>
      BY <1>11 DEF PushColumn
    <2>2. pc' = "append" /\ at' \in Columns /\ Extent' = Extent
      BY <1>1, <1>2, <1>11, <2>1, Constants DEF Extent
    <2>3. StoreTypes'
      BY <1>3, <1>7, <1>8, <2>1, <2>2, Constants DEF StoreTypes
    <2>4. IndexTypes' /\ BuildOK' /\ ReadyOK' /\ ready' = FALSE
      BY <1>1, <1>2, <1>3, <2>2, IndicesAreUnread
    <2>5. at' > MetadataColumns + 1 => Extent' < InvalidNodeId
      BY <1>1, <1>2, <1>3, <2>1, <2>2, Constants DEF Full, Extent
    <2>6. CallOK'
      BY <1>1, <1>2, <2>1, <2>2, <2>4, <2>5 DEF CallOK
    <2>7. \A c \in Columns : Written(c)' <=> c <= at
      BY <1>2, <2>1, <2>2, Constants DEF Written
    <2>8. ColumnsOK'
      BY <1>9, <2>1, <2>7 DEF ColumnsOK
    <2>9. TypeOK'
      BY <2>3, <2>4, TypePartsNext
    <2> QED BY <1>10, <2>2, <2>4, <2>6, <2>8, <2>9 DEF NodeStoreInvariant
  <1>12. CASE ~(at < LastColumn)
    <2>1. size' = size + 1 /\ pc' = "idle" /\ at' = 1 /\ pending' = NoRow
      BY <1>12 DEF PushColumn, Finish
    <2>2. at = LastColumn /\ \A c \in Columns : c <= at
      BY <1>2, <1>12, Constants
    <2>3. size + 1 \in 0 .. Room
      <3>1. Extent < InvalidNodeId
        BY <1>1, <1>2, <1>3, <2>2, Constants DEF Full, Extent
      <3> QED BY <1>3, <3>1, Constants DEF Extent, Room
    <2>4. StoreTypes'
      BY <1>7, <1>8, <2>1, <2>3, Constants DEF StoreTypes
    <2>5. IndexTypes' /\ BuildOK' /\ ReadyOK' /\ ready' = FALSE
      BY <1>1, <1>2, <1>3, <2>1, IndicesAreUnread
    <2>6. CallOK'
      BY <2>1 DEF CallOK
    <2>7. ColumnsOK'
      BY <1>9, <2>1, <2>2 DEF ColumnsOK, Written
    <2>8. TypeOK'
      BY <2>4, <2>5, TypePartsNext
    <2>9. \A c \in Columns : columns'[c][size + 1] = pending[c]
      BY <1>9, <2>2
    <2> QED BY <1>10, <2>5, <2>6, <2>7, <2>8, <2>9 DEF NodeStoreInvariant
  <1> QED BY <1>11, <1>12

LEMMA PushColumnFailsKeeps ==
    ASSUME NodeStoreInvariant, PushColumnFails
    PROVE  NodeStoreInvariant'
  <1>1. /\ pc = "append" /\ pc' = "unwinding" /\ at' = at - 1
        /\ UNCHANGED <<columns, size, indices, ready, pending>>
    BY DEF PushColumnFails, store
  <1>2. at \in Columns /\ pending \in RowInputs /\ ready = FALSE /\ pending # NoRow
    BY <1>1 DEF NodeStoreInvariant, CallOK, TypeOK
  <1>3. StoreTypes /\ IndexTypes
    BY TypeParts DEF NodeStoreInvariant
  <1>4. at' \in 0 .. (LastColumn - 1)
    BY <1>1, <1>2, Constants
  <1>5. StoreTypes'
    BY <1>1, <1>3, <1>4, Constants DEF StoreTypes
  <1>6. IndexTypes' /\ BuildOK' /\ ReadyOK' /\ ready' = FALSE
    BY <1>1, <1>2, <1>3, IndicesAreUnread
  <1>7. CallOK'
    BY <1>1, <1>2, <1>4, <1>6 DEF CallOK
  <1>8. \A c \in Columns : Written(c)' <=> Written(c)
    BY <1>1, <1>2, Constants DEF Written
  <1>9. ColumnsOK'
    BY <1>1, <1>8 DEF NodeStoreInvariant, ColumnsOK
  <1>10. TypeOK'
    BY <1>5, <1>6, TypePartsNext
  <1> QED BY <1>6, <1>7, <1>9, <1>10 DEF NodeStoreInvariant

\* Taking the last entries of some columns back.
LEMMA ColumnsAreCut ==
    ASSUME StoreTypes, ColumnsOK, NEW cut, \A c \in cut : c \in Columns /\ Written(c),
           DOMAIN columns' = Columns,
           \A c \in Columns : columns'[c] = IF c \in cut THEN Front(columns[c]) ELSE columns[c]
    PROVE  /\ \A c \in Columns : columns'[c] \in Seq(ColumnType[c])
           /\ \A c \in cut : Len(columns'[c]) = size
           /\ \A c \in Columns : \A i \in 1 .. size : columns'[c][i] = columns[c][i]
  <1>1. size \in Nat
    BY Constants DEF StoreTypes
  <1>2. ASSUME NEW c \in cut
        PROVE  /\ columns'[c] \in Seq(ColumnType[c]) /\ Len(columns'[c]) = size
               /\ \A i \in 1 .. size : columns'[c][i] = columns[c][i]
    <2> DEFINE S == ColumnType[c]  s == columns[c]
    <2>1. s \in Seq(S) /\ Len(s) = size + 1 /\ columns'[c] = Front(s)
      BY <1>2 DEF StoreTypes, ColumnsOK
    <2> HIDE DEF S, s
    <2>2. /\ Front(s) \in Seq(S) /\ Len(Front(s)) = Len(s) - 1
          /\ \A i \in 1 .. (Len(s) - 1) : Front(s)[i] = s[i]
      BY <1>1, <2>1, FrontType
    <2>3. Len(s) - 1 = size
      BY <1>1, <2>1
    <2> QED BY <2>1, <2>2, <2>3 DEF S, s
  <1>3. \A c \in Columns \ cut : columns'[c] = columns[c] /\ columns[c] \in Seq(ColumnType[c])
    BY DEF StoreTypes
  <1> QED BY <1>2, <1>3

LEMMA UnwindColumnKeeps ==
    ASSUME NodeStoreInvariant, UnwindColumn
    PROVE  /\ NodeStoreInvariant'
           /\ \A c \in Columns : \A i \in 1 .. size : columns'[c][i] = columns[c][i]
  <1>1. /\ pc = "unwinding" /\ at \in Columns \ {MetadataColumns}
        /\ columns' = [columns EXCEPT ![at] = Front(@)] /\ at' = at - 1
        /\ UNCHANGED <<size, indices, ready, pc, pending>>
    BY DEF UnwindColumn
  <1>2. /\ at \in 0 .. (LastColumn - 1) /\ pending \in RowInputs /\ ready = FALSE
        /\ pending # NoRow
    BY <1>1 DEF NodeStoreInvariant, CallOK, TypeOK
  <1>3. StoreTypes /\ IndexTypes /\ ColumnsOK
    BY TypeParts DEF NodeStoreInvariant
  <1>4. \A c \in Columns : Written(c) <=> c <= at
    BY <1>1 DEF Written
  <1>5. /\ DOMAIN columns' = Columns
        /\ \A c \in Columns : columns'[c] = IF c \in {at} THEN Front(columns[c]) ELSE columns[c]
    BY <1>1, <1>3 DEF StoreTypes
  <1>6. \A c \in {at} : c \in Columns /\ Written(c)
    BY <1>1, <1>4, Constants
  <1>7. /\ \A c \in Columns : columns'[c] \in Seq(ColumnType[c])
        /\ \A c \in {at} : Len(columns'[c]) = size
        /\ \A c \in Columns : \A i \in 1 .. size : columns'[c][i] = columns[c][i]
    <2> DEFINE cut == {at}
    <2>1. /\ \A c \in cut : c \in Columns /\ Written(c)
          /\ \A c \in Columns : columns'[c] = IF c \in cut THEN Front(columns[c]) ELSE columns[c]
      BY <1>5, <1>6
    <2> HIDE DEF cut
    <2>2. /\ \A c \in Columns : columns'[c] \in Seq(ColumnType[c])
          /\ \A c \in cut : Len(columns'[c]) = size
          /\ \A c \in Columns : \A i \in 1 .. size : columns'[c][i] = columns[c][i]
      BY <1>3, <1>5, <2>1, ColumnsAreCut
    <2> QED BY <2>2 DEF cut
  <1>8. at' \in 0 .. (LastColumn - 1)
    BY <1>1, <1>2, Constants
  <1>9. StoreTypes'
    BY <1>1, <1>3, <1>5, <1>7, <1>8, Constants DEF StoreTypes
  <1>10. IndexTypes' /\ BuildOK' /\ ReadyOK' /\ ready' = FALSE
    BY <1>1, <1>2, <1>3, IndicesAreUnread
  <1>11. CallOK'
    BY <1>1, <1>2, <1>8, <1>10 DEF CallOK
  <1>12. \A c \in Columns : Written(c)' <=> Written(c) /\ c # at
    BY <1>1, <1>2, <1>4, Constants DEF Written
  <1>13. ColumnsOK'
    BY <1>1, <1>3, <1>5, <1>7, <1>12 DEF ColumnsOK
  <1>14. TypeOK'
    BY <1>9, <1>10, TypePartsNext
  <1> QED BY <1>7, <1>10, <1>11, <1>13, <1>14 DEF NodeStoreInvariant

LEMMA PopMetadataKeeps ==
    ASSUME NodeStoreInvariant, PopMetadata
    PROVE  /\ NodeStoreInvariant'
           /\ \A c \in Columns : \A i \in 1 .. size : columns'[c][i] = columns[c][i]
  <1>1. /\ pc = "unwinding" /\ at = MetadataColumns
        /\ columns' = [c \in Columns |-> IF c <= MetadataColumns THEN Front(columns[c])
                                                                 ELSE columns[c]]
        /\ pc' = "idle" /\ at' = 1 /\ pending' = NoRow
        /\ UNCHANGED <<size, indices, ready>>
    BY DEF PopMetadata, Finish
  <1>2. ready = FALSE
    BY <1>1 DEF NodeStoreInvariant, CallOK, TypeOK
  <1>3. StoreTypes /\ IndexTypes /\ ColumnsOK
    BY TypeParts DEF NodeStoreInvariant
  <1>4. PICK cut : cut = {c \in Columns : c <= MetadataColumns}
    OBVIOUS
  <1>5. \A c \in Columns : Written(c) <=> c \in cut
    BY <1>1, <1>4 DEF Written
  <1>6. /\ DOMAIN columns' = Columns /\ \A c \in cut : c \in Columns /\ Written(c)
        /\ \A c \in Columns : columns'[c] = IF c \in cut THEN Front(columns[c]) ELSE columns[c]
    BY <1>1, <1>4, <1>5
  <1>7. /\ \A c \in Columns : columns'[c] \in Seq(ColumnType[c])
        /\ \A c \in cut : Len(columns'[c]) = size
        /\ \A c \in Columns : \A i \in 1 .. size : columns'[c][i] = columns[c][i]
    BY <1>3, <1>6, ColumnsAreCut
  <1>8. StoreTypes'
    BY <1>1, <1>3, <1>6, <1>7, Constants DEF StoreTypes
  <1>9. IndexTypes' /\ BuildOK' /\ ReadyOK' /\ ready' = FALSE
    BY <1>1, <1>2, <1>3, IndicesAreUnread
  <1>10. CallOK'
    BY <1>1, <1>9 DEF CallOK
  <1>11. \A c \in Columns : ~Written(c)'
    BY <1>1 DEF Written
  <1>12. ColumnsOK'
    BY <1>1, <1>3, <1>5, <1>6, <1>7, <1>11 DEF ColumnsOK
  <1>13. TypeOK'
    BY <1>8, <1>9, TypePartsNext
  <1> QED BY <1>7, <1>9, <1>10, <1>12, <1>13 DEF NodeStoreInvariant

LEMMA UnwoundKeeps ==
    ASSUME NodeStoreInvariant, Unwound
    PROVE  NodeStoreInvariant'
  <1>1. /\ pc = "unwinding" /\ at = 0 /\ pc' = "idle" /\ at' = 1 /\ pending' = NoRow
        /\ UNCHANGED <<columns, size, indices, ready>>
    BY DEF Unwound, Finish, store
  <1>2. ready = FALSE
    BY <1>1 DEF NodeStoreInvariant, CallOK, TypeOK
  <1>3. StoreTypes /\ IndexTypes /\ ColumnsOK
    BY TypeParts DEF NodeStoreInvariant
  <1>4. StoreTypes'
    BY <1>1, <1>3, Constants DEF StoreTypes
  <1>5. IndexTypes' /\ BuildOK' /\ ReadyOK' /\ ready' = FALSE
    BY <1>1, <1>2, <1>3, IndicesAreUnread
  <1>6. CallOK'
    BY <1>1, <1>5 DEF CallOK
  <1>7. \A c \in Columns : ~Written(c)' /\ ~Written(c)
    BY <1>1, Constants DEF Written
  <1>8. ColumnsOK'
    BY <1>1, <1>3, <1>7 DEF ColumnsOK
  <1>9. TypeOK'
    BY <1>4, <1>5, TypePartsNext
  <1> QED BY <1>5, <1>6, <1>8, <1>9 DEF NodeStoreInvariant

-----------------------------------------------------------------------------
(* Building the indices. *)

\* What rows are stored, and the entries that indices have for them.
LEMMA StoredRow ==
    ASSUME StoreTypes, ColumnsOK, NEW row \in 1 .. size
    PROVE  /\ columns[1][row] \in Worldlines
           /\ columns[2][row] \in Intervals /\ columns[3][row] \in Intervals
           /\ IdOf(row) \in Ids
           /\ <<columns[2][row].from, IdOf(row)>> \in Entries
           /\ <<columns[3][row].from, IdOf(row)>> \in Entries
  <1>1. size \in Nat /\ size <= Room
    BY Constants DEF StoreTypes
  <1>2. ASSUME NEW c \in Columns PROVE columns[c][row] \in ColumnType[c]
    <2> DEFINE S == ColumnType[c]  s == columns[c]
    <2>1. s \in Seq(S) /\ row \in 1 .. Len(s)
      BY <1>1 DEF StoreTypes, ColumnsOK
    <2> HIDE DEF S, s
    <2>2. s[row] \in S
      BY <2>1, ElementOfSeq
    <2> QED BY <2>2 DEF S, s
  <1>3. 1 \in Columns /\ 2 \in Columns /\ 3 \in Columns
    BY Constants
  <1>4. ColumnType[1] = Worldlines /\ ColumnType[2] = Intervals /\ ColumnType[3] = Intervals
    BY <1>3 DEF ColumnType
  <1>5. IdOf(row) \in Ids
    BY <1>1, Constants DEF IdOf, Ids, Room
  <1> QED BY <1>2, <1>3, <1>4, <1>5 DEF Entries, Starting

LEMMA BeginBuildKeeps ==
    ASSUME NodeStoreInvariant, BeginBuild
    PROVE  NodeStoreInvariant'
  <1>1. /\ pc = "idle" /\ pc' = "build" /\ at' = 1 /\ ready' = FALSE
        /\ worldlineIndex' = EmptyMap /\ validIndex' = <<>> /\ transactionIndex' = <<>>
        /\ UNCHANGED <<columns, size, propertyRows, histograms, pending>>
    BY DEF BeginBuild, store
  <1>2. StoreTypes /\ IndexTypes /\ ColumnsOK /\ pending = NoRow /\ size \in Nat
    BY <1>1, TypeParts, Constants DEF NodeStoreInvariant, CallOK, StoreTypes
  <1>3. StoreTypes'
    BY <1>1, <1>2, Constants DEF StoreTypes
  <1>4. IndexTypes'
    BY <1>1, <1>2, EmptySeq DEF IndexTypes, EmptyMap
  <1>5. CallOK'
    BY <1>1, <1>2 DEF CallOK
  <1>6. ColumnsOK'
    BY <1>1, <1>2 DEF ColumnsOK, Written
  <1>7. BuildOK'
    <2>1. ASSUME NEW w \in Worldlines PROVE InOrder(ListedOn(w)', OnWorldline(w, at - 1)')
      <3>1. ListedOn(w)' = <<>>
        BY <1>1 DEF ListedOn, EmptyMap
      <3>2. OnWorldline(w, at - 1)' = {}
        BY <1>1 DEF OnWorldline
      <3> QED BY <3>1, <3>2, EmptyInOrder
    <2>2. Starts(2, at - 1)' = <<>> /\ Starts(3, at - 1)' = <<>>
      BY <1>1 DEF Starts
    <2> QED BY <1>1, <2>1, <2>2 DEF BuildOK
  <1>8. ready' \in BOOLEAN /\ ReadyOK'
    BY <1>1 DEF ReadyOK
  <1>9. TypeOK'
    BY <1>3, <1>4, <1>8, TypePartsNext
  <1> QED BY <1>5, <1>6, <1>7, <1>8, <1>9 DEF NodeStoreInvariant

\* One more row at the end of a time index.
LEMMA StartsGrow ==
    ASSUME NEW n \in Nat, NEW c \in {2, 3}, Starts(c, n) \in Seq(Entries),
           NEW entry \in Entries, entry = <<columns[c][n + 1].from, IdOf(n + 1)>>
    PROVE  Append(Starts(c, n), entry) = Starts(c, n + 1)
  <1> DEFINE list == Starts(c, n)  longer == Append(list, entry)
  <1>1. DOMAIN list = 1 .. n /\ \A i \in 1 .. n : list[i] = <<columns[c][i].from, IdOf(i)>>
    BY DEF Starts
  <1> HIDE DEF list
  <1>2. list \in Seq(Entries) /\ Len(list) = n
    <2>1. list \in Seq(Entries)
      BY DEF list
    <2> QED BY <1>1, <2>1, LenProperties
  <1>3. /\ longer \in Seq(Entries) /\ Len(longer) = n + 1 /\ longer[n + 1] = entry
        /\ \A i \in 1 .. n : longer[i] = list[i]
    BY <1>2, AppendType
  <1>4. longer = [i \in 1 .. (n + 1) |-> longer[i]]
    BY <1>3, LenProperties
  <1> HIDE DEF longer
  <1>5. \A i \in 1 .. (n + 1) : longer[i] = <<columns[c][i].from, IdOf(i)>>
    BY <1>1, <1>3
  <1>6. longer = Starts(c, n + 1)
    BY <1>4, <1>5 DEF Starts
  <1> QED BY <1>6 DEF longer, list

LEMMA BuildRowKeeps ==
    ASSUME NodeStoreInvariant, BuildRow
    PROVE  NodeStoreInvariant'
  <1>1. /\ pc = "build" /\ at <= size /\ at' = at + 1
        /\ worldlineIndex' = WithEntry(worldlineIndex, columns[1][at], IdOf(at))
        /\ validIndex' = Append(validIndex, <<columns[2][at].from, IdOf(at)>>)
        /\ transactionIndex' = Append(transactionIndex, <<columns[3][at].from, IdOf(at)>>)
        /\ UNCHANGED <<columns, size, propertyRows, histograms, ready, pc, pending>>
    BY DEF BuildRow, store
  <1>2. /\ StoreTypes /\ IndexTypes /\ ColumnsOK /\ pending = NoRow /\ size \in Nat /\ size <= Room
        /\ ready = FALSE /\ at \in 1 .. (size + 1)
    BY <1>1, TypeParts, Constants DEF NodeStoreInvariant, CallOK, StoreTypes, TypeOK
  <1>c. PICK k : k = at
    OBVIOUS
  <1>3. k \in 1 .. size /\ k - 1 \in Nat /\ (k - 1) + 1 = k /\ at' - 1 = k
    BY <1>1, <1>2, <1>c
  <1>a. PICK w : w = columns[1][at]
    OBVIOUS
  <1>b. PICK id : id = IdOf(at)
    OBVIOUS
  <1>4. /\ w \in Worldlines /\ id \in Ids /\ id \in Nat
        /\ <<columns[2][at].from, id>> \in Entries /\ <<columns[3][at].from, id>> \in Entries
    BY <1>2, <1>3, <1>a, <1>b, <1>c, StoredRow, Constants
  <1>5. /\ \A v \in Worldlines : InOrder(ListedOn(v), OnWorldline(v, at - 1))
        /\ validIndex = Starts(2, at - 1) /\ transactionIndex = Starts(3, at - 1)
    BY <1>1 DEF NodeStoreInvariant, BuildOK
  <1>6. \A v : ListedOn(v) \in Seq(Ids) /\ ListedOn(v) \in Seq(Nat)
    BY <1>2, EmptySeq, SeqMonotonic, Constants DEF ListedOn, IndexTypes
  <1>7. /\ DOMAIN worldlineIndex' = DOMAIN worldlineIndex \cup {w}
        /\ \A v \in DOMAIN worldlineIndex' :
               worldlineIndex'[v] = IF v = w THEN Append(ListedOn(w), id) ELSE ListedOn(v)
    <2>1. \A v \in DOMAIN worldlineIndex \cup {w} :
              WithEntry(worldlineIndex, w, id)[v] =
                  ListedOn(v) \o (IF v = w THEN <<id>> ELSE <<>>)
      BY DEF WithEntry, ListedOn
    <2>2. ListedOn(w) \o <<id>> = Append(ListedOn(w), id)
      BY <1>4, <1>6, AppendIsConcat
    <2>3. \A v : ListedOn(v) \o <<>> = ListedOn(v)
      BY <1>6, ConcatEmptySeq
    <2>4. DOMAIN WithEntry(worldlineIndex, w, id) = DOMAIN worldlineIndex \cup {w}
      BY DEF WithEntry
    <2> QED BY <1>1, <1>a, <1>b, <2>1, <2>2, <2>3, <2>4
  <1>8. \A v : ListedOn(v)' = IF v = w THEN Append(ListedOn(w), id) ELSE ListedOn(v)
    BY <1>7 DEF ListedOn
  <1>9. Append(ListedOn(w), id) \in Seq(Ids)
    BY <1>4, <1>6, AppendProperties
  <1>10. StoreTypes'
    BY <1>1, <1>2, <1>3, Constants DEF StoreTypes, Room
  <1>11. /\ validIndex' = Starts(2, k)' /\ transactionIndex' = Starts(3, k)'
         /\ validIndex' \in Seq(Entries) /\ transactionIndex' \in Seq(Entries)
    <2>1. Starts(2, k)' = Starts(2, k) /\ Starts(3, k)' = Starts(3, k)
      BY <1>1 DEF Starts, IdOf
    <2>2. Append(validIndex, <<columns[2][k].from, id>>) = Starts(2, k)
      BY <1>2, <1>3, <1>4, <1>5, <1>b, <1>c, StartsGrow DEF IndexTypes
    <2>3. Append(transactionIndex, <<columns[3][k].from, id>>) = Starts(3, k)
      BY <1>2, <1>3, <1>4, <1>5, <1>b, <1>c, StartsGrow DEF IndexTypes
    <2>4. /\ Append(validIndex, <<columns[2][k].from, id>>) \in Seq(Entries)
          /\ Append(transactionIndex, <<columns[3][k].from, id>>) \in Seq(Entries)
      BY <1>2, <1>4, <1>c, AppendProperties DEF IndexTypes
    <2> QED BY <1>1, <1>b, <1>c, <2>1, <2>2, <2>3, <2>4
  <1>12. IndexTypes'
    <2>1. \A v \in DOMAIN worldlineIndex' :
              v \in Worldlines /\ worldlineIndex'[v] \in Seq(Ids)
      BY <1>2, <1>4, <1>6, <1>7, <1>9 DEF IndexTypes
    <2> QED BY <1>1, <1>2, <1>11, <2>1 DEF IndexTypes
  <1>13. CallOK'
    BY <1>1, <1>2, <1>3 DEF CallOK
  <1>14. ColumnsOK'
    BY <1>1, <1>2 DEF ColumnsOK, Written
  <1>15. BuildOK'
    <2>1. ASSUME NEW v \in Worldlines PROVE InOrder(ListedOn(v)', OnWorldline(v, k)')
      <3>1. OnWorldline(v, k)' = OnWorldline(v, k)
        BY <1>1 DEF OnWorldline, IdOf
      <3>2. OnWorldline(v, k) = OnWorldline(v, k - 1) \cup (IF v = w THEN {id} ELSE {})
        <4>1. \A i : i \in 1 .. k <=> i \in 1 .. (k - 1) \/ i = k
          BY <1>3
        <4> QED BY <1>a, <1>b, <1>c, <4>1 DEF OnWorldline
      <3>3. \A i \in OnWorldline(v, k - 1) : i < id
        BY <1>3, <1>b, <1>c, Constants DEF OnWorldline, IdOf
      <3>4. InOrder(ListedOn(v), OnWorldline(v, k - 1))
        BY <1>5, <1>c
      <3>5. CASE v = w
        <4>1. InOrder(Append(ListedOn(v), id), OnWorldline(v, k - 1) \cup {id})
          BY <1>4, <1>6, <3>3, <3>4, AppendInOrder
        <4> QED BY <1>8, <3>1, <3>2, <3>5, <4>1
      <3>6. CASE v # w
        BY <1>8, <3>1, <3>2, <3>4, <3>6
      <3> QED BY <3>5, <3>6
    <2>2. /\ Starts(2, at - 1)' = Starts(2, k)' /\ Starts(3, at - 1)' = Starts(3, k)'
          /\ \A v : OnWorldline(v, at - 1)' = OnWorldline(v, k)'
      BY <1>3 DEF Starts, OnWorldline
    <2> QED BY <1>11, <2>1, <2>2 DEF BuildOK
  <1>16. ReadyOK' /\ ready' \in BOOLEAN
    BY <1>1, <1>2 DEF ReadyOK
  <1>17. TypeOK'
    BY <1>10, <1>12, <1>16, TypePartsNext
  <1> QED BY <1>13, <1>14, <1>15, <1>16, <1>17 DEF NodeStoreInvariant

\* Buckets count rows of the column.
LEMMA HistogramType ==
    ASSUME StoreTypes, NEW c \in Columns, Len(columns[c]) = size
    PROVE  BuildHistogram(columns[c]).buckets \in [Buckets -> 0 .. Room]
  <1> DEFINE finite == Finite(columns[c])
  <1>1. size \in Nat /\ size <= Room
    BY Constants DEF StoreTypes
  <1>2. DOMAIN columns[c] = 1 .. size
    <2> DEFINE S == ColumnType[c]  s == columns[c]
    <2>1. s \in Seq(S) /\ Len(s) = size
      BY DEF StoreTypes
    <2> HIDE DEF S, s
    <2>2. DOMAIN s = 1 .. size
      BY <2>1, LenProperties
    <2> QED BY <2>2 DEF s
  <1>3. finite \subseteq 1 .. size
    BY <1>2 DEF Finite
  <1>4. ASSUME NEW rows \in SUBSET finite PROVE Cardinality(rows) \in 0 .. Room
    <2>1. IsFiniteSet(1 .. size) /\ Cardinality(1 .. size) = size
      BY <1>1, FS_Interval
    <2>2. rows \subseteq 1 .. size
      BY <1>3
    <2>3. IsFiniteSet(rows) /\ Cardinality(rows) <= size
      BY <2>1, <2>2, FS_Subset
    <2>4. Cardinality(rows) \in Nat
      BY <2>3, FS_CardinalityType
    <2> QED BY <1>1, <2>3, <2>4, Constants
  <1>5. CASE finite = {}
    BY <1>5, Constants DEF BuildHistogram, NoHistogram
  <1>6. CASE finite # {}
    <2> DEFINE samples == {columns[c][row] : row \in finite}
               low == Min(samples)  high == Max(samples)
               counted(b) == {row \in finite : BucketOf(columns[c][row], low, high) = b}
    <2>1. BuildHistogram(columns[c]).buckets = [b \in Buckets |-> Cardinality(counted(b))]
      BY <1>6 DEF BuildHistogram
    <2>2. \A b : counted(b) \in SUBSET finite
      OBVIOUS
    <2> HIDE DEF counted, finite
    <2> QED BY <1>4, <2>1, <2>2
  <1> QED BY <1>5, <1>6

LEMMA FinishBuildKeeps ==
    ASSUME NodeStoreInvariant, FinishBuild
    PROVE  NodeStoreInvariant'
  <1>1. /\ pc = "build" /\ at > size /\ ready' = TRUE
        /\ validIndex' \in SortedByTime(validIndex)
        /\ transactionIndex' \in SortedByTime(transactionIndex)
        /\ propertyRows' = [row \in 1 .. size |-> IdOf(row)]
        /\ histograms' = [c \in PropertyColumns |-> BuildHistogram(columns[c])]
        /\ pc' = "idle" /\ at' = 1 /\ pending' = NoRow
        /\ UNCHANGED <<columns, size, worldlineIndex>>
    BY DEF FinishBuild, Finish, store
  <1>2. /\ StoreTypes /\ IndexTypes /\ ColumnsOK /\ pending = NoRow /\ size \in Nat
        /\ at - 1 = size
    BY <1>1, TypeParts, Constants DEF NodeStoreInvariant, CallOK, StoreTypes
  <1>3. \A c \in Columns : Len(columns[c]) = size
    BY <1>1, <1>2 DEF ColumnsOK, Written
  <1>4. /\ \A w \in Worldlines : InOrder(ListedOn(w), OnWorldline(w, size))
        /\ validIndex = Starts(2, size) /\ transactionIndex = Starts(3, size)
    BY <1>1, <1>2 DEF NodeStoreInvariant, BuildOK
  <1>5. StoreTypes'
    BY <1>1, <1>2, Constants DEF StoreTypes
  <1>6. IndexTypes'
    <2>1. validIndex' \in Orders(validIndex) /\ transactionIndex' \in Orders(transactionIndex)
      BY <1>1 DEF SortedByTime
    <2>2. validIndex' \in Seq(Entries) /\ transactionIndex' \in Seq(Entries)
      BY <1>2, <2>1, OrderType DEF IndexTypes
    <2>3. propertyRows' \in Seq(Ids)
      <3>1. \A row \in 1 .. size : IdOf(row) \in Ids
        BY <1>2, StoredRow
      <3>2. propertyRows' \in [1 .. size -> Ids]
        BY <1>1, <3>1
      <3> QED BY <1>2, <3>2, SeqDef
    <2>4. \A c \in PropertyColumns : histograms'[c].buckets \in [Buckets -> 0 .. Room]
      BY <1>1, <1>2, <1>3, HistogramType, Constants
    <2> QED BY <1>1, <1>2, <2>2, <2>3, <2>4 DEF IndexTypes
  <1>7. CallOK'
    BY <1>1 DEF CallOK
  <1>8. ColumnsOK'
    BY <1>1, <1>3 DEF ColumnsOK, Written
  <1>9. BuildOK'
    BY <1>1 DEF BuildOK
  <1>10. ReadyOK'
    <2>1. Starts(2, size)' = Starts(2, size) /\ Starts(3, size)' = Starts(3, size)
      BY <1>1 DEF Starts, IdOf
    <2>2. ASSUME NEW w \in Worldlines PROVE InOrder(ListedOn(w)', OnWorldline(w, size)')
      <3>1. ListedOn(w)' = ListedOn(w) /\ OnWorldline(w, size)' = OnWorldline(w, size)
        BY <1>1 DEF ListedOn, OnWorldline, IdOf
      <3> QED BY <1>4, <3>1
    <2>3. /\ validIndex' \in SortedByTime(Starts(2, size)')
          /\ transactionIndex' \in SortedByTime(Starts(3, size)')
      BY <1>1, <1>4, <2>1
    <2>4. propertyRows' = [row \in 1 .. size' |-> IdOf(row)']
      BY <1>1 DEF IdOf
    <2> QED BY <2>2, <2>3, <2>4 DEF ReadyOK
  <1>11. ready' \in BOOLEAN
    BY <1>1
  <1>12. TypeOK'
    BY <1>5, <1>6, <1>11, TypePartsNext
  <1> QED BY <1>7, <1>8, <1>9, <1>10, <1>12 DEF NodeStoreInvariant

LEMMA BuildThrowsKeeps ==
    ASSUME NodeStoreInvariant, BuildThrows
    PROVE  NodeStoreInvariant'
  <1>1. /\ pc = "build" /\ pc' = "idle" /\ at' = 1 /\ pending' = NoRow
        /\ UNCHANGED <<columns, size, indices, ready>>
    BY DEF BuildThrows, Finish, store
  <1>2. ready = FALSE
    BY <1>1 DEF NodeStoreInvariant, CallOK, TypeOK
  <1>3. StoreTypes /\ IndexTypes /\ ColumnsOK
    BY TypeParts DEF NodeStoreInvariant
  <1>4. StoreTypes'
    BY <1>1, <1>3, Constants DEF StoreTypes
  <1>5. IndexTypes' /\ BuildOK' /\ ReadyOK' /\ ready' = FALSE
    BY <1>1, <1>2, <1>3, IndicesAreUnread
  <1>6. CallOK'
    BY <1>1 DEF CallOK
  <1>7. ColumnsOK'
    BY <1>1, <1>3 DEF ColumnsOK, Written
  <1>8. TypeOK'
    BY <1>4, <1>5, TypePartsNext
  <1> QED BY <1>5, <1>6, <1>7, <1>8 DEF NodeStoreInvariant

LEMMA StepKeepsInvariant ==
    ASSUME NodeStoreInvariant, [Next]_vars
    PROVE  NodeStoreInvariant'
  <1>1. CASE \E row \in RowInputs \cup {[r EXCEPT ![1] = NoWorldline] : r \in RowInputs} : Begin(row)
    BY <1>1, BeginKeeps
  <1>2. CASE PushColumn \/ PushColumnFails \/ UnwindColumn \/ PopMetadata \/ Unwound
    BY <1>2, PushColumnKeeps, PushColumnFailsKeeps, UnwindColumnKeeps, PopMetadataKeeps,
       UnwoundKeeps
  <1>3. CASE BeginBuild \/ BuildRow \/ FinishBuild \/ BuildThrows
    BY <1>3, BeginBuildKeeps, BuildRowKeeps, FinishBuildKeeps, BuildThrowsKeeps
  <1>4. CASE UNCHANGED vars
    <2>1. UNCHANGED <<columns, size, worldlineIndex, validIndex, transactionIndex, propertyRows,
                      histograms, ready, pc, at, pending>>
      BY <1>4 DEF vars, store, indices
    <2>2. TypeOK' /\ CallOK' /\ ColumnsOK'
      BY <2>1 DEF NodeStoreInvariant, TypeOK, CallOK, ColumnsOK, Written, Extent
    <2>3. /\ \A w, n : ListedOn(w)' = ListedOn(w) /\ OnWorldline(w, n)' = OnWorldline(w, n)
          /\ \A c, n : Starts(c, n)' = Starts(c, n)
      BY <2>1 DEF ListedOn, OnWorldline, Starts, IdOf
    <2>4. BuildOK'
      BY <2>1, <2>3 DEF NodeStoreInvariant, BuildOK
    <2>5. ReadyOK'
      BY <2>1, <2>3 DEF NodeStoreInvariant, ReadyOK, IdOf
    <2> QED BY <2>2, <2>4, <2>5 DEF NodeStoreInvariant
  <1> QED BY <1>1, <1>2, <1>3, <1>4 DEF Next

-----------------------------------------------------------------------------

\* The invariant: the columns are as long as the running append has made them, and
\* indices that are being built, or are ready, list the rows as they are.
THEOREM NodeStoreIsWellFormed == Spec => []NodeStoreInvariant
  BY InitInvariant, StepKeepsInvariant, PTL DEF Spec

\* Columns hold values of their own kind, and no row is given the invalid id
\* (delta_node_store::append, node_store::append).
THEOREM NodeStoreIsTyped == Spec => []TypeOK
  <1>1. NodeStoreInvariant => TypeOK
    BY DEF NodeStoreInvariant
  <1> QED BY <1>1, NodeStoreIsWellFormed, PTL

\* Wherever an append is refused or throws, among the metadata or among the
\* properties, its handlers leave metadata and property columns equally long.
THEOREM ColumnsStayAligned == Spec => []ColumnsAligned
  <1>1. NodeStoreInvariant => ColumnsAligned
    BY DEF NodeStoreInvariant, ColumnsOK, ColumnsAligned, Written
  <1> QED BY <1>1, NodeStoreIsWellFormed, PTL

-----------------------------------------------------------------------------
(* The store implements a list of rows. *)

StoredRows == [i \in 1 .. size |-> [c \in Columns |-> columns[c][i]]]

\* A step that leaves what the columns say of the stored rows alone.
RowsStay == \A c \in Columns : \A i \in 1 .. size : columns'[c][i] = columns[c][i]

LEMMA SameRows ==
    ASSUME size' = size, RowsStay
    PROVE  StoredRows' = StoredRows
  BY DEF StoredRows, RowsStay

LEMMA RowIsAppended ==
    ASSUME size \in Nat, size' = size + 1, RowsStay, pending \in RowInputs,
           \A c \in Columns : columns'[c][size + 1] = pending[c]
    PROVE  StoredRows' = Append(StoredRows, pending)
  <1> DEFINE row(i) == [c \in Columns |-> columns'[c][i]]
  <1>1. pending = row(size + 1)
    BY RowFacts
  <1>2. StoredRows' = [i \in 1 .. (size + 1) |-> row(i)]
    BY DEF StoredRows
  <1>3. StoredRows = [i \in 1 .. size |-> row(i)]
    BY DEF StoredRows, RowsStay
  <1> HIDE DEF row
  <1>4. Len(StoredRows) = size
    BY <1>3
  <1>5. Append(StoredRows, pending) =
            [i \in 1 .. (size + 1) |-> IF i \in 1 .. size THEN row(i) ELSE row(size + 1)]
    BY <1>1, <1>3, <1>4
  <1>6. \A i \in 1 .. (size + 1) : i \in 1 .. size \/ i = size + 1
    OBVIOUS
  <1> QED BY <1>2, <1>5, <1>6

\* The step that writes the last column is the return of the append, the end of its
\* handlers is its failure, and what is between is nothing that RowStore sees.
LEMMA StepImplementsRowStore ==
    NodeStoreInvariant /\ [Next]_vars => [Rows!Next]_<<StoredRows, pending>>
  <1> SUFFICES ASSUME NodeStoreInvariant, [Next]_vars
               PROVE  [Rows!Next]_<<StoredRows, pending>>
    OBVIOUS
  <1>1. size \in Nat /\ columns' = columns => RowsStay
    BY DEF RowsStay
  <1>2. size \in Nat
    BY TypeParts, Constants DEF NodeStoreInvariant, StoreTypes
  <1> USE DEF Rows!Next
  <1>3. CASE \/ PushColumnFails \/ UnwindColumn \/ BeginBuild \/ BuildRow
             \/ UNCHANGED vars
    <2>1. size' = size /\ pending' = pending
      BY <1>3 DEF PushColumnFails, UnwindColumn, BeginBuild, BuildRow, vars, store
    <2>2. RowsStay
      BY <1>1, <1>2, <1>3, UnwindColumnKeeps
      DEF PushColumnFails, BeginBuild, BuildRow, vars, store, RowsStay
    <2> QED BY <2>1, <2>2, SameRows
  <1>4. CASE FinishBuild \/ BuildThrows
    <2>1. size' = size /\ pending' = NoRow /\ columns' = columns /\ pending = NoRow
      BY <1>4 DEF FinishBuild, BuildThrows, Finish, store, NodeStoreInvariant, CallOK
    <2> QED BY <1>1, <1>2, <2>1, SameRows
  <1>5. CASE PushColumn
    <2>1. RowsStay /\ (pc' = "idle" => \A c \in Columns : columns'[c][size + 1] = pending[c])
      BY <1>5, PushColumnKeeps DEF RowsStay
    <2>2. CASE at < LastColumn
      <3>1. size' = size /\ pending' = pending
        BY <1>5, <2>2 DEF PushColumn
      <3> QED BY <2>1, <3>1, SameRows
    <2>3. CASE ~(at < LastColumn)
      <3>1. size' = size + 1 /\ pc' = "idle" /\ pending' = NoRow /\ pc = "append"
        BY <1>5, <2>3 DEF PushColumn, Finish
      <3>2. pending \in RowInputs /\ pending # NoRow
        BY <3>1 DEF NodeStoreInvariant, CallOK
      <3>3. StoredRows' = Append(StoredRows, pending)
        BY <1>2, <2>1, <3>1, <3>2, RowIsAppended
      <3>4. size' \in 0 .. Room
        BY <1>5, PushColumnKeeps DEF NodeStoreInvariant, TypeOK, Room
      <3>5. Len(StoredRows) < InvalidNodeId - IdBase
        <4>1. Len(StoredRows) = size
          BY <1>2 DEF StoredRows
        <4> QED BY <1>2, <3>1, <3>4, <4>1, Constants DEF Room
      <3> QED BY <3>1, <3>2, <3>3, <3>5 DEF Rows!Return, StoredRows
    <2> QED BY <2>2, <2>3
  <1>6. CASE PopMetadata \/ Unwound
    <2>1. size' = size /\ pending' = NoRow /\ pending # NoRow
      BY <1>6 DEF PopMetadata, Unwound, Finish, store, NodeStoreInvariant, CallOK
    <2>2. RowsStay
      BY <1>1, <1>2, <1>6, PopMetadataKeeps DEF Unwound, store, RowsStay
    <2>3. StoredRows' = StoredRows
      BY <2>1, <2>2, SameRows
    <2> QED BY <2>1, <2>3 DEF Rows!Fail, StoredRows
  <1>7. CASE \E row \in RowInputs \cup {[r EXCEPT ![1] = NoWorldline] : r \in RowInputs} : Begin(row)
    <2>1. /\ size' = size /\ columns' = columns /\ pending = NoRow
          /\ pending' = pending \/ pending' # NoRow
      BY <1>7 DEF Begin, store, NodeStoreInvariant, CallOK
    <2>2. pending' = NoRow \/ pending' \in RowInputs
      <3>1. NodeStoreInvariant'
        BY StepKeepsInvariant
      <3>2. CallOK'
        BY <3>1 DEF NodeStoreInvariant
      <3> QED BY <3>2 DEF CallOK
    <2>3. StoredRows' = StoredRows
      BY <1>1, <1>2, <2>1, SameRows
    <2> QED BY <2>1, <2>2, <2>3 DEF Rows!Call, StoredRows
  <1> QED BY <1>3, <1>4, <1>5, <1>6, <1>7 DEF Next

\* Every append adds the row it was given or changes nothing: with all that it does
\* when a write throws or the ids have run out, it is one step of RowStore.
THEOREM NodeStoreImplementsRowStore == Spec => AppendsAreAtomic
  <1>1. Init => Rows!Init
    <2> SUFFICES ASSUME Init PROVE Rows!Init
      OBVIOUS
    <2>1. size = 0 /\ pending = NoRow
      BY DEF Init
    <2>2. StoredRows = <<>>
      BY <2>1 DEF StoredRows
    <2> QED BY <2>1, <2>2 DEF Rows!Init, StoredRows
  <1>2. NodeStoreInvariant /\ [Next]_vars => [Rows!Next]_<<StoredRows, pending>>
    BY StepImplementsRowStore
  <1> QED BY <1>1, <1>2, NodeStoreIsWellFormed, PTL
          DEF Spec, AppendsAreAtomic, Rows!Spec, StoredRows

-----------------------------------------------------------------------------
(* What the indices answer. *)

RowIds(rows) == {IdOf(i) : i \in rows}

\* An id stands for its row.
LEMMA RowOfId ==
    ASSUME NodeStoreInvariant, NEW w, NEW validAt, NEW knownAt
    PROVE  /\ IdBase .. (Extent - 1) = RowIds(1 .. size)
           /\ \A i \in 1 .. size :
                  /\ IdOf(i) \in Nat /\ IdOf(i) < InvalidNodeId
                  /\ RowMatches(IdOf(i), w, validAt, knownAt) <=>
                         /\ columns[1][i] = w
                         /\ Covers(columns[2][i], validAt) /\ Covers(columns[3][i], knownAt)
  <1>1. size \in Nat /\ size <= Room
    BY TypeParts, Constants DEF NodeStoreInvariant, StoreTypes
  <1>2. ASSUME NEW i \in 1 .. size
        PROVE  IdOf(i) \in IdBase .. (Extent - 1) /\ IdOf(i) - IdBase + 1 = i
               /\ IdOf(i) < InvalidNodeId /\ IdOf(i) \in Nat
    BY <1>1, Constants DEF IdOf, Extent, Room
  <1>3. ASSUME NEW id \in IdBase .. (Extent - 1) PROVE id \in RowIds(1 .. size)
    <2>1. id - IdBase + 1 \in 1 .. size /\ IdOf(id - IdBase + 1) = id
      BY <1>1, Constants DEF IdOf, Extent
    <2> QED BY <2>1 DEF RowIds
  <1>4. IdBase .. (Extent - 1) = RowIds(1 .. size)
    BY <1>2, <1>3 DEF RowIds
  <1>5. ASSUME NEW i \in 1 .. size
        PROVE  RowMatches(IdOf(i), w, validAt, knownAt) <=>
                   /\ columns[1][i] = w
                   /\ Covers(columns[2][i], validAt) /\ Covers(columns[3][i], knownAt)
    <2>1. IdOf(i) - IdBase + 1 = i
      BY <1>2
    <2> HIDE DEF IdOf, Covers
    <2> QED BY <2>1 DEF RowMatches
  <1> QED BY <1>2, <1>4, <1>5

\* The loop of append_if_visible keeps the ids of matching rows.
LEMMA VisibleAreMatches ==
    ASSUME NEW ids \in Seq(Nat), Different(ids), NEW w, NEW validAt, NEW knownAt,
           NEW visible, visible = VisibleOf(ids, w, validAt, knownAt)
    PROVE  /\ visible \in Seq(Nat) /\ Different(visible)
           /\ Range(visible) = {id \in Range(ids) : RowMatches(id, w, validAt, knownAt)}
  <1> DEFINE Matches(id) == RowMatches(id, w, validAt, knownAt)
             good == {id \in Range(ids) : Matches(id)}
             Turn(f) == [i \in 0 .. Len(ids) |->
                            IF i = 0 THEN <<>>
                            ELSE IF RowMatches(ids[i], w, validAt, knownAt)
                                 THEN Append(f[i - 1], ids[i])
                                 ELSE f[i - 1]]
             loop == CHOOSE f : f = Turn(f)
  <1>1. visible = loop[Len(ids)]
    BY DEF VisibleOf
  <1>2. PICK n \in Nat : n = Len(ids) /\ DOMAIN ids = 1 .. n
    BY LenProperties
  <1>3. PICK g \in [0 .. n -> Seq(Nat)] :
            g[0] = <<>> /\ \A i \in 1 .. n : g[i] = Keep(ids, good, g, i)
    <2> HIDE DEF good, Matches, Turn, loop
    <2>1. PICK g : KeepsFrom(Nat, n, ids, good, g)
      BY <1>2, KeepingEnds
    <2> QED BY <2>1 DEF KeepsFrom
  <1>4. \A i \in 1 .. n : ids[i] \in good <=> RowMatches(ids[i], w, validAt, knownAt)
    BY <1>2 DEF Range
  <1> HIDE DEF good, Matches
  <1>5. ASSUME NEW f, NEW i \in 1 .. n
        PROVE  Turn(f)[i] = Keep(ids, good, f, i)
    <2>1. i \in 0 .. n /\ i # 0
      OBVIOUS
    <2>2. Turn(f)[i] = IF RowMatches(ids[i], w, validAt, knownAt)
                       THEN Append(f[i - 1], ids[i])
                       ELSE f[i - 1]
      BY <1>2, <2>1
    <2> HIDE DEF Turn
    <2> QED BY <1>4, <2>2 DEF Keep
  <1>6. \A f : Turn(f)[0] = <<>> /\ Turn(f) = [i \in 0 .. n |-> Turn(f)[i]]
    BY <1>2
  <1> HIDE DEF Turn
  <1>7. g = Turn(g)
    <2>1. ASSUME NEW i \in 0 .. n PROVE g[i] = Turn(g)[i]
      <3>1. CASE i = 0
        BY <1>3, <1>6, <3>1
      <3>2. CASE i # 0
        BY <1>3, <1>5, <3>2
      <3> QED BY <3>1, <3>2
    <2>2. g = [i \in 0 .. n |-> g[i]]
      OBVIOUS
    <2> QED BY <1>6, <2>1, <2>2
  <1>8. loop = Turn(loop)
    BY <1>7
  <1> HIDE DEF loop
  <1>9. loop[0] = <<>> /\ \A i \in 1 .. n : loop[i] = Keep(ids, good, loop, i)
    BY <1>5, <1>6, <1>8
  <1>10. loop[n] \in Seq(Nat) /\ Different(loop[n]) /\ Range(loop[n]) = Range(ids) \cap good
    BY <1>2, <1>9, KeptEntries
  <1> QED BY <1>1, <1>2, <1>10 DEF good, Matches

Ascending(n, times) == \A i, j \in 1 .. n : i < j => ~(times[j] < times[i])

\* Up to the end, and no further, are the times that are no later than the point.
EndsAt(n, times, point, end) ==
    end \in 0 .. n /\ \A i \in 1 .. n : i <= end <=> times[i] <= point

\* std::upper_bound on sorted times.
LEMMA UpperBound ==
    ASSUME NEW n \in Nat, NEW times \in [1 .. n -> Int], NEW point \in Int,
           Ascending(n, times),
           NEW late, late = {i \in 1 .. n : point < times[i]},
           NEW end, end = IF late = {} THEN n ELSE Min(late) - 1
    PROVE  EndsAt(n, times, point, end)
  <1> USE DEF Ascending, EndsAt
  <1>1. \A i \in 1 .. n : times[i] \in Int
    OBVIOUS
  <1>2. CASE late = {}
    <2>1. ASSUME NEW i \in 1 .. n PROVE times[i] <= point
      <3>1. ~(point < times[i])
        BY <1>2
      <3> QED BY <1>1, <3>1
    <2> QED BY <1>2, <2>1
  <1>3. CASE late # {}
    <2>1. PICK m \in late : \A i \in late : m <= i
      <3>1. late \in SUBSET Nat
        OBVIOUS
      <3> QED BY <1>3, <3>1, LeastNatural
    <2>2. Min(late) \in late /\ \A i \in late : Min(late) <= i
      <3> DEFINE T == late
      <3>1. m \in T /\ \A i \in T : m <= i
        BY <2>1
      <3> HIDE DEF T
      <3>2. Min(T) \in T /\ \A i \in T : Min(T) <= i
        BY <3>1 DEF Min
      <3> QED BY <3>2 DEF T
    <2>3. PICK first \in 1 .. n : first = Min(late) /\ point < times[first]
      BY <2>2
    <2>4. end = first - 1
      BY <1>3, <2>3
    <2>5. ASSUME NEW i \in 1 .. n, i < first PROVE times[i] <= point
      <3>1. i \notin late
        BY <2>2, <2>3, <2>5
      <3>2. ~(point < times[i])
        BY <3>1
      <3> QED BY <1>1, <3>2
    <2>6. ASSUME NEW i \in 1 .. n, first <= i PROVE ~(times[i] <= point)
      <3>1. i = first \/ ~(times[i] < times[first])
        BY <2>6
      <3> QED BY <1>1, <2>3, <3>1
    <2>7. \A i \in 1 .. n : i <= end <=> times[i] <= point
      BY <2>4, <2>5, <2>6
    <2>8. end \in 0 .. n
      BY <2>3, <2>4
    <2> QED BY <2>7, <2>8
  <1> QED BY <1>2, <1>3

\* In the order q, what is early is up to the end.
Cuts(n, q, early, end) ==
    /\ q \in [1 .. n -> 1 .. n]
    /\ \A k \in 1 .. n : \E i \in 1 .. n : q[i] = k
    /\ \A i, j \in 1 .. n : i # j => q[i] # q[j]
    /\ end \in 0 .. n /\ early \subseteq 1 .. n
    /\ \A i \in 1 .. n : i <= end <=> q[i] \in early

IsFirst(answer, id, q, end) == answer = [i \in 1 .. end |-> id[q[i]]]

\* The first entries of a list, in any of its orders.
LEMMA FirstOfOrder ==
    ASSUME NEW n \in Nat, NEW id \in [1 .. n -> Nat], Different(id),
           NEW q, NEW early, NEW end, Cuts(n, q, early, end),
           NEW answer, IsFirst(answer, id, q, end)
    PROVE  answer \in Seq(Nat) /\ Different(answer) /\ Range(answer) = {id[i] : i \in early}
  <1> USE DEF Cuts, IsFirst
  <1>0. \A i, j \in 1 .. n : i # j => id[i] # id[j]
    BY DEF Different
  <1>1. \A i \in 1 .. end : i \in 1 .. n /\ q[i] \in 1 .. n /\ answer[i] = id[q[i]]
    OBVIOUS
  <1>2. DOMAIN answer = 1 .. end
    OBVIOUS
  <1>3. answer \in [1 .. end -> Nat]
    BY <1>1
  <1>4. answer \in Seq(Nat)
    BY <1>3, SeqDef
  <1>5. ASSUME NEW i \in 1 .. end, NEW j \in 1 .. end, i # j PROVE answer[i] # answer[j]
    <2>1. q[i] # q[j]
      BY <1>1, <1>5
    <2> QED BY <1>0, <1>1, <2>1
  <1>6. Different(answer)
    BY <1>2, <1>5 DEF Different
  <1>7. Range(answer) = {id[i] : i \in early}
    <2>1. \A i \in 1 .. end : q[i] \in early
      BY <1>1
    <2>2. \A k \in early : \E i \in 1 .. end : q[i] = k
      OBVIOUS
    <2>3. \A x : x \in Range(answer) <=> \E i \in 1 .. end : x = id[q[i]]
      BY <1>1, <1>2 DEF Range
    <2>4. \A x : (\E i \in 1 .. end : x = id[q[i]]) <=> \E k \in early : x = id[k]
      BY <2>1, <2>2
    <2>5. \A x : x \in Range(answer) <=> \E k \in early : x = id[k]
      BY <2>3, <2>4, Zenon
    <2> DEFINE ids == {id[i] : i \in early}
    <2>6. \A x : x \in ids <=> \E k \in early : x = id[k]
      OBVIOUS
    <2> HIDE DEF ids
    <2>7. Range(answer) = ids
      BY <2>5, <2>6, Zenon
    <2> QED BY <2>7 DEF ids
  <1> QED BY <1>4, <1>6, <1>7

EarlyOf(n, from, id, point) == {id[i] : i \in {j \in 1 .. n : from[j] <= point}}

\* The index is a sorted list of the starts and ids of n rows.
Indexes(index, n, from, id) ==
    /\ n \in Nat /\ from \in [1 .. n -> Int] /\ id \in [1 .. n -> Nat] /\ Different(id)
    /\ index \in SortedByTime([i \in 1 .. n |-> <<from[i], id[i]>>])

\* What std::upper_bound on an index cuts off: the rows that start by the point,
\* whatever order rows of the same time are in.
LEMMA UpToIsPrefix ==
    ASSUME NEW n, NEW from, NEW id, NEW index, Indexes(index, n, from, id), NEW point \in Int
    PROVE  /\ UpTo(index, point) \in Seq(Nat) /\ Different(UpTo(index, point))
           /\ Range(UpTo(index, point)) = EarlyOf(n, from, id, point)
  <1>a. /\ n \in Nat /\ from \in [1 .. n -> Int] /\ id \in [1 .. n -> Nat] /\ Different(id)
        /\ index \in SortedByTime([i \in 1 .. n |-> <<from[i], id[i]>>])
    BY DEF Indexes
  <1>c. PICK starts : starts = [i \in 1 .. n |-> <<from[i], id[i]>>] /\ index \in SortedByTime(starts)
    BY <1>a
  <1>d. PICK answer : answer = UpTo(index, point)
    OBVIOUS
  <1>1. DOMAIN starts = 1 .. n /\ \A i \in 1 .. n : starts[i][1] = from[i] /\ starts[i][2] = id[i]
    BY <1>c
  <1>2. /\ index \in Orders(starts)
        /\ \A i, j \in DOMAIN index : i < j => ~(index[j][1] < index[i][1])
    BY <1>c DEF SortedByTime
  <1>3. DOMAIN index = 1 .. n /\ index = [i \in 1 .. n |-> index[i]]
    BY <1>a, <1>1, <1>2, OrderFacts
  <1>4. PICK q : Permutes(q, n, starts, index)
    BY <1>a, <1>1, <1>2, OrderFacts
  <1>5. /\ q \in [1 .. n -> 1 .. n]
        /\ \A i \in 1 .. n : index[i] = starts[q[i]]
        /\ \A k \in 1 .. n : \E i \in 1 .. n : q[i] = k
        /\ \A i, j \in 1 .. n : i # j => q[i] # q[j]
    BY <1>4 DEF Permutes
  <1> DEFINE times == [i \in 1 .. n |-> from[q[i]]]
             early == {j \in 1 .. n : from[j] <= point}
             late  == {i \in 1 .. n : point < index[i][1]}
             end   == IF late = {} THEN Len(index) ELSE Min(late) - 1
  <1>6. ASSUME NEW i \in 1 .. n PROVE index[i][1] = times[i] /\ index[i][2] = id[q[i]]
    BY <1>1, <1>5
  <1>7. times \in [1 .. n -> Int]
    BY <1>a, <1>5
  <1>8. answer = [i \in 1 .. end |-> index[i][2]]
    <2>1. late = {i \in DOMAIN index : point < index[i][1]}
      BY <1>3
    <2> QED BY <1>d, <2>1 DEF UpTo
  <1>9. \A i \in 1 .. n : times[i] = from[q[i]]
    OBVIOUS
  <1> HIDE DEF times
  <1>10. Ascending(n, times)
    BY <1>2, <1>3, <1>6 DEF Ascending
  <1>11. late = {i \in 1 .. n : point < times[i]} /\ Len(index) = n
    BY <1>a, <1>3, <1>6
  <1>12. end = IF late = {} THEN n ELSE Min(late) - 1
    BY <1>11
  <1>b. EndsAt(n, times, point, end)
    <2> HIDE DEF end, late, early
    <2> QED BY <1>a, <1>7, <1>10, <1>11, <1>12, UpperBound
  <1>13. end \in 0 .. n /\ \A i \in 1 .. n : i <= end <=> times[i] <= point
    BY <1>b DEF EndsAt
  <1> HIDE DEF end, late
  <1>14. answer = [i \in 1 .. end |-> id[q[i]]]
    <2>1. \A i \in 1 .. end : i \in 1 .. n
      BY <1>a, <1>13
    <2>2. \A i \in 1 .. end : index[i][2] = id[q[i]]
      BY <1>6, <2>1
    <2> QED BY <1>8, <2>2
  <1>15. early \in SUBSET (1 .. n) /\ \A i \in 1 .. n : i <= end <=> q[i] \in early
    BY <1>a, <1>5, <1>9, <1>13
  <1> HIDE DEF early
  <1>16. answer \in Seq(Nat) /\ Different(answer) /\ Range(answer) = {id[i] : i \in early}
    <2>1. Cuts(n, q, early, end)
      BY <1>a, <1>5, <1>13, <1>15 DEF Cuts
    <2>2. IsFirst(answer, id, q, end)
      BY <1>14 DEF IsFirst
    <2> QED BY <1>a, <2>1, <2>2, FirstOfOrder
  <1> QED BY <1>d, <1>16 DEF early, EarlyOf

Matching(w, validAt, knownAt) ==
    {id \in IdBase .. (Extent - 1) : RowMatches(id, w, validAt, knownAt)}

\* A list of ids of rows that no wanted row is missing from.
Scannable(list, wanted) ==
    /\ list \in Seq(Nat) /\ Different(list)
    /\ wanted \subseteq Range(list) /\ Range(list) \subseteq RowIds(1 .. size)

\* Scanning a time index up to a point meets every row that covers the point.
LEMMA TimeIndexIsScannable ==
    ASSUME NodeStoreInvariant, NEW c \in {2, 3}, NEW index, index \in SortedByTime(Starts(c, size)),
           NEW point \in Int, NEW wanted,
           \A id \in wanted : \E i \in 1 .. size : id = IdOf(i) /\ Covers(columns[c][i], point)
    PROVE  Scannable(UpTo(index, point), wanted)
  <1>1. PICK n \in Nat : n = size
    BY TypeParts, Constants DEF NodeStoreInvariant, StoreTypes
  <1>2. \A i \in 1 .. n : columns[c][i].from \in Int /\ IdOf(i) \in Nat
    <2>1. \A i \in 1 .. n : columns[c][i] \in Intervals /\ IdOf(i) \in Nat
      BY <1>1, TypeParts, StoredRow, Constants DEF NodeStoreInvariant
    <2> QED BY <2>1, NodeStoreAssumption
  <1>3. PICK from : from = [i \in 1 .. n |-> columns[c][i].from]
    OBVIOUS
  <1>4. PICK id : id = [i \in 1 .. n |-> IdOf(i)]
    OBVIOUS
  <1>5. from \in [1 .. n -> Int] /\ id \in [1 .. n -> Nat]
    BY <1>2, <1>3, <1>4
  <1>6. Different(id)
    BY <1>4, Constants DEF Different, IdOf
  <1>7. Indexes(index, n, from, id)
    <2>1. Starts(c, size) = [i \in 1 .. n |-> <<from[i], id[i]>>]
      BY <1>1, <1>3, <1>4 DEF Starts
    <2> QED BY <1>5, <1>6, <2>1 DEF Indexes
  <1>8. PICK answer : answer = UpTo(index, point)
    OBVIOUS
  <1>9. /\ answer \in Seq(Nat) /\ Different(answer)
        /\ Range(answer) = EarlyOf(n, from, id, point)
    BY <1>7, <1>8, UpToIsPrefix
  <1>10. \A i \in 1 .. n : from[i] = columns[c][i].from /\ id[i] = IdOf(i)
    BY <1>3, <1>4
  <1>11. Range(answer) \subseteq RowIds(1 .. size)
    BY <1>1, <1>9, <1>10 DEF RowIds, EarlyOf
  <1>12. ASSUME NEW x \in wanted PROVE x \in Range(answer)
    <2>1. PICK i \in 1 .. n : x = id[i] /\ from[i] <= point
      BY <1>1, <1>10 DEF Covers
    <2> QED BY <1>9, <2>1 DEF EarlyOf
  <1> QED BY <1>8, <1>9, <1>11, <1>12 DEF Scannable

\* Scanning the list of its worldline meets every row on it.
LEMMA WorldlineListIsScannable ==
    ASSUME NodeStoreInvariant, ready, NEW w \in DOMAIN worldlineIndex, NEW wanted,
           \A id \in wanted : \E i \in 1 .. size : id = IdOf(i) /\ columns[1][i] = w
    PROVE  Scannable(worldlineIndex[w], wanted)
  <1>1. PICK list : list = worldlineIndex[w] /\ list \in Seq(Ids)
    BY TypeParts DEF NodeStoreInvariant, IndexTypes
  <1>2. list \in Seq(Nat)
    <2>1. PICK n \in Nat : n = Len(list) /\ list \in [1 .. n -> Ids]
      BY <1>1, LenProperties
    <2>2. list \in [1 .. n -> Nat]
      BY <2>1, Constants
    <2> QED BY <2>2, SeqDef
  <1>3. InOrder(list, OnWorldline(w, size))
    BY <1>1, TypeParts DEF NodeStoreInvariant, IndexTypes, ReadyOK, ListedOn
  <1>4. \A i \in DOMAIN list : list[i] \in Nat
    BY <1>2, ElementOfSeq, LenProperties
  <1>5. ASSUME NEW i \in DOMAIN list, NEW j \in DOMAIN list, i # j PROVE list[i] # list[j]
    <2>1. i \in Nat /\ j \in Nat
      BY <1>2, LenProperties
    <2>2. i < j \/ j < i
      BY <1>5, <2>1
    <2>3. list[i] < list[j] \/ list[j] < list[i]
      BY <1>3, <2>2 DEF InOrder
    <2> QED BY <1>4, <2>3
  <1>6. Range(list) = OnWorldline(w, size)
    BY <1>3 DEF InOrder
  <1>7. wanted \subseteq Range(list) /\ Range(list) \subseteq RowIds(1 .. size)
    BY <1>6 DEF OnWorldline, RowIds
  <1> QED BY <1>1, <1>2, <1>5, <1>7 DEF Scannable, Different

\* Whichever list is scanned, what is visible of it is what matches.
LEMMA ScanFindsMatches ==
    ASSUME NodeStoreInvariant, NEW w, NEW validAt, NEW knownAt,
           NEW list, Scannable(list, Matching(w, validAt, knownAt))
    PROVE  InOrder(Sorted(VisibleOf(list, w, validAt, knownAt)), Matching(w, validAt, knownAt))
  <1>1. PICK visible : visible = VisibleOf(list, w, validAt, knownAt)
    OBVIOUS
  <1>2. /\ visible \in Seq(Nat) /\ Different(visible)
        /\ Range(visible) = {id \in Range(list) : RowMatches(id, w, validAt, knownAt)}
    BY <1>1, VisibleAreMatches DEF Scannable
  <1>3. IdBase .. (Extent - 1) = RowIds(1 .. size) /\ \A i \in 1 .. size : IdOf(i) < InvalidNodeId
    BY RowOfId
  <1>4. Range(visible) = Matching(w, validAt, knownAt)
    <2> HIDE DEF RowMatches
    <2> QED BY <1>2, <1>3 DEF Matching, Scannable
  <1>5. \A i \in DOMAIN visible : visible[i] < InvalidNodeId
    <2> SUFFICES ASSUME NEW i \in DOMAIN visible PROVE visible[i] < InvalidNodeId
      OBVIOUS
    <2>1. visible[i] \in RowIds(1 .. size)
      BY <1>2 DEF Range, Scannable
    <2> QED BY <1>3, <2>1 DEF RowIds
  <1>6. \A i, j \in DOMAIN visible : i # j => visible[i] # visible[j]
    BY <1>2 DEF Different
  <1>7. PICK sorted : sorted = Sorted(visible)
    OBVIOUS
  <1>8. InOrder(sorted, Range(visible))
    BY <1>2, <1>5, <1>6, <1>7, Constants, SortedInOrder
  <1> QED BY <1>1, <1>4, <1>7, <1>8

\* What is called ready answers as a scan of all rows would.
LEMMA CandidatesAreMatches ==
    ASSUME NodeStoreInvariant, ready, NEW w \in Worldlines,
           NEW validAt \in Starting, NEW knownAt \in Starting
    PROVE  InOrder(IndexedCandidates(w, validAt, knownAt), Matching(w, validAt, knownAt))
  <1>1. validAt \in Int /\ knownAt \in Int
    BY NodeStoreAssumption DEF Starting
  <1>2. PICK matches : matches = Matching(w, validAt, knownAt)
    OBVIOUS
  <1>3. ASSUME NEW id \in matches
        PROVE  \E i \in 1 .. size :
                   /\ id = IdOf(i) /\ columns[1][i] = w
                   /\ Covers(columns[2][i], validAt) /\ Covers(columns[3][i], knownAt)
    <2>1. id \in RowIds(1 .. size) /\ RowMatches(id, w, validAt, knownAt)
      BY <1>2, RowOfId DEF Matching
    <2>2. PICK i \in 1 .. size : id = IdOf(i)
      BY <2>1 DEF RowIds
    <2> HIDE DEF IdOf, Covers
    <2> QED BY <2>1, <2>2, RowOfId
  <1>4. CASE w \notin DOMAIN worldlineIndex
    <2>1. InOrder(<<>>, OnWorldline(w, size))
      BY <1>4 DEF NodeStoreInvariant, ReadyOK, ListedOn
    <2>2. OnWorldline(w, size) = {}
      BY <2>1 DEF InOrder, Range
    <2>3. \A i \in 1 .. size : columns[1][i] # w
      BY <2>2 DEF OnWorldline
    <2>4. matches = {}
      BY <1>3, <2>3
    <2>5. IndexedCandidates(w, validAt, knownAt) = <<>>
      BY <1>4 DEF IndexedCandidates
    <2> QED BY <1>2, <2>4, <2>5, EmptyInOrder
  <1>5. CASE w \in DOMAIN worldlineIndex
    <2>1. Scannable(worldlineIndex[w], matches)
      BY <1>3, <1>5, WorldlineListIsScannable
    <2>2. Scannable(UpTo(validIndex, validAt), matches)
      <3>1. validIndex \in SortedByTime(Starts(2, size))
        BY DEF NodeStoreInvariant, ReadyOK
      <3> QED BY <1>1, <1>3, <3>1, TimeIndexIsScannable
    <2>3. Scannable(UpTo(transactionIndex, knownAt), matches)
      <3>1. transactionIndex \in SortedByTime(Starts(3, size))
        BY DEF NodeStoreInvariant, ReadyOK
      <3> QED BY <1>1, <1>3, <3>1, TimeIndexIsScannable
    <2>4. PICK scanned : /\ Scannable(scanned, matches)
                         /\ IndexedCandidates(w, validAt, knownAt) =
                                Sorted(VisibleOf(scanned, w, validAt, knownAt))
      <3> DEFINE byWorldline   == worldlineIndex[w]
                 byValid       == UpTo(validIndex, validAt)
                 byTransaction == UpTo(transactionIndex, knownAt)
                 shortest == IF /\ Len(byWorldline) <= Len(byValid)
                                /\ Len(byWorldline) <= Len(byTransaction)
                             THEN byWorldline
                             ELSE IF Len(byValid) <= Len(byTransaction) THEN byValid
                                                                        ELSE byTransaction
      <3>1. IndexedCandidates(w, validAt, knownAt) =
                Sorted(VisibleOf(shortest, w, validAt, knownAt))
        BY <1>5 DEF IndexedCandidates
      <3>2. shortest \in {byWorldline, byValid, byTransaction}
        <4> HIDE DEF byWorldline, byValid, byTransaction
        <4> QED OBVIOUS
      <3>3. Scannable(byWorldline, matches) /\ Scannable(byValid, matches)
            /\ Scannable(byTransaction, matches)
        BY <2>1, <2>2, <2>3
      <3> HIDE DEF byWorldline, byValid, byTransaction, shortest
      <3> QED BY <3>1, <3>2, <3>3
    <2> QED BY <1>2, <2>4, ScanFindsMatches
  <1> QED BY <1>4, <1>5

\* Candidates found through whichever of the indices is the shortest are the rows
\* that a scan finds, in id order, for every worldline and pair of times, as soon as
\* build_indices called the indices ready and for as long as they are; the property
\* indices list every row.
THEOREM IndicesAreExact == Spec => []ReadyIndicesAreExact
  <1>1. NodeStoreInvariant => ReadyIndicesAreExact
    <2> SUFFICES ASSUME NodeStoreInvariant, ready PROVE ReadyIndicesAreExact
      BY DEF ReadyIndicesAreExact
    <2>1. propertyRows = [row \in 1 .. size |-> IdOf(row)]
      BY DEF NodeStoreInvariant, ReadyOK
    <2>2. \A w \in Worldlines, validAt, knownAt \in Starting :
              InOrder(IndexedCandidates(w, validAt, knownAt), Matching(w, validAt, knownAt))
      BY CandidatesAreMatches
    <2> QED BY <2>1, <2>2 DEF ReadyIndicesAreExact, Matching, Starting
  <1> QED BY <1>1, NodeStoreIsWellFormed, PTL

=============================================================================
