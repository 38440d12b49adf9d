--------------------------- MODULE DeltaNodeStore ---------------------------
(***************************************************************************)
(* delta_node_store and the node_store in it: the rows of one node kind,   *)
(* as four metadata columns and the property columns, and the indices that *)
(* build_indices makes of them before a delta is published.                *)
(*                                                                         *)
(* A write may throw.  The model runs an append column by column and a     *)
(* build row by row; a store has one user, so nobody sees it in between.   *)
(***************************************************************************)
EXTENDS Temporal, PropertyHistogram, IdLists

CONSTANTS
    Worldlines,     \* valid worldline ids
    NoWorldline,    \* worldline_id::invalid()
    Intervals,      \* valid and transaction intervals of rows
    Sources,        \* provenances
    PropertyValues, \* per property column the values it may hold, at least one column
    RowInputs,      \* rows that callers append
    IdBase,         \* nodes_.id_base_
    InvalidNodeId   \* id_type::invalid_value

ASSUME NodeStoreAssumption ==
    /\ NoWorldline \notin Worldlines
    /\ Len(PropertyValues) \in Nat \ {0}
    /\ \A i \in Intervals : i \in [from : Int, to : Int]
    /\ IdBase \in Nat /\ InvalidNodeId \in Nat /\ IdBase <= InvalidNodeId

VARIABLES
    columns,           \* metadata_ and the property columns, in one numbering
    size,              \* nodes_.size_
    worldlineIndex,    \* worldline_index_
    validIndex,        \* valid_start_index_, <<start, id>> pairs
    transactionIndex,  \* transaction_start_index_
    propertyRows,      \* the rows of the property indices, the same for all
    histograms,        \* their histograms, one per property column
    ready,             \* indices_ready_
    pc,                \* the call that is running, "idle" if none is
    at,                \* the column, or the row, it writes or takes back next
    pending            \* the row being appended

store == <<columns, size>>
indices == <<worldlineIndex, validIndex, transactionIndex, propertyRows, histograms>>
vars == <<store, indices, ready, pc, at, pending>>

\* 1 to 4 are the worldline, valid, transaction and provenance columns.
MetadataColumns == 4
LastColumn == MetadataColumns + Len(PropertyValues)
Columns == 1 .. LastColumn
PropertyColumns == MetadataColumns + 1 .. LastColumn

ColumnType == [c \in Columns |->
                  CASE c = 1 -> Worldlines [] c \in {2, 3} -> Intervals
                    [] c = 4 -> Sources    [] OTHER -> PropertyValues[c - MetadataColumns]]

IsRow(row) == row = [c \in Columns |-> row[c]] /\ \A c \in Columns : row[c] \in ColumnType[c]
NoRow == <<>>

ASSUME RowAssumption == \A row \in RowInputs : IsRow(row)

Extent == IdBase + size
IdOf(row) == IdBase + row - 1
EmptyMap == [w \in {} |-> <<>>]

Init ==
    /\ columns = [c \in Columns |-> <<>>] /\ size = 0
    /\ worldlineIndex = EmptyMap
    /\ validIndex = <<>> /\ transactionIndex = <<>> /\ propertyRows = <<>>
    /\ histograms = [c \in PropertyColumns |-> NoHistogram]
    /\ ready = FALSE
    /\ pc = "idle" /\ at = 1 /\ pending = NoRow

-----------------------------------------------------------------------------
(* append *)

\* Mutant of Begin: the indices stay ready.
BeginStillReady(row) ==
    /\ pc = "idle"
    /\ row[1] # NoWorldline
    /\ pc' = "append" /\ pending' = row
    /\ at' = 1
    /\ UNCHANGED <<store, indices, ready>>

Begin(row) ==
    /\ pc = "idle"
    /\ row[1] # NoWorldline
    /\ ready' = FALSE
    /\ \/ pc' = "append" /\ pending' = row
       \/ UNCHANGED <<pc, pending>>  \* building the pending tuple throws
    /\ at' = 1
    /\ UNCHANGED <<store, indices>>

\* Mutant of Full: one id too many.
FullBeyondLastId == at = MetadataColumns + 1 /\ Extent > InvalidNodeId

\* node_store::append, which follows the metadata, has no id left for the row.
Full == at = MetadataColumns + 1 /\ Extent >= InvalidNodeId

Finish == pc' = "idle" /\ at' = 1 /\ pending' = NoRow

PushColumn ==
    /\ pc = "append" /\ ~Full
    /\ columns' = [columns EXCEPT ![at] = Append(@, pending[at])]
    /\ IF at < LastColumn
       THEN at' = at + 1 /\ UNCHANGED <<size, pc, pending>>
       ELSE size' = size + 1 /\ Finish
    /\ UNCHANGED <<indices, ready>>

\* Mutant of PushColumnFails: property columns already written are not taken back.
PushColumnFailsOut ==
    /\ pc = "append"
    /\ pc' = "unwinding" /\ at' = Min({at - 1, MetadataColumns})
    /\ UNCHANGED <<store, indices, ready, pending>>

\* push_back throws, or the append of the values is refused: the columns written
\* before it are to be popped, the last first.
PushColumnFails ==
    /\ pc = "append"
    /\ pc' = "unwinding" /\ at' = at - 1
    /\ UNCHANGED <<store, indices, ready, pending>>

\* The handlers of append_metadata and of node_store::append_columns.
UnwindColumn ==
    /\ pc = "unwinding" /\ at \in Columns \ {MetadataColumns}
    /\ columns' = [columns EXCEPT ![at] = Front(@)]
    /\ at' = at - 1
    /\ UNCHANGED <<size, indices, ready, pc, pending>>

\* Mutant of PopMetadata: the refused or failed append keeps its metadata.
PopNothing ==
    /\ pc = "unwinding" /\ at = MetadataColumns
    /\ Finish
    /\ UNCHANGED <<store, indices, ready>>

\* The metadata was complete: pop_metadata takes it back in one piece.
PopMetadata ==
    /\ pc = "unwinding" /\ at = MetadataColumns
    /\ columns' = [c \in Columns |-> IF c <= MetadataColumns THEN Front(columns[c])
                                                             ELSE columns[c]]
    /\ Finish
    /\ UNCHANGED <<size, indices, ready>>

Unwound ==
    /\ pc = "unwinding" /\ at = 0
    /\ Finish
    /\ UNCHANGED <<store, indices, ready>>

-----------------------------------------------------------------------------
(* build_indices *)

BeginBuild ==
    /\ pc = "idle"
    /\ ready' = FALSE
    /\ worldlineIndex' = EmptyMap /\ validIndex' = <<>> /\ transactionIndex' = <<>>
    /\ pc' = "build" /\ at' = 1
    /\ UNCHANGED <<store, propertyRows, histograms, pending>>

\* worldline_index_[worldline].push_back(id).
WithEntry(map, w, id) ==
    [v \in DOMAIN map \cup {w} |->
        (IF v \in DOMAIN map THEN map[v] ELSE <<>>) \o (IF v = w THEN <<id>> ELSE <<>>)]

BuildRow ==
    /\ pc = "build" /\ at <= size
    /\ worldlineIndex' = WithEntry(worldlineIndex, columns[1][at], IdOf(at))
    /\ validIndex' = Append(validIndex, <<columns[2][at].from, IdOf(at)>>)
    /\ transactionIndex' = Append(transactionIndex, <<columns[3][at].from, IdOf(at)>>)
    /\ at' = at + 1
    /\ UNCHANGED <<store, propertyRows, histograms, ready, pc, pending>>

\* std::ranges::sort by time may leave entries of the same time in any order.
SortedByTime(index) ==
    {o \in Orders(index) : \A i, j \in DOMAIN o : i < j => ~(o[j][1] < o[i][1])}

FinishBuild ==
    /\ pc = "build" /\ at > size
    /\ validIndex' \in SortedByTime(validIndex)
    /\ transactionIndex' \in SortedByTime(transactionIndex)
    /\ propertyRows' = [row \in 1 .. size |-> IdOf(row)]
    /\ histograms' = [c \in PropertyColumns |-> BuildHistogram(columns[c])]
    /\ ready' = TRUE
    /\ Finish
    /\ UNCHANGED <<store, worldlineIndex>>

\* An allocation throws; what the indices hold of the row then is never read,
\* because they are not ready and the next build clears them.
BuildThrows ==
    /\ pc = "build"
    /\ Finish
    /\ UNCHANGED <<store, indices, ready>>

Next ==
    \/ \E row \in RowInputs \cup {[r EXCEPT ![1] = NoWorldline] : r \in RowInputs} : Begin(row)
    \/ PushColumn \/ PushColumnFails \/ UnwindColumn \/ PopMetadata \/ Unwound
    \/ BeginBuild \/ BuildRow \/ FinishBuild \/ BuildThrows

Spec == Init /\ [][Next]_vars

-----------------------------------------------------------------------------
(* Reading through the indices. *)

\* std::upper_bound on a time index: its entries up to the first later start.
UpTo(index, point) ==
    LET late == {i \in DOMAIN index : point < index[i][1]}
        end  == IF late = {} THEN Len(index) ELSE Min(late) - 1
    IN  [i \in 1 .. end |-> index[i][2]]

\* The row of an id.
RowMatches(id, worldline, validAt, knownAt) ==
    LET row == id - IdBase + 1 IN
    /\ columns[1][row] = worldline
    /\ Covers(columns[2][row], validAt)
    /\ Covers(columns[3][row], knownAt)

\* append_if_visible for the ids of a list, one after the other.
VisibleOf(ids, worldline, validAt, knownAt) ==
    LET visible[i \in 0 .. Len(ids)] ==
            IF i = 0 THEN <<>>
            ELSE IF RowMatches(ids[i], worldline, validAt, knownAt)
                 THEN Append(visible[i - 1], ids[i])
                 ELSE visible[i - 1]
    IN  visible[Len(ids)]

\* indexed_candidates, called with ready indices.
IndexedCandidates(worldline, validAt, knownAt) ==
    IF worldline \notin DOMAIN worldlineIndex THEN <<>>
    ELSE LET byWorldline   == worldlineIndex[worldline]
             byValid       == UpTo(validIndex, validAt)
             byTransaction == UpTo(transactionIndex, knownAt)
             scanned == IF /\ Len(byWorldline) <= Len(byValid)
                           /\ Len(byWorldline) <= Len(byTransaction)
                        THEN byWorldline
                        ELSE IF Len(byValid) <= Len(byTransaction) THEN byValid
                                                                   ELSE byTransaction
         IN  Sorted(VisibleOf(scanned, worldline, validAt, knownAt))

-----------------------------------------------------------------------------

Ids == IdBase .. (InvalidNodeId - 1)

\* Columns hold values of their own kind, and no row is given the invalid id.
TypeOK ==
    /\ DOMAIN columns = Columns
    /\ \A c \in Columns : columns[c] \in Seq(ColumnType[c])
    /\ size \in 0 .. (InvalidNodeId - IdBase)
    /\ \A w \in DOMAIN worldlineIndex : w \in Worldlines /\ worldlineIndex[w] \in Seq(Ids)
    /\ {validIndex, transactionIndex} \subseteq Seq({i.from : i \in Intervals} \X Ids)
    /\ propertyRows \in Seq(Ids)
    /\ \A c \in PropertyColumns : histograms[c].buckets \in [Buckets -> 0 .. (InvalidNodeId - IdBase)]
    /\ ready \in BOOLEAN
    /\ pc \in {"idle", "append", "unwinding", "build"}
    /\ at \in 0 .. (LastColumn + InvalidNodeId)
    /\ pending = NoRow \/ IsRow(pending)

\* Between calls the metadata columns and the property columns are equally long:
\* refused and throwing appends leave no half a row that would shift later rows.
ColumnsAligned == pc = "idle" => \A c \in Columns : Len(columns[c]) = size

\* Indices called ready answer for the rows as they are now: whichever index is the
\* shortest, and however sorting left rows of equal times, the candidates are the rows
\* that a scan finds, in id order, and the property indices list every row.
ReadyIndicesAreExact ==
    ready =>
        /\ propertyRows = [row \in 1 .. size |-> IdOf(row)]
        /\ \A w \in Worldlines, validAt, knownAt \in {i.from : i \in Intervals} :
               InOrder(IndexedCandidates(w, validAt, knownAt),
                       {id \in IdBase .. (Extent - 1) : RowMatches(id, w, validAt, knownAt)})

\* Constants to compare with: the numbers in the columns, those between them and
\* one beyond at either end.
Points ==
    LET numbers == {v \in UNION Range(PropertyValues) : IsFinite(v)}
    IN  (Min(numbers) - 1) .. (Max(numbers) + 1)

\* The estimate that decides between index and scan follows the rows as they are now:
\* it never exceeds their number, a comparison that all rows pass is never worth the
\* index, one that no row passes always is, and rows that are no numbers, such as
\* NaNs, do not upset it, whichever rows there are and whatever was built before.
EstimatesFollowTheRows ==
    ready =>
        \A c \in PropertyColumns, op \in Comparisons, value \in Points :
            LET estimate == Estimate(histograms[c], size, op, value)
                finite == Finite(columns[c])
                passing == {row \in finite : Compare(columns[c][row], op, value)}
            IN  /\ estimate <= size
                /\ passing = 1 .. size => ~ShouldUsePropertyIndex(estimate, size)
                /\ passing = {} /\ op # "==" => estimate <= size - Cardinality(finite)
                /\ passing = {} /\ op # "==" /\ finite = 1 .. size /\ size > 0 =>
                       ShouldUsePropertyIndex(estimate, size)

\* The store implements a list of rows: an append that returns an id has added
\* exactly the row it was given, any other has added and changed none.
Rows == INSTANCE RowStore WITH
            rows <- [i \in 1 .. size |-> [c \in Columns |-> columns[c][i]]],
            RowSet <- RowInputs, Room <- InvalidNodeId - IdBase

\* Each append, with everything it does when a write throws, is one step of RowStore.
AppendsAreAtomic == Rows!Spec

=============================================================================
