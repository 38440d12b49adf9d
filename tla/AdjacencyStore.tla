--------------------------- MODULE AdjacencyStore ---------------------------
(***************************************************************************)
(* storage/adjacency_store.hpp: the edges of one relation, as columns and  *)
(* as the two hash maps that list the edges leaving and entering a node.   *)
(*                                                                         *)
(* An append writes to all of them one after the other, each write may     *)
(* throw (an allocation fails, a value's constructor throws), and the      *)
(* handlers then take back what was written before.  The model runs an     *)
(* append write by write.  A store has one user: nobody reads it while an  *)
(* append or its clean-up is under way, so what must hold is said of the   *)
(* states in which no call is running (pc = "idle").                       *)
(***************************************************************************)
EXTENDS IdLists, FiniteSets

CONSTANTS
    Nodes,         \* valid node ids, of either end
    InvalidNode,   \* node_id::invalid()
    Values,        \* values of the edge property
    IdBase,        \* id_base_: the first edge id of this store
    InvalidEdgeId  \* id_type::invalid_value

ASSUME AdjacencyAssumption ==
    /\ InvalidNode \notin Nodes
    /\ IdBase \in Nat /\ InvalidEdgeId \in Nat
    /\ IdBase <= InvalidEdgeId

VARIABLES
    columns,     \* columns_: source, target and property column
    outgoing,    \* outgoing_: the edge ids per source that has an entry
    incoming,    \* incoming_: the same per target
    size,        \* size_
    statistics,  \* degree_statistics_
    ready,       \* statistics_ready_
    pc,          \* where the running append is, "idle" if none is
    at,          \* the column it writes or takes back next
    pending      \* the row it is to add

vars == <<columns, outgoing, incoming, size, statistics, ready, pc, at, pending>>

Columns == 1 .. 3
Row == Nodes \X Nodes \X Values
NoRow == <<>>

Extent == IdBase + size
Source == pending[1]
Target == pending[2]

EmptyMap == [n \in {} |-> <<>>]
NoStatistics == [edgeCount |-> 0, sourceCount |-> 0, maximumOutDegree |-> 0]

\* operator[] of the hash map makes an entry; the list stays empty until a push.
WithEntry(map, n) == [m \in DOMAIN map \cup {n} |-> IF m \in DOMAIN map THEN map[m] ELSE <<>>]
WithEdge(map, n, id) == [WithEntry(map, n) EXCEPT ![n] = Append(@, id)]

\* adjacency_store::outgoing and incoming: no entry and no edges read the same.
Listed(map, n) == IF n \in DOMAIN map THEN map[n] ELSE <<>>

Init ==
    /\ columns = [c \in Columns |-> <<>>]
    /\ outgoing = EmptyMap
    /\ incoming = EmptyMap
    /\ size = 0
    /\ statistics = NoStatistics
    /\ ready = FALSE
    /\ pc = "idle"
    /\ at = 1
    /\ pending = NoRow

-----------------------------------------------------------------------------
(* append, write by write *)

\* Mutants of Begin: the last id check is off by one; the statistics stay ready.
BeginBeyondLastId(source, target, value) ==
    /\ pc = "idle"
    /\ source # InvalidNode /\ target # InvalidNode
    /\ Extent <= InvalidEdgeId
    /\ ready' = FALSE
    /\ pc' = "columns" /\ pending' = <<source, target, value>>
    /\ at' = 1
    /\ UNCHANGED <<columns, outgoing, incoming, size, statistics>>
BeginStillReady(source, target, value) ==
    /\ pc = "idle"
    /\ source # InvalidNode /\ target # InvalidNode
    /\ Extent < InvalidEdgeId
    /\ pc' = "columns" /\ pending' = <<source, target, value>>
    /\ at' = 1
    /\ UNCHANGED <<columns, outgoing, incoming, size, statistics, ready>>

\* Past the two refusals (invalid endpoint, no id left) the statistics are stale.
Begin(source, target, value) ==
    /\ pc = "idle"
    /\ source # InvalidNode /\ target # InvalidNode
    /\ Extent < InvalidEdgeId
    /\ ready' = FALSE
    /\ \/ pc' = "columns" /\ pending' = <<source, target, value>>
       \/ UNCHANGED <<pc, pending>>  \* building the pending tuple throws
    /\ at' = 1
    /\ UNCHANGED <<columns, outgoing, incoming, size, statistics>>

PushColumn ==
    /\ pc = "columns"
    /\ columns' = [columns EXCEPT ![at] = Append(@, pending[at])]
    /\ IF at + 1 \in Columns
       THEN at' = at + 1 /\ pc' = pc
       ELSE at' = 1 /\ pc' = "outgoing"
    /\ UNCHANGED <<outgoing, incoming, size, statistics, ready, pending>>

\* Mutant of PushColumnThrows: the columns written before are left as they are.
PushColumnThrowsOut ==
    /\ pc = "columns"
    /\ pc' = "unwinding"
    /\ at' = 0
    /\ UNCHANGED <<columns, outgoing, incoming, size, statistics, ready, pending>>

\* push_back throws: the columns written before it are popped, the last first.
PushColumnThrows ==
    /\ pc = "columns"
    /\ pc' = "unwinding"
    /\ at' = at - 1
    /\ UNCHANGED <<columns, outgoing, incoming, size, statistics, ready, pending>>

UnwindColumn ==
    /\ pc = "unwinding" /\ at \in Columns
    /\ columns' = [columns EXCEPT ![at] = Front(@)]
    /\ at' = at - 1
    /\ UNCHANGED <<outgoing, incoming, size, statistics, ready, pc, pending>>

Unwound ==
    /\ pc = "unwinding" /\ at = 0
    /\ pc' = "idle" /\ at' = 1 /\ pending' = NoRow
    /\ UNCHANGED <<columns, outgoing, incoming, size, statistics, ready>>

PushOutgoing ==
    /\ pc = "outgoing"
    /\ outgoing' = WithEdge(outgoing, Source, Extent)
    /\ pc' = "incoming"
    /\ UNCHANGED <<columns, incoming, size, statistics, ready, at, pending>>

\* Either the entry cannot be made or the list cannot grow; an entry stays.
PushOutgoingThrows ==
    /\ pc = "outgoing"
    /\ outgoing' \in {outgoing, WithEntry(outgoing, Source)}
    /\ pc' = "popping"
    /\ UNCHANGED <<columns, incoming, size, statistics, ready, at, pending>>

PushIncoming ==
    /\ pc = "incoming"
    /\ incoming' = WithEdge(incoming, Target, Extent)
    /\ size' = size + 1
    /\ pc' = "idle" /\ pending' = NoRow
    /\ UNCHANGED <<columns, outgoing, statistics, ready, at>>

\* Mutant of PushIncomingThrows: no inner handler, the outgoing list keeps the edge.
PushIncomingThrowsPast ==
    /\ pc = "incoming"
    /\ incoming' \in {incoming, WithEntry(incoming, Target)}
    /\ pc' = "popping"
    /\ UNCHANGED <<columns, outgoing, size, statistics, ready, at, pending>>

\* The inner handler: the edge leaves the source's list again, then the columns go.
PushIncomingThrows ==
    /\ pc = "incoming"
    /\ incoming' \in {incoming, WithEntry(incoming, Target)}
    /\ outgoing' = [outgoing EXCEPT ![Source] = Front(@)]
    /\ pc' = "popping"
    /\ UNCHANGED <<columns, size, statistics, ready, at, pending>>

\* The outer handler: pop_columns, and the exception goes on to the caller.
PopColumns ==
    /\ pc = "popping"
    /\ columns' = [c \in Columns |-> Front(columns[c])]
    /\ pc' = "idle" /\ pending' = NoRow
    /\ UNCHANGED <<outgoing, incoming, size, statistics, ready, at>>

-----------------------------------------------------------------------------
\* build_statistics: an entry without edges counts as a source all the same.
BuildStatistics ==
    /\ pc = "idle"
    /\ statistics' = [edgeCount |-> size,
                      sourceCount |-> Cardinality(DOMAIN outgoing),
                      maximumOutDegree |-> Max({0} \cup {Len(outgoing[n]) : n \in DOMAIN outgoing})]
    /\ ready' = TRUE
    /\ UNCHANGED <<columns, outgoing, incoming, size, pc, at, pending>>

\* A step of an append that is running: of the writes, the handlers and the return.
Run ==
    \/ PushColumn \/ PushColumnThrows \/ UnwindColumn \/ Unwound
    \/ PushOutgoing \/ PushOutgoingThrows
    \/ PushIncoming \/ PushIncomingThrows \/ PopColumns

Next ==
    \/ \E source, target \in Nodes \cup {InvalidNode}, value \in Values :
           Begin(source, target, value)
    \/ Run
    \/ BuildStatistics

Spec == Init /\ [][Next]_vars

-----------------------------------------------------------------------------

ColumnType == <<Nodes, Nodes, Values>>

\* Every column holds entries of its own kind, at most one more than there are edges,
\* and every id handed out is a valid one.
TypeOK ==
    /\ DOMAIN columns = Columns
    /\ \A c \in Columns : columns[c] \in Seq(ColumnType[c]) /\ Len(columns[c]) \in size .. (size + 1)
    /\ \A map \in {outgoing, incoming} :
           /\ DOMAIN map \subseteq Nodes
           /\ \A n \in DOMAIN map : map[n] \in Seq(IdBase .. (InvalidEdgeId - 1))
    /\ size \in 0 .. (InvalidEdgeId - IdBase)
    /\ ready \in BOOLEAN
    /\ pc \in {"idle", "columns", "unwinding", "outgoing", "incoming", "popping"}
    /\ at \in Columns \cup {0}
    /\ pending \in Row \cup {NoRow}

\* The ids of the edges whose entry in the column is n.
EdgesWith(column, n) == {IdBase + i - 1 : i \in {j \in 1 .. size : columns[column][j] = n}}

\* Between calls the columns have one entry per edge, and the two hash maps say of
\* every node exactly what the columns say, in order, however many appends threw and
\* wherever they did.
StoreConsistent ==
    pc = "idle" =>
        /\ \A c \in Columns : Len(columns[c]) = size
        /\ \A n \in Nodes : /\ InOrder(Listed(outgoing, n), EdgesWith(1, n))
                            /\ InOrder(Listed(incoming, n), EdgesWith(2, n))

\* Statistics called ready are those of the edges stored: their number and the
\* largest number that leave one node.
StatisticsCurrent ==
    ready =>
        /\ statistics.edgeCount = size
        /\ statistics.maximumOutDegree =
               Max({0} \cup {Cardinality(EdgesWith(1, n)) : n \in Nodes})

\* The store implements a list of rows: an append that returns has added exactly
\* the row it was given, one that throws has changed none, wherever it threw.
Rows == INSTANCE RowStore WITH
            rows <- [i \in 1 .. size |-> [c \in Columns |-> columns[c][i]]],
            RowSet <- Row, Room <- InvalidEdgeId - IdBase

\* Each append, with everything it does when a write throws, is one step of RowStore.
AppendsAreAtomic == Rows!Spec

\* The test BuildsRelationDegreeStatistics: source_count is the number of sources
\* that edges leave from.
SourceCountIsSources ==
    ready => statistics.sourceCount = Cardinality({columns[1][i] : i \in 1 .. size})

=============================================================================
