--------------------------- MODULE HistoryDigest ----------------------------
(***************************************************************************)
(* The canonical hash of a memory history's log, and what comparing two of *)
(* them is good for: telling a log from one that is not quite the same.    *)
(***************************************************************************)
EXTENDS MemoryHistory, CanonicalHash

CONSTANTS
    OtherIds,      \* numbers that may stand where an id should be
    OtherValues,   \* values a tampered revision may have
    OtherSources,  \* provenances a tampered event may have
    MaxCompared    \* bound: length of the logs compared

\* The revision with one field changed, each field in turn.
RevisionsLike(revision) ==
    {[revision EXCEPT !.memory = memory] : memory \in OtherIds}
    \cup {[revision EXCEPT !.perspective = perspective] : perspective \in OtherIds}
    \cup {[revision EXCEPT !.valid.from = time] : time \in Times}
    \cup {[revision EXCEPT !.valid.to = time] : time \in Times}
    \cup {[revision EXCEPT !.value = value] : value \in OtherValues}

\* The event with one field changed, each field in turn.
EventsLike(event) ==
    {[event EXCEPT !.sequence = sequence] : sequence \in OtherIds}
    \cup {[event EXCEPT !.kind = kind] : kind \in {"entity_created", "memory_reinterpreted"}}
    \cup {[event EXCEPT !.validTime = time] : time \in Times}
    \cup {[event EXCEPT !.recordedTime = time] : time \in Times}
    \cup {[event EXCEPT !.worldline = worldline] : worldline \in OtherIds}
    \cup {[event EXCEPT !.payload = revision] : revision \in RevisionsLike(event.payload)}
    \cup {[event EXCEPT !.previous = previous] : previous \in {NoSequence} \cup OtherIds}
    \cup {[event EXCEPT !.source = source] : source \in OtherSources}

\* The logs one step away from the log: a field of an event differs, two events next
\* to each other are swapped, or the last event is missing.
LogsLike ==
    UNION {{[log EXCEPT ![i] = event] : event \in EventsLike(log[i])} : i \in 1 .. Len(log)}
    \cup {[log EXCEPT ![i] = log[i + 1], ![i + 1] = log[i]] : i \in 1 .. (Len(log) - 1)}
    \cup (IF log = <<>> THEN {} ELSE {Front(log)})

\* A digest stands for its log: no log that differs in a single field of an event or of
\* its revision, in the order of two or in the number of its events has the same one.
DigestTellsLogsApart ==
    Len(log) <= MaxCompared =>
        LET stream == LogStream(log) IN
        \A other \in LogsLike \ {log} : LogStream(other) # stream

=============================================================================
