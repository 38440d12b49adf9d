--------------------------- MODULE MemoryHistory ----------------------------
(***************************************************************************)
(* runtime/memory_history.hpp: how the interpretation of a memory changes. *)
(* A memory is interpreted from a perspective and on a worldline, first by *)
(* append_original and then by reinterpret; every interpretation stays in  *)
(* the log, so that at() can tell what was believed at an earlier time.    *)
(***************************************************************************)
EXTENDS EventLog

CONSTANTS
    Memories,       \* valid memory ids
    NoMemory,       \* the invalid memory id
    Perspectives,   \* valid perspective ids
    NoPerspective,  \* perspective_id::invalid()
    Intervals,      \* the valid intervals of interpretations
    Values,         \* what a memory is interpreted as
    Sources,        \* the provenances callers give
    Times           \* recorded times, and the points asked for

ASSUME HistoryAssumption ==
    /\ NoMemory \notin Memories
    /\ NoPerspective \notin Perspectives
    /\ Times \subseteq Int
    /\ \A i \in Intervals : i \in [from : Int, to : Int] /\ i.from < i.to

VARIABLE log  \* log_

Keys == [memory : Memories, perspective : Perspectives, worldline : Worldlines]

Init == log = <<>>

-----------------------------------------------------------------------------

IsOf(event, key) ==
    /\ event.payload.memory = key.memory
    /\ event.payload.perspective = key.perspective
    /\ event.worldline = key.worldline

HasRevision(key) == \E i \in 1 .. Len(log) : IsOf(log[i], key)

\* Mutant of LatestSequence: the worldline of the event is not compared.
LatestOnAnyWorldline(key, recordedTime) ==
    LET known == {i \in 1 .. Len(log) : /\ log[i].payload.memory = key.memory
                                        /\ log[i].payload.perspective = key.perspective
                                        /\ log[i].recordedTime <= recordedTime}
    IN  IF known = {} THEN NoSequence ELSE log[Max(known)].sequence

\* latest_sequence: the last in the log, not the last recorded.
LatestSequence(key, recordedTime) ==
    LET known == {i \in 1 .. Len(log) : IsOf(log[i], key) /\ log[i].recordedTime <= recordedTime}
    IN  IF known = {} THEN NoSequence ELSE log[Max(known)].sequence

\* memory_history::append.
AppendRevision(kind, key, valid, recordedTime, value, source, previous) ==
    LET revision == [memory |-> key.memory, perspective |-> key.perspective,
                     valid |-> valid, value |-> value]
        event == EventFor(log, kind, valid.from, recordedTime, key.worldline, revision, previous,
                          source)
    IN  /\ key.memory # NoMemory
        /\ key.perspective # NoPerspective
        /\ CanAppend(log, event)
        /\ log' = Append(log, event)

AppendOriginal(key, valid, recordedTime, value, source) ==
    /\ ~HasRevision(key)
    /\ AppendRevision("entity_created", key, valid, recordedTime, value, source, NoSequence)

Reinterpret(key, valid, recordedTime, value, source) ==
    /\ LatestSequence(key, recordedTime) # NoSequence
    /\ AppendRevision("memory_reinterpreted", key, valid, recordedTime, value, source,
                      LatestSequence(key, recordedTime))

\* The keys callers pass, the invalid ones included.
KeyInputs == [memory : Memories \cup {NoMemory},
              perspective : Perspectives \cup {NoPerspective},
              worldline : Worldlines \cup {NoWorldline}]

Next ==
    \E key \in KeyInputs, valid \in Intervals, recordedTime \in Times, value \in Values,
          source \in Sources :
        \/ AppendOriginal(key, valid, recordedTime, value, source)
        \/ Reinterpret(key, valid, recordedTime, value, source)

Spec == Init /\ [][Next]_log

-----------------------------------------------------------------------------
(* at(): of the interpretations known at one time and valid at another, the *)
(* one recorded last, the later in the log when recorded together.          *)

Visible(key, validAt, knownAt) ==
    {i \in 1 .. Len(log) : /\ IsOf(log[i], key)
                           /\ log[i].recordedTime <= knownAt
                           /\ Covers(log[i].payload.valid, validAt)}

\* Mutant of RecordedAfter: of events recorded together the first wins.
RecordedAfterOrFirst(event, other) ==
    \/ other.recordedTime < event.recordedTime
    \/ other.recordedTime = event.recordedTime /\ event.sequence < other.sequence

RecordedAfter(event, other) ==
    \/ other.recordedTime < event.recordedTime
    \/ other.recordedTime = event.recordedTime /\ other.sequence < event.sequence

\* The event selected, or <<>> when the memory is not visible then.
At(key, validAt, knownAt) ==
    LET visible == Visible(key, validAt, knownAt)
        latest(i) == \A j \in visible \ {i} : RecordedAfter(log[i], log[j])
    IN  IF visible = {} THEN <<>> ELSE <<log[CHOOSE i \in visible : latest(i)]>>

-----------------------------------------------------------------------------

\* The log is numbered without gaps up to the last valid sequence number, and every
\* event in it is an interpretation of a valid memory from a valid perspective.
TypeOK ==
    /\ WellNumbered(log)
    /\ Len(log) <= InvalidSequence
    /\ \A i \in 1 .. Len(log) :
           /\ log[i].kind \in {"entity_created", "memory_reinterpreted"}
           /\ log[i].recordedTime \in Times
           /\ log[i].validTime = log[i].payload.valid.from
           /\ \E key \in Keys : IsOf(log[i], key)

\* The positions of a key's interpretations.
Versions(key) == {i \in 1 .. Len(log) : IsOf(log[i], key)}

\* The interpretations of a memory form one line: the first is the original, each
\* later one names the one before it, and none is left out or named twice, though
\* callers choose the recorded times and interleave memories in one log.
VersionsFormALine ==
    \A key \in Keys : \A i \in Versions(key) :
        LET before == {j \in Versions(key) : j < i}
        IN  IF before = {}
            THEN log[i].kind = "entity_created" /\ log[i].previous = NoSequence
            ELSE /\ log[i].kind = "memory_reinterpreted"
                 /\ log[i].previous = log[Max(before)].sequence

\* From an event back along the links to the previous one, the first interpretation
\* that is valid at a time.
ValidOnTheLine(sequence, validAt) ==
    LET walk[n \in {NoSequence} \cup (0 .. (Len(log) - 1))] ==
            IF n = NoSequence THEN <<>>
            ELSE IF Covers(EventAt(log, n).payload.valid, validAt)
                 THEN <<EventAt(log, n)>>
                 ELSE walk[EventAt(log, n).previous]
    IN  walk[sequence]

\* Walking back from the latest version known leads to the one at() selects.
AtFollowsTheLine ==
    \A key \in Keys, validAt, knownAt \in Times :
        At(key, validAt, knownAt) = ValidOnTheLine(LatestSequence(key, knownAt), validAt)

\* What was known at a time stays what was known then: once something was recorded
\* later than a time, no append changes an answer as of that time.
PastIsStable ==
    [][\A key \in Keys, validAt, knownAt \in Times :
           log # <<>> /\ knownAt < Last(log).recordedTime =>
               At(key, validAt, knownAt)' = At(key, validAt, knownAt)]_log

=============================================================================
