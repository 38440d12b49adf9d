------------------------------ MODULE EventLog ------------------------------
(***************************************************************************)
(* runtime/event_log.hpp: the append-only log of graph events.  A log is a *)
(* value here, the sequence of its events; the event with sequence number  *)
(* n is at position n + 1.  The modules that own a log keep it in a        *)
(* variable and give the events their payloads.                            *)
(***************************************************************************)
EXTENDS Temporal, Sequences, SequencesExt

CONSTANTS
    Worldlines,       \* valid worldline ids
    NoWorldline,      \* worldline_id::invalid()
    InvalidSequence,  \* event_sequence::invalid_value
    NoSequence        \* std::nullopt of an optional event_sequence

ASSUME EventLogAssumption ==
    /\ NoWorldline \notin Worldlines
    /\ InvalidSequence \in Nat
    /\ NoSequence \notin Nat

SequenceNumbers == 0 .. (InvalidSequence - 1)

\* The event that append makes of its arguments.
EventFor(log, kind, validTime, recordedTime, worldline, payload, previous, source) ==
    [sequence |-> Len(log), kind |-> kind, validTime |-> validTime,
     recordedTime |-> recordedTime, worldline |-> worldline,
     payload |-> payload, previous |-> previous, source |-> source]

\* event_log::find.
Found(log, sequence) == sequence # InvalidSequence /\ sequence < Len(log)
EventAt(log, sequence) == log[sequence + 1]

\* Mutants of CanAppend: the worldline, the order of recorded times or the number
\* of events is not checked (or is checked off by one).
CanAppendAnywhere(log, event) ==
    /\ Len(log) < InvalidSequence
    /\ log # <<>> => Last(log).recordedTime <= event.recordedTime
    /\ event.previous # NoSequence => Found(log, event.previous)
CanAppendAnytime(log, event) ==
    /\ event.worldline # NoWorldline
    /\ Len(log) < InvalidSequence
    /\ event.previous # NoSequence => Found(log, event.previous)
CanAppendBeyondLast(log, event) ==
    /\ event.worldline # NoWorldline
    /\ Len(log) <= InvalidSequence
    /\ log # <<>> => Last(log).recordedTime <= event.recordedTime
    /\ event.previous # NoSequence => Found(log, event.previous)

\* The refusals of event_log::append; the event that passes is pushed back.
CanAppend(log, event) ==
    /\ event.worldline # NoWorldline
    /\ Len(log) < InvalidSequence
    /\ log # <<>> => Last(log).recordedTime <= event.recordedTime
    /\ event.previous # NoSequence => Found(log, event.previous)

\* checksum_for, taken to be free of collisions: it covers every field of the
\* event but its provenance, and nothing of the events before it.
Checksum(event) ==
    [sequence |-> event.sequence, kind |-> event.kind, validTime |-> event.validTime,
     recordedTime |-> event.recordedTime, worldline |-> event.worldline,
     payload |-> event.payload, previous |-> event.previous]

\* Events of a log, whatever their kinds and payloads.
WellNumbered(log) ==
    \A i \in 1 .. Len(log) :
        /\ log[i].sequence = i - 1
        /\ log[i].previous # NoSequence => log[i].previous < log[i].sequence

=============================================================================
