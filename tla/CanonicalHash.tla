--------------------------- MODULE CanonicalHash ----------------------------
(***************************************************************************)
(* runtime/canonical_hash.hpp: the bytes that are hashed for a log of      *)
(* memory revisions.  The 64-bit hash of a stream of bytes is taken to be  *)
(* free of collisions, so the stream itself stands for the digest.         *)
(*                                                                         *)
(* Numbers are split into bytes at their width.  Tags are texts of one     *)
(* byte here, a different one for each.                                    *)
(***************************************************************************)
EXTENDS EventLog, Provenance

CONSTANTS
    Word,  \* bound: bytes of a 64-bit number
    Int32  \* bound: bytes of an int, of a 32-bit enumeration

ASSUME WidthAssumption == Word \in 1 .. 3 /\ Int32 \in 1 .. 3

EventKind ==
    [entity_created |-> 0, state_appended |-> 1, edge_created |-> 2, worldline_forked |-> 3,
     memory_reinterpreted |-> 4, model_inference_recorded |-> 5, snapshot_compacted |-> 6,
     tombstone |-> 7]

ProvenanceTag == <<1>>
RevisionTag == <<2>>
LogTag == <<3>>
EventTag == <<4>>

\* append_unsigned of the two's complement, the lowest byte first.
Unsigned(number, width) == [i \in 1 .. width |-> (number \div 256 ^ (i - 1)) % 256]

AppendTag(tag) == <<240>> \o Unsigned(Len(tag), Word) \o tag

\* One operator per overload of canonical_hash_append.
Boolean(value) == <<1, IF value THEN 1 ELSE 0>>
Integral(number, width) == <<2, width>> \o Unsigned(number, width)
String(text) == <<4>> \o Unsigned(Len(text), Word) \o text
Id(id) == <<5>> \o Unsigned(id, Word)
Time(point) == <<6>> \o Integral(point, Word)
Optional(present, stream) == <<7>> \o Boolean(present) \o (IF present THEN stream ELSE <<>>)

ProvenanceStream(p) ==
    AppendTag(ProvenanceTag) \o Integral(ProvenanceKind[p.kind], Int32) \o String(p.source)
        \o Optional(p.modelRun # NoModelRun, Id(p.modelRun))

\* The value of a revision is a text.
RevisionStream(revision) ==
    AppendTag(RevisionTag) \o Id(revision.memory) \o Id(revision.perspective)
        \o Time(revision.valid.from) \o Time(revision.valid.to) \o String(revision.value)

\* Mutant of EventStream: provenance is left out, as it is of the checksum of an event.
EventStreamAsChecksum(event) ==
    AppendTag(EventTag) \o Id(event.sequence) \o Integral(EventKind[event.kind], 1)
        \o Time(event.validTime) \o Time(event.recordedTime) \o Id(event.worldline)
        \o RevisionStream(event.payload)
        \o Optional(event.previous # NoSequence, Id(event.previous))

EventStream(event) ==
    AppendTag(EventTag) \o Id(event.sequence) \o Integral(EventKind[event.kind], 1)
        \o Time(event.validTime) \o Time(event.recordedTime) \o Id(event.worldline)
        \o RevisionStream(event.payload)
        \o Optional(event.previous # NoSequence, Id(event.previous))
        \o ProvenanceStream(event.source)

\* canonical_hash_of a log.
LogStream(log) ==
    FoldLeft(LAMBDA stream, event : stream \o EventStream(event),
             AppendTag(LogTag) \o Integral(Len(log), Word), log)

=============================================================================
