------------------------ MODULE MemoryHistoryProofs -------------------------
(***************************************************************************)
(* Proofs about MemoryHistory: for any memories, perspectives, worldlines, *)
(* intervals and recorded times, in logs of any length.                    *)
(***************************************************************************)
EXTENDS MemoryHistory, ProofLemmas

-----------------------------------------------------------------------------
(* The inductive invariant. *)

Revision ==
    [memory : Memories, perspective : Perspectives, valid : Intervals, value : Values]
RevisionEvent ==
    [sequence : Nat, kind : {"entity_created", "memory_reinterpreted"}, validTime : Int,
     recordedTime : Times, worldline : Worldlines, payload : Revision,
     previous : Nat \cup {NoSequence}, source : Sources]

EventsOK ==
    /\ log \in Seq(RevisionEvent)
    /\ Len(log) <= InvalidSequence
    /\ \A i \in 1 .. Len(log) :
           /\ log[i].sequence = i - 1
           /\ log[i].validTime = log[i].payload.valid.from
           /\ log[i].previous # NoSequence => log[i].previous < i - 1

\* Events are recorded in the order of the log.
TimesAscend ==
    \A i, j \in 1 .. Len(log) : i <= j => log[i].recordedTime <= log[j].recordedTime

HistoryInvariant == EventsOK /\ TimesAscend /\ VersionsFormALine

LEMMA EventFacts ==
    ASSUME EventsOK
    PROVE  /\ Len(log) \in Nat
           /\ \A i \in 1 .. Len(log) :
                  /\ log[i] \in RevisionEvent
                  /\ log[i].recordedTime \in Int
                  /\ \E key \in Keys : IsOf(log[i], key)
  <1>1. Len(log) \in Nat /\ \A i \in 1 .. Len(log) : log[i] \in RevisionEvent
    BY LenProperties, ElementOfSeq DEF EventsOK
  <1>2. ASSUME NEW i \in 1 .. Len(log)
        PROVE  log[i].recordedTime \in Int /\ \E key \in Keys : IsOf(log[i], key)
    <2> DEFINE key == [memory |-> log[i].payload.memory,
                       perspective |-> log[i].payload.perspective,
                       worldline |-> log[i].worldline]
    <2>1. log[i].recordedTime \in Times /\ key \in Keys
      BY <1>1 DEF RevisionEvent, Revision, Keys
    <2>2. IsOf(log[i], key)
      BY DEF IsOf
    <2> QED BY <2>1, <2>2, HistoryAssumption
  <1> QED BY <1>1, <1>2

\* The latest version known is the last in the log of those recorded by then.
LEMMA LatestFacts ==
    ASSUME EventsOK, NEW key, NEW time,
           NEW known, known = {i \in Versions(key) : log[i].recordedTime <= time}
    PROVE  /\ known = {} => LatestSequence(key, time) = NoSequence
           /\ known # {} => /\ LatestSequence(key, time) = Max(known) - 1
                            /\ LatestSequence(key, time) = log[Max(known)].sequence
                            /\ LatestSequence(key, time) # NoSequence
                            /\ Max(known) \in known /\ \A i \in known : i <= Max(known)
  <1>1. known = {i \in 1 .. Len(log) : IsOf(log[i], key) /\ log[i].recordedTime <= time}
    BY DEF Versions
  <1>2. LatestSequence(key, time) = IF known = {} THEN NoSequence ELSE log[Max(known)].sequence
    BY <1>1 DEF LatestSequence
  <1>3. known # {} => Max(known) \in known /\ \A i \in known : i <= Max(known)
    <2>1. Len(log) \in Nat /\ known \in SUBSET (1 .. Len(log))
      BY <1>1, EventFacts
    <2> QED BY <2>1, MaxIsLast
  <1>4. known # {} => log[Max(known)].sequence = Max(known) - 1 /\ Max(known) \in 1 .. Len(log)
    BY <1>1, <1>3 DEF EventsOK
  <1>5. \A n \in Nat \ {0} : n - 1 # NoSequence
    BY EventLogAssumption
  <1>6. known # {} => Max(known) \in Nat \ {0}
    BY <1>4, EventFacts
  <1> QED BY <1>2, <1>3, <1>4, <1>5, <1>6

\* An event the log takes is not recorded before any event in it.
LEMMA RecordedInOrder ==
    ASSUME EventsOK, TimesAscend, NEW event, CanAppend(log, event), event.recordedTime \in Int
    PROVE  \A i \in 1 .. Len(log) : log[i].recordedTime <= event.recordedTime
  <1> SUFFICES ASSUME NEW i \in 1 .. Len(log)
               PROVE  log[i].recordedTime <= event.recordedTime
    OBVIOUS
  <1>a. PICK n \in Nat : n = Len(log)
    BY EventFacts
  <1>1. log # <<>> /\ n \in 1 .. n /\ Last(log) = log[n]
    BY <1>a, EmptySeq DEF Last
  <1>2. log[n].recordedTime <= event.recordedTime
    BY <1>1 DEF CanAppend
  <1>3. log[i].recordedTime <= log[n].recordedTime
    BY <1>a DEF TimesAscend
  <1>4. log[i].recordedTime \in Int /\ log[n].recordedTime \in Int
    BY <1>a, <1>1, EventFacts
  <1> QED BY <1>2, <1>3, <1>4

LEMMA InitInvariant == Init => HistoryInvariant
  <1> SUFFICES ASSUME Init PROVE HistoryInvariant
    OBVIOUS
  <1>1. log = <<>> /\ Len(log) = 0
    BY EmptySeq DEF Init
  <1> QED BY <1>1, EmptySeq, EventLogAssumption
          DEF HistoryInvariant, EventsOK, TimesAscend, VersionsFormALine, Versions

\* An event of a valid key that continues the key's line, or begins it.
LEMMA AppendKeeps ==
    ASSUME HistoryInvariant, NEW key \in KeyInputs, NEW kind, NEW valid \in Intervals,
           NEW recordedTime \in Times, NEW value \in Values, NEW source \in Sources, NEW previous,
           AppendRevision(kind, key, valid, recordedTime, value, source, previous),
           \/ /\ kind = "entity_created" /\ previous = NoSequence
              /\ Versions(key) = {}
           \/ /\ kind = "memory_reinterpreted"
              /\ Versions(key) # {} /\ previous = log[Max(Versions(key))].sequence
    PROVE  HistoryInvariant'
  <1>a. PICK n \in Nat : n = Len(log)
    BY EventFacts DEF HistoryInvariant
  <1>b. PICK revision : revision = [memory |-> key.memory, perspective |-> key.perspective,
                                    valid |-> valid, value |-> value]
    OBVIOUS
  <1>c. PICK event : event = EventFor(log, kind, valid.from, recordedTime, key.worldline,
                                      revision, previous, source)
    OBVIOUS
  <1>1. /\ key.memory # NoMemory /\ key.perspective # NoPerspective
        /\ CanAppend(log, event) /\ log' = Append(log, event)
    BY <1>b, <1>c DEF AppendRevision
  <1>2. /\ event.sequence = n /\ event.kind = kind /\ event.validTime = valid.from
        /\ event.recordedTime = recordedTime /\ event.worldline = key.worldline
        /\ event.payload = revision /\ event.previous = previous /\ event.source = source
    BY <1>a, <1>c DEF EventFor
  <1>3. key \in Keys
    BY <1>1, <1>2 DEF CanAppend, KeyInputs, Keys
  <1>4. /\ n < InvalidSequence
        /\ \A i \in 1 .. n : log[i].recordedTime <= recordedTime
        /\ previous # NoSequence => previous \in 0 .. (n - 1)
    <2>1. n < InvalidSequence
      BY <1>1, <1>a DEF CanAppend
    <2>2. \A i \in 1 .. n : log[i].recordedTime <= recordedTime
      BY <1>1, <1>2, <1>a, RecordedInOrder, HistoryAssumption DEF HistoryInvariant
    <2>3. previous # NoSequence => previous \in 0 .. (n - 1)
      <3>1. CASE Versions(key) # {}
        <4>1. Versions(key) \in SUBSET (1 .. n)
          BY <1>a DEF Versions
        <4>2. Max(Versions(key)) \in 1 .. n
          BY <3>1, <4>1, MaxIsLast
        <4>3. log[Max(Versions(key))].sequence = Max(Versions(key)) - 1
          BY <1>a, <4>2 DEF HistoryInvariant, EventsOK
        <4> QED BY <3>1, <4>2, <4>3
      <3>2. CASE Versions(key) = {}
        BY <3>2
      <3> QED BY <3>1, <3>2
    <2> QED BY <2>1, <2>2, <2>3
  <1>5. event \in RevisionEvent
    <2>1. revision \in Revision
      BY <1>1, <1>b, <1>3 DEF Revision, Keys
    <2>2. valid.from \in Int
      BY HistoryAssumption
    <2>3. previous \in Nat \cup {NoSequence} /\ kind \in {"entity_created", "memory_reinterpreted"}
      BY <1>4
    <2> QED BY <1>a, <1>3, <1>c, <2>1, <2>2, <2>3 DEF EventFor, RevisionEvent, Keys
  <1>6. /\ log' \in Seq(RevisionEvent) /\ Len(log') = n + 1 /\ log'[n + 1] = event
        /\ \A i \in 1 .. n : log'[i] = log[i]
    BY <1>1, <1>5, <1>a, AppendProperties DEF HistoryInvariant, EventsOK
  <1>7. EventsOK'
    <2>1. ASSUME NEW i \in 1 .. (n + 1)
          PROVE  /\ log'[i].sequence = i - 1
                 /\ log'[i].validTime = log'[i].payload.valid.from
                 /\ log'[i].previous # NoSequence => log'[i].previous < i - 1
      <3>1. CASE i = n + 1
        BY <1>2, <1>4, <1>6, <1>b, <3>1
      <3>2. CASE i \in 1 .. n
        BY <1>6, <1>a, <3>2 DEF HistoryInvariant, EventsOK
      <3> QED BY <3>1, <3>2
    <2> QED BY <1>4, <1>6, <2>1, EventLogAssumption DEF EventsOK
  <1>8. TimesAscend'
    <2> SUFFICES ASSUME NEW i \in 1 .. (n + 1), NEW j \in 1 .. (n + 1), i <= j
                 PROVE  log'[i].recordedTime <= log'[j].recordedTime
      BY <1>6 DEF TimesAscend
    <2>1. CASE j \in 1 .. n
      BY <1>6, <1>a, <2>1 DEF HistoryInvariant, TimesAscend
    <2>2. CASE j = n + 1 /\ i \in 1 .. n
      BY <1>2, <1>4, <1>6, <2>2
    <2>3. CASE j = n + 1 /\ i = n + 1
      BY <1>2, <1>6, <2>3, HistoryAssumption
    <2> QED BY <2>1, <2>2, <2>3
  <1>9. VersionsFormALine'
    <2> SUFFICES ASSUME NEW other \in Keys, NEW i \in Versions(other)'
                 PROVE  LET before == {j \in Versions(other)' : j < i}
                        IN  IF before = {}
                            THEN log'[i].kind = "entity_created" /\ log'[i].previous = NoSequence
                            ELSE /\ log'[i].kind = "memory_reinterpreted"
                                 /\ log'[i].previous = log'[Max(before)].sequence
      BY DEF VersionsFormALine
    <2>1. Versions(other)' = Versions(other) \cup (IF IsOf(event, other) THEN {n + 1} ELSE {})
      <3>1. \A j \in 1 .. (n + 1) : j \in 1 .. n \/ j = n + 1
        OBVIOUS
      <3>2. Versions(other)' = {j \in 1 .. (n + 1) : IsOf(log'[j], other)}
        BY <1>6 DEF Versions, IsOf
      <3>3. Versions(other) = {j \in 1 .. n : IsOf(log[j], other)}
        BY <1>a DEF Versions
      <3> QED BY <1>6, <3>1, <3>2, <3>3
    <2> DEFINE before == {j \in Versions(other)' : j < i}
    <2>2. Versions(other) \in SUBSET (1 .. n)
      BY <1>a DEF Versions
    <2>3. CASE i \in Versions(other)
      <3>1. before = {j \in Versions(other) : j < i} /\ i \in 1 .. n
        BY <2>1, <2>2, <2>3
      <3> HIDE DEF before
      <3>2. IF before = {}
            THEN log[i].kind = "entity_created" /\ log[i].previous = NoSequence
            ELSE /\ log[i].kind = "memory_reinterpreted"
                 /\ log[i].previous = log[Max(before)].sequence
        BY <2>3, <3>1 DEF HistoryInvariant, VersionsFormALine
      <3>3. before # {} => Max(before) \in 1 .. n
        BY <2>2, <3>1, MaxIsLast
      <3> QED BY <1>6, <3>1, <3>2, <3>3 DEF before
    <2>4. CASE i \notin Versions(other)
      <3>1. i = n + 1 /\ IsOf(event, other)
        BY <2>1, <2>4
      <3>2. before = Versions(other)
        BY <2>1, <2>2, <3>1
      <3>3. Versions(other) = Versions(key)
        <4>1. other.memory = key.memory /\ other.perspective = key.perspective
              /\ other.worldline = key.worldline
          BY <1>2, <1>b, <3>1 DEF IsOf
        <4> QED BY <4>1 DEF Versions, IsOf
      <3> HIDE DEF before
      <3>4. before # {} => Max(before) \in 1 .. n
        BY <2>2, <3>2, MaxIsLast
      <3> QED BY <1>2, <1>6, <3>1, <3>2, <3>3, <3>4 DEF before
    <2> QED BY <2>3, <2>4
  <1> QED BY <1>7, <1>8, <1>9 DEF HistoryInvariant

LEMMA OriginalKeeps ==
    ASSUME HistoryInvariant, NEW key \in KeyInputs, NEW valid \in Intervals,
           NEW recordedTime \in Times, NEW value \in Values, NEW source \in Sources,
           AppendOriginal(key, valid, recordedTime, value, source)
    PROVE  HistoryInvariant'
  <1>1. Versions(key) = {}
    BY DEF AppendOriginal, HasRevision, Versions
  <1>2. AppendRevision("entity_created", key, valid, recordedTime, value, source, NoSequence)
    BY DEF AppendOriginal
  <1> QED BY <1>1, <1>2, AppendKeeps

\* The log takes no event recorded before another, so that the latest version known
\* when a reinterpretation is recorded is the latest there is.
LEMMA ReinterpretKeeps ==
    ASSUME HistoryInvariant, NEW key \in KeyInputs, NEW valid \in Intervals,
           NEW recordedTime \in Times, NEW value \in Values, NEW source \in Sources,
           Reinterpret(key, valid, recordedTime, value, source)
    PROVE  HistoryInvariant'
  <1> DEFINE previous == LatestSequence(key, recordedTime)
             known == {i \in Versions(key) : log[i].recordedTime <= recordedTime}
  <1>1. previous # NoSequence
    BY DEF Reinterpret
  <1>2. AppendRevision("memory_reinterpreted", key, valid, recordedTime, value, source, previous)
    BY DEF Reinterpret
  <1>3. \A i \in 1 .. Len(log) : log[i].recordedTime <= recordedTime
    <2>1. PICK event : CanAppend(log, event) /\ event.recordedTime = recordedTime
      BY <1>2 DEF AppendRevision, EventFor
    <2>2. recordedTime \in Int
      BY HistoryAssumption
    <2> QED BY <2>1, <2>2, RecordedInOrder DEF HistoryInvariant
  <1>4. known = Versions(key)
    BY <1>3 DEF Versions
  <1> HIDE DEF known
  <1>5. Versions(key) # {} /\ previous = log[Max(Versions(key))].sequence
    BY <1>1, <1>4, LatestFacts DEF known, HistoryInvariant
  <1> HIDE DEF previous
  <1> QED BY <1>2, <1>5, AppendKeeps

LEMMA StepKeepsInvariant ==
    ASSUME HistoryInvariant, Next
    PROVE  HistoryInvariant'
  <1>1. PICK key \in KeyInputs, valid \in Intervals, recordedTime \in Times, value \in Values,
             source \in Sources :
            \/ AppendOriginal(key, valid, recordedTime, value, source)
            \/ Reinterpret(key, valid, recordedTime, value, source)
    BY DEF Next
  <1>2. CASE AppendOriginal(key, valid, recordedTime, value, source)
    BY <1>2, OriginalKeeps
  <1>3. CASE Reinterpret(key, valid, recordedTime, value, source)
    BY <1>3, ReinterpretKeeps
  <1> QED BY <1>1, <1>2, <1>3

\* The invariant: events are numbered and ordered in time, and the versions of every
\* key form a line.
THEOREM HistoryIsWellFormed == Spec => []HistoryInvariant
  <1>1. HistoryInvariant /\ UNCHANGED log => HistoryInvariant'
    <2> SUFFICES ASSUME HistoryInvariant, log' = log PROVE HistoryInvariant'
      OBVIOUS
    <2>1. EventsOK' /\ TimesAscend'
      BY DEF HistoryInvariant, EventsOK, TimesAscend
    <2>2. \A key : Versions(key)' = Versions(key)
      BY DEF Versions, IsOf
    <2>3. VersionsFormALine'
      BY <2>2 DEF HistoryInvariant, VersionsFormALine
    <2> QED BY <2>1, <2>3 DEF HistoryInvariant
  <1> QED BY <1>1, InitInvariant, StepKeepsInvariant, PTL DEF Spec

\* Logs are numbered without gaps, never beyond the last valid number, and hold only
\* interpretations of valid memories from valid perspectives, whatever keys callers
\* pass to append_original and reinterpret.
THEOREM HistoryIsTyped == Spec => []TypeOK
  <1>1. HistoryInvariant => TypeOK
    <2> SUFFICES ASSUME HistoryInvariant PROVE TypeOK
      OBVIOUS
    <2>1. EventsOK
      BY DEF HistoryInvariant
    <2>2. WellNumbered(log)
      BY <2>1 DEF EventsOK, WellNumbered
    <2>3. \A i \in 1 .. Len(log) : log[i] \in RevisionEvent /\ \E key \in Keys : IsOf(log[i], key)
      BY <2>1, EventFacts
    <2> QED BY <2>1, <2>2, <2>3 DEF TypeOK, EventsOK, RevisionEvent
  <1> QED BY <1>1, HistoryIsWellFormed, PTL

\* However callers choose recorded times and interleave memories, reinterpret finds
\* the one version before it: the versions of a key form a line from its original.
THEOREM VersionsAreLinear == Spec => []VersionsFormALine
  <1>1. HistoryInvariant => VersionsFormALine
    BY DEF HistoryInvariant
  <1> QED BY <1>1, HistoryIsWellFormed, PTL

-----------------------------------------------------------------------------
(* What at() selects. *)

\* Of two events the later in the log is the one recorded after.
LEMMA LaterIsRecordedAfter ==
    ASSUME EventsOK, TimesAscend, NEW i \in 1 .. Len(log), NEW j \in 1 .. Len(log), i # j
    PROVE  RecordedAfter(log[i], log[j]) <=> j < i
  <1>a. PICK n \in Nat : n = Len(log)
    BY EventFacts
  <1>1. log[i].sequence = i - 1 /\ log[j].sequence = j - 1
    BY DEF EventsOK
  <1>2. log[i].recordedTime \in Int /\ log[j].recordedTime \in Int
    BY EventFacts
  <1>3. j < i => log[j].recordedTime <= log[i].recordedTime
    BY <1>a DEF TimesAscend
  <1>4. i < j => log[i].recordedTime <= log[j].recordedTime
    BY <1>a DEF TimesAscend
  <1> QED BY <1>a, <1>1, <1>2, <1>3, <1>4 DEF RecordedAfter

\* at() selects the last in the log of the events it can see.
AtIsLastVisible ==
    \A key, validAt, knownAt :
        LET visible == Visible(key, validAt, knownAt)
        IN  At(key, validAt, knownAt) =
                IF visible = {} THEN <<>> ELSE <<log[Max(visible)]>>

LEMMA AtFacts == HistoryInvariant => AtIsLastVisible
  <1> SUFFICES ASSUME HistoryInvariant, NEW key, NEW validAt, NEW knownAt,
                      NEW visible, visible = Visible(key, validAt, knownAt), visible # {}
               PROVE  At(key, validAt, knownAt) = <<log[Max(visible)]>>
    BY DEF AtIsLastVisible, At
  <1> DEFINE latest(i) == \A j \in visible \ {i} : RecordedAfter(log[i], log[j])
  <1>1. Len(log) \in Nat /\ visible \in SUBSET (1 .. Len(log)) /\ EventsOK /\ TimesAscend
    BY EventFacts DEF Visible, HistoryInvariant
  <1>2. PICK last : last = Max(visible)
    OBVIOUS
  <1>3. last \in visible /\ \A i \in visible : i <= last
    BY <1>1, <1>2, MaxIsLast
  <1>4. \A i \in visible : i \in 1 .. Len(log)
    BY <1>1
  <1>5. latest(last)
    <2> SUFFICES ASSUME NEW j \in visible, j # last PROVE RecordedAfter(log[last], log[j])
      OBVIOUS
    <2>1. j < last
      BY <1>1, <1>3, <1>4
    <2> QED BY <1>1, <1>3, <1>4, <2>1, LaterIsRecordedAfter
  <1>6. \A i \in visible : latest(i) => i = last
    <2> SUFFICES ASSUME NEW i \in visible, latest(i), i # last PROVE FALSE
      OBVIOUS
    <2>1. RecordedAfter(log[i], log[last])
      BY <1>3
    <2>2. last < i
      BY <1>1, <1>3, <1>4, <2>1, LaterIsRecordedAfter
    <2> QED BY <1>1, <1>3, <1>4, <2>2
  <1> HIDE DEF latest
  <1>7. (CHOOSE i \in visible : latest(i)) = last
    BY <1>3, <1>5, <1>6
  <1> QED BY <1>2, <1>7 DEF At, latest

\* What was known at a time stays what was known then.
THEOREM ThePastIsStable == Spec => PastIsStable
  <1> DEFINE Stable == \A key \in Keys, validAt, knownAt \in Times :
                           log # <<>> /\ knownAt < Last(log).recordedTime =>
                               At(key, validAt, knownAt)' = At(key, validAt, knownAt)
  <1>1. ASSUME HistoryInvariant, AtIsLastVisible, AtIsLastVisible', Next PROVE Stable
    <2> SUFFICES ASSUME NEW key \in Keys, NEW validAt \in Times, NEW knownAt \in Times,
                        log # <<>>, knownAt < Last(log).recordedTime
                 PROVE  At(key, validAt, knownAt)' = At(key, validAt, knownAt)
      OBVIOUS
    <2>a. PICK n \in Nat : n = Len(log)
      BY <1>1, EventFacts DEF HistoryInvariant
    <2>1. PICK event : CanAppend(log, event) /\ log' = Append(log, event)
                       /\ event.recordedTime \in Times
      BY <1>1 DEF Next, AppendOriginal, Reinterpret, AppendRevision, EventFor
    <2>2. /\ Len(log') = n + 1 /\ log'[n + 1] = event
          /\ \A i \in 1 .. n : log'[i] = log[i]
      BY <1>1, <2>1, <2>a, AppendProperties DEF HistoryInvariant, EventsOK
    <2>3. knownAt < event.recordedTime
      <3>1. n \in 1 .. n /\ Last(log) = log[n]
        BY <2>a, EmptySeq, <1>1 DEF Last, HistoryInvariant, EventsOK
      <3>2. log[n].recordedTime <= event.recordedTime
        BY <2>1, <3>1 DEF CanAppend
      <3>3. log[n].recordedTime \in Int /\ event.recordedTime \in Int /\ knownAt \in Int
        BY <1>1, <2>1, <2>a, <3>1, EventFacts, HistoryAssumption DEF HistoryInvariant
      <3> QED BY <3>1, <3>2, <3>3
    <2>4. PICK visible : visible = Visible(key, validAt, knownAt)
      OBVIOUS
    <2>5. Visible(key, validAt, knownAt)' = visible
      <3>1. \A i \in 1 .. (n + 1) : i \in 1 .. n \/ i = n + 1
        OBVIOUS
      <3>2. ~(event.recordedTime <= knownAt)
        <4>1. event.recordedTime \in Int /\ knownAt \in Int
          BY <2>1, HistoryAssumption
        <4> QED BY <2>3, <4>1
      <3> QED BY <2>2, <2>4, <2>a, <3>1, <3>2 DEF Visible, IsOf
    <2>6. visible # {} => Max(visible) \in 1 .. n
      <3>1. visible \in SUBSET (1 .. n)
        BY <2>4, <2>a DEF Visible
      <3> QED BY <3>1, MaxIsLast
    <2>7. At(key, validAt, knownAt) = IF visible = {} THEN <<>> ELSE <<log[Max(visible)]>>
      BY <1>1, <2>4 DEF AtIsLastVisible
    <2>8. At(key, validAt, knownAt)' = IF visible = {} THEN <<>> ELSE <<log'[Max(visible)]>>
      BY <1>1, <2>5 DEF AtIsLastVisible
    <2> QED BY <2>2, <2>6, <2>7, <2>8
  <1> HIDE DEF Stable
  <1>2. Spec => [][Stable]_log
    BY <1>1, AtFacts, HistoryIsWellFormed, PTL DEF Spec
  <1> QED BY <1>2 DEF PastIsStable, Stable

-----------------------------------------------------------------------------
(* Walking back from the latest version known. *)

KeyOf(i) == [memory |-> log[i].payload.memory, perspective |-> log[i].payload.perspective,
             worldline |-> log[i].worldline]

\* The versions of an event's key, not after it, that are valid at a time.
Valid(i, validAt) ==
    {j \in 1 .. i : IsOf(log[j], KeyOf(i)) /\ Covers(log[j].payload.valid, validAt)}

LastValid(i, validAt) ==
    IF Valid(i, validAt) = {} THEN <<>> ELSE <<log[Max(Valid(i, validAt))]>>

\* One step of the walk: the event itself or what its predecessor leads to.
LEMMA LastValidStep ==
    ASSUME HistoryInvariant, NEW i \in 1 .. Len(log), NEW validAt
    PROVE  IF Covers(log[i].payload.valid, validAt) THEN LastValid(i, validAt) = <<log[i]>>
           ELSE IF log[i].previous = NoSequence THEN LastValid(i, validAt) = <<>>
           ELSE /\ log[i].previous \in 0 .. (i - 2)
                /\ LastValid(i, validAt) = LastValid(log[i].previous + 1, validAt)
  <1>a. PICK n \in Nat : n = Len(log)
    BY EventFacts DEF HistoryInvariant
  <1>b. i \in 1 .. n /\ i \in Nat
    BY <1>a
  <1>1. IsOf(log[i], KeyOf(i)) /\ KeyOf(i) \in Keys
    <2>1. log[i] \in RevisionEvent
      BY EventFacts DEF HistoryInvariant
    <2> QED BY <2>1 DEF RevisionEvent, Revision, IsOf, KeyOf, Keys
  <1>2. Valid(i, validAt) \in SUBSET (1 .. i)
    BY DEF Valid
  <1>3. CASE Covers(log[i].payload.valid, validAt)
    <2>1. i \in Valid(i, validAt)
      BY <1>1, <1>3, <1>b DEF Valid
    <2>2. \A j \in Valid(i, validAt) : j <= i
      BY <1>2
    <2>3. Max(Valid(i, validAt)) = i
      BY <1>2, <1>b, <2>1, <2>2, MaxIsOnlyLast
    <2> QED BY <1>3, <2>1, <2>3 DEF LastValid
  <1>4. CASE ~Covers(log[i].payload.valid, validAt)
    <2> DEFINE before == {j \in Versions(KeyOf(i)) : j < i}
    <2>1. Valid(i, validAt) = {j \in before : Covers(log[j].payload.valid, validAt)}
      <3>1. before = {j \in 1 .. n : IsOf(log[j], KeyOf(i)) /\ j < i}
        BY <1>a DEF Versions
      <3>2. \A j : j \in 1 .. i <=> (j \in 1 .. n /\ j < i) \/ j = i
        BY <1>b
      <3> HIDE DEF before
      <3> QED BY <1>4, <3>1, <3>2 DEF Valid
    <2>2. i \in Versions(KeyOf(i))
      BY <1>1 DEF Versions
    <2>3. IF before = {} THEN log[i].previous = NoSequence
          ELSE log[i].previous = log[Max(before)].sequence
      BY <1>1, <2>2 DEF HistoryInvariant, VersionsFormALine
    <2>4. before \in SUBSET (1 .. n) /\ \A j \in before : j < i
      BY <1>a DEF Versions
    <2>5. CASE before = {}
      <3>1. Valid(i, validAt) = {} /\ log[i].previous = NoSequence
        BY <2>1, <2>3, <2>5
      <3> QED BY <1>4, <3>1 DEF LastValid
    <2>6. CASE before # {}
      <3> HIDE DEF before
      <3>1. PICK m : m = Max(before)
        OBVIOUS
      <3>2. m \in before /\ \A j \in before : j <= m
        BY <2>4, <2>6, <3>1, MaxIsLast
      <3>3. m \in 1 .. n /\ m < i /\ m \in Nat
        BY <2>4, <3>2
      <3>4. log[i].previous = m - 1 /\ m - 1 # NoSequence
        <4>1. log[m].sequence = m - 1
          BY <1>a, <3>3 DEF HistoryInvariant, EventsOK
        <4>2. m - 1 \in Nat
          BY <3>3
        <4> QED BY <2>3, <2>6, <3>1, <4>1, <4>2, EventLogAssumption
      <3>5. IsOf(log[m], KeyOf(i))
        BY <3>2 DEF before, Versions
      <3>6. \A e : IsOf(e, KeyOf(m)) <=> IsOf(e, KeyOf(i))
        BY <3>5 DEF IsOf, KeyOf
      <3>7. Valid(m, validAt) = Valid(i, validAt)
        <4>1. before = {j \in 1 .. n : IsOf(log[j], KeyOf(i)) /\ j < i}
          BY <1>a DEF before, Versions
        <4>2. Valid(m, validAt) = {j \in 1 .. m : /\ IsOf(log[j], KeyOf(i))
                                                  /\ Covers(log[j].payload.valid, validAt)}
          BY <3>6 DEF Valid
        <4>3. \A j \in 1 .. m : j \in 1 .. n /\ j < i
          BY <3>3, <1>b
        <4>4. \A j \in before : j \in 1 .. m
          BY <2>4, <3>2, <3>3
        <4> QED BY <2>1, <4>1, <4>2, <4>3, <4>4
      <3>8. LastValid(i, validAt) = LastValid(log[i].previous + 1, validAt)
        <4>1. log[i].previous + 1 = m
          BY <3>3, <3>4
        <4> QED BY <3>7, <4>1 DEF LastValid
      <3>9. log[i].previous \in 0 .. (i - 2)
        BY <1>b, <3>3, <3>4
      <3> QED BY <1>4, <3>4, <3>8, <3>9
    <2> QED BY <2>5, <2>6
  <1> QED BY <1>3, <1>4

\* The walk exists, and there is only one.
LEMMA WalkLeadsToLastValid ==
    ASSUME HistoryInvariant, NEW validAt
    PROVE  /\ ValidOnTheLine(NoSequence, validAt) = <<>>
           /\ \A n \in 0 .. (Len(log) - 1) : ValidOnTheLine(n, validAt) = LastValid(n + 1, validAt)
  <1>a. PICK L \in Nat : L = Len(log)
    BY EventFacts DEF HistoryInvariant
  <1>b. PICK D : D = {NoSequence} \cup (0 .. (L - 1))
    OBVIOUS
  <1> DEFINE Turn(f) ==
                 [n \in D |->
                     IF n = NoSequence THEN <<>>
                     ELSE IF Covers(EventAt(log, n).payload.valid, validAt)
                          THEN <<EventAt(log, n)>>
                          ELSE f[EventAt(log, n).previous]]
             answer == [n \in D |-> IF n = NoSequence THEN <<>> ELSE LastValid(n + 1, validAt)]
             walk == CHOOSE f : f = Turn(f)
  <1>1. \A n \in 0 .. (L - 1) : n \in Nat /\ n # NoSequence /\ n + 1 \in 1 .. L /\ (n + 1) - 2 = n - 1
    BY EventLogAssumption
  <1>2. ASSUME NEW n \in 0 .. (L - 1)
        PROVE  IF Covers(EventAt(log, n).payload.valid, validAt)
               THEN LastValid(n + 1, validAt) = <<EventAt(log, n)>>
               ELSE IF EventAt(log, n).previous = NoSequence THEN LastValid(n + 1, validAt) = <<>>
               ELSE /\ EventAt(log, n).previous \in 0 .. (n - 1)
                    /\ LastValid(n + 1, validAt) = LastValid(EventAt(log, n).previous + 1, validAt)
    <2>1. n + 1 \in 1 .. Len(log) /\ (n + 1) - 2 = n - 1
      BY <1>1, <1>2, <1>a
    <2> QED BY <2>1, LastValidStep DEF EventAt
  <1>3. answer = Turn(answer)
    <2> SUFFICES ASSUME NEW n \in D, n # NoSequence
                 PROVE  LastValid(n + 1, validAt) =
                            IF Covers(EventAt(log, n).payload.valid, validAt)
                            THEN <<EventAt(log, n)>>
                            ELSE answer[EventAt(log, n).previous]
      BY Zenon
    <2>1. n \in 0 .. (L - 1)
      BY <1>b
    <2>2. CASE Covers(EventAt(log, n).payload.valid, validAt)
      BY <1>2, <2>1, <2>2
    <2>3. CASE /\ ~Covers(EventAt(log, n).payload.valid, validAt)
               /\ EventAt(log, n).previous = NoSequence
      BY <1>2, <1>b, <2>1, <2>3
    <2>4. CASE /\ ~Covers(EventAt(log, n).payload.valid, validAt)
               /\ EventAt(log, n).previous # NoSequence
      <3>1. /\ EventAt(log, n).previous \in 0 .. (n - 1)
            /\ LastValid(n + 1, validAt) = LastValid(EventAt(log, n).previous + 1, validAt)
        BY <1>2, <2>1, <2>4
      <3>2. EventAt(log, n).previous \in D
        BY <1>b, <2>1, <3>1
      <3> QED BY <2>4, <3>1, <3>2
    <2> QED BY <2>2, <2>3, <2>4
  <1>4. walk = Turn(walk)
    <2> HIDE DEF Turn, answer
    <2> QED BY <1>3
  <1> HIDE DEF walk
  <1>5. ASSUME NEW n \in D
        PROVE  walk[n] = IF n = NoSequence THEN <<>>
                         ELSE IF Covers(EventAt(log, n).payload.valid, validAt)
                              THEN <<EventAt(log, n)>>
                              ELSE walk[EventAt(log, n).previous]
    <2>1. walk[n] = Turn(walk)[n]
      BY <1>4
    <2> QED BY <2>1
  <1>6. walk[NoSequence] = <<>>
    BY <1>5, <1>b
  <1>7. \A n \in 0 .. (L - 1) : walk[n] = LastValid(n + 1, validAt)
    <2> DEFINE T == {k \in Nat : \A n \in 0 .. (L - 1) : n < k =>
                                     walk[n] = LastValid(n + 1, validAt)}
    <2>1. 0 \in T
      OBVIOUS
    <2>2. ASSUME NEW k \in Nat, k \in T PROVE k + 1 \in T
      <3> SUFFICES ASSUME NEW n \in 0 .. (L - 1), n < k + 1
                   PROVE  walk[n] = LastValid(n + 1, validAt)
        OBVIOUS
      <3>1. \A m \in 0 .. (n - 1) : walk[m] = LastValid(m + 1, validAt)
        BY <2>2
      <3>2. n \in D /\ n # NoSequence
        BY <1>1, <1>b
      <3>3. walk[n] = IF Covers(EventAt(log, n).payload.valid, validAt)
                      THEN <<EventAt(log, n)>>
                      ELSE walk[EventAt(log, n).previous]
        BY <1>5, <3>2
      <3> QED BY <1>2, <1>6, <3>1, <3>3
    <2> HIDE DEF T
    <2>3. \A k \in Nat : k \in T
      BY <2>1, <2>2, Induction
    <2>4. L \in T /\ \A n \in 0 .. (L - 1) : n < L
      BY <2>3
    <2> QED BY <2>4 DEF T
  <1>8. \A sequence : ValidOnTheLine(sequence, validAt) = walk[sequence]
    BY <1>a, <1>b DEF ValidOnTheLine, walk
  <1> QED BY <1>6, <1>7, <1>8, <1>a

\* What at() selects by comparing recorded times is what walking back along the
\* versions' links finds, from the latest one known to the first that is valid.
THEOREM SelectionFollowsTheLine == Spec => []AtFollowsTheLine
  <1>1. HistoryInvariant => AtFollowsTheLine
    <2> SUFFICES ASSUME HistoryInvariant, NEW key \in Keys, NEW validAt \in Times,
                        NEW knownAt \in Times
                 PROVE  At(key, validAt, knownAt) =
                            ValidOnTheLine(LatestSequence(key, knownAt), validAt)
      BY DEF AtFollowsTheLine
    <2>a. PICK n \in Nat : n = Len(log)
      BY EventFacts DEF HistoryInvariant
    <2>b. PICK visible : visible = Visible(key, validAt, knownAt)
      OBVIOUS
    <2>c. PICK known : known = {i \in Versions(key) : log[i].recordedTime <= knownAt}
      OBVIOUS
    <2>d. PICK latest : latest = LatestSequence(key, knownAt)
      OBVIOUS
    <2>1. At(key, validAt, knownAt) = IF visible = {} THEN <<>> ELSE <<log[Max(visible)]>>
      BY <2>b, AtFacts DEF AtIsLastVisible
    <2>2. visible = {i \in known : Covers(log[i].payload.valid, validAt)}
      BY <2>b, <2>c DEF Visible, Versions
    <2>3. CASE known = {}
      <3>1. latest = NoSequence /\ visible = {}
        BY <2>2, <2>3, <2>c, <2>d, LatestFacts DEF HistoryInvariant
      <3> QED BY <2>1, <2>d, <3>1, WalkLeadsToLastValid
    <2>4. CASE known # {}
      <3>1. PICK m : m = Max(known)
        OBVIOUS
      <3>2. latest = m - 1 /\ m \in known /\ \A i \in known : i <= m
        BY <2>4, <2>c, <2>d, <3>1, LatestFacts DEF HistoryInvariant
      <3>3. known \in SUBSET (1 .. n)
        BY <2>a, <2>c DEF Versions
      <3>4. m \in 1 .. n /\ latest \in 0 .. (n - 1) /\ latest + 1 = m
        BY <3>2, <3>3
      <3>5. ValidOnTheLine(latest, validAt) = LastValid(m, validAt)
        BY <2>a, <3>4, WalkLeadsToLastValid
      <3>6. Valid(m, validAt) = visible
        <4>1. IsOf(log[m], key)
          BY <2>c, <3>2 DEF Versions
        <4>2. \A e : IsOf(e, KeyOf(m)) <=> IsOf(e, key)
          BY <4>1 DEF IsOf, KeyOf
        <4>3. \A j \in 1 .. m : log[j].recordedTime <= knownAt
          <5> SUFFICES ASSUME NEW j \in 1 .. m PROVE log[j].recordedTime <= knownAt
            OBVIOUS
          <5>1. j \in 1 .. n /\ j <= m
            BY <3>4
          <5>2. log[j].recordedTime <= log[m].recordedTime
            BY <2>a, <3>4, <5>1 DEF HistoryInvariant, TimesAscend
          <5>3. log[m].recordedTime <= knownAt
            BY <2>c, <3>2
          <5>4. /\ log[j].recordedTime \in Int /\ log[m].recordedTime \in Int
                /\ knownAt \in Int
            BY <2>a, <3>4, <5>1, EventFacts, HistoryAssumption DEF HistoryInvariant
          <5> QED BY <5>2, <5>3, <5>4
        <4>4. known = {j \in 1 .. m : IsOf(log[j], key)}
          <5>1. known = {j \in 1 .. n : IsOf(log[j], key) /\ log[j].recordedTime <= knownAt}
            BY <2>a, <2>c DEF Versions
          <5>2. \A j \in known : j \in 1 .. m
            BY <3>2, <3>3, <3>4
          <5>3. \A j \in 1 .. m : j \in 1 .. n
            BY <3>4
          <5> QED BY <4>3, <5>1, <5>2, <5>3
        <4> QED BY <2>2, <4>2, <4>4 DEF Valid
      <3> QED BY <2>1, <2>d, <3>5, <3>6 DEF LastValid
    <2> QED BY <2>3, <2>4
  <1> QED BY <1>1, HistoryIsWellFormed, PTL

=============================================================================
