--------------------------- MODULE EpisodeProofs ----------------------------
(***************************************************************************)
(* Proofs about WorldlineRegistry: for any number of worldlines and        *)
(* events, and whatever the forks refer to.  Then about Episode, which     *)
(* runs it: replay from any checkpoint of a growing log, for any payloads, *)
(* logs and numbers of checkpoints.                                        *)
(***************************************************************************)
EXTENDS Episode, ProofLemmas

-----------------------------------------------------------------------------
(* The inductive invariant of the registry. *)

\* The events and the records that are ever made.
LoggedEvent ==
    [sequence : Nat, kind : EventKinds, validTime : Times, recordedTime : {0},
     worldline : Worldlines, payload : EventPayloads, previous : {NoSequence},
     source : {"observed"}]
WorldlineRecord ==
    [id : Worldlines, kind : {"actual", "simulated"}, parent : Worldlines \cup {NoWorldline},
     forkEvent : SequenceNumbers \cup {NoSequence}, forkValidTime : Times \cup {0},
     generation : Generations, source : ProvenanceKinds]

LogOK ==
    /\ log \in Seq(LoggedEvent)
    /\ Len(log) <= InvalidSequence
    /\ \A i \in 1 .. Len(log) : log[i].sequence = i - 1

\* A fork names an event that is logged, a fork of its parent at the time it remembers.
ForkIsRecorded(record) ==
    /\ record.forkEvent \in Nat /\ Found(log, record.forkEvent)
    /\ EventAt(log, record.forkEvent).kind = "worldline_forked"
    /\ EventAt(log, record.forkEvent).worldline = record.parent
    /\ EventAt(log, record.forkEvent).validTime = record.forkValidTime

\* The first worldline is the actual one; every other is forked off an earlier one.
RecordsOK ==
    /\ records \in Seq(WorldlineRecord)
    /\ Len(records) <= InvalidWorldline
    /\ \A n \in Ids :
           /\ RecordOf(n).id = n
           /\ n = 0 => /\ RecordOf(n).kind = "actual" /\ RecordOf(n).parent = NoWorldline
                       /\ RecordOf(n).forkEvent = NoSequence
           /\ n # 0 => /\ RecordOf(n).kind = "simulated" /\ RecordOf(n).parent \in 0 .. (n - 1)
                       /\ ForkIsRecorded(RecordOf(n))

RegistryInvariant == LogOK /\ RecordsOK

LEMMA IdsAreNumbers ==
    ASSUME RegistryInvariant
    PROVE  Len(records) \in Nat /\ Ids = 0 .. (Len(records) - 1)
  <1>1. Len(records) \in Nat /\ Len(records) <= InvalidWorldline
    BY LenProperties DEF RegistryInvariant, RecordsOK
  <1> QED BY <1>1, RegistryAssumption DEF Ids, Registered

LEMMA InitInvariant == Init => RegistryInvariant
  <1> SUFFICES ASSUME Init PROVE RegistryInvariant
    OBVIOUS
  <1>1. log = <<>> /\ records = <<>> /\ Len(<<>>) = 0
    BY EmptySeq DEF Init
  <1>2. Ids = {}
    BY <1>1, RegistryAssumption DEF Ids, Registered
  <1> QED BY <1>1, <1>2, EmptySeq, EventLogAssumption, RegistryAssumption
          DEF RegistryInvariant, LogOK, RecordsOK

\* An event goes to the end of the log; the events before it, which the forks name,
\* stay as they are.
LEMMA RecordKeeps ==
    ASSUME RegistryInvariant, NEW kind \in EventKinds, NEW validTime \in Times,
           NEW worldline \in Worldlines \cup {NoWorldline}, NEW payload \in EventPayloads,
           Record(kind, validTime, worldline, payload)
    PROVE  RegistryInvariant'
  <1> DEFINE event == EventFor(log, kind, validTime, 0, worldline, payload, NoSequence, "observed")
  <1>1. CanAppend(log, event) /\ log' = Append(log, event) /\ records' = records
    BY DEF Record
  <1>2. log \in Seq(LoggedEvent) /\ Len(log) \in Nat
    BY LenProperties DEF RegistryInvariant, LogOK
  <1>3. worldline \in Worldlines /\ Len(log) < InvalidSequence
    BY <1>1 DEF CanAppend, EventFor
  <1>4. event \in LoggedEvent /\ event.sequence = Len(log)
    BY <1>2, <1>3 DEF EventFor, LoggedEvent
  <1> HIDE DEF event
  <1>5. /\ log' \in Seq(LoggedEvent) /\ Len(log') = Len(log) + 1
        /\ log'[Len(log) + 1] = event
        /\ \A i \in 1 .. Len(log) : log'[i] = log[i]
    BY <1>1, <1>2, <1>4, AppendProperties
  <1>6. LogOK'
    <2>1. \A i \in 1 .. Len(log) : log[i].sequence = i - 1
      BY DEF RegistryInvariant, LogOK
    <2>2. Len(log') <= InvalidSequence
      BY <1>2, <1>3, <1>5, EventLogAssumption
    <2>3. ASSUME NEW i \in 1 .. Len(log') PROVE log'[i].sequence = i - 1
      <3>1. i \in 1 .. Len(log) \/ i = Len(log) + 1
        BY <1>2, <1>5
      <3>2. CASE i \in 1 .. Len(log)
        BY <1>5, <2>1, <3>2
      <3>3. CASE i = Len(log) + 1
        BY <1>2, <1>4, <1>5, <3>3
      <3> QED BY <3>1, <3>2, <3>3
    <2> QED BY <1>5, <2>2, <2>3 DEF LogOK
  <1>7. \A record : ForkIsRecorded(record) => ForkIsRecorded(record)'
    <2> SUFFICES ASSUME NEW record, ForkIsRecorded(record) PROVE ForkIsRecorded(record)'
      OBVIOUS
    <2> DEFINE f == record.forkEvent
    <2>1. f \in Nat /\ f # InvalidSequence /\ f < Len(log)
      BY DEF ForkIsRecorded, Found
    <2>2. f + 1 \in 1 .. Len(log) /\ f < Len(log')
      BY <1>2, <1>5, <2>1
    <2>3. log'[f + 1] = log[f + 1]
      BY <1>5, <2>2
    <2> QED BY <2>1, <2>2, <2>3 DEF ForkIsRecorded, Found, EventAt
  <1>8. Ids' = Ids /\ \A n : RecordOf(n)' = RecordOf(n)
    BY <1>1 DEF Ids, Registered, RecordOf
  <1>9. RecordsOK'
    BY <1>1, <1>7, <1>8 DEF RegistryInvariant, RecordsOK
  <1> QED BY <1>6, <1>9 DEF RegistryInvariant

LEMMA CreateRootKeeps ==
    ASSUME RegistryInvariant, NEW generation \in Generations \cup {NoGeneration},
           NEW source \in ProvenanceKinds, CreateRoot(generation, source)
    PROVE  RegistryInvariant'
  <1> DEFINE root == [id |-> 0, kind |-> "actual", parent |-> NoWorldline,
                      forkEvent |-> NoSequence, forkValidTime |-> 0, generation |-> generation,
                      source |-> source]
  <1>1. log' = log /\ records' = <<root>> /\ generation \in Generations
    BY DEF CreateRoot
  <1>2. root \in WorldlineRecord
    BY <1>1, RegistryAssumption DEF WorldlineRecord
  <1>3. /\ root.id = 0 /\ root.kind = "actual" /\ root.parent = NoWorldline
        /\ root.forkEvent = NoSequence
    OBVIOUS
  <1> HIDE DEF root
  <1>4. records' \in Seq(WorldlineRecord) /\ Len(records') = 1 /\ records'[1] = root
    BY <1>1, <1>2
  <1>5. Ids' = {0} /\ RecordOf(0)' = root
    BY <1>4, RegistryAssumption DEF Ids, Registered, RecordOf
  <1>6. RecordsOK'
    BY <1>3, <1>4, <1>5, RegistryAssumption DEF RecordsOK
  <1> QED BY <1>1, <1>6 DEF RegistryInvariant, LogOK

LEMMA ForkKeeps ==
    ASSUME RegistryInvariant, NEW generation \in Generations \cup {NoGeneration},
           NEW source \in ProvenanceKinds, NEW parent \in 0 .. InvalidWorldline,
           NEW forkEvent \in 0 .. InvalidSequence,
           NEW intervention \in Interventions \cup {NoIntervention},
           Fork(parent, forkEvent, intervention, generation, source)
    PROVE  RegistryInvariant'
  <1>a. PICK n \in Nat : n = Len(records)
    BY IdsAreNumbers
  <1>b. PICK record :
            record = [id |-> n, kind |-> "simulated", parent |-> parent,
                      forkEvent |-> forkEvent,
                      forkValidTime |-> EventAt(log, forkEvent).validTime,
                      generation |-> generation, source |-> source]
    OBVIOUS
  <1>1. /\ log' = log /\ records' = Append(records, record) /\ generation \in Generations
        /\ Registered(parent) /\ Found(log, forkEvent) /\ n < InvalidWorldline
        /\ EventAt(log, forkEvent).kind = "worldline_forked"
        /\ EventAt(log, forkEvent).worldline = parent
    BY <1>a, <1>b DEF Fork
  <1>2. n \in Nat /\ records \in Seq(WorldlineRecord) /\ parent \in 0 .. (n - 1)
    BY <1>1, <1>a, IdsAreNumbers DEF Registered, RegistryInvariant, RecordsOK
  <1>3. forkEvent \in SequenceNumbers /\ EventAt(log, forkEvent).validTime \in Times
    <2>1. Len(log) \in Nat /\ forkEvent + 1 \in 1 .. Len(log)
      BY <1>1, LenProperties, EventLogAssumption DEF Found, RegistryInvariant, LogOK
    <2>2. log[forkEvent + 1] \in LoggedEvent
      BY <2>1, ElementOfSeq DEF RegistryInvariant, LogOK
    <2> QED BY <1>1, <2>2, EventLogAssumption DEF EventAt, LoggedEvent, SequenceNumbers, Found
  <1>4. /\ record \in WorldlineRecord
        /\ record.id = n /\ record.kind = "simulated" /\ record.parent = parent
        /\ record.forkEvent = forkEvent
        /\ record.forkValidTime = EventAt(log, forkEvent).validTime
    BY <1>1, <1>2, <1>3, <1>b, RegistryAssumption DEF WorldlineRecord
  <1>5. ForkIsRecorded(record)'
    BY <1>1, <1>4 DEF ForkIsRecorded, Found, EventAt
  <1>6. /\ records' \in Seq(WorldlineRecord) /\ Len(records') = n + 1
        /\ records'[n + 1] = record
        /\ \A i \in 1 .. n : records'[i] = records[i]
    BY <1>1, <1>2, <1>4, <1>a, AppendProperties
  <1>7. Ids = 0 .. (n - 1) /\ Ids' = 0 .. n
    <2>1. Ids = 0 .. (n - 1)
      BY <1>a, IdsAreNumbers
    <2>2. Ids' = 0 .. n
      BY <1>1, <1>2, <1>6, RegistryAssumption DEF Ids, Registered
    <2> QED BY <2>1, <2>2
  <1>8. RecordOf(n)' = record /\ \A i \in Ids : RecordOf(i)' = RecordOf(i)
    BY <1>2, <1>6, <1>7 DEF RecordOf
  <1>9. \A i \in Ids : ForkIsRecorded(RecordOf(i)) => ForkIsRecorded(RecordOf(i))'
    BY <1>1, <1>8 DEF ForkIsRecorded, Found, EventAt
  <1>10. ASSUME NEW i \in Ids'
         PROVE  /\ RecordOf(i)'.id = i
                /\ i = 0 => /\ RecordOf(i)'.kind = "actual" /\ RecordOf(i)'.parent = NoWorldline
                            /\ RecordOf(i)'.forkEvent = NoSequence
                /\ i # 0 => /\ RecordOf(i)'.kind = "simulated"
                            /\ RecordOf(i)'.parent \in 0 .. (i - 1)
                            /\ ForkIsRecorded(RecordOf(i))'
    <2>1. CASE i = n
      BY <1>2, <1>4, <1>5, <1>8, <2>1
    <2>2. CASE i \in Ids
      BY <1>8, <1>9, <2>2 DEF RegistryInvariant, RecordsOK
    <2> QED BY <1>2, <1>7, <2>1, <2>2
  <1>11. Len(records') <= InvalidWorldline
    BY <1>1, <1>2, <1>6, RegistryAssumption
  <1>12. RecordsOK'
    BY <1>6, <1>10, <1>11 DEF RecordsOK
  <1> QED BY <1>1, <1>12 DEF RegistryInvariant, LogOK

LEMMA StepKeepsInvariant == RegistryInvariant /\ [Next]_vars => RegistryInvariant'
  <1> SUFFICES ASSUME RegistryInvariant, [Next]_vars PROVE RegistryInvariant'
    OBVIOUS
  <1>1. CASE UNCHANGED vars
    BY <1>1 DEF vars, RegistryInvariant, LogOK, RecordsOK, ForkIsRecorded, Found, EventAt, Ids,
                Registered, RecordOf
  <1>2. CASE Next
    BY <1>2, RecordKeeps, CreateRootKeeps, ForkKeeps DEF Next
  <1> QED BY <1>1, <1>2

\* The invariant holds of every reachable state.
THEOREM RegistryIsWellFormed == Spec => []RegistryInvariant
  BY InitInvariant, StepKeepsInvariant, PTL DEF Spec

\* Worldlines and events are numbered without gaps and below the invalid id
\* (worldline_registry::fork and event_log::append, the capacity checks).
THEOREM RegistryIsTyped == Spec => []TypeOK
  <1>1. RegistryInvariant => TypeOK
    <2> SUFFICES ASSUME RegistryInvariant PROVE TypeOK
      OBVIOUS
    <2>1. WellNumbered(log) /\ Len(log) <= InvalidSequence
      <3>1. \A i \in 1 .. Len(log) : log[i] \in LoggedEvent
        BY ElementOfSeq DEF RegistryInvariant, LogOK
      <3>2. \A i \in 1 .. Len(log) : log[i].previous = NoSequence
        BY <3>1 DEF LoggedEvent
      <3> QED BY <3>2 DEF WellNumbered, RegistryInvariant, LogOK
    <2>2. ASSUME NEW n \in Ids
          PROVE  /\ RecordOf(n).id = n
                 /\ RecordOf(n).kind \in {"actual", "simulated"}
                 /\ RecordOf(n).parent \in Worldlines \cup {NoWorldline}
                 /\ RecordOf(n).forkEvent \in SequenceNumbers \cup {NoSequence}
      <3>1. n + 1 \in 1 .. Len(records)
        BY IdsAreNumbers
      <3>2. RecordOf(n) \in WorldlineRecord
        BY <3>1, ElementOfSeq DEF RecordOf, RegistryInvariant, RecordsOK
      <3> QED BY <3>2 DEF RegistryInvariant, RecordsOK, WorldlineRecord
    <2> QED BY <2>1, <2>2 DEF TypeOK, RegistryInvariant, RecordsOK
  <1> QED BY <1>1, RegistryIsWellFormed, PTL

-----------------------------------------------------------------------------
(* Lineages. *)

\* One turn of the loop of lineage(), given the paths up from the parents.
StepUp(paths) == [n \in Ids |-> IF RecordOf(n).parent = NoWorldline
                                THEN <<n>>
                                ELSE Append(paths[RecordOf(n).parent], n)]

\* The parent of a record is one of the records.
LEMMA ParentsAreRegistered ==
    ASSUME RegistryInvariant, NEW n \in Ids
    PROVE  /\ n \in Nat
           /\ n = 0 => RecordOf(n).parent = NoWorldline
           /\ n # 0 => /\ RecordOf(n).parent # NoWorldline
                       /\ RecordOf(n).parent \in Ids /\ RecordOf(n).parent <= n - 1
  <1>1. Len(records) \in Nat /\ n \in 0 .. (Len(records) - 1) /\ Len(records) <= InvalidWorldline
    BY IdsAreNumbers DEF RegistryInvariant, RecordsOK
  <1>2. n # 0 => RecordOf(n).parent \in 0 .. (n - 1)
    BY DEF RegistryInvariant, RecordsOK
  <1>3. n # 0 => RecordOf(n).parent \in Ids /\ RecordOf(n).parent # NoWorldline
    BY <1>1, <1>2, IdsAreNumbers, RegistryAssumption
  <1> QED BY <1>1, <1>2, <1>3 DEF RegistryInvariant, RecordsOK

PathsUpTurns ==
    /\ PathsUp[0] = [n \in Ids |-> <<n>>]
    /\ \A k \in Nat : PathsUp[k + 1] = StepUp(PathsUp[k])

\* There is a function with the equation of PathsUp, so PathsUp has it.
LEMMA PathsUpEquation == RegistryInvariant => PathsUpTurns
  <1> SUFFICES ASSUME RegistryInvariant PROVE PathsUpTurns
    OBVIOUS
  <1> DEFINE S == [Ids -> Seq(Ids)]
             base == [n \in Ids |-> <<n>>]
             step == [paths \in S |-> StepUp(paths)]
             Turn(f) == [steps \in Nat |->
                            [n \in Ids |-> IF steps = 0 \/ RecordOf(n).parent = NoWorldline
                                           THEN <<n>>
                                           ELSE Append(f[steps - 1][RecordOf(n).parent], n)]]
  <1>1. base \in S
    OBVIOUS
  <1>2. step \in [S -> S]
    <2> SUFFICES ASSUME NEW paths \in S, NEW n \in Ids
                 PROVE  (IF RecordOf(n).parent = NoWorldline
                         THEN <<n>> ELSE Append(paths[RecordOf(n).parent], n)) \in Seq(Ids)
      BY DEF StepUp
    <2>1. CASE n = 0
      BY <2>1, ParentsAreRegistered
    <2>2. CASE n # 0
      <3>1. paths[RecordOf(n).parent] \in Seq(Ids)
        BY <2>2, ParentsAreRegistered
      <3> QED BY <3>1, AppendProperties
    <2> QED BY <2>1, <2>2
  <1>3. PICK f \in [Nat -> S] : f[0] = base /\ \A k \in Nat : f[k + 1] = step[f[k]]
    <2> HIDE DEF S, base, step
    <2> QED BY <1>1, <1>2, Iteration
  <1>4. f = Turn(f)
    <2> SUFFICES ASSUME NEW k \in Nat PROVE f[k] = Turn(f)[k]
      BY <1>3
    <2>1. CASE k = 0
      BY <1>3, <2>1
    <2>2. CASE k # 0
      <3>1. k - 1 \in Nat /\ k = (k - 1) + 1
        BY <2>2
      <3>2. f[k] = step[f[k - 1]] /\ f[k - 1] \in S
        BY <1>3, <3>1
      <3>3. f[k] = StepUp(f[k - 1])
        BY <3>2
      <3>4. Turn(f)[k] = StepUp(f[k - 1])
        BY <2>2 DEF StepUp
      <3> QED BY <3>3, <3>4
    <2> QED BY <2>1, <2>2
  <1>5. PathsUp = CHOOSE g : g = Turn(g)
    BY DEF PathsUp
  <1>6. PathsUp = Turn(PathsUp)
    <2> HIDE DEF Turn
    <2> QED BY <1>4, <1>5
  <1>7. PathsUp[0] = base
    BY <1>6
  <1>8. ASSUME NEW k \in Nat PROVE PathsUp[k + 1] = StepUp(PathsUp[k])
    <2>1. k + 1 \in Nat /\ k + 1 # 0 /\ k + 1 - 1 = k
      OBVIOUS
    <2>2. Turn(PathsUp)[k + 1] = StepUp(PathsUp[k])
      BY <2>1 DEF StepUp
    <2> HIDE DEF Turn
    <2> QED BY <1>6, <2>2
  <1> QED BY <1>7, <1>8 DEF PathsUpTurns

\* A path of parents from the first worldline down to this one.
IsPath(path, n) ==
    /\ path \in Seq(Ids) /\ Len(path) >= 1
    /\ path[1] = 0 /\ path[Len(path)] = n
    /\ \A i \in 1 .. (Len(path) - 1) :
           path[i + 1] # 0 /\ RecordOf(path[i + 1]).parent = path[i]

\* Since a parent is registered before its forks, n steps lead from worldline n to the
\* first one.
LEMMA PathsUpArePaths ==
    ASSUME RegistryInvariant
    PROVE  \A k \in Nat : \A n \in Ids : n <= k => IsPath(PathsUp[k][n], n)
  <1> DEFINE T == {k \in Nat : \A n \in Ids : n <= k => IsPath(PathsUp[k][n], n)}
  <1>1. 0 \in T
    <2> SUFFICES ASSUME NEW n \in Ids, n <= 0 PROVE IsPath(PathsUp[0][n], n)
      OBVIOUS
    <2>1. n = 0 /\ PathsUp[0][n] = <<n>>
      BY ParentsAreRegistered, PathsUpEquation DEF PathsUpTurns
    <2> QED BY <2>1 DEF IsPath
  <1>2. ASSUME NEW k \in Nat, k \in T PROVE k + 1 \in T
    <2> SUFFICES ASSUME NEW n \in Ids, n <= k + 1 PROVE IsPath(PathsUp[k + 1][n], n)
      OBVIOUS
    <2>1. PathsUp[k + 1] = StepUp(PathsUp[k])
      BY PathsUpEquation DEF PathsUpTurns
    <2>2. CASE n = 0
      <3>1. PathsUp[k + 1][n] = <<n>>
        BY <2>1, <2>2, ParentsAreRegistered DEF StepUp
      <3> QED BY <2>2, <3>1 DEF IsPath
    <2>3. CASE n # 0
      <3> DEFINE m == RecordOf(n).parent
                 path == PathsUp[k][m]
      <3>1. m \in Ids /\ m \in Nat /\ m <= k /\ m # NoWorldline
        BY <2>3, ParentsAreRegistered
      <3>2. IsPath(path, m)
        BY <1>2, <3>1
      <3>3. PathsUp[k + 1][n] = Append(path, n)
        BY <2>1, <3>1 DEF StepUp
      <3> HIDE DEF path
      <3>4. /\ Append(path, n) \in Seq(Ids) /\ Len(Append(path, n)) = Len(path) + 1
            /\ Append(path, n)[Len(path) + 1] = n
            /\ \A i \in 1 .. Len(path) : Append(path, n)[i] = path[i]
        BY <3>2, AppendProperties DEF IsPath
      <3>5. Len(path) \in Nat /\ Len(path) >= 1
        BY <3>2, LenProperties DEF IsPath
      <3>6. ASSUME NEW i \in 1 .. Len(path)
            PROVE  /\ Append(path, n)[i + 1] # 0
                   /\ RecordOf(Append(path, n)[i + 1]).parent = Append(path, n)[i]
        <4>1. CASE i = Len(path)
          BY <2>3, <3>2, <3>4, <3>5, <4>1 DEF IsPath
        <4>2. CASE i # Len(path)
          <5>1. i \in 1 .. (Len(path) - 1) /\ i + 1 \in 1 .. Len(path)
            BY <3>5, <4>2
          <5> QED BY <3>2, <3>4, <5>1 DEF IsPath
        <4> QED BY <4>1, <4>2
      <3> QED BY <3>2, <3>3, <3>4, <3>5, <3>6 DEF IsPath
    <2> QED BY <2>2, <2>3
  <1> HIDE DEF T
  <1>3. \A k \in Nat : k \in T
    BY <1>1, <1>2, Induction
  <1> QED BY <1>3 DEF T

\* Every lineage leads from the actual worldline down through simulated ones, by fork
\* events that the log records on the parents (worldline_registry::lineage and fork).
THEOREM LineagesAreRecorded == Spec => []LineageIsARecordedPath
  <1>1. RegistryInvariant => LineageIsARecordedPath
    <2> SUFFICES ASSUME RegistryInvariant, NEW n \in Ids
                 PROVE  LET path == Lineage(n) IN
                        /\ Last(path) = n
                        /\ \A i \in 1 .. Len(path) : RecordOf(path[i]).kind = "actual" <=> i = 1
                        /\ \A i \in 1 .. (Len(path) - 1) :
                               LET child == RecordOf(path[i + 1]) IN
                               /\ Found(log, child.forkEvent)
                               /\ EventAt(log, child.forkEvent).kind = "worldline_forked"
                               /\ EventAt(log, child.forkEvent).worldline = path[i]
                               /\ EventAt(log, child.forkEvent).validTime = child.forkValidTime
      BY DEF LineageIsARecordedPath
    <2> DEFINE path == Lineage(n)
    <2>1. IsPath(path, n)
      <3>1. Len(records) \in Nat /\ n <= Len(records)
        BY IdsAreNumbers
      <3> QED BY <3>1, PathsUpArePaths DEF Lineage
    <2> HIDE DEF path
    <2>2. Len(path) \in Nat /\ \A i \in 1 .. Len(path) : path[i] \in Ids
      BY <2>1, LenProperties, ElementOfSeq DEF IsPath
    <2>3. Last(path) = n
      BY <2>1 DEF IsPath, Last
    <2>4. ASSUME NEW i \in 1 .. Len(path) PROVE path[i] = 0 <=> i = 1
      <3>1. CASE i = 1
        BY <2>1, <3>1 DEF IsPath
      <3>2. CASE i # 1
        <4>1. i - 1 \in 1 .. (Len(path) - 1) /\ (i - 1) + 1 = i
          BY <2>2, <3>2
        <4> QED BY <2>1, <3>2, <4>1 DEF IsPath
      <3> QED BY <3>1, <3>2
    <2>5. \A m \in Ids : /\ m = 0 => RecordOf(m).kind = "actual"
                         /\ m # 0 => RecordOf(m).kind = "simulated" /\ ForkIsRecorded(RecordOf(m))
      BY DEF RegistryInvariant, RecordsOK
    <2>6. \A i \in 1 .. Len(path) : RecordOf(path[i]).kind = "actual" <=> i = 1
      BY <2>2, <2>4, <2>5
    <2>7. ASSUME NEW i \in 1 .. (Len(path) - 1)
          PROVE  /\ ForkIsRecorded(RecordOf(path[i + 1]))
                 /\ RecordOf(path[i + 1]).parent = path[i]
      <3>1. i + 1 \in 1 .. Len(path)
        BY <2>2
      <3>2. path[i + 1] # 0 /\ RecordOf(path[i + 1]).parent = path[i]
        BY <2>1 DEF IsPath
      <3> QED BY <2>2, <2>5, <3>1, <3>2
    <2> QED BY <2>3, <2>6, <2>7 DEF ForkIsRecorded, path
  <1> QED BY <1>1, RegistryIsWellFormed, PTL

\* No step changes a record or takes one away.
LEMMA RecordsStay ==
    ASSUME RegistryInvariant, [Next]_vars, NEW n \in Ids
    PROVE  n \in Ids' /\ RecordOf(n)' = RecordOf(n) /\ Len(records') >= Len(records)
  <1>1. Len(records) \in Nat /\ n \in 0 .. (Len(records) - 1) /\ records \in Seq(WorldlineRecord)
    BY IdsAreNumbers DEF RegistryInvariant, RecordsOK
  <1>2. CASE UNCHANGED records
    BY <1>1, <1>2 DEF Ids, Registered, RecordOf
  <1>3. CASE \E record \in WorldlineRecord : records' = Append(records, record)
    <2>1. /\ Len(records') = Len(records) + 1
          /\ \A i \in 1 .. Len(records) : records'[i] = records[i]
      BY <1>1, <1>3, AppendProperties
    <2>2. n + 1 \in 1 .. Len(records) /\ n < Len(records')
      BY <1>1, <2>1
    <2> QED BY <1>1, <2>1, <2>2 DEF Ids, Registered, RecordOf
  <1>4. UNCHANGED records \/ \E record \in WorldlineRecord : records' = Append(records, record)
    <2>1. records # <<>>
      BY <1>1, EmptySeq
    <2>2. CASE records' = records
      BY <2>2
    <2>3. CASE records' # records
      <3>1. PICK record : records' = Append(records, record)
        BY <2>1, <2>3 DEF Next, vars, Record, CreateRoot, Fork
      <3>2. RegistryInvariant'
        BY StepKeepsInvariant
      <3>3. records' \in Seq(WorldlineRecord)
        BY <3>2 DEF RegistryInvariant, RecordsOK
      <3>4. Len(records') = Len(records) + 1 /\ records'[Len(records) + 1] = record
        BY <1>1, <3>1
      <3>5. record \in WorldlineRecord
        BY <1>1, <3>3, <3>4, ElementOfSeq
      <3> QED BY <3>1, <3>5
    <2> QED BY <2>2, <2>3
  <1> QED BY <1>2, <1>3, <1>4

\* The path up from a worldline does not depend on what is registered after it.
LEMMA PathsUpStay ==
    ASSUME RegistryInvariant, PathsUpTurns', [Next]_vars
    PROVE  \A k \in Nat : \A n \in Ids : \A j \in Nat :
               n <= k /\ k <= j => PathsUp'[j][n] = PathsUp[k][n]
  <1> DEFINE Same(k) == \A n \in Ids : \A j \in Nat :
                            n <= k /\ k <= j => PathsUp'[j][n] = PathsUp[k][n]
             T == {k \in Nat : Same(k)}
  <1>1. /\ PathsUp[0] = [n \in Ids |-> <<n>>]
        /\ \A k \in Nat : PathsUp[k + 1] = StepUp(PathsUp[k])
    BY PathsUpEquation DEF PathsUpTurns
  <1>2. /\ PathsUp'[0] = [n \in Ids' |-> <<n>>]
        /\ \A k \in Nat : PathsUp'[k + 1] = StepUp(PathsUp[k])'
    BY DEF PathsUpTurns
  <1>3. ASSUME NEW j \in Nat, NEW n \in Ids
        PROVE  /\ RecordOf(n).parent = NoWorldline => PathsUp'[j][n] = <<n>>
               /\ RecordOf(n).parent # NoWorldline /\ j # 0 =>
                      PathsUp'[j][n] = Append(PathsUp'[j - 1][RecordOf(n).parent], n)
    <2>1. n \in Ids' /\ RecordOf(n)' = RecordOf(n)
      BY RecordsStay
    <2>2. CASE j = 0
      BY <1>2, <2>1, <2>2
    <2>3. CASE j # 0
      <3>1. PathsUp'[j] = StepUp(PathsUp[j - 1])'
        <4>1. j - 1 \in Nat /\ (j - 1) + 1 = j
          BY <2>3
        <4> QED BY <1>2, <4>1
      <3>2. PathsUp'[j][n] = IF RecordOf(n)'.parent = NoWorldline
                             THEN <<n>> ELSE Append(PathsUp'[j - 1][RecordOf(n)'.parent], n)
        BY <2>1, <3>1 DEF StepUp
      <3> QED BY <2>1, <3>2
    <2> QED BY <2>2, <2>3
  <1>4. 0 \in T
    <2> SUFFICES ASSUME NEW n \in Ids, NEW j \in Nat, n <= 0
                 PROVE  PathsUp'[j][n] = PathsUp[0][n]
      OBVIOUS
    <2>1. n = 0 /\ RecordOf(n).parent = NoWorldline
      BY ParentsAreRegistered
    <2> QED BY <1>1, <1>3, <2>1
  <1>5. ASSUME NEW k \in Nat, k \in T PROVE k + 1 \in T
    <2> SUFFICES ASSUME NEW n \in Ids, NEW j \in Nat, n <= k + 1, k + 1 <= j
                 PROVE  PathsUp'[j][n] = PathsUp[k + 1][n]
      OBVIOUS
    <2>1. PathsUp[k + 1] = StepUp(PathsUp[k])
      BY <1>1
    <2>2. CASE n = 0
      BY <1>3, <2>1, <2>2, ParentsAreRegistered DEF StepUp
    <2>3. CASE n # 0
      <3> DEFINE m == RecordOf(n).parent
      <3>1. m \in Ids /\ m \in Nat /\ m <= k /\ m # NoWorldline
        BY <2>3, ParentsAreRegistered
      <3>2. PathsUp[k + 1][n] = Append(PathsUp[k][m], n)
        BY <2>1, <3>1 DEF StepUp
      <3>3. j # 0 /\ j - 1 \in Nat /\ k <= j - 1
        OBVIOUS
      <3>4. PathsUp'[j][n] = Append(PathsUp'[j - 1][m], n)
        BY <1>3, <3>1, <3>3
      <3>5. PathsUp'[j - 1][m] = PathsUp[k][m]
        BY <1>5, <3>1, <3>3
      <3> QED BY <3>2, <3>4, <3>5
    <2> QED BY <2>2, <2>3
  <1> HIDE DEF T
  <1>6. \A k \in Nat : k \in T
    BY <1>4, <1>5, Induction
  <1> QED BY <1>6 DEF T

\* What is registered is settled: neither a later fork nor a later event changes a
\* record or the lineage of a worldline (the deque only grows, and the log).
THEOREM LineagesArePermanent == Spec => LineageIsPermanent
  <1> DEFINE Settled == \A n \in Ids : /\ n \in Ids'
                                       /\ Lineage(n)' = Lineage(n)
                                       /\ RecordOf(n)' = RecordOf(n)
  <1>1. RegistryInvariant /\ PathsUpTurns' /\ [Next]_vars => [Settled]_vars
    <2> SUFFICES ASSUME RegistryInvariant, PathsUpTurns', [Next]_vars, NEW n \in Ids
                 PROVE  n \in Ids' /\ Lineage(n)' = Lineage(n) /\ RecordOf(n)' = RecordOf(n)
      OBVIOUS
    <2>1. n \in Ids' /\ RecordOf(n)' = RecordOf(n) /\ Len(records') >= Len(records)
      BY RecordsStay
    <2>2. Len(records) \in Nat /\ n <= Len(records)
      BY IdsAreNumbers
    <2>3. Len(records') \in Nat
      <3>1. RegistryInvariant'
        BY StepKeepsInvariant
      <3>2. records' \in Seq(WorldlineRecord)
        BY <3>1 DEF RegistryInvariant, RecordsOK
      <3> QED BY <3>2, LenProperties
    <2>4. PathsUp'[Len(records')][n] = PathsUp[Len(records)][n]
      BY <2>1, <2>2, <2>3, PathsUpStay
    <2> QED BY <2>1, <2>4 DEF Lineage
  <1> HIDE DEF Settled
  <1>2. RegistryInvariant => PathsUpTurns
    BY PathsUpEquation
  <1>3. Spec => [][Settled]_vars
    BY <1>1, <1>2, RegistryIsWellFormed, PTL DEF Spec
  <1> QED BY <1>3 DEF LineageIsPermanent, Settled

-----------------------------------------------------------------------------
(* The loop of replay. *)

\* The payloads of the first n events, and what a replay of these comes to.
Payloads(l, n) == [i \in 1 .. n |-> l[i].payload]
Refused(l, first, last) == \E i \in (first + 1) .. last : l[i].payload \in RefusedPayloads
Outcome(l, first, last) ==
    IF Refused(l, first, last) THEN Failed ELSE Ok(Payloads(l, last))

\* A log of events that carry payloads.
IsLog(l) == /\ Len(l) \in Nat
            /\ \A i \in 1 .. Len(l) : l[i].payload \in EventPayloads

LEMMA PayloadsAppend ==
    ASSUME NEW l, IsLog(l), NEW n \in Nat, n < Len(l)
    PROVE  Append(Payloads(l, n), l[n + 1].payload) = Payloads(l, n + 1)
  <1> DEFINE e(i) == l[i].payload
  <1>1. Payloads(l, n) = [i \in 1 .. n |-> e(i)] /\ Len(Payloads(l, n)) = n
    BY DEF Payloads
  <1>2. Payloads(l, n + 1) = [i \in 1 .. (n + 1) |-> e(i)]
    BY DEF Payloads
  <1> HIDE DEF e
  <1>3. Append(Payloads(l, n), e(n + 1)) =
            [i \in 1 .. (n + 1) |-> IF i \in 1 .. n THEN e(i) ELSE e(n + 1)]
    BY <1>1
  <1>4. \A i \in 1 .. (n + 1) : i \in 1 .. n \/ i = n + 1
    OBVIOUS
  <1>5. Append(Payloads(l, n), e(n + 1)) = Payloads(l, n + 1)
    BY <1>2, <1>3, <1>4
  <1> QED BY <1>5 DEF e

LEMMA PayloadsType ==
    ASSUME NEW l, IsLog(l), NEW n \in Nat, n <= Len(l)
    PROVE  Payloads(l, n) \in Seq(EventPayloads) /\ Len(Payloads(l, n)) = n
  BY DEF Payloads, IsLog

\* One turn of the loop: the next event is taken, refused, or not looked at.
LEMMA OneMoreEvent ==
    ASSUME NEW l, IsLog(l), NEW first \in Nat, NEW n \in Nat, first <= n, n < Len(l)
    PROVE  Outcome(l, first, n + 1) =
               IF Outcome(l, first, n).ok
               THEN Reduce(EventAt(l, n), Outcome(l, first, n).state)
               ELSE Outcome(l, first, n)
  <1>1. Refused(l, first, n + 1) <=> Refused(l, first, n) \/ l[n + 1].payload \in RefusedPayloads
    <2>1. \A i : i \in (first + 1) .. (n + 1) <=> i \in (first + 1) .. n \/ i = n + 1
      OBVIOUS
    <2> QED BY <2>1 DEF Refused
  <1>2. CASE Refused(l, first, n)
    BY <1>1, <1>2 DEF Outcome, Failed
  <1>3. CASE ~Refused(l, first, n)
    <2>1. Outcome(l, first, n).ok /\ Outcome(l, first, n).state = Payloads(l, n)
      BY <1>3 DEF Outcome, Ok
    <2>2. Append(Payloads(l, n), l[n + 1].payload) = Payloads(l, n + 1)
      BY PayloadsAppend
    <2> QED BY <1>1, <1>3, <2>1, <2>2 DEF Outcome, Reduce, EventAt
  <1> QED BY <1>2, <1>3

\* The loop, begun with the payloads up to its first event, has those up to its last,
\* unless the reducer refuses one on the way.
LEMMA LoopOutcome ==
    ASSUME NEW l, IsLog(l), NEW first \in Nat, NEW last \in Nat,
           first <= last, last <= Len(l)
    PROVE  ReduceAll(l, first, last, Payloads(l, first)) = Outcome(l, first, last)
  <1> DEFINE Turn(f) ==
        [index \in first .. last |->
            IF index = first THEN Ok(Payloads(l, first))
            ELSE IF f[index - 1].ok
                 THEN Reduce(EventAt(l, index - 1), f[index - 1].state)
                 ELSE f[index - 1]]
             known == [index \in first .. last |-> Outcome(l, first, index)]
             upTo == CHOOSE f : f = Turn(f)
  <1>1. Outcome(l, first, first) = Ok(Payloads(l, first))
    BY DEF Outcome, Refused
  <1>2. ASSUME NEW index \in first .. last, index # first
        PROVE  Outcome(l, first, index) =
                   IF Outcome(l, first, index - 1).ok
                   THEN Reduce(EventAt(l, index - 1), Outcome(l, first, index - 1).state)
                   ELSE Outcome(l, first, index - 1)
    <2>1. /\ index - 1 \in Nat /\ first <= index - 1 /\ index - 1 < Len(l)
          /\ (index - 1) + 1 = index
      BY <1>2 DEF IsLog
    <2>2. Outcome(l, first, (index - 1) + 1) =
              IF Outcome(l, first, index - 1).ok
              THEN Reduce(EventAt(l, index - 1), Outcome(l, first, index - 1).state)
              ELSE Outcome(l, first, index - 1)
      BY <2>1, OneMoreEvent
    <2> QED BY <2>1, <2>2
  <1>3. \A index \in first .. last : index # first => index - 1 \in first .. last
    OBVIOUS
  <1>4. known = Turn(known)
    BY <1>1, <1>2, <1>3
  <1>5. upTo = Turn(upTo)
    <2> HIDE DEF Turn, known
    <2> QED BY <1>4
  <1> HIDE DEF upTo
  <1>6. \A k \in Nat : first + k <= last => upTo[first + k] = Outcome(l, first, first + k)
    <2> DEFINE T == {k \in Nat : first + k <= last =>
                                     upTo[first + k] = Outcome(l, first, first + k)}
    <2>1. 0 \in T
      BY <1>1, <1>5
    <2>2. ASSUME NEW k \in Nat, k \in T PROVE k + 1 \in T
      <3> SUFFICES ASSUME first + (k + 1) <= last
                   PROVE  upTo[first + (k + 1)] = Outcome(l, first, first + (k + 1))
        OBVIOUS
      <3> DEFINE index == first + (k + 1)
      <3>1. index \in first .. last /\ index # first /\ index - 1 = first + k
        OBVIOUS
      <3>2. upTo[index - 1] = Outcome(l, first, index - 1)
        BY <2>2, <3>1
      <3> HIDE DEF index
      <3>3. upTo[index] = IF upTo[index - 1].ok
                          THEN Reduce(EventAt(l, index - 1), upTo[index - 1].state)
                          ELSE upTo[index - 1]
        BY <1>5, <3>1
      <3>4. upTo[index] = Outcome(l, first, index)
        BY <1>2, <3>1, <3>2, <3>3
      <3> QED BY <3>4 DEF index
    <2> HIDE DEF T
    <2>3. \A k \in Nat : k \in T
      BY <2>1, <2>2, Induction
    <2> QED BY <2>3 DEF T
  <1>7. upTo[last] = Outcome(l, first, last)
    <2>1. last - first \in Nat /\ first + (last - first) = last
      OBVIOUS
    <2> QED BY <1>6, <2>1
  <1> QED BY <1>7 DEF ReduceAll, upTo

-----------------------------------------------------------------------------
(* Replay from a checkpoint. *)

\* A checkpoint of this log: the payloads before its first index, none refused.
MadeOf(l, c) ==
    /\ FirstIndex(c) \in Nat /\ FirstIndex(c) <= Len(l)
    /\ AnchorMatches(l, c)
    /\ c.state = Payloads(l, FirstIndex(c))
    /\ ~Refused(l, 0, FirstIndex(c))

LEMMA InitialIsOfAnyLog ==
    ASSUME NEW l, IsLog(l)
    PROVE  MadeOf(l, InitialCheckpoint) /\ FirstIndex(InitialCheckpoint) = 0
  <1>1. InitialCheckpoint.sequence = NoSequence /\ InitialCheckpoint.state = <<>>
    BY DEF InitialCheckpoint
  <1>2. FirstIndex(InitialCheckpoint) = 0
    BY <1>1 DEF FirstIndex
  <1>3. Payloads(l, 0) = <<>> /\ ~Refused(l, 0, 0)
    BY DEF Payloads, Refused
  <1> QED BY <1>1, <1>2, <1>3 DEF MadeOf, IsLog, AnchorMatches

\* A replay fails if its stop is not in the log or precedes the checkpoint; otherwise
\* it comes to what all events up to the stop come to, wherever it begins.
LEMMA ReplayOutcome ==
    ASSUME NEW l, IsLog(l), NEW c, MadeOf(l, c), NEW through \in SequenceNumbers \cup {NoSequence}
    PROVE  ReplayLog(l, c, through) =
               IF through # NoSequence
                   /\ ~(Found(l, through) /\ FirstIndex(c) <= LastIndex(l, through))
               THEN Failed
               ELSE Outcome(l, 0, LastIndex(l, through))
  <1> DEFINE first == FirstIndex(c)
             last == LastIndex(l, through)
  <1>1. CASE through # NoSequence /\ ~(Found(l, through) /\ first <= last)
    BY <1>1 DEF ReplayLog
  <1>2. CASE ~(through # NoSequence /\ ~(Found(l, through) /\ first <= last))
    <2>1. ReplayLog(l, c, through) = ReduceAll(l, first, last, c.state)
      BY <1>2 DEF ReplayLog, MadeOf
    <2>2. first \in Nat /\ last \in Nat /\ first <= last /\ last <= Len(l)
      <3>1. CASE through = NoSequence
        BY <3>1 DEF MadeOf, IsLog, LastIndex
      <3>2. CASE through # NoSequence
        <4>1. through \in Nat /\ through < Len(l) /\ last = through + 1 /\ first <= last
          BY <1>2, <3>2, EventLogAssumption DEF SequenceNumbers, Found, LastIndex
        <4> QED BY <4>1 DEF MadeOf, IsLog
      <3> QED BY <3>1, <3>2
    <2> HIDE DEF first, last
    <2>3. c.state = Payloads(l, first) /\ ~Refused(l, 0, first)
      BY DEF MadeOf, first
    <2>4. ReplayLog(l, c, through) = Outcome(l, first, last)
      BY <2>1, <2>2, <2>3, LoopOutcome
    <2>5. Refused(l, first, last) <=> Refused(l, 0, last)
      BY <2>2, <2>3 DEF Refused
    <2> QED BY <1>2, <2>4, <2>5 DEF Outcome, first, last
  <1> QED BY <1>1, <1>2

-----------------------------------------------------------------------------
(* The inductive invariant. *)

CheckpointsOK ==
    \A c \in checkpoints : /\ c.sequence \in SequenceNumbers /\ Found(log, c.sequence)
                           /\ c.checksum = Checksum(EventAt(log, c.sequence))
                           /\ MadeOf(log, c)

EpisodeInvariant == RegistryInvariant /\ CheckpointsOK

LEMMA EventsAreLogged ==
    ASSUME NEW l \in Seq(LoggedEvent)
    PROVE  IsLog(l)
  <1>1. \A i \in 1 .. Len(l) : l[i] \in LoggedEvent
    BY ElementOfSeq
  <1> QED BY <1>1, LenProperties DEF IsLog, LoggedEvent

\* The log only grows.
LEMMA LogGrows ==
    ASSUME RegistryInvariant, [Next]_vars
    PROVE  /\ IsLog(log') /\ Len(log) <= Len(log')
           /\ \A i \in 1 .. Len(log) : log'[i] = log[i]
  <1>1. IsLog(log) /\ IsLog(log')
    <2>1. RegistryInvariant'
      BY StepKeepsInvariant
    <2>2. log \in Seq(LoggedEvent) /\ log' \in Seq(LoggedEvent)
      BY <2>1 DEF RegistryInvariant, LogOK
    <2> QED BY <2>2, EventsAreLogged
  <1>2. log' = log \/ \E event : log' = Append(log, event)
    BY DEF Next, vars, Record, CreateRoot, Fork
  <1>3. ASSUME NEW event, log' = Append(log, event)
        PROVE  Len(log') = Len(log) + 1 /\ \A i \in 1 .. Len(log) : log'[i] = log[i]
    <2>1. log \in Seq(LoggedEvent)
      BY DEF RegistryInvariant, LogOK
    <2> QED BY <1>3, <2>1
  <1> QED BY <1>1, <1>2, <1>3 DEF IsLog

\* A checkpoint of a log is one of every longer log.
LEMMA CheckpointsLast ==
    ASSUME NEW l, IsLog(l), NEW m, IsLog(m), Len(l) <= Len(m),
           \A i \in 1 .. Len(l) : m[i] = l[i],
           NEW c, MadeOf(l, c),
           c.sequence # NoSequence => c.sequence \in SequenceNumbers /\ Found(l, c.sequence)
    PROVE  /\ MadeOf(m, c)
           /\ c.sequence # NoSequence => /\ Found(m, c.sequence)
                                         /\ EventAt(m, c.sequence) = EventAt(l, c.sequence)
  <1> DEFINE n == FirstIndex(c)
  <1>1. n \in Nat /\ n <= Len(l) /\ c.state = Payloads(l, n) /\ ~Refused(l, 0, n)
    BY DEF MadeOf
  <1>2. c.sequence # NoSequence =>
            Found(m, c.sequence) /\ EventAt(m, c.sequence) = EventAt(l, c.sequence)
    BY EventLogAssumption DEF Found, EventAt, SequenceNumbers, IsLog
  <1> HIDE DEF n
  <1>3. \A i \in 1 .. n : m[i] = l[i]
    BY <1>1 DEF IsLog
  <1>4. Payloads(m, n) = Payloads(l, n) /\ ~Refused(m, 0, n)
    BY <1>1, <1>3 DEF Payloads, Refused
  <1>5. n \in Nat /\ n <= Len(m)
    BY <1>1 DEF IsLog
  <1>6. AnchorMatches(m, c)
    BY <1>2 DEF AnchorMatches, MadeOf
  <1> QED BY <1>1, <1>2, <1>4, <1>5, <1>6 DEF MadeOf, n

LEMMA SaveCheckpointKeeps ==
    ASSUME EpisodeInvariant, NEW origin \in checkpoints \cup {InitialCheckpoint},
           NEW sequence \in SequenceNumbers, SaveCheckpoint(origin, sequence)
    PROVE  EpisodeInvariant'
  <1> DEFINE replayed == ReplayLog(log, origin, sequence)
  <1>1. PICK made : made = MakeCheckpoint(log, sequence, replayed.state)
    OBVIOUS
  <1>2. /\ Found(log, sequence) /\ replayed.ok /\ UNCHANGED vars
        /\ checkpoints' = checkpoints \cup {made}
    BY <1>1 DEF SaveCheckpoint
  <1>3. IsLog(log) /\ log' = log
    BY <1>2, EventsAreLogged DEF EpisodeInvariant, RegistryInvariant, LogOK, vars
  <1>4. MadeOf(log, origin)
    BY <1>3, InitialIsOfAnyLog DEF EpisodeInvariant, CheckpointsOK
  <1>5. sequence \in Nat /\ sequence # NoSequence /\ LastIndex(log, sequence) = sequence + 1
    BY EventLogAssumption DEF SequenceNumbers, LastIndex
  <1>6. replayed = Failed \/ replayed = Outcome(log, 0, sequence + 1)
    BY <1>3, <1>4, <1>5, ReplayOutcome
  <1>7. replayed.state = Payloads(log, sequence + 1) /\ ~Refused(log, 0, sequence + 1)
    BY <1>2, <1>6 DEF Outcome, Failed, Ok
  <1>8. /\ made.sequence = sequence /\ made.checksum = Checksum(EventAt(log, sequence))
        /\ made.state = Payloads(log, sequence + 1)
    BY <1>1, <1>7 DEF MakeCheckpoint
  <1>9. FirstIndex(made) = sequence + 1
    BY <1>5, <1>8 DEF FirstIndex
  <1>10. sequence + 1 \in Nat /\ sequence + 1 <= Len(log)
    BY <1>2, <1>3, <1>5 DEF Found, IsLog
  <1>11. MadeOf(log, made)
    BY <1>2, <1>7, <1>8, <1>9, <1>10 DEF MadeOf, AnchorMatches
  <1>12. CheckpointsOK'
    BY <1>2, <1>3, <1>8, <1>11 DEF EpisodeInvariant, CheckpointsOK
  <1>13. RegistryInvariant'
    BY <1>2, StepKeepsInvariant DEF EpisodeInvariant
  <1> QED BY <1>12, <1>13 DEF EpisodeInvariant

LEMMA EpisodeStepKeepsInvariant ==
    EpisodeInvariant /\ [EpisodeNext]_episode => EpisodeInvariant'
  <1> SUFFICES ASSUME EpisodeInvariant, [EpisodeNext]_episode PROVE EpisodeInvariant'
    OBVIOUS
  <1>1. CASE [Next]_vars /\ checkpoints' = checkpoints
    <2>1. RegistryInvariant'
      BY <1>1, StepKeepsInvariant DEF EpisodeInvariant
    <2>2. /\ IsLog(log) /\ IsLog(log') /\ Len(log) <= Len(log')
          /\ \A i \in 1 .. Len(log) : log'[i] = log[i]
      BY <1>1, LogGrows, EventsAreLogged DEF EpisodeInvariant, RegistryInvariant, LogOK
    <2>3. ASSUME NEW c \in checkpoints
          PROVE  /\ c.sequence \in SequenceNumbers /\ Found(log', c.sequence)
                 /\ c.checksum = Checksum(EventAt(log', c.sequence))
                 /\ MadeOf(log', c)
      <3>1. /\ c.sequence \in SequenceNumbers /\ Found(log, c.sequence)
            /\ c.checksum = Checksum(EventAt(log, c.sequence))
            /\ MadeOf(log, c)
        BY DEF EpisodeInvariant, CheckpointsOK
      <3>2. c.sequence # NoSequence
        BY <3>1, EventLogAssumption DEF SequenceNumbers
      <3>3. /\ MadeOf(log', c) /\ Found(log', c.sequence)
            /\ EventAt(log', c.sequence) = EventAt(log, c.sequence)
        BY <2>2, <3>1, <3>2, CheckpointsLast
      <3> QED BY <3>1, <3>3
    <2>4. CheckpointsOK'
      BY <1>1, <2>3 DEF CheckpointsOK
    <2> QED BY <2>1, <2>4 DEF EpisodeInvariant
  <1>2. CASE \E origin \in checkpoints \cup {InitialCheckpoint}, sequence \in SequenceNumbers :
                 SaveCheckpoint(origin, sequence)
    BY <1>2, SaveCheckpointKeeps
  <1> QED BY <1>1, <1>2 DEF EpisodeNext, episode

\* Registry, log and checkpoints together hold the invariant in every reachable state.
THEOREM EpisodeIsWellFormed == EpisodeSpec => []EpisodeInvariant
  <1>1. EpisodeInit => EpisodeInvariant
    BY InitInvariant DEF EpisodeInit, EpisodeInvariant, CheckpointsOK
  <1> QED BY <1>1, EpisodeStepKeepsInvariant, PTL DEF EpisodeSpec

\* What was shown of the registry holds of it in an episode.
THEOREM EpisodeRunsTheRegistry == EpisodeSpec => Spec
  <1>1. EpisodeInit => Init
    BY DEF EpisodeInit
  <1>2. [EpisodeNext]_episode => [Next]_vars
    BY DEF EpisodeNext, SaveCheckpoint, episode
  <1> QED BY <1>1, <1>2, PTL DEF EpisodeSpec, Spec

-----------------------------------------------------------------------------
(* What replay promises. *)

\* A checkpoint holds payloads that the reducer took and the checksum of its anchor,
\* for as long as the log grows (make_checkpoint).
THEOREM EpisodeIsTyped == EpisodeSpec => []EpisodeTypeOK
  <1>1. EpisodeInvariant => \A c \in checkpoints :
            /\ c.state \in Seq(EventPayloads \ RefusedPayloads)
            /\ c.sequence \in SequenceNumbers
            /\ c.checksum = Checksum(EventAt(log, c.sequence))
    <2> SUFFICES ASSUME EpisodeInvariant, NEW c \in checkpoints
                 PROVE  /\ c.state \in Seq(EventPayloads \ RefusedPayloads)
                        /\ c.sequence \in SequenceNumbers
                        /\ c.checksum = Checksum(EventAt(log, c.sequence))
      OBVIOUS
    <2>1. MadeOf(log, c) /\ IsLog(log)
      BY EventsAreLogged DEF EpisodeInvariant, CheckpointsOK, RegistryInvariant, LogOK
    <2> DEFINE n == FirstIndex(c)
    <2>2. n \in Nat /\ n <= Len(log) /\ c.state = Payloads(log, n) /\ ~Refused(log, 0, n)
      BY <2>1 DEF MadeOf
    <2> HIDE DEF n
    <2>3. \A i \in 1 .. n : log[i].payload \in EventPayloads \ RefusedPayloads
      BY <2>1, <2>2 DEF Refused, IsLog
    <2>4. c.state \in Seq(EventPayloads \ RefusedPayloads)
      BY <2>2, <2>3 DEF Payloads
    <2> QED BY <2>4 DEF EpisodeInvariant, CheckpointsOK
  <1>2. EpisodeSpec => []TypeOK
    BY EpisodeRunsTheRegistry, RegistryIsTyped, PTL
  <1> QED BY <1>1, <1>2, EpisodeIsWellFormed, PTL DEF EpisodeTypeOK

\* Replay from a checkpoint gives what replay of the whole log gives, whichever
\* checkpoint it is, however that was made, and whatever was logged since.
THEOREM ResumingIsReplaying == EpisodeSpec => []ResumeEqualsFullReplay
  <1>1. EpisodeInvariant => ResumeEqualsFullReplay
    <2> SUFFICES ASSUME EpisodeInvariant, NEW c \in checkpoints,
                        NEW through \in SequenceNumbers \cup {NoSequence}
                 PROVE  ReplayLog(log, c, through) =
                            IF through # NoSequence /\ through < c.sequence
                            THEN Failed
                            ELSE ReplayLog(log, InitialCheckpoint, through)
      BY DEF ResumeEqualsFullReplay
    <2>1. /\ IsLog(log) /\ MadeOf(log, c) /\ c.sequence \in SequenceNumbers
          /\ Found(log, c.sequence)
      BY EventsAreLogged DEF EpisodeInvariant, CheckpointsOK, RegistryInvariant, LogOK
    <2>2. MadeOf(log, InitialCheckpoint) /\ FirstIndex(InitialCheckpoint) = 0
      BY <2>1, InitialIsOfAnyLog
    <2>3. c.sequence \in Nat /\ FirstIndex(c) = c.sequence + 1
      BY <2>1, EventLogAssumption DEF SequenceNumbers, FirstIndex
    <2> DEFINE last == LastIndex(log, through)
    <2>4. through # NoSequence => through \in Nat /\ last = through + 1
      BY EventLogAssumption DEF SequenceNumbers, LastIndex
    <2>5. ReplayLog(log, c, through) =
              IF through # NoSequence /\ ~(Found(log, through) /\ FirstIndex(c) <= last)
              THEN Failed ELSE Outcome(log, 0, last)
      BY <2>1, ReplayOutcome
    <2>6. ReplayLog(log, InitialCheckpoint, through) =
              IF through # NoSequence /\ ~(Found(log, through) /\ 0 <= last)
              THEN Failed ELSE Outcome(log, 0, last)
      BY <2>1, <2>2, ReplayOutcome
    <2> HIDE DEF last
    <2>7. CASE through = NoSequence
      BY <2>5, <2>6, <2>7
    <2>8. CASE through # NoSequence
      <3>1. FirstIndex(c) <= last <=> ~(through < c.sequence)
        BY <2>3, <2>4, <2>8
      <3>2. 0 <= last
        BY <2>4, <2>8
      <3> QED BY <2>5, <2>6, <2>8, <3>1, <3>2
    <2> QED BY <2>7, <2>8
  <1> QED BY <1>1, EpisodeIsWellFormed, PTL

\* The state a worldline begins with can be restored from the beginning and from every
\* checkpoint that is not later than its fork, for as long as it is registered.
THEOREM ForksAreRestorable == EpisodeSpec => []ForkPointsAreRestorable
  <1>1. EpisodeInvariant => ForkPointsAreRestorable
    <2> SUFFICES ASSUME EpisodeInvariant, NEW n \in Ids, RecordOf(n).forkEvent # NoSequence,
                        NEW c \in {InitialCheckpoint} \cup
                                  {d \in checkpoints : d.sequence <= RecordOf(n).forkEvent}
                 PROVE  LET fork == RecordOf(n).forkEvent
                            upToFork == [i \in 1 .. (fork + 1) |-> log[i].payload]
                        IN  ReplayLog(log, c, fork) =
                                IF Range(upToFork) \cap RefusedPayloads = {}
                                THEN Ok(upToFork) ELSE Failed
      BY DEF ForkPointsAreRestorable
    <2> DEFINE fork == RecordOf(n).forkEvent
               upToFork == [i \in 1 .. (fork + 1) |-> log[i].payload]
    <2>1. IsLog(log) /\ Len(log) <= InvalidSequence
      BY EventsAreLogged DEF EpisodeInvariant, RegistryInvariant, LogOK
    <2>2. fork \in Nat /\ Found(log, fork)
      <3>1. n # 0
        BY DEF EpisodeInvariant, RegistryInvariant, RecordsOK
      <3> QED BY <3>1 DEF EpisodeInvariant, RegistryInvariant, RecordsOK, ForkIsRecorded
    <2>3. fork \in SequenceNumbers /\ fork # NoSequence
      BY <2>1, <2>2, EventLogAssumption DEF SequenceNumbers, Found, IsLog
    <2>4. LastIndex(log, fork) = fork + 1
      BY <2>3 DEF LastIndex
    <2>5. MadeOf(log, c) /\ FirstIndex(c) <= fork + 1
      <3>1. CASE c = InitialCheckpoint
        BY <2>1, <2>2, <3>1, InitialIsOfAnyLog
      <3>2. CASE c \in checkpoints /\ c.sequence <= fork
        <4>1. c.sequence \in SequenceNumbers /\ MadeOf(log, c)
          BY <3>2 DEF EpisodeInvariant, CheckpointsOK
        <4>2. c.sequence \in Nat /\ FirstIndex(c) = c.sequence + 1
          BY <4>1, EventLogAssumption DEF SequenceNumbers, FirstIndex
        <4> QED BY <2>2, <3>2, <4>1, <4>2
      <3> QED BY <3>1, <3>2
    <2>6. ReplayLog(log, c, fork) = Outcome(log, 0, fork + 1)
      BY <2>1, <2>2, <2>3, <2>4, <2>5, ReplayOutcome
    <2>7. upToFork = Payloads(log, fork + 1)
      BY DEF Payloads
    <2>8. Range(upToFork) \cap RefusedPayloads = {} <=> ~Refused(log, 0, fork + 1)
      <3>1. Range(upToFork) = {log[i].payload : i \in 1 .. (fork + 1)}
        BY DEF Range
      <3>2. Refused(log, 0, fork + 1) <=>
                \E i \in 1 .. (fork + 1) : log[i].payload \in RefusedPayloads
        BY DEF Refused
      <3> HIDE DEF upToFork, fork
      <3> QED BY <3>1, <3>2
    <2> QED BY <2>6, <2>7, <2>8 DEF Outcome
  <1> QED BY <1>1, EpisodeIsWellFormed, PTL

\* Replay through a sequence number is settled once the log has that event.
THEOREM StoppedReplaysAreStable == EpisodeSpec => StoppedReplayIsStable
  <1> DEFINE Settled == \A through \in SequenceNumbers :
                            Found(log, through) =>
                                ReplayLog(log', InitialCheckpoint, through) =
                                    ReplayLog(log, InitialCheckpoint, through)
  <1>1. EpisodeInvariant /\ [EpisodeNext]_episode => [Settled]_episode
    <2> SUFFICES ASSUME EpisodeInvariant, [EpisodeNext]_episode,
                        NEW through \in SequenceNumbers, Found(log, through)
                 PROVE  ReplayLog(log', InitialCheckpoint, through) =
                            ReplayLog(log, InitialCheckpoint, through)
      OBVIOUS
    <2>1. [Next]_vars
      BY DEF EpisodeNext, SaveCheckpoint, episode
    <2>2. /\ IsLog(log) /\ IsLog(log') /\ Len(log) <= Len(log')
          /\ \A i \in 1 .. Len(log) : log'[i] = log[i]
      BY <2>1, LogGrows, EventsAreLogged DEF EpisodeInvariant, RegistryInvariant, LogOK
    <2>3. /\ through \in Nat /\ through # NoSequence /\ through + 1 <= Len(log)
          /\ LastIndex(log, through) = through + 1 /\ LastIndex(log', through) = through + 1
          /\ Found(log', through)
      BY <2>2, EventLogAssumption DEF SequenceNumbers, Found, LastIndex, IsLog
    <2>4. /\ ReplayLog(log, InitialCheckpoint, through) = Outcome(log, 0, through + 1)
          /\ ReplayLog(log', InitialCheckpoint, through) = Outcome(log', 0, through + 1)
      <3>1. FirstIndex(InitialCheckpoint) = 0 /\ 0 <= through + 1
        BY <2>2, <2>3, InitialIsOfAnyLog
      <3>2. ASSUME NEW l, IsLog(l), Found(l, through), LastIndex(l, through) = through + 1
            PROVE  ReplayLog(l, InitialCheckpoint, through) = Outcome(l, 0, through + 1)
        <4>1. MadeOf(l, InitialCheckpoint)
          BY <3>2, InitialIsOfAnyLog
        <4> QED BY <2>3, <3>1, <3>2, <4>1, ReplayOutcome
      <3> QED BY <2>2, <2>3, <3>2
    <2>5. \A i \in 1 .. (through + 1) : log'[i] = log[i]
      BY <2>2, <2>3 DEF IsLog
    <2>6. Refused(log', 0, through + 1) <=> Refused(log, 0, through + 1)
      BY <2>3, <2>5 DEF Refused
    <2>7. Payloads(log', through + 1) = Payloads(log, through + 1)
      BY <2>3, <2>5 DEF Payloads
    <2> QED BY <2>4, <2>6, <2>7 DEF Outcome
  <1> HIDE DEF Settled
  <1>2. EpisodeSpec => [][Settled]_episode
    BY <1>1, EpisodeIsWellFormed, PTL DEF EpisodeSpec
  <1> QED BY <1>2 DEF StoppedReplayIsStable, Settled

=============================================================================
