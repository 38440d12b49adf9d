-------------------------- MODULE WorldlineRegistry --------------------------
(***************************************************************************)
(* runtime/worldline.hpp: the worldlines, an actual root and the simulated *)
(* ones forked off, with the event log the forks refer to.  Registry and   *)
(* log are separate objects of the caller: the log takes events on any     *)
(* valid worldline id, registered or not, and fork() reads it when called. *)
(***************************************************************************)
EXTENDS EventLog

CONSTANTS
    InvalidWorldline,  \* worldline_id::invalid_value: ids are 0, 1, 2, ...
    Generations,       \* valid generation ids
    NoGeneration,
    Interventions,     \* valid intervention ids
    NoIntervention,
    Times,             \* valid times of events
    EventPayloads      \* what events carry

ASSUME RegistryAssumption ==
    /\ InvalidWorldline \in Nat \ {0}
    /\ Worldlines = 0 .. (InvalidWorldline - 1)
    /\ NoWorldline = InvalidWorldline
    /\ NoGeneration \notin Generations
    /\ NoIntervention \notin Interventions

VARIABLES
    log,     \* the event log
    records  \* records_; the record of worldline n is at position n + 1

vars == <<log, records>>

EventKinds == {"worldline_forked", "state_appended"}
ProvenanceKinds == {"observed", "simulated"}

Init == log = <<>> /\ records = <<>>

\* An event on some worldline; recorded times, links and provenance play no part here.
Record(kind, validTime, worldline, payload) ==
    LET event == EventFor(log, kind, validTime, 0, worldline, payload, NoSequence, "observed")
    IN  /\ CanAppend(log, event)
        /\ log' = Append(log, event)
        /\ UNCHANGED records

\* Mutant of CreateRoot: a registry that has a root is started over.
CreateRootAgain(generation, source) ==
    /\ generation # NoGeneration
    /\ source # "simulated"
    /\ records' = <<[id |-> 0, kind |-> "actual", parent |-> NoWorldline, forkEvent |-> NoSequence,
                     forkValidTime |-> 0, generation |-> generation, source |-> source]>>
    /\ UNCHANGED log

CreateRoot(generation, source) ==
    /\ records = <<>>
    /\ generation # NoGeneration
    /\ source # "simulated"
    /\ records' = <<[id |-> 0, kind |-> "actual", parent |-> NoWorldline, forkEvent |-> NoSequence,
                     forkValidTime |-> 0, generation |-> generation, source |-> source]>>
    /\ UNCHANGED log

\* worldline_registry::find.
Registered(id) == id # InvalidWorldline /\ id < Len(records)
RecordOf(id) == records[id + 1]

\* Mutant of Fork: the fork event may be of any worldline.
ForkAtAnyEvent(parent, forkEvent, intervention, generation, source) ==
    /\ Registered(parent)
    /\ Found(log, forkEvent)
    /\ EventAt(log, forkEvent).kind = "worldline_forked"
    /\ intervention # NoIntervention
    /\ generation # NoGeneration
    /\ source = "simulated"
    /\ Len(records) < InvalidWorldline
    /\ records' = Append(records,
           [id |-> Len(records), kind |-> "simulated", parent |-> parent, forkEvent |-> forkEvent,
            forkValidTime |-> EventAt(log, forkEvent).validTime,
            generation |-> generation, source |-> source])
    /\ UNCHANGED log

\* Mutant of Fork: one worldline too many.
ForkBeyondLastId(parent, forkEvent, intervention, generation, source) ==
    /\ Registered(parent)
    /\ Found(log, forkEvent)
    /\ EventAt(log, forkEvent).kind = "worldline_forked"
    /\ EventAt(log, forkEvent).worldline = parent
    /\ Len(records) <= InvalidWorldline
    /\ records' = Append(records,
           [id |-> Len(records), kind |-> "simulated", parent |-> parent, forkEvent |-> forkEvent,
            forkValidTime |-> EventAt(log, forkEvent).validTime,
            generation |-> generation, source |-> source])
    /\ UNCHANGED log

Fork(parent, forkEvent, intervention, generation, source) ==
    /\ Registered(parent)
    /\ Found(log, forkEvent)
    /\ EventAt(log, forkEvent).kind = "worldline_forked"
    /\ EventAt(log, forkEvent).worldline = parent
    /\ intervention # NoIntervention
    /\ generation # NoGeneration
    /\ source = "simulated"
    /\ Len(records) < InvalidWorldline
    /\ records' = Append(records,
           [id |-> Len(records), kind |-> "simulated", parent |-> parent, forkEvent |-> forkEvent,
            forkValidTime |-> EventAt(log, forkEvent).validTime,
            generation |-> generation, source |-> source])
    /\ UNCHANGED log

Next ==
    \/ \E kind \in EventKinds, validTime \in Times, worldline \in Worldlines \cup {NoWorldline},
          payload \in EventPayloads :
           Record(kind, validTime, worldline, payload)
    \/ \E generation \in Generations \cup {NoGeneration}, source \in ProvenanceKinds :
        \/ CreateRoot(generation, source)
        \/ \E parent \in 0 .. InvalidWorldline, forkEvent \in 0 .. InvalidSequence,
              intervention \in Interventions \cup {NoIntervention} :
               Fork(parent, forkEvent, intervention, generation, source)

Spec == Init /\ [][Next]_vars

-----------------------------------------------------------------------------
Ids == {n \in Worldlines : Registered(n)}

\* lineage(): the parents from a worldline up, turned round.  The loop ends when it
\* meets a record without a parent; it would run for ever round a cycle, which taking
\* one step per record at most shows as a lineage that does not begin at the root.
PathsUp[steps \in Nat] ==
    [n \in Ids |-> IF steps = 0 \/ RecordOf(n).parent = NoWorldline
                   THEN <<n>>
                   ELSE Append(PathsUp[steps - 1][RecordOf(n).parent], n)]
Lineage(id) == PathsUp[Len(records)][id]

-----------------------------------------------------------------------------

\* Worldlines and events are numbered without gaps and below the invalid id.
TypeOK ==
    /\ WellNumbered(log)
    /\ Len(log) <= InvalidSequence
    /\ Len(records) <= InvalidWorldline
    /\ \A n \in Ids :
           /\ RecordOf(n).id = n
           /\ RecordOf(n).kind \in {"actual", "simulated"}
           /\ RecordOf(n).parent \in Worldlines \cup {NoWorldline}
           /\ RecordOf(n).forkEvent \in SequenceNumbers \cup {NoSequence}

\* Every lineage runs from the one actual worldline through simulated ones only, each
\* the parent of the next, and each step is a fork event that the log still records
\* on that parent, at the valid time the fork remembers.
LineageIsARecordedPath ==
    \A n \in Ids :
        LET path == Lineage(n) IN
        /\ Last(path) = n
        /\ \A i \in 1 .. Len(path) : RecordOf(path[i]).kind = "actual" <=> i = 1
        /\ \A i \in 1 .. (Len(path) - 1) :
               LET child == RecordOf(path[i + 1]) IN
               /\ Found(log, child.forkEvent)
               /\ EventAt(log, child.forkEvent).kind = "worldline_forked"
               /\ EventAt(log, child.forkEvent).worldline = path[i]
               /\ EventAt(log, child.forkEvent).validTime = child.forkValidTime

\* A worldline's lineage is settled when it is registered: no later fork or event
\* changes it, or the record of any worldline on it.
LineageIsPermanent ==
    [][\A n \in Ids :
           /\ n \in Ids'
           /\ Lineage(n)' = Lineage(n)
           /\ RecordOf(n)' = RecordOf(n)]_vars

=============================================================================
