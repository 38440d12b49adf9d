------------------------- MODULE CheckpointReplay ---------------------------
(***************************************************************************)
(* runtime/replay.hpp: a state is rebuilt from an event log, from its      *)
(* beginning or from a checkpoint, by a reducer that takes one event at a  *)
(* time and may fail.                                                      *)
(*                                                                         *)
(* The reducer is the most telling one: the state is the sequence of the   *)
(* payloads it has taken, and some payloads are refused.                   *)
(***************************************************************************)
EXTENDS EventLog

CONSTANT RefusedPayloads  \* payloads the reducer fails on

\* A result<State> with an error in it.
Failed == [ok |-> FALSE, state |-> <<>>]
Ok(state) == [ok |-> TRUE, state |-> state]

Reduce(event, state) ==
    IF event.payload \in RefusedPayloads THEN Failed ELSE Ok(Append(state, event.payload))

\* The loop over the events from index first up to, not including, last: what it has
\* after each of them.  The first failing event ends it.
ReduceAll(log, first, last, state) ==
    LET upTo[index \in first .. last] ==
            IF index = first THEN Ok(state)
            ELSE IF upTo[index - 1].ok
                 THEN Reduce(EventAt(log, index - 1), upTo[index - 1].state)
                 ELSE upTo[index - 1]
    IN  upTo[last]

InitialCheckpoint == [state |-> <<>>, sequence |-> NoSequence]

\* A checkpoint with a sequence number must find its anchor in the log, unaltered.
AnchorMatches(log, origin) ==
    origin.sequence # NoSequence =>
        /\ Found(log, origin.sequence)
        /\ Checksum(EventAt(log, origin.sequence)) = origin.checksum

\* Mutants of FirstIndex and LastIndex: the anchor is applied again; the stop is
\* looked up but not kept to.
FirstIndexAtAnchor(origin) == IF origin.sequence = NoSequence THEN 0 ELSE origin.sequence
LastIndexOfLog(log, through) == Len(log)

\* first_index and last_index: the events from one up to, not including, the other.
FirstIndex(origin) == IF origin.sequence = NoSequence THEN 0 ELSE origin.sequence + 1
LastIndex(log, through) == IF through = NoSequence THEN Len(log) ELSE through + 1

ReplayLog(log, origin, through) ==
    IF /\ AnchorMatches(log, origin)
       /\ through # NoSequence => /\ Found(log, through)
                                  /\ FirstIndex(origin) <= LastIndex(log, through)
    THEN ReduceAll(log, FirstIndex(origin), LastIndex(log, through), origin.state)
    ELSE Failed

\* make_checkpoint.
MakeCheckpoint(log, sequence, state) ==
    [state |-> state, sequence |-> sequence, checksum |-> Checksum(EventAt(log, sequence))]

=============================================================================
