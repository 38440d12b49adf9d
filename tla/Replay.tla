------------------------------- MODULE Replay -------------------------------
(***************************************************************************)
(* Logs that are kept side by side and checkpoints made of each.  A        *)
(* checkpoint outlives the moment it was made: its log grows, and it may   *)
(* be offered to a log it was not made of.                                 *)
(***************************************************************************)
EXTENDS CheckpointReplay

CONSTANTS
    Logs,           \* the event logs
    Payloads,       \* what their events carry
    MaxCheckpoints  \* bound: checkpoints made of each log

VARIABLES
    logs,        \* the contents of each log
    checkpoints  \* the checkpoints made of each log

vars == <<logs, checkpoints>>

Init ==
    /\ logs = [l \in Logs |-> <<>>]
    /\ checkpoints = [l \in Logs |-> {}]

-----------------------------------------------------------------------------

Record(l, payload) ==
    LET event == EventFor(logs[l], "state_appended", 0, 0, CHOOSE w \in Worldlines : TRUE,
                          payload, NoSequence, "observed")
    IN  /\ CanAppend(logs[l], event)
        /\ logs' = [logs EXCEPT ![l] = Append(@, event)]
        /\ UNCHANGED checkpoints

\* A caller replays a log, from its beginning or from a checkpoint it has, and makes
\* a checkpoint of the state where the replay stopped.
SaveCheckpoint(l, origin, sequence) ==
    LET replayed == ReplayLog(logs[l], origin, sequence)
    IN  /\ Found(logs[l], sequence)
        /\ replayed.ok
        /\ Cardinality(checkpoints[l]) < MaxCheckpoints
        /\ checkpoints' = [checkpoints EXCEPT ![l] =
                              @ \cup {MakeCheckpoint(logs[l], sequence, replayed.state)}]
        /\ UNCHANGED logs

Next ==
    \E l \in Logs :
        \/ \E payload \in Payloads : Record(l, payload)
        \/ \E origin \in checkpoints[l] \cup {InitialCheckpoint}, sequence \in SequenceNumbers :
               SaveCheckpoint(l, origin, sequence)

Spec == Init /\ [][Next]_vars

-----------------------------------------------------------------------------

\* "Checkpoint does not match the event log": the test
\* RejectsCheckpointFromADifferentLogPrefix asks that a log whose events up to the
\* checkpoint differ from those of the log it was made of refuses it.
ForeignPrefixIsRejected ==
    \A l, m \in Logs : \A c \in checkpoints[l] :
        (\E sequence \in 0 .. c.sequence :
             Found(logs[m], sequence) /\ EventAt(logs[m], sequence) # EventAt(logs[l], sequence))
        => ~ReplayLog(logs[m], c, NoSequence).ok

=============================================================================
