------------------------------ MODULE Episode -------------------------------
(***************************************************************************)
(* A registry of worldlines and the checkpoints of a replayed state, both  *)
(* made of one event log that goes on growing: forks name events of it,    *)
(* and a worldline begins with the state its fork event left.              *)
(***************************************************************************)
EXTENDS WorldlineRegistry, CheckpointReplay

CONSTANT MaxCheckpoints  \* bound: checkpoints kept

VARIABLE checkpoints  \* the checkpoints made of the log

episode == <<vars, checkpoints>>

EpisodeInit == Init /\ checkpoints = {}

\* A caller replays the log, from its beginning or from a checkpoint it has, and makes
\* a checkpoint of the state where the replay stopped.
SaveCheckpoint(origin, sequence) ==
    LET replayed == ReplayLog(log, origin, sequence)
    IN  /\ Found(log, sequence)
        /\ replayed.ok
        /\ Cardinality(checkpoints) < MaxCheckpoints
        /\ checkpoints' = checkpoints \cup {MakeCheckpoint(log, sequence, replayed.state)}
        /\ UNCHANGED vars

EpisodeNext ==
    \/ Next /\ UNCHANGED checkpoints
    \/ \E origin \in checkpoints \cup {InitialCheckpoint}, sequence \in SequenceNumbers :
           SaveCheckpoint(origin, sequence)

EpisodeSpec == EpisodeInit /\ [][EpisodeNext]_episode

-----------------------------------------------------------------------------

\* Log and registry are well numbered, and a checkpoint keeps the checksum of its
\* anchor for as long as the log grows.
EpisodeTypeOK ==
    /\ TypeOK
    /\ \A c \in checkpoints :
           /\ c.state \in Seq(EventPayloads \ RefusedPayloads)
           /\ c.sequence \in SequenceNumbers
           /\ c.checksum = Checksum(EventAt(log, c.sequence))

\* Resuming from a checkpoint, however it was made and however the log has grown
\* since, gives what replaying the whole log gives, with the same stop and the same
\* failures; only a stop before the checkpoint is refused.
ResumeEqualsFullReplay ==
    \A c \in checkpoints, through \in SequenceNumbers \cup {NoSequence} :
        ReplayLog(log, c, through) =
            IF through # NoSequence /\ through < c.sequence
            THEN Failed
            ELSE ReplayLog(log, InitialCheckpoint, through)

\* Replay through a sequence number includes its event and none after it: a later
\* event changes neither the state nor the failure of a replay that has a stop.
StoppedReplayIsStable ==
    [][\A through \in SequenceNumbers :
           Found(log, through) =>
               ReplayLog(log', InitialCheckpoint, through) =
                   ReplayLog(log, InitialCheckpoint, through)]_episode

\* The state a worldline starts from can be restored for as long as it is registered:
\* its fork event stays in the log, and a replay through it, from the beginning or
\* from any checkpoint that is not later, gives the payloads up to that event, and
\* fails only if the reducer refuses one of them.
ForkPointsAreRestorable ==
    \A n \in Ids :
        LET fork == RecordOf(n).forkEvent
            upToFork == [i \in 1 .. (fork + 1) |-> log[i].payload]
        IN  fork # NoSequence =>
                \A c \in {InitialCheckpoint} \cup {d \in checkpoints : d.sequence <= fork} :
                    ReplayLog(log, c, fork) =
                        IF Range(upToFork) \cap RefusedPayloads = {} THEN Ok(upToFork) ELSE Failed

=============================================================================
