SPECIFICATION EpisodeSpec
CONSTANTS
    noSequence = noSequence
    g1 = g1
    noGeneration = noGeneration
    v1 = v1
    noIntervention = noIntervention
    a = a
    b = b
    bad = bad
    Worldlines <- MCWorldlines
    NoWorldline = 3
    InvalidWorldline = 3
    InvalidSequence = 3
    NoSequence = noSequence
    Generations = {g1}
    NoGeneration = noGeneration
    Interventions = {v1}
    NoIntervention = noIntervention
    Times = {1, 2}
    EventPayloads = {a, b, bad}
    RefusedPayloads = {bad}
    MaxCheckpoints = 2
SYMMETRY MCSymmetry
\* A full log, a full registry and enough checkpoints take nothing more.
CHECK_DEADLOCK FALSE
INVARIANTS
    EpisodeTypeOK
    LineageIsARecordedPath
    ResumeEqualsFullReplay
    ForkPointsAreRestorable
PROPERTIES
    LineageIsPermanent
    StoppedReplayIsStable
