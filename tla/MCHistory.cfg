SPECIFICATION Spec
CONSTANTS
    noSequence = noSequence
    Worldlines <- MCWorldlines
    NoWorldline = 255
    InvalidSequence = 5
    NoSequence = noSequence
    Memories = {3}
    NoMemory = 255
    Perspectives = {5}
    NoPerspective = 255
    Intervals <- MCIntervals
    Values <- MCValues
    Sources <- MCSources
    Times <- MCTimes
    Word = 1
    Int32 = 1
    OtherIds = {0, 1, 3, 5, 7}
    OtherValues <- MCTexts
    OtherSources <- MCProvenances
    MaxCompared = 4
\* A full log takes no more events.
CHECK_DEADLOCK FALSE
INVARIANTS
    TypeOK
    VersionsFormALine
    AtFollowsTheLine
    DigestTellsLogsApart
PROPERTY
    PastIsStable
