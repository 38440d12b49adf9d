SPECIFICATION BasisSpec
CONSTANTS
    memory = memory
    reinterprets = reinterprets
    w1 = w1
    w2 = w2
    noWorldline = noWorldline
    g1 = g1
    noGeneration = noGeneration
    h1 = h1
    a = a
    Kinds = {memory}
    Relations = {reinterprets}
    SourceKind <- MCSourceKind
    TargetKind <- MCTargetKind
    InvalidNodeId = 2
    InvalidEdgeId = 1
    Worldlines = {w1, w2}
    NoWorldline = noWorldline
    Intervals <- MCIntervals
    Values = {a}
    Generations = {g1}
    NoGeneration = noGeneration
    Times = {1}
    DeltaHandles = {h1}
    MaxSnapshots = 3
    MaxRoots = 2
\* Stops once MaxSnapshots are published.
CHECK_DEADLOCK FALSE
PROPERTY
    BranchesHaveTheirBasis
