SPECIFICATION Spec
CONSTANTS
    memory = memory
    reinterprets = reinterprets
    w1 = w1
    w2 = w2
    noWorldline = noWorldline
    g1 = g1
    noGeneration = noGeneration
    h1 = h1
    a = a
    Kinds <- MCKinds
    Relations <- MCRelations
    SourceKind <- MCSourceKind
    TargetKind <- MCTargetKind
    InvalidNodeId = 2
    InvalidEdgeId = 2
    Worldlines <- MCWorldlines
    NoWorldline = noWorldline
    Intervals <- MCIntervals
    Values = {a}
    Generations <- MCGenerations
    NoGeneration = noGeneration
    Times <- MCTimes
    DeltaHandles = {h1}
    MaxSnapshots = 3
    MaxRoots = 1
SYMMETRY MCSymmetry
INVARIANTS
    TypeOK
    IdsAreContiguous
    EdgesWellFormed
    EdgeEndsAreNumbered
    TraversalIsExact
PROPERTY
    BranchesAddToParents
