SPECIFICATION Spec
CONSTANTS
    thought = thought
    generates = generates
    w1 = w1
    w2 = w2
    noWorldline = noWorldline
    g1 = g1
    noGeneration = noGeneration
    h1 = h1
    a = a
    b = b
    Kinds <- MCKinds
    Relations <- MCRelations
    SourceKind <- MCSourceKind
    TargetKind <- MCTargetKind
    InvalidNodeId = 2
    InvalidEdgeId = 0
    Worldlines <- MCWorldlines
    NoWorldline = noWorldline
    Intervals <- MCShortIntervals
    Values = {a, b}
    Generations = {g1}
    NoGeneration = noGeneration
    Times <- MCPoints
    DeltaHandles = {h1}
    MaxSnapshots = 2
    MaxRoots = 1
SYMMETRY MCSymmetry
INVARIANTS
    SelectionIsExact
    BranchKeepsInherited
