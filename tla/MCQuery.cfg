SPECIFICATION QuerySpec
CONSTANTS
    ghost = ghost
    action = action
    biases = biases
    evidenceFor = evidenceFor
    activation = activation
    confidence = confidence
    w1 = w1
    w2 = w2
    noWorldline = noWorldline
    g1 = g1
    noGeneration = noGeneration
    Kinds = {ghost, action}
    Relations = {biases, evidenceFor}
    SourceKind <- MCSourceKind
    TargetKind <- MCTargetKind
    Keys = {activation, confidence}
    KeysOf <- MCKeysOf
    InvalidNodeId = 9
    InvalidEdgeId = 9
    Worldlines = {w1, w2}
    NoWorldline = noWorldline
    Intervals <- MCIntervals
    Values <- MCValues
    Generations = {g1}
    NoGeneration = noGeneration
    Times = {0, 1}
    Graphs <- MCGraphs
    Operations <- MCOperations
    MaxOperations = 4
INVARIANTS
    QueryTypeOK
    LookupsAreInvisible
    OptimizedIsEquivalent
    OnlySelectorsFail
    RequiredColumnsSuffice
    PlanDescribesTheQuery
