SPECIFICATION Spec
CONSTANTS
    w1 = w1
    w2 = w2
    noWorldline = noWorldline
    p = p
    a = a
    nan = nan
    Worldlines = {w1, w2}
    NoWorldline = noWorldline
    Intervals <- MCIntervals
    Sources = {p}
    PropertyValues <- MCPropertyValues
    RowInputs <- MCRowInputs
    IdBase = 1
    InvalidNodeId = 4
INVARIANTS
    TypeOK
    ColumnsAligned
    ReadyIndicesAreExact
    EstimatesFollowTheRows
PROPERTY
    AppendsAreAtomic
