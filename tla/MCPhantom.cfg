SPECIFICATION Spec
CONSTANTS
    n1 = n1
    n2 = n2
    noNode = noNode
    a = a
    b = b
    Nodes = {n1, n2}
    InvalidNode = noNode
    Values = {a, b}
    IdBase = 2
    InvalidEdgeId = 5
INVARIANT SourceCountIsSources
