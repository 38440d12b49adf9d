SPECIFICATION Spec
CONSTANTS
    notFound = notFound
    NotFound = notFound
    Properties <- MCProperties
    Nodes <- MCNodes
    Edges <- MCEdges
    Rules <- MCRules
    EmptyKey = ""
    Starts <- MCStarts
    MaxSpecs = 4
\* No more specs than the bound are added.
CHECK_DEADLOCK FALSE
INVARIANTS
    TypeOK
    LookupsAreExact
    EdgesJoinAllowedKinds
