SPECIFICATION Spec
CONSTANTS
    w1 = w1
    noWorldline = noWorldline
    noSequence = noSequence
    log1 = log1
    log2 = log2
    a = a
    b = b
    bad = bad
    Worldlines = {w1}
    NoWorldline = noWorldline
    InvalidSequence = 2
    NoSequence = noSequence
    Logs <- MCLogs
    Payloads = {a, b, bad}
    RefusedPayloads = {bad}
    MaxCheckpoints = 2
\* A full log takes no more events.
CHECK_DEADLOCK FALSE
INVARIANT ForeignPrefixIsRejected
