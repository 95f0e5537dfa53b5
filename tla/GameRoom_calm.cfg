SPECIFICATION FairSpec
CONSTANTS
    a = a
    b = b
    c = c
    NoOne = NoOne
    Players <- MCPair
    MaxConns = 4
    MaxRestarts = 1
    MaxExpiries = 1
    Overlap = FALSE
    Interleaved = FALSE
    Rematch = FALSE
INVARIANTS TypeOK SeatsAgree Reachable AbsentOnClock PlayersMeet
PROPERTIES ImplementsMatchCredit ForfeitsAbsent AbsenceEnds
CHECK_DEADLOCK FALSE
