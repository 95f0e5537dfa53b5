SPECIFICATION Spec
CONSTANTS
    a = a
    b = b
    c = c
    NoOne = NoOne
    Players <- MCVisitor
    MaxConns = 3
    MaxRestarts = 0
    MaxExpiries = 0
    Overlap = FALSE
    Interleaved = FALSE
    Rematch = FALSE
PROPERTY ForfeitsAbsent
CHECK_DEADLOCK FALSE
