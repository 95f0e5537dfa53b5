SPECIFICATION Spec
CONSTANTS
    MaxAttempts = 2
    HalfOpen = FALSE
    Swift = FALSE
    MaxSockets = 3
    MaxRematches = 1
    MaxFaults = 3
INVARIANT BothPlayersJoin
