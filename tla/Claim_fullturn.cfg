SPECIFICATION Spec
CONSTANTS
    TimeoutTicks = 2
    MaxWorkers = 4
PROPERTY FullTurn
