SPECIFICATION LocalReconnectingSpec
CONSTANTS
    Solids <- MCSolids
    Stripes <- MCStripes
    Cue = 0
    Eight = 8
    NoBall = NoBall
    CushionReports <- MCClientReports
    Unreported = Unreported
    NoShot = NoShot
    MaxTurns = 2
    MaxFaults = 2
PROPERTIES
    MoverGetsToAct
    ImplementsPoolGame
    VerdictsAgree
