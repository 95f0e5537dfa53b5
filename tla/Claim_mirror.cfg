SPECIFICATION LocalSpec
CONSTANTS
    Solids <- MCSolids
    Stripes <- MCStripes
    Cue = 0
    Eight = 8
    NoBall = NoBall
    CushionReports <- MCClientReports
    Unreported = Unreported
    NoShot = NoShot
    MaxTurns = 4
    MaxFaults = 0
PROPERTY
    Mirrors
