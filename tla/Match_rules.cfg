SPECIFICATION FairBookPlay
CONSTANTS
    Solids <- MCTwoSolids
    Stripes <- MCTwoStripes
    Cue = 0
    Eight = 8
    NoBall = NoBall
    CushionReports <- MCReports
    Unreported = Unreported
    NoShot = NoShot
    MaxTurns = 3
    MaxFaults = 0
INVARIANTS
    TypeOK
    GroupsComplementary
    TurnParity
    OneWinner
    TablesAgree
    OneActs
PROPERTIES
    RulebookVerdict
    FinishedIsFinal
    DealtOnce
    TurnGoesOn
    ImplementsPoolGame
