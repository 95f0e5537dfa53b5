SPECIFICATION FairSpec
CONSTANTS
    TimeoutTicks = 3
    MaxWorkers = 3
INVARIANTS TypeOK TurnIsTimed CreditedOnce
PROPERTIES ImplementsMatchCredit GameMovesOn ShotWinnerPaid
