SPECIFICATION Spec
CONSTANTS
    NumCases = 2
INVARIANTS
    TypeOK
    StageIsAwaited
    WifiIsReserved
    EveryEntryJudged
    RestoredOrError
PROPERTIES
    VerdictsStand
