\* Two analysts, one round of each debate, two launches told apart, and their board.
SPECIFICATION BoardSpec
CONSTANTS
    NAnalysts = 2
    DebateRounds = 1
    RiskRounds = 1
    Dates = {own, earlier}
    Own = own
    RecordDecision = TRUE
    ResolvePending = TRUE
    Nothing = nothing
    Torn = torn
    MaxLaunches = 2
INVARIANTS
    TypeOK
    AtMostOneUnitAtRisk
    RunInOrder
    DeliveredBeforeCleared
    BoardTypeOK
    BoardTellsTheRun
    BoardShowsTheWork
    BoardAtTheEnd
PROPERTIES
    JournalOnlyGrows
    DecisionsAdvance
    ImplementsRunProgress
