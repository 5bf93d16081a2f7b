\* Two rounds of each debate, cut short and resumed anywhere.
SPECIFICATION Spec
CONSTANTS
    NAnalysts = 1
    DebateRounds = 2
    RiskRounds = 2
    Dates = {own}
    Own = own
    RecordDecision = TRUE
    ResolvePending = TRUE
    Nothing = nothing
    Torn = torn
    MaxLaunches = 2
INVARIANTS
    HeardEverything
PROPERTIES
    RunFinishes
    DurableWorkCounts
