\* What the observer may do to a run whose work is done.
SPECIFICATION Spec
CONSTANTS
    NAnalysts = 1
    DebateRounds = 1
    RiskRounds = 1
    Dates = {own, earlier}
    Own = own
    RecordDecision = TRUE
    ResolvePending = TRUE
    Nothing = nothing
    Torn = torn
    MaxLaunches = 1
PROPERTIES
    PumpNeverFailsRun
