\* Three sessions of single stages and debates, writes failing anywhere.
SPECIFICATION SessionSpec
CONSTANTS
    MaxSessions = 3
    StageNames <- MCStageNames
    Widths = {1, 2, 3}
    WithTools = {1}
    PlanOrder <- MCPlanOrder
    Listed = {"bull", "trader", "aggressive", "neutral"}
\* The bounded supply of session ids runs out.
CHECK_DEADLOCK FALSE
INVARIANTS
    SessionTypeOK
    LinesBracket
    ShownAsItWas
    LossIsBounded
    BillIsWhole
    PageShowsTheWork
