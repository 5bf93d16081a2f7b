\* A stage whose tool budgets may not match.
SPECIFICATION SessionSpec
CONSTANTS
    MaxSessions = 2
    StageNames <- MCStageNames
    Widths = {1}
    WithTools = {1}
    PlanOrder <- MCPlanOrder
    Listed = {"trader"}
\* The bounded supply of session ids runs out.
CHECK_DEADLOCK FALSE
INVARIANTS
    EveryEndIsWritten
