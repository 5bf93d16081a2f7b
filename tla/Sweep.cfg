\* Two tickers, one date of three, two repeats of each cell, three arms started, one stage each.
SPECIFICATION SweepSpec
CONSTANTS
    Tickers <- MCTickers
    Calendar <- MCCalendar
    From = 1
    To = 2
    Every = 2
    Repeats = 2
    Keep = TRUE
    MaxRuns = 3
    MaxStages = 1
\* The arms that may be started run out.
CHECK_DEADLOCK FALSE
INVARIANTS
    SweepBill
    CellsTell
