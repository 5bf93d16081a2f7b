\* Two drivers share the log, over two days and two tickers.
SPECIFICATION LogSpec
CONSTANTS
    Drivers = {d1, d2}
    A = a
    B = b
    Keys <- MCKeys
    MaxDay = 2
    Holding = 1
    NSame = 1
    NCross = 1
    MaxEntries = 2
    Torn = torn
    Nothing = nothing
SYMMETRY MCSymmetry
\* A torn log ends every later run at its start: the drivers may all stop.
CHECK_DEADLOCK FALSE
INVARIANTS
    LogTypeOK
    OneEntryPerKey
    NoLookAhead
PROPERTIES
    EntriesStay
