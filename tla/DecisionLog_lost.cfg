\* Two drivers share the log: is it append-only?
SPECIFICATION LogSpec
CONSTANTS
    Drivers = {d1, d2}
    A = a
    B = b
    Keys <- MCKeys
    MaxDay = 2
    Holding = 1
    NSame = 1
    NCross = 1
    MaxEntries = 2
    Torn = torn
    Nothing = nothing
PROPERTIES
    AppendOnly
