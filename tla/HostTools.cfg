\* Two calls at once, whose workers may never end; trips may take as long as the margin.
SPECIFICATION HostFairSpec
CONSTANTS
    Calls = {c1, c2}
    Budget = 4
    Margin = 2
    TripMax = 2
\* The calls are made once each.
CHECK_DEADLOCK FALSE
INVARIANTS
    HostTypeOK
    NoTransportError
    GivenIsRecorded
PROPERTIES
    EveryCallIsAnswered
