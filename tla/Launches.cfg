\* Three launches, two at a time, with one analyst or two; a run is one unit. Processes are interchangeable.
SPECIFICATION LaunchSpec
CONSTANTS
    Processes = {p1, p2}
    Selections = {"one", "two"}
    Sections <- MCSections
    Units = 1
    MaxLaunches = 3
    Nothing = nothing
    Torn = torn
SYMMETRY Symmetry
\* The launches are counted.
CHECK_DEADLOCK FALSE
INVARIANTS
    NoForeignWork
    KeysApart
PROPERTIES
    ExitTells
