\* Three changes, one failed write, one crash, loss of power or graceful stop.
SPECIFICATION Spec
CONSTANTS
    Files = {"runtime", "a", "b"}
    Contents = {0, 1, 2, 3}
    Missing = Missing
    Torn = Torn
    None = None
    Debounce = 1
    MaxInterval = 2
    BusCapacity = 2
    MaxVersion = 3
    MaxTime = 3
    MaxNoise = 1
    MaxBurst = 1
    MaxFailures = 1
    MaxEnds = 1
INVARIANTS
    SavedWithin
    SavesInOrder
    NeverInTwoFiles
PROPERTIES
    AtomicFiles
\* The bounds run out.
CHECK_DEADLOCK FALSE
