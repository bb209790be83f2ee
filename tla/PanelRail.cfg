\* Three projects, a drag, and a creation, deletion or reorder from the
\* command line or a crash.
SPECIFICATION Spec
CONSTANTS
    Slugs = {1, 2, 3}
    MaxDrags = 1
    MaxUpsets = 1
    MaxListed = 2
    MaxUpdates = 1
    MaxPosition = 7
INVARIANTS
    DivergeOnlyInDrag
    RestartKeepsOrder
PROPERTIES
    ReorderAsPromised
    Collapses
    SettlesOnActorsOrder
