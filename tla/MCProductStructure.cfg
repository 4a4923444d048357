SPECIFICATION Spec
CONSTANTS
    Points = {1, 2, 3}
    MaxPower = 3
    Nodes = {n}
    Placed <- MCPlaced
    FilePowers <- MCFilePowers
    DEFAULT_UNDO_LIMIT = 2
    Limits = {0, 2}
    MaxProducts = 3
    MaxInstances = 3
    MaxDatums = 2
    MaxPlaced = 2
    MaxMarked = 2
    MaxKept = 2
CONSTRAINT TurnFirst
INVARIANTS EveryStateStandsAlone OccurrencesArePaths PlacementAboveIsTold
PROPERTY ImplementsTimeline
CHECK_DEADLOCK FALSE
