SPECIFICATION SmallSpec
CONSTANTS
    Points = {p}
    Geometry = {a, b}
    MaxSlots = 3
    MaxCurves = 0
    MaxIssued = 2
    MaxNamed = 1
    MaxCompounds = 0
    MaxShallow = 2
    MaxDeep = 3
    Damages = {"none"}
SYMMETRY Symmetry
PROPERTY LeftOutStayIssued
CHECK_DEADLOCK FALSE
