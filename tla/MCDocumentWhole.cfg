SPECIFICATION SmallSpec
CONSTANTS
    Points = {p}
    Geometry = {a, b}
    MaxSlots = 4
    MaxCurves = 0
    MaxIssued = 1
    MaxNamed = 1
    MaxCompounds = 2
    MaxShallow = 1
    MaxDeep = 4
    Damages = {"child"}
SYMMETRY Symmetry
INVARIANT WholeReadsBack
CHECK_DEADLOCK FALSE
