SPECIFICATION SmallSpec
CONSTANTS
    Points = {p}
    Geometry = {a, b}
    MaxSlots = 4
    MaxCurves = 2
    MaxIssued = 4
    MaxNamed = 1
    MaxCompounds = 1
    MaxShallow = 2
    MaxDeep = 2
    Damages = {"none", "root", "child"}
SYMMETRY Symmetry
INVARIANT RootsReadBack
INVARIANT LineageComplete
INVARIANT DerivedFromEarlier
PROPERTY HandlesKeepTheirMeaning
PROPERTY RetainKeepsRoots
PROPERTY TakenInAsWritten
CHECK_DEADLOCK FALSE
