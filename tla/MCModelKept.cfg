SPECIFICATION Spec
CONSTANTS
    Readers = {r1, r2}
    SHAPES = 2
    MaxSlots = 7
    MaxChanges = 1
    MaxMade = 4
    MaxShapes = 3
CONSTRAINT Small
ACTION_CONSTRAINT ChangedBetween
SYMMETRY Symmetry
INVARIANTS KeptBoxesAreFresh KeptReadsAreFresh
PROPERTIES UnsharedIsAlone OnlyEditsChangeShapes
CHECK_DEADLOCK FALSE
