SPECIFICATION Spec
CONSTANTS
    MIN = 1
    MaxTol = 3
    MaxOf <- FacesOverEdges
    MaxLog = 3
    MaxAttempts = 3
CONSTRAINT WithinBounds
INVARIANTS Contained OpenWhileAttempting
PROPERTY ImplementsTentative
CHECK_DEADLOCK FALSE
