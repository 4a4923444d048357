SPECIFICATION StoredSpec
CONSTANTS
    Faces = {1, 2, 3}
    Edges = {1, 2}
    EdgesOf <- MCEdgesOf
    NodeOf <- MCNodeOf
    Contents = {"a", "moved", "b", "c"}
    SurfaceOf <- MCSurfaceOf
    Builds <- MCBuilds
    Model <- MCModel
    coarse = coarse
    fine = fine
    Deflections = {coarse, fine}
    Finest = 2
    Rounds = 1
    Threads = 2
    MaxTrouble = 2
    MaxCalls = 2
SYMMETRY DeflectionSymmetry
CONSTRAINT Bounds
INVARIANTS MeshesMeetAlongEdges MeshesAreTheirFaces SettledChordsAreDrawn WholeTessellationHasNoGaps PathsWalkTheirMesh
CHECK_DEADLOCK FALSE
