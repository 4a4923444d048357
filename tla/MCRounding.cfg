SPECIFICATION RoundingSpec
CONSTANTS
    Nodes = {1}
    MaxTol = 3
    MaxWritten = 1
    MaxLog = 3
INVARIANT ExactStartsAsGiven
PROPERTIES CutPutsBack RequestAnswered
