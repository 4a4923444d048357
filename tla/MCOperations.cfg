SPECIFICATION OperationsSpec
CONSTANTS
    MaxId = 4
    MaxMade = 2
    MaxShapes = 3
    MaxSteps = 2
    MaxTold = 3
INVARIANTS AnswersWithItsOwn FollowedByAnswersAsThen ThenAssociates ImagesKeepTheirOriginals
PROPERTY RootsSurvive
CHECK_DEADLOCK FALSE
