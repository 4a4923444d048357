SPECIFICATION Spec
CONSTANTS
    outer = outer
    other = other
    nested = nested
    t1 = t1
    t2 = t2
    w1 = w1
    NoStage = NoStage
    NoWatch = NoWatch
    Stages <- MCStages
    Threads <- MCThreads
    Caller <- MCCaller
    Within <- MCWithin
    Watch <- MCWatch
    Faulty <- MCFaulty
    N = 2
    Workers = 2
    Steals = TRUE
INVARIANTS EachItemOnce OutputInItemOrder PanicReachesCaller ThreadLocalsRestored CopiesAnswerTheirWatch
PROPERTY EveryCallEnds
CHECK_DEADLOCK FALSE
