CONSTANTS
    MaxSteps = 3
    MaxCalls = 2
SPECIFICATION FairSpec
INVARIANTS
    LoopInvariant
    AnsweredBeforeAsked
    EvidenceComplete
    EndIsTold
PROPERTIES
    RunEnds
CHECK_DEADLOCK FALSE
