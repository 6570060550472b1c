SPECIFICATION FairSpec
CONSTANTS
    Positions = {0, 1}
    Velocities = {0, 1}
    NoSetPoint = NoSetPoint
    SetupEnd = 2
    HoldEnd = 6
    MaxLoss = 1
    MaxFaults = 1
    ResetOnEdge = FALSE
INVARIANTS TypeOK EnabledInMode SetPointsWereMeant
PROPERTIES TargetServed SetPointStable OneMoveAtATime
