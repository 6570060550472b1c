CONSTANTS
    Parts = 10
    Saturates = TRUE
    Mode <- MCMode
    Files <- MCFiles
    Homes = {0}
    Velocities = {1}
    Untold = Untold
    MaxLoads = 2
    MaxFaults = 1
SPECIFICATION Spec
INVARIANTS TypeOK StaysTogether VelocityKept
PROPERTIES MovesAsPlanned StopsNearItsEnd
