SPECIFICATION FairSpec
CONSTANTS
    Waypoints = {"a", "b"}
    Plans <- MCOnePlan
    Points = 2
    Scales = {1}
    Clients <- MCClients
INVARIANTS TypeOK CountMatchesTable ReadsInsideTable
PROPERTIES PathContinuous StopsAtPlanEnd PreStopEnds
