SPECIFICATION Spec
CONSTANTS
    Waypoints = {"a", "b"}
    Plans <- MCPlans
    Points = 2
    Scales = {1}
    Clients <- MCStopsOnePass
PROPERTIES StopNeverRestarts
