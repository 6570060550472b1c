SPECIFICATION FairSpec
CONSTANTS
    c1 = c1
    c2 = c2
    NoClient = NoClient
    Clients <- MCClients
    Script <- MCTwoLines
    Size = 3
    Habits <- MCHabits
INVARIANTS TypeOK CommandsAreLines PolledIsOpen CyclicUsesLive
PROPERTIES ClientAnswered StopsCleanly
