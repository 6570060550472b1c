SPECIFICATION FairSpec
CONSTANTS
    c1 = c1
    c2 = c2
    NoClient = NoClient
    Clients <- MCClients
    Script <- MCScript
    Size = 3
    Habits <- MCFollows
PROPERTIES FollowerAnswered
