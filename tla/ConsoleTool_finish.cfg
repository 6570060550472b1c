SPECIFICATION Spec
CONSTANTS
    NumMasters = 2
    Axles = {x, y}
    MasterOf <- MCTwoMasters
    Targets = {0, 1}
    Orders <- MCOrders
    MasterFreq = 1
    AxleFreq = 1
    Junk = Junk
    NoOrder = NoOrder
    Users <- MCCareful
INVARIANTS AxlesLinked
CHECK_DEADLOCK FALSE
