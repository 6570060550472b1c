SPECIFICATION FairSpec
CONSTANTS
    NumMasters = 1
    Axles = {x}
    MasterOf <- MCOneMaster
    Targets = {0, 1}
    Orders <- MCOrders
    MasterFreq = 1
    AxleFreq = 1
    Junk = Junk
    NoOrder = NoOrder
    Users <- MCCareful
PROPERTIES SetReachesOutputs AutoStartEnables
CHECK_DEADLOCK FALSE
