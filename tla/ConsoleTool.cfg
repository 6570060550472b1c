SPECIFICATION Spec
CONSTANTS
    NumMasters = 1
    Axles = {x}
    MasterOf <- MCOneMaster
    Targets = {0, 1}
    Orders <- MCBothWays
    MasterFreq = 1
    AxleFreq = 3
    Junk = Junk
    NoOrder = NoOrder
    Users <- MCUsers
INVARIANTS TypeOK UsesLiveDomains MirrorAgrees
PROPERTIES SentTargetsWereOrdered DrivesStayEnabled
CHECK_DEADLOCK FALSE
