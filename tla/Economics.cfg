SPECIFICATION MCSpec
CONSTANTS
    SompiPerKas = 100
    AutomationFee = 2
    MaxStake = 5200
    Change = {0, 1}
    Purses <- MCPurses
    Locks <- MCLocks
    Feerates = {0, 2}
    RelayFloor = 1
    CreationBound = 4200
    JoinBound = 10000
    MaxStorage = 50000
    BaseMass = 2500
    InputMass = 500
    SignatureMass = 66
    StorageC = 100000000
INVARIANTS
    TypeOK
    AlwaysBuilds
    BuiltIsAccepted
    ReserveIsExact
    PreparedIsAccepted
    SubmittedIsApproved
    RefusedOnlyNearTheEdge
\* A spent covenant and a submitted transaction take no further step.
CHECK_DEADLOCK FALSE
