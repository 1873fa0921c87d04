SPECIFICATION FairSpec
CONSTANTS
    Players = {alice, bob, carol}
    Creator = alice
    Wallet = wallet
    NoPlayer = nobody
    Stake = 5000
    CreatorEven = 0
    Deadline = 2
    SettleFee = 2
    MinStake = 100
    FeeFloor = 10000
    Wait = 2
INVARIANTS TypeOK Conservation NobodyForfeitsSilently
PROPERTIES OffersAreTheCovenants ImplementsWager EscrowReleased
\* A spent covenant takes no further step.
CHECK_DEADLOCK FALSE
