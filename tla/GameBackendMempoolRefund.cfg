\* A timeout of the keeper sits in the mempool.
SPECIFICATION Spec
CONSTANTS
    Creator = alice
    Joiners = {bob}
    Keeper = keeper
    None = None
    MaxPreparations = 1
    Slots = {s1}
    Clients = {"creation"}
    Start = "created"
    LongOutages = FALSE
    MaxResubmits = 0
    MaxCrashes = 0
    MaxLost = 0
    MaxDrops = 0
INVARIANTS
    CompletedIsOver
\* The game ends.
CHECK_DEADLOCK FALSE
