\* The players of a joined game reveal, or do not.
SPECIFICATION FairSpec
CONSTANTS
    Creator = alice
    Joiners = {bob}
    Keeper = keeper
    None = None
    MaxPreparations = 1
    Slots = {s1}
    Clients = {"first", "settlement"}
    Start = "joined"
    LongOutages = FALSE
    MaxResubmits = 0
    MaxCrashes = 0
    MaxLost = 0
    MaxDrops = 0
INVARIANTS
    CompletedOnceSpent
PROPERTIES
    EscrowReleased
\* The game ends.
CHECK_DEADLOCK FALSE
