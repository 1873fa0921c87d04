\* One restart between any two steps, after an outage of any length, one node
\* answer lost and one transaction dropped by the mempool.
SPECIFICATION FairSpec
CONSTANTS
    Creator = alice
    Joiners = {bob}
    Keeper = keeper
    None = None
    MaxPreparations = 1
    Slots = {s1}
    Clients = {"creation", "join", "creator_refund"}
    Start = "prepared"
    LongOutages = TRUE
    MaxResubmits = 0
    MaxCrashes = 1
    MaxLost = 1
    MaxDrops = 1
INVARIANTS
    TypeOK
    ConfirmedIsMined
PROPERTIES
    BroadcastIsRecorded
\* The game ends.
CHECK_DEADLOCK FALSE
