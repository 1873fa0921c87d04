\* The server dies between the node's answer and the operation log.
SPECIFICATION FairSpec
CONSTANTS
    Creator = alice
    Joiners = {bob}
    Keeper = keeper
    None = None
    MaxPreparations = 1
    Slots = {s1}
    Clients = {"creation"}
    Start = "prepared"
    LongOutages = FALSE
    MaxResubmits = 0
    MaxCrashes = 1
    MaxLost = 0
    MaxDrops = 0
PROPERTIES
    CreationNeverStranded
\* The game ends.
CHECK_DEADLOCK FALSE
