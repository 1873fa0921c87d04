\* A creation is submitted again after the join.
SPECIFICATION Spec
CONSTANTS
    Creator = alice
    Joiners = {bob}
    Keeper = keeper
    None = None
    MaxPreparations = 1
    Slots = {s1}
    Clients = {"creation", "join"}
    Start = "prepared"
    LongOutages = FALSE
    MaxResubmits = 1
    MaxCrashes = 0
    MaxLost = 0
    MaxDrops = 0
PROPERTIES
    JoinNeverForgotten
\* The game ends.
CHECK_DEADLOCK FALSE
