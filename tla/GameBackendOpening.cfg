\* Two concurrent requests open a game, join it, refund it or read it, with two
\* wallets that want the seat; nothing fails.  Payouts may be spent at once.
SPECIFICATION FairSpec
CONSTANTS
    Creator = alice
    Joiners = {bob, carol}
    Guest = bob
    Keeper = keeper
    None = None
    MaxPreparations = 1
    Slots = {s1, s2}
    Clients = {"creation", "join", "creator_refund", "read", "spend"}
    Start = "prepared"
    LongOutages = FALSE
    MaxResubmits = 0
    MaxCrashes = 0
    MaxLost = 0
    MaxDrops = 0
PROPERTIES
    JoinNeverForgotten
    GameIsConcluded
    BlocksFollowTheScript
ACTION_CONSTRAINT
    RequestsStay
\* The game ends.
CHECK_DEADLOCK FALSE
