\* Two wallets and the bot; two matches, two games, restarts at any time; a third
\* game for a wallet that plays alone with the bot.
SPECIFICATION FairSpec
CONSTANTS
    Wallets = {alice, bob}
    Bot = bot
    Caller = alice
    Codes = {code}
    None = None
    MaxMatches = 2
    MaxGames = 3
INVARIANTS
    TypeOK
    QueueIsWaiting
    OneOpenSession
    CodeNamesOneRoom
    BotKeepsItsSecret
    BotInOneGameUnlessLate
PROPERTIES
    SeatIsTakenOnce
    LeaseIsReleased
ACTION_CONSTRAINT
    GamesStay
\* Nobody has to play.
CHECK_DEADLOCK FALSE
