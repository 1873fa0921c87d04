\* One wallet and the bot, for what the code says of the bot without exception.
SPECIFICATION Spec
CONSTANTS
    Wallets = {alice}
    Bot = bot
    Caller = alice
    Codes = {}
    None = None
    MaxMatches = 2
    MaxGames = 3
INVARIANTS
    BotInOneGame
\* Nobody has to play.
CHECK_DEADLOCK FALSE
