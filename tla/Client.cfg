\* A player by each way in; two attempts to start at the same time, two status
\* requests of the lobby in flight, and one reload or lost answer to a submission.
SPECIFICATION FairSpec
CONSTANTS
    Modes = {"public", "host", "guest"}
    Choices = {0, 1}
    None = None
    MaxAttempts = 2
    MaxPolls = 1
    MaxFaults = 1
    Handlers = {h1, h2}
    MaxRequests = 2
INVARIANTS
    TypeOK
    SecretBehindStake
    JoinerCanReveal
    OneRevealAtATime
PROPERTIES
    NeverPaintsOlder
    OpponentIsShown
    PageCatchesUp
\* The game ends.
CHECK_DEADLOCK FALSE
