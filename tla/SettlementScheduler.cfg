\* A store that may hold games at the start, and may become empty; a restart and
\* a failed write or lost answer.
SPECIFICATION MCSpec
CONSTANTS
    Games = {g1, g2, g3}
    MaxFailures = 2
    Entries = {e1, e2}
    MaxMishaps = 2
INVARIANTS
    OneChain
    KeeperStaysScheduled
    FeedbackIsKept
PROPERTIES
    DueIsScanned
\* All feedback may be delivered.
CHECK_DEADLOCK FALSE
