------------------------ MODULE SettlementScheduler ------------------------
(***************************************************************************)
(* When the settlement keeper runs: runSettlement and wakeSettlement of    *)
(* src/server-schedulers.js, with automaticSettlementDelayMs, which        *)
(* decides whether and when it runs again.  What a scan does to one game   *)
(* is GameBackend's subject; here a scan only looks at the games it listed.*)
(***************************************************************************)
EXTENDS Naturals, FiniteSets

CONSTANTS
    Games,
    MaxFailures     \* store or chain reads of a scan that fail

VARIABLES
    games,          \* recorded games
    unrecorded,     \* broadcast creations whose record could not be written
    due,            \* games whose timeout has come
    scanned,        \* games a scan looked at once they were due
    waking,         \* submissions between saving the record and the wake
    pc,             \* where runSettlement is
    seen,           \* what its last listGames returned
    timer,          \* settlementTimer is armed
    failures,
    overlooked      \* history: games that came too late for the last list and
                    \* woke nobody since

vars == <<games, unrecorded, due, scanned, waking, pc, seen, timer, failures, overlooked>>

running == pc # "idle"

\* start, on whatever the store holds, nothing included.
Init ==
    /\ games \in SUBSET Games
    /\ unrecorded = {} /\ due = {} /\ scanned = {} /\ waking = {}
    /\ pc = "list" /\ seen = {} /\ timer = FALSE
    /\ failures = 0
    /\ overlooked = {}

\* submitCreation writes the record of g, or fails to.
Record(g) ==
    /\ g \notin games \cup unrecorded \cup scanned
    /\ \/ games' = games \cup {g} /\ waking' = waking \cup {g} /\ UNCHANGED unrecorded
       \/ unrecorded' = unrecorded \cup {g} /\ UNCHANGED <<games, waking>>
    /\ UNCHANGED <<due, scanned, pc, seen, timer, failures, overlooked>>

\* The reconciler writes it later, and wakes nobody.
Reconcile(g) ==
    /\ g \in unrecorded
    /\ unrecorded' = unrecorded \ {g}
    /\ games' = games \cup {g}
    /\ overlooked' = overlooked \cup {g}
    /\ UNCHANGED <<due, scanned, waking, pc, seen, timer, failures>>

\* A wake does not interrupt a scan.  It is lost on one that has already read an
\* empty store: that scan is going to arm no timer.
Missed(g) == IF pc = "arm" /\ seen = {} THEN overlooked \cup {g} ELSE overlooked

\* Mutant of Wake: the armed timer is left alone.
WakeKeepingTimer(g) ==
    /\ g \in waking
    /\ waking' = waking \ {g}
    /\ pc' = IF running THEN pc ELSE "list"
    /\ overlooked' = Missed(g)
    /\ UNCHANGED <<games, unrecorded, due, scanned, seen, timer, failures>>

\* wakeSettlement, once the submission is answered.
Wake(g) ==
    /\ g \in waking
    /\ waking' = waking \ {g}
    /\ timer' = FALSE
    /\ pc' = IF running THEN pc ELSE "list"
    /\ overlooked' = Missed(g)
    /\ UNCHANGED <<games, unrecorded, due, scanned, seen, failures>>

TimerFires ==
    /\ timer
    /\ timer' = FALSE
    /\ pc' = IF running THEN pc ELSE "list"
    /\ UNCHANGED <<games, unrecorded, due, scanned, waking, seen, failures, overlooked>>

\* settleAutomaticGames lists the games, then goes through them.
List ==
    /\ pc = "list"
    /\ seen' = games
    /\ overlooked' = {}
    /\ pc' = "settle"
    /\ UNCHANGED <<games, unrecorded, due, scanned, waking, timer, failures>>

Settle ==
    /\ pc = "settle"
    /\ scanned' = scanned \cup (seen \cap due)
    /\ pc' = "delay"
    /\ UNCHANGED <<games, unrecorded, due, waking, seen, timer, failures, overlooked>>

\* automaticSettlementDelayMs lists them again, and has no delay when there
\* are none; what it reads of the others comes after.
ListForDelay ==
    /\ pc = "delay"
    /\ seen' = games
    /\ overlooked' = {}
    /\ pc' = "arm"
    /\ UNCHANGED <<games, unrecorded, due, scanned, waking, timer, failures>>

Arm ==
    /\ pc = "arm"
    /\ timer' = (seen # {})
    /\ pc' = "idle"
    /\ UNCHANGED <<games, unrecorded, due, scanned, waking, seen, failures, overlooked>>

\* Mutant of Fail: the error is only logged.
FailWithoutTimer ==
    /\ running
    /\ failures < MaxFailures
    /\ failures' = failures + 1
    /\ pc' = "idle"
    /\ UNCHANGED <<games, unrecorded, due, scanned, waking, seen, timer, overlooked>>

\* A read fails: try again in 30 seconds.
Fail ==
    /\ running
    /\ failures < MaxFailures
    /\ failures' = failures + 1
    /\ timer' = TRUE
    /\ pc' = "idle"
    /\ UNCHANGED <<games, unrecorded, due, scanned, waking, seen, overlooked>>

TimeoutComes(g) ==
    /\ g \in games \ due
    /\ due' = due \cup {g}
    /\ UNCHANGED <<games, unrecorded, scanned, waking, pc, seen, timer, failures, overlooked>>

\* pruneCompletedGames forgets a game that is over.
Prune(g) ==
    /\ g \in games \cap scanned
    /\ games' = games \ {g}
    /\ UNCHANGED <<unrecorded, due, scanned, waking, pc, seen, timer, failures, overlooked>>

Scan == List \/ Settle \/ ListForDelay \/ Arm \/ Fail

Next ==
    \/ \E g \in Games :
          Record(g) \/ Reconcile(g) \/ Wake(g) \/ TimeoutComes(g) \/ Prune(g)
    \/ TimerFires
    \/ Scan

Spec == Init /\ [][Next]_vars

\* Timers fire, reads return or fail, requests are answered, and the
\* reconciler runs every minute.
Fairness ==
    /\ WF_vars(TimerFires)
    /\ WF_vars(Scan)
    /\ \A g \in Games : WF_vars(Wake(g)) /\ WF_vars(Reconcile(g))

FairSpec == Spec /\ Fairness

-----------------------------------------------------------------------------
\* The loop never forks: a pending timer and a scan in progress exclude each
\* other, whenever a wake, an error and an expiry meet; otherwise each wake
\* would leave one more chain of timers behind (server-schedulers.js:8-26).
OneChain == ~(running /\ timer)

\* While the store holds a game that no request is about to wake the keeper
\* for, the keeper is at work or will be - but for games that were written by
\* the reconciler, or woke a scan that had already found the store empty
\* (server-schedulers.js:14-17, 26): a keeper that comes to rest then stays at rest
\* until the next submission.
KeeperStaysScheduled ==
    games \ (waking \cup overlooked) # {} => running \/ timer

\* "Once a timeout is due, keep checking" (backend-game-service.js:558-560):
\* every recorded game whose timeout has come is looked at, unless the keeper
\* came to rest without knowing of it.
DueIsScanned ==
    \A g \in Games :
        (g \in games /\ g \in due)
            ~> (g \in scanned \/ (g \in overlooked /\ ~running /\ ~timer))
=============================================================================
