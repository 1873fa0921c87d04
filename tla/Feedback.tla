------------------------------ MODULE Feedback ------------------------------
(***************************************************************************)
(* The feedback of the players on its way to a Telegram chat, in           *)
(* src/feedback.js: the spill file, the list of it in memory, the answer   *)
(* of FeedbackService.submit and the drain of src/server-schedulers.js.    *)
(*                                                                         *)
(* The spill runs its mutations one at a time.  An add or a remove is one  *)
(* step, since nothing looks at the list while the file is written; a      *)
(* drain keeps the queue while it waits for Telegram, entry after entry.   *)
(***************************************************************************)
EXTENDS Naturals, FiniteSets

CONSTANTS
    Entries,        \* the messages sent by players
    MaxMishaps      \* restarts, failed writes and lost answers

ASSUME FeedbackAssumption == MaxMishaps \in Nat

VARIABLES
    spill,          \* FeedbackSpill.entries, as loaded from the file
    file,           \* what the file holds
    request,        \* where the request of each entry is
    copies,         \* how often each entry arrived in the chat
    draining,       \* a drain has the write queue
    left,           \* the entries it has still to try
    remaining,      \* those it could not deliver
    configured,     \* TelegramFeedback.enabled, given at start
    mishaps

feedbackVars == <<spill, file, request, copies, draining, left, remaining, configured, mishaps>>

Mishap == mishaps < MaxMishaps /\ mishaps' = mishaps + 1

\* deliver: the chat has the entry, or not; the answer may be lost.
Arrives(e) == copies' = [copies EXCEPT ![e] = @ + 1]
Delivered(e) == Arrives(e) /\ UNCHANGED mishaps
Failed(e) == \/ UNCHANGED <<copies, mishaps>>
             \/ Arrives(e) /\ Mishap

\* persist: the new list replaces the file, or the write fails.
Written(list) == file' = list /\ UNCHANGED mishaps
NotWritten == Mishap /\ UNCHANGED file

-----------------------------------------------------------------------------
\* FeedbackSpill.add in submit.  An entry that could not be written stays in
\* the list, though its player is told of an error.
Add(e) ==
    /\ request[e] = "new"
    /\ ~draining
    /\ spill' = spill \cup {e}
    /\ \/ Written(spill') /\ request' = [request EXCEPT ![e] = "saved"]
       \/ NotWritten /\ request' = [request EXCEPT ![e] = "refused"]
    /\ UNCHANGED <<copies, draining, left, remaining, configured>>

\* submit: deliver it at once, if the bot is configured.  It is accepted
\* whatever comes of it.
Deliver(e) ==
    /\ request[e] = "saved"
    /\ \/ configured /\ Delivered(e) /\ request' = [request EXCEPT ![e] = "delivered"]
       \/ configured /\ Failed(e) /\ request' = [request EXCEPT ![e] = "accepted"]
       \/ ~configured /\ request' = [request EXCEPT ![e] = "accepted"] /\ UNCHANGED <<copies, mishaps>>
    /\ UNCHANGED <<spill, file, draining, left, remaining, configured>>

\* FeedbackSpill.remove; nothing is written when a drain was faster.
Remove(e) ==
    /\ request[e] = "delivered"
    /\ ~draining
    /\ spill' = spill \ {e}
    /\ IF e \in spill THEN Written(spill') \/ NotWritten ELSE UNCHANGED <<file, mishaps>>
    /\ request' = [request EXCEPT ![e] = "accepted"]
    /\ UNCHANGED <<copies, draining, left, remaining, configured>>

-----------------------------------------------------------------------------
\* drainPending, at start and every two minutes
DrainStarts ==
    /\ configured
    /\ ~draining
    /\ spill # {}
    /\ draining' = TRUE
    /\ left' = spill
    /\ remaining' = {}
    /\ UNCHANGED <<spill, file, request, copies, configured, mishaps>>

\* The handler of one entry.
DrainTries(e) ==
    /\ e \in left
    /\ left' = left \ {e}
    /\ \/ Delivered(e) /\ UNCHANGED remaining
       \/ Failed(e) /\ remaining' = remaining \cup {e}
    /\ UNCHANGED <<spill, file, request, draining, configured>>

\* The list the drain leaves.  The mutant drops what it tried.
NothingRemains == {}
Remains == remaining

DrainEnds ==
    /\ draining
    /\ left = {}
    /\ draining' = FALSE
    /\ spill' = Remains
    /\ IF remaining # spill THEN Written(spill') \/ NotWritten ELSE UNCHANGED <<file, mishaps>>
    /\ UNCHANGED <<request, copies, left, remaining, configured>>

\* The server stops at any point and starts again, with or without a bot: the
\* requests in progress are never answered.
Restart ==
    /\ Mishap
    /\ spill' = file
    /\ request' = [e \in Entries |-> IF request[e] \in {"saved", "delivered"} THEN "unanswered" ELSE request[e]]
    /\ draining' = FALSE
    /\ left' = {}
    /\ remaining' = {}
    /\ configured' \in BOOLEAN
    /\ UNCHANGED <<file, copies>>

FeedbackInit ==
    /\ spill = {} /\ file = {}
    /\ request = [e \in Entries |-> "new"]
    /\ copies = [e \in Entries |-> 0]
    /\ draining = FALSE /\ left = {} /\ remaining = {}
    /\ configured \in BOOLEAN
    /\ mishaps = 0

FeedbackNext ==
    \/ \E e \in Entries : Add(e) \/ Deliver(e) \/ Remove(e) \/ DrainTries(e)
    \/ DrainStarts
    \/ DrainEnds
    \/ Restart

FeedbackSpec == FeedbackInit /\ [][FeedbackNext]_feedbackVars

-----------------------------------------------------------------------------
\* "A Telegram outage, a missing bot, or a crash mid-flight never loses it":
\* what a player was thanked for is in the file or in the chat.  The price is
\* that it may be there twice, as submit and a drain can both deliver it, and
\* once more for every restart, failed write or lost answer - never more.
FeedbackIsKept ==
    \A e \in Entries :
        /\ request[e] = "accepted" => e \in file \/ copies[e] > 0
        /\ copies[e] <= 2 + mishaps
=============================================================================
