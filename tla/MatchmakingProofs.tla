------------------------- MODULE MatchmakingProofs -------------------------
(***************************************************************************)
(* What the store keeps of matches, seats, codes and the bot's secrets     *)
(* stays consistent, for every number of wallets, matches and games.       *)
(***************************************************************************)
EXTENDS Matchmaking, Integers, SequenceTheorems, TLAPS

People == Wallets \cup {Bot}

\* Ids grow, and a match that exists has had its id drawn.
Allocated == \A m \in MatchIds : matches[m] # None => m <= opened

\* A match that is no longer open to a second player, and will not be again.
Decided(m) == m <= opened /\ (matches[m] # None => matches[m].status # "waiting")

\* The seats of a live match: one or two, the first a wallet's, and the bot
\* never the one who publishes.
Seats(r) ==
    /\ r.status = "waiting" => Len(r.players) = 1
    /\ r.status = "matched" =>
          /\ Len(r.players) = 2
          /\ r.creator \in 1..2
          /\ r.players[r.creator] \in Wallets
    /\ r.status \in {"waiting", "matched"} => r.players[1] \in Wallets

SeatsOK == \A m \in MatchIds : matches[m] # None => Seats(matches[m])

\* The game of a started match is in the store.
Stored(g) == g \in GameIds /\ games[g] # None
StartedOK ==
    \A m \in MatchIds :
        matches[m] # None /\ matches[m].status = "started" => Stored(matches[m].game)

\* A match with the bot has its second player.
BotOK == \A m \in MatchIds : matches[m] # None /\ matches[m].bot => matches[m].status # "waiting"

\* What the handlers in progress rely on.
HandlersOK ==
    /\ \A g \in publishing : Stored(g) /\ Decided(games[g].match)
    /\ \A g \in joining : Stored(g) /\ (g \in secrets \/ games[g].completed)
    /\ \A m \in DOMAIN scan :
          Decided(m) /\ (scan[m].status = "started" => Stored(scan[m].game))

IInv ==
    /\ TypeOK /\ Allocated /\ SeatsOK /\ StartedOK /\ BotOK /\ HandlersOK
    /\ QueueIsWaiting /\ OneOpenSession /\ CodeNamesOneRoom /\ BotKeepsItsSecret

-----------------------------------------------------------------------------
\* A second player takes the seat of a waiting match.
TwoSeated(s, r, w, c) ==
    /\ s \in Match
    /\ s.status = "matched" /\ s.creator = c
    /\ Len(s.players) = 2 /\ s.players[1] = r.players[1] /\ s.players[2] = w
    /\ s.code = r.code

LEMMA AppendIs ==
    ASSUME NEW S, NEW s \in Seq(S), NEW w \in S
    PROVE  /\ Append(s, w) \in Seq(S) /\ Len(Append(s, w)) = Len(s) + 1
           /\ \A i \in 1..Len(s) : Append(s, w)[i] = s[i]
           /\ Append(s, w)[Len(s) + 1] = w
BY AppendProperties

LEMMA Appended ==
    ASSUME NEW S, NEW s \in Seq(S), NEW w \in S, Len(s) = 1
    PROVE  /\ Append(s, w) \in Seq(S) /\ Len(Append(s, w)) = 2
           /\ Append(s, w)[1] = s[1] /\ Append(s, w)[2] = w
<1> DEFINE p == Append(s, w)
<1>1. /\ p \in Seq(S) /\ Len(p) = Len(s) + 1
      /\ \A i \in 1..Len(s) : p[i] = s[i]
      /\ p[Len(s) + 1] = w
  BY AppendIs, Zenon
<1> HIDE DEF p
<1>2. p \in Seq(S) /\ Len(p) = 2 /\ p[1] = s[1] /\ p[2] = w
  BY <1>1
<1> QED
  BY <1>2 DEF p

LEMMA SeatTaken ==
    ASSUME NEW r \in Match, Len(r.players) = 1, NEW w \in People, NEW c \in 1..2
    PROVE  TwoSeated(Seat(r, w, c), r, w, c)
<1> DEFINE p == Append(r.players, w)
<1>1. r.players \in Seq(People)
  BY DEF Match, People
<1>2. p \in Seq(People) /\ Len(p) = 2 /\ p[1] = r.players[1] /\ p[2] = w
  BY <1>1, Appended
<1>3. Seat(r, w, c) = [r EXCEPT !.players = p, !.status = "matched", !.creator = c]
  BY DEF Seat
<1> HIDE DEF p
<1>4. Seat(r, w, c) = [status |-> "matched", code |-> r.code, players |-> p,
                       creator |-> c, game |-> r.game, bot |-> r.bot]
  BY <1>3 DEF Match
<1>5. Seat(r, w, c) \in Match
  BY <1>2, <1>4 DEF Match, People, Status
<1> QED
  BY <1>2, <1>4, <1>5 DEF TwoSeated

\* Who leaves takes no seat from the others and brings nobody in.
Range2(p) == {p[i] : i \in DOMAIN p}

LEMMA SeatLeft ==
    ASSUME NEW S, NEW p \in Seq(S), Len(p) \in 1..2
    PROVE  /\ Tail(p) \in Seq(S) /\ Len(Tail(p)) <= 2 /\ Range2(Tail(p)) \subseteq Range2(p)
           /\ <<p[1]>> \in Seq(S) /\ Len(<<p[1]>>) <= 2 /\ Range2(<<p[1]>>) \subseteq Range2(p)
<1>1. p # << >>
  OBVIOUS
<1>2. Tail(p) \in Seq(S) /\ Len(Tail(p)) = Len(p) - 1
      /\ \A i \in 1..Len(Tail(p)) : Tail(p)[i] = p[i + 1]
  BY <1>1, HeadTailProperties, Zenon
<1>3. DOMAIN Tail(p) = 1..Len(Tail(p)) /\ DOMAIN p = 1..Len(p)
  BY <1>2, LenProperties
<1>4. \A i \in DOMAIN Tail(p) : i + 1 \in DOMAIN p /\ Tail(p)[i] = p[i + 1]
  BY <1>2, <1>3
<1>5. 1 \in DOMAIN p /\ p[1] \in S
  BY LenProperties, ElementOfSeq
<1>6. <<p[1]>> \in Seq(S) /\ Len(<<p[1]>>) = 1 /\ DOMAIN <<p[1]>> = 1..1 /\ <<p[1]>>[1] = p[1]
  BY <1>5
<1> QED
  BY <1>2, <1>4, <1>5, <1>6 DEF Range2

LEMMA CancelledIs ==
    ASSUME TypeOK, NEW S \in SUBSET MatchIds, \A m \in S : matches[m] # None
    PROVE  /\ Cancelled(S) \in [MatchIds -> Match \cup {None}]
           /\ \A m \in MatchIds \ S : Cancelled(S)[m] = matches[m]
           /\ \A m \in S :
                 LET r == Cancelled(S)[m] IN
                 /\ r \in Match
                 /\ r.status = "cancelled"
                 /\ r.players = matches[m].players
<1>1. \A m \in S : matches[m] \in Match
  BY DEF TypeOK
<1>2. \A m \in S : [matches[m] EXCEPT !.status = "cancelled"] \in Match
  BY <1>1 DEF Match, Status
<1> QED
  BY <1>1, <1>2 DEF Cancelled, TypeOK, Match

-----------------------------------------------------------------------------
\* What a step does to a match: it opens, pairs, ends (is started or
\* cancelled) or is deleted, and nothing else.
Opens(m) ==
    /\ m = opened + 1 /\ opened' = m
    /\ \E w \in Wallets, code \in Codes \cup {None} : matches'[m] = NewMatch(w, code)

Pairs(m) ==
    /\ matches[m] # None /\ matches[m].status = "waiting"
    /\ matches'[m] \in Match
    /\ matches'[m].status = "matched" /\ Len(matches'[m].players) = 2
    /\ matches'[m].players[1] = matches[m].players[1]
    /\ matches'[m].creator \in 1..2
    /\ matches'[m].players[matches'[m].creator] \in Wallets

Ends(m) ==
    /\ matches[m] # None
    /\ matches'[m] \in Match
    /\ matches'[m].status \in {"started", "cancelled"}
    /\ Len(matches'[m].players) <= 2
    /\ Range2(matches'[m].players) \subseteq Range2(matches[m].players)
    /\ matches'[m].status = "started" =>
          \/ Stored(matches'[m].game)
          \/ matches[m].status = "started" /\ matches'[m].game = matches[m].game

MatchesStep ==
    /\ matches' \in [MatchIds -> Match \cup {None}]
    /\ opened' \in 0..MaxMatches /\ opened <= opened'
    /\ \A m \in MatchIds :
          matches'[m] = matches[m] \/ matches'[m] = None \/ Opens(m) \/ Pairs(m) \/ Ends(m)

Fresh(r, w, code) ==
    /\ r \in Match /\ r # None
    /\ r.status = "waiting" /\ r.code = code /\ r.bot = FALSE
    /\ Len(r.players) = 1 /\ r.players[1] = w

LEMMA NewMatchIs ==
    ASSUME NEW w \in Wallets, NEW code \in Codes \cup {None}
    PROVE  Fresh(NewMatch(w, code), w, code)
<1> DEFINE p == <<w>>
           r == NewMatch(w, code)
<1>1. p \in Seq(Wallets \cup {Bot}) /\ Len(p) = 1 /\ p[1] = w
  OBVIOUS
<1>2. r = [status |-> "waiting", code |-> code, players |-> p,
           creator |-> 0, game |-> None, bot |-> FALSE]
  BY DEF NewMatch
<1> HIDE DEF p, r
<1>3. r \in Match
  BY <1>1, <1>2 DEF Match, Status
<1>4. r # None
  BY <1>3, NoneAssumption
<1>5. Fresh(r, w, code)
  BY <1>1, <1>2, <1>3, <1>4 DEF Fresh
<1> QED
  BY <1>5 DEF r

\* The sessions that are swept or retired.
LEMMA EndedByCancel ==
    ASSUME TypeOK, NEW S \in SUBSET MatchIds, \A m \in S : matches[m] # None
    PROVE  \A m \in S :
              /\ Cancelled(S)[m] \in Match /\ Cancelled(S)[m].status = "cancelled"
              /\ Len(Cancelled(S)[m].players) <= 2
              /\ Range2(Cancelled(S)[m].players) \subseteq Range2(matches[m].players)
BY CancelledIs DEF TypeOK

LEMMA PairsBySeat ==
    ASSUME TypeOK, SeatsOK, NEW m \in MatchIds,
           matches[m] # None, matches[m].status = "waiting",
           NEW w \in People, NEW c \in 1..2, w = Bot => c = 1,
           \/ matches'[m] = Seat(matches[m], w, c)
           \/ matches'[m] = [Seat(matches[m], w, c) EXCEPT !.bot = TRUE]
    PROVE  Pairs(m)
<1> DEFINE s == Seat(matches[m], w, c)
<1>1. matches[m] \in Match /\ Len(matches[m].players) = 1 /\ matches[m].players[1] \in Wallets
  BY DEF TypeOK, SeatsOK, Seats
<1>2. TwoSeated(s, matches[m], w, c)
  BY <1>1, SeatTaken
<1> HIDE DEF s
<1>3. [s EXCEPT !.bot = TRUE] \in Match
  BY <1>2 DEF TwoSeated, Match
<1>4. s.players[s.creator] \in Wallets
  BY <1>1, <1>2, MatchmakingAssumption DEF TwoSeated, People
<1>5. CASE matches'[m] = s
  BY <1>2, <1>4, <1>5 DEF TwoSeated, Pairs
<1>6. CASE matches'[m] = [s EXCEPT !.bot = TRUE]
  <2>1. /\ matches'[m].status = s.status /\ matches'[m].players = s.players
        /\ matches'[m].creator = s.creator
    BY <1>2, <1>6 DEF TwoSeated, Match
  <2> QED
    BY <1>2, <1>3, <1>4, <1>6, <2>1 DEF TwoSeated, Pairs
<1> QED
  BY <1>5, <1>6 DEF s

\* A step that retires the sessions of S and opens, pairs or leaves alone one
\* match more.
LEMMA RetireAndOne ==
    ASSUME IInv, NEW S \in SUBSET MatchIds, \A m \in S : matches[m] # None,
           NEW n \in MatchIds,
           matches' = [Cancelled(S) EXCEPT ![n] = matches'[n]],
           Opens(n) \/ Pairs(n) \/ matches'[n] = Cancelled(S)[n],
           opened' = opened \/ (opened' = opened + 1 /\ opened < MaxMatches)
    PROVE  MatchesStep
<1>1. /\ Cancelled(S) \in [MatchIds -> Match \cup {None}]
      /\ \A m \in MatchIds \ S : Cancelled(S)[m] = matches[m]
      /\ \A m \in S :
            /\ Cancelled(S)[m] \in Match /\ Cancelled(S)[m].status = "cancelled"
            /\ Len(Cancelled(S)[m].players) <= 2
            /\ Range2(Cancelled(S)[m].players) \subseteq Range2(matches[m].players)
  BY CancelledIs, EndedByCancel DEF IInv
<1>2. \A m \in MatchIds \ {n} : matches'[m] = Cancelled(S)[m]
  BY <1>1
<1>3. matches'[n] \in Match \cup {None}
  <2>1. CASE Opens(n)
    <3>1. PICK w \in Wallets, code \in Codes \cup {None} : matches'[n] = NewMatch(w, code)
      BY <2>1 DEF Opens
    <3>2. Fresh(matches'[n], w, code)
      BY <3>1, NewMatchIs, Zenon
    <3> QED
      BY <3>2 DEF Fresh
  <2>2. CASE Pairs(n) \/ matches'[n] = Cancelled(S)[n]
    BY <1>1, <2>2 DEF Pairs
  <2> QED
    BY <2>1, <2>2
<1>4. matches' \in [MatchIds -> Match \cup {None}]
  BY <1>1, <1>3
<1>5. opened' \in 0..MaxMatches /\ opened <= opened'
  BY MatchmakingAssumption DEF IInv, TypeOK
<1>6. ASSUME NEW m \in MatchIds, m # n \/ matches'[n] = Cancelled(S)[n]
      PROVE  matches'[m] = matches[m] \/ Ends(m)
  BY <1>1, <1>2, <1>6 DEF Ends
<1> QED
  BY <1>2, <1>4, <1>5, <1>6 DEF MatchesStep

LEMMA SomebodySits ==
    ASSUME IInv, NEW w \in Wallets, NEW c \in 1..2, NEW m \in MatchIds,
           matches[m] # None, matches[m].status = "waiting", matches'[m] = Seat(matches[m], w, c)
    PROVE  Pairs(m)
<1>1. w \in People /\ w # Bot
  BY MatchmakingAssumption DEF People
<1>2. TypeOK /\ SeatsOK
  BY DEF IInv
<1> QED
  BY <1>1, <1>2, PairsBySeat

LEMMA NewId ==
    ASSUME IInv, opened < MaxMatches
    PROVE  opened + 1 \in MatchIds /\ matches[opened + 1] = None
<1>1. opened \in Nat /\ MaxMatches \in Nat
  BY MatchmakingAssumption DEF IInv, TypeOK
<1> QED
  BY <1>1 DEF IInv, Allocated, MatchIds

LEMMA Retired ==
    ASSUME NEW w, NEW idle \in SUBSET Watched
    PROVE  /\ idle \in SUBSET MatchIds /\ \A m \in idle : matches[m] # None
           /\ idle \cup ActiveOf(w) \in SUBSET MatchIds
           /\ \A m \in idle \cup ActiveOf(w) : matches[m] # None
BY DEF Watched, ActiveOf, Live

LEMMA JoinMatches ==
    ASSUME IInv, NEW w \in Wallets, NEW idle \in SUBSET Watched, Join(w, idle)
    PROVE  MatchesStep
<1> DEFINE gone == idle \cup ActiveOf(w)
           open == Pruned(gone)
<1>1. gone \in SUBSET MatchIds /\ \A m \in gone : matches[m] # None
  BY Retired
<1>2. CASE /\ opened < MaxMatches /\ opened' = opened + 1
           /\ matches' = [Cancelled(gone) EXCEPT ![opened + 1] = NewMatch(w, None)]
  <2>1. opened + 1 \in MatchIds
    BY <1>2, NewId
  <2>2. matches'[opened + 1] = NewMatch(w, None)
    BY <1>1, <1>2, <2>1, CancelledIs DEF IInv
  <2>3. Opens(opened + 1)
    BY <1>2, <2>2 DEF Opens
  <2>4. matches' = [Cancelled(gone) EXCEPT ![opened + 1] = matches'[opened + 1]]
    BY <1>2, <2>2
  <2> HIDE DEF gone
  <2> QED
    BY <1>1, <1>2, <2>1, <2>3, <2>4, RetireAndOne
<1>3. ASSUME NEW m \in open, NEW c \in 1..2,
             matches' = [Cancelled(gone) EXCEPT ![m] = Seat(@, w, c)], opened' = opened
      PROVE  MatchesStep
  <2>1. m \in MatchIds /\ m \notin gone /\ matches[m] # None /\ matches[m].status = "waiting"
    BY <1>3 DEF Pruned, QueueIsWaiting, Live, IInv
  <2>2. Cancelled(gone)[m] = matches[m] /\ Cancelled(gone) \in [MatchIds -> Match \cup {None}]
    BY <1>1, <2>1, CancelledIs DEF IInv
  <2>3. matches' = [Cancelled(gone) EXCEPT ![m] = Seat(matches[m], w, c)]
    BY <1>3, <2>1, <2>2
  <2>4. matches'[m] = Seat(matches[m], w, c)
    BY <2>1, <2>2, <2>3
  <2>5. Pairs(m)
    BY <2>1, <2>4, SomebodySits
  <2>6. matches' = [Cancelled(gone) EXCEPT ![m] = matches'[m]]
    BY <2>3, <2>4
  <2> HIDE DEF gone
  <2> QED
    BY <1>1, <1>3, <2>1, <2>5, <2>6, RetireAndOne
<1> QED
  BY <1>2, <1>3 DEF Join

LEMMA RoomMatches ==
    ASSUME IInv, NEW w \in Wallets, NEW code \in Codes, NEW idle \in SUBSET Watched,
           CreateRoom(w, code, idle)
    PROVE  MatchesStep
<1> DEFINE gone == idle \cup ActiveOf(w)
<1>1. gone \in SUBSET MatchIds /\ \A m \in gone : matches[m] # None
  BY Retired
<1>2. /\ opened < MaxMatches /\ opened' = opened + 1
      /\ matches' = [Cancelled(gone) EXCEPT ![opened + 1] = NewMatch(w, code)]
  BY DEF CreateRoom
<1>3. opened + 1 \in MatchIds
  BY <1>2, NewId
<1>4. matches'[opened + 1] = NewMatch(w, code)
  BY <1>1, <1>2, <1>3, CancelledIs DEF IInv
<1>5. Opens(opened + 1)
  BY <1>2, <1>4 DEF Opens
<1>6. matches' = [Cancelled(gone) EXCEPT ![opened + 1] = matches'[opened + 1]]
  BY <1>2, <1>4
<1> HIDE DEF gone
<1> QED
  BY <1>1, <1>2, <1>3, <1>5, <1>6, RetireAndOne

LEMMA JoinRoomMatches ==
    ASSUME IInv, NEW w \in Wallets, NEW m \in MatchIds, NEW idle \in SUBSET Watched,
           JoinRoom(w, m, idle)
    PROVE  MatchesStep
<1>1. idle \in SUBSET MatchIds /\ \A n \in idle : matches[n] # None
  BY Retired
<1>2. /\ Cancelled(idle) \in [MatchIds -> Match \cup {None}]
      /\ m \notin idle /\ matches[m] # None /\ Cancelled(idle)[m] = matches[m]
      /\ opened' = opened
  BY <1>1, CancelledIs DEF JoinRoom, Live, IInv
<1>3. CASE w \in Seated(m)
  <2>1. matches' = [Cancelled(idle) EXCEPT ![m] = matches'[m]] /\ matches'[m] = Cancelled(idle)[m]
    BY <1>2, <1>3 DEF JoinRoom
  <2> QED
    BY <1>1, <1>2, <2>1, RetireAndOne
<1>4. CASE w \notin Seated(m)
  <2>1. /\ matches'[m] = Seat(matches[m], w, 1)
        /\ matches' = [Cancelled(idle) EXCEPT ![m] = matches'[m]]
    BY <1>2, <1>4 DEF JoinRoom
  <2>2. matches[m].status = "waiting"
    BY <1>4 DEF JoinRoom, MayEnter
  <2>3. Pairs(m)
    BY <1>2, <2>1, <2>2, SomebodySits
  <2> QED
    BY <1>1, <1>2, <2>1, <2>3, RetireAndOne
<1> QED
  BY <1>3, <1>4

LEMMA OfferMatches ==
    ASSUME IInv, NEW w \in Wallets, NEW m \in MatchIds, NEW idle \in SUBSET Watched,
           OfferBot(w, m, idle)
    PROVE  MatchesStep
<1>1. idle \in SUBSET MatchIds /\ \A n \in idle : matches[n] # None
  BY Retired
<1>2. /\ Cancelled(idle) \in [MatchIds -> Match \cup {None}]
      /\ m \notin idle /\ matches[m] # None /\ Cancelled(idle)[m] = matches[m]
      /\ matches[m].status = "waiting" /\ opened' = opened
  BY <1>1, CancelledIs DEF OfferBot, MayClaim, IInv
<1>3. /\ matches'[m] = [Seat(matches[m], Bot, 1) EXCEPT !.bot = TRUE]
      /\ matches' = [Cancelled(idle) EXCEPT ![m] = matches'[m]]
  BY <1>2 DEF OfferBot
<1>4. Bot \in People /\ TypeOK /\ SeatsOK
  BY DEF People, IInv
<1>5. Pairs(m)
  BY <1>2, <1>3, <1>4, PairsBySeat
<1> QED
  BY <1>1, <1>2, <1>3, <1>5, RetireAndOne

\* A match that was left: its game stays, and nobody came in.
LEMMA LeftMatch ==
    ASSUME IInv, NEW w \in Wallets, NEW m \in MatchIds, Leave(w, m)
    PROVE  /\ matches' \in [MatchIds -> Match \cup {None}]
           /\ matches[m] # None /\ matches[m].status \in {"waiting", "matched", "started"}
           /\ matches'[m] \in Match
           /\ matches'[m].status = IF Live(m) THEN "cancelled" ELSE matches[m].status
           /\ matches'[m].game = matches[m].game
           /\ Len(matches'[m].players) <= 2
           /\ Range2(matches'[m].players) \subseteq Range2(matches[m].players)
           /\ \A n \in MatchIds \ {m} : matches'[n] = matches[n]
<1> DEFINE p == matches[m].players
           q == Without(p, w)
<1>1. /\ matches \in [MatchIds -> Match \cup {None}] /\ matches[m] # None /\ matches[m] \in Match
      /\ matches[m].status \in {"waiting", "matched", "started"} /\ opened' = opened
      /\ opened \in 0..MaxMatches
  BY DEF IInv, TypeOK, Leave, Seated, Match, Status
<1>2. p \in Seq(People) /\ Len(p) <= 2 /\ w \in Range2(p)
  BY <1>1 DEF IInv, TypeOK, Leave, Seated, Range2, Match, People
<1> HIDE DEF p
<1>3. Len(p) \in 1..2
  <2>1. DOMAIN p = 1..Len(p) /\ Len(p) \in Nat
    BY <1>2, LenProperties
  <2>2. DOMAIN p # {}
    BY <1>2 DEF Range2
  <2> QED
    BY <1>2, <2>1, <2>2
<1>4. q = Tail(p) \/ q = <<p[1]>> \/ q = p
  BY DEF Without
<1> HIDE DEF q
<1>5. q \in Seq(People) /\ Len(q) <= 2 /\ Range2(q) \subseteq Range2(p)
  BY <1>2, <1>3, <1>4, SeatLeft
<1> DEFINE s == IF Live(m) THEN "cancelled" ELSE matches[m].status
<1>6. s \in {"started", "cancelled"} /\ (s = "started" => matches[m].status = "started")
  BY <1>1 DEF Live
<1>7. matches' = [matches EXCEPT ![m] = [@ EXCEPT !.players = q, !.status = s]]
  BY <1>1 DEF Leave, p, q, Match
<1> HIDE DEF s
<1>8. /\ matches'[m] \in Match /\ matches'[m].status = s /\ matches'[m].players = q
      /\ matches'[m].game = matches[m].game
  BY <1>1, <1>5, <1>6, <1>7 DEF Match, Status, People
<1>9. \A n \in MatchIds \ {m} : matches'[n] = matches[n]
  BY <1>1, <1>7
<1>10. matches' \in [MatchIds -> Match \cup {None}]
  BY <1>1, <1>7, <1>8
<1> QED
  BY <1>1, <1>5, <1>8, <1>9, <1>10 DEF p, s

LEMMA LeaveMatches ==
    ASSUME IInv, NEW w \in Wallets, NEW m \in MatchIds, Leave(w, m)
    PROVE  MatchesStep
<1>1. /\ matches' \in [MatchIds -> Match \cup {None}]
      /\ \A n \in MatchIds \ {m} : matches'[n] = matches[n]
  BY LeftMatch
<1>2. Ends(m)
  BY LeftMatch DEF Ends, Live
<1>3. opened' = opened /\ opened \in Nat /\ opened \in 0..MaxMatches
  BY MatchmakingAssumption DEF Leave, IInv, TypeOK
<1> QED
  BY <1>1, <1>2, <1>3 DEF MatchesStep

LEMMA OtherMatches ==
    ASSUME IInv,
           \/ UNCHANGED <<matches, opened>>
           \/ \E g \in GameIds : Attach(g) \/ CompleteGame(g)
           \/ \E m \in MatchIds : BotExpires(m)
    PROVE  MatchesStep
<1>1. /\ matches \in [MatchIds -> Match \cup {None}] /\ opened \in 0..MaxMatches
      /\ games \in [GameIds -> Game \cup {None}] /\ MaxMatches \in Nat
  BY MatchmakingAssumption DEF IInv, TypeOK
<1>2. CASE UNCHANGED <<matches, opened>>
  BY <1>1, <1>2 DEF MatchesStep
<1>3. ASSUME NEW g \in GameIds, Attach(g) PROVE MatchesStep
  <2> DEFINE m == games[g].match
  <2>1. Stored(g) /\ m \in MatchIds /\ opened' = opened
    BY <1>1, <1>3 DEF Attach, IInv, HandlersOK, Stored, Game
  <2>2. CASE matches[m] = None
    BY <1>1, <1>3, <2>1, <2>2 DEF Attach, MatchesStep
  <2>3. CASE matches[m] # None
    <3>1. matches' = [matches EXCEPT ![m] = [@ EXCEPT !.game = g, !.status = "started"]]
      BY <1>1, <1>3, <2>1, <2>3 DEF Attach, Match
    <3> HIDE DEF m
    <3>2. matches[m] \in Match
      BY <1>1, <2>1, <2>3
    <3>3. /\ matches'[m] \in Match /\ matches'[m].status = "started"
          /\ matches'[m].game = g /\ matches'[m].players = matches[m].players
      BY <1>1, <2>1, <3>1, <3>2 DEF Match, Status
    <3>4. Ends(m)
      BY <2>1, <2>3, <3>3 DEF Ends, IInv, TypeOK
    <3> QED
      BY <1>1, <2>1, <3>1, <3>3, <3>4 DEF MatchesStep
  <2> QED
    BY <2>2, <2>3
<1>4. ASSUME NEW g \in GameIds, CompleteGame(g) PROVE MatchesStep
  <2> DEFINE m == games[g].match
  <2>1. m \in MatchIds /\ opened' = opened
    BY <1>1, <1>4 DEF CompleteGame, Game
  <2>2. matches' = [matches EXCEPT ![m] = None]
    BY <1>4 DEF CompleteGame
  <2> HIDE DEF m
  <2> QED
    BY <1>1, <2>1, <2>2 DEF MatchesStep
<1>5. ASSUME NEW m \in MatchIds, BotExpires(m) PROVE MatchesStep
  <2>1. opened' = opened
    BY <1>5 DEF BotExpires
  <2>2. CASE matches[m] = None
    BY <1>1, <1>5, <2>1, <2>2 DEF BotExpires, MatchesStep
  <2>3. CASE matches[m] # None
    <3>1. matches' = [matches EXCEPT ![m] = [@ EXCEPT !.status = "cancelled"]]
      BY <1>1, <1>5, <2>3 DEF BotExpires
    <3>2. matches[m] \in Match
      BY <1>1, <2>3
    <3>3. /\ matches'[m] \in Match /\ matches'[m].status = "cancelled"
          /\ matches'[m].players = matches[m].players
      BY <1>1, <3>1, <3>2 DEF Match, Status
    <3>4. Ends(m)
      BY <2>3, <3>3 DEF Ends, IInv, TypeOK
    <3> QED
      BY <1>1, <2>1, <3>1, <3>3, <3>4 DEF MatchesStep
  <2> QED
    BY <2>2, <2>3
<1> QED
  BY <1>2, <1>3, <1>4, <1>5

LEMMA EveryMatchesStep == IInv /\ [Next]_vars => MatchesStep
<1> SUFFICES ASSUME IInv, [Next]_vars PROVE MatchesStep
  OBVIOUS
<1>1. ASSUME NEW w \in Wallets, NEW idle \in SUBSET Watched, Join(w, idle) PROVE MatchesStep
  BY <1>1, JoinMatches
<1>2. ASSUME NEW w \in Wallets, NEW code \in Codes, NEW idle \in SUBSET Watched,
             CreateRoom(w, code, idle) PROVE MatchesStep
  BY <1>2, RoomMatches
<1>3. ASSUME NEW w \in Wallets, NEW m \in MatchIds, NEW idle \in SUBSET Watched,
             JoinRoom(w, m, idle) PROVE MatchesStep
  BY <1>3, JoinRoomMatches
<1>4. ASSUME NEW w \in Wallets, NEW code \in Codes, NEW idle \in SUBSET Watched,
             JoinRoomByCode(w, code, idle) PROVE MatchesStep
  BY <1>3, <1>4 DEF JoinRoomByCode
<1>5. ASSUME NEW w \in Wallets, NEW m \in MatchIds, NEW idle \in SUBSET Watched,
             OfferBot(w, m, idle) PROVE MatchesStep
  BY <1>5, OfferMatches
<1>6. ASSUME NEW w \in Wallets, NEW m \in MatchIds, Leave(w, m) PROVE MatchesStep
  BY <1>6, LeaveMatches
<1>7. ASSUME NEW g \in GameIds, Attach(g) \/ CompleteGame(g) PROVE MatchesStep
  BY <1>7, OtherMatches
<1>8. ASSUME NEW m \in MatchIds, BotExpires(m) PROVE MatchesStep
  BY <1>8, OtherMatches
<1>9. CASE UNCHANGED <<matches, opened>>
  BY <1>9, OtherMatches
<1>10. ASSUME NEW m \in MatchIds, PrepareCreation(m) PROVE MatchesStep
  BY <1>9, <1>10 DEF PrepareCreation
<1>11. ASSUME NEW w \in Wallets, NEW m \in MatchIds, SubmitCreation(w, m) PROVE MatchesStep
  BY <1>9, <1>11 DEF SubmitCreation
<1>12. ASSUME NEW w \in Wallets, NEW g \in GameIds, JoinGame(w, g) PROVE MatchesStep
  BY <1>9, <1>12 DEF JoinGame
<1>13. CASE BotStep
  <2>1. ASSUME NEW m \in MatchIds, BotReleases(m) \/ BotSkips(m) \/ BotSavesSecret(m) \/ BotJoins(m)
        PROVE  MatchesStep
    BY <1>9, <2>1 DEF BotReleases, BotSkips, BotSavesSecret, BotJoins, store
  <2>2. ASSUME NEW g \in GameIds, BotIsJoined(g) \/ BotGameOver(g) PROVE MatchesStep
    BY <1>9, <2>2 DEF BotIsJoined, BotGameOver
  <2>3. CASE BotScan
    BY <1>9, <2>3 DEF BotScan, store
  <2> QED
    BY <1>8, <1>13, <2>1, <2>2, <2>3 DEF BotStep
<1>14. CASE Crash
  BY <1>9, <1>14 DEF Crash, store
<1>15. CASE UNCHANGED vars
  BY <1>9, <1>15 DEF vars, store
<1> QED
  BY <1>1, <1>2, <1>3, <1>4, <1>5, <1>6, <1>7, <1>10, <1>11, <1>12, <1>13, <1>14, <1>15 DEF Next

-----------------------------------------------------------------------------
\* What a step does to the games: one more is stored, or one gets its joiner
\* or its end.
GamesStep ==
    /\ games' \in [GameIds -> Game \cup {None}]
    /\ \A g \in GameIds : games[g] # None =>
          /\ games'[g] # None
          /\ games'[g].match = games[g].match
          /\ games[g].completed => games'[g].completed

LEMMA GamesUpdated ==
    ASSUME IInv, NEW g \in GameIds, NEW r \in Game, games' = [games EXCEPT ![g] = r],
           games[g] # None => /\ r.match = games[g].match
                              /\ games[g].completed => r.completed
    PROVE  GamesStep
BY NoneAssumption DEF IInv, TypeOK, GamesStep

LEMMA EveryGamesStep == IInv /\ [Next]_vars => GamesStep
<1> SUFFICES ASSUME IInv, [Next]_vars PROVE GamesStep
  OBVIOUS
<1>0. games \in [GameIds -> Game \cup {None}]
  BY DEF IInv, TypeOK
<1>1. CASE UNCHANGED games
  BY <1>0, <1>1 DEF GamesStep
<1>2. ASSUME NEW w \in Wallets, NEW m \in MatchIds, SubmitCreation(w, m) PROVE GamesStep
  <2>1. PICK g \in GameIds :
          /\ games[g] = None
          /\ games' = [games EXCEPT ![g] = [match |-> m, by |-> w, joiner |-> None, completed |-> FALSE]]
    BY <1>2 DEF SubmitCreation
  <2>2. [match |-> m, by |-> w, joiner |-> None, completed |-> FALSE] \in Game
    BY DEF Game
  <2> QED
    BY <2>1, <2>2, GamesUpdated
<1>3. ASSUME NEW w \in Wallets, NEW g \in GameIds, JoinGame(w, g) PROVE GamesStep
  <2>1. games[g] \in Game /\ games' = [games EXCEPT ![g] = [games[g] EXCEPT !.joiner = w]]
    BY <1>0, <1>3 DEF JoinGame
  <2>2. /\ [games[g] EXCEPT !.joiner = w] \in Game
        /\ [games[g] EXCEPT !.joiner = w].match = games[g].match
        /\ [games[g] EXCEPT !.joiner = w].completed = games[g].completed
    BY <2>1 DEF Game
  <2> QED
    BY <2>1, <2>2, GamesUpdated
<1>4. ASSUME NEW g \in GameIds, CompleteGame(g) PROVE GamesStep
  <2>1. games[g] \in Game /\ games' = [games EXCEPT ![g] = [games[g] EXCEPT !.completed = TRUE]]
    BY <1>0, <1>4 DEF CompleteGame
  <2>2. /\ [games[g] EXCEPT !.completed = TRUE] \in Game
        /\ [games[g] EXCEPT !.completed = TRUE].match = games[g].match
        /\ [games[g] EXCEPT !.completed = TRUE].completed
    BY <2>1 DEF Game
  <2> QED
    BY <2>1, <2>2, GamesUpdated
<1>5. ASSUME NEW g \in GameIds, BotIsJoined(g) PROVE GamesStep
  <2>1. CASE games' = games
    BY <1>1, <2>1
  <2>2. CASE games' # games
    <3>1. games[g] \in Game /\ games' = [games EXCEPT ![g] = [games[g] EXCEPT !.joiner = Bot]]
      BY <1>0, <1>5, <2>2 DEF BotIsJoined, IInv, HandlersOK, Stored
    <3>2. /\ [games[g] EXCEPT !.joiner = Bot] \in Game
          /\ [games[g] EXCEPT !.joiner = Bot].match = games[g].match
          /\ [games[g] EXCEPT !.joiner = Bot].completed = games[g].completed
      BY <3>1 DEF Game
    <3> QED
      BY <3>1, <3>2, GamesUpdated
  <2> QED
    BY <2>1, <2>2
<1>6. ASSUME NEW w \in Wallets, NEW idle \in SUBSET Watched,
             \/ Join(w, idle)
             \/ \E code \in Codes : CreateRoom(w, code, idle) \/ JoinRoomByCode(w, code, idle)
             \/ \E m \in MatchIds : JoinRoom(w, m, idle) \/ OfferBot(w, m, idle)
      PROVE  GamesStep
  BY <1>1, <1>6 DEF Join, CreateRoom, JoinRoomByCode, JoinRoom, OfferBot
<1>7. CASE BotStep
  BY <1>1, <1>5, <1>7 DEF BotStep, BotScan, BotReleases, BotExpires, BotSkips, BotSavesSecret,
                         BotJoins, BotGameOver, store
<1>8. ASSUME NEW m \in MatchIds, PrepareCreation(m) PROVE GamesStep
  BY <1>1, <1>8 DEF PrepareCreation
<1>9. ASSUME NEW g \in GameIds, Attach(g) PROVE GamesStep
  BY <1>1, <1>9 DEF Attach
<1>10. ASSUME NEW w \in Wallets, NEW m \in MatchIds, Leave(w, m) PROVE GamesStep
  BY <1>1, <1>10 DEF Leave
<1>11. CASE Crash \/ UNCHANGED vars
  BY <1>1, <1>11 DEF Crash, vars, store
<1> QED
  BY <1>2, <1>3, <1>4, <1>6, <1>7, <1>8, <1>9, <1>10, <1>11 DEF Next

-----------------------------------------------------------------------------
StoredNext(g) == g \in GameIds /\ games'[g] # None

LEMMA MatchesKept ==
    ASSUME IInv, MatchesStep, GamesStep
    PROVE  /\ Allocated' /\ SeatsOK' /\ StartedOK' /\ BotOK'
           /\ \A m \in MatchIds : matches'[m] # None => Len(matches'[m].players) <= 2
<1>1. ASSUME NEW m \in MatchIds, matches'[m] # None
      PROVE  /\ m <= opened'
             /\ Seats(matches'[m])
             /\ matches'[m].status = "started" => StoredNext(matches'[m].game)
             /\ Len(matches'[m].players) <= 2
             /\ matches'[m].bot => matches'[m].status # "waiting"
  <2>0. /\ m \in Nat /\ opened \in Nat /\ opened' \in Nat /\ opened <= opened'
        /\ matches[m] # None => /\ m <= opened /\ Seats(matches[m])
                                /\ Len(matches[m].players) <= 2
                                /\ matches[m].bot => matches[m].status # "waiting"
                                /\ matches[m].status = "started" => Stored(matches[m].game)
    BY MatchmakingAssumption DEF IInv, TypeOK, Allocated, SeatsOK, StartedOK, BotOK, MatchesStep, MatchIds
  <2>1. \A g : Stored(g) => StoredNext(g)
    BY DEF Stored, StoredNext, GamesStep
  <2>2. CASE matches'[m] = matches[m]
    BY <1>1, <2>0, <2>1, <2>2
  <2>3. CASE Opens(m)
    <3>1. PICK w \in Wallets, code \in Codes \cup {None} : matches'[m] = NewMatch(w, code)
      BY <2>3 DEF Opens
    <3>2. Fresh(matches'[m], w, code)
      BY <3>1, NewMatchIs, Zenon
    <3>3. m = opened'
      BY <2>3 DEF Opens
    <3> QED
      BY <2>0, <3>2, <3>3 DEF Fresh, Seats
  <2>4. CASE Pairs(m)
    BY <2>0, <2>4 DEF Pairs, Seats
  <2>5. CASE Ends(m)
    BY <2>0, <2>1, <2>5 DEF Ends, Seats
  <2> QED
    BY <1>1, <2>2, <2>3, <2>4, <2>5 DEF MatchesStep
<1> QED
  BY <1>1 DEF Allocated, SeatsOK, Seats, StartedOK, BotOK, Stored, StoredNext

\* A match that is decided stays so.
DecidedNext(m) == m <= opened' /\ (matches'[m] # None => matches'[m].status # "waiting")

LEMMA DecidedStays ==
    ASSUME IInv, MatchesStep, NEW m \in MatchIds, Decided(m)
    PROVE  DecidedNext(m)
<1>1. m \in Nat /\ opened \in Nat /\ opened' \in Nat /\ opened <= opened' /\ m <= opened
  BY MatchmakingAssumption DEF IInv, TypeOK, MatchesStep, MatchIds, Decided
<1>2. ~Opens(m) /\ ~Pairs(m)
  BY <1>1 DEF Opens, Pairs, Decided
<1> QED
  BY <1>1, <1>2 DEF MatchesStep, Decided, DecidedNext, Ends

HandlersNext ==
    /\ \A g \in publishing' : StoredNext(g) /\ DecidedNext(games'[g].match)
    /\ \A g \in joining' : StoredNext(g) /\ (g \in secrets' \/ games'[g].completed)
    /\ \A m \in DOMAIN scan' :
          DecidedNext(m) /\ (scan'[m].status = "started" => StoredNext(scan'[m].game))

LEMMA HandlersNextIs == HandlersNext <=> HandlersOK'
BY DEF HandlersNext, HandlersOK, StoredNext, Stored, DecidedNext, Decided

\* A step that begins nothing new.
Carried ==
    /\ publishing' \subseteq publishing
    /\ joining' \subseteq joining
    /\ \A g \in secrets \ secrets' : games'[g].completed
    /\ DOMAIN scan' \subseteq DOMAIN scan
    /\ \A m \in DOMAIN scan' : scan'[m] = scan[m] \/ scan'[m].status = "cancelled"

LEMMA CarriedParts ==
    ASSUME IInv, MatchesStep, GamesStep
    PROVE  /\ \A g \in publishing : StoredNext(g) /\ DecidedNext(games'[g].match)
           /\ \A g \in joining : StoredNext(g)
           /\ \A g \in joining : (g \in secrets /\ g \in secrets') \/ g \in secrets \ secrets' \/ games'[g].completed
           /\ \A m \in DOMAIN scan :
                 DecidedNext(m) /\ (scan[m].status = "started" => StoredNext(scan[m].game))
<1>1. \A g : Stored(g) => /\ StoredNext(g) /\ games'[g].match = games[g].match
                          /\ games[g].match \in MatchIds
                          /\ games[g].completed => games'[g].completed
  BY DEF IInv, TypeOK, Stored, StoredNext, GamesStep, Game
<1>2. \A g \in publishing : Stored(g) /\ Decided(games[g].match)
  BY DEF IInv, HandlersOK
<1>3. \A g \in publishing : DecidedNext(games[g].match)
  BY <1>1, <1>2, DecidedStays
<1>4. \A m \in DOMAIN scan : m \in MatchIds /\ Decided(m)
  BY DEF IInv, HandlersOK, TypeOK
<1>5. \A m \in DOMAIN scan : DecidedNext(m)
  BY <1>4, DecidedStays
<1> QED
  BY <1>1, <1>2, <1>3, <1>5 DEF IInv, HandlersOK

LEMMA HandlersCarried ==
    ASSUME IInv, MatchesStep, GamesStep, Carried
    PROVE  HandlersOK'
<1>1. HandlersNext
  BY CarriedParts DEF Carried, HandlersNext
<1> QED
  BY <1>1, HandlersNextIs

LEMMA HandlersKept ==
    ASSUME IInv, [Next]_vars, MatchesStep, GamesStep
    PROVE  HandlersOK'
<1>1. CASE UNCHANGED <<publishing, joining, secrets, scan>>
  BY <1>1, HandlersCarried DEF Carried
<1>2. ASSUME NEW w \in Wallets, NEW m \in MatchIds, SubmitCreation(w, m) PROVE HandlersOK'
  <2>1. PICK g \in GameIds :
          /\ games[g] = None
          /\ games' = [games EXCEPT ![g] = [match |-> m, by |-> w, joiner |-> None, completed |-> FALSE]]
          /\ publishing' = IF MayPublish(m) THEN publishing \cup {g} ELSE publishing
    BY <1>2 DEF SubmitCreation
  <2>2. games'[g] # None /\ games'[g].match = m
    <3>1. [match |-> m, by |-> w, joiner |-> None, completed |-> FALSE] \in Game
      BY DEF Game
    <3> QED
      BY <2>1, <3>1, NoneAssumption DEF IInv, TypeOK
  <2>3. MayPublish(m) => StoredNext(g) /\ DecidedNext(games'[g].match)
    BY <1>2, <2>2 DEF MayPublish, SubmitCreation, IInv, Allocated, StoredNext, DecidedNext
  <2>4. UNCHANGED <<joining, scan, secrets>>
    BY <1>2 DEF SubmitCreation
  <2>5. HandlersNext
    BY <2>1, <2>3, <2>4, CarriedParts DEF HandlersNext
  <2> QED
    BY <2>5, HandlersNextIs
<1>3. ASSUME NEW g \in GameIds, Attach(g) PROVE HandlersOK'
  BY <1>3, HandlersCarried DEF Attach, Carried
<1>4. ASSUME NEW g \in GameIds, CompleteGame(g) PROVE HandlersOK'
  <2>1. games'[g].completed
    BY <1>4 DEF CompleteGame, IInv, TypeOK, Game
  <2> QED
    BY <1>4, <2>1, HandlersCarried DEF CompleteGame, Carried, memory
<1>5. CASE BotScan
  <2>1. /\ UNCHANGED <<matches, opened, games, publishing, joining, secrets>>
        /\ DOMAIN scan' = BotMatches
        /\ \A m \in BotMatches : scan'[m].status = matches[m].status /\ scan'[m].game = matches[m].game
    BY <1>5 DEF BotScan, store
  <2>2. \A m \in BotMatches : m \in MatchIds /\ matches[m] # None /\ matches[m].bot
    BY DEF BotMatches
  <2>3. \A m \in BotMatches : DecidedNext(m) /\ (scan'[m].status = "started" => StoredNext(scan'[m].game))
    BY <2>1, <2>2 DEF DecidedNext, StoredNext, Stored, IInv, Allocated, StartedOK, BotOK
  <2>4. HandlersNext
    BY <2>1, <2>3, CarriedParts DEF HandlersNext
  <2> QED
    BY <2>4, HandlersNextIs
<1>6. ASSUME NEW m \in MatchIds, BotReleases(m) \/ BotSkips(m) PROVE HandlersOK'
  BY <1>6, HandlersCarried DEF BotReleases, BotSkips, Visited, Carried, store
<1>7. ASSUME NEW m \in MatchIds, BotExpires(m) PROVE HandlersOK'
  <2>1. /\ UNCHANGED <<publishing, joining, secrets>> /\ m \in DOMAIN scan
        /\ scan' = [scan EXCEPT ![m].status = "cancelled"]
    BY <1>7 DEF BotExpires, BotTurn
  <2>2. scan \in [DOMAIN scan -> [status : Status, game : GameIds \cup {None}]]
    BY DEF IInv, TypeOK
  <2>3. DOMAIN scan' = DOMAIN scan /\ \A n \in DOMAIN scan : scan'[n] = scan[n] \/ scan'[n].status = "cancelled"
    BY <2>1, <2>2
  <2> QED
    BY <2>1, <2>3, HandlersCarried DEF Carried
<1>8. ASSUME NEW m \in MatchIds, BotSavesSecret(m) PROVE HandlersOK'
  BY <1>8, HandlersCarried DEF BotSavesSecret, memory, Carried
<1>9. ASSUME NEW m \in MatchIds, BotJoins(m) PROVE HandlersOK'
  <2>1. /\ UNCHANGED <<publishing, secrets, games>> /\ m \in DOMAIN scan
        /\ joining' = {scan[m].game} /\ scan[m].game \in secrets /\ scan[m].status = "started"
        /\ DOMAIN scan' = DOMAIN scan \ {m} /\ \A n \in DOMAIN scan \ {m} : scan'[n] = scan[n]
    BY <1>9 DEF BotJoins, BotMayJoin, BotTurn, SecretReady, Visited, store
  <2>2. HandlersNext
    BY <2>1, CarriedParts DEF HandlersNext
  <2> QED
    BY <2>2, HandlersNextIs
<1>10. ASSUME NEW g \in GameIds, BotIsJoined(g) \/ BotGameOver(g) PROVE HandlersOK'
  BY <1>10, HandlersCarried DEF BotIsJoined, BotGameOver, memory, Carried
<1>11. CASE Crash
  <2>1. publishing' = {} /\ joining' = {} /\ scan' = << >> /\ UNCHANGED secrets /\ DOMAIN << >> = {}
    BY <1>11 DEF Crash, store
  <2> QED
    BY <2>1, HandlersCarried DEF Carried
<1>12. ASSUME NEW w \in Wallets, NEW idle \in SUBSET Watched,
             \/ Join(w, idle)
             \/ \E code \in Codes : CreateRoom(w, code, idle) \/ JoinRoomByCode(w, code, idle)
             \/ \E m \in MatchIds : JoinRoom(w, m, idle) \/ OfferBot(w, m, idle)
       PROVE HandlersOK'
  BY <1>1, <1>12 DEF Join, CreateRoom, JoinRoomByCode, JoinRoom, OfferBot, memory
<1>13. ASSUME NEW w \in Wallets, NEW m \in MatchIds, Leave(w, m) \/ PrepareCreation(m) PROVE HandlersOK'
  BY <1>1, <1>13 DEF Leave, PrepareCreation, memory
<1>14. ASSUME NEW w \in Wallets, NEW g \in GameIds, JoinGame(w, g) PROVE HandlersOK'
  BY <1>1, <1>14 DEF JoinGame, memory
<1>15. CASE UNCHANGED vars
  BY <1>1, <1>15 DEF vars, store, memory
<1>16. ASSUME NEW m \in MatchIds, PrepareCreation(m) PROVE HandlersOK'
  BY <1>1, <1>16 DEF PrepareCreation, memory
<1>17. CASE BotStep
  BY <1>5, <1>6, <1>7, <1>8, <1>9, <1>10, <1>17 DEF BotStep
<1> QED
  BY <1>2, <1>3, <1>4, <1>11, <1>12, <1>13, <1>14, <1>15, <1>16, <1>17 DEF Next

-----------------------------------------------------------------------------
\* The match n changes and the sessions of S are retired.
LiveNext(m) == matches'[m] # None /\ matches'[m].status \in {"waiting", "matched"}
WaitsNext(m) == matches'[m] # None /\ matches'[m].status = "waiting" /\ matches'[m].code = None

Retires(S, n) ==
    /\ S \subseteq MatchIds /\ n \in MatchIds \ S
    /\ \A m \in MatchIds \ {n} :
          /\ m \in S => matches'[m] # None /\ matches'[m].status = "cancelled"
          /\ m \notin S => matches'[m] = matches[m]
    /\ queue' = (queue \ (S \cup {n})) \cup {m \in {n} : WaitsNext(m)}

Settles(n) == matches'[n] = matches[n] \/ ~LiveNext(n)

OpenedBy(S, n, w) ==
    /\ ActiveOf(w) \subseteq S
    /\ \E code \in Codes \cup {None} :
          /\ matches'[n] = NewMatch(w, code)
          /\ code = None \/ \A m \in MatchIds \ S : Live(m) => matches[m].code # code

PairedWith(S, n, w) ==
    /\ matches[n] # None /\ matches[n].status = "waiting"
    /\ TwoSeated(matches'[n], matches[n], w, matches'[n].creator)
    /\ matches[n].code = None => w = Bot \/ ActiveOf(w) \subseteq S

LEMMA QueueKept ==
    ASSUME IInv, NEW S, NEW n, Retires(S, n)
    PROVE  QueueIsWaiting' /\ queue' \subseteq MatchIds
<1>1. \A m : m \in queue <=> m \in MatchIds /\ matches[m] # None /\ matches[m].status = "waiting" /\ matches[m].code = None
  BY DEF IInv, QueueIsWaiting, Live, Private
<1>2. \A m : m \in queue' <=> m \in MatchIds /\ WaitsNext(m)
  BY <1>1 DEF Retires, WaitsNext
<1> QED
  BY <1>2 DEF QueueIsWaiting, Live, Private, WaitsNext

\* Who has an open session after the step.
OpenNext(w, m) ==
    /\ LiveNext(m)
    /\ \E i \in DOMAIN matches'[m].players : matches'[m].players[i] = w
    /\ matches'[m].code = None \/ matches'[m].players[1] = w

LEMMA OpenForIs == \A w, m : matches[m] # None =>
    (OpenFor(w, m) <=> /\ Live(m)
                       /\ \E i \in DOMAIN matches[m].players : matches[m].players[i] = w
                       /\ matches[m].code = None \/ matches[m].players[1] = w)
BY DEF OpenFor, Seated, Private

LEMMA OpenNextIs == OneOpenSession' <=>
    \A w \in Wallets, m, n \in MatchIds : OpenNext(w, m) /\ OpenNext(w, n) => m = n
BY DEF OneOpenSession, OpenFor, OpenNext, Live, LiveNext, Seated, Private

\* A session that is open after the step was open before, or is the one the
\* wallet opened or was paired in, and then it has no other.
LEMMA SessionsKept ==
    ASSUME IInv, NEW S, NEW n, NEW w \in People, Retires(S, n),
           Settles(n) \/ OpenedBy(S, n, w) \/ PairedWith(S, n, w)
    PROVE  OneOpenSession' /\ CodeNamesOneRoom'
<1>1. \A m \in MatchIds \ {n} : LiveNext(m) => /\ m \notin S /\ matches'[m] = matches[m] /\ matches[m] # None
                                               /\ Live(m)
  BY DEF Retires, LiveNext, Live
<1>2. \A v, m : m \in MatchIds \ {n} /\ OpenNext(v, m) => OpenFor(v, m) /\ m \notin S
  BY <1>1, OpenForIs DEF OpenNext
<1>3. ASSUME NEW v \in Wallets, OpenNext(v, n)
      PROVE  OpenFor(v, n) \/ (v = w /\ ActiveOf(w) \subseteq S)
  <2>1. CASE Settles(n)
    BY <1>3, <2>1, OpenForIs DEF Settles, OpenNext, LiveNext, Live
  <2>2. CASE OpenedBy(S, n, w)
    <3>1. PICK code \in Codes \cup {None} : matches'[n] = NewMatch(w, code)
      BY <2>2 DEF OpenedBy
    <3>2. matches'[n].players = <<w>>
      BY <3>1 DEF NewMatch
    <3>3. v = w
      BY <1>3, <3>2 DEF OpenNext
    <3> QED
      BY <2>2, <3>3 DEF OpenedBy
  <2>3. CASE PairedWith(S, n, w)
    <3> DEFINE p == matches[n].players
               q == matches'[n].players
    <3>1. /\ matches[n] \in Match /\ matches[n] # None /\ Len(p) = 1 /\ p \in Seq(People) /\ Live(n)
      BY <2>3 DEF IInv, TypeOK, SeatsOK, Seats, PairedWith, Retires, Match, People, Live
    <3>2. /\ q \in Seq(People) /\ Len(q) = 2 /\ q[1] = p[1] /\ q[2] = w
          /\ matches'[n].code = matches[n].code
      BY <2>3 DEF PairedWith, TwoSeated, Match, People
    <3>3. DOMAIN q = 1..2 /\ DOMAIN p = 1..1
      BY <3>1, <3>2, LenProperties
    <3> HIDE DEF p, q
    <3>4. CASE v = p[1]
      <4>1. matches[n].code = None \/ p[1] = v
        BY <3>4
      <4> QED
        BY <3>1, <3>3, <3>4, <4>1, OpenForIs DEF p
    <3>5. CASE v # p[1]
      <4>1. v = w
        BY <1>3, <3>2, <3>3, <3>5 DEF OpenNext, q
      <4>2. matches[n].code = None
        BY <1>3, <3>2, <3>5 DEF OpenNext, q
      <4> QED
        BY <2>3, <4>1, <4>2, MatchmakingAssumption DEF PairedWith
    <3> QED
      BY <3>4, <3>5
  <2> QED
    BY <2>1, <2>2, <2>3
<1>4. OneOpenSession'
  <2>1. ASSUME NEW v \in Wallets, NEW m \in MatchIds \ {n}, OpenNext(v, m), OpenNext(v, n)
        PROVE  FALSE
    <3>1. OpenFor(v, m) /\ m \notin S
      BY <1>2, <2>1
    <3>2. ~OpenFor(v, n)
      BY <3>1 DEF IInv, OneOpenSession, Retires
    <3>3. m \in ActiveOf(v)
      BY <3>1 DEF OpenFor, ActiveOf
    <3> QED
      BY <1>3, <2>1, <3>1, <3>2, <3>3
  <2>2. ASSUME NEW v \in Wallets, NEW m \in MatchIds \ {n}, NEW k \in MatchIds \ {n},
               OpenNext(v, m), OpenNext(v, k)
        PROVE  m = k
    BY <1>2, <2>2 DEF IInv, OneOpenSession
  <2>3. n \in MatchIds
    BY DEF Retires
  <2> QED
    BY <2>1, <2>2, <2>3, OpenNextIs
<1>5. CodeNamesOneRoom'
  <2>1. ASSUME LiveNext(n), matches'[n].code # None
        PROVE  \/ matches[n] # None /\ Live(n) /\ matches'[n].code = matches[n].code
               \/ \A m \in MatchIds \ S : Live(m) => matches[m].code # matches'[n].code
    <3>1. CASE Settles(n)
      BY <2>1, <3>1 DEF Settles, LiveNext, Live
    <3>2. CASE OpenedBy(S, n, w)
      BY <2>1, <3>2 DEF OpenedBy, NewMatch
    <3>3. CASE PairedWith(S, n, w)
      BY <2>1, <3>3 DEF PairedWith, TwoSeated, Live
    <3> QED
      BY <3>1, <3>2, <3>3
  <2>2. \A m \in MatchIds \ {n} : LiveNext(m) /\ LiveNext(n) /\ matches'[n].code # None
                                      => matches'[m].code # matches'[n].code
    BY <1>1, <2>1 DEF IInv, CodeNamesOneRoom, Private, Retires
  <2>3. \A m, k \in MatchIds \ {n} : LiveNext(m) /\ LiveNext(k) /\ matches'[m].code # None
                                         /\ matches'[m].code = matches'[k].code => m = k
    BY <1>1 DEF IInv, CodeNamesOneRoom, Private
  <2>4. \A m, k \in MatchIds : LiveNext(m) /\ LiveNext(k) /\ matches'[m].code # None
                                         /\ matches'[m].code = matches'[k].code => m = k
    BY <2>2, <2>3
  <2> QED
    BY <2>4 DEF CodeNamesOneRoom, Live, LiveNext, Private
<1> QED
  BY <1>4, <1>5

-----------------------------------------------------------------------------
Sessions ==
    \E S \in SUBSET MatchIds, n \in MatchIds, w \in People :
        Retires(S, n) /\ (Settles(n) \/ OpenedBy(S, n, w) \/ PairedWith(S, n, w))

LEMMA RetiresBy ==
    ASSUME IInv, NEW S \in SUBSET MatchIds, \A m \in S : matches[m] # None,
           NEW n \in MatchIds \ S, matches' = [Cancelled(S) EXCEPT ![n] = matches'[n]],
           queue' = (queue \ (S \cup {n})) \cup {m \in {n} : WaitsNext(m)}
    PROVE  Retires(S, n)
<1>1. /\ Cancelled(S) \in [MatchIds -> Match \cup {None}]
      /\ \A m \in MatchIds \ S : Cancelled(S)[m] = matches[m]
      /\ \A m \in S : Cancelled(S)[m] \in Match /\ Cancelled(S)[m].status = "cancelled"
  BY CancelledIs, EndedByCancel DEF IInv
<1>2. \A m \in MatchIds \ {n} : matches'[m] = Cancelled(S)[m]
  BY <1>1
<1> QED
  BY <1>1, <1>2, NoneAssumption DEF Retires

LEMMA PairsInStep ==
    ASSUME IInv, NEW S, NEW n \in MatchIds, NEW w \in People, NEW c \in 1..2,
           matches[n] # None, matches[n].status = "waiting",
           \/ matches'[n] = Seat(matches[n], w, c)
           \/ matches'[n] = [Seat(matches[n], w, c) EXCEPT !.bot = TRUE]
    PROVE  /\ TwoSeated(matches'[n], matches[n], w, matches'[n].creator)
           /\ ~WaitsNext(n)
<1> DEFINE s == Seat(matches[n], w, c)
<1>1. matches[n] \in Match /\ Len(matches[n].players) = 1
  BY DEF IInv, TypeOK, SeatsOK, Seats
<1>2. TwoSeated(s, matches[n], w, c)
  BY <1>1, SeatTaken
<1> HIDE DEF s
<1>3. s \in Match /\ s.status = "matched" /\ s.creator = c
  BY <1>2 DEF TwoSeated
<1>4. CASE matches'[n] = s
  BY <1>2, <1>3, <1>4 DEF WaitsNext
<1>5. CASE matches'[n] = [s EXCEPT !.bot = TRUE]
  <2>1. /\ matches'[n] \in Match /\ matches'[n].status = s.status /\ matches'[n].players = s.players
        /\ matches'[n].creator = s.creator /\ matches'[n].code = s.code
    BY <1>3, <1>5 DEF Match
  <2> QED
    BY <1>2, <1>3, <1>5, <2>1 DEF TwoSeated, WaitsNext
<1> QED
  BY <1>4, <1>5 DEF s

LEMMA Queued ==
    ASSUME IInv
    PROVE  \A m \in MatchIds : m \in queue =>
              matches[m] # None /\ matches[m].status = "waiting" /\ matches[m].code = None
BY DEF IInv, QueueIsWaiting, Live, Private

LEMMA JoinSessions ==
    ASSUME IInv, NEW w \in Wallets, NEW idle \in SUBSET Watched, Join(w, idle)
    PROVE  Sessions
<1> DEFINE gone == idle \cup ActiveOf(w)
           open == Pruned(gone)
<1>1. gone \in SUBSET MatchIds /\ \A m \in gone : matches[m] # None
  BY Retired
<1>2. w \in People /\ queue \subseteq MatchIds
  BY DEF People, IInv, TypeOK
<1>3. CASE /\ opened < MaxMatches /\ open = {} /\ queue' = {opened + 1}
           /\ matches' = [Cancelled(gone) EXCEPT ![opened + 1] = NewMatch(w, None)]
  <2> DEFINE n == opened + 1
             r == NewMatch(w, None)
  <2>1. n \in MatchIds \ gone
    BY <1>1, <1>3, NewId
  <2>2. matches'[n] = r
    BY <1>1, <1>3, <2>1, CancelledIs DEF IInv
  <2>3. Fresh(r, w, None)
    BY NewMatchIs, Zenon
  <2> HIDE DEF r
  <2>4. matches' = [Cancelled(gone) EXCEPT ![n] = matches'[n]]
    BY <1>3, <2>2 DEF r
  <2>5. queue' = (queue \ (gone \cup {n})) \cup {m \in {n} : WaitsNext(m)}
    BY <1>3, <2>2, <2>3 DEF WaitsNext, Pruned, Fresh
  <2>6. OpenedBy(gone, n, w)
    BY <2>2 DEF OpenedBy, r
  <2> HIDE DEF gone, n
  <2>7. Retires(gone, n)
    BY <1>1, <2>1, <2>4, <2>5, RetiresBy
  <2> QED
    BY <1>1, <1>2, <2>1, <2>6, <2>7 DEF Sessions
<1>4. ASSUME NEW n \in open, NEW c \in 1..2, queue' = open \ {n},
             matches' = [Cancelled(gone) EXCEPT ![n] = Seat(@, w, c)]
      PROVE  Sessions
  <2>1. n \in MatchIds \ gone /\ matches[n] # None /\ matches[n].status = "waiting"
    BY <1>2, <1>4, Queued DEF Pruned
  <2>2. Cancelled(gone)[n] = matches[n] /\ Cancelled(gone) \in [MatchIds -> Match \cup {None}]
    BY <1>1, <2>1, CancelledIs DEF IInv
  <2>3. matches' = [Cancelled(gone) EXCEPT ![n] = Seat(matches[n], w, c)]
    BY <1>4, <2>1, <2>2
  <2>4. matches'[n] = Seat(matches[n], w, c)
    BY <2>1, <2>2, <2>3
  <2>5. matches' = [Cancelled(gone) EXCEPT ![n] = matches'[n]]
    BY <2>3, <2>4
  <2>6. TwoSeated(matches'[n], matches[n], w, matches'[n].creator) /\ ~WaitsNext(n)
    BY <1>2, <2>1, <2>4, PairsInStep
  <2>7. queue' = (queue \ (gone \cup {n})) \cup {m \in {n} : WaitsNext(m)}
    BY <1>4, <2>6 DEF Pruned
  <2>8. PairedWith(gone, n, w)
    BY <2>1, <2>6 DEF PairedWith
  <2> HIDE DEF gone
  <2>9. Retires(gone, n)
    BY <1>1, <2>1, <2>5, <2>7, RetiresBy
  <2> QED
    BY <1>1, <1>2, <2>1, <2>8, <2>9 DEF Sessions
<1> QED
  BY <1>3, <1>4 DEF Join

LEMMA RoomSessions ==
    ASSUME IInv, NEW w \in Wallets, NEW code \in Codes, NEW idle \in SUBSET Watched,
           CreateRoom(w, code, idle)
    PROVE  Sessions
<1> DEFINE gone == idle \cup ActiveOf(w)
           n == opened + 1
           r == NewMatch(w, code)
<1>1. gone \in SUBSET MatchIds /\ \A m \in gone : matches[m] # None
  BY Retired
<1>2. /\ opened < MaxMatches /\ queue' = queue \ gone
      /\ matches' = [Cancelled(gone) EXCEPT ![n] = r]
      /\ \A m \in MatchIds \ gone : Live(m) => matches[m].code # code
  BY DEF CreateRoom, CodeTaken, Pruned
<1>3. n \in MatchIds \ gone /\ matches[n] = None
  BY <1>1, <1>2, NewId
<1>4. matches'[n] = r
  BY <1>1, <1>2, <1>3, CancelledIs DEF IInv
<1>5. Fresh(r, w, code) /\ code # None /\ w \in People
  <2>1. code \in Codes \cup {None} /\ code # None /\ w \in People
    BY MatchmakingAssumption DEF People
  <2> QED
    BY <2>1, NewMatchIs, Zenon
<1>6. OpenedBy(gone, n, w)
  BY <1>2, <1>4 DEF OpenedBy
<1> HIDE DEF r
<1>7. n \notin queue /\ ~WaitsNext(n)
  BY <1>3, <1>4, <1>5, Queued DEF WaitsNext, Fresh
<1>8. queue' = (queue \ (gone \cup {n})) \cup {m \in {n} : WaitsNext(m)}
  BY <1>2, <1>7
<1> HIDE DEF gone, n
<1>9. matches' = [Cancelled(gone) EXCEPT ![n] = matches'[n]]
  BY <1>2, <1>4
<1>10. Retires(gone, n)
  BY <1>1, <1>3, <1>8, <1>9, RetiresBy
<1> QED
  BY <1>1, <1>3, <1>5, <1>6, <1>10 DEF Sessions

LEMMA JoinRoomSessions ==
    ASSUME IInv, NEW w \in Wallets, NEW n \in MatchIds, NEW idle \in SUBSET Watched,
           JoinRoom(w, n, idle)
    PROVE  Sessions
<1>1. idle \in SUBSET MatchIds /\ \A m \in idle : matches[m] # None
  BY Retired
<1>2. /\ Cancelled(idle) \in [MatchIds -> Match \cup {None}]
      /\ n \in MatchIds \ idle /\ matches[n] # None /\ Cancelled(idle)[n] = matches[n]
      /\ matches[n].code # None /\ queue' = queue \ idle /\ w \in People
  BY <1>1, CancelledIs DEF JoinRoom, Live, IInv, Private, Pruned, People
<1>3. n \notin queue
  BY <1>2, Queued
<1>4. CASE w \in Seated(n)
  <2>1. matches' = [Cancelled(idle) EXCEPT ![n] = matches'[n]] /\ matches'[n] = matches[n]
    BY <1>2, <1>4 DEF JoinRoom
  <2>2. ~WaitsNext(n)
    BY <1>2, <2>1 DEF WaitsNext
  <2>3. queue' = (queue \ (idle \cup {n})) \cup {m \in {n} : WaitsNext(m)}
    BY <1>2, <1>3, <2>2
  <2>4. Retires(idle, n)
    BY <1>1, <1>2, <2>1, <2>3, RetiresBy
  <2> QED
    BY <1>1, <1>2, <2>1, <2>4 DEF Sessions, Settles
<1>5. CASE w \notin Seated(n)
  <2>1. /\ matches'[n] = Seat(matches[n], w, 1)
        /\ matches' = [Cancelled(idle) EXCEPT ![n] = matches'[n]]
    BY <1>2, <1>5 DEF JoinRoom
  <2>2. matches[n].status = "waiting"
    BY <1>5 DEF JoinRoom, MayEnter
  <2>3. TwoSeated(matches'[n], matches[n], w, matches'[n].creator) /\ ~WaitsNext(n)
    BY <1>2, <2>1, <2>2, PairsInStep
  <2>4. queue' = (queue \ (idle \cup {n})) \cup {m \in {n} : WaitsNext(m)}
    BY <1>2, <1>3, <2>3
  <2>5. Retires(idle, n)
    BY <1>1, <1>2, <2>1, <2>4, RetiresBy
  <2>6. PairedWith(idle, n, w)
    BY <1>2, <2>2, <2>3 DEF PairedWith
  <2> QED
    BY <1>1, <1>2, <2>5, <2>6 DEF Sessions
<1> QED
  BY <1>4, <1>5

LEMMA OfferSessions ==
    ASSUME IInv, NEW w \in Wallets, NEW n \in MatchIds, NEW idle \in SUBSET Watched,
           OfferBot(w, n, idle)
    PROVE  Sessions
<1>1. idle \in SUBSET MatchIds /\ \A m \in idle : matches[m] # None
  BY Retired
<1>2. /\ Cancelled(idle) \in [MatchIds -> Match \cup {None}]
      /\ n \in MatchIds \ idle /\ matches[n] # None /\ Cancelled(idle)[n] = matches[n]
      /\ matches[n].status = "waiting" /\ queue' = queue \ (idle \cup {n}) /\ Bot \in People
  BY <1>1, CancelledIs DEF OfferBot, MayClaim, IInv, Pruned, People
<1>3. /\ matches'[n] = [Seat(matches[n], Bot, 1) EXCEPT !.bot = TRUE]
      /\ matches' = [Cancelled(idle) EXCEPT ![n] = matches'[n]]
  BY <1>2 DEF OfferBot
<1>4. TwoSeated(matches'[n], matches[n], Bot, matches'[n].creator) /\ ~WaitsNext(n)
  <2>1. 1 \in 1..2
    OBVIOUS
  <2> QED
    BY <1>2, <1>3, <2>1, PairsInStep, Zenon
<1>5. queue' = (queue \ (idle \cup {n})) \cup {m \in {n} : WaitsNext(m)}
  BY <1>2, <1>4
<1>6. Retires(idle, n)
  BY <1>1, <1>2, <1>3, <1>5, RetiresBy
<1>7. PairedWith(idle, n, Bot)
  BY <1>2, <1>4 DEF PairedWith
<1> QED
  BY <1>1, <1>2, <1>6, <1>7 DEF Sessions

-----------------------------------------------------------------------------
SessionsOK == QueueIsWaiting' /\ queue' \subseteq MatchIds /\ OneOpenSession' /\ CodeNamesOneRoom'

LEMMA SessionsAreOK ==
    ASSUME IInv, Sessions
    PROVE  SessionsOK
BY QueueKept, SessionsKept DEF Sessions, SessionsOK

LEMMA SettledIsOK ==
    ASSUME IInv, NEW n \in MatchIds, Settles(n), \A m \in MatchIds \ {n} : matches'[m] = matches[m],
           queue' = (queue \ {n}) \cup {m \in {n} : WaitsNext(m)}
    PROVE  SessionsOK
<1>1. Retires({}, n)
  BY DEF Retires
<1> QED
  BY <1>1, SessionsAreOK DEF Sessions, People

LEMMA EverySessionsStep == IInv /\ [Next]_vars => SessionsOK
<1> SUFFICES ASSUME IInv, [Next]_vars PROVE SessionsOK
  OBVIOUS
<1>1. ASSUME NEW w \in Wallets, NEW idle \in SUBSET Watched, Join(w, idle) PROVE SessionsOK
  BY <1>1, JoinSessions, SessionsAreOK
<1>2. ASSUME NEW w \in Wallets, NEW code \in Codes, NEW idle \in SUBSET Watched,
             CreateRoom(w, code, idle) PROVE SessionsOK
  BY <1>2, RoomSessions, SessionsAreOK
<1>3. ASSUME NEW w \in Wallets, NEW m \in MatchIds, NEW idle \in SUBSET Watched,
             JoinRoom(w, m, idle) PROVE SessionsOK
  BY <1>3, JoinRoomSessions, SessionsAreOK
<1>4. ASSUME NEW w \in Wallets, NEW code \in Codes, NEW idle \in SUBSET Watched,
             JoinRoomByCode(w, code, idle) PROVE SessionsOK
  BY <1>3, <1>4 DEF JoinRoomByCode
<1>5. ASSUME NEW w \in Wallets, NEW m \in MatchIds, NEW idle \in SUBSET Watched,
             OfferBot(w, m, idle) PROVE SessionsOK
  BY <1>5, OfferSessions, SessionsAreOK
<1>0. matches \in [MatchIds -> Match \cup {None}] /\ games \in [GameIds -> Game \cup {None}]
      /\ queue \subseteq MatchIds
  BY DEF IInv, TypeOK
<1>6. ASSUME NEW w \in Wallets, NEW m \in MatchIds, Leave(w, m) PROVE SessionsOK
  <2>1. matches[m] \in Match /\ queue' = queue \ {m}
    BY <1>0, <1>6 DEF Leave, Pruned, Seated
  <2>2. matches'[m].status \notin {"waiting", "matched"} /\ \A n \in MatchIds \ {m} : matches'[n] = matches[n]
    BY <1>0, <1>6, <2>1 DEF Leave, Live, Match, Seated
  <2>3. ~LiveNext(m) /\ ~WaitsNext(m)
    BY <2>2 DEF LiveNext, WaitsNext
  <2> QED
    BY <2>1, <2>2, <2>3, SettledIsOK DEF Settles
<1>7. ASSUME NEW g \in GameIds, Attach(g) PROVE SessionsOK
  <2> DEFINE m == games[g].match
  <2>1. Stored(g) /\ m \in MatchIds /\ queue' = queue /\ Decided(m)
    BY <1>0, <1>7 DEF Attach, IInv, HandlersOK, Stored, Game
  <2>2. m \notin queue
    BY <2>1, Queued DEF Decided
  <2>3. \A n \in MatchIds \ {m} : matches'[n] = matches[n]
    BY <1>0, <1>7 DEF Attach
  <2>4. matches'[m] = None \/ matches'[m].status = "started"
    BY <1>0, <1>7, <2>1 DEF Attach, Match
  <2> HIDE DEF m
  <2>5. ~LiveNext(m) /\ ~WaitsNext(m)
    BY <2>4 DEF LiveNext, WaitsNext
  <2> QED
    BY <2>1, <2>2, <2>3, <2>5, SettledIsOK DEF Settles
<1>8. ASSUME NEW g \in GameIds, CompleteGame(g) PROVE SessionsOK
  <2> DEFINE m == games[g].match
  <2>1. m \in MatchIds /\ queue' = queue \ {m} /\ matches' = [matches EXCEPT ![m] = None]
    BY <1>0, <1>8 DEF CompleteGame, Game, Pruned
  <2> HIDE DEF m
  <2>2. ~LiveNext(m) /\ ~WaitsNext(m) /\ \A n \in MatchIds \ {m} : matches'[n] = matches[n]
    BY <1>0, <2>1 DEF LiveNext, WaitsNext
  <2> QED
    BY <2>1, <2>2, SettledIsOK DEF Settles
<1>9. ASSUME NEW m \in MatchIds, BotExpires(m) PROVE SessionsOK
  <2>1. queue' = queue /\ Decided(m)
    BY <1>9 DEF BotExpires, BotTurn, IInv, HandlersOK
  <2>2. m \notin queue
    BY <2>1, Queued DEF Decided
  <2>3. \A n \in MatchIds \ {m} : matches'[n] = matches[n]
    BY <1>0, <1>9 DEF BotExpires
  <2>4. matches'[m] = None \/ matches'[m].status = "cancelled"
    BY <1>0, <1>9 DEF BotExpires, Match
  <2>5. ~LiveNext(m) /\ ~WaitsNext(m)
    BY <2>4 DEF LiveNext, WaitsNext
  <2> QED
    BY <2>1, <2>2, <2>3, <2>5, SettledIsOK DEF Settles
<1>10. CASE UNCHANGED <<matches, queue>>
  BY <1>0, <1>10 DEF IInv, SessionsOK, QueueIsWaiting, OneOpenSession, CodeNamesOneRoom, OpenFor, Live,
                     Private, Seated
<1>11. ASSUME NEW m \in MatchIds, PrepareCreation(m) PROVE SessionsOK
  BY <1>10, <1>11 DEF PrepareCreation
<1>12. ASSUME NEW w \in Wallets, NEW m \in MatchIds, SubmitCreation(w, m) PROVE SessionsOK
  BY <1>10, <1>12 DEF SubmitCreation
<1>13. ASSUME NEW w \in Wallets, NEW g \in GameIds, JoinGame(w, g) PROVE SessionsOK
  BY <1>10, <1>13 DEF JoinGame
<1>14. CASE BotStep
  BY <1>9, <1>10, <1>14 DEF BotStep, BotScan, BotReleases, BotSkips, BotSavesSecret, BotJoins,
                            BotIsJoined, BotGameOver, store
<1>15. CASE Crash \/ UNCHANGED vars
  BY <1>10, <1>15 DEF Crash, vars, store
<1> QED
  BY <1>1, <1>2, <1>3, <1>4, <1>5, <1>6, <1>7, <1>8, <1>11, <1>12, <1>13, <1>14, <1>15 DEF Next

-----------------------------------------------------------------------------
\* The bot's record is written only by the bot, who had its secret stored.
BotGame(g) == games[g] # None /\ games[g].joiner = Bot /\ ~games[g].completed
BotGameNext(g) == games'[g] # None /\ games'[g].joiner = Bot /\ ~games'[g].completed

LEMMA SecretsKept ==
    ASSUME IInv, [Next]_vars
    PROVE  BotKeepsItsSecret' /\ secrets' \subseteq GameIds
<1>0. /\ games \in [GameIds -> Game \cup {None}] /\ secrets \subseteq GameIds
      /\ \A g \in GameIds : BotGame(g) => g \in secrets
  BY DEF IInv, TypeOK, BotKeepsItsSecret, BotGame
<1> DEFINE Kept == secrets' \subseteq GameIds /\ \A g \in GameIds : BotGameNext(g) => g \in secrets'
<1>1. ASSUME UNCHANGED <<games, secrets>> PROVE Kept
  BY <1>0, <1>1 DEF BotGame, BotGameNext
<1>2. ASSUME NEW w \in Wallets, NEW m \in MatchIds, SubmitCreation(w, m) PROVE Kept
  <2>1. PICK g \in GameIds :
          games' = [games EXCEPT ![g] = [match |-> m, by |-> w, joiner |-> None, completed |-> FALSE]]
    BY <1>2 DEF SubmitCreation
  <2>2. games'[g].joiner # Bot /\ secrets' = secrets
    BY <1>0, <1>2, <2>1, MatchmakingAssumption DEF SubmitCreation
  <2> QED
    BY <1>0, <2>1, <2>2 DEF BotGame, BotGameNext
<1>3. ASSUME NEW w \in Wallets, NEW g \in GameIds, JoinGame(w, g) PROVE Kept
  <2>1. /\ games[g] \in Game /\ games' = [games EXCEPT ![g] = [games[g] EXCEPT !.joiner = w]]
        /\ secrets' = secrets
    BY <1>0, <1>3 DEF JoinGame
  <2>2. games'[g].joiner # Bot
    BY <1>0, <2>1, MatchmakingAssumption DEF Game
  <2> QED
    BY <1>0, <2>1, <2>2 DEF BotGame, BotGameNext
<1>4. ASSUME NEW g \in GameIds, CompleteGame(g) PROVE Kept
  <2>1. /\ games[g] \in Game /\ games' = [games EXCEPT ![g] = [games[g] EXCEPT !.completed = TRUE]]
        /\ secrets' = secrets \ {g}
    BY <1>0, <1>4 DEF CompleteGame
  <2>2. games'[g].completed
    BY <1>0, <2>1 DEF Game
  <2> QED
    BY <1>0, <2>1, <2>2 DEF BotGame, BotGameNext
<1>5. ASSUME NEW g \in GameIds, BotIsJoined(g) PROVE Kept
  <2>1. /\ g \in secrets \/ games[g].completed
        /\ secrets' = secrets
        /\ games' = games \/ (games' = [games EXCEPT ![g] = [games[g] EXCEPT !.joiner = Bot]]
                              /\ ~games[g].completed)
    BY <1>5 DEF BotIsJoined, IInv, HandlersOK
  <2>2. \A h \in GameIds \ {g} : games'[h] = games[h]
    BY <1>0, <2>1
  <2> QED
    BY <1>0, <2>1, <2>2 DEF BotGame, BotGameNext
<1>6. ASSUME NEW m \in MatchIds, BotSavesSecret(m) PROVE Kept
  <2>1. games' = games /\ secrets' = secrets \cup {scan[m].game} /\ scan[m].game \in GameIds
    BY <1>6 DEF BotSavesSecret, BotMayJoin, BotTurn, IInv, HandlersOK, Stored
  <2> QED
    BY <1>0, <2>1 DEF BotGame, BotGameNext
<1>7. ASSUME NEW w \in Wallets, NEW idle \in SUBSET Watched,
             \/ Join(w, idle)
             \/ \E code \in Codes : CreateRoom(w, code, idle) \/ JoinRoomByCode(w, code, idle)
             \/ \E m \in MatchIds : JoinRoom(w, m, idle) \/ OfferBot(w, m, idle)
      PROVE  Kept
  BY <1>1, <1>7 DEF Join, CreateRoom, JoinRoomByCode, JoinRoom, OfferBot
<1>8. ASSUME BotStep PROVE Kept
  BY <1>1, <1>5, <1>6, <1>8 DEF BotStep, BotScan, BotReleases, BotExpires, BotSkips,
                               BotJoins, BotGameOver, store
<1>9. ASSUME NEW m \in MatchIds, PrepareCreation(m) PROVE Kept
  BY <1>1, <1>9 DEF PrepareCreation
<1>10. ASSUME NEW g \in GameIds, Attach(g) PROVE Kept
  BY <1>1, <1>10 DEF Attach
<1>11. ASSUME NEW w \in Wallets, NEW m \in MatchIds, Leave(w, m) PROVE Kept
  BY <1>1, <1>11 DEF Leave
<1>12. ASSUME Crash \/ UNCHANGED vars PROVE Kept
  BY <1>1, <1>12 DEF Crash, vars, store
<1>13. Kept
  BY <1>2, <1>3, <1>4, <1>7, <1>8, <1>9, <1>10, <1>11, <1>12 DEF Next
<1> QED
  BY <1>13 DEF BotKeepsItsSecret, BotGameNext

-----------------------------------------------------------------------------
\* The rest of the store and of the handlers' memory.
RestOK ==
    /\ lease \in MatchIds \cup {None}
    /\ prepared \subseteq MatchIds \X Wallets
    /\ publishing \subseteq GameIds
    /\ joining \subseteq GameIds
    /\ DOMAIN scan \subseteq MatchIds
    /\ scan \in [DOMAIN scan -> [status : Status, game : GameIds \cup {None}]]
    /\ late \in BOOLEAN /\ orphaned \in BOOLEAN

LEMMA LeaseIs ==
    ASSUME IInv, NEW S
    PROVE  LeaseWithout(S) \in MatchIds \cup {None}
BY DEF IInv, TypeOK, LeaseWithout

LEMMA VisitedIs ==
    ASSUME RestOK, NEW m, Visited(m)
    PROVE  /\ DOMAIN scan' \subseteq MatchIds
           /\ scan' \in [DOMAIN scan' -> [status : Status, game : GameIds \cup {None}]]
BY DEF RestOK, Visited

LEMMA RestKept == IInv /\ [Next]_vars => RestOK'
<1> SUFFICES ASSUME IInv, [Next]_vars PROVE RestOK'
  OBVIOUS
<1>0. /\ RestOK /\ games \in [GameIds -> Game \cup {None}] /\ matches \in [MatchIds -> Match \cup {None}]
  BY DEF IInv, TypeOK, RestOK, history
<1>1. ASSUME lease' \in MatchIds \cup {None}, UNCHANGED <<prepared, publishing, joining, scan, history>>
      PROVE  RestOK'
  BY <1>0, <1>1 DEF RestOK, history
<1>2. ASSUME NEW w \in Wallets, NEW idle \in SUBSET Watched,
             \/ Join(w, idle)
             \/ \E code \in Codes : CreateRoom(w, code, idle) \/ JoinRoomByCode(w, code, idle)
             \/ \E m \in MatchIds : JoinRoom(w, m, idle) \/ OfferBot(w, m, idle)
      PROVE  RestOK'
  <2>1. lease' \in MatchIds \cup {None}
    BY <1>2, LeaseIs DEF Join, CreateRoom, JoinRoomByCode, JoinRoom, OfferBot
  <2> QED
    BY <1>1, <1>2, <2>1 DEF Join, CreateRoom, JoinRoomByCode, JoinRoom, OfferBot, memory
<1>3. ASSUME NEW w \in Wallets, NEW m \in MatchIds, Leave(w, m) PROVE RestOK'
  <2>1. lease' \in MatchIds \cup {None}
    BY <1>0, <1>3, LeaseIs DEF Leave, RestOK, history
  <2> QED
    BY <1>1, <1>3, <2>1 DEF Leave, memory
<1>4. ASSUME NEW m \in MatchIds, PrepareCreation(m) PROVE RestOK'
  <2>1. matches[m].players[matches[m].creator] \in Wallets
    BY <1>4 DEF PrepareCreation, MayPublish, IInv, SeatsOK, Seats
  <2>2. prepared' \subseteq MatchIds \X Wallets /\ UNCHANGED <<lease, publishing, joining, scan, history>>
    BY <1>0, <1>4, <2>1 DEF PrepareCreation, RestOK, memory
  <2> QED
    BY <1>0, <2>2 DEF RestOK, history
<1>5. ASSUME NEW w \in Wallets, NEW m \in MatchIds, SubmitCreation(w, m) PROVE RestOK'
  BY <1>0, <1>5 DEF SubmitCreation, RestOK, history
<1>6. ASSUME NEW g \in GameIds, Attach(g) PROVE RestOK'
  BY <1>0, <1>6 DEF Attach, RestOK, history
<1>7. ASSUME NEW g \in GameIds, CompleteGame(g) PROVE RestOK'
  BY <1>0, <1>7 DEF CompleteGame, RestOK, memory, history
<1>8. ASSUME NEW w \in Wallets, NEW g \in GameIds, JoinGame(w, g) PROVE RestOK'
  BY <1>0, <1>8 DEF JoinGame, RestOK, memory, history
<1>9. CASE Crash
  <2>1. /\ publishing' = {} /\ joining' = {} /\ scan' = << >> /\ UNCHANGED <<lease, prepared, history>>
        /\ DOMAIN << >> = {} /\ << >> \in [{} -> [status : Status, game : GameIds \cup {None}]]
    BY <1>9 DEF Crash, store
  <2> QED
    BY <1>0, <2>1 DEF RestOK, history
<1>10. CASE UNCHANGED vars
  BY <1>0, <1>10 DEF vars, store, memory, history, RestOK, history
<1>11. CASE BotScan
  <2>1. /\ UNCHANGED <<lease, prepared, publishing, joining, history>>
        /\ scan' = [m \in BotMatches |-> [status |-> matches[m].status, game |-> matches[m].game]]
    BY <1>11 DEF BotScan, store
  <2>2. \A m \in BotMatches : m \in MatchIds /\ matches[m] \in Match
    BY <1>0 DEF BotMatches
  <2>3. /\ DOMAIN scan' = BotMatches /\ BotMatches \subseteq MatchIds
        /\ scan' \in [BotMatches -> [status : Status, game : GameIds \cup {None}]]
    BY <2>1, <2>2 DEF Match
  <2> QED
    BY <1>0, <2>1, <2>3 DEF RestOK, history
<1>12. ASSUME NEW m \in MatchIds, BotReleases(m) \/ BotSkips(m) PROVE RestOK'
  <2>1. /\ Visited(m) /\ lease' \in MatchIds \cup {None}
        /\ UNCHANGED <<prepared, publishing, joining, history>>
    BY <1>0, <1>12, LeaseIs DEF BotReleases, BotSkips, Released, RestOK, store, history
  <2> QED
    BY <1>0, <2>1, VisitedIs DEF RestOK, history
<1>13. ASSUME NEW m \in MatchIds, BotExpires(m) PROVE RestOK'
  <2>1. /\ UNCHANGED <<lease, prepared, publishing, joining, history>> /\ m \in DOMAIN scan
        /\ scan' = [scan EXCEPT ![m].status = "cancelled"]
    BY <1>13 DEF BotExpires, BotTurn
  <2>2. /\ DOMAIN scan' = DOMAIN scan
        /\ scan' \in [DOMAIN scan -> [status : Status, game : GameIds \cup {None}]]
    BY <1>0, <2>1 DEF RestOK, Status
  <2> QED
    BY <1>0, <2>1, <2>2 DEF RestOK, history
<1>14. ASSUME NEW m \in MatchIds, BotSavesSecret(m) PROVE RestOK'
  BY <1>0, <1>14 DEF BotSavesSecret, RestOK, memory, history
<1>15. ASSUME NEW m \in MatchIds, BotJoins(m) PROVE RestOK'
  <2>1. scan[m].game \in GameIds
    BY <1>15 DEF BotJoins, BotMayJoin, BotTurn, IInv, HandlersOK, Stored
  <2>2. Visited(m) /\ joining' \subseteq GameIds /\ UNCHANGED <<lease, prepared, publishing, history>>
    BY <1>15, <2>1 DEF BotJoins, store
  <2> QED
    BY <1>0, <2>2, VisitedIs DEF RestOK, history
<1>16. ASSUME NEW g \in GameIds, BotIsJoined(g) PROVE RestOK'
  BY <1>0, <1>16 DEF BotIsJoined, RestOK, history
<1>17. ASSUME NEW g \in GameIds, BotGameOver(g) PROVE RestOK'
  BY <1>0, <1>17, LeaseIs DEF BotGameOver, RestOK, memory, history
<1>18. CASE BotStep
  BY <1>11, <1>12, <1>13, <1>14, <1>15, <1>16, <1>17, <1>18 DEF BotStep
<1> QED
  BY <1>2, <1>3, <1>4, <1>5, <1>6, <1>7, <1>8, <1>9, <1>10, <1>18 DEF Next

-----------------------------------------------------------------------------
(***************************************************************************)
(* The invariant                                                           *)
(***************************************************************************)
LEMMA InitInv == Init => IInv
<1> SUFFICES ASSUME Init PROVE IInv
  OBVIOUS
<1>1. MaxMatches \in Nat /\ MaxGames \in Nat /\ \A m \in MatchIds : matches[m] = None
  BY MatchmakingAssumption DEF Init
<1>2. \A g \in GameIds : games[g] = None
  BY DEF Init
<1>3. DOMAIN scan = {} /\ scan \in [{} -> [status : Status, game : GameIds \cup {None}]]
  BY DEF Init
<1>4. TypeOK
  <2>1. DOMAIN scan \subseteq MatchIds /\ scan \in [DOMAIN scan -> [status : Status, game : GameIds \cup {None}]]
    BY <1>3
  <2>2. /\ matches \in [MatchIds -> Match \cup {None}] /\ games \in [GameIds -> Game \cup {None}]
        /\ opened \in 0..MaxMatches
    BY <1>1 DEF Init
  <2> HIDE DEF MatchIds, GameIds
  <2> QED
    BY <1>1, <2>1, <2>2 DEF Init, TypeOK
<1>5. Allocated /\ SeatsOK /\ StartedOK /\ BotOK
  BY <1>1 DEF Allocated, SeatsOK, StartedOK, BotOK
<1>6. HandlersOK
  BY <1>3 DEF Init, HandlersOK
<1>7. QueueIsWaiting /\ OneOpenSession /\ CodeNamesOneRoom
  BY <1>1 DEF Init, QueueIsWaiting, OneOpenSession, CodeNamesOneRoom, OpenFor, Live
<1>8. BotKeepsItsSecret
  BY <1>2 DEF BotKeepsItsSecret
<1> QED
  BY <1>4, <1>5, <1>6, <1>7, <1>8 DEF IInv

LEMMA NextInv == IInv /\ [Next]_vars => IInv'
<1> SUFFICES ASSUME IInv, [Next]_vars PROVE IInv'
  OBVIOUS
<1>1. MatchesStep /\ GamesStep
  BY EveryMatchesStep, EveryGamesStep
<1>2. /\ Allocated' /\ SeatsOK' /\ StartedOK' /\ BotOK'
      /\ \A m \in MatchIds : matches'[m] # None => Len(matches'[m].players) <= 2
  BY <1>1, MatchesKept
<1>3. HandlersOK'
  BY <1>1, HandlersKept
<1>4. SessionsOK
  BY EverySessionsStep
<1>5. BotKeepsItsSecret' /\ secrets' \subseteq GameIds
  BY SecretsKept
<1>6. RestOK'
  BY RestKept
<1>7. TypeOK'
  BY <1>1, <1>2, <1>4, <1>5, <1>6 DEF TypeOK, RestOK, MatchesStep, GamesStep, SessionsOK
<1> QED
  BY <1>2, <1>3, <1>4, <1>5, <1>7 DEF IInv, SessionsOK

\* Whatever is stored and remembered, by any number of wallets, is what the
\* store and the handlers of src/backend-game-store.js may put there.
THEOREM TypeCorrect == Spec => []TypeOK
<1>1. IInv => TypeOK
  BY DEF IInv
<1> QED
  BY InitInv, NextInv, <1>1, PTL DEF Spec

\* The stored queue is exactly the public searches that wait
\* (joinMatchmaking, leaveMatch, claimWaitingMatchForBot, sweepIdleMatches).
THEOREM QueueHoldsWaiting == Spec => []QueueIsWaiting
<1>1. IInv => QueueIsWaiting
  BY DEF IInv
<1> QED
  BY InitInv, NextInv, <1>1, PTL DEF Spec

\* cancelActiveMatchesFor leaves a wallet one session of its own.
THEOREM SessionIsOne == Spec => []OneOpenSession
<1>1. IInv => OneOpenSession
  BY DEF IInv
<1> QED
  BY InitInv, NextInv, <1>1, PTL DEF Spec

\* createPrivateMatch never gives a code out while a live room has it.
THEOREM CodeIsOneRoom == Spec => []CodeNamesOneRoom
<1>1. IInv => CodeNamesOneRoom
  BY DEF IInv
<1> QED
  BY InitInv, NextInv, <1>1, PTL DEF Spec

\* The secret of src/fallback-bot-service.js is in the store as long as the
\* bot's game may need it, through every crash.
THEOREM SecretIsKept == Spec => []BotKeepsItsSecret
<1>1. IInv => BotKeepsItsSecret
  BY DEF IInv
<1> QED
  BY InitInv, NextInv, <1>1, PTL DEF Spec

\* No step seats anybody in a match that is no longer waiting.
SeatsStay ==
    \A m \in MatchIds :
        matches[m] # None /\ matches[m].status # "waiting" => Seated(m)' \subseteq Seated(m)

LEMMA SeatsStayStep == IInv /\ MatchesStep => SeatsStay
<1> SUFFICES ASSUME IInv, MatchesStep, NEW m \in MatchIds,
                    matches[m] # None, matches[m].status # "waiting"
             PROVE  Seated(m)' \subseteq Seated(m)
  BY DEF SeatsStay
<1>1. ~Pairs(m)
  BY DEF Pairs
<1>2. ~Opens(m)
  <2>1. m <= opened /\ opened \in Nat
    BY MatchmakingAssumption DEF IInv, TypeOK, Allocated
  <2> QED
    BY <2>1 DEF Opens
<1>3. CASE Ends(m)
  BY <1>3 DEF Ends, Seated, Range2
<1> QED
  BY <1>1, <1>2, <1>3 DEF MatchesStep, Seated

\* Once a match has its pair, no queue, link, code or offer seats a third.
THEOREM SeatIsFinal == Spec => SeatIsTakenOnce
<1>1. IInv /\ [Next]_vars => SeatsStay
  BY EveryMatchesStep, SeatsStayStep
<1>2. IInv /\ [Next]_vars =>
        [\A m \in MatchIds : matches[m] # None /\ matches[m].status # "waiting"
                                => Seated(m)' \subseteq Seated(m)]_vars
  BY <1>1 DEF SeatsStay
<1> QED
  BY InitInv, NextInv, <1>2, PTL DEF Spec, SeatIsTakenOnce
-----------------------------------------------------------------------------
(***************************************************************************)
(* The bot in one game                                                     *)
(*                                                                         *)
(* A match, once paired, is never open again, and the match of an ended    *)
(* game is gone for good.  As long as nothing was attached late and no     *)
(* join of the bot lost its match, the lease names the one match the bot   *)
(* sits in, plays in or is joining.                                        *)
(***************************************************************************)
PastOK ==
    /\ \A p \in prepared : Decided(p[1])
    /\ \A g \in GameIds : games[g] # None =>
          /\ Decided(games[g].match)
          /\ games[g].completed => matches[games[g].match] = None
    /\ \A g, h \in joining : g = h

Over(m) == matches[m] = None \/ matches[m].status = "cancelled"
OverNext(m) == matches'[m] = None \/ matches'[m].status = "cancelled"

\* The bot has a seat in a pair.
Runs(m) ==
    /\ matches[m] # None
    /\ matches[m].status \in {"matched", "started"}
    /\ Bot \in Range2(matches[m].players)
RunsNext(m) ==
    /\ matches'[m] # None
    /\ matches'[m].status \in {"matched", "started"}
    /\ Bot \in Range2(matches'[m].players)

\* The bot's join of game g has been checked, and would be recorded.
Pending(g) == g \in joining /\ games[g].joiner = None /\ ~games[g].completed
PendingNext(g) == g \in joining' /\ games'[g].joiner = None /\ ~games'[g].completed

\* Game g is the one its match knows.
Plays(g, statuses) ==
    LET r == matches[games[g].match] IN r # None /\ r.game = g /\ r.status \in statuses
PlaysNext(g, statuses) ==
    LET r == matches'[games'[g].match] IN r # None /\ r.game = g /\ r.status \in statuses

Tidy ==
    /\ \A m \in DOMAIN scan : scan[m].status = "cancelled" => Over(m)
    /\ \A m \in MatchIds : Runs(m) => lease = m
    /\ \A g \in GameIds : BotGame(g) =>
          /\ lease = games[g].match
          /\ matches[games[g].match] = None \/ Plays(g, {"started", "cancelled"})
    /\ \A g \in joining : Pending(g) =>
          /\ lease = games[g].match
          /\ Plays(g, {"started"})
          /\ \A h \in GameIds : ~BotGame(h)
    /\ \A g, h \in GameIds : BotGame(g) /\ BotGame(h) => g = h

TidyNext ==
    /\ \A m \in DOMAIN scan' : scan'[m].status = "cancelled" => OverNext(m)
    /\ \A m \in MatchIds : RunsNext(m) => lease' = m
    /\ \A g \in GameIds : BotGameNext(g) =>
          /\ lease' = games'[g].match
          /\ matches'[games'[g].match] = None \/ PlaysNext(g, {"started", "cancelled"})
    /\ \A g \in joining' : PendingNext(g) =>
          /\ lease' = games'[g].match
          /\ PlaysNext(g, {"started"})
          /\ \A h \in GameIds : ~BotGameNext(h)
    /\ \A g, h \in GameIds : BotGameNext(g) /\ BotGameNext(h) => g = h

Calm == ~late /\ ~orphaned
BotInv == PastOK /\ (Calm => Tidy)

LEMMA TidyNextIs == TidyNext <=> Tidy'
BY DEF TidyNext, Tidy, OverNext, Over, RunsNext, Runs, BotGameNext, BotGame, PendingNext, Pending,
       PlaysNext, Plays

\* What a step may do to a match without touching what the bot is committed
\* to: nothing; delete it, unless the bot joins its game; open it; pair two
\* wallets; call it off; start it; or let somebody go from it.
Onward(m) ==
    \/ matches'[m] = matches[m]
    \/ matches'[m] = None /\ \A g \in joining' : PendingNext(g) => games'[g].match # m
    \/ /\ matches[m] = None /\ m = opened + 1
       /\ matches'[m] # None /\ matches'[m].status = "waiting"
    \/ /\ matches[m] # None /\ matches'[m] # None
       /\ \/ matches[m].status = "waiting" /\ Bot \notin Range2(matches'[m].players)
          \/ Live(m) /\ matches'[m].status = "cancelled"
          \/ joining' = {} /\ matches'[m].status = "cancelled" /\ matches'[m].game = matches[m].game
          \/ /\ matches[m].status \in {"matched", "started"} /\ matches'[m].status = "started"
             /\ Range2(matches'[m].players) \subseteq Range2(matches[m].players)
             /\ matches[m].status = "started" => matches'[m].game = matches[m].game

\* What it may do to the lease: give it back, when nothing holds it.
LeaseKept ==
    \/ lease' = lease
    \/ /\ lease' = None /\ ~RunsNext(lease)
       /\ \A g \in GameIds : ~BotGameNext(g)
       /\ \A g \in joining' : PendingNext(g) => games[g].match # lease

\* A step in which the bot gets no seat, no game and no join to make.
Quiet ==
    /\ \A m \in MatchIds : Onward(m)
    /\ LeaseKept
    /\ \A g \in GameIds : BotGameNext(g) => BotGame(g) /\ games'[g].match = games[g].match
    /\ joining' \subseteq joining
    /\ \A g \in joining' : PendingNext(g) => Pending(g) /\ games'[g].match = games[g].match
    /\ \A m \in DOMAIN scan' : scan'[m].status = "cancelled" =>
          OverNext(m) \/ (m \in DOMAIN scan /\ scan[m].status = "cancelled")

LEMMA QuietKeeps ==
    ASSUME IInv, PastOK, Tidy, Quiet
    PROVE  TidyNext
<1>0. opened \in Nat /\ lease \in MatchIds \cup {None} /\ games \in [GameIds -> Game \cup {None}]
      /\ None \notin MatchIds
  BY MatchmakingAssumption, NoneAssumption DEF IInv, TypeOK
<1>1. \A m : Decided(m) => m # opened + 1 /\ (matches[m] # None => matches[m].status # "waiting")
  <2>1. \A m : Decided(m) => m <= opened
    BY DEF Decided
  <2> QED
    BY <1>0, <2>1 DEF Decided
<1>2. ASSUME NEW m \in DOMAIN scan', scan'[m].status = "cancelled" PROVE OverNext(m)
  <2>1. CASE m \in DOMAIN scan /\ scan[m].status = "cancelled"
    <3>1. m \in MatchIds /\ Decided(m) /\ Over(m)
      BY <2>1 DEF IInv, TypeOK, HandlersOK, Tidy
    <3>2. Onward(m) /\ m # opened + 1
      BY <1>1, <3>1 DEF Quiet
    <3> QED
      BY <3>1, <3>2 DEF Onward, Over, OverNext, Live
  <2> QED
    BY <1>2, <2>1 DEF Quiet
<1>3. ASSUME NEW m \in MatchIds, RunsNext(m) PROVE lease' = m
  <2>1. Onward(m)
    BY DEF Quiet
  <2>2. Runs(m)
    BY <1>3, <2>1 DEF Onward, Runs, RunsNext
  <2>3. lease = m
    BY <2>2 DEF Tidy
  <2> QED
    BY <1>3, <2>3 DEF Quiet, LeaseKept
<1>4. ASSUME NEW g \in GameIds, BotGameNext(g)
      PROVE  /\ lease' = games'[g].match
             /\ matches'[games'[g].match] = None \/ PlaysNext(g, {"started", "cancelled"})
  <2> DEFINE m == games[g].match
  <2>1. BotGame(g) /\ games'[g].match = m
    BY <1>4 DEF Quiet
  <2>2. m \in MatchIds /\ Decided(m)
    BY <1>0, <2>1 DEF BotGame, Game, PastOK
  <2>3. lease = m /\ (matches[m] = None \/ Plays(g, {"started", "cancelled"}))
    BY <2>1 DEF Tidy
  <2>4. lease' = lease
    BY <1>4 DEF Quiet, LeaseKept
  <2>5. Onward(m) /\ m # opened + 1
    BY <1>1, <2>2 DEF Quiet
  <2>6. CASE matches[m] = None
    BY <2>5, <2>6, <2>1, <2>3, <2>4 DEF Onward
  <2>7. CASE matches[m] # None
    <3>1. matches[m].game = g /\ matches[m].status \in {"started", "cancelled"}
      BY <2>3, <2>7 DEF Plays
    <3> HIDE DEF m
    <3>2. matches'[m] = None \/ (matches'[m].game = g /\ matches'[m].status \in {"started", "cancelled"})
      BY <2>5, <2>7, <3>1 DEF Onward, Live
    <3> QED
      BY <2>1, <2>3, <2>4, <3>2 DEF PlaysNext
  <2> QED
    BY <2>6, <2>7
<1>5. ASSUME NEW g \in joining', PendingNext(g)
      PROVE  /\ lease' = games'[g].match
             /\ PlaysNext(g, {"started"})
             /\ \A h \in GameIds : ~BotGameNext(h)
  <2> DEFINE m == games[g].match
  <2>1. Pending(g) /\ games'[g].match = m /\ g \in joining
    BY <1>5 DEF Quiet
  <2>2. Stored(g)
    BY <2>1 DEF IInv, HandlersOK
  <2>3. m \in MatchIds
    BY <1>0, <2>2 DEF Stored, Game
  <2>4. lease = m /\ Plays(g, {"started"}) /\ \A h \in GameIds : ~BotGame(h)
    BY <2>1 DEF Tidy
  <2>5. lease' = lease
    BY <1>5, <2>4 DEF Quiet, LeaseKept
  <2>6. Onward(m) /\ matches[m] # None /\ matches[m].game = g /\ matches[m].status = "started"
    BY <2>3, <2>4 DEF Quiet, Plays
  <2>7. matches'[m] # None /\ joining' # {}
    BY <1>5, <2>1, <2>6 DEF Onward
  <2> HIDE DEF m
  <2>8. matches'[m].game = g /\ matches'[m].status = "started"
    BY <2>6, <2>7 DEF Onward, Live
  <2>9. \A h \in GameIds : ~BotGameNext(h)
    BY <2>4 DEF Quiet
  <2> QED
    BY <2>1, <2>4, <2>5, <2>7, <2>8, <2>9 DEF PlaysNext
<1>6. \A g, h \in GameIds : BotGameNext(g) /\ BotGameNext(h) => g = h
  BY DEF Quiet, Tidy
<1> QED
  BY <1>2, <1>3, <1>4, <1>5, <1>6 DEF TidyNext

\* What the store and the handlers keep of the past.
LEMMA MatchStaysGone ==
    ASSUME IInv, MatchesStep, NEW m \in MatchIds, Decided(m), matches[m] = None
    PROVE  matches'[m] = None
<1>1. opened \in Nat /\ m <= opened
  BY MatchmakingAssumption DEF IInv, TypeOK, Decided
<1>2. ~Opens(m) /\ ~Pairs(m) /\ ~Ends(m)
  BY <1>1 DEF Opens, Pairs, Ends
<1> QED
  BY <1>2 DEF MatchesStep

LEMMA PreparedKept ==
    ASSUME IInv, [Next]_vars, MatchesStep, PastOK
    PROVE  \A p \in prepared' : DecidedNext(p[1])
<1>1. \A p \in prepared : p[1] \in MatchIds /\ Decided(p[1])
  BY DEF IInv, TypeOK, PastOK
<1>2. \A p \in prepared : DecidedNext(p[1])
  BY <1>1, DecidedStays
<1>3. ASSUME NEW m \in MatchIds, PrepareCreation(m) PROVE \A p \in prepared' : DecidedNext(p[1])
  <2>1. Decided(m)
    BY <1>3 DEF PrepareCreation, MayPublish, Decided, IInv, Allocated
  <2>2. DecidedNext(m)
    BY <2>1, DecidedStays
  <2> QED
    BY <1>2, <1>3, <2>2 DEF PrepareCreation
<1>4. ASSUME prepared' = prepared PROVE \A p \in prepared' : DecidedNext(p[1])
  BY <1>2, <1>4
<1>5. ASSUME NEW w \in Wallets, NEW idle \in SUBSET Watched,
             \/ Join(w, idle)
             \/ \E code \in Codes : CreateRoom(w, code, idle) \/ JoinRoomByCode(w, code, idle)
             \/ \E m \in MatchIds : JoinRoom(w, m, idle) \/ OfferBot(w, m, idle)
      PROVE  prepared' = prepared
  BY <1>5 DEF Join, CreateRoom, JoinRoomByCode, JoinRoom, OfferBot
<1>6. ASSUME BotStep PROVE prepared' = prepared
  BY <1>6 DEF BotStep, BotScan, BotReleases, BotExpires, BotSkips, BotSavesSecret, BotJoins,
              BotIsJoined, BotGameOver, store
<1>7. ASSUME NEW w \in Wallets, NEW m \in MatchIds, Leave(w, m) \/ SubmitCreation(w, m)
      PROVE  prepared' = prepared
  BY <1>7 DEF Leave, SubmitCreation
<1>8. ASSUME NEW g \in GameIds, Attach(g) \/ CompleteGame(g) PROVE prepared' = prepared
  BY <1>8 DEF Attach, CompleteGame
<1>9. ASSUME NEW w \in Wallets, NEW g \in GameIds, JoinGame(w, g) PROVE prepared' = prepared
  BY <1>9 DEF JoinGame
<1>10. ASSUME Crash \/ UNCHANGED vars PROVE prepared' = prepared
  BY <1>10 DEF Crash, vars, store
<1> QED
  BY <1>3, <1>4, <1>5, <1>6, <1>7, <1>8, <1>9, <1>10 DEF Next

\* Which steps store a game, end one, or write anything else of one.
LEMMA GamesChange ==
    ASSUME IInv, [Next]_vars
    PROVE  \/ games' = games
           \/ \E w \in Wallets, m \in MatchIds : SubmitCreation(w, m)
           \/ \E g \in GameIds : CompleteGame(g) \/ (BotIsJoined(g) /\ games' # games)
           \/ \E w \in Wallets, g \in GameIds : JoinGame(w, g)
<1>1. ASSUME NEW w \in Wallets, NEW idle \in SUBSET Watched,
             \/ Join(w, idle)
             \/ \E code \in Codes : CreateRoom(w, code, idle) \/ JoinRoomByCode(w, code, idle)
             \/ \E m \in MatchIds : JoinRoom(w, m, idle) \/ OfferBot(w, m, idle)
      PROVE  games' = games
  BY <1>1 DEF Join, CreateRoom, JoinRoomByCode, JoinRoom, OfferBot
<1>2. ASSUME BotStep PROVE games' = games \/ \E g \in GameIds : BotIsJoined(g) /\ games' # games
  BY <1>2 DEF BotStep, BotScan, BotReleases, BotExpires, BotSkips, BotSavesSecret, BotJoins,
              BotGameOver, store
<1>3. ASSUME NEW w \in Wallets, NEW m \in MatchIds, Leave(w, m)
      PROVE  games' = games
  BY <1>3 DEF Leave
<1>4. ASSUME NEW m \in MatchIds, PrepareCreation(m) PROVE games' = games
  BY <1>4 DEF PrepareCreation
<1>5. ASSUME NEW g \in GameIds, Attach(g) PROVE games' = games
  BY <1>5 DEF Attach
<1>6. ASSUME Crash \/ UNCHANGED vars PROVE games' = games
  BY <1>6 DEF Crash, vars, store
<1> QED
  BY <1>1, <1>2, <1>3, <1>4, <1>5, <1>6 DEF Next

\* One game's record is written, and the others stay as they are.
Writes(g, r) == r \in Game /\ games' = [games EXCEPT ![g] = r]

LEMMA GameSubmitted ==
    ASSUME NEW w \in Wallets, NEW m \in MatchIds, SubmitCreation(w, m)
    PROVE  \E g \in GameIds, r \in Game :
              /\ games[g] = None /\ Writes(g, r)
              /\ r.match = m /\ r.joiner = None /\ ~r.completed
<1>1. PICK g \in GameIds :
        /\ games[g] = None
        /\ games' = [games EXCEPT ![g] = [match |-> m, by |-> w, joiner |-> None, completed |-> FALSE]]
  BY DEF SubmitCreation
<1>2. [match |-> m, by |-> w, joiner |-> None, completed |-> FALSE] \in Game
  BY DEF Game
<1> QED
  BY <1>1, <1>2 DEF Writes

LEMMA GameJoined ==
    ASSUME IInv, NEW g \in GameIds, NEW w \in People, games[g] # None,
           games' = [games EXCEPT ![g].joiner = w]
    PROVE  \E r \in Game :
              /\ Writes(g, r) /\ r.match = games[g].match
              /\ r.joiner = w /\ r.completed = games[g].completed
<1>1. games[g] \in Game /\ games' = [games EXCEPT ![g] = [games[g] EXCEPT !.joiner = w]]
  BY DEF IInv, TypeOK
<1> DEFINE r == [games[g] EXCEPT !.joiner = w]
<1>2. r \in Game /\ r.match = games[g].match /\ r.joiner = w /\ r.completed = games[g].completed
  BY <1>1 DEF Game, People
<1> QED
  BY <1>1, <1>2 DEF Writes

LEMMA GameCompleted ==
    ASSUME IInv, NEW g \in GameIds, CompleteGame(g)
    PROVE  \E r \in Game :
              /\ Writes(g, r) /\ r.match = games[g].match
              /\ r.joiner = games[g].joiner /\ r.completed
<1>1. games[g] \in Game /\ games' = [games EXCEPT ![g] = [games[g] EXCEPT !.completed = TRUE]]
  BY DEF IInv, TypeOK, CompleteGame
<1> DEFINE r == [games[g] EXCEPT !.completed = TRUE]
<1>2. r \in Game /\ r.match = games[g].match /\ r.joiner = games[g].joiner /\ r.completed
  BY <1>1 DEF Game
<1> QED
  BY <1>1, <1>2 DEF Writes

LEMMA Written ==
    ASSUME IInv, NEW g \in GameIds, NEW r \in Game, Writes(g, r)
    PROVE  games'[g] = r /\ r # None /\ \A h \in GameIds \ {g} : games'[h] = games[h]
BY NoneAssumption DEF IInv, TypeOK, Writes

PastGames(g) ==
    /\ DecidedNext(games'[g].match)
    /\ games'[g].completed => matches'[games'[g].match] = None

LEMMA PastGameKept ==
    ASSUME IInv, MatchesStep, PastOK, NEW g \in GameIds, games[g] # None, NEW r, games'[g] = r,
           r.match = games[g].match,
           r.completed => games[g].completed \/ matches'[games[g].match] = None
    PROVE  PastGames(g)
<1> DEFINE m == games[g].match
<1>1. m \in MatchIds /\ Decided(m) /\ (games[g].completed => matches[m] = None)
  BY DEF IInv, TypeOK, Game, PastOK
<1>2. DecidedNext(m) /\ (games[g].completed => matches'[m] = None)
  BY <1>1, DecidedStays, MatchStaysGone
<1> QED
  BY <1>2 DEF PastGames

LEMMA PastGamesKept ==
    ASSUME IInv, [Next]_vars, MatchesStep, PastOK
    PROVE  \A g \in GameIds : games'[g] # None => PastGames(g)
<1>1. ASSUME NEW g \in GameIds, games[g] # None, games'[g] = games[g] PROVE PastGames(g)
  BY <1>1, PastGameKept
<1>2. CASE games' = games
  BY <1>1, <1>2
<1>3. ASSUME NEW w \in Wallets, NEW m \in MatchIds, SubmitCreation(w, m)
      PROVE  \A g \in GameIds : games'[g] # None => PastGames(g)
  <2>1. PICK g \in GameIds, r \in Game :
              /\ games[g] = None /\ Writes(g, r)
              /\ r.match = m /\ r.joiner = None /\ ~r.completed
    BY <1>3, GameSubmitted
  <2>2. games'[g] = r /\ r # None /\ \A h \in GameIds \ {g} : games'[h] = games[h]
    BY <2>1, Written
  <2>3. <<m, w>> \in prepared
    BY <1>3 DEF SubmitCreation
  <2>4. Decided(m)
    BY <2>3 DEF PastOK
  <2>5. DecidedNext(m)
    BY <2>4, DecidedStays
  <2> QED
    BY <1>1, <2>1, <2>2, <2>5 DEF PastGames
<1>4. ASSUME NEW g \in GameIds, CompleteGame(g)
      PROVE  \A h \in GameIds : games'[h] # None => PastGames(h)
  <2>1. PICK r \in Game :
              /\ Writes(g, r) /\ r.match = games[g].match
              /\ r.joiner = games[g].joiner /\ r.completed
    BY <1>4, GameCompleted
  <2>2. games'[g] = r /\ r # None /\ \A h \in GameIds \ {g} : games'[h] = games[h]
    BY <2>1, Written
  <2>3. games[g] # None /\ games[g].match \in MatchIds
    BY <1>4 DEF CompleteGame, IInv, TypeOK, Game
  <2>4. matches'[games[g].match] = None
    BY <1>4, <2>3 DEF CompleteGame, IInv, TypeOK
  <2>5. PastGames(g)
    BY <2>1, <2>2, <2>3, <2>4, PastGameKept
  <2> QED
    BY <1>1, <2>2, <2>5
<1>5. ASSUME NEW g \in GameIds, NEW w \in People, games[g] # None,
             games' = [games EXCEPT ![g].joiner = w]
      PROVE  \A h \in GameIds : games'[h] # None => PastGames(h)
  <2>1. PICK r \in Game :
              /\ Writes(g, r) /\ r.match = games[g].match
              /\ r.joiner = w /\ r.completed = games[g].completed
    BY <1>5, GameJoined
  <2>2. games'[g] = r /\ r # None /\ \A h \in GameIds \ {g} : games'[h] = games[h]
    BY <2>1, Written
  <2>3. PastGames(g)
    BY <1>5, <2>1, <2>2, PastGameKept
  <2> QED
    BY <1>1, <2>2, <2>3
<1>6. ASSUME NEW w \in Wallets, NEW g \in GameIds, JoinGame(w, g)
      PROVE  \A h \in GameIds : games'[h] # None => PastGames(h)
  BY <1>5, <1>6 DEF JoinGame, People
<1>7. ASSUME NEW g \in GameIds, BotIsJoined(g), games' # games
      PROVE  \A h \in GameIds : games'[h] # None => PastGames(h)
  BY <1>5, <1>7 DEF BotIsJoined, IInv, HandlersOK, Stored, People
<1> QED
  BY <1>2, <1>3, <1>4, <1>6, <1>7, GamesChange

LEMMA JoiningIsOne ==
    ASSUME [Next]_vars, PastOK
    PROVE  \A g, h \in joining' : g = h
<1>1. ASSUME joining' \subseteq joining PROVE \A g, h \in joining' : g = h
  BY <1>1 DEF PastOK
<1>2. ASSUME NEW w \in Wallets, NEW idle \in SUBSET Watched,
             \/ Join(w, idle)
             \/ \E code \in Codes : CreateRoom(w, code, idle) \/ JoinRoomByCode(w, code, idle)
             \/ \E m \in MatchIds : JoinRoom(w, m, idle) \/ OfferBot(w, m, idle)
      PROVE  joining' = joining
  BY <1>2 DEF Join, CreateRoom, JoinRoomByCode, JoinRoom, OfferBot, memory
<1>3. ASSUME BotStep PROVE \A g, h \in joining' : g = h
  <2>1. ASSUME NEW m \in MatchIds, BotJoins(m) PROVE \A g, h \in joining' : g = h
    BY <2>1 DEF BotJoins
  <2>2. ASSUME NEW m \in MatchIds, BotReleases(m) \/ BotExpires(m) \/ BotSkips(m) \/ BotSavesSecret(m)
        PROVE  joining' = joining
    BY <2>2 DEF BotReleases, BotExpires, BotSkips, BotSavesSecret, memory
  <2>3. ASSUME NEW g \in GameIds, BotIsJoined(g) \/ BotGameOver(g) PROVE joining' \subseteq joining
    BY <2>3 DEF BotIsJoined, BotGameOver, memory
  <2>4. ASSUME BotScan PROVE joining' = joining
    BY <2>4 DEF BotScan
  <2> QED
    BY <1>1, <1>3, <2>1, <2>2, <2>3, <2>4 DEF BotStep
<1>4. ASSUME NEW w \in Wallets, NEW m \in MatchIds, Leave(w, m) \/ SubmitCreation(w, m)
      PROVE  joining' = joining
  BY <1>4 DEF Leave, SubmitCreation, memory
<1>5. ASSUME NEW g \in GameIds, Attach(g) \/ CompleteGame(g) PROVE joining' = joining
  BY <1>5 DEF Attach, CompleteGame, memory
<1>6. ASSUME NEW w \in Wallets, NEW g \in GameIds, JoinGame(w, g) PROVE joining' = joining
  BY <1>6 DEF JoinGame, memory
<1>7. ASSUME NEW m \in MatchIds, PrepareCreation(m) PROVE joining' = joining
  BY <1>7 DEF PrepareCreation, memory
<1>8. ASSUME Crash \/ UNCHANGED vars PROVE joining' \subseteq joining
  BY <1>8 DEF Crash, vars, memory
<1> QED
  BY <1>1, <1>2, <1>3, <1>4, <1>5, <1>6, <1>7, <1>8 DEF Next

LEMMA PastKept == IInv /\ [Next]_vars /\ PastOK => PastOK'
<1> SUFFICES ASSUME IInv, [Next]_vars, PastOK PROVE PastOK'
  OBVIOUS
<1>1. MatchesStep
  BY EveryMatchesStep
<1>2. \A p \in prepared' : DecidedNext(p[1])
  BY <1>1, PreparedKept
<1>3. \A g \in GameIds : games'[g] # None => PastGames(g)
  BY <1>1, PastGamesKept
<1>4. \A g, h \in joining' : g = h
  BY JoiningIsOne
<1> QED
  BY <1>2, <1>3, <1>4 DEF PastOK, PastGames, DecidedNext, Decided

\* The games, joins and scans of a step that leaves them alone.
LEMMA QuietWhen ==
    ASSUME IInv, \A m \in MatchIds : Onward(m), LeaseKept,
           games' = games, joining' \subseteq joining,
           DOMAIN scan' \subseteq DOMAIN scan,
           \A m \in DOMAIN scan' : scan'[m] = scan[m]
    PROVE  Quiet
<1>1. \A g : BotGameNext(g) => BotGame(g)
  BY DEF BotGameNext, BotGame
<1>2. \A g \in joining' : PendingNext(g) => Pending(g)
  BY DEF PendingNext, Pending
<1> QED
  BY <1>1, <1>2 DEF Quiet

\* releaseBotLeaseFor of matches that are called off.
LEMMA LeaseOfEnded ==
    ASSUME IInv, Tidy, NEW S \in SUBSET MatchIds, \A m \in S : Live(m),
           \A m \in S : matches'[m] # None /\ matches'[m].status = "cancelled",
           games' = games, joining' = joining, lease' = LeaseWithout(S)
    PROVE  LeaseKept
<1>1. CASE lease' = lease
  BY <1>1 DEF LeaseKept
<1>2. CASE lease' # lease
  <2>1. lease \in S /\ lease' = None /\ ~BotHasLiveGame
    BY <1>2 DEF LeaseWithout
  <2>2. \A g \in GameIds : ~BotGameNext(g)
    BY <2>1 DEF BotGameNext, BotHasLiveGame
  <2>3. ~RunsNext(lease)
    BY <2>1 DEF RunsNext
  <2>4. ASSUME NEW g \in joining', PendingNext(g) PROVE games[g].match # lease
    <3>1. Plays(g, {"started"})
      BY <2>4 DEF PendingNext, Pending, Tidy
    <3> QED
      BY <2>1, <3>1 DEF Plays, Live
  <2> QED
    BY <2>1, <2>2, <2>3, <2>4 DEF LeaseKept
<1> QED
  BY <1>1, <1>2

LEMMA SweptAreLive ==
    ASSUME NEW w, NEW idle \in SUBSET Watched
    PROVE  /\ idle \in SUBSET MatchIds /\ \A m \in idle : Live(m)
           /\ idle \cup ActiveOf(w) \in SUBSET MatchIds
           /\ \A m \in idle \cup ActiveOf(w) : Live(m)
BY DEF Watched, ActiveOf

LEMMA CancelledAre ==
    ASSUME IInv, NEW S \in SUBSET MatchIds, \A m \in S : Live(m)
    PROVE  /\ Cancelled(S) \in [MatchIds -> Match \cup {None}]
           /\ \A m \in MatchIds \ S : Cancelled(S)[m] = matches[m]
           /\ \A m \in S : Cancelled(S)[m] # None /\ Cancelled(S)[m].status = "cancelled"
<1>1. TypeOK /\ \A m \in S : matches[m] # None
  BY DEF IInv, Live
<1> QED
  BY <1>1, CancelledIs, NoneAssumption

\* A step of the queue or of the rooms: the sessions of S are called off and
\* one match n more is opened, paired without the bot, or left alone.
LEMMA QueueIsQuiet ==
    ASSUME IInv, Tidy, NEW S \in SUBSET MatchIds, \A m \in S : Live(m),
           NEW n \in MatchIds, n \notin S, Onward(n),
           \A m \in MatchIds \ {n} : matches'[m] = Cancelled(S)[m],
           lease' = LeaseWithout(S), UNCHANGED <<games, joining, scan>>
    PROVE  Quiet
<1>1. /\ \A m \in MatchIds \ S : Cancelled(S)[m] = matches[m]
      /\ \A m \in S : Cancelled(S)[m] # None /\ Cancelled(S)[m].status = "cancelled"
  BY CancelledAre
<1>2. \A m \in S : matches'[m] # None /\ matches'[m].status = "cancelled"
  BY <1>1
<1>3. ASSUME NEW m \in MatchIds PROVE Onward(m)
  <2>1. CASE m = n
    BY <2>1
  <2>2. CASE m # n /\ m \notin S
    BY <1>1, <2>2 DEF Onward
  <2>3. CASE m \in S
    BY <1>2, <2>3 DEF Onward, Live
  <2> QED
    BY <2>1, <2>2, <2>3
<1>4. LeaseKept
  BY <1>2, LeaseOfEnded
<1> QED
  BY <1>3, <1>4, QuietWhen

LEMMA PairIsOnward ==
    ASSUME IInv, NEW m \in MatchIds, NEW w \in Wallets, NEW c \in 1..2,
           matches[m] # None, matches[m].status = "waiting", matches'[m] = Seat(matches[m], w, c)
    PROVE  Onward(m)
<1>1. matches[m] \in Match /\ Len(matches[m].players) = 1 /\ matches[m].players[1] \in Wallets
  BY DEF IInv, TypeOK, SeatsOK, Seats
<1>2. w \in People
  BY DEF People
<1>3. TwoSeated(Seat(matches[m], w, c), matches[m], w, c)
  BY <1>1, <1>2, SeatTaken
<1>4. /\ matches'[m] \in Match /\ Len(matches'[m].players) = 2
      /\ matches'[m].players[1] \in Wallets /\ matches'[m].players[2] \in Wallets
  BY <1>1, <1>3 DEF TwoSeated
<1>5. DOMAIN matches'[m].players = 1..2
  <2>1. matches'[m].players \in Seq(Wallets \cup {Bot})
    BY <1>4 DEF Match
  <2> QED
    BY <1>4, <2>1, LenProperties
<1>6. Bot \notin Range2(matches'[m].players)
  BY <1>4, <1>5, MatchmakingAssumption DEF Range2
<1> QED
  BY <1>4, <1>6, NoneAssumption DEF Onward

LEMMA NewIsOnward ==
    ASSUME IInv, NEW w \in Wallets, NEW code \in Codes \cup {None}, opened < MaxMatches,
           matches'[opened + 1] = NewMatch(w, code)
    PROVE  Onward(opened + 1)
<1>1. Fresh(NewMatch(w, code), w, code) /\ matches[opened + 1] = None
  BY NewMatchIs, NewId
<1> QED
  BY <1>1 DEF Fresh, Onward

LEMMA JoinIsQuiet ==
    ASSUME IInv, Tidy, NEW w \in Wallets, NEW idle \in SUBSET Watched, Join(w, idle)
    PROVE  Quiet
<1> DEFINE gone == idle \cup ActiveOf(w)
           open == Pruned(gone)
<1>1. gone \in SUBSET MatchIds /\ \A m \in gone : Live(m)
  BY SweptAreLive
<1>2. /\ Cancelled(gone) \in [MatchIds -> Match \cup {None}]
      /\ \A m \in MatchIds \ gone : Cancelled(gone)[m] = matches[m]
  BY <1>1, CancelledAre
<1>3. lease' = LeaseWithout(gone) /\ UNCHANGED <<games, joining, scan>>
  BY DEF Join, memory
<1>4. CASE /\ opened < MaxMatches
           /\ matches' = [Cancelled(gone) EXCEPT ![opened + 1] = NewMatch(w, None)]
  <2>1. opened + 1 \in MatchIds /\ matches[opened + 1] = None
    BY <1>4, NewId
  <2>2. opened + 1 \notin gone
    BY <1>1, <2>1 DEF Live
  <2>3. /\ matches'[opened + 1] = NewMatch(w, None)
        /\ \A m \in MatchIds \ {opened + 1} : matches'[m] = Cancelled(gone)[m]
    BY <1>2, <1>4, <2>1
  <2>4. Onward(opened + 1)
    BY <1>4, <2>3, NewIsOnward
  <2> HIDE DEF gone
  <2> QED
    BY <1>1, <1>3, <2>1, <2>2, <2>3, <2>4, QueueIsQuiet
<1>5. ASSUME NEW m \in open, NEW c \in 1..2, matches' = [Cancelled(gone) EXCEPT ![m] = Seat(@, w, c)]
      PROVE  Quiet
  <2>1. m \in MatchIds /\ m \notin gone /\ matches[m] # None /\ matches[m].status = "waiting"
    BY <1>5 DEF Pruned, QueueIsWaiting, Live, IInv
  <2>2. /\ matches'[m] = Seat(matches[m], w, c)
        /\ \A n \in MatchIds \ {m} : matches'[n] = Cancelled(gone)[n]
    BY <1>2, <1>5, <2>1
  <2>3. Onward(m)
    BY <2>1, <2>2, PairIsOnward
  <2> HIDE DEF gone
  <2> QED
    BY <1>1, <1>3, <2>1, <2>2, <2>3, QueueIsQuiet
<1> QED
  BY <1>4, <1>5 DEF Join

LEMMA RoomIsQuiet ==
    ASSUME IInv, Tidy, NEW w \in Wallets, NEW code \in Codes, NEW idle \in SUBSET Watched,
           CreateRoom(w, code, idle)
    PROVE  Quiet
<1> DEFINE gone == idle \cup ActiveOf(w)
<1>1. gone \in SUBSET MatchIds /\ \A m \in gone : Live(m)
  BY SweptAreLive
<1>2. Cancelled(gone) \in [MatchIds -> Match \cup {None}]
  BY <1>1, CancelledAre
<1>3. /\ lease' = LeaseWithout(gone) /\ UNCHANGED <<games, joining, scan>>
      /\ opened < MaxMatches
      /\ matches' = [Cancelled(gone) EXCEPT ![opened + 1] = NewMatch(w, code)]
  BY DEF CreateRoom, memory
<1>4. opened + 1 \in MatchIds /\ matches[opened + 1] = None
  BY <1>3, NewId
<1>5. opened + 1 \notin gone
  BY <1>1, <1>4 DEF Live
<1>6. /\ matches'[opened + 1] = NewMatch(w, code)
      /\ \A m \in MatchIds \ {opened + 1} : matches'[m] = Cancelled(gone)[m]
  BY <1>2, <1>3, <1>4
<1>7. Onward(opened + 1)
  BY <1>3, <1>6, NewIsOnward
<1> HIDE DEF gone
<1> QED
  BY <1>1, <1>3, <1>4, <1>5, <1>6, <1>7, QueueIsQuiet

LEMMA JoinRoomIsQuiet ==
    ASSUME IInv, Tidy, NEW w \in Wallets, NEW m \in MatchIds, NEW idle \in SUBSET Watched,
           JoinRoom(w, m, idle)
    PROVE  Quiet
<1>1. idle \in SUBSET MatchIds /\ \A n \in idle : Live(n)
  BY SweptAreLive
<1>2. /\ Cancelled(idle) \in [MatchIds -> Match \cup {None}]
      /\ \A n \in MatchIds \ idle : Cancelled(idle)[n] = matches[n]
  BY <1>1, CancelledAre
<1>3. /\ lease' = LeaseWithout(idle) /\ UNCHANGED <<games, joining, scan>>
      /\ m \notin idle /\ matches[m] # None
  BY DEF JoinRoom, memory, Live
<1>4. Onward(m) /\ \A n \in MatchIds \ {m} : matches'[n] = Cancelled(idle)[n]
  <2>1. CASE w \in Seated(m)
    BY <1>2, <1>3, <2>1 DEF JoinRoom, Onward
  <2>2. CASE w \notin Seated(m)
    <3>1. /\ matches'[m] = Seat(matches[m], w, 1)
          /\ \A n \in MatchIds \ {m} : matches'[n] = Cancelled(idle)[n]
      BY <1>2, <1>3, <2>2 DEF JoinRoom
    <3>2. matches[m].status = "waiting"
      BY <2>2 DEF JoinRoom, MayEnter
    <3> QED
      BY <1>3, <3>1, <3>2, PairIsOnward
  <2> QED
    BY <2>1, <2>2
<1> QED
  BY <1>1, <1>3, <1>4, QueueIsQuiet

LEMMA LeaveIsQuiet ==
    ASSUME IInv, Tidy, NEW w \in Wallets, NEW m \in MatchIds, Leave(w, m)
    PROVE  Quiet
<1>1. /\ UNCHANGED <<games, joining, scan>>
      /\ lease' = IF Live(m) THEN LeaseWithout({m}) ELSE lease
  BY DEF Leave, memory
<1>2. /\ matches[m] # None /\ matches[m].status \in {"waiting", "matched", "started"}
      /\ matches'[m] # None
      /\ matches'[m].status = IF Live(m) THEN "cancelled" ELSE matches[m].status
      /\ matches'[m].game = matches[m].game
      /\ Range2(matches'[m].players) \subseteq Range2(matches[m].players)
      /\ \A n \in MatchIds \ {m} : matches'[n] = matches[n]
  BY LeftMatch, NoneAssumption
<1>3. \A n \in MatchIds : Onward(n)
  <2>1. Onward(m)
    BY <1>2 DEF Onward, Live
  <2> QED
    BY <1>2, <2>1 DEF Onward
<1>4. LeaseKept
  <2>1. CASE Live(m)
    BY <1>1, <1>2, <2>1, LeaseOfEnded
  <2>2. CASE ~Live(m)
    BY <1>1, <2>2 DEF LeaseKept
  <2> QED
    BY <2>1, <2>2
<1> QED
  BY <1>1, <1>3, <1>4, QuietWhen

\* #attachMatchGame of a match that is still matched, or gone.
LEMMA AttachIsQuiet ==
    ASSUME IInv, NEW g \in GameIds, Attach(g), ~late'
    PROVE  Quiet
<1> DEFINE m == games[g].match
<1>1. /\ UNCHANGED <<games, joining, scan, lease>>
      /\ matches[m] = None \/ matches[m].status = "matched"
  BY DEF Attach
<1>2. m \in MatchIds /\ matches \in [MatchIds -> Match \cup {None}]
  BY DEF Attach, IInv, TypeOK, HandlersOK, Stored, Game
<1>3. \A n \in MatchIds \ {m} : matches'[n] = matches[n]
  BY <1>2 DEF Attach
<1>4. matches'[m] = matches[m] \/ (/\ matches[m] # None /\ matches'[m] # None
                                   /\ matches'[m].status = "started"
                                   /\ matches'[m].players = matches[m].players)
  <2>1. CASE matches[m] = None
    BY <2>1 DEF Attach
  <2>2. CASE matches[m] # None
    <3>1. matches' = [matches EXCEPT ![m] = [@ EXCEPT !.game = g, !.status = "started"]]
      BY <1>2, <2>2 DEF Attach, Match
    <3> HIDE DEF m
    <3>2. matches[m] \in Match
      BY <1>2, <2>2
    <3>3. /\ matches'[m] \in Match /\ matches'[m].status = "started"
          /\ matches'[m].players = matches[m].players
      BY <1>2, <3>1, <3>2 DEF Match, Status
    <3> QED
      BY <2>2, <3>3, NoneAssumption
  <2> QED
    BY <2>1, <2>2
<1> HIDE DEF m
<1>5. Onward(m)
  BY <1>1, <1>4 DEF Onward
<1>6. \A n \in MatchIds : Onward(n)
  BY <1>3, <1>5 DEF Onward
<1>7. LeaseKept
  BY <1>1 DEF LeaseKept
<1> QED
  BY <1>1, <1>6, <1>7, QuietWhen

\* completeGame, when no join of the bot loses its match.
LEMMA CompleteIsQuiet ==
    ASSUME IInv, NEW g \in GameIds, CompleteGame(g), ~orphaned'
    PROVE  Quiet
<1> DEFINE m == games[g].match
<1>1. PICK r \in Game :
         /\ Writes(g, r) /\ r.match = games[g].match
         /\ r.joiner = games[g].joiner /\ r.completed
  BY GameCompleted
<1>2. games'[g] = r /\ \A h \in GameIds \ {g} : games'[h] = games[h]
  BY <1>1, Written
<1>3. UNCHANGED <<joining, scan>> /\ joining \subseteq GameIds
  BY DEF CompleteGame, memory, IInv, TypeOK
<1>4. m \in MatchIds /\ matches \in [MatchIds -> Match \cup {None}]
  BY DEF CompleteGame, IInv, TypeOK, Game
<1>5. matches'[m] = None /\ \A n \in MatchIds \ {m} : matches'[n] = matches[n]
  BY <1>4 DEF CompleteGame
<1>6. \A h \in joining' \ {g} : games'[h].match # m
  BY <1>2, <1>3 DEF CompleteGame
<1>7. ~PendingNext(g) /\ ~BotGameNext(g)
  BY <1>1, <1>2 DEF PendingNext, BotGameNext
<1>8. \A h \in GameIds \ {g} : /\ BotGameNext(h) => BotGame(h) /\ games'[h].match = games[h].match
                               /\ PendingNext(h) => Pending(h) /\ games'[h].match = games[h].match
  BY <1>2, <1>3 DEF PendingNext, Pending, BotGameNext, BotGame
<1>9. LeaseKept
  <2>1. CASE lease' = lease
    BY <2>1 DEF LeaseKept
  <2>2. CASE lease' # lease
    <3>1. /\ lease = m /\ lease' = None
          /\ \A h \in GameIds \ {g} : ~(games[h] # None /\ games[h].joiner = Bot /\ ~games[h].completed)
      BY <2>2 DEF CompleteGame
    <3>2. \A h \in GameIds : ~BotGameNext(h)
      BY <1>7, <1>8, <3>1 DEF BotGame
    <3>3. ~RunsNext(lease)
      BY <1>5, <3>1 DEF RunsNext
    <3>4. \A h \in joining' : PendingNext(h) => games[h].match # lease
      BY <1>3, <1>6, <1>7, <1>8, <3>1
    <3> QED
      BY <3>1, <3>2, <3>3, <3>4 DEF LeaseKept
  <2> QED
    BY <2>1, <2>2
<1> HIDE DEF m
<1>10. \A n \in MatchIds : Onward(n)
  BY <1>5, <1>6, <1>7 DEF Onward
<1> QED
  BY <1>3, <1>7, <1>8, <1>9, <1>10 DEF Quiet

\* A game is stored, or joined by a wallet.
LEMMA PlayersAreQuiet ==
    ASSUME IInv, NEW g \in GameIds, NEW r \in Game, Writes(g, r), r.joiner # Bot,
           games[g] = None \/ (games[g].joiner = None /\ r.joiner # None),
           UNCHANGED <<matches, lease, joining, scan>>
    PROVE  Quiet
<1>1. games'[g] = r /\ \A h \in GameIds \ {g} : games'[h] = games[h]
  BY Written
<1>2. ~BotGameNext(g)
  BY <1>1 DEF BotGameNext
<1>3. ~PendingNext(g)
  BY <1>1 DEF PendingNext, IInv, HandlersOK, Stored
<1>4. \A h \in GameIds \ {g} : /\ BotGameNext(h) => BotGame(h) /\ games'[h].match = games[h].match
                               /\ PendingNext(h) => Pending(h) /\ games'[h].match = games[h].match
  BY <1>1 DEF PendingNext, Pending, BotGameNext, BotGame
<1>5. joining' \subseteq GameIds
  BY DEF IInv, TypeOK
<1>6. LeaseKept /\ \A m \in MatchIds : Onward(m)
  BY DEF LeaseKept, Onward
<1> QED
  BY <1>2, <1>3, <1>4, <1>5, <1>6 DEF Quiet

LEMMA SubmitIsQuiet ==
    ASSUME IInv, NEW w \in Wallets, NEW m \in MatchIds, SubmitCreation(w, m)
    PROVE  Quiet
<1>1. PICK g \in GameIds, r \in Game :
         /\ games[g] = None /\ Writes(g, r)
         /\ r.match = m /\ r.joiner = None /\ ~r.completed
  BY GameSubmitted
<1>2. UNCHANGED <<matches, lease, joining, scan>> /\ r.joiner # Bot
  BY <1>1, MatchmakingAssumption DEF SubmitCreation
<1> QED
  BY <1>1, <1>2, PlayersAreQuiet

LEMMA JoinGameIsQuiet ==
    ASSUME IInv, NEW w \in Wallets, NEW g \in GameIds, JoinGame(w, g)
    PROVE  Quiet
<1>1. /\ w \in People /\ games[g] # None /\ games[g].joiner = None
      /\ games' = [games EXCEPT ![g].joiner = w]
      /\ UNCHANGED <<matches, lease, joining, scan>>
      /\ w # Bot /\ w # None
  BY MatchmakingAssumption DEF JoinGame, MayJoin, memory, People
<1>2. PICK r \in Game :
         /\ Writes(g, r) /\ r.match = games[g].match
         /\ r.joiner = w /\ r.completed = games[g].completed
  BY <1>1, GameJoined
<1> QED
  BY <1>1, <1>2, PlayersAreQuiet

\* The bot's scan and what it does on the way, but for its joins.
LEMMA ScanIsQuiet ==
    ASSUME IInv, BotScan
    PROVE  Quiet
<1>1. /\ UNCHANGED <<matches, games, lease, joining>>
      /\ scan' = [m \in BotMatches |-> [status |-> matches[m].status, game |-> matches[m].game]]
  BY DEF BotScan, store
<1>2. \A m \in DOMAIN scan' : scan'[m].status = "cancelled" => OverNext(m)
  BY <1>1 DEF OverNext
<1>3. \A m \in MatchIds : Onward(m)
  BY <1>1 DEF Onward
<1>4. LeaseKept
  BY <1>1 DEF LeaseKept
<1> QED
  BY <1>1, <1>2, <1>3, <1>4 DEF Quiet, BotGameNext, BotGame, PendingNext, Pending

LEMMA VisitIs ==
    ASSUME NEW m, Visited(m)
    PROVE  DOMAIN scan' \subseteq DOMAIN scan /\ \A n \in DOMAIN scan' : scan'[n] = scan[n]
BY DEF Visited

LEMMA ReleaseIsQuiet ==
    ASSUME IInv, Tidy, NEW m \in MatchIds, BotReleases(m)
    PROVE  Quiet
<1>1. /\ UNCHANGED <<matches, games, joining>> /\ joining = {}
      /\ m \in DOMAIN scan /\ scan[m].status = "cancelled" /\ Visited(m)
      /\ lease' = LeaseWithout({m})
  BY DEF BotReleases, BotTurn, BotIsFree, Released
<1>2. Over(m)
  BY <1>1 DEF Tidy
<1>3. LeaseKept
  <2>1. CASE lease' = lease
    BY <2>1 DEF LeaseKept
  <2>2. CASE lease' # lease
    <3>1. lease = m /\ lease' = None /\ ~BotHasLiveGame
      BY <1>1, <2>2 DEF LeaseWithout
    <3>2. ~RunsNext(lease)
      BY <1>1, <1>2, <3>1 DEF Over, RunsNext
    <3>3. \A g \in GameIds : ~BotGameNext(g)
      BY <1>1, <3>1 DEF BotGameNext, BotHasLiveGame
    <3> QED
      BY <1>1, <3>1, <3>2, <3>3 DEF LeaseKept
  <2> QED
    BY <2>1, <2>2
<1>4. \A n \in MatchIds : Onward(n)
  BY <1>1 DEF Onward
<1> QED
  BY <1>1, <1>3, <1>4, VisitIs, QuietWhen

LEMMA ExpireIsQuiet ==
    ASSUME IInv, NEW m \in MatchIds, BotExpires(m)
    PROVE  Quiet
<1>1. /\ UNCHANGED <<games, joining, lease>> /\ joining = {}
      /\ m \in DOMAIN scan /\ scan' = [scan EXCEPT ![m].status = "cancelled"]
      /\ matches \in [MatchIds -> Match \cup {None}]
  BY DEF BotExpires, BotTurn, BotIsFree, IInv, TypeOK
<1>2. \A n \in MatchIds \ {m} : matches'[n] = matches[n]
  BY <1>1 DEF BotExpires
<1>3. (matches[m] = None /\ matches'[m] = None)
      \/ (/\ matches[m] # None /\ matches'[m] # None
          /\ matches'[m].status = "cancelled" /\ matches'[m].game = matches[m].game)
  <2>1. CASE matches[m] = None
    BY <2>1 DEF BotExpires
  <2>2. CASE matches[m] # None
    <3>1. matches' = [matches EXCEPT ![m] = [@ EXCEPT !.status = "cancelled"]]
      BY <1>1, <2>2 DEF BotExpires
    <3>2. matches[m] \in Match
      BY <1>1, <2>2
    <3>3. /\ matches'[m] \in Match /\ matches'[m].status = "cancelled"
          /\ matches'[m].game = matches[m].game
      BY <1>1, <3>1, <3>2 DEF Match, Status
    <3> QED
      BY <2>2, <3>3, NoneAssumption
  <2> QED
    BY <2>1, <2>2
<1>4. Onward(m)
  BY <1>1, <1>3 DEF Onward
<1>5. \A n \in MatchIds : Onward(n)
  BY <1>2, <1>4 DEF Onward
<1>6. LeaseKept
  BY <1>1 DEF LeaseKept
<1>7. \A n \in DOMAIN scan' : OverNext(n) \/ (n \in DOMAIN scan /\ scan'[n] = scan[n])
  BY <1>1, <1>3 DEF OverNext
<1> QED
  BY <1>1, <1>5, <1>6, <1>7 DEF Quiet, BotGameNext, BotGame, PendingNext, Pending

LEMMA VisitIsQuiet ==
    ASSUME IInv, UNCHANGED <<matches, games, lease>>, joining' \subseteq joining,
           DOMAIN scan' \subseteq DOMAIN scan, \A n \in DOMAIN scan' : scan'[n] = scan[n]
    PROVE  Quiet
<1>1. LeaseKept /\ \A n \in MatchIds : Onward(n)
  BY DEF LeaseKept, Onward
<1> QED
  BY <1>1, QuietWhen

\* #advanceGame of a game that is over: its match is gone.
LEMMA GameOverIsQuiet ==
    ASSUME IInv, PastOK, NEW g \in GameIds, BotGameOver(g)
    PROVE  Quiet
<1>1. /\ UNCHANGED <<matches, games, joining, scan>> /\ joining = {}
      /\ games[g] # None /\ games[g].completed /\ lease = games[g].match
      /\ lease' = LeaseWithout({games[g].match})
  BY DEF BotGameOver, BotIsFree, memory
<1>2. matches[lease] = None
  BY <1>1 DEF PastOK
<1>3. LeaseKept
  <2>1. CASE lease' = lease
    BY <2>1 DEF LeaseKept
  <2>2. CASE lease' # lease
    <3>1. lease' = None /\ ~BotHasLiveGame
      BY <1>1, <2>2 DEF LeaseWithout
    <3>2. \A h \in GameIds : ~BotGameNext(h)
      BY <1>1, <3>1 DEF BotGameNext, BotHasLiveGame
    <3> QED
      BY <1>1, <1>2, <3>1, <3>2 DEF LeaseKept, RunsNext
  <2> QED
    BY <2>1, <2>2
<1>4. \A n \in MatchIds : Onward(n)
  BY <1>1 DEF Onward
<1> QED
  BY <1>1, <1>3, <1>4, QuietWhen

-----------------------------------------------------------------------------
\* The three steps that commit the bot.  The offer needs a lease that nobody
\* has, so the bot sits nowhere, plays nothing and joins nothing.
LEMMA OfferKeeps ==
    ASSUME IInv, Tidy, NEW w \in Wallets, NEW m \in MatchIds, NEW idle \in SUBSET Watched,
           OfferBot(w, m, idle)
    PROVE  TidyNext
<1>0. games \in [GameIds -> Game \cup {None}] /\ None \notin MatchIds
  BY NoneAssumption DEF IInv, TypeOK
<1>1. idle \in SUBSET MatchIds /\ \A n \in idle : Live(n)
  BY SweptAreLive
<1>2. /\ Cancelled(idle) \in [MatchIds -> Match \cup {None}]
      /\ \A n \in MatchIds \ idle : Cancelled(idle)[n] = matches[n]
      /\ \A n \in idle : Cancelled(idle)[n] # None /\ Cancelled(idle)[n].status = "cancelled"
  BY <1>1, CancelledAre
<1>3. /\ m \notin idle /\ matches[m] # None /\ matches[m].status = "waiting"
      /\ lease = None /\ lease' = m /\ UNCHANGED <<games, joining, scan>>
  BY DEF OfferBot, MayClaim, memory
<1>4. \A n \in MatchIds \ {m} : matches'[n] = Cancelled(idle)[n]
  BY <1>2 DEF OfferBot
<1>5. \A n \in MatchIds : ~Runs(n)
  BY <1>0, <1>3 DEF Tidy
<1>6. ASSUME NEW g \in GameIds, BotGame(g) PROVE FALSE
  <2>1. lease = games[g].match /\ games[g].match \in MatchIds
    BY <1>0, <1>6 DEF Tidy, BotGame, Game
  <2> QED
    BY <1>0, <1>3, <2>1
<1>7. ASSUME NEW g \in joining, Pending(g) PROVE FALSE
  <2>1. lease = games[g].match /\ games[g].match \in MatchIds
    BY <1>0, <1>7 DEF Tidy, IInv, HandlersOK, Stored, Game
  <2> QED
    BY <1>0, <1>3, <2>1
<1>8. ASSUME NEW n \in MatchIds, RunsNext(n) PROVE n = m
  BY <1>2, <1>4, <1>5, <1>8 DEF RunsNext, Runs
<1>9. ASSUME NEW n \in DOMAIN scan, scan[n].status = "cancelled" PROVE OverNext(n)
  <2>1. n \in MatchIds /\ Over(n) /\ n # m
    BY <1>3, <1>9 DEF Tidy, IInv, TypeOK, HandlersOK, Decided
  <2> QED
    BY <1>2, <1>4, <2>1 DEF Over, OverNext
<1>10. \A g \in GameIds : ~BotGameNext(g)
  BY <1>3, <1>6 DEF BotGame, BotGameNext
<1>11. \A g \in joining' : ~PendingNext(g)
  BY <1>3, <1>7 DEF Pending, PendingNext
<1> QED
  BY <1>3, <1>8, <1>9, <1>10, <1>11 DEF TidyNext

\* The bot checks its join of a game whose match it sits in: the lease is
\* that match's, so no other game of it lives.
LEMMA BotJoinsKeeps ==
    ASSUME IInv, PastOK, Tidy, NEW m \in MatchIds, BotJoins(m)
    PROVE  TidyNext
<1> DEFINE g == scan[m].game
           n == games[g].match
<1>1. /\ UNCHANGED <<matches, lease, games>> /\ joining' = {g} /\ Visited(m)
      /\ m \in DOMAIN scan /\ scan[m].status = "started"
  BY DEF BotJoins, BotMayJoin, BotTurn, store
<1>2. g \in GameIds /\ games[g] # None
  BY <1>1 DEF IInv, HandlersOK, Stored
<1>3. n \in MatchIds
  BY <1>2 DEF IInv, TypeOK, Game
<1>4. /\ games[g].joiner = None /\ matches[n] # None
      /\ matches[n].status = "started" /\ matches[n].game = g
      /\ Bot \in Range2(matches[n].players)
  BY DEF BotJoins, MayJoin, Range2
<1>5. ~games[g].completed
  BY <1>2, <1>4 DEF PastOK
<1> HIDE DEF g
<1>6. lease = n
  BY <1>3, <1>4 DEF Tidy, Runs
<1>7. ASSUME NEW h \in GameIds, BotGame(h) PROVE FALSE
  <2>1. lease = games[h].match /\ (matches[games[h].match] = None \/ Plays(h, {"started", "cancelled"}))
    BY <1>7 DEF Tidy
  <2>2. h = g
    BY <1>4, <1>6, <2>1 DEF Plays
  <2> QED
    BY <1>4, <1>7, <2>2, MatchmakingAssumption DEF BotGame
<1>8. \A h \in GameIds : ~BotGameNext(h)
  BY <1>1, <1>7 DEF BotGame, BotGameNext
<1>9. lease' = games'[g].match /\ PlaysNext(g, {"started"})
  BY <1>1, <1>4, <1>6 DEF PlaysNext
<1>10. \A k \in DOMAIN scan' : scan'[k].status = "cancelled" => OverNext(k)
  BY <1>1, VisitIs DEF Tidy, Over, OverNext
<1>11. \A k \in MatchIds : RunsNext(k) => lease' = k
  BY <1>1 DEF Tidy, Runs, RunsNext
<1> QED
  BY <1>1, <1>8, <1>9, <1>10, <1>11 DEF TidyNext

\* submitJoin of the bot
LEMMA BotIsJoinedKeeps ==
    ASSUME IInv, Tidy, NEW g \in GameIds, BotIsJoined(g)
    PROVE  Quiet \/ TidyNext
<1>1. /\ UNCHANGED <<matches, lease, scan>> /\ joining' = {} /\ g \in joining
  BY DEF BotIsJoined
<1>2. CASE games' = games
  BY <1>1, <1>2, VisitIsQuiet
<1>3. CASE games' # games
  <2>1. /\ ~games[g].completed /\ games[g].joiner = None
        /\ games' = [games EXCEPT ![g].joiner = Bot]
    BY <1>3 DEF BotIsJoined
  <2>2. Bot \in People /\ games[g] # None
    BY <1>1 DEF People, IInv, HandlersOK, Stored
  <2>3. PICK r \in Game :
         /\ Writes(g, r) /\ r.match = games[g].match
         /\ r.joiner = Bot /\ r.completed = games[g].completed
    BY <2>1, <2>2, GameJoined
  <2>4. games'[g] = r /\ \A h \in GameIds \ {g} : games'[h] = games[h]
    BY <2>3, Written
  <2>5. Pending(g)
    BY <1>1, <2>1 DEF Pending
  <2>6. lease = games[g].match /\ Plays(g, {"started"}) /\ \A h \in GameIds : ~BotGame(h)
    BY <1>1, <2>5 DEF Tidy
  <2>7. \A h \in GameIds : BotGameNext(h) => h = g
    BY <2>4, <2>6 DEF BotGameNext, BotGame
  <2>8. lease' = games'[g].match /\ PlaysNext(g, {"started", "cancelled"})
    BY <1>1, <2>3, <2>4, <2>6 DEF Plays, PlaysNext
  <2>9. \A k \in DOMAIN scan' : scan'[k].status = "cancelled" => OverNext(k)
    BY <1>1 DEF Tidy, Over, OverNext
  <2>10. \A k \in MatchIds : RunsNext(k) => lease' = k
    BY <1>1 DEF Tidy, Runs, RunsNext
  <2>11. TidyNext
    BY <1>1, <2>7, <2>8, <2>9, <2>10 DEF TidyNext
  <2> QED
    BY <2>11
<1> QED
  BY <1>2, <1>3

LEMMA TidyStep ==
    ASSUME IInv, PastOK, Tidy, [Next]_vars, ~late', ~orphaned'
    PROVE  TidyNext
<1>0. ASSUME Quiet PROVE TidyNext
  BY <1>0, QuietKeeps
<1>1. ASSUME NEW w \in Wallets, NEW idle \in SUBSET Watched, Join(w, idle) PROVE TidyNext
  BY <1>0, <1>1, JoinIsQuiet
<1>2. ASSUME NEW w \in Wallets, NEW code \in Codes, NEW idle \in SUBSET Watched,
             CreateRoom(w, code, idle) PROVE TidyNext
  BY <1>0, <1>2, RoomIsQuiet
<1>3. ASSUME NEW w \in Wallets, NEW m \in MatchIds, NEW idle \in SUBSET Watched,
             JoinRoom(w, m, idle) PROVE TidyNext
  BY <1>0, <1>3, JoinRoomIsQuiet
<1>4. ASSUME NEW w \in Wallets, NEW code \in Codes, NEW idle \in SUBSET Watched,
             JoinRoomByCode(w, code, idle) PROVE TidyNext
  BY <1>3, <1>4 DEF JoinRoomByCode
<1>5. ASSUME NEW w \in Wallets, NEW m \in MatchIds, NEW idle \in SUBSET Watched,
             OfferBot(w, m, idle) PROVE TidyNext
  BY <1>5, OfferKeeps
<1>6. ASSUME NEW w \in Wallets, NEW m \in MatchIds, Leave(w, m) PROVE TidyNext
  BY <1>0, <1>6, LeaveIsQuiet
<1>7. ASSUME NEW m \in MatchIds, PrepareCreation(m) PROVE TidyNext
  <2>1. UNCHANGED <<matches, games, lease, joining, scan>>
    BY <1>7 DEF PrepareCreation, memory
  <2> QED
    BY <1>0, <2>1, VisitIsQuiet
<1>8. ASSUME NEW w \in Wallets, NEW m \in MatchIds, SubmitCreation(w, m) PROVE TidyNext
  BY <1>0, <1>8, SubmitIsQuiet
<1>9. ASSUME NEW g \in GameIds, Attach(g) PROVE TidyNext
  BY <1>0, <1>9, AttachIsQuiet
<1>10. ASSUME NEW g \in GameIds, CompleteGame(g) PROVE TidyNext
  BY <1>0, <1>10, CompleteIsQuiet
<1>11. ASSUME NEW w \in Wallets, NEW g \in GameIds, JoinGame(w, g) PROVE TidyNext
  BY <1>0, <1>11, JoinGameIsQuiet
<1>12. CASE BotScan
  BY <1>0, <1>12, ScanIsQuiet
<1>13. ASSUME NEW m \in MatchIds, BotReleases(m) PROVE TidyNext
  BY <1>0, <1>13, ReleaseIsQuiet
<1>14. ASSUME NEW m \in MatchIds, BotExpires(m) PROVE TidyNext
  BY <1>0, <1>14, ExpireIsQuiet
<1>15. ASSUME NEW m \in MatchIds, BotSkips(m) PROVE TidyNext
  <2>1. UNCHANGED <<matches, games, lease, joining>> /\ Visited(m)
    BY <1>15 DEF BotSkips, store
  <2> QED
    BY <1>0, <2>1, VisitIs, VisitIsQuiet
<1>16. ASSUME NEW m \in MatchIds, BotSavesSecret(m) PROVE TidyNext
  <2>1. UNCHANGED <<matches, games, lease, joining, scan>>
    BY <1>16 DEF BotSavesSecret, memory
  <2> QED
    BY <1>0, <2>1, VisitIsQuiet
<1>17. ASSUME NEW m \in MatchIds, BotJoins(m) PROVE TidyNext
  BY <1>17, BotJoinsKeeps
<1>18. ASSUME NEW g \in GameIds, BotIsJoined(g) PROVE TidyNext
  BY <1>0, <1>18, BotIsJoinedKeeps
<1>19. ASSUME NEW g \in GameIds, BotGameOver(g) PROVE TidyNext
  BY <1>0, <1>19, GameOverIsQuiet
<1>20. CASE BotStep
  BY <1>12, <1>13, <1>14, <1>15, <1>16, <1>17, <1>18, <1>19, <1>20 DEF BotStep
<1>21. CASE Crash
  <2>1. UNCHANGED <<matches, games, lease>> /\ joining' = {} /\ DOMAIN scan' = {}
    BY <1>21 DEF Crash, store
  <2> QED
    BY <1>0, <2>1, VisitIsQuiet
<1>22. CASE UNCHANGED vars
  <2>1. UNCHANGED <<matches, games, lease, joining, scan>>
    BY <1>22 DEF vars, store, memory
  <2> QED
    BY <1>0, <2>1, VisitIsQuiet
<1> QED
  BY <1>1, <1>2, <1>3, <1>4, <1>5, <1>6, <1>7, <1>8, <1>9, <1>10, <1>11, <1>20, <1>21, <1>22 DEF Next

\* What was attached late, or lost its match, is remembered.
LEMMA HistoryGrows ==
    ASSUME IInv, [Next]_vars
    PROVE  (late => late') /\ (orphaned => orphaned')
<1>1. ASSUME UNCHANGED history PROVE (late => late') /\ (orphaned => orphaned')
  BY <1>1 DEF history
<1>2. ASSUME NEW w \in Wallets, NEW idle \in SUBSET Watched,
             \/ Join(w, idle)
             \/ \E code \in Codes : CreateRoom(w, code, idle) \/ JoinRoomByCode(w, code, idle)
             \/ \E m \in MatchIds : JoinRoom(w, m, idle) \/ OfferBot(w, m, idle)
      PROVE  UNCHANGED history
  BY <1>2 DEF Join, CreateRoom, JoinRoomByCode, JoinRoom, OfferBot
<1>3. ASSUME BotStep PROVE UNCHANGED history
  BY <1>3 DEF BotStep, BotScan, BotReleases, BotExpires, BotSkips, BotSavesSecret, BotJoins,
              BotIsJoined, BotGameOver
<1>4. ASSUME NEW w \in Wallets, NEW m \in MatchIds, Leave(w, m) \/ SubmitCreation(w, m)
      PROVE  UNCHANGED history
  BY <1>4 DEF Leave, SubmitCreation
<1>5. ASSUME NEW g \in GameIds, Attach(g) PROVE (late => late') /\ (orphaned => orphaned')
  BY <1>5 DEF Attach
<1>6. ASSUME NEW g \in GameIds, CompleteGame(g) PROVE (late => late') /\ (orphaned => orphaned')
  BY <1>6 DEF CompleteGame
<1>7. ASSUME NEW w \in Wallets, NEW g \in GameIds, JoinGame(w, g) PROVE UNCHANGED history
  BY <1>7 DEF JoinGame
<1>8. ASSUME NEW m \in MatchIds, PrepareCreation(m) PROVE UNCHANGED history
  BY <1>8 DEF PrepareCreation
<1>9. ASSUME Crash \/ UNCHANGED vars PROVE UNCHANGED history
  BY <1>9 DEF Crash, vars
<1> QED
  BY <1>1, <1>2, <1>3, <1>4, <1>5, <1>6, <1>7, <1>8, <1>9 DEF Next

LEMMA InitBot == Init => BotInv
<1> SUFFICES ASSUME Init PROVE BotInv
  OBVIOUS
<1>1. /\ \A m \in MatchIds : matches[m] = None
      /\ \A g \in GameIds : games[g] = None
      /\ prepared = {} /\ joining = {} /\ DOMAIN scan = {}
  BY DEF Init
<1>2. PastOK
  BY <1>1 DEF PastOK
<1>3. Tidy
  BY <1>1 DEF Tidy, Runs, BotGame
<1> QED
  BY <1>2, <1>3 DEF BotInv

LEMMA NextBot == IInv /\ BotInv /\ [Next]_vars => BotInv'
<1> SUFFICES ASSUME IInv, BotInv, [Next]_vars PROVE BotInv'
  OBVIOUS
<1>1. PastOK /\ PastOK'
  BY PastKept DEF BotInv
<1>2. ASSUME Calm' PROVE Tidy'
  <2>1. ~late' /\ ~orphaned'
    BY <1>2 DEF Calm
  <2>2. Tidy
    BY <2>1, HistoryGrows DEF BotInv, Calm
  <2>3. TidyNext
    BY <1>1, <2>1, <2>2, TidyStep
  <2> QED
    BY <2>3, TidyNextIs
<1> QED
  BY <1>1, <1>2 DEF BotInv

\* The bot's wallet plays one live game at a time (claimWaitingMatchForBot,
\* releaseBotLease, completeGame), whatever players, sweeps, the bot's stale
\* scans and crashes do, unless a creation was attached late or a join of the
\* bot lost its match.
THEOREM BotPlaysOneGame == Spec => []BotInOneGameUnlessLate
<1>1. BotInv => BotInOneGameUnlessLate
  BY DEF BotInv, Calm, Tidy, BotInOneGameUnlessLate, BotInOneGame, BotGames, BotGame
<1> QED
  BY InitInv, NextInv, InitBot, NextBot, <1>1, PTL DEF Spec
=============================================================================
