--------------------------- MODULE PlacementProofs ---------------------------
(***************************************************************************)
(* For any players, bots, arenas, sizes and windows: a seat is promised    *)
(* only where the lobby last placed its player, a departure gives back all *)
(* the player held, no promise lapses under a ticket that can be used, and *)
(* the match queue overlooks nobody.                                       *)
(***************************************************************************)
EXTENDS Placement, PickingProofs

-----------------------------------------------------------------------------
(* Lists and what is in them.                                              *)

LEMMA InList ==
  ASSUME NEW S, NEW s \in Seq(S)
  PROVE  /\ Range(s) \in SUBSET S
         /\ \A i \in DOMAIN s : s[i] \in Range(s)
         /\ \A e \in Range(s) : \E i \in DOMAIN s : s[i] = e
  BY RangeOfSeq DEF Range

LEMMA Listed ==
  ASSUME NEW n \in Int, NEW S, NEW f \in [1..n -> S]
  PROVE  f \in Seq(S) /\ Range(f) = {f[i] : i \in 1..n}
  <1>1. CASE n \in Nat
    BY <1>1 DEF Range
  <1>2. CASE n \notin Nat
    <2>1. f \in [1..0 -> S] /\ 0 \in Nat
      BY <1>2
    <2>. QED BY <2>1, SeqDef DEF Range
  <1>. QED BY <1>1, <1>2

LEMMA OneListed ==
  ASSUME NEW S, NEW e \in S
  PROVE  /\ <<e>> \in Seq(S) /\ Range(<<e>>) = {e} /\ <<e>> # <<>>
         /\ Head(<<e>>) = e /\ Tail(<<e>>) = <<>>
  <1>1. <<e>> \in [1..1 -> S] /\ <<e>>[1] = e
    OBVIOUS
  <1>2. <<e>> \in Seq(S)
    OBVIOUS
  <1>3. Range(<<e>>) = {e}
    BY DEF Range
  <1>. QED BY <1>2, <1>3

LEMMA NoneListed ==
  ASSUME NEW S
  PROVE  <<>> \in Seq(S) /\ Range(<<>>) = {}
  BY DEF Range

LEMMA JoinedListed ==
  ASSUME NEW S, NEW s \in Seq(S), NEW t \in Seq(S)
  PROVE  s \o t \in Seq(S) /\ Range(s \o t) = Range(s) \cup Range(t)
  BY RangeConcatenation

LEMMA AppendListed ==
  ASSUME NEW S, NEW s \in Seq(S), NEW e \in S
  PROVE  Append(s, e) \in Seq(S) /\ Range(Append(s, e)) = Range(s) \cup {e}
  <1>1. <<e>> \in Seq(S) /\ Range(<<e>>) = {e}
    BY OneListed
  <1>2. Append(s, e) = s \o <<e>>
    BY AppendIsConcat, Zenon
  <1>3. Append(s, e) \in Seq(S)
    OBVIOUS
  <1>4. Range(s \o <<e>>) = Range(s) \cup Range(<<e>>)
    <2>. DEFINE x == <<e>>
    <2>1. x \in Seq(S)
      BY <1>1
    <2>. HIDE DEF x
    <2>2. Range(s \o x) = Range(s) \cup Range(x)
      BY <2>1, JoinedListed
    <2>. QED BY <2>2 DEF x
  <1>. QED BY <1>1, <1>2, <1>3, <1>4

\* A list is its first entry and the others.
LEMMA HeadAndTail ==
  ASSUME NEW S, NEW s \in Seq(S), s # <<>>
  PROVE  /\ Head(s) \in S /\ Tail(s) \in Seq(S)
         /\ Range(s) = Range(Tail(s)) \cup {Head(s)}
  <1>1. Head(s) \in S /\ Tail(s) \in Seq(S) /\ <<Head(s)>> \in Seq(S)
    BY HeadTailProperties, OneListed
  <1>2. Len(s) \in Nat /\ Len(s) # 0 /\ DOMAIN s = 1..Len(s) /\ DOMAIN Tail(s) = 1..Len(s) - 1
    BY <1>1
  <1>3. Head(s) = s[1] /\ \A i \in 1..Len(s) - 1 : Tail(s)[i] = s[i + 1]
    BY HeadTailProperties
  <1>4. Range(Tail(s)) \cup {Head(s)} \subseteq Range(s)
    BY <1>2, <1>3 DEF Range
  <1>5. ASSUME NEW e \in Range(s) PROVE e \in Range(Tail(s)) \cup {Head(s)}
    <2>1. PICK i \in 1..Len(s) : e = s[i]
      BY <1>2 DEF Range
    <2>2. CASE i = 1
      BY <2>1, <2>2, <1>3
    <2>3. CASE i # 1
      <3>1. i - 1 \in 1..Len(s) - 1 /\ Tail(s)[i - 1] = s[i]
        BY <1>2, <1>3, <2>3
      <3>. QED BY <1>2, <2>1, <3>1 DEF Range
    <2>. QED BY <2>2, <2>3
  <1>. QED BY <1>1, <1>4, <1>5

LEMMA ConsListed ==
  ASSUME NEW S, NEW s \in Seq(S), NEW e \in S
  PROVE  /\ <<e>> \o s \in Seq(S) /\ <<e>> \o s # <<>>
         /\ Head(<<e>> \o s) = e /\ Tail(<<e>> \o s) = s
         /\ Range(<<e>> \o s) = Range(s) \cup {e}
  <1>1. <<e>> \in Seq(S) /\ Range(<<e>>) = {e} /\ Len(<<e>>) = 1 /\ <<e>>[1] = e
    BY OneListed
  <1>. DEFINE l == <<e>> \o s
  <1>2. l \in Seq(S) /\ Len(l) = Len(s) + 1 /\ l[1] = e
    BY <1>1, ConcatProperties
  <1>3. \A i \in 1..Len(s) : l[i + 1] = s[i]
    BY <1>1, ConcatProperties
  <1>4. Range(l) = Range(s) \cup {e}
    <2>1. Range(<<e>> \o s) = Range(<<e>>) \cup Range(s)
      <3>. DEFINE x == <<e>>
      <3>1. x \in Seq(S)
        BY <1>1
      <3>. HIDE DEF x
      <3>2. Range(x \o s) = Range(x) \cup Range(s)
        BY <3>1, JoinedListed
      <3>. QED BY <3>2 DEF x
    <2>. QED BY <1>1, <2>1
  <1>. HIDE DEF l
  <1>5. l # <<>> /\ Head(l) = e
    BY <1>2
  <1>6. Tail(l) = s
    <2>1. Tail(l) \in Seq(S) /\ Len(Tail(l)) = Len(s)
      BY <1>2, <1>5, HeadTailProperties
    <2>2. \A i \in 1..Len(s) : Tail(l)[i] = s[i]
      BY <1>2, <1>3, <1>5, <2>1, HeadTailProperties
    <2>3. \A i \in 1..Len(Tail(l)) : Tail(l)[i] = s[i]
      BY <2>1, <2>2
    <2>. QED BY <2>1, <2>3, SeqEqual, Zenon
  <1>. QED BY <1>2, <1>4, <1>5, <1>6 DEF l

-----------------------------------------------------------------------------
(* Types.                                                                  *)

Waiter == [who : Players, age : 0..Patience]

\* What the lobby has to do: with an arena, for a bot, for a player, for a match,
\* or to tell the manager.
Orders == [do : Awaited, who : Guests, room : Rooms]
BotOrders == [do : {"SeatBot", "BotJoin"}, who : Bots, room : Rooms]
Visits == [do : {"Admit", "Promise", "Place"}, who : Players, room : Rooms]
Matches == [do : {"Match"}, who : Seq(Players), room : {NoRoom}]
Notices == [do : {"Notify"}, who : Players, room : {NoRoom}]
Jobs == Orders \cup BotOrders \cup Visits \cup Matches \cup Notices

Base == TypeOK /\ work \in Seq(Jobs)

LEMMA Numbers ==
  /\ MaxPlayers \in Nat /\ MaxPlayers >= 1 /\ MatchSize \in Nat /\ MatchSize >= 1
  /\ Patience \in Nat /\ Patience >= 1
  /\ TicketWindow \in Nat /\ TicketWindow >= 1 /\ ReservationWindow \in Nat
  /\ TicketWindow < ReservationWindow /\ NotHeld = -1 /\ NoRoom \notin Rooms
  /\ Players \subseteq Guests /\ Bots \subseteq Guests
  BY PlacementAssumption DEF NotHeld, Guests

LEMMA JobFields ==
  ASSUME NEW j \in Jobs
  PROVE  /\ j.do \in Awaited => j.who \in Guests /\ j.room \in Rooms
         /\ j.do \in {"SeatBot", "BotJoin"} => j.who \in Bots /\ j.room \in Rooms
         /\ j.do \in {"Admit", "Promise", "Place"} => j.who \in Players /\ j.room \in Rooms
         /\ j.do = "Match" => j.who \in Seq(Players)
         /\ j.do = "Notify" => j.who \in Players
         /\ j = Job(j.do, j.who, j.room)
  <1>1. CASE j \in Orders
    BY <1>1 DEF Orders, Awaited, Job
  <1>2. CASE j \in BotOrders
    BY <1>2 DEF BotOrders, Awaited, Job
  <1>3. CASE j \in Visits
    BY <1>3 DEF Visits, Awaited, Job
  <1>4. CASE j \in Matches
    BY <1>4 DEF Matches, Awaited, Job
  <1>5. CASE j \in Notices
    BY <1>5 DEF Notices, Awaited, Job
  <1>. QED BY <1>1, <1>2, <1>3, <1>4, <1>5 DEF Jobs

LEMMA JobTyped ==
  /\ \A do \in Awaited, g \in Guests, r \in Rooms : Job(do, g, r) \in Jobs
  /\ \A do \in {"SeatBot", "BotJoin"}, b \in Bots, r \in Rooms : Job(do, b, r) \in Jobs
  /\ \A do \in {"Admit", "Promise", "Place"}, p \in Players, r \in Rooms : Job(do, p, r) \in Jobs
  /\ \A ps \in Seq(Players) : Job("Match", ps, NoRoom) \in Jobs
  /\ \A p \in Players : Job("Notify", p, NoRoom) \in Jobs
  <1>1. \A do \in Awaited, g \in Guests, r \in Rooms : Job(do, g, r) \in Orders
    BY DEF Orders, Job
  <1>2. \A do \in {"SeatBot", "BotJoin"}, b \in Bots, r \in Rooms : Job(do, b, r) \in BotOrders
    BY DEF BotOrders, Job
  <1>3. \A do \in {"Admit", "Promise", "Place"}, p \in Players, r \in Rooms : Job(do, p, r) \in Visits
    BY DEF Visits, Job
  <1>4. \A ps \in Seq(Players) : Job("Match", ps, NoRoom) \in Matches
    BY DEF Matches, Job
  <1>5. \A p \in Players : Job("Notify", p, NoRoom) \in Notices
    BY DEF Notices, Job
  <1>. QED BY <1>1, <1>2, <1>3, <1>4, <1>5 DEF Jobs

\* A command that is sent is the inbox's last.
LEMMA Sent ==
  ASSUME inbox \in [Rooms -> Seq(Command)], NEW r \in Rooms, NEW g \in Guests,
         NEW do \in Awaited \cup {"Joined", "Left"}, Send(r, do, g)
  PROVE  /\ inbox' \in [Rooms -> Seq(Command)]
         /\ Range(inbox'[r]) = Range(inbox[r]) \cup {[do |-> do, who |-> g]}
         /\ \A s \in Rooms : s # r => inbox'[s] = inbox[s]
  <1>. DEFINE c == [do |-> do, who |-> g]
  <1>1. c \in Command /\ inbox[r] \in Seq(Command)
    BY DEF Command
  <1>2. inbox' = [inbox EXCEPT ![r] = Append(@, c)]
    BY DEF Send
  <1>. HIDE DEF c
  <1>3. Append(inbox[r], c) \in Seq(Command) /\ Range(Append(inbox[r], c)) = Range(inbox[r]) \cup {c}
    BY <1>1, AppendListed
  <1>4. inbox'[r] = Append(inbox[r], c) /\ \A s \in Rooms : s # r => inbox'[s] = inbox[s]
    BY <1>2
  <1>5. inbox' \in [Rooms -> Seq(Command)]
    BY <1>2, <1>3
  <1>. QED BY <1>3, <1>4, <1>5 DEF c

\* A ticket that is issued is the only one that changes.
LEMMA Issued ==
  ASSUME tickets \in [Tokens -> Ticket \cup {NoTicket}], NEW p \in Players, NEW r \in Rooms,
         NEW fresh \in BOOLEAN, Issue(p, r, fresh)
  PROVE  /\ tickets' \in [Tokens -> Ticket \cup {NoTicket}]
         /\ \A t \in Tokens :
              \/ tickets'[t] = tickets[t]
              \/ tickets'[t] = [who |-> p, room |-> r, age |-> 0, fresh |-> fresh, dialing |-> FALSE]
  <1>. DEFINE new == [who |-> p, room |-> r, age |-> 0, fresh |-> fresh, dialing |-> FALSE]
  <1>1. new \in Ticket
    BY Numbers DEF Ticket
  <1>2. CASE \A t \in Tokens : tickets[t] # NoTicket
    <2>1. tickets' = tickets
      BY <1>2 DEF Issue
    <2>. HIDE DEF new
    <2>. QED BY <2>1
  <1>3. CASE ~\A t \in Tokens : tickets[t] # NoTicket
    <2>1. PICK t \in Tokens : tickets' = [tickets EXCEPT ![t] = new]
      <3>1. \E t \in Tokens : tickets[t] = NoTicket
        BY <1>3
      <3>2. (CHOOSE u \in Tokens : tickets[u] = NoTicket) \in Tokens
        BY <3>1
      <3>. QED BY <1>3, <3>2 DEF Issue
    <2>. HIDE DEF new
    <2>2. /\ tickets' \in [Tokens -> Ticket \cup {NoTicket}]
          /\ \A u \in Tokens : tickets'[u] = tickets[u] \/ tickets'[u] = new
      BY <1>1, <2>1
    <2>. QED BY <2>2 DEF new
  <1>. QED BY <1>2, <1>3

\* Those who wait when p no longer does, and the matches that are ready.
LEMMA Waiters ==
  ASSUME NEW p, queue \in Seq(Waiter)
  PROVE  /\ Without(p) \in Seq(Waiter)
         /\ \A w \in Range(Without(p)) : w \in Range(queue) /\ w.who # p
  <1>. DEFINE S == {i \in DOMAIN queue : queue[i].who # p}
              kept == Picked(queue, S)
  <1>1. Len(queue) \in Nat /\ S \in SUBSET (1..Len(queue)) /\ \A i \in S : queue[i] \in Waiter
    OBVIOUS
  <1>2. kept \in Seq(Waiter) /\ Lists(kept, queue, S)
    <2>. HIDE DEF S
    <2>. QED BY <1>1, PickedShape
  <1>3. PICK f \in [1..Len(kept) -> S] : \A k \in 1..Len(kept) : kept[k] = queue[f[k]]
    BY <1>2 DEF Lists
  <1>. HIDE DEF kept
  <1>4. ASSUME NEW w \in Range(kept) PROVE w \in Range(queue) /\ w.who # p
    <2>1. PICK k \in 1..Len(kept) : w = kept[k]
      BY <1>2 DEF Range
    <2>. QED BY <1>3, <2>1 DEF Range
  <1>. QED BY <1>2, <1>4 DEF kept, Without

LEMMA NamesTyped ==
  ASSUME queue \in Seq(Waiter), NEW m \in Nat, NEW n \in Nat, m >= 1, n <= Len(queue)
  PROVE  /\ Names(SubSeq(queue, m, n)) \in Seq(Players)
         /\ \A a \in Range(Names(SubSeq(queue, m, n))) : \E w \in Range(queue) : w.who = a
  <1>. DEFINE q == SubSeq(queue, m, n)
              names == Names(q)
  <1>1. q \in Seq(Waiter) /\ \A i \in DOMAIN q : q[i] \in Range(queue)
    <2>1. \A i \in m..n : queue[i] \in Waiter /\ queue[i] \in Range(queue)
      BY DEF Range
    <2>2. /\ SubSeq(queue, m, n) \in Seq(Waiter)
          /\ Len(SubSeq(queue, m, n)) = IF m <= n THEN n - m + 1 ELSE 0
          /\ \A i \in 1..n - m + 1 : SubSeq(queue, m, n)[i] = queue[m + i - 1]
      BY <2>1, SubSeqProperties
    <2>3. \A i \in DOMAIN SubSeq(queue, m, n) : SubSeq(queue, m, n)[i] \in Range(queue)
      BY <2>1, <2>2
    <2>. QED BY <2>2, <2>3
  <1>2. names = [i \in 1..Len(q) |-> q[i].who] /\ \A i \in 1..Len(q) : q[i].who \in Players
    BY <1>1 DEF Names, Waiter
  <1>. HIDE DEF names
  <1>3. names \in [1..Len(q) -> Players] /\ Len(q) \in Int /\ DOMAIN q = 1..Len(q)
    <2>1. Len(q) \in Int /\ DOMAIN q = 1..Len(q)
      BY <1>1
    <2>. QED BY <1>2, <2>1
  <1>4. names \in Seq(Players) /\ Range(names) = {names[i] : i \in 1..Len(q)}
    BY <1>3, Listed
  <1>5. \A a \in Range(names) : \E w \in Range(queue) : w.who = a
    <2>1. \A i \in 1..Len(q) : names[i] = q[i].who /\ q[i] \in Range(queue)
      BY <1>1, <1>2, <1>3
    <2>. QED BY <1>4, <2>1
  <1>. QED BY <1>4, <1>5 DEF names, q

LEMMA MatchesFit ==
  ASSUME NEW n \in Nat, NEW m \in Nat \ {0}, NEW i \in 1..(n \div m)
  PROVE  (i - 1) * m + 1 \in Nat /\ (i - 1) * m + 1 >= 1 /\ i * m \in Nat /\ i * m <= n
  <1>1. n \div m \in Nat /\ (n \div m) * m <= n
    OBVIOUS
  <1>2. i * m <= (n \div m) * m
    BY <1>1
  <1>3. (i - 1) * m \in Nat
    OBVIOUS
  <1>. QED BY <1>1, <1>2, <1>3

LEMMA RestListed ==
  ASSUME queue \in Seq(Waiter)
  PROVE  /\ FullMatches \in Nat /\ FullMatches * MatchSize + 1 \in Nat \ {0}
         /\ Rest \in Seq(Waiter) /\ Range(Rest) \subseteq Range(queue)
  <1>. DEFINE m == FullMatches * MatchSize + 1
              n == Len(queue)
  <1>1. FullMatches \in Nat /\ m \in Nat /\ m >= 1 /\ n \in Nat
    BY Numbers DEF FullMatches
  <1>. HIDE DEF m
  <1>2. \A i \in m..n : queue[i] \in Waiter /\ queue[i] \in Range(queue)
    BY <1>1 DEF Range
  <1>3. /\ SubSeq(queue, m, n) \in Seq(Waiter)
        /\ Len(SubSeq(queue, m, n)) = IF m <= n THEN n - m + 1 ELSE 0
        /\ \A i \in 1..n - m + 1 : SubSeq(queue, m, n)[i] = queue[m + i - 1]
    <2>. HIDE DEF n
    <2>. QED BY <1>1, <1>2, SubSeqProperties
  <1>. HIDE DEF n
  <1>4. \A i \in DOMAIN SubSeq(queue, m, n) : SubSeq(queue, m, n)[i] \in Range(queue)
    BY <1>1, <1>2, <1>3
  <1>. QED BY <1>1, <1>3, <1>4 DEF Rest, Range, m, n

\* Every match is of people who wait, and they wait no longer.
LEMMA ReadyListed ==
  ASSUME queue \in Seq(Waiter)
  PROVE  /\ Ready \in Seq(Jobs)
         /\ \A j \in Range(Ready) :
              j.do = "Match" /\ \A a \in Range(j.who) : \E w \in Range(queue) : w.who = a
  <1>. DEFINE players(i) == Names(SubSeq(queue, (i - 1) * MatchSize + 1, i * MatchSize))
              full == [i \in 1..FullMatches |-> Job("Match", players(i), NoRoom)]
              late == IF OutOfPatience THEN <<Job("Match", Names(Rest), NoRoom)>> ELSE <<>>
              Fine(j) == /\ j \in Jobs /\ j.do = "Match"
                         /\ \A a \in Range(j.who) : \E w \in Range(queue) : w.who = a
  <1>1. \A ps \in Seq(Players) :
          (\A a \in Range(ps) : \E w \in Range(queue) : w.who = a) => Fine(Job("Match", ps, NoRoom))
    BY JobTyped DEF Job
  <1>2. \A i \in 1..FullMatches : Fine(Job("Match", players(i), NoRoom))
    <2>. SUFFICES ASSUME NEW i \in 1..FullMatches PROVE Fine(Job("Match", players(i), NoRoom))
      OBVIOUS
    <2>1. /\ (i - 1) * MatchSize + 1 \in Nat /\ (i - 1) * MatchSize + 1 >= 1
          /\ i * MatchSize \in Nat /\ i * MatchSize <= Len(queue)
      <3>1. Len(queue) \in Nat /\ MatchSize \in Nat \ {0}
        BY Numbers
      <3>. QED BY <3>1, MatchesFit DEF FullMatches
    <2>2. /\ players(i) \in Seq(Players)
          /\ \A a \in Range(players(i)) : \E w \in Range(queue) : w.who = a
      BY <2>1, NamesTyped
    <2>. HIDE DEF players, Fine
    <2>. QED BY <1>1, <2>2
  <1>3. Fine(Job("Match", Names(Rest), NoRoom))
    <2>1. Names(Rest) \in Seq(Players) /\ \A a \in Range(Names(Rest)) : \E w \in Range(queue) : w.who = a
      <3>1. FullMatches * MatchSize + 1 \in Nat /\ FullMatches * MatchSize + 1 >= 1 /\ Len(queue) \in Nat
        BY RestListed
      <3>. QED BY <3>1, NamesTyped DEF Rest
    <2>. HIDE DEF Fine
    <2>. QED BY <1>1, <2>1
  <1>. HIDE DEF players
  <1>4. full \in Seq(Jobs) /\ \A j \in Range(full) : Fine(j)
    <2>1. FullMatches \in Int /\ full \in [1..FullMatches -> Jobs]
      BY <1>2, RestListed
    <2>2. full \in Seq(Jobs) /\ Range(full) = {full[i] : i \in 1..FullMatches}
      <3>. HIDE DEF full
      <3>. QED BY <2>1, Listed
    <2>. HIDE DEF Fine
    <2>. QED BY <1>2, <2>2
  <1>5. late \in Seq(Jobs) /\ \A j \in Range(late) : Fine(j)
    BY <1>3, OneListed, NoneListed
  <1>6. Ready = full \o late
    BY DEF Ready, players
  <1>. HIDE DEF full, late
  <1>7. full \o late \in Seq(Jobs) /\ Range(full \o late) = Range(full) \cup Range(late)
    BY <1>4, <1>5, JoinedListed
  <1>. QED BY <1>4, <1>5, <1>6, <1>7

LEMMA BaseInit == Init => Base
  <1>. SUFFICES ASSUME Init PROVE Base
    OBVIOUS
  <1>1. \A S : <<>> \in Seq(S)
    BY NoneListed
  <1>2. held \in [Rooms -> [Guests -> NotHeld..ReservationWindow]]
    BY Numbers DEF Init
  <1>. QED BY <1>1, <1>2 DEF Init, Base, TypeOK

LEMMA ClientBase ==
  ASSUME Base, NEW p \in Players,
         \/ Leave(p) \/ QuickMatch(p) \/ LeaveQueue(p)
         \/ \E r \in Rooms : Join(p, r) \/ Spectate(p, r) \/ HangUp(p, r)
  PROVE  Base'
  <1>. USE DEF Base, TypeOK, lobbyVars, arenaVars
  <1>2. CASE Leave(p)
    <2>1. queue' \in Seq([who : Players, age : 0..Patience])
      BY <1>2, Waiters DEF Leave, Waiter
    <2>2. work' \in Seq(Jobs)
      <3>. DEFINE release == IF reservedIn[p] = NoRoom THEN <<>>
                             ELSE <<Job("Withdraw", p, reservedIn[p])>>
                  notify == <<Job("Notify", p, NoRoom)>>
      <3>1. release \in Seq(Jobs) /\ notify \in Seq(Jobs)
        <4>1. Job("Notify", p, NoRoom) \in Jobs
          BY JobTyped
        <4>2. reservedIn[p] # NoRoom => Job("Withdraw", p, reservedIn[p]) \in Jobs
          BY JobTyped, Numbers DEF Awaited
        <4>. QED BY <4>1, <4>2, OneListed, NoneListed
      <3>2. work' = release \o notify
        BY <1>2 DEF Leave
      <3>. HIDE DEF release, notify
      <3>. QED BY <3>1, <3>2
    <2>. QED BY <1>2, <2>1, <2>2, Numbers DEF Leave
  <1>3. CASE QuickMatch(p)
    <2>1. [who |-> p, age |-> 0] \in [who : Players, age : 0..Patience]
      BY Numbers
    <2>. QED BY <1>3, <2>1, AppendListed DEF QuickMatch
  <1>4. CASE LeaveQueue(p)
    BY <1>4, Waiters DEF LeaveQueue, Waiter
  <1>5. ASSUME NEW r \in Rooms, Join(p, r) PROVE Base'
    <2>1. Job("MakeRoom", p, r) \in Jobs /\ Job("Admit", p, r) \in Jobs
      BY JobTyped, Numbers DEF Awaited
    <2>. QED BY <1>5, <2>1 DEF Join
  <1>6. ASSUME NEW r \in Rooms, Spectate(p, r) PROVE Base'
    BY <1>6, Issued DEF Spectate
  <1>7. ASSUME NEW r \in Rooms, HangUp(p, r) PROVE Base'
    BY <1>7 DEF HangUp, AgentLeft
  <1>. QED BY <1>2, <1>3, <1>4, <1>5, <1>6, <1>7

LEMMA DrainBase == Base /\ Drain => Base'
  <1>. SUFFICES ASSUME Base, Drain PROVE Base'
    OBVIOUS
  <1>1. queue \in Seq(Waiter)
    BY DEF Base, TypeOK, Waiter
  <1>2. queue' \in Seq(Waiter)
    BY <1>1, RestListed, NoneListed DEF Drain
  <1>3. work' \in Seq(Jobs)
    BY <1>1, ReadyListed DEF Drain
  <1>. QED BY <1>2, <1>3 DEF Drain, Base, TypeOK, Waiter, arenaVars

\* The jobs a match becomes.
Seating(n, ps, bs, r) ==
  [i \in 1..n |-> Job("SeatBot", bs[i], r)] \o [i \in DOMAIN ps |-> Job("Promise", ps[i], r)]

LEMMA SeatingListed ==
  ASSUME NEW n \in Int, NEW ps \in Seq(Players), NEW bs \in [1..n -> Bots], NEW r \in Rooms
  PROVE  /\ Seating(n, ps, bs, r) \in Seq(Jobs)
         /\ \A j \in Range(Seating(n, ps, bs, r)) :
              \/ j.do = "SeatBot"
              \/ j.do = "Promise" /\ j.who \in Range(ps)
  <1>. DEFINE bots == [i \in 1..n |-> Job("SeatBot", bs[i], r)]
              people == [i \in DOMAIN ps |-> Job("Promise", ps[i], r)]
  <1>1. bots \in Seq(Jobs) /\ Range(bots) = {bots[i] : i \in 1..n}
    <2>1. \A i \in 1..n : Job("SeatBot", bs[i], r) \in Jobs
      BY JobTyped, Numbers
    <2>2. bots \in [1..n -> Jobs]
      BY <2>1
    <2>. HIDE DEF bots
    <2>. QED BY <2>2, Listed
  <1>2. people \in Seq(Jobs) /\ Range(people) = {people[i] : i \in 1..Len(ps)}
    <2>1. \A i \in 1..Len(ps) : Job("Promise", ps[i], r) \in Jobs
      BY JobTyped
    <2>2. people \in [1..Len(ps) -> Jobs] /\ Len(ps) \in Int
      BY <2>1
    <2>. HIDE DEF people
    <2>. QED BY <2>2, Listed
  <1>3. Seating(n, ps, bs, r) = bots \o people
    BY DEF Seating
  <1>4. \A i \in 1..n : bots[i].do = "SeatBot"
    BY DEF Job
  <1>5. \A i \in DOMAIN ps : people[i].do = "Promise" /\ people[i].who \in Range(ps)
    BY DEF Job, Range
  <1>. HIDE DEF bots, people
  <1>6. DOMAIN ps = 1..Len(ps)
    OBVIOUS
  <1>7. bots \o people \in Seq(Jobs) /\ Range(bots \o people) = Range(bots) \cup Range(people)
    BY <1>1, <1>2, JoinedListed
  <1>. QED BY <1>1, <1>2, <1>3, <1>4, <1>5, <1>6, <1>7

\* What a job leaves the lobby to do: some jobs in its place, before the rest.
LEMMA Replaced ==
  ASSUME work \in Seq(Jobs), work # <<>>, NEW new \in Seq(Jobs)
  PROVE  /\ Now \in Jobs /\ Tail(work) \in Seq(Jobs)
         /\ new \o Tail(work) \in Seq(Jobs)
         /\ Range(work) = Range(Tail(work)) \cup {Now}
         /\ Range(new \o Tail(work)) = Range(new) \cup Range(Tail(work))
  <1>1. Now \in Jobs /\ Tail(work) \in Seq(Jobs) /\ Range(work) = Range(Tail(work)) \cup {Now}
    BY HeadAndTail DEF Now
  <1>2. Range(new \o Tail(work)) = Range(new) \cup Range(Tail(work))
    <2>. DEFINE x == Tail(work)
    <2>1. x \in Seq(Jobs)
      BY <1>1
    <2>. HIDE DEF x
    <2>2. Range(new \o x) = Range(new) \cup Range(x)
      BY <2>1, JoinedListed
    <2>. QED BY <2>2 DEF x
  <1>. QED BY <1>1, <1>2, ConcatProperties, Zenon

\* What the jobs put in their own place.
Hold(p, r) ==
  Superseded(p, r) \o <<Job("Reserve", p, r), Job("Place", p, r)>>

LEMMA HoldListed ==
  ASSUME Base, NEW p \in Players, NEW r \in Rooms
  PROVE  /\ Superseded(p, r) \in Seq(Jobs)
         /\ Hold(p, r) \in Seq(Jobs)
         /\ Range(Hold(p, r)) = Range(Superseded(p, r))
                                  \cup {Job("Reserve", p, r), Job("Place", p, r)}
         /\ reservedIn[p] \in {NoRoom, r} => Superseded(p, r) = <<>>
         /\ reservedIn[p] \notin {NoRoom, r} =>
              Superseded(p, r) = <<Job("Withdraw", p, reservedIn[p])>>
  <1>. DEFINE a == Job("Reserve", p, r)
              b == Job("Place", p, r)
  <1>1. a \in Jobs /\ b \in Jobs
    BY JobTyped, Numbers DEF Awaited
  <1>2. reservedIn[p] # NoRoom => Job("Withdraw", p, reservedIn[p]) \in Jobs
    BY JobTyped, Numbers DEF Awaited, Base, TypeOK
  <1>3. Superseded(p, r) \in Seq(Jobs)
    BY <1>2, OneListed, NoneListed DEF Superseded
  <1>. HIDE DEF a, b
  <1>4. <<a, b>> \in Seq(Jobs) /\ Range(<<a, b>>) = {a, b}
    <2>1. <<a, b>> \in Seq(Jobs)
      BY <1>1
    <2>. QED BY <2>1 DEF Range
  <1>5. /\ Superseded(p, r) \o <<a, b>> \in Seq(Jobs)
        /\ Range(Superseded(p, r) \o <<a, b>>) = Range(Superseded(p, r)) \cup Range(<<a, b>>)
    <2>. DEFINE x == <<a, b>>
                y == Superseded(p, r)
    <2>1. x \in Seq(Jobs) /\ y \in Seq(Jobs)
      BY <1>3, <1>4
    <2>. HIDE DEF x, y
    <2>2. y \o x \in Seq(Jobs) /\ Range(y \o x) = Range(y) \cup Range(x)
      BY <2>1, JoinedListed
    <2>. QED BY <2>2 DEF x, y
  <1>. QED BY <1>3, <1>4, <1>5 DEF Hold, Superseded, a, b

\* A match becomes bots to seat and people to make a promise to.
LEMMA MatchSeated ==
  ASSUME work \in Seq(Jobs), work # <<>>, SeatMatch
  PROVE  \E new \in Seq(Jobs) :
           /\ work' = new \o Tail(work)
           /\ \A j \in Range(new) :
                \/ j.do = "SeatBot"
                \/ j.do = "Promise" /\ j.who \in Range(Now.who)
  <1>. DEFINE g == Now.who
              n == MatchSize - Len(g)
              Fine(new) == \A j \in Range(new) :
                             \/ j.do = "SeatBot"
                             \/ j.do = "Promise" /\ j.who \in Range(g)
  <1>1. Now \in Jobs /\ Tail(work) \in Seq(Jobs)
    BY Replaced, NoneListed
  <1>2. g \in Seq(Players) /\ n \in Int
    BY <1>1, JobFields, Numbers DEF SeatMatch
  <1>3. CASE work' = Tail(work)
    <2>1. <<>> \in Seq(Jobs) /\ Range(<<>>) = {} /\ <<>> \o Tail(work) = Tail(work)
      BY <1>1, NoneListed
    <2>. QED BY <1>3, <2>1
  <1>4. CASE work' # Tail(work)
    <2>1. PICK s \in Rooms, bs \in [1..n -> {b \in Bots : IsFree(b)}] :
            work' = [i \in 1..n |-> Job("SeatBot", bs[i], s)]
                    \o [i \in DOMAIN g |-> Job("Promise", g[i], s)]
                    \o Tail(work)
      BY <1>4 DEF SeatMatch
    <2>2. bs \in [1..n -> Bots]
      OBVIOUS
    <2>3. work' = Seating(n, g, bs, s) \o Tail(work)
      BY <2>1, Zenon DEF Seating
    <2>4. Seating(n, g, bs, s) \in Seq(Jobs) /\ Fine(Seating(n, g, bs, s))
      BY <1>2, <2>2, SeatingListed
    <2>. HIDE DEF Fine
    <2>5. \E new \in Seq(Jobs) : work' = new \o Tail(work) /\ Fine(new)
      BY <2>3, <2>4
    <2>. QED BY <2>5 DEF Fine
  <1>. QED BY <1>3, <1>4

LEMMA ServeBase == Base /\ Serve => Base'
  <1>. SUFFICES ASSUME Base, Serve PROVE Base'
    OBVIOUS
  <1>0. work \in Seq(Jobs) /\ work # <<>> /\ ~Waiting /\ UNCHANGED <<held, seats>>
    BY DEF Base, Serve, arenaVars
  <1>1. Now \in Jobs /\ Tail(work) \in Seq(Jobs)
    BY <1>0, Replaced, NoneListed
  <1>. DEFINE g == Now.who
              r == Now.room
  <1>2. \A new \in Seq(Jobs) : new \o Tail(work) \in Seq(Jobs)
    BY <1>0, Replaced
  <1>3. \A do \in Awaited \cup {"Joined", "Left"}, s \in Rooms, h \in Guests :
          Send(s, do, h) => inbox' \in [Rooms -> Seq(Command)]
    BY Sent DEF Base, TypeOK
  <1>4. CASE Ask
    <2>1. g \in Guests /\ r \in Rooms
      BY <1>1, <1>4, JobFields DEF Ask
    <2>. QED BY <1>0, <1>1, <1>3, <1>4, <2>1 DEF Ask, Base, TypeOK
  <1>5. CASE Admit
    <2>1. g \in Players /\ r \in Rooms
      BY <1>1, <1>5, JobFields DEF Admit
    <2>2. <<Job("Promise", g, r)>> \in Seq(Jobs)
      BY <2>1, JobTyped, OneListed
    <2>3. work' \in Seq(Jobs)
      BY <1>1, <1>2, <1>5, <2>2 DEF Admit
    <2>. QED BY <1>0, <1>5, <2>1, <2>3 DEF Admit, Base, TypeOK
  <1>6. CASE Promise
    <2>1. g \in Players /\ r \in Rooms
      BY <1>1, <1>6, JobFields DEF Promise
    <2>2. Hold(g, r) \in Seq(Jobs)
      BY <2>1, HoldListed
    <2>3. work' = Hold(g, r) \o Tail(work)
      BY <1>6, Zenon DEF Promise, Hold
    <2>4. reservedIn' \in [Players -> Rooms \cup {NoRoom}]
      BY <1>6, <2>1 DEF Promise, Base, TypeOK
    <2>. QED BY <1>0, <1>2, <1>6, <2>2, <2>3, <2>4 DEF Promise, Base, TypeOK
  <1>7. CASE Place
    <2>1. g \in Players /\ r \in Rooms
      BY <1>1, <1>7, JobFields DEF Place
    <2>2. Issue(g, r, held[r][g] = 0)
      BY <1>7 DEF Place
    <2>3. (held[r][g] = 0) \in BOOLEAN
      OBVIOUS
    <2>4. tickets' \in [Tokens -> Ticket \cup {NoTicket}]
      BY <2>1, <2>2, <2>3, Issued DEF Base, TypeOK
    <2>. QED BY <1>0, <1>1, <1>7, <2>4 DEF Place, Base, TypeOK
  <1>8. CASE Notify
    <2>1. g \in Players
      BY <1>1, <1>8, JobFields DEF Notify
    <2>2. inbox' \in [Rooms -> Seq(Command)]
      BY <1>3, <1>8, <2>1, Numbers DEF Notify, Base, TypeOK
    <2>3. sentTo' \in [Players -> Rooms \cup {NoRoom}]
      BY <1>8, <2>1 DEF Notify, Base, TypeOK
    <2>. QED BY <1>0, <1>1, <1>8, <2>2, <2>3 DEF Notify, Base, TypeOK
  <1>9. CASE SeatMatch
    <2>1. work' \in Seq(Jobs)
      BY <1>0, <1>2, <1>9, MatchSeated
    <2>. QED BY <1>0, <1>9, <2>1 DEF SeatMatch, Base, TypeOK
  <1>10. CASE SeatBot
    <2>1. g \in Bots /\ g \in Guests /\ r \in Rooms
      BY <1>1, <1>10, JobFields, Numbers DEF SeatBot
    <2>. DEFINE a == Job("Reserve", g, r)
                b == Job("BotJoin", g, r)
    <2>2. a \in Jobs /\ b \in Jobs
      BY <2>1, JobTyped DEF Awaited
    <2>3. work' = <<a, b>> \o Tail(work)
      BY <1>10 DEF SeatBot
    <2>. HIDE DEF a, b
    <2>4. <<a, b>> \in Seq(Jobs)
      BY <2>2
    <2>5. work' \in Seq(Jobs)
      BY <1>2, <2>3, <2>4
    <2>. QED BY <1>0, <1>10, <2>5 DEF SeatBot, Base, TypeOK
  <1>11. CASE BotJoin
    <2>1. g \in Guests /\ r \in Rooms
      BY <1>1, <1>11, JobFields, Numbers DEF BotJoin
    <2>2. inbox' \in [Rooms -> Seq(Command)]
      BY <1>3, <1>11, <2>1 DEF BotJoin
    <2>. QED BY <1>0, <1>1, <1>11, <2>2 DEF BotJoin, Base, TypeOK
  <1>. QED BY <1>4, <1>5, <1>6, <1>7, <1>8, <1>9, <1>10, <1>11 DEF Serve

\* An arena takes the first of its commands.
LEMMA Taken ==
  ASSUME Base, NEW r \in Rooms, Handle(r)
  PROVE  /\ inbox[r] \in Seq(Command) /\ inbox[r] # <<>>
         /\ Head(inbox[r]) \in Command
         /\ inbox' \in [Rooms -> Seq(Command)]
         /\ Range(inbox[r]) = Range(inbox'[r]) \cup {Head(inbox[r])}
         /\ \A s \in Rooms : s # r => inbox'[s] = inbox[s]
  <1>1. inbox[r] \in Seq(Command) /\ inbox[r] # <<>> /\ inbox \in [Rooms -> Seq(Command)]
    BY DEF Base, TypeOK, Handle
  <1>2. /\ Head(inbox[r]) \in Command /\ Tail(inbox[r]) \in Seq(Command)
        /\ Range(inbox[r]) = Range(Tail(inbox[r])) \cup {Head(inbox[r])}
    BY <1>1, HeadAndTail
  <1>3. inbox' = [inbox EXCEPT ![r] = Tail(inbox[r])]
    BY DEF Handle
  <1>. QED BY <1>1, <1>2, <1>3

\* A command only ever touches its own arena, and makes no promise but the one
\* it asks for.
LEMMA Handled ==
  ASSUME Base, NEW r \in Rooms, Handle(r)
  PROVE  /\ held' \in [Rooms -> [Guests -> NotHeld..ReservationWindow]]
         /\ seats' \in [Rooms -> SUBSET Guests]
         /\ \A s \in Rooms, g \in Guests :
              \/ held'[s][g] = held[s][g]
              \/ held'[s][g] = NotHeld
              \/ /\ held[s][g] = NotHeld /\ held'[s][g] = 0
                 /\ s = r /\ Head(inbox[r]) = [do |-> "Reserve", who |-> g]
         /\ \A g \in Guests : Head(inbox[r]) = [do |-> "Withdraw", who |-> g] => held'[r][g] = NotHeld
         /\ \A s \in Rooms, g \in Guests : g \in seats'[s] \ seats[s] => s = r /\ held[s][g] # NotHeld
  <1>. DEFINE c == Head(inbox[r])
              g == c.who
              Done == /\ held' \in [Rooms -> [Guests -> NotHeld..ReservationWindow]]
                      /\ seats' \in [Rooms -> SUBSET Guests]
                      /\ \A s \in Rooms, h \in Guests :
                           \/ held'[s][h] = held[s][h]
                           \/ held'[s][h] = NotHeld
                           \/ /\ held[s][h] = NotHeld /\ held'[s][h] = 0
                              /\ s = r /\ h = g /\ c.do = "Reserve"
                      /\ c.do = "Withdraw" => held'[r][g] = NotHeld
                      /\ \A s \in Rooms, h \in Guests :
                           h \in seats'[s] \ seats[s] => s = r /\ held[s][h] # NotHeld
  <1>1. c \in Command
    BY Taken
  <1>2. g \in Guests /\ c = [do |-> c.do, who |-> g]
    BY <1>1 DEF Command
  <1>3. held \in [Rooms -> [Guests -> NotHeld..ReservationWindow]] /\ seats \in [Rooms -> SUBSET Guests]
    BY DEF Base, TypeOK
  <1>4. 0 \in NotHeld..ReservationWindow /\ NotHeld \in NotHeld..ReservationWindow
    BY Numbers
  <1>5. \/ c.do = "Reserve" /\ held' = Reserve(r, g) /\ seats' = seats
        \/ c.do = "Withdraw" /\ held' = Release(r, g) /\ seats' = seats
        \/ c.do = "MakeRoom" /\ MakeRoom(r)
        \/ c.do = "Joined" /\ AgentJoined(r, g)
        \/ c.do = "Left" /\ AgentLeft(r, g)
    BY DEF Handle
  <1>. SUFFICES Done
    BY <1>2
  <1>. HIDE DEF c, g
  <1>6. CASE c.do = "Reserve" /\ held' = Reserve(r, g) /\ seats' = seats
    BY <1>2, <1>3, <1>4, <1>6 DEF Reserve
  <1>7. CASE c.do = "Withdraw" /\ held' = Release(r, g) /\ seats' = seats
    BY <1>2, <1>3, <1>4, <1>7 DEF Release
  <1>8. CASE c.do = "MakeRoom" /\ MakeRoom(r)
    <2>1. held' = held /\ \A s \in Rooms : seats'[s] \subseteq seats[s]
      BY <1>3, <1>8 DEF MakeRoom, AgentLeft, arenaVars
    <2>2. seats' \in [Rooms -> SUBSET Guests]
      BY <1>3, <1>8 DEF MakeRoom, AgentLeft, arenaVars
    <2>. QED BY <1>3, <1>8, <2>1, <2>2
  <1>9. CASE c.do = "Joined" /\ AgentJoined(r, g)
    BY <1>2, <1>3, <1>4, <1>9 DEF AgentJoined, Release, Admitted, Promised
  <1>10. CASE c.do = "Left" /\ AgentLeft(r, g)
    BY <1>2, <1>3, <1>10 DEF AgentLeft
  <1>. QED BY <1>5, <1>6, <1>7, <1>8, <1>9, <1>10

LEMMA HandleBase ==
  ASSUME Base, NEW r \in Rooms, Handle(r)
  PROVE  Base'
  <1>1. UNCHANGED <<gone, queue, reservedIn, sentTo, work, tickets>>
    BY DEF Handle, lobbyVars
  <1>2. inbox' \in [Rooms -> Seq(Command)]
    BY Taken
  <1>3. held' \in [Rooms -> [Guests -> NotHeld..ReservationWindow]] /\ seats' \in [Rooms -> SUBSET Guests]
    BY Handled
  <1>. QED BY <1>1, <1>2, <1>3 DEF Base, TypeOK

LEMMA SweepBase ==
  ASSUME Base, NEW r \in Rooms, Sweep(r)
  PROVE  /\ Base'
         /\ \A s \in Rooms, g \in Guests : held'[s][g] = held[s][g] \/ held'[s][g] = NotHeld
         /\ \A s \in Rooms : seats'[s] \subseteq seats[s]
         /\ \A g \in Guests : held'[r][g] # held[r][g] => g \in Overdue(r)
  <1>. USE DEF Base, TypeOK
  <1>1. UNCHANGED <<gone, queue, reservedIn, sentTo, work, inbox, tickets>>
    BY DEF Sweep, lobbyVars
  <1>2. held' = [held EXCEPT ![r] = [g \in Guests |-> IF g \in Overdue(r) THEN NotHeld ELSE held[r][g]]]
    BY DEF Sweep
  <1>3. seats' = [seats EXCEPT ![r] = seats[r] \ Idlers(r)]
    BY DEF Sweep
  <1>4. /\ held' \in [Rooms -> [Guests -> NotHeld..ReservationWindow]]
        /\ \A s \in Rooms, g \in Guests : held'[s][g] = held[s][g] \/ held'[s][g] = NotHeld
        /\ \A g \in Guests : held'[r][g] # held[r][g] => g \in Overdue(r)
    BY <1>2, Numbers
  <1>5. seats' \in [Rooms -> SUBSET Guests] /\ \A s \in Rooms : seats'[s] \subseteq seats[s]
    BY <1>3
  <1>. QED BY <1>1, <1>4, <1>5

\* What redeeming makes of a ticket.
Redeemed(k) == [who |-> k.who, room |-> k.room, age |-> 0, fresh |-> k.fresh, dialing |-> TRUE]

LEMMA DialBase ==
  ASSUME Base, NEW t \in Tokens, Dial(t)
  PROVE  /\ Base'
         /\ \A u \in Tokens :
              \/ tickets'[u] = tickets[u]
              \/ tickets'[u] = NoTicket
              \/ /\ tickets[u] \in Ticket /\ ~tickets[u].dialing /\ tickets[u].age < TicketWindow
                 /\ tickets'[u] = Redeemed(tickets[u])
  <1>. DEFINE k == tickets[t]
  <1>1. tickets \in [Tokens -> Ticket \cup {NoTicket}] /\ k \in Ticket /\ ~k.dialing
    BY DEF Base, TypeOK, Dial
  <1>2. Redeemed(k) \in Ticket
    BY <1>1, Numbers DEF Ticket, Redeemed
  <1>. DEFINE Done == /\ tickets' \in [Tokens -> Ticket \cup {NoTicket}]
                      /\ \A u \in Tokens :
                           \/ tickets'[u] = tickets[u]
                           \/ tickets'[u] = NoTicket
                           \/ u = t /\ k.age < TicketWindow /\ tickets'[u] = Redeemed(k)
  <1>3. CASE k.age >= TicketWindow
    <2>1. tickets' = [tickets EXCEPT ![t] = NoTicket]
      BY <1>3 DEF Dial
    <2>2. Done
      BY <1>1, <2>1
    <2>. QED BY <1>1, <2>2 DEF Dial, lobbyVars, arenaVars, Base, TypeOK
  <1>4. CASE ~(k.age >= TicketWindow)
    <2>1. tickets' = [tickets EXCEPT ![t].dialing = TRUE, ![t].age = 0]
      BY <1>4 DEF Dial
    <2>2. tickets'[t] = Redeemed(k)
      BY <1>1, <2>1 DEF Redeemed, Ticket
    <2>3. DOMAIN tickets' = Tokens /\ \A u \in Tokens : u # t => tickets'[u] = tickets[u]
      BY <1>1, <2>1
    <2>4. tickets' = [u \in Tokens |-> tickets'[u]]
      BY <2>1, <1>1
    <2>5. k.age < TicketWindow
      BY <1>1, <1>4, Numbers DEF Ticket
    <2>. HIDE DEF k
    <2>6. Done
      BY <1>1, <1>2, <2>2, <2>3, <2>4, <2>5
    <2>. QED BY <1>1, <2>6 DEF Dial, lobbyVars, arenaVars, Base, TypeOK, k
  <1>. QED BY <1>3, <1>4

LEMMA ArriveBase ==
  ASSUME Base, NEW t \in Tokens, Arrive(t)
  PROVE  /\ Base'
         /\ \A s \in Rooms, g \in Guests : held'[s][g] = held[s][g] \/ held'[s][g] = NotHeld
         /\ \A s \in Rooms, g \in Guests : g \in seats'[s] \ seats[s] => held[s][g] # NotHeld
         /\ \A u \in Tokens : tickets'[u] = tickets[u] \/ tickets'[u] = NoTicket
  <1>. DEFINE g == tickets[t].who
              r == tickets[t].room
  <1>1. g \in Guests /\ r \in Rooms
    BY Numbers DEF Base, TypeOK, Arrive, Ticket
  <1>2. AgentJoined(r, g)
    BY DEF Arrive
  <1>3. held \in [Rooms -> [Guests -> NotHeld..ReservationWindow]] /\ seats \in [Rooms -> SUBSET Guests]
    BY DEF Base, TypeOK
  <1>4. UNCHANGED <<gone, queue, reservedIn, sentTo, work, inbox>>
        /\ tickets' = [tickets EXCEPT ![t] = NoTicket]
    BY DEF Arrive, lobbyVars
  <1>5. /\ tickets' \in [Tokens -> Ticket \cup {NoTicket}]
        /\ \A u \in Tokens : tickets'[u] = tickets[u] \/ tickets'[u] = NoTicket
    BY <1>4 DEF Base, TypeOK
  <1>. HIDE DEF g, r
  <1>6. /\ held' \in [Rooms -> [Guests -> NotHeld..ReservationWindow]]
        /\ \A s \in Rooms, h \in Guests : held'[s][h] = held[s][h] \/ held'[s][h] = NotHeld
    BY <1>1, <1>2, <1>3, Numbers DEF AgentJoined, Release
  <1>7. /\ seats' \in [Rooms -> SUBSET Guests]
        /\ \A s \in Rooms, h \in Guests : h \in seats'[s] \ seats[s] => held[s][h] # NotHeld
    BY <1>1, <1>2, <1>3 DEF AgentJoined, Admitted, Promised
  <1>. QED BY <1>4, <1>5, <1>6, <1>7 DEF Base, TypeOK

\* A ticket a tick older.
LEMMA TicketAges ==
  ASSUME NEW k \in Ticket
  PROVE  /\ [k EXCEPT !.age = Older(@, ReservationWindow)] \in Ticket
         /\ [k EXCEPT !.age = Older(@, ReservationWindow)]
              = [who |-> k.who, room |-> k.room, age |-> Older(k.age, ReservationWindow),
                 fresh |-> k.fresh, dialing |-> k.dialing]
  <1>1. Older(k.age, ReservationWindow) \in 0..ReservationWindow
    BY Numbers DEF Ticket, Older
  <1>2. [k EXCEPT !.age = Older(@, ReservationWindow)]
          = [who |-> k.who, room |-> k.room, age |-> Older(k.age, ReservationWindow),
             fresh |-> k.fresh, dialing |-> k.dialing]
    BY DEF Ticket
  <1>. QED BY <1>1, <1>2 DEF Ticket

LEMMA TickBase ==
  ASSUME Base, Tick
  PROVE  /\ Base'
         /\ \A w \in Range(queue') : \E v \in Range(queue) : v.who = w.who
         /\ \A r \in Rooms, g \in Guests :
              IF held[r][g] = NotHeld THEN held'[r][g] = NotHeld
              ELSE held'[r][g] = held[r][g] + 1 /\ held[r][g] < ReservationWindow
         /\ \A t \in Tokens :
              \/ tickets[t] = NoTicket /\ tickets'[t] = NoTicket
              \/ /\ tickets[t] \in Ticket /\ tickets[t] # NoTicket
                 /\ tickets'[t] = [who |-> tickets[t].who, room |-> tickets[t].room,
                                   age |-> Older(tickets[t].age, ReservationWindow),
                                   fresh |-> tickets[t].fresh, dialing |-> tickets[t].dialing]
  <1>. DEFINE older(w) == [w EXCEPT !.age = Older(@, Patience)]
  <1>1. queue \in Seq(Waiter)
    BY DEF Base, TypeOK, Waiter
  <1>2. \A w \in Waiter : older(w) \in Waiter /\ older(w).who = w.who
    <2>. SUFFICES ASSUME NEW w \in Waiter PROVE older(w) \in Waiter /\ older(w).who = w.who
      OBVIOUS
    <2>1. Older(w.age, Patience) \in 0..Patience
      BY Numbers DEF Waiter, Older
    <2>. QED BY <2>1 DEF Waiter
  <1>3. queue' = [i \in 1..Len(queue) |-> older(queue[i])] /\ Len(queue) \in Int
    <2>1. DOMAIN queue = 1..Len(queue) /\ Len(queue) \in Int
      BY <1>1
    <2>. QED BY <2>1 DEF Tick
  <1>. HIDE DEF older
  <1>4. queue' \in Seq(Waiter) /\ Range(queue') = {queue'[i] : i \in 1..Len(queue)}
    <2>1. queue' \in [1..Len(queue) -> Waiter]
      BY <1>1, <1>2, <1>3
    <2>2. \A f \in [1..Len(queue) -> Waiter] :
            f \in Seq(Waiter) /\ Range(f) = {f[i] : i \in 1..Len(queue)}
      BY <1>3, Listed
    <2>. QED BY <2>1, <2>2
  <1>5. ASSUME NEW w \in Range(queue') PROVE \E v \in Range(queue) : v.who = w.who
    <2>1. PICK i \in 1..Len(queue) : w = older(queue[i])
      BY <1>3, <1>4
    <2>2. queue[i] \in Waiter /\ queue[i] \in Range(queue)
      BY <1>1 DEF Range
    <2>. QED BY <1>2, <2>1, <2>2
  <1>6. /\ held' \in [Rooms -> [Guests -> NotHeld..ReservationWindow]]
        /\ \A r \in Rooms, g \in Guests :
              IF held[r][g] = NotHeld THEN held'[r][g] = NotHeld
              ELSE held'[r][g] = held[r][g] + 1 /\ held[r][g] < ReservationWindow
    <2>1. \A r \in Rooms, g \in Guests :
            held[r][g] \in NotHeld..ReservationWindow /\ held[r][g] < ReservationWindow
      BY Numbers DEF Base, TypeOK, Tick, Overdue
    <2>2. held' = [r \in Rooms |-> [g \in Guests |->
                     IF held[r][g] = NotHeld THEN NotHeld ELSE held[r][g] + 1]]
      BY DEF Tick
    <2>3. \A r \in Rooms, g \in Guests :
            (IF held[r][g] = NotHeld THEN NotHeld ELSE held[r][g] + 1) \in NotHeld..ReservationWindow
      BY <2>1, Numbers
    <2>. QED BY <2>1, <2>2, <2>3
  <1>7. \A t \in Tokens :
          \/ tickets[t] = NoTicket /\ tickets'[t] = NoTicket
          \/ /\ tickets[t] \in Ticket /\ tickets[t] # NoTicket
             /\ tickets'[t] = [tickets[t] EXCEPT !.age = Older(@, ReservationWindow)]
    BY DEF Tick, Base, TypeOK
  <1>8. tickets' \in [Tokens -> Ticket \cup {NoTicket}]
    <2>1. tickets' = [t \in Tokens |-> tickets'[t]]
      BY DEF Tick
    <2>2. \A k \in Ticket : [k EXCEPT !.age = Older(@, ReservationWindow)] \in Ticket
      BY TicketAges
    <2>3. \A t \in Tokens : tickets'[t] \in Ticket \cup {NoTicket}
      BY <1>7, <2>2
    <2>. QED BY <2>1, <2>3
  <1>9. Base'
    BY <1>4, <1>6, <1>8 DEF Tick, Base, TypeOK, Waiter
  <1>. QED BY <1>5, <1>6, <1>7, <1>9, TicketAges

LEMMA BaseStep == Base /\ [Next]_vars => Base'
  <1>. SUFFICES ASSUME Base, [Next]_vars PROVE Base'
    OBVIOUS
  <1>1. CASE \E p \in Players :
               \/ Leave(p) \/ QuickMatch(p) \/ LeaveQueue(p)
               \/ \E r \in Rooms : Join(p, r) \/ Spectate(p, r) \/ HangUp(p, r)
    <2>1. PICK p \in Players :
               \/ Leave(p) \/ QuickMatch(p) \/ LeaveQueue(p)
               \/ \E r \in Rooms : Join(p, r) \/ Spectate(p, r) \/ HangUp(p, r)
      BY <1>1
    <2>. QED BY <2>1, ClientBase
  <1>2. CASE Drain
    BY <1>2, DrainBase
  <1>3. CASE Serve
    BY <1>3, ServeBase
  <1>4. CASE \E r \in Rooms : Handle(r) \/ Sweep(r)
    BY <1>4, HandleBase, SweepBase
  <1>5. CASE \E t \in Tokens : Dial(t) \/ Arrive(t)
    BY <1>5, DialBase, ArriveBase
  <1>6. CASE Tick
    BY <1>6, TickBase
  <1>7. CASE UNCHANGED vars
    BY <1>7 DEF vars, lobbyVars, arenaVars, Base, TypeOK
  <1>. QED BY <1>1, <1>2, <1>3, <1>4, <1>5, <1>6, <1>7 DEF Next

\* Every variable keeps its type: no request or command names an arena or a guest
\* there is none of, and no promise outlives its window (lobby.rs, room.rs).
THEOREM TypeCorrect == Spec => []TypeOK
  <1>1. Spec => []Base
    BY BaseInit, BaseStep, PTL DEF Spec
  <1>2. Base => TypeOK
    BY DEF Base
  <1>. QED BY <1>1, <1>2, PTL

-----------------------------------------------------------------------------
(* One promise.                                                            *)

Quiet(jobs) == \A j \in Range(jobs) : j.do # "Reserve"

\* A seat is reserved next, or once an earlier promise has been withdrawn.
InFront ==
  \/ Quiet(work)
  \/ work # <<>> /\ Quiet(Tail(work))
  \/ work # <<>> /\ Now.do = "Withdraw" /\ Tail(work) # <<>> /\ Quiet(Tail(Tail(work)))

\* A seat is asked for where the player is placed.
Meant ==
  \A p \in Players :
    /\ \A j \in Range(work) : j.do = "Reserve" /\ j.who = p => reservedIn[p] = j.room
    /\ \A r \in Rooms : [do |-> "Reserve", who |-> p] \in Range(inbox[r]) => reservedIn[p] = r

\* A promise held is the one meant, or is being taken back.
TakingBack(p, r) ==
  \/ Job("Withdraw", p, r) \in Range(work)
  \/ [do |-> "Withdraw", who |-> p] \in Range(inbox[r])

Kept ==
  \A p \in Players, r \in Rooms :
    held[r][p] # NotHeld => reservedIn[p] = r \/ TakingBack(p, r)

\* A departure being worked through: the player waits for nothing and is placed
\* nowhere, and at most the withdrawal of what they held is still to come first.
Departing ==
  \A j \in Range(work) : j.do = "Notify" =>
    /\ reservedIn[j.who] = NoRoom
    /\ \A w \in Range(queue) : w.who # j.who
    /\ work = <<j>> \/ (Now.do = "Withdraw" /\ Tail(work) = <<j>>)

IInv == Base /\ InFront /\ Meant /\ Kept /\ Departing

LEMMA Answered ==
  ASSUME Base, ~Waiting, NEW r \in Rooms, NEW c \in Range(inbox[r])
  PROVE  c.do \notin Awaited
  BY DEF Waiting, Range

LEMMA AtRest ==
  ASSUME Base, Idle
  PROVE  /\ Range(work) = {} /\ Quiet(work)
         /\ \A r \in Rooms : \A c \in Range(inbox[r]) : c.do \notin Awaited
         /\ \A p \in Players, r \in Rooms : ~TakingBack(p, r)
  <1>1. Range(work) = {} /\ ~Waiting
    BY NoneListed DEF Idle
  <1>2. \A r \in Rooms : \A c \in Range(inbox[r]) : c.do \notin Awaited
    BY <1>1, Answered
  <1>3. \A p \in Players, r \in Rooms : [do |-> "Withdraw", who |-> p] \notin Range(inbox[r])
    BY <1>2 DEF Awaited
  <1>. QED BY <1>1, <1>2, <1>3 DEF Quiet, TakingBack

LEMMA InvInit == Init => InFront /\ Meant /\ Kept /\ Departing
  <1>. SUFFICES ASSUME Init PROVE InFront /\ Meant /\ Kept /\ Departing
    OBVIOUS
  <1>1. Range(work) = {} /\ Range(queue) = {} /\ \A r \in Rooms : Range(inbox[r]) = {}
    BY NoneListed DEF Init
  <1>2. \A r \in Rooms, p \in Players : held[r][p] = NotHeld
    BY Numbers DEF Init
  <1>. QED BY <1>1, <1>2 DEF Init, InFront, Quiet, Meant, Kept, Departing

\* What clients ask for leaves every promise as it is, or takes it back.
LEMMA ClientInv ==
  ASSUME IInv, NEW p \in Players,
         \/ Leave(p) \/ QuickMatch(p) \/ LeaveQueue(p)
         \/ \E r \in Rooms : Join(p, r) \/ Spectate(p, r) \/ HangUp(p, r)
  PROVE  (InFront /\ Meant /\ Kept /\ Departing)'
  <1>. USE DEF IInv
  <1>0. queue \in Seq(Waiter)
        /\ reservedIn \in [Players -> Rooms \cup {NoRoom}]
    BY DEF Base, TypeOK, Waiter
  <1>2. CASE Leave(p)
    <2>. DEFINE release == IF reservedIn[p] = NoRoom THEN <<>>
                           ELSE <<Job("Withdraw", p, reservedIn[p])>>
                notify == <<Job("Notify", p, NoRoom)>>
    <2>1. Idle /\ UNCHANGED <<held, inbox>>
          /\ reservedIn' = [reservedIn EXCEPT ![p] = NoRoom]
          /\ queue' = Without(p) /\ work' = release \o notify
      BY <1>2 DEF Leave, arenaVars
    <2>2. /\ release \in Seq(Jobs) /\ notify \in Seq(Jobs)
          /\ Range(notify) = {Job("Notify", p, NoRoom)}
          /\ Range(release) = IF reservedIn[p] = NoRoom THEN {}
                              ELSE {Job("Withdraw", p, reservedIn[p])}
      <3>1. Job("Notify", p, NoRoom) \in Jobs
        BY JobTyped
      <3>2. reservedIn[p] # NoRoom => Job("Withdraw", p, reservedIn[p]) \in Jobs
        BY <1>0, JobTyped, Numbers DEF Awaited
      <3>. QED BY <3>1, <3>2, OneListed, NoneListed
    <2>. HIDE DEF release, notify
    <2>3. Range(work') = {Job("Notify", p, NoRoom)}
                           \cup IF reservedIn[p] = NoRoom THEN {}
                                ELSE {Job("Withdraw", p, reservedIn[p])}
      <3>1. release \in Seq(Jobs) /\ notify \in Seq(Jobs)
        BY <2>2
      <3>2. Range(release \o notify) = Range(release) \cup Range(notify)
        BY <3>1, JoinedListed
      <3>. QED BY <2>1, <2>2, <3>2
    <2>4. \A j \in Range(work') : j.do \in {"Notify", "Withdraw"}
      BY <2>3 DEF Job
    <2>5. \A r \in Rooms : \A c \in Range(inbox[r]) : c.do # "Reserve"
      BY <2>1, AtRest DEF Awaited
    <2>6. InFront' /\ Meant'
      BY <2>1, <2>4, <2>5 DEF InFront, Quiet, Meant
    <2>7. Kept'
      <3>. SUFFICES ASSUME NEW q \in Players, NEW r \in Rooms, held[r][q] # NotHeld
                    PROVE  reservedIn'[q] = r \/ TakingBack(q, r)'
        BY <2>1 DEF Kept
      <3>1. reservedIn[q] = r
        BY <2>1, AtRest DEF Kept
      <3>2. CASE q = p
        <4>1. Job("Withdraw", p, r) \in Range(work')
          BY <2>3, <3>1, <3>2, Numbers
        <4>. QED BY <3>2, <4>1 DEF TakingBack
      <3>3. CASE q # p
        BY <1>0, <2>1, <3>1, <3>3
      <3>. QED BY <3>2, <3>3
    <2>8. Departing'
      <3>1. \A w \in Range(queue') : w \in Range(queue) /\ w.who # p
        BY <1>0, <2>1, Waiters
      <3>2. reservedIn'[p] = NoRoom
        BY <1>0, <2>1
      <3>3. \A j \in Range(work') : j.do = "Notify" => j = Job("Notify", p, NoRoom)
        BY <2>3 DEF Job
      <3>4. Job("Notify", p, NoRoom).who = p
        BY DEF Job
      <3>5. work' = notify \/ (Head(work').do = "Withdraw" /\ Tail(work') = notify)
        <4>1. CASE reservedIn[p] = NoRoom
          BY <2>1, <2>2, <4>1 DEF release
        <4>2. CASE reservedIn[p] # NoRoom
          <5>1. Job("Withdraw", p, reservedIn[p]) \in Jobs
                /\ Job("Withdraw", p, reservedIn[p]).do = "Withdraw"
            BY <1>0, <4>2, JobTyped, Numbers DEF Awaited, Job
          <5>2. work' = <<Job("Withdraw", p, reservedIn[p])>> \o notify
            BY <2>1, <4>2 DEF release
          <5>. QED BY <2>2, <5>1, <5>2, ConsListed
        <4>. QED BY <4>1, <4>2
      <3>. QED BY <3>1, <3>2, <3>3, <3>4, <3>5 DEF Departing, Now, notify
    <2>. QED BY <2>6, <2>7, <2>8
  <1>3. CASE QuickMatch(p)
    <2>1. UNCHANGED <<reservedIn, work, held, inbox>> /\ Idle
          /\ queue' = Append(queue, [who |-> p, age |-> 0])
      BY <1>3 DEF QuickMatch, arenaVars
    <2>2. Range(work) = {}
      BY <2>1, AtRest
    <2>. QED BY <2>1, <2>2 DEF InFront, Quiet, Now, Meant, Kept, TakingBack, Departing
  <1>4. CASE LeaveQueue(p)
    <2>1. UNCHANGED <<gone, reservedIn, work, held, inbox>> /\ queue' = Without(p)
      BY <1>4 DEF LeaveQueue, arenaVars
    <2>2. \A w \in Range(queue') : w \in Range(queue)
      BY <1>0, <2>1, Waiters
    <2>. QED BY <2>1, <2>2 DEF InFront, Quiet, Now, Meant, Kept, TakingBack, Departing
  <1>5. ASSUME NEW r \in Rooms, Join(p, r) PROVE (InFront /\ Meant /\ Kept /\ Departing)'
    <2>. DEFINE a == Job("MakeRoom", p, r)
                b == Job("Admit", p, r)
    <2>1. UNCHANGED <<gone, queue, reservedIn, held, inbox>> /\ Idle
          /\ work' = <<a, b>>
      BY <1>5 DEF Join, arenaVars
    <2>2. Range(work') = {a, b}
      BY <2>1 DEF Range
    <2>3. \A j \in Range(work') : j.do \in {"MakeRoom", "Admit"} /\ j.who = p
      BY <2>2 DEF Job
    <2>. HIDE DEF a, b
    <2>4. Departing'
      BY <2>1, <2>3 DEF Departing
    <2>5. InFront' /\ Meant'
      BY <2>1, <2>3 DEF InFront, Quiet, Meant
    <2>6. Kept'
      BY <2>1, AtRest DEF Kept
    <2>. QED BY <2>4, <2>5, <2>6
  <1>6. ASSUME NEW r \in Rooms, Spectate(p, r) \/ HangUp(p, r)
        PROVE  (InFront /\ Meant /\ Kept /\ Departing)'
    <2>1. UNCHANGED <<gone, queue, reservedIn, work, held, inbox>>
      BY <1>6 DEF Spectate, HangUp, AgentLeft, lobbyVars, arenaVars
    <2>. QED BY <2>1 DEF InFront, Quiet, Now, Meant, Kept, TakingBack, Departing
  <1>. QED BY <1>2, <1>3, <1>4, <1>5, <1>6

LEMMA DrainInv ==
  ASSUME IInv, Drain
  PROVE  (InFront /\ Meant /\ Kept /\ Departing)'
  <1>. USE DEF IInv
  <1>1. queue \in Seq(Waiter)
    BY DEF Base, TypeOK, Waiter
  <1>2. UNCHANGED <<gone, reservedIn, held, inbox>> /\ Idle /\ work' = Ready
        /\ queue' \in {<<>>, Rest}
    BY DEF Drain, arenaVars
  <1>3. \A j \in Range(work') :
          j.do = "Match" /\ \A a \in Range(j.who) : \E w \in Range(queue) : w.who = a
    BY <1>1, <1>2, ReadyListed
  <1>4. Range(queue') \subseteq Range(queue)
    BY <1>1, <1>2, RestListed, NoneListed
  <1>5. InFront' /\ Meant'
    BY <1>2, <1>3 DEF InFront, Quiet, Meant
  <1>6. Kept'
    BY <1>2, AtRest DEF Kept
  <1>7. Departing'
    BY <1>2, <1>3, <1>4 DEF Departing
  <1>. QED BY <1>5, <1>6, <1>7

\* Once its head is served nothing in the list is a reservation, unless the
\* head was a withdrawal.
LEMMA QuietTail ==
  ASSUME IInv, work # <<>>
  PROVE  /\ Now.do # "Withdraw" => Quiet(Tail(work))
         /\ \/ Quiet(Tail(work))
            \/ Tail(work) # <<>> /\ Quiet(Tail(Tail(work)))
  <1>1. Range(Tail(work)) \subseteq Range(work)
    BY Replaced, NoneListed DEF IInv, Base
  <1>. QED BY <1>1 DEF IInv, InFront, Quiet

\* A job done that neither places nor withdraws.
LEMMA OtherJob ==
  ASSUME IInv, work # <<>>, Now.do # "Withdraw",
         UNCHANGED <<reservedIn, held>>,
         NEW new \in Seq(Jobs), work' = new \o Tail(work),
         \A j \in Range(new) : j.do = "Reserve" => j.who \notin Players,
         \A r \in Rooms :
           /\ Range(inbox[r]) \subseteq Range(inbox'[r])
           /\ \A c \in Range(inbox'[r]) : c.do = "Reserve" =>
                \/ c \in Range(inbox[r])
                \/ Job("Reserve", c.who, r) \in Range(work)
  PROVE  Meant' /\ Kept'
  <1>. USE DEF IInv
  <1>1. /\ Range(work) = Range(Tail(work)) \cup {Now}
        /\ Range(work') = Range(new) \cup Range(Tail(work))
    BY Replaced DEF Base
  <1>2. Meant'
    <2>1. \A p \in Players, j \in Range(work') :
            j.do = "Reserve" /\ j.who = p => reservedIn'[p] = j.room
      BY <1>1 DEF Meant
    <2>2. \A p \in Players, r \in Rooms :
            [do |-> "Reserve", who |-> p] \in Range(inbox'[r]) => reservedIn'[p] = r
      <3>1. \A p \in Players, r \in Rooms :
              Job("Reserve", p, r) \in Range(work) => reservedIn[p] = r
        BY DEF Meant, Job
      <3>. QED BY <3>1 DEF Meant
    <2>. QED BY <2>1, <2>2 DEF Meant
  <1>3. \A p \in Players, r \in Rooms : TakingBack(p, r) => TakingBack(p, r)'
    <2>. SUFFICES ASSUME NEW p \in Players, NEW r \in Rooms, TakingBack(p, r)
                  PROVE  TakingBack(p, r)'
      OBVIOUS
    <2>1. CASE Job("Withdraw", p, r) \in Range(work)
      <3>1. Job("Withdraw", p, r).do = "Withdraw"
        BY DEF Job
      <3>2. Job("Withdraw", p, r) \in Range(work')
        BY <1>1, <2>1, <3>1
      <3>. QED BY <3>2 DEF TakingBack
    <2>2. CASE [do |-> "Withdraw", who |-> p] \in Range(inbox[r])
      BY <2>2 DEF TakingBack
    <2>. QED BY <2>1, <2>2 DEF TakingBack
  <1>4. Kept'
    BY <1>3 DEF Kept
  <1>. QED BY <1>2, <1>4

\* A job done leaves no departure unfinished but one whose withdrawal it was.
LEMMA LeavesOn ==
  ASSUME IInv, work # <<>>, UNCHANGED queue,
         NEW new \in Seq(Jobs), work' = new \o Tail(work),
         \A j \in Range(new) : j.do # "Notify",
         Now.do = "Withdraw" => new = <<>> /\ UNCHANGED reservedIn
  PROVE  Departing'
  <1>1. /\ Tail(work) \in Seq(Jobs)
        /\ Range(work) = Range(Tail(work)) \cup {Now}
        /\ Range(work') = Range(new) \cup Range(Tail(work))
    BY Replaced DEF IInv, Base
  <1>. SUFFICES ASSUME NEW j \in Range(work'), j.do = "Notify"
                PROVE  /\ reservedIn'[j.who] = NoRoom
                       /\ \A w \in Range(queue') : w.who # j.who
                       /\ work' = <<j>>
    BY DEF Departing
  <1>2. j \in Range(Tail(work)) /\ j \in Range(work)
    BY <1>1
  <1>3. /\ reservedIn[j.who] = NoRoom
        /\ \A w \in Range(queue) : w.who # j.who
        /\ work = <<j>> \/ (Now.do = "Withdraw" /\ Tail(work) = <<j>>)
    BY <1>2 DEF IInv, Departing
  <1>4. work # <<j>>
    <2>1. work = <<j>> => Tail(work) = <<>>
      BY OneListed
    <2>. QED BY <1>2, <2>1, NoneListed
  <1>5. <<>> \o Tail(work) = Tail(work)
    BY <1>1
  <1>. QED BY <1>3, <1>4, <1>5

LEMMA SentTo ==
  ASSUME Base, NEW r \in Rooms, NEW g \in Guests,
         NEW do \in Awaited \cup {"Joined", "Left"}, Send(r, do, g)
  PROVE  \A s \in Rooms :
           /\ Range(inbox[s]) \subseteq Range(inbox'[s])
           /\ \A c \in Range(inbox'[s]) :
                \/ c \in Range(inbox[s])
                \/ s = r /\ c = [do |-> do, who |-> g]
           /\ s = r => [do |-> do, who |-> g] \in Range(inbox'[s])
  <1>1. /\ Range(inbox'[r]) = Range(inbox[r]) \cup {[do |-> do, who |-> g]}
        /\ \A s \in Rooms : s # r => inbox'[s] = inbox[s]
    BY Sent DEF Base, TypeOK
  <1>. SUFFICES ASSUME NEW s \in Rooms
                PROVE  /\ Range(inbox[s]) \subseteq Range(inbox'[s])
                       /\ \A c \in Range(inbox'[s]) :
                            \/ c \in Range(inbox[s])
                            \/ s = r /\ c = [do |-> do, who |-> g]
                       /\ s = r => [do |-> do, who |-> g] \in Range(inbox'[s])
    OBVIOUS
  <1>2. CASE s = r
    BY <1>1, <1>2
  <1>3. CASE s # r
    <2>1. inbox'[s] = inbox[s]
      BY <1>1, <1>3
    <2>. QED BY <1>3, <2>1
  <1>. QED BY <1>2, <1>3

LEMMA AskInv ==
  ASSUME IInv, work # <<>>, Ask, UNCHANGED arenaVars
  PROVE  (InFront /\ Meant /\ Kept /\ Departing)'
  <1>. USE DEF IInv
  <1>. DEFINE g == Now.who
              r == Now.room
  <1>1. /\ Now \in Jobs /\ Tail(work) \in Seq(Jobs) /\ Range(work) = Range(Tail(work)) \cup {Now}
        /\ <<>> \in Seq(Jobs) /\ work' = <<>> \o Tail(work) /\ work' = Tail(work)
        /\ Range(<<>>) = {}
    BY Replaced, NoneListed DEF Ask, Base
  <1>2. Now.do \in Awaited /\ g \in Guests /\ r \in Rooms /\ Now = Job(Now.do, g, r)
    BY <1>1, JobFields DEF Ask
  <1>3. UNCHANGED <<gone, queue, reservedIn, held>> /\ Send(r, Now.do, g)
    BY DEF Ask, arenaVars
  <1>4. \A s \in Rooms :
           /\ Range(inbox[s]) \subseteq Range(inbox'[s])
           /\ \A c \in Range(inbox'[s]) :
                \/ c \in Range(inbox[s])
                \/ s = r /\ c = [do |-> Now.do, who |-> g]
           /\ s = r => [do |-> Now.do, who |-> g] \in Range(inbox'[s])
    BY <1>2, <1>3, SentTo
  <1>5. Departing'
    BY <1>1, <1>3, LeavesOn
  <1>6. InFront'
    <2>1. CASE Quiet(Tail(work))
      BY <1>1, <2>1 DEF InFront, Quiet
    <2>2. CASE Tail(work) # <<>> /\ Quiet(Tail(Tail(work)))
      BY <1>1, <2>2 DEF InFront, Quiet
    <2>. QED BY <2>1, <2>2, QuietTail
  <1>7. CASE Now.do # "Withdraw"
    <2>1. \A s \in Rooms :
           /\ Range(inbox[s]) \subseteq Range(inbox'[s])
           /\ \A c \in Range(inbox'[s]) : c.do = "Reserve" =>
                \/ c \in Range(inbox[s])
                \/ Job("Reserve", c.who, s) \in Range(work)
      <3>. SUFFICES ASSUME NEW s \in Rooms, NEW c \in Range(inbox'[s]), c.do = "Reserve",
                           c \notin Range(inbox[s])
                    PROVE  Job("Reserve", c.who, s) \in Range(work)
        BY <1>4
      <3>1. s = r /\ c = [do |-> Now.do, who |-> g]
        BY <1>4
      <3>2. Now.do = "Reserve" /\ c.who = g
        BY <3>1
      <3>3. Job("Reserve", c.who, s) = Now
        BY <1>2, <3>1, <3>2
      <3>. QED BY <1>1, <3>3
    <2>2. Meant' /\ Kept'
      BY <1>1, <1>3, <1>7, <2>1, OtherJob
    <2>. QED BY <1>5, <1>6, <2>2
  <1>8. CASE Now.do = "Withdraw"
    <2>1. Meant'
      <3>1. \A p \in Players, s \in Rooms :
              [do |-> "Reserve", who |-> p] \in Range(inbox'[s]) => reservedIn'[p] = s
        <4>1. \A p \in Players : [do |-> "Reserve", who |-> p] # [do |-> "Withdraw", who |-> g]
          OBVIOUS
        <4>. QED BY <1>3, <1>4, <1>8, <4>1 DEF Meant
      <3>. QED BY <1>1, <1>3, <3>1 DEF Meant
    <2>2. Kept'
      <3>. SUFFICES ASSUME NEW p \in Players, NEW s \in Rooms, held[s][p] # NotHeld
                    PROVE  reservedIn'[p] = s \/ TakingBack(p, s)'
        BY <1>3 DEF Kept
      <3>1. reservedIn[p] = s \/ TakingBack(p, s)
        BY DEF Kept
      <3>2. CASE Job("Withdraw", p, s) \in Range(Tail(work))
        BY <1>1, <3>2 DEF TakingBack
      <3>3. CASE Job("Withdraw", p, s) = Now
        <4>1. g = p /\ r = s
          BY <1>2, <3>3 DEF Job
        <4>. QED BY <1>4, <1>8, <4>1 DEF TakingBack
      <3>4. CASE [do |-> "Withdraw", who |-> p] \in Range(inbox[s])
        BY <1>4, <3>4 DEF TakingBack
      <3>. QED BY <1>1, <1>3, <3>1, <3>2, <3>3, <3>4 DEF TakingBack
    <2>. QED BY <1>5, <1>6, <2>1, <2>2
  <1>. QED BY <1>7, <1>8

\* A list that begins with two jobs.
LEMMA TwoFirst ==
  ASSUME NEW s \in Seq(Jobs), NEW a \in Jobs, NEW b \in Jobs
  PROVE  /\ <<b>> \o s \in Seq(Jobs) /\ Range(<<b>> \o s) = Range(s) \cup {b}
         /\ <<a, b>> \o s \in Seq(Jobs) /\ <<a, b>> \o s # <<>>
         /\ Head(<<a, b>> \o s) = a /\ Tail(<<a, b>> \o s) = <<b>> \o s
         /\ Range(<<a, b>> \o s) = Range(s) \cup {a, b}
  <1>1. <<b>> \o s \in Seq(Jobs) /\ Range(<<b>> \o s) = Range(s) \cup {b}
    BY ConsListed
  <1>2. /\ <<a>> \o (<<b>> \o s) \in Seq(Jobs) /\ <<a>> \o (<<b>> \o s) # <<>>
        /\ Head(<<a>> \o (<<b>> \o s)) = a /\ Tail(<<a>> \o (<<b>> \o s)) = <<b>> \o s
        /\ Range(<<a>> \o (<<b>> \o s)) = Range(<<b>> \o s) \cup {a}
    <2>. DEFINE l == <<b>> \o s
    <2>1. l \in Seq(Jobs)
      BY <1>1
    <2>. HIDE DEF l
    <2>2. /\ <<a>> \o l \in Seq(Jobs) /\ <<a>> \o l # <<>>
          /\ Head(<<a>> \o l) = a /\ Tail(<<a>> \o l) = l
          /\ Range(<<a>> \o l) = Range(l) \cup {a}
      BY <2>1, ConsListed
    <2>. QED BY <2>2 DEF l
  <1>3. <<a, b>> = <<a>> \o <<b>>
    <2>. DEFINE l == <<a, b>>
                m == <<a>> \o <<b>>
    <2>1. l \in Seq(Jobs) /\ Len(l) = 2 /\ l[1] = a /\ l[2] = b
      OBVIOUS
    <2>2. m \in Seq(Jobs) /\ Len(m) = 2 /\ m[1] = a /\ m[2] = b
      <3>1. /\ <<a>> \in Seq(Jobs) /\ Len(<<a>>) = 1 /\ <<a>>[1] = a
            /\ <<b>> \in Seq(Jobs) /\ Len(<<b>>) = 1 /\ <<b>>[1] = b
        OBVIOUS
      <3>. QED BY <3>1, ConcatProperties
    <2>. HIDE DEF l, m
    <2>3. \A i \in 1..Len(l) : l[i] = m[i]
      BY <2>1, <2>2
    <2>4. l = m
      BY <2>1, <2>2, <2>3, SeqEqual, Zenon
    <2>. QED BY <2>4 DEF l, m
  <1>4. (<<a>> \o <<b>>) \o s = <<a>> \o (<<b>> \o s)
    <2>. DEFINE x == <<a>>
                y == <<b>>
    <2>1. x \in Seq(Jobs) /\ y \in Seq(Jobs)
      BY OneListed
    <2>. HIDE DEF x, y
    <2>2. (x \o y) \o s = x \o (y \o s)
      BY <2>1, ConcatAssociative
    <2>. QED BY <2>2 DEF x, y
  <1>5. <<a, b>> \o s = <<a>> \o (<<b>> \o s)
    BY <1>3, <1>4, Zenon
  <1>6. Range(<<b>> \o s) \cup {a} = Range(s) \cup {a, b}
    BY <1>1
  <1>. QED BY <1>1, <1>2, <1>5, <1>6, Zenon

\* A job done that leaves nothing to reserve yet.
LEMMA QuietJob ==
  ASSUME IInv, work # <<>>, Now.do # "Withdraw",
         UNCHANGED <<gone, queue, reservedIn, held>>,
         NEW new \in Seq(Jobs), work' = new \o Tail(work),
         \A j \in Range(new) : j.do \notin {"Notify", "Reserve"},
         \A r \in Rooms :
           /\ Range(inbox[r]) \subseteq Range(inbox'[r])
           /\ \A c \in Range(inbox'[r]) : c.do = "Reserve" => c \in Range(inbox[r])
  PROVE  (InFront /\ Meant /\ Kept /\ Departing)'
  <1>1. Range(work') = Range(new) \cup Range(Tail(work))
    BY Replaced DEF IInv, Base
  <1>2. Quiet(Tail(work))
    BY QuietTail
  <1>3. InFront'
    BY <1>1, <1>2 DEF InFront, Quiet
  <1>4. Meant' /\ Kept'
    BY OtherJob
  <1>5. Departing'
    BY LeavesOn
  <1>. QED BY <1>3, <1>4, <1>5

LEMMA AdmitInv ==
  ASSUME IInv, work # <<>>, Admit, UNCHANGED arenaVars
  PROVE  (InFront /\ Meant /\ Kept /\ Departing)'
  <1>. DEFINE g == Now.who
              r == Now.room
  <1>1. /\ Now \in Jobs /\ Now \in Range(work) /\ Tail(work) \in Seq(Jobs)
        /\ <<>> \in Seq(Jobs) /\ Range(<<>>) = {}
    BY Replaced, NoneListed DEF IInv, Base
  <1>2. g \in Players /\ r \in Rooms
    BY <1>1, JobFields DEF Admit
  <1>3. Job("Promise", g, r) \in Jobs
    BY <1>2, JobTyped
  <1>4. PICK new \in {<<>>, <<Job("Promise", g, r)>>} : work' = new \o Tail(work)
    <2>1. <<>> \o Tail(work) = Tail(work)
      BY <1>1
    <2>2. \/ work' = Tail(work)
          \/ work' = <<Job("Promise", g, r)>> \o Tail(work)
      BY DEF Admit
    <2>. QED BY <2>1, <2>2
  <1>5. new \in Seq(Jobs) /\ \A j \in Range(new) : j = Job("Promise", g, r)
    <2>. DEFINE k == Job("Promise", g, r)
    <2>. HIDE DEF k
    <2>1. <<k>> \in Seq(Jobs) /\ Range(<<k>>) = {k}
      BY <1>3, OneListed DEF k
    <2>. QED BY <1>1, <1>4, <2>1 DEF k
  <1>6. \A j \in Range(new) : j.do = "Promise" /\ j.who = g
    BY <1>5 DEF Job
  <1>7. Now.do # "Withdraw" /\ UNCHANGED <<gone, queue, reservedIn, held, inbox>>
    BY DEF Admit, arenaVars
  <1>. HIDE DEF g, r
  <1>. QED BY <1>2, <1>4, <1>5, <1>6, <1>7, QuietJob

LEMMA PlaceInv ==
  ASSUME IInv, work # <<>>, Place \/ Notify \/ BotJoin, UNCHANGED arenaVars
  PROVE  (InFront /\ Meant /\ Kept /\ Departing)'
  <1>1. /\ Now \in Jobs /\ <<>> \in Seq(Jobs) /\ Range(<<>>) = {} /\ work' = <<>> \o Tail(work)
    BY Replaced, NoneListed DEF IInv, Base, Place, Notify, BotJoin
  <1>2. Now.do # "Withdraw" /\ UNCHANGED <<gone, queue, reservedIn, held>>
    BY DEF Place, Notify, BotJoin, arenaVars
  <1>3. ASSUME NEW s \in Rooms, NEW h \in Guests, NEW do \in {"Joined", "Left"}, Send(s, do, h)
        PROVE  \A r \in Rooms :
                 /\ Range(inbox[r]) \subseteq Range(inbox'[r])
                 /\ \A c \in Range(inbox'[r]) : c.do = "Reserve" => c \in Range(inbox[r])
    <2>. SUFFICES ASSUME NEW r \in Rooms
                  PROVE  /\ Range(inbox[r]) \subseteq Range(inbox'[r])
                         /\ \A c \in Range(inbox'[r]) : c.do = "Reserve" => c \in Range(inbox[r])
      OBVIOUS
    <2>1. do \in Awaited \cup {"Joined", "Left"} /\ do # "Reserve"
      OBVIOUS
    <2>2. /\ Range(inbox[r]) \subseteq Range(inbox'[r])
          /\ \A c \in Range(inbox'[r]) :
               \/ c \in Range(inbox[r])
               \/ r = s /\ c = [do |-> do, who |-> h]
      BY <1>3, <2>1, SentTo DEF IInv
    <2>. QED BY <2>1, <2>2
  <1>4. \/ inbox' = inbox
        \/ \E s \in Rooms, h \in Guests, do \in {"Joined", "Left"} : Send(s, do, h)
    <2>1. CASE Place
      BY <2>1 DEF Place
    <2>2. CASE Notify
      <3>1. Now.who \in Players /\ Now.who \in Guests
        BY <1>1, <2>2, JobFields, Numbers DEF Notify
      <3>. QED BY <2>2, <3>1 DEF Notify, IInv, Base, TypeOK
    <2>3. CASE BotJoin
      BY <1>1, <2>3, JobFields, Numbers DEF BotJoin
    <2>. QED BY <2>1, <2>2, <2>3
  <1>5. \A r \in Rooms :
          /\ Range(inbox[r]) \subseteq Range(inbox'[r])
          /\ \A c \in Range(inbox'[r]) : c.do = "Reserve" => c \in Range(inbox[r])
    BY <1>3, <1>4
  <1>. QED BY <1>1, <1>2, <1>5, QuietJob

LEMMA MatchInv ==
  ASSUME IInv, work # <<>>, SeatMatch, UNCHANGED arenaVars
  PROVE  (InFront /\ Meant /\ Kept /\ Departing)'
  <1>1. PICK new \in Seq(Jobs) :
          /\ work' = new \o Tail(work)
          /\ \A j \in Range(new) :
               \/ j.do = "SeatBot"
               \/ j.do = "Promise" /\ j.who \in Range(Now.who)
    BY MatchSeated DEF IInv, Base
  <1>2. Now \in Range(work) /\ Now.do = "Match"
    BY Replaced, NoneListed DEF IInv, Base, SeatMatch
  <1>4. UNCHANGED <<gone, queue, reservedIn, held, inbox>>
    BY DEF SeatMatch, arenaVars
  <1>. QED BY <1>1, <1>2, <1>4, QuietJob

\* Bots are promised a seat as well; the lobby keeps no record of it.
LEMMA SeatBotInv ==
  ASSUME IInv, work # <<>>, SeatBot, UNCHANGED arenaVars
  PROVE  (InFront /\ Meant /\ Kept /\ Departing)'
  <1>. DEFINE g == Now.who
              r == Now.room
              a == Job("Reserve", g, r)
              b == Job("BotJoin", g, r)
  <1>1. Now \in Jobs /\ Tail(work) \in Seq(Jobs)
    BY Replaced, NoneListed DEF IInv, Base
  <1>2. g \in Bots /\ g \in Guests /\ g \notin Players /\ r \in Rooms
    BY <1>1, JobFields, Numbers, PlacementAssumption DEF SeatBot
  <1>3. a \in Jobs /\ b \in Jobs
    BY <1>2, JobTyped DEF Awaited
  <1>4. a.do = "Reserve" /\ a.who = g /\ b.do = "BotJoin"
    BY DEF Job
  <1>5. work' = <<a, b>> \o Tail(work)
    BY DEF SeatBot
  <1>6. Now.do # "Withdraw" /\ UNCHANGED <<gone, queue, reservedIn, held, inbox>>
    BY DEF SeatBot, arenaVars
  <1>. HIDE DEF g, a, b
  <1>7. <<a, b>> \in Seq(Jobs) /\ Range(<<a, b>>) = {a, b}
    <2>1. <<a, b>> \in Seq(Jobs)
      BY <1>3
    <2>. QED BY <2>1 DEF Range
  <1>8. /\ work' # <<>> /\ Tail(work') = <<b>> \o Tail(work)
        /\ Range(<<b>> \o Tail(work)) = Range(Tail(work)) \cup {b}
    BY <1>1, <1>3, <1>5, TwoFirst
  <1>9. Quiet(Tail(work))
    BY <1>6, QuietTail
  <1>10. InFront'
    BY <1>4, <1>8, <1>9 DEF InFront, Quiet
  <1>11. Meant' /\ Kept'
    BY <1>2, <1>4, <1>5, <1>6, <1>7, OtherJob
  <1>12. Departing'
    BY <1>4, <1>5, <1>6, <1>7, LeavesOn
  <1>. QED BY <1>10, <1>11, <1>12

\* What Hold puts before the rest, and what is reserved in it.
LEMMA HoldInFront ==
  ASSUME Base, NEW p \in Players, NEW r \in Rooms, NEW s \in Seq(Jobs), Quiet(s)
  PROVE  LET l == Hold(p, r) \o s
         IN  \/ l # <<>> /\ Quiet(Tail(l))
             \/ l # <<>> /\ Head(l).do = "Withdraw" /\ Tail(l) # <<>> /\ Quiet(Tail(Tail(l)))
  <1>. DEFINE a == Job("Reserve", p, r)
              b == Job("Place", p, r)
              rest == <<a, b>> \o s
  <1>1. a \in Jobs /\ b \in Jobs /\ b.do = "Place"
    BY JobTyped, Numbers DEF Awaited, Job
  <1>. HIDE DEF a, b
  <1>2. rest \in Seq(Jobs) /\ rest # <<>> /\ Quiet(Tail(rest))
    <2>1. /\ rest \in Seq(Jobs) /\ rest # <<>> /\ Tail(rest) = <<b>> \o s
          /\ Range(<<b>> \o s) = Range(s) \cup {b}
      BY <1>1, TwoFirst
    <2>2. Quiet(<<b>> \o s)
      BY <1>1, <2>1 DEF Quiet
    <2>. QED BY <2>1, <2>2
  <1>3. Superseded(p, r) \in Seq(Jobs) /\ <<a, b>> \in Seq(Jobs)
    <2>1. Superseded(p, r) \in Seq(Jobs)
      BY HoldListed
    <2>. QED BY <1>1, <2>1
  <1>4. Hold(p, r) \o s = Superseded(p, r) \o rest
    <2>. DEFINE x == <<a, b>>
    <2>1. x \in Seq(Jobs)
      BY <1>3
    <2>. HIDE DEF x
    <2>2. (Superseded(p, r) \o x) \o s = Superseded(p, r) \o (x \o s)
      BY <1>3, <2>1, ConcatAssociative
    <2>. QED BY <2>2, Zenon DEF Hold, a, b, x
  <1>. HIDE DEF rest
  <1>5. CASE reservedIn[p] \in {NoRoom, r}
    <2>1. <<>> \o rest = rest
      BY <1>2
    <2>2. Superseded(p, r) = <<>>
      BY <1>5, HoldListed
    <2>. QED BY <1>2, <1>4, <2>1, <2>2, Zenon
  <1>6. CASE reservedIn[p] \notin {NoRoom, r}
    <2>. DEFINE w == Job("Withdraw", p, reservedIn[p])
    <2>1. w \in Jobs /\ w.do = "Withdraw"
      <3>1. reservedIn[p] \in Rooms /\ p \in Guests
        BY <1>6, Numbers DEF Base, TypeOK
      <3>. QED BY <3>1, JobTyped DEF Awaited, Job
    <2>2. Superseded(p, r) = <<w>>
      BY <1>6, HoldListed
    <2>. HIDE DEF w
    <2>3. <<w>> \o rest # <<>> /\ Head(<<w>> \o rest) = w /\ Tail(<<w>> \o rest) = rest
      BY <1>2, <2>1, ConsListed
    <2>. QED BY <1>2, <1>4, <2>1, <2>2, <2>3
  <1>. QED BY <1>5, <1>6

\* A new promise begins with taking back the one it replaces.
LEMMA PromiseInv ==
  ASSUME IInv, work # <<>>, ~Waiting, Promise, UNCHANGED arenaVars
  PROVE  (InFront /\ Meant /\ Kept /\ Departing)'
  <1>. USE DEF IInv
  <1>. DEFINE g == Now.who
              r == Now.room
  <1>1. /\ Now \in Jobs /\ Now \in Range(work) /\ Tail(work) \in Seq(Jobs)
        /\ Range(work) = Range(Tail(work)) \cup {Now}
    BY Replaced, NoneListed DEF Base
  <1>2. g \in Players /\ r \in Rooms
    BY <1>1, JobFields DEF Promise
  <1>3. UNCHANGED <<gone, queue, held, inbox>> /\ Now.do = "Promise"
        /\ reservedIn' = [reservedIn EXCEPT ![g] = r]
    BY DEF Promise, arenaVars
  <1>4. work' = Hold(g, r) \o Tail(work)
    BY Zenon DEF Promise, Hold
  <1>. HIDE DEF g, r
  <1>5. /\ Hold(g, r) \in Seq(Jobs)
        /\ Range(work') = Range(Hold(g, r)) \cup Range(Tail(work))
        /\ Range(Hold(g, r)) = Range(Superseded(g, r)) \cup {Job("Reserve", g, r), Job("Place", g, r)}
    <2>1. Hold(g, r) \in Seq(Jobs)
      BY <1>2, HoldListed
    <2>2. Range(Hold(g, r) \o Tail(work)) = Range(Hold(g, r)) \cup Range(Tail(work))
      BY <2>1, Replaced DEF Base
    <2>. QED BY <1>2, <1>4, <2>1, <2>2, HoldListed
  <1>6. /\ reservedIn[g] \in {NoRoom, r} => Range(Superseded(g, r)) = {}
        /\ reservedIn[g] \notin {NoRoom, r} =>
             Range(Superseded(g, r)) = {Job("Withdraw", g, reservedIn[g])}
    BY <1>2, HoldListed, NoneListed, OneListed
  <1>7. Quiet(Tail(work))
    BY <1>3, QuietTail
  <1>8. InFront'
    <2>1. \/ work' # <<>> /\ Quiet(Tail(work'))
          \/ /\ work' # <<>> /\ Head(work').do = "Withdraw"
             /\ Tail(work') # <<>> /\ Quiet(Tail(Tail(work')))
      BY <1>1, <1>2, <1>4, <1>7, HoldInFront
    <2>. QED BY <2>1 DEF InFront, Quiet, Now
  <1>9. reservedIn \in [Players -> Rooms \cup {NoRoom}] /\ reservedIn'[g] = r
        /\ \A p \in Players : p # g => reservedIn'[p] = reservedIn[p]
    BY <1>2, <1>3 DEF Base, TypeOK
  <1>10. \A j \in Range(work') : j.do = "Reserve" => j = Job("Reserve", g, r)
    BY <1>5, <1>6, <1>7 DEF Quiet, Job
  <1>11. Meant'
    <2>1. \A p \in Players, j \in Range(work') :
            j.do = "Reserve" /\ j.who = p => reservedIn'[p] = j.room
      BY <1>9, <1>10 DEF Job
    <2>2. \A p \in Players, s \in Rooms : [do |-> "Reserve", who |-> p] \notin Range(inbox'[s])
      BY <1>3, Answered DEF Awaited
    <2>. QED BY <2>1, <2>2 DEF Meant
  <1>12. Kept'
    <2>. SUFFICES ASSUME NEW p \in Players, NEW s \in Rooms, held[s][p] # NotHeld, reservedIn'[p] # s
                  PROVE  TakingBack(p, s)'
      BY <1>3 DEF Kept
    <2>1. CASE TakingBack(p, s)
      <3>1. Job("Withdraw", p, s).do = "Withdraw"
        BY DEF Job
      <3>. QED BY <1>1, <1>3, <1>5, <2>1, <3>1 DEF TakingBack
    <2>2. CASE reservedIn[p] = s
      <3>1. p = g /\ s # r /\ s # NoRoom
        BY <1>9, <2>2, Numbers
      <3>2. Job("Withdraw", p, s) \in Range(Superseded(g, r))
        BY <1>6, <2>2, <3>1
      <3>. QED BY <1>5, <3>2 DEF TakingBack
    <2>. QED BY <2>1, <2>2 DEF Kept
  <1>13. Departing'
    <2>1. \A j \in Range(Hold(g, r)) : j.do # "Notify"
      BY <1>5, <1>6 DEF Job
    <2>. QED BY <1>3, <1>4, <1>5, <2>1, LeavesOn
  <1>. QED BY <1>8, <1>11, <1>12, <1>13

LEMMA ServeInv ==
  ASSUME IInv, Serve
  PROVE  (InFront /\ Meant /\ Kept /\ Departing)'
  BY AskInv, AdmitInv, PromiseInv, PlaceInv, MatchInv, SeatBotInv DEF Serve

\* Arenas and clients' sockets take promises up, or let them go.
LEMMA Settles ==
  ASSUME IInv, UNCHANGED <<gone, reservedIn, work, inbox>>,
         \A w \in Range(queue') : \E v \in Range(queue) : v.who = w.who,
         \A r \in Rooms, p \in Players : held'[r][p] # NotHeld => held[r][p] # NotHeld
  PROVE  (InFront /\ Meant /\ Kept /\ Departing)'
  BY DEF IInv, InFront, Quiet, Now, Meant, Kept, TakingBack, Departing

LEMMA HandleInv ==
  ASSUME IInv, NEW r \in Rooms, Handle(r)
  PROVE  (InFront /\ Meant /\ Kept /\ Departing)'
  <1>. USE DEF IInv
  <1>. DEFINE c == Head(inbox[r])
  <1>1. UNCHANGED <<gone, queue, reservedIn, work>>
    BY DEF Handle, lobbyVars
  <1>2. /\ Range(inbox[r]) = Range(inbox'[r]) \cup {c}
        /\ \A s \in Rooms : s # r => inbox'[s] = inbox[s]
    BY Taken
  <1>3. /\ \A s \in Rooms, g \in Guests :
             \/ held'[s][g] = held[s][g]
             \/ held'[s][g] = NotHeld
             \/ s = r /\ c = [do |-> "Reserve", who |-> g]
        /\ \A g \in Guests : c = [do |-> "Withdraw", who |-> g] => held'[r][g] = NotHeld
    BY Handled
  <1>. HIDE DEF c
  <1>4. \A s \in Rooms : Range(inbox'[s]) \subseteq Range(inbox[s])
    <2>. TAKE s \in Rooms
    <2>1. CASE s = r
      BY <1>2, <2>1
    <2>2. CASE s # r
      <3>1. inbox'[s] = inbox[s]
        BY <1>2, <2>2
      <3>. QED BY <3>1
    <2>. QED BY <2>1, <2>2
  <1>5. InFront' /\ Departing'
    BY <1>1 DEF InFront, Quiet, Now, Departing
  <1>6. Meant'
    BY <1>1, <1>4 DEF Meant
  <1>7. Kept'
    <2>. SUFFICES ASSUME NEW p \in Players, NEW s \in Rooms, held'[s][p] # NotHeld, reservedIn[p] # s
                  PROVE  TakingBack(p, s)'
      BY <1>1 DEF Kept
    <2>0. p \in Guests
      BY Numbers
    <2>1. ~(s = r /\ c = [do |-> "Reserve", who |-> p])
      BY <1>2 DEF Meant
    <2>2. held[s][p] # NotHeld
      BY <1>3, <2>0, <2>1
    <2>3. TakingBack(p, s)
      BY <2>2 DEF Kept
    <2>4. CASE Job("Withdraw", p, s) \in Range(work)
      BY <1>1, <2>4 DEF TakingBack
    <2>5. CASE [do |-> "Withdraw", who |-> p] \in Range(inbox[s])
      <3>1. CASE s = r
        BY <1>2, <1>3, <2>0, <2>5, <3>1 DEF TakingBack
      <3>2. CASE s # r
        <4>1. inbox'[s] = inbox[s]
          BY <1>2, <3>2
        <4>. QED BY <2>5, <4>1 DEF TakingBack
      <3>. QED BY <3>1, <3>2
    <2>. QED BY <2>3, <2>4, <2>5 DEF TakingBack
  <1>. QED BY <1>5, <1>6, <1>7

LEMMA ArenaInv ==
  ASSUME IInv,
         \/ \E r \in Rooms : Handle(r) \/ Sweep(r)
         \/ \E t \in Tokens : Dial(t) \/ Arrive(t)
         \/ Tick
  PROVE  (InFront /\ Meant /\ Kept /\ Departing)'
  <1>. USE DEF IInv
  <1>0. \A p \in Players : p \in Guests
    BY Numbers
  <1>1. ASSUME NEW r \in Rooms, Handle(r) PROVE (InFront /\ Meant /\ Kept /\ Departing)'
    BY <1>1, HandleInv
  <1>2. ASSUME NEW r \in Rooms, Sweep(r) PROVE (InFront /\ Meant /\ Kept /\ Departing)'
    <2>1. \A s \in Rooms, p \in Players : held'[s][p] # NotHeld => held[s][p] # NotHeld
      BY <1>0, <1>2, SweepBase
    <2>2. UNCHANGED <<gone, queue, reservedIn, work, inbox>>
      BY <1>2 DEF Sweep, lobbyVars
    <2>. QED BY <2>1, <2>2, Settles
  <1>3. ASSUME NEW t \in Tokens, Dial(t) PROVE (InFront /\ Meant /\ Kept /\ Departing)'
    <2>1. UNCHANGED <<gone, queue, reservedIn, work, inbox, held>>
      BY <1>3 DEF Dial, lobbyVars, arenaVars
    <2>. QED BY <2>1, Settles
  <1>4. ASSUME NEW t \in Tokens, Arrive(t) PROVE (InFront /\ Meant /\ Kept /\ Departing)'
    <2>1. \A s \in Rooms, p \in Players : held'[s][p] # NotHeld => held[s][p] # NotHeld
      BY <1>0, <1>4, ArriveBase
    <2>2. UNCHANGED <<gone, queue, reservedIn, work, inbox>>
      BY <1>4 DEF Arrive, lobbyVars
    <2>. QED BY <2>1, <2>2, Settles
  <1>5. CASE Tick
    <2>1. \A s \in Rooms, p \in Players : held'[s][p] # NotHeld => held[s][p] # NotHeld
      BY <1>0, <1>5, TickBase
    <2>2. \A w \in Range(queue') : \E v \in Range(queue) : v.who = w.who
      BY <1>5, TickBase
    <2>3. UNCHANGED <<gone, reservedIn, work, inbox>>
      BY <1>5 DEF Tick
    <2>. QED BY <2>1, <2>2, <2>3, Settles
  <1>. QED BY <1>1, <1>2, <1>3, <1>4, <1>5

LEMMA InvStep == IInv /\ [Next]_vars => IInv'
  <1>. SUFFICES ASSUME IInv, [Next]_vars PROVE IInv'
    OBVIOUS
  <1>1. Base'
    BY BaseStep DEF IInv
  <1>2. CASE \E p \in Players :
               \/ Leave(p) \/ QuickMatch(p) \/ LeaveQueue(p)
               \/ \E r \in Rooms : Join(p, r) \/ Spectate(p, r) \/ HangUp(p, r)
    <2>1. PICK p \in Players :
               \/ Leave(p) \/ QuickMatch(p) \/ LeaveQueue(p)
               \/ \E r \in Rooms : Join(p, r) \/ Spectate(p, r) \/ HangUp(p, r)
      BY <1>2
    <2>. QED BY <1>1, <2>1, ClientInv DEF IInv
  <1>3. CASE Drain
    BY <1>1, <1>3, DrainInv DEF IInv
  <1>4. CASE Serve
    BY <1>1, <1>4, ServeInv DEF IInv
  <1>5. CASE \/ \E r \in Rooms : Handle(r) \/ Sweep(r)
             \/ \E t \in Tokens : Dial(t) \/ Arrive(t)
             \/ Tick
    BY <1>1, <1>5, ArenaInv DEF IInv
  <1>6. CASE UNCHANGED vars
    <2>1. UNCHANGED <<gone, queue, reservedIn, work, inbox, held>>
      BY <1>6 DEF vars, lobbyVars, arenaVars
    <2>. QED BY <1>1, <2>1, Settles DEF IInv
  <1>. QED BY <1>2, <1>3, <1>4, <1>5, <1>6 DEF Next

LEMMA InvAlways == Spec => []IInv
  <1>1. Init => IInv
    BY BaseInit, InvInit DEF IInv
  <1>. QED BY <1>1, InvStep, PTL DEF Spec

\* A promise taken back is one a job or a command withdraws.
LEMMA TakenBack ==
  ASSUME Base, NEW p \in Players, NEW r \in Rooms, TakingBack(p, r)
  PROVE  Withdrawing(p, r)
  <1>1. \A j \in Range(work) : \E i \in DOMAIN work : work[i] = j
    BY InList DEF Base
  <1>2. \A c \in Range(inbox[r]) : \E i \in DOMAIN inbox[r] : inbox[r][i] = c
    BY InList DEF Base, TypeOK
  <1>3. CASE Job("Withdraw", p, r) \in Range(work)
    BY <1>1, <1>3 DEF Withdrawing
  <1>4. CASE [do |-> "Withdraw", who |-> p] \in Range(inbox[r])
    <2>1. PICK i \in DOMAIN inbox[r] : inbox[r][i] = [do |-> "Withdraw", who |-> p]
      BY <1>2, <1>4
    <2>. QED BY <2>1 DEF Withdrawing
  <1>. QED BY <1>3, <1>4 DEF TakingBack

\* A seat is promised only where the lobby last placed the player, or the
\* promise is being withdrawn (lobby.rs reserve_seat).
THEOREM PromisedOnce == Spec => []OnePromise
  <1>1. IInv => OnePromise
    BY TakenBack DEF IInv, Kept, OnePromise, Promised
  <1>. QED BY <1>1, InvAlways, PTL

\* When the lobby has worked through a departure the player is in no queue and no
\* arena keeps a seat for them: what they were promised, however often they were
\* placed anew and whatever was on its way, has been taken back and the arena has
\* answered (lobby.rs AgentLeft, reserve_seat).
THEOREM DeparturesClear == Spec => DepartureClears
  <1>1. ASSUME IInv, NEW p \in Players, Departs(p)
        PROVE  /\ \A i \in DOMAIN queue : queue[i].who # p
               /\ \A r \in Rooms : p \notin Promised(r)
    <2>1. work # <<>> /\ ~Waiting /\ Now.do = "Notify" /\ Now.who = p
      BY <1>1 DEF Departs, Serve
    <2>2. Now \in Range(work)
      BY <1>1, <2>1, Replaced, NoneListed DEF IInv, Base
    <2>3. /\ reservedIn[p] = NoRoom
          /\ \A w \in Range(queue) : w.who # p
          /\ work = <<Now>>
      BY <1>1, <2>1, <2>2 DEF IInv, Departing
    <2>4. Range(work) = {Now}
      <3>. DEFINE j == Now
      <3>. HIDE DEF j
      <3>1. Range(<<j>>) = {j}
        BY OneListed
      <3>2. work = <<j>>
        BY <2>3 DEF j
      <3>. QED BY <3>1, <3>2 DEF j
    <2>5. \A i \in DOMAIN queue : queue[i].who # p
      BY <2>3 DEF Range
    <2>6. ASSUME NEW r \in Rooms, p \in Promised(r) PROVE FALSE
      <3>1. held[r][p] # NotHeld
        BY <2>6 DEF Promised
      <3>2. reservedIn[p] = r \/ TakingBack(p, r)
        BY <1>1, <3>1 DEF IInv, Kept
      <3>3. Job("Withdraw", p, r) \notin Range(work)
        BY <2>1, <2>4 DEF Job
      <3>4. [do |-> "Withdraw", who |-> p] \notin Range(inbox[r])
        BY <1>1, <2>1, Answered DEF IInv, Awaited
      <3>. QED BY <2>3, <3>2, <3>3, <3>4, Numbers DEF TakingBack
    <2>. QED BY <2>5, <2>6
  <1>2. IInv /\ [Next]_vars =>
          [\A p \in Players : Departs(p) =>
             /\ \A i \in DOMAIN queue : queue[i].who # p
             /\ \A r \in Rooms : p \notin Promised(r)]_vars
    BY <1>1
  <1>. QED BY <1>2, InvAlways, PTL DEF Spec, DepartureClears

\* Only those promised a seat take one.
LEMMA NewcomersPromised ==
  ASSUME Base, [Next]_vars, NEW p \in Players, NEW r \in Rooms, p \in seats'[r] \ seats[r]
  PROVE  held[r][p] # NotHeld
  <1>0. p \in Guests /\ seats \in [Rooms -> SUBSET Guests]
    BY Numbers DEF Base, TypeOK
  <1>1. ASSUME NEW s \in Rooms, Handle(s) PROVE held[r][p] # NotHeld
    BY <1>0, <1>1, Handled
  <1>2. ASSUME NEW s \in Rooms, Sweep(s) PROVE FALSE
    BY <1>2, SweepBase
  <1>3. ASSUME NEW t \in Tokens, Arrive(t) PROVE held[r][p] # NotHeld
    BY <1>0, <1>3, ArriveBase
  <1>4. ASSUME NEW q \in Players, NEW s \in Rooms, HangUp(q, s) PROVE FALSE
    BY <1>0, <1>4 DEF HangUp, AgentLeft
  <1>5. seats' # seats
    OBVIOUS
  <1>6. CASE Drain \/ Serve \/ Tick \/ UNCHANGED vars \/ \E t \in Tokens : Dial(t)
    BY <1>5, <1>6 DEF Drain, Serve, Tick, Dial, vars, arenaVars
  <1>7. ASSUME NEW q \in Players,
               \/ Leave(q) \/ QuickMatch(q) \/ LeaveQueue(q)
               \/ \E s \in Rooms : Join(q, s) \/ Spectate(q, s)
        PROVE  FALSE
    BY <1>5, <1>7 DEF Leave, QuickMatch, LeaveQueue, Join, Spectate, arenaVars
  <1>. QED BY <1>1, <1>2, <1>3, <1>4, <1>6, <1>7 DEF Next

\* A player takes a seat only where the lobby last placed them, or where that
\* promise is being withdrawn (room.rs AgentJoined).
THEOREM SeatedWherePlaced == Spec => SeatsFollowPlacement
  <1>1. IInv /\ [Next]_vars =>
          [\A p \in Players, r \in Rooms :
             p \in seats'[r] \ seats[r] => reservedIn[p] = r \/ Withdrawing(p, r)]_vars
    BY NewcomersPromised, TakenBack DEF IInv, Kept
  <1>. QED BY <1>1, InvAlways, PTL DEF Spec, SeatsFollowPlacement

-----------------------------------------------------------------------------
(* No promise lapses under a ticket that can be used.                      *)

\* A promise h old outlasts ticket k, which was issued with it: it is no older
\* than the ticket was when it was spent, and than the time since.
Outlasts(h, k) ==
  /\ k.dialing => k.age <= ReservationWindow - TicketWindow
  /\ k.fresh /\ h # NotHeld => h <= IF k.dialing THEN TicketWindow - 1 + k.age ELSE k.age

InTime ==
  \A t \in Tokens : tickets[t] # NoTicket => Outlasts(held[tickets[t].room][tickets[t].who], tickets[t])

LEMMA TicketFields ==
  ASSUME Base, NEW t \in Tokens, tickets[t] # NoTicket
  PROVE  /\ tickets[t] \in Ticket
         /\ tickets[t].room \in Rooms /\ tickets[t].who \in Players /\ tickets[t].who \in Guests
         /\ tickets[t].age \in 0..ReservationWindow
         /\ tickets[t].fresh \in BOOLEAN /\ tickets[t].dialing \in BOOLEAN
         /\ held[tickets[t].room][tickets[t].who] \in NotHeld..ReservationWindow
  <1>1. tickets[t] \in Ticket
    BY DEF Base, TypeOK
  <1>2. /\ tickets[t].room \in Rooms /\ tickets[t].who \in Players /\ tickets[t].who \in Guests
        /\ tickets[t].age \in 0..ReservationWindow
        /\ tickets[t].fresh \in BOOLEAN /\ tickets[t].dialing \in BOOLEAN
    BY <1>1, Numbers DEF Ticket
  <1>. QED BY <1>1, <1>2 DEF Base, TypeOK

\* Promises are kept, dropped or made anew; a ticket stays, goes, or is issued
\* with a promise just made.
LEMMA TimeStands ==
  ASSUME Base, InTime,
         \A r \in Rooms, g \in Guests : held'[r][g] \in {held[r][g], NotHeld, 0},
         \A t \in Tokens :
           \/ tickets'[t] = tickets[t]
           \/ tickets'[t] = NoTicket
           \/ \E p \in Players, r \in Rooms, fresh \in BOOLEAN :
                /\ tickets'[t] = [who |-> p, room |-> r, age |-> 0, fresh |-> fresh, dialing |-> FALSE]
                /\ fresh => held'[r][p] = 0
  PROVE  InTime'
  <1>. SUFFICES ASSUME NEW t \in Tokens, tickets'[t] # NoTicket
                PROVE  Outlasts(held'[tickets'[t].room][tickets'[t].who], tickets'[t])
    BY DEF InTime
  <1>1. CASE tickets'[t] = tickets[t]
    <2>. DEFINE k == tickets[t]
                h == held[k.room][k.who]
                i == held'[k.room][k.who]
    <2>1. Outlasts(h, k)
      BY <1>1 DEF InTime
    <2>2. /\ k.age \in 0..ReservationWindow /\ h \in NotHeld..ReservationWindow
          /\ k.room \in Rooms /\ k.who \in Guests
      BY <1>1, TicketFields
    <2>3. i \in {h, NotHeld, 0}
      BY <2>2
    <2>. HIDE DEF k, h, i
    <2>4. Outlasts(i, k)
      BY <2>1, <2>2, <2>3, Numbers DEF Outlasts
    <2>. QED BY <1>1, <2>4 DEF k, i
  <1>2. CASE tickets'[t] # tickets[t]
    <2>1. PICK p \in Players, r \in Rooms, fresh \in BOOLEAN :
            /\ tickets'[t] = [who |-> p, room |-> r, age |-> 0, fresh |-> fresh, dialing |-> FALSE]
            /\ fresh => held'[r][p] = 0
      BY <1>2
    <2>. QED BY <2>1 DEF Outlasts
  <1>. QED BY <1>1, <1>2

LEMMA TickInTime ==
  ASSUME Base, InTime, Tick
  PROVE  InTime'
  <1>. SUFFICES ASSUME NEW t \in Tokens, tickets'[t] # NoTicket
                PROVE  Outlasts(held'[tickets'[t].room][tickets'[t].who], tickets'[t])
    BY DEF InTime
  <1>. DEFINE k == tickets[t]
              n == tickets'[t]
              h == held[k.room][k.who]
              i == held'[k.room][k.who]
  <1>1. /\ k # NoTicket
        /\ n = [who |-> k.who, room |-> k.room, age |-> Older(k.age, ReservationWindow),
                fresh |-> k.fresh, dialing |-> k.dialing]
    BY TickBase
  <1>2. /\ k.room \in Rooms /\ k.who \in Guests /\ k.age \in 0..ReservationWindow
        /\ h \in NotHeld..ReservationWindow
    BY <1>1, TicketFields
  <1>3. IF h = NotHeld THEN i = NotHeld ELSE i = h + 1 /\ h < ReservationWindow
    BY <1>2, TickBase
  <1>4. Outlasts(h, k)
    BY <1>1 DEF InTime
  <1>5. k.dialing => k.age < ReservationWindow - TicketWindow
    BY <1>1 DEF Tick, DialsOnTime
  <1>6. n.who = k.who /\ n.room = k.room /\ n.fresh = k.fresh /\ n.dialing = k.dialing
        /\ n.age = IF k.age < ReservationWindow THEN k.age + 1 ELSE ReservationWindow
    BY <1>1 DEF Older
  <1>. HIDE DEF k, n, h, i
  <1>7. Outlasts(i, n)
    BY <1>2, <1>3, <1>4, <1>5, <1>6, Numbers DEF Outlasts
  <1>. QED BY <1>6, <1>7 DEF n, i

LEMMA DialInTime ==
  ASSUME Base, InTime, NEW u \in Tokens, Dial(u)
  PROVE  InTime'
  <1>. SUFFICES ASSUME NEW t \in Tokens, tickets'[t] # NoTicket
                PROVE  Outlasts(held'[tickets'[t].room][tickets'[t].who], tickets'[t])
    BY DEF InTime
  <1>0. held' = held
    BY DEF Dial, arenaVars
  <1>1. CASE tickets'[t] = tickets[t]
    BY <1>0, <1>1 DEF InTime
  <1>2. CASE tickets'[t] # tickets[t]
    <2>. DEFINE k == tickets[t]
                n == tickets'[t]
                h == held[k.room][k.who]
    <2>0. k # NoTicket
      BY <1>2 DEF Dial, Base, TypeOK
    <2>1. k \in Ticket /\ ~k.dialing /\ k.age < TicketWindow /\ n = Redeemed(k)
      BY <1>2, DialBase
    <2>2. h \in NotHeld..ReservationWindow /\ k.age \in 0..ReservationWindow /\ Outlasts(h, k)
      BY <2>0, TicketFields DEF InTime
    <2>3. n.who = k.who /\ n.room = k.room /\ n.fresh = k.fresh /\ n.dialing /\ n.age = 0
      BY <2>1 DEF Redeemed
    <2>. HIDE DEF k, n, h
    <2>4. Outlasts(h, n)
      BY <2>1, <2>2, <2>3, Numbers DEF Outlasts
    <2>. QED BY <1>0, <2>3, <2>4 DEF k, n, h
  <1>. QED BY <1>1, <1>2

LEMMA ServeInTime ==
  ASSUME Base, InTime, Serve
  PROVE  InTime'
  <1>1. held' = held
    BY DEF Serve, arenaVars
  <1>2. CASE ~Place
    <2>1. tickets' = tickets
      BY <1>2 DEF Serve, Ask, Admit, Promise, Notify, SeatMatch, SeatBot, BotJoin
    <2>. QED BY <1>1, <2>1, TimeStands
  <1>3. CASE Place
    <2>. DEFINE p == Now.who
                r == Now.room
                new == held[r][p] = 0
    <2>1. p \in Players /\ r \in Rooms
      <3>1. Now \in Jobs
        BY Replaced, NoneListed DEF Base, Serve
      <3>. QED BY <1>3, <3>1, JobFields DEF Place
    <2>2. Issue(p, r, new) /\ new \in BOOLEAN
      BY <1>3 DEF Place
    <2>3. new => held'[r][p] = 0
      BY <1>1
    <2>. HIDE DEF p, r, new
    <2>4. \A t \in Tokens :
            \/ tickets'[t] = tickets[t]
            \/ tickets'[t] = [who |-> p, room |-> r, age |-> 0, fresh |-> new, dialing |-> FALSE]
      BY <2>1, <2>2, Issued DEF Base, TypeOK
    <2>. QED BY <1>1, <2>1, <2>2, <2>3, <2>4, TimeStands
  <1>. QED BY <1>2, <1>3

LEMMA InTimeStep == Base /\ InTime /\ [Next]_vars => InTime'
  <1>. SUFFICES ASSUME Base, InTime, [Next]_vars PROVE InTime'
    OBVIOUS
  <1>1. ASSUME NEW p \in Players, NEW r \in Rooms, Spectate(p, r) PROVE InTime'
    <2>1. held' = held /\ Issue(p, r, FALSE)
      BY <1>1 DEF Spectate, arenaVars
    <2>2. \A t \in Tokens :
            \/ tickets'[t] = tickets[t]
            \/ tickets'[t] = [who |-> p, room |-> r, age |-> 0, fresh |-> FALSE, dialing |-> FALSE]
      BY <2>1, Issued DEF Base, TypeOK
    <2>. QED BY <2>1, <2>2, TimeStands
  <1>2. ASSUME NEW p \in Players,
               \/ Leave(p) \/ QuickMatch(p) \/ LeaveQueue(p)
               \/ \E r \in Rooms : Join(p, r) \/ HangUp(p, r)
        PROVE  InTime'
    <2>1. UNCHANGED <<held, tickets>>
      BY <1>2 DEF Leave, QuickMatch, LeaveQueue, Join, HangUp, AgentLeft, arenaVars
    <2>. QED BY <2>1, TimeStands
  <1>3. CASE Drain \/ UNCHANGED vars
    <2>1. UNCHANGED <<held, tickets>>
      BY <1>3 DEF Drain, vars, arenaVars
    <2>. QED BY <2>1, TimeStands
  <1>4. ASSUME NEW r \in Rooms, Handle(r) PROVE InTime'
    <2>1. \A s \in Rooms, g \in Guests : held'[s][g] \in {held[s][g], NotHeld, 0}
      <3>1. \A s \in Rooms, g \in Guests :
              \/ held'[s][g] = held[s][g]
              \/ held'[s][g] = NotHeld
              \/ /\ held[s][g] = NotHeld /\ held'[s][g] = 0
                 /\ s = r /\ Head(inbox[r]) = [do |-> "Reserve", who |-> g]
        BY <1>4, Handled, Zenon
      <3>. QED BY <3>1
    <2>2. tickets' = tickets
      BY <1>4 DEF Handle
    <2>. QED BY <2>1, <2>2, TimeStands
  <1>5. ASSUME NEW r \in Rooms, Sweep(r) PROVE InTime'
    <2>1. \A s \in Rooms, g \in Guests : held'[s][g] \in {held[s][g], NotHeld, 0}
      BY <1>5, SweepBase
    <2>2. tickets' = tickets
      BY <1>5 DEF Sweep
    <2>. QED BY <2>1, <2>2, TimeStands
  <1>6. ASSUME NEW t \in Tokens, Arrive(t) PROVE InTime'
    <2>1. \A s \in Rooms, g \in Guests : held'[s][g] \in {held[s][g], NotHeld, 0}
      BY <1>6, ArriveBase
    <2>2. \A u \in Tokens : tickets'[u] = tickets[u] \/ tickets'[u] = NoTicket
      BY <1>6, ArriveBase
    <2>. QED BY <2>1, <2>2, TimeStands
  <1>. QED BY <1>1, <1>2, <1>3, <1>4, <1>5, <1>6, ServeInTime, TickInTime, DialInTime DEF Next

\* No promise is swept away while the ticket issued with it can be dialled, or
\* has been and its socket is coming up: the two windows are far enough apart
\* (reservations.rs, main.rs).
THEOREM TicketsAreHonoured == Spec => PromiseOutlastsTicket
  <1>1. Spec => [](Base /\ InTime)
    <2>1. Init => InTime
      BY DEF Init, InTime
    <2>2. Base /\ InTime /\ [Next]_vars => (Base /\ InTime)'
      BY BaseStep, InTimeStep
    <2>. QED BY BaseInit, <2>1, <2>2, PTL DEF Spec
  <1>2. ASSUME Base, InTime, NEW p \in Players, NEW r \in Rooms, Sweep(r),
               p \in Promised(r), p \notin Promised(r)', NEW t \in Tokens
        PROVE  ~ /\ tickets[t] # NoTicket
                 /\ tickets[t].who = p /\ tickets[t].room = r /\ tickets[t].fresh
                 /\ tickets[t].dialing \/ tickets[t].age < TicketWindow
    <2>. SUFFICES ASSUME tickets[t] # NoTicket,
                         tickets[t].who = p, tickets[t].room = r, tickets[t].fresh,
                         tickets[t].dialing \/ tickets[t].age < TicketWindow
                  PROVE  FALSE
      OBVIOUS
    <2>1. held[r][p] # NotHeld /\ p \in Guests /\ held'[r][p] = NotHeld
      BY <1>2 DEF Promised
    <2>2. held[r][p] >= ReservationWindow
      BY <1>2, <2>1, SweepBase DEF Overdue
    <2>3. Outlasts(held[r][p], tickets[t]) /\ tickets[t].age \in 0..ReservationWindow
          /\ held[r][p] \in NotHeld..ReservationWindow
      BY <1>2, TicketFields DEF InTime
    <2>. QED BY <2>1, <2>2, <2>3, Numbers DEF Outlasts
  <1>3. Base /\ InTime =>
          [\A p \in Players, r \in Rooms :
             Sweep(r) /\ p \in Promised(r) /\ p \notin Promised(r)'
               => \A t \in Tokens :
                    ~ /\ tickets[t] # NoTicket
                      /\ tickets[t].who = p /\ tickets[t].room = r /\ tickets[t].fresh
                      /\ tickets[t].dialing \/ tickets[t].age < TicketWindow]_vars
    BY <1>2
  <1>. QED BY <1>1, <1>3, PTL DEF PromiseOutlastsTicket

-----------------------------------------------------------------------------
(* Waiting for a match, and how promises age.                              *)

\* Nobody behind has waited longer, and nobody is in line twice.
InLine(q) ==
  /\ \A i, j \in DOMAIN q : i < j => q[j].age <= q[i].age
  /\ \A i, j \in DOMAIN q : q[i].who = q[j].who => i = j

EldestFirst == InLine(queue)

\* Whose patience has run out is matched by the lobby's next tick ...
SomebodyDue == \E i \in DOMAIN queue : queue[i].age >= Patience
DueAreReady == SomebodyDue => Ready # <<>>

\* ... and so is everybody whose patience has.
NobodyLeftDue ==
  [][Drain => \A i \in DOMAIN queue' : queue'[i].age < Patience]_vars

\* A promise held ages by a tick at a time and by nothing else.
PromisesAge ==
  [][\A r \in Rooms, g \in Guests :
       (held[r][g] # NotHeld /\ held'[r][g] # NotHeld) =>
         held'[r][g] = held[r][g] + (IF Tick THEN 1 ELSE 0)]_vars

LEMMA WithoutInLine ==
  ASSUME queue \in Seq(Waiter), InLine(queue), NEW p
  PROVE  InLine(Without(p))
  <1>. DEFINE S == {i \in DOMAIN queue : queue[i].who # p}
              kept == Picked(queue, S)
  <1>1. Len(queue) \in Nat /\ S \in SUBSET (1..Len(queue)) /\ \A i \in S : queue[i] \in Waiter
    OBVIOUS
  <1>2. kept \in Seq(Waiter) /\ Lists(kept, queue, S)
    <2>. HIDE DEF S
    <2>. QED BY <1>1, PickedShape
  <1>3. PICK f \in [1..Len(kept) -> S] :
          /\ \A k \in 1..Len(kept) : kept[k] = queue[f[k]]
          /\ \A k, l \in 1..Len(kept) : f[k] = f[l] => k = l
          /\ \A k, l \in 1..Len(kept) : k < l => f[k] < f[l]
    BY <1>2 DEF Lists
  <1>4. \A k \in 1..Len(kept) : f[k] \in DOMAIN queue
    <2>. HIDE DEF kept
    <2>. QED BY <1>3
  <1>5. DOMAIN kept = 1..Len(kept)
    BY <1>2
  <1>. HIDE DEF kept
  <1>6. InLine(kept)
    BY <1>3, <1>4, <1>5 DEF InLine
  <1>. QED BY <1>6 DEF kept, Without

LEMMA RestShape ==
  ASSUME queue \in Seq(Waiter)
  PROVE  /\ Rest \in Seq(Waiter) /\ DOMAIN Rest = 1..Len(Rest) /\ Len(Rest) \in Nat
         /\ \A i \in 1..Len(Rest) :
              /\ FullMatches * MatchSize + i \in 1..Len(queue)
              /\ Rest[i] = queue[FullMatches * MatchSize + i]
         /\ FullMatches = 0 => Rest = queue
  <1>. DEFINE past == FullMatches * MatchSize  n == Len(queue)
  <1>1. past \in Nat /\ n \in Nat /\ FullMatches \in Nat
    BY RestListed, Numbers DEF FullMatches
  <1>2. past + 1 \in Nat /\ past + 1 >= 1
    BY <1>1
  <1>. HIDE DEF past
  <1>3. \A i \in past + 1..n : queue[i] \in Waiter
    BY <1>1
  <1>4. /\ SubSeq(queue, past + 1, n) \in Seq(Waiter)
        /\ Len(SubSeq(queue, past + 1, n)) = IF past + 1 <= n THEN n - (past + 1) + 1 ELSE 0
        /\ \A i \in 1..n - (past + 1) + 1 : SubSeq(queue, past + 1, n)[i] = queue[(past + 1) + i - 1]
    <2>. HIDE DEF n
    <2>. QED BY <1>1, <1>2, <1>3, SubSeqProperties
  <1>5. Rest = SubSeq(queue, past + 1, n)
    BY DEF Rest, past
  <1>. HIDE DEF n
  <1>6. Rest \in Seq(Waiter) /\ DOMAIN Rest = 1..Len(Rest) /\ Len(Rest) \in Nat
    BY <1>4, <1>5
  <1>7. ASSUME NEW i \in 1..Len(Rest)
        PROVE  past + i \in 1..n /\ Rest[i] = queue[past + i]
    <2>1. Len(Rest) = IF past + 1 <= n THEN n - (past + 1) + 1 ELSE 0
      BY <1>4, <1>5
    <2>2. past + 1 <= n /\ i \in 1..n - (past + 1) + 1 /\ (past + 1) + i - 1 = past + i
      BY <1>1, <1>7, <2>1
    <2>3. SubSeq(queue, past + 1, n)[i] = queue[(past + 1) + i - 1]
      BY <1>4, <2>2
    <2>4. past + i \in 1..n
      BY <1>1, <2>2
    <2>. QED BY <1>5, <2>2, <2>3, <2>4
  <1>8. FullMatches = 0 => Rest = queue
    <2>. SUFFICES ASSUME FullMatches = 0 PROVE Rest = queue
      OBVIOUS
    <2>1. past = 0
      BY Numbers DEF past
    <2>2. Len(Rest) = n
      BY <1>1, <1>4, <1>5, <2>1
    <2>3. \A i \in 1..n : Rest[i] = queue[i]
      BY <1>1, <1>7, <2>1, <2>2
    <2>. QED BY <1>6, <2>2, <2>3, SeqEqual DEF n
  <1>. QED BY <1>6, <1>7, <1>8 DEF past, n

LEMMA LineInit == Init => EldestFirst
  BY DEF Init, EldestFirst, InLine

\* A queue that has lost its front is in line still.
LEMMA RestInLine ==
  ASSUME queue \in Seq(Waiter), InLine(queue)
  PROVE  InLine(Rest)
  <1>. DEFINE past == FullMatches * MatchSize
  <1>1. /\ DOMAIN Rest = 1..Len(Rest) /\ Len(Rest) \in Nat
        /\ \A i \in 1..Len(Rest) : past + i \in 1..Len(queue) /\ Rest[i] = queue[past + i]
    BY RestShape
  <1>2. past \in Nat
    BY RestListed, Numbers DEF FullMatches
  <1>. HIDE DEF past
  <1>3. DOMAIN queue = 1..Len(queue)
    OBVIOUS
  <1>4. ASSUME NEW i \in 1..Len(Rest), NEW j \in 1..Len(Rest)
        PROVE  /\ i < j => Rest[j].age <= Rest[i].age
               /\ Rest[i].who = Rest[j].who => i = j
    <2>1. past + i \in DOMAIN queue /\ past + j \in DOMAIN queue
      BY <1>1, <1>3
    <2>2. /\ past + i < past + j => queue[past + j].age <= queue[past + i].age
          /\ queue[past + i].who = queue[past + j].who => past + i = past + j
      BY <2>1 DEF InLine
    <2>3. (i < j => past + i < past + j) /\ (past + i = past + j => i = j)
      BY <1>2
    <2>. QED BY <1>1, <2>2, <2>3
  <1>. QED BY <1>1, <1>4 DEF InLine

LEMMA TickInLine ==
  ASSUME Base, EldestFirst, Tick
  PROVE  InLine(queue')
  <1>. DEFINE older(w) == [w EXCEPT !.age = Older(@, Patience)]
  <1>1. queue \in Seq(Waiter) /\ queue' = [i \in DOMAIN queue |-> older(queue[i])]
    BY DEF Base, TypeOK, Waiter, Tick
  <1>2. \A w \in Waiter : older(w).age = Older(w.age, Patience) /\ older(w).who = w.who /\ w.age \in 0..Patience
    BY DEF Waiter
  <1>3. \A a, b \in 0..Patience : a <= b => Older(a, Patience) <= Older(b, Patience)
    BY Numbers DEF Older
  <1>. HIDE DEF older
  <1>4. DOMAIN queue' = DOMAIN queue /\ \A i \in DOMAIN queue : queue[i] \in Waiter /\ queue'[i] = older(queue[i])
    BY <1>1
  <1>. QED BY <1>2, <1>3, <1>4 DEF EldestFirst, InLine

LEMMA LineStep == Base /\ EldestFirst /\ [Next]_vars => EldestFirst'
  <1>. SUFFICES ASSUME Base, EldestFirst, [Next]_vars PROVE InLine(queue')
    BY DEF EldestFirst
  <1>1. queue \in Seq(Waiter) /\ InLine(queue) /\ DOMAIN queue = 1..Len(queue) /\ Len(queue) \in Nat
    BY DEF Base, TypeOK, Waiter, EldestFirst
  <1>2. ASSUME queue' = queue PROVE InLine(queue')
    BY <1>1, <1>2
  <1>3. ASSUME NEW p \in Players, Leave(p) \/ LeaveQueue(p) PROVE InLine(queue')
    BY <1>1, <1>3, WithoutInLine DEF Leave, LeaveQueue
  <1>4. ASSUME NEW p \in Players, QuickMatch(p) PROVE InLine(queue')
    <2>. DEFINE w == [who |-> p, age |-> 0]
    <2>1. w \in Waiter /\ queue' = Append(queue, w) /\ \A i \in DOMAIN queue : queue[i].who # p
      BY <1>4, Numbers DEF QuickMatch, Waiter
    <2>2. w.age = 0 /\ w.who = p
      OBVIOUS
    <2>. HIDE DEF w
    <2>3. /\ DOMAIN queue' = 1..Len(queue) + 1
          /\ \A i \in 1..Len(queue) : queue'[i] = queue[i]
          /\ queue'[Len(queue) + 1] = w
      BY <1>1, <2>1
    <2>4. \A i \in 1..Len(queue) : queue[i].age >= 0
      <3>1. \A v \in Waiter : v.age >= 0
        BY DEF Waiter
      <3>. QED BY <1>1, <3>1
    <2>. SUFFICES ASSUME NEW i \in 1..Len(queue) + 1, NEW j \in 1..Len(queue) + 1
                  PROVE  /\ i < j => queue'[j].age <= queue'[i].age
                         /\ queue'[i].who = queue'[j].who => i = j
      BY <2>3 DEF InLine
    <2>5. CASE i \in 1..Len(queue) /\ j \in 1..Len(queue)
      BY <1>1, <2>3, <2>5 DEF InLine
    <2>6. CASE i = Len(queue) + 1 /\ j \in 1..Len(queue)
      BY <1>1, <2>1, <2>2, <2>3, <2>6
    <2>7. CASE i \in 1..Len(queue) /\ j = Len(queue) + 1
      BY <1>1, <2>1, <2>2, <2>3, <2>4, <2>7
    <2>8. CASE i = Len(queue) + 1 /\ j = Len(queue) + 1
      BY <1>1, <2>8
    <2>. QED BY <1>1, <2>5, <2>6, <2>7, <2>8
  <1>5. CASE Drain
    <2>1. queue' = <<>> => InLine(queue')
      BY DEF InLine
    <2>. QED BY <1>1, <1>5, <2>1, RestInLine DEF Drain
  <1>6. CASE Tick
    BY <1>6, TickInLine
  <1>7. ASSUME NEW p \in Players,
               \E r \in Rooms : Join(p, r) \/ Spectate(p, r) \/ HangUp(p, r)
        PROVE  InLine(queue')
    BY <1>2, <1>7 DEF Join, Spectate, HangUp, lobbyVars
  <1>8. CASE Serve
    <2>1. queue' = queue
      BY <1>8 DEF Serve, Ask, Admit, Promise, Place, Notify, SeatMatch, SeatBot, BotJoin
    <2>. QED BY <1>2, <2>1
  <1>9. CASE \/ \E r \in Rooms : Handle(r) \/ Sweep(r)
             \/ \E t \in Tokens : Dial(t) \/ Arrive(t)
             \/ UNCHANGED vars
    BY <1>2, <1>9 DEF Handle, Sweep, Dial, Arrive, vars, lobbyVars
  <1>. QED BY <1>3, <1>4, <1>5, <1>6, <1>7, <1>8, <1>9 DEF Next

LEMMA LineAlways == Spec => [](Base /\ EldestFirst)
  BY BaseInit, BaseStep, LineInit, LineStep, PTL DEF Spec

\* The head of the match queue is the longest-waiting, whoever leaves from its
\* middle, and nobody has two places in it: what drain_ready relies on when it
\* looks at the front only.
THEOREM EldestInFront == Spec => []EldestFirst
  BY LineAlways, PTL

LEMMA DueReady ==
  ASSUME Base, EldestFirst, SomebodyDue
  PROVE  Ready # <<>>
  <1>. DEFINE full == [i \in 1..FullMatches |->
                 Job("Match", Names(SubSeq(queue, (i - 1) * MatchSize + 1, i * MatchSize)), NoRoom)]
              late == IF OutOfPatience THEN <<Job("Match", Names(Rest), NoRoom)>> ELSE <<>>
  <1>1. queue \in Seq(Waiter) /\ FullMatches \in Nat
    BY RestListed DEF Base, TypeOK, Waiter
  <1>2. Ready = full \o late
    BY DEF Ready
  <1>3. /\ full \in Seq({full[i] : i \in 1..FullMatches}) /\ Len(full) = FullMatches
        /\ \E S : late \in Seq(S)
    <2>1. full \in [1..FullMatches -> {full[i] : i \in 1..FullMatches}]
      OBVIOUS
    <2>. HIDE DEF full
    <2>2. full \in Seq({full[i] : i \in 1..FullMatches}) /\ Len(full) = FullMatches
      BY <1>1, <2>1, SeqDef, LenProperties
    <2>3. \A x : (IF OutOfPatience THEN <<x>> ELSE <<>>) \in Seq({x})
      <3>1. TAKE x
      <3>2. <<x>> \in Seq({x}) /\ <<>> \in Seq({x})
        OBVIOUS
      <3>. QED BY <3>2
    <2>4. late \in Seq({Job("Match", Names(Rest), NoRoom)})
      BY <2>3
    <2>. QED BY <2>2, <2>4
  <1>4. FullMatches = 0 => OutOfPatience
    <2>. SUFFICES ASSUME FullMatches = 0 PROVE OutOfPatience
      OBVIOUS
    <2>1. Rest = queue
      BY <1>1, RestShape
    <2>2. PICK i \in 1..Len(queue) : queue[i].age >= Patience
      BY <1>1 DEF SomebodyDue
    <2>3. queue # <<>> /\ Head(queue) = queue[1] /\ 1 \in 1..Len(queue)
      BY <1>1, <2>2, HeadTailProperties
    <2>4. i = 1 \/ queue[i].age <= queue[1].age
      BY <1>1, <2>2, <2>3 DEF EldestFirst, InLine
    <2>5. queue[1].age \in Nat /\ queue[i].age \in Nat
      <3>1. \A w \in Waiter : w.age \in Nat
        BY DEF Waiter
      <3>. QED BY <1>1, <2>2, <2>3, <3>1
    <2>. QED BY <2>1, <2>2, <2>3, <2>4, <2>5, Numbers DEF OutOfPatience
  <1>5. OutOfPatience => Len(late) = 1
    OBVIOUS
  <1>6. Len(late) \in Nat
    BY <1>3
  <1>. HIDE DEF full, late
  <1>7. Len(full \o late) = FullMatches + Len(late)
    <2>1. PICK S : late \in Seq(S)
      BY <1>3
    <2>2. \A T : full \in Seq(T) /\ late \in Seq(T) => Len(full \o late) = Len(full) + Len(late)
      BY ConcatProperties
    <2>3. full \in Seq({full[i] : i \in 1..FullMatches} \cup S) /\ late \in Seq({full[i] : i \in 1..FullMatches} \cup S)
      BY <1>3, <2>1
    <2>. QED BY <1>3, <2>2, <2>3
  <1>8. Len(full \o late) # 0
    <2>1. FullMatches = 0 => Len(late) = 1
      BY <1>4, <1>5
    <2>2. \A m, n \in Nat : (m = 0 => n = 1) => m + n # 0
      OBVIOUS
    <2>. QED BY <1>1, <1>6, <1>7, <2>1, <2>2
  <1>9. Len(<<>>) = 0
    OBVIOUS
  <1>. QED BY <1>2, <1>8, <1>9

\* Whoever's patience has run out makes a match ready, and the tick that forms it
\* leaves nobody behind whose patience has run out (drain_ready).
THEOREM NobodyOverlooked == Spec => []DueAreReady /\ NobodyLeftDue
  <1>1. Base /\ EldestFirst => DueAreReady
    BY DueReady DEF DueAreReady
  <1>2. ASSUME Base, EldestFirst, Drain, NEW i \in DOMAIN queue'
        PROVE  queue'[i].age < Patience
    <2>1. queue \in Seq(Waiter) /\ InLine(queue)
      BY <1>2 DEF Base, TypeOK, Waiter, EldestFirst
    <2>2. queue' # <<>>
      BY <1>2
    <2>3. queue' = Rest /\ ~OutOfPatience
      BY <1>2, <2>2 DEF Drain
    <2>4. Rest \in Seq(Waiter) /\ InLine(Rest) /\ Rest # <<>>
      BY <2>1, <2>2, <2>3, RestShape, RestInLine
    <2>5. Head(Rest) = Rest[1] /\ 1 \in 1..Len(Rest) /\ DOMAIN Rest = 1..Len(Rest) /\ i \in 1..Len(Rest)
      BY <1>2, <2>3, <2>4, HeadTailProperties
    <2>6. i = 1 \/ Rest[i].age <= Rest[1].age
      BY <2>4, <2>5 DEF InLine
    <2>7. Rest[1].age \in Nat /\ Rest[i].age \in Nat
      <3>1. \A w \in Waiter : w.age \in Nat
        BY DEF Waiter
      <3>. QED BY <2>4, <2>5, <3>1
    <2>8. ~(Rest[1].age >= Patience)
      BY <2>3, <2>4, <2>5 DEF OutOfPatience
    <2>. QED BY <2>3, <2>6, <2>7, <2>8, Numbers
  <1>3. Base /\ EldestFirst => (Drain => \A i \in DOMAIN queue' : queue'[i].age < Patience)
    BY <1>2
  <1>. QED BY <1>1, <1>3, LineAlways, PTL DEF NobodyLeftDue

\* Asking again for a promise that is held does not restart its window: a promise
\* ages with the clock alone, so it is gone in ReservationWindow ticks
\* (reservations.rs, reserve and sweep).
THEOREM WindowsRunOn == Spec => PromisesAge
  <1>1. ASSUME Base, [Next]_vars, NEW r \in Rooms, NEW g \in Guests,
               held[r][g] # NotHeld, held'[r][g] # NotHeld
        PROVE  held'[r][g] = held[r][g] + (IF Tick THEN 1 ELSE 0)
    <2>1. held[r][g] \in Int
      BY <1>1, Numbers DEF Base, TypeOK
    <2>2. CASE Tick
      BY <1>1, <2>2, TickBase
    <2>. SUFFICES ASSUME ~Tick PROVE held'[r][g] = held[r][g]
      BY <2>1, <2>2
    <2>3. ASSUME NEW s \in Rooms, Handle(s) PROVE held'[r][g] = held[r][g]
      <3>1. Base /\ Handle(s)
        BY <1>1, <2>3
      <3>2. \A q \in Rooms, h \in Guests :
              held'[q][h] = held[q][h] \/ held'[q][h] = NotHeld \/ held[q][h] = NotHeld
        <4>1. \A q \in Rooms, h \in Guests :
                \/ held'[q][h] = held[q][h]
                \/ held'[q][h] = NotHeld
                \/ /\ held[q][h] = NotHeld /\ held'[q][h] = 0
                   /\ q = s /\ Head(inbox[s]) = [do |-> "Reserve", who |-> h]
          BY <3>1, Handled
        <4>. QED BY <4>1
      <3>3. r \in Rooms /\ g \in Guests /\ held[r][g] # NotHeld /\ held'[r][g] # NotHeld
        BY <1>1
      <3>. QED BY <3>2, <3>3
    <2>4. ASSUME NEW s \in Rooms, Sweep(s) PROVE held'[r][g] = held[r][g]
      BY <1>1, <2>4, SweepBase
    <2>5. ASSUME NEW t \in Tokens, Arrive(t) PROVE held'[r][g] = held[r][g]
      BY <1>1, <2>5, ArriveBase
    <2>6. ASSUME held' = held PROVE held'[r][g] = held[r][g]
      BY <2>6
    <2>7. CASE \/ Drain \/ Serve \/ UNCHANGED vars
               \/ \E t \in Tokens : Dial(t)
               \/ \E p \in Players : \/ Leave(p) \/ QuickMatch(p) \/ LeaveQueue(p)
                                     \/ \E s \in Rooms : Join(p, s) \/ Spectate(p, s) \/ HangUp(p, s)
      BY <2>6, <2>7 DEF Drain, Serve, Dial, Leave, QuickMatch, LeaveQueue, Join, Spectate, HangUp,
                        AgentLeft, vars, arenaVars
    <2>. QED BY <1>1, <2>3, <2>4, <2>5, <2>7 DEF Next
  <1>2. Base /\ [Next]_vars =>
          [\A r \in Rooms, g \in Guests :
             (held[r][g] # NotHeld /\ held'[r][g] # NotHeld) =>
               held'[r][g] = held[r][g] + (IF Tick THEN 1 ELSE 0)]_vars
    BY <1>1
  <1>. QED BY <1>2, LineAlways, PTL DEF Spec, PromisesAge
=============================================================================
