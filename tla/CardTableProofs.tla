--------------------------- MODULE CardTableProofs ---------------------------
(***************************************************************************)
(* For any players, seats, cards, rounds and timeouts: the order of play   *)
(* is of people at the table, whoever is on turn can take it, a clock runs *)
(* for them, a match is played to its end, and a full table that can go on *)
(* waits for nothing that is not coming.                                   *)
(***************************************************************************)
EXTENDS CardTable, PickingProofs

-----------------------------------------------------------------------------
(* Sequences and places in them.                                           *)

LEMMA LeastExists ==
  ASSUME NEW I \in SUBSET Nat, I # {}
  PROVE  \E i \in I : \A j \in I : i <= j
  <1>1. PICK i \in I : \A j \in I : ~(<<j, i>> \in OpToRel(<, Nat))
    <2>1. \E i \in I : \A j \in I : ~(<<j, i>> \in OpToRel(<, Nat))
      BY NatLessThanWellFounded, WFMin, Zenon
    <2>. QED BY <2>1
  <1>2. \A j \in I : ~(j < i)
    BY <1>1, Zenon DEF OpToRel
  <1>. QED BY <1>2

-----------------------------------------------------------------------------
(* The turn order.                                                         *)

DistinctOrder(o) == \A i, j \in DOMAIN o.actors : o.actors[i] = o.actors[j] => i = j

LEMMA Numbers ==
  /\ TableSize \in Nat /\ TableSize >= 1 /\ Rounds \in Nat /\ Rounds >= 1
  /\ HandSize \in Nat /\ HandSize >= 2 /\ TurnTimeout \in Nat /\ TurnTimeout >= 1
  /\ Intermission \in Nat /\ Intermission >= 1 /\ Nobody \notin Players
  BY CardTableAssumption

LEMMA NextPlace ==
  ASSUME NEW n \in Nat, NEW i \in 1..n
  PROVE  i % n \in Nat /\ (i < n => i % n = i)
  OBVIOUS

\* r is o without the actor at place i.
Less(r, o, i) ==
  LET n == Len(o.actors)
  IN  /\ n \in Nat /\ i \in 1..n
      /\ r \in Order(Players) /\ Len(r.actors) = n - 1
      /\ \A j \in 1..n - 1 : r.actors[j] = o.actors[IF j < i THEN j ELSE j + 1]
      /\ r.current = Passed(o.current, i, n - 1)

\* remove_actor: the others keep their order, and whoever comes next is on turn.
LEMMA Removed ==
  ASSUME NEW o \in Order(Players), NEW a, InOrder(o, a)
  PROVE  Less(RemoveActor(o, a), o, PlaceOf(o, a)) /\ o.actors[PlaceOf(o, a)] = a
  <1>. DEFINE r == RemoveActor(o, a)
              i == PlaceOf(o, a)
              n == Len(o.actors)
  <1>1. o.actors \in Seq(Players) /\ n \in Nat /\ DOMAIN o.actors = 1..n /\ o.current \in Nat
    BY DEF Order
  <1>2. i \in 1..n /\ o.actors[i] = a
    <2>. DEFINE I == {j \in 1..n : o.actors[j] = a}
    <2>1. I \in SUBSET Nat /\ I # {}
      BY <1>1 DEF InOrder
    <2>2. PICK j \in I : \A k \in I : j <= k
      BY <2>1, LeastExists
    <2>3. \A k \in 1..j - 1 : o.actors[k] # a
      BY <1>1, <2>2
    <2>. QED BY <1>1, <2>2, <2>3 DEF PlaceOf
  <1>3. r = [actors |-> Dropped(o.actors, i), current |-> Passed(o.current, i, n - 1)]
    BY DEF RemoveActor
  <1>. HIDE DEF r, i
  <1>4. Dropped(o.actors, i) \in [1..n - 1 -> Players]
    BY <1>1, <1>2 DEF Dropped
  <1>5. /\ Dropped(o.actors, i) \in Seq(Players) /\ Len(Dropped(o.actors, i)) = n - 1
        /\ \A j \in 1..n - 1 : Dropped(o.actors, i)[j] = o.actors[IF j < i THEN j ELSE j + 1]
    <2>1. n - 1 \in Nat
      BY <1>1, <1>2
    <2>2. \A j \in 1..n - 1 : Dropped(o.actors, i)[j] = o.actors[IF j < i THEN j ELSE j + 1]
      BY <1>1, <1>2 DEF Dropped
    <2>. HIDE DEF n
    <2>. QED BY <1>4, <2>1, <2>2, SeqDef, LenProperties
  <1>6. Passed(o.current, i, n - 1) \in Nat
    BY <1>1, <1>2 DEF Passed, NoTurn
  <1>. QED BY <1>1, <1>2, <1>3, <1>5, <1>6 DEF Order, Less, r, i

-----------------------------------------------------------------------------
(* What holds of every table, between the parts of a handler too.          *)

ActorsOf(tb) == {tb.turns.actors[i] : i \in DOMAIN tb.turns.actors}

SeatsOK(tb) == \A c, d \in Chairs : tb.seats[c] = tb.seats[d] /\ tb.seats[c] # Nobody => c = d
OrderOK(tb) == DistinctOrder(tb.turns) /\ ActorsOf(tb) \subseteq Seated(tb)
DelaysOK(tb) == \A i \in DOMAIN tb.timeouts : tb.timeouts[i].left # 0

Sound(tb) == tb \in TableState /\ SeatsOK(tb) /\ OrderOK(tb) /\ DelaysOK(tb)

Phases == {"Dealing", "Playing", "Scoring", "Finished"}

LEMMA Fields ==
  ASSUME NEW tb \in TableState
  PROVE  /\ tb.phase \in Phases /\ tb.turns \in Order(Players)
         /\ tb.turns.actors \in Seq(Players) /\ tb.turns.current \in Nat
         /\ tb.round \in 0..Rounds /\ tb.inProgress \in BOOLEAN
         /\ tb.seats \in [Chairs -> Players \cup {Nobody}]
         /\ tb.hands \in [Players -> 0..HandSize] /\ tb.table \in Seq(Players)
         /\ tb.timeouts \in Seq(Event) /\ tb.batch \in Seq(Event)
  BY DEF TableState, Phases, Order

LEMMA SoundFrom ==
  ASSUME NEW tb, NEW r, Sound(tb), r \in TableState,
         r.seats = tb.seats, r.turns.actors = tb.turns.actors, DelaysOK(r)
  PROVE  Sound(r)
  BY DEF Sound, SeatsOK, OrderOK, DistinctOrder, ActorsOf, Seated

\* r is tb but for its phase and timeouts.
SameBoard(r, tb) ==
  /\ r.turns = tb.turns /\ r.round = tb.round /\ r.inProgress = tb.inProgress
  /\ r.seats = tb.seats /\ r.hands = tb.hands /\ r.table = tb.table /\ r.batch = tb.batch

LEMMA TransitionSound ==
  ASSUME NEW tb, Sound(tb), NEW phase \in Phases
  PROVE  LET r == TransitionTo(tb, phase)
         IN  Sound(r) /\ r.phase = phase /\ SameBoard(r, tb)
  <1>. DEFINE r == TransitionTo(tb, phase)
  <1>1. tb \in TableState
    BY DEF Sound
  <1>2. r \in TableState /\ r.phase = phase /\ SameBoard(r, tb)
    <2>1. CASE tb.phase = phase
      BY <1>1, <2>1 DEF TransitionTo, SameBoard
    <2>2. CASE tb.phase # phase
      <3>1. r = [tb EXCEPT !.phase = phase, !.timeouts = <<>>] /\ <<>> \in Seq(Event)
        BY <2>2 DEF TransitionTo
      <3>. HIDE DEF r
      <3>. QED BY <1>1, <3>1 DEF TableState, SameBoard, Phases
    <2>. QED BY <2>1, <2>2
  <1>3. DelaysOK(r)
    BY <1>1 DEF TransitionTo, TableState, DelaysOK, Sound
  <1>. HIDE DEF r
  <1>4. Sound(r)
    BY <1>2, <1>3, SoundFrom DEF SameBoard
  <1>. QED BY <1>2, <1>4 DEF r

LEMMA ScheduleSound ==
  ASSUME NEW tb, Sound(tb), NEW delay \in Nat, delay # 0, NEW who \in Players \cup {Nobody}
  PROVE  LET r == ScheduleAfter(tb, delay, who)
         IN  /\ Sound(r) /\ r.phase = tb.phase /\ SameBoard(r, tb)
             /\ \E i \in DOMAIN r.timeouts : r.timeouts[i].who = who
  <1>. DEFINE r == ScheduleAfter(tb, delay, who)
              e == [left |-> delay, who |-> who]
  <1>1. tb \in TableState /\ tb.timeouts \in Seq(Event)
    BY Fields DEF Sound
  <1>2. e \in Event /\ e.left # 0 /\ e.who = who
    BY DEF Event
  <1>. HIDE DEF e
  <1>3. r = [tb EXCEPT !.timeouts = Append(@, e)]
    BY DEF ScheduleAfter, e
  <1>4. Append(tb.timeouts, e) \in Seq(Event)
    BY <1>1, <1>2
  <1>5. /\ r \in TableState /\ r.phase = tb.phase /\ SameBoard(r, tb)
        /\ r.timeouts = Append(tb.timeouts, e)
    <2>. HIDE DEF r
    <2>. QED BY <1>1, <1>3, <1>4 DEF TableState, SameBoard
  <1>. HIDE DEF r
  <1>6. DelaysOK(r) /\ \E i \in DOMAIN r.timeouts : r.timeouts[i].who = who
    <2>1. /\ Len(tb.timeouts) \in Nat /\ DOMAIN r.timeouts = 1..Len(tb.timeouts) + 1
          /\ DOMAIN tb.timeouts = 1..Len(tb.timeouts)
          /\ r.timeouts[Len(tb.timeouts) + 1] = e
          /\ \A i \in 1..Len(tb.timeouts) : r.timeouts[i] = tb.timeouts[i]
      BY <1>1, <1>2, <1>5
    <2>2. \A i \in DOMAIN r.timeouts : i \in DOMAIN tb.timeouts \/ r.timeouts[i] = e
      BY <2>1
    <2>3. DelaysOK(r)
      BY <1>2, <2>1, <2>2 DEF DelaysOK, Sound
    <2>4. Len(tb.timeouts) + 1 \in DOMAIN r.timeouts /\ r.timeouts[Len(tb.timeouts) + 1].who = who
      BY <1>2, <2>1
    <2>. QED BY <2>3, <2>4
  <1>7. Sound(r)
    BY <1>5, <1>6, SoundFrom DEF SameBoard
  <1>. QED BY <1>5, <1>6, <1>7 DEF r

\* A timeout is scheduled for whoever is on turn.
Armed(tb) ==
  \A p \in Players : OnTurn(tb.turns, p) =>
    \E i \in DOMAIN tb.timeouts : tb.timeouts[i].who = p

LEMMA ArmSound ==
  ASSUME NEW tb, Sound(tb)
  PROVE  LET r == ArmTurnTimeout(tb)
         IN  Sound(r) /\ r.phase = tb.phase /\ SameBoard(r, tb) /\ Armed(r)
  <1>. DEFINE r == ArmTurnTimeout(tb)
              actor == tb.turns.actors[tb.turns.current]
  <1>1. tb \in TableState /\ tb.turns.actors \in Seq(Players)
    BY Fields DEF Sound
  <1>2. CASE tb.turns.current \in DOMAIN tb.turns.actors
    <2>1. actor \in Players
      BY <1>1, <1>2
    <2>2. r = ScheduleAfter(tb, TurnTimeout, actor)
      BY <1>2 DEF ArmTurnTimeout
    <2>. HIDE DEF r, actor
    <2>3. /\ Sound(r) /\ r.phase = tb.phase /\ SameBoard(r, tb)
          /\ \E i \in DOMAIN r.timeouts : r.timeouts[i].who = actor
      BY <2>1, <2>2, Numbers, ScheduleSound
    <2>4. \A p : OnTurn(r.turns, p) => p = actor
      BY <2>3 DEF SameBoard, OnTurn, actor
    <2>. QED BY <2>3, <2>4 DEF Armed, r
  <1>3. CASE tb.turns.current \notin DOMAIN tb.turns.actors
    <2>1. r = tb
      BY <1>3 DEF ArmTurnTimeout
    <2>. QED BY <1>3, <2>1 DEF SameBoard, Armed, OnTurn
  <1>. QED BY <1>2, <1>3

LEMMA FinishSound ==
  ASSUME NEW tb, Sound(tb)
  PROVE  LET r == FinishMatch(tb)
         IN  Sound(r) /\ r.phase = "Finished" /\ SameBoard(r, tb)
  <1>. DEFINE moved == TransitionTo(tb, "Finished")
              r == FinishMatch(tb)
  <1>1. Sound(moved) /\ moved.phase = "Finished" /\ SameBoard(moved, tb)
    BY TransitionSound DEF Phases
  <1>2. r = ScheduleAfter(moved, Intermission, Nobody)
    BY DEF FinishMatch
  <1>. HIDE DEF moved, r
  <1>3. Sound(r) /\ r.phase = moved.phase /\ SameBoard(r, moved)
    BY <1>1, <1>2, Numbers, ScheduleSound
  <1>. QED BY <1>1, <1>3 DEF SameBoard, r

-----------------------------------------------------------------------------
(* The deal: everybody at the table is in the order, once, with a hand.    *)

LEMMA NewcomersJoin ==
  ASSUME NEW tb, Sound(tb)
  PROVE  LET order == tb.turns.actors \o Newcomers(tb)
         IN  /\ order \in Seq(Players)
             /\ \A i, j \in DOMAIN order : order[i] = order[j] => i = j
             /\ {order[i] : i \in DOMAIN order} = Seated(tb)
  <1>. DEFINE S == {c \in Chairs : tb.seats[c] # Nobody /\ ~InOrder(tb.turns, tb.seats[c])}
              a == tb.turns.actors
              new == Newcomers(tb)
              order == a \o new
  <1>1. /\ a \in Seq(Players) /\ Len(a) \in Nat /\ DOMAIN a = 1..Len(a)
        /\ tb.seats \in [Chairs -> Players \cup {Nobody}]
    BY Fields DEF Sound
  <1>2. S \in SUBSET (1..TableSize) /\ TableSize \in Nat
    BY Numbers DEF Chairs
  <1>3. \A c \in S : tb.seats[c] \in Players /\ tb.seats[c] \in Seated(tb)
    BY <1>1 DEF Seated
  <1>4. new = Picked(tb.seats, S)
    BY DEF Newcomers
  <1>5. new \in Seq(Players) /\ Lists(new, tb.seats, S)
    <2>. HIDE DEF S, new
    <2>. QED BY <1>2, <1>3, <1>4, PickedShape
  <1>6. \A c \in S : ~InOrder(tb.turns, tb.seats[c])
    OBVIOUS
  <1>7. \A c \in Chairs : tb.seats[c] # Nobody => c \in S \/ InOrder(tb.turns, tb.seats[c])
    OBVIOUS
  <1>. HIDE DEF new, S
  <1>8. PICK f \in [1..Len(new) -> S] :
          /\ \A k \in 1..Len(new) : new[k] = tb.seats[f[k]]
          /\ \A k, l \in 1..Len(new) : f[k] = f[l] => k = l
          /\ \A c \in S : \E k \in 1..Len(new) : f[k] = c
    BY <1>5 DEF Lists
  <1>9. Len(new) \in Nat /\ DOMAIN new = 1..Len(new)
    BY <1>5
  <1>. HIDE DEF a
  <1>10. /\ order \in Seq(Players) /\ DOMAIN order = 1..Len(a) + Len(new)
         /\ \A i \in 1..Len(a) : order[i] = a[i]
         /\ \A k \in 1..Len(new) : order[Len(a) + k] = new[k]
         /\ \A i \in DOMAIN order : i \in 1..Len(a) \/ i - Len(a) \in 1..Len(new)
    BY <1>1, <1>5, <1>9
  <1>. HIDE DEF order
  <1>11. \A k \in 1..Len(new) : new[k] \in Seated(tb) /\ ~\E i \in 1..Len(a) : a[i] = new[k]
    <2>. SUFFICES ASSUME NEW k \in 1..Len(new)
                  PROVE  new[k] \in Seated(tb) /\ ~\E i \in 1..Len(a) : a[i] = new[k]
      OBVIOUS
    <2>1. f[k] \in S /\ new[k] = tb.seats[f[k]]
      BY <1>8
    <2>. QED BY <1>1, <1>3, <1>6, <2>1 DEF InOrder, a
  <1>12. \A k, l \in 1..Len(new) : new[k] = new[l] => k = l
    <2>. SUFFICES ASSUME NEW k \in 1..Len(new), NEW l \in 1..Len(new), new[k] = new[l]
                  PROVE  k = l
      OBVIOUS
    <2>1. f[k] \in S /\ f[l] \in S /\ tb.seats[f[k]] = tb.seats[f[l]]
      BY <1>8
    <2>2. f[k] = f[l]
      BY <1>2, <1>3, <2>1, Numbers DEF Sound, SeatsOK, Chairs
    <2>. QED BY <1>8, <2>2
  <1>13. \A i, j \in 1..Len(a) : a[i] = a[j] => i = j
    BY <1>1 DEF Sound, OrderOK, DistinctOrder, a
  <1>14. \A i, j \in DOMAIN order : order[i] = order[j] => i = j
    <2>. SUFFICES ASSUME NEW i \in DOMAIN order, NEW j \in DOMAIN order, order[i] = order[j]
                  PROVE  i = j
      OBVIOUS
    <2>0. /\ i \in Nat /\ j \in Nat
          /\ i = Len(a) + (i - Len(a)) /\ j = Len(a) + (j - Len(a))
      BY <1>1, <1>9, <1>10
    <2>1. CASE i \in 1..Len(a) /\ j \in 1..Len(a)
      BY <1>10, <1>13, <2>1
    <2>2. CASE i - Len(a) \in 1..Len(new) /\ j - Len(a) \in 1..Len(new)
      <3>1. order[i] = new[i - Len(a)] /\ order[j] = new[j - Len(a)]
        BY <1>10, <2>0, <2>2
      <3>2. i - Len(a) = j - Len(a)
        BY <1>12, <2>2, <3>1
      <3>. QED BY <1>1, <2>0, <3>2
    <2>3. ~(i \in 1..Len(a) /\ j - Len(a) \in 1..Len(new))
      <3>. SUFFICES ASSUME i \in 1..Len(a), j - Len(a) \in 1..Len(new) PROVE FALSE
        OBVIOUS
      <3>1. order[i] = a[i] /\ order[j] = new[j - Len(a)]
        BY <1>10, <2>0
      <3>. QED BY <1>11, <3>1
    <2>4. ~(j \in 1..Len(a) /\ i - Len(a) \in 1..Len(new))
      <3>. SUFFICES ASSUME j \in 1..Len(a), i - Len(a) \in 1..Len(new) PROVE FALSE
        OBVIOUS
      <3>1. order[j] = a[j] /\ order[i] = new[i - Len(a)]
        BY <1>10, <2>0
      <3>. QED BY <1>11, <3>1
    <2>. QED BY <1>10, <2>1, <2>2, <2>3, <2>4
  <1>15. \A i \in 1..Len(a) : a[i] \in Seated(tb)
    BY <1>1 DEF Sound, OrderOK, ActorsOf, a
  <1>16. \A i \in DOMAIN order : order[i] \in Seated(tb)
    <2>. SUFFICES ASSUME NEW i \in DOMAIN order PROVE order[i] \in Seated(tb)
      OBVIOUS
    <2>1. CASE i \in 1..Len(a)
      BY <1>10, <1>15, <2>1
    <2>2. CASE i - Len(a) \in 1..Len(new)
      <3>1. i = Len(a) + (i - Len(a))
        BY <1>1, <1>9, <1>10
      <3>2. order[i] = new[i - Len(a)]
        BY <1>10, <2>2, <3>1
      <3>. QED BY <1>11, <2>2, <3>2
    <2>. QED BY <1>10, <2>1, <2>2
  <1>17. \A p \in Seated(tb) : \E i \in DOMAIN order : order[i] = p
    <2>. SUFFICES ASSUME NEW p \in Seated(tb) PROVE \E i \in DOMAIN order : order[i] = p
      OBVIOUS
    <2>1. PICK c \in Chairs : tb.seats[c] = p /\ p # Nobody
      BY DEF Seated
    <2>2. CASE c \in S
      <3>1. PICK k \in 1..Len(new) : f[k] = c
        BY <1>8, <2>2
      <3>2. Len(a) + k \in DOMAIN order /\ order[Len(a) + k] = new[k]
        BY <1>1, <1>9, <1>10
      <3>. QED BY <1>8, <2>1, <3>1, <3>2
    <2>3. CASE InOrder(tb.turns, tb.seats[c])
      <3>1. PICK i \in 1..Len(a) : a[i] = p
        BY <1>1, <2>1, <2>3 DEF InOrder, a
      <3>2. i \in DOMAIN order
        BY <1>1, <1>9, <1>10
      <3>. QED BY <1>10, <3>1, <3>2
    <2>. QED BY <1>7, <2>1, <2>2, <2>3
  <1>18. {order[i] : i \in DOMAIN order} = Seated(tb)
    BY <1>16, <1>17
  <1>. QED BY <1>10, <1>14, <1>18 DEF order, a, new

-----------------------------------------------------------------------------
(* The invariant.                                                          *)

Flag(tb) == tb.inProgress <=> tb.phase = "Playing"

Hand(tb, i) == tb.hands[tb.turns.actors[i]]

\* Either nobody from the actor on turn onwards has played in this trick and
\* everybody before has; or the table already holds as many cards as there are
\* players left, so that the next card ends the trick.
Lap(tb) ==
  LET n == Len(tb.turns.actors)
      current == tb.turns.current
  IN  n # 0 =>
        /\ current \in 1..n
        /\ \/ /\ Len(tb.table) >= current - 1
              /\ \A i \in 1..n : Hand(tb, i) = IF i < current THEN HandSize - 1 ELSE HandSize
           \/ /\ Len(tb.table) >= n
              /\ \A i \in 1..n : Hand(tb, i) >= 1

Hands(tb) ==
  tb.phase = "Playing" => /\ \A p \in Players \ ActorsOf(tb) : tb.hands[p] = 0
                          /\ Lap(tb)

Good(tb) == Sound(tb) /\ Flag(tb) /\ Hands(tb)

Clock(tb) ==
  tb.phase = "Playing" =>
    \A p \in Players : OnTurn(tb.turns, p) =>
      \/ \E i \in DOMAIN tb.timeouts : tb.timeouts[i].who = p
      \/ \E i \in DOMAIN tb.batch : tb.batch[i].who = p

\* Whatever way a match is over, there is nothing to keep but the seats.
LEMMA FinishGood ==
  ASSUME NEW tb, Sound(tb), ~tb.inProgress
  PROVE  Good(FinishMatch(tb)) /\ Clock(FinishMatch(tb))
  <1>. DEFINE r == FinishMatch(tb)
  <1>1. Sound(r) /\ r.phase = "Finished" /\ SameBoard(r, tb)
    BY FinishSound
  <1>. HIDE DEF r
  <1>2. Good(r) /\ Clock(r)
    BY <1>1 DEF Good, Clock, Hands, Flag, SameBoard
  <1>. QED BY <1>2 DEF r

LEMMA BeginRoundGood ==
  ASSUME NEW tb, Sound(tb), ~tb.inProgress
  PROVE  Good(BeginRound(tb)) /\ Clock(BeginRound(tb))
  <1>. DEFINE order == tb.turns.actors \o Newcomers(tb)
              moved == TransitionTo(tb, "Dealing")
              deck == Deal(moved)
              dealt == [deck EXCEPT !.turns.actors = @ \o Newcomers(tb)]
              started == StartNextRound(dealt)
              playing == TransitionTo(started, "Playing")
              turned == [playing EXCEPT !.turns = Restart(@)]
  <1>1. Sound(moved) /\ moved.phase = "Dealing" /\ SameBoard(moved, tb)
    BY TransitionSound DEF Phases
  <1>2. /\ order \in Seq(Players)
        /\ \A i, j \in DOMAIN order : order[i] = order[j] => i = j
        /\ {order[i] : i \in DOMAIN order} = Seated(tb)
    BY NewcomersJoin
  <1>. HIDE DEF moved
  <1>3. /\ deck \in TableState /\ deck.phase = "Dealing" /\ deck.seats = tb.seats
        /\ deck.turns = tb.turns /\ deck.round = tb.round /\ deck.inProgress = tb.inProgress
        /\ deck.table = <<>> /\ deck.timeouts = moved.timeouts
        /\ \A p \in Players : deck.hands[p] = IF p \in Seated(tb) THEN HandSize ELSE 0
    <2>1. moved \in TableState /\ Seated(moved) = Seated(tb)
      BY <1>1 DEF Sound, SameBoard, Seated
    <2>2. [p \in Players |-> IF p \in Seated(moved) THEN HandSize ELSE 0] \in [Players -> 0..HandSize]
      BY Numbers
    <2>. DEFINE dealing == [p \in Players |-> IF p \in Seated(moved) THEN HandSize ELSE 0]
    <2>3. deck = [moved EXCEPT !.hands = dealing, !.table = <<>>]
      BY DEF Deal
    <2>4. \A p \in Players : dealing[p] = IF p \in Seated(tb) THEN HandSize ELSE 0
      BY <2>1
    <2>5. dealing \in [Players -> 0..HandSize] /\ <<>> \in Seq(Players)
      BY <2>2
    <2>. HIDE DEF dealing, deck
    <2>6. deck \in TableState /\ deck.hands = dealing /\ deck.phase = moved.phase
      BY <2>1, <2>3, <2>5 DEF TableState
    <2>7. /\ deck.seats = moved.seats /\ deck.turns = moved.turns /\ deck.round = moved.round
          /\ deck.inProgress = moved.inProgress /\ deck.timeouts = moved.timeouts /\ deck.table = <<>>
      BY <2>1, <2>3 DEF TableState
    <2>. QED BY <1>1, <2>4, <2>6, <2>7 DEF SameBoard
  <1>. HIDE DEF deck
  <1>4. /\ dealt \in TableState /\ dealt.phase = "Dealing" /\ dealt.seats = tb.seats
        /\ dealt.turns.actors = order /\ dealt.turns.current = tb.turns.current
        /\ dealt.round = tb.round /\ dealt.inProgress = tb.inProgress
        /\ dealt.table = <<>> /\ dealt.timeouts = moved.timeouts /\ dealt.hands = deck.hands
    <2>. HIDE DEF order
    <2>1. /\ deck.turns \in Order(Players)
          /\ dealt = [deck EXCEPT !.turns = [@ EXCEPT !.actors = order]]
      BY <1>3, Fields DEF order
    <2>2. [deck.turns EXCEPT !.actors = order] \in Order(Players)
      BY <1>2, <2>1 DEF Order
    <2>. HIDE DEF dealt
    <2>. QED BY <1>2, <1>3, <2>1, <2>2 DEF TableState, Order
  <1>. HIDE DEF dealt, order
  <1>5. Sound(dealt)
    <2>1. DelaysOK(dealt)
      BY <1>1, <1>4 DEF Sound, DelaysOK
    <2>2. OrderOK(dealt)
      BY <1>2, <1>4 DEF OrderOK, DistinctOrder, ActorsOf, Seated
    <2>3. SeatsOK(dealt)
      BY <1>4 DEF Sound, SeatsOK
    <2>. QED BY <1>4, <2>1, <2>2, <2>3 DEF Sound
  <1>6. CASE dealt.inProgress \/ dealt.round >= Rounds
    <2>1. BeginRound(tb) = FinishMatch(dealt)
      BY <1>6, Zenon DEF BeginRound, dealt, deck, moved
    <2>. QED BY <1>4, <1>5, <2>1, FinishGood
  <1>7. CASE ~(dealt.inProgress \/ dealt.round >= Rounds)
    <2>1. BeginRound(tb) = ArmTurnTimeout(turned)
      BY <1>7, Zenon DEF BeginRound, dealt, deck, moved
    <2>2. /\ started \in TableState /\ started.inProgress = TRUE /\ started.seats = dealt.seats
          /\ started.turns = dealt.turns /\ started.hands = dealt.hands
          /\ started.table = dealt.table /\ started.timeouts = dealt.timeouts
      <3>1. dealt.round + 1 \in 0..Rounds
        BY <1>4, <1>7, Numbers, Fields
      <3>. QED BY <1>4, <3>1 DEF StartNextRound, TableState
    <2>. HIDE DEF started
    <2>3. Sound(started)
      BY <1>5, <2>2, SoundFrom DEF Sound, DelaysOK
    <2>4. Sound(playing) /\ playing.phase = "Playing" /\ SameBoard(playing, started)
      BY <2>3, TransitionSound DEF Phases
    <2>. HIDE DEF playing
    <2>5. /\ turned \in TableState /\ turned.phase = "Playing" /\ turned.inProgress = TRUE
          /\ turned.seats = tb.seats /\ turned.hands = deck.hands /\ turned.table = <<>>
          /\ turned.turns.actors = order /\ turned.timeouts = playing.timeouts
          /\ turned.turns.current = IF order = <<>> THEN NoTurn ELSE 1
      <3>1. playing \in TableState /\ playing.turns \in Order(Players)
        BY <2>4, Fields DEF Sound
      <3>2. /\ Restart(playing.turns) \in Order(Players)
            /\ Restart(playing.turns).actors = playing.turns.actors
            /\ Restart(playing.turns).current = IF playing.turns.actors = <<>> THEN NoTurn ELSE 1
        BY <3>1 DEF Restart, Order, NoTurn
      <3>. DEFINE restarted == Restart(playing.turns)
      <3>3. turned = [playing EXCEPT !.turns = restarted]
        BY <3>1 DEF TableState
      <3>. HIDE DEF turned, restarted
      <3>4. /\ turned \in TableState /\ turned.phase = playing.phase
            /\ turned.inProgress = playing.inProgress /\ turned.seats = playing.seats
            /\ turned.hands = playing.hands /\ turned.table = playing.table
            /\ turned.timeouts = playing.timeouts /\ turned.turns = restarted
        BY <3>1, <3>2, <3>3 DEF TableState, restarted
      <3>5. turned.turns.actors = playing.turns.actors
            /\ turned.turns.current = IF playing.turns.actors = <<>> THEN NoTurn ELSE 1
        BY <3>2, <3>4 DEF restarted
      <3>. QED BY <1>4, <2>2, <2>4, <3>4, <3>5 DEF SameBoard
    <2>. HIDE DEF turned
    <2>6. Sound(turned)
      BY <1>4, <2>2, <2>4, <2>5, SoundFrom DEF Sound, DelaysOK, SameBoard
    <2>. DEFINE r == ArmTurnTimeout(turned)
    <2>7. Sound(r) /\ r.phase = "Playing" /\ SameBoard(r, turned) /\ Armed(r)
      BY <2>5, <2>6, ArmSound
    <2>. HIDE DEF r
    <2>8. Hands(r)
      <3>1. ActorsOf(r) = Seated(tb) /\ r.hands = deck.hands /\ r.turns.actors = order
        BY <1>2, <2>5, <2>7 DEF SameBoard, ActorsOf
      <3>2. \A p \in Players \ ActorsOf(r) : r.hands[p] = 0
        BY <1>3, <3>1
      <3>3. Lap(r)
        <4>1. DOMAIN order = 1..Len(order) /\ Len(order) \in Nat
          BY <1>2
        <4>2. \A i \in 1..Len(order) : Hand(r, i) = HandSize
          <5>1. \A i \in 1..Len(order) : order[i] \in Seated(tb) /\ order[i] \in Players
            BY <1>2, <4>1
          <5>. QED BY <1>3, <3>1, <5>1 DEF Hand
        <4>3. Len(order) # 0 => r.turns.current = 1
          BY <2>5, <2>7 DEF SameBoard
        <4>4. Len(r.table) = 0
          BY <2>5, <2>7 DEF SameBoard
        <4>. QED BY <3>1, <4>1, <4>2, <4>3, <4>4 DEF Lap
      <3>. QED BY <3>2, <3>3 DEF Hands
    <2>9. Flag(r) /\ Clock(r)
      BY <2>5, <2>7 DEF Flag, Clock, Armed, SameBoard
    <2>. QED BY <2>1, <2>7, <2>8, <2>9 DEF Good, r
  <1>. QED BY <1>6, <1>7

LEMMA StartMatchGood ==
  ASSUME NEW tb, Sound(tb)
  PROVE  Good(StartMatch(tb)) /\ Clock(StartMatch(tb))
  <1>. DEFINE cleared == [tb EXCEPT !.round = 0, !.inProgress = FALSE]
  <1>1. tb \in TableState
    BY DEF Sound
  <1>2. /\ cleared \in TableState /\ ~cleared.inProgress /\ cleared.seats = tb.seats
        /\ cleared.turns = tb.turns /\ cleared.timeouts = tb.timeouts
    <2>1. 0 \in 0..Rounds /\ FALSE \in BOOLEAN
      BY Numbers
    <2>. QED BY <1>1, <2>1 DEF TableState
  <1>3. StartMatch(tb) = BeginRound(cleared)
    BY DEF StartMatch
  <1>. HIDE DEF cleared
  <1>4. Sound(cleared)
    BY <1>2, SoundFrom DEF Sound, DelaysOK
  <1>. QED BY <1>2, <1>3, <1>4, BeginRoundGood

LEMMA ResolveGood ==
  ASSUME NEW tb, Sound(tb)
  PROVE  Good(ResolveTrick(tb)) /\ Clock(ResolveTrick(tb))
  <1>. DEFINE moved == TransitionTo(tb, "Scoring")
              ended == [moved EXCEPT !.inProgress = FALSE]
  <1>1. Sound(moved)
    BY TransitionSound DEF Phases
  <1>2. ResolveTrick(tb) = IF ended.round >= Rounds THEN FinishMatch(ended) ELSE BeginRound(ended)
    BY DEF ResolveTrick
  <1>. HIDE DEF moved
  <1>3. /\ ended \in TableState /\ ~ended.inProgress /\ ended.seats = moved.seats
        /\ ended.turns = moved.turns /\ ended.timeouts = moved.timeouts
    <2>1. moved \in TableState
      BY <1>1 DEF Sound
    <2>. QED BY <2>1 DEF TableState
  <1>. HIDE DEF ended
  <1>4. Sound(ended)
    BY <1>1, <1>3, SoundFrom DEF Sound, DelaysOK
  <1>. QED BY <1>2, <1>3, <1>4, BeginRoundGood, FinishGood

-----------------------------------------------------------------------------
(* A card is played, by its owner or by the table.                         *)

LEMMA PlayCardGood ==
  ASSUME NEW tb, Good(tb), NEW p \in Players, OnTurn(tb.turns, p), tb.hands[p] > 0
  PROVE  Good(PlayCard(tb, p)) /\ Clock(PlayCard(tb, p))
  <1>. DEFINE played == [tb EXCEPT !.hands[p] = @ - 1, !.table = Append(@, p)]
              turned == [played EXCEPT !.turns = Advance(@)]
              n == Len(tb.turns.actors)
              current == tb.turns.current
  <1>1. /\ tb \in TableState /\ tb.turns \in Order(Players) /\ tb.turns.actors \in Seq(Players)
        /\ n \in Nat /\ DOMAIN tb.turns.actors = 1..n /\ tb.hands \in [Players -> 0..HandSize]
        /\ tb.table \in Seq(Players)
    BY Fields DEF Good, Sound
  <1>2. current \in 1..n /\ tb.turns.actors[current] = p
    BY <1>1 DEF OnTurn
  <1>3. /\ played \in TableState /\ played.phase = tb.phase /\ played.inProgress = tb.inProgress
        /\ played.turns = tb.turns /\ played.seats = tb.seats /\ played.timeouts = tb.timeouts
        /\ Len(played.table) = Len(tb.table) + 1
        /\ played.hands = [tb.hands EXCEPT ![p] = @ - 1]
    <2>1. [tb.hands EXCEPT ![p] = @ - 1] \in [Players -> 0..HandSize]
      BY <1>1, Numbers
    <2>2. played = [tb EXCEPT !.hands = [tb.hands EXCEPT ![p] = @ - 1], !.table = Append(tb.table, p)]
      BY <1>1 DEF TableState
    <2>3. Append(tb.table, p) \in Seq(Players) /\ Len(Append(tb.table, p)) = Len(tb.table) + 1
      BY <1>1
    <2>. HIDE DEF played
    <2>. QED BY <1>1, <2>1, <2>2, <2>3 DEF TableState
  <1>4. PlayCard(tb, p) = IF Len(played.table) < Len(played.turns.actors)
                            THEN ArmTurnTimeout(turned) ELSE ResolveTrick(played)
    BY DEF PlayCard
  <1>. HIDE DEF played
  <1>5. Sound(played)
    BY <1>3, SoundFrom DEF Good, Sound, DelaysOK
  <1>6. CASE ~(Len(played.table) < Len(played.turns.actors))
    BY <1>4, <1>5, <1>6, ResolveGood
  <1>7. CASE Len(played.table) < Len(played.turns.actors)
    <2>1. Len(tb.table) \in Nat /\ Len(tb.table) + 1 < n
      BY <1>1, <1>3, <1>7
    <2>2. (current % n) + 1 \in Nat /\ (current < n => (current % n) + 1 = current + 1)
      <3>. HIDE DEF n, current
      <3>1. current % n \in Nat /\ (current < n => current % n = current)
        BY <1>1, <1>2, NextPlace
      <3>. QED BY <3>1
    <2>3. /\ turned \in TableState /\ turned.phase = tb.phase /\ turned.inProgress = tb.inProgress
          /\ turned.seats = tb.seats /\ turned.timeouts = tb.timeouts
          /\ turned.hands = played.hands /\ turned.table = played.table
          /\ turned.turns.actors = tb.turns.actors /\ turned.turns.current = (current % n) + 1
      <3>1. /\ Advance(tb.turns) \in Order(Players) /\ Advance(tb.turns).actors = tb.turns.actors
            /\ Advance(tb.turns).current = (current % n) + 1
        BY <1>1, <2>2 DEF Advance, Order
      <3>2. turned = [played EXCEPT !.turns = Advance(tb.turns)]
        BY <1>3 DEF TableState
      <3>. HIDE DEF turned, n, current
      <3>. QED BY <1>3, <3>1, <3>2 DEF TableState
    <2>. HIDE DEF turned
    <2>4. Sound(turned)
      BY <2>3, SoundFrom DEF Good, Sound, DelaysOK
    <2>. DEFINE r == ArmTurnTimeout(turned)
    <2>5. Sound(r) /\ r.phase = turned.phase /\ SameBoard(r, turned) /\ Armed(r)
      BY <2>4, ArmSound
    <2>. HIDE DEF r
    <2>6. ASSUME tb.phase = "Playing" PROVE (\A x \in Players \ ActorsOf(r) : r.hands[x] = 0) /\ Lap(r)
      <3>1. ActorsOf(r) = ActorsOf(tb) /\ r.hands = played.hands /\ p \in ActorsOf(tb)
        BY <1>1, <1>2, <2>3, <2>5 DEF SameBoard, ActorsOf
      <3>2. \A x \in Players \ ActorsOf(r) : r.hands[x] = 0
        BY <1>1, <1>3, <2>6, <3>1 DEF Good, Hands
      <3>3. Lap(tb)
        BY <2>6 DEF Good, Hands
      <3>4. /\ Len(tb.table) >= current - 1
            /\ \A i \in 1..n : Hand(tb, i) = IF i < current THEN HandSize - 1 ELSE HandSize
        BY <1>1, <1>2, <2>1, <3>3 DEF Lap
      <3>5. current < n
        BY <1>1, <1>2, <2>1, <3>4
      <3>6. \A i \in 1..n : Hand(r, i) = IF i = current THEN Hand(tb, i) - 1 ELSE Hand(tb, i)
        <4>. SUFFICES ASSUME NEW i \in 1..n
                      PROVE  Hand(r, i) = IF i = current THEN Hand(tb, i) - 1 ELSE Hand(tb, i)
          OBVIOUS
        <4>1. Hand(r, i) = played.hands[tb.turns.actors[i]] /\ tb.turns.actors[i] \in Players
          BY <1>1, <2>3, <2>5 DEF SameBoard, Hand
        <4>2. i # current => tb.turns.actors[i] # p
          BY <1>1, <1>2 DEF Good, Sound, OrderOK, DistinctOrder
        <4>3. Hand(tb, i) = tb.hands[tb.turns.actors[i]]
          BY DEF Hand
        <4>4. i = current => tb.turns.actors[i] = p
          BY <1>2
        <4>. HIDE DEF n, current
        <4>5. CASE i = current
          BY <1>1, <1>3, <4>1, <4>3, <4>4, <4>5
        <4>6. CASE i # current
          BY <1>1, <1>3, <4>1, <4>2, <4>3, <4>6
        <4>. QED BY <4>5, <4>6
      <3>7. \A i \in 1..n : Hand(r, i) = IF i < current + 1 THEN HandSize - 1 ELSE HandSize
        <4>. HIDE DEF n, current
        <4>. SUFFICES ASSUME NEW i \in 1..n
                      PROVE  Hand(r, i) = IF i < current + 1 THEN HandSize - 1 ELSE HandSize
          OBVIOUS
        <4>1. CASE i < current
          BY <1>1, <1>2, <3>4, <3>6, <4>1
        <4>2. CASE i = current
          BY <1>1, <1>2, <3>4, <3>6, <4>2, Numbers
        <4>3. CASE i > current
          BY <1>1, <1>2, <3>4, <3>6, <4>3
        <4>. QED BY <1>1, <1>2, <4>1, <4>2, <4>3
      <3>8. /\ r.turns.current = current + 1 /\ Len(r.turns.actors) = n
            /\ Len(r.table) = Len(tb.table) + 1
        BY <1>3, <2>2, <2>3, <2>5, <3>5 DEF SameBoard
      <3>9. Lap(r)
        <4>1. current + 1 \in 1..n /\ Len(r.table) >= (current + 1) - 1
          BY <1>1, <1>2, <2>1, <3>4, <3>5, <3>8
        <4>. HIDE DEF n, current
        <4>. QED BY <3>7, <3>8, <4>1 DEF Lap
      <3>. QED BY <3>2, <3>9
    <2>7. Flag(r) /\ Hands(r) /\ Clock(r)
      BY <2>3, <2>5, <2>6 DEF Good, Flag, Hands, Clock, Armed, SameBoard
    <2>. QED BY <1>4, <1>7, <2>5, <2>7 DEF Good, r
  <1>. QED BY <1>6, <1>7

-----------------------------------------------------------------------------
(* A player leaves.                                                        *)

LEMMA UnseatedFields ==
  ASSUME NEW tb, Good(tb), NEW p \in Players
  PROVE  LET r == Unseated(tb, p)
         IN  /\ r \in TableState /\ r.phase = tb.phase /\ r.inProgress = tb.inProgress
             /\ r.round = tb.round
             /\ r.table = tb.table /\ r.timeouts = tb.timeouts /\ r.batch = tb.batch
             /\ r.turns = RemoveActor(tb.turns, p) /\ r.hands = [tb.hands EXCEPT ![p] = 0]
             /\ \A c \in Chairs : r.seats[c] = IF tb.seats[c] = p THEN Nobody ELSE tb.seats[c]
  <1>. DEFINE r == Unseated(tb, p)
              seats == [c \in Chairs |-> IF tb.seats[c] = p THEN Nobody ELSE tb.seats[c]]
              hands == [tb.hands EXCEPT ![p] = 0]
              turns == RemoveActor(tb.turns, p)
  <1>1. tb \in TableState /\ tb.turns \in Order(Players)
    BY Fields DEF Good, Sound
  <1>2. seats \in [Chairs -> Players \cup {Nobody}] /\ hands \in [Players -> 0..HandSize]
    BY <1>1, Fields, Numbers
  <1>3. turns \in Order(Players)
    <2>1. InOrder(tb.turns, p) => Less(turns, tb.turns, PlaceOf(tb.turns, p))
      BY <1>1, Removed
    <2>2. ~InOrder(tb.turns, p) => turns = tb.turns
      BY DEF RemoveActor
    <2>. HIDE DEF turns
    <2>. QED BY <1>1, <2>1, <2>2 DEF Less
  <1>4. r = [tb EXCEPT !.seats = seats, !.hands = hands, !.turns = turns]
    BY <1>1 DEF Unseated, TableState
  <1>5. \A c \in Chairs : seats[c] = IF tb.seats[c] = p THEN Nobody ELSE tb.seats[c]
    OBVIOUS
  <1>. HIDE DEF r, seats, hands, turns
  <1>6. /\ r \in TableState /\ r.phase = tb.phase /\ r.inProgress = tb.inProgress
        /\ r.round = tb.round
        /\ r.table = tb.table /\ r.timeouts = tb.timeouts /\ r.batch = tb.batch
        /\ r.turns = turns /\ r.hands = hands /\ r.seats = seats
    BY <1>1, <1>2, <1>3, <1>4 DEF TableState
  <1>. QED BY <1>5, <1>6 DEF r, hands, turns

\* The order after a departure is the order before it without the one who left,
\* and nobody is on turn who was not, unless it was the leaver's turn.
LEMMA RemovedActors ==
  ASSUME NEW o \in Order(Players), DistinctOrder(o), NEW p \in Players
  PROVE  LET r == RemoveActor(o, p)
         IN  /\ DistinctOrder(r)
             /\ \A x : InOrder(r, x) <=> InOrder(o, x) /\ x # p
             /\ \A x : OnTurn(r, x) /\ ~OnTurn(o, p)
                        /\ (o.actors # <<>> => o.current \in DOMAIN o.actors) => OnTurn(o, x)
  <1>. DEFINE r == RemoveActor(o, p)
              n == Len(o.actors)
              i == PlaceOf(o, p)
              old(j) == IF j < i THEN j ELSE j + 1
  <1>1. o.actors \in Seq(Players) /\ n \in Nat /\ DOMAIN o.actors = 1..n /\ o.current \in Nat
    BY DEF Order
  <1>2. CASE ~InOrder(o, p)
    <2>1. r = o
      BY <1>2 DEF RemoveActor
    <2>. QED BY <1>2, <2>1
  <1>3. CASE InOrder(o, p)
    <2>1. /\ i \in 1..n /\ o.actors[i] = p /\ r \in Order(Players) /\ Len(r.actors) = n - 1
          /\ \A j \in 1..n - 1 : r.actors[j] = o.actors[old(j)]
          /\ r.current = Passed(o.current, i, n - 1)
      <3>1. Less(r, o, i) /\ o.actors[i] = p
        BY <1>3, Removed
      <3>. HIDE DEF r, i
      <3>. QED BY <3>1 DEF Less
    <2>2. DOMAIN r.actors = 1..n - 1
      BY <2>1 DEF Order
    <2>. HIDE DEF r, i, n
    <2>3. /\ \A j \in 1..n - 1 : old(j) \in 1..n /\ old(j) # i
          /\ \A j, k \in 1..n - 1 : old(j) = old(k) => j = k
          /\ \A k \in 1..n : k # i => \E j \in 1..n - 1 : old(j) = k
      <3>1. \A j \in 1..n - 1 : old(j) \in 1..n /\ old(j) # i
        BY <1>1, <2>1
      <3>2. \A j, k \in 1..n - 1 : old(j) = old(k) => j = k
        BY <1>1, <2>1
      <3>3. ASSUME NEW k \in 1..n, k # i PROVE \E j \in 1..n - 1 : old(j) = k
        <4>1. CASE k < i
          <5>1. k \in 1..n - 1 /\ old(k) = k
            BY <1>1, <2>1, <4>1
          <5>. QED BY <5>1
        <4>2. CASE k > i
          <5>1. k - 1 \in 1..n - 1 /\ old(k - 1) = k
            BY <1>1, <2>1, <4>2
          <5>. QED BY <5>1
        <4>. QED BY <1>1, <2>1, <3>3, <4>1, <4>2
      <3>. QED BY <3>1, <3>2, <3>3
    <2>4. \A j, k \in 1..n : o.actors[j] = o.actors[k] => j = k
      BY <1>1 DEF DistinctOrder
    <2>. HIDE DEF old
    <2>5. DistinctOrder(r)
      BY <2>1, <2>2, <2>3, <2>4 DEF DistinctOrder
    <2>6. \A x : InOrder(r, x) <=> InOrder(o, x) /\ x # p
      <3>1. ASSUME NEW x, InOrder(r, x) PROVE InOrder(o, x) /\ x # p
        <4>1. PICK j \in 1..n - 1 : r.actors[j] = x
          BY <2>2, <3>1 DEF InOrder
        <4>2. old(j) \in 1..n /\ old(j) # i /\ o.actors[old(j)] = x
          BY <2>1, <2>3, <4>1
        <4>. QED BY <1>1, <2>1, <2>4, <4>2 DEF InOrder
      <3>2. ASSUME NEW x, InOrder(o, x), x # p PROVE InOrder(r, x)
        <4>1. PICK k \in 1..n : o.actors[k] = x
          BY <1>1, <3>2 DEF InOrder
        <4>2. k # i
          BY <2>1, <3>2, <4>1
        <4>3. PICK j \in 1..n - 1 : old(j) = k
          BY <2>3, <4>2
        <4>. QED BY <2>1, <2>2, <4>1, <4>3 DEF InOrder
      <3>. QED BY <3>1, <3>2
    <2>7. ASSUME NEW x, OnTurn(r, x), ~OnTurn(o, p), o.actors # <<>> => o.current \in DOMAIN o.actors
          PROVE  OnTurn(o, x)
      <3>1. o.current \in 1..n /\ o.current # i
        BY <1>1, <2>1, <2>7 DEF OnTurn, n
      <3>2. r.current \in 1..n - 1 /\ r.actors[r.current] = x
        BY <2>2, <2>7 DEF OnTurn
      <3>3. old(r.current) = o.current
        BY <1>1, <2>1, <3>1, <3>2 DEF Passed, old, NoTurn
      <3>. QED BY <1>1, <2>1, <3>1, <3>2, <3>3 DEF OnTurn
    <2>. QED BY <2>5, <2>6, <2>7 DEF r
  <1>. QED BY <1>2, <1>3

LEMMA UnseatedLap ==
  ASSUME NEW tb, Good(tb), NEW p \in Players, tb.phase = "Playing", InOrder(tb.turns, p)
  PROVE  Lap(Unseated(tb, p))
  <1>. DEFINE r == Unseated(tb, p)
              n == Len(tb.turns.actors)
              i == PlaceOf(tb.turns, p)
              current == tb.turns.current
              old(j) == IF j < i THEN j ELSE j + 1
  <1>. SUFFICES Lap(r)
    OBVIOUS
  <1>1. /\ tb.turns \in Order(Players) /\ tb.turns.actors \in Seq(Players)
        /\ DOMAIN tb.turns.actors = 1..n /\ Len(tb.table) \in Nat
        /\ tb.hands \in [Players -> 0..HandSize]
    BY Fields DEF Good, Sound
  <1>2. /\ r.turns = RemoveActor(tb.turns, p) /\ r.table = tb.table
        /\ r.hands = [tb.hands EXCEPT ![p] = 0]
    BY UnseatedFields
  <1>3. /\ n \in Nat /\ i \in 1..n /\ tb.turns.actors[i] = p /\ Len(r.turns.actors) = n - 1
        /\ \A j \in 1..n - 1 : r.turns.actors[j] = tb.turns.actors[old(j)]
        /\ r.turns.current = Passed(current, i, n - 1)
    <2>1. Less(r.turns, tb.turns, i) /\ tb.turns.actors[i] = p
      BY <1>1, <1>2, Removed
    <2>. HIDE DEF r, i
    <2>. QED BY <2>1 DEF Less
  <1>4. Lap(tb)
    BY DEF Good, Hands
  <1>. HIDE DEF r, i
  <1>5. current \in 1..n
    BY <1>3, <1>4 DEF Lap
  <1>6. \A j \in 1..n - 1 : old(j) \in 1..n /\ Hand(r, j) = Hand(tb, old(j))
    <2>. SUFFICES ASSUME NEW j \in 1..n - 1
                  PROVE  old(j) \in 1..n /\ Hand(r, j) = Hand(tb, old(j))
      OBVIOUS
    <2>1. old(j) \in 1..n /\ old(j) # i
      BY <1>3
    <2>2. r.turns.actors[j] = tb.turns.actors[old(j)]
      BY <1>3
    <2>. HIDE DEF old
    <2>3. \A k \in 1..n : tb.turns.actors[k] \in Players /\ (k # i => tb.turns.actors[k] # p)
      <3>1. \A k \in 1..n : tb.turns.actors[k] \in Players
        BY <1>1
      <3>2. \A k \in 1..n : tb.turns.actors[k] = tb.turns.actors[i] => k = i
        <4>. HIDE DEF n
        <4>. QED BY <1>1, <1>3, Zenon DEF Good, Sound, OrderOK, DistinctOrder
      <3>. QED BY <1>3, <3>1, <3>2
    <2>. QED BY <1>1, <1>2, <2>1, <2>2, <2>3 DEF Hand
  <1>7. ASSUME n - 1 # 0 PROVE r.turns.current \in 1..n - 1
    <2>. HIDE DEF n, current
    <2>. QED BY <1>3, <1>5, <1>7 DEF Passed, NoTurn
  <1>8. CASE /\ Len(tb.table) >= n
             /\ \A j \in 1..n : Hand(tb, j) >= 1
    <2>1. \A j \in 1..n - 1 : Hand(r, j) >= 1
      <3>. HIDE DEF old
      <3>. QED BY <1>6, <1>8
    <2>2. Len(r.table) >= n - 1
      BY <1>1, <1>2, <1>3, <1>8
    <2>. HIDE DEF n, current
    <2>. QED BY <1>3, <1>7, <2>1, <2>2 DEF Lap
  <1>9. CASE /\ Len(tb.table) >= current - 1
             /\ \A j \in 1..n : Hand(tb, j) = IF j < current THEN HandSize - 1 ELSE HandSize
    <2>1. \A j \in 1..n - 1 : Hand(r, j) = IF old(j) < current THEN HandSize - 1 ELSE HandSize
      <3>. HIDE DEF old
      <3>. QED BY <1>6, <1>9
    <2>2. CASE i = current /\ current > n - 1
      <3>1. \A j \in 1..n - 1 : old(j) < current
        BY <1>3, <1>5, <2>2
      <3>2. \A j \in 1..n - 1 : Hand(r, j) = HandSize - 1
        <4>. HIDE DEF old
        <4>. QED BY <2>1, <3>1
      <3>3. \A j \in 1..n - 1 : Hand(r, j) >= 1
        BY <3>2, Numbers
      <3>4. Len(r.table) >= n - 1
        BY <1>1, <1>2, <1>3, <1>5, <1>9, <2>2
      <3>. HIDE DEF n, current
      <3>. QED BY <1>3, <1>7, <3>3, <3>4 DEF Lap
    <2>3. CASE ~(i = current /\ current > n - 1)
      <3>. DEFINE now == r.turns.current
      <3>1. ASSUME n - 1 # 0
            PROVE  /\ Len(r.table) >= now - 1
                   /\ \A j \in 1..n - 1 : j < now <=> old(j) < current
        <4>1. now = IF i < current THEN current - 1 ELSE current
          BY <1>3, <1>5, <2>3, <3>1 DEF Passed
        <4>. HIDE DEF now
        <4>2. Len(r.table) >= now - 1
          BY <1>1, <1>2, <1>3, <1>5, <1>9, <4>1
        <4>3. \A j \in 1..n - 1 : j < now <=> old(j) < current
          BY <1>3, <1>5, <2>3, <4>1
        <4>. QED BY <4>2, <4>3
      <3>2. ASSUME n - 1 # 0
            PROVE  \A j \in 1..n - 1 : Hand(r, j) = IF j < now THEN HandSize - 1 ELSE HandSize
        <4>. HIDE DEF old, now, n
        <4>. QED BY <2>1, <3>1, <3>2
      <3>. HIDE DEF n, current, old
      <3>. QED BY <1>3, <1>7, <3>1, <3>2 DEF Lap
    <2>. QED BY <2>2, <2>3
  <1>10. n # 0
    BY <1>3
  <1>. QED BY <1>4, <1>8, <1>9, <1>10 DEF Lap

LEMMA UnseatedGood ==
  ASSUME NEW tb, Good(tb), NEW p \in Players
  PROVE  LET r == Unseated(tb, p)
         IN  /\ Good(r)
             /\ tb.phase = "Playing" /\ ~OnTurn(tb.turns, p)
                   => \A x : OnTurn(r.turns, x) => OnTurn(tb.turns, x)
  <1>. DEFINE r == Unseated(tb, p)
  <1>1. /\ r \in TableState /\ r.phase = tb.phase /\ r.inProgress = tb.inProgress
        /\ r.timeouts = tb.timeouts /\ r.turns = RemoveActor(tb.turns, p)
        /\ r.hands = [tb.hands EXCEPT ![p] = 0]
        /\ \A c \in Chairs : r.seats[c] = IF tb.seats[c] = p THEN Nobody ELSE tb.seats[c]
    BY UnseatedFields
  <1>. HIDE DEF r
  <1>2. /\ tb.turns \in Order(Players) /\ tb.turns.actors \in Seq(Players)
        /\ DistinctOrder(tb.turns) /\ tb.hands \in [Players -> 0..HandSize]
    BY Fields DEF Good, Sound, OrderOK
  <1>3. /\ DistinctOrder(r.turns)
        /\ \A x : InOrder(r.turns, x) <=> InOrder(tb.turns, x) /\ x # p
        /\ \A x : OnTurn(r.turns, x) /\ ~OnTurn(tb.turns, p)
                   /\ (tb.turns.actors # <<>> => tb.turns.current \in DOMAIN tb.turns.actors)
                     => OnTurn(tb.turns, x)
    BY <1>1, <1>2, RemovedActors
  <1>4. /\ \A x : x \in ActorsOf(r) <=> InOrder(r.turns, x)
        /\ \A x : x \in ActorsOf(tb) <=> InOrder(tb.turns, x)
    BY DEF ActorsOf, InOrder
  <1>5. Sound(r)
    <2>1. SeatsOK(r)
      BY <1>1 DEF Good, Sound, SeatsOK
    <2>2. \A x \in Seated(tb) : x # p => x \in Seated(r)
      BY <1>1 DEF Seated
    <2>3. ActorsOf(r) \subseteq Seated(r)
      BY <1>3, <1>4, <2>2 DEF Good, Sound, OrderOK
    <2>4. DelaysOK(r)
      BY <1>1 DEF Good, Sound, DelaysOK
    <2>. QED BY <1>1, <1>3, <2>1, <2>3, <2>4 DEF Sound, OrderOK
  <1>6. ASSUME tb.phase = "Playing"
        PROVE  (\A x \in Players \ ActorsOf(r) : r.hands[x] = 0) /\ Lap(r)
    <2>1. \A x \in Players \ ActorsOf(r) : r.hands[x] = 0
      BY <1>1, <1>2, <1>3, <1>4, <1>6 DEF Good, Hands
    <2>2. CASE InOrder(tb.turns, p)
      BY <1>6, <2>1, <2>2, UnseatedLap DEF r
    <2>3. CASE ~InOrder(tb.turns, p)
      <3>1. r.turns = tb.turns /\ r.table = tb.table /\ Lap(tb)
        BY <1>1, <1>6, <2>3, UnseatedFields DEF RemoveActor, Good, Hands, r
      <3>2. \A j \in 1..Len(tb.turns.actors) : Hand(r, j) = Hand(tb, j)
        <4>. SUFFICES ASSUME NEW j \in 1..Len(tb.turns.actors) PROVE Hand(r, j) = Hand(tb, j)
          OBVIOUS
        <4>1. tb.turns.actors[j] \in Players /\ tb.turns.actors[j] # p
          BY <1>2, <2>3 DEF InOrder
        <4>. QED BY <1>1, <1>2, <3>1, <4>1 DEF Hand
      <3>3. Lap(r)
        BY <3>1, <3>2 DEF Lap
      <3>. QED BY <2>1, <3>3
    <2>. QED BY <2>2, <2>3
  <1>7. Good(r)
    BY <1>1, <1>5, <1>6 DEF Good, Flag, Hands
  <1>8. ASSUME tb.phase = "Playing", tb.turns.actors # <<>>
        PROVE  tb.turns.current \in DOMAIN tb.turns.actors
    <2>1. Len(tb.turns.actors) # 0 /\ DOMAIN tb.turns.actors = 1..Len(tb.turns.actors)
      BY <1>2, <1>8
    <2>. QED BY <1>8, <2>1 DEF Good, Hands, Lap
  <1>9. tb.phase = "Playing" /\ ~OnTurn(tb.turns, p)
          => \A x : OnTurn(r.turns, x) => OnTurn(tb.turns, x)
    BY <1>3, <1>8
  <1>. QED BY <1>7, <1>9 DEF r

-----------------------------------------------------------------------------
(* The steps.                                                              *)

LEMMA GoodFrom ==
  ASSUME NEW tb, NEW r, Good(tb), Sound(r), r.phase = tb.phase,
         r.turns = tb.turns, r.inProgress = tb.inProgress, r.hands = tb.hands, r.table = tb.table
  PROVE  Good(r)
  BY DEF Good, Flag, Hands, Lap, Hand, ActorsOf

\* Whoever is in the order of a round has a card left.
LEMMA ActorsHold ==
  ASSUME NEW tb, Good(tb), tb.phase = "Playing", NEW i \in DOMAIN tb.turns.actors
  PROVE  Hand(tb, i) >= 1
  <1>. DEFINE n == Len(tb.turns.actors)
  <1>1. i \in 1..n /\ n \in Nat /\ Lap(tb)
    BY Fields DEF Good, Sound, Hands
  <1>. HIDE DEF n
  <1>2. \/ \A j \in 1..n : Hand(tb, j) = IF j < tb.turns.current THEN HandSize - 1 ELSE HandSize
        \/ \A j \in 1..n : Hand(tb, j) >= 1
    BY <1>1 DEF Lap, n
  <1>. QED BY <1>1, <1>2, Numbers

LEMMA OnTurnHolds ==
  ASSUME NEW tb, Good(tb), tb.phase = "Playing", NEW p \in Players, OnTurn(tb.turns, p)
  PROVE  tb.hands[p] > 0
  <1>1. Hand(tb, tb.turns.current) >= 1
    BY ActorsHold DEF OnTurn
  <1>2. Hand(tb, tb.turns.current) = tb.hands[p]
    BY DEF Hand, OnTurn
  <1>3. tb.hands[p] \in Nat
    BY Fields DEF Good, Sound
  <1>. QED BY <1>1, <1>2, <1>3

LEMMA GoodInit == Init => Good(t) /\ Clock(t)
  <1>. SUFFICES ASSUME Init PROVE Good(t) /\ Clock(t)
    OBVIOUS
  <1>1. /\ t.phase = "Dealing" /\ t.turns = EmptyOrder /\ ~t.inProgress /\ t.timeouts = <<>>
        /\ t.seats = [c \in Chairs |-> Nobody]
    BY DEF Init
  <1>2. t \in TableState
    <2>1. EmptyOrder \in Order(Players)
      BY DEF EmptyOrder, Order, NoTurn
    <2>2. [p \in Players |-> 0] \in [Players -> 0..HandSize] /\ 0 \in 0..Rounds
      BY Numbers
    <2>. QED BY <2>1, <2>2 DEF Init, TableState
  <1>3. Sound(t)
    BY <1>1, <1>2 DEF Sound, SeatsOK, OrderOK, DistinctOrder, ActorsOf, DelaysOK, EmptyOrder
  <1>. QED BY <1>1, <1>3 DEF Good, Flag, Hands, Clock

\* The table with p in its first open chair.
WithSeated(tb, p) ==
  [tb EXCEPT !.seats[FirstOpen(tb)] = p,
             !.turns = IF tb.inProgress THEN @ ELSE AddActor(@, p)]

LEMMA SeatedShape ==
  ASSUME Good(t), NEW p \in Players, SeatPlayer(p)
  PROVE  LET seated == WithSeated(t, p)
         IN  /\ Sound(seated) /\ seated.phase = t.phase /\ seated.inProgress = t.inProgress
             /\ seated.round = t.round /\ seated.hands = t.hands /\ seated.table = t.table
             /\ seated.timeouts = t.timeouts /\ seated.batch = t.batch
             /\ t.inProgress => seated.turns = t.turns
             /\ t' = IF Full(seated) /\ ~t.inProgress THEN StartMatch(seated) ELSE seated
  <1>. DEFINE c == FirstOpen(t)
              turns == IF t.inProgress THEN t.turns ELSE AddActor(t.turns, p)
              seated == WithSeated(t, p)
  <1>1. /\ t \in TableState /\ t.turns \in Order(Players) /\ t.turns.actors \in Seq(Players)
        /\ t.seats \in [Chairs -> Players \cup {Nobody}]
    BY Fields DEF Good, Sound
  <1>2. p \notin Seated(t) /\ ~Full(t) /\ p # Nobody
    BY Numbers DEF SeatPlayer
  <1>4. c \in Chairs /\ t.seats[c] = Nobody
    <2>. DEFINE I == {d \in Chairs : t.seats[d] = Nobody}
    <2>1. I \in SUBSET Nat /\ I # {}
      BY <1>2 DEF Full, Chairs
    <2>2. PICK d \in I : \A e \in I : d <= e
      BY <2>1, LeastExists
    <2>3. \A e \in 1..d - 1 : t.seats[e] # Nobody
      BY <2>2, Numbers DEF Chairs
    <2>. QED BY <2>2, <2>3 DEF FirstOpen
  <1>5. turns \in Order(Players)
    <2>1. Append(t.turns.actors, p) \in Seq(Players)
      BY <1>1
    <2>2. AddActor(t.turns, p) \in Order(Players)
      BY <1>1, <2>1 DEF AddActor, Order
    <2>. QED BY <1>1, <2>2
  <1>6. seated = [t EXCEPT !.seats = [t.seats EXCEPT ![c] = p], !.turns = turns]
    BY <1>1 DEF TableState, WithSeated
  <1>7. [t.seats EXCEPT ![c] = p] \in [Chairs -> Players \cup {Nobody}]
    BY <1>1
  <1>. HIDE DEF c, turns, seated
  <1>8. /\ seated \in TableState /\ seated.phase = t.phase /\ seated.inProgress = t.inProgress
        /\ seated.hands = t.hands /\ seated.table = t.table /\ seated.timeouts = t.timeouts
        /\ seated.batch = t.batch /\ seated.round = t.round /\ seated.turns = turns
        /\ seated.seats = [t.seats EXCEPT ![c] = p]
    BY <1>1, <1>5, <1>6, <1>7 DEF TableState
  <1>9. /\ \A d \in Chairs : seated.seats[d] = IF d = c THEN p ELSE t.seats[d]
        /\ \A d \in Chairs : t.seats[d] # p
    BY <1>1, <1>2, <1>8 DEF Seated
  <1>10. Seated(t) \cup {p} \subseteq Seated(seated)
    BY <1>2, <1>4, <1>9 DEF Seated
  <1>11. OrderOK(seated)
    <2>1. OrderOK(t)
      BY DEF Good, Sound
    <2>2. CASE t.inProgress
      BY <1>8, <1>10, <2>1, <2>2 DEF OrderOK, ActorsOf, turns
    <2>3. CASE ~t.inProgress
      <3>. DEFINE a == t.turns.actors
      <3>1. turns.actors = Append(a, p)
        BY <1>1, <2>3 DEF turns, AddActor, Order
      <3>2. /\ DOMAIN a = 1..Len(a) /\ Len(a) \in Nat
            /\ DOMAIN turns.actors = 1..Len(a) + 1 /\ turns.actors[Len(a) + 1] = p
            /\ \A i \in 1..Len(a) : turns.actors[i] = a[i]
        BY <1>1, <3>1
      <3>3. \A i \in 1..Len(a) : a[i] \in Seated(t) /\ a[i] # p
        BY <1>2, <2>1, <3>2 DEF OrderOK, ActorsOf
      <3>4. \A i, j \in 1..Len(a) : a[i] = a[j] => i = j
        BY <2>1, <3>2 DEF OrderOK, DistinctOrder
      <3>5. \A i \in DOMAIN turns.actors : i \in 1..Len(a) \/ i = Len(a) + 1
        BY <3>2
      <3>. HIDE DEF a
      <3>6. DistinctOrder(turns)
        BY <3>2, <3>3, <3>4, <3>5 DEF DistinctOrder
      <3>7. \A i \in DOMAIN turns.actors : turns.actors[i] \in Seated(seated)
        BY <1>10, <3>2, <3>3, <3>5
      <3>. QED BY <1>8, <3>6, <3>7 DEF OrderOK, ActorsOf
    <2>. QED BY <2>2, <2>3
  <1>12. Sound(seated)
    <2>1. SeatsOK(seated)
      BY <1>4, <1>9 DEF Good, Sound, SeatsOK
    <2>2. DelaysOK(seated)
      BY <1>8 DEF Good, Sound, DelaysOK
    <2>. QED BY <1>8, <1>11, <2>1, <2>2 DEF Sound
  <1>13. t.inProgress => seated.turns = t.turns
    BY <1>8 DEF turns
  <1>14. t' = IF Full(WithSeated(t, p)) /\ ~t.inProgress THEN StartMatch(WithSeated(t, p)) ELSE WithSeated(t, p)
    BY DEF SeatPlayer, WithSeated
  <1>. QED BY <1>8, <1>12, <1>13, <1>14 DEF seated

LEMMA SeatStep ==
  ASSUME Good(t), Clock(t), NEW p \in Players, SeatPlayer(p)
  PROVE  Good(t') /\ Clock(t')
  <1>. DEFINE seated == WithSeated(t, p)
  <1>1. /\ Sound(seated) /\ seated.phase = t.phase /\ seated.inProgress = t.inProgress
        /\ seated.hands = t.hands /\ seated.table = t.table
        /\ seated.timeouts = t.timeouts /\ seated.batch = t.batch
        /\ t.inProgress => seated.turns = t.turns
        /\ t' = IF Full(seated) /\ ~t.inProgress THEN StartMatch(seated) ELSE seated
    BY SeatedShape
  <1>. HIDE DEF seated
  <1>2. CASE Full(seated) /\ ~t.inProgress
    BY <1>1, <1>2, StartMatchGood
  <1>3. CASE ~(Full(seated) /\ ~t.inProgress)
    <2>1. t' = seated
      BY <1>1, <1>3
    <2>2. CASE t.inProgress
      <3>1. seated.turns = t.turns
        BY <1>1, <2>2
      <3>2. Good(seated)
        BY <1>1, <3>1, GoodFrom
      <3>3. Clock(seated)
        BY <1>1, <3>1 DEF Clock
      <3>. QED BY <2>1, <3>2, <3>3
    <2>3. CASE ~t.inProgress
      <3>1. seated.phase # "Playing" /\ ~seated.inProgress
        BY <1>1, <2>3 DEF Good, Flag
      <3>2. Good(seated) /\ Clock(seated)
        BY <1>1, <3>1 DEF Good, Flag, Hands, Clock
      <3>. QED BY <2>1, <3>2
    <2>. QED BY <2>2, <2>3
  <1>. QED BY <1>2, <1>3

LEMMA UnseatStep ==
  ASSUME Good(t), Clock(t), NEW p \in Players, UnseatPlayer(p)
  PROVE  Good(t') /\ Clock(t')
  <1>. DEFINE u == Unseated(t, p)
              r == ArmTurnTimeout(u)
  <1>1. /\ Good(u) /\ u.phase = t.phase /\ u.timeouts = t.timeouts /\ u.batch = t.batch
        /\ t.phase = "Playing" /\ ~OnTurn(t.turns, p)
              => \A x : OnTurn(u.turns, x) => OnTurn(t.turns, x)
    BY UnseatedGood, UnseatedFields
  <1>2. t' = IF OnTurn(t.turns, p) /\ t.phase = "Playing" THEN r ELSE u
    BY DEF UnseatPlayer
  <1>. HIDE DEF u
  <1>3. CASE OnTurn(t.turns, p) /\ t.phase = "Playing"
    <2>1. Sound(r) /\ r.phase = u.phase /\ SameBoard(r, u) /\ Armed(r)
      BY <1>1, ArmSound DEF Good
    <2>. HIDE DEF r
    <2>2. Good(r) /\ Clock(r)
      BY <1>1, <2>1, GoodFrom DEF SameBoard, Clock, Armed
    <2>. QED BY <1>2, <1>3, <2>2
  <1>4. CASE ~(OnTurn(t.turns, p) /\ t.phase = "Playing")
    <2>1. Clock(u)
      BY <1>1, <1>4 DEF Clock
    <2>. QED BY <1>1, <1>2, <1>4, <2>1
  <1>. QED BY <1>3, <1>4

LEMMA AgedShape ==
  ASSUME NEW q \in Seq(Event), \A i \in DOMAIN q : q[i].left # 0
  PROVE  /\ Aged(q) \in Seq(Event) /\ DOMAIN Aged(q) = DOMAIN q
         /\ \A i \in DOMAIN q : Aged(q)[i].left = q[i].left - 1 /\ Aged(q)[i].who = q[i].who
  <1>1. Len(q) \in Nat /\ DOMAIN q = 1..Len(q) /\ \A i \in 1..Len(q) : q[i] \in Event
    OBVIOUS
  <1>2. \A i \in 1..Len(q) : /\ [q[i] EXCEPT !.left = @ - 1] \in Event
                              /\ [q[i] EXCEPT !.left = @ - 1].left = q[i].left - 1
                              /\ [q[i] EXCEPT !.left = @ - 1].who = q[i].who
    <2>. SUFFICES ASSUME NEW e \in Event, e.left # 0
                  PROVE  /\ [e EXCEPT !.left = @ - 1] \in Event
                         /\ [e EXCEPT !.left = @ - 1].left = e.left - 1
                         /\ [e EXCEPT !.left = @ - 1].who = e.who
      BY <1>1
    <2>. QED BY DEF Event
  <1>3. Aged(q) \in [1..Len(q) -> Event]
    BY <1>1, <1>2 DEF Aged
  <1>4. Aged(q) \in Seq(Event) /\ DOMAIN Aged(q) = DOMAIN q
    BY <1>1, <1>3, SeqDef
  <1>5. \A i \in DOMAIN q : Aged(q)[i].left = q[i].left - 1 /\ Aged(q)[i].who = q[i].who
    BY <1>1, <1>2 DEF Aged
  <1>. QED BY <1>4, <1>5

\* A tick splits the timeouts into those that are due and those that are not.
LEMMA TickShape ==
  ASSUME Good(t), Tick
  PROVE  /\ Sound(t') /\ t'.phase = t.phase /\ t'.round = t.round /\ t'.turns = t.turns
         /\ t'.inProgress = t.inProgress /\ t'.seats = t.seats /\ t'.hands = t.hands
         /\ t'.table = t.table /\ t.batch = <<>>
         /\ \A i \in DOMAIN t.timeouts :
              \/ \E k \in DOMAIN t'.timeouts : t'.timeouts[k].who = t.timeouts[i].who
              \/ \E k \in DOMAIN t'.batch : t'.batch[k].who = t.timeouts[i].who
         /\ \A k \in DOMAIN t'.timeouts : \E i \in DOMAIN t.timeouts : t'.timeouts[k].who = t.timeouts[i].who
         /\ \A k \in DOMAIN t'.batch : \E i \in DOMAIN t.timeouts : t'.batch[k].who = t.timeouts[i].who
         /\ t.timeouts = <<>> => t'.timeouts = <<>> /\ t'.batch = <<>>
         /\ Len(t.timeouts) = 1 =>
              \/ Len(t'.timeouts) = 1 /\ t'.batch = <<>>
              \/ t'.timeouts = <<>> /\ Len(t'.batch) = 1
  <1>. DEFINE q == t.timeouts
              due == {i \in DOMAIN q : q[i].left = 1}
              later == Picked(q, DOMAIN q \ due)
              now == Picked(q, due)
  <1>1. /\ t \in TableState /\ q \in Seq(Event) /\ Len(q) \in Nat /\ DOMAIN q = 1..Len(q)
        /\ \A i \in DOMAIN q : q[i] \in Event /\ q[i].left # 0
    BY Fields DEF Good, Sound, DelaysOK
  <1>2. due \in SUBSET (1..Len(q)) /\ DOMAIN q \ due \in SUBSET (1..Len(q))
    BY <1>1
  <1>3. t' = [t EXCEPT !.timeouts = Aged(later), !.batch = Aged(now)] /\ t.batch = <<>>
    BY <1>1 DEF Tick, Between, TableState
  <1>4. \A i \in DOMAIN q \ due : q[i].left # 0 /\ q[i].left # 1
    BY <1>1
  <1>5. \A i \in due : i \in DOMAIN q /\ q[i].left # 0
    BY <1>1
  <1>. HIDE DEF due
  <1>6. later \in Seq(Event) /\ Lists(later, q, DOMAIN q \ due)
    BY <1>1, <1>2, PickedShape
  <1>7. now \in Seq(Event) /\ Lists(now, q, due)
    BY <1>1, <1>2, PickedShape
  <1>. HIDE DEF later, now, q
  <1>8. PICK f \in [1..Len(later) -> DOMAIN q \ due] :
          /\ \A k \in 1..Len(later) : later[k] = q[f[k]]
          /\ \A i \in DOMAIN q \ due : \E k \in 1..Len(later) : f[k] = i
          /\ \A k, l \in 1..Len(later) : f[k] = f[l] => k = l
    BY <1>6 DEF Lists
  <1>9. PICK g \in [1..Len(now) -> due] :
          /\ \A k \in 1..Len(now) : now[k] = q[g[k]]
          /\ \A i \in due : \E k \in 1..Len(now) : g[k] = i
          /\ \A k, l \in 1..Len(now) : g[k] = g[l] => k = l
    BY <1>7 DEF Lists
  <1>10. /\ DOMAIN later = 1..Len(later) /\ DOMAIN now = 1..Len(now)
         /\ \A k \in DOMAIN later : later[k] \in Event /\ later[k].left # 0 /\ later[k].left # 1
         /\ \A k \in DOMAIN now : now[k].left # 0
    <2>1. DOMAIN later = 1..Len(later) /\ DOMAIN now = 1..Len(now)
      BY <1>6, <1>7
    <2>2. \A k \in DOMAIN later : later[k] \in Event
      BY <1>6
    <2>. QED BY <1>4, <1>5, <1>8, <1>9, <2>1, <2>2
  <1>11. /\ Aged(later) \in Seq(Event) /\ DOMAIN Aged(later) = DOMAIN later
         /\ \A k \in DOMAIN later : Aged(later)[k].left # 0 /\ Aged(later)[k].who = later[k].who
    <2>1. /\ Aged(later) \in Seq(Event) /\ DOMAIN Aged(later) = DOMAIN later
          /\ \A k \in DOMAIN later : Aged(later)[k].left = later[k].left - 1
                                     /\ Aged(later)[k].who = later[k].who
      BY <1>6, <1>10, AgedShape
    <2>2. \A k \in DOMAIN later : later[k].left - 1 # 0
      <3>. SUFFICES ASSUME NEW k \in DOMAIN later PROVE later[k].left - 1 # 0
        OBVIOUS
      <3>1. later[k].left \in Nat /\ later[k].left # 1
        BY <1>10 DEF Event
      <3>. QED BY <3>1
    <2>. QED BY <2>1, <2>2
  <1>12. /\ Aged(now) \in Seq(Event) /\ DOMAIN Aged(now) = DOMAIN now
         /\ \A k \in DOMAIN now : Aged(now)[k].who = now[k].who
    BY <1>7, <1>10, AgedShape
  <1>13. /\ t' \in TableState /\ t'.timeouts = Aged(later) /\ t'.batch = Aged(now)
         /\ t'.phase = t.phase /\ t'.round = t.round /\ t'.turns = t.turns /\ t'.inProgress = t.inProgress
         /\ t'.seats = t.seats /\ t'.hands = t.hands /\ t'.table = t.table
    BY <1>1, <1>3, <1>11, <1>12 DEF TableState
  <1>14. Sound(t')
    <2>1. DelaysOK(t')
      BY <1>11, <1>13 DEF DelaysOK
    <2>. QED BY <1>13, <2>1, SoundFrom DEF Good
  <1>15. ASSUME NEW i \in DOMAIN q
         PROVE  \/ \E k \in DOMAIN t'.timeouts : t'.timeouts[k].who = q[i].who
                \/ \E k \in DOMAIN t'.batch : t'.batch[k].who = q[i].who
    <2>1. CASE i \in due
      <3>1. PICK k \in 1..Len(now) : g[k] = i
        BY <1>9, <2>1
      <3>2. now[k].who = q[i].who /\ k \in DOMAIN now
        BY <1>9, <1>10, <3>1
      <3>3. k \in DOMAIN t'.batch /\ t'.batch[k].who = q[i].who
        BY <1>12, <1>13, <3>2
      <3>. QED BY <3>3
    <2>2. CASE i \notin due
      <3>1. PICK k \in 1..Len(later) : f[k] = i
        BY <1>8, <1>15, <2>2
      <3>2. later[k].who = q[i].who /\ k \in DOMAIN later
        BY <1>8, <1>10, <3>1
      <3>3. k \in DOMAIN t'.timeouts /\ t'.timeouts[k].who = q[i].who
        BY <1>11, <1>13, <3>2
      <3>. QED BY <3>3
    <2>. QED BY <2>1, <2>2
  <1>16. /\ \A k \in DOMAIN t'.timeouts : f[k] \in DOMAIN q /\ t'.timeouts[k].who = q[f[k]].who
         /\ \A k \in DOMAIN t'.batch : g[k] \in DOMAIN q /\ t'.batch[k].who = q[g[k]].who
    <2>1. \A k \in DOMAIN later : f[k] \in DOMAIN q /\ later[k] = q[f[k]]
      BY <1>8, <1>10
    <2>2. \A k \in DOMAIN now : g[k] \in DOMAIN q /\ now[k] = q[g[k]]
      BY <1>5, <1>9, <1>10
    <2>. QED BY <1>11, <1>12, <1>13, <2>1, <2>2
  <1>17. /\ Len(t'.timeouts) = Len(later) /\ Len(t'.batch) = Len(now)
         /\ Len(later) \in Nat /\ Len(now) \in Nat
         /\ Len(t'.timeouts) = 0 => t'.timeouts = <<>>
         /\ Len(t'.batch) = 0 => t'.batch = <<>>
    BY <1>6, <1>7, <1>11, <1>12, <1>13, LenProperties, EmptySeq
  <1>18. DOMAIN q = {} => Len(later) = 0 /\ Len(now) = 0
    <2>1. DOMAIN q = {} => (\A k \in 1..Len(later) : FALSE) /\ (\A k \in 1..Len(now) : FALSE)
      BY <1>5, <1>8, <1>9
    <2>. QED BY <1>17, <2>1
  <1>19. ASSUME DOMAIN q = {1}
         PROVE  \/ Len(later) = 1 /\ Len(now) = 0
                \/ Len(later) = 0 /\ Len(now) = 1
    <2>0. /\ \A m \in Nat : (\A k \in 1..m : FALSE) => m = 0
          /\ \A m \in Nat : (\E k \in 1..m : TRUE) /\ (\A k, l \in 1..m : k = l) => m = 1
      <3>1. ASSUME NEW m \in Nat, \A k \in 1..m : FALSE PROVE m = 0
        <4>1. m # 0 => 1 \in 1..m
          OBVIOUS
        <4>. QED BY <3>1, <4>1
      <3>2. ASSUME NEW m \in Nat, \E k \in 1..m : TRUE, \A k, l \in 1..m : k = l PROVE m = 1
        <4>1. 1 \in 1..m /\ m \in 1..m
          BY <3>2
        <4>. QED BY <3>2, <4>1
      <3>. QED BY <3>1, <3>2
    <2>1. CASE 1 \in due
      <3>1. \A k \in 1..Len(later) : FALSE
        BY <1>8, <1>19, <2>1
      <3>2. (\E k \in 1..Len(now) : TRUE) /\ \A k, l \in 1..Len(now) : k = l
        BY <1>5, <1>9, <1>19, <2>1
      <3>3. Len(later) = 0
        BY <1>17, <2>0, <3>1
      <3>4. Len(now) = 1
        BY <1>17, <2>0, <3>2
      <3>. QED BY <3>3, <3>4
    <2>2. CASE 1 \notin due
      <3>1. \A k \in 1..Len(now) : FALSE
        BY <1>5, <1>9, <1>19, <2>2
      <3>2. (\E k \in 1..Len(later) : TRUE) /\ \A k, l \in 1..Len(later) : k = l
        BY <1>8, <1>19, <2>2
      <3>3. Len(now) = 0
        BY <1>17, <2>0, <3>1
      <3>4. Len(later) = 1
        BY <1>17, <2>0, <3>2
      <3>. QED BY <3>3, <3>4
    <2>. QED BY <2>1, <2>2
  <1>20. (t.timeouts = <<>> => DOMAIN q = {}) /\ (Len(t.timeouts) = 1 => DOMAIN q = {1})
    BY <1>1 DEF q
  <1>. QED BY <1>3, <1>13, <1>14, <1>15, <1>16, <1>17, <1>18, <1>19, <1>20 DEF q

LEMMA TickStep ==
  ASSUME Good(t), Clock(t), Tick
  PROVE  Good(t') /\ Clock(t')
  <1>1. Good(t')
    BY TickShape, GoodFrom
  <1>2. ASSUME t.phase = "Playing", NEW p \in Players, OnTurn(t.turns, p)
        PROVE  \/ \E k \in DOMAIN t'.timeouts : t'.timeouts[k].who = p
               \/ \E k \in DOMAIN t'.batch : t'.batch[k].who = p
    <2>1. PICK i \in DOMAIN t.timeouts : t.timeouts[i].who = p
      BY <1>2, TickShape DEF Clock
    <2>. QED BY <2>1, TickShape
  <1>. QED BY <1>1, <1>2, TickShape DEF Clock

\* The table while the last of the batch is handled.
Handling == [t EXCEPT !.batch = Front(@)]

LEMMA FireShape ==
  ASSUME Good(t), Fire
  PROVE  LET n == Len(t.batch)
             e == Last(t.batch)
             rest == Handling
         IN  /\ t.batch \in Seq(Event) /\ n \in Nat /\ DOMAIN t.batch = 1..n
             /\ n >= 1 /\ e = t.batch[n] /\ e \in Event
             /\ t' = IF e.who = Nobody THEN NewMatch(rest) ELSE AutoPlay(rest, e.who)
             /\ Good(rest) /\ rest.batch = Front(t.batch) /\ rest.timeouts = t.timeouts
             /\ rest.phase = t.phase /\ rest.turns = t.turns /\ rest.inProgress = t.inProgress
             /\ rest.round = t.round /\ rest.seats = t.seats /\ rest.hands = t.hands
             /\ rest.table = t.table
             /\ DOMAIN rest.batch = 1..n - 1 /\ Len(rest.batch) = n - 1
             /\ \A i \in 1..n - 1 : rest.batch[i] = t.batch[i]
  <1>. DEFINE n == Len(t.batch)
              e == Last(t.batch)
              rest == Handling
  <1>1. /\ t \in TableState /\ t.batch \in Seq(Event) /\ t.batch # <<>>
        /\ n \in Nat /\ DOMAIN t.batch = 1..n
    BY Fields DEF Good, Sound, Fire
  <1>2. /\ n >= 1 /\ e = t.batch[n] /\ e \in Event /\ Front(t.batch) \in Seq(Event)
        /\ DOMAIN Front(t.batch) = 1..n - 1 /\ Len(Front(t.batch)) = n - 1
        /\ \A i \in 1..n - 1 : Front(t.batch)[i] = t.batch[i]
    BY <1>1 DEF Last, Front
  <1>3. t' = IF e.who = Nobody THEN NewMatch(rest) ELSE AutoPlay(rest, e.who)
    BY DEF Fire, Handling
  <1>4. /\ rest \in TableState /\ rest.batch = Front(t.batch) /\ rest.timeouts = t.timeouts
        /\ rest.phase = t.phase /\ rest.turns = t.turns /\ rest.inProgress = t.inProgress
        /\ rest.round = t.round /\ rest.seats = t.seats /\ rest.hands = t.hands /\ rest.table = t.table
    <2>1. rest = [t EXCEPT !.batch = Front(t.batch)]
      BY <1>1 DEF TableState, Handling
    <2>. HIDE DEF rest
    <2>. QED BY <1>1, <1>2, <2>1 DEF TableState
  <1>. HIDE DEF rest, e
  <1>5. Good(rest)
    <2>1. DelaysOK(rest)
      BY <1>4 DEF Good, Sound, DelaysOK
    <2>2. Sound(rest)
      BY <1>4, <2>1, SoundFrom DEF Good
    <2>. QED BY <1>4, <2>2, GoodFrom
  <1>. QED BY <1>1, <1>2, <1>3, <1>4, <1>5 DEF e, rest

LEMMA FireStep ==
  ASSUME Good(t), Clock(t), Fire
  PROVE  Good(t') /\ Clock(t')
  <1>. DEFINE n == Len(t.batch)
              e == Last(t.batch)
              rest == Handling
  <1>1. /\ t.batch \in Seq(Event) /\ n \in Nat /\ DOMAIN t.batch = 1..n
        /\ n >= 1 /\ e = t.batch[n] /\ e \in Event
        /\ t' = IF e.who = Nobody THEN NewMatch(rest) ELSE AutoPlay(rest, e.who)
        /\ Good(rest) /\ rest.batch = Front(t.batch) /\ rest.timeouts = t.timeouts
        /\ rest.phase = t.phase /\ rest.turns = t.turns /\ rest.inProgress = t.inProgress
        /\ rest.round = t.round /\ rest.seats = t.seats /\ rest.hands = t.hands
        /\ rest.table = t.table
        /\ DOMAIN rest.batch = 1..n - 1 /\ Len(rest.batch) = n - 1
        /\ \A i \in 1..n - 1 : rest.batch[i] = t.batch[i]
    BY FireShape
  <1>. HIDE DEF rest, e
  <1>2. ASSUME rest.phase = "Playing" => \A p \in Players : OnTurn(t.turns, p) => p # e.who
        PROVE  Clock(rest)
    <2>. SUFFICES ASSUME rest.phase = "Playing", NEW p \in Players, OnTurn(t.turns, p)
                  PROVE  \/ \E i \in DOMAIN rest.timeouts : rest.timeouts[i].who = p
                         \/ \E i \in DOMAIN rest.batch : rest.batch[i].who = p
      BY <1>1 DEF Clock
    <2>1. \/ \E i \in DOMAIN t.timeouts : t.timeouts[i].who = p
          \/ \E i \in DOMAIN t.batch : t.batch[i].who = p
      BY <1>1 DEF Clock
    <2>2. ASSUME NEW i \in 1..n, t.batch[i].who = p
          PROVE  \E j \in DOMAIN rest.batch : rest.batch[j].who = p
      <3>1. i # n
        BY <1>1, <1>2, <2>2
      <3>2. i \in 1..n - 1
        BY <1>1, <3>1
      <3>. QED BY <1>1, <2>2, <3>2
    <2>. QED BY <1>1, <2>1, <2>2
  <1>3. CASE e.who = Nobody
    <2>1. Clock(rest)
      BY <1>2, <1>3, Numbers
    <2>2. Good(StartMatch(rest)) /\ Clock(StartMatch(rest))
      BY <1>1, StartMatchGood DEF Good
    <2>. QED BY <1>1, <1>3, <2>1, <2>2 DEF NewMatch
  <1>4. CASE e.who # Nobody
    <2>1. e.who \in Players
      BY <1>1, <1>4 DEF Event
    <2>2. CASE OnTurn(rest.turns, e.who) /\ rest.hands[e.who] > 0
      BY <1>1, <1>4, <2>1, <2>2, PlayCardGood DEF AutoPlay
    <2>3. CASE ~(OnTurn(rest.turns, e.who) /\ rest.hands[e.who] > 0)
      <3>1. t' = rest
        BY <1>1, <1>4, <2>3 DEF AutoPlay
      <3>2. ASSUME rest.phase = "Playing" PROVE ~OnTurn(rest.turns, e.who)
        BY <1>1, <3>2, <2>1, <2>3, OnTurnHolds
      <3>3. Clock(rest)
        BY <1>1, <1>2, <3>2
      <3>. QED BY <1>1, <3>1, <3>3
    <2>. QED BY <2>2, <2>3
  <1>. QED BY <1>3, <1>4

-----------------------------------------------------------------------------
(* The theorems.                                                           *)

\* Good and Clock together are inductive.
IInv == Good(t) /\ Clock(t)

LEMMA IInvStep == IInv /\ [Next]_t => IInv'
  <1>. SUFFICES ASSUME Good(t), Clock(t), [Next]_t PROVE Good(t') /\ Clock(t')
    BY DEF IInv
  <1>1. ASSUME NEW p \in Players, SeatPlayer(p) PROVE Good(t') /\ Clock(t')
    BY <1>1, SeatStep
  <1>2. ASSUME NEW p \in Players, UnseatPlayer(p) PROVE Good(t') /\ Clock(t')
    BY <1>2, UnseatStep
  <1>3. ASSUME NEW p \in Players, Play(p) PROVE Good(t') /\ Clock(t')
    BY <1>3, PlayCardGood DEF Play
  <1>4. CASE Tick
    BY <1>4, TickStep
  <1>5. CASE Fire
    BY <1>5, FireStep
  <1>6. CASE t' = t
    BY <1>6
  <1>. QED BY <1>1, <1>2, <1>3, <1>4, <1>5, <1>6 DEF Next

THEOREM Inductive == Spec => []IInv
  <1>1. Init => IInv
    BY GoodInit DEF IInv
  <1>. QED BY <1>1, IInvStep, PTL DEF Spec

\* The table's fields stay in their sets, whatever the handlers nest (logic.rs
\* TableState).
THEOREM TypeCorrect == Spec => []TypeOK
  <1>1. IInv => TypeOK
    BY DEF IInv, Good, Sound, TypeOK
  <1>. QED BY <1>1, Inductive, PTL

\* The order of play names each actor once and only people at the table (logic.rs
\* seat_player, unseat_player, begin_round).
THEOREM OrderCorrect == Spec => []OrderSeated
  <1>1. IInv => OrderSeated
    BY DEF IInv, Good, Sound, OrderOK, DistinctOrder, ActorsOf, OrderSeated, Actors
  <1>. QED BY <1>1, Inductive, PTL

\* While people play, somebody is on turn and the players with cards are those in
\* the order (logic.rs play_card, unseat_player).
THEOREM TurnsPlayable == Spec => []TurnIsPlayable
  <1>1. ASSUME IInv, t.phase = "Playing"
        PROVE  /\ t.turns.actors # <<>> => t.turns.current \in DOMAIN t.turns.actors
               /\ Actors = {p \in Players : t.hands[p] > 0}
    <2>1. /\ Good(t) /\ t.turns.actors \in Seq(Players) /\ Lap(t)
          /\ t.hands \in [Players -> 0..HandSize] /\ Actors = ActorsOf(t)
      BY <1>1, Fields DEF IInv, Good, Sound, Hands, Actors, ActorsOf
    <2>2. t.turns.actors # <<>> => t.turns.current \in DOMAIN t.turns.actors
      <3>1. DOMAIN t.turns.actors = 1..Len(t.turns.actors)
            /\ (t.turns.actors # <<>> => Len(t.turns.actors) # 0)
        BY <2>1
      <3>. QED BY <2>1, <3>1 DEF Lap
    <2>3. \A p \in Actors : p \in Players /\ t.hands[p] > 0
      <3>. SUFFICES ASSUME NEW i \in DOMAIN t.turns.actors
                    PROVE  /\ t.turns.actors[i] \in Players
                           /\ t.hands[t.turns.actors[i]] > 0
        BY <2>1 DEF ActorsOf
      <3>1. t.turns.actors[i] \in Players /\ t.hands[t.turns.actors[i]] \in Nat
        BY <2>1
      <3>2. t.hands[t.turns.actors[i]] >= 1
        BY <1>1, <2>1, ActorsHold DEF Hand
      <3>. QED BY <3>1, <3>2
    <2>4. \A p \in Players : t.hands[p] > 0 => p \in Actors
      BY <1>1, <2>1 DEF Good, Hands
    <2>. QED BY <2>2, <2>3, <2>4
  <1>2. IInv => TurnIsPlayable
    BY <1>1 DEF TurnIsPlayable
  <1>. QED BY <1>2, Inductive, PTL

\* Whoever is on turn has a clock running (logic.rs arm_turn_timeout, unseat_player).
THEOREM ClocksRun == Spec => []TurnHasClock
  <1>1. IInv => TurnHasClock
    BY DEF IInv, Clock, TurnHasClock
  <1>. QED BY <1>1, Inductive, PTL

-----------------------------------------------------------------------------
(* A match runs on to its end, and the next one comes.                     *)

NoNewMatch(q) == \A i \in DOMAIN q : q[i].who # Nobody
OneNewMatch(q) == Len(q) = 1 /\ q[1].who = Nobody

\* Between two matches: the next is timed, or due, or nobody fills the table.
\* While it is timed the handler may be left with turn timeouts of the match.
Intermitting(tb) ==
  \/ /\ OneNewMatch(tb.timeouts) /\ NoNewMatch(tb.batch)
     /\ tb.batch # <<>> => Len(tb.table) >= Len(tb.turns.actors)
  \/ tb.timeouts = <<>> /\ OneNewMatch(tb.batch)
  \/ tb.timeouts = <<>> /\ tb.batch = <<>> /\ ~Full(tb)

\* What is scheduled belongs to the phase, and no phase but these is rested in.
Staged(tb) ==
  \/ tb.phase = "Dealing" /\ tb.timeouts = <<>> /\ tb.batch = <<>> /\ ~Full(tb)
  \/ tb.phase = "Playing" /\ NoNewMatch(tb.timeouts) /\ NoNewMatch(tb.batch)
  \/ tb.phase = "Finished" /\ tb.round = Rounds /\ Intermitting(tb)

\* r is over, or a round further on than tb.
Onward(r, tb) == r.phase = "Finished" \/ (r.phase = "Playing" /\ r.round = tb.round + 1)

SameRound(r, tb) == r.phase = "Playing" /\ r.round = tb.round

\* Nothing is dealt in mid-round.
RunsOn(r, tb) ==
  Onward(r, tb) \/ (SameRound(r, tb) /\ \A p \in Players : r.hands[p] <= tb.hands[p])

\* p has played a card.
Spends(r, tb, p) == Onward(r, tb) \/ (SameRound(r, tb) /\ r.hands[p] < tb.hands[p])

\* The timeout of p, who is on turn, is handled.
TimesOut(p) == Fire /\ OnTurn(t.turns, p) /\ Last(t.batch).who = p

MatchRunsOn ==
  [][t.phase = "Playing" =>
       /\ RunsOn(t', t)
       /\ \A p \in Players : Play(p) \/ TimesOut(p) => Spends(t', t, p)]_t

\* Everybody who was dealt in has left in mid-round: there is no order of play,
\* and what RoundHasPlayers denies of it can happen.
DeadRound == t.phase = "Playing" /\ t.turns.actors = <<>>

HasClock(p) ==
  \/ \E i \in DOMAIN t.timeouts : t.timeouts[i].who = p
  \/ \E i \in DOMAIN t.batch : t.batch[i].who = p

\* What a full table waits for: the card of somebody who has one and a clock
\* running, no NewMatch being about; or a NewMatch, timed or due, just one.
FullTableMoves ==
  Full(t) /\ ~DeadRound =>
    \/ /\ t.phase = "Playing" /\ NoNewMatch(t.timeouts) /\ NoNewMatch(t.batch)
       /\ \E p \in Players : OnTurn(t.turns, p) /\ t.hands[p] > 0 /\ HasClock(p)
    \/ /\ t.phase = "Finished"
       /\ \/ OneNewMatch(t.timeouts) /\ NoNewMatch(t.batch)
          \/ t.timeouts = <<>> /\ OneNewMatch(t.batch)

LEMMA Cleared ==
  ASSUME NEW tb, Sound(tb), NEW phase, tb.phase # phase \/ tb.timeouts = <<>>
  PROVE  TransitionTo(tb, phase).timeouts = <<>>
  BY DEF TransitionTo, Sound, TableState

LEMMA FinishShape ==
  ASSUME NEW tb, Sound(tb), tb.phase # "Finished"
  PROVE  LET r == FinishMatch(tb)
         IN  r.phase = "Finished" /\ SameBoard(r, tb) /\ OneNewMatch(r.timeouts)
  <1>. DEFINE moved == TransitionTo(tb, "Finished")
              e == [left |-> Intermission, who |-> Nobody]
              r == FinishMatch(tb)
  <1>1. r.phase = "Finished" /\ SameBoard(r, tb)
    BY FinishSound
  <1>2. moved \in TableState /\ moved.timeouts = <<>>
    BY Cleared, TransitionSound DEF Sound, Phases
  <1>3. r = [moved EXCEPT !.timeouts = Append(@, e)] /\ e.who = Nobody
    BY DEF FinishMatch, ScheduleAfter
  <1>. HIDE DEF moved, e, r
  <1>4. r.timeouts = Append(<<>>, e)
    BY <1>2, <1>3 DEF TableState
  <1>5. Len(Append(<<>>, e)) = 1 /\ Append(<<>>, e)[1] = e
    OBVIOUS
  <1>. QED BY <1>1, <1>3, <1>4, <1>5 DEF OneNewMatch, r

\* x has a table's fields, of whatever types.
Fielded(x) ==
  /\ DOMAIN x = {"phase", "turns", "round", "inProgress", "seats", "hands", "table", "timeouts", "batch"}
  /\ DOMAIN x.turns = {"actors", "current"}

LEMMA ArmShape ==
  ASSUME NEW tb, Fielded(tb), tb.turns.actors \in Seq(Players), tb.timeouts \in Seq(Event),
         NoNewMatch(tb.timeouts)
  PROVE  LET r == ArmTurnTimeout(tb)
         IN  r.phase = tb.phase /\ SameBoard(r, tb) /\ NoNewMatch(r.timeouts)
  <1>. DEFINE actor == tb.turns.actors[tb.turns.current]
              e == [left |-> TurnTimeout, who |-> actor]
              r == ArmTurnTimeout(tb)
  <1>1. CASE tb.turns.current \in DOMAIN tb.turns.actors
    <2>1. e.who \in Players
      BY <1>1
    <2>2. r = [tb EXCEPT !.timeouts = Append(@, e)]
      BY <1>1 DEF ArmTurnTimeout, ScheduleAfter
    <2>. HIDE DEF e, r
    <2>3. r.timeouts = Append(tb.timeouts, e) /\ r.phase = tb.phase /\ SameBoard(r, tb)
      BY <2>2 DEF Fielded, SameBoard
    <2>4. \A i \in DOMAIN r.timeouts :
            r.timeouts[i] = e \/ (i \in DOMAIN tb.timeouts /\ r.timeouts[i] = tb.timeouts[i])
      BY <2>3
    <2>5. NoNewMatch(r.timeouts)
      BY <2>1, <2>4, Numbers DEF NoNewMatch
    <2>. QED BY <2>3, <2>5 DEF r
  <1>2. CASE tb.turns.current \notin DOMAIN tb.turns.actors
    BY <1>2 DEF ArmTurnTimeout, SameBoard
  <1>. QED BY <1>1, <1>2

LEMMA SoundFielded ==
  ASSUME NEW tb, Sound(tb)
  PROVE  Fielded(tb) /\ tb.turns.actors \in Seq(Players) /\ tb.timeouts \in Seq(Event)
  BY Fields DEF Sound, TableState, Order, Fielded

\* A round that may begin, begins.
LEMMA BeginRoundShape ==
  ASSUME NEW tb, Sound(tb), ~tb.inProgress, tb.round < Rounds, tb.phase # "Playing",
         tb.phase = "Dealing" => tb.timeouts = <<>>
  PROVE  LET r == BeginRound(tb)
         IN  /\ r.phase = "Playing" /\ r.round = tb.round + 1
             /\ NoNewMatch(r.timeouts) /\ r.batch = tb.batch
  <1>. DEFINE order == tb.turns.actors \o Newcomers(tb)
              moved == TransitionTo(tb, "Dealing")
              deck == Deal(moved)
              dealt == [deck EXCEPT !.turns.actors = @ \o Newcomers(tb)]
              started == StartNextRound(dealt)
              playing == TransitionTo(started, "Playing")
              turned == [playing EXCEPT !.turns = Restart(@)]
              Like(x) == Fielded(x) /\ x.timeouts = <<>> /\ x.batch = tb.batch
  <1>1. Sound(moved) /\ moved.phase = "Dealing" /\ SameBoard(moved, tb) /\ moved.timeouts = <<>>
    BY TransitionSound, Cleared DEF Phases
  <1>2. order \in Seq(Players)
    BY NewcomersJoin
  <1>. HIDE DEF moved, order
  <1>3. /\ Like(moved) /\ moved.round = tb.round /\ moved.inProgress = tb.inProgress
        /\ moved.turns = tb.turns
    BY <1>1, SoundFielded DEF SameBoard
  <1>4. /\ Like(deck) /\ deck.round = tb.round /\ deck.inProgress = tb.inProgress
        /\ deck.phase = "Dealing" /\ deck.turns = tb.turns
    BY <1>1, <1>3 DEF Deal, Fielded
  <1>. HIDE DEF deck
  <1>5. /\ Like(dealt) /\ dealt.round = tb.round /\ dealt.inProgress = tb.inProgress
        /\ dealt.phase = "Dealing" /\ dealt.turns.actors = order
    BY <1>4 DEF Fielded, order
  <1>6. BeginRound(tb) = ArmTurnTimeout(turned)
    <2>1. ~(dealt.inProgress \/ dealt.round >= Rounds)
      <3>. HIDE DEF dealt
      <3>1. dealt.round = tb.round /\ tb.round \in Nat
        BY <1>5, Fields DEF Sound
      <3>. QED BY <1>5, <3>1, Numbers
    <2>. QED BY <2>1, Zenon DEF BeginRound, dealt, deck, moved
  <1>. HIDE DEF dealt
  <1>7. /\ Like(started) /\ started.round = tb.round + 1 /\ started.phase = "Dealing"
        /\ started.turns.actors = order
    BY <1>5 DEF StartNextRound, Fielded
  <1>. HIDE DEF started
  <1>8. /\ Like(playing) /\ playing.round = tb.round + 1 /\ playing.phase = "Playing"
        /\ playing.turns.actors = order
    BY <1>7 DEF TransitionTo, Fielded
  <1>. HIDE DEF playing
  <1>9. /\ Like(turned) /\ turned.round = tb.round + 1 /\ turned.phase = "Playing"
        /\ turned.turns.actors = order
    BY <1>8 DEF Fielded, Restart
  <1>. HIDE DEF turned
  <1>10. turned.timeouts \in Seq(Event) /\ NoNewMatch(turned.timeouts)
    BY <1>9 DEF NoNewMatch
  <1>11. LET r == ArmTurnTimeout(turned)
         IN  r.phase = turned.phase /\ SameBoard(r, turned) /\ NoNewMatch(r.timeouts)
    BY <1>2, <1>9, <1>10, ArmShape
  <1>. QED BY <1>6, <1>9, <1>11 DEF SameBoard

\* A match that starts is in play.
LEMMA StartMatchShape ==
  ASSUME NEW tb, Sound(tb), tb.phase # "Playing", tb.phase = "Dealing" => tb.timeouts = <<>>
  PROVE  LET r == StartMatch(tb)
         IN  r.phase = "Playing" /\ NoNewMatch(r.timeouts) /\ r.batch = tb.batch
  <1>. DEFINE cleared == [tb EXCEPT !.round = 0, !.inProgress = FALSE]
  <1>1. tb \in TableState
    BY DEF Sound
  <1>2. /\ cleared \in TableState /\ ~cleared.inProgress /\ cleared.seats = tb.seats
        /\ cleared.turns = tb.turns /\ cleared.timeouts = tb.timeouts
        /\ cleared.phase = tb.phase /\ cleared.batch = tb.batch /\ cleared.round = 0
    <2>1. 0 \in 0..Rounds /\ FALSE \in BOOLEAN
      BY Numbers
    <2>. QED BY <1>1, <2>1 DEF TableState
  <1>3. StartMatch(tb) = BeginRound(cleared)
    BY DEF StartMatch
  <1>. HIDE DEF cleared
  <1>4. Sound(cleared)
    BY <1>2, SoundFrom DEF Sound, DelaysOK
  <1>. QED BY <1>2, <1>3, <1>4, BeginRoundShape, Numbers

\* The match is over, with the cards of its last trick on the table.
Closed(r, tb) ==
  /\ tb.round = Rounds /\ r.phase = "Finished" /\ r.round = Rounds
  /\ OneNewMatch(r.timeouts) /\ r.turns = tb.turns /\ r.table = tb.table

NextRound(r, tb) ==
  /\ tb.round # Rounds /\ r.phase = "Playing" /\ r.round = tb.round + 1
  /\ NoNewMatch(r.timeouts)

LEMMA ResolveShape ==
  ASSUME NEW tb, Sound(tb), tb.phase \in {"Playing", "Finished"}
  PROVE  LET r == ResolveTrick(tb)
         IN  r.batch = tb.batch /\ (Closed(r, tb) \/ NextRound(r, tb))
  <1>. DEFINE moved == TransitionTo(tb, "Scoring")
              ended == [moved EXCEPT !.inProgress = FALSE]
              r == ResolveTrick(tb)
  <1>1. Sound(moved) /\ moved.phase = "Scoring" /\ SameBoard(moved, tb)
    BY TransitionSound DEF Phases
  <1>2. r = IF ended.round >= Rounds THEN FinishMatch(ended) ELSE BeginRound(ended)
    BY DEF ResolveTrick
  <1>. HIDE DEF moved
  <1>3. /\ ended \in TableState /\ ~ended.inProgress /\ ended.seats = moved.seats
        /\ ended.turns = moved.turns /\ ended.timeouts = moved.timeouts
        /\ ended.phase = "Scoring" /\ ended.round = tb.round /\ ended.batch = tb.batch
        /\ ended.turns = tb.turns /\ ended.table = tb.table
    <2>1. moved \in TableState
      BY <1>1 DEF Sound
    <2>. QED BY <1>1, <2>1 DEF TableState, SameBoard
  <1>. HIDE DEF ended, r
  <1>4. Sound(ended)
    BY <1>1, <1>3, SoundFrom DEF Sound, DelaysOK
  <1>5. tb.round \in 0..Rounds
    BY Fields DEF Sound
  <1>6. CASE tb.round >= Rounds
    <2>1. r = FinishMatch(ended) /\ tb.round = Rounds
      BY <1>2, <1>3, <1>5, <1>6, Numbers
    <2>2. r.phase = "Finished" /\ SameBoard(r, ended) /\ OneNewMatch(r.timeouts)
      BY <1>3, <1>4, <2>1, FinishShape
    <2>. QED BY <1>3, <2>1, <2>2 DEF Closed, SameBoard, r
  <1>7. CASE ~(tb.round >= Rounds)
    <2>1. r = BeginRound(ended) /\ tb.round < Rounds /\ tb.round # Rounds
      BY <1>2, <1>3, <1>5, <1>7, Numbers
    <2>2. /\ r.phase = "Playing" /\ r.round = tb.round + 1
          /\ NoNewMatch(r.timeouts) /\ r.batch = tb.batch
      BY <1>3, <1>4, <2>1, BeginRoundShape
    <2>. QED BY <2>1, <2>2 DEF NextRound, r
  <1>. QED BY <1>6, <1>7

\* What a card played leaves, by whether it ends the match, the round or neither.
CardPlayed(r, tb, p) ==
  \/ /\ tb.round = Rounds /\ r.phase = "Finished" /\ r.round = Rounds
     /\ OneNewMatch(r.timeouts) /\ Len(r.table) >= Len(r.turns.actors)
  \/ NextRound(r, tb)
  \/ /\ Len(tb.table) < Len(tb.turns.actors)
     /\ r.phase = tb.phase /\ r.round = tb.round /\ r.hands = [tb.hands EXCEPT ![p] = @ - 1]
     /\ NoNewMatch(tb.timeouts) => NoNewMatch(r.timeouts)

LEMMA PlayCardShape ==
  ASSUME NEW tb, Sound(tb), tb.phase \in {"Playing", "Finished"},
         NEW p \in Players, OnTurn(tb.turns, p), tb.hands[p] > 0
  PROVE  PlayCard(tb, p).batch = tb.batch /\ CardPlayed(PlayCard(tb, p), tb, p)
  <1>. DEFINE played == [tb EXCEPT !.hands[p] = @ - 1, !.table = Append(@, p)]
              turned == [played EXCEPT !.turns = Advance(@)]
              r == PlayCard(tb, p)
  <1>1. /\ tb \in TableState /\ tb.turns.actors \in Seq(Players)
        /\ tb.hands \in [Players -> 0..HandSize] /\ tb.table \in Seq(Players)
        /\ tb.timeouts \in Seq(Event) /\ Fielded(tb)
        /\ Len(tb.table) \in Nat /\ Len(tb.turns.actors) \in Nat
    BY Fields, SoundFielded DEF Sound
  <1>2. /\ played \in TableState /\ played.phase = tb.phase /\ played.round = tb.round
        /\ played.turns = tb.turns /\ played.seats = tb.seats /\ played.timeouts = tb.timeouts
        /\ played.batch = tb.batch /\ Len(played.table) = Len(tb.table) + 1
        /\ played.hands = [tb.hands EXCEPT ![p] = @ - 1]
    <2>1. [tb.hands EXCEPT ![p] = @ - 1] \in [Players -> 0..HandSize]
      BY <1>1, Numbers
    <2>2. played = [tb EXCEPT !.hands = [tb.hands EXCEPT ![p] = @ - 1], !.table = Append(tb.table, p)]
      BY <1>1 DEF TableState
    <2>3. Append(tb.table, p) \in Seq(Players) /\ Len(Append(tb.table, p)) = Len(tb.table) + 1
      BY <1>1
    <2>. HIDE DEF played
    <2>. QED BY <1>1, <2>1, <2>2, <2>3 DEF TableState
  <1>3. r = IF Len(played.table) < Len(played.turns.actors)
              THEN ArmTurnTimeout(turned) ELSE ResolveTrick(played)
    BY DEF PlayCard
  <1>. HIDE DEF played, r
  <1>4. Sound(played)
    BY <1>2, SoundFrom DEF Sound, DelaysOK
  <1>5. CASE ~(Len(played.table) < Len(played.turns.actors))
    <2>1. r.batch = tb.batch /\ (Closed(r, played) \/ NextRound(r, played))
      BY <1>2, <1>3, <1>4, <1>5, ResolveShape
    <2>2. Len(played.table) >= Len(played.turns.actors)
      BY <1>1, <1>2, <1>5
    <2>3. Closed(r, played) => CardPlayed(r, tb, p)
      BY <1>2, <2>2 DEF Closed, CardPlayed
    <2>4. NextRound(r, played) => CardPlayed(r, tb, p)
      BY <1>2 DEF NextRound, CardPlayed
    <2>. QED BY <2>1, <2>3, <2>4 DEF r
  <1>6. CASE Len(played.table) < Len(played.turns.actors)
    <2>1. /\ Fielded(turned) /\ turned.turns.actors = tb.turns.actors /\ turned.phase = tb.phase
          /\ turned.round = tb.round /\ turned.hands = played.hands /\ turned.batch = tb.batch
          /\ turned.timeouts = tb.timeouts
      <3>1. Fielded(played)
        BY <1>4, SoundFielded
      <3>. QED BY <1>2, <3>1 DEF Fielded, Advance
    <2>2. r = ArmTurnTimeout(turned)
      BY <1>3, <1>6
    <2>. HIDE DEF turned
    <2>3. r.phase = turned.phase /\ SameBoard(r, turned)
          /\ (NoNewMatch(tb.timeouts) => NoNewMatch(r.timeouts))
      <3>1. r.phase = turned.phase /\ SameBoard(r, turned)
        BY <2>1, <2>2 DEF ArmTurnTimeout, ScheduleAfter, SameBoard, Fielded
      <3>. QED BY <1>1, <2>1, <2>2, <3>1, ArmShape
    <2>4. Len(tb.table) < Len(tb.turns.actors)
      BY <1>1, <1>2, <1>6
    <2>. QED BY <1>2, <2>1, <2>3, <2>4 DEF CardPlayed, SameBoard, r
  <1>. QED BY <1>5, <1>6

LEMMA CardRuns ==
  ASSUME NEW tb, Sound(tb), NEW p \in Players, OnTurn(tb.turns, p), tb.hands[p] > 0,
         NoNewMatch(tb.batch),
         \/ tb.phase = "Playing" /\ NoNewMatch(tb.timeouts)
         \/ tb.phase = "Finished" /\ tb.round = Rounds /\ Len(tb.table) >= Len(tb.turns.actors)
  PROVE  LET r == PlayCard(tb, p)
         IN  Staged(r) /\ (tb.phase = "Playing" => RunsOn(r, tb) /\ Spends(r, tb, p))
  <1>. DEFINE r == PlayCard(tb, p)
  <1>1. r.batch = tb.batch /\ CardPlayed(r, tb, p)
    BY PlayCardShape
  <1>2. /\ tb.hands \in [Players -> 0..HandSize]
        /\ Len(tb.table) \in Nat /\ Len(tb.turns.actors) \in Nat
    BY Fields DEF Sound
  <1>. HIDE DEF r
  <1>3. CASE /\ tb.round = Rounds /\ r.phase = "Finished" /\ r.round = Rounds
             /\ OneNewMatch(r.timeouts) /\ Len(r.table) >= Len(r.turns.actors)
    BY <1>1, <1>3 DEF Staged, Intermitting, RunsOn, Spends, Onward, r
  <1>4. CASE NextRound(r, tb)
    BY <1>1, <1>4 DEF NextRound, Staged, RunsOn, Spends, Onward, r
  <1>5. CASE /\ Len(tb.table) < Len(tb.turns.actors)
             /\ r.phase = tb.phase /\ r.round = tb.round /\ r.hands = [tb.hands EXCEPT ![p] = @ - 1]
             /\ NoNewMatch(tb.timeouts) => NoNewMatch(r.timeouts)
    <2>1. tb.phase = "Playing" /\ NoNewMatch(tb.timeouts)
      BY <1>2, <1>5
    <2>2. Staged(r)
      BY <1>1, <1>5, <2>1 DEF Staged
    <2>3. r.hands[p] < tb.hands[p] /\ \A x \in Players : r.hands[x] <= tb.hands[x]
      BY <1>2, <1>5, Numbers
    <2>4. RunsOn(r, tb) /\ Spends(r, tb, p)
      BY <1>5, <2>1, <2>3 DEF RunsOn, Spends, SameRound
    <2>. QED BY <2>2, <2>4 DEF r
  <1>. QED BY <1>1, <1>3, <1>4, <1>5 DEF CardPlayed

LEMMA SeatRuns ==
  ASSUME Good(t), Staged(t), NEW p \in Players, SeatPlayer(p)
  PROVE  Staged(t') /\ (t.phase = "Playing" => RunsOn(t', t))
  <1>. DEFINE seated == WithSeated(t, p)
  <1>1. /\ Sound(seated) /\ seated.phase = t.phase /\ seated.round = t.round
        /\ seated.hands = t.hands /\ seated.table = t.table
        /\ seated.timeouts = t.timeouts /\ seated.batch = t.batch
        /\ t' = IF Full(seated) /\ ~t.inProgress THEN StartMatch(seated) ELSE seated
    BY SeatedShape
  <1>2. t.batch = <<>> /\ (t.inProgress <=> t.phase = "Playing")
    BY DEF SeatPlayer, Between, Good, Flag
  <1>3. t.hands \in [Players -> 0..HandSize]
    BY Fields DEF Good, Sound
  <1>. HIDE DEF seated
  <1>4. CASE Full(seated) /\ ~t.inProgress
    <2>1. t' = StartMatch(seated) /\ t.phase # "Playing"
      BY <1>1, <1>2, <1>4
    <2>2. t.phase = "Dealing" => t.timeouts = <<>>
      BY DEF Staged
    <2>3. t'.phase = "Playing" /\ NoNewMatch(t'.timeouts) /\ t'.batch = t.batch
      BY <1>1, <2>1, <2>2, StartMatchShape
    <2>4. NoNewMatch(t'.batch)
      BY <1>2, <2>3 DEF NoNewMatch
    <2>. QED BY <2>1, <2>3, <2>4 DEF Staged
  <1>5. CASE ~(Full(seated) /\ ~t.inProgress)
    <2>1. t' = seated
      BY <1>1, <1>5
    <2>2. t.phase # "Playing" => ~Full(seated)
      BY <1>2, <1>5
    <2>3. Staged(seated)
      BY <1>1, <1>2, <2>2 DEF Staged, Intermitting
    <2>4. \A x \in Players : t.hands[x] <= t.hands[x]
      BY <1>3, Numbers
    <2>5. t.phase = "Playing" => RunsOn(seated, t)
      BY <1>1, <2>4 DEF RunsOn, SameRound
    <2>. QED BY <2>1, <2>3, <2>5
  <1>. QED BY <1>4, <1>5

LEMMA UnseatRuns ==
  ASSUME Good(t), Staged(t), NEW p \in Players, UnseatPlayer(p)
  PROVE  Staged(t') /\ (t.phase = "Playing" => RunsOn(t', t))
  <1>. DEFINE u == Unseated(t, p)
              r == ArmTurnTimeout(u)
  <1>1. /\ Good(u) /\ u.phase = t.phase /\ u.round = t.round /\ u.timeouts = t.timeouts
        /\ u.batch = t.batch /\ u.hands = [t.hands EXCEPT ![p] = 0]
        /\ \A c \in Chairs : u.seats[c] = IF t.seats[c] = p THEN Nobody ELSE t.seats[c]
    BY UnseatedGood, UnseatedFields
  <1>2. t' = IF OnTurn(t.turns, p) /\ t.phase = "Playing" THEN r ELSE u
    BY DEF UnseatPlayer
  <1>3. t.batch = <<>>
    BY DEF UnseatPlayer, Between
  <1>4. t.hands \in [Players -> 0..HandSize]
    BY Fields DEF Good, Sound
  <1>. HIDE DEF u
  <1>5. \A x \in Players : u.hands[x] <= t.hands[x]
    BY <1>1, <1>4, Numbers
  <1>6. ~Full(t) => ~Full(u)
    BY <1>1 DEF Full
  <1>7. Staged(u)
    BY <1>1, <1>3, <1>6 DEF Staged, Intermitting
  <1>8. CASE OnTurn(t.turns, p) /\ t.phase = "Playing"
    <2>1. NoNewMatch(u.timeouts) /\ NoNewMatch(u.batch)
      BY <1>1, <1>7, <1>8 DEF Staged
    <2>2. r.phase = u.phase /\ SameBoard(r, u) /\ NoNewMatch(r.timeouts)
      BY <1>1, <2>1, SoundFielded, ArmShape DEF Good
    <2>. HIDE DEF r
    <2>3. Staged(r) /\ RunsOn(r, t)
      BY <1>1, <1>5, <1>8, <2>1, <2>2 DEF Staged, RunsOn, SameRound, SameBoard
    <2>. QED BY <1>2, <1>8, <2>3
  <1>9. CASE ~(OnTurn(t.turns, p) /\ t.phase = "Playing")
    <2>1. t.phase = "Playing" => RunsOn(u, t)
      BY <1>1, <1>5 DEF RunsOn, SameRound
    <2>. QED BY <1>2, <1>7, <1>9, <2>1
  <1>. QED BY <1>8, <1>9

LEMMA TickRuns ==
  ASSUME Good(t), Staged(t), Tick
  PROVE  Staged(t') /\ (t.phase = "Playing" => RunsOn(t', t))
  <1>1. /\ t'.phase = t.phase /\ t'.round = t.round /\ t'.turns = t.turns
        /\ t'.seats = t.seats /\ t'.hands = t.hands /\ t'.table = t.table /\ t.batch = <<>>
        /\ \A k \in DOMAIN t'.timeouts : \E i \in DOMAIN t.timeouts : t'.timeouts[k].who = t.timeouts[i].who
        /\ \A k \in DOMAIN t'.batch : \E i \in DOMAIN t.timeouts : t'.batch[k].who = t.timeouts[i].who
        /\ t.timeouts = <<>> => t'.timeouts = <<>> /\ t'.batch = <<>>
        /\ Len(t.timeouts) = 1 =>
             \/ Len(t'.timeouts) = 1 /\ t'.batch = <<>>
             \/ t'.timeouts = <<>> /\ Len(t'.batch) = 1
    BY TickShape
  <1>2. /\ t.hands \in [Players -> 0..HandSize] /\ t.timeouts \in Seq(Event)
        /\ t'.timeouts \in Seq(Event) /\ t'.batch \in Seq(Event)
    <2>1. Sound(t) /\ Sound(t')
      BY TickShape DEF Good
    <2>. QED BY <2>1, Fields DEF Sound
  <1>3. t.phase = "Playing" => RunsOn(t', t)
    <2>1. \A x \in Players : t.hands[x] <= t.hands[x]
      BY <1>2, Numbers
    <2>. QED BY <1>1, <2>1 DEF RunsOn, SameRound
  <1>4. CASE t.timeouts = <<>>
    <2>1. Full(t') <=> Full(t)
      BY <1>1 DEF Full
    <2>2. t'.timeouts = t.timeouts /\ t'.batch = t.batch
      BY <1>1, <1>4
    <2>3. Staged(t')
      BY <1>1, <2>1, <2>2 DEF Staged, Intermitting
    <2>. QED BY <1>3, <2>3
  <1>5. CASE NoNewMatch(t.timeouts) /\ t.phase = "Playing"
    <2>1. NoNewMatch(t'.timeouts) /\ NoNewMatch(t'.batch)
      BY <1>1, <1>5 DEF NoNewMatch
    <2>. QED BY <1>1, <1>3, <1>5, <2>1 DEF Staged
  <1>6. CASE OneNewMatch(t.timeouts) /\ t.phase = "Finished" /\ t.round = Rounds
    <2>1. \A i \in DOMAIN t.timeouts : t.timeouts[i].who = Nobody
      <3>1. DOMAIN t.timeouts = 1..1
        BY <1>2, <1>6 DEF OneNewMatch
      <3>. QED BY <1>6, <3>1 DEF OneNewMatch
    <2>2. CASE Len(t'.timeouts) = 1 /\ t'.batch = <<>>
      <3>1. 1 \in DOMAIN t'.timeouts
        BY <1>2, <2>2
      <3>2. OneNewMatch(t'.timeouts)
        BY <1>1, <2>1, <2>2, <3>1 DEF OneNewMatch
      <3>3. NoNewMatch(t'.batch)
        BY <2>2 DEF NoNewMatch
      <3>. QED BY <1>1, <1>3, <1>6, <2>2, <3>2, <3>3 DEF Staged, Intermitting
    <2>3. CASE t'.timeouts = <<>> /\ Len(t'.batch) = 1
      <3>1. 1 \in DOMAIN t'.batch
        BY <1>2, <2>3
      <3>2. OneNewMatch(t'.batch)
        BY <1>1, <2>1, <2>3, <3>1 DEF OneNewMatch
      <3>. QED BY <1>1, <1>3, <1>6, <2>3, <3>2 DEF Staged, Intermitting
    <2>. QED BY <1>1, <1>6, <2>2, <2>3 DEF OneNewMatch
  <1>. QED BY <1>4, <1>5, <1>6 DEF Staged, Intermitting

LEMMA FireRuns ==
  ASSUME Good(t), Staged(t), Fire
  PROVE  /\ Staged(t')
         /\ t.phase = "Playing" => /\ RunsOn(t', t)
                                   /\ \A p \in Players : TimesOut(p) => Spends(t', t, p)
  <1>. DEFINE n == Len(t.batch)
              e == Last(t.batch)
              rest == Handling
  <1>1. /\ t.batch \in Seq(Event) /\ n \in Nat /\ DOMAIN t.batch = 1..n
        /\ n >= 1 /\ e = t.batch[n] /\ e \in Event
        /\ t' = IF e.who = Nobody THEN NewMatch(rest) ELSE AutoPlay(rest, e.who)
        /\ Good(rest) /\ rest.batch = Front(t.batch) /\ rest.timeouts = t.timeouts
        /\ rest.phase = t.phase /\ rest.turns = t.turns /\ rest.inProgress = t.inProgress
        /\ rest.round = t.round /\ rest.seats = t.seats /\ rest.hands = t.hands
        /\ rest.table = t.table
        /\ DOMAIN rest.batch = 1..n - 1 /\ Len(rest.batch) = n - 1
        /\ \A i \in 1..n - 1 : rest.batch[i] = t.batch[i]
    BY FireShape
  <1>2. t.hands \in [Players -> 0..HandSize]
    BY Fields DEF Good, Sound
  <1>. HIDE DEF rest, e
  <1>3. NoNewMatch(t.batch) => NoNewMatch(rest.batch) /\ e.who # Nobody
    <2>1. n \in DOMAIN t.batch /\ \A i \in 1..n - 1 : i \in DOMAIN t.batch
      BY <1>1
    <2>. QED BY <1>1, <2>1 DEF NoNewMatch
  <1>4. RunsOn(rest, t) \/ t.phase # "Playing"
    <2>1. \A x \in Players : t.hands[x] <= t.hands[x]
      BY <1>2, Numbers
    <2>. QED BY <1>1, <2>1 DEF RunsOn, SameRound
  <1>5. CASE t.phase = "Playing" /\ NoNewMatch(t.timeouts) /\ NoNewMatch(t.batch)
    <2>1. e.who \in Players /\ t' = AutoPlay(rest, e.who)
      BY <1>1, <1>3, <1>5 DEF Event
    <2>2. Staged(rest)
      BY <1>1, <1>3, <1>5 DEF Staged
    <2>3. CASE OnTurn(rest.turns, e.who) /\ rest.hands[e.who] > 0
      <3>1. t' = PlayCard(rest, e.who)
        BY <2>1, <2>3 DEF AutoPlay
      <3>2. Staged(t') /\ RunsOn(t', rest) /\ Spends(t', rest, e.who)
        BY <1>1, <1>3, <1>5, <2>1, <2>3, <3>1, CardRuns DEF Good
      <3>3. RunsOn(t', t) /\ Spends(t', t, e.who)
        BY <1>1, <3>2 DEF RunsOn, Spends, Onward, SameRound
      <3>. QED BY <3>2, <3>3 DEF TimesOut, e
    <2>4. CASE ~(OnTurn(rest.turns, e.who) /\ rest.hands[e.who] > 0)
      <3>1. t' = rest
        BY <2>1, <2>4 DEF AutoPlay
      <3>2. ~OnTurn(t.turns, e.who)
        BY <1>1, <1>5, <2>1, <2>4, OnTurnHolds
      <3>. QED BY <1>4, <1>5, <2>2, <3>1, <3>2 DEF TimesOut, e
    <2>. QED BY <2>3, <2>4
  <1>6. CASE /\ t.phase = "Finished" /\ t.round = Rounds
             /\ OneNewMatch(t.timeouts) /\ NoNewMatch(t.batch)
             /\ Len(t.table) >= Len(t.turns.actors)
    <2>1. e.who \in Players /\ t' = AutoPlay(rest, e.who)
      BY <1>1, <1>3, <1>6 DEF Event
    <2>2. CASE OnTurn(rest.turns, e.who) /\ rest.hands[e.who] > 0
      <3>1. t' = PlayCard(rest, e.who)
        BY <2>1, <2>2 DEF AutoPlay
      <3>2. Staged(t')
        BY <1>1, <1>3, <1>6, <2>1, <2>2, <3>1, CardRuns DEF Good
      <3>. QED BY <1>6, <3>2
    <2>3. CASE ~(OnTurn(rest.turns, e.who) /\ rest.hands[e.who] > 0)
      <3>1. t' = rest
        BY <2>1, <2>3 DEF AutoPlay
      <3>2. Staged(rest)
        BY <1>1, <1>3, <1>6 DEF Staged, Intermitting
      <3>. QED BY <1>6, <3>1, <3>2
    <2>. QED BY <2>2, <2>3
  <1>7. CASE /\ t.phase = "Finished" /\ t.round = Rounds
              /\ t.timeouts = <<>> /\ OneNewMatch(t.batch)
    <2>1. e.who = Nobody /\ rest.batch = <<>>
      <3>1. n = 1
        BY <1>7 DEF OneNewMatch
      <3>2. e.who = Nobody
        BY <1>1, <1>7, <3>1 DEF OneNewMatch
      <3>3. Len(rest.batch) = 0 /\ rest.batch \in Seq(Event)
        BY <1>1, <3>1, Fields DEF Good, Sound
      <3>. QED BY <3>2, <3>3, EmptySeq
    <2>2. t' = IF Full(rest) THEN StartMatch(rest) ELSE rest
      BY <1>1, <2>1 DEF NewMatch
    <2>3. CASE Full(rest)
      <3>1. t'.phase = "Playing" /\ NoNewMatch(t'.timeouts) /\ t'.batch = <<>>
        BY <1>1, <1>7, <2>1, <2>2, <2>3, StartMatchShape DEF Good
      <3>2. NoNewMatch(t'.batch)
        BY <3>1 DEF NoNewMatch
      <3>. QED BY <1>7, <3>1, <3>2 DEF Staged
    <2>4. CASE ~Full(rest)
      <3>1. t' = rest
        BY <2>2, <2>4
      <3>2. Staged(rest)
        BY <1>1, <1>7, <2>1, <2>4 DEF Staged, Intermitting
      <3>. QED BY <1>7, <3>1, <3>2
    <2>. QED BY <2>3, <2>4
  <1>8. t.batch # <<>>
    BY DEF Fire
  <1>9. t.phase # "Dealing"
    BY <1>8 DEF Staged
  <1>. QED BY <1>5, <1>6, <1>7, <1>8, <1>9 DEF Staged, Intermitting

LEMMA StagedInit == Init => Staged(t)
  <1>. SUFFICES ASSUME Init PROVE Staged(t)
    OBVIOUS
  <1>1. t.phase = "Dealing" /\ t.timeouts = <<>> /\ t.batch = <<>> /\ t.seats = [c \in Chairs |-> Nobody]
    BY DEF Init
  <1>2. 1 \in Chairs
    BY Numbers DEF Chairs
  <1>. QED BY <1>1, <1>2 DEF Staged, Full

LEMMA Runs ==
  ASSUME IInv, Staged(t), [Next]_t
  PROVE  /\ Staged(t')
         /\ t' # t /\ t.phase = "Playing" =>
              /\ RunsOn(t', t)
              /\ \A p \in Players : Play(p) \/ TimesOut(p) => Spends(t', t, p)
  <1>. DEFINE Spent == \A p \in Players : Play(p) \/ TimesOut(p) => Spends(t', t, p)
              Goal == Staged(t') /\ (t.phase = "Playing" => RunsOn(t', t) /\ Spent)
  <1>1. Good(t) /\ Sound(t)
    BY DEF IInv, Good
  <1>2. \A p \in Players : Play(p) => t.phase = "Playing" /\ Staged(t') /\ RunsOn(t', t) /\ Spends(t', t, p)
    <2>. SUFFICES ASSUME NEW p \in Players, Play(p)
                  PROVE  t.phase = "Playing" /\ Staged(t') /\ RunsOn(t', t) /\ Spends(t', t, p)
      OBVIOUS
    <2>1. /\ t.phase = "Playing" /\ OnTurn(t.turns, p) /\ t.hands[p] > 0 /\ t' = PlayCard(t, p)
          /\ NoNewMatch(t.timeouts) /\ NoNewMatch(t.batch)
      BY DEF Play, Staged
    <2>. QED BY <1>1, <2>1, CardRuns
  <1>3. CASE Fire
    <2>1. \A p \in Players : ~Play(p)
      BY <1>3 DEF Fire, Play, Between
    <2>. QED BY <1>1, <1>3, <2>1, FireRuns
  <1>4. CASE ~Fire
    <2>1. \A p \in Players : ~TimesOut(p)
      BY <1>4 DEF TimesOut
    <2>2. Spent
      BY <1>2, <2>1
    <2>3. ASSUME NEW p \in Players, SeatPlayer(p) PROVE Goal
      BY <1>1, <2>2, <2>3, SeatRuns
    <2>4. ASSUME NEW p \in Players, UnseatPlayer(p) PROVE Goal
      BY <1>1, <2>2, <2>4, UnseatRuns
    <2>5. ASSUME NEW p \in Players, Play(p) PROVE Goal
      BY <1>2, <2>2, <2>5
    <2>6. CASE Tick
      BY <1>1, <2>2, <2>6, TickRuns
    <2>. QED BY <1>4, <2>3, <2>4, <2>5, <2>6 DEF Next
  <1>. QED BY <1>3, <1>4

LEMMA RunsAlways == Spec => [](IInv /\ Staged(t))
  <1>1. Init => Staged(t)
    BY StagedInit
  <1>2. IInv /\ Staged(t) /\ [Next]_t => Staged(t)'
    BY Runs
  <1>. QED BY <1>1, <1>2, Inductive, PTL DEF Spec

\* A match in play comes to its end by its cards and rounds alone: nothing restarts
\* it, nothing is dealt in mid-round, and the card of whoever is on turn, played by
\* them or by their timeout, is one card less, a new round or the end (logic.rs
\* play_card, resolve_trick, run_due_timeouts).
THEOREM MatchesRunOn == Spec => MatchRunsOn
  <1>1. IInv /\ Staged(t) /\ [Next]_t =>
          [t.phase = "Playing" =>
             /\ RunsOn(t', t)
             /\ \A p \in Players : Play(p) \/ TimesOut(p) => Spends(t', t, p)]_t
    BY Runs
  <1>. QED BY <1>1, RunsAlways, PTL DEF Spec, MatchRunsOn

\* A full table waits for nothing that is not coming, but in the dead round, which
\* all who were dealt in have left: in play the one on turn holds a card, a live
\* timeout will play it for them and no stale NewMatch can cut the match short;
\* otherwise exactly one NewMatch is timed or due (logic.rs seat_player,
\* arm_turn_timeout, finish_match, run_due_timeouts).
THEOREM FullTablesMove == Spec => []FullTableMoves
  <1>1. ASSUME IInv, Staged(t), Full(t), ~DeadRound
        PROVE  \/ /\ t.phase = "Playing" /\ NoNewMatch(t.timeouts) /\ NoNewMatch(t.batch)
                  /\ \E p \in Players : OnTurn(t.turns, p) /\ t.hands[p] > 0 /\ HasClock(p)
               \/ /\ t.phase = "Finished"
                  /\ \/ OneNewMatch(t.timeouts) /\ NoNewMatch(t.batch)
                     \/ t.timeouts = <<>> /\ OneNewMatch(t.batch)
    <2>1. CASE t.phase = "Playing"
      <3>1. Good(t) /\ Clock(t) /\ Lap(t) /\ t.turns.actors \in Seq(Players) /\ t.turns.actors # <<>>
        BY <1>1, <2>1, Fields DEF IInv, Good, Sound, Hands, DeadRound
      <3>2. Len(t.turns.actors) # 0 /\ DOMAIN t.turns.actors = 1..Len(t.turns.actors)
        BY <3>1
      <3>3. t.turns.current \in DOMAIN t.turns.actors
        BY <3>1, <3>2 DEF Lap
      <3>. DEFINE p == t.turns.actors[t.turns.current]
      <3>4. p \in Players /\ OnTurn(t.turns, p)
        BY <3>1, <3>3 DEF OnTurn
      <3>. HIDE DEF p
      <3>5. t.hands[p] > 0
        BY <2>1, <3>1, <3>4, OnTurnHolds
      <3>6. HasClock(p)
        BY <2>1, <3>1, <3>4 DEF Clock, HasClock
      <3>7. NoNewMatch(t.timeouts) /\ NoNewMatch(t.batch)
        BY <1>1, <2>1 DEF Staged
      <3>. QED BY <2>1, <3>4, <3>5, <3>6, <3>7
    <2>2. CASE t.phase # "Playing"
      BY <1>1, <2>2 DEF Staged, Intermitting
    <2>. QED BY <2>1, <2>2
  <1>2. IInv /\ Staged(t) => FullTableMoves
    BY <1>1 DEF FullTableMoves
  <1>. QED BY <1>2, RunsAlways, PTL
=============================================================================
