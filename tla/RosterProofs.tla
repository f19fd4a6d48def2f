---------------------------- MODULE RosterProofs ----------------------------
(***************************************************************************)
(* For any people, bots, ranks and number of seats: seats and holders name *)
(* each other, nobody is in two places, the queue is in rank order, a      *)
(* finished resolve leaves nobody waiting who should sit, it unseats only  *)
(* for a strictly better rank, nobody loses the rank they came with, and   *)
(* no round of it undoes another.                                          *)
(***************************************************************************)
EXTENDS Roster, SequenceTheorems, WellFoundedInduction, TLAPS

-----------------------------------------------------------------------------
(* Sequences.                                                              *)

LEMMA FirstIsLeast ==
  ASSUME NEW I \in SUBSET Nat, I # {}
  PROVE  First(I) \in I /\ \A j \in I : First(I) <= j
  <1>1. IsWellFoundedOn(OpToRel(<, Nat), Nat)
    BY NatLessThanWellFounded
  <1>2. \E i \in I : \A j \in I : ~(<<j, i>> \in OpToRel(<, Nat))
    BY <1>1, WFMin, Zenon
  <1>3. PICK i \in I : \A j \in I : ~(<<j, i>> \in OpToRel(<, Nat))
    BY <1>2
  <1>4. \A j \in I : ~(j < i)
    BY <1>3, Zenon DEF OpToRel
  <1>5. \A j \in I : i <= j
    BY <1>4
  <1>. QED BY <1>5 DEF First

\* p is q with e at place at.
Inserted(p, q, at, e) ==
  /\ p \in Seq(Entry) /\ Len(p) = Len(q) + 1
  /\ \A i \in 1..Len(q) + 1 : p[i] = IF i < at THEN q[i] ELSE IF i = at THEN e ELSE q[i - 1]

LEMMA InsertShape ==
  ASSUME NEW q \in Seq(Entry), NEW e \in Entry, NEW at \in 1..Len(q) + 1
  PROVE  Inserted(InsertAt(q, at, e), q, at, e)
  <1>. DEFINE front == SubSeq(q, 1, at - 1)
              back == SubSeq(q, at, Len(q))
  <1>1. front \in Seq(Entry) /\ Len(front) = at - 1 /\ \A i \in 1..at - 1 : front[i] = q[i]
    OBVIOUS
  <1>2. back \in Seq(Entry) /\ Len(back) = Len(q) - at + 1 /\ \A i \in 1..Len(q) - at + 1 : back[i] = q[at + i - 1]
    OBVIOUS
  <1>3. <<e>> \in Seq(Entry) /\ Len(<<e>>) = 1 /\ <<e>>[1] = e
    OBVIOUS
  <1>. HIDE DEF front, back
  <1>4. front \o <<e>> \in Seq(Entry) /\ Len(front \o <<e>>) = at
        /\ \A i \in 1..at : (front \o <<e>>)[i] = IF i < at THEN q[i] ELSE e
    <2>1. front \o <<e>> \in Seq(Entry) /\ Len(front \o <<e>>) = Len(front) + Len(<<e>>)
      BY <1>1, <1>3, ConcatProperties
    <2>2. \A i \in 1..Len(front) + Len(<<e>>) :
            (front \o <<e>>)[i] = IF i <= Len(front) THEN front[i] ELSE <<e>>[i - Len(front)]
      BY <1>1, <1>3, ConcatProperties
    <2>3. Len(front) + Len(<<e>>) = at /\ Len(front) = at - 1 /\ at \in Nat
      BY <1>1, <1>3
    <2>4. \A i \in 1..at : i < at => (front \o <<e>>)[i] = q[i]
      BY <1>1, <2>2, <2>3
    <2>5. (front \o <<e>>)[at] = <<e>>[1]
      <3>1. at \in 1..Len(front) + Len(<<e>>) /\ ~(at <= Len(front)) /\ at - Len(front) = 1
        BY <2>3
      <3>2. (front \o <<e>>)[at] = <<e>>[at - Len(front)]
        BY <2>2, <3>1
      <3>. QED BY <3>1, <3>2
    <2>6. \A i \in 1..at : (front \o <<e>>)[i] = IF i < at THEN q[i] ELSE e
      BY <1>3, <2>3, <2>4, <2>5
    <2>. QED BY <2>1, <2>3, <2>6
  <1>. DEFINE head == front \o <<e>>
  <1>. HIDE DEF head
  <1>5. /\ head \o back \in Seq(Entry)
        /\ Len(head \o back) = Len(q) + 1
        /\ \A i \in 1..Len(q) + 1 : (head \o back)[i] = IF i <= at THEN head[i] ELSE back[i - at]
    <2>1. head \in Seq(Entry) /\ Len(head) = at
      BY <1>4 DEF head
    <2>2. /\ head \o back \in Seq(Entry) /\ Len(head \o back) = Len(head) + Len(back)
          /\ \A i \in 1..Len(head) + Len(back) :
               (head \o back)[i] = IF i <= Len(head) THEN head[i] ELSE back[i - Len(head)]
      BY <1>2, <2>1, ConcatProperties
    <2>. QED BY <1>2, <2>1, <2>2
  <1>6. InsertAt(q, at, e) = head \o back
    BY DEF InsertAt, head, front, back
  <1>7. ASSUME NEW i \in 1..Len(q) + 1
        PROVE  (head \o back)[i] = IF i < at THEN q[i] ELSE IF i = at THEN e ELSE q[i - 1]
    <2>1. \A j \in 1..at : head[j] = IF j < at THEN q[j] ELSE e
      BY <1>4 DEF head
    <2>2. i > at => i - at \in 1..Len(q) - at + 1 /\ at + (i - at) - 1 = i - 1
      OBVIOUS
    <2>3. i > at => back[i - at] = q[i - 1]
      BY <1>2, <2>2
    <2>4. (head \o back)[i] = IF i <= at THEN head[i] ELSE back[i - at]
      BY <1>5
    <2>. QED BY <2>1, <2>3, <2>4
  <1>. HIDE DEF back
  <1>8. \A i \in 1..Len(q) + 1 : (head \o back)[i] = IF i < at THEN q[i] ELSE IF i = at THEN e ELSE q[i - 1]
    BY <1>7
  <1>. QED BY <1>5, <1>6, <1>8 DEF Inserted

LEMMA RemoveShape ==
  ASSUME NEW q \in Seq(Entry), NEW at \in 1..Len(q)
  PROVE  /\ RemoveAt(q, at) \in Seq(Entry)
         /\ Len(RemoveAt(q, at)) = Len(q) - 1
         /\ \A i \in 1..Len(q) - 1 : RemoveAt(q, at)[i] = IF i < at THEN q[i] ELSE q[i + 1]
  <1>. DEFINE front == SubSeq(q, 1, at - 1)
              back == SubSeq(q, at + 1, Len(q))
  <1>1. front \in Seq(Entry) /\ Len(front) = at - 1 /\ \A i \in 1..at - 1 : front[i] = q[i]
    OBVIOUS
  <1>2. back \in Seq(Entry) /\ Len(back) = Len(q) - at /\ \A i \in 1..Len(q) - at : back[i] = q[at + i]
    OBVIOUS
  <1>. HIDE DEF front, back
  <1>3. /\ front \o back \in Seq(Entry)
        /\ Len(front \o back) = Len(q) - 1
        /\ \A i \in 1..Len(q) - 1 : (front \o back)[i] = IF i < at THEN front[i] ELSE back[i - at + 1]
    <2>1. /\ front \o back \in Seq(Entry) /\ Len(front \o back) = Len(front) + Len(back)
          /\ \A i \in 1..Len(front) + Len(back) :
               (front \o back)[i] = IF i <= Len(front) THEN front[i] ELSE back[i - Len(front)]
      BY <1>1, <1>2, ConcatProperties
    <2>. QED BY <1>1, <1>2, <2>1
  <1>4. RemoveAt(q, at) = front \o back
    BY DEF RemoveAt, front, back
  <1>5. ASSUME NEW i \in 1..Len(q) - 1
        PROVE  (front \o back)[i] = IF i < at THEN q[i] ELSE q[i + 1]
    BY <1>1, <1>2, <1>3
  <1>. QED BY <1>3, <1>4, <1>5

LEMMA TailShape ==
  ASSUME NEW S, NEW q \in Seq(S), q # <<>>
  PROVE  /\ Tail(q) \in Seq(S) /\ Len(Tail(q)) = Len(q) - 1
         /\ \A i \in 1..Len(q) - 1 : Tail(q)[i] = q[i + 1]
         /\ Head(q) = q[1] /\ q[1] \in S /\ Len(q) > 0
  BY HeadTailProperties

-----------------------------------------------------------------------------
(* The queue.                                                              *)

Waits(q, k) == \E i \in 1..Len(q) : q[i].key = k

\* A queue in rank order that names nobody twice.
Line(q) ==
  /\ q \in Seq(Entry)
  /\ \A i, j \in 1..Len(q) : q[i].key = q[j].key => i = j
  /\ \A i, j \in 1..Len(q) : i < j => q[i].rank <= q[j].rank

LEMMA RanksAreNaturals == Ranks \subseteq Nat /\ \A r \in Ranks : r # NoRank
  BY RosterAssumption DEF Ranks, NoRank

LEMMA EntryTyped ==
  ASSUME NEW q \in Seq(Entry), NEW i \in 1..Len(q)
  PROVE  q[i] \in Entry /\ q[i].key \in Keys /\ q[i].rank \in Ranks /\ q[i].rank \in Nat
  <1>1. q[i] \in Entry
    OBVIOUS
  <1>2. \A e \in Entry : e.key \in Keys /\ e.rank \in Ranks
    BY DEF Entry
  <1>. QED BY <1>1, <1>2, RanksAreNaturals

\* push: one more in line, nobody else moved past another.
LEMMA PushKeepsLine ==
  ASSUME NEW q, Line(q), NEW k \in Keys, NEW rank \in Ranks, ~Waits(q, k)
  PROVE  LET p == Push(q, k, rank)
         IN /\ Line(p)
            /\ \A x : Waits(p, x) => x = k \/ Waits(q, x)
            /\ q # <<>> /\ q[1].rank < rank => p # <<>> /\ p[1] = q[1]
  <1>. DEFINE worse == {i \in 1..Len(q) : q[i].rank > rank}
              at == IF worse = {} THEN Len(q) + 1 ELSE First(worse)
              e == [key |-> k, rank |-> rank]
              p == Push(q, k, rank)
  <1>1. q \in Seq(Entry) /\ DOMAIN q = 1..Len(q) /\ Len(q) \in Nat
    BY DEF Line
  <1>2. e \in Entry /\ e.key = k /\ e.rank = rank /\ rank \in Nat
    BY RanksAreNaturals DEF Entry
  <1>3. worse # {} => at \in worse /\ \A j \in worse : at <= j
    <2>1. worse \in SUBSET Nat
      BY <1>1
    <2>. QED BY <2>1, FirstIsLeast
  <1>4. at \in 1..Len(q) + 1
    BY <1>1, <1>3
  <1>5. \A i \in 1..Len(q) : i < at => q[i].rank <= rank
    <2>. SUFFICES ASSUME NEW i \in 1..Len(q), i < at PROVE q[i].rank <= rank
      OBVIOUS
    <2>1. i \notin worse
      <3>1. worse # {} => \A j \in worse : at <= j
        BY <1>3
      <3>2. \A j \in worse : at <= j /\ at \in Nat /\ j \in Nat
        BY <1>1, <1>4, <3>1
      <3>. HIDE DEF at, worse
      <3>. QED BY <1>1, <3>2
    <2>2. q[i].rank \in Nat
      BY <1>1, EntryTyped
    <2>3. ~(q[i].rank > rank)
      BY <2>1
    <2>. HIDE DEF at, worse
    <2>. QED BY <1>2, <2>2, <2>3
  <1>6. \A i \in 1..Len(q) : i >= at => q[i].rank > rank
    <2>. SUFFICES ASSUME NEW i \in 1..Len(q), i >= at PROVE q[i].rank > rank
      OBVIOUS
    <2>1. at \in 1..Len(q) /\ q[at].rank > rank
      BY <1>1, <1>3
    <2>2. i = at \/ q[at].rank <= q[i].rank
      BY <2>1 DEF Line
    <2>3. q[at].rank \in Nat /\ q[i].rank \in Nat
      BY <1>1, <2>1, EntryTyped
    <2>. HIDE DEF at
    <2>. QED BY <1>2, <2>1, <2>2, <2>3
  <1>7. p = InsertAt(q, at, e)
    BY <1>1 DEF Push
  <1>. HIDE DEF at, e, p, worse
  <1>8. /\ p \in Seq(Entry) /\ Len(p) = Len(q) + 1
        /\ \A i \in 1..Len(q) + 1 : p[i] = IF i < at THEN q[i] ELSE IF i = at THEN e ELSE q[i - 1]
    <2>1. Inserted(InsertAt(q, at, e), q, at, e)
      BY <1>1, <1>2, <1>4, InsertShape, Zenon
    <2>2. Inserted(p, q, at, e)
      BY <1>7, <2>1, Zenon
    <2>. QED BY <2>2 DEF Inserted
  <1>. DEFINE old(i) == IF i < at THEN i ELSE i - 1
  <1>9. \A i \in 1..Len(q) + 1 : i # at => old(i) \in 1..Len(q) /\ p[i] = q[old(i)]
    BY <1>1, <1>4, <1>8
  <1>10. p[at] = e
    BY <1>4, <1>8
  <1>11. \A i, j \in 1..Len(p) : i # at /\ j # at =>
           (old(i) = old(j) => i = j) /\ (i < j => old(i) < old(j))
    BY <1>1, <1>4, <1>8
  <1>12. \A i \in 1..Len(p) : (i > at => old(i) >= at) /\ (i < at => old(i) = i)
    BY <1>1, <1>4, <1>8
  <1>. HIDE DEF old
  <1>13. \A x : Waits(p, x) => x = k \/ Waits(q, x)
    BY <1>2, <1>8, <1>9, <1>10 DEF Waits
  <1>14. \A i, j \in 1..Len(p) : p[i].key = p[j].key => i = j
    <2>. SUFFICES ASSUME NEW i \in 1..Len(p), NEW j \in 1..Len(p), p[i].key = p[j].key PROVE i = j
      OBVIOUS
    <2>1. CASE i # at /\ j # at
      <3>1. old(i) = old(j)
        BY <1>8, <1>9, <2>1 DEF Line
      <3>. QED BY <1>11, <2>1, <3>1
    <2>2. CASE i = at \/ j = at
      <3>1. \A l \in 1..Len(p) : l # at => p[l].key # k
        BY <1>8, <1>9 DEF Waits
      <3>2. p[at].key = k
        BY <1>2, <1>10
      <3>. QED BY <2>2, <3>1, <3>2
    <2>. QED BY <2>1, <2>2
  <1>15. \A i, j \in 1..Len(p) : i < j => p[i].rank <= p[j].rank
    <2>. SUFFICES ASSUME NEW i \in 1..Len(p), NEW j \in 1..Len(p), i < j PROVE p[i].rank <= p[j].rank
      OBVIOUS
    <2>1. CASE i # at /\ j # at
      <3>1. old(i) < old(j) /\ old(i) \in 1..Len(q) /\ old(j) \in 1..Len(q)
        BY <1>8, <1>9, <1>11, <2>1
      <3>2. q[old(i)].rank <= q[old(j)].rank
        BY <3>1 DEF Line
      <3>. QED BY <1>8, <1>9, <2>1, <3>2
    <2>2. CASE i = at
      <3>1. j # at /\ old(j) >= at /\ old(j) \in 1..Len(q)
        BY <1>4, <1>8, <1>9, <1>12, <2>2
      <3>2. q[old(j)].rank > rank
        BY <1>6, <3>1
      <3>3. q[old(j)].rank \in Nat
        BY <1>1, <3>1, EntryTyped
      <3>4. p[j] = q[old(j)] /\ p[i].rank = rank
        BY <1>2, <1>8, <1>9, <1>10, <2>2, <3>1
      <3>. QED BY <1>2, <3>2, <3>3, <3>4
    <2>3. CASE j = at
      <3>1. i < at /\ i \in 1..Len(q)
        BY <1>1, <1>4, <1>8, <2>3
      <3>. QED BY <1>2, <1>5, <1>8, <1>10, <2>3, <3>1
    <2>. QED BY <2>1, <2>2, <2>3
  <1>16. ASSUME q # <<>>, q[1].rank < rank PROVE p # <<>> /\ p[1] = q[1]
    <2>1. 1 \in 1..Len(q)
      BY <1>1, <1>16
    <2>2. 1 < at
      BY <1>1, <1>2, <1>4, <1>6, <1>16, <2>1, EntryTyped
    <2>. QED BY <1>1, <1>8, <2>1, <2>2
  <1>. QED BY <1>8, <1>13, <1>14, <1>15, <1>16 DEF Line, p

\* remove, at whatever place: the others keep theirs.
LEMMA RemoveKeepsLine ==
  ASSUME NEW q, Line(q), NEW at \in 1..Len(q)
  PROVE  Line(RemoveAt(q, at)) /\ \A x : Waits(RemoveAt(q, at), x) => Waits(q, x)
  <1>. DEFINE p == RemoveAt(q, at)
              old(i) == IF i < at THEN i ELSE i + 1
  <1>1. q \in Seq(Entry) /\ Len(q) \in Nat
    BY DEF Line
  <1>2. /\ p \in Seq(Entry) /\ Len(p) = Len(q) - 1
        /\ \A i \in 1..Len(q) - 1 : p[i] = IF i < at THEN q[i] ELSE q[i + 1]
    BY <1>1, RemoveShape, Zenon
  <1>. HIDE DEF p
  <1>3. \A i \in 1..Len(p) : old(i) \in 1..Len(q) /\ p[i] = q[old(i)]
    BY <1>1, <1>2
  <1>4. \A i, j \in 1..Len(p) : (old(i) = old(j) => i = j) /\ (i < j => old(i) < old(j))
    BY <1>1, <1>2
  <1>. HIDE DEF old
  <1>. QED BY <1>2, <1>3, <1>4 DEF Line, Waits, p

LEMMA WithoutKeepsLine ==
  ASSUME NEW q, Line(q), NEW k
  PROVE  Line(Without(q, k)) /\ \A x : Waits(Without(q, k), x) => Waits(q, x)
  <1>. DEFINE at == {i \in DOMAIN q : q[i].key = k}
  <1>1. DOMAIN q = 1..Len(q) /\ Len(q) \in Nat
    BY DEF Line
  <1>2. at # {} => First(at) \in 1..Len(q)
    <2>1. at \in SUBSET Nat
      BY <1>1
    <2>. QED BY <1>1, <2>1, FirstIsLeast
  <1>. QED BY <1>2, RemoveKeepsLine DEF Without

LEMMA TailKeepsLine ==
  ASSUME NEW q, Line(q), q # <<>>
  PROVE  /\ Line(Tail(q))
         /\ \A x : Waits(Tail(q), x) => Waits(q, x) /\ x # Head(q).key
         /\ Head(q) = q[1] /\ Waits(q, Head(q).key)
         /\ Head(q).key \in Keys /\ Head(q).rank \in Ranks
  <1>1. q \in Seq(Entry) /\ Len(q) \in Nat
    BY DEF Line
  <1>2. /\ Tail(q) \in Seq(Entry) /\ Len(Tail(q)) = Len(q) - 1
        /\ \A i \in 1..Len(q) - 1 : Tail(q)[i] = q[i + 1]
        /\ Head(q) = q[1] /\ Len(q) > 0
    BY <1>1, TailShape
  <1>3. 1 \in 1..Len(q)
    BY <1>1, <1>2
  <1>4. Head(q).key \in Keys /\ Head(q).rank \in Ranks
    BY <1>1, <1>2, <1>3, EntryTyped
  <1>5. \A i \in 1..Len(Tail(q)) : i + 1 \in 1..Len(q) /\ Tail(q)[i] = q[i + 1] /\ i + 1 # 1
    BY <1>1, <1>2
  <1>6. Line(Tail(q))
    <2>1. \A i, j \in 1..Len(Tail(q)) : Tail(q)[i].key = Tail(q)[j].key => i = j
      BY <1>1, <1>5 DEF Line
    <2>2. \A i, j \in 1..Len(Tail(q)) : i < j => Tail(q)[i].rank <= Tail(q)[j].rank
      BY <1>1, <1>5 DEF Line
    <2>. QED BY <1>2, <2>1, <2>2 DEF Line
  <1>7. \A x : Waits(Tail(q), x) => Waits(q, x) /\ x # Head(q).key
    BY <1>2, <1>3, <1>5 DEF Line, Waits
  <1>. QED BY <1>2, <1>3, <1>4, <1>6, <1>7 DEF Waits

-----------------------------------------------------------------------------
(* The seats.                                                              *)

PlacesOK ==
  /\ slots \in [Seats -> Slot]
  /\ index \in [Keys -> Seats \cup {NoSeat}]
  /\ ranks \in [Keys -> Ranks \cup {NoRank}]
  /\ SeatsAgree

LEMMA SlotFacts ==
  /\ \A k \in Keys : /\ Human(k) \in Slot /\ Human(k).key = k /\ Human(k).state = "Human"
                     /\ Held(k) \in Slot /\ Held(k).key = k /\ Held(k).state = "Held"
                     /\ Human(k) # Open /\ Held(k) # Open /\ k # NoKey
  /\ Open \in Slot /\ Open.key = NoKey /\ Open.state = "Open"
  /\ \A t \in Slot : t # Open => t.key \in Keys /\ t.state \in {"Human", "Held"}
  /\ NoSeat \notin Seats
  BY RosterAssumption DEF Human, Held, Open, Slot, Keys, NoSeat, Seats

\* Whoever sits has a rank to be compared by.
LEMMA SeatedFacts ==
  ASSUME PlacesOK
  PROVE  /\ \A s \in Seats : slots[s] # Open =>
              slots[s].key \in Keys /\ index[slots[s].key] = s /\ RankAt(s) \in Ranks /\ RankAt(s) \in Nat
         /\ \A s \in HumanSeats : s \in Seats /\ slots[s] # Open /\ RankAt(s) \in Nat
  <1>1. ASSUME NEW s \in Seats, slots[s] # Open
        PROVE  slots[s].key \in Keys /\ index[slots[s].key] = s /\ RankAt(s) \in Ranks /\ RankAt(s) \in Nat
    <2>1. slots[s].key \in Keys /\ index[slots[s].key] = s
      BY <1>1, SlotFacts DEF PlacesOK, SeatsAgree
    <2>2. ranks[slots[s].key] \in Ranks
      BY <2>1, SlotFacts DEF PlacesOK, SeatsAgree
    <2>. QED BY <2>1, <2>2, RanksAreNaturals DEF RankAt
  <1>2. \A s \in HumanSeats : s \in Seats /\ slots[s] # Open
    BY SlotFacts DEF HumanSeats
  <1>. QED BY <1>1, <1>2

LEMMA FirstOpenIsOpen ==
  ASSUME OpenSeats # {}
  PROVE  First(OpenSeats) \in Seats /\ slots[First(OpenSeats)] = Open
  <1>1. OpenSeats \in SUBSET Nat
    BY RosterAssumption DEF OpenSeats, Seats
  <1>. QED BY <1>1, FirstIsLeast DEF OpenSeats

LEMMA SeatKeepsPlaces ==
  ASSUME PlacesOK, NEW k \in Keys, NEW s \in Seats, NEW rank \in Ranks,
         index[k] = NoSeat, slots[s] = Open, Seat(k, s, rank)
  PROVE  /\ PlacesOK'
         /\ index'[k] = s
         /\ \A x \in Keys : x # k => index'[x] = index[x]
  <1>1. /\ slots' \in [Seats -> Slot] /\ index' \in [Keys -> Seats \cup {NoSeat}]
        /\ ranks' \in [Keys -> Ranks \cup {NoRank}]
    BY SlotFacts DEF PlacesOK, Seat
  <1>2. \A u \in Seats : slots'[u] # Open => index'[slots'[u].key] = u
    <2>. SUFFICES ASSUME NEW u \in Seats, slots'[u] # Open PROVE index'[slots'[u].key] = u
      OBVIOUS
    <2>1. CASE u = s
      BY <2>1, SlotFacts DEF PlacesOK, Seat
    <2>2. CASE u # s
      <3>1. slots'[u] = slots[u] /\ slots[u].key \in Keys /\ index[slots[u].key] = u
        BY <2>2, SlotFacts DEF PlacesOK, Seat, SeatsAgree
      <3>2. slots[u].key # k
        BY <3>1, SlotFacts
      <3>. QED BY <3>1, <3>2 DEF PlacesOK, Seat
    <2>. QED BY <2>1, <2>2
  <1>3. \A x \in Keys : index'[x] # NoSeat => slots'[index'[x]].key = x
    <2>. SUFFICES ASSUME NEW x \in Keys, index'[x] # NoSeat PROVE slots'[index'[x]].key = x
      OBVIOUS
    <2>1. CASE x = k
      BY <2>1, SlotFacts DEF PlacesOK, Seat
    <2>2. CASE x # k
      <3>1. index'[x] = index[x] /\ index[x] \in Seats /\ slots[index[x]].key = x
        BY <2>2 DEF PlacesOK, Seat, SeatsAgree
      <3>2. index[x] # s
        BY <3>1, SlotFacts
      <3>. QED BY <3>1, <3>2 DEF PlacesOK, Seat
    <2>. QED BY <2>1, <2>2
  <1>4. \A x \in Keys : ranks'[x] = NoRank <=> index'[x] = NoSeat
    BY SlotFacts, RanksAreNaturals DEF PlacesOK, Seat, SeatsAgree
  <1>. QED BY <1>1, <1>2, <1>3, <1>4 DEF PlacesOK, SeatsAgree, Seat

LEMMA FreeKeepsPlaces ==
  ASSUME PlacesOK, NEW k \in Keys, index[k] # NoSeat, Free(k)
  PROVE  /\ PlacesOK'
         /\ index'[k] = NoSeat
         /\ \A x \in Keys : x # k => index'[x] = index[x]
  <1>1. /\ slots' \in [Seats -> Slot] /\ index' \in [Keys -> Seats \cup {NoSeat}]
        /\ ranks' \in [Keys -> Ranks \cup {NoRank}]
    BY SlotFacts DEF PlacesOK, Free
  <1>2. \A u \in Seats : slots'[u] # Open => index'[slots'[u].key] = u
    <2>. SUFFICES ASSUME NEW u \in Seats, slots'[u] # Open PROVE index'[slots'[u].key] = u
      OBVIOUS
    <2>1. u # index[k] /\ slots'[u] = slots[u]
      BY DEF PlacesOK, Free
    <2>2. slots[u].key \in Keys /\ index[slots[u].key] = u
      BY <2>1, SlotFacts DEF PlacesOK, SeatsAgree
    <2>. QED BY <2>1, <2>2 DEF PlacesOK, Free
  <1>3. \A x \in Keys : index'[x] # NoSeat => slots'[index'[x]].key = x
    <2>. SUFFICES ASSUME NEW x \in Keys, index'[x] # NoSeat PROVE slots'[index'[x]].key = x
      OBVIOUS
    <2>1. x # k /\ index'[x] = index[x] /\ index[x] \in Seats
      BY DEF PlacesOK, Free
    <2>2. slots[index[x]].key = x /\ slots[index[k]].key = k
      BY <2>1 DEF PlacesOK, SeatsAgree
    <2>. QED BY <2>1, <2>2 DEF PlacesOK, Free
  <1>4. \A x \in Keys : ranks'[x] = NoRank <=> index'[x] = NoSeat
    BY DEF PlacesOK, Free, SeatsAgree
  <1>. QED BY <1>1, <1>2, <1>3, <1>4 DEF PlacesOK, SeatsAgree, Free

\* A hold or a resumption.
LEMMA MarkKeepsPlaces ==
  ASSUME PlacesOK, NEW k \in Keys, index[k] # NoSeat,
         NEW mark \in {Human(k), Held(k)},
         slots' = [slots EXCEPT ![index[k]] = mark],
         UNCHANGED <<index, ranks>>
  PROVE  PlacesOK'
  <1>1. mark \in Slot /\ mark.key = k
    BY SlotFacts
  <1>2. slots' \in [Seats -> Slot] /\ \A u \in Seats : slots'[u] = IF u = index[k] THEN mark ELSE slots[u]
    BY <1>1 DEF PlacesOK
  <1>3. index[k] \in Seats /\ slots[index[k]].key = k
    BY DEF PlacesOK, SeatsAgree
  <1>4. \A u \in Seats : slots'[u] # Open => index'[slots'[u].key] = u
    BY <1>1, <1>2, <1>3 DEF PlacesOK, SeatsAgree
  <1>5. \A x \in Keys : index'[x] # NoSeat => slots'[index'[x]].key = x
    BY <1>1, <1>2, <1>3 DEF PlacesOK, SeatsAgree
  <1>. QED BY <1>2, <1>4, <1>5 DEF PlacesOK, SeatsAgree

\* One displacement: the seat changes hands.
LEMMA SwapKeepsPlaces ==
  ASSUME PlacesOK, NEW seat \in Seats, NEW loser \in Keys, NEW winner \in Keys, NEW rank \in Ranks,
         slots[seat] # Open, slots[seat].key = loser, index[winner] = NoSeat,
         slots' = [slots EXCEPT ![seat] = Human(winner)],
         index' = [index EXCEPT ![loser] = NoSeat, ![winner] = seat],
         ranks' = [ranks EXCEPT ![loser] = NoRank, ![winner] = rank]
  PROVE  /\ PlacesOK'
         /\ index'[loser] = NoSeat
         /\ \A x \in Keys : x # winner /\ x # loser => index'[x] = index[x]
  <1>1. index[loser] = seat /\ loser # winner
    BY SlotFacts DEF PlacesOK, SeatsAgree
  <1>2. /\ slots' \in [Seats -> Slot] /\ index' \in [Keys -> Seats \cup {NoSeat}]
        /\ ranks' \in [Keys -> Ranks \cup {NoRank}]
    BY SlotFacts DEF PlacesOK
  <1>3. \A x \in Keys : index'[x] = IF x = winner THEN seat ELSE IF x = loser THEN NoSeat ELSE index[x]
    BY <1>1 DEF PlacesOK
  <1>4. \A u \in Seats : slots'[u] = IF u = seat THEN Human(winner) ELSE slots[u]
    BY DEF PlacesOK
  <1>5. \A u \in Seats : slots'[u] # Open => index'[slots'[u].key] = u
    <2>. SUFFICES ASSUME NEW u \in Seats, slots'[u] # Open PROVE index'[slots'[u].key] = u
      OBVIOUS
    <2>1. CASE u = seat
      <3>1. slots'[u].key = winner
        BY <1>4, <2>1, SlotFacts
      <3>2. index'[winner] = seat
        BY <1>3
      <3>. QED BY <2>1, <3>1, <3>2
    <2>2. CASE u # seat
      <3>1. slots'[u] = slots[u] /\ slots[u].key \in Keys /\ index[slots[u].key] = u
        BY <1>4, <2>2, SlotFacts DEF PlacesOK, SeatsAgree
      <3>2. slots[u].key # winner /\ slots[u].key # loser
        BY <1>1, <2>2, <3>1, SlotFacts
      <3>3. index'[slots[u].key] = index[slots[u].key]
        BY <1>3, <3>1, <3>2
      <3>. QED BY <3>1, <3>3
    <2>. QED BY <2>1, <2>2
  <1>6. \A x \in Keys : index'[x] # NoSeat => slots'[index'[x]].key = x
    <2>. SUFFICES ASSUME NEW x \in Keys, index'[x] # NoSeat PROVE slots'[index'[x]].key = x
      OBVIOUS
    <2>1. CASE x = winner
      <3>1. index'[x] = seat
        BY <1>3, <2>1
      <3>2. slots'[seat].key = winner
        BY <1>4, SlotFacts
      <3>. QED BY <2>1, <3>1, <3>2
    <2>2. CASE x # winner
      <3>1. x # loser /\ index'[x] = index[x] /\ index[x] \in Seats /\ slots[index[x]].key = x
        BY <1>2, <1>3, <2>2 DEF PlacesOK, SeatsAgree
      <3>. QED BY <1>4, <3>1
    <2>. QED BY <2>1, <2>2
  <1>7. \A x \in Keys : ranks'[x] = NoRank <=> index'[x] = NoSeat
    BY <1>1, <1>3, SlotFacts, RanksAreNaturals DEF PlacesOK, SeatsAgree
  <1>. QED BY <1>1, <1>2, <1>3, <1>5, <1>6, <1>7 DEF PlacesOK, SeatsAgree

-----------------------------------------------------------------------------
(* The inductive invariant: seats and line, that the seated do not wait,   *)
(* and that the second loop of resolve starts from no seat anyone waits    *)
(* beside.                                                                 *)

LineOK == Line(queue) /\ \A k \in Keys : Waits(queue, k) => index[k] = NoSeat

CrewOK ==
  /\ crew \in [Seats -> Bots \cup {NoKey}]
  /\ \A s, u \in Seats : crew[s] = crew[u] /\ crew[s] # NoKey => s = u

RestOK ==
  /\ policy \in [waitlist : BOOLEAN, hold : BOOLEAN]
  /\ locked \in BOOLEAN
  /\ phase \in {"idle", "promoting", "displacing", "pruning"}

Promotable == phase = "displacing" => queue = <<>> \/ OpenSeats = {}

IInv == PlacesOK /\ LineOK /\ CrewOK /\ RestOK /\ Promotable

LEMMA QueuedWaits == queue \in Seq(Entry) => \A k : Queued(k) <=> Waits(queue, k)
  BY DEF Queued, Waits

LEMMA IInvInit == Init => IInv
  <1>. SUFFICES ASSUME Init PROVE IInv
    OBVIOUS
  <1>1. PlacesOK
    BY SlotFacts DEF Init, PlacesOK, SeatsAgree
  <1>2. queue \in Seq(Entry) /\ Len(queue) = 0
    BY DEF Init
  <1>3. LineOK
    BY <1>2 DEF LineOK, Line, Waits
  <1>4. CrewOK /\ RestOK /\ Promotable
    BY DEF Init, CrewOK, RestOK, Promotable
  <1>. QED BY <1>1, <1>3, <1>4 DEF IInv

LEMMA AdmittedKeeps ==
  ASSUME PlacesOK, LineOK, NEW k \in Keys, NEW rank \in Ranks, Admitted(k, rank)
  PROVE  PlacesOK' /\ LineOK' /\ (Stranger(k) => index'[k] = NoSeat \/ index'[k] \in Seats)
  <1>1. queue \in Seq(Entry)
    BY DEF LineOK, Line
  <1>2. CASE /\ IsHeld(k)
             /\ slots' = [slots EXCEPT ![index[k]] = Human(k)]
             /\ UNCHANGED <<index, ranks, queue>>
    <2>1. PlacesOK'
      BY <1>2, MarkKeepsPlaces DEF IsHeld
    <2>. QED BY <1>2, <2>1 DEF LineOK, IsHeld, Stranger
  <1>3. CASE /\ Stranger(k)
             /\ OpenSeats # {}
             /\ Seat(k, First(OpenSeats), rank)
             /\ UNCHANGED queue
    <2>1. /\ PlacesOK'
          /\ index'[k] \in Seats
          /\ \A x \in Keys : x # k => index'[x] = index[x]
      BY <1>3, SeatKeepsPlaces, FirstOpenIsOpen DEF Stranger
    <2>2. ~Waits(queue, k)
      BY <1>1, <1>3, QueuedWaits DEF Stranger
    <2>. QED BY <1>3, <2>1, <2>2 DEF LineOK
  <1>4. CASE /\ Stranger(k)
             /\ queue' = Push(queue, k, rank)
             /\ UNCHANGED seating
    <2>1. ~Waits(queue, k) /\ index[k] = NoSeat
      BY <1>1, <1>4, QueuedWaits DEF Stranger
    <2>2. Line(queue') /\ \A x : Waits(queue', x) => x = k \/ Waits(queue, x)
      BY <1>4, <2>1, PushKeepsLine DEF LineOK
    <2>. QED BY <1>4, <2>1, <2>2 DEF LineOK, PlacesOK, SeatsAgree, seating
  <1>. QED BY <1>2, <1>3, <1>4 DEF Admitted

LEMMA FreeKeeps ==
  ASSUME PlacesOK, LineOK, NEW k \in Keys, index[k] # NoSeat, Free(k), UNCHANGED queue
  PROVE  PlacesOK' /\ LineOK'
  <1>1. PlacesOK' /\ index'[k] = NoSeat /\ \A x \in Keys : x # k => index'[x] = index[x]
    BY FreeKeepsPlaces
  <1>. QED BY <1>1 DEF LineOK

LEMMA WithoutKeeps ==
  ASSUME PlacesOK, LineOK, NEW k, queue' = Without(queue, k), UNCHANGED seating
  PROVE  PlacesOK' /\ LineOK'
  <1>1. Line(queue') /\ \A x : Waits(queue', x) => Waits(queue, x)
    BY WithoutKeepsLine DEF LineOK
  <1>. QED BY <1>1 DEF LineOK, PlacesOK, SeatsAgree, seating

LEMMA DepartedKeeps ==
  ASSUME PlacesOK, LineOK, NEW k \in Keys, Departed(k)
  PROVE  PlacesOK' /\ LineOK'
  <1>1. CASE IsHeld(k) /\ UNCHANGED <<seating, queue>>
    BY <1>1 DEF LineOK, PlacesOK, SeatsAgree, seating
  <1>2. CASE /\ IsHuman(k) /\ policy.hold
             /\ slots' = [slots EXCEPT ![index[k]] = Held(k)]
             /\ UNCHANGED <<index, ranks, queue>>
    <2>1. PlacesOK'
      BY <1>2, MarkKeepsPlaces DEF IsHuman
    <2>. QED BY <1>2, <2>1 DEF LineOK
  <1>3. CASE IsHuman(k) /\ ~policy.hold /\ Free(k) /\ UNCHANGED queue
    BY <1>3, FreeKeeps DEF IsHuman
  <1>4. CASE index[k] = NoSeat /\ queue' = Without(queue, k) /\ UNCHANGED seating
    BY <1>4, WithoutKeeps
  <1>. QED BY <1>1, <1>2, <1>3, <1>4 DEF Departed

LEMMA PromoteKeeps ==
  ASSUME PlacesOK, LineOK, Promote
  PROVE  PlacesOK' /\ LineOK'
  <1>. DEFINE k == Head(queue).key
  <1>1. /\ Line(Tail(queue))
        /\ \A x : Waits(Tail(queue), x) => Waits(queue, x) /\ x # k
        /\ Waits(queue, k) /\ k \in Keys /\ Head(queue).rank \in Ranks
    BY TailKeepsLine DEF Promote, LineOK
  <1>2. index[k] = NoSeat
    BY <1>1 DEF LineOK
  <1>3. PlacesOK' /\ \A x \in Keys : x # k => index'[x] = index[x]
    BY <1>1, <1>2, SeatKeepsPlaces, FirstOpenIsOpen DEF Promote
  <1>. QED BY <1>1, <1>3 DEF LineOK, Promote

\* A displacement: who loses the seat, who takes it, and that the line stays one.
LEMMA DisplaceFacts ==
  ASSUME PlacesOK, LineOK, NEW seat \in Seats, Displace(seat)
  PROVE  /\ slots[seat].state = "Human" /\ slots[seat].key \in Keys
         /\ Requeued(slots[seat].key) # <<>>
         /\ Head(Requeued(slots[seat].key)) = Head(queue)
         /\ Head(queue).rank < RankAt(seat)
         /\ Head(queue).key # slots[seat].key
         /\ PlacesOK' /\ LineOK'
  <1>. DEFINE loser == slots[seat].key
              line == Requeued(loser)
              winner == Head(line)
  <1>1. /\ slots[seat] # Open /\ slots[seat].state = "Human" /\ loser \in Keys /\ index[loser] = seat
    BY SlotFacts DEF Displace, WorstSeated, HumanSeats, PlacesOK, SeatsAgree
  <1>2. ranks[loser] \in Ranks
    BY <1>1, SlotFacts DEF PlacesOK, SeatsAgree
  <1>3. queue # <<>> /\ Head(queue).rank < ranks[loser]
    <2>1. /\ queue # <<>>
          /\ \E s \in HumanSeats : Head(queue).rank < RankAt(s) /\ (RankAt(s) < RankAt(seat) \/ RankAt(s) = RankAt(seat))
      BY DEF Displace, Outranked, WorstSeated
    <2>2. Head(queue).rank \in Nat
      BY <2>1, TailKeepsLine, RanksAreNaturals DEF LineOK
    <2>3. \A s \in HumanSeats : RankAt(s) \in Nat
      BY SeatedFacts
    <2>4. RankAt(seat) = ranks[loser] /\ ranks[loser] \in Nat
      BY <1>2, RanksAreNaturals DEF RankAt
    <2>. QED BY <2>1, <2>2, <2>3, <2>4
  <1>4. /\ Head(queue) = queue[1] /\ Waits(queue, Head(queue).key)
        /\ Head(queue).key \in Keys /\ Head(queue).rank \in Ranks
    BY <1>3, TailKeepsLine DEF LineOK
  <1>5. ~Waits(queue, loser)
    BY <1>1, SlotFacts DEF LineOK
  <1>6. /\ Line(line) /\ line # <<>> /\ line[1] = queue[1]
        /\ \A x : Waits(line, x) => x = loser \/ Waits(queue, x)
    BY <1>1, <1>2, <1>3, <1>4, <1>5, PushKeepsLine DEF LineOK, Requeued
  <1>7. /\ Line(Tail(line)) /\ winner = Head(queue)
        /\ \A x : Waits(Tail(line), x) => Waits(line, x) /\ x # winner.key
    BY <1>4, <1>6, TailKeepsLine
  <1>8. winner.key # loser /\ index[winner.key] = NoSeat
    BY <1>4, <1>5, <1>7 DEF LineOK
  <1>9. /\ PlacesOK' /\ index'[loser] = NoSeat
        /\ \A x \in Keys : x # winner.key /\ x # loser => index'[x] = index[x]
    <2>1. /\ slots' = [slots EXCEPT ![seat] = Human(winner.key)]
          /\ index' = [index EXCEPT ![loser] = NoSeat, ![winner.key] = seat]
          /\ ranks' = [ranks EXCEPT ![loser] = NoRank, ![winner.key] = winner.rank]
      BY DEF Displace
    <2>. HIDE DEF winner, loser
    <2>2. winner.key \in Keys /\ winner.rank \in Ranks
      BY <1>4, <1>7
    <2>. QED BY <1>1, <1>8, <2>1, <2>2, SwapKeepsPlaces DEF loser
  <1>10. LineOK'
    <2>1. queue' = Tail(line)
      BY DEF Displace
    <2>. QED BY <1>6, <1>7, <1>9, <2>1 DEF LineOK
  <1>. QED BY <1>1, <1>3, <1>6, <1>7, <1>8, <1>9, <1>10 DEF RankAt

LEMMA CrewFilled ==
  ASSUME CrewOK, NEW b \in Bots, \A s \in Seats : crew[s] # b,
         NEW u, crew' = IF u = NoSeat THEN crew ELSE [crew EXCEPT ![u] = b],
         u = NoSeat \/ u \in Seats
  PROVE  CrewOK'
  BY DEF CrewOK

LEMMA CrewCleared ==
  ASSUME CrewOK, NEW s \in Seats, crew' = [crew EXCEPT ![s] = NoKey]
  PROVE  CrewOK'
  BY DEF CrewOK

LEMMA IInvStep == IInv /\ [Next]_vars => IInv'
  <1>. SUFFICES ASSUME IInv, [Next]_vars PROVE IInv'
    OBVIOUS
  <1>. USE DEF IInv
  <1>a. PlacesOK /\ UNCHANGED seating => PlacesOK'
    BY DEF PlacesOK, SeatsAgree, seating
  <1>b. LineOK /\ UNCHANGED <<seating, queue>> => LineOK'
    BY DEF LineOK, seating
  <1>c. CrewOK /\ UNCHANGED crew => CrewOK'
    BY DEF CrewOK
  <1>d. RestOK /\ UNCHANGED <<policy, locked, phase>> => RestOK'
    BY DEF RestOK
  <1>e. phase' # "displacing" => Promotable'
    BY DEF Promotable
  <1>1. ASSUME NEW k \in People, NEW rank \in PersonRanks, Admit(k, rank) PROVE IInv'
    <2>1. k \in Keys /\ rank \in Ranks
      BY DEF Keys, Ranks
    <2>2. PlacesOK' /\ LineOK'
      BY <1>1, <2>1, AdmittedKeeps DEF Admit
    <2>. QED BY <1>1, <1>c, <1>d, <1>e, <2>2 DEF Admit
  <1>2. ASSUME NEW k \in People, Depart(k) PROVE IInv'
    <2>1. PlacesOK' /\ LineOK'
      BY <1>2, DepartedKeeps DEF Depart, Keys
    <2>. QED BY <1>2, <1>c, <1>d, <1>e, <2>1 DEF Depart
  <1>3. ASSUME NEW k \in People, Expire(k) PROVE IInv'
    <2>1. PlacesOK' /\ LineOK'
      BY <1>3, FreeKeeps DEF Expire, IsHeld, Keys
    <2>. QED BY <1>3, <1>c, <1>d, <1>e, <2>1 DEF Expire
  <1>4. CASE SetLock
    BY <1>4, <1>a, <1>b, <1>c, <1>e DEF SetLock, RestOK
  <1>5. CASE StartResolve
    BY <1>5, <1>a, <1>b, <1>c, <1>e DEF StartResolve, RestOK
  <1>6. CASE Promote
    <2>1. PlacesOK' /\ LineOK'
      BY <1>6, PromoteKeeps
    <2>. QED BY <1>6, <1>c, <1>d, <1>e, <2>1 DEF Promote
  <1>7. CASE Promoted
    <2>1. Promotable'
      BY <1>7 DEF Promoted, Promotable, OpenSeats, seating
    <2>. QED BY <1>7, <1>a, <1>b, <1>c, <2>1 DEF Promoted, RestOK
  <1>8. CASE Resolved
    BY <1>8, <1>a, <1>b, <1>c, <1>e DEF Resolved, RestOK
  <1>9. ASSUME NEW seat \in Seats, Displace(seat) PROVE IInv'
    <2>1. PlacesOK' /\ LineOK' /\ slots[seat].state = "Human"
      BY <1>9, DisplaceFacts
    <2>2. Promotable'
      <3>1. queue # <<>> /\ phase = "displacing"
        BY <1>9 DEF Displace, Outranked
      <3>2. OpenSeats = {}
        BY <3>1 DEF Promotable
      <3>3. \A s \in Seats : slots'[s] # Open
        BY <1>9, <3>2, SlotFacts DEF Displace, OpenSeats, PlacesOK, Human, Open
      <3>. QED BY <3>3 DEF Promotable, OpenSeats
    <2>. QED BY <1>9, <1>c, <1>d, <2>1, <2>2 DEF Displace
  <1>10. ASSUME NEW b \in Bots, NEW rank \in BotRanks, Fill(b, rank) PROVE IInv'
    <2>1. b \in Keys /\ rank \in Ranks
      BY DEF Keys, Ranks
    <2>2. PlacesOK' /\ LineOK' /\ (index'[b] = NoSeat \/ index'[b] \in Seats)
      BY <1>10, <2>1, AdmittedKeeps DEF Fill
    <2>3. CrewOK'
      BY <1>10, <2>2, CrewFilled DEF Fill
    <2>. QED BY <1>10, <1>d, <1>e, <2>2, <2>3 DEF Fill
  <1>11. ASSUME NEW s \in Seats, Vacate(s) PROVE IInv'
    <2>1. crew[s] \in Keys
      BY <1>11 DEF Vacate, CrewOK, Keys
    <2>2. PlacesOK' /\ LineOK'
      BY <1>11, <2>1, FreeKeeps, WithoutKeeps DEF Vacate
    <2>3. CrewOK'
      BY <1>11, CrewCleared DEF Vacate
    <2>. QED BY <1>11, <1>d, <1>e, <2>2, <2>3 DEF Vacate
  <1>12. CASE StartPrune
    BY <1>12, <1>a, <1>b, <1>c, <1>e DEF StartPrune, RestOK
  <1>13. ASSUME NEW s \in Seats, PruneOne(s) PROVE IInv'
    <2>1. crew[s] \in Keys
      BY <1>13 DEF PruneOne, Gone, CrewOK, Keys
    <2>2. PlacesOK' /\ LineOK'
      BY <1>13, <2>1, DepartedKeeps DEF PruneOne
    <2>3. CrewOK'
      BY <1>13, CrewCleared DEF PruneOne
    <2>. QED BY <1>13, <1>d, <1>e, <2>2, <2>3 DEF PruneOne
  <1>14. CASE Pruned
    BY <1>14, <1>a, <1>b, <1>c, <1>e DEF Pruned, RestOK
  <1>15. CASE UNCHANGED vars
    BY <1>15, <1>a, <1>b, <1>c, <1>d DEF vars, Promotable, OpenSeats, seating
  <1>. QED
    BY <1>1, <1>2, <1>3, <1>4, <1>5, <1>6, <1>7, <1>8, <1>9, <1>10, <1>11, <1>12, <1>13, <1>14, <1>15
    DEF Next, Resolve, Prune

\* The seats, the line and the crew as they are in every state the roster reaches.
THEOREM Inductive == Spec => []IInv
  BY IInvInit, IInvStep, PTL DEF Spec

\* Every variable has its type, whatever is called in whatever order.
THEOREM TypeCorrect == Spec => []TypeOK
  <1>1. IInv => TypeOK
    BY DEF IInv, PlacesOK, LineOK, Line, CrewOK, RestOK, TypeOK
  <1>. QED BY <1>1, Inductive, PTL

\* SeatSlots' two maps agree, and exactly the seated have a rank.
THEOREM SeatsCorrect == Spec => []SeatsAgree
  <1>1. IInv => SeatsAgree
    BY DEF IInv, PlacesOK
  <1>. QED BY <1>1, Inductive, PTL

\* Nobody waits twice, or waits while seated, or is in the crew twice.
THEOREM OnePlaceCorrect == Spec => []OnePlace
  <1>1. IInv => OnePlace
    BY QueuedWaits DEF IInv, LineOK, Line, CrewOK, OnePlace
  <1>. QED BY <1>1, Inductive, PTL

\* RankedQueue stays in rank order under pushes at any rank.
THEOREM OrderCorrect == Spec => []QueueOrdered
  <1>1. IInv => QueueOrdered
    BY DEF IInv, LineOK, Line, QueueOrdered
  <1>. QED BY <1>1, Inductive, PTL

LEMMA OutrankedStep ==
  ASSUME IInv, [Next]_vars, Resolving, NEW s \in Seats, LosesSeat(s)
  PROVE  ToABetter(s)
  <1>. USE DEF IInv
  <1>1. CASE Promote
    BY <1>1, FirstOpenIsOpen DEF Promote, Seat, LosesSeat, PlacesOK
  <1>2. ASSUME NEW seat \in Seats, Displace(seat) PROVE ToABetter(s)
    <2>. DEFINE loser == slots[seat].key
                winner == Head(queue)
    <2>1. /\ slots[seat].state = "Human" /\ loser \in Keys /\ winner = Head(Requeued(loser))
          /\ winner.rank < RankAt(seat) /\ winner.key # loser /\ queue # <<>>
      BY <1>2, DisplaceFacts DEF Displace, Outranked
    <2>2. winner.key \in Keys /\ winner.rank \in Ranks
      BY <2>1, TailKeepsLine DEF LineOK
    <2>. HIDE DEF winner
    <2>3. /\ slots' = [slots EXCEPT ![seat] = Human(winner.key)]
          /\ ranks' = [ranks EXCEPT ![loser] = NoRank, ![winner.key] = winner.rank]
      BY <1>2, <2>1 DEF Displace
    <2>4. s = seat
      BY <2>3 DEF LosesSeat, PlacesOK
    <2>5. slots'[s] = Human(winner.key) /\ Human(winner.key).key = winner.key /\ Human(winner.key).state = "Human"
      BY <2>2, <2>3, <2>4, SlotFacts DEF PlacesOK
    <2>6. ranks'[winner.key] = winner.rank
      BY <2>1, <2>2, <2>3 DEF PlacesOK
    <2>. QED BY <2>1, <2>4, <2>5, <2>6 DEF ToABetter, RankAt
  <1>3. ASSUME UNCHANGED slots PROVE ToABetter(s)
    BY <1>3 DEF LosesSeat
  <1>4. phase # "idle" /\ phase # "pruning"
    BY DEF Resolving
  <1>. QED
    BY <1>1, <1>2, <1>3, <1>4
    DEF Next, Resolve, Prune, vars, seating, Admit, Depart, Expire, SetLock, StartResolve, Promoted, Resolved,
        Fill, Vacate, StartPrune, PruneOne, Pruned

\* resolve unseats a person only for a strictly better rank, and nobody whose seat
\* is held.
THEOREM OutrankedCorrect == Spec => OnlyOutranked
  <1>1. IInv /\ [Next]_vars => (Resolving => \A s \in Seats : LosesSeat(s) => ToABetter(s))
    BY OutrankedStep
  <1>. QED BY <1>1, Inductive, PTL DEF Spec, OnlyOutranked

LEMMA SettledStep ==
  ASSUME IInv, [Next]_vars, phase = "displacing", phase' = "idle", NEW s \in Seats
  PROVE  NobodyWaitsBeside(s)'
  <1>. USE DEF IInv
  <1>1. Resolved
    BY DEF Next, Resolve, Prune, vars, Admit, Depart, Expire, SetLock, StartResolve, Promote, Promoted, Displace,
           Fill, Vacate, StartPrune, PruneOne, Pruned
  <1>2. UNCHANGED <<slots, ranks, queue>>
    BY <1>1 DEF Resolved, seating
  <1>3. slots[s] = Open => queue = <<>>
    BY DEF Promotable, OpenSeats
  <1>4. ASSUME slots[s].state = "Human", NEW i \in DOMAIN queue PROVE queue[i].rank >= RankAt(s)
    <2>1. queue \in Seq(Entry) /\ i \in 1..Len(queue) /\ queue # <<>> /\ 1 \in 1..Len(queue)
      BY DEF LineOK, Line
    <2>2. Head(queue) = queue[1] /\ queue[1].rank <= queue[i].rank
      <3>1. i = 1 \/ 1 < i
        BY <2>1
      <3>2. queue[1].rank \in Nat
        BY <2>1, EntryTyped
      <3>3. Head(queue) = queue[1]
        BY <2>1, TailKeepsLine DEF LineOK
      <3>. QED BY <2>1, <3>1, <3>2, <3>3 DEF LineOK, Line
    <2>3. s \in HumanSeats
      BY <1>4 DEF HumanSeats
    <2>4. ~(Head(queue).rank < RankAt(s))
      BY <1>1, <2>1, <2>3 DEF Resolved, Outranked
    <2>5. RankAt(s) \in Nat /\ queue[1].rank \in Nat /\ queue[i].rank \in Nat
      BY <2>1, <2>3, SeatedFacts, EntryTyped
    <2>. QED BY <2>2, <2>4, <2>5
  <1>. QED BY <1>2, <1>3, <1>4 DEF NobodyWaitsBeside, RankAt

\* A finished resolve leaves nobody waiting beside an open seat or behind a
\* worse-ranked person in one.
THEOREM SettledCorrect == Spec => ResolveSettles
  <1>1. IInv /\ [Next]_vars =>
          (phase = "displacing" /\ phase' = "idle" => \A s \in Seats : NobodyWaitsBeside(s)')
    BY SettledStep
  <1>. QED BY <1>1, Inductive, PTL DEF Spec, ResolveSettles

-----------------------------------------------------------------------------
(* What resolve keeps, and that it ends.                                     *)

\* k sits or waits, at rank r.
Standing(k, r) ==
  \/ index[k] # NoSeat /\ ranks[k] = r
  \/ \E i \in DOMAIN queue : queue[i] = [key |-> k, rank |-> r]

StandingKept ==
  [][Resolving => \A k \in Keys, r \in Ranks : Standing(k, r)' <=> Standing(k, r)]_vars

\* The seats but this one are as they were.
OthersSit(seat) ==
  \A s \in Seats \ {seat} :
    /\ slots'[s] = slots[s]
    /\ slots[s] # Open => ranks'[slots[s].key] = ranks[slots[s].key]

RoundsDescend ==
  [][/\ phase = "promoting" /\ phase' = "promoting" => Len(queue') < Len(queue)
     /\ phase = "displacing" /\ phase' = "displacing" =>
          /\ Len(queue') = Len(queue)
          /\ \E seat \in Seats : ToABetter(seat) /\ OthersSit(seat)]_vars

Holds(q, e) == \E i \in 1..Len(q) : q[i] = e

LEMMA PushHolds ==
  ASSUME NEW q, Line(q), NEW k \in Keys, NEW rank \in Ranks
  PROVE  /\ Len(Push(q, k, rank)) = Len(q) + 1
         /\ \A e : Holds(Push(q, k, rank), e) <=> e = [key |-> k, rank |-> rank] \/ Holds(q, e)
  <1>. DEFINE worse == {i \in DOMAIN q : q[i].rank > rank}
              at == IF worse = {} THEN Len(q) + 1 ELSE First(worse)
              new == [key |-> k, rank |-> rank]
              p == Push(q, k, rank)
  <1>1. q \in Seq(Entry) /\ DOMAIN q = 1..Len(q) /\ Len(q) \in Nat /\ new \in Entry
    BY DEF Line, Entry
  <1>2. worse # {} => at \in worse
    <2>1. worse \in SUBSET Nat
      BY <1>1
    <2>. QED BY <2>1, FirstIsLeast
  <1>3. at \in 1..Len(q) + 1
    BY <1>1, <1>2
  <1>4. p = InsertAt(q, at, new)
    BY DEF Push
  <1>. HIDE DEF at, new, p
  <1>5. Inserted(p, q, at, new)
    BY <1>1, <1>3, <1>4, InsertShape, Zenon
  <1>6. /\ Len(p) = Len(q) + 1
        /\ \A i \in 1..Len(q) + 1 : p[i] = IF i < at THEN q[i] ELSE IF i = at THEN new ELSE q[i - 1]
    BY <1>5 DEF Inserted
  <1>7. ASSUME NEW e, Holds(p, e) PROVE e = new \/ Holds(q, e)
    <2>1. PICK i \in 1..Len(q) + 1 : p[i] = e
      BY <1>6, <1>7 DEF Holds
    <2>2. CASE i = at
      BY <1>1, <1>3, <1>6, <2>1, <2>2
    <2>3. CASE i < at
      <3>1. i \in 1..Len(q) /\ q[i] = e
        BY <1>1, <1>3, <1>6, <2>1, <2>3
      <3>. QED BY <3>1 DEF Holds
    <2>4. CASE i > at
      <3>1. i - 1 \in 1..Len(q) /\ q[i - 1] = e
        BY <1>1, <1>3, <1>6, <2>1, <2>4
      <3>. QED BY <3>1 DEF Holds
    <2>. QED BY <1>1, <1>3, <2>2, <2>3, <2>4
  <1>8. Holds(p, new)
    <2>1. at \in 1..Len(p) /\ p[at] = new
      BY <1>1, <1>3, <1>6
    <2>. QED BY <2>1 DEF Holds
  <1>9. ASSUME NEW e, Holds(q, e) PROVE Holds(p, e)
    <2>1. PICK i \in 1..Len(q) : q[i] = e
      BY <1>9 DEF Holds
    <2>2. CASE i < at
      <3>1. i \in 1..Len(p) /\ p[i] = e
        BY <1>1, <1>3, <1>6, <2>1, <2>2
      <3>. QED BY <3>1 DEF Holds
    <2>3. CASE i >= at
      <3>1. /\ i + 1 \in 1..Len(q) + 1 /\ ~(i + 1 < at) /\ i + 1 # at /\ (i + 1) - 1 = i
        BY <1>1, <1>3, <2>3
      <3>2. i + 1 \in 1..Len(p) /\ p[i + 1] = e
        BY <1>6, <2>1, <3>1
      <3>. QED BY <3>2 DEF Holds
    <2>. QED BY <1>1, <1>3, <2>2, <2>3
  <1>. QED BY <1>6, <1>7, <1>8, <1>9 DEF p, new

LEMMA TailHolds ==
  ASSUME NEW q, Line(q), q # <<>>
  PROVE  /\ Len(Tail(q)) = Len(q) - 1 /\ Len(q) \in Nat /\ Len(q) > 0
         /\ \A e : Holds(q, e) <=> e = Head(q) \/ Holds(Tail(q), e)
         /\ ~Holds(Tail(q), Head(q))
         /\ Head(q) \in Entry
  <1>1. q \in Seq(Entry) /\ Len(q) \in Nat
    BY DEF Line
  <1>2. /\ Tail(q) \in Seq(Entry) /\ Len(Tail(q)) = Len(q) - 1
        /\ \A i \in 1..Len(q) - 1 : Tail(q)[i] = q[i + 1]
        /\ Head(q) = q[1] /\ q[1] \in Entry /\ Len(q) > 0
    BY <1>1, TailShape
  <1>3. ASSUME NEW e, Holds(q, e) PROVE e = Head(q) \/ Holds(Tail(q), e)
    <2>1. PICK i \in 1..Len(q) : q[i] = e
      BY <1>3 DEF Holds
    <2>2. i # 1 => i - 1 \in 1..Len(q) - 1 /\ (i - 1) + 1 = i
      BY <1>1
    <2>3. i # 1 => Tail(q)[i - 1] = e
      BY <1>2, <2>1, <2>2
    <2>. QED BY <1>2, <2>1, <2>2, <2>3 DEF Holds
  <1>4. ASSUME NEW e, Holds(Tail(q), e)
        PROVE  \E j \in 1..Len(q) : j # 1 /\ q[j] = e
    <2>1. PICK i \in 1..Len(q) - 1 : Tail(q)[i] = e
      BY <1>2, <1>4 DEF Holds
    <2>2. i + 1 \in 1..Len(q) /\ i + 1 # 1 /\ q[i + 1] = e
      BY <1>1, <1>2, <2>1
    <2>. QED BY <2>2
  <1>5. 1 \in 1..Len(q)
    BY <1>1, <1>2
  <1>6. ~Holds(Tail(q), Head(q))
    BY <1>2, <1>4, <1>5 DEF Line
  <1>. QED BY <1>1, <1>2, <1>3, <1>4, <1>5, <1>6 DEF Holds

LEMMA HoldsFacts ==
  ASSUME NEW q, Line(q)
  PROVE  /\ \A k, r : (\E i \in DOMAIN q : q[i] = [key |-> k, rank |-> r])
                        <=> Holds(q, [key |-> k, rank |-> r])
         /\ \A e : Holds(q, e) => Waits(q, e.key)
         /\ \A e, f : Holds(q, e) /\ Holds(q, f) /\ e.key = f.key => e = f
  <1>1. q \in Seq(Entry) /\ DOMAIN q = 1..Len(q)
    BY DEF Line
  <1>. QED BY <1>1 DEF Holds, Waits, Line

\* Standing, of one key at one rank, in terms of the queue's entries.
LEMMA StandingIs ==
  ASSUME LineOK, NEW k \in Keys, NEW r \in Ranks
  PROVE  Standing(k, r) <=>
           (index[k] # NoSeat /\ ranks[k] = r) \/ Holds(queue, [key |-> k, rank |-> r])
BY HoldsFacts DEF Standing, LineOK

LEMMA PromoteStands ==
  ASSUME PlacesOK, LineOK, LineOK', Promote, NEW k \in Keys, NEW r \in Ranks
  PROVE  /\ (index'[k] # NoSeat /\ ranks'[k] = r) \/ Holds(queue', [key |-> k, rank |-> r])
              <=> (index[k] # NoSeat /\ ranks[k] = r) \/ Holds(queue, [key |-> k, rank |-> r])
         /\ Len(queue') < Len(queue)
<1>. DEFINE w == Head(queue)  e == [key |-> k, rank |-> r]  s == First(OpenSeats)
<1>1. /\ queue # <<>> /\ queue' = Tail(queue) /\ OpenSeats # {}
      /\ index' = [index EXCEPT ![w.key] = s]
      /\ ranks' = [ranks EXCEPT ![w.key] = w.rank]
  BY DEF Promote, Seat
<1>2. /\ Len(queue') = Len(queue) - 1 /\ Len(queue) \in Nat
      /\ \A f : Holds(queue, f) <=> f = w \/ Holds(queue', f)
      /\ ~Holds(queue', w) /\ w \in Entry
  BY <1>1, TailHolds DEF LineOK
<1>3. w.key \in Keys /\ w = [key |-> w.key, rank |-> w.rank]
  BY <1>2 DEF Entry
<1>4. /\ \A f : Holds(queue, f) => Waits(queue, f.key)
      /\ \A f, g : Holds(queue, f) /\ Holds(queue, g) /\ f.key = g.key => f = g
  BY HoldsFacts DEF LineOK
<1>5. index[w.key] = NoSeat
  BY <1>2, <1>3, <1>4 DEF LineOK
<1>6. s # NoSeat
  BY <1>1, FirstOpenIsOpen, SlotFacts
<1>7. index \in [Keys -> Seats \cup {NoSeat}] /\ ranks \in [Keys -> Ranks \cup {NoRank}]
  BY DEF PlacesOK
<1>. HIDE DEF w, s
<1>8. e.key = k /\ e.rank = r
  OBVIOUS
<1>. HIDE DEF e
<1>9. CASE k = w.key
  <2>1. index'[k] # NoSeat /\ ranks'[k] = w.rank /\ index[k] = NoSeat
    BY <1>1, <1>3, <1>5, <1>6, <1>7, <1>9
  <2>2. e = w <=> r = w.rank
    BY <1>3, <1>8, <1>9 DEF e
  <2>3. Holds(queue, e) <=> e = w
    BY <1>2, <1>4, <1>8, <1>9
  <2>4. ~Holds(queue', e)
    BY <1>2, <2>3
  <2>. QED BY <1>2, <2>1, <2>2, <2>3, <2>4 DEF e
<1>10. CASE k # w.key
  <2>1. index'[k] = index[k] /\ ranks'[k] = ranks[k]
    BY <1>1, <1>3, <1>7, <1>10
  <2>2. Holds(queue, e) <=> Holds(queue', e)
    BY <1>2, <1>8, <1>10
  <2>. QED BY <1>2, <2>1, <2>2 DEF e
<1>. QED BY <1>9, <1>10

LEMMA DisplaceStands ==
  ASSUME PlacesOK, LineOK, NEW seat \in Seats, Displace(seat), NEW k \in Keys, NEW r \in Ranks
  PROVE  (index'[k] # NoSeat /\ ranks'[k] = r) \/ Holds(queue', [key |-> k, rank |-> r])
           <=> (index[k] # NoSeat /\ ranks[k] = r) \/ Holds(queue, [key |-> k, rank |-> r])
<1>. DEFINE loser == slots[seat].key  line == Requeued(loser)
            w == Head(queue)  e == [key |-> k, rank |-> r]
            back == [key |-> loser, rank |-> ranks[loser]]
<1>1. /\ slots[seat] # Open /\ loser \in Keys /\ line # <<>> /\ Head(line) = w
      /\ w.key # loser
  BY DisplaceFacts, SlotFacts
<1>2. /\ index[loser] = seat /\ ranks[loser] \in Ranks
  BY <1>1, SeatedFacts DEF RankAt
<1>3. /\ index' = [index EXCEPT ![loser] = NoSeat, ![w.key] = seat]
      /\ ranks' = [ranks EXCEPT ![loser] = NoRank, ![w.key] = w.rank]
      /\ queue' = Tail(line) /\ queue # <<>>
  BY <1>1 DEF Displace, Outranked
<1>4. ~Waits(queue, loser)
  BY <1>1, <1>2, SlotFacts DEF LineOK
<1>5. /\ \A f : Holds(line, f) <=> f = back \/ Holds(queue, f)
      /\ Line(line)
  BY <1>1, <1>2, <1>4, PushHolds, PushKeepsLine DEF LineOK, Requeued
<1>6. /\ \A f : Holds(line, f) <=> f = w \/ Holds(queue', f)
      /\ ~Holds(queue', w) /\ w \in Entry
  BY <1>1, <1>3, <1>5, TailHolds
<1>7. w.key \in Keys /\ w = [key |-> w.key, rank |-> w.rank]
  BY <1>6 DEF Entry
<1>8. /\ \A f : Holds(queue, f) => Waits(queue, f.key)
      /\ \A f, g : Holds(queue, f) /\ Holds(queue, g) /\ f.key = g.key => f = g
  BY HoldsFacts DEF LineOK
<1>9. Holds(queue, w)
  BY <1>1, <1>5, <1>6
<1>10. index[w.key] = NoSeat
  BY <1>7, <1>8, <1>9 DEF LineOK
<1>11. /\ index \in [Keys -> Seats \cup {NoSeat}] /\ ranks \in [Keys -> Ranks \cup {NoRank}]
       /\ NoSeat \notin Seats
  BY SlotFacts DEF PlacesOK
<1>12. e.key = k /\ e.rank = r /\ back.key = loser /\ back.rank = ranks[loser]
  OBVIOUS
<1>13. (e = w <=> k = w.key /\ r = w.rank) /\ (e = back <=> k = loser /\ r = ranks[loser])
  BY <1>7
<1>. HIDE DEF loser, line, w, e, back
<1>14. CASE k = loser
  <2>1. index'[k] = NoSeat /\ index[k] # NoSeat
    BY <1>1, <1>2, <1>3, <1>7, <1>11, <1>14
  <2>2. ~Holds(queue, e)
    BY <1>4, <1>8, <1>12, <1>14
  <2>3. Holds(queue', e) <=> r = ranks[loser]
    BY <1>1, <1>5, <1>6, <1>13, <1>14, <2>2
  <2>. QED BY <1>14, <2>1, <2>2, <2>3 DEF e
<1>15. CASE k = w.key
  <2>1. index'[k] # NoSeat /\ ranks'[k] = w.rank /\ index[k] = NoSeat
    BY <1>1, <1>3, <1>7, <1>10, <1>11, <1>15
  <2>2. Holds(queue, e) <=> r = w.rank
    BY <1>8, <1>9, <1>12, <1>13, <1>15
  <2>3. ~Holds(queue', e)
    BY <1>1, <1>5, <1>6, <1>13, <1>15, <2>2
  <2>. QED BY <2>1, <2>2, <2>3 DEF e
<1>16. CASE k # loser /\ k # w.key
  <2>1. index'[k] = index[k] /\ ranks'[k] = ranks[k]
    BY <1>1, <1>3, <1>7, <1>11, <1>16
  <2>2. Holds(queue, e) <=> Holds(queue', e)
    BY <1>5, <1>6, <1>13, <1>16
  <2>. QED BY <2>1, <2>2 DEF e
<1>. QED BY <1>14, <1>15, <1>16

LEMMA StandingStep ==
  ASSUME IInv, IInv', [Next]_vars, Resolving, NEW k \in Keys, NEW r \in Ranks
  PROVE  Standing(k, r)' <=> Standing(k, r)
<1>. USE DEF IInv
<1>. DEFINE Stands == (index[k] # NoSeat /\ ranks[k] = r) \/ Holds(queue, [key |-> k, rank |-> r])
<1>1. Standing(k, r) <=> Stands
  BY StandingIs
<1>2. Standing(k, r)' <=> Stands'
  <2>1. /\ \A c, d : (\E i \in DOMAIN queue' : queue'[i] = [key |-> c, rank |-> d])
                        <=> Holds(queue', [key |-> c, rank |-> d])
    BY HoldsFacts DEF LineOK
  <2>. QED BY <2>1 DEF Standing
<1>3. Stands' <=> Stands
  <2>1. CASE Promote
    BY <2>1, PromoteStands
  <2>2. ASSUME NEW seat \in Seats, Displace(seat) PROVE Stands' <=> Stands
    BY <2>2, DisplaceStands
  <2>3. ASSUME UNCHANGED <<seating, queue>> PROVE Stands' <=> Stands
    BY <2>3 DEF seating
  <2>4. phase # "idle" /\ phase # "pruning"
    BY DEF Resolving
  <2>. HIDE DEF Stands
  <2>. QED
    BY <2>1, <2>2, <2>3, <2>4
    DEF Next, Resolve, Prune, vars, Admit, Depart, Expire, SetLock, StartResolve, Promoted, Resolved,
        Fill, Vacate, StartPrune, PruneOne, Pruned
<1>. QED BY <1>1, <1>2, <1>3

\* resolve loses nobody and lets nobody in, and each keeps the rank they were
\* admitted at, whether promoted, displaced (the rank is read before it is
\* forgotten) or neither.
THEOREM RanksKept == Spec => StandingKept
<1>1. IInv /\ IInv' /\ [Next]_vars =>
        (Resolving => \A k \in Keys, r \in Ranks : Standing(k, r)' <=> Standing(k, r))
  BY StandingStep
<1>. QED BY <1>1, Inductive, PTL DEF Spec, StandingKept

LEMMA DisplaceDescends ==
  ASSUME PlacesOK, LineOK, NEW seat \in Seats, Displace(seat)
  PROVE  Len(queue') = Len(queue) /\ OthersSit(seat) /\ ToABetter(seat)
<1>. DEFINE loser == slots[seat].key  line == Requeued(loser)  w == Head(queue)
<1>1. /\ slots[seat].state = "Human" /\ slots[seat] # Open /\ loser \in Keys /\ line # <<>> /\ Head(line) = w
      /\ w.key # loser /\ w.rank < RankAt(seat)
  BY DisplaceFacts, SlotFacts
<1>2. /\ index[loser] = seat /\ ranks[loser] \in Ranks
  BY <1>1, SeatedFacts DEF RankAt
<1>3. /\ slots' = [slots EXCEPT ![seat] = Human(w.key)]
      /\ ranks' = [ranks EXCEPT ![loser] = NoRank, ![w.key] = w.rank]
      /\ queue' = Tail(line) /\ queue # <<>>
  BY <1>1 DEF Displace, Outranked
<1>4. w.key \in Keys /\ index[w.key] = NoSeat
  BY <1>3, TailKeepsLine DEF LineOK
<1>5. ~Waits(queue, loser)
  BY <1>1, <1>2, SlotFacts DEF LineOK
<1>6. Line(line) /\ Len(line) = Len(queue) + 1 /\ Len(queue) \in Nat
  BY <1>1, <1>2, <1>5, PushHolds, PushKeepsLine DEF LineOK, Line, Requeued
<1>7. Len(queue') = Len(queue)
  BY <1>1, <1>3, <1>6, TailHolds
<1>8. slots \in [Seats -> Slot] /\ ranks \in [Keys -> Ranks \cup {NoRank}] /\ NoSeat \notin Seats
  BY SlotFacts DEF PlacesOK
<1>9. OthersSit(seat)
  <2>. SUFFICES ASSUME NEW s \in Seats \ {seat}
                PROVE  slots'[s] = slots[s] /\ (slots[s] # Open => ranks'[slots[s].key] = ranks[slots[s].key])
    BY DEF OthersSit
  <2>. HIDE DEF w, loser, line
  <2>1. slots'[s] = slots[s]
    BY <1>3, <1>8
  <2>2. ASSUME slots[s] # Open PROVE ranks'[slots[s].key] = ranks[slots[s].key]
    <3>1. slots[s].key \in Keys /\ index[slots[s].key] = s
      BY <2>2, SeatedFacts
    <3>2. slots[s].key # loser /\ slots[s].key # w.key
      BY <1>2, <1>4, <1>8, <3>1
    <3>. QED BY <1>3, <1>8, <3>1, <3>2
  <2>. QED BY <2>1, <2>2
<1>10. ToABetter(seat)
  <2>. HIDE DEF w
  <2>1. slots'[seat] = Human(w.key) /\ Human(w.key).key = w.key /\ Human(w.key).state = "Human"
    BY <1>3, <1>4, <1>8, SlotFacts
  <2>2. ranks'[w.key] = w.rank
    BY <1>1, <1>3, <1>4, <1>8
  <2>. QED BY <1>1, <2>1, <2>2 DEF ToABetter, RankAt
<1>. QED BY <1>7, <1>9, <1>10

\* Why both loops of resolve end: each round of the first shortens the queue, and
\* each of the second lowers the rank at one seat, raises none and leaves the
\* queue as long as it was, so no round of it can undo another.
THEOREM ResolveDescends == Spec => RoundsDescend
<1>1. ASSUME IInv, [Next]_vars, phase = "promoting", phase' = "promoting", vars' # vars
      PROVE  Len(queue') < Len(queue)
  <2>1. Promote
    BY <1>1 DEF Next, Resolve, Prune, Admit, Depart, Expire, SetLock, StartResolve, Promoted, Resolved,
                Displace, Fill, Vacate, StartPrune, PruneOne, Pruned
  <2>. QED BY <1>1, <2>1, TailHolds DEF IInv, LineOK, Promote
<1>2. ASSUME IInv, [Next]_vars, phase = "displacing", phase' = "displacing", vars' # vars
      PROVE  /\ Len(queue') = Len(queue)
             /\ \E seat \in Seats : ToABetter(seat) /\ OthersSit(seat)
  <2>1. PICK seat \in Seats : Displace(seat)
    BY <1>2 DEF Next, Resolve, Prune, Admit, Depart, Expire, SetLock, StartResolve, Promote, Promoted, Resolved,
                Fill, Vacate, StartPrune, PruneOne, Pruned
  <2>. QED BY <1>2, <2>1, DisplaceDescends DEF IInv
<1>3. ASSUME IInv, [Next]_vars
      PROVE  [/\ phase = "promoting" /\ phase' = "promoting" => Len(queue') < Len(queue)
              /\ phase = "displacing" /\ phase' = "displacing" =>
                   /\ Len(queue') = Len(queue)
                   /\ \E seat \in Seats : ToABetter(seat) /\ OthersSit(seat)]_vars
  BY <1>1, <1>2, <1>3
<1>. QED BY <1>3, Inductive, PTL DEF Spec, RoundsDescend
=============================================================================
