------------------------------- MODULE Roster -------------------------------
(***************************************************************************)
(* Seating: the roster of server_utils/src/seats/mod.rs over its slots     *)
(* (seats/slots.rs) and its ranked queue (seats/queue.rs), and the crew of *)
(* bots seated in it (seats/crew.rs).                                      *)
(*                                                                         *)
(* A room owns its roster and calls it from one thread, in whatever order  *)
(* people come, go and return.  resolve and prune loop: each round of their*)
(* loops is a step here, and nothing else happens until the loop ends.     *)
(*                                                                         *)
(* Abstractions.  The queue's entries carry no arrival number: they are    *)
(* kept in order, and one is always queued behind its equals.  A call that *)
(* changes nothing (asking again, leaving twice) is no step.               *)
(***************************************************************************)
EXTENDS Integers, SequencesExt

CONSTANTS
  People, Bots,   \* the keys that ask in, and those the crew hands out
  Capacity,
  PersonRanks, BotRanks,   \* the ranks people and bots are admitted at
  NoKey

ASSUME RosterAssumption ==
  /\ People \cap Bots = {}
  /\ NoKey \notin People \cup Bots
  /\ Capacity \in Nat \ {0}
  /\ PersonRanks \subseteq Nat /\ BotRanks \subseteq Nat

Keys == People \cup Bots
Ranks == PersonRanks \cup BotRanks
Seats == 0..Capacity - 1
NoSeat == -1
NoRank == -1

Open == [state |-> "Open", key |-> NoKey]
Human(k) == [state |-> "Human", key |-> k]
Held(k) == [state |-> "Held", key |-> k]
Slot == {Open} \cup [state : {"Human", "Held"}, key : Keys]

Entry == [key : Keys, rank : Ranks]

VARIABLES
  policy,   \* waitlist_on and hold_on, fixed when the roster is built
  slots,    \* SeatSlots::slots
  index,    \* SeatSlots::index
  ranks,    \* Roster::ranks
  queue,    \* RankedQueue::entries
  locked,
  crew,     \* Crew::seats
  phase     \* the loop that is running

seating == <<slots, index, ranks>>
vars == <<policy, seating, queue, locked, crew, phase>>

Init ==
  /\ policy \in [waitlist : BOOLEAN, hold : BOOLEAN]
  /\ slots = [s \in Seats |-> Open]
  /\ index = [k \in Keys |-> NoSeat]
  /\ ranks = [k \in Keys |-> NoRank]
  /\ queue = <<>>
  /\ locked = FALSE
  /\ crew = [s \in Seats |-> NoKey]
  /\ phase = "idle"

-----------------------------------------------------------------------------
(* The slots.                                                              *)

IsHeld(k) == index[k] # NoSeat /\ slots[index[k]].state = "Held"
IsHuman(k) == index[k] # NoSeat /\ slots[index[k]].state = "Human"

OpenSeats == {s \in Seats : slots[s] = Open}
First(I) == CHOOSE i \in I : \A j \in I : i <= j

Seat(k, s, rank) ==
  /\ slots' = [slots EXCEPT ![s] = Human(k)]
  /\ index' = [index EXCEPT ![k] = s]
  /\ ranks' = [ranks EXCEPT ![k] = rank]

MutFree(k) ==
  /\ slots' = [slots EXCEPT ![index[k]] = Open]
  /\ index' = [index EXCEPT ![k] = NoSeat]
  /\ UNCHANGED ranks
\* The key gives up its seat, whatever state that was in.
Free(k) ==
  /\ slots' = [slots EXCEPT ![index[k]] = Open]
  /\ index' = [index EXCEPT ![k] = NoSeat]
  /\ ranks' = [ranks EXCEPT ![k] = NoRank]

-----------------------------------------------------------------------------
(* The queue.                                                              *)

Queued(k) == \E i \in DOMAIN queue : queue[i].key = k

MutPush(q, k, rank) == Append(q, [key |-> k, rank |-> rank])
\* Behind its equals, ahead of every worse rank.
Push(q, k, rank) ==
  LET worse == {i \in DOMAIN q : q[i].rank > rank}
  IN InsertAt(q, IF worse = {} THEN Len(q) + 1 ELSE First(worse), [key |-> k, rank |-> rank])

Without(q, k) ==
  LET at == {i \in DOMAIN q : q[i].key = k}
  IN IF at = {} THEN q ELSE RemoveAt(q, First(at))

-----------------------------------------------------------------------------
(* The roster.                                                             *)

MutStranger(k) == index[k] = NoSeat
Stranger(k) == index[k] = NoSeat /\ ~Queued(k)

\* admit_ranked, for a key that holds or awaits nothing, and the resumption of
\* one whose seat is held.
Admitted(k, rank) ==
  \/ /\ IsHeld(k)
     /\ slots' = [slots EXCEPT ![index[k]] = Human(k)]
     /\ UNCHANGED <<index, ranks, queue>>
  \/ /\ Stranger(k)
     /\ ~locked /\ OpenSeats # {}
     /\ Seat(k, First(OpenSeats), rank)
     /\ UNCHANGED queue
  \/ /\ Stranger(k)
     /\ locked \/ OpenSeats = {}
     /\ policy.waitlist
     /\ queue' = Push(queue, k, rank)
     /\ UNCHANGED seating

\* depart; leaving twice breaks no hold.
Departed(k) ==
  \/ IsHeld(k) /\ UNCHANGED <<seating, queue>>
  \/ /\ IsHuman(k) /\ policy.hold
     /\ slots' = [slots EXCEPT ![index[k]] = Held(k)]
     /\ UNCHANGED <<index, ranks, queue>>
  \/ IsHuman(k) /\ ~policy.hold /\ Free(k) /\ UNCHANGED queue
  \/ index[k] = NoSeat /\ queue' = Without(queue, k) /\ UNCHANGED seating

Admit(k, rank) ==
  /\ phase = "idle"
  /\ Admitted(k, rank)
  /\ UNCHANGED <<policy, locked, crew, phase>>

Depart(k) ==
  /\ phase = "idle"
  /\ Departed(k)
  /\ UNCHANGED <<policy, locked, crew, phase>>

Expire(k) ==
  /\ phase = "idle"
  /\ IsHeld(k)
  /\ Free(k)
  /\ UNCHANGED <<policy, queue, locked, crew, phase>>

\* lock and unlock.
SetLock ==
  /\ phase = "idle"
  /\ locked' = ~locked
  /\ UNCHANGED <<policy, seating, queue, crew, phase>>

StartResolve ==
  /\ phase = "idle" /\ ~locked
  /\ phase' = "promoting"
  /\ UNCHANGED <<policy, seating, queue, locked, crew>>

MutPromote ==
  /\ phase = "promoting"
  /\ queue # <<>> /\ OpenSeats # {}
  /\ Seat(Head(queue).key, First(OpenSeats), Head(queue).rank)
  /\ queue' = Tail(queue)
  /\ phase' = "displacing"
  /\ UNCHANGED <<policy, locked, crew>>
\* One round of the first loop: the best waiter into the first open seat.
Promote ==
  /\ phase = "promoting"
  /\ queue # <<>> /\ OpenSeats # {}
  /\ Seat(Head(queue).key, First(OpenSeats), Head(queue).rank)
  /\ queue' = Tail(queue)
  /\ UNCHANGED <<policy, locked, crew, phase>>

Promoted ==
  /\ phase = "promoting"
  /\ queue = <<>> \/ OpenSeats = {}
  /\ phase' = "displacing"
  /\ UNCHANGED <<policy, seating, queue, locked, crew>>

MutHumanSeats == {s \in Seats : slots[s] # Open}
HumanSeats == {s \in Seats : slots[s].state = "Human"}
RankAt(s) == ranks[slots[s].key]

\* The worst-ranked person's seat, the last of them in a tie.
WorstSeated(s) ==
  /\ s \in HumanSeats
  /\ \A u \in HumanSeats : RankAt(u) < RankAt(s) \/ (RankAt(u) = RankAt(s) /\ u <= s)

\* The best waiter outranks the worst-seated.
MutOutranked == queue # <<>> /\ \E s \in HumanSeats : Head(queue).rank <= RankAt(s)
Outranked == queue # <<>> /\ \E s \in HumanSeats : Head(queue).rank < RankAt(s)

MutRequeued(k) == Push(queue, k, ranks[k] + 1)
\* At the rank it was seated with, read before that is forgotten.
Requeued(k) == Push(queue, k, ranks[k])

\* One round of the second loop: the worst-seated back into the queue, at the tail
\* of its own band, and the best waiter into its seat.
Displace(seat) ==
  LET loser == slots[seat].key
      line == Requeued(loser)
      winner == Head(line)
  IN /\ phase = "displacing"
     /\ Outranked /\ WorstSeated(seat)
     /\ slots' = [slots EXCEPT ![seat] = Human(winner.key)]
     /\ index' = [index EXCEPT ![loser] = NoSeat, ![winner.key] = seat]
     /\ ranks' = [ranks EXCEPT ![loser] = NoRank, ![winner.key] = winner.rank]
     /\ queue' = Tail(line)
     /\ UNCHANGED <<policy, locked, crew, phase>>

Resolved ==
  /\ phase = "displacing"
  /\ ~Outranked
  /\ phase' = "idle"
  /\ UNCHANGED <<policy, seating, queue, locked, crew>>

Resolve == Promote \/ Promoted \/ Resolved \/ \E seat \in Seats : Displace(seat)

-----------------------------------------------------------------------------
(* The crew.                                                               *)

\* One bot of a fill: a key nobody has, admitted like a person; the crew notes
\* only a seat.
Fill(b, rank) ==
  /\ phase = "idle"
  /\ Stranger(b) /\ \A s \in Seats : crew[s] # b
  /\ Admitted(b, rank)
  /\ crew' = IF index'[b] = NoSeat THEN crew ELSE [crew EXCEPT ![index'[b]] = b]
  /\ UNCHANGED <<policy, locked, phase>>

\* vacate: departed, and a hold expired at once.
Vacate(s) ==
  LET b == crew[s]
  IN /\ phase = "idle"
     /\ b # NoKey
     /\ crew' = [crew EXCEPT ![s] = NoKey]
     /\ \/ index[b] # NoSeat /\ Free(b) /\ UNCHANGED queue
        \/ index[b] = NoSeat /\ queue' = Without(queue, b) /\ UNCHANGED seating
     /\ UNCHANGED <<policy, locked, phase>>

Gone(s) == crew[s] # NoKey /\ index[crew[s]] # s

StartPrune ==
  /\ phase = "idle"
  /\ phase' = "pruning"
  /\ UNCHANGED <<policy, seating, queue, locked, crew>>

\* One bot the roster no longer seats where the crew thinks.
PruneOne(s) ==
  /\ phase = "pruning"
  /\ Gone(s)
  /\ crew' = [crew EXCEPT ![s] = NoKey]
  /\ Departed(crew[s])
  /\ UNCHANGED <<policy, locked, phase>>

Pruned ==
  /\ phase = "pruning"
  /\ \A s \in Seats : ~Gone(s)
  /\ phase' = "idle"
  /\ UNCHANGED <<policy, seating, queue, locked, crew>>

Prune == Pruned \/ \E s \in Seats : PruneOne(s)

-----------------------------------------------------------------------------

Next ==
  \/ \E k \in People, rank \in PersonRanks : Admit(k, rank)
  \/ \E k \in People : Depart(k) \/ Expire(k)
  \/ SetLock
  \/ StartResolve \/ Resolve
  \/ \E b \in Bots, rank \in BotRanks : Fill(b, rank)
  \/ \E s \in Seats : Vacate(s)
  \/ StartPrune \/ Prune

\* A loop that can go on goes on.
Spec == Init /\ [][Next]_vars /\ WF_vars(Resolve \/ Prune)

-----------------------------------------------------------------------------
(* Properties.                                                             *)

TypeOK ==
  /\ policy \in [waitlist : BOOLEAN, hold : BOOLEAN]
  /\ slots \in [Seats -> Slot]
  /\ index \in [Keys -> Seats \cup {NoSeat}]
  /\ ranks \in [Keys -> Ranks \cup {NoRank}]
  /\ queue \in Seq(Entry)
  /\ locked \in BOOLEAN
  /\ crew \in [Seats -> Bots \cup {NoKey}]
  /\ phase \in {"idle", "promoting", "displacing", "pruning"}

\* A seat and its holder name each other, whatever the order of arrivals, holds,
\* promotions and displacements; and exactly the seated have a rank, so the
\* displacement rule never compares a made-up one (SeatSlots, worst_seated).
SeatsAgree ==
  /\ \A s \in Seats : slots[s] # Open => index[slots[s].key] = s
  /\ \A k \in Keys : index[k] # NoSeat => slots[index[k]].key = k
  /\ \A k \in Keys : ranks[k] = NoRank <=> index[k] = NoSeat

\* Nobody waits twice, or waits while seated, and no bot is in the crew twice, so
\* what prune does for one bot disturbs no other (admit_ranked, resolve, fill).
OnePlace ==
  /\ \A i, j \in DOMAIN queue : queue[i].key = queue[j].key => i = j
  /\ \A k \in Keys : Queued(k) => index[k] = NoSeat
  /\ \A s, t \in Seats : crew[s] = crew[t] /\ crew[s] # NoKey => s = t

\* The queue is in rank order, the displaced included (RankedQueue::push).
QueueOrdered == \A i, j \in DOMAIN queue : i < j => queue[i].rank <= queue[j].rank

NobodyWaitsBeside(s) ==
  /\ slots[s] = Open => queue = <<>>
  /\ slots[s].state = "Human" => \A i \in DOMAIN queue : queue[i].rank >= RankAt(s)

\* When resolve has ended, nobody waits beside an open seat, and nobody waits who
\* outranks a person in a seat (resolve).
ResolveSettles ==
  [][phase = "displacing" /\ phase' = "idle" => \A s \in Seats : NobodyWaitsBeside(s)']_vars

Resolving == phase \in {"promoting", "displacing"}

LosesSeat(s) == slots[s] # Open /\ slots'[s] # slots[s]

ToABetter(s) ==
  /\ slots[s].state = "Human" /\ slots'[s].state = "Human"
  /\ ranks'[slots'[s].key] < ranks[slots[s].key]

\* Resolve takes a seat from a person for a strictly better-ranked one only, and
\* never takes a held seat, which only its key or the clock gives up (the rules of
\* Roster).
OnlyOutranked ==
  [][Resolving => (\A s \in Seats : LosesSeat(s) => ToABetter(s))]_vars

\* The displacement loop ends: no round of it can undo another (resolve).
ResolveEnds == phase = "displacing" ~> phase = "idle"
=============================================================================
