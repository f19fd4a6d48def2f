------------------------------ MODULE Placement ------------------------------
(***************************************************************************)
(* Getting a player from the lobby into a seat: the lobby's controller     *)
(* (examples/lobby_world/src/lobby.rs) over the manager, match queue,      *)
(* tickets and seat reservations of lobby/src, and the arenas              *)
(* (examples/lobby_world/src/room.rs) it places people in.                 *)
(*                                                                         *)
(* The lobby is one task.  A request is a list of jobs it works through in *)
(* order, and a job that asks something of an arena waits for the answer;  *)
(* meanwhile arenas, clients and clocks carry on.  An arena is a task with *)
(* a command queue.                                                        *)
(*                                                                         *)
(* Abstractions.  Every arena suits every link, has no password and never  *)
(* ends; wallets, links and the pot are left out, and so are spectators,   *)
(* who hold nothing, the filler, which seats bots by the same two commands *)
(* as a quick match, and the lobby's copy of an arena's seat count, which  *)
(* is refreshed in the step that reads it.  Time is a tick that ages       *)
(* everything; an arena sweeps 20 times a second and a request takes       *)
(* milliseconds, against windows of tens of seconds, so no tick passes     *)
(* while a request runs or a sweep is due.                                 *)
(***************************************************************************)
EXTENDS Picking

CONSTANTS
  Players, Bots, Rooms,
  NoRoom, NoTicket,
  Tokens,              \* bound: tickets outstanding at once
  MaxPlayers,          \* seats in an arena
  MatchSize, Patience,
  TicketWindow, ReservationWindow

ASSUME PlacementAssumption ==
  /\ Players \cap Bots = {} /\ IsFiniteSet(Players \cup Bots)
  /\ NoRoom \notin Rooms
  /\ MaxPlayers \in Nat \ {0} /\ MatchSize \in Nat \ {0}
  /\ Patience \in Nat \ {0}
  /\ TicketWindow \in Nat \ {0} /\ ReservationWindow \in Nat
  /\ TicketWindow < ReservationWindow

Guests == Players \cup Bots
NotHeld == -1

Ticket == [who : Players, room : Rooms, age : 0..ReservationWindow,
           fresh : BOOLEAN, dialing : BOOLEAN]

VARIABLES
  gone,         \* those whose departure the lobby has heard
  queue,        \* MatchQueue::waiting
  reservedIn,   \* LobbyState::reserved_in
  sentTo,       \* InMemoryLobbyManager::player_to_room_map
  work,         \* what is left of the request the lobby is serving
  held,         \* SeatReservations::held of each arena: the age of a promise
  seats,        \* who holds a seat of the arena's Roster
  inbox,        \* the arena's command queue
  tickets       \* TicketStore, and redeemed tickets not yet an arrival

lobbyVars == <<gone, queue, reservedIn, sentTo, work>>
arenaVars == <<held, seats>>
vars == <<lobbyVars, arenaVars, inbox, tickets>>

Promised(r) == {g \in Guests : held[r][g] # NotHeld}

Job(do, who, room) == [do |-> do, who |-> who, room |-> room]

\* The jobs whose answer the lobby waits for: submit_system_ops, query_with.
Awaited == {"Reserve", "Withdraw", "MakeRoom"}

Waiting == \E r \in Rooms : \E i \in DOMAIN inbox[r] : inbox[r][i].do \in Awaited
Idle == work = <<>> /\ ~Waiting

Send(r, do, who) ==
  inbox' = [inbox EXCEPT ![r] = Append(@, [do |-> do, who |-> who])]

Init ==
  /\ gone = {}
  /\ queue = <<>>
  /\ reservedIn = [p \in Players |-> NoRoom]
  /\ sentTo = [p \in Players |-> NoRoom]
  /\ work = <<>>
  /\ held = [r \in Rooms |-> [g \in Guests |-> NotHeld]]
  /\ seats = [r \in Rooms |-> {}]
  /\ inbox = [r \in Rooms |-> <<>>]
  /\ tickets = [t \in Tokens |-> NoTicket]

(***************************************************************************)
(* What the lobby hears of a client: its departure and its ops.  An id is  *)
(* one connection's; its arrival changes nothing that is modelled.  Ops    *)
(* are handled whoever sent them: they travel apart from arrivals and      *)
(* departures, so one may be taken before its sender's arrival, and one    *)
(* sent just before hanging up after the departure (controller.rs run).    *)
(***************************************************************************)
Without(p) == Picked(queue, {i \in DOMAIN queue : queue[i].who # p})

Leave(p) ==
  /\ Idle /\ p \notin gone
  /\ gone' = gone \cup {p}
  /\ queue' = Without(p)
  /\ reservedIn' = [reservedIn EXCEPT ![p] = NoRoom]
  /\ work' = (IF reservedIn[p] = NoRoom THEN <<>>
              ELSE <<Job("Withdraw", p, reservedIn[p])>>)
             \o <<Job("Notify", p, NoRoom)>>
  /\ UNCHANGED <<sentTo, arenaVars, inbox, tickets>>

Join(p, r) ==
  /\ Idle
  /\ work' = <<Job("MakeRoom", p, r), Job("Admit", p, r)>>
  /\ UNCHANGED <<gone, queue, reservedIn, sentTo, arenaVars, inbox, tickets>>

QuickMatch(p) ==
  /\ Idle
  /\ \A i \in DOMAIN queue : queue[i].who # p
  /\ queue' = Append(queue, [who |-> p, age |-> 0])
  /\ UNCHANGED <<gone, reservedIn, sentTo, work, arenaVars, inbox, tickets>>

LeaveQueue(p) ==
  /\ Idle
  /\ queue # Without(p)
  /\ queue' = Without(p)
  /\ UNCHANGED <<gone, reservedIn, sentTo, work, arenaVars, inbox, tickets>>

\* A token over the bound is one its client never dials.
Issue(p, r, fresh) ==
  IF \A t \in Tokens : tickets[t] # NoTicket THEN UNCHANGED tickets
  ELSE LET t == CHOOSE u \in Tokens : tickets[u] = NoTicket
       IN  tickets' = [tickets EXCEPT ![t] =
             [who |-> p, room |-> r, age |-> 0, fresh |-> fresh, dialing |-> FALSE]]

Spectate(p, r) ==
  /\ Idle
  /\ Issue(p, r, FALSE)
  /\ UNCHANGED <<lobbyVars, arenaVars, inbox>>

(***************************************************************************)
(* The lobby's tick: MatchQueue::drain_ready, one job for each match.      *)
(***************************************************************************)
Names(q) == [i \in DOMAIN q |-> q[i].who]
FullMatches == Len(queue) \div MatchSize
Rest == SubSeq(queue, FullMatches * MatchSize + 1, Len(queue))
MutOutOfPatience == Rest # <<>> /\ Head(Rest).age > Patience
OutOfPatience == Rest # <<>> /\ Head(Rest).age >= Patience

Ready ==
  [i \in 1..FullMatches |->
     Job("Match", Names(SubSeq(queue, (i - 1) * MatchSize + 1, i * MatchSize)), NoRoom)]
  \o (IF OutOfPatience THEN <<Job("Match", Names(Rest), NoRoom)>> ELSE <<>>)

Drain ==
  /\ Idle /\ Ready # <<>>
  /\ work' = Ready
  /\ queue' = IF OutOfPatience THEN <<>> ELSE Rest
  /\ UNCHANGED <<gone, reservedIn, sentTo, arenaVars, inbox, tickets>>

(***************************************************************************)
(* The jobs.                                                               *)
(***************************************************************************)
Now == Head(work)
Ask ==
  /\ Now.do \in Awaited
  /\ Send(Now.room, Now.do, Now.who)
  /\ work' = Tail(work)
  /\ UNCHANGED <<gone, queue, reservedIn, sentTo, tickets>>

Seated == [r \in Rooms |-> Cardinality(seats[r])]

\* refresh_seat_counts, then handle_join_room_request.
Admit ==
  /\ Now.do = "Admit"
  /\ IF Seated[Now.room] < MaxPlayers
       THEN /\ sentTo' = [sentTo EXCEPT ![Now.who] = Now.room]
            /\ work' = <<Job("Promise", Now.who, Now.room)>> \o Tail(work)
       ELSE /\ UNCHANGED sentTo
            /\ work' = Tail(work)
  /\ UNCHANGED <<gone, queue, reservedIn, inbox, tickets>>

MutSuperseded(p, r) == <<>>
\* An earlier promise elsewhere is withdrawn before the new one is made.
Superseded(p, r) ==
  IF reservedIn[p] \in {NoRoom, r} THEN <<>>
  ELSE <<Job("Withdraw", p, reservedIn[p])>>

Promise ==
  /\ Now.do = "Promise"
  /\ reservedIn' = [reservedIn EXCEPT ![Now.who] = Now.room]
  /\ work' = Superseded(Now.who, Now.room)
             \o <<Job("Reserve", Now.who, Now.room), Job("Place", Now.who, Now.room)>>
             \o Tail(work)
  /\ UNCHANGED <<gone, queue, sentTo, inbox, tickets>>

Place ==
  /\ Now.do = "Place"
  /\ Issue(Now.who, Now.room, held[Now.room][Now.who] = 0)
  /\ work' = Tail(work)
  /\ UNCHANGED <<gone, queue, reservedIn, sentTo, inbox>>

\* handle_player_leaving_lobby: the arena hears of it as a departure.
Notify ==
  /\ Now.do = "Notify"
  /\ sentTo' = [sentTo EXCEPT ![Now.who] = NoRoom]
  /\ work' = Tail(work)
  /\ IF sentTo[Now.who] = NoRoom THEN UNCHANGED inbox
     ELSE Send(sentTo[Now.who], "Left", Now.who)
  /\ UNCHANGED <<gone, queue, reservedIn, tickets>>

IsFree(b) ==
  \A r \in Rooms : /\ b \notin seats[r] \cup Promised(r)
                   /\ \A i \in DOMAIN inbox[r] : inbox[r][i].who # b

\* seat_formed.  Bound: with no bot identity left a match finds no arena.
SeatMatch ==
  /\ Now.do = "Match"
  /\ LET needed == MatchSize - Len(Now.who)
         fitting == {r \in Rooms : MaxPlayers - Seated[r] >= MatchSize}
         lineups == {bs \in [1..needed -> {b \in Bots : IsFree(b)}] :
                       \A i, j \in 1..needed : bs[i] = bs[j] => i = j}
     IN  \/ /\ fitting = {} \/ lineups = {}
            /\ work' = Tail(work)
         \/ \E r \in fitting, bs \in lineups :
              work' = [i \in 1..needed |-> Job("SeatBot", bs[i], r)]
                      \o [i \in DOMAIN Now.who |-> Job("Promise", Now.who[i], r)]
                      \o Tail(work)
  /\ UNCHANGED <<gone, queue, reservedIn, sentTo, inbox, tickets>>

SeatBot ==
  /\ Now.do = "SeatBot"
  /\ work' = <<Job("Reserve", Now.who, Now.room), Job("BotJoin", Now.who, Now.room)>>
             \o Tail(work)
  /\ UNCHANGED <<gone, queue, reservedIn, sentTo, inbox, tickets>>

BotJoin ==
  /\ Now.do = "BotJoin"
  /\ Send(Now.room, "Joined", Now.who)
  /\ work' = Tail(work)
  /\ UNCHANGED <<gone, queue, reservedIn, sentTo, tickets>>

Serve ==
  /\ work # <<>> /\ ~Waiting
  /\ Ask \/ Admit \/ Promise \/ Place \/ Notify \/ SeatMatch \/ SeatBot \/ BotJoin
  /\ UNCHANGED arenaVars

(***************************************************************************)
(* The arenas.                                                             *)
(***************************************************************************)
MutReserve(r, g) == [held EXCEPT ![r][g] = 0]
Reserve(r, g) == IF held[r][g] = NotHeld THEN [held EXCEPT ![r][g] = 0] ELSE held
Release(r, g) == [held EXCEPT ![r][g] = NotHeld]

\* Roster::admit without a waitlist: an open seat or none.
Admitted(r, g) ==
  IF Cardinality(seats[r]) < MaxPlayers THEN [seats EXCEPT ![r] = @ \cup {g}] ELSE seats

MutAgentJoined(r, g) == held' = Release(r, g) /\ seats' = Admitted(r, g)
AgentJoined(r, g) ==
  /\ held' = Release(r, g)
  /\ seats' = IF g \in Promised(r) THEN Admitted(r, g) ELSE seats

AgentLeft(r, g) ==
  /\ seats' = [seats EXCEPT ![r] = @ \ {g}]
  /\ UNCHANGED held

SeatedBots(r) == Bots \cap seats[r]

MakeRoom(r) ==
  IF Cardinality(seats[r]) + Cardinality(Promised(r)) >= MaxPlayers /\ SeatedBots(r) # {}
    THEN \E b \in SeatedBots(r) : AgentLeft(r, b)
    ELSE UNCHANGED arenaVars

Handle(r) ==
  /\ inbox[r] # <<>>
  /\ inbox' = [inbox EXCEPT ![r] = Tail(@)]
  /\ LET c == Head(inbox[r])
     IN  \/ c.do = "Reserve" /\ held' = Reserve(r, c.who) /\ UNCHANGED seats
         \/ c.do = "Withdraw" /\ held' = Release(r, c.who) /\ UNCHANGED seats
         \/ c.do = "MakeRoom" /\ MakeRoom(r)
         \/ c.do = "Joined" /\ AgentJoined(r, c.who)
         \/ c.do = "Left" /\ AgentLeft(r, c.who)
  /\ UNCHANGED <<lobbyVars, tickets>>

MutOverdue(r) == {g \in Guests : held[r][g] >= TicketWindow}
MutLate(r) == {g \in Guests : held[r][g] > ReservationWindow}
Overdue(r) == {g \in Guests : held[r][g] >= ReservationWindow}
SeatedHumans(r) == Players \cap seats[r]
Idlers(r) == IF SeatedHumans(r) = {} THEN Bots \cap seats[r] ELSE {}

Sweep(r) ==
  /\ Overdue(r) \cup Idlers(r) # {}
  /\ held' = [held EXCEPT ![r] = [g \in Guests |-> IF g \in Overdue(r) THEN NotHeld ELSE @[g]]]
  /\ seats' = [seats EXCEPT ![r] = @ \ Idlers(r)]
  /\ UNCHANGED <<lobbyVars, inbox, tickets>>

(***************************************************************************)
(* The clients' sockets.  arena_route spends the ticket; some time later   *)
(* the session is up and the arena hears of the arrival.                   *)
(***************************************************************************)
Dial(t) ==
  /\ tickets[t] # NoTicket /\ ~tickets[t].dialing
  /\ tickets' = IF tickets[t].age >= TicketWindow
                  THEN [tickets EXCEPT ![t] = NoTicket]
                  ELSE [tickets EXCEPT ![t].dialing = TRUE, ![t].age = 0]
  /\ UNCHANGED <<lobbyVars, arenaVars, inbox>>

Arrive(t) ==
  /\ tickets[t] # NoTicket /\ tickets[t].dialing
  /\ AgentJoined(tickets[t].room, tickets[t].who)
  /\ tickets' = [tickets EXCEPT ![t] = NoTicket]
  /\ UNCHANGED <<lobbyVars, inbox>>

HangUp(p, r) ==
  /\ p \in seats[r]
  /\ AgentLeft(r, p)
  /\ UNCHANGED <<lobbyVars, inbox, tickets>>

(***************************************************************************)
(* Time.  A handshake is over within the time the reservation outlasts the *)
(* ticket by: the two windows are chosen so (main.rs).                     *)
(***************************************************************************)
Older(age, cap) == IF age < cap THEN age + 1 ELSE cap
DialsOnTime == \A t \in Tokens :
  tickets[t] # NoTicket /\ tickets[t].dialing
    => tickets[t].age < ReservationWindow - TicketWindow

Tick ==
  /\ Idle /\ DialsOnTime
  /\ \A r \in Rooms : Overdue(r) = {}
  /\ queue' = [i \in DOMAIN queue |-> [queue[i] EXCEPT !.age = Older(@, Patience)]]
  /\ held' = [r \in Rooms |-> [g \in Guests |->
                IF held[r][g] = NotHeld THEN NotHeld ELSE held[r][g] + 1]]
  /\ tickets' = [t \in Tokens |->
                   IF tickets[t] = NoTicket THEN NoTicket
                   ELSE [tickets[t] EXCEPT !.age = Older(@, ReservationWindow)]]
  /\ UNCHANGED <<gone, reservedIn, sentTo, work, seats, inbox>>

Next ==
  \/ \E p \in Players :
       \/ Leave(p) \/ QuickMatch(p) \/ LeaveQueue(p)
       \/ \E r \in Rooms : Join(p, r) \/ Spectate(p, r) \/ HangUp(p, r)
  \/ Drain \/ Serve
  \/ \E r \in Rooms : Handle(r) \/ Sweep(r)
  \/ \E t \in Tokens : Dial(t) \/ Arrive(t)
  \/ Tick

\* Every task runs on, a handshake ends, and time passes: a stream of requests
\* keeps the lobby busy for a moment at a time and stops neither clock nor tick.
Spec ==
  /\ Init /\ [][Next]_vars
  /\ WF_vars(Serve) /\ SF_vars(Drain) /\ SF_vars(Tick)
  /\ \A r \in Rooms : WF_vars(Handle(r)) /\ WF_vars(Sweep(r))
  /\ \A t \in Tokens : WF_vars(Arrive(t))

(***************************************************************************)
(* Properties.                                                             *)
(***************************************************************************)
Command == [do : Awaited \cup {"Joined", "Left"}, who : Guests]

TypeOK ==
  /\ gone \subseteq Players
  /\ queue \in Seq([who : Players, age : 0..Patience])
  /\ reservedIn \in [Players -> Rooms \cup {NoRoom}]
  /\ sentTo \in [Players -> Rooms \cup {NoRoom}]
  /\ held \in [Rooms -> [Guests -> NotHeld..ReservationWindow]]
  /\ seats \in [Rooms -> SUBSET Guests]
  /\ inbox \in [Rooms -> Seq(Command)]
  /\ tickets \in [Tokens -> Ticket \cup {NoTicket}]

\* A withdrawal the lobby has begun and the arena has not applied.
Withdrawing(p, r) ==
  \/ \E i \in DOMAIN work : work[i] = Job("Withdraw", p, r)
  \/ \E i \in DOMAIN inbox[r] : inbox[r][i].do = "Withdraw" /\ inbox[r][i].who = p

\* An arena keeps a promise only for the player's latest placement, across
\* re-placements, quick matches and departures: an older promise is already
\* being withdrawn (lobby.rs reserve_seat, "holding two would leave the first
\* arena counting a seat nobody is coming to fill").
OnePromise ==
  \A p \in Players, r \in Rooms :
    p \in Promised(r) => reservedIn[p] = r \/ Withdrawing(p, r)

\* The lobby finishes working through a departure.
Departs(p) == Serve /\ Now.do = "Notify" /\ Now.who = p

\* A departure, once worked through, has taken the player out of the queue and
\* back every promise any arena kept, whatever they asked for before, was still
\* on its way or was kept elsewhere (lobby.rs AgentLeft, "leaving the lobby means
\* the seat will never be taken").  An op the departure overtook comes after.
DepartureClears ==
  [][\A p \in Players : Departs(p) =>
       /\ \A i \in DOMAIN queue : queue[i].who # p
       /\ \A r \in Rooms : p \notin Promised(r)]_vars

\* A player takes a seat only where the lobby last placed them: an old ticket
\* or a spectator's leads to no seat (room.rs AgentJoined).
SeatsFollowPlacement ==
  [][\A p \in Players, r \in Rooms :
       p \in seats'[r] \ seats[r] => reservedIn[p] = r \/ Withdrawing(p, r)]_vars

\* No promise lapses while the ticket handed out with it can still be dialled,
\* or has been and its socket is coming up (reservations.rs, "the window has to
\* be longer than the placement ticket's").
PromiseOutlastsTicket ==
  [][\A p \in Players, r \in Rooms :
       Sweep(r) /\ p \in Promised(r) /\ p \notin Promised(r)'
         => \A t \in Tokens :
              ~ /\ tickets[t] # NoTicket
                /\ tickets[t].who = p /\ tickets[t].room = r /\ tickets[t].fresh
                /\ tickets[t].dialing \/ tickets[t].age < TicketWindow]_vars

\* A promise is not kept for ever: it is taken up, withdrawn or lapses, even
\* if the player goes on asking for it (reservations.rs reserve, "re-reserving
\* does not restart the window").
PromisesEnd ==
  \A p \in Players, r \in Rooms : p \in Promised(r) ~> p \notin Promised(r)

\* Whoever waits for a quick match leaves the queue: matched, with bots if
\* nobody else comes, or by choice (queue.rs drain_ready).
QueueServed ==
  \A p \in Players :
    (\E i \in DOMAIN queue : queue[i].who = p) ~> (\A i \in DOMAIN queue : queue[i].who # p)
=============================================================================
