------------------------------ MODULE CardTable ------------------------------
(***************************************************************************)
(* A game built on the flow-control managers: the card table of            *)
(* examples/card_table/src/logic.rs over the turn order (TurnOrder), the   *)
(* rounds, the phase and the phase's scheduler of                          *)
(* core/src/game_common/flow_control.                                      *)
(*                                                                         *)
(* The table is one value and a handler is an operator on it, so that the  *)
(* calls nest as they do in the code.  A tick hands the handler every      *)
(* timeout due at once and the handler works through them; each is a step  *)
(* here, and nothing else happens until the last.                          *)
(*                                                                         *)
(* Abstractions.  A hand is the number of cards in it; scores and notices  *)
(* are left out.  An event that belongs to an earlier phase is dropped     *)
(* when the phase changes rather than when it comes due, unless it is      *)
(* already in the handler's hands.                                         *)
(***************************************************************************)
EXTENDS TurnOrder, Picking, SequencesExt

CONSTANTS
  Players, Nobody,
  TableSize, HandSize, Rounds,
  TurnTimeout, Intermission   \* in ticks

ASSUME CardTableAssumption ==
  /\ Nobody \notin Players
  /\ TableSize \in Nat \ {0} /\ Rounds \in Nat \ {0}
  /\ HandSize \in Nat \ {0, 1}
  /\ TurnTimeout \in Nat \ {0} /\ Intermission \in Nat \ {0}

VARIABLE t

Chairs == 1..TableSize
Seated(tb) == {tb.seats[c] : c \in Chairs} \ {Nobody}
Full(tb) == \A c \in Chairs : tb.seats[c] # Nobody

\* An AutoPlay names its player, a NewMatch nobody.
Event == [left : Nat, who : Players \cup {Nobody}]

TableState ==
  [phase : {"Dealing", "Playing", "Scoring", "Finished"},
   turns : Order(Players),
   round : 0..Rounds, inProgress : BOOLEAN,
   seats : [Chairs -> Players \cup {Nobody}],
   hands : [Players -> 0..HandSize],
   table : Seq(Players),
   timeouts : Seq(Event),       \* in the order they were scheduled
   batch : Seq(Event)]          \* due now, and not yet handled

Init ==
  t = [phase |-> "Dealing", turns |-> EmptyOrder,
       round |-> 0, inProgress |-> FALSE,
       seats |-> [c \in Chairs |-> Nobody], hands |-> [p \in Players |-> 0],
       table |-> <<>>, timeouts |-> <<>>, batch |-> <<>>]

(***************************************************************************)
(* The phase and its scheduler.                                            *)
(***************************************************************************)
\* A new phase makes every event scheduled before it stale.
TransitionTo(tb, phase) ==
  IF tb.phase = phase THEN tb
  ELSE [tb EXCEPT !.phase = phase, !.timeouts = <<>>]

ScheduleAfter(tb, delay, who) ==
  [tb EXCEPT !.timeouts = Append(@, [left |-> delay, who |-> who])]

MutArmTurnTimeout(tb) == tb
ArmTurnTimeout(tb) ==
  IF tb.turns.current \in DOMAIN tb.turns.actors
    THEN ScheduleAfter(tb, TurnTimeout, tb.turns.actors[tb.turns.current])
    ELSE tb

(***************************************************************************)
(* The handlers' parts, innermost first.                                   *)
(***************************************************************************)
FinishMatch(tb) == ScheduleAfter(TransitionTo(tb, "Finished"), Intermission, Nobody)

MutNewcomers(tb) == Picked(tb.seats, {c \in Chairs : tb.seats[c] # Nobody})
\* Whoever arrived since the last deal, in seat order.
Newcomers(tb) ==
  Picked(tb.seats,
         {c \in Chairs : tb.seats[c] # Nobody /\ ~InOrder(tb.turns, tb.seats[c])})

MutDeal(tb) ==
  [tb EXCEPT !.hands = [p \in Players |-> IF p \in Seated(tb) THEN HandSize + 1 ELSE 0],
             !.table = <<>>]
Deal(tb) ==
  [tb EXCEPT !.hands = [p \in Players |-> IF p \in Seated(tb) THEN HandSize ELSE 0],
             !.table = <<>>]

StartNextRound(tb) == [tb EXCEPT !.round = @ + 1, !.inProgress = TRUE]

BeginRound(tb) ==
  LET dealt == [Deal(TransitionTo(tb, "Dealing")) EXCEPT
                  !.turns.actors = @ \o Newcomers(tb)]
      playing == TransitionTo(StartNextRound(dealt), "Playing")
  IN  IF dealt.inProgress \/ dealt.round >= Rounds
        THEN FinishMatch(dealt)
        ELSE ArmTurnTimeout([playing EXCEPT !.turns = Restart(@)])

StartMatch(tb) == BeginRound([tb EXCEPT !.round = 0, !.inProgress = FALSE])

ResolveTrick(tb) ==
  LET ended == [TransitionTo(tb, "Scoring") EXCEPT !.inProgress = FALSE]
  IN  IF ended.round >= Rounds THEN FinishMatch(ended) ELSE BeginRound(ended)

PlayCard(tb, p) ==
  LET played == [tb EXCEPT !.hands[p] = @ - 1, !.table = Append(@, p)]
  IN  IF Len(played.table) < Len(played.turns.actors)
        THEN ArmTurnTimeout([played EXCEPT !.turns = Advance(@)])
        ELSE ResolveTrick(played)

(***************************************************************************)
(* The handlers.                                                           *)
(***************************************************************************)
Between == t.batch = <<>>

FirstOpen(tb) ==
  CHOOSE c \in Chairs : tb.seats[c] = Nobody /\ \A d \in 1..c - 1 : tb.seats[d] # Nobody

\* A player who finds no chair watches, and is no part of the table.
SeatPlayer(p) ==
  /\ Between
  /\ p \notin Seated(t) /\ ~Full(t)
  /\ LET seated == [t EXCEPT !.seats[FirstOpen(t)] = p,
                             !.turns = IF t.inProgress THEN @ ELSE AddActor(@, p)]
     IN  t' = IF Full(seated) /\ ~t.inProgress THEN StartMatch(seated) ELSE seated

Unseated(tb, p) ==
  [tb EXCEPT !.seats = [c \in Chairs |-> IF @[c] = p THEN Nobody ELSE @[c]],
             !.hands[p] = 0,
             !.turns = RemoveActor(@, p)]

MutUnseatPlayer(p) ==
  /\ Between
  /\ p \in Seated(t)
  /\ t' = Unseated(t, p)
UnseatPlayer(p) ==
  /\ Between
  /\ p \in Seated(t)
  /\ t' = IF OnTurn(t.turns, p) /\ t.phase = "Playing"
            THEN ArmTurnTimeout(Unseated(t, p))
            ELSE Unseated(t, p)

Play(p) ==
  /\ Between
  /\ t.phase = "Playing" /\ OnTurn(t.turns, p) /\ t.hands[p] > 0
  /\ t' = PlayCard(t, p)

Aged(events) == [i \in DOMAIN events |-> [events[i] EXCEPT !.left = @ - 1]]

\* PhasedScheduler::due over TickEventScheduler::tick.
Tick ==
  /\ Between
  /\ LET due == {i \in DOMAIN t.timeouts : t.timeouts[i].left = 1}
     IN  t' = [t EXCEPT !.timeouts = Aged(Picked(@, DOMAIN @ \ due)),
                        !.batch = Aged(Picked(t.timeouts, due))]

AutoPlay(tb, p) ==
  IF OnTurn(tb.turns, p) /\ tb.hands[p] > 0 THEN PlayCard(tb, p) ELSE tb

NewMatch(tb) == IF Full(tb) THEN StartMatch(tb) ELSE tb

\* Events due together come out last scheduled first.
Fire ==
  /\ t.batch # <<>>
  /\ LET e == Last(t.batch)
         rest == [t EXCEPT !.batch = Front(@)]
     IN  t' = IF e.who = Nobody THEN NewMatch(rest) ELSE AutoPlay(rest, e.who)

Next ==
  \/ \E p \in Players : SeatPlayer(p) \/ UnseatPlayer(p) \/ Play(p)
  \/ Tick \/ Fire

\* The tick driver never stops, and a handler runs to its end.
Spec == Init /\ [][Next]_t /\ WF_t(Tick) /\ WF_t(Fire)

(***************************************************************************)
(* Properties.                                                             *)
(***************************************************************************)
TypeOK == t \in TableState

Actors == {t.turns.actors[i] : i \in DOMAIN t.turns.actors}

\* The order of play names each actor once and only people at the table, however
\* they come, go and return in mid-round (logic.rs seat_player, unseat_player,
\* begin_round).
OrderSeated ==
  /\ \A i, j \in DOMAIN t.turns.actors :
       t.turns.actors[i] = t.turns.actors[j] => i = j
  /\ Actors \subseteq Seated(t)

\* While people play, somebody is on turn, and those who hold cards are those
\* in the order: a newcomer is dealt nothing, and a turn that comes round again
\* because others left finds one more card in the hand (logic.rs seat_player,
\* "a player with no hand could never end their turn").
TurnIsPlayable ==
  t.phase = "Playing" =>
    /\ t.turns.actors # <<>> => t.turns.current \in DOMAIN t.turns.actors
    /\ Actors = {p \in Players : t.hands[p] > 0}

\* Whoever is on turn has a clock running: a live timeout names them (logic.rs
\* unseat_player, "a table of absent players waits forever").
TurnHasClock ==
  t.phase = "Playing" =>
    \A p \in Players : OnTurn(t.turns, p) =>
      \/ \E i \in DOMAIN t.timeouts : t.timeouts[i].who = p
      \/ \E i \in DOMAIN t.batch : t.batch[i].who = p

\* A match that is being played ends, with nobody at the keyboard, unless all
\* who play it leave (logic.rs run_due_timeouts, finish_match).
MatchEnds ==
  t.phase = "Playing" ~> t.phase = "Finished" \/ t.turns.actors = <<>>

\* A full table in the middle of a round has somebody to play it, or the deal
\* its newcomers wait for never comes (logic.rs seat_player, "dealt in at the
\* next deal", and run_due_timeouts, "dealing to nobody would leave a table
\* mid-round that the next arrival could not join").
RoundHasPlayers == t.inProgress /\ Full(t) => t.turns.actors # <<>>
=============================================================================
