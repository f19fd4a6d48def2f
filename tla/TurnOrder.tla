------------------------------ MODULE TurnOrder ------------------------------
(***************************************************************************)
(* RoundRobinTurnManager (core/src/game_common/flow_control/turns.rs): who *)
(* takes a turn, and after whom.  An order is a value; its methods are     *)
(* operators from an order to an order.  The turn number, the notices and  *)
(* the time limit, which the manager only announces, are left out.         *)
(***************************************************************************)
EXTENDS Integers, Sequences

NoTurn == 0   \* current is None; otherwise the place of the actor on turn

Order(Actor) == [actors : Seq(Actor), current : Nat]
EmptyOrder == [actors |-> <<>>, current |-> NoTurn]

InOrder(o, a) == \E i \in DOMAIN o.actors : o.actors[i] = a
OnTurn(o, a) == o.current \in DOMAIN o.actors /\ o.actors[o.current] = a

Restart(o) == [o EXCEPT !.current = IF o.actors = <<>> THEN NoTurn ELSE 1]

AddActor(o, a) == [o EXCEPT !.actors = Append(@, a)]

PlaceOf(o, a) ==
  CHOOSE i \in DOMAIN o.actors : o.actors[i] = a /\ \A j \in 1..i - 1 : o.actors[j] # a

Dropped(s, i) == [j \in 1..Len(s) - 1 |-> IF j < i THEN s[j] ELSE s[j + 1]]

MutPassed(current, i, left) ==
  IF left = 0 THEN NoTurn ELSE IF i < current THEN current - 1 ELSE current
\* The place of the actor on turn once the actor at place i is out.
Passed(current, i, left) ==
  IF left = 0 THEN NoTurn
  ELSE IF i < current THEN current - 1
  ELSE IF i = current /\ current > left THEN 1
  ELSE current

RemoveActor(o, a) ==
  IF ~InOrder(o, a) THEN o
  ELSE LET i == PlaceOf(o, a)
       IN  [actors |-> Dropped(o.actors, i),
            current |-> Passed(o.current, i, Len(o.actors) - 1)]

\* Defined on an order with a turn in progress.
Advance(o) == [o EXCEPT !.current = (@ % Len(o.actors)) + 1]
=============================================================================
