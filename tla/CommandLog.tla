----------------------------- MODULE CommandLog -----------------------------
(***************************************************************************)
(* What a StateController promises whoever sends it commands: they are     *)
(* served one at a time in the order they were accepted, none twice and    *)
(* none passed over, until it is over, and the application's state is what *)
(* the ops among those served made of it.                                  *)
(***************************************************************************)
EXTENDS Naturals, Sequences

CONSTANTS
  Command,   \* what may be accepted
  Op         \* the commands that go through the application's logic

VARIABLES
  log,       \* the commands accepted
  done,      \* how many of them have been served
  state,     \* the ops the state is the result of
  over       \* nothing more is served

vars == <<log, done, state, over>>

Init == log = <<>> /\ done = 0 /\ state = <<>> /\ over = FALSE

Accept(x) == log' = Append(log, x) /\ UNCHANGED <<done, state, over>>

\* What is served may be what ends it.
Serve ==
  /\ ~over
  /\ done < Len(log)
  /\ done' = done + 1
  /\ state' = IF log[done'] \in Op THEN Append(state, log[done']) ELSE state
  /\ over' \in BOOLEAN
  /\ UNCHANGED log

End == over' = TRUE /\ UNCHANGED <<log, done, state>>

Next == (\E x \in Command : Accept(x)) \/ Serve \/ End

Spec == Init /\ [][Next]_vars
=============================================================================
