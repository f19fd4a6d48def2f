---------------------------- MODULE MCController ----------------------------
(* Two callers: one of them makes calls enough to shut the controller down   *)
(* twice, with a command of the other's ahead, between or behind.            *)
EXTENDS Controller

CONSTANTS a, b

MCCallers == {a, b}
MCKinds == {"Ops", "Acked", "Query", "Shutdown"}
MCCalls == [c \in MCCallers |-> IF c = a THEN 2 ELSE 1]
=============================================================================
