------------------------------ MODULE MCRoster ------------------------------
(* Roster on a small instance: two seats, two people, two bots.            *)
EXTENDS Roster

CONSTANTS p1, p2, b1, b2

MCPeople == {p1, p2}
MCBots == {b1, b2}
=============================================================================
