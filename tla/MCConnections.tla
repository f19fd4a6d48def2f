--------------------------- MODULE MCConnections ---------------------------
(* Connections on small instances: one agent with one or two connections.  *)
EXTENDS Connections, TLC

CONSTANTS c1, c2, a1

MCOneConn == {c1}
MCTwoConns == {c1, c2}
MCAgents == {a1}
MCAgentOf == [c \in Conns |-> a1]
MCSymmetry == Permutations(MCTwoConns)
=============================================================================
