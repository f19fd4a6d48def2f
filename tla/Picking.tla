------------------------------- MODULE Picking -------------------------------
(***************************************************************************)
(* What a retain, a filter or a drain of a list leaves: some of its        *)
(* entries, in their order.  Due events, seated players and the people     *)
(* still waiting for a match are picked out of longer lists this way.      *)
(***************************************************************************)
EXTENDS Integers, Sequences, FiniteSets

\* The entries of s at the places in S, in order.
Picked(s, S) ==
  LET place(i) == Cardinality({j \in S : j <= i})
  IN  [k \in 1..Cardinality(S) |-> s[CHOOSE i \in S : place(i) = k]]
=============================================================================
