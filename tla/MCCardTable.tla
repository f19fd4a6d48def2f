----------------------------- MODULE MCCardTable -----------------------------
(* CardTable on a small instance: a table of three, two rounds a match.    *)
EXTENDS CardTable
=============================================================================
