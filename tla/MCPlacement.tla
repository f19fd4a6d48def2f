----------------------------- MODULE MCPlacement -----------------------------
(* Placement on a small instance: one player, two arenas of two seats and  *)
(* the bots of quick match.                                                *)
EXTENDS Placement
=============================================================================
