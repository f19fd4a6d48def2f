--------------------------- MODULE MCDeltaRepair ---------------------------
(* DeltaRepair on a small instance: two occupants of one slot. *)
EXTENDS DeltaRepair, TLC

CONSTANTS a1, a2

MCKeys == {a1, a2}
MCSlotOf == (a1 :> a1) @@ (a2 :> a1)
MCSymmetry == Permutations(MCKeys)
=============================================================================
