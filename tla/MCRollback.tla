----------------------------- MODULE MCRollback -----------------------------
(* Rollback on a small instance.  A world is what was fed to the step so   *)
(* far, which tells apart whatever any step could.                         *)
EXTENDS Rollback, FiniteSets, TLC

CONSTANTS p1, p2, still, push

NeutralInputs == [p \in Peers |-> still]
NoneApplied == <<>>
AppliedWorlds == UNION {[1..n -> Vectors] : n \in 0..MaxFrame}
Applied(w, v) == IF Len(w) < MaxFrame THEN Append(w, v) ELSE w
RepeatLast(i, f) == i

\* Nothing tells the peers apart.
Swaps == Permutations({p1, p2})
=============================================================================
