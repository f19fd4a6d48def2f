---------------------------- MODULE DeltaRepair ----------------------------
(***************************************************************************)
(* How long a stream takes to put a mirror right.  Up to round ChaosUntil  *)
(* everything of DeltaStream may happen: loss, drift, dropped mirrors, new *)
(* occupants of the slot, changes of policy, rebuilds asked for.  From     *)
(* then on the link delivers, the client acknowledges each packet as it    *)
(* applies it (as the clients built on DeltaMirror do) and the answer is   *)
(* back before the next round; nobody takes the slot or changes anything.  *)
(* What the bad rounds left behind (a gap in the window, a stalled         *)
(* subscriber, a stale baseline, packets and acknowledgements in flight)   *)
(* is then repaired within a number of rounds.                             *)
(***************************************************************************)
EXTENDS DeltaStream

CONSTANT ChaosUntil

ASSUME ChaosAssumption == ChaosUntil \in Nat /\ ChaosUntil < MaxSeq

Calm == nextSeq > ChaosUntil

\* The client applies the next packet and acknowledges at once.
ApplyAndAck ==
  /\ ApplyHead
  /\ up' = up \cup {[newest |-> newest', seqs |-> received', digest |-> digest', trusted |-> trusted']}

Quiet ==
  \/ ApplyAndAck
  \/ \E ack \in up : ReceiveAck(ack)
  \/ down = <<>> /\ up = {} /\ \E cur \in Worlds : SendRound(cur)
  \/ down = <<>> /\ up = {} /\ SkipRound

RepairNext == (~Calm /\ Next) \/ (Calm /\ Quiet)

RepairSpec == Init /\ [][RepairNext]_vars

\* Whatever went wrong before, once the link has behaved for the rounds from
\* ChaosUntil to MaxSeq the mirror of a subscriber on the acknowledged policy
\* holds exactly the last set sent: a drifted mirror is caught by its digest, an
\* unreachable baseline by its age, and a stalled subscriber by its keepalive
\* (delta.rs observe_ack, baseline_is_stale, should_send).
RepairedInTime ==
  (Recovering /\ nextSeq = MaxSeq /\ down = <<>> /\ up = {}) => held = lastSent.state
=============================================================================
