---------------------------- MODULE DeltaStream ----------------------------
(***************************************************************************)
(* One subscriber's differential stream of a visible set:                  *)
(*                                                                         *)
(*   DeltaBaseline (server_utils/src/delta.rs) plans what each round sends;*)
(*   an ordered link may lose any packet, and any acknowledgement may be   *)
(*   lost, delayed, or overtaken by a later one;                           *)
(*   DeltaMirror (client_utils/src/mirror.rs) applies what arrives and     *)
(*   acknowledges with an AckWindow (client_utils/src/ack.rs) and the      *)
(*   digest of what it holds.                                              *)
(*                                                                         *)
(* Abstractions.  A digest is the set it digests (SetDigest without hash   *)
(* collisions).  A window is the set of sequence numbers it reports.  The  *)
(* clock counts send rounds, which is also what numbers the packets: an    *)
(* application numbers its rounds whether or not this subscriber is sent   *)
(* the packet.  Counters nobody reads back (full_rebuilds, unacked,        *)
(* frames_lost, stale_refs, divergences) are left out.                     *)
(***************************************************************************)
EXTENDS Integers, Sequences, FiniteSets

CONSTANTS
  Keys,            \* occupants: what SlotKey::encode makes of (index, generation)
  SlotOf,          \* the slot index of each key
  History,         \* sent states remembered (DeltaBaseline::new)
  AckSpan,         \* sequence numbers a window reports behind its newest
  StalledAfter,    \* silence, in rounds, after which a subscriber is stalled
  KeepaliveEvery,  \* rounds between the packets a stalled subscriber is sent
  Policies,        \* the recovery policies the application switches between
  MaxSeq,          \* bound: rounds in a behaviour
  MaxAcks          \* bound: acknowledgements in flight at once

Recovery == "AckRecovery"
Naive == "Naive"

ASSUME DeltaAssumption ==
  /\ SlotOf \in [Keys -> Keys]
  /\ History \in Nat \ {0}
  /\ AckSpan \in Nat \ {0}
  /\ StalledAfter \in Nat
  /\ KeepaliveEvery \in Nat \ {0}
  /\ Recovery \in Policies /\ Policies \subseteq {Recovery, Naive}
  /\ MaxSeq \in Nat
  /\ MaxAcks \in Nat

\* Option<u64>::None, for a sequence number and for a time.
NoSeq == -1
Never == -1

\* A visible set: a slot has one occupant at a time.
Worlds == {W \in SUBSET Keys : \A k1, k2 \in W : SlotOf[k1] = SlotOf[k2] => k1 = k2}

Baseline == [seq : Nat \cup {NoSeq}, state : SUBSET Keys]
NoBaseline == [seq |-> NoSeq, state |-> {}]

\* What a packet that was sent leaves the subscriber holding.
Entry == [seq : Nat, state : Worlds]

Packet == [seq : Nat, full : BOOLEAN, base : Nat \cup {NoSeq},
           entered : SUBSET Keys, left : SUBSET Keys, digest : SUBSET Keys,
           recovering : BOOLEAN]

Ack == [newest : Nat, seqs : SUBSET Nat, digest : SUBSET Keys, trusted : BOOLEAN]

VARIABLES
  nextSeq,        \* the next round's number, and the time
  sent,           \* what each recent packet leaves the subscriber holding, oldest first
  acked,          \* the newest acknowledged state
  lastSent,       \* the last state sent, which the naive policy diffs against
  needsFull,
  policy,
  lastAck,        \* FlowControl::last_ack
  lastKeepalive,  \* FlowControl::last_keepalive
  down,           \* packets on the link or in the playout buffer, oldest first
  up,             \* acknowledgements in flight
  held,           \* DeltaMirror::held
  received,       \* AckWindow: the sequence numbers it still reports
  newest,         \* AckWindow::newest
  digest,         \* DeltaMirror::digest, as of the last settle
  agreed,         \* what the last settle returned
  trusted         \* ghost: a full baseline was applied since the mirror was last
                  \* dropped, and no naive difference since

server == <<nextSeq, sent, acked, lastSent, needsFull, policy, lastAck, lastKeepalive>>
client == <<held, received, newest, digest, agreed, trusted>>
vars == <<server, down, up, client>>

Init ==
  /\ nextSeq = 0
  /\ sent = <<>>
  /\ acked = NoBaseline
  /\ lastSent = NoBaseline
  /\ needsFull = TRUE
  /\ policy \in Policies
  /\ lastAck = Never
  /\ lastKeepalive = 0
  /\ down = <<>>
  /\ up = {}
  /\ held = {}
  /\ received = {}
  /\ newest = NoSeq
  /\ digest = {}
  /\ agreed = TRUE
  /\ trusted = FALSE

-----------------------------------------------------------------------------
(* The plan: what one round sends.                                         *)

Recovering == policy = Recovery

\* The acknowledged state has aged out of what the server still remembers.
BaselineIsStale ==
  /\ acked.seq # NoSeq
  /\ Len(sent) >= History
  /\ acked.seq < sent[1].seq

Rebuild == needsFull \/ (Recovering /\ BaselineIsStale)
FullBaseline == Rebuild \/ (Recovering /\ acked.seq = NoSeq)

\* The states of the packets sent since the acknowledged one.
Since == {sent[i].state : i \in {j \in DOMAIN sent : sent[j].seq > acked.seq}}

MutSendBaseline == acked.state
\* What the subscriber holds at least: nothing a later packet may have retracted.
SendBaseline == {k \in acked.state : \A S \in Since : k \in S}

MutAssumedHeld == acked.state
\* What the subscriber holds at most: everything announced since.
AssumedHeld == acked.state \cup UNION Since

FullPacket(cur, seq) ==
  [seq |-> seq, full |-> TRUE, base |-> NoSeq, entered |-> cur, left |-> {},
   digest |-> cur, recovering |-> Recovering]

DeltaPacket(cur, seq) ==
  [seq |-> seq, full |-> FALSE, base |-> acked.seq, entered |-> cur \ SendBaseline,
   left |-> AssumedHeld \ cur, digest |-> cur, recovering |-> TRUE]

NaivePacket(cur, seq) ==
  [seq |-> seq, full |-> FALSE, base |-> lastSent.seq, entered |-> cur \ lastSent.state,
   left |-> lastSent.state \ cur, digest |-> cur, recovering |-> FALSE]

Planned(cur, seq) ==
  IF FullBaseline THEN FullPacket(cur, seq)
  ELSE IF Recovering THEN DeltaPacket(cur, seq)
  ELSE NaivePacket(cur, seq)

MutTrim(s) == s
\* The history keeps the newest sent states; one push drops at most one.
Trim(s) == IF Len(s) > History THEN Tail(s) ELSE s

\* A rebuild opens a new epoch: no earlier packet can be named as a baseline.
Kept == IF Rebuild THEN <<>> ELSE sent

Plan(cur, seq) ==
  /\ sent' = Trim(Append(Kept, [seq |-> seq, state |-> cur]))
  /\ acked' = IF Rebuild THEN NoBaseline ELSE acked
  /\ lastSent' = [seq |-> seq, state |-> cur]
  /\ needsFull' = FALSE
  /\ down' = Append(down, Planned(cur, seq))

-----------------------------------------------------------------------------
(* Flow control and the send round.                                        *)

Stalled == lastAck # Never /\ nextSeq - lastAck > StalledAfter

KeepaliveDue == nextSeq - lastKeepalive >= KeepaliveEvery

\* A round that sends: the subscriber is live, in its grace period, or due a keepalive.
SendRound(cur) ==
  /\ nextSeq < MaxSeq
  /\ Stalled => KeepaliveDue
  /\ lastAck' = IF lastAck = Never THEN nextSeq ELSE lastAck
  /\ lastKeepalive' = IF Stalled THEN nextSeq ELSE lastKeepalive
  /\ Plan(cur, nextSeq)
  /\ nextSeq' = nextSeq + 1
  /\ UNCHANGED <<policy, up, client>>

\* A round that skips a stalled subscriber: its number is used up all the same.
SkipRound ==
  /\ nextSeq < MaxSeq
  /\ Stalled /\ ~KeepaliveDue
  /\ nextSeq' = nextSeq + 1
  /\ UNCHANGED <<sent, acked, lastSent, needsFull, policy, lastAck, lastKeepalive,
                 down, up, client>>

MutForget ==
  /\ sent' = <<>>
  /\ lastSent' = NoBaseline
  /\ lastKeepalive' = 0
  /\ UNCHANGED <<acked, needsFull>>
\* DeltaBaseline::reset, but for the clock of the last acknowledgement.
Forget ==
  /\ sent' = <<>>
  /\ acked' = NoBaseline
  /\ lastSent' = NoBaseline
  /\ needsFull' = TRUE
  /\ lastKeepalive' = 0

SetPolicy(p) ==
  /\ p # policy
  /\ policy' = p
  /\ Forget
  /\ lastAck' = Never
  /\ UNCHANGED <<nextSeq, down, up, client>>

RequestFullBaseline ==
  /\ needsFull' = TRUE
  /\ UNCHANGED <<nextSeq, sent, acked, lastSent, policy, lastAck, lastKeepalive,
                 down, up, client>>

-----------------------------------------------------------------------------
(* Acknowledgements.                                                       *)

\* AckWindow::contiguous_base: the end of the unbroken run of arrivals from first.
ContiguousBase(window, first) ==
  {b \in window : first <= b /\ first..b \subseteq window /\ b + 1 \notin window}

MutFirstUnsettled == IF sent # <<>> THEN {sent[1].seq} ELSE {}
\* The first sequence number not accounted for, if anything is.
FirstUnsettled ==
  IF acked.seq # NoSeq THEN {acked.seq + 1}
  ELSE IF sent # <<>> THEN {sent[1].seq}
  ELSE {}

\* The remembered packets an acknowledgement lets the baseline move to.
Frontier(ack) ==
  {i \in DOMAIN sent : \E first \in FirstUnsettled : sent[i].seq \in ContiguousBase(ack.seqs, first)}

MutDrifted(base, ack) == FALSE
\* The mirror reports a set other than the one it should hold at this sequence.
Drifted(base, ack) == base.seq = ack.newest /\ base.state # ack.digest

FoldAck(ack) ==
  LET base == IF Frontier(ack) # {} THEN sent[CHOOSE i \in Frontier(ack) : TRUE] ELSE acked
  IN /\ acked' = base
     /\ needsFull' = (needsFull \/ Drifted(base, ack))
     /\ UNCHANGED <<sent, lastSent, lastKeepalive>>

\* observe_ack_at: an acknowledgement from a stalled subscriber resumes it in a
\* fresh epoch and is not folded in.
ReceiveAck(ack) ==
  /\ ack \in up
  /\ up' = up \ {ack}
  /\ lastAck' = nextSeq
  /\ IF Stalled THEN Forget
     ELSE IF Recovering THEN FoldAck(ack)
     ELSE UNCHANGED <<sent, acked, lastSent, needsFull, lastKeepalive>>
  /\ UNCHANGED <<nextSeq, policy, down, client>>

LoseAck(ack) ==
  /\ ack \in up
  /\ up' = up \ {ack}
  /\ UNCHANGED <<server, down, client>>

-----------------------------------------------------------------------------
(* The client.                                                             *)

\* AckWindow::observe, for any arrival order.
Observe(seq) ==
  LET top == IF seq > newest THEN seq ELSE newest
  IN /\ newest' = top
     /\ received' = {s \in received \cup {seq} : s >= top - AckSpan}

\* Filing an occupant replaces whoever was in its slot.
Insert(set, entered) ==
  {k \in set : \A e \in entered : SlotOf[e] # SlotOf[k]} \cup entered

\* What the mirror holds once a packet is applied: begin clears it for a full
\* baseline, a removal takes only the very occupant it names, then the entries.
Applied(set, p) == Insert((IF p.full THEN {} ELSE set) \ p.left, p.entered)

ApplyHead ==
  /\ down # <<>>
  /\ LET p == Head(down)
     IN /\ Observe(p.seq)
        /\ held' = Applied(held, p)
        /\ digest' = held'
        /\ agreed' = (held' = p.digest)
        /\ trusted' = (p.full \/ (trusted /\ p.recovering))
  /\ down' = Tail(down)
  /\ UNCHANGED server

Apply == ApplyHead /\ UNCHANGED up

\* The link keeps order, so losing the head stands for losing any packet.
LosePacket ==
  /\ down # <<>>
  /\ down' = Tail(down)
  /\ UNCHANGED <<server, up, client>>

SendAck ==
  /\ newest # NoSeq
  /\ Cardinality(up) < MaxAcks
  /\ up' = up \cup {[newest |-> newest, seqs |-> received, digest |-> digest, trusted |-> trusted]}
  /\ UNCHANGED <<server, down, client>>

\* A lost timeline: a stretch of the stream is discarded unread and the mirror is
\* dropped with it, which is how a client asks for a resync.
DropMirror ==
  /\ newest # NoSeq
  /\ \E n \in 0..Len(down) : down' = SubSeq(down, n + 1, Len(down))
  /\ held' = {}
  /\ trusted' = FALSE
  /\ UNCHANGED <<server, up, received, newest, digest, agreed>>

\* Another subscriber takes the slot: reset, a new link and a new mirror.  The
\* previous occupant's acknowledgements may still be queued at the server.
NewSubscriber ==
  /\ Forget
  /\ lastAck' = Never
  /\ down' = <<>>
  /\ held' = {}
  /\ received' = {}
  /\ newest' = NoSeq
  /\ digest' = {}
  /\ agreed' = TRUE
  /\ trusted' = FALSE
  /\ UNCHANGED <<nextSeq, policy, up>>

Next ==
  \/ \E cur \in Worlds : SendRound(cur)
  \/ SkipRound
  \/ \E p \in Policies : SetPolicy(p)
  \/ RequestFullBaseline
  \/ \E ack \in up : ReceiveAck(ack) \/ LoseAck(ack)
  \/ Apply
  \/ LosePacket
  \/ SendAck
  \/ DropMirror
  \/ NewSubscriber

Spec == Init /\ [][Next]_vars

-----------------------------------------------------------------------------
(* Properties.                                                             *)

\* Every variable has its type, the history is bounded by the length the
\* subscriber was created with (delta.rs plan), and the link keeps its bound.
TypeOK ==
  /\ nextSeq \in Nat
  /\ sent \in Seq(Entry) /\ Len(sent) <= History
  /\ acked \in Baseline
  /\ lastSent \in Baseline
  /\ needsFull \in BOOLEAN
  /\ policy \in {Recovery, Naive}
  /\ lastAck \in Nat \cup {Never}
  /\ lastKeepalive \in Nat
  /\ down \in Seq(Packet)
  /\ up \subseteq Ack
  /\ held \subseteq Keys
  /\ received \subseteq Nat
  /\ newest \in Nat \cup {NoSeq}
  /\ digest \subseteq Keys
  /\ agreed \in BOOLEAN
  /\ trusted \in BOOLEAN

\* Whatever was lost on either direction of the link, every packet a mirror
\* applies after a full baseline leaves it holding exactly the set the server
\* built the packet from: the two baselines of DeltaBaseline::plan bracket
\* everything the subscriber could be holding.
Agreement == trusted => agreed

\* A difference is only ever computed against a packet this very subscriber has
\* applied: no acknowledgement of an earlier epoch, of an earlier occupant of the
\* slot or overtaken by a later one names a baseline (plan, observe_ack, reset).
BaselineReached ==
  \A i \in DOMAIN down :
    (down[i].recovering /\ down[i].base # NoSeq)
      => down[i].base \in received \/ (newest # NoSeq /\ down[i].base < newest - AckSpan)

\* The drift check never fires on a mirror that is right: an acknowledgement sent
\* by a trusted mirror carries the digest of the state the server remembers for
\* its newest packet, so ordinary loss never forces a rebuild (observe_ack).
NoFalseDrift ==
  \A ack \in up : ack.trusted =>
    /\ ~Drifted(acked, ack)
    /\ \A i \in DOMAIN sent : ~Drifted(sent[i], ack)

\* The acknowledged frontier only moves forward until it is dropped, whatever
\* order acknowledgements arrive in (observe_ack).
FrontierNeverRetreats ==
  [][acked.seq # NoSeq /\ acked'.seq # NoSeq => acked'.seq >= acked.seq]_vars
=============================================================================
