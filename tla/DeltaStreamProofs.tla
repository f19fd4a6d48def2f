------------------------- MODULE DeltaStreamProofs -------------------------
(***************************************************************************)
(* What holds of DeltaStream for every key set, history length, window     *)
(* width, flow-control setting and number of rounds: the type invariant,   *)
(* that a trusted mirror agrees after every packet, that a difference      *)
(* names only a baseline its subscriber reached, that the drift check      *)
(* never fires on a right mirror, and that the frontier never retreats;    *)
(* and of DeltaRepair, that a working link puts every mirror right within  *)
(* a bound.                                                                *)
(***************************************************************************)
EXTENDS DeltaRepair, TLAPS

-----------------------------------------------------------------------------
(* The inductive invariant.                                                *)

\* The sent history remembers the packet seq as leaving the subscriber with S.
Remembers(seq, S) == \E i \in DOMAIN sent : sent[i].seq = seq /\ sent[i].state = S

\* The subscriber has applied this packet, even if its window no longer says so.
Reached(seq) == seq \in received \/ (newest # NoSeq /\ seq < newest - AckSpan)

\* Numbers grow along the history and along the link, and an arrival is older
\* than whatever is still on the link.
Ordered ==
  /\ \A i, j \in DOMAIN sent : i < j => sent[i].seq < sent[j].seq
  /\ \A i \in DOMAIN sent : sent[i].seq < nextSeq
  /\ \A i, j \in DOMAIN down : i < j => down[i].seq < down[j].seq
  /\ \A i \in DOMAIN down : newest < down[i].seq /\ down[i].seq < nextSeq
  /\ newest < nextSeq
  /\ \A s \in received : s <= newest
  /\ \A ack \in up : /\ ack.newest < nextSeq
                     /\ \A s \in ack.seqs : s <= ack.newest

\* What the history says of a packet is what the packet says of itself, what a
\* trusted mirror holds after it and what the acknowledgements of it report.
Consistent ==
  /\ \A i \in DOMAIN down :
       (sent # <<>> /\ sent[1].seq <= down[i].seq) => Remembers(down[i].seq, down[i].digest)
  /\ (trusted /\ sent # <<>> /\ sent[1].seq <= newest) => Remembers(newest, held)
  /\ \A ack \in up, i \in DOMAIN sent : sent[i].seq \in ack.seqs => Reached(sent[i].seq)
  /\ NoFalseDrift
  /\ trusted => digest = held /\ agreed /\ newest # NoSeq

\* The acknowledged state is one this subscriber reached, and every state it may
\* have reached since is in the history unless the baseline counts as stale.
Settled ==
  acked.seq # NoSeq =>
    /\ policy = Recovery
    /\ Reached(acked.seq)
    /\ sent # <<>>
    /\ (trusted /\ newest = acked.seq) => held = acked.state
    /\ \A i \in DOMAIN down : down[i].seq < sent[1].seq => Len(sent) >= History
    /\ (trusted /\ acked.seq < newest /\ newest < sent[1].seq) => Len(sent) >= History

\* Applying p to a mirror that holds S leaves it with what p was built from.
Lands(S, p) == Applied(S, p) = p.digest

\* Each difference in flight lands from wherever the subscriber can be when it
\* arrives: from what it holds now, or from any packet ahead of it on the link.
Landing ==
  \A i \in DOMAIN down :
    /\ down[i].full => down[i].left = {} /\ down[i].entered = down[i].digest
    /\ (down[i].recovering /\ ~down[i].full) =>
         /\ trusted => Lands(held, down[i])
         /\ \A j \in 1..(i - 1) : Lands(down[j].digest, down[i])

IInv == TypeOK /\ Ordered /\ Consistent /\ Settled /\ Landing /\ BaselineReached

-----------------------------------------------------------------------------
(* Type correctness.                                                       *)

\* Pushing a state and trimming keeps the history well formed and in bounds.
LEMMA PushType ==
  ASSUME NEW q \in Seq(Entry), Len(q) <= History, NEW e \in Entry
  PROVE  /\ Trim(Append(q, e)) \in Seq(Entry)
         /\ Len(Trim(Append(q, e))) <= History
         /\ Len(Trim(Append(q, e))) \in Nat \ {0}
<1>1. Append(q, e) \in Seq(Entry) /\ Len(Append(q, e)) = Len(q) + 1
  OBVIOUS
<1>2. Len(q) \in Nat
  OBVIOUS
<1>3. CASE Len(Append(q, e)) > History
  <2>1. Tail(Append(q, e)) \in Seq(Entry) /\ Len(Tail(Append(q, e))) = Len(q)
    BY <1>1, <1>2, <1>3, DeltaAssumption
  <2>. QED BY <1>1, <1>2, <1>3, <2>1, DeltaAssumption DEF Trim
<1>4. CASE ~(Len(Append(q, e)) > History)
  BY <1>1, <1>2, <1>4, DeltaAssumption DEF Trim
<1>. QED BY <1>3, <1>4

\* Every way of planning a round yields a packet.
LEMMA PlannedType ==
  ASSUME TypeOK, NEW cur \in Worlds, NEW seq \in Nat
  PROVE  Planned(cur, seq) \in Packet
<1>1. cur \subseteq Keys
  BY DEF Worlds
<1>2. AssumedHeld \subseteq Keys
  <2>1. \A S \in Since : S \subseteq Keys
    <3>1. \A i \in DOMAIN sent : sent[i] \in Entry
      BY DEF TypeOK
    <3>2. \A i \in DOMAIN sent : sent[i].state \in Worlds
      BY <3>1 DEF Entry
    <3>3. Since \subseteq Worlds
      BY <3>2 DEF Since
    <3>. QED BY <3>3 DEF Worlds
  <2>. QED BY <2>1 DEF AssumedHeld, TypeOK, Baseline
<1>3. FullPacket(cur, seq) \in Packet
  BY <1>1 DEF FullPacket, Packet, Recovering
<1>4. DeltaPacket(cur, seq) \in Packet
  BY <1>1, <1>2 DEF DeltaPacket, Packet, TypeOK, Baseline
<1>5. NaivePacket(cur, seq) \in Packet
  BY <1>1 DEF NaivePacket, Packet, TypeOK, Baseline
<1>. QED BY <1>3, <1>4, <1>5 DEF Planned

\* Whatever is applied to a mirror, its contents stay keys.
LEMMA AppliedType ==
  ASSUME NEW S \in SUBSET Keys, NEW p \in Packet
  PROVE  Applied(S, p) \subseteq Keys
BY DEF Applied, Insert, Packet

LEMMA TypeInit == Init => TypeOK
<1>. SUFFICES ASSUME Init PROVE TypeOK
  OBVIOUS
<1>1. sent \in Seq(Entry) /\ Len(sent) <= History /\ down \in Seq(Packet)
  BY DeltaAssumption DEF Init
<1>2. acked \in Baseline /\ lastSent \in Baseline
  BY DEF Init, NoBaseline, Baseline
<1>3. policy \in {Recovery, Naive}
  BY DeltaAssumption DEF Init
<1>. QED BY <1>1, <1>2, <1>3 DEF Init, TypeOK

LEMMA TypeStep == TypeOK /\ [Next]_vars => TypeOK'
<1>. SUFFICES ASSUME TypeOK, [Next]_vars PROVE TypeOK'
  OBVIOUS
<1>1. ASSUME NEW cur \in Worlds, SendRound(cur) PROVE TypeOK'
  <2>1. Planned(cur, nextSeq) \in Packet
    BY PlannedType DEF TypeOK
  <2>2. cur \subseteq Keys
    BY DEF Worlds
  <2>3. Kept \in Seq(Entry) /\ Len(Kept) <= History
    BY DeltaAssumption DEF Kept, TypeOK
  <2>4. [seq |-> nextSeq, state |-> cur] \in Entry
    BY DEF TypeOK, Entry
  <2>5. sent' \in Seq(Entry) /\ Len(sent') <= History
    BY <1>1, <2>3, <2>4, PushType DEF SendRound, Plan
  <2>6. down' \in Seq(Packet)
    BY <1>1, <2>1 DEF SendRound, Plan, TypeOK
  <2>7. acked' \in Baseline /\ lastSent' \in Baseline
    BY <1>1, <2>2 DEF SendRound, Plan, TypeOK, Baseline, NoBaseline
  <2>8. /\ nextSeq' \in Nat /\ needsFull' \in BOOLEAN
        /\ lastAck' \in Nat \cup {Never} /\ lastKeepalive' \in Nat
    <3>1. nextSeq' \in Nat
      BY <1>1 DEF SendRound, TypeOK
    <3>4. needsFull' \in BOOLEAN
      BY <1>1, Zenon DEF SendRound, Plan
    <3>2. lastAck' \in Nat \cup {Never}
      BY <1>1 DEF SendRound, TypeOK
    <3>3. lastKeepalive' \in Nat
      BY <1>1 DEF SendRound, TypeOK
    <3>. QED BY <3>1, <3>2, <3>3, <3>4
  <2>9. UNCHANGED <<policy, up, held, received, newest, digest, agreed, trusted>>
    BY <1>1 DEF SendRound, client
  <2>. QED BY <2>5, <2>6, <2>7, <2>8, <2>9 DEF TypeOK
<1>2. CASE SkipRound
  BY <1>2 DEF SkipRound, TypeOK, client
<1>3. ASSUME NEW p \in Policies, SetPolicy(p) PROVE TypeOK'
  BY <1>3, DeltaAssumption DEF SetPolicy, Forget, TypeOK, client, NoBaseline, Baseline
<1>4. CASE RequestFullBaseline
  BY <1>4 DEF RequestFullBaseline, TypeOK, client
<1>5. ASSUME NEW ack \in up, ReceiveAck(ack) PROVE TypeOK'
  <2>1. CASE Stalled
    BY <1>5, <2>1, DeltaAssumption DEF ReceiveAck, Forget, TypeOK, client, NoBaseline, Baseline
  <2>2. CASE ~Stalled /\ Recovering
    <3>1. FoldAck(ack)
      BY <1>5, <2>2 DEF ReceiveAck
    <3>2. acked' \in Baseline
      <4>1. CASE Frontier(ack) # {}
        <5>1. (CHOOSE i \in Frontier(ack) : TRUE) \in DOMAIN sent
          BY <4>1 DEF Frontier
        <5>2. acked' = sent[CHOOSE i \in Frontier(ack) : TRUE]
          BY <3>1, <4>1 DEF FoldAck
        <5>3. acked' \in Entry
          BY <5>1, <5>2 DEF TypeOK
        <5>. QED BY <5>3 DEF Entry, Baseline, Worlds
      <4>2. CASE Frontier(ack) = {}
        BY <3>1, <4>2 DEF FoldAck, TypeOK
      <4>. QED BY <4>1, <4>2
    <3>3. needsFull' \in BOOLEAN
      BY <3>1 DEF FoldAck, TypeOK, Drifted
    <3>. QED BY <1>5, <3>1, <3>2, <3>3 DEF ReceiveAck, FoldAck, TypeOK, client
  <2>3. CASE ~Stalled /\ ~Recovering
    BY <1>5, <2>3 DEF ReceiveAck, TypeOK, client
  <2>. QED BY <2>1, <2>2, <2>3
<1>6. ASSUME NEW ack \in up, LoseAck(ack) PROVE TypeOK'
  BY <1>6 DEF LoseAck, TypeOK, client, server
<1>7. CASE Apply
  <2>1. Head(down) \in Packet /\ Tail(down) \in Seq(Packet)
    BY <1>7 DEF Apply, ApplyHead, TypeOK
  <2>2. held' \subseteq Keys
    BY <1>7, <2>1, AppliedType DEF Apply, ApplyHead, TypeOK
  <2>3. newest' \in Nat \cup {NoSeq} /\ received' \subseteq Nat
    BY <1>7, <2>1 DEF Apply, ApplyHead, Observe, TypeOK, Packet
  <2>4. agreed' \in BOOLEAN /\ trusted' \in BOOLEAN
    BY <1>7, <2>1 DEF Apply, ApplyHead, TypeOK, Packet
  <2>. QED BY <1>7, <2>1, <2>2, <2>3, <2>4 DEF Apply, ApplyHead, TypeOK, server
<1>8. CASE LosePacket
  BY <1>8 DEF LosePacket, TypeOK, client, server
<1>9. CASE SendAck
  <2>1. [newest |-> newest, seqs |-> received, digest |-> digest, trusted |-> trusted] \in Ack
    BY <1>9 DEF SendAck, TypeOK, Ack
  <2>2. up' \subseteq Ack
    BY <1>9, <2>1 DEF SendAck, TypeOK
  <2>. QED BY <1>9, <2>2 DEF SendAck, TypeOK, client, server
<1>10. CASE DropMirror
  <2>1. down' \in Seq(Packet)
    BY <1>10 DEF DropMirror, TypeOK
  <2>. QED BY <1>10, <2>1 DEF DropMirror, TypeOK, server
<1>11. CASE NewSubscriber
  <2>1. sent' \in Seq(Entry) /\ Len(sent') <= History /\ down' \in Seq(Packet)
    BY <1>11, DeltaAssumption DEF NewSubscriber, Forget
  <2>2. acked' \in Baseline /\ lastSent' \in Baseline
    BY <1>11 DEF NewSubscriber, Forget, NoBaseline, Baseline
  <2>. QED BY <1>11, <2>1, <2>2 DEF NewSubscriber, Forget, TypeOK
<1>12. CASE UNCHANGED vars
  BY <1>12 DEF vars, server, client, TypeOK
<1>. QED BY <1>1, <1>2, <1>3, <1>4, <1>5, <1>6, <1>7, <1>8, <1>9, <1>10, <1>11, <1>12 DEF Next

\* Every variable keeps its type and the history its length, for every value of
\* the constants (DeltaBaseline, DeltaMirror, AckWindow).
THEOREM TypeCorrect == Spec => []TypeOK
BY TypeInit, TypeStep, PTL DEF Spec
-----------------------------------------------------------------------------
(* Helpers of the induction.                                               *)

LEMMA EntryFields ==
  ASSUME NEW q \in Seq(Entry), NEW i \in DOMAIN q
  PROVE  q[i].seq \in Nat /\ q[i].state \in SUBSET Keys
<1>1. q[i] \in Entry
  OBVIOUS
<1>. QED BY <1>1 DEF Entry, Worlds

LEMMA PacketFields ==
  ASSUME NEW q \in Seq(Packet), NEW i \in DOMAIN q
  PROVE  /\ q[i] \in Packet /\ q[i].seq \in Nat /\ q[i].base \in Nat \cup {NoSeq}
         /\ q[i].digest \in SUBSET Keys /\ q[i].left \in SUBSET Keys /\ q[i].entered \in SUBSET Keys
<1>1. q[i] \in Packet
  OBVIOUS
<1>. QED BY <1>1 DEF Packet

LEMMA AckFields ==
  ASSUME NEW ack \in Ack
  PROVE  ack.newest \in Nat /\ ack.seqs \in SUBSET Nat /\ ack.digest \in SUBSET Keys
BY DEF Ack

\* What the subscriber has applied is not ahead of the newest it has applied.
LEMMA ReachedBound ==
  ASSUME TypeOK, Ordered, NEW s \in Nat, Reached(s)
  PROVE  newest # NoSeq /\ s <= newest
BY DeltaAssumption DEF TypeOK, Ordered, Reached, NoSeq

\* The two baselines of a plan bracket what the subscriber may hold, and then the
\* difference lands: removals take what is not in cur, entries bring what is not
\* surely held, and no entry displaces an occupant that stays.
LEMMA BracketLands ==
  ASSUME NEW S \in SUBSET Keys, NEW cur \in Worlds, NEW least, NEW most,
         least \subseteq S, S \subseteq most
  PROVE  Insert(S \ (most \ cur), cur \ least) = cur
BY DEF Insert, Worlds

\* A full baseline lands from anywhere.
LEMMA FullLands ==
  ASSUME NEW S, NEW p \in Packet, p.full, p.left = {}, p.entered = p.digest
  PROVE  Applied(S, p) = p.digest
BY DEF Applied, Insert

\* How planning a round changes the history: the d oldest entries go, the new one
\* is pushed; a rebuild drops them all, otherwise at most one goes, and only from
\* a full history.
LEMMA HistoryStep ==
  ASSUME TypeOK, NEW cur \in Worlds, Plan(cur, nextSeq)
  PROVE  \E d \in 0..Len(sent) :
           /\ Len(sent') = (Len(sent) - d) + 1
           /\ \A i \in 1..(Len(sent) - d) : sent'[i] = sent[i + d]
           /\ sent'[Len(sent')] = [seq |-> nextSeq, state |-> cur]
           /\ Rebuild => d = Len(sent)
           /\ ~Rebuild => (d = 0 \/ (d = 1 /\ Len(sent) = History))
<1>. DEFINE e == [seq |-> nextSeq, state |-> cur]
<1>1. e \in Entry /\ sent \in Seq(Entry) /\ Len(sent) \in Nat /\ Len(sent) <= History /\ History \in Nat \ {0}
  BY DeltaAssumption DEF TypeOK, Entry
<1>2. sent' = Trim(Append(Kept, e))
  BY DEF Plan
<1>. HIDE DEF e
<1>3. CASE Rebuild
  <2>1. sent' = <<e>>
    BY <1>1, <1>2, <1>3 DEF Kept, Trim
  <2>. QED BY <1>1, <1>3, <2>1 DEF e
<1>4. CASE ~Rebuild /\ Len(sent) < History
  <2>1. sent' = Append(sent, e)
    BY <1>1, <1>2, <1>4 DEF Kept, Trim
  <2>. QED BY <1>1, <1>4, <2>1 DEF e
<1>5. CASE ~Rebuild /\ Len(sent) = History
  <2>1. sent' = Tail(Append(sent, e))
    BY <1>1, <1>2, <1>5 DEF Kept, Trim
  <2>2. /\ Len(sent') = Len(sent)
        /\ \A i \in 1..(Len(sent) - 1) : sent'[i] = sent[i + 1]
        /\ sent'[Len(sent')] = e
    BY <1>1, <1>5, <2>1
  <2>. QED BY <1>1, <1>5, <2>2 DEF e
<1>. QED BY <1>1, <1>3, <1>4, <1>5

-----------------------------------------------------------------------------
(* A round that sends preserves the invariant.                             *)

\* Everything the subscriber may hold when a difference is planned lies between
\* the two baselines.
LEMMA Bracketed ==
  ASSUME IInv, Recovering, ~FullBaseline, NEW q \in Nat, NEW S \in SUBSET Keys,
         \/ q = acked.seq /\ S = acked.state
         \/ /\ acked.seq < q
            /\ q < sent[1].seq => Len(sent) >= History
            /\ sent[1].seq <= q => Remembers(q, S)
  PROVE  SendBaseline \subseteq S /\ S \subseteq AssumedHeld
<1>1. acked.seq # NoSeq /\ ~BaselineIsStale /\ sent # <<>>
  BY DEF FullBaseline, Rebuild, IInv, Settled
<1>2. CASE q = acked.seq /\ S = acked.state
  BY <1>2 DEF SendBaseline, AssumedHeld
<1>3. CASE /\ acked.seq < q
           /\ q < sent[1].seq => Len(sent) >= History
           /\ sent[1].seq <= q => Remembers(q, S)
  <2>1. sent[1].seq \in Nat /\ acked.seq \in Nat
    <3>1. 1 \in DOMAIN sent
      BY <1>1 DEF IInv, TypeOK
    <3>. QED BY <1>1, <3>1, EntryFields DEF IInv, TypeOK, Baseline
  <2>2. ~(q < sent[1].seq)
    <3>. SUFFICES ASSUME q < sent[1].seq PROVE FALSE
      OBVIOUS
    <3>1. acked.seq < sent[1].seq /\ Len(sent) >= History
      BY <1>3, <2>1
    <3>. QED BY <1>1, <3>1 DEF BaselineIsStale
  <2>3. Remembers(q, S)
    BY <1>3, <2>1, <2>2
  <2>4. S \in Since
    BY <1>3, <2>3 DEF Remembers, Since
  <2>. QED BY <2>4 DEF SendBaseline, AssumedHeld
<1>. QED BY <1>2, <1>3

LEMMA SendRoundStep ==
  ASSUME IInv, TypeOK', NEW cur \in Worlds, SendRound(cur)
  PROVE  IInv'
<1>. DEFINE p == Planned(cur, nextSeq)
            n == Len(sent)
            m == Len(down)
<1>1. Plan(cur, nextSeq) /\ nextSeq' = nextSeq + 1 /\ UNCHANGED <<policy, up, client>>
  BY DEF SendRound
<1>2. PICK d \in 0..n :
        /\ Len(sent') = (n - d) + 1
        /\ \A i \in 1..(n - d) : sent'[i] = sent[i + d]
        /\ sent'[Len(sent')] = [seq |-> nextSeq, state |-> cur]
        /\ Rebuild => d = n
        /\ ~Rebuild => (d = 0 \/ (d = 1 /\ n = History))
  BY <1>1, HistoryStep DEF IInv
<1>3. /\ n \in Nat /\ m \in Nat /\ nextSeq \in Nat /\ newest \in Nat \cup {NoSeq}
      /\ DOMAIN sent = 1..n /\ DOMAIN sent' = 1..((n - d) + 1)
      /\ sent'[(n - d) + 1] = [seq |-> nextSeq, state |-> cur]
      /\ \A i \in 1..n : sent[i].seq \in Nat /\ sent[i].seq < nextSeq
  <2>1. sent \in Seq(Entry) /\ sent' \in Seq(Entry)
    BY DEF IInv, TypeOK
  <2>. QED BY <1>2, <2>1, EntryFields DEF IInv, TypeOK, Ordered
<1>4. /\ p \in Packet /\ p.seq = nextSeq /\ p.digest = cur
      /\ p.full => p.left = {} /\ p.entered = cur
  <2>1. p \in Packet
    BY <1>3, PlannedType DEF IInv
  <2>. QED BY <2>1 DEF Planned, FullPacket, DeltaPacket, NaivePacket
<1>5. /\ DOMAIN down = 1..m /\ DOMAIN down' = 1..(m + 1)
      /\ \A i \in 1..m : down'[i] = down[i]
      /\ down'[m + 1] = p
  BY <1>1, <1>3, <1>4 DEF Plan, IInv, TypeOK
<1>6. \A i \in 1..m : down[i] \in Packet /\ down[i].seq \in Nat /\ down[i].digest \in SUBSET Keys
  BY <1>5, PacketFields DEF IInv, TypeOK
<1>7. \A ack \in up : ack \in Ack /\ ack.newest \in Nat /\ ack.seqs \in SUBSET Nat
  BY AckFields DEF IInv, TypeOK
<1>8. UNCHANGED <<up, held, received, newest, digest, agreed, trusted, policy>>
  BY <1>1 DEF client
<1>. HIDE DEF p, n, m
<1>20. \A i \in 1..((n - d) + 1) :
         \/ i = (n - d) + 1 /\ sent'[i].seq = nextSeq /\ sent'[i].state = cur
         \/ i < (n - d) + 1 /\ i + d \in 1..n /\ sent'[i] = sent[i + d]
  BY <1>2, <1>3
<1>9. Ordered'
  <2>1. \A i, j \in DOMAIN sent' : i < j => sent'[i].seq < sent'[j].seq
    <3>1. \A i, j \in 1..n : i < j => sent[i].seq < sent[j].seq
      BY <1>3 DEF IInv, Ordered
    <3>. SUFFICES ASSUME NEW i \in 1..((n - d) + 1), NEW j \in 1..((n - d) + 1), i < j
                  PROVE  sent'[i].seq < sent'[j].seq
      BY <1>3
    <3>2. i < (n - d) + 1 /\ i + d \in 1..n /\ sent'[i] = sent[i + d]
      BY <1>2, <1>3, <1>20
    <3>3. CASE j = (n - d) + 1
      BY <1>3, <1>20, <3>2, <3>3
    <3>4. CASE j < (n - d) + 1
      BY <1>3, <1>20, <3>1, <3>2, <3>4
    <3>. QED BY <1>2, <1>3, <3>3, <3>4
  <2>2. \A i \in DOMAIN sent' : sent'[i].seq < nextSeq'
    <3>. SUFFICES ASSUME NEW i \in 1..((n - d) + 1) PROVE sent'[i].seq < nextSeq + 1
      BY <1>1, <1>3
    <3>1. CASE i = (n - d) + 1
      BY <1>3, <3>1
    <3>2. CASE i < (n - d) + 1
      BY <1>3, <1>20, <3>2
    <3>. QED BY <1>2, <1>3, <3>1, <3>2
  <2>3. \A i, j \in DOMAIN down' : i < j => down'[i].seq < down'[j].seq
    <3>1. \A i, j \in 1..m : i < j => down[i].seq < down[j].seq
      BY <1>5 DEF IInv, Ordered
    <3>2. \A i \in 1..m : down[i].seq < nextSeq
      BY <1>5 DEF IInv, Ordered
    <3>. QED BY <1>3, <1>4, <1>5, <3>1, <3>2
  <2>4. \A i \in DOMAIN down' : newest' < down'[i].seq /\ down'[i].seq < nextSeq'
    BY <1>1, <1>3, <1>4, <1>5, <1>6, <1>8 DEF IInv, Ordered
  <2>5. /\ newest' < nextSeq'
        /\ \A s \in received' : s <= newest'
    BY <1>1, <1>3, <1>8 DEF IInv, Ordered, NoSeq
  <2>6. \A ack \in up' : ack.newest < nextSeq' /\ \A s \in ack.seqs : s <= ack.newest
    BY <1>1, <1>3, <1>7, <1>8 DEF IInv, Ordered
  <2>. QED BY <2>1, <2>2, <2>3, <2>4, <2>5, <2>6 DEF Ordered
<1>10. \A q, S : (Remembers(q, S) /\ q \in Nat /\ sent'[1].seq <= q /\ q < nextSeq) => Remembers(q, S)'
  <2>. SUFFICES ASSUME NEW q \in Nat, NEW S, Remembers(q, S), sent'[1].seq <= q, q < nextSeq
                PROVE  Remembers(q, S)'
    OBVIOUS
  <2>1. PICK j \in 1..n : sent[j].seq = q /\ sent[j].state = S
    BY <1>3 DEF Remembers
  <2>2. d < n
    BY <1>2, <1>3
  <2>3. sent'[1] = sent[1 + d]
    BY <1>2, <1>3, <2>2
  <2>4. 1 + d <= j
    <3>1. 1 + d \in 1..n /\ sent[1 + d].seq <= sent[j].seq
      BY <1>3, <2>1, <2>2, <2>3
    <3>2. \A i1, i2 \in 1..n : i1 < i2 => sent[i1].seq < sent[i2].seq
      BY <1>3 DEF IInv, Ordered
    <3>. QED BY <1>3, <2>1, <3>1, <3>2
  <2>5. sent'[j - d] = sent[j] /\ j - d \in DOMAIN sent'
    BY <1>2, <1>3, <2>1, <2>4
  <2>. QED BY <2>1, <2>5 DEF Remembers
<1>11. sent # <<>> => \/ Rebuild /\ sent'[1].seq = nextSeq
                      \/ sent[1].seq <= sent'[1].seq
  <2>1. CASE d = n
    BY <1>2, <1>3, <2>1
  <2>2. CASE d < n
    <3>1. sent'[1] = sent[1 + d] /\ 1 + d \in 1..n /\ 1 \in 1..n
      BY <1>2, <1>3, <2>2
    <3>. QED BY <1>2, <1>3, <3>1 DEF IInv, Ordered
  <2>. QED BY <1>3, <2>1, <2>2
<1>12. Consistent'
  <2>1. ASSUME NEW i \in 1..(m + 1), sent'[1].seq <= down'[i].seq
        PROVE  Remembers(down[i].seq, down[i].digest)'
    <3>1. CASE i = m + 1
      <4>1. down'[i].seq = nextSeq /\ down'[i].digest = cur
        BY <1>4, <1>5, <3>1
      <4>. QED BY <1>2, <1>3, <4>1 DEF Remembers
    <3>2. CASE i <= m
      <4>1. down'[i] = down[i] /\ i \in DOMAIN down /\ i \in 1..m
        BY <1>3, <1>5, <3>2
      <4>2. down[i].seq \in Nat /\ down[i].seq < nextSeq
        BY <1>5, <1>6, <4>1 DEF IInv, Ordered
      <4>3. sent # <<>> /\ sent[1].seq <= down[i].seq
        <5>1. ~(sent'[1].seq = nextSeq)
          BY <1>3, <2>1, <4>1, <4>2
        <5>2. sent # <<>>
          BY <1>2, <1>3, <5>1
        <5>3. sent[1].seq \in Nat /\ sent'[1].seq \in Nat
          BY <1>2, <1>3, <1>20, <5>2
        <5>. QED BY <1>11, <2>1, <4>1, <4>2, <5>1, <5>2, <5>3
      <4>4. Remembers(down[i].seq, down[i].digest)
        BY <4>1, <4>3 DEF IInv, Consistent
      <4>5. Remembers(down[i].seq, down[i].digest) /\ sent'[1].seq <= down[i].seq
        BY <2>1, <4>1, <4>4
      <4>6. \E k \in DOMAIN sent' : sent'[k].seq = down[i].seq /\ sent'[k].state = down[i].digest
        BY <1>10, <4>2, <4>5 DEF Remembers
      <4>. QED BY <4>1, <4>6 DEF Remembers
    <3>. QED BY <1>3, <3>1, <3>2
  <2>2. ASSUME trusted, sent'[1].seq <= newest
        PROVE  Remembers(newest, held)'
    <3>1. newest \in Nat /\ newest < nextSeq
      BY <1>3, <2>2 DEF IInv, Consistent, Ordered
    <3>2. ~(sent'[1].seq = nextSeq)
      BY <1>3, <2>2, <3>1
    <3>3. sent # <<>>
      BY <1>2, <1>3, <3>2
    <3>4. sent[1].seq \in Nat /\ sent'[1].seq \in Nat
      BY <1>2, <1>3, <1>20, <3>3
    <3>5. Remembers(newest, held)
      BY <1>11, <2>2, <3>1, <3>2, <3>3, <3>4 DEF IInv, Consistent
    <3>6. \E k \in DOMAIN sent' : sent'[k].seq = newest /\ sent'[k].state = held
      BY <1>10, <2>2, <3>1, <3>5 DEF Remembers
    <3>. QED BY <1>8, <3>6 DEF Remembers
  <2>3. ASSUME NEW ack \in up, NEW i \in 1..((n - d) + 1), sent'[i].seq \in ack.seqs
        PROVE  Reached(sent'[i].seq)
    <3>1. CASE i = (n - d) + 1
      <4>1. nextSeq \in ack.seqs
        BY <1>3, <2>3, <3>1
      <4>. QED BY <1>3, <1>7, <4>1 DEF IInv, Ordered
    <3>2. CASE i < (n - d) + 1
      <4>1. i + d \in DOMAIN sent /\ sent[i + d].seq \in ack.seqs /\ sent'[i] = sent[i + d]
        BY <1>3, <1>20, <2>3, <3>2
      <4>. QED BY <4>1 DEF IInv, Consistent
    <3>. QED BY <1>2, <1>3, <3>1, <3>2
  <2>4. ASSUME NEW ack \in up, ack.trusted PROVE ~Drifted(acked', ack)
    <3>1. acked' = NoBaseline \/ acked' = acked
      BY <1>1 DEF Plan
    <3>2. ~Drifted(NoBaseline, ack)
      BY <1>7 DEF Drifted, NoBaseline, NoSeq
    <3>. QED BY <2>4, <3>1, <3>2 DEF IInv, Consistent, NoFalseDrift
  <2>5. ASSUME NEW ack \in up, ack.trusted, NEW i \in 1..((n - d) + 1)
        PROVE  ~Drifted(sent'[i], ack)
    <3>1. CASE i = (n - d) + 1
      BY <1>3, <1>7, <2>5, <3>1 DEF Drifted, IInv, Ordered
    <3>2. CASE i < (n - d) + 1
      <4>1. i + d \in DOMAIN sent /\ sent'[i] = sent[i + d]
        BY <1>3, <1>20, <3>2
      <4>2. ~Drifted(sent[i + d], ack)
        BY <2>5, <4>1 DEF IInv, Consistent, NoFalseDrift
      <4>. QED BY <4>1, <4>2
    <3>. QED BY <1>2, <1>3, <3>1, <3>2
  <2>6. NoFalseDrift'
    BY <1>3, <1>8, <2>4, <2>5 DEF NoFalseDrift, Drifted
  <2>7. (\A ack \in up, i \in DOMAIN sent : sent[i].seq \in ack.seqs => Reached(sent[i].seq))'
    <3>1. \A ack \in up, i \in 1..((n - d) + 1) : sent'[i].seq \in ack.seqs => Reached(sent'[i].seq)
      BY <2>3
    <3>. QED BY <1>3, <1>8, <3>1 DEF Reached
  <2>8. (trusted => digest = held /\ agreed /\ newest # NoSeq)'
    BY <1>8 DEF IInv, Consistent
  <2>9. (\A i \in DOMAIN down :
          (sent # <<>> /\ sent[1].seq <= down[i].seq) => Remembers(down[i].seq, down[i].digest))'
    BY <1>5, <2>1
  <2>10. ((trusted /\ sent # <<>> /\ sent[1].seq <= newest) => Remembers(newest, held))'
    BY <1>8, <2>2
  <2>. QED BY <2>6, <2>7, <2>8, <2>9, <2>10 DEF Consistent
<1>13. Settled'
  <2>. SUFFICES ASSUME acked'.seq # NoSeq
       PROVE  /\ policy' = Recovery
              /\ Reached(acked.seq)'
              /\ sent' # <<>>
              /\ (trusted' /\ newest' = acked'.seq) => held' = acked'.state
              /\ \A i \in DOMAIN down' : down'[i].seq < sent'[1].seq => Len(sent') >= History
              /\ (trusted' /\ acked'.seq < newest' /\ newest' < sent'[1].seq) => Len(sent') >= History
    BY DEF Settled
  <2>1. ~Rebuild /\ acked' = acked /\ acked.seq # NoSeq
    BY <1>1 DEF Plan, NoBaseline
  <2>2. sent # <<>> /\ n >= 1
    BY <1>3, <2>1 DEF IInv, Settled, n
  <2>3. \/ d = 1 /\ Len(sent') = History
        \/ d = 0 /\ sent'[1] = sent[1] /\ Len(sent') = Len(sent) + 1
    <3>1. CASE d = 1 /\ n = History
      BY <1>2, <1>3, <3>1
    <3>2. CASE d = 0
      <4>1. 1 \in 1..(n - d) /\ 1 + d = 1 /\ n - d = n
        BY <1>3, <2>2, <3>2
      <4>2. sent'[1] = sent[1 + d] /\ Len(sent') = n + 1
        BY <1>2, <4>1
      <4>. QED BY <3>2, <4>1, <4>2 DEF n
    <3>. QED BY <1>2, <2>1, <3>1, <3>2
  <2>4. History \in Nat
    BY DeltaAssumption
  <2>5. ASSUME NEW i \in 1..(m + 1), down'[i].seq < sent'[1].seq PROVE Len(sent') >= History
    <3>1. CASE d = 1
      BY <2>3, <2>4, <3>1
    <3>2. CASE d = 0
      <4>1. sent'[1] = sent[1] /\ Len(sent') = Len(sent) + 1
        BY <2>3, <3>2
      <4>2. sent[1].seq < nextSeq /\ sent[1].seq \in Nat
        BY <1>3, <2>2
      <4>3. i # m + 1
        BY <1>3, <1>4, <1>5, <2>5, <4>1, <4>2
      <4>4. i \in DOMAIN down /\ down[i].seq < sent[1].seq
        BY <1>3, <1>5, <2>5, <4>1, <4>3
      <4>5. Len(sent) >= History
        BY <2>1, <4>4 DEF IInv, Settled
      <4>. QED BY <1>3, <2>4, <4>1, <4>5 DEF n
    <3>. QED BY <2>3, <3>1, <3>2
  <2>6. ASSUME trusted, acked.seq < newest, newest < sent'[1].seq PROVE Len(sent') >= History
    <3>1. CASE d = 1
      BY <2>3, <2>4, <3>1
    <3>2. CASE d = 0
      <4>1. Len(sent) >= History /\ Len(sent') = Len(sent) + 1
        BY <2>1, <2>3, <2>6, <3>2 DEF IInv, Settled
      <4>. QED BY <1>3, <2>4, <4>1 DEF n
    <3>. QED BY <2>3, <3>1, <3>2
  <2>7. /\ policy' = Recovery /\ Reached(acked.seq)' /\ sent' # <<>>
        /\ (trusted' /\ newest' = acked'.seq) => held' = acked'.state
    BY <1>2, <1>3, <1>8, <2>1 DEF IInv, Settled, Reached
  <2>. QED BY <1>5, <1>8, <2>1, <2>5, <2>6, <2>7
<1>14. ASSUME p.recovering, ~p.full
       PROVE  /\ trusted => Lands(held, p)
              /\ \A j \in 1..m : Lands(down[j].digest, p)
              /\ p.base = acked.seq /\ Reached(acked.seq) /\ acked.seq \in Nat
  <2>1. p = DeltaPacket(cur, nextSeq) /\ Recovering /\ ~FullBaseline
    BY <1>14 DEF p, Planned, FullPacket, NaivePacket
  <2>2. acked.seq # NoSeq /\ acked.seq \in Nat /\ Reached(acked.seq)
    BY <2>1 DEF FullBaseline, IInv, Settled, TypeOK, Baseline
  <2>3. newest # NoSeq /\ acked.seq <= newest /\ newest \in Nat
    BY <1>3, <2>2, ReachedBound DEF IInv
  <2>4. sent # <<>>
    BY <2>2 DEF IInv, Settled
  <2>5. ASSUME NEW S \in SUBSET Keys, SendBaseline \subseteq S, S \subseteq AssumedHeld
        PROVE  Lands(S, p)
    <3>1. Insert(S \ (AssumedHeld \ cur), cur \ SendBaseline) = cur
      BY <2>5, BracketLands
    <3>. QED BY <2>1, <3>1 DEF Lands, Applied, DeltaPacket
  <2>6. trusted => Lands(held, p)
    <3>. SUFFICES ASSUME trusted PROVE Lands(held, p)
      OBVIOUS
    <3>1. held \in SUBSET Keys
      BY DEF IInv, TypeOK
    <3>2. CASE newest = acked.seq
      <4>1. held = acked.state
        BY <2>2, <3>2 DEF IInv, Settled
      <4>. QED BY <2>1, <2>3, <2>5, <3>1, <3>2, <4>1, Bracketed
    <3>3. CASE acked.seq < newest
      <4>1. newest < sent[1].seq => Len(sent) >= History
        BY <2>2, <3>3 DEF IInv, Settled
      <4>2. sent[1].seq <= newest => Remembers(newest, held)
        BY <2>4 DEF IInv, Consistent
      <4>. QED BY <2>1, <2>3, <2>5, <3>1, <3>3, <4>1, <4>2, Bracketed
    <3>. QED BY <2>2, <2>3, <3>2, <3>3
  <2>7. \A j \in 1..m : Lands(down[j].digest, p)
    <3>. SUFFICES ASSUME NEW j \in 1..m PROVE Lands(down[j].digest, p)
      OBVIOUS
    <3>1. j \in DOMAIN down /\ down[j].seq \in Nat /\ down[j].digest \in SUBSET Keys
      BY <1>5, <1>6
    <3>2. acked.seq < down[j].seq
      BY <2>2, <2>3, <3>1 DEF IInv, Ordered
    <3>3. down[j].seq < sent[1].seq => Len(sent) >= History
      BY <2>2, <3>1 DEF IInv, Settled
    <3>4. sent[1].seq <= down[j].seq => Remembers(down[j].seq, down[j].digest)
      BY <2>4, <3>1 DEF IInv, Consistent
    <3>. QED BY <2>1, <2>5, <3>1, <3>2, <3>3, <3>4, Bracketed
  <2>. QED BY <2>1, <2>2, <2>6, <2>7 DEF DeltaPacket
<1>15. Landing'
  <2>1. ASSUME NEW i \in 1..(m + 1), down'[i].full
        PROVE  down'[i].left = {} /\ down'[i].entered = down'[i].digest
    <3>1. CASE i = m + 1
      BY <1>4, <1>5, <2>1, <3>1
    <3>2. CASE i # m + 1
      <4>1. i \in DOMAIN down /\ down'[i] = down[i]
        BY <1>3, <1>5, <3>2
      <4>. QED BY <2>1, <4>1 DEF IInv, Landing
    <3>. QED BY <3>1, <3>2
  <2>2. ASSUME NEW i \in 1..(m + 1), down'[i].recovering, ~down'[i].full
        PROVE  /\ trusted => Lands(held, down'[i])
               /\ \A j \in 1..(i - 1) : Lands(down'[j].digest, down'[i])
    <3>1. CASE i = m + 1
      <4>1. i - 1 = m /\ down'[i] = p
        BY <1>3, <1>5, <3>1
      <4>. QED BY <1>5, <1>14, <2>2, <4>1
    <3>2. CASE i # m + 1
      <4>1. i \in DOMAIN down /\ i \in 1..m /\ down'[i] = down[i]
        BY <1>3, <1>5, <3>2
      <4>2. \A j \in 1..(i - 1) : down'[j] = down[j]
        BY <1>3, <1>5, <4>1
      <4>3. /\ trusted => Lands(held, down[i])
            /\ \A j \in 1..(i - 1) : Lands(down[j].digest, down[i])
        BY <2>2, <4>1 DEF IInv, Landing
      <4>. QED BY <4>1, <4>2, <4>3
    <3>. QED BY <3>1, <3>2
  <2>. QED BY <1>5, <1>8, <2>1, <2>2 DEF Landing, Lands
<1>16. BaselineReached'
  <2>1. ASSUME NEW i \in 1..(m + 1), down'[i].recovering, down'[i].base # NoSeq
        PROVE  Reached(down'[i].base)
    <3>1. CASE i = m + 1
      <4>1. ~p.full
        BY <1>5, <2>1, <3>1 DEF p, Planned, FullPacket, DeltaPacket, NaivePacket
      <4>. QED BY <1>5, <1>14, <2>1, <3>1, <4>1
    <3>2. CASE i # m + 1
      <4>1. i \in DOMAIN down /\ down'[i] = down[i]
        BY <1>3, <1>5, <3>2
      <4>. QED BY <2>1, <4>1 DEF IInv, BaselineReached, Reached
    <3>. QED BY <3>1, <3>2
  <2>. QED BY <1>5, <1>8, <2>1 DEF BaselineReached, Reached
<1>. QED BY <1>9, <1>12, <1>13, <1>15, <1>16 DEF IInv

-----------------------------------------------------------------------------
(* The other steps preserve the invariant.                                 *)

\* A step that leaves the client and the link alone, and either leaves the history
\* alone or forgets it: a skipped round, a lost acknowledgement, a change of policy,
\* the resumption of a stalled subscriber.
LEMMA QuietStep ==
  ASSUME IInv, TypeOK', nextSeq <= nextSeq', UNCHANGED <<down, client>>, up' \subseteq up,
         \/ UNCHANGED <<sent, acked, policy>>
         \/ sent' = <<>> /\ acked' = NoBaseline
  PROVE  IInv'
<1>1. UNCHANGED <<held, received, newest, digest, agreed, trusted>>
  BY DEF client
<1>2. sent' = <<>> \/ sent' = sent
  OBVIOUS
<1>3. /\ nextSeq \in Nat /\ nextSeq' \in Nat
      /\ newest \in Nat \cup {NoSeq} /\ sent \in Seq(Entry) /\ down \in Seq(Packet)
  BY DEF IInv, TypeOK
<1>4. \A i \in DOMAIN sent' : i \in DOMAIN sent /\ sent'[i] = sent[i]
  BY <1>2
<1>5. Ordered'
  <2>1. \A i, j \in DOMAIN sent' : i < j => sent'[i].seq < sent'[j].seq
    BY <1>4 DEF IInv, Ordered
  <2>2. \A i \in DOMAIN sent' : sent'[i].seq < nextSeq'
    BY <1>3, <1>4, EntryFields DEF IInv, Ordered
  <2>3. /\ \A i, j \in DOMAIN down' : i < j => down'[i].seq < down'[j].seq
        /\ \A i \in DOMAIN down' : newest' < down'[i].seq /\ down'[i].seq < nextSeq'
    BY <1>1, <1>3, PacketFields DEF IInv, Ordered
  <2>4. newest' < nextSeq' /\ \A s \in received' : s <= newest'
    BY <1>1, <1>3 DEF IInv, Ordered, NoSeq
  <2>5. \A ack \in up' : ack.newest < nextSeq' /\ \A s \in ack.seqs : s <= ack.newest
    <3>1. \A ack \in up : ack \in Ack
      BY DEF IInv, TypeOK
    <3>. QED BY <1>3, <3>1, AckFields DEF IInv, Ordered
  <2>. QED BY <2>1, <2>2, <2>3, <2>4, <2>5 DEF Ordered
<1>6. NoFalseDrift'
  <2>1. \A ack \in up' : ack \in up /\ ~Drifted(NoBaseline, ack)
    <3>1. \A ack \in up : ack \in Ack
      BY DEF IInv, TypeOK
    <3>. QED BY <3>1, AckFields DEF Drifted, NoBaseline, NoSeq
  <2>2. acked' = acked \/ acked' = NoBaseline
    OBVIOUS
  <2>3. \A ack \in up' : ack.trusted => ~Drifted(acked', ack)
    BY <2>1, <2>2 DEF IInv, Consistent, NoFalseDrift
  <2>4. \A ack \in up' : ack.trusted => \A i \in DOMAIN sent' : ~Drifted(sent'[i], ack)
    BY <1>4, <2>1 DEF IInv, Consistent, NoFalseDrift
  <2>. QED BY <2>3, <2>4 DEF NoFalseDrift, Drifted
<1>7. Consistent'
  <2>1. CASE sent' = sent
    BY <1>1, <1>6, <2>1 DEF IInv, Consistent, Remembers, Reached
  <2>2. CASE sent' = <<>>
    BY <1>1, <1>6, <2>2 DEF IInv, Consistent, Remembers, Reached
  <2>. QED BY <1>2, <2>1, <2>2
<1>8. Settled'
  <2>1. CASE UNCHANGED <<sent, acked, policy>>
    BY <1>1, <2>1 DEF IInv, Settled, Reached
  <2>2. CASE acked' = NoBaseline
    BY <2>2 DEF Settled, NoBaseline
  <2>. QED BY <2>1, <2>2
<1>9. Landing'
  BY <1>1 DEF IInv, Landing, Lands
<1>10. BaselineReached'
  BY <1>1 DEF IInv, BaselineReached
<1>. QED BY <1>5, <1>7, <1>8, <1>9, <1>10 DEF IInv

\* An acknowledgement moves the baseline to a packet the history remembers and the
\* subscriber reached.
LEMMA FoldStep ==
  ASSUME IInv, TypeOK', NEW ack \in up, Recovering, FoldAck(ack), up' \subseteq up,
         UNCHANGED <<nextSeq, policy, down, client>>
  PROVE  IInv'
<1>1. UNCHANGED <<held, received, newest, digest, agreed, trusted, sent>>
  BY DEF client, FoldAck
<1>2. CASE Frontier(ack) = {}
  <2>1. acked' = acked /\ nextSeq <= nextSeq'
    BY <1>2 DEF FoldAck, IInv, TypeOK
  <2>. QED BY <1>1, <2>1, QuietStep DEF client
<1>3. CASE Frontier(ack) # {}
  <2>1. PICK k \in DOMAIN sent : k \in Frontier(ack) /\ acked' = sent[k]
    <3>1. (CHOOSE i \in Frontier(ack) : TRUE) \in Frontier(ack)
      BY <1>3
    <3>2. acked' = sent[CHOOSE i \in Frontier(ack) : TRUE]
      BY <1>3 DEF FoldAck
    <3>. QED BY <3>1, <3>2 DEF Frontier
  <2>2. sent[k].seq \in Nat /\ sent[1].seq \in Nat /\ sent # <<>> /\ 1 \in DOMAIN sent /\ k \in Nat
    <3>1. sent \in Seq(Entry)
      BY DEF IInv, TypeOK
    <3>2. sent # <<>> /\ 1 \in DOMAIN sent /\ k \in Nat
      BY <3>1
    <3>. QED BY <3>1, <3>2, EntryFields
  <2>3. Reached(sent[k].seq)
    <3>1. sent[k].seq \in ack.seqs
      BY <2>1 DEF Frontier, ContiguousBase
    <3>. QED BY <3>1 DEF IInv, Consistent
  <2>4. newest \in Nat /\ sent[k].seq <= newest /\ sent[1].seq <= sent[k].seq
    <3>1. newest # NoSeq /\ sent[k].seq <= newest
      BY <2>2, <2>3, ReachedBound DEF IInv
    <3>2. sent[1].seq <= sent[k].seq
      <4>1. k = 1 \/ 1 < k
        BY <2>2 DEF IInv, TypeOK
      <4>. QED BY <2>2, <4>1 DEF IInv, Ordered
    <3>. QED BY <3>1, <3>2 DEF IInv, TypeOK
  <2>5. Settled'
    <3>1. (trusted /\ newest = sent[k].seq) => held = sent[k].state
      <4>. SUFFICES ASSUME trusted, newest = sent[k].seq PROVE held = sent[k].state
        OBVIOUS
      <4>1. PICK i \in DOMAIN sent : sent[i].seq = newest /\ sent[i].state = held
        BY <2>2, <2>4 DEF IInv, Consistent, Remembers
      <4>2. i \in Nat
        BY DEF IInv, TypeOK
      <4>3. i = k
        BY <2>2, <4>1, <4>2 DEF IInv, Ordered
      <4>. QED BY <4>1, <4>3
    <3>2. \A i \in DOMAIN down : ~(down[i].seq < sent[1].seq)
      <4>1. \A i \in DOMAIN down : down[i].seq \in Nat
        BY PacketFields DEF IInv, TypeOK
      <4>2. \A i \in DOMAIN down : newest < down[i].seq
        BY DEF IInv, Ordered
      <4>. QED BY <2>2, <2>4, <4>1, <4>2
    <3>3. ~(newest < sent[1].seq)
      BY <2>2, <2>4
    <3>4. Reached(sent[k].seq)'
      BY <1>1, <2>3 DEF Reached
    <3>5. policy' = Recovery
      BY DEF Recovering
    <3>6. Reached(acked.seq)'
      BY <2>1, <3>4, <1>1 DEF Reached
    <3>. QED BY <1>1, <2>1, <2>2, <3>1, <3>2, <3>3, <3>5, <3>6 DEF Settled
  <2>6. NoFalseDrift'
    BY <1>1, <2>1 DEF IInv, Consistent, NoFalseDrift, Drifted
  <2>7. Consistent'
    BY <1>1, <2>6 DEF IInv, Consistent, Remembers, Reached
  <2>8. Ordered' /\ Landing' /\ BaselineReached'
    BY <1>1 DEF IInv, Ordered, Landing, Lands, BaselineReached
  <2>. QED BY <2>5, <2>7, <2>8 DEF IInv
<1>. QED BY <1>2, <1>3

\* The link loses a stretch at its head, and the mirror may be dropped with it.
LEMMA LossStep ==
  ASSUME IInv, TypeOK', NEW n \in 0..Len(down), down' = SubSeq(down, n + 1, Len(down)),
         UNCHANGED <<server, up, received, newest>>,
         UNCHANGED <<held, digest, agreed, trusted>> \/ trusted' = FALSE
  PROVE  IInv'
<1>1. UNCHANGED <<nextSeq, sent, acked, policy>>
  BY DEF server
<1>2. down \in Seq(Packet) /\ Len(down) \in Nat /\ n \in Nat
  BY DEF IInv, TypeOK
<1>3. /\ DOMAIN down' = 1..(Len(down) - n)
      /\ \A i \in 1..(Len(down) - n) : i + n \in DOMAIN down /\ down'[i] = down[i + n]
  BY <1>2
<1>4. Ordered'
  <2>1. \A i, j \in DOMAIN down' : i < j => down'[i].seq < down'[j].seq
    <3>1. \A i, j \in DOMAIN down' : i < j =>
            i + n \in DOMAIN down /\ j + n \in DOMAIN down /\ i + n < j + n
      BY <1>2, <1>3
    <3>. QED BY <1>3, <3>1 DEF IInv, Ordered
  <2>2. \A i \in DOMAIN down' : newest' < down'[i].seq /\ down'[i].seq < nextSeq'
    BY <1>1, <1>3 DEF IInv, Ordered
  <2>. QED BY <1>1, <2>1, <2>2 DEF IInv, Ordered
<1>5. Consistent'
  <2>1. (\A i \in DOMAIN down :
          (sent # <<>> /\ sent[1].seq <= down[i].seq) => Remembers(down[i].seq, down[i].digest))'
    <3>1. \A i \in DOMAIN down' : (sent # <<>> /\ sent[1].seq <= down'[i].seq) =>
            \E k \in DOMAIN sent : sent[k].seq = down'[i].seq /\ sent[k].state = down'[i].digest
      <4>. SUFFICES ASSUME NEW i \in 1..(Len(down) - n), sent # <<>>, sent[1].seq <= down'[i].seq
                    PROVE  Remembers(down'[i].seq, down'[i].digest)
        BY <1>3 DEF Remembers
      <4>1. i + n \in DOMAIN down /\ down'[i] = down[i + n]
        BY <1>3
      <4>. QED BY <4>1 DEF IInv, Consistent
    <3>. QED BY <1>1, <3>1 DEF Remembers
  <2>2. NoFalseDrift'
    BY <1>1 DEF IInv, Consistent, NoFalseDrift, Drifted
  <2>3. (\A ack \in up, i \in DOMAIN sent : sent[i].seq \in ack.seqs => Reached(sent[i].seq))'
    BY <1>1 DEF IInv, Consistent, Reached
  <2>4. ((trusted /\ sent # <<>> /\ sent[1].seq <= newest) => Remembers(newest, held))'
    BY <1>1 DEF IInv, Consistent, Remembers
  <2>5. (trusted => digest = held /\ agreed /\ newest # NoSeq)'
    BY DEF IInv, Consistent
  <2>. QED BY <2>1, <2>2, <2>3, <2>4, <2>5 DEF Consistent
<1>6. Settled'
  <2>1. Reached(acked.seq)' <=> Reached(acked.seq)
    BY <1>1 DEF Reached
  <2>. QED BY <1>1, <1>3, <2>1 DEF IInv, Settled
<1>7. Landing'
  <2>1. ASSUME NEW i \in DOMAIN down', down'[i].full
        PROVE  down'[i].left = {} /\ down'[i].entered = down'[i].digest
    BY <1>3, <2>1 DEF IInv, Landing
  <2>2. ASSUME NEW i \in 1..(Len(down) - n), down'[i].recovering, ~down'[i].full
        PROVE  /\ trusted' => Lands(held', down'[i])
               /\ \A j \in 1..(i - 1) : Lands(down'[j].digest, down'[i])
    <3>1. i + n \in DOMAIN down /\ down'[i] = down[i + n]
      BY <1>3
    <3>2. /\ trusted => Lands(held, down[i + n])
          /\ \A j \in 1..((i + n) - 1) : Lands(down[j].digest, down[i + n])
      BY <2>2, <3>1 DEF IInv, Landing
    <3>3. \A j \in 1..(i - 1) : Lands(down'[j].digest, down'[i])
      <4>. SUFFICES ASSUME NEW j \in 1..(i - 1) PROVE Lands(down'[j].digest, down'[i])
        OBVIOUS
      <4>1. j + n \in 1..((i + n) - 1) /\ j \in 1..(Len(down) - n)
        BY <1>2
      <4>2. down'[j] = down[j + n]
        BY <1>3, <4>1
      <4>. QED BY <3>1, <3>2, <4>1, <4>2
    <3>4. trusted' => trusted /\ held' = held
      OBVIOUS
    <3>. QED BY <3>1, <3>2, <3>3, <3>4
  <2>. QED BY <1>3, <2>1, <2>2 DEF Landing, Lands
<1>8. BaselineReached'
  BY <1>3 DEF IInv, BaselineReached
<1>. QED BY <1>4, <1>5, <1>6, <1>7, <1>8 DEF IInv

\* Applying the packet at the head of the link: what is still on the link lands
\* from it, and it is what the history remembers.
LEMMA ApplyStep ==
  ASSUME IInv, TypeOK', Apply
  PROVE  IInv'
<1>. DEFINE p == Head(down)
            m == Len(down)
<1>1. /\ Observe(p.seq) /\ held' = Applied(held, p) /\ digest' = held'
      /\ agreed' = (held' = p.digest) /\ trusted' = (p.full \/ (trusted /\ p.recovering))
      /\ down' = Tail(down) /\ UNCHANGED <<nextSeq, sent, acked, policy, up>>
  BY DEF Apply, ApplyHead, server
<1>2. /\ down \in Seq(Packet) /\ m \in Nat /\ 1 \in DOMAIN down /\ p = down[1]
      /\ DOMAIN down' = 1..(m - 1)
      /\ \A i \in 1..(m - 1) : i + 1 \in DOMAIN down /\ down'[i] = down[i + 1]
  BY DEF Apply, ApplyHead, IInv, TypeOK
<1>3. p \in Packet /\ p.seq \in Nat
  BY <1>2, PacketFields
<1>4. /\ newest \in Nat \cup {NoSeq} /\ newest < p.seq /\ p.seq < nextSeq
      /\ nextSeq \in Nat /\ received \subseteq Nat /\ AckSpan \in Nat
  BY <1>2, DeltaAssumption DEF IInv, Ordered, TypeOK
<1>5. newest' = p.seq /\ received' = {s \in received \cup {p.seq} : s >= p.seq - AckSpan}
  BY <1>1, <1>3, <1>4 DEF Observe
<1>. HIDE DEF p, m
<1>6. \A q \in Nat : Reached(q) => Reached(q)'
  <2>. SUFFICES ASSUME NEW q \in Nat, Reached(q)
                PROVE  q \in received' \/ (newest' # NoSeq /\ q < newest' - AckSpan)
    BY DEF Reached
  <2>. QED BY <1>3, <1>4, <1>5 DEF Reached, NoSeq
<1>7. trusted' => held' = p.digest
  <2>1. CASE p.full
    <3>1. p.left = {} /\ p.entered = p.digest
      BY <1>2, <2>1 DEF IInv, Landing
    <3>. QED BY <1>1, <1>3, <2>1, <3>1, FullLands
  <2>2. CASE ~p.full /\ trusted /\ p.recovering
    <3>1. Lands(held, p)
      BY <1>2, <2>2 DEF IInv, Landing
    <3>. QED BY <1>1, <3>1 DEF Lands
  <2>. QED BY <1>1, <2>1, <2>2
<1>8. Ordered'
  <2>1. \A i, j \in DOMAIN down' : i < j => down'[i].seq < down'[j].seq
    <3>. SUFFICES ASSUME NEW i \in 1..(m - 1), NEW j \in 1..(m - 1), i < j
                  PROVE  down'[i].seq < down'[j].seq
      BY <1>2
    <3>1. i + 1 \in DOMAIN down /\ j + 1 \in DOMAIN down /\ i + 1 < j + 1
      BY <1>2
    <3>2. down[i + 1].seq < down[j + 1].seq
      BY <3>1 DEF IInv, Ordered
    <3>. QED BY <1>2, <3>2
  <2>2. \A i \in DOMAIN down' : newest' < down'[i].seq /\ down'[i].seq < nextSeq'
    <3>1. \A i \in DOMAIN down' : i + 1 \in DOMAIN down /\ 1 < i + 1
      BY <1>2
    <3>. QED BY <1>1, <1>2, <1>5, <3>1 DEF IInv, Ordered
  <2>3. newest' < nextSeq' /\ \A s \in received' : s <= newest'
    <3>1. \A s \in received : s <= newest
      BY DEF IInv, Ordered
    <3>. QED BY <1>1, <1>3, <1>4, <1>5, <3>1 DEF NoSeq
  <2>. QED BY <1>1, <2>1, <2>2, <2>3 DEF IInv, Ordered
<1>9. Consistent'
  <2>1. (\A i \in DOMAIN down :
          (sent # <<>> /\ sent[1].seq <= down[i].seq) => Remembers(down[i].seq, down[i].digest))'
    BY <1>1, <1>2 DEF IInv, Consistent, Remembers
  <2>2. NoFalseDrift'
    BY <1>1 DEF IInv, Consistent, NoFalseDrift, Drifted
  <2>3. (\A ack \in up, i \in DOMAIN sent : sent[i].seq \in ack.seqs => Reached(sent[i].seq))'
    <3>1. \A i \in DOMAIN sent : sent[i].seq \in Nat
      BY EntryFields DEF IInv, TypeOK
    <3>2. \A ack \in up, i \in DOMAIN sent : sent[i].seq \in ack.seqs =>
            sent[i].seq \in received' \/ (newest' # NoSeq /\ sent[i].seq < newest' - AckSpan)
      BY <1>6, <3>1 DEF IInv, Consistent, Reached
    <3>. QED BY <1>1, <3>2 DEF Reached
  <2>4. ((trusted /\ sent # <<>> /\ sent[1].seq <= newest) => Remembers(newest, held))'
    <3>. SUFFICES ASSUME trusted', sent # <<>>, sent[1].seq <= p.seq
                  PROVE  \E i \in DOMAIN sent : sent[i].seq = p.seq /\ sent[i].state = p.digest
      BY <1>1, <1>5, <1>7 DEF Remembers
    <3>. QED BY <1>2 DEF IInv, Consistent, Remembers
  <2>5. (trusted => digest = held /\ agreed /\ newest # NoSeq)'
    <3>1. trusted' => digest' = held' /\ newest' # NoSeq
      BY <1>1, <1>3, <1>5 DEF NoSeq
    <3>2. trusted' => agreed'
      BY <1>1, <1>7, Zenon
    <3>. QED BY <3>1, <3>2
  <2>. QED BY <2>1, <2>2, <2>3, <2>4, <2>5 DEF Consistent
<1>10. Settled'
  <2>. SUFFICES ASSUME acked.seq # NoSeq
       PROVE  /\ policy = Recovery
              /\ acked.seq \in received' \/ (newest' # NoSeq /\ acked.seq < newest' - AckSpan)
              /\ sent # <<>>
              /\ newest' # acked.seq
              /\ \A i \in DOMAIN down' : down'[i].seq < sent[1].seq => Len(sent) >= History
              /\ newest' < sent[1].seq => Len(sent) >= History
    BY <1>1 DEF Settled, Reached
  <2>1. acked.seq \in Nat /\ Reached(acked.seq)
    BY DEF IInv, Settled, TypeOK, Baseline
  <2>2. acked.seq \in received' \/ (newest' # NoSeq /\ acked.seq < newest' - AckSpan)
    BY <1>6, <2>1 DEF Reached
  <2>3. newest # NoSeq /\ acked.seq <= newest
    BY <2>1, ReachedBound DEF IInv
  <2>4. newest' # acked.seq
    BY <1>3, <1>4, <1>5, <2>1, <2>3
  <2>5. /\ \A i \in DOMAIN down' : down'[i].seq < sent[1].seq => Len(sent) >= History
        /\ newest' < sent[1].seq => Len(sent) >= History
    BY <1>2, <1>5 DEF IInv, Settled
  <2>. QED BY <2>2, <2>4, <2>5 DEF IInv, Settled
<1>11. Landing'
  <2>1. ASSUME NEW i \in DOMAIN down', down'[i].full
        PROVE  down'[i].left = {} /\ down'[i].entered = down'[i].digest
    BY <1>2, <2>1 DEF IInv, Landing
  <2>2. ASSUME NEW i \in 1..(m - 1), down'[i].recovering, ~down'[i].full
        PROVE  /\ trusted' => Lands(held', down'[i])
               /\ \A j \in 1..(i - 1) : Lands(down'[j].digest, down'[i])
    <3>1. i + 1 \in DOMAIN down /\ down'[i] = down[i + 1] /\ (i + 1) - 1 = i
      BY <1>2
    <3>2. \A j \in 1..((i + 1) - 1) : Lands(down[j].digest, down[i + 1])
      BY <2>2, <3>1 DEF IInv, Landing
    <3>3. \A j \in 1..i : Lands(down[j].digest, down[i + 1])
      BY <3>1, <3>2
    <3>4. \A j \in 1..(i - 1) : Lands(down'[j].digest, down'[i])
      <4>. SUFFICES ASSUME NEW j \in 1..(i - 1) PROVE Lands(down'[j].digest, down'[i])
        OBVIOUS
      <4>1. j + 1 \in 1..i /\ j \in 1..(m - 1)
        BY <1>2
      <4>2. down'[j] = down[j + 1]
        BY <1>2, <4>1
      <4>. QED BY <3>1, <3>3, <4>1, <4>2
    <3>5. Lands(p.digest, down[i + 1])
      <4>1. 1 \in 1..i
        OBVIOUS
      <4>. QED BY <1>2, <3>3, <4>1
    <3>. QED BY <1>7, <3>1, <3>4, <3>5
  <2>. QED BY <1>2, <2>1, <2>2 DEF Landing, Lands
<1>12. BaselineReached'
  <2>1. ASSUME NEW i \in DOMAIN down', down'[i].recovering, down'[i].base # NoSeq
        PROVE  down'[i].base \in received' \/ (newest' # NoSeq /\ down'[i].base < newest' - AckSpan)
    <3>1. i + 1 \in DOMAIN down /\ down'[i] = down[i + 1]
      BY <1>2
    <3>2. down[i + 1].base \in Nat
      BY <1>2, <2>1, <3>1, PacketFields
    <3>3. Reached(down[i + 1].base)
      BY <2>1, <3>1 DEF IInv, BaselineReached, Reached
    <3>. QED BY <1>6, <3>1, <3>2, <3>3 DEF Reached
  <2>. QED BY <2>1 DEF BaselineReached
<1>. QED BY <1>8, <1>9, <1>10, <1>11, <1>12 DEF IInv

\* An acknowledgement from a trusted mirror reports what the history remembers of
\* the newest packet it applied.
LEMMA SendAckStep ==
  ASSUME IInv, TypeOK', SendAck
  PROVE  IInv'
<1>. DEFINE a == [newest |-> newest, seqs |-> received, digest |-> digest, trusted |-> trusted]
<1>1. UNCHANGED <<nextSeq, sent, acked, policy, down, held, received, newest, digest, agreed, trusted>>
  BY DEF SendAck, server, client
<1>2. up' = up \cup {a} /\ newest # NoSeq
  BY DEF SendAck
<1>3. /\ a.newest = newest /\ a.seqs = received /\ a.digest = digest /\ a.trusted = trusted
  OBVIOUS
<1>. HIDE DEF a
<1>4. Ordered'
  BY <1>1, <1>2, <1>3 DEF IInv, Ordered
<1>5. NoFalseDrift'
  <2>1. ASSUME trusted PROVE ~Drifted(acked, a) /\ \A i \in DOMAIN sent : ~Drifted(sent[i], a)
    <3>1. digest = held
      BY <2>1 DEF IInv, Consistent
    <3>2. ~Drifted(acked, a)
      BY <1>2, <1>3, <2>1, <3>1 DEF IInv, Settled, Drifted
    <3>3. ASSUME NEW i \in DOMAIN sent, sent[i].seq = newest PROVE sent[i].state = held
      <4>1. /\ sent \in Seq(Entry) /\ i \in Nat /\ sent # <<>> /\ 1 \in DOMAIN sent
            /\ \A j, k \in DOMAIN sent : j < k => sent[j].seq < sent[k].seq
        BY DEF IInv, TypeOK, Ordered
      <4>2. \A j \in DOMAIN sent : sent[j].seq \in Nat /\ j \in Nat
        BY <4>1, EntryFields
      <4>3. sent[1].seq <= newest
        <5>1. i = 1 \/ 1 < i
          BY <4>1
        <5>. QED BY <3>3, <4>1, <4>2, <5>1
      <4>4. PICK k \in DOMAIN sent : sent[k].seq = newest /\ sent[k].state = held
        BY <2>1, <4>1, <4>3 DEF IInv, Consistent, Remembers
      <4>5. i = k
        BY <3>3, <4>1, <4>2, <4>4
      <4>. QED BY <4>4, <4>5
    <3>. QED BY <1>3, <3>1, <3>2, <3>3 DEF Drifted
  <2>2. \A ack \in up : ack.trusted => ~Drifted(acked, ack) /\ \A i \in DOMAIN sent : ~Drifted(sent[i], ack)
    BY DEF IInv, Consistent, NoFalseDrift
  <2>. QED BY <1>1, <1>2, <1>3, <2>1, <2>2 DEF NoFalseDrift, Drifted
<1>6. Consistent'
  <2>1. \A ack \in up', i \in DOMAIN sent : sent[i].seq \in ack.seqs => Reached(sent[i].seq)
    BY <1>2, <1>3 DEF IInv, Consistent, Reached
  <2>2. (\A ack \in up, i \in DOMAIN sent : sent[i].seq \in ack.seqs => Reached(sent[i].seq))'
    BY <1>1, <2>1 DEF Reached
  <2>. QED BY <1>1, <1>5, <2>2 DEF IInv, Consistent, Remembers
<1>7. Settled' /\ Landing' /\ BaselineReached'
  BY <1>1 DEF IInv, Settled, Reached, Landing, Lands, BaselineReached
<1>. QED BY <1>4, <1>6, <1>7 DEF IInv

\* A new subscriber starts with nothing remembered and nothing in flight to it.
LEMMA NewSubscriberStep ==
  ASSUME IInv, TypeOK', NewSubscriber
  PROVE  IInv'
<1>1. /\ sent' = <<>> /\ acked' = NoBaseline /\ down' = <<>> /\ held' = {} /\ received' = {}
      /\ newest' = NoSeq /\ trusted' = FALSE /\ UNCHANGED <<nextSeq, policy, up>>
  BY DEF NewSubscriber, Forget
<1>2. Ordered'
  BY <1>1 DEF IInv, TypeOK, Ordered, NoSeq
<1>3. Consistent'
  <2>1. \A ack \in up : ~Drifted(NoBaseline, ack)
    <3>1. \A ack \in up : ack \in Ack
      BY DEF IInv, TypeOK
    <3>. QED BY <3>1, AckFields DEF Drifted, NoBaseline, NoSeq
  <2>2. NoFalseDrift'
    BY <1>1, <2>1 DEF NoFalseDrift, Drifted
  <2>. QED BY <1>1, <2>2 DEF Consistent
<1>4. Settled' /\ Landing' /\ BaselineReached'
  BY <1>1 DEF Settled, NoBaseline, Landing, BaselineReached
<1>. QED BY <1>2, <1>3, <1>4 DEF IInv

-----------------------------------------------------------------------------
(* The theorems.                                                           *)

LEMMA InvInit == Init => IInv
<1>. SUFFICES ASSUME Init PROVE IInv
  OBVIOUS
<1>1. TypeOK
  BY TypeInit
<1>2. Ordered
  BY DEF Init, Ordered, NoSeq
<1>3. Consistent
  BY DEF Init, Consistent, NoFalseDrift
<1>4. Settled /\ Landing /\ BaselineReached
  BY DEF Init, Settled, NoBaseline, Landing, BaselineReached
<1>. QED BY <1>1, <1>2, <1>3, <1>4 DEF IInv

LEMMA InvStep == IInv /\ [Next]_vars => IInv'
<1>. SUFFICES ASSUME IInv, [Next]_vars PROVE IInv'
  OBVIOUS
<1>0. TypeOK' /\ nextSeq \in Nat /\ down \in Seq(Packet)
  BY TypeStep DEF IInv, TypeOK
<1>1. ASSUME NEW cur \in Worlds, SendRound(cur) PROVE IInv'
  BY <1>0, <1>1, SendRoundStep
<1>2. CASE SkipRound
  <2>1. /\ nextSeq <= nextSeq' /\ UNCHANGED <<down, client>> /\ up' \subseteq up
        /\ UNCHANGED <<sent, acked, policy>>
    BY <1>0, <1>2 DEF SkipRound
  <2>. QED BY <1>0, <2>1, QuietStep
<1>3. ASSUME NEW q \in Policies, SetPolicy(q) PROVE IInv'
  <2>1. /\ nextSeq <= nextSeq' /\ UNCHANGED <<down, client>> /\ up' \subseteq up
        /\ sent' = <<>> /\ acked' = NoBaseline
    BY <1>0, <1>3 DEF SetPolicy, Forget
  <2>. QED BY <1>0, <2>1, QuietStep
<1>4. CASE RequestFullBaseline
  <2>1. /\ nextSeq <= nextSeq' /\ UNCHANGED <<down, client>> /\ up' \subseteq up
        /\ UNCHANGED <<sent, acked, policy>>
    BY <1>0, <1>4 DEF RequestFullBaseline
  <2>. QED BY <1>0, <2>1, QuietStep
<1>5. ASSUME NEW ack \in up, ReceiveAck(ack) PROVE IInv'
  <2>1. nextSeq <= nextSeq' /\ UNCHANGED <<nextSeq, policy, down, client>> /\ up' \subseteq up
    BY <1>0, <1>5 DEF ReceiveAck
  <2>2. CASE Stalled
    <3>1. sent' = <<>> /\ acked' = NoBaseline
      BY <1>5, <2>2 DEF ReceiveAck, Forget
    <3>. QED BY <1>0, <2>1, <3>1, QuietStep
  <2>3. CASE ~Stalled /\ Recovering
    <3>1. FoldAck(ack)
      BY <1>5, <2>3 DEF ReceiveAck
    <3>. QED BY <1>0, <2>1, <2>3, <3>1, FoldStep
  <2>4. CASE ~Stalled /\ ~Recovering
    <3>1. UNCHANGED <<sent, acked, policy>>
      BY <1>5, <2>4 DEF ReceiveAck
    <3>. QED BY <1>0, <2>1, <3>1, QuietStep
  <2>. QED BY <2>2, <2>3, <2>4
<1>6. ASSUME NEW ack \in up, LoseAck(ack) PROVE IInv'
  <2>1. /\ nextSeq <= nextSeq' /\ UNCHANGED <<down, client>> /\ up' \subseteq up
        /\ UNCHANGED <<sent, acked, policy>>
    BY <1>0, <1>6 DEF LoseAck, server
  <2>. QED BY <1>0, <2>1, QuietStep
<1>7. CASE Apply
  BY <1>0, <1>7, ApplyStep
<1>8. CASE LosePacket
  <2>1. down' = SubSeq(down, 1 + 1, Len(down)) /\ 1 \in 0..Len(down)
    BY <1>0, <1>8 DEF LosePacket
  <2>2. UNCHANGED <<server, up, received, newest, held, digest, agreed, trusted>>
    BY <1>8 DEF LosePacket, client
  <2>. QED BY <1>0, <2>1, <2>2, LossStep
<1>9. CASE SendAck
  BY <1>0, <1>9, SendAckStep
<1>10. CASE DropMirror
  <2>1. PICK k \in 0..Len(down) : down' = SubSeq(down, k + 1, Len(down))
    BY <1>10 DEF DropMirror
  <2>2. UNCHANGED <<server, up, received, newest>> /\ trusted' = FALSE
    BY <1>10 DEF DropMirror
  <2>. QED BY <1>0, <2>1, <2>2, LossStep
<1>11. CASE NewSubscriber
  BY <1>0, <1>11, NewSubscriberStep
<1>12. CASE UNCHANGED vars
  <2>1. /\ nextSeq <= nextSeq' /\ UNCHANGED <<down, client>> /\ up' \subseteq up
        /\ UNCHANGED <<sent, acked, policy>>
    BY <1>0, <1>12 DEF vars, server
  <2>. QED BY <1>0, <2>1, QuietStep
<1>. QED BY <1>1, <1>2, <1>3, <1>4, <1>5, <1>6, <1>7, <1>8, <1>9, <1>10, <1>11, <1>12 DEF Next

\* The inductive invariant holds in every reachable state of the stream, whatever
\* the link loses and whenever acknowledgements arrive (delta.rs, mirror.rs, ack.rs).
THEOREM Inductive == Spec => []IInv
BY InvInit, InvStep, PTL DEF Spec

\* A trusted mirror holds, after every packet it applies, exactly the set the server
\* built the packet from (DeltaBaseline::plan, DeltaMirror::settle).
THEOREM MirrorsAgree == Spec => []Agreement
<1>1. IInv => Agreement
  BY DEF IInv, Consistent, Agreement
<1>. QED BY <1>1, Inductive, PTL

\* Every difference in flight is against a packet its subscriber has applied
\* (DeltaBaseline::plan, observe_ack and reset).
THEOREM BaselinesReached == Spec => []BaselineReached
<1>1. IInv => BaselineReached
  BY DEF IInv
<1>. QED BY <1>1, Inductive, PTL

\* An acknowledgement from a trusted mirror never reads as drift (observe_ack).
THEOREM DriftIsReal == Spec => []NoFalseDrift
<1>1. IInv => NoFalseDrift
  BY DEF IInv, Consistent
<1>. QED BY <1>1, Inductive, PTL

\* The acknowledged frontier never moves back within an epoch (observe_ack).
THEOREM FrontierMonotone == Spec => FrontierNeverRetreats
<1>1. IInv /\ [Next]_vars => [acked.seq # NoSeq /\ acked'.seq # NoSeq => acked'.seq >= acked.seq]_vars
  <2>. SUFFICES ASSUME IInv, [Next]_vars, acked.seq # NoSeq, acked'.seq # NoSeq
                PROVE  acked'.seq >= acked.seq
    OBVIOUS
  <2>1. acked.seq \in Nat
    BY DEF IInv, TypeOK, Baseline
  <2>2. CASE acked' = acked \/ acked' = NoBaseline
    BY <2>1, <2>2 DEF NoBaseline
  <2>3. ASSUME NEW ack \in up, ~Stalled, Recovering, ReceiveAck(ack), Frontier(ack) # {}
        PROVE  acked'.seq >= acked.seq
    <3>1. PICK i \in Frontier(ack) : acked' = sent[i]
      <4>1. (CHOOSE i \in Frontier(ack) : TRUE) \in Frontier(ack)
        BY <2>3
      <4>. QED BY <2>3, <4>1 DEF ReceiveAck, FoldAck
    <3>2. FirstUnsettled = {acked.seq + 1}
      BY DEF FirstUnsettled
    <3>3. i \in DOMAIN sent /\ acked.seq + 1 <= sent[i].seq
      BY <3>1, <3>2 DEF Frontier, ContiguousBase
    <3>4. sent[i].seq \in Nat
      BY <3>3, EntryFields DEF IInv, TypeOK
    <3>. QED BY <2>1, <3>1, <3>3, <3>4
  <2>4. ASSUME NEW ack \in up, ReceiveAck(ack)
        PROVE  acked' = acked \/ acked' = NoBaseline \/ (~Stalled /\ Recovering /\ Frontier(ack) # {})
    BY <2>4 DEF ReceiveAck, FoldAck, Forget
  <2>5. ASSUME NEW cur \in Worlds, SendRound(cur) PROVE acked' = acked \/ acked' = NoBaseline
    BY <2>5 DEF SendRound, Plan
  <2>6. CASE \/ SkipRound \/ RequestFullBaseline \/ Apply \/ LosePacket \/ SendAck
             \/ DropMirror \/ NewSubscriber \/ UNCHANGED vars
             \/ \E q \in Policies : SetPolicy(q)
             \/ \E ack \in up : LoseAck(ack)
    <3>1. acked' = acked \/ acked' = NoBaseline
      BY <2>6 DEF SkipRound, RequestFullBaseline, Apply, ApplyHead, LosePacket, SendAck,
                  DropMirror, NewSubscriber, vars, SetPolicy, Forget, LoseAck, server
    <3>. QED BY <2>2, <3>1
  <2>. QED BY <2>2, <2>3, <2>4, <2>5, <2>6 DEF Next
<1>. QED BY <1>1, Inductive, PTL DEF Spec, FrontierNeverRetreats

-----------------------------------------------------------------------------
(* Repair.  Once the link behaves, a mirror that may be wrong is put right *)
(* along one of four ways, each with its deadline: its report shows the    *)
(* drift, or its baseline ages out of the history, or a subscriber that    *)
(* went silent is heard again at its next keepalive, and then the next     *)
(* round is a full baseline.  What a right mirror is sent keeps it right.  *)

\* A subscriber that answers within a round is not stalled, and there are rounds
\* enough for the history to fill and for a keepalive to come round, and one more.
Enough ==
  /\ StalledAfter >= 1
  /\ MaxSeq > ChaosUntil + History
  /\ MaxSeq > ChaosUntil + KeepaliveEvery

\* What holds of numbers and memory in every round: nothing is ahead of the
\* present, and the newest state in the history is the last one sent.
Numbered ==
  /\ lastAck <= nextSeq
  /\ lastKeepalive = 0 \/ lastKeepalive < nextSeq
  /\ \A i \in DOMAIN down : down[i].seq < nextSeq
  /\ newest < nextSeq
  /\ \A s \in received : s <= newest
  /\ \A ack \in up : ack.newest < nextSeq /\ \A s \in ack.seqs : s <= ack.newest

Remembered ==
  /\ lastSent.seq < nextSeq
  /\ sent # <<>> => sent[Len(sent)].seq = lastSent.seq
  /\ sent = <<>> => acked.seq = NoSeq
  /\ \A i \in DOMAIN sent : /\ sent[i].seq <= lastSent.seq
                            /\ sent[i].seq = lastSent.seq => sent[i].state = lastSent.state
  /\ acked.seq <= lastSent.seq
  /\ acked.seq = lastSent.seq => acked.state = lastSent.state

\* Nothing sent since the link behaves is missing between two arrivals.
NoGap == \A s \in received : ChaosUntil <= s /\ s < newest => s + 1 \in received

\* A report of the mirror as it is now.
Current(ack) ==
  /\ ack.newest = newest
  /\ ack.seqs = received
  /\ ack.digest = held

\* Every round since ChaosUntil was sent and is still remembered.
Fresh ==
  /\ nextSeq - ChaosUntil <= Len(sent)
  /\ \A i \in DOMAIN sent : Len(sent) - i < nextSeq - ChaosUntil => ChaosUntil <= sent[i].seq

\* The last packet sent is on its way; the frontier and what was reported are older
\* than ChaosUntil.
OnItsWay ==
  /\ down[Len(down)].seq = nextSeq - 1
  /\ \A i \in DOMAIN down : i < Len(down) => down[i].seq < ChaosUntil
  /\ \/ newest < ChaosUntil /\ nextSeq = ChaosUntil + 1
     \/ newest = nextSeq - 2 /\ Len(down) = 1
  /\ acked.seq < ChaosUntil
  /\ \A ack \in up : ack.newest < ChaosUntil

\* It was applied, and the report of it is on its way back or has been heard: the
\* frontier is old still, or it is there and what it remembers is what the mirror holds.
Arrived ==
  /\ newest = nextSeq - 1
  /\ acked.seq < ChaosUntil \/ (acked.seq = nextSeq - 1 /\ acked.state = held)
  /\ \A ack \in up : ack.newest < ChaosUntil \/ Current(ack)
  /\ up # {} \/ lastAck = nextSeq

\* The mirror may be wrong, and nothing has told the server yet.
Untouched ==
  /\ ~needsFull
  /\ nextSeq <= ChaosUntil + History
  /\ lastSent.seq = nextSeq - 1
  /\ Fresh
  /\ NoGap
  /\ down # <<>> => OnItsWay
  /\ down = <<>> => Arrived

\* Stalled since before: skipped until its keepalive comes round.
Asleep ==
  /\ Stalled
  /\ lastKeepalive < ChaosUntil
  /\ nextSeq <= lastKeepalive + KeepaliveEvery

\* Stalled, and about to be heard.
Waking ==
  /\ Stalled
  /\ nextSeq <= ChaosUntil + KeepaliveEvery
  /\ down # <<>> \/ up # {}

\* The next round is a full baseline.
Renewing ==
  /\ needsFull
  /\ lastAck = nextSeq
  /\ nextSeq <= ChaosUntil + History \/ nextSeq <= ChaosUntil + KeepaliveEvery

\* The mirror holds the last set sent, or will when the packet on the link lands.
Repaired ==
  /\ nextSeq - 1 <= lastAck
  /\ \/ down = <<>> /\ held = lastSent.state /\ (up # {} \/ lastAck = nextSeq)
     \/ Len(down) = 1 /\ Applied(held, down[1]) = lastSent.state

Phases == Untouched \/ Asleep \/ Waking \/ Renewing \/ Repaired

RepairInv == TypeOK /\ Numbered /\ Remembered /\ (Calm /\ policy = Recovery => Phases)

LEMMA RepairInit == Enough /\ Init => RepairInv
<1>. SUFFICES ASSUME Enough, Init PROVE RepairInv
  OBVIOUS
<1>1. TypeOK
  BY TypeInit
<1>2. Numbered
  BY DEF Init, Numbered, Enough, Never, NoSeq
<1>3. Remembered
  BY DEF Init, Remembered, NoBaseline, NoSeq
<1>4. ~Calm
  BY ChaosAssumption DEF Init, Calm
<1>. QED BY <1>1, <1>2, <1>3, <1>4 DEF RepairInv

\* What applying the head of the link does to the client and the link.
LEMMA HeadApplied ==
  ASSUME TypeOK, ApplyHead
  PROVE  LET p == down[1]
         IN  /\ p \in Packet /\ p.seq \in Nat /\ Len(down) \in Nat \ {0}
             /\ DOMAIN down = 1..Len(down)
             /\ Observe(p.seq)
             /\ held' = Applied(held, p) /\ digest' = held'
             /\ down' \in Seq(Packet) /\ Len(down') = Len(down) - 1
             /\ \A i \in 1..(Len(down) - 1) : down'[i] = down[i + 1]
             /\ UNCHANGED server
<1>1. down \in Seq(Packet) /\ down # <<>> /\ Head(down) = down[1] /\ 1 \in DOMAIN down
  BY DEF ApplyHead, TypeOK
<1>2. down[1] \in Packet /\ down[1].seq \in Nat
  BY <1>1, PacketFields
<1>3. /\ Tail(down) \in Seq(Packet) /\ Len(Tail(down)) = Len(down) - 1
      /\ \A i \in 1..(Len(down) - 1) : Tail(down)[i] = down[i + 1]
      /\ Len(down) \in Nat \ {0} /\ DOMAIN down = 1..Len(down)
  BY <1>1
<1>. QED BY <1>1, <1>2, <1>3 DEF ApplyHead

LEMMA Observed ==
  ASSUME TypeOK, NEW q \in Nat, Observe(q)
  PROVE  /\ newest' \in Nat /\ received' \subseteq Nat
         /\ newest' = IF q > newest THEN q ELSE newest
         /\ \A s : s \in received' <=> (s \in received \/ s = q) /\ newest' - AckSpan <= s
<1>1. newest' = IF q > newest THEN q ELSE newest
  BY DEF Observe
<1>2. newest' \in Nat
  BY <1>1 DEF TypeOK, NoSeq
<1>3. received' = {s \in received \cup {q} : s >= newest' - AckSpan}
  BY <1>1 DEF Observe
<1>4. received \cup {q} \subseteq Nat /\ newest' - AckSpan \in Int
  BY <1>2, DeltaAssumption DEF TypeOK
<1>5. \A s : s \in received' <=> (s \in received \/ s = q) /\ newest' - AckSpan <= s
  BY <1>3, <1>4
<1>. QED BY <1>1, <1>2, <1>3, <1>4, <1>5

LEMMA ReportTyped ==
  ASSUME TypeOK, ApplyAndAck
  PROVE  TypeOK'
<1>1. ApplyHead /\ UNCHANGED server
  BY DEF ApplyAndAck, ApplyHead
<1>2. down[1] \in Packet /\ Observe(down[1].seq) /\ held' = Applied(held, down[1]) /\ digest' = held'
      /\ down[1].seq \in Nat /\ down' \in Seq(Packet)
  BY <1>1, HeadApplied
<1>3. held' \subseteq Keys
  BY <1>2, AppliedType DEF TypeOK
<1>4. newest' \in Nat /\ received' \subseteq Nat
  BY <1>2, Observed
<1>5. agreed' \in BOOLEAN /\ trusted' \in BOOLEAN
  <2>1. Head(down) = down[1] /\ down[1].full \in BOOLEAN /\ down[1].recovering \in BOOLEAN
    BY <1>1, <1>2 DEF ApplyHead, TypeOK, Packet
  <2>. QED BY <1>1, <2>1 DEF ApplyHead, TypeOK
<1>6. up' \subseteq Ack
  <2>1. [newest |-> newest', seqs |-> received', digest |-> digest', trusted |-> trusted'] \in Ack
    BY <1>2, <1>3, <1>4, <1>5 DEF Ack
  <2>. QED BY <2>1 DEF ApplyAndAck, TypeOK
<1>. QED BY <1>1, <1>2, <1>3, <1>4, <1>5, <1>6 DEF TypeOK, server

LEMMA RepairTyped ==
  ASSUME TypeOK, [RepairNext]_vars
  PROVE  TypeOK'
<1>1. CASE ApplyAndAck
  BY <1>1, ReportTyped
<1>2. CASE ~ApplyAndAck
  <2>1. [Next]_vars
    BY <1>2 DEF RepairNext, Quiet, Next
  <2>. QED BY <2>1, TypeStep
<1>. QED BY <1>1, <1>2

\* What folding an acknowledgement does: the frontier stays, or moves to a
\* remembered packet that ends an unbroken run of arrivals.
LEMMA Folded ==
  ASSUME TypeOK, NEW ack \in up, FoldAck(ack)
  PROVE  \/ /\ acked' = acked
            /\ needsFull' = (needsFull \/ Drifted(acked, ack))
         \/ \E i \in DOMAIN sent :
              /\ acked' = sent[i]
              /\ needsFull' = (needsFull \/ Drifted(sent[i], ack))
              /\ sent[i].seq \in ack.seqs
              /\ sent[i].seq + 1 \notin ack.seqs
              /\ acked.seq # NoSeq => acked.seq < sent[i].seq
<1>1. CASE Frontier(ack) = {}
  BY <1>1 DEF FoldAck
<1>2. CASE Frontier(ack) # {}
  <2>. DEFINE i == CHOOSE j \in Frontier(ack) : TRUE
  <2>1. i \in Frontier(ack)
    BY <1>2
  <2>2. acked' = sent[i] /\ needsFull' = (needsFull \/ Drifted(sent[i], ack))
    BY <1>2 DEF FoldAck
  <2>. HIDE DEF i
  <2>3. PICK first \in FirstUnsettled : sent[i].seq \in ContiguousBase(ack.seqs, first)
    BY <2>1 DEF Frontier
  <2>4. /\ i \in DOMAIN sent
        /\ sent[i].seq \in ack.seqs /\ sent[i].seq + 1 \notin ack.seqs /\ first <= sent[i].seq
    BY <2>1, <2>3 DEF Frontier, ContiguousBase
  <2>5. acked.seq # NoSeq => acked.seq < sent[i].seq
    <3>. SUFFICES ASSUME acked.seq # NoSeq PROVE acked.seq < sent[i].seq
      OBVIOUS
    <3>1. first = acked.seq + 1
      BY <2>3 DEF FirstUnsettled
    <3>2. acked.seq \in Nat /\ sent[i].seq \in Nat
      BY <2>4, EntryFields DEF TypeOK, Baseline
    <3>. QED BY <2>4, <3>1, <3>2
  <2>. QED BY <2>2, <2>4, <2>5
<1>. QED BY <1>1, <1>2

\* A mirror that holds the last set sent is left holding the next one, whatever
\* the round sends: that set lies between the two baselines.
LEMMA NextLands ==
  ASSUME TypeOK, Remembered, policy = Recovery, NEW cur \in Worlds,
         FullBaseline \/ held = lastSent.state
  PROVE  Applied(held, Planned(cur, nextSeq)) = cur
<1>1. CASE FullBaseline
  BY <1>1 DEF Planned, FullPacket, Applied, Insert
<1>2. CASE ~FullBaseline /\ held = lastSent.state
  <2>1. acked.seq # NoSeq /\ sent # <<>>
    BY <1>2 DEF FullBaseline, Recovering, Remembered
  <2>2. Planned(cur, nextSeq) = DeltaPacket(cur, nextSeq)
    BY <1>2 DEF Planned, Recovering
  <2>3. SendBaseline \subseteq held /\ held \subseteq AssumedHeld
    <3>1. Len(sent) \in DOMAIN sent /\ sent[Len(sent)].seq = lastSent.seq
          /\ sent[Len(sent)].state = lastSent.state
      <4>1. Len(sent) \in DOMAIN sent
        BY <2>1 DEF TypeOK
      <4>. QED BY <2>1, <4>1 DEF Remembered
    <3>2. CASE acked.seq = lastSent.seq
      <4>1. acked.state = held
        BY <1>2, <3>2 DEF Remembered
      <4>. QED BY <4>1 DEF SendBaseline, AssumedHeld
    <3>3. CASE acked.seq # lastSent.seq
      <4>1. lastSent.seq > acked.seq
        BY <3>3 DEF Remembered, TypeOK, Baseline, NoSeq
      <4>2. held \in Since
        BY <1>2, <3>1, <4>1 DEF Since
      <4>. QED BY <4>2 DEF SendBaseline, AssumedHeld
    <3>. QED BY <3>2, <3>3
  <2>4. held \subseteq Keys
    BY DEF TypeOK
  <2>5. Insert(held \ (AssumedHeld \ cur), cur \ SendBaseline) = cur
    BY <2>3, <2>4, BracketLands
  <2>. QED BY <2>2, <2>5 DEF DeltaPacket, Applied
<1>. QED BY <1>1, <1>2

\* What a round that sends leaves behind.
LEMMA RoundSent ==
  ASSUME TypeOK, NEW cur \in Worlds, SendRound(cur)
  PROVE  /\ nextSeq' = nextSeq + 1
         /\ UNCHANGED <<policy, up, client>>
         /\ down' = Append(down, Planned(cur, nextSeq))
         /\ Planned(cur, nextSeq) \in Packet /\ Planned(cur, nextSeq).seq = nextSeq
         /\ ~needsFull'
         /\ lastSent' = [seq |-> nextSeq, state |-> cur]
         /\ acked' = NoBaseline \/ acked' = acked
         /\ lastAck' = lastAck \/ (lastAck = Never /\ lastAck' = nextSeq)
         /\ \/ ~Stalled /\ lastKeepalive' = lastKeepalive
            \/ Stalled /\ KeepaliveDue /\ lastKeepalive' = nextSeq
<1>1. Planned(cur, nextSeq) \in Packet
  BY PlannedType DEF TypeOK
<1>2. Planned(cur, nextSeq).seq = nextSeq
  BY DEF Planned, FullPacket, DeltaPacket, NaivePacket
<1>. QED BY <1>1, <1>2 DEF SendRound, Plan

\* The link after one more packet.
LEMMA PacketQueued ==
  ASSUME NEW q \in Seq(Packet), NEW p \in Packet
  PROVE  /\ Append(q, p) \in Seq(Packet) /\ Len(q) \in Nat /\ Len(Append(q, p)) = Len(q) + 1
         /\ Append(q, p) # <<>>
         /\ \A i \in 1..Len(q) : Append(q, p)[i] = q[i]
         /\ Append(q, p)[Len(q) + 1] = p
OBVIOUS

LEMMA NumberedSend ==
  ASSUME TypeOK, Numbered, NEW cur \in Worlds, SendRound(cur)
  PROVE  Numbered'
<1>1. /\ nextSeq' = nextSeq + 1 /\ nextSeq \in Nat
      /\ UNCHANGED <<policy, up, received, newest>>
      /\ lastAck' = lastAck \/ lastAck' = nextSeq
      /\ lastKeepalive' = lastKeepalive \/ lastKeepalive' = nextSeq
  BY RoundSent DEF TypeOK, client
<1>2. \A i \in DOMAIN down' : down'[i].seq < nextSeq'
  <2>1. /\ Planned(cur, nextSeq) \in Packet /\ Planned(cur, nextSeq).seq = nextSeq
        /\ down' = Append(down, Planned(cur, nextSeq))
    BY RoundSent
  <2>2. down \in Seq(Packet)
    BY DEF TypeOK
  <2>3. /\ DOMAIN down' = 1..(Len(down) + 1) /\ Len(down) \in Nat
        /\ \A i \in 1..Len(down) : down'[i] = down[i]
        /\ down'[Len(down) + 1].seq = nextSeq
    BY <2>1, <2>2, PacketQueued
  <2>4. \A i \in 1..Len(down) : down[i].seq \in Nat /\ down[i].seq < nextSeq
    BY <2>2, PacketFields DEF Numbered
  <2>. SUFFICES ASSUME NEW i \in 1..(Len(down) + 1) PROVE down'[i].seq < nextSeq + 1
    BY <1>1, <2>3
  <2>5. CASE i = Len(down) + 1
    BY <1>1, <2>3, <2>5
  <2>6. CASE i # Len(down) + 1
    BY <1>1, <2>3, <2>4, <2>6
  <2>. QED BY <2>5, <2>6
<1>3. lastAck' <= nextSeq' /\ (lastKeepalive' = 0 \/ lastKeepalive' < nextSeq') /\ newest' < nextSeq'
  BY <1>1 DEF Numbered, TypeOK, Never, NoSeq
<1>4. \A ack \in up' : ack.newest < nextSeq'
  BY <1>1, AckFields DEF Numbered, TypeOK
<1>. QED BY <1>1, <1>2, <1>3, <1>4 DEF Numbered

LEMMA RememberedSend ==
  ASSUME TypeOK, TypeOK', Numbered, Remembered, NEW cur \in Worlds, SendRound(cur)
  PROVE  Remembered'
<1>1. /\ Plan(cur, nextSeq) /\ nextSeq' = nextSeq + 1 /\ nextSeq \in Nat
      /\ lastSent' = [seq |-> nextSeq, state |-> cur]
      /\ acked' = NoBaseline \/ acked' = acked
  BY DEF SendRound, Plan, TypeOK
<1>2. PICK d \in 0..Len(sent) :
        /\ Len(sent') = (Len(sent) - d) + 1
        /\ \A i \in 1..(Len(sent) - d) : sent'[i] = sent[i + d]
        /\ sent'[Len(sent')] = [seq |-> nextSeq, state |-> cur]
  BY <1>1, HistoryStep
<1>3. DOMAIN sent' = 1..Len(sent') /\ Len(sent) \in Nat /\ DOMAIN sent = 1..Len(sent)
  BY DEF TypeOK
<1>4. \A i \in DOMAIN sent : sent[i].seq \in Nat /\ sent[i].seq < nextSeq
  <2>1. \A i \in DOMAIN sent : sent[i].seq \in Nat
    BY EntryFields DEF TypeOK
  <2>. QED BY <1>1, <2>1 DEF Remembered, TypeOK, Baseline, NoSeq
<1>5. acked'.seq < nextSeq
  <2>1. acked.seq < nextSeq
    BY <1>1 DEF Remembered, TypeOK, Baseline, NoSeq
  <2>. QED BY <1>1, <2>1 DEF NoBaseline, NoSeq
<1>6. \A i \in DOMAIN sent' : /\ sent'[i].seq <= nextSeq
                              /\ sent'[i].seq = nextSeq => sent'[i].state = cur
  <2>. SUFFICES ASSUME NEW i \in 1..Len(sent')
                PROVE  sent'[i].seq <= nextSeq /\ (sent'[i].seq = nextSeq => sent'[i].state = cur)
    BY <1>3
  <2>1. CASE i = Len(sent')
    BY <1>1, <1>2, <2>1
  <2>2. CASE i # Len(sent')
    <3>1. i + d \in DOMAIN sent /\ sent'[i] = sent[i + d]
      BY <1>2, <1>3, <2>2
    <3>. QED BY <1>1, <1>4, <3>1
  <2>. QED BY <2>1, <2>2
<1>7. sent' # <<>> /\ sent'[Len(sent')].seq = nextSeq
  BY <1>2, <1>3
<1>8. lastSent'.seq = nextSeq /\ lastSent'.state = cur /\ acked'.seq # nextSeq
      /\ nextSeq < nextSeq' /\ acked'.seq <= nextSeq
  <2>1. acked'.seq \in Int
    BY DEF TypeOK, Baseline, NoSeq
  <2>. QED BY <1>1, <1>5, <2>1
<1>. QED BY <1>6, <1>7, <1>8 DEF Remembered

\* Folding moves the frontier only to a packet that is remembered.
LEMMA FoldKeeps ==
  ASSUME TypeOK, Remembered, policy = Recovery, NEW ack \in up, ReceiveAck(ack), ~Stalled
  PROVE  Remembered' /\ FoldAck(ack) /\ UNCHANGED <<sent, lastSent>>
<1>1. FoldAck(ack) /\ UNCHANGED <<nextSeq, sent, lastSent>>
  BY DEF ReceiveAck, FoldAck, Recovering
<1>2. acked' = acked \/ \E i \in DOMAIN sent : acked' = sent[i]
  BY <1>1, Folded
<1>3. Remembered'
  <2>1. CASE acked' = acked
    BY <1>1, <2>1 DEF Remembered
  <2>2. ASSUME NEW i \in DOMAIN sent, acked' = sent[i] PROVE Remembered'
    <3>1. sent # <<>>
      BY <2>2 DEF TypeOK
    <3>2. acked'.seq <= lastSent.seq /\ (acked'.seq = lastSent.seq => acked'.state = lastSent.state)
      BY <2>2 DEF Remembered
    <3>. QED BY <1>1, <3>1, <3>2 DEF Remembered
  <2>. QED BY <1>2, <2>1, <2>2
<1>. QED BY <1>1, <1>3

LEMMA Forgotten ==
  ASSUME TypeOK, Forget, UNCHANGED nextSeq
  PROVE  Remembered'
BY DEF Forget, Remembered, NoBaseline, NoSeq, TypeOK

LEMMA RememberedStep ==
  ASSUME TypeOK, TypeOK', Numbered, Remembered, [RepairNext]_vars
  PROVE  Remembered'
<1>1. ASSUME NEW cur \in Worlds, SendRound(cur) PROVE Remembered'
  BY <1>1, RememberedSend
<1>2. CASE UNCHANGED <<sent, acked, lastSent, nextSeq>>
  BY <1>2 DEF Remembered
<1>3. CASE SkipRound
  <2>1. lastSent'.seq < nextSeq'
    BY <1>3 DEF SkipRound, Remembered, TypeOK, Baseline, NoSeq
  <2>. QED BY <1>3, <2>1 DEF SkipRound, Remembered
<1>4. ASSUME NEW ack \in up, ReceiveAck(ack) PROVE Remembered'
  <2>1. CASE Stalled
    BY <1>4, <2>1, Forgotten DEF ReceiveAck
  <2>2. CASE ~Stalled /\ policy = Recovery
    BY <1>4, <2>2, FoldKeeps
  <2>3. CASE ~Stalled /\ policy # Recovery
    BY <1>2, <1>4, <2>3 DEF ReceiveAck, Recovering
  <2>. QED BY <2>1, <2>2, <2>3
<1>5. CASE \/ ApplyAndAck \/ Apply \/ LosePacket \/ SendAck \/ DropMirror \/ UNCHANGED vars
           \/ RequestFullBaseline \/ \E ack \in up : LoseAck(ack)
  <2>1. UNCHANGED <<sent, acked, lastSent, nextSeq>>
    BY <1>5 DEF ApplyAndAck, Apply, ApplyHead, LosePacket, SendAck, DropMirror, LoseAck,
                RequestFullBaseline, vars, server
  <2>. QED BY <1>2, <2>1
<1>6. CASE NewSubscriber \/ \E p \in Policies : SetPolicy(p)
  BY <1>6, Forgotten DEF NewSubscriber, SetPolicy
<1>. QED BY <1>1, <1>3, <1>4, <1>5, <1>6 DEF RepairNext, Next, Quiet

\* Nothing a report says is ahead of what was applied.
LEMMA NumberedApply ==
  ASSUME TypeOK, Numbered, ApplyHead
  PROVE  /\ \A i \in DOMAIN down' : down'[i].seq < nextSeq
         /\ newest' < nextSeq /\ newest' \in Nat
         /\ \A s \in received' : s <= newest'
<1>. DEFINE m == Len(down)
            q == down[1].seq
<1>1. /\ down[1] \in Packet /\ q \in Nat /\ m \in Nat \ {0} /\ DOMAIN down = 1..m
      /\ Observe(q)
      /\ down' \in Seq(Packet) /\ Len(down') = m - 1
      /\ \A i \in 1..(m - 1) : down'[i] = down[i + 1]
  BY HeadApplied
<1>2. q < nextSeq
  BY <1>1 DEF Numbered
<1>3. /\ newest' \in Nat /\ newest' = (IF q > newest THEN q ELSE newest)
      /\ \A s : s \in received' <=> (s \in received \/ s = q) /\ newest' - AckSpan <= s
  BY <1>1, Observed
<1>. HIDE DEF q
<1>4. newest' < nextSeq
  BY <1>2, <1>3 DEF Numbered
<1>5. \A s \in received' : s <= newest'
  <2>1. newest <= newest' /\ q <= newest' /\ newest \in Int
    BY <1>1, <1>3 DEF TypeOK, NoSeq
  <2>2. \A s \in received : s \in Nat /\ s <= newest
    BY DEF Numbered, TypeOK
  <2>. QED BY <1>3, <2>1, <2>2
<1>6. \A i \in DOMAIN down' : down'[i].seq < nextSeq
  <2>. SUFFICES ASSUME NEW i \in 1..(m - 1) PROVE down'[i].seq < nextSeq
    BY <1>1
  <2>1. i + 1 \in DOMAIN down /\ down'[i] = down[i + 1]
    BY <1>1
  <2>. QED BY <2>1 DEF Numbered
<1>. QED BY <1>3, <1>4, <1>5, <1>6

LEMMA NumberedStep ==
  ASSUME Enough, TypeOK, TypeOK', Numbered, [RepairNext]_vars
  PROVE  Numbered'
<1>1. ASSUME NEW cur \in Worlds, SendRound(cur) PROVE Numbered'
  BY <1>1, NumberedSend
<1>2. CASE SkipRound
  <2>1. /\ nextSeq' = nextSeq + 1 /\ nextSeq \in Nat
        /\ UNCHANGED <<policy, lastAck, lastKeepalive, down, up, received, newest>>
    BY <1>2 DEF SkipRound, TypeOK, client
  <2>2. \A i \in DOMAIN down : down[i].seq \in Nat
    BY PacketFields DEF TypeOK
  <2>3. \A ack \in up : ack.newest \in Nat
    BY AckFields DEF TypeOK
  <2>4. lastAck' <= nextSeq' /\ (lastKeepalive' = 0 \/ lastKeepalive' < nextSeq') /\ newest' < nextSeq'
    BY <2>1 DEF Numbered, TypeOK, Never, NoSeq
  <2>5. (\A i \in DOMAIN down' : down'[i].seq < nextSeq') /\ \A ack \in up' : ack.newest < nextSeq'
    BY <2>1, <2>2, <2>3 DEF Numbered
  <2>. QED BY <2>1, <2>4, <2>5 DEF Numbered
<1>3. ASSUME NEW ack \in up, ReceiveAck(ack) PROVE Numbered'
  <2>1. /\ up' \subseteq up /\ lastAck' = nextSeq
        /\ UNCHANGED <<nextSeq, policy, down, received, newest>>
        /\ lastKeepalive' = 0 \/ lastKeepalive' = lastKeepalive
    BY <1>3 DEF ReceiveAck, Forget, FoldAck, client
  <2>2. lastAck' <= nextSeq'
    BY <2>1 DEF TypeOK
  <2>. QED BY <2>1, <2>2 DEF Numbered
<1>4. CASE ApplyAndAck \/ Apply
  <2>1. ApplyHead /\ UNCHANGED server
    BY <1>4 DEF ApplyAndAck, Apply, ApplyHead
  <2>2. /\ \A i \in DOMAIN down' : down'[i].seq < nextSeq
        /\ newest' < nextSeq
        /\ \A s \in received' : s <= newest'
    BY <2>1, NumberedApply
  <2>3. \A ack \in up' : ack \in up \/ (ack.newest = newest' /\ ack.seqs = received')
    BY <1>4 DEF ApplyAndAck, Apply
  <2>4. \A ack \in up' : ack.newest < nextSeq /\ \A s \in ack.seqs : s <= ack.newest
    <3>. SUFFICES ASSUME NEW ack \in up'
                  PROVE  ack.newest < nextSeq /\ \A s \in ack.seqs : s <= ack.newest
      OBVIOUS
    <3>1. CASE ack \in up
      BY <3>1 DEF Numbered
    <3>2. CASE ack.newest = newest' /\ ack.seqs = received'
      BY <2>2, <3>2
    <3>. QED BY <2>3, <3>1, <3>2
  <2>. QED BY <2>1, <2>2, <2>4 DEF Numbered, server
<1>5. CASE LosePacket \/ DropMirror
  <2>1. \A i \in DOMAIN down' : \E j \in DOMAIN down : down'[i] = down[j]
    <3>1. CASE LosePacket
      <4>1. \A i \in DOMAIN Tail(down) : i + 1 \in DOMAIN down /\ Tail(down)[i] = down[i + 1]
        BY <3>1 DEF LosePacket, TypeOK
      <4>. QED BY <3>1, <4>1 DEF LosePacket
    <3>2. CASE DropMirror
      <4>1. PICK k \in 0..Len(down) : down' = SubSeq(down, k + 1, Len(down))
        BY <3>2 DEF DropMirror
      <4>2. \A i \in DOMAIN down' : i + k \in DOMAIN down /\ down'[i] = down[i + k]
        BY <4>1 DEF TypeOK
      <4>. QED BY <4>2
    <3>. QED BY <1>5, <3>1, <3>2
  <2>3. UNCHANGED <<nextSeq, policy, lastAck, lastKeepalive, up, received, newest>>
    BY <1>5 DEF LosePacket, DropMirror, server, client
  <2>4. \A i \in DOMAIN down' : down'[i].seq < nextSeq
    BY <2>1 DEF Numbered
  <2>. QED BY <2>3, <2>4 DEF Numbered
<1>6. CASE SendAck
  <2>1. \A ack \in up' : ack \in up \/ (ack.newest = newest /\ ack.seqs = received)
    BY <1>6 DEF SendAck
  <2>2. UNCHANGED <<nextSeq, policy, lastAck, lastKeepalive, down, received, newest>>
    BY <1>6 DEF SendAck, server, client
  <2>3. \A ack \in up' : ack.newest < nextSeq /\ \A s \in ack.seqs : s <= ack.newest
    BY <2>1 DEF Numbered
  <2>. QED BY <2>2, <2>3 DEF Numbered
<1>7. CASE UNCHANGED vars \/ \E ack \in up : LoseAck(ack)
  <2>1. up' \subseteq up /\ UNCHANGED <<nextSeq, policy, lastAck, lastKeepalive, down, received, newest>>
    BY <1>7 DEF vars, server, client, LoseAck
  <2>. QED BY <2>1 DEF Numbered
<1>8. CASE RequestFullBaseline
  <2>1. UNCHANGED <<nextSeq, lastAck, lastKeepalive, down, up, received, newest>>
    BY <1>8 DEF RequestFullBaseline, client
  <2>. QED BY <2>1 DEF Numbered
<1>9. CASE NewSubscriber \/ \E p \in Policies : SetPolicy(p)
  <2>1. /\ lastAck' = Never /\ lastKeepalive' = 0 /\ UNCHANGED <<nextSeq, up>>
        /\ \/ down' = <<>> /\ received' = {} /\ newest' = NoSeq
           \/ UNCHANGED <<down, received, newest>>
    BY <1>9 DEF NewSubscriber, SetPolicy, Forget, client
  <2>2. lastAck' <= nextSeq' /\ NoSeq < nextSeq'
    BY <2>1 DEF TypeOK, Never, NoSeq
  <2>3. CASE down' = <<>> /\ received' = {} /\ newest' = NoSeq
    BY <2>1, <2>2, <2>3 DEF Numbered
  <2>4. CASE UNCHANGED <<down, received, newest>>
    BY <2>1, <2>2, <2>4 DEF Numbered
  <2>. QED BY <2>1, <2>3, <2>4
<1>. QED BY <1>1, <1>2, <1>3, <1>4, <1>5, <1>6, <1>7, <1>8, <1>9 DEF RepairNext, Next, Quiet

-----------------------------------------------------------------------------
(* The four ways, step by step.                                            *)

Base == TypeOK /\ Numbered /\ Remembered /\ policy = Recovery

\* The numbers the arguments below reckon with.
LEMMA Reckoned ==
  ASSUME Base
  PROVE  /\ nextSeq \in Nat /\ ChaosUntil \in Nat /\ ChaosUntil < MaxSeq /\ MaxSeq \in Nat
         /\ History \in Nat \ {0} /\ KeepaliveEvery \in Nat \ {0} /\ StalledAfter \in Nat
         /\ lastAck \in Int /\ lastAck <= nextSeq /\ -1 <= lastAck /\ lastKeepalive \in Nat
         /\ newest \in Int /\ -1 <= newest /\ newest < nextSeq
         /\ acked.seq \in Int /\ -1 <= acked.seq /\ acked.seq < nextSeq
         /\ lastSent.seq \in Int /\ lastSent.seq < nextSeq
<1>1. /\ lastSent.seq \in Int /\ lastSent.seq < nextSeq
      /\ acked.seq \in Int /\ -1 <= acked.seq /\ acked.seq < nextSeq
  <2>1. acked.seq \in Nat \cup {-1} /\ lastSent.seq \in Nat \cup {-1} /\ nextSeq \in Nat
    BY DEF Base, TypeOK, Baseline, NoSeq
  <2>. QED BY <2>1 DEF Base, Remembered
<1>2. /\ lastAck \in Int /\ lastAck <= nextSeq /\ -1 <= lastAck
      /\ newest \in Int /\ -1 <= newest /\ newest < nextSeq
  BY DEF Base, TypeOK, Numbered, Never, NoSeq
<1>3. lastKeepalive \in Nat /\ nextSeq \in Nat
  BY DEF Base, TypeOK
<1>. QED BY <1>1, <1>2, <1>3, DeltaAssumption, ChaosAssumption

LEMMA Measured ==
  ASSUME Base
  PROVE  /\ Len(sent) \in Nat /\ DOMAIN sent = 1..Len(sent) /\ Len(sent) <= History
         /\ Len(down) \in Nat /\ DOMAIN down = 1..Len(down)
BY DEF Base, TypeOK

\* A subscriber that has just been heard is not stalled.
LEMMA HeardLive ==
  ASSUME Enough, Base, nextSeq - 1 <= lastAck
  PROVE  ~Stalled
BY Reckoned DEF Stalled, Enough

\* An acknowledgement heard while stalled makes the next round a full baseline.
LEMMA Resumed ==
  ASSUME Base, NEW ack \in up, ReceiveAck(ack), Stalled,
         nextSeq <= ChaosUntil + History \/ nextSeq <= ChaosUntil + KeepaliveEvery
  PROVE  Renewing'
<1>1. needsFull' /\ lastAck' = nextSeq /\ nextSeq' = nextSeq
  BY DEF ReceiveAck, Forget
<1>. QED BY <1>1 DEF Renewing

\* A round planned in full, or for a mirror that is right, puts the mirror right.
LEMMA RoundRepairs ==
  ASSUME Base, NEW cur \in Worlds, SendRound(cur), down = <<>>, lastAck = nextSeq,
         FullBaseline \/ held = lastSent.state
  PROVE  Repaired'
<1>. DEFINE p == Planned(cur, nextSeq)
<1>1. Applied(held, p) = cur
  BY NextLands DEF Base, Numbered
<1>2. /\ p \in Packet /\ down' = Append(down, p) /\ held' = held /\ lastSent'.state = cur
      /\ nextSeq' = nextSeq + 1
      /\ lastAck' = lastAck \/ lastAck' = nextSeq
  BY RoundSent DEF Base, client
<1>. HIDE DEF p
<1>3. Len(down') = 1 /\ down'[1] = p
  BY <1>2
<1>4. Applied(held, p)' = Applied(held', p')
  OBVIOUS
<1>5. Applied(held', down'[1]) = lastSent'.state
  BY <1>1, <1>2, <1>3 DEF Applied
<1>6. nextSeq' - 1 <= lastAck'
  BY <1>2, Reckoned
<1>. QED BY <1>3, <1>5, <1>6 DEF Repaired, Applied

\* A round that is not a rebuild adds one to the rounds that are remembered.
LEMMA FreshSent ==
  ASSUME Base, TypeOK', NEW cur \in Worlds, SendRound(cur),
         \/ nextSeq = ChaosUntil
         \/ Fresh /\ ~Rebuild /\ ChaosUntil <= nextSeq /\ nextSeq < ChaosUntil + History
  PROVE  Fresh' /\ lastSent'.seq = nextSeq' - 1
<1>. DEFINE n == Len(sent)
            n1 == Len(sent')
<1>1. Plan(cur, nextSeq) /\ nextSeq' = nextSeq + 1 /\ lastSent'.seq = nextSeq
  BY DEF SendRound, Plan
<1>2. PICK d \in 0..n :
        /\ n1 = (n - d) + 1
        /\ \A i \in 1..(n - d) : sent'[i] = sent[i + d]
        /\ sent'[n1] = [seq |-> nextSeq, state |-> cur]
        /\ Rebuild => d = n
        /\ ~Rebuild => (d = 0 \/ (d = 1 /\ n = History))
  BY <1>1, HistoryStep DEF Base
<1>3. DOMAIN sent' = 1..n1
  BY DEF TypeOK
<1>4. /\ nextSeq \in Nat /\ ChaosUntil \in Nat /\ History \in Nat \ {0}
      /\ n \in Nat /\ DOMAIN sent = 1..n
  BY Reckoned, Measured
<1>5. \/ nextSeq = ChaosUntil
      \/ /\ ~Rebuild /\ ChaosUntil <= nextSeq /\ nextSeq < ChaosUntil + History
         /\ nextSeq - ChaosUntil <= n
         /\ \A i \in 1..n : n - i < nextSeq - ChaosUntil => ChaosUntil <= sent[i].seq
  BY <1>4 DEF Fresh
<1>. HIDE DEF n, n1
<1>6. nextSeq' - ChaosUntil <= n1
  BY <1>1, <1>2, <1>4, <1>5
<1>7. ASSUME NEW i \in 1..n1, n1 - i < nextSeq' - ChaosUntil
      PROVE  ChaosUntil <= sent'[i].seq
  <2>1. CASE i = n1
    <3>1. ChaosUntil <= nextSeq
      BY <1>4, <1>5
    <3>. QED BY <1>2, <2>1, <3>1
  <2>2. CASE i # n1
    <3>1. i \in 1..(n - d) /\ i + d \in 1..n
      BY <1>2, <1>4, <2>2
    <3>2. sent'[i] = sent[i + d]
      BY <1>2, <3>1
    <3>3. n - (i + d) < nextSeq - ChaosUntil /\ nextSeq # ChaosUntil
      BY <1>1, <1>2, <1>4, <1>7, <3>1
    <3>. QED BY <1>5, <3>1, <3>2, <3>3
  <2>. QED BY <2>1, <2>2
<1>8. nextSeq' - 1 = nextSeq
  BY <1>1, <1>4
<1>. QED BY <1>1, <1>3, <1>6, <1>7, <1>8 DEF Fresh, n1

LEMMA UntouchedApply ==
  ASSUME Base, Calm, Untouched, ApplyAndAck
  PROVE  Untouched'
<1>. DEFINE m == Len(down)
            q == down[1].seq
<1>1. /\ q \in Nat /\ m \in Nat \ {0} /\ DOMAIN down = 1..m
      /\ Observe(q) /\ digest' = held'
      /\ down' \in Seq(Packet) /\ Len(down') = m - 1
      /\ \A i \in 1..(m - 1) : down'[i] = down[i + 1]
      /\ UNCHANGED server
  BY HeadApplied DEF Base, ApplyAndAck
<1>2. /\ newest' \in Nat /\ newest' = (IF q > newest THEN q ELSE newest)
      /\ \A s : s \in received' <=> (s \in received \/ s = q) /\ newest' - AckSpan <= s
  BY <1>1, Observed DEF Base
<1>3. UNCHANGED <<nextSeq, sent, acked, lastSent, needsFull, lastAck>>
  BY <1>1 DEF server
<1>4. \A ack \in up' : ack \in up \/ (ack.newest = newest' /\ ack.seqs = received' /\ ack.digest = held')
  BY <1>1 DEF ApplyAndAck
<1>5. up' # {}
  BY DEF ApplyAndAck
<1>6. down # <<>> /\ OnItsWay
  BY DEF Untouched, ApplyAndAck, ApplyHead
<1>7. \A s \in received : s \in Nat /\ s <= newest
  BY DEF Base, TypeOK, Numbered
<1>8. ChaosUntil + 1 <= nextSeq
  BY Reckoned DEF Calm
<1>9. Fresh'
  BY <1>3 DEF Untouched, Fresh
<1>. HIDE DEF q, m
<1>10. CASE m = 1
  <2>1. down' = <<>>
    BY <1>1, <1>10
  <2>2. q = nextSeq - 1 /\ (newest < ChaosUntil \/ newest = nextSeq - 2)
    BY <1>1, <1>6, <1>10 DEF OnItsWay, q, m
  <2>3. newest' = nextSeq - 1
    BY <1>2, <1>8, <2>2, Reckoned
  <2>4. NoGap'
    <3>. SUFFICES ASSUME NEW s \in received', ChaosUntil <= s, s < newest' PROVE s + 1 \in received'
      BY DEF NoGap
    <3>1. s \in received /\ newest' - AckSpan <= s /\ s \in Nat /\ s <= newest
      BY <1>2, <1>7, <2>2, <2>3, Reckoned
    <3>2. s + 1 \in received \/ s + 1 = q
      <4>1. CASE s = newest
        BY <2>2, <3>1, <4>1, Reckoned
      <4>2. CASE s # newest
        BY <3>1, <4>2, Reckoned DEF Untouched, NoGap
      <4>. QED BY <4>1, <4>2
    <3>3. newest' - AckSpan <= s + 1
      BY <1>2, <3>1, DeltaAssumption
    <3>. QED BY <1>2, <3>2, <3>3
  <2>5. Arrived'
    <3>1. \A ack \in up' : ack.newest < ChaosUntil \/ Current(ack)'
      BY <1>4, <1>6 DEF OnItsWay, Current
    <3>2. acked'.seq < ChaosUntil
      BY <1>3, <1>6 DEF OnItsWay
    <3>. QED BY <1>3, <1>5, <2>3, <3>1, <3>2 DEF Arrived
  <2>. QED BY <1>3, <1>9, <2>1, <2>4, <2>5 DEF Untouched
<1>11. CASE m # 1
  <2>1. q < ChaosUntil /\ newest < ChaosUntil /\ nextSeq = ChaosUntil + 1
    BY <1>1, <1>6, <1>11 DEF OnItsWay, q, m
  <2>2. newest' < ChaosUntil
    BY <1>2, <2>1
  <2>3. NoGap'
    <3>1. \A s \in received' : s \in Nat /\ s < ChaosUntil
      <4>1. newest \in Int /\ ChaosUntil \in Nat
        BY Reckoned
      <4>2. \A s \in received : s \in Nat /\ s < ChaosUntil
        BY <1>7, <2>1, <4>1
      <4>. QED BY <1>1, <1>2, <2>1, <4>2
    <3>. QED BY <3>1, Reckoned DEF NoGap
  <2>4. down' # <<>>
    BY <1>1, <1>11
  <2>5. OnItsWay'
    <3>1. down'[Len(down')].seq = nextSeq - 1
      BY <1>1, <1>6, <1>11 DEF OnItsWay, m
    <3>2. \A i \in DOMAIN down' : i < Len(down') => down'[i].seq < ChaosUntil
      <4>. SUFFICES ASSUME NEW i \in 1..(m - 1), i < m - 1 PROVE down'[i].seq < ChaosUntil
        BY <1>1
      <4>1. i + 1 \in DOMAIN down /\ i + 1 < Len(down) /\ down'[i] = down[i + 1]
        BY <1>1 DEF m
      <4>. QED BY <1>6, <4>1 DEF OnItsWay
    <3>3. acked'.seq < ChaosUntil /\ \A ack \in up' : ack.newest < ChaosUntil
      BY <1>3, <1>4, <1>6, <2>2 DEF OnItsWay
    <3>. QED BY <1>3, <2>1, <2>2, <3>1, <3>2, <3>3 DEF OnItsWay
  <2>. QED BY <1>3, <1>9, <2>3, <2>4, <2>5 DEF Untouched
<1>. QED BY <1>10, <1>11

\* A report either leaves the frontier old, or shows the mirror right, or wrong.
LEMMA UntouchedAck ==
  ASSUME Base, Calm, Untouched, NEW ack \in up, ReceiveAck(ack)
  PROVE  Untouched' \/ Renewing'
<1>1. CASE Stalled
  BY <1>1, Resumed DEF Untouched
<1>2. CASE ~Stalled /\ needsFull'
  <2>1. lastAck' = nextSeq /\ nextSeq' = nextSeq
    BY DEF ReceiveAck
  <2>. QED BY <1>2, <2>1 DEF Untouched, Renewing
<1>3. CASE ~Stalled /\ ~needsFull'
  <2>1. FoldAck(ack) /\ UNCHANGED <<sent, lastSent>>
    BY <1>3, FoldKeeps DEF Base
  <2>2. /\ up' = up \ {ack} /\ lastAck' = nextSeq
        /\ UNCHANGED <<nextSeq, down, held, received, newest>>
    BY DEF ReceiveAck, client
  <2>3. \/ acked' = acked
        \/ \E i \in DOMAIN sent :
             /\ acked' = sent[i] /\ ~Drifted(sent[i], ack)
             /\ sent[i].seq \in ack.seqs /\ sent[i].seq + 1 \notin ack.seqs
    BY <1>3, <2>1, Folded DEF Base
  <2>4. Fresh' /\ NoGap'
    BY <2>1, <2>2 DEF Untouched, Fresh, NoGap
  <2>5. \/ acked' = acked
        \/ acked'.seq < ChaosUntil
        \/ down = <<>> /\ acked'.seq = nextSeq - 1 /\ acked'.state = held
    <3>. SUFFICES ASSUME NEW i \in DOMAIN sent, acked' = sent[i], ~Drifted(sent[i], ack),
                         sent[i].seq \in ack.seqs, sent[i].seq + 1 \notin ack.seqs
                  PROVE  \/ sent[i].seq < ChaosUntil
                         \/ down = <<>> /\ sent[i].seq = nextSeq - 1 /\ sent[i].state = held
      BY <2>3
    <3>1. sent[i].seq <= ack.newest /\ sent[i].seq \in Nat /\ ack.newest \in Nat
      <4>1. sent[i].seq \in Nat
        BY EntryFields DEF Base, TypeOK
      <4>. QED BY <4>1, AckFields DEF Base, Numbered, TypeOK
    <3>2. CASE ack.newest < ChaosUntil
      BY <3>1, <3>2, Reckoned
    <3>3. CASE down = <<>> /\ Current(ack)
      <4>1. newest = nextSeq - 1 /\ sent[i].seq \in received /\ sent[i].seq + 1 \notin received
            /\ sent[i].seq <= newest
        BY <3>1, <3>3 DEF Untouched, Arrived, Current
      <4>2. sent[i].seq < ChaosUntil \/ sent[i].seq = newest
        <5>1. ~(ChaosUntil <= sent[i].seq /\ sent[i].seq < newest)
          BY <4>1 DEF Untouched, NoGap
        <5>2. ChaosUntil \in Nat /\ newest \in Int
          BY Reckoned
        <5>. QED BY <3>1, <4>1, <5>1, <5>2
      <4>3. sent[i].seq = newest => sent[i].state = held
        BY <3>3 DEF Drifted, Current
      <4>. QED BY <3>3, <4>1, <4>2, <4>3
    <3>. QED BY <3>2, <3>3 DEF Untouched, OnItsWay, Arrived
  <2>6. down' # <<>> => OnItsWay'
    BY <2>2, <2>5 DEF Untouched, OnItsWay
  <2>7. down' = <<>> => Arrived'
    BY <2>2, <2>5 DEF Untouched, Arrived, Current
  <2>. QED BY <1>3, <2>1, <2>2, <2>4, <2>6, <2>7 DEF Untouched
<1>. QED BY <1>1, <1>2, <1>3

\* A round sent to a mirror nobody knows to be wrong: the baseline has not aged out
\* yet, or the round is a full one.
LEMMA UntouchedSend ==
  ASSUME Enough, Base, TypeOK', Calm, Untouched, NEW cur \in Worlds, SendRound(cur),
         down = <<>>, up = {}
  PROVE  Untouched' \/ Repaired'
<1>1. Arrived /\ lastAck = nextSeq /\ newest = nextSeq - 1
  BY DEF Untouched, Arrived
<1>2. CASE acked.seq = nextSeq - 1 /\ acked.state = held
  <2>1. held = lastSent.state
    BY <1>2 DEF Untouched, Base, Remembered
  <2>. QED BY <1>1, <2>1, RoundRepairs
<1>3. CASE FullBaseline
  BY <1>1, <1>3, RoundRepairs
<1>4. CASE ~FullBaseline /\ acked.seq < ChaosUntil
  <2>1. ~Rebuild /\ acked.seq # NoSeq /\ ~BaselineIsStale
    BY <1>4 DEF FullBaseline, Rebuild, Recovering, Base, Numbered
  <2>2. ChaosUntil < nextSeq /\ nextSeq < ChaosUntil + History
    <3>1. nextSeq <= ChaosUntil + History /\ nextSeq - ChaosUntil <= Len(sent)
          /\ \A i \in DOMAIN sent : Len(sent) - i < nextSeq - ChaosUntil => ChaosUntil <= sent[i].seq
      BY DEF Untouched, Fresh
    <3>2. nextSeq # ChaosUntil + History
      <4>. SUFFICES ASSUME nextSeq = ChaosUntil + History PROVE FALSE
        OBVIOUS
      <4>1. Len(sent) = History /\ 1 \in DOMAIN sent
        BY <3>1, Reckoned, Measured
      <4>2. ChaosUntil <= sent[1].seq /\ sent[1].seq \in Nat
        <5>1. ChaosUntil \in Nat /\ History \in Nat /\ sent[1].seq \in Nat
          BY <4>1, Reckoned, EntryFields DEF Base, TypeOK
        <5>2. Len(sent) - 1 < nextSeq - ChaosUntil
          BY <4>1, <5>1
        <5>. QED BY <3>1, <4>1, <5>1, <5>2
      <4>3. acked.seq < sent[1].seq
        BY <1>4, <4>2, Reckoned
      <4>4. Len(sent) >= History
        BY <4>1, Reckoned
      <4>. QED BY <2>1, <4>3, <4>4 DEF BaselineIsStale
    <3>3. nextSeq <= ChaosUntil + History
      BY <3>1
    <3>. QED BY <3>2, <3>3, Reckoned DEF Calm
  <2>3. Fresh' /\ lastSent'.seq = nextSeq' - 1
    <3>1. ChaosUntil <= nextSeq
      BY <2>2, Reckoned
    <3>. QED BY <2>1, <2>2, <3>1, FreshSent DEF Untouched
  <2>4. /\ nextSeq' = nextSeq + 1 /\ ~needsFull'
        /\ Planned(cur, nextSeq) \in Packet /\ Planned(cur, nextSeq).seq = nextSeq
        /\ down' = Append(down, Planned(cur, nextSeq))
        /\ UNCHANGED <<up, received, newest>>
    BY RoundSent DEF Base, client
  <2>5. acked' = acked
    BY <2>1 DEF SendRound, Plan
  <2>6. down' # <<>> /\ Len(down') = 1 /\ DOMAIN down' = 1..1 /\ down'[Len(down')].seq = nextSeq
    BY <2>4
  <2>7. nextSeq' <= ChaosUntil + History /\ nextSeq' - 1 = nextSeq /\ nextSeq' - 2 = newest
    <3>1. nextSeq' = nextSeq + 1
      BY <2>4
    <3>2. \A n, c, h, m \in Int :
            n < c + h /\ m = n - 1 => n + 1 <= c + h /\ (n + 1) - 1 = n /\ (n + 1) - 2 = m
      OBVIOUS
    <3>3. nextSeq \in Int /\ ChaosUntil \in Int /\ History \in Int /\ newest \in Int
      BY Reckoned
    <3>. QED BY <1>1, <2>2, <3>1, <3>2, <3>3
  <2>8. OnItsWay'
    BY <1>4, <2>4, <2>5, <2>6, <2>7 DEF OnItsWay
  <2>9. NoGap'
    BY <2>4 DEF Untouched, NoGap
  <2>. QED BY <2>3, <2>4, <2>6, <2>7, <2>8, <2>9 DEF Untouched
<1>. QED BY <1>1, <1>2, <1>3, <1>4 DEF Arrived

\* The last round before the link behaves.
LEMMA CalmBegins ==
  ASSUME Base, TypeOK', ~Calm, Calm', Next
  PROVE  Untouched' \/ Asleep' \/ Waking'
<1>1. nextSeq' # nextSeq
  BY DEF Calm
<1>2. (\E cur \in Worlds : SendRound(cur)) \/ SkipRound
  BY <1>1 DEF Next, ReceiveAck, LoseAck, Apply, ApplyHead, LosePacket, SendAck, DropMirror, server,
              SetPolicy, RequestFullBaseline, NewSubscriber
<1>3. nextSeq' = nextSeq + 1
  BY <1>2 DEF SendRound, SkipRound
<1>4. nextSeq = ChaosUntil /\ nextSeq' = ChaosUntil + 1
  BY <1>3, Reckoned DEF Calm
<1>5. ASSUME NEW cur \in Worlds, SendRound(cur), ~Stalled PROVE Untouched'
  <2>1. /\ ~needsFull' /\ (acked' = NoBaseline \/ acked' = acked)
        /\ Planned(cur, nextSeq) \in Packet /\ Planned(cur, nextSeq).seq = nextSeq
        /\ down' = Append(down, Planned(cur, nextSeq))
        /\ UNCHANGED <<up, received, newest>>
    BY <1>5, RoundSent DEF Base, client
  <2>2. Fresh' /\ lastSent'.seq = nextSeq' - 1
    BY <1>4, <1>5, FreshSent
  <2>3. down \in Seq(Packet)
    BY DEF Base, TypeOK
  <2>4. /\ DOMAIN down' = 1..(Len(down) + 1) /\ Len(down') = Len(down) + 1 /\ down' # <<>>
        /\ \A i \in 1..Len(down) : down'[i] = down[i]
        /\ down'[Len(down')].seq = nextSeq
    BY <2>1, <2>3, PacketQueued
  <2>5. OnItsWay'
    <3>1. \A i \in DOMAIN down' : i < Len(down') => down'[i].seq < ChaosUntil
      <4>. SUFFICES ASSUME NEW i \in 1..(Len(down) + 1), i < Len(down) + 1 PROVE down'[i].seq < ChaosUntil
        BY <2>4
      <4>1. i \in DOMAIN down /\ down'[i] = down[i]
        BY <2>4, Measured
      <4>. QED BY <1>4, <4>1 DEF Base, Numbered
    <3>2. newest' < ChaosUntil /\ \A ack \in up' : ack.newest < ChaosUntil
      BY <1>4, <2>1 DEF Base, Numbered
    <3>3. acked'.seq < ChaosUntil
      BY <1>4, <2>1, Reckoned DEF NoBaseline, NoSeq
    <3>4. nextSeq' - 1 = nextSeq
      BY <1>3, Reckoned
    <3>. QED BY <1>4, <2>4, <3>1, <3>2, <3>3, <3>4 DEF OnItsWay
  <2>6. NoGap'
    <3>1. \A s \in received' : s \in Nat /\ s < ChaosUntil
      <4>1. \A s \in received : s \in Nat /\ s <= newest
        BY DEF Base, Numbered, TypeOK
      <4>. QED BY <1>4, <2>1, <4>1, Reckoned
    <3>. QED BY <3>1, Reckoned DEF NoGap
  <2>7. nextSeq' <= ChaosUntil + History
    BY <1>4, Reckoned
  <2>. QED BY <2>1, <2>2, <2>4, <2>5, <2>6, <2>7 DEF Untouched
<1>6. ASSUME NEW cur \in Worlds, SendRound(cur), Stalled PROVE Waking'
  <2>1. /\ down' = Append(down, Planned(cur, nextSeq)) /\ Planned(cur, nextSeq) \in Packet
        /\ lastAck' = lastAck
    BY <1>6, RoundSent DEF Base, Stalled
  <2>2. down' # <<>>
    BY <2>1 DEF Base, TypeOK
  <2>3. Stalled'
    BY <1>3, <1>6, <2>1, Reckoned DEF Stalled
  <2>4. nextSeq' <= ChaosUntil + KeepaliveEvery
    BY <1>4, Reckoned
  <2>. QED BY <2>2, <2>3, <2>4 DEF Waking
<1>7. CASE SkipRound
  <2>1. Stalled /\ ~KeepaliveDue /\ lastAck' = lastAck /\ lastKeepalive' = lastKeepalive
    BY <1>7 DEF SkipRound
  <2>2. Stalled'
    BY <1>3, <2>1, Reckoned DEF Stalled
  <2>3. lastKeepalive < ChaosUntil
    <3>1. lastKeepalive = 0 \/ lastKeepalive < nextSeq
      BY DEF Base, Numbered
    <3>2. nextSeq > 0
      BY <2>1, Reckoned DEF Stalled, Never
    <3>. QED BY <1>4, <3>1, <3>2, Reckoned
  <2>4. nextSeq' <= lastKeepalive + KeepaliveEvery
    BY <1>3, <2>1, Reckoned DEF KeepaliveDue
  <2>. QED BY <2>1, <2>2, <2>3, <2>4 DEF Asleep
<1>. QED BY <1>2, <1>5, <1>6, <1>7

\* While the link behaves a report is applied, heard, or nothing is under way and
\* a round goes by.
LEMMA ReportUnderWay ==
  ASSUME ApplyAndAck
  PROVE  up' # {} /\ down # <<>> /\ UNCHANGED <<nextSeq, lastSent, needsFull, lastAck, lastKeepalive>>
BY DEF ApplyAndAck, ApplyHead, server

LEMMA AsleepStep ==
  ASSUME Enough, Base, Calm, Asleep, Quiet
  PROVE  Asleep' \/ Waking' \/ Renewing'
<1>1. CASE ApplyAndAck
  <2>1. Asleep'
    BY <1>1, ReportUnderWay DEF Asleep, Stalled
  <2>. QED BY <2>1
<1>2. ASSUME NEW ack \in up, ReceiveAck(ack) PROVE Renewing'
  <2>1. nextSeq <= ChaosUntil + KeepaliveEvery
    BY Reckoned DEF Asleep
  <2>. QED BY <1>2, <2>1, Resumed DEF Asleep
<1>3. ASSUME NEW cur \in Worlds, SendRound(cur) PROVE Waking'
  <2>1. /\ down' = Append(down, Planned(cur, nextSeq)) /\ Planned(cur, nextSeq) \in Packet
        /\ lastAck' = lastAck /\ nextSeq' = nextSeq + 1
    BY <1>3, RoundSent DEF Base, Asleep, Stalled
  <2>2. down' # <<>>
    BY <2>1 DEF Base, TypeOK
  <2>3. Stalled'
    BY <2>1, Reckoned DEF Asleep, Stalled
  <2>4. nextSeq' <= ChaosUntil + KeepaliveEvery
    BY <2>1, Reckoned DEF Asleep
  <2>. QED BY <2>2, <2>3, <2>4 DEF Waking
<1>4. CASE SkipRound
  <2>1. nextSeq' = nextSeq + 1 /\ ~KeepaliveDue /\ lastAck' = lastAck /\ lastKeepalive' = lastKeepalive
    BY <1>4 DEF SkipRound
  <2>2. Stalled'
    BY <2>1, Reckoned DEF Asleep, Stalled
  <2>3. nextSeq' <= lastKeepalive + KeepaliveEvery
    BY <2>1, Reckoned DEF KeepaliveDue
  <2>. QED BY <2>1, <2>2, <2>3 DEF Asleep
<1>. QED BY <1>1, <1>2, <1>3, <1>4 DEF Quiet

LEMMA WakingStep ==
  ASSUME Enough, Base, Calm, Waking, Quiet
  PROVE  Waking' \/ Renewing'
<1>1. CASE ApplyAndAck
  BY <1>1, ReportUnderWay DEF Waking, Stalled
<1>2. ASSUME NEW ack \in up, ReceiveAck(ack) PROVE Renewing'
  BY <1>2, Resumed DEF Waking
<1>. QED BY <1>1, <1>2 DEF Quiet, Waking

LEMMA RenewingStep ==
  ASSUME Enough, Base, Calm, Renewing, Quiet
  PROVE  Renewing' \/ Repaired'
<1>1. ~Stalled
  BY HeardLive, Reckoned DEF Renewing
<1>2. CASE ApplyAndAck
  BY <1>2, ReportUnderWay DEF Renewing
<1>3. ASSUME NEW ack \in up, ReceiveAck(ack) PROVE Renewing'
  <2>1. FoldAck(ack) /\ lastAck' = nextSeq /\ nextSeq' = nextSeq
    BY <1>1, <1>3, FoldKeeps DEF Base, ReceiveAck
  <2>2. needsFull'
    BY <2>1 DEF FoldAck, Renewing
  <2>. QED BY <2>1, <2>2 DEF Renewing
<1>4. ASSUME NEW cur \in Worlds, SendRound(cur), down = <<>> PROVE Repaired'
  BY <1>4, RoundRepairs DEF Renewing, FullBaseline, Rebuild
<1>5. ~SkipRound
  BY <1>1 DEF SkipRound
<1>. QED BY <1>2, <1>3, <1>4, <1>5 DEF Quiet

LEMMA RepairedStep ==
  ASSUME Enough, Base, Calm, Repaired, Quiet
  PROVE  Repaired'
<1>1. ~Stalled
  BY HeardLive DEF Repaired
<1>2. CASE ApplyAndAck
  <2>1. /\ held' = Applied(held, down[1]) /\ down' \in Seq(Packet) /\ Len(down') = Len(down) - 1
        /\ down # <<>>
    BY <1>2, HeadApplied, ReportUnderWay DEF Base, ApplyAndAck
  <2>2. Len(down) = 1 /\ held' = lastSent.state
    BY <2>1 DEF Repaired
  <2>3. down' = <<>>
    BY <2>1, <2>2
  <2>. QED BY <1>2, <2>2, <2>3, ReportUnderWay DEF Repaired
<1>3. ASSUME NEW ack \in up, ReceiveAck(ack) PROVE Repaired'
  <2>1. lastSent' = lastSent /\ lastAck' = nextSeq /\ UNCHANGED <<nextSeq, down, held>>
    BY <1>1, <1>3, FoldKeeps DEF Base, ReceiveAck, client
  <2>2. nextSeq' - 1 <= lastAck'
    BY <2>1, Reckoned
  <2>. QED BY <2>1, <2>2 DEF Repaired, Applied, Insert
<1>4. ASSUME NEW cur \in Worlds, SendRound(cur), down = <<>>, up = {} PROVE Repaired'
  <2>1. held = lastSent.state /\ lastAck = nextSeq
    BY <1>4 DEF Repaired
  <2>. QED BY <1>4, <2>1, RoundRepairs
<1>5. ~SkipRound
  BY <1>1 DEF SkipRound
<1>. QED BY <1>2, <1>3, <1>4, <1>5 DEF Quiet

LEMMA UntouchedStep ==
  ASSUME Enough, Base, TypeOK', Calm, Untouched, Quiet
  PROVE  Untouched' \/ Renewing' \/ Repaired'
<1>1. CASE ApplyAndAck
  BY <1>1, UntouchedApply
<1>2. ASSUME NEW ack \in up, ReceiveAck(ack) PROVE Untouched' \/ Renewing'
  BY <1>2, UntouchedAck
<1>3. ASSUME NEW cur \in Worlds, SendRound(cur), down = <<>>, up = {} PROVE Untouched' \/ Repaired'
  BY <1>3, UntouchedSend
<1>4. ASSUME SkipRound, down = <<>>, up = {} PROVE FALSE
  <2>1. lastAck = nextSeq
    BY <1>4 DEF Untouched, Arrived
  <2>2. ~Stalled
    BY <2>1, HeardLive, Reckoned
  <2>. QED BY <1>4, <2>2 DEF SkipRound
<1>. QED BY <1>1, <1>2, <1>3, <1>4 DEF Quiet

LEMMA PhaseStep ==
  ASSUME Enough, RepairInv, TypeOK', [RepairNext]_vars, Calm', policy' = Recovery
  PROVE  Phases'
<1>. USE DEF RepairInv, Base
<1>0. policy = Recovery
  <2>1. CASE ~Calm /\ Next
    BY <2>1 DEF Calm, Next, SendRound, SkipRound, SetPolicy, RequestFullBaseline, ReceiveAck, LoseAck,
                Apply, ApplyHead, LosePacket, SendAck, DropMirror, NewSubscriber, server
  <2>2. CASE Calm /\ Quiet
    BY <2>2 DEF Quiet, SendRound, SkipRound, ReceiveAck, ApplyAndAck, ApplyHead, server
  <2>3. CASE UNCHANGED vars
    BY <2>3 DEF vars, server
  <2>. QED BY <2>1, <2>2, <2>3 DEF RepairNext
<1>1. CASE ~Calm /\ Next
  BY <1>0, <1>1, CalmBegins DEF Phases
<1>2. CASE Calm /\ Quiet
  BY <1>0, <1>2, UntouchedStep, AsleepStep, WakingStep, RenewingStep, RepairedStep DEF Phases
<1>3. CASE UNCHANGED vars
  <2>1. Calm
    BY <1>3 DEF Calm, vars, server
  <2>. QED
    BY <1>0, <1>3, <2>1 DEF Phases, Untouched, Fresh, NoGap, OnItsWay, Arrived, Current, Asleep, Waking,
                      Renewing, Repaired, Stalled, Applied, Insert, vars, server, client
<1>. QED BY <1>1, <1>2, <1>3 DEF RepairNext

LEMMA RepairStep ==
  ASSUME Enough, RepairInv, [RepairNext]_vars
  PROVE  RepairInv'
<1>1. TypeOK'
  BY RepairTyped DEF RepairInv
<1>2. Numbered' /\ Remembered'
  BY <1>1, NumberedStep, RememberedStep DEF RepairInv
<1>3. Calm' /\ policy' = Recovery => Phases'
  BY <1>1, PhaseStep
<1>. QED BY <1>1, <1>2, <1>3 DEF RepairInv

\* Every way has come to its end by the last round.
LEMMA RepairEnds ==
  ASSUME Enough, RepairInv
  PROVE  RepairedInTime
<1>. SUFFICES ASSUME policy = Recovery, nextSeq = MaxSeq, down = <<>>, up = {}
              PROVE  held = lastSent.state
  BY DEF RepairedInTime, Recovering
<1>1. Phases
  BY Reckoned DEF RepairInv, Calm, Base
<1>2. ~Untouched /\ ~Asleep /\ ~Waking /\ ~Renewing
  BY Reckoned DEF Enough, RepairInv, Base, Untouched, Asleep, Waking, Renewing
<1>3. Repaired
  BY <1>1, <1>2 DEF Phases
<1>. QED BY <1>3 DEF Repaired

\* Once the link has behaved for one round more than the history is long, and one
\* more than a stalled subscriber waits for its keepalive, the mirror of whoever is
\* on the acknowledged policy holds exactly the last set sent, whatever DeltaStream
\* allows went before: for every history length, window width, keepalive and number
\* of rounds (delta.rs plan, observe_ack,
\* baseline_is_stale, should_send).
THEOREM RepairBounded == ASSUME Enough PROVE RepairSpec => []RepairedInTime
<1>1. Init => RepairInv
  BY RepairInit
<1>2. RepairInv /\ [RepairNext]_vars => RepairInv'
  BY RepairStep
<1>3. RepairInv => RepairedInTime
  BY RepairEnds
<1>. QED BY <1>1, <1>2, <1>3, PTL DEF RepairSpec
=============================================================================
