--------------------------- MODULE RollbackProofs ---------------------------
(***************************************************************************)
(* For any number of peers, any inputs, any deterministic step and any     *)
(* rule of prediction: peers whose inputs come within the horizon hold the *)
(* same world of every frame they have all inputs for, and they go back    *)
(* only to a frame they got wrong.                                         *)
(***************************************************************************)
EXTENDS Rollback, SequenceTheorems, WellFoundedInduction, TLAPS

-----------------------------------------------------------------------------
(* The largest of a set of numbers.                                        *)

LEMMA LeastExists ==
  ASSUME NEW I \in SUBSET Nat, I # {}
  PROVE  \E i \in I : \A j \in I : i <= j
  <1>1. IsWellFoundedOn(OpToRel(<, Nat), Nat)
    BY NatLessThanWellFounded
  <1>2. \E i \in I : \A j \in I : ~(<<j, i>> \in OpToRel(<, Nat))
    BY <1>1, WFMin, Zenon
  <1>3. PICK i \in I : \A j \in I : ~(<<j, i>> \in OpToRel(<, Nat))
    BY <1>2
  <1>4. \A j \in I : ~(j < i)
    BY <1>3, Zenon DEF OpToRel
  <1>5. \A j \in I : i <= j
    BY <1>4
  <1>. QED BY <1>5

LEMMA GreatestExists ==
  ASSUME NEW f \in Nat, NEW I \in SUBSET (0..f), I # {}
  PROVE  \E i \in I : \A j \in I : j <= i
  <1>. DEFINE J == {f - i : i \in I}
  <1>1. J \in SUBSET Nat /\ J # {}
    <2>1. \A i \in I : f - i \in Nat
      OBVIOUS
    <2>2. PICK i \in I : TRUE
      OBVIOUS
    <2>. QED BY <2>1, <2>2
  <1>2. PICK j \in J : \A k \in J : j <= k
    BY <1>1, LeastExists
  <1>3. PICK i \in I : j = f - i
    BY <1>2
  <1>4. ASSUME NEW k \in I PROVE k <= i
    <2>1. f - k \in J
      OBVIOUS
    <2>2. j <= f - k
      BY <1>2, <2>1
    <2>. QED BY <1>3, <2>2
  <1>. QED BY <1>4

-----------------------------------------------------------------------------
(* Types, and where a peer is in its game.                                 *)

TimelinesOK == \A p, q \in Peers : timelines[p][q] \in Timeline

LEMMA Numbers ==
  /\ Horizon \in Nat /\ Horizon >= 1 /\ Reach \in Nat /\ Reach >= 1 /\ Lead \in Nat
  /\ MaxFrame \in Nat /\ MaxFrame >= 1 /\ Frames = 1..MaxFrame /\ Never = 0
  BY RollbackAssumption DEF Frames, Never

LEMMA KnownTyped ==
  ASSUME NEW t \in Timeline, NEW f \in DOMAIN t.known
  PROVE  f \in Frames /\ t.known[f] \in Inputs
  <1>1. t.known \in PartOf(Frames, Inputs)
    BY DEF Timeline
  <1>2. PICK S \in SUBSET Frames : t.known \in [S -> Inputs]
    BY <1>1 DEF PartOf
  <1>. QED BY <1>2

LEMMA BasisKnown ==
  ASSUME NEW t \in Timeline, NEW f \in Frames, Basis(t, f) # Never
  PROVE  Basis(t, f) \in DOMAIN t.known
  <1>. DEFINE before == {g \in DOMAIN t.known : g <= f}
  <1>1. before \in SUBSET (0..f)
    <2>1. \A g \in DOMAIN t.known : g \in Frames
      BY KnownTyped
    <2>. QED BY <2>1, Numbers
  <1>2. before # {}
    BY DEF Basis
  <1>3. \E g \in before : \A h \in before : h <= g
    <2>1. f \in Nat
      BY Numbers
    <2>. HIDE DEF before
    <2>. QED BY <1>1, <1>2, <2>1, GreatestExists
  <1>. QED BY <1>2, <1>3 DEF Basis

LEMMA ConfirmedTyped ==
  ASSUME NEW t \in Timeline, NEW f \in Frames, NEW i \in Inputs
  PROVE  Confirmed(t, f, i) \in Timeline
  <1>. DEFINE from == IF t.last = Never THEN f ELSE t.from
              last == Higher(t.last, f)
              first == Higher(from, last - Horizon + 1)
              frames == {g \in DOMAIN t.known \cup {f} : g >= first}
              known == [g \in frames |-> IF g = f THEN i ELSE t.known[g]]
  <1>1. t.from \in Frames /\ t.last \in 0..MaxFrame /\ DOMAIN t.known \subseteq Frames
    BY KnownTyped DEF Timeline
  <1>2. first \in Frames /\ last \in 0..MaxFrame
    <2>1. last \in 1..MaxFrame /\ from \in 1..MaxFrame
      BY <1>1, Numbers DEF Higher
    <2>. HIDE DEF last, from
    <2>. QED BY <2>1, Numbers DEF Higher
  <1>3. frames \in SUBSET Frames
    BY <1>1
  <1>4. known \in [frames -> Inputs]
    <2>1. \A g \in frames : (IF g = f THEN i ELSE t.known[g]) \in Inputs
      BY KnownTyped
    <2>. QED BY <2>1
  <1>5. known \in PartOf(Frames, Inputs)
    BY <1>3, <1>4 DEF PartOf
  <1>6. [from |-> first, last |-> last, known |-> known] \in Timeline
    BY <1>2, <1>5 DEF Timeline
  <1>. QED BY <1>6 DEF Confirmed

LEMMA InputTyped ==
  ASSUME TimelinesOK, NEW p \in Peers, NEW q \in Peers, NEW f \in Frames
  PROVE  InputFor(p, q, f) \in Inputs
  <1>. DEFINE t == timelines[p][q]
  <1>1. t \in Timeline
    BY DEF TimelinesOK
  <1>2. CASE f \in DOMAIN t.known
    BY <1>1, <1>2, KnownTyped DEF InputFor
  <1>3. CASE f \notin DOMAIN t.known
    <2>1. Basis(t, f) # Never => t.known[Basis(t, f)] \in Inputs
      BY <1>1, BasisKnown, KnownTyped
    <2>2. Neutral[q] \in Inputs
      BY RollbackAssumption DEF Vectors
    <2>. QED BY <1>3, <2>1, <2>2, RollbackAssumption DEF InputFor
  <1>. QED BY <1>2, <1>3

\* The frames a peer at head h retains.
Retained(h) == {f \in 1..h - 1 : f >= h - Horizon}

\* How far each peer is.
PeerClock(p) ==
  /\ Len(made[p]) \in {head[p] - 1, head[p]} /\ Len(made[p]) <= MaxFrame
  /\ at[p] <= head[p]
  /\ running[p] => Len(made[p]) = head[p] /\ earliest[p] = Never
  /\ ~running[p] => at[p] = head[p]
  /\ DOMAIN saved[p] = Retained(head[p])
  /\ at[p] \in DOMAIN saved[p] \cup {head[p]}
  /\ earliest[p] # Never => earliest[p] \in DOMAIN saved[p]

Clock == Len(truth) >= 1 /\ \A p \in Peers : PeerClock(p)

\* What a save of e at f leaves of a history, to the head n.
SavedTo(history, f, e, n) ==
  /\ DOMAIN Save(history, f, e) = Retained(n)
  /\ Save(history, f, e) \in [DOMAIN Save(history, f, e) -> Entry]
  /\ Save(history, f, e)[f] = e
  /\ \A g \in Retained(n) : g # f => g \in DOMAIN history /\ Save(history, f, e)[g] = history[g]

LEMMA SaveShape ==
  ASSUME NEW h \in 1..MaxFrame, NEW history, history \in [DOMAIN history -> Entry],
         DOMAIN history = Retained(h), NEW f \in DOMAIN history \cup {h}, NEW e \in Entry
  PROVE  SavedTo(history, f, e, IF f = h THEN h + 1 ELSE h)
  <1>. DEFINE next == IF f = h THEN h + 1 ELSE h
              kept == IF Extends(history, f) THEN {g \in DOMAIN history : g > f - Horizon} ELSE {}
  <1>0. Horizon \in Nat /\ Horizon >= 1 /\ h \in Nat /\ h >= 1 /\ f \in Int
    BY RollbackAssumption DEF Retained
  <1>1. kept \cup {f} = Retained(next)
    <2>1. CASE f = h
      <3>1. CASE h = 1
        BY <1>0, <2>1, <3>1 DEF Retained
      <3>2. CASE h > 1
        <4>1. f - 1 \in DOMAIN history
          BY <1>0, <2>1, <3>2 DEF Retained
        <4>2. Extends(history, f)
          BY <4>1 DEF Extends
        <4>. QED BY <1>0, <2>1, <4>2 DEF Retained
      <3>. QED BY <1>0, <3>1, <3>2
    <2>2. CASE f # h
      <3>1. f \in DOMAIN history
        BY <2>2
      <3>2. Extends(history, f)
        BY <3>1 DEF Extends
      <3>. QED BY <1>0, <2>2, <3>1, <3>2 DEF Retained
    <2>. QED BY <2>1, <2>2
  <1>2. Save(history, f, e) = [g \in kept \cup {f} |-> IF g = f THEN e ELSE history[g]]
    BY DEF Save
  <1>3. kept \subseteq DOMAIN history
    OBVIOUS
  <1>. HIDE DEF kept
  <1>4. \A g \in kept \cup {f} : (IF g = f THEN e ELSE history[g]) \in Entry
    BY <1>3
  <1>5. DOMAIN Save(history, f, e) = kept \cup {f}
    BY <1>2
  <1>6. \A g \in kept \cup {f} : Save(history, f, e)[g] = IF g = f THEN e ELSE history[g]
    BY <1>2
  <1>7. Save(history, f, e) \in [kept \cup {f} -> Entry]
    BY <1>2, <1>4
  <1>. QED BY <1>1, <1>3, <1>5, <1>6, <1>7 DEF SavedTo

Base == TypeOK /\ Clock

LEMMA TypeFacts ==
  ASSUME TypeOK
  PROVE  /\ TimelinesOK
         /\ \A p \in Peers : head[p] \in Nat /\ head[p] >= 1 /\ head[p] <= MaxFrame + 1
         /\ \A p \in Peers : at[p] \in Nat /\ at[p] >= 1
         /\ \A p \in Peers : earliest[p] \in Nat /\ made[p] \in Seq(Inputs) /\ Len(made[p]) \in Nat
         /\ \A p \in Peers : saved[p] \in [DOMAIN saved[p] -> Entry]
  BY Numbers DEF TypeOK, TimelinesOK

LEMMA HearTyped ==
  ASSUME TypeOK, NEW p \in Peers, NEW q \in Peers, NEW f \in Frames, NEW i \in Inputs,
         Hear(p, q, f, i)
  PROVE  /\ heard' \in [Peers -> [Peers -> SUBSET Frames]]
         /\ timelines' \in [Peers -> [Peers -> Timeline]]
  <1>1. Confirmed(timelines[p][q], f, i) \in Timeline
    BY ConfirmedTyped DEF TypeOK
  <1>2. heard[p][q] \cup {f} \in SUBSET Frames
    BY DEF TypeOK
  <1>. QED BY <1>1, <1>2 DEF Hear, TypeOK

LEMMA BaseInit == Init => Base
  <1>. SUFFICES ASSUME Init PROVE Base
    OBVIOUS
  <1>1. \A S : <<>> \in Seq(S) /\ Len(<<>>) = 0
    BY EmptySeq
  <1>2. <<>> \in PartOf(Frames, Inputs)
    <2>1. <<>> \in [{} -> Inputs] /\ {} \in SUBSET Frames
      OBVIOUS
    <2>. QED BY <2>1 DEF PartOf
  <1>3. NoInputs \in Timeline
    BY <1>2, Numbers DEF NoInputs, Timeline
  <1>4. truth \in Seq(Worlds)
    BY RollbackAssumption DEF Init
  <1>5. made \in [Peers -> Seq(Inputs)]
    BY <1>1 DEF Init
  <1>6. \A p \in Peers : DOMAIN saved[p] = {} /\ saved[p] \in [{} -> Entry]
    <2>1. DOMAIN <<>> = {} /\ <<>> \in [{} -> Entry]
      OBVIOUS
    <2>2. \A p \in Peers : saved[p] = <<>>
      BY DEF Init
    <2>. QED BY <2>1, <2>2
  <1>7. world \in [Peers -> Worlds]
    BY RollbackAssumption DEF Init
  <1>8. TypeOK
    BY <1>3, <1>4, <1>5, <1>6, <1>7, Numbers DEF Init, TypeOK
  <1>9. Clock
    BY <1>1, <1>6, Numbers DEF Init, Clock, PeerClock, Retained
  <1>. QED BY <1>8, <1>9 DEF Base

LEMMA QueueBase ==
  ASSUME Base, NEW p \in Peers, NEW i \in Inputs, Queue(p, i)
  PROVE  Base'
  <1>1. head[p] \in Frames
    BY TypeFacts, Numbers DEF Base, Queue
  <1>2. made' \in [Peers -> Seq(Inputs)]
    BY DEF Base, TypeOK, Queue
  <1>3. truth' \in Seq(Worlds) /\ Len(truth') >= 1
    <2>. DEFINE f == Len(truth)
                v == [q \in Peers |-> made'[q][f]]
    <2>0. f \in Nat /\ f >= 1 /\ truth \in Seq(Worlds)
      BY DEF Base, TypeOK, Clock
    <2>1. CASE Together(made', f)
      <3>1. \A q \in Peers : made'[q][f] \in Inputs
        BY <1>2, <2>0, <2>1, ElementOfSeq DEF Together
      <3>2. v \in Vectors
        BY <3>1 DEF Vectors
      <3>3. truth[f] \in Worlds
        BY <2>0, ElementOfSeq
      <3>4. Step(truth[f], v) \in Worlds
        BY <3>2, <3>3, RollbackAssumption
      <3>5. truth' = Append(truth, Step(truth[f], v))
        BY <2>1 DEF Queue
      <3>. HIDE DEF v
      <3>. QED BY <2>0, <3>4, <3>5
    <2>2. CASE ~Together(made', f)
      BY <2>0, <2>2 DEF Queue
    <2>. QED BY <2>1, <2>2
  <1>4. Hear(p, p, head[p], i)
    BY DEF Queue
  <1>5. TypeOK'
    BY <1>1, <1>2, <1>3, <1>4, HearTyped DEF Base, TypeOK, Queue
  <1>6. \A r \in Peers : PeerClock(r)'
    <2>1. Len(made'[p]) = head[p] /\ \A r \in Peers : r # p => made'[r] = made[r]
      BY TypeFacts DEF Base, TypeOK, Queue
    <2>2. \A r \in Peers : PeerClock(r)
      BY DEF Base, Clock
    <2>3. ~running[p] /\ head[p] <= MaxFrame /\ UNCHANGED <<saved, world, head, at, running, earliest>>
      BY DEF Queue
    <2>. QED BY <2>1, <2>2, <2>3 DEF PeerClock
  <1>. QED BY <1>3, <1>5, <1>6 DEF Base, Clock

LEMMA DeliverBase ==
  ASSUME Base, NEW p \in Peers, NEW q \in Peers, NEW f, Deliver(p, q, f)
  PROVE  Base'
  <1>1. f \in Frames /\ made[q][f] \in Inputs
    <2>1. Len(made[q]) <= MaxFrame /\ made[q] \in Seq(Inputs)
      BY DEF Base, Clock, PeerClock, TypeOK
    <2>2. f \in 1..Len(made[q])
      BY DEF Deliver
    <2>. QED BY <2>1, <2>2, Numbers, ElementOfSeq
  <1>2. Hear(p, q, f, made[q][f])
    BY DEF Deliver
  <1>3. /\ earliest' \in [Peers -> 0..MaxFrame]
        /\ \A r \in Peers : r # p => earliest'[r] = earliest[r]
        /\ earliest'[p] # earliest[p] => earliest'[p] = f /\ f \in DOMAIN saved[p]
    <2>0. earliest \in [Peers -> 0..MaxFrame] /\ f \in 0..MaxFrame
      BY <1>1, Numbers DEF Base, TypeOK
    <2>1. CASE Disproved(p, q, f, made[q][f])
      <3>1. earliest' = [earliest EXCEPT ![p] =
                           IF @ = Never THEN f ELSE IF f < @ THEN f ELSE @]
        BY <2>1 DEF Deliver
      <3>2. f \in DOMAIN saved[p]
        BY <2>1 DEF Disproved
      <3>. QED BY <2>0, <3>1, <3>2
    <2>2. CASE ~Disproved(p, q, f, made[q][f])
      BY <2>0, <2>2 DEF Deliver
    <2>. QED BY <2>1, <2>2
  <1>4. TypeOK'
    BY <1>1, <1>2, <1>3, HearTyped DEF Base, TypeOK, Deliver
  <1>5. \A r \in Peers : PeerClock(r)'
    <2>1. \A r \in Peers : PeerClock(r)
      BY DEF Base, Clock
    <2>2. ~running[p] /\ UNCHANGED <<made, truth, saved, world, head, at, running>>
      BY DEF Deliver
    <2>. QED BY <1>3, <2>1, <2>2 DEF PeerClock
  <1>6. Len(truth') >= 1
    BY DEF Deliver, Base, Clock
  <1>. QED BY <1>4, <1>5, <1>6 DEF Base, Clock

LEMMA OldestIsLeast ==
  ASSUME Base, NEW p \in Peers, DOMAIN saved[p] # {}
  PROVE  Oldest(saved[p]) \in DOMAIN saved[p] /\ \A g \in DOMAIN saved[p] : Oldest(saved[p]) <= g
  <1>1. DOMAIN saved[p] \in SUBSET Nat
    BY DEF Base, Clock, PeerClock, Retained
  <1>2. \E f \in DOMAIN saved[p] : \A g \in DOMAIN saved[p] : f <= g
    BY <1>1, LeastExists
  <1>. QED BY <1>2 DEF Oldest

\* A peer resumes at its earliest wrong guess, or in the present.
LEMMA Resume ==
  ASSUME Base, NEW p \in Peers
  PROVE  /\ earliest[p] = Never => ResumeAt(p) = head[p]
         /\ earliest[p] # Never => ResumeAt(p) = earliest[p] /\ ResumeAt(p) \in DOMAIN saved[p]
                                   /\ ResumeAt(p) < head[p] /\ ResumeAt(p) >= 1
  <1>1. earliest[p] = Never => ResumeAt(p) = head[p]
    BY DEF ResumeAt
  <1>2. CASE earliest[p] # Never
    <2>1. earliest[p] \in DOMAIN saved[p] /\ DOMAIN saved[p] = Retained(head[p]) /\ earliest[p] < head[p]
      BY <1>2, TypeFacts DEF Base, Clock, PeerClock, Retained
    <2>2. saved[p] # <<>>
      BY <2>1
    <2>3. Oldest(saved[p]) <= earliest[p] /\ Oldest(saved[p]) \in DOMAIN saved[p]
      BY <2>1, OldestIsLeast
    <2>4. Oldest(saved[p]) \in Nat /\ earliest[p] \in Nat /\ earliest[p] >= 1 /\ head[p] \in Nat
      BY <2>1, <2>3, TypeFacts DEF Base, Retained
    <2>5. Higher(earliest[p], Oldest(saved[p])) = earliest[p]
      BY <2>3, <2>4 DEF Higher
    <2>6. ResumeAt(p) = earliest[p]
      BY <1>2, <2>1, <2>2, <2>4, <2>5 DEF ResumeAt
    <2>. QED BY <1>2, <2>1, <2>4, <2>6
  <1>. QED BY <1>1, <1>2

LEMMA EntryFields ==
  ASSUME Base, NEW p \in Peers, NEW f \in DOMAIN saved[p]
  PROVE  saved[p][f].world \in Worlds /\ saved[p][f].used \in Vectors
  BY TypeFacts DEF Base, Entry

LEMMA AdvanceBase ==
  ASSUME Base, NEW p \in Peers, Advance(p)
  PROVE  Base'
  <1>1. ResumeAt(p) \in DOMAIN saved[p] \cup {head[p]} /\ ResumeAt(p) \in 1..MaxFrame + 1
        /\ ResumeAt(p) <= head[p]
    BY Resume, TypeFacts, Numbers DEF Base, Clock, PeerClock
  <1>2. world' \in [Peers -> Worlds]
    <2>1. ResumeAt(p) < head[p] => saved[p][ResumeAt(p)].world \in Worlds
      BY <1>1, EntryFields, TypeFacts DEF Base
    <2>. QED BY <2>1 DEF Advance, Base, TypeOK
  <1>3. TypeOK'
    BY <1>1, <1>2, Numbers DEF Advance, Base, TypeOK
  <1>4. \A r \in Peers : PeerClock(r)'
    <2>1. \A r \in Peers : PeerClock(r)
      BY DEF Base, Clock
    <2>2. /\ \A r \in Peers : r # p => at'[r] = at[r] /\ running'[r] = running[r] /\ earliest'[r] = earliest[r]
          /\ at'[p] = ResumeAt(p) /\ running'[p] = TRUE /\ earliest'[p] = Never
      BY DEF Advance, Base, TypeOK
    <2>3. Len(made[p]) = head[p] /\ UNCHANGED <<made, saved, head>>
      BY DEF Advance
    <2>. QED BY <1>1, <2>1, <2>2, <2>3 DEF PeerClock
  <1>5. Len(truth') >= 1
    BY DEF Advance, Base, Clock
  <1>. QED BY <1>3, <1>4, <1>5 DEF Base, Clock

Fed(p) == [q \in Peers |-> InputFor(p, q, at[p])]
New(p) == [world |-> world[p], used |-> Fed(p)]

\* What one call of simulate_frame does.
LEMMA Simulated ==
  ASSUME Base, NEW p \in Peers, Simulate(p)
  PROVE  LET next == IF at[p] = head[p] THEN head[p] + 1 ELSE head[p]
         IN  /\ at[p] \in Frames /\ head[p] \in Frames /\ at[p] <= head[p] /\ Len(made[p]) = head[p]
             /\ Fed(p) \in Vectors /\ New(p) \in Entry
             /\ DOMAIN saved'[p] = Retained(next)
             /\ saved'[p] \in [DOMAIN saved'[p] -> Entry]
             /\ at[p] \in DOMAIN saved'[p] /\ saved'[p][at[p]] = New(p)
             /\ \A g \in DOMAIN saved'[p] :
                  g # at[p] => g \in DOMAIN saved[p] /\ saved'[p][g] = saved[p][g]
             /\ world'[p] = Step(world[p], Fed(p)) /\ world'[p] \in Worlds
             /\ at'[p] = at[p] + 1 /\ head'[p] = next /\ running'[p] = (at[p] # head[p])
             /\ \A r \in Peers : r # p => /\ saved'[r] = saved[r] /\ world'[r] = world[r]
                                          /\ at'[r] = at[r] /\ head'[r] = head[r]
                                          /\ running'[r] = running[r]
  <1>. DEFINE next == IF at[p] = head[p] THEN head[p] + 1 ELSE head[p]
  <1>0. PeerClock(p) /\ running[p]
    BY DEF Base, Clock, Simulate
  <1>1. at[p] \in Frames /\ head[p] \in 1..MaxFrame /\ at[p] <= head[p] /\ Len(made[p]) = head[p]
    BY <1>0, TypeFacts, Numbers DEF Base, PeerClock
  <1>2. Fed(p) \in Vectors
    <2>1. \A q \in Peers : InputFor(p, q, at[p]) \in Inputs
      BY <1>1, InputTyped, TypeFacts DEF Base
    <2>. QED BY <2>1 DEF Fed, Vectors
  <1>3. world[p] \in Worlds /\ New(p) \in Entry
    BY <1>2 DEF New, Entry, Base, TypeOK
  <1>4. saved'[p] = Save(saved[p], at[p], New(p)) /\ \A r \in Peers : r # p => saved'[r] = saved[r]
    BY DEF Simulate, New, Fed, Base, TypeOK
  <1>5. saved[p] \in [DOMAIN saved[p] -> Entry] /\ DOMAIN saved[p] = Retained(head[p])
        /\ at[p] \in DOMAIN saved[p] \cup {head[p]}
    BY <1>0, TypeFacts DEF Base, PeerClock
  <1>6. /\ DOMAIN Save(saved[p], at[p], New(p)) = Retained(next)
        /\ Save(saved[p], at[p], New(p)) \in [DOMAIN Save(saved[p], at[p], New(p)) -> Entry]
        /\ Save(saved[p], at[p], New(p))[at[p]] = New(p)
        /\ \A g \in Retained(next) : g # at[p] =>
             g \in DOMAIN saved[p] /\ Save(saved[p], at[p], New(p))[g] = saved[p][g]
    <2>. DEFINE h == head[p]
                history == saved[p]
                f == at[p]
                e == New(p)
    <2>1. h \in 1..MaxFrame /\ history \in [DOMAIN history -> Entry] /\ DOMAIN history = Retained(h)
          /\ f \in DOMAIN history \cup {h} /\ e \in Entry
      BY <1>1, <1>3, <1>5
    <2>. HIDE DEF h, history, f, e
    <2>2. SavedTo(history, f, e, IF f = h THEN h + 1 ELSE h)
      BY <2>1, SaveShape
    <2>. QED BY <2>2 DEF h, history, f, e, SavedTo
  <1>7. at[p] \in Retained(next)
    BY <1>1, <1>5, Numbers DEF Retained
  <1>8. Step(world[p], Fed(p)) \in Worlds
    BY <1>2, <1>3, RollbackAssumption
  <1>9. world'[p] = Step(world[p], Fed(p)) /\ \A r \in Peers : r # p => world'[r] = world[r]
    BY DEF Simulate, Fed, Base, TypeOK
  <1>10. /\ at'[p] = at[p] + 1 /\ head'[p] = next /\ running'[p] = (at[p] # head[p])
         /\ \A r \in Peers : r # p => at'[r] = at[r] /\ head'[r] = head[r] /\ running'[r] = running[r]
    BY DEF Simulate, Base, TypeOK
  <1>. QED BY <1>1, <1>2, <1>3, <1>4, <1>6, <1>7, <1>8, <1>9, <1>10, Numbers

LEMMA SimulateBase ==
  ASSUME Base, NEW p \in Peers, Simulate(p)
  PROVE  Base'
  <1>. DEFINE next == IF at[p] = head[p] THEN head[p] + 1 ELSE head[p]
  <1>1. next \in 1..MaxFrame + 1 /\ at[p] + 1 \in 1..MaxFrame + 1 /\ at[p] + 1 <= next
        /\ head'[p] = next /\ at'[p] = at[p] + 1
    BY Simulated, Numbers
  <1>2. at' \in [Peers -> 1..MaxFrame + 1] /\ head' \in [Peers -> 1..MaxFrame + 1]
        /\ running' \in [Peers -> BOOLEAN]
    <2>1. at' = [at EXCEPT ![p] = at[p] + 1] /\ head' = [head EXCEPT ![p] = next]
          /\ running' = [running EXCEPT ![p] = at[p] # head[p]]
      BY DEF Simulate, Base, TypeOK
    <2>. QED BY <1>1, <2>1 DEF Base, TypeOK
  <1>3. world' \in [Peers -> Worlds]
    <2>1. world' = [world EXCEPT ![p] = Step(world[p], Fed(p))]
      BY DEF Simulate, Fed, Base, TypeOK
    <2>. QED BY <2>1, Simulated DEF Base, TypeOK
  <1>4. saved' = [r \in Peers |-> saved'[r]]
    BY DEF Simulate, Base, TypeOK
  <1>5. \A r \in Peers : DOMAIN saved'[r] \subseteq Frames /\ saved'[r] \in [DOMAIN saved'[r] -> Entry]
    <2>1. Retained(next) \subseteq Frames
      BY <1>1, Numbers DEF Retained
    <2>2. DOMAIN saved'[p] = Retained(next) /\ saved'[p] \in [DOMAIN saved'[p] -> Entry]
          /\ \A r \in Peers : r # p => saved'[r] = saved[r]
      BY Simulated
    <2>. QED BY <2>1, <2>2 DEF Base, TypeOK
  <1>6. TypeOK'
    BY <1>2, <1>3, <1>4, <1>5 DEF Simulate, Base, TypeOK
  <1>7. \A r \in Peers : r # p => PeerClock(r)'
    <2>1. \A r \in Peers : PeerClock(r)
      BY DEF Base, Clock
    <2>2. UNCHANGED <<made, earliest>>
      BY DEF Simulate
    <2>. QED BY <2>1, <2>2, Simulated DEF PeerClock
  <1>8. PeerClock(p)'
    <2>1. earliest'[p] = Never /\ made'[p] = made[p] /\ Len(made[p]) = head[p] /\ Len(made[p]) <= MaxFrame
      BY DEF Base, Clock, PeerClock, Simulate
    <2>2. DOMAIN saved'[p] = Retained(next) /\ running'[p] = (at[p] # head[p])
          /\ at[p] \in Nat /\ head[p] \in Nat /\ at[p] <= head[p] /\ at[p] >= 1
      BY Simulated, Numbers
    <2>3. at[p] # head[p] => at[p] \in Retained(head[p])
      BY DEF Base, Clock, PeerClock, Simulate
    <2>4. at[p] + 1 \in Retained(next) \cup {next}
      BY <2>2, <2>3, Numbers DEF Retained
    <2>5. Len(made'[p]) \in {head'[p] - 1, head'[p]} /\ Len(made'[p]) <= MaxFrame
      BY <1>1, <2>1, <2>2
    <2>6. running'[p] => Len(made'[p]) = head'[p]
      BY <1>1, <2>1, <2>2
    <2>7. ~running'[p] => at'[p] = head'[p]
      BY <1>1, <2>2
    <2>8. at'[p] <= head'[p] /\ at'[p] \in DOMAIN saved'[p] \cup {head'[p]} /\ DOMAIN saved'[p] = Retained(head'[p])
      BY <1>1, <2>2, <2>4
    <2>. QED BY <2>1, <2>5, <2>6, <2>7, <2>8 DEF PeerClock
  <1>9. Len(truth') >= 1
    BY DEF Simulate, Base, Clock
  <1>. QED BY <1>6, <1>7, <1>8, <1>9 DEF Base, Clock

LEMMA BaseStep == Base /\ [Next]_vars => Base'
  <1>. SUFFICES ASSUME Base, [Next]_vars PROVE Base'
    OBVIOUS
  <1>1. ASSUME NEW p \in Peers, NEW i \in Inputs, Queue(p, i) PROVE Base'
    BY <1>1, QueueBase
  <1>2. ASSUME NEW p \in Peers, NEW q \in Peers, NEW f, Deliver(p, q, f) PROVE Base'
    BY <1>2, DeliverBase
  <1>3. ASSUME NEW p \in Peers, Advance(p) PROVE Base'
    BY <1>3, AdvanceBase
  <1>4. ASSUME NEW p \in Peers, Simulate(p) PROVE Base'
    BY <1>4, SimulateBase
  <1>5. CASE UNCHANGED vars
    BY <1>5 DEF vars, sessionVars, Base, TypeOK, Clock, PeerClock
  <1>. QED BY <1>1, <1>2, <1>3, <1>4, <1>5 DEF Next

\* The state is what the session's types say, and the history is the last frames
\* before the head, with no gap: its reset is never taken.
THEOREM TypeCorrect == Spec => []TypeOK
  <1>1. Base => TypeOK
    BY DEF Base
  <1>. QED BY <1>1, BaseInit, BaseStep, PTL DEF Spec

-----------------------------------------------------------------------------
(* What a peer has been told, when the window is wide enough.              *)

Sufficient == FirstKnown /\ Reach + Lead < Horizon

\* A timeline holds what was heard of inputs, back to the window's edge.
Told(t, told, inputs) ==
  /\ told \subseteq 1..Len(inputs)
  /\ DOMAIN t.known = {g \in told : g >= t.from}
  /\ \A g \in DOMAIN t.known : t.known[g] = inputs[g]
  /\ t.from = Higher(1, t.last - Horizon + 1)
  /\ t.last # Never => t.last \in told
  /\ \A g \in told : g <= t.last

LEMMA ToldMore ==
  ASSUME NEW t \in Timeline, NEW told, NEW inputs \in Seq(Inputs), Told(t, told, inputs),
         NEW i \in Inputs
  PROVE  Told(t, told, Append(inputs, i))
  <1>1. Len(Append(inputs, i)) = Len(inputs) + 1 /\ Len(inputs) \in Nat
        /\ \A g \in 1..Len(inputs) : Append(inputs, i)[g] = inputs[g]
    OBVIOUS
  <1>. HIDE DEF Told
  <1>2. told \subseteq 1..Len(inputs) /\ DOMAIN t.known \subseteq told
    BY DEF Told
  <1>3. told \subseteq 1..Len(Append(inputs, i))
    BY <1>1, <1>2
  <1>4. \A g \in DOMAIN t.known : t.known[g] = Append(inputs, i)[g]
    BY <1>1, <1>2 DEF Told
  <1>. QED BY <1>3, <1>4 DEF Told

LEMMA ConfirmedTold ==
  ASSUME NEW t \in Timeline, NEW told, NEW inputs \in Seq(Inputs), Told(t, told, inputs),
         NEW f \in Frames, f \in 1..Len(inputs), t.last = Never => f = 1
  PROVE  Told(Confirmed(t, f, inputs[f]), told \cup {f}, inputs)
  <1>. DEFINE from == IF t.last = Never THEN f ELSE t.from
              last == Higher(t.last, f)
              first == Higher(from, last - Horizon + 1)
              frames == {g \in DOMAIN t.known \cup {f} : g >= first}
              known == [g \in frames |-> IF g = f THEN inputs[f] ELSE t.known[g]]
              u == [from |-> first, last |-> last, known |-> known]
  <1>1. t.from \in Nat /\ t.last \in Nat /\ f \in Nat /\ f >= 1 /\ Len(inputs) \in Nat
    BY Numbers DEF Timeline
  <1>2. told \subseteq 1..Len(inputs) /\ DOMAIN t.known \subseteq told
    BY DEF Told
  <1>3. from = Higher(1, t.last - Horizon + 1) /\ from \in Nat
    BY <1>1, Numbers DEF Told, Higher
  <1>4. CASE f < from
    <2>1. Confirmed(t, f, inputs[f]) = t
      BY <1>4 DEF Confirmed
    <2>2. f <= t.last /\ t.last # Never /\ f < t.from
      BY <1>1, <1>3, <1>4, Numbers DEF Higher
    <2>3. DOMAIN t.known = {g \in told \cup {f} : g >= t.from}
      BY <1>1, <2>2 DEF Told
    <2>. QED BY <1>1, <1>2, <2>1, <2>2, <2>3 DEF Told
  <1>5. CASE ~(f < from)
    <2>1. Confirmed(t, f, inputs[f]) = u
      BY <1>5 DEF Confirmed
    <2>2. last \in Nat /\ last >= f /\ last >= t.last /\ last \in {t.last, f}
      BY <1>1 DEF Higher
    <2>3. first = Higher(1, last - Horizon + 1) /\ first >= from /\ first \in Nat
      BY <1>1, <1>3, <2>2, Numbers DEF Higher
    <2>4. DOMAIN known = frames /\ \A g \in frames : known[g] = IF g = f THEN inputs[f] ELSE t.known[g]
      OBVIOUS
    <2>5. frames = {g \in told \cup {f} : g >= first}
      <3>1. \A g \in told : g >= first => g \in DOMAIN t.known
        <4>1. t.last # Never => from = t.from
          OBVIOUS
        <4>2. \A g \in told : g \in Nat /\ g >= 1 /\ g <= t.last
          BY <1>1, <1>2 DEF Told
        <4>3. ASSUME NEW g \in told, g >= first PROVE g >= t.from
          BY <1>1, <1>3, <2>3, <4>1, <4>2, <4>3, Numbers
        <4>. QED BY <4>3 DEF Told
      <3>. HIDE DEF first
      <3>. QED BY <1>2, <3>1
    <2>6. \A g \in frames : known[g] = inputs[g]
      BY <2>4 DEF Told
    <2>. HIDE DEF first, last, known, frames
    <2>7. u.from = first /\ u.last = last /\ u.known = known
      OBVIOUS
    <2>. HIDE DEF u
    <2>8. last # Never => last \in told \cup {f}
      BY <2>2 DEF Told
    <2>9. \A g \in told \cup {f} : g <= last
      <3>1. \A g \in told : g \in Nat /\ g <= t.last
        BY <1>1, <1>2 DEF Told
      <3>. QED BY <1>1, <2>2, <3>1
    <2>10. Told(u, told \cup {f}, inputs)
      BY <1>2, <2>3, <2>4, <2>5, <2>6, <2>7, <2>8, <2>9 DEF Told
    <2>. QED BY <2>1, <2>10
  <1>. QED BY <1>4, <1>5

\* What peer p has heard, and how far behind and ahead the others are.
PeerHears(p) ==
  /\ heard[p][p] = 1..Len(made[p])
  /\ \A q \in Peers :
       /\ Told(timelines[p][q], heard[p][q], made[q])
       /\ Len(made[q]) <= head[p] + Lead
       /\ 1..head[p] - 1 - Reach \subseteq heard[p][q]
       /\ running[p] => 1..head[p] - Reach \subseteq heard[p][q]
  /\ running[p] => at[p] >= head[p] - Reach

Hears == \A p \in Peers : PeerHears(p)

\* What was fed to the step and is known is right, from the earliest wrong guess
\* on excepted.
RightOr(p, q, f) ==
  f \in heard[p][q] => \/ saved[p][f].used[q] = made[q][f]
                       \/ earliest[p] # Never /\ earliest[p] <= f

PeerGuesses(p) ==
  /\ \A f \in DOMAIN saved[p] : f < at[p] => \A q \in Peers : RightOr(p, q, f)
  /\ earliest[p] # Never =>
       /\ earliest[p] >= head[p] - Reach
       /\ \E q \in Peers : earliest[p] \in heard[p][q]
                           /\ saved[p][earliest[p]].used[q] # made[q][earliest[p]]

Guesses == \A p \in Peers : PeerGuesses(p)

LEMMA QueueHears ==
  ASSUME Sufficient, Base, Hears, Guesses, NEW p \in Peers, NEW i \in Inputs, Queue(p, i)
  PROVE  Hears' /\ Guesses'
  <1>1. made[p] \in Seq(Inputs) /\ made'[p] = Append(made[p], i) /\ Len(made[p]) = head[p] - 1
        /\ Len(made'[p]) = head[p] /\ made'[p][head[p]] = i
        /\ \A q \in Peers : q # p => made'[q] = made[q]
    BY TypeFacts DEF Queue, Base, TypeOK
  <1>2. head[p] \in Frames /\ head[p] \in Nat /\ head[p] >= 1
    BY TypeFacts, Numbers DEF Base, Queue
  <1>3. /\ timelines'[p][p] = Confirmed(timelines[p][p], head[p], i)
        /\ heard'[p][p] = heard[p][p] \cup {head[p]}
        /\ \A r, q \in Peers : r # p \/ q # p =>
             timelines'[r][q] = timelines[r][q] /\ heard'[r][q] = heard[r][q]
    BY DEF Queue, Hear, Base, TypeOK
  <1>4. \A r, q \in Peers : timelines[r][q] \in Timeline
    BY DEF Base, TypeOK
  <1>5. \A r, q \in Peers : Told(timelines[r][q], heard[r][q], made[q])
    BY DEF Hears, PeerHears
  <1>6. ASSUME NEW r \in Peers, NEW q \in Peers
        PROVE  Told(timelines[r][q], heard[r][q], made'[q])
    <2>1. timelines[r][q] \in Timeline /\ Told(timelines[r][q], heard[r][q], made[q])
      BY <1>4, <1>5
    <2>2. CASE q = p
      <3>1. Told(timelines[r][p], heard[r][p], Append(made[p], i))
        BY <1>1, <2>1, <2>2, ToldMore
      <3>. QED BY <1>1, <2>2, <3>1
    <2>3. CASE q # p
      BY <1>1, <2>1, <2>3
    <2>. QED BY <2>2, <2>3
  <1>7. Told(timelines'[p][p], heard'[p][p], made'[p])
    <2>1. timelines[p][p].last = Never => head[p] = 1
      <3>1. heard[p][p] = 1..head[p] - 1 /\ \A g \in heard[p][p] : g <= timelines[p][p].last
        <4>1. heard[p][p] = 1..Len(made[p])
          BY DEF Hears, PeerHears
        <4>2. Told(timelines[p][p], heard[p][p], made[p])
          BY <1>5
        <4>. QED BY <1>1, <4>1, <4>2 DEF Told
      <3>2. head[p] > 1 => head[p] - 1 \in heard[p][p]
        BY <1>2, <3>1
      <3>3. head[p] > 1 => head[p] - 1 <= timelines[p][p].last
        BY <3>1, <3>2
      <3>. QED BY <1>2, <3>3, Numbers
    <2>2. made'[p] \in Seq(Inputs) /\ head[p] \in 1..Len(made'[p])
      BY <1>1, <1>2
    <2>3. Told(Confirmed(timelines[p][p], head[p], made'[p][head[p]]), heard[p][p] \cup {head[p]}, made'[p])
      BY <1>2, <1>4, <1>6, <2>1, <2>2, ConfirmedTold
    <2>. QED BY <1>1, <1>3, <2>3
  <1>8. ~running[p] /\ UNCHANGED <<saved, head, at, running, earliest>>
    BY DEF Queue
  <1>9. ASSUME NEW r \in Peers PROVE PeerHears(r)'
    <2>1. PeerHears(r) /\ head[r] \in Nat
      BY TypeFacts DEF Hears, Base
    <2>2. \A q \in Peers : Told(timelines'[r][q], heard'[r][q], made'[q])
      BY <1>3, <1>6, <1>7
    <2>3. \A q \in Peers : Len(made'[q]) <= head[r] + Lead
      BY <1>1, <2>1 DEF Queue, PeerHears
    <2>4. \A q \in Peers : heard[r][q] \subseteq heard'[r][q]
      BY <1>3
    <2>5. heard'[r][r] = 1..Len(made'[r])
      <3>1. CASE r = p
        <4>1. (1..head[p] - 1) \cup {head[p]} = 1..head[p]
          BY <1>2
        <4>2. heard[p][p] = 1..head[p] - 1
          BY <1>1, <2>1, <3>1 DEF PeerHears
        <4>. QED BY <1>1, <1>3, <3>1, <4>1, <4>2
      <3>2. CASE r # p
        BY <1>1, <1>3, <2>1, <3>2 DEF PeerHears
      <3>. QED BY <3>1, <3>2
    <2>. QED BY <1>8, <2>1, <2>2, <2>3, <2>4, <2>5 DEF PeerHears
  <1>10. ASSUME NEW r \in Peers PROVE PeerGuesses(r)'
    <2>1. PeerGuesses(r) /\ PeerClock(r) /\ PeerHears(r)
      BY DEF Guesses, Base, Clock, Hears
    <2>2. \A q \in Peers : \A f \in heard[r][q] : made'[q][f] = made[q][f]
      <3>1. \A q \in Peers : heard[r][q] \subseteq 1..Len(made[q])
        BY <1>5 DEF Told
      <3>2. \A f \in 1..Len(made[p]) : made'[p][f] = made[p][f]
        BY <1>1
      <3>. QED BY <1>1, <3>1, <3>2
    <2>3. ASSUME NEW f \in DOMAIN saved[r], NEW q \in Peers, f < at[r], f \in heard'[r][q]
          PROVE  f \in heard[r][q]
      <3>1. CASE f # head[p] \/ r # p \/ q # p
        BY <1>3, <2>3, <3>1
      <3>2. CASE f = head[p] /\ r = p
        BY <1>2, <2>1, <2>3, <3>2 DEF PeerClock, Retained
      <3>. QED BY <3>1, <3>2
    <2>4. \A f \in DOMAIN saved[r] : f < at[r] => \A q \in Peers : RightOr(r, q, f)'
      BY <1>8, <2>1, <2>2, <2>3 DEF PeerGuesses, RightOr
    <2>5. \A q \in Peers : heard[r][q] \subseteq heard'[r][q]
      BY <1>3
    <2>. QED BY <1>8, <2>1, <2>2, <2>4, <2>5 DEF PeerGuesses
  <1>. QED BY <1>9, <1>10 DEF Hears, Guesses

LEMMA DeliverHears ==
  ASSUME Sufficient, Base, Hears, Guesses, NEW p \in Peers, NEW q \in Peers, NEW f, Deliver(p, q, f)
  PROVE  Hears' /\ Guesses'
  <1>1. f \in 1..Len(made[q]) /\ f \in Frames /\ f \in Nat /\ f >= 1 /\ p # q /\ ~running[p]
    <2>1. Len(made[q]) \in Nat /\ Len(made[q]) <= MaxFrame
      BY TypeFacts DEF Base, Clock, PeerClock
    <2>. QED BY <2>1, Numbers DEF Deliver
  <1>2. /\ timelines'[p][q] = Confirmed(timelines[p][q], f, made[q][f])
        /\ heard'[p][q] = heard[p][q] \cup {f}
        /\ \A r, s \in Peers : r # p \/ s # q =>
             timelines'[r][s] = timelines[r][s] /\ heard'[r][s] = heard[r][s]
    BY DEF Deliver, Hear, Base, TypeOK
  <1>3. UNCHANGED <<made, saved, head, at, running>>
    BY DEF Deliver
  <1>4. Told(timelines'[p][q], heard'[p][q], made[q])
    <2>1. Told(timelines[p][q], heard[p][q], made[q])
      BY DEF Hears, PeerHears
    <2>2. timelines[p][q].last = Never => f = 1
      <3>1. \A g \in heard[p][q] : g >= 1 /\ g <= timelines[p][q].last
        BY <2>1, TypeFacts DEF Told, Base
      <3>2. timelines[p][q].last = Never => 1 \notin heard[p][q]
        BY <3>1, Numbers
      <3>. QED BY <3>2 DEF Deliver, Sufficient
    <2>3. timelines[p][q] \in Timeline /\ made[q] \in Seq(Inputs)
      BY TypeFacts DEF Base, TypeOK
    <2>4. Told(Confirmed(timelines[p][q], f, made[q][f]), heard[p][q] \cup {f}, made[q])
      BY <1>1, <2>1, <2>2, <2>3, ConfirmedTold
    <2>. QED BY <1>2, <2>4
  <1>5. ASSUME NEW r \in Peers PROVE PeerHears(r)'
    <2>1. PeerHears(r)
      BY DEF Hears
    <2>2. \A s \in Peers : heard[r][s] \subseteq heard'[r][s]
      BY <1>2
    <2>3. \A s \in Peers : Told(timelines'[r][s], heard'[r][s], made'[s])
      BY <1>2, <1>3, <1>4, <2>1 DEF PeerHears
    <2>4. heard'[r][r] = heard[r][r]
      BY <1>1, <1>2
    <2>. QED BY <1>3, <2>1, <2>2, <2>3, <2>4 DEF PeerHears
  <1>6. \A r \in Peers : r # p => earliest'[r] = earliest[r]
    BY DEF Deliver, Base, TypeOK
  <1>7. ASSUME NEW r \in Peers, r # p PROVE PeerGuesses(r)'
    <2>1. PeerGuesses(r) /\ earliest'[r] = earliest[r] /\ \A s \in Peers : heard'[r][s] = heard[r][s]
      BY <1>2, <1>6, <1>7 DEF Guesses
    <2>2. \A s \in Peers, g \in DOMAIN saved[r] : RightOr(r, s, g) => RightOr(r, s, g)'
      BY <1>3, <2>1 DEF RightOr
    <2>. QED BY <1>3, <2>1, <2>2 DEF PeerGuesses
  <1>8. PeerGuesses(p)'
    <2>0. PeerGuesses(p) /\ PeerHears(p) /\ head[p] \in Nat /\ at[p] = head[p]
          /\ earliest[p] \in Nat /\ DOMAIN saved[p] = Retained(head[p])
      BY <1>1, TypeFacts DEF Guesses, Hears, Base, Clock, PeerClock
    <2>1. CASE Disproved(p, q, f, made[q][f])
      <3>1. f < head[p] /\ f \in DOMAIN saved[p] /\ saved[p][f].used[q] # made[q][f]
        BY <2>1 DEF Disproved
      <3>2. earliest'[p] = IF earliest[p] = Never THEN f ELSE IF f < earliest[p] THEN f ELSE earliest[p]
        BY <2>1 DEF Deliver, Base, TypeOK
      <3>3. earliest'[p] <= f /\ earliest'[p] # Never /\ (earliest[p] # Never => earliest'[p] <= earliest[p])
            /\ earliest'[p] \in Nat /\ earliest'[p] \in {f, earliest[p]}
        BY <1>1, <2>0, <3>2, Numbers
      <3>4. earliest'[p] = earliest[p] \/ (earliest'[p] = f /\ (earliest[p] = Never \/ f < earliest[p]))
        BY <3>2
      <3>5. f >= head[p] - Reach \/ earliest'[p] = earliest[p]
        <4>1. CASE f \in heard[p][q]
          <5>1. RightOr(p, q, f)
            BY <2>0, <3>1 DEF PeerGuesses
          <5>2. earliest[p] # Never /\ earliest[p] <= f
            BY <3>1, <4>1, <5>1 DEF RightOr
          <5>. QED BY <1>1, <2>0, <3>4, <5>2
        <4>2. CASE f \notin heard[p][q]
          <5>1. f \notin 1..head[p] - 1 - Reach
            BY <2>0, <4>2 DEF PeerHears
          <5>. QED BY <1>1, <2>0, <5>1, Numbers
        <4>. QED BY <4>1, <4>2
      <3>6. earliest'[p] >= head[p] - Reach
        BY <2>0, <3>3, <3>4, <3>5, Numbers DEF PeerGuesses
      <3>7. \E s \in Peers : earliest'[p] \in heard'[p][s]
                             /\ saved[p][earliest'[p]].used[s] # made[s][earliest'[p]]
        <4>1. CASE earliest'[p] = f
          BY <1>2, <3>1, <4>1
        <4>2. CASE earliest'[p] = earliest[p]
          <5>1. PICK s \in Peers : earliest[p] \in heard[p][s]
                                   /\ saved[p][earliest[p]].used[s] # made[s][earliest[p]]
            BY <2>0, <3>3, <4>2 DEF PeerGuesses
          <5>2. earliest[p] \in heard'[p][s]
            BY <1>2, <5>1
          <5>. QED BY <4>2, <5>1, <5>2
        <4>. QED BY <3>4, <4>1, <4>2
      <3>8. \A g \in DOMAIN saved[p] : g < at[p] => \A s \in Peers : RightOr(p, s, g)'
        <4>1. ASSUME NEW g \in DOMAIN saved[p], NEW s \in Peers, g < at[p] PROVE RightOr(p, s, g)'
          <5>1. RightOr(p, s, g) /\ g \in Nat
            BY <2>0, <4>1 DEF PeerGuesses, Retained
          <5>2. CASE s = q /\ g = f
            BY <1>3, <3>3, <5>2 DEF RightOr
          <5>3. CASE ~(s = q /\ g = f)
            <6>1. g \in heard'[p][s] => g \in heard[p][s]
              BY <1>2, <5>3
            <6>2. earliest[p] # Never /\ earliest[p] <= g => earliest'[p] # Never /\ earliest'[p] <= g
              BY <2>0, <3>3, <5>1
            <6>. QED BY <1>3, <5>1, <6>1, <6>2 DEF RightOr
          <5>. QED BY <5>2, <5>3
        <4>. QED BY <4>1
      <3>. QED BY <1>3, <3>6, <3>7, <3>8 DEF PeerGuesses
    <2>2. CASE ~Disproved(p, q, f, made[q][f])
      <3>1. earliest'[p] = earliest[p]
        BY <2>2 DEF Deliver
      <3>2. f \in DOMAIN saved[p] => saved[p][f].used[q] = made[q][f]
        BY <2>0, <2>2 DEF Disproved, Retained
      <3>3. \A g \in DOMAIN saved[p] : g < at[p] => \A s \in Peers : RightOr(p, s, g)'
        <4>1. ASSUME NEW g \in DOMAIN saved[p], NEW s \in Peers, g < at[p] PROVE RightOr(p, s, g)'
          <5>1. RightOr(p, s, g)
            BY <2>0, <4>1 DEF PeerGuesses
          <5>2. CASE s = q /\ g = f
            BY <1>3, <3>2, <5>2 DEF RightOr
          <5>3. CASE ~(s = q /\ g = f)
            <6>1. g \in heard'[p][s] => g \in heard[p][s]
              BY <1>2, <5>3
            <6>. QED BY <1>3, <3>1, <5>1, <6>1 DEF RightOr
          <5>. QED BY <5>2, <5>3
        <4>. QED BY <4>1
      <3>4. \A s \in Peers : heard[p][s] \subseteq heard'[p][s]
        BY <1>2
      <3>. QED BY <1>3, <2>0, <3>1, <3>3, <3>4 DEF PeerGuesses
    <2>. QED BY <2>1, <2>2
  <1>. QED BY <1>5, <1>7, <1>8 DEF Hears, Guesses

LEMMA AdvanceHears ==
  ASSUME Sufficient, Base, Hears, Guesses, NEW p \in Peers, Advance(p)
  PROVE  Hears' /\ Guesses'
  <1>1. UNCHANGED <<made, heard, timelines, saved, head>>
    BY DEF Advance
  <1>2. /\ running'[p] = TRUE /\ at'[p] = ResumeAt(p) /\ earliest'[p] = Never
        /\ \A r \in Peers : r # p => at'[r] = at[r] /\ running'[r] = running[r] /\ earliest'[r] = earliest[r]
    BY DEF Advance, Base, TypeOK
  <1>3. PeerHears(p) /\ PeerGuesses(p) /\ head[p] \in Nat /\ ~running[p] /\ at[p] = head[p]
        /\ \A q \in Peers : 1..head[p] - Reach \subseteq heard[p][q]
    BY TypeFacts DEF Hears, Guesses, Base, Clock, PeerClock, Advance, InTime
  <1>4. PeerHears(p)'
    <2>1. ResumeAt(p) >= head[p] - Reach
      BY <1>3, Resume, Numbers DEF PeerGuesses
    <2>. QED BY <1>1, <1>2, <1>3, <2>1 DEF PeerHears
  <1>5. PeerGuesses(p)'
    <2>1. ASSUME NEW f \in DOMAIN saved[p], f < ResumeAt(p), NEW q \in Peers PROVE RightOr(p, q, f)'
      <3>1. ResumeAt(p) <= head[p] /\ f \in Nat /\ ResumeAt(p) \in Nat /\ earliest[p] \in Nat
        BY <1>3, Resume, TypeFacts DEF Base, Clock, PeerClock, Retained
      <3>2. RightOr(p, q, f)
        BY <1>3, <2>1, <3>1 DEF PeerGuesses
      <3>3. earliest[p] # Never => ResumeAt(p) = earliest[p]
        BY Resume
      <3>4. ~(earliest[p] # Never /\ earliest[p] <= f)
        BY <2>1, <3>1, <3>3
      <3>. QED BY <1>1, <3>2, <3>4 DEF RightOr
    <2>. QED BY <1>1, <1>2, <2>1 DEF PeerGuesses
  <1>6. ASSUME NEW r \in Peers, r # p PROVE PeerHears(r)' /\ PeerGuesses(r)'
    <2>1. PeerHears(r) /\ PeerGuesses(r) /\ at'[r] = at[r] /\ running'[r] = running[r] /\ earliest'[r] = earliest[r]
      BY <1>2, <1>6 DEF Hears, Guesses
    <2>2. \A s \in Peers, g \in DOMAIN saved[r] : RightOr(r, s, g) => RightOr(r, s, g)'
      BY <1>1, <2>1 DEF RightOr
    <2>. QED BY <1>1, <2>1, <2>2 DEF PeerHears, PeerGuesses
  <1>. QED BY <1>4, <1>5, <1>6 DEF Hears, Guesses

\* What a peer that is re-simulating feeds the step is right, where it was told.
LEMMA FedRight ==
  ASSUME Sufficient, Base, Hears, NEW p \in Peers, running[p], NEW q \in Peers,
         at[p] \in heard[p][q]
  PROVE  InputFor(p, q, at[p]) = made[q][at[p]]
  <1>. DEFINE t == timelines[p][q]
  <1>1. PeerHears(p) /\ Told(t, heard[p][q], made[q])
    BY DEF Hears, PeerHears
  <1>2. t.last <= Len(made[q]) /\ t.last \in Nat /\ t.from \in Nat
    <2>1. t \in Timeline
      BY DEF Base, TypeOK
    <2>2. t.last \in Nat /\ t.from \in Nat
      BY <2>1, Numbers DEF Timeline
    <2>3. t.last # Never => t.last \in 1..Len(made[q])
      BY <1>1 DEF Told
    <2>. QED BY <2>2, <2>3, TypeFacts, Numbers DEF Base
  <1>3. Len(made[q]) <= head[p] + Lead /\ at[p] >= head[p] - Reach
    BY <1>1 DEF PeerHears
  <1>4. at[p] \in Nat /\ head[p] \in Nat /\ Len(made[q]) \in Nat /\ at[p] >= 1
    BY TypeFacts DEF Base
  <1>5. t.from = Higher(1, t.last - Horizon + 1)
    BY <1>1 DEF Told
  <1>6. at[p] >= t.from
    <2>. DEFINE last == t.last
                len == Len(made[q])
                to == head[p]
                now == at[p]
    <2>1. last \in Nat /\ len \in Nat /\ to \in Nat /\ now \in Nat
          /\ last <= len /\ len <= to + Lead /\ now >= to - Reach /\ now >= 1
          /\ t.from = Higher(1, last - Horizon + 1)
      BY <1>2, <1>3, <1>4, <1>5
    <2>. HIDE DEF last, len, to, now
    <2>2. last - Horizon + 1 <= to - Reach
      BY <2>1, Numbers DEF Sufficient
    <2>3. now >= t.from
      BY <2>1, <2>2, Numbers DEF Higher
    <2>. QED BY <2>3 DEF now
  <1>7. at[p] \in DOMAIN t.known /\ t.known[at[p]] = made[q][at[p]]
    BY <1>1, <1>6 DEF Told
  <1>. QED BY <1>7 DEF InputFor

LEMMA SimulateHears ==
  ASSUME Sufficient, Base, Hears, Guesses, NEW p \in Peers, Simulate(p)
  PROVE  Hears' /\ Guesses'
  <1>. DEFINE next == IF at[p] = head[p] THEN head[p] + 1 ELSE head[p]
  <1>1. UNCHANGED <<made, heard, timelines, earliest>> /\ running[p]
    BY DEF Simulate
  <1>2. PeerHears(p) /\ PeerGuesses(p) /\ earliest[p] = Never
    BY <1>1 DEF Hears, Guesses, Base, Clock, PeerClock
  <1>3. /\ at[p] \in Nat /\ head[p] \in Nat /\ at[p] <= head[p]
        /\ at'[p] = at[p] + 1 /\ head'[p] = next /\ running'[p] = (at[p] # head[p])
        /\ saved'[p][at[p]] = New(p)
        /\ \A g \in DOMAIN saved'[p] :
             g # at[p] => g \in DOMAIN saved[p] /\ saved'[p][g] = saved[p][g]
        /\ \A r \in Peers : r # p => /\ saved'[r] = saved[r] /\ at'[r] = at[r] /\ head'[r] = head[r]
                                     /\ running'[r] = running[r]
    BY Simulated, TypeFacts DEF Base
  <1>4. PeerHears(p)'
    <2>1. next \in Nat /\ next >= head[p] /\ next <= head[p] + 1
      BY <1>3
    <2>2. 1..next - 1 - Reach \subseteq 1..head[p] - Reach
      <3>. HIDE DEF next
      <3>. QED BY <1>3, <2>1, Numbers
    <2>. HIDE DEF next
    <2>3. ASSUME NEW q \in Peers
          PROVE  /\ Told(timelines[p][q], heard[p][q], made[q])
                 /\ Len(made[q]) <= next + Lead
                 /\ 1..next - 1 - Reach \subseteq heard[p][q]
                 /\ 1..head[p] - Reach \subseteq heard[p][q]
      <3>1. Told(timelines[p][q], heard[p][q], made[q]) /\ 1..head[p] - Reach \subseteq heard[p][q]
        BY <1>1, <1>2 DEF PeerHears
      <3>2. Len(made[q]) <= next + Lead
        <4>. DEFINE len == Len(made[q])
        <4>1. len <= head[p] + Lead /\ len \in Nat
          BY <1>2, TypeFacts DEF PeerHears, Base
        <4>. HIDE DEF len
        <4>2. len <= next + Lead
          BY <1>3, <2>1, <4>1, Numbers
        <4>. QED BY <4>2 DEF len
      <3>. QED BY <2>2, <3>1, <3>2
    <2>4. running'[p] => at'[p] >= head'[p] - Reach /\ head'[p] = head[p]
      <3>1. at[p] >= head[p] - Reach
        BY <1>1, <1>2 DEF PeerHears
      <3>2. running'[p] => head'[p] = head[p]
        BY <1>3 DEF next
      <3>3. at[p] + 1 >= head[p] - Reach
        BY <1>3, <3>1, Numbers
      <3>. QED BY <1>3, <3>2, <3>3
    <2>5. heard[p][p] = 1..Len(made[p]) /\ head'[p] = next
      BY <1>2, <1>3 DEF PeerHears, next
    <2>. QED BY <1>1, <2>3, <2>4, <2>5 DEF PeerHears
  <1>5. PeerGuesses(p)'
    <2>1. ASSUME NEW f \in DOMAIN saved'[p], f < at'[p], NEW q \in Peers PROVE RightOr(p, q, f)'
      <3>1. CASE f = at[p]
        <4>1. saved'[p][f].used[q] = InputFor(p, q, at[p])
          BY <1>3, <3>1 DEF New, Fed
        <4>2. f \in heard[p][q] => InputFor(p, q, at[p]) = made[q][f]
          BY <1>1, <3>1, FedRight
        <4>. QED BY <1>1, <4>1, <4>2 DEF RightOr
      <3>2. CASE f # at[p]
        <4>1. f \in DOMAIN saved[p] /\ saved'[p][f] = saved[p][f]
          BY <1>3, <3>2
        <4>2. f \in Nat
          BY <4>1 DEF Base, Clock, PeerClock, Retained
        <4>3. RightOr(p, q, f)
          BY <1>2, <1>3, <2>1, <3>2, <4>1, <4>2 DEF PeerGuesses
        <4>. QED BY <1>1, <4>1, <4>3 DEF RightOr
      <3>. QED BY <3>1, <3>2
    <2>. QED BY <1>1, <1>2, <2>1 DEF PeerGuesses
  <1>6. ASSUME NEW r \in Peers, r # p PROVE PeerHears(r)' /\ PeerGuesses(r)'
    <2>1. PeerHears(r) /\ PeerGuesses(r) /\ at'[r] = at[r] /\ running'[r] = running[r]
          /\ saved'[r] = saved[r] /\ head'[r] = head[r]
      BY <1>3, <1>6 DEF Hears, Guesses
    <2>2. \A s \in Peers, g \in DOMAIN saved[r] : RightOr(r, s, g) => RightOr(r, s, g)'
      BY <1>1, <2>1 DEF RightOr
    <2>. QED BY <1>1, <2>1, <2>2 DEF PeerHears, PeerGuesses
  <1>. QED BY <1>4, <1>5, <1>6 DEF Hears, Guesses

LEMMA HearsInit == Init => Hears /\ Guesses
  <1>. SUFFICES ASSUME Init PROVE Hears /\ Guesses
    OBVIOUS
  <1>1. ASSUME NEW p \in Peers
        PROVE  made[p] = <<>> /\ Len(made[p]) = 0 /\ head[p] = 1 /\ ~running[p]
               /\ earliest[p] = Never /\ DOMAIN saved[p] = {}
    <2>1. made[p] = <<>> /\ saved[p] = <<>> /\ head[p] = 1 /\ running[p] = FALSE /\ earliest[p] = Never
      BY DEF Init
    <2>2. DOMAIN <<>> = {} /\ Len(<<>>) = 0
      OBVIOUS
    <2>. QED BY <2>1, <2>2
  <1>2. \A p, q \in Peers : heard[p][q] = {} /\ timelines[p][q] = NoInputs
    BY DEF Init
  <1>3. \A q \in Peers : Told(NoInputs, {}, made[q])
    <2>1. NoInputs.from = 1 /\ NoInputs.last = Never /\ DOMAIN NoInputs.known = {}
      BY DEF NoInputs
    <2>2. 1 = Higher(1, Never - Horizon + 1)
      BY Numbers DEF Higher
    <2>. QED BY <2>1, <2>2 DEF Told
  <1>4. ASSUME NEW p \in Peers PROVE PeerHears(p)
    <2>1. heard[p][p] = 1..Len(made[p]) /\ ~running[p]
      <3>1. 1..Len(made[p]) = {} /\ heard[p][p] = {}
        <4>1. Len(made[p]) = 0
          BY <1>1
        <4>. QED BY <1>2, <4>1
      <3>. QED BY <1>1, <3>1
    <2>2. ASSUME NEW q \in Peers
          PROVE  Told(timelines[p][q], heard[p][q], made[q]) /\ Len(made[q]) <= head[p] + Lead
                 /\ 1..head[p] - 1 - Reach \subseteq heard[p][q]
      <3>1. timelines[p][q] = NoInputs /\ heard[p][q] = {} /\ Told(NoInputs, {}, made[q])
        BY <1>2, <1>3
      <3>2. head[p] = 1 /\ Len(made[q]) = 0
        BY <1>1
      <3>3. Len(made[q]) <= head[p] + Lead /\ 1..head[p] - 1 - Reach = {}
        BY <3>2, Numbers
      <3>. QED BY <3>1, <3>3
    <2>. QED BY <2>1, <2>2 DEF PeerHears
  <1>5. ASSUME NEW p \in Peers PROVE PeerGuesses(p)
    <2>1. earliest[p] = Never /\ DOMAIN saved[p] = {}
      BY <1>1
    <2>. QED BY <2>1 DEF PeerGuesses
  <1>. QED BY <1>4, <1>5 DEF Hears, Guesses

LEMMA HearsStep == Sufficient /\ Base /\ Hears /\ Guesses /\ [Next]_vars => Hears' /\ Guesses'
  <1>. SUFFICES ASSUME Sufficient, Base, Hears, Guesses, [Next]_vars PROVE Hears' /\ Guesses'
    OBVIOUS
  <1>1. ASSUME NEW p \in Peers, NEW i \in Inputs, Queue(p, i) PROVE Hears' /\ Guesses'
    BY <1>1, QueueHears
  <1>2. ASSUME NEW p \in Peers, NEW q \in Peers, NEW f, Deliver(p, q, f) PROVE Hears' /\ Guesses'
    BY <1>2, DeliverHears
  <1>3. ASSUME NEW p \in Peers, Advance(p) PROVE Hears' /\ Guesses'
    BY <1>3, AdvanceHears
  <1>4. ASSUME NEW p \in Peers, Simulate(p) PROVE Hears' /\ Guesses'
    BY <1>4, SimulateHears
  <1>5. CASE UNCHANGED vars
    BY <1>5 DEF vars, sessionVars, Hears, PeerHears, Guesses, PeerGuesses, RightOr
  <1>. QED BY <1>1, <1>2, <1>3, <1>4, <1>5 DEF Next

-----------------------------------------------------------------------------
(* The worlds of a machine that has every input.                           *)

MadeAt(inputs, f) == [q \in Peers |-> inputs[q][f]]

\* The truth goes as far as everybody's inputs do, one step at a time.
TruthOK ==
  /\ \A f \in 1..Len(truth) - 1 :
       Together(made, f) /\ truth[f + 1] = Step(truth[f], MadeAt(made, f))
  /\ ~Together(made, Len(truth))

LEMMA TruthInit == Init => TruthOK
  <1>. SUFFICES ASSUME Init PROVE TruthOK
    OBVIOUS
  <1>1. Len(truth) = 1
    BY DEF Init
  <1>2. PICK q \in Peers : TRUE
    BY RollbackAssumption
  <1>3. made[q] = <<>>
    BY DEF Init
  <1>4. Len(made[q]) = 0
    BY <1>3
  <1>5. ~Together(made, 1)
    BY <1>4 DEF Together
  <1>6. 1..Len(truth) - 1 = {}
    BY <1>1
  <1>. QED BY <1>1, <1>5, <1>6 DEF TruthOK

\* What one more input does to the inputs made.
LEMMA Queued ==
  ASSUME Base, NEW p \in Peers, NEW i \in Inputs, Queue(p, i)
  PROVE  /\ Len(made'[p]) = Len(made[p]) + 1 /\ Len(made[p]) \in Nat /\ Len(made'[p]) = head[p]
         /\ \A q \in Peers : q # p => made'[q] = made[q]
         /\ \A q \in Peers, f \in Nat : f >= 1 /\ f <= Len(made[q]) => made'[q][f] = made[q][f]
         /\ \A f \in Nat : Together(made, f) => Together(made', f)
         /\ \A f \in Nat : Together(made', f) /\ f # head[p] => Together(made, f)
  <1>1. made[p] \in Seq(Inputs) /\ made'[p] = Append(made[p], i) /\ Len(made[p]) = head[p] - 1
        /\ \A q \in Peers : q # p => made'[q] = made[q]
    BY TypeFacts DEF Queue, Base, TypeOK
  <1>2. Len(made'[p]) = Len(made[p]) + 1 /\ Len(made[p]) \in Nat
        /\ \A f \in 1..Len(made[p]) : made'[p][f] = made[p][f]
    BY <1>1
  <1>3. Len(made'[p]) = head[p] /\ head[p] \in Nat
    BY <1>1, <1>2, TypeFacts DEF Base
  <1>4. \A f \in Nat : Together(made, f) => Together(made', f)
    <2>1. ASSUME NEW f \in Nat, NEW q \in Peers, f <= Len(made[q]) PROVE f <= Len(made'[q])
      <3>1. CASE q = p
        BY <1>2, <2>1, <3>1
      <3>2. CASE q # p
        BY <1>1, <2>1, <3>2
      <3>. QED BY <3>1, <3>2
    <2>. QED BY <2>1 DEF Together
  <1>5. \A f \in Nat : Together(made', f) /\ f # head[p] => Together(made, f)
    <2>1. ASSUME NEW f \in Nat, f # head[p], NEW q \in Peers, f <= Len(made'[q]) PROVE f <= Len(made[q])
      <3>1. CASE q = p
        BY <1>2, <1>3, <2>1, <3>1
      <3>2. CASE q # p
        BY <1>1, <2>1, <3>2
      <3>. QED BY <3>1, <3>2
    <2>. QED BY <2>1 DEF Together
  <1>6. \A q \in Peers, f \in Nat : f >= 1 /\ f <= Len(made[q]) => made'[q][f] = made[q][f]
    <2>1. ASSUME NEW q \in Peers, NEW f \in Nat, f >= 1, f <= Len(made[q]) PROVE made'[q][f] = made[q][f]
      <3>1. CASE q = p
        BY <1>2, <2>1, <3>1
      <3>2. CASE q # p
        BY <1>1, <2>1, <3>2
      <3>. QED BY <3>1, <3>2
    <2>. QED BY <2>1
  <1>. QED BY <1>1, <1>2, <1>3, <1>4, <1>5, <1>6

\* The truth only grows.
LEMMA TruthGrows ==
  ASSUME Base, NEW p \in Peers, NEW i \in Inputs, Queue(p, i)
  PROVE  /\ Len(truth) \in Nat /\ Len(truth') \in Nat /\ Len(truth) >= 1 /\ Len(truth) <= Len(truth')
         /\ \A f \in 1..Len(truth) : truth'[f] = truth[f]
         /\ Together(made', Len(truth)) =>
              /\ Len(truth') = Len(truth) + 1
              /\ truth'[Len(truth) + 1] = Step(truth[Len(truth)], MadeAt(made', Len(truth)))
         /\ ~Together(made', Len(truth)) => truth' = truth
  <1>. DEFINE n == Len(truth)
              w == Step(truth[n], [q \in Peers |-> made'[q][n]])
  <1>1. n \in Nat /\ n >= 1 /\ truth \in Seq(Worlds)
    BY DEF Base, TypeOK, Clock
  <1>2. CASE Together(made', n)
    <2>1. truth' = Append(truth, w)
      BY <1>2 DEF Queue
    <2>2. MadeAt(made', n) = [q \in Peers |-> made'[q][n]]
      BY DEF MadeAt
    <2>3. Step(truth[n], MadeAt(made', n)) = w
      BY <2>2
    <2>. HIDE DEF w
    <2>4. Len(truth') = n + 1 /\ truth'[n + 1] = w /\ \A f \in 1..n : truth'[f] = truth[f]
      BY <1>1, <2>1
    <2>. QED BY <1>1, <1>2, <2>3, <2>4
  <1>3. CASE ~Together(made', n)
    BY <1>1, <1>3 DEF Queue
  <1>. QED BY <1>2, <1>3

LEMMA TruthQueue ==
  ASSUME Base, TruthOK, NEW p \in Peers, NEW i \in Inputs, Queue(p, i)
  PROVE  TruthOK'
  <1>. DEFINE n == Len(truth)
  <1>1. n \in Nat /\ n >= 1
    BY TruthGrows
  <1>2. ASSUME NEW f \in 1..n - 1
        PROVE  Together(made', f) /\ truth'[f + 1] = Step(truth'[f], MadeAt(made', f))
    <2>1. Together(made, f) /\ truth[f + 1] = Step(truth[f], MadeAt(made, f)) /\ f \in Nat /\ f >= 1
      BY <1>1, <1>2 DEF TruthOK
    <2>2. Together(made', f)
      BY <2>1, Queued
    <2>3. MadeAt(made', f) = MadeAt(made, f)
      <3>1. \A q \in Peers : made'[q][f] = made[q][f]
        BY <2>1, Queued DEF Together
      <3>. QED BY <3>1 DEF MadeAt
    <2>4. truth'[f] = truth[f] /\ truth'[f + 1] = truth[f + 1]
      BY <1>1, <1>2, TruthGrows
    <2>. QED BY <2>1, <2>2, <2>3, <2>4
  <1>3. CASE Together(made', n)
    <2>1. Len(truth') = n + 1 /\ truth'[n + 1] = Step(truth'[n], MadeAt(made', n))
      BY <1>1, <1>3, TruthGrows
    <2>2. ~Together(made', n + 1)
      <3>1. ~Together(made, n)
        BY DEF TruthOK
      <3>2. n = head[p]
        BY <1>1, <1>3, <3>1, Queued
      <3>3. Len(made'[p]) = n
        BY <3>2, Queued
      <3>. QED BY <1>1, <3>3 DEF Together
    <2>3. ASSUME NEW f \in 1..Len(truth') - 1
          PROVE  Together(made', f) /\ truth'[f + 1] = Step(truth'[f], MadeAt(made', f))
      <3>1. CASE f = n
        BY <1>3, <2>1, <3>1
      <3>2. CASE f # n
        <4>1. f \in 1..n - 1
          BY <1>1, <2>1, <3>2
        <4>. QED BY <1>2, <4>1
      <3>. QED BY <3>1, <3>2
    <2>. QED BY <2>1, <2>2, <2>3 DEF TruthOK
  <1>4. CASE ~Together(made', n)
    <2>1. truth' = truth
      BY <1>4, TruthGrows
    <2>. QED BY <1>2, <1>4, <2>1 DEF TruthOK
  <1>. QED BY <1>3, <1>4

LEMMA TruthStep == Base /\ TruthOK /\ [Next]_vars => TruthOK'
  <1>. SUFFICES ASSUME Base, TruthOK, [Next]_vars PROVE TruthOK'
    OBVIOUS
  <1>1. ASSUME NEW p \in Peers, NEW i \in Inputs, Queue(p, i) PROVE TruthOK'
    BY <1>1, TruthQueue
  <1>2. ASSUME UNCHANGED <<made, truth>> PROVE TruthOK'
    BY <1>2 DEF TruthOK, MadeAt, Together
  <1>3. ASSUME NEW p \in Peers, NEW q \in Peers, NEW f, Deliver(p, q, f) PROVE TruthOK'
    BY <1>2, <1>3 DEF Deliver
  <1>4. ASSUME NEW p \in Peers, Advance(p) \/ Simulate(p) PROVE TruthOK'
    BY <1>2, <1>4 DEF Advance, Simulate
  <1>5. CASE UNCHANGED vars
    BY <1>2, <1>5 DEF vars
  <1>. QED BY <1>1, <1>3, <1>4, <1>5 DEF Next

\* What a machine does with everybody's inputs of a frame.
LEMMA TruthNext ==
  ASSUME Base, TruthOK, NEW f \in Nat, f >= 1, f <= Len(truth), Together(made, f)
  PROVE  f + 1 <= Len(truth) /\ truth[f + 1] = Step(truth[f], MadeAt(made, f))
  <1>1. Len(truth) \in Nat
    BY DEF Base, TypeOK
  <1>2. f # Len(truth)
    BY DEF TruthOK
  <1>3. f \in 1..Len(truth) - 1
    BY <1>1, <1>2
  <1>. QED BY <1>1, <1>3 DEF TruthOK

-----------------------------------------------------------------------------
(* The worlds of a peer.                                                   *)

\* The frames whose world a peer has, and the world.
Reached(p) == {f \in DOMAIN saved[p] : f < at[p]} \cup {at[p]}
Held(p, f) == IF f = at[p] THEN world[p] ELSE saved[p][f].world

\* Everybody has made an input for f and these were fed to the step, and so for
\* every frame before f.
Right(p, f) == Together(made, f) /\ saved[p][f].used = MadeAt(made, f)
RightBefore(p, f) == \A h \in DOMAIN saved[p] : h < f => Right(p, h)

PeerChain(p) ==
  \A f \in DOMAIN saved[p] :
    f < at[p] => Held(p, f + 1) = Step(saved[p][f].world, saved[p][f].used)

PeerTrue(p) ==
  \A f \in Reached(p) : RightBefore(p, f) => f <= Len(truth) /\ Held(p, f) = truth[f]

Follows == \A p \in Peers : PeerChain(p) /\ PeerTrue(p)

LEMMA FollowsInit == Init => Follows
  <1>. SUFFICES ASSUME Init PROVE Follows
    OBVIOUS
  <1>1. ASSUME NEW p \in Peers PROVE PeerChain(p) /\ PeerTrue(p)
    <2>1. saved[p] = <<>> /\ at[p] = 1 /\ world[p] = Start /\ truth = <<Start>>
      BY DEF Init
    <2>2. DOMAIN saved[p] = {} /\ Len(truth) = 1 /\ truth[1] = Start
      BY <2>1
    <2>3. Reached(p) = {1} /\ Held(p, 1) = Start
      BY <2>1, <2>2 DEF Reached, Held
    <2>. QED BY <2>2, <2>3 DEF PeerChain, PeerTrue
  <1>. QED BY <1>1 DEF Follows

LEMMA ReachedTyped ==
  ASSUME Base, NEW p \in Peers
  PROVE  /\ at[p] \in Nat /\ at[p] >= 1 /\ head[p] \in Nat /\ at[p] <= head[p]
         /\ \A f \in DOMAIN saved[p] : f \in Nat /\ f >= 1 /\ f < head[p]
         /\ \A f \in Reached(p) : f \in Nat /\ f >= 1 /\ f <= at[p]
         /\ \A f \in DOMAIN saved[p] : f < at[p] => f + 1 \in Reached(p) /\ Held(p, f) = saved[p][f].world
  <1>1. at[p] \in Nat /\ at[p] >= 1 /\ head[p] \in Nat /\ at[p] <= head[p]
        /\ DOMAIN saved[p] = Retained(head[p])
    BY TypeFacts DEF Base, Clock, PeerClock
  <1>2. \A f \in DOMAIN saved[p] : f \in Nat /\ f >= 1 /\ f < head[p]
    BY <1>1 DEF Retained
  <1>3. \A f \in Reached(p) : f \in Nat /\ f >= 1 /\ f <= at[p]
    BY <1>1, <1>2 DEF Reached
  <1>4. ASSUME NEW f \in DOMAIN saved[p], f < at[p]
        PROVE  f + 1 \in Reached(p) /\ Held(p, f) = saved[p][f].world
    <2>1. f + 1 # at[p] => f + 1 \in DOMAIN saved[p] /\ f + 1 < at[p]
      <3>1. f \in 1..head[p] - 1 /\ f >= head[p] - Horizon
        BY <1>1, <1>4 DEF Retained
      <3>2. f + 1 # at[p] => f + 1 \in 1..head[p] - 1 /\ f + 1 >= head[p] - Horizon /\ f + 1 < at[p]
        <4>. DEFINE to == at[p]
                    h == head[p]
        <4>1. to \in Nat /\ h \in Nat /\ to <= h /\ f < to /\ f \in 1..h - 1 /\ f >= h - Horizon
          BY <1>1, <1>4, <3>1
        <4>. HIDE DEF to, h
        <4>2. f + 1 # to => f + 1 \in 1..h - 1 /\ f + 1 >= h - Horizon /\ f + 1 < to
          BY <4>1, Numbers
        <4>. QED BY <4>2 DEF to, h
      <3>. QED BY <1>1, <3>2 DEF Retained
    <2>2. Held(p, f) = saved[p][f].world
      BY <1>1, <1>2, <1>4 DEF Held
    <2>. QED BY <2>1, <2>2 DEF Reached
  <1>. QED BY <1>1, <1>2, <1>3, <1>4

LEMMA QueueFollows ==
  ASSUME Base, TruthOK, Follows, NEW p \in Peers, NEW i \in Inputs, Queue(p, i)
  PROVE  Follows'
  <1>. SUFFICES ASSUME NEW r \in Peers PROVE PeerChain(r)' /\ PeerTrue(r)'
    BY DEF Follows
  <1>1. UNCHANGED <<saved, world, at>> /\ head[p] \in Nat
    BY TypeFacts DEF Queue, Base
  <1>2. Reached(r)' = Reached(r) /\ \A f : Held(r, f)' = Held(r, f)
    BY <1>1 DEF Reached, Held
  <1>3. PeerChain(r) /\ PeerTrue(r)
    BY DEF Follows
  <1>4. PeerChain(r)'
    BY <1>1, <1>2, <1>3 DEF PeerChain
  <1>5. \A h \in DOMAIN saved[r] : h \in Nat /\ h >= 1
    BY ReachedTyped
  <1>6. ASSUME NEW h \in DOMAIN saved[r], Right(r, h)', h # head[p] PROVE Right(r, h)
    <2>1. Together(made', h) /\ saved[r][h].used = MadeAt(made', h)
      BY <1>1, <1>6 DEF Right
    <2>2. Together(made, h)
      BY <1>5, <1>6, <2>1, Queued
    <2>3. MadeAt(made', h) = MadeAt(made, h)
      <3>1. \A q \in Peers : made'[q][h] = made[q][h]
        BY <1>5, <2>2, Queued DEF Together
      <3>. QED BY <3>1 DEF MadeAt
    <2>. QED BY <2>1, <2>2, <2>3 DEF Right
  <1>7. ASSUME NEW f \in Reached(r), RightBefore(r, f)'
        PROVE  f <= Len(truth') /\ Held(r, f) = truth'[f]
    <2>0. f \in Nat /\ f >= 1 /\ f <= at[r] /\ at[r] \in Nat
      BY ReachedTyped
    <2>1. \A h \in DOMAIN saved[r] : h < f => Right(r, h)'
      BY <1>1, <1>7 DEF RightBefore
    <2>2. CASE RightBefore(r, f)
      <3>1. f <= Len(truth) /\ Held(r, f) = truth[f]
        BY <1>3, <2>2 DEF PeerTrue
      <3>. QED BY <2>0, <3>1, TruthGrows
    <2>3. CASE ~RightBefore(r, f)
      <3>1. PICK h \in DOMAIN saved[r] : h < f /\ ~Right(r, h)
        BY <2>3 DEF RightBefore
      <3>2. h = head[p] /\ Right(r, h)' /\ h \in Nat /\ h >= 1
        BY <1>5, <1>6, <2>1, <3>1
      <3>3. f = h + 1
        <4>1. h < at[r] /\ h + 1 \in Reached(r)
          BY <2>0, <3>1, <3>2, ReachedTyped
        <4>2. ASSUME h + 1 < f PROVE FALSE
          <5>1. h + 1 \in DOMAIN saved[r]
            BY <2>0, <3>2, <4>1, <4>2 DEF Reached
          <5>2. Together(made', h + 1)
            BY <2>1, <4>2, <5>1 DEF Right
          <5>3. Len(made'[p]) = h
            BY <3>2, Queued
          <5>. QED BY <3>2, <5>2, <5>3 DEF Together
        <4>. QED BY <2>0, <3>1, <3>2, <4>2
      <3>4. RightBefore(r, h)
        <4>1. ASSUME NEW g \in DOMAIN saved[r], g < h PROVE Right(r, g)
          BY <1>5, <1>6, <2>0, <2>1, <3>2, <3>3, <4>1
        <4>. QED BY <4>1 DEF RightBefore
      <3>5. h \in Reached(r) /\ Held(r, h) = saved[r][h].world
        BY <2>0, <3>1, <3>2, ReachedTyped DEF Reached
      <3>6. h <= Len(truth) /\ saved[r][h].world = truth[h]
        BY <1>3, <3>4, <3>5 DEF PeerTrue
      <3>7. Together(made', h) /\ saved[r][h].used = MadeAt(made', h)
        BY <1>1, <3>2 DEF Right
      <3>8. h + 1 <= Len(truth') /\ truth'[h + 1] = Step(truth'[h], MadeAt(made', h))
        <4>1. h <= Len(truth') /\ Len(truth') \in Nat
          BY <3>2, <3>6, TruthGrows
        <4>2. TruthOK'
          BY TruthQueue
        <4>3. h # Len(truth')
          BY <3>7, <4>2 DEF TruthOK
        <4>4. h \in 1..Len(truth') - 1
          BY <3>2, <4>1, <4>3
        <4>. QED BY <3>2, <4>1, <4>2, <4>4 DEF TruthOK
      <3>9. truth'[h] = truth[h]
        BY <3>2, <3>6, TruthGrows
      <3>10. Held(r, h + 1) = Step(saved[r][h].world, saved[r][h].used)
        BY <1>3, <2>0, <3>1, <3>2 DEF PeerChain
      <3>. QED BY <3>3, <3>6, <3>7, <3>8, <3>9, <3>10
    <2>. QED BY <2>2, <2>3
  <1>8. PeerTrue(r)'
    BY <1>2, <1>7 DEF PeerTrue
  <1>. QED BY <1>4, <1>8

LEMMA AdvanceFollows ==
  ASSUME Base, Follows, NEW p \in Peers, Advance(p)
  PROVE  Follows'
  <1>1. UNCHANGED <<made, truth, saved>>
    BY DEF Advance
  <1>2. ASSUME NEW r \in Peers, r # p PROVE PeerChain(r)' /\ PeerTrue(r)'
    <2>1. at'[r] = at[r] /\ world'[r] = world[r] /\ PeerChain(r) /\ PeerTrue(r)
      BY <1>2 DEF Advance, Base, TypeOK, Follows
    <2>2. Reached(r)' = Reached(r) /\ \A f : Held(r, f)' = Held(r, f)
      BY <1>1, <2>1 DEF Reached, Held
    <2>3. \A f : RightBefore(r, f)' = RightBefore(r, f)
      BY <1>1 DEF RightBefore, Right
    <2>. QED BY <1>1, <2>1, <2>2, <2>3 DEF PeerChain, PeerTrue
  <1>3. /\ at'[p] = ResumeAt(p) /\ at[p] = head[p] /\ PeerChain(p) /\ PeerTrue(p)
        /\ world'[p] = IF ResumeAt(p) < head[p] THEN saved[p][ResumeAt(p)].world ELSE world[p]
    BY DEF Advance, Base, TypeOK, Clock, PeerClock, Follows
  <1>4. ResumeAt(p) \in Reached(p) /\ ResumeAt(p) \in Nat /\ head[p] \in Nat /\ ResumeAt(p) <= head[p]
    <2>1. ResumeAt(p) = head[p] \/ (ResumeAt(p) \in DOMAIN saved[p] /\ ResumeAt(p) < head[p])
      BY Resume
    <2>. QED BY <1>3, <2>1, ReachedTyped DEF Reached
  <1>5. world'[p] = Held(p, ResumeAt(p))
    BY <1>3, <1>4 DEF Held
  <1>6. \A f \in DOMAIN saved[p] : f \in Nat
    BY ReachedTyped
  <1>7. \A f \in Reached(p)' : f \in Reached(p) /\ Held(p, f)' = Held(p, f)
    <2>1. ASSUME NEW f \in Reached(p)' PROVE f \in Reached(p) /\ Held(p, f)' = Held(p, f)
      <3>1. CASE f = ResumeAt(p)
        BY <1>3, <1>4, <1>5, <3>1 DEF Held
      <3>2. CASE f # ResumeAt(p)
        <4>1. f \in DOMAIN saved[p] /\ f < ResumeAt(p)
          BY <1>1, <1>3, <3>2 DEF Reached
        <4>2. f < at[p]
          BY <1>3, <1>4, <1>6, <4>1
        <4>. QED BY <1>1, <1>3, <1>6, <3>2, <4>1, <4>2 DEF Reached, Held
      <3>. QED BY <3>1, <3>2
    <2>. QED BY <2>1
  <1>8. PeerTrue(p)'
    <2>1. \A f : RightBefore(p, f)' = RightBefore(p, f)
      BY <1>1 DEF RightBefore, Right
    <2>. QED BY <1>1, <1>3, <1>7, <2>1 DEF PeerTrue
  <1>9. PeerChain(p)'
    <2>1. ASSUME NEW f \in DOMAIN saved[p], f < ResumeAt(p)
          PROVE  Held(p, f + 1)' = Step(saved[p][f].world, saved[p][f].used)
      <3>1. f < at[p]
        BY <1>3, <1>4, <1>6, <2>1
      <3>2. f + 1 \in Reached(p)'
        <4>1. f + 1 \in Reached(p) /\ f + 1 <= ResumeAt(p)
          BY <1>4, <1>6, <2>1, <3>1, ReachedTyped
        <4>2. f + 1 = ResumeAt(p) \/ (f + 1 \in DOMAIN saved[p] /\ f + 1 < ResumeAt(p))
          BY <1>3, <1>4, <1>6, <4>1 DEF Reached
        <4>. QED BY <1>1, <1>3, <4>2 DEF Reached
      <3>. QED BY <1>3, <1>7, <3>1, <3>2 DEF PeerChain
    <2>. QED BY <1>1, <1>3, <2>1 DEF PeerChain
  <1>. QED BY <1>2, <1>8, <1>9 DEF Follows

\* A frame that leaves the history had the right inputs.
LEMMA OldRight ==
  ASSUME Sufficient, Base, Hears, Guesses, NEW p \in Peers, running[p],
         NEW h \in DOMAIN saved[p], h < at[p], h <= head[p] - Horizon
  PROVE  Right(p, h)
  <1>1. PeerHears(p) /\ PeerGuesses(p) /\ earliest[p] = Never
    BY DEF Hears, Guesses, Base, Clock, PeerClock
  <1>2. h \in 1..head[p] - 1 - Reach
    <2>1. h \in Nat /\ h >= 1 /\ head[p] \in Nat
      BY ReachedTyped
    <2>. QED BY <2>1, Numbers DEF Sufficient
  <1>3. ASSUME NEW q \in Peers PROVE h <= Len(made[q]) /\ saved[p][h].used[q] = made[q][h]
    <2>1. h \in heard[p][q] /\ Told(timelines[p][q], heard[p][q], made[q])
      BY <1>1, <1>2 DEF PeerHears
    <2>2. h \in 1..Len(made[q])
      BY <2>1 DEF Told
    <2>3. RightOr(p, q, h)
      BY <1>1 DEF PeerGuesses
    <2>. QED BY <1>1, <2>1, <2>2, <2>3 DEF RightOr
  <1>4. Together(made, h)
    BY <1>3 DEF Together
  <1>5. saved[p][h].used = MadeAt(made, h)
    <2>1. saved[p][h].used \in Vectors
      BY EntryFields
    <2>. QED BY <1>3, <2>1 DEF Vectors, MadeAt
  <1>. QED BY <1>4, <1>5 DEF Right

LEMMA SimulateFollows ==
  ASSUME Sufficient, Base, Hears, Guesses, TruthOK, Follows, NEW p \in Peers, Simulate(p)
  PROVE  Follows'
  <1>. DEFINE next == IF at[p] = head[p] THEN head[p] + 1 ELSE head[p]
  <1>0. PICK f : f = at[p]
    OBVIOUS
  <1>1. UNCHANGED <<made, truth>> /\ running[p]
    BY DEF Simulate
  <1>2. ASSUME NEW r \in Peers, r # p PROVE PeerChain(r)' /\ PeerTrue(r)'
    <2>1. at'[r] = at[r] /\ world'[r] = world[r] /\ saved'[r] = saved[r] /\ PeerChain(r) /\ PeerTrue(r)
      BY <1>2, Simulated DEF Follows
    <2>2. Reached(r)' = Reached(r) /\ \A g : Held(r, g)' = Held(r, g)
      BY <2>1 DEF Reached, Held
    <2>3. \A g : RightBefore(r, g)' = RightBefore(r, g)
      BY <1>1, <2>1 DEF RightBefore, Right
    <2>. QED BY <1>1, <2>1, <2>2, <2>3 DEF PeerChain, PeerTrue
  <1>3. /\ saved'[p][f] = New(p) /\ f \in DOMAIN saved'[p] /\ DOMAIN saved'[p] = Retained(next)
        /\ \A g \in DOMAIN saved'[p] : g # f => g \in DOMAIN saved[p] /\ saved'[p][g] = saved[p][g]
        /\ world'[p] = Step(world[p], Fed(p)) /\ at'[p] = f + 1
    BY <1>0, Simulated
  <1>4. f \in Nat /\ f >= 1 /\ f <= head[p] /\ head[p] \in Nat /\ DOMAIN saved[p] = Retained(head[p])
        /\ \A g \in DOMAIN saved[p] : g \in Nat
    BY <1>0, ReachedTyped DEF Base, Clock, PeerClock
  <1>5. \A g \in DOMAIN saved'[p] : g \in Nat
    BY <1>3, <1>4
  <1>6. \A g \in DOMAIN saved'[p] : g <= f => Held(p, g)' = Held(p, g)
    <2>1. ASSUME NEW g \in DOMAIN saved'[p], g <= f PROVE Held(p, g)' = Held(p, g)
      <3>1. g # at'[p]
        BY <1>3, <1>4, <1>5, <2>1
      <3>2. Held(p, g)' = saved'[p][g].world
        BY <3>1 DEF Held
      <3>3. CASE g = f
        BY <1>0, <1>3, <3>2, <3>3 DEF Held, New
      <3>4. CASE g # f
        BY <1>0, <1>3, <1>4, <1>5, <2>1, <3>2, <3>4 DEF Held
      <3>. QED BY <3>3, <3>4
    <2>. QED BY <2>1
  <1>7. Held(p, f + 1)' = Step(world[p], Fed(p)) /\ saved'[p][f].world = world[p] /\ saved'[p][f].used = Fed(p)
    BY <1>0, <1>3 DEF Held, New
  <1>8. PeerChain(p)'
    <2>1. ASSUME NEW g \in DOMAIN saved'[p], g < f + 1
          PROVE  Held(p, g + 1)' = Step(saved'[p][g].world, saved'[p][g].used)
      <3>1. CASE g = f
        BY <1>7, <3>1
      <3>2. CASE g # f
        <4>1. g \in DOMAIN saved[p] /\ saved'[p][g] = saved[p][g] /\ g < f /\ g + 1 <= f
          BY <1>3, <1>4, <1>5, <2>1, <3>2
        <4>2. g + 1 \in DOMAIN saved'[p]
          <5>1. g + 1 \in Reached(p)
            BY <1>0, <4>1, ReachedTyped
          <5>2. g + 1 = f \/ (g + 1 \in DOMAIN saved[p] /\ g + 1 < f)
            BY <1>0, <5>1 DEF Reached
          <5>3. g + 1 # f => g + 1 \in Retained(next)
            <6>. DEFINE h == head[p]
                        n == next
            <6>1. \/ g \in Nat /\ g >= n - Horizon /\ g + 1 \in 1..h - 1 /\ h \in Nat /\ n \in {h, h + 1}
                  \/ g + 1 = f
              BY <1>3, <1>4, <1>5, <4>1, <5>2 DEF Retained
            <6>. HIDE DEF h, n
            <6>2. g + 1 = f \/ (g + 1 \in 1..n - 1 /\ g + 1 >= n - Horizon)
              BY <6>1, Numbers
            <6>. QED BY <6>2 DEF Retained, n
          <5>. QED BY <1>3, <5>3
        <4>3. Held(p, g + 1)' = Held(p, g + 1)
          BY <1>6, <4>1, <4>2
        <4>4. Held(p, g + 1) = Step(saved[p][g].world, saved[p][g].used)
          BY <1>0, <4>1 DEF Follows, PeerChain
        <4>. QED BY <4>1, <4>3, <4>4
      <3>. QED BY <3>1, <3>2
    <2>. QED BY <1>3, <2>1 DEF PeerChain
  <1>9. ASSUME NEW g, g \in DOMAIN saved'[p], g <= f, RightBefore(p, g)' PROVE RightBefore(p, g)
    <2>1. ASSUME NEW h \in DOMAIN saved[p], h < g PROVE Right(p, h)
      <3>1. h < f /\ h \in Nat /\ h >= 1
        BY <1>4, <1>5, <1>9, <2>1, ReachedTyped
      <3>2. CASE h \in DOMAIN saved'[p]
        <4>1. Right(p, h)'
          BY <1>9, <2>1, <3>2 DEF RightBefore
        <4>2. saved'[p][h] = saved[p][h]
          BY <1>3, <1>4, <3>1, <3>2
        <4>. QED BY <1>1, <4>1, <4>2 DEF Right
      <3>3. CASE h \notin DOMAIN saved'[p]
        <4>1. h <= head[p] - Horizon
          BY <1>3, <1>4, <3>1, <3>3, Numbers DEF Retained
        <4>. QED BY <1>0, <1>1, <3>1, <4>1, OldRight
      <3>. QED BY <3>2, <3>3
    <2>. QED BY <2>1 DEF RightBefore
  <1>10. ASSUME NEW g \in DOMAIN saved'[p], g <= f, RightBefore(p, g)'
         PROVE  g <= Len(truth) /\ Held(p, g)' = truth[g]
    <2>1. RightBefore(p, g)
      BY <1>9, <1>10
    <2>2. g \in Reached(p)
      <3>1. g = f \/ (g \in DOMAIN saved[p] /\ g < f)
        BY <1>3, <1>4, <1>5, <1>10
      <3>. QED BY <1>0, <3>1 DEF Reached
    <2>3. g <= Len(truth) /\ Held(p, g) = truth[g]
      BY <2>1, <2>2 DEF Follows, PeerTrue
    <2>. QED BY <1>6, <1>10, <2>3
  <1>11. ASSUME RightBefore(p, f + 1)'
         PROVE  f + 1 <= Len(truth) /\ Held(p, f + 1)' = truth[f + 1]
    <2>1. Right(p, f)'
      BY <1>3, <1>4, <1>11 DEF RightBefore
    <2>2. RightBefore(p, f)'
      <3>1. \A h \in DOMAIN saved'[p] : h < f => h < f + 1
        BY <1>4, <1>5
      <3>. QED BY <1>11, <3>1 DEF RightBefore
    <2>3. f <= Len(truth) /\ Held(p, f)' = truth[f]
      BY <1>3, <1>4, <1>10, <2>2
    <2>4. Together(made, f) /\ Fed(p) = MadeAt(made, f)
      BY <1>1, <1>7, <2>1 DEF Right
    <2>5. f + 1 <= Len(truth) /\ truth[f + 1] = Step(truth[f], MadeAt(made, f))
      BY <1>4, <2>3, <2>4, TruthNext
    <2>6. Held(p, f)' = world[p]
      BY <1>0, <1>3, <1>4, <1>6 DEF Held
    <2>. QED BY <1>7, <2>3, <2>4, <2>5, <2>6
  <1>12. PeerTrue(p)'
    <2>1. \A g \in Reached(p)' : g = f + 1 \/ (g \in DOMAIN saved'[p] /\ g <= f)
      BY <1>3, <1>4, <1>5 DEF Reached
    <2>2. ASSUME NEW g \in Reached(p)', RightBefore(p, g)' PROVE g <= Len(truth) /\ Held(p, g)' = truth[g]
      BY <1>10, <1>11, <2>1, <2>2
    <2>. QED BY <1>1, <2>2 DEF PeerTrue
  <1>. QED BY <1>2, <1>8, <1>12 DEF Follows

LEMMA FollowsStep ==
  Sufficient /\ Base /\ Hears /\ Guesses /\ TruthOK /\ Follows /\ [Next]_vars => Follows'
  <1>. SUFFICES ASSUME Sufficient, Base, Hears, Guesses, TruthOK, Follows, [Next]_vars PROVE Follows'
    OBVIOUS
  <1>1. ASSUME NEW p \in Peers, NEW i \in Inputs, Queue(p, i) PROVE Follows'
    BY <1>1, QueueFollows
  <1>2. ASSUME NEW p \in Peers, Advance(p) PROVE Follows'
    BY <1>2, AdvanceFollows
  <1>3. ASSUME NEW p \in Peers, Simulate(p) PROVE Follows'
    BY <1>3, SimulateFollows
  <1>4. ASSUME UNCHANGED <<made, truth, saved, world, at>> PROVE Follows'
    BY <1>4 DEF Follows, PeerChain, PeerTrue, Reached, Held, RightBefore, Right, Together, MadeAt
  <1>5. ASSUME NEW p \in Peers, NEW q \in Peers, NEW f, Deliver(p, q, f) PROVE Follows'
    BY <1>4, <1>5 DEF Deliver
  <1>6. CASE UNCHANGED vars
    BY <1>4, <1>6 DEF vars, sessionVars
  <1>. QED BY <1>1, <1>2, <1>3, <1>5, <1>6 DEF Next

-----------------------------------------------------------------------------
IInv == Base /\ Hears /\ Guesses /\ TruthOK /\ Follows

LEMMA Invariance == Sufficient => (Spec => []IInv)
  <1>1. Init => IInv
    BY BaseInit, HearsInit, TruthInit, FollowsInit DEF IInv
  <1>2. Sufficient /\ IInv /\ [Next]_vars => IInv'
    BY BaseStep, HearsStep, TruthStep, FollowsStep DEF IInv
  <1>3. ASSUME Sufficient PROVE Spec => []IInv
    <2>1. IInv /\ [Next]_vars => IInv'
      BY <1>2, <1>3
    <2>. QED BY <1>1, <2>1, PTL DEF Spec
  <1>. QED BY <1>3

LEMMA AllInSync == IInv => InSync
  <1>. SUFFICES ASSUME IInv, NEW p \in Peers, NEW f \in Reached(p), Known(p, f), Corrected(p, f)
                PROVE  f <= Len(truth) /\ Held(p, f) = truth[f]
    <2>1. ASSUME IInv, NEW p \in Peers,
                 \A f \in Reached(p) : Known(p, f) /\ Corrected(p, f)
                                         => f <= Len(truth) /\ Held(p, f) = truth[f]
          PROVE  /\ \A f \in DOMAIN saved[p] :
                      f < at[p] /\ Known(p, f) /\ Corrected(p, f)
                        => f <= Len(truth) /\ saved[p][f].world = truth[f]
                 /\ Known(p, at[p]) /\ Corrected(p, at[p])
                      => at[p] <= Len(truth) /\ world[p] = truth[at[p]]
      <3>1. at[p] \in Reached(p) /\ Held(p, at[p]) = world[p]
        BY DEF Reached, Held
      <3>2. \A f \in DOMAIN saved[p] : f < at[p] => f \in Reached(p) /\ Held(p, f) = saved[p][f].world
        BY <2>1, ReachedTyped DEF Reached, IInv
      <3>. QED BY <2>1, <3>1, <3>2
    <2>. QED BY <2>1 DEF InSync
  <1>1. PeerHears(p) /\ PeerGuesses(p) /\ PeerTrue(p) /\ f <= at[p] /\ f \in Nat /\ at[p] \in Nat
        /\ earliest[p] \in Nat
    BY ReachedTyped, TypeFacts DEF IInv, Hears, Guesses, Follows, Base
  <1>2. ASSUME NEW h \in DOMAIN saved[p], h < f PROVE Right(p, h)
    <2>1. h \in Nat /\ h >= 1 /\ h < at[p] /\ h \in 1..f - 1
      BY <1>1, <1>2, ReachedTyped DEF IInv
    <2>2. ASSUME NEW q \in Peers PROVE h <= Len(made[q]) /\ saved[p][h].used[q] = made[q][h]
      <3>1. h \in heard[p][q]
        BY <2>1 DEF Known
      <3>2. h \in 1..Len(made[q])
        BY <1>1, <3>1 DEF PeerHears, Told
      <3>3. ~(earliest[p] # Never /\ earliest[p] <= h)
        BY <1>1, <1>2, <2>1 DEF Corrected
      <3>4. RightOr(p, q, h)
        BY <1>1, <2>1 DEF PeerGuesses
      <3>. QED BY <3>1, <3>2, <3>3, <3>4 DEF RightOr
    <2>3. saved[p][h].used \in Vectors
      BY EntryFields DEF IInv
    <2>4. Together(made, h)
      BY <2>2 DEF Together
    <2>5. saved[p][h].used = MadeAt(made, h)
      BY <2>2, <2>3 DEF Vectors, MadeAt
    <2>. QED BY <2>4, <2>5 DEF Right
  <1>3. RightBefore(p, f)
    BY <1>2 DEF RightBefore
  <1>. QED BY <1>1, <1>3 DEF PeerTrue

\* Where the history is longer than an input is late and a peer is ahead, and each
\* player's first input is heard first, a peer told of all the inputs before a
\* frame holds the world of that frame (rollback.rs, InputTimeline::confirm,
\* confirm_remote_input, resolve_rollback and simulate_frame together).
THEOREM PeersInSync == Sufficient => (Spec => []InSync)
  <1>1. ASSUME Sufficient PROVE Spec => []InSync
    <2>1. Spec => []IInv
      BY <1>1, Invariance
    <2>. QED BY <2>1, AllInSync, PTL
  <1>. QED BY <1>1

LEMMA GuessesAreWrong == IInv => OnlyWrongGuesses
  <1>. SUFFICES ASSUME IInv PROVE OnlyWrongGuesses
    OBVIOUS
  <1>1. ASSUME NEW p \in Peers, earliest[p] # Never
        PROVE  /\ earliest[p] \in DOMAIN saved[p]
               /\ \E q \in Peers : earliest[p] \in heard[p][q]
                                   /\ saved[p][earliest[p]].used[q] # made[q][earliest[p]]
    <2>1. PeerClock(p) /\ PeerGuesses(p)
      BY DEF IInv, Base, Clock, Guesses
    <2>. QED BY <1>1, <2>1 DEF PeerClock, PeerGuesses
  <1>. QED BY <1>1 DEF OnlyWrongGuesses

\* Under the same assumption a peer goes back only to a frame it fed a wrong guess
\* (rollback.rs, confirm_remote_input).
THEOREM RollsBackOnlyWrong == Sufficient => (Spec => []OnlyWrongGuesses)
  <1>1. ASSUME Sufficient PROVE Spec => []OnlyWrongGuesses
    <2>1. Spec => []IInv
      BY <1>1, Invariance
    <2>. QED BY <2>1, GuessesAreWrong, PTL
  <1>. QED BY <1>1

=============================================================================
