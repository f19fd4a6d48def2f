------------------------------- MODULE Rollback -------------------------------
(***************************************************************************)
(* Rollback netcode (client_utils/src/rollback.rs): peers run the same     *)
(* deterministic simulation, exchange only inputs, predict the ones that   *)
(* have not come, and re-simulate from the first frame a guess turns out   *)
(* wrong.  The composition is that of examples/rollback_playground: each   *)
(* peer samples its input for a frame, sends it with a tail of repeats,    *)
(* and advances.                                                           *)
(*                                                                         *)
(* The link may lose, repeat and reorder: any input ever sent may arrive   *)
(* at any peer at any time, and again.  What the session leaves to its     *)
(* user is stated as a guard: how late an input may come (Reach), how far  *)
(* ahead of a peer another may be (Lead), and whether a player's first     *)
(* input is the first of theirs to be heard (FirstKnown).                  *)
(*                                                                         *)
(* Abstractions.  Frames are counted from 1.  The state history and the    *)
(* histories of what was fed to the step, which are saved together frame   *)
(* by frame, are one history of both.  The policy is prediction with       *)
(* rollback on; the counters for display are left out.                     *)
(***************************************************************************)
EXTENDS Integers, Sequences

CONSTANTS
  Peers, Inputs,
  Neutral,          \* of each player, until it is heard of
  Worlds, Start,
  Step(_, _),       \* the deterministic step: a world and everybody's input
  Predict(_, _),    \* the guess, from the last confirmed input and the frame
  Horizon,          \* max_rollback_frames
  Reach, Lead, FirstKnown,
  MaxFrame          \* bound: frames of a game

Frames == 1..MaxFrame
Never == 0          \* no frame
Vectors == [Peers -> Inputs]

ASSUME RollbackAssumption ==
  /\ Peers # {} /\ Inputs # {} /\ Neutral \in Vectors
  /\ Start \in Worlds
  /\ \A w \in Worlds, v \in Vectors : Step(w, v) \in Worlds
  /\ \A i \in Inputs, f \in Frames : Predict(i, f) \in Inputs
  /\ Horizon \in Nat \ {0} /\ Reach \in Nat \ {0} /\ Lead \in Nat
  /\ FirstKnown \in BOOLEAN
  /\ MaxFrame \in Nat \ {0}

VARIABLES
  made,         \* each player's inputs, frame by frame
  truth,        \* the worlds of a machine that has every input (ground_truth)
  heard,        \* the frames of each player's input a peer has been told
  timelines,    \* RollbackSession::timelines of each peer
  saved,        \* its state_history and used
  world,        \* current_state
  head,         \* head_frame
  at,           \* the frame simulate_frame is called for next
  running,      \* advance_frame has been called and has frames to simulate
  earliest      \* earliest_incorrect

sessionVars == <<timelines, saved, world, head, at, running, earliest>>
vars == <<made, truth, heard, sessionVars>>

Higher(a, b) == IF a < b THEN b ELSE a

(***************************************************************************)
(* StateHistory: the last Horizon frames, contiguous.                      *)
(***************************************************************************)
Oldest(history) == CHOOSE f \in DOMAIN history : \A g \in DOMAIN history : f <= g

Extends(history, f) == history = <<>> \/ f \in DOMAIN history \/ f - 1 \in DOMAIN history

Save(history, f, entry) ==
  LET kept == IF Extends(history, f) THEN {g \in DOMAIN history : g > f - Horizon} ELSE {}
  IN  [g \in kept \cup {f} |-> IF g = f THEN entry ELSE history[g]]

(***************************************************************************)
(* InputTimeline: the confirmed inputs of a window that ends at the last.  *)
(***************************************************************************)
NoInputs == [from |-> 1, last |-> Never, known |-> <<>>]

Confirmed(timeline, f, input) ==
  LET from == IF timeline.last = Never THEN f ELSE timeline.from
      last == Higher(timeline.last, f)
      first == Higher(from, last - Horizon + 1)
      frames == {g \in DOMAIN timeline.known \cup {f} : g >= first}
  IN  IF f < from THEN timeline
      ELSE [from |-> first, last |-> last,
            known |-> [g \in frames |-> IF g = f THEN input ELSE timeline.known[g]]]

\* The frame a guess for f is based on.
Basis(timeline, f) ==
  LET before == {g \in DOMAIN timeline.known : g <= f}
  IN  IF before = {} THEN Never ELSE CHOOSE g \in before : \A h \in before : h <= g

InputFor(p, q, f) ==
  LET timeline == timelines[p][q]
      basis == Basis(timeline, f)
  IN  IF f \in DOMAIN timeline.known THEN timeline.known[f]
      ELSE Predict(IF basis = Never THEN Neutral[q] ELSE timeline.known[basis], f)

-----------------------------------------------------------------------------
Init ==
  /\ made = [p \in Peers |-> <<>>]
  /\ truth = <<Start>>
  /\ heard = [p \in Peers |-> [q \in Peers |-> {}]]
  /\ timelines = [p \in Peers |-> [q \in Peers |-> NoInputs]]
  /\ saved = [p \in Peers |-> <<>>]
  /\ world = [p \in Peers |-> Start]
  /\ head = [p \in Peers |-> 1]
  /\ at = [p \in Peers |-> 1]
  /\ running = [p \in Peers |-> FALSE]
  /\ earliest = [p \in Peers |-> Never]

Hear(p, q, f, input) ==
  /\ heard' = [heard EXCEPT ![p][q] = @ \cup {f}]
  /\ timelines' = [timelines EXCEPT ![p][q] = Confirmed(@, f, input)]

\* Everybody's input for the next frame of truth is there.
Together(inputs, f) == \A q \in Peers : f <= Len(inputs[q])

\* queue_local_input, once a frame, and the input is on its way to the others.
Queue(p, input) ==
  /\ ~running[p] /\ Len(made[p]) = head[p] - 1 /\ head[p] <= MaxFrame
  /\ \A q \in Peers : head[p] <= head[q] + Lead
  /\ Hear(p, p, head[p], input)
  /\ made' = [made EXCEPT ![p] = Append(@, input)]
  /\ LET f == Len(truth)
     IN  truth' = IF Together(made', f)
                    THEN Append(truth, Step(truth[f], [q \in Peers |-> made'[q][f]]))
                    ELSE truth
  /\ UNCHANGED <<saved, world, head, at, running, earliest>>

MutDisproved(p, q, f, input) == f < head[p] /\ f \in DOMAIN saved[p]
\* A guess that was fed to the step and is not the input that came.
Disproved(p, q, f, input) ==
  /\ f < head[p] /\ f \in DOMAIN saved[p]
  /\ saved[p][f].used[q] # input

\* confirm_remote_input, for one of the inputs of a packet.
Deliver(p, q, f) ==
  /\ ~running[p] /\ p # q
  /\ f \in 1..Len(made[q])
  /\ FirstKnown => f = 1 \/ 1 \in heard[p][q]
  /\ Hear(p, q, f, made[q][f])
  /\ earliest' = IF Disproved(p, q, f, made[q][f])
                   THEN [earliest EXCEPT ![p] =
                           IF @ = Never THEN f ELSE IF f < @ THEN f ELSE @]
                   ELSE earliest
  /\ UNCHANGED <<made, truth, saved, world, head, at, running>>

MutResumeAt(p) ==
  IF earliest[p] = Never \/ earliest[p] + 1 >= head[p] \/ saved[p] = <<>> THEN head[p]
  ELSE Higher(earliest[p] + 1, Oldest(saved[p]))
\* The frame to go back to, held to what is still retained.
ResumeAt(p) ==
  IF earliest[p] = Never \/ earliest[p] >= head[p] \/ saved[p] = <<>> THEN head[p]
  ELSE Higher(earliest[p], Oldest(saved[p]))

InTime(p) == \A q \in Peers : 1..(head[p] - Reach) \subseteq heard[p][q]

\* advance_frame, up to the first call of simulate_frame: resolve_rollback.
Advance(p) ==
  /\ ~running[p] /\ Len(made[p]) = head[p]
  /\ InTime(p)
  /\ running' = [running EXCEPT ![p] = TRUE]
  /\ at' = [at EXCEPT ![p] = ResumeAt(p)]
  /\ world' = [world EXCEPT ![p] =
       IF ResumeAt(p) < head[p] THEN saved[p][ResumeAt(p)].world ELSE @]
  /\ earliest' = [earliest EXCEPT ![p] = Never]
  /\ UNCHANGED <<made, truth, heard, timelines, saved, head>>

\* simulate_frame: the re-simulated ones first and the new one last.
Simulate(p) ==
  /\ running[p]
  /\ LET f == at[p]
         used == [q \in Peers |-> InputFor(p, q, f)]
     IN  /\ saved' = [saved EXCEPT ![p] = Save(@, f, [world |-> world[p], used |-> used])]
         /\ world' = [world EXCEPT ![p] = Step(@, used)]
         /\ at' = [at EXCEPT ![p] = f + 1]
         /\ head' = [head EXCEPT ![p] = IF f = @ THEN f + 1 ELSE @]
         /\ running' = [running EXCEPT ![p] = f # head[p]]
  /\ UNCHANGED <<made, truth, heard, timelines, earliest>>

Next ==
  \E p \in Peers :
    \/ \E input \in Inputs : Queue(p, input)
    \/ \E q \in Peers : \E f \in 1..Len(made[q]) : Deliver(p, q, f)
    \/ Advance(p)
    \/ Simulate(p)

Spec == Init /\ [][Next]_vars

(***************************************************************************)
(* Properties.                                                             *)
(***************************************************************************)
PartOf(D, R) == UNION {[S -> R] : S \in SUBSET D}

Timeline == [from : Frames, last : 0..MaxFrame, known : PartOf(Frames, Inputs)]
Entry == [world : Worlds, used : Vectors]

TypeOK ==
  /\ made \in [Peers -> Seq(Inputs)]
  /\ truth \in Seq(Worlds)
  /\ heard \in [Peers -> [Peers -> SUBSET Frames]]
  /\ timelines \in [Peers -> [Peers -> Timeline]]
  /\ saved = [p \in Peers |-> saved[p]]
  /\ \A p \in Peers : DOMAIN saved[p] \subseteq Frames /\ saved[p] \in [DOMAIN saved[p] -> Entry]
  /\ world \in [Peers -> Worlds]
  /\ head \in [Peers -> 1..MaxFrame + 1]
  /\ at \in [Peers -> 1..MaxFrame + 1]
  /\ running \in [Peers -> BOOLEAN]
  /\ earliest \in [Peers -> 0..MaxFrame]

\* The peer has every input of the frames before f.
Known(p, f) == \A q \in Peers : 1..f - 1 \subseteq heard[p][q]

\* No guess before f is known to be wrong and still uncorrected.
Corrected(p, f) == earliest[p] # Never => f <= earliest[p]

\* Whatever order the inputs come in and however often, a peer that has been
\* told all of them up to a frame holds the world of that frame, and so do all
\* peers that have (rollback.rs, "for a fully-confirmed frame it is identical on
\* every peer").
InSync ==
  \A p \in Peers :
    /\ \A f \in DOMAIN saved[p] :
         f < at[p] /\ Known(p, f) /\ Corrected(p, f)
           => f <= Len(truth) /\ saved[p][f].world = truth[f]
    /\ Known(p, at[p]) /\ Corrected(p, at[p])
         => at[p] <= Len(truth) /\ world[p] = truth[at[p]]

\* A peer goes back only to a frame it ran with an input that is not the one the
\* player made, never because an input came late, twice or out of order
\* (rollback.rs confirm_remote_input).
OnlyWrongGuesses ==
  \A p \in Peers :
    earliest[p] # Never =>
      /\ earliest[p] \in DOMAIN saved[p]
      /\ \E q \in Peers : earliest[p] \in heard[p][q]
                          /\ saved[p][earliest[p]].used[q] # made[q][earliest[p]]
=============================================================================
