----------------------------- MODULE Controller -----------------------------
(***************************************************************************)
(* The command side of StateController (core/src/controller.rs): callers   *)
(* that submit ops, wait for them to be applied, query the state or shut   *)
(* the controller down, the bounded queue between them, and the task that  *)
(* serves it, from its start to the moment its receiver is gone.           *)
(*                                                                         *)
(* Callers and the controller run on their own threads; an action is what  *)
(* one of them does between two points at which another may run.           *)
(*                                                                         *)
(* Abstractions.  The state is the sequence of ops that went through the   *)
(* logic.  Plain commands (agent ops, ticks, snapshots) are "Ops": they    *)
(* ask for no reply.  What comes from the session is in Connections; here  *)
(* it is time the loop spends elsewhere.  A caller's wake-up is part of the*)
(* step that settles its reply.                                            *)
(***************************************************************************)
EXTENDS Integers, Sequences, Functions

CONSTANTS
  Callers,
  Kinds,     \* the commands callers send
  Cap,       \* the queue's depth (buffer_size)
  Calls      \* how many calls each caller makes: a bound

ASSUME ControllerAssumption ==
  /\ Kinds \subseteq {"Ops", "Acked", "Query", "Shutdown"}
  /\ Cap \in Nat \ {0}
  /\ Calls \in [Callers -> Nat]

\* A command is known by the call that sends it.
Command == UNION {[caller : {c}, n : 1..Calls[c], kind : Kinds] : c \in Callers}
Op == {x \in Command : x.kind \in {"Ops", "Acked"}}
Replied == {x \in Command : x.kind \in {"Acked", "Query"}}
Shutdowns == {x \in Command : x.kind = "Shutdown"}

\* Before its first call a caller is at its call of number 0.
Calling ==
  Command \cup {[caller |-> c, n |-> 0, kind |-> "Ops"] : c \in Callers}

\* Where the controller is.
Modes == {"running",   \* run's loop
          "draining",  \* drain_pending_commands
          "dropping",  \* out of run, CommandQueue's drop emptying the queue
          "closing",   \* the queue found empty, its receiver not dropped yet
          "gone"}

VARIABLES
  call,      \* the call each caller is making, or made last
  at,        \* where each caller is
  result,    \* what its last call returned
  saw,       \* the state when its last call was answered: what a query reads
  owed,      \* ghost: how many commands had been accepted when the call began
  queue,     \* the command channel
  log,       \* ghost: the commands the channel ever accepted, in order
  mode,      \* where the controller is
  taken,     \* the command it has taken and not put through the logic
  served,    \* the command it has put through the logic and not answered
  state,     \* state_data
  done,      \* ghost: how many commands have been through
  aborted,   \* the task was dropped, or panicked, and returned no state
  cutoff     \* ghost: how many commands had been accepted when it took a Shutdown

callers == <<call, at, result, saw, owed>>
channel == <<queue, log>>
controller == <<mode, taken, served, state, done, aborted, cutoff>>
vars == <<callers, channel, controller>>

Init ==
  /\ call = [c \in Callers |-> [caller |-> c, n |-> 0, kind |-> "Ops"]]
  /\ at = [c \in Callers |-> "idle"]
  /\ result = [c \in Callers |-> "none"]
  /\ saw = [c \in Callers |-> <<>>]
  /\ owed = [c \in Callers |-> 0]
  /\ queue = <<>> /\ log = <<>>
  /\ mode = "running"
  /\ taken = {} /\ served = {}
  /\ state = <<>>
  /\ done = 0
  /\ aborted = FALSE
  /\ cutoff = 0

-----------------------------------------------------------------------------
(* Callers.                                                                *)

Return(c, how) ==
  /\ at' = [at EXCEPT ![c] = "idle"]
  /\ result' = [result EXCEPT ![c] = how]

\* submit_system_ops, query_with, or a plain send, up to the channel.
Call(c, kind) ==
  /\ at[c] = "idle" /\ call[c].n < Calls[c]
  /\ call' = [call EXCEPT ![c] = [caller |-> c, n |-> @.n + 1, kind |-> kind]]
  /\ at' = [at EXCEPT ![c] = "sending"]
  /\ result' = [result EXCEPT ![c] = "none"]
  /\ owed' = [owed EXCEPT ![c] = Len(log)]
  /\ UNCHANGED <<saw, channel, controller>>

MutPush(c) ==
  /\ at[c] = "sending" /\ mode # "gone" /\ Len(queue) <= Cap
  /\ queue' = Append(queue, call[c])
  /\ log' = Append(log, call[c])
  /\ IF call[c] \in Replied
     THEN at' = [at EXCEPT ![c] = "waiting"] /\ UNCHANGED result
     ELSE Return(c, "ok")
  /\ UNCHANGED <<call, saw, owed, controller>>
\* The channel takes the command: a plain send returns, the others await a reply.
Push(c) ==
  /\ at[c] = "sending" /\ mode # "gone" /\ Len(queue) < Cap
  /\ queue' = Append(queue, call[c])
  /\ log' = Append(log, call[c])
  /\ IF call[c] \in Replied
     THEN at' = [at EXCEPT ![c] = "waiting"] /\ UNCHANGED result
     ELSE Return(c, "ok")
  /\ UNCHANGED <<call, saw, owed, controller>>

\* The receiver is gone.
Refused(c) ==
  /\ at[c] = "sending" /\ mode = "gone"
  /\ Return(c, "gone")
  /\ UNCHANGED <<call, saw, owed, channel, controller>>

\* The caller drops the call before it returns.
GiveUp(c) ==
  /\ at[c] \in {"sending", "waiting"}
  /\ Return(c, "none")
  /\ UNCHANGED <<call, saw, owed, channel, controller>>

\* It drops its CommandSender.
Leave(c) ==
  /\ at[c] = "idle"
  /\ at' = [at EXCEPT ![c] = "left"]
  /\ UNCHANGED <<call, result, saw, owed, channel, controller>>

-----------------------------------------------------------------------------
(* The controller.                                                         *)

\* The reply channel of x is used or dropped, which a caller still waiting sees.
Settle(x, how) ==
  LET c == x.caller IN
  IF at[c] = "waiting" /\ x = call[c]
  THEN /\ Return(c, how)
       /\ saw' = [saw EXCEPT ![c] = state]
       /\ UNCHANGED <<call, owed>>
  ELSE UNCHANGED callers

MutTake ==
  /\ mode \in {"running", "draining"} /\ taken = {} /\ served = {} /\ queue # <<>>
  /\ taken' = {queue[Len(queue)]}
  /\ queue' = SubSeq(queue, 1, Len(queue) - 1)
  /\ UNCHANGED <<callers, log, mode, served, state, done, aborted, cutoff>>
\* recv in the loop, try_recv in the drain.
Take ==
  /\ mode \in {"running", "draining"} /\ taken = {} /\ served = {} /\ queue # <<>>
  /\ taken' = {Head(queue)}
  /\ queue' = Tail(queue)
  /\ UNCHANGED <<callers, log, mode, served, state, done, aborted, cutoff>>

MutProcess ==
  /\ \E x \in taken \cap Op : state' = Append(state, x) /\ Settle(x, "ok")
  /\ done' = done + 1
  /\ served' = taken /\ taken' = {}
  /\ UNCHANGED <<channel, mode, aborted, cutoff>>
\* handle_logic_input for the ops of a command: what it sends is awaited after.
Process ==
  /\ \E x \in taken \cap Op : state' = Append(state, x)
  /\ done' = done + 1
  /\ served' = taken /\ taken' = {}
  /\ UNCHANGED <<callers, channel, mode, aborted, cutoff>>

MutFinish ==
  /\ \E x \in served : Settle(x, IF mode = "draining" THEN "gone" ELSE "ok")
  /\ served' = {}
  /\ UNCHANGED <<channel, mode, taken, state, done, aborted, cutoff>>
\* ... and then applied.fire, for a command that carries one.
Finish ==
  /\ \E x \in served : Settle(x, "ok")
  /\ served' = {}
  /\ UNCHANGED <<channel, mode, taken, state, done, aborted, cutoff>>

\* A query is read and answered without an await between.
Answer ==
  /\ \E x \in taken : x.kind = "Query" /\ Settle(x, "ok")
  /\ done' = done + 1
  /\ taken' = {}
  /\ UNCHANGED <<channel, mode, served, state, aborted, cutoff>>

MutTakeShutdown ==
  /\ taken \cap Shutdowns # {}
  /\ mode' = "dropping"
  /\ cutoff' = IF mode = "running" THEN Len(log) ELSE cutoff
  /\ done' = done + 1
  /\ taken' = {}
  /\ UNCHANGED <<callers, channel, served, state, aborted>>
\* The first Shutdown starts the drain, a second ends it.
TakeShutdown ==
  /\ taken \cap Shutdowns # {}
  /\ mode' = IF mode = "running" THEN "draining" ELSE "dropping"
  /\ cutoff' = IF mode = "running" THEN Len(log) ELSE cutoff
  /\ done' = done + 1
  /\ taken' = {}
  /\ UNCHANGED <<callers, channel, served, state, aborted>>

Drained ==
  /\ mode = "draining" /\ taken = {} /\ served = {} /\ queue = <<>>
  /\ mode' = "dropping"
  /\ UNCHANGED <<callers, channel, taken, served, state, done, aborted, cutoff>>

\* Every sender is gone, and the session's channels are closed.
InputsClosed ==
  /\ mode = "running" /\ taken = {} /\ served = {} /\ queue = <<>>
  /\ \A c \in Callers : at[c] = "left"
  /\ mode' = "dropping"
  /\ UNCHANGED <<callers, channel, taken, served, state, done, aborted, cutoff>>

\* The task is dropped at an await, or what it called panics: the command in its
\* hands goes first.
Abort ==
  /\ mode = "running" \/ (mode = "draining" /\ taken \cup served # {})
  /\ taken \cap Shutdowns = {}
  /\ mode' = "dropping"
  /\ aborted' = TRUE
  /\ IF taken \cup served = {} THEN UNCHANGED callers
                               ELSE \E x \in taken \cup served : Settle(x, "gone")
  /\ taken' = {} /\ served' = {}
  /\ UNCHANGED <<channel, state, done, cutoff>>

\* CommandQueue's drop: what is queued is dropped unserved, until a try_recv
\* finds nothing ...
Discard ==
  /\ mode = "dropping" /\ queue # <<>>
  /\ Settle(Head(queue), "gone")
  /\ queue' = Tail(queue)
  /\ UNCHANGED <<log, controller>>

MutEmptied ==
  /\ mode = "dropping"
  /\ mode' = "closing"
  /\ UNCHANGED <<callers, channel, taken, served, state, done, aborted, cutoff>>
Emptied ==
  /\ mode = "dropping" /\ queue = <<>>
  /\ mode' = "closing"
  /\ UNCHANGED <<callers, channel, taken, served, state, done, aborted, cutoff>>

\* ... and after it the receiver is dropped, which closes the channel.
Close ==
  /\ mode = "closing"
  /\ mode' = "gone"
  /\ UNCHANGED <<callers, channel, taken, served, state, done, aborted, cutoff>>

ControllerStep ==
  \/ Take \/ Process \/ Finish \/ Answer \/ TakeShutdown
  \/ Drained \/ InputsClosed \/ Discard \/ Emptied \/ Close

Next ==
  \/ \E c \in Callers : Push(c) \/ Refused(c) \/ GiveUp(c) \/ Leave(c)
  \/ \E c \in Callers, kind \in Kinds : Call(c, kind)
  \/ ControllerStep
  \/ Abort

Spec == Init /\ [][Next]_vars

\* The controller's task is scheduled, the logic returns and the session does not
\* keep the loop's first arm ready for ever; a sender waiting for room is woken.
Fairness ==
  /\ WF_vars(ControllerStep)
  /\ \A c \in Callers : WF_vars(Push(c) \/ Refused(c))

FairSpec == Spec /\ Fairness

-----------------------------------------------------------------------------
(* Properties.                                                             *)

CallersTypeOK ==
  /\ call \in [Callers -> Calling]
  /\ at \in [Callers -> {"idle", "sending", "waiting", "left"}]
  /\ result \in [Callers -> {"none", "ok", "gone"}]
  /\ saw \in [Callers -> Seq(Op)]
  /\ owed \in [Callers -> Nat]

ControllerTypeOK ==
  /\ queue \in Seq(Command) /\ Len(queue) <= Cap
  /\ log \in Seq(Command)
  /\ mode \in Modes
  /\ taken \subseteq Command /\ served \subseteq Command
  /\ state \in Seq(Op)
  /\ done \in Nat /\ cutoff \in Nat
  /\ aborted \in BOOLEAN

\* Every variable has its type, and the queue its depth.
TypeOK == CallersTypeOK /\ ControllerTypeOK

Over == mode \notin {"running", "draining"}

\* The controller is a log of commands served in order (run, handle_command,
\* drain_pending_commands): what is accepted first is applied first, nothing is
\* applied twice, skipped, or applied once the controller is going away.
Promise == INSTANCE CommandLog WITH over <- Over
InOrder == Promise!Spec

\* An answer comes after everything accepted before the call began: a query reads
\* it, acknowledged ops follow it and are themselves applied (query_with,
\* submit_system_ops).
AnswersAreCurrent ==
  \A c \in Callers :
    (result[c] = "ok" /\ call[c] \in Replied) =>
      /\ \A i \in 1..owed[c] : log[i] \in Op => log[i] \in Range(saw[c])
      /\ call[c] \in Op => call[c] \in Range(saw[c])

\* A caller told the controller is gone finds none of its call in the state a
\* controller that was shut down returns (ControllerGone).
GoneIsUnapplied ==
  \A c \in Callers : (result[c] = "gone" /\ ~aborted) => Over /\ call[c] \notin Range(state)

\* The second Shutdown is ahead of the command accepted as i-th.
Behind(i) ==
  \E j, k \in 1..(i - 1) : j < k /\ log[j] \in Shutdowns /\ log[k] \in Shutdowns

\* A controller that was shut down has served what had been accepted when it took
\* the Shutdown, up to a second one (drain_pending_commands).
DrainServes ==
  (Over /\ ~aborted) =>
    \A i \in 1..cutoff : (log[i] \in Op /\ ~Behind(i)) => log[i] \in Range(state)

\* Nobody waits for room for ever, and a caller that waits for a reply while the
\* queue is not yet found empty for the last time gets one, or ControllerGone
\* (CommandQueue's drop).
CallersReturn ==
  \A c \in Callers :
    /\ at[c] = "sending" ~> at[c] # "sending"
    /\ (at[c] = "waiting" /\ mode \notin {"closing", "gone"}) ~> at[c] # "waiting"
=============================================================================
