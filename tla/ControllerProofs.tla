-------------------------- MODULE ControllerProofs --------------------------
(***************************************************************************)
(* For any callers, any number of calls and any depth of the queue: the    *)
(* controller is the ordered log of commands it promises to be, an answer  *)
(* comes after everything accepted before its call, a caller told that a   *)
(* controller which was shut down is gone left nothing in its state, the   *)
(* drain serves what the Shutdown found queued, and every step of the      *)
(* controller brings each waiting caller nearer to its reply.              *)
(***************************************************************************)
EXTENDS Controller, SequenceTheorems, TLAPS

-----------------------------------------------------------------------------
(* Types.                                                                  *)

LEMMA CommandFields ==
  \A x \in Command : x.caller \in Callers /\ x.n \in Nat \ {0} /\ x.kind \in Kinds
  BY ControllerAssumption DEF Command

LEMMA CallingFields ==
  \A x \in Calling : x.caller \in Callers /\ x.n \in Nat /\ (x.n > 0 => x \in Command)
  BY ControllerAssumption, CommandFields DEF Calling

LEMMA AppendTyped ==
  ASSUME NEW S, NEW s \in Seq(S), NEW e \in S
  PROVE  /\ Append(s, e) \in Seq(S)
         /\ Len(Append(s, e)) = Len(s) + 1
         /\ Append(s, e)[Len(s) + 1] = e
         /\ \A i \in 1..Len(s) : Append(s, e)[i] = s[i]
  OBVIOUS

LEMMA TailTyped ==
  ASSUME NEW S, NEW s \in Seq(S), s # <<>>
  PROVE  /\ Tail(s) \in Seq(S)
         /\ Len(Tail(s)) = Len(s) - 1 /\ Len(s) > 0
         /\ Head(s) \in S /\ Head(s) = s[1]
         /\ \A i \in 1..Len(Tail(s)) : Tail(s)[i] = s[i + 1]
  BY HeadTailProperties, EmptySeq

\* A caller in the channel's hands has made the call it is making.
CallTypeOK == \A c \in Callers :
  /\ call[c].caller = c
  /\ at[c] \in {"sending", "waiting"} => call[c] \in Command

LEMMA SettleTyped ==
  ASSUME NEW x \in Command, NEW how \in {"ok", "gone"}, CallersTypeOK,
         state \in Seq(Op), Settle(x, how), CallTypeOK
  PROVE  CallersTypeOK' /\ CallTypeOK'
  <1>1. CASE UNCHANGED callers
    BY <1>1 DEF callers, CallersTypeOK, CallTypeOK
  <1>2. CASE Return(x.caller, how) /\ saw' = [saw EXCEPT ![x.caller] = state] /\ UNCHANGED <<call, owed>>
    BY <1>2, CommandFields DEF Return, CallersTypeOK, CallTypeOK
  <1>. QED BY <1>1, <1>2 DEF Settle

LEMMA TypeInit == Init => TypeOK /\ CallTypeOK
  <1>. SUFFICES ASSUME Init PROVE TypeOK /\ CallTypeOK
    OBVIOUS
  <1>0. \A S : <<>> \in Seq(S)
    BY EmptySeq
  <1>1. CallersTypeOK
    <2>1. \A c \in Callers : [caller |-> c, n |-> 0, kind |-> "Ops"] \in Calling
      BY DEF Calling
    <2>2. call \in [Callers -> Calling]
      BY <2>1 DEF Init
    <2>3. saw \in [Callers -> Seq(Op)]
      BY <1>0 DEF Init
    <2>. QED BY <2>2, <2>3 DEF Init, CallersTypeOK
  <1>2. CallTypeOK
    BY DEF Init, CallTypeOK
  <1>3. ControllerTypeOK
    <2>1. queue \in Seq(Command) /\ log \in Seq(Command) /\ state \in Seq(Op)
      BY <1>0 DEF Init
    <2>2. Len(queue) = 0
      BY EmptySeq DEF Init
    <2>3. Len(queue) <= Cap
      BY <2>2, ControllerAssumption
    <2>. QED BY <2>1, <2>3 DEF Init, ControllerTypeOK, Modes
  <1>. QED BY <1>1, <1>2, <1>3 DEF TypeOK

\* A caller moves to another point of its call.
LEMMA MoveTyped ==
  ASSUME NEW c \in Callers, NEW to \in {"idle", "waiting", "left"}, CallersTypeOK, CallTypeOK,
         UNCHANGED <<call, saw, owed>>, at' = [at EXCEPT ![c] = to],
         to = "waiting" => at[c] = "sending",
         result' \in [Callers -> {"none", "ok", "gone"}]
  PROVE  CallersTypeOK' /\ CallTypeOK'
  <1>1. at' \in [Callers -> {"idle", "sending", "waiting", "left"}]
    BY DEF CallersTypeOK
  <1>2. CallersTypeOK'
    BY <1>1 DEF CallersTypeOK
  <1>3. \A d \in Callers : at'[d] = IF d = c THEN to ELSE at[d]
    BY DEF CallersTypeOK
  <1>4. CallTypeOK'
    BY <1>3 DEF CallTypeOK
  <1>. QED BY <1>2, <1>4

LEMMA TypeStep ==
  ASSUME TypeOK, CallTypeOK, [Next]_vars
  PROVE  TypeOK' /\ CallTypeOK'
  <1>. USE ControllerAssumption DEF TypeOK, Modes
  <1>1. ASSUME NEW c \in Callers, NEW kind \in Kinds, Call(c, kind) PROVE TypeOK' /\ CallTypeOK'
    <2>1. [caller |-> c, n |-> call[c].n + 1, kind |-> kind] \in Command
      BY <1>1, CallingFields DEF Call, Command, CallersTypeOK
    <2>2. CallersTypeOK' /\ CallTypeOK'
      BY <2>1, <1>1 DEF Call, CallersTypeOK, CallTypeOK, Calling, ControllerTypeOK
    <2>. QED BY <2>2, <1>1 DEF Call, channel, controller, ControllerTypeOK
  <1>2. ASSUME NEW c \in Callers, Push(c) PROVE TypeOK' /\ CallTypeOK'
    <2>1. call[c] \in Command
      BY <1>2 DEF Push, CallTypeOK
    <2>2. queue' \in Seq(Command) /\ log' \in Seq(Command) /\ Len(queue') <= Cap
      BY <2>1, <1>2, AppendTyped DEF Push, ControllerTypeOK
    <2>3. CallersTypeOK' /\ CallTypeOK'
      <3>1. result' \in [Callers -> {"none", "ok", "gone"}]
        BY <1>2 DEF Push, Return, CallersTypeOK
      <3>2. UNCHANGED <<call, saw, owed>> /\ at[c] = "sending"
        BY <1>2 DEF Push
      <3>3. at' = [at EXCEPT ![c] = "waiting"] \/ at' = [at EXCEPT ![c] = "idle"]
        BY <1>2 DEF Push, Return
      <3>. QED BY <3>1, <3>2, <3>3, MoveTyped
    <2>. QED BY <2>2, <2>3, <1>2 DEF Push, controller, ControllerTypeOK
  <1>3. ASSUME NEW c \in Callers, Refused(c) \/ GiveUp(c) \/ Leave(c) PROVE TypeOK' /\ CallTypeOK'
    <2>1. CallersTypeOK' /\ CallTypeOK'
      <3>1. result' \in [Callers -> {"none", "ok", "gone"}]
        BY <1>3 DEF Refused, GiveUp, Leave, Return, CallersTypeOK
      <3>2. UNCHANGED <<call, saw, owed>>
        BY <1>3 DEF Refused, GiveUp, Leave
      <3>3. at' = [at EXCEPT ![c] = "left"] \/ at' = [at EXCEPT ![c] = "idle"]
        BY <1>3 DEF Refused, GiveUp, Leave, Return
      <3>. QED BY <3>1, <3>2, <3>3, MoveTyped
    <2>. QED BY <2>1, <1>3 DEF Refused, GiveUp, Leave, channel, controller, ControllerTypeOK
  <1>4. CASE Take
    <2>1. Tail(queue) \in Seq(Command) /\ Len(Tail(queue)) <= Cap /\ Head(queue) \in Command
      BY <1>4, TailTyped DEF Take, ControllerTypeOK
    <2>. QED BY <2>1, <1>4 DEF Take, callers, CallersTypeOK, ControllerTypeOK, CallTypeOK
  <1>5. CASE Process
    <2>2. state' \in Seq(Op)
      BY <1>5, AppendTyped DEF Process, ControllerTypeOK
    <2>. QED BY <2>2, <1>5 DEF Process, callers, channel, CallersTypeOK, ControllerTypeOK, CallTypeOK
  <1>6. CASE Finish
    <2>1. PICK x \in served : Settle(x, "ok")
      BY <1>6 DEF Finish
    <2>2. CallersTypeOK' /\ CallTypeOK'
      BY <2>1, SettleTyped DEF ControllerTypeOK
    <2>. QED BY <2>2, <1>6 DEF Finish, channel, ControllerTypeOK
  <1>7. CASE Answer
    <2>1. PICK x \in taken : Settle(x, "ok")
      BY <1>7 DEF Answer
    <2>2. CallersTypeOK' /\ CallTypeOK'
      BY <2>1, SettleTyped DEF ControllerTypeOK
    <2>. QED BY <2>2, <1>7 DEF Answer, channel, ControllerTypeOK
  <1>8. CASE TakeShutdown
    <2>1. Len(log) \in Nat
      BY DEF ControllerTypeOK
    <2>. QED BY <2>1, <1>8 DEF TakeShutdown, callers, channel, CallersTypeOK, ControllerTypeOK, CallTypeOK
  <1>9. CASE Drained \/ InputsClosed \/ Emptied \/ Close
    BY <1>9 DEF Drained, InputsClosed, Emptied, Close, callers, channel, CallersTypeOK,
                ControllerTypeOK, CallTypeOK
  <1>10. CASE Abort
    <2>1. CallersTypeOK' /\ CallTypeOK'
      <3>1. CASE UNCHANGED callers
        BY <3>1 DEF callers, CallersTypeOK, CallTypeOK
      <3>2. CASE \E x \in taken \cup served : Settle(x, "gone")
        BY <3>2, SettleTyped DEF ControllerTypeOK
      <3>. QED BY <3>1, <3>2, <1>10 DEF Abort
    <2>. QED BY <2>1, <1>10 DEF Abort, channel, ControllerTypeOK
  <1>11. CASE Discard
    <2>1. Tail(queue) \in Seq(Command) /\ Len(Tail(queue)) <= Cap /\ Head(queue) \in Command
      BY <1>11, TailTyped DEF Discard, ControllerTypeOK
    <2>2. CallersTypeOK' /\ CallTypeOK'
      BY <2>1, <1>11, SettleTyped DEF Discard, ControllerTypeOK
    <2>. QED BY <2>1, <2>2, <1>11 DEF Discard, controller, ControllerTypeOK
  <1>12. CASE UNCHANGED vars
    BY <1>12 DEF vars, callers, channel, controller, CallersTypeOK, ControllerTypeOK, CallTypeOK
  <1>. QED
    BY <1>1, <1>2, <1>3, <1>4, <1>5, <1>6, <1>7, <1>8, <1>9, <1>10, <1>11, <1>12
    DEF Next, ControllerStep

\* In every behaviour every variable has its type, and the queue its depth.
THEOREM TypeCorrect == Spec => []TypeOK
  BY TypeInit, TypeStep, PTL DEF Spec

-----------------------------------------------------------------------------
(* Order: the queue is the end of the log, and what the controller has in    *)
(* its hands is the command next to what has been through, or the last that  *)
(* has.                                                                      *)

QueueIsEnd ==
  /\ Len(queue) <= Len(log)
  /\ \A i \in 1..Len(queue) : queue[i] = log[Len(log) - Len(queue) + i]

\* How many commands have been through or are about to go.
Past == IF taken = {} THEN done ELSE done + 1

InHand ==
  /\ taken = {} \/ (served = {} /\ taken = {log[done + 1]})
  /\ served = {} \/ (taken = {} /\ done > 0 /\ log[done] \in Op /\ served = {log[done]})
  /\ Past <= Len(log) - Len(queue)
  /\ ~Over => Past = Len(log) - Len(queue)
  /\ Over => taken = {} /\ served = {}

Ordered == QueueIsEnd /\ InHand

LEMMA OrderedInit == Init => Ordered
  <1>. SUFFICES ASSUME Init PROVE Ordered
    OBVIOUS
  <1>1. Len(queue) = 0 /\ Len(log) = 0
    BY EmptySeq DEF Init
  <1>. QED BY <1>1 DEF Init, Ordered, QueueIsEnd, InHand, Past, Over

LEMMA OrderedStep ==
  ASSUME TypeOK, CallTypeOK, Ordered, [Next]_vars
  PROVE  Ordered'
  <1>. USE DEF Ordered
  <1>0. /\ queue \in Seq(Command) /\ log \in Seq(Command) /\ done \in Nat
        /\ Len(queue) \in Nat /\ Len(log) \in Nat
    BY DEF TypeOK, ControllerTypeOK
  <1>1. CASE UNCHANGED <<queue, log, mode, taken, served, done>>
    BY <1>1 DEF QueueIsEnd, InHand, Past, Over
  <1>2. ASSUME NEW c \in Callers, Push(c) PROVE Ordered'
    <2>1. call[c] \in Command
      BY <1>2 DEF Push, CallTypeOK
    <2>2. /\ queue' = Append(queue, call[c]) /\ log' = Append(log, call[c])
          /\ UNCHANGED <<mode, taken, served, done>>
      BY <1>2 DEF Push, controller
    <2>3. /\ Len(queue') = Len(queue) + 1 /\ Len(log') = Len(log) + 1
          /\ \A i \in 1..Len(queue) : queue'[i] = queue[i]
          /\ \A i \in 1..Len(log) : log'[i] = log[i]
          /\ queue'[Len(queue) + 1] = call[c] /\ log'[Len(log) + 1] = call[c]
      BY <1>0, <2>1, <2>2, AppendTyped
    <2>4. QueueIsEnd'
      <3>1. SUFFICES ASSUME NEW i \in 1..Len(queue')
                     PROVE  queue'[i] = log'[Len(log') - Len(queue') + i]
        BY <1>0, <2>3 DEF QueueIsEnd
      <3>2. CASE i = Len(queue) + 1
        BY <3>2, <1>0, <2>3
      <3>3. CASE i \in 1..Len(queue)
        BY <3>3, <1>0, <2>3 DEF QueueIsEnd
      <3>. QED BY <3>2, <3>3, <1>0, <2>3
    <2>5. InHand'
      BY <1>0, <2>2, <2>3 DEF InHand, Past, Over, QueueIsEnd
    <2>. QED BY <2>4, <2>5
  <1>3. CASE (Take \/ Discard)
    <2>1. queue # <<>> /\ queue' = Tail(queue) /\ UNCHANGED <<log, mode, done, served>>
      BY <1>3 DEF Take, Discard, controller
    <2>2. /\ Len(queue') = Len(queue) - 1 /\ Len(queue) > 0
          /\ \A i \in 1..Len(queue') : queue'[i] = queue[i + 1]
          /\ Head(queue) = queue[1]
      BY <1>0, <2>1, TailTyped
    <2>3. QueueIsEnd'
      BY <1>0, <2>1, <2>2 DEF QueueIsEnd
    <2>4. CASE Take
      <3>1. Head(queue) = log[Len(log) - Len(queue) + 1]
        BY <1>0, <2>2 DEF QueueIsEnd
      <3>2. taken = {} /\ served = {} /\ ~Over /\ taken' = {Head(queue)}
        BY <2>4 DEF Take, Over
      <3>3. done = Len(log) - Len(queue)
        BY <3>2 DEF InHand, Past
      <3>. QED BY <1>0, <2>1, <2>2, <2>3, <3>1, <3>2, <3>3 DEF InHand, Past, Over
    <2>5. CASE Discard
      <3>1. UNCHANGED taken /\ Over
        BY <2>5 DEF Discard, controller, Over
      <3>. QED BY <1>0, <2>1, <2>2, <2>3, <3>1 DEF InHand, Past, Over
    <2>. QED BY <1>3, <2>4, <2>5
  <1>4. CASE Process
    <2>1. UNCHANGED <<queue, log, mode>> /\ done' = done + 1 /\ served' = taken /\ taken' = {} /\ taken \cap Op # {}
      BY <1>4 DEF Process, channel
    <2>. QED BY <1>0, <2>1 DEF QueueIsEnd, InHand, Past, Over
  <1>5. CASE (Answer \/ TakeShutdown)
    <2>1. UNCHANGED <<queue, log, served>> /\ done' = done + 1 /\ taken' = {} /\ taken # {}
      BY <1>5 DEF Answer, TakeShutdown, channel
    <2>2. Over' \/ (~Over /\ ~Over')
      BY <1>5, <2>1 DEF Answer, TakeShutdown, InHand, Over
    <2>. QED BY <1>0, <2>1, <2>2 DEF QueueIsEnd, InHand, Past
  <1>6. CASE Finish
    BY <1>6, <1>0 DEF Finish, channel, QueueIsEnd, InHand, Past, Over
  <1>7. CASE Drained \/ InputsClosed \/ Emptied \/ Close
    BY <1>7, <1>0 DEF Drained, InputsClosed, Emptied, Close, channel, QueueIsEnd, InHand, Past, Over
  <1>8. CASE Abort
    BY <1>8, <1>0 DEF Abort, channel, QueueIsEnd, InHand, Past, Over
  <1>9. ASSUME NEW c \in Callers, NEW kind \in Kinds, Call(c, kind) PROVE Ordered'
    BY <1>9, <1>1 DEF Call, channel, controller
  <1>10. ASSUME NEW c \in Callers, Refused(c) \/ GiveUp(c) \/ Leave(c)
         PROVE  Ordered'
    BY <1>10, <1>1 DEF Refused, GiveUp, Leave, channel, controller
  <1>11. CASE UNCHANGED vars
    BY <1>11, <1>1 DEF vars, channel, controller
  <1>. QED
    BY <1>2, <1>3, <1>4, <1>5, <1>6, <1>7, <1>8, <1>9, <1>10, <1>11 DEF Next, ControllerStep

\* What a step does to the log the controller is meant to be.
LEMMA Serves ==
  ASSUME TypeOK, CallTypeOK, Ordered, [Next]_vars
  PROVE  [Promise!Next]_(Promise!vars)
  <1>0. log \in Seq(Command) /\ done \in Nat /\ Len(log) \in Nat /\ Len(queue) \in Nat
    BY DEF TypeOK, ControllerTypeOK
  <1>1. ASSUME NEW c \in Callers, Push(c) PROVE Promise!Next
    <2>1. call[c] \in Command
      BY <1>1 DEF Push, CallTypeOK
    <2>2. Promise!Accept(call[c])
      BY <1>1 DEF Push, controller, Promise!Accept, Over
    <2>. QED BY <2>1, <2>2 DEF Promise!Next
  <1>2. CASE Process \/ Answer \/ TakeShutdown
    <2>1. ~Over /\ taken = {log[done + 1]} /\ done < Len(log) /\ done' = done + 1 /\ UNCHANGED log
      BY <1>0, <1>2 DEF Process, Answer, TakeShutdown, channel, Ordered, InHand, Past
    <2>2. state' = IF log[done'] \in Op THEN Append(state, log[done']) ELSE state
      BY <1>2, <2>1 DEF Process, Answer, TakeShutdown, Op, Shutdowns
    <2>. QED BY <2>1, <2>2 DEF Promise!Next, Promise!Serve, Over
  <1>3. CASE Drained \/ InputsClosed \/ Abort
    BY <1>3 DEF Drained, InputsClosed, Abort, channel, Over, Promise!Next, Promise!End
  <1>4. CASE Take \/ Finish \/ Discard \/ Emptied \/ Close
    BY <1>4 DEF Take, Finish, Discard, Emptied, Close, channel, controller, Over, Promise!vars
  <1>5. ASSUME NEW c \in Callers, Refused(c) \/ GiveUp(c) \/ Leave(c)
        PROVE  UNCHANGED Promise!vars
    BY <1>5 DEF Refused, GiveUp, Leave, channel, controller, Over, Promise!vars
  <1>6. ASSUME NEW c \in Callers, NEW kind \in Kinds, Call(c, kind) PROVE UNCHANGED Promise!vars
    BY <1>6 DEF Call, channel, controller, Over, Promise!vars
  <1>7. CASE UNCHANGED vars
    BY <1>7 DEF vars, channel, controller, Over, Promise!vars
  <1>. QED BY <1>1, <1>2, <1>3, <1>4, <1>5, <1>6, <1>7 DEF Next, ControllerStep

\* The controller implements the log of commands it promises to be.
THEOREM Implements == Spec => InOrder
  <1>1. Init => Promise!Init
    BY DEF Init, Promise!Init, Over
  <1>2. Spec => [](TypeOK /\ CallTypeOK /\ Ordered)
    BY TypeInit, TypeStep, OrderedInit, OrderedStep, PTL DEF Spec
  <1>. QED BY <1>1, <1>2, Serves, PTL DEF Spec, InOrder, Promise!Spec

-----------------------------------------------------------------------------
(* Fresh: a call is in the log once at most, and only once it is sent.       *)

Fresh ==
  /\ \A i \in 1..Len(log) : log[i].n <= call[log[i].caller].n
  /\ \A i \in 1..Len(log), c \in Callers : at[c] = "sending" => log[i] # call[c]
  /\ \A i, j \in 1..Len(log) : log[i] = log[j] => i = j

\* The log holds the calls that were sent after a waiting caller began its own
\* before that one.
Awaited ==
  \A c \in Callers :
    /\ owed[c] <= Len(log)
    /\ at[c] = "waiting" => \A i \in 1..Len(log) : log[i] = call[c] => i > owed[c]

\* What a step that leaves log alone does to a caller: it begins a call, or stays
\* in the call it is making.
LEMMA CallerSteps ==
  ASSUME TypeOK, CallTypeOK, [Next]_vars, UNCHANGED log, NEW c \in Callers
  PROVE  \/ /\ call'[c] \in Command /\ call'[c].caller = c /\ call'[c].n = call[c].n + 1
            /\ at'[c] = "sending" /\ result'[c] = "none" /\ owed'[c] = Len(log)
         \/ /\ call'[c] = call[c] /\ owed'[c] = owed[c]
            /\ at'[c] \in {"sending", "waiting"} => at'[c] = at[c]
  <1>. USE DEF TypeOK, CallersTypeOK
  <1>1. ASSUME NEW d \in Callers, NEW kind \in Kinds, Call(d, kind)
        PROVE  \/ /\ call'[c] \in Command /\ call'[c].caller = c /\ call'[c].n = call[c].n + 1
                  /\ at'[c] = "sending" /\ result'[c] = "none" /\ owed'[c] = Len(log)
               \/ /\ call'[c] = call[c] /\ owed'[c] = owed[c]
                  /\ at'[c] \in {"sending", "waiting"} => at'[c] = at[c]
    <2>1. CallTypeOK'
      BY TypeStep
    <2>. QED BY <1>1, <2>1 DEF Call, CallTypeOK
  <1>2. ASSUME NEW x \in Command, NEW how \in {"ok", "gone"}, Settle(x, how)
        PROVE  /\ call'[c] = call[c] /\ owed'[c] = owed[c]
               /\ at'[c] \in {"sending", "waiting"} => at'[c] = at[c]
    BY <1>2, CommandFields DEF Settle, Return, callers
  <1>3. CASE UNCHANGED callers
    BY <1>3 DEF callers
  <1>4. ASSUME NEW d \in Callers, Refused(d) \/ GiveUp(d) \/ Leave(d)
        PROVE  /\ call'[c] = call[c] /\ owed'[c] = owed[c]
               /\ at'[c] \in {"sending", "waiting"} => at'[c] = at[c]
    BY <1>4 DEF Refused, GiveUp, Leave, Return
  <1>5. ASSUME NEW d \in Callers, Push(d) PROVE FALSE
    <2>1. Len(log') = Len(log) + 1 /\ Len(log) \in Nat
      BY <1>5, AppendTyped DEF Push, CallTypeOK, ControllerTypeOK
    <2>. QED BY <2>1
  <1>6. CASE Finish \/ Answer \/ Abort \/ Discard
    <2>1. taken \subseteq Command /\ served \subseteq Command
      BY DEF ControllerTypeOK
    <2>2. queue # <<>> => Head(queue) \in Command
      BY TailTyped DEF ControllerTypeOK
    <2>. QED BY <1>2, <1>3, <1>6, <2>1, <2>2 DEF Finish, Answer, Abort, Discard
  <1>7. CASE Take \/ Process \/ TakeShutdown \/ Drained \/ InputsClosed \/ Emptied \/ Close
    BY <1>7, <1>3 DEF Take, Process, TakeShutdown, Drained, InputsClosed, Emptied, Close
  <1>. QED
    BY <1>1, <1>3, <1>4, <1>5, <1>6, <1>7 DEF Next, ControllerStep, vars

\* Only a caller that sends touches the log.
LEMMA LogSteps ==
  ASSUME TypeOK, CallTypeOK, [Next]_vars, log' # log
  PROVE  \E c \in Callers :
           /\ at[c] = "sending" /\ call[c] \in Command /\ call[c].caller = c
           /\ log' = Append(log, call[c])
           /\ UNCHANGED <<call, owed, saw, mode, state, done, aborted, cutoff>>
           /\ \A d \in Callers : at'[d] \in {"sending", "waiting"} =>
                IF d = c THEN at'[d] = "waiting" ELSE at'[d] = at[d]
           /\ \A d \in Callers : result'[d] = result[d] \/ (d = c /\ call[c] \notin Replied /\ result'[d] = "ok")
  <1>1. PICK c \in Callers : Push(c)
    BY DEF Next, ControllerStep, Refused, GiveUp, Leave, Call, Take, Process, Finish, Answer,
           TakeShutdown, Drained, InputsClosed, Discard, Emptied, Close, Abort, vars, channel
  <1>2. at[c] = "sending" /\ call[c] \in Command /\ call[c].caller = c
    BY <1>1 DEF Push, CallTypeOK
  <1>. QED
    BY <1>1, <1>2 DEF Push, Return, controller, TypeOK, CallersTypeOK

LEMMA FreshInit == Init => Fresh /\ Awaited
  <1>. SUFFICES ASSUME Init PROVE Fresh /\ Awaited
    OBVIOUS
  <1>1. Len(log) = 0
    BY EmptySeq DEF Init
  <1>. QED BY <1>1 DEF Init, Fresh, Awaited

LEMMA FreshStep ==
  ASSUME TypeOK, CallTypeOK, Fresh, Awaited, [Next]_vars
  PROVE  Fresh' /\ Awaited'
  <1>0. log \in Seq(Command) /\ Len(log) \in Nat /\ \A i \in 1..Len(log) : log[i] \in Command
    BY ElementOfSeq DEF TypeOK, ControllerTypeOK
  <1>00. \A c \in Callers : call[c].n \in Nat /\ owed[c] \in Nat
    BY CallingFields DEF TypeOK, CallersTypeOK
  <1>1. CASE UNCHANGED log
    <2>1. \A c \in Callers :
            /\ call'[c].n >= call[c].n
            /\ at'[c] = "sending" => \/ call'[c] = call[c] /\ at[c] = "sending"
                                     \/ call'[c].n = call[c].n + 1 /\ call'[c].caller = c
            /\ at'[c] = "waiting" => call'[c] = call[c] /\ at[c] = "waiting" /\ owed'[c] = owed[c]
            /\ owed'[c] = owed[c] \/ owed'[c] = Len(log)
      BY <1>1, <1>00, CallerSteps
    <2>2. \A i \in 1..Len(log) : log[i].caller \in Callers /\ log[i].n \in Nat
      BY <1>0, CommandFields
    <2>3. \A i \in 1..Len(log) : log[i].n <= call'[log[i].caller].n
      <3>1. SUFFICES ASSUME NEW i \in 1..Len(log) PROVE log[i].n <= call'[log[i].caller].n
        OBVIOUS
      <3>2. /\ log[i].n <= call[log[i].caller].n
            /\ call'[log[i].caller].n >= call[log[i].caller].n
            /\ call[log[i].caller].n \in Nat /\ log[i].n \in Nat
        BY <1>00, <2>1, <2>2 DEF Fresh
      <3>3. call'[log[i].caller].n \in Nat
        BY <2>2, TypeStep, CallingFields DEF TypeOK, CallersTypeOK
      <3>. QED BY <3>2, <3>3
    <2>4. \A i \in 1..Len(log), c \in Callers : at'[c] = "sending" => log[i] # call'[c]
      <3>1. SUFFICES ASSUME NEW i \in 1..Len(log), NEW c \in Callers, at'[c] = "sending", log[i] = call'[c]
                     PROVE  FALSE
        OBVIOUS
      <3>2. CASE call'[c] = call[c] /\ at[c] = "sending"
        BY <3>1, <3>2 DEF Fresh
      <3>3. CASE call'[c].n = call[c].n + 1 /\ call'[c].caller = c
        BY <3>1, <3>3, <1>00, <2>2 DEF Fresh
      <3>. QED BY <2>1, <3>1, <3>2, <3>3
    <2>. QED BY <1>0, <1>1, <1>00, <2>1, <2>3, <2>4 DEF Fresh, Awaited
  <1>2. CASE log' # log
    <2>1. PICK c \in Callers :
            /\ at[c] = "sending" /\ call[c] \in Command /\ call[c].caller = c
            /\ log' = Append(log, call[c])
            /\ UNCHANGED <<call, owed>>
            /\ \A d \in Callers : at'[d] \in {"sending", "waiting"} =>
                 IF d = c THEN at'[d] = "waiting" ELSE at'[d] = at[d]
      BY <1>2, LogSteps
    <2>2. /\ Len(log') = Len(log) + 1
          /\ \A i \in 1..Len(log) : log'[i] = log[i]
          /\ log'[Len(log) + 1] = call[c]
      BY <1>0, <2>1, AppendTyped
    <2>3. \A d \in Callers : d # c => call[d] # call[c]
      BY <2>1 DEF CallTypeOK
    <2>4. Fresh'
      <3>1. \A i \in 1..Len(log') : log'[i].n <= call'[log'[i].caller].n
        BY <1>0, <1>00, <2>1, <2>2 DEF Fresh
      <3>2. \A i \in 1..Len(log'), d \in Callers : at'[d] = "sending" => log'[i] # call'[d]
        BY <1>0, <2>1, <2>2, <2>3 DEF Fresh
      <3>3. \A i, j \in 1..Len(log') : log'[i] = log'[j] => i = j
        BY <1>0, <2>1, <2>2 DEF Fresh
      <3>. QED BY <3>1, <3>2, <3>3 DEF Fresh
    <2>5. Awaited'
      <3>1. SUFFICES ASSUME NEW d \in Callers, NEW i \in 1..Len(log'), at'[d] = "waiting", log'[i] = call'[d]
                     PROVE  i > owed'[d]
        BY <1>0, <1>00, <2>1, <2>2 DEF Awaited
      <3>2. CASE d = c
        BY <3>1, <3>2, <1>0, <1>00, <2>1, <2>2 DEF Fresh, Awaited
      <3>3. CASE d # c
        BY <3>1, <3>3, <1>0, <1>00, <2>1, <2>2, <2>3 DEF Awaited
      <3>. QED BY <3>2, <3>3
    <2>. QED BY <2>4, <2>5
  <1>. QED BY <1>1, <1>2

-----------------------------------------------------------------------------
(* Applied: the state is made of the ops that have been through, and of all  *)
(* of them.                                                                  *)

Applied ==
  /\ done <= Len(log)
  /\ \A i \in 1..done : log[i] \in Op => log[i] \in Range(state)
  /\ \A x \in Range(state) : \E i \in 1..done : x = log[i]

LEMMA RangeAppend ==
  ASSUME NEW S, NEW s \in Seq(S), NEW e \in S
  PROVE  \A x : x \in Range(Append(s, e)) <=> x \in Range(s) \/ x = e
  <1>1. DOMAIN s = 1..Len(s) /\ DOMAIN Append(s, e) = 1..(Len(s) + 1) /\ Len(s) \in Nat
    OBVIOUS
  <1>. QED BY <1>1, AppendTyped DEF Range

\* The log only grows.
LEMMA LogKept ==
  ASSUME TypeOK, CallTypeOK, [Next]_vars
  PROVE  /\ Len(log) \in Nat /\ Len(log') \in Nat /\ Len(log') >= Len(log)
         /\ \A i \in 1..Len(log) : log'[i] = log[i]
  <1>1. log \in Seq(Command) /\ Len(log) \in Nat
    BY DEF TypeOK, ControllerTypeOK
  <1>2. CASE log' # log
    <2>1. PICK c \in Callers : call[c] \in Command /\ log' = Append(log, call[c])
      BY <1>2, LogSteps
    <2>. QED BY <1>1, <2>1, AppendTyped
  <1>. QED BY <1>1, <1>2

LEMMA AppliedInit == Init => Applied
  <1>. SUFFICES ASSUME Init PROVE Applied
    OBVIOUS
  <1>1. Len(log) = 0 /\ DOMAIN state = {}
    BY EmptySeq DEF Init
  <1>. QED BY <1>1 DEF Init, Applied, Range

LEMMA AppliedStep ==
  ASSUME TypeOK, CallTypeOK, Ordered, Applied, [Next]_vars
  PROVE  Applied'
  <1>0. /\ done \in Nat /\ state \in Seq(Op) /\ log \in Seq(Command)
        /\ \A i \in 1..Len(log) : log[i] \in Command
    BY ElementOfSeq DEF TypeOK, ControllerTypeOK
  <1>1. CASE UNCHANGED <<done, state>>
    BY <1>0, <1>1, LogKept DEF Applied
  <1>2. CASE Promise!Serve
    <2>1. done' = done + 1 /\ log' = log /\ done < Len(log)
      BY <1>2 DEF Promise!Serve
    <2>2. CASE log[done + 1] \in Op
      <3>1. state' = Append(state, log[done + 1])
        BY <1>2, <2>1, <2>2 DEF Promise!Serve
      <3>2. \A x : x \in Range(state') <=> x \in Range(state) \/ x = log[done + 1]
        BY <1>0, <2>2, <3>1, RangeAppend
      <3>. QED BY <1>0, <2>1, <3>2 DEF Applied
    <2>3. CASE log[done + 1] \notin Op
      <3>1. state' = state
        BY <1>2, <2>1, <2>3 DEF Promise!Serve
      <3>. QED BY <1>0, <2>1, <2>3, <3>1 DEF Applied
    <2>. QED BY <2>2, <2>3
  <1>. QED
    BY <1>1, <1>2, Serves DEF Promise!Next, Promise!Accept, Promise!End, Promise!vars

-----------------------------------------------------------------------------
(* Answers.                                                                  *)

\* A controller that is over serves nothing more.
LEMMA OverStays ==
  ASSUME TypeOK, CallTypeOK, Ordered, [Next]_vars, Over
  PROVE  Over' /\ UNCHANGED <<state, done>>
  <1>1. UNCHANGED <<state, done>>
    BY Serves DEF Promise!Next, Promise!Accept, Promise!Serve, Promise!End, Promise!vars
  <1>2. Over'
    BY DEF Over, Ordered, InHand, Next, ControllerStep, Push, Refused, GiveUp, Leave, Call, Take,
           Process, Finish, Answer, TakeShutdown, Drained, InputsClosed, Discard, Emptied, Close,
           Abort, vars, controller
  <1>. QED BY <1>1, <1>2

Same(c) == call'[c] = call[c] /\ owed'[c] = owed[c] /\ saw'[c] = saw[c]

\* x, in the log at done', has been through: its reply is the state.
Answered(c) ==
  /\ at[c] = "waiting" /\ UNCHANGED <<log, state>>
  /\ call'[c] = call[c] /\ owed'[c] = owed[c] /\ saw'[c] = state
  /\ done' > 0 /\ call[c] = log[done']

\* The command of c was not taken, or was taken by an aborted task.
Unserved(c) ==
  /\ call'[c] = call[c]
  /\ \/ aborted'
     \/ /\ Over /\ UNCHANGED log
        /\ at[c] = "sending" \/ (queue # <<>> /\ call[c] = Head(queue))

\* What a step can do to what a caller has been told.
LEMMA ResultSteps ==
  ASSUME TypeOK, CallTypeOK, Ordered, [Next]_vars, NEW c \in Callers
  PROVE  \/ result'[c] = "none"
         \/ result'[c] = result[c] /\ Same(c)
         \/ result'[c] = "ok" /\ call'[c] = call[c] /\ call[c] \notin Replied
         \/ result'[c] = "ok" /\ Answered(c)
         \/ result'[c] = "gone" /\ Unserved(c)
  <1>. DEFINE Told == \/ result'[c] = "none"
                      \/ result'[c] = result[c] /\ Same(c)
                      \/ result'[c] = "ok" /\ call'[c] = call[c] /\ call[c] \notin Replied
                      \/ result'[c] = "ok" /\ Answered(c)
                      \/ result'[c] = "gone" /\ Unserved(c)
  <1>0. /\ call \in [Callers -> Calling] /\ result \in [Callers -> {"none", "ok", "gone"}]
        /\ saw \in [Callers -> Seq(Op)] /\ owed \in [Callers -> Nat] /\ done \in Nat
        /\ at \in [Callers -> {"idle", "sending", "waiting", "left"}]
        /\ taken \subseteq Command /\ served \subseteq Command
    BY DEF TypeOK, CallersTypeOK, ControllerTypeOK
  <1>1. CASE UNCHANGED callers
    BY <1>1 DEF callers, Same
  <1>2. ASSUME NEW x \in Command, NEW how \in {"ok", "gone"}, Settle(x, how)
        PROVE  \/ result'[c] = result[c] /\ Same(c)
               \/ /\ x = call[c] /\ at[c] = "waiting" /\ result'[c] = how
                  /\ call'[c] = call[c] /\ owed'[c] = owed[c] /\ saw'[c] = state
    <2>1. CASE UNCHANGED callers
      BY <2>1 DEF callers, Same
    <2>2. CASE /\ at[x.caller] = "waiting" /\ x = call[x.caller]
               /\ Return(x.caller, how) /\ saw' = [saw EXCEPT ![x.caller] = state] /\ UNCHANGED <<call, owed>>
      BY <2>2, <1>0, CommandFields DEF Return, Same
    <2>. QED BY <2>1, <2>2, <1>2 DEF Settle
  <1>3. ASSUME NEW d \in Callers, NEW kind \in Kinds, Call(d, kind) PROVE Told
    BY <1>3, <1>0 DEF Call, Same
  <1>4. ASSUME NEW d \in Callers, Push(d) PROVE Told
    BY <1>4, <1>0 DEF Push, Return, Same
  <1>5. ASSUME NEW d \in Callers, Refused(d) PROVE Told
    BY <1>5, <1>0 DEF Refused, Return, Same, Unserved, Over, channel
  <1>6. ASSUME NEW d \in Callers, GiveUp(d) \/ Leave(d) PROVE Told
    BY <1>6, <1>0 DEF GiveUp, Leave, Return, Same
  <1>7. CASE Finish
    <2>1. PICK x \in served : Settle(x, "ok")
      BY <1>7 DEF Finish
    <2>2. x = log[done'] /\ done' > 0 /\ UNCHANGED <<log, state>>
      BY <2>1, <1>7 DEF Finish, channel, Ordered, InHand
    <2>. QED BY <2>1, <2>2, <1>0, <1>2 DEF Answered
  <1>8. CASE Answer
    <2>1. PICK x \in taken : Settle(x, "ok")
      BY <1>8 DEF Answer
    <2>2. x = log[done'] /\ done' > 0 /\ UNCHANGED <<log, state>>
      BY <2>1, <1>0, <1>8 DEF Answer, channel, Ordered, InHand
    <2>. QED BY <2>1, <2>2, <1>0, <1>2 DEF Answered
  <1>9. CASE Abort
    <2>1. aborted'
      BY <1>9 DEF Abort
    <2>2. CASE \E x \in taken \cup served : Settle(x, "gone")
      BY <2>1, <2>2, <1>0, <1>2 DEF Unserved
    <2>. QED BY <2>2, <1>1, <1>9 DEF Abort
  <1>10. CASE Discard
    <2>1. queue # <<>> /\ Settle(Head(queue), "gone") /\ Over /\ UNCHANGED log
      BY <1>10 DEF Discard, Over
    <2>2. Head(queue) \in Command
      BY <2>1, TailTyped DEF TypeOK, ControllerTypeOK
    <2>. QED BY <2>1, <2>2, <1>2 DEF Unserved
  <1>11. CASE Take \/ Process \/ TakeShutdown \/ Drained \/ InputsClosed \/ Emptied \/ Close
    BY <1>11, <1>1 DEF Take, Process, TakeShutdown, Drained, InputsClosed, Emptied, Close
  <1>12. CASE UNCHANGED vars
    BY <1>12, <1>1 DEF vars
  <1>. QED
    BY <1>3, <1>4, <1>5, <1>6, <1>7, <1>8, <1>9, <1>10, <1>11, <1>12 DEF Next, ControllerStep

LEMMA AnswersStep ==
  ASSUME TypeOK, CallTypeOK, Ordered, Awaited, Applied, AnswersAreCurrent, [Next]_vars
  PROVE  AnswersAreCurrent'
  <1>1. SUFFICES ASSUME NEW c \in Callers, result'[c] = "ok", call'[c] \in Replied
                 PROVE  /\ \A i \in 1..owed'[c] : log'[i] \in Op => log'[i] \in Range(saw'[c])
                        /\ call'[c] \in Op => call'[c] \in Range(saw'[c])
    BY DEF AnswersAreCurrent
  <1>2. Applied' /\ done' \in Nat
    BY AppliedStep, TypeStep DEF TypeOK, ControllerTypeOK
  <1>3. owed[c] \in Nat
    BY DEF TypeOK, CallersTypeOK
  <1>4. CASE result[c] = "ok" /\ Same(c)
    BY <1>1, <1>3, <1>4, LogKept DEF Same, AnswersAreCurrent, Awaited
  <1>5. CASE Answered(c)
    <2>1. done' > owed[c] /\ done' <= Len(log)
      BY <1>2, <1>5, LogKept DEF Answered, Awaited, Applied
    <2>2. \A i \in 1..done' : log[i] \in Op => log[i] \in Range(state)
      BY <1>2, <1>5 DEF Answered, Applied
    <2>. QED BY <1>2, <1>3, <1>5, <2>1, <2>2 DEF Answered
  <1>. QED BY <1>1, <1>4, <1>5, ResultSteps

LEMMA GoneStep ==
  ASSUME TypeOK, CallTypeOK, Ordered, Fresh, Applied, GoneIsUnapplied, [Next]_vars
  PROVE  GoneIsUnapplied'
  <1>1. SUFFICES ASSUME NEW c \in Callers, result'[c] = "gone", ~aborted'
                 PROVE  Over' /\ call'[c] \notin Range(state')
    BY DEF GoneIsUnapplied
  <1>2. ~aborted
    BY <1>1 DEF Next, ControllerStep, Push, Refused, GiveUp, Leave, Call, Take, Process, Finish,
                Answer, TakeShutdown, Drained, InputsClosed, Discard, Emptied, Close, Abort, vars,
                controller
  <1>3. CASE result[c] = "gone" /\ Same(c)
    BY <1>2, <1>3, OverStays DEF Same, GoneIsUnapplied
  <1>4. CASE Unserved(c)
    <2>1. Over /\ call'[c] = call[c]
      BY <1>1, <1>4 DEF Unserved
    <2>2. Over' /\ state' = state
      BY <2>1, OverStays
    <2>3. done \in Nat /\ Len(log) \in Nat /\ Len(queue) \in Nat /\ queue \in Seq(Command)
      BY DEF TypeOK, ControllerTypeOK
    <2>4. SUFFICES ASSUME NEW i \in 1..done, call[c] = log[i] PROVE FALSE
      BY <2>1, <2>2 DEF Applied
    <2>5. i \in 1..Len(log)
      BY <2>3 DEF Applied
    <2>6. CASE at[c] = "sending"
      BY <2>4, <2>5, <2>6 DEF Fresh
    <2>7. CASE queue # <<>> /\ call[c] = Head(queue)
      <3>1. Len(queue) > 0 /\ Head(queue) = queue[1]
        BY <2>3, <2>7, TailTyped
      <3>2. Head(queue) = log[Len(log) - Len(queue) + 1] /\ Len(queue) <= Len(log)
        BY <2>3, <3>1 DEF Ordered, QueueIsEnd
      <3>3. done <= Len(log) - Len(queue)
        BY <2>3 DEF Ordered, InHand, Past
      <3>4. Len(log) - Len(queue) + 1 \in 1..Len(log) /\ Len(log) - Len(queue) + 1 # i
        BY <2>3, <3>1, <3>2, <3>3
      <3>. QED BY <2>4, <2>5, <2>7, <3>2, <3>4 DEF Fresh
    <2>. QED BY <1>1, <1>4, <2>6, <2>7 DEF Unserved
  <1>. QED BY <1>1, <1>3, <1>4, ResultSteps

-----------------------------------------------------------------------------
(* The drain.                                                                *)

\* Two Shutdowns have been through.
ShutTwice == \E j, k \in 1..done : j < k /\ log[j] \in Shutdowns /\ log[k] \in Shutdowns

Drain ==
  /\ cutoff <= Len(log)
  /\ mode = "running" => cutoff = 0
  /\ mode = "draining" => \E j \in 1..done : log[j] \in Shutdowns
  /\ (Over /\ ~aborted) => cutoff <= done \/ ShutTwice

LEMMA DrainInit == Init => Drain
  BY EmptySeq DEF Init, Drain, Over

LEMMA DrainStep ==
  ASSUME TypeOK, CallTypeOK, Ordered, Applied, Drain, [Next]_vars
  PROVE  Drain'
  <1>0. /\ done \in Nat /\ cutoff \in Nat /\ Len(log) \in Nat /\ done <= Len(log)
        /\ Len(queue) \in Nat
    BY DEF TypeOK, ControllerTypeOK, Applied
  <1>1. CASE UNCHANGED <<mode, done, aborted, cutoff>>
    <2>1. /\ Len(log') \in Nat /\ Len(log') >= Len(log)
          /\ \A i \in 1..Len(log) : log'[i] = log[i]
      BY LogKept
    <2>2. \A j \in 1..done : j \in 1..Len(log) /\ log'[j] = log[j]
      BY <1>0, <2>1
    <2>3. ShutTwice => ShutTwice'
      BY <1>1, <2>2 DEF ShutTwice
    <2>4. (\E j \in 1..done : log[j] \in Shutdowns) => \E j \in 1..done' : log'[j] \in Shutdowns
      BY <1>1, <2>2
    <2>5. (cutoff <= Len(log))'
      BY <1>0, <1>1, <2>1 DEF Drain
    <2>. QED BY <1>1, <2>3, <2>4, <2>5 DEF Drain, Over
  <1>2. CASE Process \/ Answer
    <2>1. done' = done + 1 /\ UNCHANGED <<mode, aborted, cutoff, log>> /\ ~Over
      BY <1>2 DEF Process, Answer, channel, Ordered, InHand
    <2>. QED BY <1>0, <2>1 DEF Drain, Over
  <1>3. CASE TakeShutdown
    <2>1. /\ done' = done + 1 /\ UNCHANGED <<aborted, log>> /\ ~Over
          /\ log[done'] \in Shutdowns /\ done' <= Len(log)
      BY <1>0, <1>3 DEF TakeShutdown, channel, Ordered, InHand, Past
    <2>2. CASE mode = "running"
      BY <1>0, <1>3, <2>1, <2>2 DEF TakeShutdown, Drain, Over
    <2>3. CASE mode = "draining"
      <3>1. PICK j \in 1..done : log[j] \in Shutdowns
        BY <2>3 DEF Drain
      <3>2. ShutTwice'
        BY <1>0, <2>1, <3>1 DEF ShutTwice
      <3>3. mode' = "dropping" /\ cutoff' = cutoff
        BY <1>3, <2>3 DEF TakeShutdown
      <3>. QED BY <2>1, <3>2, <3>3 DEF Drain
    <2>. QED BY <2>1, <2>2, <2>3 DEF Over
  <1>4. CASE Drained \/ InputsClosed
    <2>1. mode' = "dropping" /\ UNCHANGED <<log, done, cutoff, aborted>> /\ taken = {} /\ Len(queue) = 0 /\ ~Over
      BY <1>4, EmptySeq DEF Drained, InputsClosed, channel, Over
    <2>2. done = Len(log)
      BY <1>0, <2>1 DEF Ordered, InHand, Past
    <2>. QED BY <1>0, <2>1, <2>2 DEF Drain
  <1>5. CASE Abort
    BY <1>5 DEF Abort, channel, Drain
  <1>6. CASE Emptied \/ Close
    BY <1>6 DEF Emptied, Close, channel, Drain, Over, ShutTwice
  <1>7. CASE Take \/ Finish \/ Discard
    BY <1>7, <1>1 DEF Take, Finish, Discard, controller
  <1>8. ASSUME NEW c \in Callers, Push(c) \/ Refused(c) \/ GiveUp(c) \/ Leave(c) PROVE Drain'
    BY <1>8, <1>1 DEF Push, Refused, GiveUp, Leave, controller
  <1>9. ASSUME NEW c \in Callers, NEW kind \in Kinds, Call(c, kind) PROVE Drain'
    BY <1>9, <1>1 DEF Call, controller
  <1>10. CASE UNCHANGED vars
    BY <1>10, <1>1 DEF vars, controller
  <1>. QED
    BY <1>2, <1>3, <1>4, <1>5, <1>6, <1>7, <1>8, <1>9, <1>10 DEF Next, ControllerStep

LEMMA DrainEnough ==
  ASSUME TypeOK, Applied, Drain
  PROVE  DrainServes
  <1>1. SUFFICES ASSUME Over, ~aborted, NEW i \in 1..cutoff, log[i] \in Op, ~Behind(i)
                 PROVE  log[i] \in Range(state)
    BY DEF DrainServes
  <1>2. done \in Nat /\ cutoff \in Nat
    BY DEF TypeOK, ControllerTypeOK
  <1>3. i <= done
    BY <1>1, <1>2 DEF Drain, ShutTwice, Behind
  <1>. QED BY <1>1, <1>2, <1>3 DEF Applied

-----------------------------------------------------------------------------
(* The invariant, and what follows from it.                                  *)

IInv ==
  /\ TypeOK /\ CallTypeOK
  /\ Ordered /\ Fresh /\ Awaited /\ Applied /\ Drain
  /\ AnswersAreCurrent /\ GoneIsUnapplied

LEMMA Inductive == Spec => []IInv
  <1>1. Init => IInv
    <2>1. Init => AnswersAreCurrent /\ GoneIsUnapplied
      BY DEF Init, AnswersAreCurrent, GoneIsUnapplied
    <2>. QED
      BY <2>1, TypeInit, OrderedInit, FreshInit, AppliedInit, DrainInit DEF IInv
  <1>2. IInv /\ [Next]_vars => IInv'
    BY TypeStep, OrderedStep, FreshStep, AppliedStep, DrainStep, AnswersStep, GoneStep DEF IInv
  <1>. QED BY <1>1, <1>2, PTL DEF Spec

\* A query reads, and acknowledged ops follow, everything accepted before the call
\* began; an acknowledgement means the ops are applied.
THEOREM Answers == Spec => []AnswersAreCurrent
  BY Inductive, PTL DEF IInv

\* Of a call answered with ControllerGone nothing is in the state that a controller
\* which was shut down returns.
THEOREM Gone == Spec => []GoneIsUnapplied
  BY Inductive, PTL DEF IInv

\* A controller that was shut down has served what the Shutdown found queued, up to
\* a second Shutdown.
THEOREM Drains == Spec => []DrainServes
  <1>1. IInv => DrainServes
    BY DrainEnough DEF IInv
  <1>. QED BY <1>1, Inductive, PTL

-----------------------------------------------------------------------------
(* Waiting: a caller that waits is owed a reply the controller still has,    *)
(* and every step of the controller brings it nearer.                        *)

\* The command of a waiting caller is queued or in the controller's hands.
HasIt == \A c \in Callers : at[c] = "waiting" =>
  call[c] \in Replied /\ call[c] \in Range(queue) \cup taken \cup served

\* ... and queued no more than once.
QueuedOnce == \A i, j \in 1..Len(queue) : queue[i] = queue[j] => i = j

\* Where x is in the queue q; 0 when it is not.
Place(q, x) == IF x \in Range(q) THEN CHOOSE i \in DOMAIN q : q[i] = x ELSE 0

\* The controller's steps, at most, to the reply of c: three to a command ahead.
Ahead(c) == 3 * Place(queue, call[c]) + (IF taken # {} THEN 2 ELSE IF served # {} THEN 1 ELSE 0)

\* A caller waits, and the queue was not yet found empty for the last time.
Pending(c) == at[c] = "waiting" /\ mode \notin {"closing", "gone"}

\* The controller is not at rest: it serves or takes, or its queue's drop goes on.
Busy ==
  \/ mode \in {"running", "draining"} /\ (queue # <<>> \/ taken \cup served # {})
  \/ mode = "dropping" /\ queue # <<>>

RepliesComing == \A c \in Callers : Pending(c) => Ahead(c) \in 1..(3 * Cap + 2) /\ Busy

RepliesNearer ==
  [][\A c \in Callers : (Pending(c) /\ Pending(c)') =>
       /\ Ahead(c)' <= Ahead(c)
       /\ ControllerStep => Ahead(c)' < Ahead(c)]_vars

LEMMA PlaceIs ==
  ASSUME NEW S, NEW q \in Seq(S), NEW x,
         \A i, j \in 1..Len(q) : q[i] = q[j] => i = j
  PROVE  /\ Place(q, x) \in 0..Len(q)
         /\ x \in Range(q) => Place(q, x) > 0 /\ q[Place(q, x)] = x
         /\ x \notin Range(q) => Place(q, x) = 0
         /\ \A i \in 1..Len(q) : q[i] = x => Place(q, x) = i
<1>1. DOMAIN q = 1..Len(q) /\ Len(q) \in Nat
  OBVIOUS
<1>2. x \in Range(q) <=> \E i \in 1..Len(q) : q[i] = x
  BY <1>1 DEF Range
<1>3. CASE x \in Range(q)
  <2>1. Place(q, x) \in 1..Len(q) /\ q[Place(q, x)] = x
    BY <1>1, <1>2, <1>3 DEF Place
  <2>. QED BY <1>1, <1>3, <2>1
<1>4. CASE x \notin Range(q)
  BY <1>1, <1>2, <1>4 DEF Place
<1>. QED BY <1>3, <1>4

LEMMA Singly == ASSUME TypeOK, Ordered, Fresh PROVE QueuedOnce
<1>1. Len(queue) \in Nat /\ Len(log) \in Nat /\ Len(queue) <= Len(log)
  BY DEF TypeOK, ControllerTypeOK, Ordered, QueueIsEnd
<1>. SUFFICES ASSUME NEW i \in 1..Len(queue), NEW j \in 1..Len(queue), queue[i] = queue[j]
              PROVE  i = j
  BY DEF QueuedOnce
<1>2. log[Len(log) - Len(queue) + i] = log[Len(log) - Len(queue) + j]
  BY DEF Ordered, QueueIsEnd
<1>. QED BY <1>1, <1>2 DEF Fresh

\* A caller waits because it waited, in the same call, or because it has just sent.
LEMMA StillWaits ==
  ASSUME TypeOK, CallTypeOK, [Next]_vars, NEW c \in Callers, at'[c] = "waiting"
  PROVE  \/ at[c] = "waiting" /\ call'[c] = call[c]
         \/ Push(c) /\ call[c] \in Replied /\ call'[c] = call[c]
<1>1. CASE UNCHANGED log
  BY <1>1, CallerSteps
<1>2. CASE log' # log
  <2>1. PICK d \in Callers : Push(d)
    BY <1>2 DEF Next, ControllerStep, Refused, GiveUp, Leave, Call, Take, Process, Finish, Answer,
           TakeShutdown, Drained, InputsClosed, Discard, Emptied, Close, Abort, vars, channel
  <2>. QED BY <2>1 DEF Push, Return, TypeOK, CallersTypeOK
<1>. QED BY <1>1, <1>2

\* A reply used or dropped ends the wait for it.
LEMMA Settled ==
  ASSUME TypeOK, CallTypeOK, NEW x \in Command, NEW how, Settle(x, how), NEW c \in Callers,
         at[c] = "waiting", at'[c] = "waiting"
  PROVE  call[c] # x
<1>. SUFFICES ASSUME call[c] = x PROVE FALSE
  OBVIOUS
<1>1. x.caller = c
  BY DEF CallTypeOK
<1>2. at' = [at EXCEPT ![c] = "idle"]
  BY <1>1 DEF Settle, Return
<1>. QED BY <1>2 DEF TypeOK, CallersTypeOK

\* What is in the controller's hands is one command, and what it takes out of the
\* queue is the first of it.
LEMMA HandFacts ==
  ASSUME TypeOK, Ordered
  PROVE  /\ \A x, y \in taken \cup served : x = y
         /\ taken = {} \/ served = {}
         /\ mode \notin {"running", "draining"} => taken = {} /\ served = {}
         /\ taken \cup served \subseteq Command
<1>1. \E x : taken \cup served \subseteq {x}
  BY DEF Ordered, InHand
<1>. QED BY <1>1 DEF TypeOK, ControllerTypeOK, Ordered, InHand, Over

LEMMA HeadGoes ==
  ASSUME TypeOK, queue # <<>>
  PROVE  Head(queue) \in Command /\ Range(queue) = {Head(queue)} \cup Range(Tail(queue))
<1>1. queue \in Seq(Command)
  BY DEF TypeOK, ControllerTypeOK
<1>2. /\ Tail(queue) \in Seq(Command) /\ Len(Tail(queue)) = Len(queue) - 1 /\ Len(queue) > 0
      /\ Head(queue) \in Command /\ Head(queue) = queue[1]
      /\ \A i \in 1..Len(Tail(queue)) : Tail(queue)[i] = queue[i + 1]
  BY <1>1, TailTyped
<1>3. /\ DOMAIN queue = 1..Len(queue) /\ DOMAIN Tail(queue) = 1..Len(Tail(queue))
      /\ Len(queue) \in Nat
  BY <1>1, <1>2
<1>4. ASSUME NEW i \in 1..Len(queue)
      PROVE  queue[i] \in {Head(queue)} \cup Range(Tail(queue))
  <2>1. CASE i = 1
    BY <1>2, <2>1
  <2>2. CASE i # 1
    <3>1. i - 1 \in 1..Len(Tail(queue)) /\ Tail(queue)[i - 1] = queue[(i - 1) + 1] /\ (i - 1) + 1 = i
      BY <1>2, <1>3, <2>2
    <3>. QED BY <1>3, <3>1 DEF Range
  <2>. QED BY <2>1, <2>2
<1>5. ASSUME NEW i \in 1..Len(Tail(queue))
      PROVE  Tail(queue)[i] \in Range(queue)
  <2>1. i + 1 \in 1..Len(queue) /\ Tail(queue)[i] = queue[i + 1]
    BY <1>2, <1>3
  <2>. QED BY <1>3, <2>1 DEF Range
<1>6. Head(queue) \in Range(queue)
  <2>1. 1 \in 1..Len(queue)
    BY <1>2, <1>3
  <2>. QED BY <1>2, <1>3, <2>1 DEF Range
<1>. QED BY <1>2, <1>3, <1>4, <1>5, <1>6 DEF Range

LEMMA HasItStep ==
  ASSUME TypeOK, CallTypeOK, Ordered, HasIt, [Next]_vars
  PROVE  HasIt'
<1>. SUFFICES ASSUME NEW c \in Callers, at'[c] = "waiting"
              PROVE  call'[c] \in Replied /\ call'[c] \in Range(queue') \cup taken' \cup served'
  BY DEF HasIt
<1>1. \/ at[c] = "waiting" /\ call'[c] = call[c]
      \/ Push(c) /\ call[c] \in Replied /\ call'[c] = call[c]
  BY StillWaits
<1>2. ASSUME NEW d \in Callers, Push(d)
      PROVE  /\ \A x : x \in Range(queue') <=> x \in Range(queue) \/ x = call[d]
             /\ UNCHANGED <<taken, served>>
  <2>1. call[d] \in Command /\ queue \in Seq(Command) /\ queue' = Append(queue, call[d])
    BY <1>2 DEF Push, CallTypeOK, TypeOK, ControllerTypeOK
  <2>2. UNCHANGED <<taken, served>>
    BY <1>2 DEF Push, controller
  <2>. QED BY <2>1, <2>2, RangeAppend
<1>3. CASE Push(c) /\ call[c] \in Replied /\ call'[c] = call[c]
  BY <1>2, <1>3
<1>4. CASE at[c] = "waiting" /\ call'[c] = call[c]
  <2>1. call[c] \in Replied /\ call[c] \in Range(queue) \cup taken \cup served
    BY <1>4 DEF HasIt
  <2>. SUFFICES call[c] \in Range(queue') \cup taken' \cup served'
    BY <1>4, <2>1
  <2>2. ASSUME NEW d \in Callers, Push(d) PROVE call[c] \in Range(queue') \cup taken' \cup served'
    BY <2>1, <2>2, <1>2
  <2>3. CASE Take
    <3>1. Range(queue) = {Head(queue)} \cup Range(queue')
      BY <2>3, HeadGoes DEF Take
    <3>. QED BY <2>1, <2>3, <3>1 DEF Take
  <2>4. CASE Process
    BY <2>1, <2>4, HandFacts DEF Process, channel
  <2>5. CASE Finish
    <3>1. call[c] \notin served
      BY <2>5, <1>4, HandFacts, Settled DEF Finish
    <3>. QED BY <2>1, <2>5, <3>1 DEF Finish, channel
  <2>6. CASE Answer
    <3>1. call[c] \notin taken
      BY <2>6, <1>4, HandFacts, Settled DEF Answer
    <3>. QED BY <2>1, <2>6, <3>1 DEF Answer, channel
  <2>7. CASE TakeShutdown
    <3>1. call[c] \notin Shutdowns
      BY <2>1 DEF Replied, Shutdowns
    <3>2. call[c] \notin taken
      BY <2>7, <3>1, HandFacts DEF TakeShutdown
    <3>. QED BY <2>1, <2>7, <3>2 DEF TakeShutdown, channel
  <2>8. CASE Abort
    <3>1. call[c] \notin taken \cup served
      BY <2>8, <1>4, HandFacts, Settled DEF Abort
    <3>. QED BY <2>1, <2>8, <3>1 DEF Abort, channel
  <2>9. CASE Discard
    <3>1. Head(queue) \in Command /\ Range(queue) = {Head(queue)} \cup Range(queue')
      BY <2>9, HeadGoes DEF Discard
    <3>2. call[c] # Head(queue)
      BY <2>9, <3>1, <1>4, Settled DEF Discard
    <3>. QED BY <2>1, <2>9, <3>1, <3>2 DEF Discard, controller
  <2>10. ASSUME UNCHANGED <<queue, taken, served>>
         PROVE  call[c] \in Range(queue') \cup taken' \cup served'
    BY <2>1, <2>10
  <2>11. CASE Drained \/ InputsClosed \/ Emptied \/ Close
    BY <2>10, <2>11 DEF Drained, InputsClosed, Emptied, Close, channel
  <2>12. ASSUME NEW d \in Callers, Refused(d) \/ GiveUp(d) \/ Leave(d)
         PROVE  call[c] \in Range(queue') \cup taken' \cup served'
    BY <2>10, <2>12 DEF Refused, GiveUp, Leave, channel, controller
  <2>13. ASSUME NEW d \in Callers, NEW kind \in Kinds, Call(d, kind)
         PROVE  call[c] \in Range(queue') \cup taken' \cup served'
    BY <2>10, <2>13 DEF Call, channel, controller
  <2>14. CASE UNCHANGED vars
    BY <2>10, <2>14 DEF vars, channel, controller
  <2>. QED
    BY <2>2, <2>3, <2>4, <2>5, <2>6, <2>7, <2>8, <2>9, <2>11, <2>12, <2>13, <2>14 DEF Next, ControllerStep
<1>. QED BY <1>1, <1>3, <1>4

LEMMA RepliesBounded ==
  ASSUME TypeOK, Ordered, QueuedOnce, HasIt
  PROVE  RepliesComing
<1>. SUFFICES ASSUME NEW c \in Callers, Pending(c) PROVE Ahead(c) \in 1..(3 * Cap + 2) /\ Busy
  BY DEF RepliesComing
<1>1. /\ queue \in Seq(Command) /\ Len(queue) \in Nat /\ Len(queue) <= Cap /\ Cap \in Nat
      /\ mode \in Modes
  BY ControllerAssumption DEF TypeOK, ControllerTypeOK
<1>2. call[c] \in Range(queue) \cup taken \cup served
  BY DEF Pending, HasIt
<1>3. /\ Place(queue, call[c]) \in 0..Len(queue)
      /\ call[c] \in Range(queue) => Place(queue, call[c]) > 0
  BY <1>1, PlaceIs DEF QueuedOnce
<1>4. Ahead(c) \in 1..(3 * Cap + 2)
  <2>1. CASE call[c] \in Range(queue)
    BY <1>1, <1>3, <2>1 DEF Ahead
  <2>2. CASE call[c] \in taken \cup served
    BY <1>1, <1>3, <2>2 DEF Ahead
  <2>. QED BY <1>2, <2>1, <2>2
<1>5. queue # <<>> \/ taken \cup served # {}
  <2>1. queue = <<>> => Range(queue) = {}
    BY DEF Range
  <2>. QED BY <1>2, <2>1
<1>6. mode \notin {"running", "draining"} => taken \cup served = {}
  BY HandFacts
<1>. QED BY <1>1, <1>4, <1>5, <1>6 DEF Busy, Pending, Modes

LEMMA NearerStep ==
  ASSUME TypeOK, CallTypeOK, Ordered, QueuedOnce, QueuedOnce', TypeOK', HasIt, [Next]_vars,
         NEW c \in Callers, Pending(c), Pending(c)'
  PROVE  /\ Ahead(c)' <= Ahead(c)
         /\ ControllerStep => Ahead(c)' < Ahead(c)
<1>. DEFINE p == Place(queue, call[c])  p1 == Place(queue', call'[c])
            hand == IF taken # {} THEN 2 ELSE IF served # {} THEN 1 ELSE 0
            hand1 == IF taken' # {} THEN 2 ELSE IF served' # {} THEN 1 ELSE 0
<1>0. Ahead(c) = 3 * p + hand /\ Ahead(c)' = 3 * p1 + hand1
  BY DEF Ahead
<1>1. /\ queue \in Seq(Command) /\ queue' \in Seq(Command)
      /\ Len(queue) \in Nat /\ Len(queue') \in Nat
      /\ DOMAIN queue = 1..Len(queue) /\ DOMAIN queue' = 1..Len(queue')
  BY DEF TypeOK, ControllerTypeOK
<1>2. /\ at[c] = "waiting" /\ call'[c] = call[c] /\ at'[c] = "waiting"
  BY StillWaits DEF Pending, Push
<1>3. /\ p \in 0..Len(queue)
      /\ call[c] \in Range(queue) => p > 0 /\ queue[p] = call[c]
      /\ call[c] \notin Range(queue) => p = 0
      /\ \A i \in 1..Len(queue) : queue[i] = call[c] => p = i
  BY <1>1, PlaceIs DEF QueuedOnce
<1>4. /\ p1 \in 0..Len(queue')
      /\ call[c] \in Range(queue') => p1 > 0 /\ queue'[p1] = call[c]
      /\ call[c] \notin Range(queue') => p1 = 0
      /\ \A i \in 1..Len(queue') : queue'[i] = call[c] => p1 = i
  BY <1>1, <1>2, PlaceIs DEF QueuedOnce
<1>5. call[c] \in Range(queue) \cup taken \cup served
  BY <1>2 DEF HasIt
<1>6. hand \in 0..2 /\ hand1 \in 0..2
  OBVIOUS
<1>7. queue' = queue => p1 = p
  BY <1>2
<1>. HIDE DEF p, p1
\* The queue loses its head.
<1>8. ASSUME queue # <<>>, queue' = Tail(queue)
      PROVE  p1 <= p /\ (p > 0 => p1 < p)
  <2>1. /\ Len(queue') = Len(queue) - 1 /\ Len(queue) > 0
        /\ \A i \in 1..Len(queue') : queue'[i] = queue[i + 1]
    BY <1>1, <1>8, TailTyped
  <2>2. CASE p1 = 0
    BY <1>3, <2>2
  <2>3. CASE p1 # 0
    <3>1. p1 \in 1..Len(queue') /\ queue'[p1] = call[c]
      BY <1>4, <2>3
    <3>2. p1 + 1 \in 1..Len(queue) /\ queue[p1 + 1] = call[c]
      BY <1>1, <2>1, <3>1
    <3>. QED BY <1>1, <1>3, <3>1, <3>2
  <2>. QED BY <2>2, <2>3
<1>9. CASE Take
  <2>1. /\ p1 <= p /\ (p > 0 => p1 < p) /\ hand = 0
    BY <1>8, <1>9 DEF Take
  <2>2. p > 0
    BY <1>3, <1>5, <1>9 DEF Take
  <2>. QED BY <1>0, <1>1, <1>3, <1>4, <1>6, <2>1, <2>2
<1>10. CASE Discard
  <2>1. /\ p1 <= p /\ (p > 0 => p1 < p) /\ UNCHANGED <<taken, served>>
    BY <1>8, <1>10 DEF Discard, controller
  <2>2. taken = {} /\ served = {}
    BY <1>10, HandFacts DEF Discard
  <2>3. p > 0
    BY <1>3, <1>5, <2>2
  <2>4. hand = 0 /\ hand1 = 0
    BY <2>1, <2>2
  <2>. QED BY <1>0, <1>1, <1>3, <1>4, <2>1, <2>3, <2>4
<1>11. CASE Process \/ Answer \/ TakeShutdown
  <2>1. queue' = queue /\ taken # {} /\ taken' = {}
    BY <1>11, HandFacts DEF Process, Answer, TakeShutdown, channel
  <2>. QED BY <1>0, <1>1, <1>3, <1>7, <2>1
<1>12. CASE Finish
  <2>1. queue' = queue /\ served # {} /\ served' = {} /\ taken' = taken
    BY <1>12 DEF Finish, channel
  <2>2. taken = {}
    BY <2>1, HandFacts
  <2>. QED BY <1>0, <1>1, <1>3, <1>7, <2>1, <2>2
<1>13. CASE Drained \/ InputsClosed \/ Emptied \/ Close
  <2>1. Close => FALSE
    BY DEF Close, Pending
  <2>2. queue = <<>> /\ taken = {} /\ served = {}
    BY <1>13, <2>1, HandFacts DEF Drained, InputsClosed, Emptied
  <2>3. Range(queue) = {}
    BY <2>2 DEF Range
  <2>. QED BY <1>5, <2>2, <2>3
<1>14. CASE Abort
  <2>1. queue' = queue /\ taken' = {} /\ served' = {}
    BY <1>14 DEF Abort, channel
  <2>2. ~ControllerStep \/ Ahead(c)' < Ahead(c)
    BY <1>9, <1>10, <1>11, <1>12, <1>13 DEF ControllerStep
  <2>. QED BY <1>0, <1>1, <1>3, <1>6, <1>7, <2>1, <2>2
<1>15. ASSUME NEW d \in Callers, Push(d)
       PROVE  Ahead(c)' <= Ahead(c)
  <2>1. d # c
    BY <1>2, <1>15 DEF Push
  <2>2. call[d] \in Command /\ call[d] # call[c]
    BY <1>15, <2>1 DEF Push, CallTypeOK
  <2>3. queue' = Append(queue, call[d]) /\ UNCHANGED <<taken, served>>
    BY <1>15 DEF Push, controller
  <2>4. /\ Len(queue') = Len(queue) + 1
        /\ \A i \in 1..Len(queue) : queue'[i] = queue[i]
        /\ queue'[Len(queue) + 1] = call[d]
    BY <1>1, <2>2, <2>3, AppendTyped
  <2>5. p1 = p
    <3>1. CASE p1 = 0
      <4>1. p = 0
        BY <1>1, <1>3, <1>4, <2>4, <3>1
      <4>. QED BY <3>1, <4>1
    <3>2. CASE p1 # 0
      <4>1. p1 \in 1..Len(queue') /\ queue'[p1] = call[c]
        BY <1>4, <3>2
      <4>2. p1 # Len(queue) + 1
        BY <2>2, <2>4, <4>1
      <4>3. p1 \in 1..Len(queue) /\ queue[p1] = call[c]
        BY <1>1, <2>4, <4>1, <4>2
      <4>. QED BY <1>3, <4>3
    <3>. QED BY <3>1, <3>2
  <2>. QED BY <1>0, <1>1, <1>3, <2>3, <2>5
<1>16. ASSUME UNCHANGED <<queue, taken, served>>
       PROVE  Ahead(c)' <= Ahead(c)
  BY <1>0, <1>1, <1>3, <1>6, <1>7, <1>16
<1>17. ASSUME NEW d \in Callers, Refused(d) \/ GiveUp(d) \/ Leave(d)
       PROVE  Ahead(c)' <= Ahead(c)
  BY <1>16, <1>17 DEF Refused, GiveUp, Leave, channel, controller
<1>18. ASSUME NEW d \in Callers, NEW kind \in Kinds, Call(d, kind)
       PROVE  Ahead(c)' <= Ahead(c)
  BY <1>16, <1>18 DEF Call, channel, controller
<1>19. ASSUME UNCHANGED vars
       PROVE  Ahead(c)' <= Ahead(c)
  BY <1>16, <1>19 DEF vars, channel, controller
<1>20. ControllerStep => Ahead(c)' < Ahead(c)
  BY <1>9, <1>10, <1>11, <1>12, <1>13 DEF ControllerStep
<1>21. Ahead(c) \in Nat /\ Ahead(c)' \in Nat
  BY <1>0, <1>1, <1>3, <1>4, <1>6
<1>22. ControllerStep => Ahead(c)' <= Ahead(c)
  BY <1>20, <1>21
<1>23. Ahead(c)' <= Ahead(c)
  BY <1>14, <1>15, <1>17, <1>18, <1>19, <1>22 DEF Next
<1>. QED BY <1>20, <1>23

LEMMA Waiting == Spec => [](IInv /\ QueuedOnce /\ HasIt)
<1>1. Init => HasIt
  BY DEF Init, HasIt
<1>2. IInv /\ HasIt /\ [Next]_vars => HasIt'
  BY HasItStep DEF IInv
<1>3. IInv => QueuedOnce
  BY Singly DEF IInv
<1>. QED BY <1>1, <1>2, <1>3, Inductive, PTL DEF Spec

\* While a caller waits the controller has its command, no reply is lost, and the
\* controller is never at rest: at most 3 * Cap + 2 of its steps are ahead of the
\* reply, until the queue is found empty for the last time (run, Reply, CommandQueue's drop).
THEOREM RepliesAreComing == Spec => []RepliesComing
<1>1. IInv /\ QueuedOnce /\ HasIt => RepliesComing
  BY RepliesBounded DEF IInv
<1>. QED BY <1>1, Waiting, PTL

\* Every step of the controller brings every waiting caller's reply nearer, and no
\* other step, of whichever caller, puts it off (the bounded FIFO that run takes from).
THEOREM RepliesComeNearer == Spec => RepliesNearer
<1>1. ASSUME IInv, QueuedOnce, HasIt, IInv', QueuedOnce', [Next]_vars
      PROVE  [\A c \in Callers : (Pending(c) /\ Pending(c)') =>
                /\ Ahead(c)' <= Ahead(c)
                /\ ControllerStep => Ahead(c)' < Ahead(c)]_vars
  BY <1>1, NearerStep DEF IInv
<1>. QED BY <1>1, Waiting, PTL DEF Spec, RepliesNearer
=============================================================================
