------------------------- MODULE ConnectionsProofs -------------------------
(***************************************************************************)
(* For any number of connections and agents and any queue depths: every    *)
(* variable keeps its type and every queue its depth, the agent index      *)
(* agrees with the registry, each arrival and each departure is announced  *)
(* at most once and accounted for, the controller's roster settles on the  *)
(* registry, and while tasks alone end connections a departure never       *)
(* overtakes its arrival.                                                  *)
(***************************************************************************)
EXTENDS Connections, PickingProofs

-----------------------------------------------------------------------------
(* Types.                                                                  *)

StateTypeOK == TaskTypeOK /\ PresenceTypeOK

LEMMA EventTyped == \A c \in Conns : Joined(c) \in Event /\ Left(c) \in Event
  BY DEF Joined, Left, Event

LEMMA EventsDiffer ==
  \A c, d \in Conns : /\ Joined(c) # Left(d)
                      /\ Joined(c) = Joined(d) => c = d
                      /\ Left(c) = Left(d) => c = d
  BY DEF Joined, Left

LEMMA AppendTyped ==
  ASSUME NEW S, NEW s \in Seq(S), NEW e \in S
  PROVE  Append(s, e) \in Seq(S) /\ Len(Append(s, e)) = Len(s) + 1
  OBVIOUS

LEMMA TailTyped ==
  ASSUME NEW S, NEW s \in Seq(S), s # <<>>
  PROVE  Tail(s) \in Seq(S) /\ Len(Tail(s)) = Len(s) - 1 /\ Head(s) \in S
  BY HeadTailProperties

\* What TrySend and Announce do to the stream, whoever calls them.
LEMMA AnnounceTyped ==
  ASSUME NEW e \in Event, PresenceTypeOK, TrySend(e) \/ Announce(e)
  PROVE  presence' \in Seq(Event) /\ Len(presence') <= PresenceCap /\ lost' \subseteq Event
  <1>. USE ConnectionsAssumption
  <1>1. CASE Publish(e) /\ Room
    BY <1>1, AppendTyped DEF Publish, Room, PresenceTypeOK
  <1>2. CASE Discard(e)
    BY <1>2 DEF Discard, PresenceTypeOK
  <1>. QED BY <1>1, <1>2 DEF TrySend, Announce

LEMMA TypeInit == Init => StateTypeOK
  BY ConnectionsAssumption DEF Init, StateTypeOK, TaskTypeOK, PresenceTypeOK, Stages

\* One step keeps the types.
LEMMA TypeStep ==
  ASSUME StateTypeOK, [Next]_vars
  PROVE  StateTypeOK'
  <1>. USE ConnectionsAssumption DEF StateTypeOK
  <1>. DEFINE Frame == <<overflow, byConn, follows, presence, lost, ctl, cut, severed, told>>
  <1>0. ASSUME UNCHANGED Frame PROVE PresenceTypeOK'
    BY <1>0 DEF PresenceTypeOK
  <1>1. ASSUME NEW c \in Conns, Register(c) PROVE StateTypeOK'
    <2>1. TaskTypeOK'
      BY <1>1 DEF Register, Goto, Insert, inbound, TaskTypeOK, Stages
    <2>2. PresenceTypeOK'
      BY <1>1 DEF Register, Insert, stream, controller, PresenceTypeOK
    <2>. QED BY <2>1, <2>2
  <1>2. ASSUME NEW c \in Conns, AnnounceJoin(c) PROVE StateTypeOK'
    <2>1. TaskTypeOK'
      BY <1>2 DEF AnnounceJoin, Goto, link, inbound, TaskTypeOK, Stages
    <2>2. presence' \in Seq(Event) /\ Len(presence') <= PresenceCap /\ lost' \subseteq Event
      BY <1>2, AnnounceTyped, EventTyped DEF AnnounceJoin
    <2>3. PresenceTypeOK'
      BY <1>2, <2>2 DEF AnnounceJoin, registry, controller, PresenceTypeOK
    <2>. QED BY <2>1, <2>3
  <1>3. ASSUME NEW c \in Conns, AnnounceLeft(c) PROVE StateTypeOK'
    <2>1. TaskTypeOK'
      BY <1>3 DEF AnnounceLeft, Goto, link, inbound, TaskTypeOK, Stages
    <2>2. presence' \in Seq(Event) /\ Len(presence') <= PresenceCap /\ lost' \subseteq Event
      BY <1>3, AnnounceTyped, EventTyped DEF AnnounceLeft
    <2>3. PresenceTypeOK'
      BY <1>3, <2>2 DEF AnnounceLeft, registry, controller, PresenceTypeOK
    <2>. QED BY <2>1, <2>3
  <1>4. ASSUME NEW c \in Conns, TakeHandles(c) PROVE StateTypeOK'
    <2>1. TaskTypeOK'
      BY <1>4 DEF TakeHandles, Goto, link, inbound, TaskTypeOK, Stages
    <2>. QED BY <1>4, <2>1, <1>0 DEF TakeHandles, registry, stream, controller
  <1>5. ASSUME NEW c \in Conns, StartWrite(c) PROVE StateTypeOK'
    <2>1. TaskTypeOK'
      BY <1>5 DEF StartWrite, Goto, link, inbound, TaskTypeOK, Stages
    <2>. QED BY <1>5, <2>1, <1>0 DEF StartWrite, registry, stream, controller
  <1>6. ASSUME NEW c \in Conns, FinishWrite(c) PROVE StateTypeOK'
    <2>1. TaskTypeOK'
      BY <1>6 DEF FinishWrite, Goto, link, inbound, TaskTypeOK, Stages
    <2>. QED BY <1>6, <2>1, <1>0 DEF FinishWrite, registry, stream, controller
  <1>7. ASSUME NEW c \in Conns, Read(c) PROVE StateTypeOK'
    <2>1. TaskTypeOK'
      <3>1. raw' \in Seq(Conns) /\ Len(raw') <= RawCap
        <4>1. raw \in Seq(Conns) /\ Len(raw) <= RawCap
          BY DEF TaskTypeOK
        <4>2. raw' = raw \/ (Len(raw) < RawCap /\ raw' = Append(raw, c))
          BY <1>7 DEF Read, Forward
        <4>. QED BY <4>1, <4>2, AppendTyped
      <3>2. task' \in [Conns -> Stages]
        <4>1. task \in [Conns -> Stages]
          BY DEF TaskTypeOK
        <4>2. \/ task' = task
              \/ task' = [task EXCEPT ![c] = "leaving"]
              \/ task' = [task EXCEPT ![c] = "forwarding"]
          BY <1>7 DEF Read, Goto
        <4>3. "leaving" \in Stages /\ "forwarding" \in Stages
          BY DEF Stages
        <4>. QED BY <4>1, <4>2, <4>3
      <3>. QED BY <1>7, <3>1, <3>2 DEF Read, link, TaskTypeOK
    <2>. QED BY <1>7, <2>1, <1>0 DEF Read, registry, stream, controller
  <1>8. ASSUME NEW c \in Conns, FinishForward(c) PROVE StateTypeOK'
    <2>1. TaskTypeOK'
      BY <1>8 DEF FinishForward, Goto, link, inbound, TaskTypeOK, Stages, Forward
    <2>. QED BY <1>8, <2>1, <1>0 DEF FinishForward, registry, stream, controller
  <1>9. ASSUME NEW c \in Conns, TakeOrder(c) PROVE StateTypeOK'
    <2>1. TaskTypeOK'
      <3>1. orders[c] \in Seq(Order) /\ orders[c] # <<>> /\ Len(orders[c]) <= OrderCap
        BY <1>9 DEF TakeOrder, TaskTypeOK
      <3>2. Tail(orders[c]) \in Seq(Order) /\ Len(Tail(orders[c])) <= OrderCap
        BY <3>1, TailTyped
      <3>3. orders' \in [Conns -> Seq(Order)] /\ \A d \in Conns : Len(orders'[d]) <= OrderCap
        BY <1>9, <3>2 DEF TakeOrder, TaskTypeOK
      <3>4. task' \in [Conns -> Stages] /\ deadline' \in [Conns -> BOOLEAN]
        BY <1>9 DEF TakeOrder, Goto, TaskTypeOK, Stages
      <3>. QED BY <1>9, <3>3, <3>4 DEF TakeOrder, inbound, TaskTypeOK
    <2>. QED BY <1>9, <2>1, <1>0 DEF TakeOrder, registry, stream, controller
  <1>10. ASSUME NEW c \in Conns, DeadlineExpires(c) PROVE StateTypeOK'
    <2>1. TaskTypeOK'
      BY <1>10 DEF DeadlineExpires, Goto, link, inbound, TaskTypeOK, Stages
    <2>. QED BY <1>10, <2>1, <1>0 DEF DeadlineExpires, registry, stream, controller
  <1>11. ASSUME NEW c \in Conns, Flush(c) PROVE StateTypeOK'
    <2>1. TaskTypeOK'
      BY <1>11 DEF Flush, Goto, link, inbound, TaskTypeOK, Stages
    <2>. QED BY <1>11, <2>1, <1>0 DEF Flush, registry, stream, controller
  <1>12. ASSUME NEW c \in Conns, SocketEnds(c) PROVE StateTypeOK'
    <2>1. TaskTypeOK'
      BY <1>12 DEF SocketEnds, Goto, link, inbound, TaskTypeOK, Stages
    <2>. QED BY <1>12, <2>1, <1>0 DEF SocketEnds, registry, stream, controller
  <1>13. ASSUME NEW c \in Conns, Deregister(c) PROVE StateTypeOK'
    <2>1. TaskTypeOK'
      BY <1>13 DEF Deregister, Goto, link, inbound, TaskTypeOK, Stages
    <2>2. PresenceTypeOK'
      BY <1>13 DEF Deregister, Remove, stream, controller, PresenceTypeOK
    <2>. QED BY <2>1, <2>2
  <1>14. ASSUME NEW c \in Conns, NEW order \in Order, GiveOrder(c, order) PROVE StateTypeOK'
    <2>1. TaskTypeOK'
      BY <1>14 DEF GiveOrder, inbound, TaskTypeOK
    <2>. QED BY <1>14, <2>1, <1>0 DEF GiveOrder, registry, stream, controller
  <1>15. CASE Bridge
    <2>1. TaskTypeOK'
      <3>1. Tail(raw) \in Seq(Conns) /\ Len(Tail(raw)) <= RawCap /\ Head(raw) \in Conns
        BY <1>15, TailTyped DEF Bridge, TaskTypeOK
      <3>2. typed' \in Seq(Conns) /\ Len(typed') <= TypedCap
        <4>1. typed \in Seq(Conns) /\ Len(typed) <= TypedCap
          BY DEF TaskTypeOK
        <4>2. typed' = typed \/ (Len(typed) < TypedCap /\ typed' = Append(typed, Head(raw)))
          BY <1>15 DEF Bridge
        <4>. QED BY <4>1, <4>2, <3>1, AppendTyped
      <3>. QED BY <1>15, <3>1, <3>2 DEF Bridge, link, TaskTypeOK
    <2>. QED BY <1>15, <2>1, <1>0 DEF Bridge, registry, stream, controller
  <1>16. CASE BridgeStops
    <2>1. TaskTypeOK'
      <3>1. raw' = <<>> /\ bridging' = FALSE
        BY <1>16 DEF BridgeStops
      <3>2. raw' \in Seq(Conns) /\ Len(raw') <= RawCap
        BY <3>1
      <3>. QED BY <1>16, <3>1, <3>2 DEF BridgeStops, link, TaskTypeOK
    <2>. QED BY <1>16, <2>1, <1>0 DEF BridgeStops, registry, stream, controller
  <1>17. CASE PollPresence
    <2>1. TaskTypeOK'
      BY <1>17 DEF PollPresence, link, inbound, TaskTypeOK
    <2>2. PresenceTypeOK'
      <3>1. presence # <<>> =>
              Tail(presence) \in Seq(Event) /\ Len(Tail(presence)) <= PresenceCap /\ Head(presence) \in Event
        BY TailTyped DEF PresenceTypeOK
      <3>. QED BY <1>17, <3>1 DEF PollPresence, registry, PresenceTypeOK
    <2>. QED BY <2>1, <2>2
  <1>18. CASE PollCommands
    <2>1. TaskTypeOK'
      BY <1>18 DEF PollCommands, link, inbound, TaskTypeOK
    <2>2. PresenceTypeOK'
      BY <1>18 DEF PollCommands, registry, stream, PresenceTypeOK
    <2>. QED BY <2>1, <2>2
  <1>19. CASE PollOps
    <2>1. TaskTypeOK'
      <3>1. typed' \in Seq(Conns) /\ Len(typed') <= TypedCap
        <4>1. typed \in Seq(Conns) /\ Len(typed) <= TypedCap
          BY DEF TaskTypeOK
        <4>2. typed' = typed \/ (typed # <<>> /\ typed' = Tail(typed))
          BY <1>19 DEF PollOps
        <4>. QED BY <4>1, <4>2, TailTyped
      <3>. QED BY <1>19, <3>1 DEF PollOps, link, TaskTypeOK
    <2>2. PresenceTypeOK'
      BY <1>19 DEF PollOps, registry, stream, PresenceTypeOK
    <2>. QED BY <2>1, <2>2
  <1>20. CASE Handled
    <2>1. TaskTypeOK'
      BY <1>20 DEF Handled, link, inbound, TaskTypeOK
    <2>2. PresenceTypeOK'
      BY <1>20 DEF Handled, registry, stream, PresenceTypeOK
    <2>. QED BY <2>1, <2>2
  <1>21. CASE Stop
    <2>1. TaskTypeOK'
      BY <1>21 DEF Stop, link, inbound, TaskTypeOK
    <2>2. PresenceTypeOK'
      BY <1>21 DEF Stop, registry, stream, PresenceTypeOK
    <2>. QED BY <2>1, <2>2
  <1>22. ASSUME NEW c \in Conns, Sever(c) PROVE StateTypeOK'
    <2>1. TaskTypeOK'
      BY <1>22 DEF Sever, link, inbound, TaskTypeOK
    <2>2. PresenceTypeOK'
      BY <1>22 DEF Sever, Remove, stream, PresenceTypeOK
    <2>. QED BY <2>1, <2>2
  <1>23. ASSUME NEW c \in Conns, AnnounceSevered(c) PROVE StateTypeOK'
    <2>1. TaskTypeOK'
      BY <1>23 DEF AnnounceSevered, link, inbound, TaskTypeOK
    <2>2. presence' \in Seq(Event) /\ Len(presence') <= PresenceCap /\ lost' \subseteq Event
      BY <1>23, AnnounceTyped, EventTyped DEF AnnounceSevered
    <2>3. PresenceTypeOK'
      BY <1>23, <2>2 DEF AnnounceSevered, registry, PresenceTypeOK
    <2>. QED BY <2>1, <2>3
  <1>24. ASSUME NEW agents \in SUBSET Agents, Send(agents) PROVE StateTypeOK'
    <2>1. TaskTypeOK'
      BY <1>24 DEF Send, Addressed, inbound, TaskTypeOK, PresenceTypeOK
    <2>2. PresenceTypeOK'
      BY <1>24 DEF Send, Addressed, registry, stream, PresenceTypeOK
    <2>. QED BY <2>1, <2>2
  <1>25. CASE UNCHANGED vars
    BY <1>25 DEF vars, registry, link, stream, inbound, controller, TaskTypeOK, PresenceTypeOK
  <1>. QED
    BY <1>1, <1>2, <1>3, <1>4, <1>5, <1>6, <1>7, <1>8, <1>9, <1>10, <1>11, <1>12, <1>13, <1>14, <1>15, <1>16, <1>17, <1>18, <1>19, <1>20, <1>21, <1>22, <1>23, <1>24, <1>25
    DEF Next, TaskStep, Proceed, Drained, Await, Select, PeerStep, ControllerStep

\* Every variable but the agent index has its type, and every queue its depth.
THEOREM TypeCorrect == Spec => []StateTypeOK
  BY TypeInit, TypeStep, PTL DEF Spec


-----------------------------------------------------------------------------
(* What an announcement does to the accounts of every event.               *)

\* No event is announced by the step; exactly e is; none is any more than before.
Quiet ==
  \A f \in Event :
    /\ Announced(f)' <=> Announced(f)
    /\ AtMostOnce(f) => AtMostOnce(f)'

Recorded(e) ==
  \A f \in Event :
    /\ Announced(f)' <=> (Announced(f) \/ f = e)
    /\ (AtMostOnce(f) /\ (f = e => ~Announced(f))) => AtMostOnce(f)'

LEMMA UnchangedQuiet ==
  ASSUME UNCHANGED <<presence, lost, told>>
  PROVE  Quiet
  BY DEF Quiet, Announced, AtMostOnce, OnStream

LEMMA PublishRecorded ==
  ASSUME NEW e \in Event, presence \in Seq(Event), Publish(e), told' = told
  PROVE  Recorded(e)
  <1>1. /\ DOMAIN presence' = 1..(Len(presence) + 1)
        /\ DOMAIN presence = 1..Len(presence)
        /\ Len(presence) \in Nat
        /\ \A i \in 1..Len(presence) : presence'[i] = presence[i]
        /\ presence'[Len(presence) + 1] = e
    BY AppendProperties DEF Publish
  <1>2. ASSUME NEW f \in Event
        PROVE  OnStream(f)' <=> (OnStream(f) \/ f = e)
    BY <1>1 DEF OnStream
  <1>3. ASSUME NEW f \in Event
        PROVE  Announced(f)' <=> (Announced(f) \/ f = e)
    BY <1>2 DEF Announced, Publish
  <1>4. ASSUME NEW f \in Event, AtMostOnce(f), f = e => ~Announced(f)
        PROVE  AtMostOnce(f)'
    <2>1. ASSUME NEW i \in DOMAIN presence', NEW j \in DOMAIN presence',
                 presence'[i] = f, presence'[j] = f
          PROVE  i = j
      <3>1. CASE f = e
        <4>1. \A k \in 1..Len(presence) : presence[k] # e
          BY <3>1, <1>4, <1>1 DEF Announced, OnStream
        <4>. QED BY <4>1, <2>1, <1>1, <3>1
      <3>2. CASE f # e
        BY <3>2, <2>1, <1>1, <1>4 DEF AtMostOnce
      <3>. QED BY <3>1, <3>2
    <2>2. OnStream(f)' => f \notin told' /\ f \notin lost'
      BY <1>2, <1>4 DEF AtMostOnce, Announced, Publish
    <2>. QED BY <2>1, <2>2, <1>4 DEF AtMostOnce, Publish
  <1>. QED BY <1>3, <1>4 DEF Recorded

LEMMA DiscardRecorded ==
  ASSUME NEW e \in Event, Discard(e), told' = told
  PROVE  Recorded(e)
  BY DEF Recorded, Discard, Announced, AtMostOnce, OnStream

LEMMA AnnounceRecorded ==
  ASSUME NEW e \in Event, presence \in Seq(Event), told' = told, TrySend(e) \/ Announce(e)
  PROVE  Recorded(e)
  BY PublishRecorded, DiscardRecorded DEF TrySend, Announce

\* Taking the head of the stream moves it to what the controller was told.
LEMMA TakenQuiet ==
  ASSUME presence \in Seq(Event), presence # <<>>,
         presence' = Tail(presence), told' = told \cup {Head(presence)}, lost' = lost,
         \A f \in Event : AtMostOnce(f)
  PROVE  Quiet
  <1>. DEFINE n == Len(presence)
  <1>1. /\ n \in Nat \ {0}
        /\ DOMAIN presence = 1..n /\ DOMAIN presence' = 1..(n - 1)
        /\ \A i \in 1..(n - 1) : presence'[i] = presence[i + 1]
        /\ Head(presence) = presence[1] /\ Head(presence) \in Event
    BY HeadTailProperties
  <1>. HIDE DEF n
  <1>2. ASSUME NEW f \in Event
        PROVE  OnStream(f) <=> (OnStream(f)' \/ f = Head(presence))
    <2>1. ASSUME NEW i \in 1..n, presence[i] = f
          PROVE  OnStream(f)' \/ f = Head(presence)
      <3>1. CASE i = 1 BY <3>1, <2>1, <1>1
      <3>2. CASE i # 1
        <4>1. i - 1 \in 1..(n - 1) /\ presence'[i - 1] = f
          BY <3>2, <2>1, <1>1
        <4>. QED BY <4>1, <1>1 DEF OnStream
      <3>. QED BY <3>1, <3>2
    <2>2. OnStream(f)' => OnStream(f)
      <3>1. ASSUME NEW i \in 1..(n - 1), presence'[i] = f
            PROVE  OnStream(f)
        <4>1. i + 1 \in 1..n /\ presence[i + 1] = f
          BY <3>1, <1>1
        <4>. QED BY <4>1, <1>1 DEF OnStream
      <3>. QED BY <3>1, <1>1 DEF OnStream
    <2>3. f = Head(presence) => OnStream(f)
      BY <1>1 DEF OnStream
    <2>. QED BY <2>1, <2>2, <2>3, <1>1 DEF OnStream
  <1>3. ASSUME NEW f \in Event
        PROVE  Announced(f)' <=> Announced(f)
    BY <1>2 DEF Announced
  <1>4. ASSUME NEW f \in Event
        PROVE  AtMostOnce(f)'
    <2>1. ASSUME NEW i \in 1..(n - 1), NEW j \in 1..(n - 1), presence'[i] = f, presence'[j] = f
          PROVE  i = j
      <3>1. /\ i + 1 \in 1..n /\ presence[i + 1] = f
            /\ j + 1 \in 1..n /\ presence[j + 1] = f
        BY <2>1, <1>1
      <3>2. i + 1 = j + 1
        BY <3>1, <1>1 DEF AtMostOnce
      <3>. QED BY <3>2, <1>1
    <2>2. OnStream(f)' => f # Head(presence)
      <3>1. SUFFICES ASSUME NEW i \in 1..(n - 1), presence'[i] = f, f = presence[1]
                     PROVE  FALSE
        BY <1>1 DEF OnStream
      <3>2. i + 1 \in 1..n /\ 1 \in 1..n /\ presence[i + 1] = f /\ i + 1 # 1
        BY <3>1, <1>1
      <3>. QED BY <3>1, <3>2, <1>1 DEF AtMostOnce
    <2>3. OnStream(f)' => f \notin told' /\ f \notin lost'
      BY <2>2, <1>2 DEF AtMostOnce
    <2>4. ~(f \in told' /\ f \in lost')
      <3>1. f = Head(presence) => f \notin lost
        BY <1>2 DEF AtMostOnce
      <3>. QED BY <3>1 DEF AtMostOnce
    <2>. QED BY <2>1, <2>3, <2>4, <1>1 DEF AtMostOnce
  <1>. QED BY <1>3, <1>4 DEF Quiet


-----------------------------------------------------------------------------
(* The inductive invariant: the accounts, and who is out of the registry.  *)

Membership ==
  /\ \A c, d \in severed : c = d
  /\ \A c \in Conns :
       /\ task[c] \in {"outside", "departing", "gone", "panicked"} => c \notin byConn
       /\ c \in severed => c \notin byConn /\ task[c] \notin {"outside", "departing"}

IInv == StateTypeOK /\ Membership /\ PresenceAccounted

\* A step that announces nothing keeps the accounts if it leaves every connection
\* as early and as pending as it was.
LEMMA QuietStep ==
  ASSUME PresenceAccounted, Quiet, Listening' => Listening,
         \A c \in Conns : (Early(c)' <=> Early(c)) /\ (Pending(c)' <=> Pending(c))
  PROVE  PresenceAccounted'
  BY EventTyped DEF Quiet, PresenceAccounted

\* The step that announces an arrival is the one that ends its being early.
LEMMA JoinStep ==
  ASSUME NEW c \in Conns, PresenceAccounted, Recorded(Joined(c)), Listening' => Listening,
         Early(c), ~Early(c)',
         \A d \in Conns : /\ d # c => (Early(d)' <=> Early(d))
                          /\ Pending(d)' <=> Pending(d)
  PROVE  PresenceAccounted'
  BY EventTyped, EventsDiffer DEF Recorded, PresenceAccounted

\* The step that announces a departure is the one that ends its pending.
LEMMA LeftStep ==
  ASSUME NEW c \in Conns, PresenceAccounted, Recorded(Left(c)), Listening' => Listening,
         Pending(c), ~Pending(c)',
         \A d \in Conns : /\ d # c => (Pending(d)' <=> Pending(d))
                          /\ Early(d)' <=> Early(d)
  PROVE  PresenceAccounted'
  BY EventTyped, EventsDiffer DEF Recorded, PresenceAccounted

LEMMA InvInit == Init => IInv
  <1>. SUFFICES ASSUME Init PROVE IInv
    OBVIOUS
  <1>1. Membership
    BY DEF Init, Membership
  <1>2. PresenceAccounted
    BY DEF Init, PresenceAccounted, AtMostOnce, Announced, OnStream, Early, Pending
  <1>. QED BY <1>1, <1>2, TypeInit DEF IInv

\* A step of a task between registering and leaving changes nothing that counts.
LEMMA PumpStep ==
  ASSUME StateTypeOK, Membership, PresenceAccounted,
         UNCHANGED <<byConn, presence, lost, told, severed, ctl>>,
         NEW c \in Conns, NEW stage \in Stages, Goto(c, stage),
         task[c] \notin {"outside", "inserted", "departing", "gone", "panicked"},
         stage \notin {"outside", "inserted", "departing", "gone"},
         stage = "panicked" => c \notin byConn
  PROVE  Membership' /\ PresenceAccounted'
  <1>. USE DEF StateTypeOK, TaskTypeOK, Goto
  <1>1. \A d \in Conns : task'[d] = IF d = c THEN stage ELSE task[d]
    OBVIOUS
  <1>2. Membership'
    BY <1>1 DEF Membership
  <1>3. \A d \in Conns : (Early(d)' <=> Early(d)) /\ (Pending(d)' <=> Pending(d))
    BY <1>1 DEF Early, Pending
  <1>. QED BY <1>2, <1>3, UnchangedQuiet, QuietStep DEF Listening

\* A step that leaves the tasks and the registry alone, and announces nothing.
LEMMA IdleStep ==
  ASSUME Membership, PresenceAccounted, Quiet, Listening' => Listening,
         UNCHANGED <<task, byConn, severed>>
  PROVE  Membership' /\ PresenceAccounted'
  BY QuietStep DEF Membership, Early, Pending

\* One step keeps the invariant.
LEMMA InvStep ==
  ASSUME IInv, [Next]_vars
  PROVE  IInv'
  <1>. USE DEF IInv
  <1>. SUFFICES Membership' /\ PresenceAccounted'
    BY TypeStep
  <1>1. ASSUME NEW c \in Conns, Register(c) PROVE Membership' /\ PresenceAccounted'
    <2>1. \A d \in Conns : task'[d] = IF d = c THEN "inserted" ELSE task[d]
      BY <1>1 DEF Register, Goto, StateTypeOK, TaskTypeOK
    <2>2. byConn' = byConn \cup {c} /\ task[c] = "outside"
      BY <1>1 DEF Register, Insert
    <2>3. UNCHANGED <<presence, lost, told, severed, ctl>>
      BY <1>1 DEF Register, stream, controller
    <2>4. Membership'
      BY <2>1, <2>2, <2>3 DEF Membership
    <2>5. \A d \in Conns : (Early(d)' <=> Early(d)) /\ (Pending(d)' <=> Pending(d))
      BY <2>1, <2>2, <2>3 DEF Early, Pending
    <2>. QED BY <2>3, <2>4, <2>5, UnchangedQuiet, QuietStep DEF Listening
  <1>2. ASSUME NEW c \in Conns, AnnounceJoin(c) PROVE Membership' /\ PresenceAccounted'
    <2>1. \A d \in Conns : task'[d] = IF d = c THEN "registered" ELSE task[d]
      BY <1>2 DEF AnnounceJoin, Goto, StateTypeOK, TaskTypeOK
    <2>2. task[c] = "inserted" /\ UNCHANGED <<byConn, told, severed, ctl>>
      BY <1>2 DEF AnnounceJoin, registry, controller
    <2>3. Recorded(Joined(c))
      BY <1>2, <2>2, EventTyped, AnnounceRecorded DEF AnnounceJoin, StateTypeOK, PresenceTypeOK
    <2>4. Membership'
      BY <2>1, <2>2 DEF Membership
    <2>5. /\ Early(c) /\ ~Early(c)'
          /\ \A d \in Conns : (d # c => (Early(d)' <=> Early(d))) /\ (Pending(d)' <=> Pending(d))
      BY <2>1, <2>2 DEF Early, Pending
    <2>. QED BY <2>2, <2>3, <2>4, <2>5, JoinStep DEF Listening
  <1>3. ASSUME NEW c \in Conns, AnnounceLeft(c) PROVE Membership' /\ PresenceAccounted'
    <2>1. \A d \in Conns : task'[d] = IF d = c THEN "gone" ELSE task[d]
      BY <1>3 DEF AnnounceLeft, Goto, StateTypeOK, TaskTypeOK
    <2>2. task[c] = "departing" /\ UNCHANGED <<byConn, told, severed, ctl>>
      BY <1>3 DEF AnnounceLeft, registry, controller
    <2>3. Recorded(Left(c))
      BY <1>3, <2>2, EventTyped, AnnounceRecorded DEF AnnounceLeft, StateTypeOK, PresenceTypeOK
    <2>4. c \notin byConn /\ c \notin severed
      BY <2>2 DEF Membership
    <2>5. Membership'
      BY <2>1, <2>2, <2>4 DEF Membership
    <2>6. /\ Pending(c) /\ ~Pending(c)'
          /\ \A d \in Conns : (d # c => (Pending(d)' <=> Pending(d))) /\ (Early(d)' <=> Early(d))
      BY <2>1, <2>2, <2>4 DEF Early, Pending
    <2>. QED BY <2>2, <2>3, <2>5, <2>6, LeftStep DEF Listening
  <1>4. ASSUME NEW c \in Conns, TakeHandles(c) PROVE Membership' /\ PresenceAccounted'
    <2>1. UNCHANGED <<byConn, presence, lost, told, severed, ctl>>
      BY <1>4 DEF TakeHandles, registry, stream, controller
    <2>. QED BY <1>4, <2>1, PumpStep DEF TakeHandles, Stages
  <1>5. ASSUME NEW c \in Conns, StartWrite(c) PROVE Membership' /\ PresenceAccounted'
    <2>1. UNCHANGED <<byConn, presence, lost, told, severed, ctl>>
      BY <1>5 DEF StartWrite, registry, stream, controller
    <2>. QED BY <1>5, <2>1, PumpStep DEF StartWrite, Stages
  <1>6. ASSUME NEW c \in Conns, FinishWrite(c) PROVE Membership' /\ PresenceAccounted'
    <2>1. UNCHANGED <<byConn, presence, lost, told, severed, ctl>>
      BY <1>6 DEF FinishWrite, registry, stream, controller
    <2>. QED BY <1>6, <2>1, PumpStep DEF FinishWrite, Stages
  <1>7. ASSUME NEW c \in Conns, FinishForward(c) PROVE Membership' /\ PresenceAccounted'
    <2>1. UNCHANGED <<byConn, presence, lost, told, severed, ctl>>
      BY <1>7 DEF FinishForward, registry, stream, controller
    <2>. QED BY <1>7, <2>1, PumpStep DEF FinishForward, Stages
  <1>8. ASSUME NEW c \in Conns, DeadlineExpires(c) PROVE Membership' /\ PresenceAccounted'
    <2>1. UNCHANGED <<byConn, presence, lost, told, severed, ctl>>
      BY <1>8 DEF DeadlineExpires, registry, stream, controller
    <2>. QED BY <1>8, <2>1, PumpStep DEF DeadlineExpires, Stages
  <1>9. ASSUME NEW c \in Conns, Flush(c) PROVE Membership' /\ PresenceAccounted'
    <2>1. UNCHANGED <<byConn, presence, lost, told, severed, ctl>>
      BY <1>9 DEF Flush, registry, stream, controller
    <2>. QED BY <1>9, <2>1, PumpStep DEF Flush, Stages
  <1>10. ASSUME NEW c \in Conns, SocketEnds(c) PROVE Membership' /\ PresenceAccounted'
    <2>1. UNCHANGED <<byConn, presence, lost, told, severed, ctl>>
      BY <1>10 DEF SocketEnds, registry, stream, controller
    <2>. QED BY <1>10, <2>1, PumpStep DEF SocketEnds, Stages
  <1>11. ASSUME NEW c \in Conns, Read(c) PROVE Membership' /\ PresenceAccounted'
    <2>1. UNCHANGED <<byConn, presence, lost, told, severed, ctl>>
      BY <1>11 DEF Read, registry, stream, controller
    <2>2. CASE task' = task
      BY <2>1, <2>2, UnchangedQuiet, IdleStep DEF Listening
    <2>3. CASE task' # task
      BY <1>11, <2>1, <2>3, PumpStep DEF Read, Stages
    <2>. QED BY <2>2, <2>3
  <1>12. ASSUME NEW c \in Conns, TakeOrder(c) PROVE Membership' /\ PresenceAccounted'
    <2>1. UNCHANGED <<byConn, presence, lost, told, severed, ctl>>
      BY <1>12 DEF TakeOrder, registry, stream, controller
    <2>2. CASE task' = task
      BY <2>1, <2>2, UnchangedQuiet, IdleStep DEF Listening
    <2>3. CASE task' # task
      BY <1>12, <2>1, <2>3, PumpStep DEF TakeOrder, Stages
    <2>. QED BY <2>2, <2>3
  <1>13. ASSUME NEW c \in Conns, Deregister(c) PROVE Membership' /\ PresenceAccounted'
    <2>1. \A d \in Conns :
            task'[d] = IF d # c THEN task[d] ELSE IF c \in byConn THEN "departing" ELSE "gone"
      BY <1>13 DEF Deregister, Goto, StateTypeOK, TaskTypeOK
    <2>2. byConn' = byConn \ {c} /\ task[c] = "leaving"
      BY <1>13 DEF Deregister, Remove
    <2>3. UNCHANGED <<presence, lost, told, severed, ctl>>
      BY <1>13 DEF Deregister, stream, controller
    <2>4. Membership'
      BY <2>1, <2>2, <2>3 DEF Membership
    <2>5. \A d \in Conns : (Early(d)' <=> Early(d)) /\ (Pending(d)' <=> Pending(d))
      BY <2>1, <2>2, <2>3 DEF Early, Pending, Membership
    <2>. QED BY <2>3, <2>4, <2>5, UnchangedQuiet, QuietStep DEF Listening
  <1>14. ASSUME NEW c \in Conns, Sever(c) PROVE Membership' /\ PresenceAccounted'
    <2>1. byConn' = byConn \ {c} /\ severed = {} /\ severed' = {c} \cap byConn
      BY <1>14 DEF Sever, Remove
    <2>2. UNCHANGED <<task, presence, lost, told, ctl>>
      BY <1>14 DEF Sever, stream
    <2>3. Membership'
      BY <2>1, <2>2 DEF Membership
    <2>4. \A d \in Conns : (Early(d)' <=> Early(d)) /\ (Pending(d)' <=> Pending(d))
      BY <2>1, <2>2 DEF Early, Pending
    <2>. QED BY <2>2, <2>3, <2>4, UnchangedQuiet, QuietStep DEF Listening
  <1>15. ASSUME NEW c \in Conns, AnnounceSevered(c) PROVE Membership' /\ PresenceAccounted'
    <2>1. c \in severed /\ severed' = {} /\ UNCHANGED <<task, byConn, told, ctl>>
      BY <1>15 DEF AnnounceSevered, registry
    <2>2. Recorded(Left(c))
      BY <1>15, <2>1, EventTyped, AnnounceRecorded DEF AnnounceSevered, StateTypeOK, PresenceTypeOK
    <2>3. severed = {c} /\ c \notin byConn /\ task[c] \notin {"outside", "departing"}
      BY <2>1 DEF Membership
    <2>4. Membership'
      BY <2>1 DEF Membership
    <2>5. /\ Pending(c) /\ ~Pending(c)'
          /\ \A d \in Conns : (d # c => (Pending(d)' <=> Pending(d))) /\ (Early(d)' <=> Early(d))
      BY <2>1, <2>3 DEF Early, Pending
    <2>. QED BY <2>1, <2>2, <2>4, <2>5, LeftStep DEF Listening
  <1>16. CASE PollPresence
    <2>1. UNCHANGED <<task, byConn, severed>> /\ Listening
      BY <1>16 DEF PollPresence, registry, Listening
    <2>2. Quiet
      <3>1. CASE presence = <<>>
        BY <1>16, <3>1, UnchangedQuiet DEF PollPresence
      <3>2. CASE presence # <<>>
        <4>1. \A f \in Event : AtMostOnce(f)
          <5>1. \A f \in Event : \E c \in Conns : f = Joined(c) \/ f = Left(c)
            BY DEF Event, Joined, Left
          <5>. QED BY <5>1 DEF PresenceAccounted
        <4>. QED BY <1>16, <3>2, <4>1, TakenQuiet DEF PollPresence, StateTypeOK, PresenceTypeOK
      <3>. QED BY <3>1, <3>2
    <2>. QED BY <2>1, <2>2, IdleStep
  <1>17. CASE PollCommands
    <2>1. UNCHANGED <<task, byConn, severed, presence, lost, told>> /\ (Listening' => Listening)
      BY <1>17 DEF PollCommands, registry, stream, controller, Listening
    <2>2. Quiet
      BY <2>1, UnchangedQuiet
    <2>. QED BY <2>1, <2>2, IdleStep
  <1>18. CASE PollOps
    <2>1. UNCHANGED <<task, byConn, severed, presence, lost, told>> /\ (Listening' => Listening)
      BY <1>18 DEF PollOps, registry, stream, controller, Listening
    <2>2. Quiet
      BY <2>1, UnchangedQuiet
    <2>. QED BY <2>1, <2>2, IdleStep
  <1>19. CASE Handled
    <2>1. UNCHANGED <<task, byConn, severed, presence, lost, told>> /\ (Listening' => Listening)
      BY <1>19 DEF Handled, registry, stream, controller, Listening
    <2>2. Quiet
      BY <2>1, UnchangedQuiet
    <2>. QED BY <2>1, <2>2, IdleStep
  <1>20. CASE Bridge
    <2>1. UNCHANGED <<task, byConn, severed, presence, lost, told>> /\ (Listening' => Listening)
      BY <1>20 DEF Bridge, registry, stream, controller, Listening
    <2>2. Quiet
      BY <2>1, UnchangedQuiet
    <2>. QED BY <2>1, <2>2, IdleStep
  <1>21. CASE BridgeStops
    <2>1. UNCHANGED <<task, byConn, severed, presence, lost, told>> /\ (Listening' => Listening)
      BY <1>21 DEF BridgeStops, registry, stream, controller, Listening
    <2>2. Quiet
      BY <2>1, UnchangedQuiet
    <2>. QED BY <2>1, <2>2, IdleStep
  <1>22. ASSUME NEW agents \in SUBSET Agents, Send(agents) PROVE Membership' /\ PresenceAccounted'
    <2>1. UNCHANGED <<task, byConn, severed, presence, lost, told, ctl>>
      BY <1>22 DEF Send, registry, stream
    <2>2. Quiet
      BY <2>1, UnchangedQuiet
    <2>. QED BY <2>1, <2>2, IdleStep DEF Listening
  <1>23. ASSUME NEW c \in Conns, NEW order \in Order, GiveOrder(c, order)
        PROVE  Membership' /\ PresenceAccounted'
    <2>1. UNCHANGED <<task, byConn, severed, presence, lost, told, ctl>>
      BY <1>23 DEF GiveOrder, registry, stream, controller
    <2>2. Quiet
      BY <2>1, UnchangedQuiet
    <2>. QED BY <2>1, <2>2, IdleStep DEF Listening
  <1>24. CASE Stop
    <2>1. UNCHANGED <<task, byConn, severed, told, lost>> /\ presence' = <<>> /\ ~Listening'
      BY <1>24 DEF Stop, registry, Listening
    <2>2. \A f \in Event : (Announced(f)' => Announced(f)) /\ (AtMostOnce(f) => AtMostOnce(f)')
      BY <2>1 DEF Announced, AtMostOnce, OnStream
    <2>3. PresenceAccounted'
      BY <2>1, <2>2, EventTyped DEF PresenceAccounted, Early, Pending
    <2>. QED BY <2>1, <2>3 DEF Membership
  <1>25. CASE UNCHANGED vars
    <2>1. UNCHANGED <<task, byConn, severed, presence, lost, told, ctl>>
      BY <1>25 DEF vars, registry, stream, controller
    <2>2. Quiet
      BY <2>1, UnchangedQuiet
    <2>. QED BY <2>1, <2>2, IdleStep DEF Listening
  <1>. QED
    BY <1>1, <1>2, <1>3, <1>4, <1>5, <1>6, <1>7, <1>8, <1>9, <1>10, <1>11, <1>12, <1>13, <1>14, <1>15, <1>16, <1>17, <1>18, <1>19, <1>20, <1>21, <1>22, <1>23, <1>24, <1>25
    DEF Next, TaskStep, Proceed, Drained, Await, Select, PeerStep, ControllerStep

\* The inductive invariant: types, who is out of the registry, and the accounts.
THEOREM Inductive == Spec => []IInv
  BY InvInit, InvStep, PTL DEF Spec

\* Whoever takes a connection out of the registry, its departure is announced
\* exactly once, or counted; and so is its arrival.
THEOREM PresenceCorrect == Spec => []PresenceAccounted
  <1>1. IInv => PresenceAccounted
    BY DEF IInv
  <1>. QED BY <1>1, Inductive, PTL

\* Once announcements have settled and none was dropped, the controller has heard
\* join, and not leave, exactly the registered connections.
THEOREM RosterCorrect == Spec => []RosterSettles
  <1>1. IInv => RosterSettles
    <2>1. SUFFICES ASSUME IInv, Settled, lost = {}
                   PROVE  {c \in Conns : Joined(c) \in told /\ Left(c) \notin told} = byConn
      BY DEF RosterSettles
    <2>2. \A f \in Event : Announced(f) <=> f \in told
      BY <2>1 DEF Settled, Announced, OnStream
    <2>3. ASSUME NEW c \in Conns
          PROVE  (Joined(c) \in told /\ Left(c) \notin told) <=> c \in byConn
      <3>1. Joined(c) \in told <=> ~Early(c)
        BY <2>1, <2>2, EventTyped DEF IInv, PresenceAccounted, Settled
      <3>2. Left(c) \in told <=> ~Pending(c)
        BY <2>1, <2>2, EventTyped DEF IInv, PresenceAccounted, Settled
      <3>3. Early(c) <=> task[c] = "outside"
        BY <2>1 DEF Early, Settled
      <3>4. Pending(c) <=> (task[c] = "outside" \/ c \in byConn)
        BY <2>1 DEF Pending, Settled
      <3>5. task[c] = "outside" => c \notin byConn
        BY <2>1 DEF IInv, Membership
      <3>. QED BY <3>1, <3>2, <3>3, <3>4, <3>5
    <2>4. byConn \subseteq Conns
      BY <2>1 DEF IInv, StateTypeOK, PresenceTypeOK
    <2>. QED BY <2>3, <2>4
  <1>. QED BY <1>1, Inductive, PTL

-----------------------------------------------------------------------------
(* Arrivals before departures, while only tasks end connections.           *)

StreamOrdered ==
  \A c \in Conns :
    /\ Left(c) \in told => ~OnStream(Joined(c))
    /\ \A i, j \in DOMAIN presence : presence[i] = Left(c) /\ presence[j] = Joined(c) => j < i

OnlyTasksEnd ==
  /\ cut = {} /\ severed = {}
  /\ \A c \in Conns : task[c] \notin {"outside", "departing", "gone", "panicked"} => c \in byConn

OrderInv == overflow.outbound = "Drop" => OnlyTasksEnd /\ StreamOrdered

LEMMA OrderAppended ==
  ASSUME NEW e \in Event, presence \in Seq(Event), StreamOrdered,
         presence' = Append(presence, e), told' = told,
         \A c \in Conns : e = Joined(c) => ~Announced(Left(c))
  PROVE  StreamOrdered'
  <1>1. /\ DOMAIN presence' = 1..(Len(presence) + 1)
        /\ DOMAIN presence = 1..Len(presence)
        /\ Len(presence) \in Nat
        /\ \A i \in 1..Len(presence) : presence'[i] = presence[i]
        /\ presence'[Len(presence) + 1] = e
    BY AppendProperties
  <1>. SUFFICES ASSUME NEW c \in Conns
                PROVE  /\ Left(c) \in told' => ~OnStream(Joined(c))'
                       /\ \A i, j \in DOMAIN presence' :
                            presence'[i] = Left(c) /\ presence'[j] = Joined(c) => j < i
    BY DEF StreamOrdered
  <1>2. Left(c) \in told' => ~OnStream(Joined(c))'
    BY <1>1 DEF StreamOrdered, OnStream, Announced
  <1>3. ASSUME NEW i \in DOMAIN presence', NEW j \in DOMAIN presence',
               presence'[i] = Left(c), presence'[j] = Joined(c)
        PROVE  j < i
    <2>1. i # j
      BY <1>3, EventsDiffer
    <2>2. CASE j = Len(presence) + 1
      <3>1. i \in 1..Len(presence) /\ presence[i] = Left(c) /\ e = Joined(c)
        BY <1>1, <1>3, <2>1, <2>2
      <3>. QED BY <3>1, <1>1 DEF Announced, OnStream
    <2>3. CASE j # Len(presence) + 1
      BY <1>1, <1>3, <2>3 DEF StreamOrdered
    <2>. QED BY <2>2, <2>3
  <1>. QED BY <1>2, <1>3

LEMMA OrderTaken ==
  ASSUME presence \in Seq(Event), presence # <<>>, StreamOrdered,
         presence' = Tail(presence), told' = told \cup {Head(presence)}
  PROVE  StreamOrdered'
  <1>. DEFINE n == Len(presence)
  <1>1. /\ n \in Nat \ {0}
        /\ DOMAIN presence = 1..n /\ DOMAIN presence' = 1..(n - 1)
        /\ \A i \in 1..(n - 1) : presence'[i] = presence[i + 1]
        /\ Head(presence) = presence[1]
    BY HeadTailProperties
  <1>. HIDE DEF n
  <1>. SUFFICES ASSUME NEW c \in Conns
                PROVE  /\ Left(c) \in told' => ~OnStream(Joined(c))'
                       /\ \A i, j \in DOMAIN presence' :
                            presence'[i] = Left(c) /\ presence'[j] = Joined(c) => j < i
    BY DEF StreamOrdered
  <1>2. ASSUME Left(c) \in told', NEW j \in 1..(n - 1), presence'[j] = Joined(c)
        PROVE  FALSE
    <2>1. j + 1 \in 1..n /\ presence[j + 1] = Joined(c) /\ 1 \in 1..n
      BY <1>1, <1>2
    <2>2. CASE Left(c) \in told
      BY <2>1, <2>2, <1>1 DEF StreamOrdered, OnStream
    <2>3. CASE Left(c) = presence[1]
      <3>1. j + 1 < 1
        BY <2>1, <2>3, <1>1 DEF StreamOrdered
      <3>. QED BY <3>1, <1>1
    <2>. QED BY <1>1, <1>2, <2>2, <2>3
  <1>3. ASSUME NEW i \in 1..(n - 1), NEW j \in 1..(n - 1),
               presence'[i] = Left(c), presence'[j] = Joined(c)
        PROVE  j < i
    <2>1. /\ i + 1 \in 1..n /\ presence[i + 1] = Left(c)
          /\ j + 1 \in 1..n /\ presence[j + 1] = Joined(c)
      BY <1>1, <1>3
    <2>2. j + 1 < i + 1
      BY <2>1, <1>1 DEF StreamOrdered
    <2>. QED BY <2>2, <1>1
  <1>. QED BY <1>1, <1>2, <1>3 DEF OnStream

\* Announcing an event keeps the order unless it is an arrival whose departure
\* was announced before it.
LEMMA OrderAnnounced ==
  ASSUME NEW e \in Event, presence \in Seq(Event), StreamOrdered, told' = told,
         TrySend(e) \/ Announce(e),
         \A c \in Conns : e = Joined(c) => ~Announced(Left(c))
  PROVE  StreamOrdered'
  <1>1. CASE Publish(e)
    BY <1>1, OrderAppended DEF Publish
  <1>2. CASE Discard(e)
    BY <1>2 DEF Discard, StreamOrdered, OnStream
  <1>. QED BY <1>1, <1>2 DEF TrySend, Announce

LEMMA OrderUnchanged ==
  ASSUME StreamOrdered, UNCHANGED <<presence, told>>
  PROVE  StreamOrdered'
  BY DEF StreamOrdered, OnStream

LEMMA OrderInit == Init => OrderInv
  BY DEF Init, OrderInv, OnlyTasksEnd, StreamOrdered, OnStream

LEMMA OrderStep ==
  ASSUME IInv, OrderInv, [Next]_vars
  PROVE  OrderInv'
  <1>1. overflow' = overflow
    BY DEF Next, TaskStep, Proceed, Drained, Await, Select, PeerStep, ControllerStep, Register, AnnounceJoin,
           TakeHandles, StartWrite, FinishWrite, Read, FinishForward, TakeOrder, DeadlineExpires,
           Flush, SocketEnds, Deregister, AnnounceLeft, GiveOrder, Bridge, BridgeStops, PollPresence,
           PollCommands, PollOps, Send, Sever, AnnounceSevered, Handled, Stop, vars
  <1>. SUFFICES ASSUME overflow.outbound = "Drop", OnlyTasksEnd, StreamOrdered
                PROVE  OnlyTasksEnd' /\ StreamOrdered'
    BY <1>1 DEF OrderInv
  <1>. USE DEF IInv, StateTypeOK
  <1>2. presence \in Seq(Event)
    BY DEF PresenceTypeOK
  <1>3. task \in [Conns -> Stages]
    BY DEF TaskTypeOK
  <1>4. ASSUME NEW c \in Conns, Register(c) PROVE OnlyTasksEnd' /\ StreamOrdered'
    <2>1. OnlyTasksEnd'
      BY <1>3, <1>4 DEF Register, Goto, Insert, controller, OnlyTasksEnd
    <2>. QED BY <2>1, <1>4, OrderUnchanged DEF Register, stream, controller
  <1>5. ASSUME NEW c \in Conns, AnnounceJoin(c) PROVE OnlyTasksEnd' /\ StreamOrdered'
    <2>1. OnlyTasksEnd'
      BY <1>3, <1>5 DEF AnnounceJoin, Goto, registry, controller, OnlyTasksEnd
    <2>2. ~Announced(Left(c))
      BY <1>5 DEF AnnounceJoin, OnlyTasksEnd, PresenceAccounted, Pending
    <2>3. \A d \in Conns : Joined(c) = Joined(d) => ~Announced(Left(d))
      BY <2>2, EventsDiffer
    <2>. QED BY <2>1, <2>3, <1>2, <1>5, EventTyped, OrderAnnounced DEF AnnounceJoin, controller
  <1>6. ASSUME NEW c \in Conns, AnnounceLeft(c) PROVE OnlyTasksEnd' /\ StreamOrdered'
    <2>1. OnlyTasksEnd'
      BY <1>3, <1>6 DEF AnnounceLeft, Goto, registry, controller, OnlyTasksEnd
    <2>. QED BY <2>1, <1>2, <1>6, EventTyped, EventsDiffer, OrderAnnounced DEF AnnounceLeft, controller
  <1>7. ASSUME NEW c \in Conns, Deregister(c) PROVE OnlyTasksEnd' /\ StreamOrdered'
    <2>1. OnlyTasksEnd'
      BY <1>3, <1>7 DEF Deregister, Goto, Remove, controller, OnlyTasksEnd
    <2>. QED BY <2>1, <1>7, OrderUnchanged DEF Deregister, stream, controller
  <1>8. ASSUME NEW c \in Conns, TakeHandles(c) PROVE OnlyTasksEnd' /\ StreamOrdered'
    <2>1. OnlyTasksEnd'
      BY <1>3, <1>8 DEF TakeHandles, Goto, registry, controller, OnlyTasksEnd
    <2>. QED BY <2>1, <1>8, OrderUnchanged DEF TakeHandles, stream, controller
  <1>9. ASSUME NEW c \in Conns, StartWrite(c) PROVE OnlyTasksEnd' /\ StreamOrdered'
    <2>1. OnlyTasksEnd'
      BY <1>3, <1>9 DEF StartWrite, Goto, registry, controller, OnlyTasksEnd
    <2>. QED BY <2>1, <1>9, OrderUnchanged DEF StartWrite, stream, controller
  <1>10. ASSUME NEW c \in Conns, FinishWrite(c) PROVE OnlyTasksEnd' /\ StreamOrdered'
    <2>1. OnlyTasksEnd'
      BY <1>3, <1>10 DEF FinishWrite, Goto, registry, controller, OnlyTasksEnd
    <2>. QED BY <2>1, <1>10, OrderUnchanged DEF FinishWrite, stream, controller
  <1>11. ASSUME NEW c \in Conns, Read(c) PROVE OnlyTasksEnd' /\ StreamOrdered'
    <2>1. OnlyTasksEnd'
      BY <1>3, <1>11 DEF Read, Goto, registry, controller, OnlyTasksEnd
    <2>. QED BY <2>1, <1>11, OrderUnchanged DEF Read, stream, controller
  <1>12. ASSUME NEW c \in Conns, FinishForward(c) PROVE OnlyTasksEnd' /\ StreamOrdered'
    <2>1. OnlyTasksEnd'
      BY <1>3, <1>12 DEF FinishForward, Goto, registry, controller, OnlyTasksEnd
    <2>. QED BY <2>1, <1>12, OrderUnchanged DEF FinishForward, stream, controller
  <1>13. ASSUME NEW c \in Conns, TakeOrder(c) PROVE OnlyTasksEnd' /\ StreamOrdered'
    <2>1. OnlyTasksEnd'
      BY <1>3, <1>13 DEF TakeOrder, Goto, registry, controller, OnlyTasksEnd
    <2>. QED BY <2>1, <1>13, OrderUnchanged DEF TakeOrder, stream, controller
  <1>14. ASSUME NEW c \in Conns, DeadlineExpires(c) PROVE OnlyTasksEnd' /\ StreamOrdered'
    <2>1. OnlyTasksEnd'
      BY <1>3, <1>14 DEF DeadlineExpires, Goto, registry, controller, OnlyTasksEnd
    <2>. QED BY <2>1, <1>14, OrderUnchanged DEF DeadlineExpires, stream, controller
  <1>15. ASSUME NEW c \in Conns, Flush(c) PROVE OnlyTasksEnd' /\ StreamOrdered'
    <2>1. OnlyTasksEnd'
      BY <1>3, <1>15 DEF Flush, Goto, registry, controller, OnlyTasksEnd
    <2>. QED BY <2>1, <1>15, OrderUnchanged DEF Flush, stream, controller
  <1>16. ASSUME NEW c \in Conns, SocketEnds(c) PROVE OnlyTasksEnd' /\ StreamOrdered'
    <2>1. OnlyTasksEnd'
      BY <1>3, <1>16 DEF SocketEnds, Goto, registry, controller, OnlyTasksEnd
    <2>. QED BY <2>1, <1>16, OrderUnchanged DEF SocketEnds, stream, controller
  <1>17. ASSUME NEW c \in Conns, NEW order \in Order, GiveOrder(c, order) PROVE OnlyTasksEnd' /\ StreamOrdered'
    <2>1. OnlyTasksEnd' /\ UNCHANGED <<presence, told>>
      BY <1>17 DEF GiveOrder, registry, stream, controller, OnlyTasksEnd
    <2>. QED BY <2>1, OrderUnchanged
  <1>18. ASSUME Bridge PROVE OnlyTasksEnd' /\ StreamOrdered'
    <2>1. OnlyTasksEnd' /\ UNCHANGED <<presence, told>>
      BY <1>18 DEF Bridge, registry, stream, controller, OnlyTasksEnd
    <2>. QED BY <2>1, OrderUnchanged
  <1>19. ASSUME BridgeStops PROVE OnlyTasksEnd' /\ StreamOrdered'
    <2>1. OnlyTasksEnd' /\ UNCHANGED <<presence, told>>
      BY <1>19 DEF BridgeStops, registry, stream, controller, OnlyTasksEnd
    <2>. QED BY <2>1, OrderUnchanged
  <1>20. ASSUME PollCommands PROVE OnlyTasksEnd' /\ StreamOrdered'
    <2>1. OnlyTasksEnd' /\ UNCHANGED <<presence, told>>
      BY <1>20 DEF PollCommands, registry, stream, controller, OnlyTasksEnd
    <2>. QED BY <2>1, OrderUnchanged
  <1>21. ASSUME PollOps PROVE OnlyTasksEnd' /\ StreamOrdered'
    <2>1. OnlyTasksEnd' /\ UNCHANGED <<presence, told>>
      BY <1>21 DEF PollOps, registry, stream, controller, OnlyTasksEnd
    <2>. QED BY <2>1, OrderUnchanged
  <1>22. ASSUME Handled PROVE OnlyTasksEnd' /\ StreamOrdered'
    <2>1. OnlyTasksEnd' /\ UNCHANGED <<presence, told>>
      BY <1>22 DEF Handled, registry, stream, controller, OnlyTasksEnd
    <2>. QED BY <2>1, OrderUnchanged
  <1>23. ASSUME NEW agents \in SUBSET Agents, Send(agents) PROVE OnlyTasksEnd' /\ StreamOrdered'
    <2>1. OnlyTasksEnd' /\ UNCHANGED <<presence, told>>
      BY <1>23 DEF Send, registry, stream, controller, OnlyTasksEnd
    <2>. QED BY <2>1, OrderUnchanged
  <1>24. ASSUME UNCHANGED vars PROVE OnlyTasksEnd' /\ StreamOrdered'
    <2>1. OnlyTasksEnd' /\ UNCHANGED <<presence, told>>
      BY <1>24 DEF vars, registry, stream, controller, OnlyTasksEnd
    <2>. QED BY <2>1, OrderUnchanged
  <1>25. CASE PollPresence
    <2>1. OnlyTasksEnd'
      BY <1>25 DEF PollPresence, registry, OnlyTasksEnd
    <2>2. CASE presence = <<>>
      BY <2>1, <2>2, <1>25, OrderUnchanged DEF PollPresence
    <2>3. CASE presence # <<>>
      BY <2>1, <2>3, <1>25, <1>2, OrderTaken DEF PollPresence
    <2>. QED BY <2>2, <2>3
  <1>26. ASSUME NEW c \in Conns, Sever(c) \/ AnnounceSevered(c) PROVE OnlyTasksEnd' /\ StreamOrdered'
    BY <1>26 DEF Sever, AnnounceSevered, OnlyTasksEnd
  <1>27. CASE Stop
    BY <1>27 DEF Stop, registry, OnlyTasksEnd, StreamOrdered, OnStream
  <1>. QED
    BY <1>4, <1>5, <1>6, <1>7, <1>8, <1>9, <1>10, <1>11, <1>12, <1>13, <1>14, <1>15, <1>16, <1>17, <1>18, <1>19, <1>20, <1>21, <1>22, <1>23, <1>24, <1>25, <1>26, <1>27
    DEF Next, TaskStep, Proceed, Drained, Await, Select, PeerStep, ControllerStep

\* While only its own task ends a connection, its departure never overtakes its
\* arrival on the way to the controller.
THEOREM ArrivalsFirst == Spec => []JoinFirst
  <1>1. Spec => []OrderInv
    BY OrderInit, OrderStep, Inductive, PTL DEF Spec
  <1>2. IInv /\ OrderInv => JoinFirst
    <2>1. SUFFICES ASSUME IInv, OnlyTasksEnd, StreamOrdered, NEW c \in Conns
                   PROVE  task[c] = "inserted" => ~Announced(Left(c))
      BY DEF OrderInv, JoinFirst, StreamOrdered
    <2>. QED BY <2>1 DEF IInv, OnlyTasksEnd, PresenceAccounted, Pending
  <1>. QED BY <1>1, <1>2, Inductive, PTL

-----------------------------------------------------------------------------
(* The agent index.                                                        *)

Distinct(s) == \A i, j \in DOMAIN s : s[i] = s[j] => i = j

\* A list of distinct entries with one more is one.
LEMMA AppendListed ==
  ASSUME NEW X, NEW s \in Seq(X), NEW x \in X, Distinct(s), x \notin Range(s)
  PROVE  /\ Append(s, x) \in Seq(X)
         /\ Range(Append(s, x)) = Range(s) \cup {x}
         /\ Distinct(Append(s, x))
  <1>. DEFINE t == Append(s, x)
              n == Len(s)
  <1>1. /\ t \in Seq(X) /\ n \in Nat
        /\ DOMAIN s = 1..n /\ DOMAIN t = 1..(n + 1)
        /\ \A i \in 1..n : t[i] = s[i]
        /\ t[n + 1] = x
    BY AppendProperties
  <1>. HIDE DEF t, n
  <1>2. Range(t) = Range(s) \cup {x}
    <2>1. ASSUME NEW i \in 1..(n + 1) PROVE t[i] \in Range(s) \cup {x}
      <3>1. i \in 1..n \/ i = n + 1
        BY <1>1
      <3>. QED BY <1>1, <3>1 DEF Range
    <2>2. ASSUME NEW i \in 1..n PROVE s[i] \in Range(t)
      <3>1. i \in 1..(n + 1) /\ t[i] = s[i]
        BY <1>1
      <3>. QED BY <1>1, <3>1 DEF Range
    <2>3. x \in Range(t)
      <3>1. n + 1 \in 1..(n + 1)
        BY <1>1
      <3>. QED BY <1>1, <3>1 DEF Range
    <2>. QED BY <1>1, <2>1, <2>2, <2>3 DEF Range
  <1>3. \A i \in 1..n : s[i] # x
    BY <1>1 DEF Range
  <1>4. Distinct(t)
    <2>. SUFFICES ASSUME NEW i \in 1..(n + 1), NEW j \in 1..(n + 1), t[i] = t[j]
                  PROVE  i = j
      BY <1>1 DEF Distinct
    <2>. QED BY <1>1, <1>3 DEF Distinct
  <1>. QED BY <1>1, <1>2, <1>4 DEF t

\* What is left of a list of distinct entries without one of them is one.
LEMMA RetainListed ==
  ASSUME NEW X, NEW s \in Seq(X), NEW x, Distinct(s)
  PROVE  /\ Without(s, x) \in Seq(X)
         /\ Range(Without(s, x)) = Range(s) \ {x}
         /\ Distinct(Without(s, x))
  <1>. DEFINE S == {i \in DOMAIN s : s[i] # x}
              p == Picked(s, S)
  <1>1. Len(s) \in Nat /\ DOMAIN s = 1..Len(s) /\ S \in SUBSET (1..Len(s)) /\ \A i \in S : s[i] \in X
    OBVIOUS
  <1>2. \A i \in S : i \in DOMAIN s /\ s[i] # x
    OBVIOUS
  <1>3. \A i \in DOMAIN s : s[i] # x => i \in S
    OBVIOUS
  <1>. HIDE DEF S
  <1>4. p \in Seq(X) /\ Lists(p, s, S)
    BY <1>1, PickedShape
  <1>. HIDE DEF p
  <1>5. DOMAIN p = 1..Len(p)
    BY <1>4
  <1>6. PICK f \in [1..Len(p) -> S] :
          /\ \A k \in 1..Len(p) : p[k] = s[f[k]]
          /\ \A k, l \in 1..Len(p) : f[k] = f[l] => k = l
          /\ \A i \in S : \E k \in 1..Len(p) : f[k] = i
    BY <1>4 DEF Lists
  <1>7. Range(p) = Range(s) \ {x}
    <2>1. ASSUME NEW k \in 1..Len(p) PROVE p[k] \in Range(s) \ {x}
      BY <1>2, <1>6 DEF Range
    <2>2. ASSUME NEW i \in DOMAIN s, s[i] # x PROVE s[i] \in Range(p)
      <3>1. PICK k \in 1..Len(p) : f[k] = i
        BY <1>3, <1>6, <2>2
      <3>. QED BY <1>5, <1>6, <3>1 DEF Range
    <2>. QED BY <1>5, <2>1, <2>2 DEF Range
  <1>8. Distinct(p)
    <2>. SUFFICES ASSUME NEW k \in 1..Len(p), NEW l \in 1..Len(p), p[k] = p[l]
                  PROVE  k = l
      BY <1>5 DEF Distinct
    <2>1. f[k] \in DOMAIN s /\ f[l] \in DOMAIN s /\ s[f[k]] = s[f[l]]
      BY <1>2, <1>6
    <2>. QED BY <1>6, <2>1 DEF Distinct
  <1>. QED BY <1>4, <1>7, <1>8 DEF p, S, Without

IndexInv == IndexTypeOK /\ IndexAgrees

LEMMA IndexInserted ==
  ASSUME IndexInv, NEW c \in Conns, c \notin byConn, Insert(c)
  PROVE  IndexInv'
  <1>. USE ConnectionsAssumption
  <1>. DEFINE own == AgentOf[c]
  <1>1. /\ own \in Agents /\ byAgent[own] \in Seq(Conns)
        /\ Distinct(byAgent[own]) /\ Range(byAgent[own]) = {d \in byConn : AgentOf[d] = own}
    BY DEF IndexInv, IndexTypeOK, IndexAgrees, Distinct
  <1>2. c \notin Range(byAgent[own])
    BY <1>1
  <1>3. /\ Append(byAgent[own], c) \in Seq(Conns)
        /\ Range(Append(byAgent[own], c)) = Range(byAgent[own]) \cup {c}
        /\ Distinct(Append(byAgent[own], c))
    BY <1>1, <1>2, AppendListed
  <1>4. /\ byAgent' = [byAgent EXCEPT ![own] = Append(byAgent[own], c)]
        /\ byConn' = byConn \cup {c}
    BY DEF Insert
  <1>. HIDE DEF own
  <1>5. IndexTypeOK'
    BY <1>3, <1>4 DEF IndexInv, IndexTypeOK
  <1>6. ASSUME NEW a \in Agents
        PROVE  Range(byAgent'[a]) = {d \in byConn' : AgentOf[d] = a} /\ Distinct(byAgent'[a])
    <2>1. CASE a = own
      <3>1. byAgent'[a] = Append(byAgent[own], c)
        BY <1>4, <2>1 DEF IndexInv, IndexTypeOK
      <3>. QED BY <1>1, <1>3, <1>4, <2>1, <3>1 DEF own
    <2>2. CASE a # own
      <3>1. byAgent'[a] = byAgent[a]
        BY <1>4, <2>2
      <3>2. Range(byAgent[a]) = {d \in byConn : AgentOf[d] = a} /\ Distinct(byAgent[a])
        BY DEF IndexInv, IndexAgrees, Distinct
      <3>. QED BY <1>4, <2>2, <3>1, <3>2 DEF own
    <2>. QED BY <2>1, <2>2
  <1>. QED BY <1>5, <1>6 DEF IndexInv, IndexAgrees, Distinct

LEMMA IndexRemoved ==
  ASSUME IndexInv, NEW c \in Conns, Remove(c)
  PROVE  IndexInv'
  <1>. USE ConnectionsAssumption
  <1>. DEFINE own == AgentOf[c]
              rest == Without(byAgent[own], c)
  <1>1. /\ own \in Agents /\ byAgent[own] \in Seq(Conns)
        /\ Distinct(byAgent[own]) /\ Range(byAgent[own]) = {d \in byConn : AgentOf[d] = own}
    BY DEF IndexInv, IndexTypeOK, IndexAgrees, Distinct
  <1>2. rest \in Seq(Conns) /\ Range(rest) = Range(byAgent[own]) \ {c} /\ Distinct(rest)
    BY <1>1, RetainListed
  <1>3. byAgent' = [byAgent EXCEPT ![own] = rest] /\ byConn' = byConn \ {c}
    BY DEF Remove
  <1>. HIDE DEF own, rest
  <1>4. IndexTypeOK'
    BY <1>2, <1>3 DEF IndexInv, IndexTypeOK
  <1>5. ASSUME NEW a \in Agents
        PROVE  Range(byAgent'[a]) = {d \in byConn' : AgentOf[d] = a} /\ Distinct(byAgent'[a])
    <2>1. CASE a = own
      <3>1. byAgent'[a] = rest
        BY <1>3, <2>1 DEF IndexInv, IndexTypeOK
      <3>. QED BY <1>1, <1>2, <1>3, <2>1, <3>1
    <2>2. CASE a # own
      <3>1. byAgent'[a] = byAgent[a]
        BY <1>3, <2>2
      <3>2. Range(byAgent[a]) = {d \in byConn : AgentOf[d] = a} /\ Distinct(byAgent[a])
        BY DEF IndexInv, IndexAgrees, Distinct
      <3>. QED BY <1>3, <2>2, <3>1, <3>2 DEF own
    <2>. QED BY <2>1, <2>2
  <1>. QED BY <1>4, <1>5 DEF IndexInv, IndexAgrees, Distinct

\* Only registering and taking out of the registry touch the index.
LEMMA IndexTouched ==
  ASSUME [Next]_vars
  PROVE  \/ UNCHANGED <<byConn, byAgent>>
         \/ \E c \in Conns : task[c] = "outside" /\ Insert(c)
         \/ \E c \in Conns : Remove(c)
  <1>1. ASSUME NEW c \in Conns, TaskStep(c) \/ PeerStep(c)
        PROVE  UNCHANGED <<byConn, byAgent>> \/ (task[c] = "outside" /\ Insert(c)) \/ Remove(c)
    BY <1>1 DEF TaskStep, Proceed, Drained, Await, Select, PeerStep, Register, AnnounceJoin, TakeHandles,
                StartWrite, FinishWrite, Read, FinishForward, TakeOrder, DeadlineExpires, Flush,
                SocketEnds, Deregister, AnnounceLeft, registry
  <1>2. ASSUME NEW c \in Conns, Sever(c) \/ AnnounceSevered(c)
        PROVE  UNCHANGED <<byConn, byAgent>> \/ Remove(c)
    BY <1>2 DEF Sever, AnnounceSevered, registry
  <1>3. ASSUME \/ \E c \in Conns, order \in Order : GiveOrder(c, order)
               \/ Bridge \/ BridgeStops
               \/ PollPresence \/ PollCommands \/ PollOps \/ Handled
               \/ \E agents \in SUBSET Agents : Send(agents)
               \/ Stop
               \/ UNCHANGED vars
        PROVE  UNCHANGED <<byConn, byAgent>>
    BY <1>3 DEF GiveOrder, Bridge, BridgeStops, PollPresence, PollCommands, PollOps, Handled, Send,
                Stop, registry, vars
  <1>. QED BY <1>1, <1>2, <1>3 DEF Next, ControllerStep

LEMMA IndexInit == Init => IndexInv
  <1>1. \A a \in Agents : Init => byAgent[a] = <<>> /\ byConn = {}
    BY DEF Init
  <1>2. \A s : s = <<>> => Range(s) = {} /\ Distinct(s) /\ s \in Seq(Conns)
    BY DEF Range, Distinct
  <1>3. Init => IndexTypeOK
    BY DEF Init, IndexTypeOK
  <1>. QED BY <1>1, <1>2, <1>3 DEF IndexInv, IndexAgrees, Distinct

LEMMA IndexStep ==
  ASSUME IInv, IndexInv, [Next]_vars
  PROVE  IndexInv'
  <1>1. CASE UNCHANGED <<byConn, byAgent>>
    BY <1>1 DEF IndexInv, IndexTypeOK, IndexAgrees
  <1>2. ASSUME NEW c \in Conns, task[c] = "outside", Insert(c) PROVE IndexInv'
    BY <1>2, IndexInserted DEF IInv, Membership
  <1>3. ASSUME NEW c \in Conns, Remove(c) PROVE IndexInv'
    BY <1>3, IndexRemoved
  <1>. QED BY <1>1, <1>2, <1>3, IndexTouched

LEMMA IndexInvariant == Spec => []IndexInv
  BY IndexInit, IndexStep, Inductive, PTL DEF Spec

\* The agent index names exactly the registered connections of each agent, each
\* once, however connections register, leave and are cut off (Registry::insert,
\* remove, for_agent).
THEOREM IndexCorrect == Spec => []IndexAgrees
  <1>1. IndexInv => IndexAgrees
    BY DEF IndexInv
  <1>. QED BY <1>1, IndexInvariant, PTL

\* Every variable of the registry, the tasks, the queues and the controller has
\* its type, and every queue its depth.
THEOREM AllTyped == Spec => []TypeOK
  <1>1. IndexInv /\ StateTypeOK => TypeOK
    BY DEF IndexInv, StateTypeOK, TypeOK
  <1>. QED BY <1>1, IndexInvariant, TypeCorrect, PTL

=============================================================================
