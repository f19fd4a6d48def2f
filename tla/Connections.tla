---------------------------- MODULE Connections ----------------------------
(***************************************************************************)
(* A room's session layer and the controller that listens to it:           *)
(*                                                                         *)
(*   the registry of ConnectionManager (session/src/manager.rs), its       *)
(*   presence stream and its inbound path;                                 *)
(*   one task per connection (run_connection in session/src/tcp.rs; the    *)
(*   WebSocket transport's loop has the same arms);                        *)
(*   the select loop of StateController (core/src/controller.rs), whose    *)
(*   application logic may send to anybody at any point of its handlers.   *)
(*                                                                         *)
(* Each of them runs on its own thread: an action is what one of them does *)
(* between two points at which the others may run (an await, or the release*)
(* of the registry's lock).                                                *)
(*                                                                         *)
(* Abstractions.  A frame is a unit of queue space.  Probes, the link      *)
(* conditioner and the budget are left out, and so is admission, which     *)
(* happens before a connection has an identity here.  Every admitted agent *)
(* has an id.  A connection's inbound rate is a choice of its gate.        *)
(***************************************************************************)
EXTENDS Picking, Functions

CONSTANTS
  Conns,             \* the connection ids a behaviour may hand out
  Agents,
  AgentOf,           \* the agent each connection is admitted as
  PresenceCap, RawCap, TypedCap, OutboundCap, OrderCap,  \* queue depths
  PresencePolicies, InboundPolicies, OutboundPolicies,   \* Overflow: what a full queue means
  Gates,             \* Over: what exceeding the inbound rate means
  Order              \* the orders the application gives

ASSUME ConnectionsAssumption ==
  /\ AgentOf \in [Conns -> Agents]
  /\ PresenceCap \in Nat \ {0} /\ RawCap \in Nat \ {0} /\ TypedCap \in Nat \ {0}
  /\ OutboundCap \in Nat \ {0} /\ OrderCap \in Nat \ {0}
  /\ PresencePolicies \subseteq {"Drop", "Backpressure"}
  /\ InboundPolicies \subseteq {"Drop", "Backpressure"}
  /\ OutboundPolicies \subseteq {"Drop", "Disconnect"}
  /\ Gates \subseteq {"Unlimited", "Close"}
  /\ Order \subseteq {"Close", "Arm", "Disarm"}

\* Where a connection's task is.
Stages == {"outside",    \* not admitted yet
           "inserted",   \* register: in the registry, its join not announced
           "registered", \* register returned
           "pumping",    \* run_connection's select
           "forwarding", \* awaiting room in the raw inbound queue
           "writing",    \* awaiting the socket
           "closing",    \* awaiting it behind a close order or an expired deadline
           "leaving",    \* out of the loop, not deregistered
           "departing",  \* out of the registry, its departure not announced
           "gone",
           "panicked"}

Event == [kind : {"Joined", "Left"}, conn : Conns]
Joined(c) == [kind |-> "Joined", conn |-> c]
Left(c) == [kind |-> "Left", conn |-> c]

Overflow == [presence : PresencePolicies, inbound : InboundPolicies,
             outbound : OutboundPolicies, gate : Gates]

VARIABLES
  overflow,   \* the manager's overflow policies, fixed when it is built
  task,       \* where each connection's task is
  byConn,     \* Registry::by_conn
  byAgent,    \* Registry::by_agent
  outbound,   \* frames queued for each connection's socket
  orders,     \* each connection's order queue
  deadline,   \* whether each task's deadline is armed
  follows,    \* ghost: for each connection, those of its agent that were out of
              \* the registry before it was in
  presence,   \* the presence stream
  lost,       \* the events presence_dropped has counted
  raw,        \* inbound frames, still encoded, the one the bridge holds included
  typed,      \* inbound ops the bridge has decoded
  bridging,   \* whether the bridge is running
  ctl,        \* where the controller is
  cut,        \* the connections a send found full and has still to disconnect
  severed,    \* the connection disconnected last, its departure not announced
  told        \* the presence events the controller has taken

registry == <<byConn, byAgent, follows>>
link == <<outbound, orders, deadline>>
stream == <<presence, lost>>
inbound == <<raw, typed, bridging>>
controller == <<ctl, cut, severed, told>>
vars == <<overflow, task, registry, link, stream, inbound, controller>>

Init ==
  /\ overflow \in Overflow
  /\ task = [c \in Conns |-> "outside"]
  /\ byConn = {}
  /\ byAgent = [a \in Agents |-> <<>>]
  /\ outbound = [c \in Conns |-> 0]
  /\ orders = [c \in Conns |-> <<>>]
  /\ deadline = [c \in Conns |-> FALSE]
  /\ follows = [c \in Conns |-> {}]
  /\ presence = <<>>
  /\ lost = {}
  /\ raw = <<>>
  /\ typed = <<>>
  /\ bridging = TRUE
  /\ ctl = "presence"
  /\ cut = {}
  /\ severed = {}
  /\ told = {}

Listening == ctl # "stopped"

Goto(c, stage) == task' = [task EXCEPT ![c] = stage]

-----------------------------------------------------------------------------
(* The registry.                                                           *)

Insert(c) ==
  /\ byAgent' = [byAgent EXCEPT ![AgentOf[c]] = Append(@, c)]
  /\ byConn' = byConn \cup {c}
  /\ follows' = [follows EXCEPT ![c] =
                   {d \in Conns \ byConn : AgentOf[d] = AgentOf[c] /\ task[d] # "outside"}]

\* What retain keeps of an agent's connections.
Without(held, c) == Picked(held, {i \in DOMAIN held : held[i] # c})

MutRemove(c) == byConn' = byConn \ {c} /\ UNCHANGED <<byAgent, follows>>
Remove(c) ==
  /\ byConn' = byConn \ {c}
  /\ byAgent' = [byAgent EXCEPT ![AgentOf[c]] = Without(@, c)]
  /\ UNCHANGED follows

-----------------------------------------------------------------------------
(* The presence stream.                                                    *)

MutRoom == Listening
Room == Listening /\ Len(presence) < PresenceCap

MutPublish(e) ==
  /\ presence' = IF e.kind = "Left" THEN <<e>> \o presence ELSE Append(presence, e)
  /\ UNCHANGED lost
Publish(e) == presence' = Append(presence, e) /\ UNCHANGED lost
MutDiscard(e) == UNCHANGED <<presence, lost>>
Discard(e) == lost' = lost \cup {e} /\ UNCHANGED presence

TrySend(e) == IF Room THEN Publish(e) ELSE Discard(e)

MutAnnounce(e) == TrySend(e)
\* A sender that waits is woken with an error when the receiver is gone.
Announce(e) ==
  \/ overflow.presence = "Drop" /\ TrySend(e)
  \/ overflow.presence = "Backpressure" /\ Room /\ Publish(e)
  \/ overflow.presence = "Backpressure" /\ ~Listening /\ Discard(e)

-----------------------------------------------------------------------------
(* A connection's task.                                                    *)

\* register, up to its await: the hello is the first frame queued.
Register(c) ==
  /\ task[c] = "outside"
  /\ Insert(c)
  /\ outbound' = [outbound EXCEPT ![c] = 1]
  /\ Goto(c, "inserted")
  /\ UNCHANGED <<overflow, orders, deadline, stream, inbound, controller>>

AnnounceJoin(c) ==
  /\ task[c] = "inserted"
  /\ Announce(Joined(c))
  /\ Goto(c, "registered")
  /\ UNCHANGED <<overflow, registry, link, inbound, controller>>

\* link_handle and take_orders, each expected to find what was just registered.
TakeHandles(c) ==
  /\ task[c] = "registered"
  /\ Goto(c, IF c \in byConn THEN "pumping" ELSE "panicked")
  /\ UNCHANGED <<overflow, registry, link, stream, inbound, controller>>

StartWrite(c) ==
  /\ task[c] = "pumping" /\ outbound[c] > 0
  /\ outbound' = [outbound EXCEPT ![c] = @ - 1]
  /\ Goto(c, "writing")
  /\ UNCHANGED <<overflow, registry, orders, deadline, stream, inbound, controller>>

\* A write completes, or fails and ends the connection.  No timer bounds it.
FinishWrite(c) ==
  /\ task[c] = "writing"
  /\ \E next \in {"pumping", "leaving"} : Goto(c, next)
  /\ UNCHANGED <<overflow, registry, link, stream, inbound, controller>>

\* forward_incoming, its answer in: queued, or counted and discarded.
Forward(c) ==
  raw' = IF bridging /\ Len(raw) < RawCap THEN Append(raw, c) ELSE raw

\* route_inbound on an ops frame.  The gate answers for registered connections only.
Read(c) ==
  /\ task[c] = "pumping"
  /\ \/ /\ overflow.gate = "Close" /\ c \in byConn
        /\ Goto(c, "leaving")
        /\ UNCHANGED raw
     \/ /\ overflow.inbound = "Drop"
        /\ Forward(c)
        /\ UNCHANGED task
     \/ /\ overflow.inbound = "Backpressure"
        /\ Goto(c, "forwarding")
        /\ UNCHANGED raw
  /\ UNCHANGED <<overflow, registry, link, stream, typed, bridging, controller>>

\* forward_incoming under Backpressure, once there is room or nobody to read.
FinishForward(c) ==
  /\ task[c] = "forwarding"
  /\ bridging => Len(raw) < RawCap
  /\ Forward(c)
  /\ Goto(c, "pumping")
  /\ UNCHANGED <<overflow, registry, link, stream, typed, bridging, controller>>

TakeOrder(c) ==
  /\ task[c] = "pumping" /\ orders[c] # <<>>
  /\ orders' = [orders EXCEPT ![c] = Tail(@)]
  /\ IF Head(orders[c]) = "Close"
     THEN Goto(c, "closing") /\ UNCHANGED deadline
     ELSE deadline' = [deadline EXCEPT ![c] = Head(orders[c]) = "Arm"] /\ UNCHANGED task
  /\ UNCHANGED <<overflow, registry, outbound, stream, inbound, controller>>

DeadlineExpires(c) ==
  /\ task[c] = "pumping" /\ deadline[c]
  /\ Goto(c, "closing")
  /\ UNCHANGED <<overflow, registry, link, stream, inbound, controller>>

\* What is queued goes out, then the goodbye; nothing bounds these writes either.
Flush(c) ==
  /\ task[c] = "closing"
  /\ outbound' = [outbound EXCEPT ![c] = 0]
  /\ Goto(c, "leaving")
  /\ UNCHANGED <<overflow, registry, orders, deadline, stream, inbound, controller>>

\* The peer closes, or a read fails.
SocketEnds(c) ==
  /\ task[c] = "pumping"
  /\ Goto(c, "leaving")
  /\ UNCHANGED <<overflow, registry, link, stream, inbound, controller>>

MutDeregister(c) ==
  /\ task[c] = "leaving"
  /\ Remove(c)
  /\ Goto(c, "departing")
  /\ UNCHANGED <<overflow, link, stream, inbound, controller>>
\* deregister, up to its await: whoever takes the entry out announces.
Deregister(c) ==
  /\ task[c] = "leaving"
  /\ Remove(c)
  /\ Goto(c, IF c \in byConn THEN "departing" ELSE "gone")
  /\ UNCHANGED <<overflow, link, stream, inbound, controller>>

AnnounceLeft(c) ==
  /\ task[c] = "departing"
  /\ Announce(Left(c))
  /\ Goto(c, "gone")
  /\ UNCHANGED <<overflow, registry, link, inbound, controller>>

\* What the task does by itself, when its peer has read or its socket failed, when
\* a queue has room, and the arms of its select.
Proceed(c) == TakeHandles(c) \/ Deregister(c)
Drained(c) == FinishWrite(c) \/ Flush(c)
Await(c) == AnnounceJoin(c) \/ FinishForward(c) \/ AnnounceLeft(c)
Select(c) == StartWrite(c) \/ TakeOrder(c) \/ DeadlineExpires(c)

TaskStep(c) == Proceed(c) \/ Drained(c) \/ Await(c) \/ Select(c)

PeerStep(c) == Register(c) \/ Read(c) \/ SocketEnds(c)

-----------------------------------------------------------------------------
(* The application's orders, from any thread.                              *)

\* close_connection and set_deadline: taken by a live connection with room.
GiveOrder(c, order) ==
  /\ c \in byConn
  /\ Len(orders[c]) < OrderCap
  /\ orders' = [orders EXCEPT ![c] = Append(@, order)]
  /\ UNCHANGED <<overflow, task, registry, outbound, deadline, stream, inbound, controller>>

-----------------------------------------------------------------------------
(* The deserialize bridge.                                                 *)

\* An ops frame goes on to the controller once there is room; any other frame,
\* and one that does not decode, is dropped.
Bridge ==
  /\ bridging /\ raw # <<>>
  /\ raw' = Tail(raw)
  /\ \/ Listening /\ Len(typed) < TypedCap /\ typed' = Append(typed, Head(raw))
     \/ UNCHANGED typed
  /\ UNCHANGED <<overflow, task, registry, link, stream, bridging, controller>>

\* Its send fails once the controller is gone, and the raw queue goes with it.
BridgeStops ==
  /\ bridging /\ raw # <<>> /\ ~Listening
  /\ bridging' = FALSE
  /\ raw' = <<>>
  /\ UNCHANGED <<overflow, task, registry, link, stream, typed, controller>>

-----------------------------------------------------------------------------
(* The controller.                                                         *)

\* The select's arms are tried in this order, one at a time; nothing ready
\* anywhere means asleep, and the next poll starts over.
PollPresence ==
  /\ ctl = "presence"
  /\ IF presence = <<>>
     THEN ctl' = "commands" /\ UNCHANGED <<presence, told>>
     ELSE /\ presence' = Tail(presence)
          /\ told' = told \cup {Head(presence)}
          /\ ctl' = "handling"
  /\ UNCHANGED <<overflow, task, registry, link, lost, inbound, cut, severed>>

\* A command may be waiting.
PollCommands ==
  /\ ctl = "commands"
  /\ \E next \in {"handling", "ops"} : ctl' = next
  /\ UNCHANGED <<overflow, task, registry, link, stream, inbound, cut, severed, told>>

PollOps ==
  /\ ctl = "ops"
  /\ IF typed = <<>>
     THEN ctl' = "presence" /\ UNCHANGED typed
     ELSE ctl' = "handling" /\ typed' = Tail(typed)
  /\ UNCHANGED <<overflow, task, registry, link, stream, raw, bridging, cut, severed, told>>

\* for_target: the connections of the agents a message is for.
Addressed(agents) == {c \in byConn : \E a \in agents : c \in Range(byAgent[a])}

\* send_message's broadcast: queued for every target with room; the full ones
\* lose the frame, or are cut.
Send(agents) ==
  LET full == {c \in Addressed(agents) : outbound[c] >= OutboundCap}
      room == Addressed(agents) \ full
  IN /\ ctl = "handling" /\ cut = {} /\ severed = {}
     /\ outbound' = [c \in Conns |-> IF c \in room THEN outbound[c] + 1 ELSE outbound[c]]
     /\ cut' = IF overflow.outbound = "Disconnect" THEN full ELSE {}
     /\ UNCHANGED <<overflow, task, registry, orders, deadline, stream, inbound, ctl, severed, told>>

\* disconnect_overflowed: out of the registry ...
Sever(c) ==
  /\ c \in cut /\ severed = {}
  /\ cut' = cut \ {c}
  /\ Remove(c)
  /\ severed' = {c} \cap byConn
  /\ UNCHANGED <<overflow, task, link, stream, inbound, ctl, told>>

\* ... and announced without waiting.
AnnounceSevered(c) ==
  /\ c \in severed
  /\ TrySend(Left(c))
  /\ severed' = {}
  /\ UNCHANGED <<overflow, task, registry, link, inbound, ctl, cut, told>>

Handled ==
  /\ ctl = "handling" /\ cut = {} /\ severed = {}
  /\ ctl' = "presence"
  /\ UNCHANGED <<overflow, task, registry, link, stream, inbound, cut, severed, told>>

\* Shutdown, or a controller dropped: its receivers go with it.
Stop ==
  /\ ctl = "handling" /\ cut = {} /\ severed = {}
  /\ ctl' = "stopped"
  /\ presence' = <<>>
  /\ typed' = <<>>
  /\ UNCHANGED <<overflow, task, registry, link, lost, raw, bridging, cut, severed, told>>

ControllerStep ==
  \/ PollPresence \/ PollCommands \/ PollOps
  \/ Handled
  \/ \E c \in Conns : Sever(c) \/ AnnounceSevered(c)

Next ==
  \/ \E c \in Conns : TaskStep(c) \/ PeerStep(c)
  \/ \E c \in Conns, order \in Order : GiveOrder(c, order)
  \/ Bridge \/ BridgeStops
  \/ ControllerStep
  \/ \E agents \in SUBSET Agents : Send(agents)
  \/ Stop

Spec == Init /\ [][Next]_vars

\* Tasks are scheduled and the controller's handlers end.  A select that is not
\* biased takes every arm that keeps being ready, and a queue's waiting senders
\* all get room in the end: those steps are strongly fair.  A peer owes nothing:
\* it may keep its socket open and never read, and the write then never ends.
Fairness ==
  /\ \A c \in Conns : WF_vars(Proceed(c)) /\ SF_vars(Await(c)) /\ SF_vars(TakeOrder(c))
  /\ WF_vars(Bridge \/ BridgeStops)
  /\ WF_vars(ControllerStep)

FairSpec == Spec /\ Fairness

-----------------------------------------------------------------------------
(* Properties.                                                             *)

IndexTypeOK == byAgent \in [Agents -> Seq(Conns)]

TaskTypeOK ==
  /\ task \in [Conns -> Stages]
  /\ outbound \in [Conns -> 0..OutboundCap]
  /\ orders \in [Conns -> Seq(Order)]
  /\ \A c \in Conns : Len(orders[c]) <= OrderCap
  /\ deadline \in [Conns -> BOOLEAN]
  /\ raw \in Seq(Conns) /\ Len(raw) <= RawCap
  /\ typed \in Seq(Conns) /\ Len(typed) <= TypedCap
  /\ bridging \in BOOLEAN

PresenceTypeOK ==
  /\ overflow \in Overflow
  /\ byConn \subseteq Conns
  /\ follows \in [Conns -> SUBSET Conns]
  /\ presence \in Seq(Event) /\ Len(presence) <= PresenceCap
  /\ lost \subseteq Event
  /\ ctl \in {"presence", "commands", "ops", "handling", "stopped"}
  /\ cut \subseteq Conns /\ severed \subseteq Conns
  /\ told \subseteq Event

\* Every variable has its type and every queue its depth.
TypeOK == IndexTypeOK /\ TaskTypeOK /\ PresenceTypeOK

\* The agent index answers exactly as a scan of the registry would, each
\* connection once (Registry::insert, remove, for_agent; target_matches).
IndexAgrees ==
  \A a \in Agents :
    /\ Range(byAgent[a]) = {c \in byConn : AgentOf[c] = a}
    /\ \A i, j \in DOMAIN byAgent[a] : byAgent[a][i] = byAgent[a][j] => i = j

OnStream(e) == \E i \in DOMAIN presence : presence[i] = e

\* An event was announced: it is on the stream, or taken from it, or counted.
Announced(e) == OnStream(e) \/ e \in told \/ e \in lost

AtMostOnce(e) ==
  /\ \A i, j \in DOMAIN presence : presence[i] = e /\ presence[j] = e => i = j
  /\ OnStream(e) => e \notin told /\ e \notin lost
  /\ ~(e \in told /\ e \in lost)

\* Its arrival is not announced yet; its departure is not.
Early(c) == task[c] \in {"outside", "inserted"}
Pending(c) == task[c] \in {"outside", "departing"} \/ c \in byConn \/ c \in severed

\* A connection's task and a send that found its queue full may both take it out
\* of the registry: one of them announces its departure, once, and a departure or
\* an arrival that is not announced is counted (register, remove, announce,
\* disconnect_overflowed).
PresenceAccounted ==
  \A c \in Conns :
    /\ AtMostOnce(Joined(c)) /\ AtMostOnce(Left(c))
    /\ Announced(Joined(c)) => ~Early(c)
    /\ Announced(Left(c)) => ~Pending(c)
    /\ Listening /\ ~Early(c) => Announced(Joined(c))
    /\ Listening /\ ~Pending(c) => Announced(Left(c))

Settled ==
  /\ Listening
  /\ presence = <<>>
  /\ severed = {}
  /\ \A c \in Conns : task[c] \notin {"inserted", "departing"}

\* Whenever no announcement is on its way and none was dropped, the connections
\* the controller has heard join and not heard leave are the registered ones.
RosterSettles ==
  (Settled /\ lost = {}) => {c \in Conns : Joined(c) \in told /\ Left(c) \notin told} = byConn

\* While only a connection's own task ends it, its departure never overtakes its
\* arrival (register, deregister).
JoinFirst ==
  overflow.outbound = "Drop" =>
    \A c \in Conns :
      /\ task[c] = "inserted" => ~Announced(Left(c))
      /\ Left(c) \in told => ~OnStream(Joined(c))
      /\ \A i, j \in DOMAIN presence :
           (presence[i] = Left(c) /\ presence[j] = Joined(c)) => j < i

Ended(c) == task[c] \in {"gone", "panicked"}

AtSocket(c) == task[c] \in {"writing", "closing"}


\* With presence backpressure the controller hears of every departure, unless
\* it stopped (PresenceOverflow::Backpressure, deregister).
DepartureHeard ==
  \A c \in Conns : task[c] = "departing" ~> (Left(c) \in told \/ ~Listening \/ overflow.presence = "Drop")

\* A client that drops and reconnects at once does not have its departure applied
\* after its return (the docs of PresenceEvent and announce).
DepartureBeforeReturn ==
  [][\A c \in Conns : \A d \in follows[c] :
       (Left(d) \in told' \ told) => Joined(c) \notin told]_vars
=============================================================================
