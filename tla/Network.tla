------------------------------ MODULE Network ------------------------------
(***************************************************************************)
(* The simulated IP network of in-memory-network: nodes with an outbound   *)
(* buffer, one task per node that hands buffered packets to links, one     *)
(* task per link that sends them, one task per link that delivers them,    *)
(* and the task that applies link and node events.                         *)
(*                                                                         *)
(* The runtime is tokio's current-thread one, so a task runs without       *)
(* interruption from one await to the next: every action below is the code *)
(* between two awaits, or one turn of a loop that goes around without      *)
(* awaiting; `running' then keeps every other task off the executor.       *)
(***************************************************************************)
EXTENDS Integers, Sequences, FiniteSets

CONSTANTS
  Node,          \* nodes of the network, by identity
  Link,          \* uni-directional links
  Source,        \* [Link -> Node]: the node a link sends from
  Target,        \* [Link -> Node]: the node it delivers to
  Candidates,    \* [Node -> [Node -> Seq(Link)]]: what walk_links visits, in order
  Delay,         \* [Link -> Nat], in ms
  ExtraDelay,    \* [Link -> Nat]: randomly injected on top of it (0: never)
  Congested,     \* links with congestion_event_ratio > 0
  Bandwidth,     \* [Link -> Nat]: bytes sent per ms
  Capacity,      \* [Node -> Nat]: buffer_size_bytes
  Lossy,         \* nodes with packet_loss_ratio > 0
  Duplicating,   \* nodes with packet_duplication_ratio > 0
  Flow,          \* <<source host, destination host>> pairs that are used
  Size,          \* packet sizes in bytes
  HostEcn,       \* ECN codepoints the sending applications use
  EventLink,     \* links that events may name
  EventNode,     \* nodes whose status events may change
  ClearNode,     \* nodes that clear_buffer events may name
  TimeWarp,      \* DelayMode::TimeWarp (paused clock) or DelayMode::Wait
  YieldLast,     \* TRUE: a task that yields is polled again only when no other
                 \* task is left to poll (tokio's order for instants with fewer
                 \* polls than its event interval); FALSE: in any order
  MaxPackets,    \* bound: packets ever created, duplicates included
  MaxEvents,     \* bound: network events
  Horizon        \* bound: last instant at which hosts send and events occur

VARIABLES
  now,           \* Instant::now()
  running,       \* task that goes on without awaiting, or NoTask
  linkUp,        \* NetworkLink.status
  lastDown,      \* NetworkLink.last_down
  sendDone,      \* PacketPacer.last_send.send_done (0: nothing sent yet)
  nodeUp,        \* Node.status
  lastClear,     \* Node.last_buffer_clear
  available,     \* OutboundBuffer.available_capacity_bytes
  outbound,      \* Node.outbound_tx/rx: BufferedPackets
  inbound,       \* UdpEndpoint.inbound: packets waiting for the application
  outgoing,      \* NetworkLink.outgoing_queue: OutgoingPackets
  handled,       \* watch channels whose value is true
  nextChannel,   \* next watch channel
  pc,            \* where process_link_queue awaits
  cur,           \* the OutgoingPacket it holds
  ahead,         \* preferred links it still has to yield to
  inTransit,     \* NetworkLink.in_transit
  wakeAt,        \* deadline the forwarder sleeps to (Never: waits for a send)
  data,          \* InTransitData of each packet
  nextId,        \* next packet id
  trace,         \* last step the tracer recorded for each packet
  dead,          \* tasks that returned or panicked
  events         \* number of network events so far

clockVars    == <<now, events>>
linkVars     == <<linkUp, lastDown>>
nodeVars     == <<nodeUp, lastClear>>
taskVars     == <<pc, cur, ahead>>
dispatchVars == <<outgoing, handled, nextChannel>>
transitVars  == <<inTransit, wakeAt>>
packetVars   == <<data, nextId>>
vars == <<clockVars, running, linkVars, sendDone, nodeVars, available, outbound,
          inbound, dispatchVars, taskVars, transitVars, packetVars, trace, dead>>

-----------------------------------------------------------------------------
(* Constants and types.                                                     *)

Never   == -1          \* the Option<Instant> None
Id      == 1..MaxPackets
NoTask  == <<"no task">>
NoPlace == "nowhere"
Ecn     == {"none", "ect", "ce"}

Data      == [number: Id, src: Node, dst: Node, size: Size, ecn: Ecn]
Buffered  == [id: Id, since: Nat]
Outgoing  == [id: Id, since: Nat, channel: Nat]
Transit   == [id: Id, sent: Nat, arrival: Nat]
NoPacket  == [id |-> 0, since |-> 0, channel |-> 0]
Waiting   == {"bandwidth", "linkDown", "linkUpSeen", "nodeDown", "nodeUpSeen", "yield"}
Step      == {"None", "InNode", "InTransit", "DroppedOnArrival", "DroppedRandom",
              "DroppedBufferFull", "DroppedBufferCleared", "LostInTransit", "Delivered"}
Task      == ({"link", "forwarder"} \X Link) \cup ({"processor", "host"} \X Node)

ASSUME TopologyAssumption ==
  /\ Source \in [Link -> Node] /\ Target \in [Link -> Node]
  /\ Candidates \in [Node -> [Node -> Seq(Link)]]
  /\ \A n, d \in Node : \A i \in DOMAIN Candidates[n][d] : Source[Candidates[n][d][i]] = n
  /\ NoPlace \notin Node \cup Link

ASSUME ParameterAssumption ==
  /\ Delay \in [Link -> Nat] /\ ExtraDelay \in [Link -> Nat]
  /\ Bandwidth \in [Link -> Nat \ {0}] /\ Capacity \in [Node -> Nat]
  /\ Size \subseteq Nat \ {0} /\ Size # {}
  /\ Flow \subseteq {f \in Node \X Node : f[1] # f[2]} /\ Flow # {}
  /\ HostEcn \subseteq Ecn
  /\ Congested \subseteq Link /\ EventLink \subseteq Link
  /\ Lossy \cup Duplicating \cup EventNode \cup ClearNode \subseteq Node
  /\ TimeWarp \in BOOLEAN /\ YieldLast \in BOOLEAN
  /\ MaxPackets \in Nat \ {0} /\ MaxEvents \in Nat /\ Horizon \in Nat

\* The executor may poll task now.
MayRun(task) == running \in {NoTask, task} /\ task \notin dead

-----------------------------------------------------------------------------
(* Tracer: the last recorded step of a packet, and where it happened.       *)

Recorded(step, place) == [step |-> step, at |-> place]
Track(id, step, place) == trace' = [trace EXCEPT ![id] = Recorded(step, place)]

-----------------------------------------------------------------------------
(* Forwarding.                                                              *)

\* Node::enqueue_outbound, on the part of the state it changes: the buffer's
\* free space and channel, the packets kept and those dropped because the
\* buffer is full.  If the node's processor is gone the channel is closed and
\* the send panics, after the space was reserved.
UncheckedEnqueue(s, n, id, size) ==
  [s EXCEPT !.space = @ - size, !.kept = @ \cup {id},
            !.queue = Append(@, [id |-> id, since |-> now])]
LifoEnqueue(s, n, id, size) ==
  IF s.space < size THEN [s EXCEPT !.full = @ \cup {id}]
  ELSE [s EXCEPT !.space = @ - size, !.kept = @ \cup {id},
                 !.queue = <<[id |-> id, since |-> now]>> \o @]
Enqueue(s, n, id, size) ==
  IF s.panic THEN s
  ELSE IF s.space < size THEN [s EXCEPT !.full = @ \cup {id}]
  ELSE LET closed == <<"processor", n>> \in dead
       IN  [s EXCEPT !.space = @ - size,
                     !.kept  = @ \cup {id},
                     !.queue = IF closed THEN @ ELSE Append(@, [id |-> id, since |-> now]),
                     !.panic = closed]

\* The tail of InMemoryNetwork::forward: the packet, then its duplicate, are
\* enqueued; `copies' is <<id>> or <<id, duplicate>>.  The caller's task dies
\* if that panics.
StoreCopies(n, copies, size, task) ==
  LET s0 == [space |-> available[n], queue |-> outbound[n],
             kept |-> {}, full |-> {}, panic |-> FALSE]
      s1 == Enqueue(s0, n, copies[1], size)
      s  == IF Len(copies) = 1 THEN s1 ELSE Enqueue(s1, n, copies[2], size)
  IN  /\ available' = [available EXCEPT ![n] = s.space]
      /\ outbound' = [outbound EXCEPT ![n] = s.queue]
      /\ trace' = [x \in Id |-> IF x \in s.full THEN Recorded("DroppedBufferFull", n)
                                ELSE IF x \in s.kept THEN Recorded("InNode", n)
                                ELSE trace[x]]
      /\ dead' = IF s.panic THEN dead \cup {task} ELSE dead

\* InMemoryNetwork::forward for packet id, with data d, at node n.  `fresh' is
\* the first packet id that is still free.
ArriveAtDownNode(n, id, d, fresh) ==
  /\ ~nodeUp[n]
  /\ Track(id, "DroppedOnArrival", n)
  /\ data' = [data EXCEPT ![id] = d]
  /\ nextId' = fresh
  /\ UNCHANGED <<inbound, available, outbound, dead>>

ArriveAtEndpoint(n, id, d, fresh) ==
  /\ nodeUp[n] /\ d.dst = n
  /\ inbound' = [inbound EXCEPT ![n] = @ \cup {[id |-> id, arrival |-> now]}]
  /\ Track(id, "InNode", n)
  /\ data' = [data EXCEPT ![id] = d]
  /\ nextId' = fresh
  /\ UNCHANGED <<available, outbound, dead>>

DropRandomly(n, id, d, fresh) ==
  /\ nodeUp[n] /\ d.dst # n /\ n \in Lossy
  /\ Track(id, "DroppedRandom", n)
  /\ data' = [data EXCEPT ![id] = d]
  /\ nextId' = fresh
  /\ UNCHANGED <<inbound, available, outbound, dead>>

StorePacket(n, id, d, fresh, task) ==
  /\ nodeUp[n] /\ d.dst # n
  /\ StoreCopies(n, <<id>>, d.size, task)
  /\ data' = [data EXCEPT ![id] = d]
  /\ nextId' = fresh
  /\ UNCHANGED inbound

DuplicateKeepsId(n, id, d, fresh, task) ==
  /\ nodeUp[n] /\ d.dst # n /\ n \in Duplicating
  /\ StoreCopies(n, <<id, id>>, d.size, task)
  /\ data' = [data EXCEPT ![id] = d]
  /\ nextId' = fresh
  /\ UNCHANGED inbound
StoreDuplicated(n, id, d, fresh, task) ==
  /\ nodeUp[n] /\ d.dst # n /\ n \in Duplicating
  /\ fresh <= MaxPackets
  /\ StoreCopies(n, <<id, fresh>>, d.size, task)
  /\ data' = [data EXCEPT ![id] = d, ![fresh] = d]
  /\ nextId' = fresh + 1
  /\ UNCHANGED inbound

Forward(n, id, d, fresh, task) ==
  \/ ArriveAtDownNode(n, id, d, fresh)
  \/ ArriveAtEndpoint(n, id, d, fresh)
  \/ DropRandomly(n, id, d, fresh)
  \/ StorePacket(n, id, d, fresh, task)
  \/ StoreDuplicated(n, id, d, fresh, task)

-----------------------------------------------------------------------------
(* Hosts: InMemoryUdpSocket::try_send and poll_recv.                        *)

HostSend(f, size, ecn) ==
  /\ running = NoTask /\ now <= Horizon
  /\ nextId <= MaxPackets
  /\ <<"host", f[1]>> \notin dead
  /\ Forward(f[1], nextId,
             [number |-> nextId, src |-> f[1], dst |-> f[2], size |-> size, ecn |-> ecn],
             nextId + 1, <<"host", f[1]>>)
  /\ UNCHANGED <<clockVars, running, linkVars, sendDone, nodeVars, dispatchVars,
                 taskVars, transitVars>>

\* InboundQueue pops in the order of arrival time, then packet number.
Precedes(x, y) ==
  \/ x.arrival < y.arrival
  \/ x.arrival = y.arrival /\ data[x.id].number <= data[y.id].number

HostReceive(n) ==
  /\ running = NoTask
  /\ \E x \in inbound[n] :
       /\ \A y \in inbound[n] : Precedes(x, y)
       /\ inbound' = [inbound EXCEPT ![n] = @ \ {x}]
       /\ Track(x.id, "Delivered", n)
  /\ UNCHANGED <<clockVars, running, linkVars, sendDone, nodeVars, available, outbound,
                 dispatchVars, taskVars, transitVars, packetVars, dead>>

-----------------------------------------------------------------------------
(* process_buffer_for_node: hand the oldest buffered packet to every        *)
(* candidate link.  Which link sends it is settled by the watch channel.    *)

\* Candidate positions that are reached before a link whose task is dead.
Reached(links) ==
  {i \in DOMAIN links : \A j \in 1..i : <<"link", links[j]>> \notin dead}

Dispatch(n) ==
  /\ MayRun(<<"processor", n>>)
  /\ outbound[n] # <<>>
  /\ LET p     == Head(outbound[n])
         links == Candidates[n][data[p.id].dst]
         copy  == [id |-> p.id, since |-> p.since, channel |-> nextChannel]
         Copies(l) == Cardinality({i \in Reached(links) : links[i] = l})
     IN  /\ outgoing' = [l \in Link |-> outgoing[l] \o [k \in 1..Copies(l) |-> copy]]
         \* No route, or a link's task is gone: the processor ends for good.
         /\ dead' = IF links = <<>> \/ Reached(links) # DOMAIN links
                    THEN dead \cup {<<"processor", n>>} ELSE dead
         /\ nextChannel' = IF links = <<>> THEN nextChannel ELSE nextChannel + 1
  /\ outbound' = [outbound EXCEPT ![n] = Tail(@)]
  /\ running' = IF Tail(outbound[n]) = <<>> \/ <<"processor", n>> \in dead'
                THEN NoTask ELSE <<"processor", n>>
  /\ UNCHANGED <<clockVars, linkVars, sendDone, nodeVars, available, inbound,
                 handled, taskVars, transitVars, packetVars, trace>>

-----------------------------------------------------------------------------
(* What can run now.                                                        *)

EarlyCanSend(l) == sendDone[l] <= now + 1
CanSend(l) == sendDone[l] <= now
\* The semaphore is only taken by this link's own task, which is not waiting
\* when it asks: it is always free here.
HasBandwidthAvailable(l) == linkUp[l] /\ CanSend(l)

\* The timer is set once, for the packet at the head of the queue; it is not
\* moved when a packet with an earlier arrival time is sent afterwards.
WokenPastDeadline(l) ==
  IF wakeAt[l] = Never THEN inTransit[l] # {} ELSE wakeAt[l] < now
ForwarderWoken(l) ==
  IF wakeAt[l] = Never THEN inTransit[l] # {} ELSE wakeAt[l] <= now

Arrived(S) == {x \in S : x.arrival <= now}

EarliestArrival(S) ==
  IF S = {} THEN Never ELSE CHOOSE t \in {x.arrival : x \in S} : \A x \in S : t <= x.arrival

IsDownOnArrival(l, instant) == ~linkUp[l]
WasDownAfter(l, instant) == lastDown[l] > instant

\* A link task that the executor would poll now, yielding ones aside.
LinkTaskRunnable(l) ==
  /\ <<"link", l>> \notin dead
  /\ \/ pc[l] = "idle" /\ outgoing[l] # <<>>
     \/ pc[l] \in Waiting \ {"yield"} /\ cur[l].channel \in handled
     \/ pc[l] \in {"linkUpSeen", "nodeUpSeen"}
     \/ pc[l] = "bandwidth" /\ CanSend(l)

Busy ==
  \/ \E l \in Link : LinkTaskRunnable(l)
  \/ \E l \in Link : ForwarderWoken(l) /\ <<"forwarder", l>> \notin dead
  \/ \E n \in Node : outbound[n] # <<>> /\ <<"processor", n>> \notin dead
  \/ \E n \in Node : inbound[n] # {}

Yielding(l) == pc[l] = "yield"

-----------------------------------------------------------------------------
(* process_link_queue, NetworkLink::sleep_until_ready_to_send and           *)
(* NetworkLink::send.                                                       *)

\* PacketPacer::track_send: the sending time in ms, rounded up.
SendDuration(l, size) == (size + Bandwidth[l] - 1) \div Bandwidth[l]

\* How many preferred links a packet to dst has in front of l.
LinksAhead(l, dst) ==
  LET links == Candidates[Source[l]][dst]
  IN  Cardinality({i \in DOMAIN links : \A j \in 1..i : links[j] # l})

\* Back to awaiting the queue, which is no pause while it holds packets.
GoIdle(l) ==
  /\ running' = IF outgoing'[l] = <<>> \/ <<"link", l>> \in dead' THEN NoTask ELSE <<"link", l>>
  /\ pc' = [pc EXCEPT ![l] = "idle"]
  /\ cur' = [cur EXCEPT ![l] = NoPacket]
  /\ ahead' = [ahead EXCEPT ![l] = 0]

Await(l, where, o, k) ==
  /\ running' = NoTask
  /\ pc' = [pc EXCEPT ![l] = where]
  /\ cur' = [cur EXCEPT ![l] = o]
  /\ ahead' = [ahead EXCEPT ![l] = k]
  /\ UNCHANGED <<handled, sendDone, available, inTransit, data, trace, dead>>

\* The source node's buffer was cleared after the packet came in.
ClearedThisInstant(l, o) == o.since < lastClear[Source[l]] /\ lastClear[Source[l]] = now
ClearedFromBuffer(l, o) == o.since < lastClear[Source[l]]

\* Such a packet is dropped here, when its turn comes.  Nothing gives its
\* space back.
DropClearedUntracked(l, o) ==
  /\ ClearedFromBuffer(l, o)
  /\ UNCHANGED <<sendDone, available, inTransit, data, dead, trace>>
  /\ GoIdle(l)
DropCleared(l, o) ==
  /\ ClearedFromBuffer(l, o)
  /\ Track(o.id, "DroppedBufferCleared", Source[l])
  /\ UNCHANGED <<sendDone, available, inTransit, data, dead>>
  /\ GoIdle(l)

\* The assertions at the head of NetworkLink::send.
SendAsserts(l, o, congestion) ==
  CanSend(l) /\ linkUp[l] /\ (congestion => data[o.id].ecn = "ect")

SendWithoutRelease(l, o, congestion, extra) ==
  /\ ~ClearedFromBuffer(l, o)
  /\ SendAsserts(l, o, congestion)
  /\ Track(o.id, "InTransit", l)
  /\ sendDone' = [sendDone EXCEPT ![l] = now + SendDuration(l, data[o.id].size)]
  /\ inTransit' = [inTransit EXCEPT ![l] =
                     @ \cup {[id |-> o.id, sent |-> now, arrival |-> now + Delay[l] + extra]}]
  /\ UNCHANGED <<available, data, dead>>
  /\ GoIdle(l)
SendUntracked(l, o, congestion, extra) ==
  /\ ~ClearedFromBuffer(l, o)
  /\ SendAsserts(l, o, congestion)
  /\ sendDone' = [sendDone EXCEPT ![l] = now + SendDuration(l, data[o.id].size)]
  /\ available' = [available EXCEPT ![Source[l]] = @ + data[o.id].size]
  /\ inTransit' = [inTransit EXCEPT ![l] =
                     @ \cup {[id |-> o.id, sent |-> now, arrival |-> now + Delay[l] + extra]}]
  /\ UNCHANGED <<data, dead, trace>>
  /\ GoIdle(l)
SendOnLink(l, o, congestion, extra) ==
  /\ ~ClearedFromBuffer(l, o)
  /\ SendAsserts(l, o, congestion)
  /\ Track(o.id, "InTransit", l)
  /\ data' = IF congestion THEN [data EXCEPT ![o.id].ecn = "ce"] ELSE data
  /\ sendDone' = [sendDone EXCEPT ![l] = now + SendDuration(l, data[o.id].size)]
  /\ available' = [available EXCEPT ![Source[l]] = @ + data[o.id].size]
  /\ inTransit' = [inTransit EXCEPT ![l] =
                     @ \cup {[id |-> o.id, sent |-> now, arrival |-> now + Delay[l] + extra]}]
  /\ UNCHANGED dead
  /\ GoIdle(l)

SendPanics(l, o, congestion) ==
  /\ ~ClearedFromBuffer(l, o)
  /\ ~SendAsserts(l, o, congestion)
  /\ dead' = dead \cup {<<"link", l>>}
  /\ GoIdle(l)
  /\ UNCHANGED <<sendDone, available, inTransit, data, trace>>

\* generate_packet_anomalies: what the two random draws may give for a link.
CongestionDraw(l) == IF l \in Congested THEN BOOLEAN ELSE {FALSE}
ExtraDelayDraw(l) == {0, ExtraDelay[l]}

\* The end of the loop body: mark the packet handled, then drop or send it.
\* The anomalies are drawn for each copy at dispatch; they are not looked at
\* before this point, so they are chosen here.
TransmitUnmarked(l, o) ==
  /\ UNCHANGED handled
  /\ \/ DropCleared(l, o)
     \/ \E congestion \in CongestionDraw(l), extra \in ExtraDelayDraw(l) :
          SendOnLink(l, o, congestion, extra)
     \/ \E congestion \in CongestionDraw(l) : SendPanics(l, o, congestion)
Transmit(l, o) ==
  /\ handled' = handled \cup {o.channel}
  /\ \/ DropCleared(l, o)
     \/ \E congestion \in CongestionDraw(l), extra \in ExtraDelayDraw(l) :
          SendOnLink(l, o, congestion, extra)
     \/ \E congestion \in CongestionDraw(l) : SendPanics(l, o, congestion)

Offer(l, o, k) == IF k = 0 THEN Transmit(l, o) ELSE Await(l, "yield", o, k - 1)

\* The loop of sleep_until_ready_to_send, from its top, after the link is
\* known to have come up, and after the node is known to have come up.
LoopTop(l, o) ==
  \/ ~linkUp[l] /\ Await(l, "linkDown", o, 0)
  \/ linkUp[l] /\ ~nodeUp[Source[l]] /\ Await(l, "nodeDown", o, 0)
  \/ linkUp[l] /\ nodeUp[Source[l]] /\ Offer(l, o, LinksAhead(l, data[o.id].dst))

AfterLinkUp(l, o) ==
  IF ~nodeUp[Source[l]] THEN Await(l, "nodeDown", o, 0) ELSE LoopTop(l, o)

AfterNodeUp(l, o) ==
  IF linkUp[l] THEN Offer(l, o, LinksAhead(l, data[o.id].dst)) ELSE Await(l, "linkDown", o, 0)

linkTaskFrame == <<clockVars, linkVars, nodeVars, outbound, inbound, nextChannel,
                   wakeAt, nextId>>

\* With the real clock the pacer may become free between the two readings of
\* it, in process_link_queue and at the head of sleep_until_ready_to_send, whose
\* assertion then ends the task.
WaitPanics(l) ==
  /\ ~TimeWarp /\ linkUp[l] /\ sendDone[l] = now + 1
  /\ dead' = dead \cup {<<"link", l>>}
  /\ UNCHANGED <<handled, sendDone, available, inTransit, data, trace>>
  /\ GoIdle(l)

\* Take the next OutgoingPacket; one that another link handled is let go.
TakePacket(l) ==
  /\ MayRun(<<"link", l>>)
  /\ pc[l] = "idle" /\ outgoing[l] # <<>>
  /\ outgoing' = [outgoing EXCEPT ![l] = Tail(@)]
  /\ LET o == Head(outgoing[l])
     IN  \/ /\ o.channel \in handled
            /\ UNCHANGED <<handled, sendDone, available, inTransit, data, trace, dead>>
            /\ GoIdle(l)
         \/ /\ o.channel \notin handled /\ HasBandwidthAvailable(l)
            /\ Offer(l, o, LinksAhead(l, data[o.id].dst))
         \/ o.channel \notin handled /\ ~CanSend(l) /\ Await(l, "bandwidth", o, 0)
         \/ o.channel \notin handled /\ CanSend(l) /\ ~linkUp[l] /\ LoopTop(l, o)
         \/ WaitPanics(l)
  /\ UNCHANGED linkTaskFrame

\* A waiting task learns, before anything else, that another link won.
Discard(l) ==
  /\ MayRun(<<"link", l>>)
  /\ pc[l] \in Waiting /\ cur[l].channel \in handled
  /\ Yielding(l) /\ YieldLast => ~Busy
  /\ UNCHANGED <<handled, sendDone, available, inTransit, data, trace, dead, outgoing>>
  /\ GoIdle(l)
  /\ UNCHANGED linkTaskFrame

Resume(l) ==
  /\ MayRun(<<"link", l>>)
  /\ pc[l] \in Waiting /\ cur[l].channel \notin handled
  /\ UNCHANGED outgoing
  /\ \/ pc[l] = "bandwidth" /\ CanSend(l) /\ LoopTop(l, cur[l])
     \/ pc[l] = "linkUpSeen" /\ AfterLinkUp(l, cur[l])
     \/ pc[l] = "nodeUpSeen" /\ AfterNodeUp(l, cur[l])
     \/ Yielding(l) /\ (YieldLast => ~Busy) /\ Offer(l, cur[l], ahead[l])
  /\ UNCHANGED linkTaskFrame

-----------------------------------------------------------------------------
(* forward_packets_from_link_to_node and NextPacketDelivery::poll.          *)

SetTimer(l) ==
  /\ MayRun(<<"forwarder", l>>)
  /\ wakeAt[l] = Never /\ inTransit[l] # {} /\ Arrived(inTransit[l]) = {}
  /\ wakeAt' = [wakeAt EXCEPT ![l] = EarliestArrival(inTransit[l])]
  /\ UNCHANGED <<clockVars, running, linkVars, sendDone, nodeVars, available, outbound,
                 inbound, dispatchVars, taskVars, inTransit, packetVars, trace, dead>>

LoseInTransit(l, x) ==
  /\ WasDownAfter(l, x.sent)
  /\ Track(x.id, "LostInTransit", l)
  /\ UNCHANGED <<inbound, available, outbound, packetVars, dead>>

\* The next packet of the batch of delivered packets.  The batch ends when it
\* is empty; a panic drops what is left of it.
DeliverNext(l) ==
  /\ MayRun(<<"forwarder", l>>)
  /\ ForwarderWoken(l)
  /\ \E x \in Arrived(inTransit[l]) :
       /\ \A y \in Arrived(inTransit[l]) : Precedes(x, y)
       /\ \/ LoseInTransit(l, x)
          \/ /\ ~WasDownAfter(l, x.sent)
             /\ Forward(Target[l], x.id, data[x.id], nextId, <<"forwarder", l>>)
       /\ LET rest == IF <<"forwarder", l>> \in dead'
                      THEN inTransit[l] \ Arrived(inTransit[l]) ELSE inTransit[l] \ {x}
          IN  /\ inTransit' = [inTransit EXCEPT ![l] = rest]
              /\ running' = IF Arrived(rest) = {} THEN NoTask ELSE <<"forwarder", l>>
              /\ wakeAt' = [wakeAt EXCEPT ![l] = EarliestArrival(rest)]
  /\ UNCHANGED <<clockVars, linkVars, sendDone, nodeVars, dispatchVars, taskVars>>

-----------------------------------------------------------------------------
(* Network events and the clock.                                            *)

\* NetworkLink::update_status.  Coming up completes the notifier of the down
\* period that ends, whatever the status is when the waiting task runs.
SilentLinkEvent(l, up) ==
  /\ running = NoTask /\ now <= Horizon /\ events < MaxEvents
  /\ events' = events + 1
  /\ linkUp' = [linkUp EXCEPT ![l] = up]
  /\ lastDown' = IF linkUp[l] /\ ~up THEN [lastDown EXCEPT ![l] = now] ELSE lastDown
  /\ UNCHANGED <<now, running, sendDone, nodeVars, available, outbound, inbound,
                 dispatchVars, taskVars, transitVars, packetVars, trace, dead>>
LinkEvent(l, up) ==
  /\ running = NoTask /\ now <= Horizon /\ events < MaxEvents
  /\ events' = events + 1
  /\ linkUp' = [linkUp EXCEPT ![l] = up]
  /\ lastDown' = IF linkUp[l] /\ ~up THEN [lastDown EXCEPT ![l] = now] ELSE lastDown
  /\ pc' = IF ~linkUp[l] /\ up /\ pc[l] = "linkDown"
           THEN [pc EXCEPT ![l] = "linkUpSeen"] ELSE pc
  /\ UNCHANGED <<now, running, sendDone, nodeVars, available, outbound, inbound,
                 dispatchVars, cur, ahead, transitVars, packetVars, trace, dead>>

\* process_node_event: Node::update_status, then Node::clear_buffer.
NodeEvent(n, up, clear) ==
  /\ running = NoTask /\ now <= Horizon /\ events < MaxEvents
  /\ events' = events + 1
  /\ nodeUp' = [nodeUp EXCEPT ![n] = up]
  /\ lastClear' = IF clear THEN [lastClear EXCEPT ![n] = now] ELSE lastClear
  /\ pc' = [l \in Link |-> IF Source[l] = n /\ ~nodeUp[n] /\ up /\ pc[l] = "nodeDown"
                           THEN "nodeUpSeen" ELSE pc[l]]
  /\ UNCHANGED <<now, running, linkVars, sendDone, available, outbound, inbound,
                 dispatchVars, cur, ahead, transitVars, packetVars, trace, dead>>

TimerPending ==
  \E l \in Link : \/ pc[l] = "bandwidth" /\ ~CanSend(l)
                  \/ wakeAt[l] > now /\ <<"forwarder", l>> \notin dead

\* tokio's paused clock moves only when no task can run; the real one moves at
\* any time.
Tick ==
  /\ running = NoTask
  /\ TimeWarp => ~Busy /\ \A l \in Link : ~Yielding(l)
  /\ now < Horizon \/ TimerPending
  /\ now' = now + 1
  /\ UNCHANGED <<events, running, linkVars, sendDone, nodeVars, available, outbound, inbound,
                 dispatchVars, taskVars, transitVars, packetVars, trace, dead>>

-----------------------------------------------------------------------------
\* InMemoryNetwork::initialize.  Links and nodes whose first status event is
\* "up" begin down; the initial events that say so run at the start instant.
Init ==
  /\ now = 0 /\ running = NoTask /\ events = 0
  /\ \E down \in SUBSET EventLink :
       /\ linkUp = [l \in Link |-> l \notin down]
       /\ lastDown = [l \in Link |-> IF l \in down THEN 0 ELSE Never]
  /\ \E down \in SUBSET EventNode : nodeUp = [n \in Node |-> n \notin down]
  /\ lastClear = [n \in Node |-> Never]
  /\ sendDone = [l \in Link |-> 0]
  /\ available = Capacity
  /\ outbound = [n \in Node |-> <<>>]
  /\ inbound = [n \in Node |-> {}]
  /\ outgoing = [l \in Link |-> <<>>]
  /\ handled = {} /\ nextChannel = 0
  /\ pc = [l \in Link |-> "idle"]
  /\ cur = [l \in Link |-> NoPacket]
  /\ ahead = [l \in Link |-> 0]
  /\ inTransit = [l \in Link |-> {}]
  /\ wakeAt = [l \in Link |-> Never]
  /\ data = [id \in Id |-> CHOOSE d \in Data : TRUE]
  /\ nextId = 1
  /\ trace = [id \in Id |-> Recorded("None", NoPlace)]
  /\ dead = {}

LinkTask(l) == TakePacket(l) \/ Discard(l) \/ Resume(l)
Forwarder(l) == SetTimer(l) \/ DeliverNext(l)

Next ==
  \/ \E f \in Flow, size \in Size, ecn \in HostEcn : HostSend(f, size, ecn)
  \/ \E n \in Node : HostReceive(n)
  \/ \E n \in Node : Dispatch(n)
  \/ \E l \in Link : LinkTask(l)
  \/ \E l \in Link : Forwarder(l)
  \/ \E l \in EventLink, up \in BOOLEAN : LinkEvent(l, up)
  \/ \E n \in EventNode, up \in BOOLEAN : NodeEvent(n, up, FALSE)
  \/ \E n \in ClearNode : \E up \in {nodeUp[n]} \cup {u \in BOOLEAN : n \in EventNode} :
       NodeEvent(n, up, TRUE)
  \/ Tick

Spec == Init /\ [][Next]_vars
=============================================================================
